---------------------------- MODULE MCSwitchServer --------------------------
(***************************************************************************)
(* Small instances of SwitchServer: what the clients may send.              *)
(***************************************************************************)
EXTENDS SwitchServer

Call(type, index, status, mask) ==
  [commandType |-> type, index |-> index, status |-> status,
   delay |-> 0, mask |-> mask, data |-> <<>>]

SetFirst == Call("SetSingleSwitch", 0, TRUE, {})
GetNum == Call("GetNumSwitches", 0, FALSE, {})
SetLast == Call("SetMultipleSwitches", 3, FALSE, {0})
SetPastLast == Call("SetMultipleSwitches", 4, FALSE, {0})

ServerCalls == {SetFirst, GetNum, SetLast, SetPastLast}

\* A mask; a mask that begins past the last switch and gets no reply; a pack with
\* a reply of two bytes, whose second reply may find its client gone.
SessionMessages == {<<SetLast>>, <<SetPastLast>>, <<GetNum, SetFirst>>}
=============================================================================
