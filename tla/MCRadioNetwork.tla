--------------------------- MODULE MCRadioNetwork ---------------------------
(***************************************************************************)
(* Small instances of RadioNetwork: the sets of calls the runs choose from. *)
(***************************************************************************)
EXTENDS RadioNetwork

Call(type, index, status, delay, mask, data) ==
  [commandType |-> type, index |-> index, status |-> status,
   delay |-> delay, mask |-> mask, data |-> data]

Set(index, status) == Call("SetSingleSwitch", index, status, 0, {}, <<>>)
SetDelay(index, status, delay) ==
  Call("SetSingleSwitchDelay", index, status, delay, {}, <<>>)
SetMultiple(offset, mask) ==
  Call("SetMultipleSwitches", offset, FALSE, 0, mask, <<>>)
GetMultiple == Call("GetMultipleSwitches", 0, FALSE, 0, {}, <<>>)
Get(index) == Call("GetSingleSwitch", index, FALSE, 0, {}, <<>>)
GetNum == Call("GetNumSwitches", 0, FALSE, 0, {}, <<>>)
PassThrough(data) == Call("PassThrough", 0, FALSE, 0, {}, data)

\* Two boards of four: the last switch of the first board and the first and last
\* of the second, set, read, delayed.
SwitchCalls == {Set(3, TRUE), Set(3, FALSE), Set(4, TRUE), SetDelay(3, TRUE, 1),
                Get(3), Get(7), GetMultiple, GetNum}

\* Delays of different lengths, and around them a mask over the last two
\* switches, instant commands, and a broadcast of which one byte goes out.
ServiceCalls == {SetDelay(0, FALSE, 1), SetDelay(0, TRUE, 2),
                 SetMultiple(2, {1}), PassThrough(<<"e", "f">>), GetNum}
=============================================================================
