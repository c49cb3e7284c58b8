-------------------------- MODULE MCCommandProtocol -------------------------
(***************************************************************************)
(* Small instances of CommandProtocol: every type of command but            *)
(* GetMultipleSwitches, with parameters whose bytes differ, and bytes that  *)
(* look like command types.                                                 *)
(***************************************************************************)
EXTENDS CommandProtocol

Command(type, index, status, mask, delay, bytes) ==
  [type |-> type, index |-> index, status |-> status, mask |-> mask,
   delay |-> delay, data |-> bytes]

Set == Command(CmdSetSingleSwitch, 258, 1, {}, 0, <<>>)
Get == Command(CmdGetSingleSwitch, 49664, 0, {}, 0, <<>>)
GetNum == Command(CmdGetNumSwitches, 0, 0, {}, 0, <<>>)
SetMultiple == Command(CmdSetMultipleSwitches, 1, 0, {0, 9, 63}, 0, <<>>)
SetDelay == Command(CmdSetSingleSwitchDelay, 3, 0, {}, 50001, <<>>)
PassThrough == Command(CmdPassThrough, 0, 0, {}, 0, <<197, 104>>)
PackOf(s) == [type |-> MultipleCommandHeader, commands |-> s]

ProtocolCommands ==
  {Set, Get, GetNum, SetMultiple, SetDelay, PassThrough,
   PackOf(<<GetNum, Set>>), PackOf(<<PassThrough, Get, GetNum>>)}

\* What the theorems assume of the commands holds of these.
ASSUME FitTheProtocol
=============================================================================
