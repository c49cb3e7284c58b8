----------------------------- MODULE MCXBeeNet -----------------------------
(* An instance of XBeeNet: two of the types of a mode, the first of every    *)
(* mode, which takes no messages, and one that does.  One client structure   *)
(* makes calls; the other, where there is one, makes only connections.       *)
EXTENDS XBeeNet
CONSTANTS c1, c2

NetTypes == <<[name |-> "Modem Status", tx |-> FALSE], [name |-> "Data", tx |-> TRUE]>>
NetCalls == [c \in Clients |->
  IF c = c1 THEN {"new", "tx", "sleep", "settings", "end"} ELSE {"new"}]
=============================================================================
