--------------------------- MODULE SwitchService ---------------------------
(***************************************************************************)
(* What the command queue and the processing thread promise to the callers, *)
(* without queues, threads or radios: commands are accepted, performed at   *)
(* most once each, not before their time, instant ones in the order they    *)
(* were accepted, a performed command moves no switch but its own, and      *)
(* answers follow in the order of performance.  The service may stop for    *)
(* good.  RadioNetwork implements this module.                              *)
(***************************************************************************)
EXTENDS Integers, Sequences

CONSTANTS
  Switches,   \* the switches of all boards
  Commands,   \* [commandType, index, status, notBefore], the accepted ones
  MaxTime     \* bound: the clock stops here

VARIABLES
  accepted,   \* the commands accepted, by number
  performed,  \* the numbers of the commands performed, in order
  answered,   \* the numbers of the commands answered, in order
  on,         \* the switches that are on
  now,        \* the clock
  up          \* the service has not stopped

vars == <<accepted, performed, answered, on, now, up>>

Values(s) == {s[i] : i \in DOMAIN s}
Kind(u) == accepted[u].commandType
\* Nothing is promised of when a command comes whose index no switch has.
Instant(u) == Kind(u) # "SetSingleSwitchDelay" /\ accepted[u].index \in Switches
NeedsRadio(u) == Kind(u) # "GetNumSwitches"
Waiting == {u \in DOMAIN accepted : NeedsRadio(u)} \ Values(performed)

Init ==
  /\ accepted = <<>>
  /\ performed = <<>>
  /\ answered = <<>>
  /\ on = {}
  /\ now = 0
  /\ up = TRUE

Accept ==
  /\ up
  /\ Len(accepted') = Len(accepted) + 1
  /\ accepted'[Len(accepted) + 1] \in Commands
  /\ accepted' = Append(accepted, accepted'[Len(accepted) + 1])
  /\ UNCHANGED <<performed, answered, on, now, up>>

\* What performing command u may do to the switches.
Effects(u) ==
  CASE Kind(u) = "GetSingleSwitch" -> {on}
    [] Kind(u) = "PassThrough" -> SUBSET Switches
    [] OTHER -> {IF accepted[u].status THEN on \cup {accepted[u].index}
                 ELSE on \ {accepted[u].index}}

MayPerform(u) ==
  /\ up
  /\ u \in Waiting
  /\ now >= accepted[u].notBefore
  /\ Instant(u) => \A v \in Waiting : Instant(v) => u <= v
  /\ performed' = Append(performed, u)
  /\ UNCHANGED <<accepted, answered, now>>

Perform(u) == MayPerform(u) /\ on' \in Effects(u) /\ UNCHANGED up

\* The command may or may not have had its effect, and the service stops.
PerformAndStop(u) == MayPerform(u) /\ on' \in {on} \cup Effects(u) /\ up' = FALSE

\* Answers to commands that use the radio come in the order of performance.
Answer(u) ==
  /\ up
  /\ u \in DOMAIN accepted \ (Waiting \cup Values(answered))
  /\ \A i \in DOMAIN performed : performed[i] = u =>
       \A j \in 1..i-1 : performed[j] \in Values(answered)
  /\ answered' = Append(answered, u)
  /\ UNCHANGED <<accepted, performed, on, now, up>>

Stop ==
  /\ up
  /\ up' = FALSE
  /\ UNCHANGED <<accepted, performed, answered, on, now>>

Tick ==
  /\ now < MaxTime
  /\ now' = now + 1
  /\ UNCHANGED <<accepted, performed, answered, on, up>>

Next ==
  \/ Accept
  \/ \E u \in DOMAIN accepted : Perform(u) \/ PerformAndStop(u) \/ Answer(u)
  \/ Stop
  \/ Tick

Spec == Init /\ [][Next]_vars
=============================================================================
