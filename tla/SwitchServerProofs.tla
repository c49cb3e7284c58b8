-------------------------- MODULE SwitchServerProofs -------------------------
(***************************************************************************)
(* Proofs about RadioNetwork, for every number of boards, switches,         *)
(* commands and seconds, and every set of calls: that its commands are      *)
(* conserved, and, from there, when and in which order they are sent; then  *)
(* that replies say what the boards did, and that it implements             *)
(* SwitchService.                                                           *)
(*                                                                          *)
(* Then about SwitchServer: the whole server uses the radio network as      *)
(* RadioNetwork says, so that what is proved of RadioNetwork holds of the   *)
(* server; and its sessions give each client the replies to its own         *)
(* commands as long as it is there.                                         *)
(***************************************************************************)
EXTENDS SwitchServer, TLAPS

-----------------------------------------------------------------------------
(***************************************************************************)
(* The numbers in a queue.                                                  *)
(***************************************************************************)

\* Adding a command at the tail adds its number.
LEMMA UidsOfAppend ==
  ASSUME NEW S, NEW s \in Seq(S), NEW c \in S
  PROVE  Uids(Append(s, c)) = Uids(s) \cup {c.uid}
<1> DEFINE t == Append(s, c)
           n == Len(s)
<1>1. /\ n \in Nat
      /\ DOMAIN s = 1..n
      /\ DOMAIN t = 1..n+1
      /\ t[n+1] = c
      /\ \A i \in 1..n : t[i] = s[i]
  OBVIOUS
<1> HIDE DEF t, n
<1>2. \A u \in Uids(t) : u \in Uids(s) \cup {c.uid}
  BY <1>1 DEF Uids
<1>3. \A u \in Uids(s) \cup {c.uid} : u \in Uids(t)
  BY <1>1 DEF Uids
<1> QED BY <1>2, <1>3 DEF t

\* A number the queue does not have keeps the numbers distinct.
LEMMA DistinctAppend ==
  ASSUME NEW S, NEW s \in Seq(S), NEW c \in S,
         DistinctUids(s), c.uid \notin Uids(s)
  PROVE  DistinctUids(Append(s, c))
  BY DEF Uids, DistinctUids

\* Taking the head takes its number, and only that.
LEMMA UidsOfTail ==
  ASSUME NEW S, NEW s \in Seq(S), s # <<>>, DistinctUids(s)
  PROVE  /\ Head(s).uid \in Uids(s)
         /\ Uids(Tail(s)) = Uids(s) \ {Head(s).uid}
         /\ DistinctUids(Tail(s))
<1> DEFINE t == Tail(s)
           n == Len(s)
<1>1. /\ n \in Nat /\ n >= 1
      /\ DOMAIN s = 1..n
      /\ DOMAIN t = 1..n-1
      /\ Head(s) = s[1]
      /\ \A i \in 1..n-1 : t[i] = s[i+1]
  OBVIOUS
<1> HIDE DEF t, n
<1>0. \A i, j \in 1..n : s[i].uid = s[j].uid => i = j
  BY <1>1 DEF DistinctUids
<1>2. Head(s).uid \in Uids(s)
  BY <1>1 DEF Uids
<1>3. \A u \in Uids(t) : u \in Uids(s) \ {Head(s).uid}
  <2>1. SUFFICES ASSUME NEW i \in 1..n-1
                 PROVE  t[i].uid \in Uids(s) \ {Head(s).uid}
    BY <1>1 DEF Uids
  <2>2. i + 1 \in 1..n /\ i + 1 # 1 /\ 1 \in 1..n
    BY <1>1
  <2>3. t[i] = s[i+1] /\ s[i+1].uid # s[1].uid
    BY <1>1, <1>0, <2>2
  <2> QED BY <1>1, <2>2, <2>3 DEF Uids
<1>4. \A u \in Uids(s) \ {Head(s).uid} : u \in Uids(t)
  <2>1. SUFFICES ASSUME NEW j \in 1..n, s[j].uid # Head(s).uid
                 PROVE  s[j].uid \in Uids(t)
    BY <1>1 DEF Uids
  <2>2. j - 1 \in 1..n-1 /\ (j - 1) + 1 = j
    BY <1>1, <2>1
  <2> QED BY <1>1, <2>2 DEF Uids
<1>5. DistinctUids(t)
  <2>1. SUFFICES ASSUME NEW i \in 1..n-1, NEW j \in 1..n-1, t[i].uid = t[j].uid
                 PROVE  i = j
    BY <1>1 DEF DistinctUids
  <2>2. i + 1 \in 1..n /\ j + 1 \in 1..n
    BY <1>1
  <2>3. s[i+1].uid = s[j+1].uid
    BY <1>1, <2>1
  <2>4. i + 1 = j + 1
    BY <1>0, <2>2, <2>3
  <2> QED BY <2>4
<1> QED BY <1>2, <1>3, <1>4, <1>5 DEF t

LEMMA EmptyQueue == Uids(<<>>) = {} /\ DistinctUids(<<>>)
  BY DEF Uids, DistinctUids

LEMMA EndpointType == ASSUME NEW i \in Nat
  PROVE EndpointOf(i) \in Nat /\ IndexInEndpoint(i) \in Nat
  BY SpecAssumption DEF EndpointOf, IndexInEndpoint, SpecAssumption

LEMMA NumSwitchesType == NumSwitches \in Nat /\ NumSwitches % 65536 \in Nat
  BY SpecAssumption DEF NumSwitches, SpecAssumption

-----------------------------------------------------------------------------
(***************************************************************************)
(* Types.                                                                   *)
(***************************************************************************)

\* Every byte the code picks is one a board may get.
LEMMA ByteType ==
  ASSUME NEW i \in Nat, NEW status \in BOOLEAN
  PROVE  CommandByte(i, status) \in Bytes
<1>1. \A k \in 1..8 : command_table[k] \in Bytes
  BY DEF Bytes
<1>2. OtherByte \in Bytes
  BY DEF Bytes
<1>3. \A k : (IF k \in 1..8 THEN command_table[k] ELSE OtherByte) \in Bytes
  BY <1>1, <1>2
<1> QED BY <1>3 DEF CommandByte

\* What _FillCommand, _FillCommandA and the PassThrough case fill in is a
\* RadioCommand, over the limit or not.
LEMMA FillType ==
  ASSUME NEW uid \in Nat, NEW type \in CommandTypes, NEW index \in Nat,
         NEW status \in BOOLEAN, NEW trigger \in Nat
  PROVE  /\ FillCommand(uid, type, index, status, trigger) \in RadioCommand
         /\ FillStatusQuery(uid, index, trigger) \in RadioCommand
<1>1. EndpointOf(index) \in Nat /\ IndexInEndpoint(index) \in Nat
  BY EndpointType
<1>2. CommandByte(IndexInEndpoint(index), status) \in Bytes
  BY <1>1, ByteType
<1>3. StatusQuery \in Bytes /\ "GetSingleSwitch" \in CommandTypes
  BY DEF Bytes, CommandTypes
<1>4. (~OverLimit(index)) \in BOOLEAN
  BY DEF OverLimit
<1>5. FillCommand(uid, type, index, status, trigger) \in CommandFields
  BY <1>1, <1>2, <1>4 DEF FillCommand, CommandFields
<1>6. FillStatusQuery(uid, index, trigger) \in CommandFields
  BY <1>1, <1>3, <1>4 DEF FillStatusQuery, CommandFields
<1>7. ~OverLimit(index) => EndpointOf(index) \in Endpoints
  BY <1>1, SpecAssumption DEF OverLimit, Endpoints, SpecAssumption
<1> QED BY <1>5, <1>6, <1>7 DEF RadioCommand, FillCommand, FillStatusQuery

LEMMA PassThroughType ==
  ASSUME NEW uid \in Nat, NEW byte \in Bytes, now \in Nat
  PROVE  FillPassThrough(uid, byte) \in RadioCommand
  BY SpecAssumption
  DEF FillPassThrough, RadioCommand, CommandFields, CommandTypes, Endpoints,
      SpecAssumption

LEMMA NoCommandType == NoCommand \in RadioCommand /\ NoReply \in Reply
  BY DEF NoCommand, NoReply, RadioCommand, CommandFields, Reply, CommandTypes, Bytes

LEMMA ReplyType ==
  ASSUME NEW c \in RadioCommand
  PROVE  ReplyTo(c) \in Reply
<1>1. ReplyValue(c) \in Nat
  BY NumSwitchesType DEF ReplyValue
<1>2. ReplySize(c) \in 0..2
  BY DEF ReplySize
<1> QED BY <1>1, <1>2 DEF ReplyTo, Reply, RadioCommand, CommandFields

\* A call's parameters.
LEMMA RequestType ==
  ASSUME NEW r \in Requests
  PROVE  /\ r.commandType \in CommandTypes
         /\ r.index \in Nat
         /\ r.status \in BOOLEAN
         /\ r.delay \in Nat
         /\ r.data \in Seq(Bytes)
         /\ r.commandType # "SetSingleSwitchDelay" => r.delay = 0
<1>1. r \in Request
  BY RequestAssumption DEF RequestAssumption
<1>2. UInt16 \subseteq Nat
  BY DEF UInt16
<1> QED BY <1>1, <1>2 DEF Request, Parameters

LEMMA TriggerType ==
  ASSUME now \in Nat, NEW index, NEW t \in TriggerTimes(index)
  PROVE  t \in Nat
  BY BoundAssumption DEF TriggerTimes, Never, BoundAssumption

\* A command without a delay, as far as the processing thread can tell.
Immediate(c) == c.filled /\ c.commandType # "SetSingleSwitchDelay"

\* The commands that are sent, and what stays of them in their replies.
RadioTypes == SetTypes \cup {"GetSingleSwitch", "PassThrough"}
UsesRadio(x) == x.commandType # "GetNumSwitches"

\* A step of the socket thread adds command c to one of the queues, and a to
\* what has been accepted; a filled command is due when a says, and has the
\* index of a switch.
Adds(c, a) ==
  /\ c.uid = NextUid
  /\ a.commandType = c.commandType
  /\ c.filled => a.notBefore = c.triggerTime
  /\ Immediate(c) => a.notBefore = now
  /\ accepted' = Append(accepted, a)
  /\ \/ /\ gCommandQueue' = AddCommand(gCommandQueue, c)
        /\ UNCHANGED gAwaitingReturnQueue
        /\ c.commandType \in RadioTypes
        /\ c.filled <=> ~OverLimit(a.index)
     \/ /\ gAwaitingReturnQueue' = AddCommand(gAwaitingReturnQueue, c)
        /\ UNCHANGED gCommandQueue
        /\ ~UsesRadio(c)

\* What a call records.
LEMMA AcceptType ==
  ASSUME TypeOK, NEW r \in Requests, NEW index \in Nat, NEW status \in BOOLEAN,
         Accept(r, index, status)
  PROVE  \E a \in Accepted : /\ a.commandType = r.commandType
                             /\ a.index = index
                             /\ a.notBefore = now + r.delay
                             /\ accepted' = Append(accepted, a)
<1>1. now + r.delay \in Nat
  BY RequestType, BoundAssumption DEF TypeOK, BoundAssumption
<1>2. [commandType |-> r.commandType, index |-> index, status |-> status,
       notBefore |-> now + r.delay] \in Accepted
  BY <1>1, RequestType DEF Accepted
<1> QED BY <1>2 DEF Accept

\* The call in progress, as TypeOK has it.
BatchOK ==
  /\ batch = <<>> \/ batch \in Requests \X (0..64)
  /\ batch # <<>> => batch[1].commandType = "SetMultipleSwitches"

\* Each call, and each turn of the loop over a mask, adds one command, or
\* leaves the queues alone.
LEMMA SocketThreadAdds ==
  ASSUME TypeOK, SocketThread
  PROVE  /\ \/ \E c \in RadioCommand, a \in Accepted : Adds(c, a)
            \/ UNCHANGED <<gCommandQueue, gAwaitingReturnQueue, accepted>>
         /\ BatchOK'
<1> DEFINE Goal == /\ \/ \E c \in RadioCommand, a \in Accepted : Adds(c, a)
                      \/ UNCHANGED <<gCommandQueue, gAwaitingReturnQueue, accepted>>
                   /\ BatchOK'
<1>0. ASSUME batch' = <<>> PROVE BatchOK'
  BY <1>0 DEF BatchOK
<1>1. now \in Nat /\ NextUid \in Nat
  BY BoundAssumption DEF TypeOK, BoundAssumption, NextUid
<1>2. ASSUME NEW r \in Requests, AppendSetSingle(r) PROVE Goal
  <2>1. PICK t \in TriggerTimes(r.index) : gCommandQueue' = AddCommand(gCommandQueue,
          FillCommand(NextUid, r.commandType, r.index, r.status, t + r.delay))
    BY <1>2 DEF AppendSetSingle
  <2> DEFINE c == FillCommand(NextUid, r.commandType, r.index, r.status, t + r.delay)
  <2>2. t + r.delay \in Nat /\ t \in Nat
    BY <1>1, TriggerType, RequestType
  <2>3. c \in RadioCommand
    BY <1>1, <2>2, FillType, RequestType
  <2>4. PICK a \in Accepted : /\ a.commandType = r.commandType
                              /\ a.index = r.index
                              /\ a.notBefore = now + r.delay
                              /\ accepted' = Append(accepted, a)
    BY <1>2, AcceptType, RequestType DEF AppendSetSingle
  <2>5. /\ c.uid = NextUid /\ c.commandType = r.commandType
        /\ c.filled = ~OverLimit(r.index) /\ c.triggerTime = t + r.delay
    BY DEF FillCommand
  <2>6. ~OverLimit(r.index) => t = now
    BY DEF TriggerTimes
  <2>7. Immediate(c) => r.delay = 0
    BY <2>5, RequestType DEF Immediate
  <2>8. gCommandQueue' = AddCommand(gCommandQueue, c) /\ UNCHANGED gAwaitingReturnQueue
    BY <1>2, <2>1 DEF AppendSetSingle
  <2> HIDE DEF c
  <2>9. c.filled => a.notBefore = c.triggerTime
    BY <2>4, <2>5, <2>6
  <2>10. Immediate(c) => a.notBefore = now
    BY <1>1, <2>4, <2>7
  <2>11. Adds(c, a)
    BY <1>2, <2>4, <2>5, <2>8, <2>9, <2>10 DEF Adds, AppendSetSingle, RadioTypes, SetTypes
  <2>12. batch' = <<>>
    BY <1>2 DEF AppendSetSingle, CanAppend
  <2> QED BY <1>0, <2>3, <2>11, <2>12
<1>3. ASSUME NEW r \in Requests, AppendGetSingle(r) PROVE Goal
  <2>1. PICK t \in TriggerTimes(r.index) : gCommandQueue' = AddCommand(gCommandQueue,
          FillStatusQuery(NextUid, r.index, t))
    BY <1>3 DEF AppendGetSingle
  <2> DEFINE c == FillStatusQuery(NextUid, r.index, t)
  <2>2. t \in Nat
    BY <1>1, TriggerType
  <2>3. c \in RadioCommand
    BY <1>1, <2>2, FillType, RequestType
  <2>4. PICK a \in Accepted : /\ a.commandType = r.commandType
                              /\ a.index = r.index
                              /\ a.notBefore = now + r.delay
                              /\ accepted' = Append(accepted, a)
    BY <1>3, AcceptType, RequestType DEF AppendGetSingle
  <2>5. /\ c.uid = NextUid /\ c.commandType = r.commandType
        /\ c.filled = ~OverLimit(r.index) /\ c.triggerTime = t
    BY <1>3 DEF FillStatusQuery, AppendGetSingle
  <2>6. (~OverLimit(r.index) => t = now) /\ r.delay = 0
    BY <1>3, RequestType DEF TriggerTimes, AppendGetSingle
  <2>7. gCommandQueue' = AddCommand(gCommandQueue, c) /\ UNCHANGED gAwaitingReturnQueue
    BY <1>3, <2>1 DEF AppendGetSingle
  <2> HIDE DEF c
  <2>8. a.notBefore = now
    BY <1>1, <2>4, <2>6
  <2>9. c.filled => a.notBefore = c.triggerTime
    BY <2>5, <2>6, <2>8
  <2>10. Adds(c, a)
    BY <1>3, <2>4, <2>5, <2>7, <2>8, <2>9 DEF Adds, AppendGetSingle, RadioTypes
  <2>11. batch' = <<>>
    BY <1>3 DEF AppendGetSingle, CanAppend
  <2> QED BY <1>0, <2>3, <2>10, <2>11
<1>4. ASSUME NEW r \in Requests, AppendPassThrough(r) PROVE Goal
  <2>1. PICK b \in (IF r.data = <<>> THEN Bytes ELSE {Head(r.data)}) :
          gCommandQueue' = AddCommand(gCommandQueue, FillPassThrough(NextUid, b))
    BY <1>4 DEF AppendPassThrough
  <2> DEFINE c == FillPassThrough(NextUid, b)
  <2>2. r.data \in Seq(Bytes)
    BY RequestType
  <2>3. b \in Bytes
    BY <2>2, <2>1
  <2>4. c \in RadioCommand
    BY <1>1, <2>3, PassThroughType
  <2>5. PICK a \in Accepted : /\ a.commandType = r.commandType
                              /\ a.index = 0
                              /\ a.notBefore = now + r.delay
                              /\ accepted' = Append(accepted, a)
    BY <1>4, AcceptType DEF AppendPassThrough
  <2>6. /\ c.uid = NextUid /\ c.commandType = r.commandType /\ c.triggerTime = now
        /\ c.filled /\ c.commandType = "PassThrough"
    BY <1>4 DEF FillPassThrough, AppendPassThrough
  <2>7. r.delay = 0
    BY <1>4, RequestType DEF AppendPassThrough
  <2>8. gCommandQueue' = AddCommand(gCommandQueue, c) /\ UNCHANGED gAwaitingReturnQueue
    BY <1>4, <2>1 DEF AppendPassThrough
  <2> HIDE DEF c
  <2>9. a.notBefore = now
    BY <1>1, <2>5, <2>7
  <2>10. ~OverLimit(0)
    BY SpecAssumption DEF OverLimit, EndpointOf, SpecAssumption
  <2>12. Adds(c, a)
    BY <2>5, <2>6, <2>8, <2>9, <2>10 DEF Adds, RadioTypes
  <2>11. batch' = <<>>
    BY <1>4 DEF AppendPassThrough, CanAppend
  <2> QED BY <1>0, <2>4, <2>11, <2>12
<1>5. ASSUME NEW r \in Requests, AppendGetNum(r) PROVE Goal
  <2> DEFINE c == [NoCommand EXCEPT !.uid = NextUid]
  <2>1. c \in RadioCommand
    BY <1>1, NoCommandType DEF NoCommand, RadioCommand, CommandFields
  <2>2. PICK a \in Accepted : /\ a.commandType = r.commandType
                              /\ a.index = 0
                              /\ a.notBefore = now + r.delay
                              /\ accepted' = Append(accepted, a)
    BY <1>5, AcceptType DEF AppendGetNum
  <2>3. c.uid = NextUid /\ c.commandType = r.commandType /\ ~c.filled /\ ~UsesRadio(c)
    BY <1>5 DEF NoCommand, AppendGetNum, UsesRadio
  <2>4. gAwaitingReturnQueue' = AddCommand(gAwaitingReturnQueue, c) /\ UNCHANGED gCommandQueue
    BY <1>5 DEF AppendGetNum
  <2> HIDE DEF c
  <2>5. Adds(c, a)
    BY <2>2, <2>3, <2>4 DEF Adds, Immediate
  <2>6. batch' = <<>>
    BY <1>5 DEF AppendGetNum, CanAppend
  <2> QED BY <1>0, <2>1, <2>5, <2>6
<1>6. ASSUME NEW r \in Requests, BeginSetMultiple(r) PROVE Goal
  <2>1. batch' = <<r, 0>> /\ r.commandType = "SetMultipleSwitches"
    BY <1>6 DEF BeginSetMultiple
  <2>2. BatchOK'
    BY <2>1 DEF BatchOK
  <2> QED BY <1>6, <2>2 DEF BeginSetMultiple, queueVars
<1>7. ASSUME AppendNextOfBatch PROVE Goal
  <2> DEFINE r == batch[1]
             i == batch[2]
             c == FillCommand(NextUid, r.commandType, r.index + i, i \in r.mask, now)
  <2>1. batch \in Requests \X (0..64)
    BY <1>7 DEF AppendNextOfBatch, TypeOK
  <2>2. r \in Requests /\ i \in 0..64
    BY <2>1
  <2>3. /\ i < 64 /\ batch' = <<r, i + 1>> /\ r.index + i < NumSwitches
        /\ gCommandQueue' = AddCommand(gCommandQueue, c)
        /\ Accept(r, r.index + i, i \in r.mask)
        /\ UNCHANGED gAwaitingReturnQueue
    BY <1>7 DEF AppendNextOfBatch
  <2>4. /\ c.uid = NextUid /\ c.commandType = r.commandType /\ c.triggerTime = now
        /\ c.filled <=> ~OverLimit(r.index + i)
    BY DEF FillCommand
  <2>5. i + 1 \in 0..64 /\ i \in Nat
    BY <2>2, <2>3
  <2>6. r.commandType = "SetMultipleSwitches"
    BY <1>7 DEF AppendNextOfBatch, TypeOK
  <2> HIDE DEF r, i
  <2>7. BatchOK'
    BY <2>2, <2>3, <2>5, <2>6 DEF BatchOK
  <2>8. r.index + i \in Nat /\ r.commandType \in CommandTypes
    BY <2>2, <2>5, RequestType
  <2>9. (i \in r.mask) \in BOOLEAN
    OBVIOUS
  <2>10. c \in RadioCommand
    BY <1>1, <2>8, <2>9, FillType
  <2>11. PICK a \in Accepted : /\ a.commandType = r.commandType
                               /\ a.index = r.index + i
                               /\ a.notBefore = now + r.delay
                               /\ accepted' = Append(accepted, a)
    <3> DEFINE index == r.index + i
               status == i \in r.mask
    <3>1. index \in Nat /\ status \in BOOLEAN /\ Accept(r, index, status)
      BY <2>3, <2>8, <2>9
    <3> HIDE DEF index, status
    <3>2. \E b \in Accepted : /\ b.commandType = r.commandType
                             /\ b.index = index
                             /\ b.notBefore = now + r.delay
                             /\ accepted' = Append(accepted, b)
      BY <2>2, <3>1, AcceptType
    <3> QED BY <3>2 DEF index
  <2>12. r.delay = 0
    BY <2>2, <2>6, RequestType
  <2> HIDE DEF c
  <2>13. Adds(c, a)
    BY <1>1, <2>3, <2>4, <2>6, <2>11, <2>12 DEF Adds, RadioTypes, SetTypes
  <2> QED BY <2>7, <2>10, <2>13
<1>8. ASSUME EndBatch PROVE Goal
  BY <1>0, <1>8 DEF EndBatch, queueVars
<1>9. ASSUME NEW r \in Requests, AppendGetMultiple(r) PROVE Goal
  BY <1>9 DEF AppendGetMultiple, queueVars, BatchOK, TypeOK
<1> QED
  BY <1>2, <1>3, <1>4, <1>5, <1>6, <1>7, <1>8, <1>9 DEF SocketThread, RadioNetworkAppendCommand

SocketTypes ==
  /\ gCommandQueue' \in Seq(RadioCommand)
  /\ gAwaitingReturnQueue' \in Seq(RadioCommand)
  /\ BatchOK'
  /\ accepted' \in Seq(Accepted)

\* Each step of the socket thread keeps the types.
LEMMA SocketThreadType ==
  ASSUME TypeOK, SocketThread
  PROVE  SocketTypes
<1>1. CASE UNCHANGED <<gCommandQueue, gAwaitingReturnQueue, accepted>>
  BY <1>1, SocketThreadAdds DEF SocketTypes, TypeOK
<1>2. ASSUME NEW c \in RadioCommand, NEW a \in Accepted, Adds(c, a)
      PROVE  SocketTypes
  <2>1. accepted' \in Seq(Accepted)
    BY <1>2 DEF Adds, TypeOK
  <2>2. /\ gCommandQueue' \in {gCommandQueue, Append(gCommandQueue, c)}
        /\ gAwaitingReturnQueue' \in {gAwaitingReturnQueue, Append(gAwaitingReturnQueue, c)}
    BY <1>2 DEF Adds, AddCommand
  <2>3. ASSUME NEW s \in Seq(RadioCommand), NEW t \in {s, Append(s, c)}
        PROVE  t \in Seq(RadioCommand)
    BY <2>3
  <2>4. gCommandQueue \in Seq(RadioCommand) /\ gAwaitingReturnQueue \in Seq(RadioCommand)
    BY DEF TypeOK
  <2>5. gCommandQueue' \in Seq(RadioCommand)
    BY <2>2, <2>3, <2>4
  <2>6. gAwaitingReturnQueue' \in Seq(RadioCommand)
    BY <2>2, <2>3, <2>4
  <2> QED BY <2>1, <2>5, <2>6, SocketThreadAdds DEF SocketTypes
<1> QED BY <1>1, <1>2, SocketThreadAdds

ProcessingTypes ==
  /\ gCommandQueue' \in Seq(RadioCommand)
  /\ gAwaitingReturnQueue' \in Seq(RadioCommand)
  /\ pc' \in ThreadStates
  /\ command' \in RadioCommand
  /\ pc' \in {"send", "receive"} => command'.filled
  /\ pc' # "aborted" => (command'.uid # 0 <=> pc' \in {"check", "send", "receive"})
  /\ reply' \in Reply
  /\ reply'.uid # 0 <=> pc' = "reply"
  /\ relay' \in [Endpoints -> SUBSET Relays]
  /\ air' \in [Endpoints -> Seq(SUBSET Relays)]
  /\ sent' \in Seq(Sent)
  /\ replies' \in Seq(Reply)

LEMMA TransmitType ==
  ASSUME TypeOK, NEW heard \in SUBSET Endpoints, Transmit(heard)
  PROVE  /\ relay' \in [Endpoints -> SUBSET Relays]
         /\ air' \in [Endpoints -> Seq(SUBSET Relays)]
         /\ sent' \in Seq(Sent)
<1>1. \A e \in Endpoints : Obey(relay[e], command.toSend) \in SUBSET Relays
  BY DEF Obey
<1>2. relay' \in [Endpoints -> SUBSET Relays]
  BY <1>1 DEF Transmit, TypeOK
<1>3. \A e \in Endpoints : Append(air[e], relay[e]) \in Seq(SUBSET Relays)
  BY DEF TypeOK
<1>4. air' \in [Endpoints -> Seq(SUBSET Relays)]
  BY <1>3 DEF Transmit, TypeOK
<1>5. [uid |-> command.uid, byte |-> command.toSend, heard |-> heard, at |-> now] \in Sent
  BY BoundAssumption DEF Sent, TypeOK, RadioCommand, CommandFields, BoundAssumption
<1>6. sent' \in Seq(Sent)
  BY <1>5 DEF Transmit, TypeOK
<1> QED BY <1>2, <1>4, <1>6

-----------------------------------------------------------------------------
(***************************************************************************)
(* Conservation of commands.  Five disjoint sets of numbers cover those     *)
(* issued; each step moves at most one number from one set to another, or   *)
(* adds the next number to one.                                             *)
(***************************************************************************)
Disjoint5(q, c, a, r, p) ==
  /\ q \cap c = {} /\ q \cap a = {} /\ q \cap r = {} /\ q \cap p = {}
  /\ c \cap a = {} /\ c \cap r = {} /\ c \cap p = {}
  /\ a \cap r = {} /\ a \cap p = {}
  /\ r \cap p = {}

Cover5(q, c, a, r, p) == q \cup c \cup a \cup r \cup p

\* EachCommandInOnePlace without its numbering of the places.
OnePlace ==
  /\ Cover5(Uids(gCommandQueue), UidOf(command), Uids(gAwaitingReturnQueue),
            UidOf(reply), Uids(replies)) = Issued
  /\ Disjoint5(Uids(gCommandQueue), UidOf(command), Uids(gAwaitingReturnQueue),
               UidOf(reply), Uids(replies))
  /\ DistinctUids(gCommandQueue)
  /\ DistinctUids(gAwaitingReturnQueue)
  /\ DistinctUids(replies)

LEMMA OnePlaceExpanded == OnePlace => EachCommandInOnePlace
<1> DEFINE q == Uids(gCommandQueue)
           c == UidOf(command)
           a == Uids(gAwaitingReturnQueue)
           r == UidOf(reply)
           p == Uids(replies)
           places == <<q, c, a, r, p>>
<1>1. /\ places[1] = q /\ places[2] = c /\ places[3] = a
      /\ places[4] = r /\ places[5] = p
  OBVIOUS
<1>2. EachCommandInOnePlace <=>
        /\ UNION {places[k] : k \in 1..5} = Issued
        /\ \A k, l \in 1..5 : k # l => places[k] \cap places[l] = {}
        /\ DistinctUids(gCommandQueue)
        /\ DistinctUids(gAwaitingReturnQueue)
        /\ DistinctUids(replies)
  BY DEF EachCommandInOnePlace
<1> HIDE DEF q, c, a, r, p, places
<1>3. 1..5 = {1, 2, 3, 4, 5}
  OBVIOUS
<1>4. UNION {places[k] : k \in 1..5} = Cover5(q, c, a, r, p)
  <2>1. {places[k] : k \in {1, 2, 3, 4, 5}} = {q, c, a, r, p}
    BY <1>1
  <2> QED BY <1>3, <2>1 DEF Cover5
<1>5. ASSUME Disjoint5(q, c, a, r, p), NEW k \in 1..5, NEW l \in 1..5, k # l
      PROVE  places[k] \cap places[l] = {}
  BY <1>1, <1>3, <1>5 DEF Disjoint5
<1> QED BY <1>2, <1>4, <1>5 DEF q, c, a, r, p, OnePlace

\* No command in a queue has number 0, the number of no command.
LEMMA Numbered ==
  ASSUME TypeOK, OnePlace
  PROVE  /\ 0 \notin Uids(gCommandQueue) /\ 0 \notin Uids(gAwaitingReturnQueue)
         /\ NextUid \in Nat /\ NextUid # 0 /\ NextUid \notin Issued
         /\ DistinctUids(gCommandQueue) /\ DistinctUids(gAwaitingReturnQueue)
<1>1. Len(accepted) \in Nat
  BY DEF TypeOK
<1>2. 0 \notin Issued /\ NextUid \notin Issued /\ NextUid \in Nat /\ NextUid # 0
  BY <1>1 DEF Issued, NextUid
<1> QED BY <1>2 DEF Cover5, OnePlace

\* What the processing thread takes from a queue is a numbered command.
LEMMA HeadType ==
  ASSUME NEW s \in Seq(RadioCommand), s # <<>>, 0 \notin Uids(s), DistinctUids(s)
  PROVE  /\ Head(s) \in RadioCommand
         /\ Head(s).uid # 0
         /\ Tail(s) \in Seq(RadioCommand)
  BY UidsOfTail

\* Each step of the processing thread keeps the types.
LEMMA ProcessingThreadType ==
  ASSUME TypeOK, OnePlace, ProcessingThread
  PROVE  ProcessingTypes
<1> USE DEF queueVars, radioVars
<1>1. CASE RetrieveCommand
  <2>1. command' \in RadioCommand /\ command'.uid # 0 /\ gCommandQueue' \in Seq(RadioCommand)
    BY <1>1, Numbered, HeadType DEF RetrieveCommand, TypeOK
  <2> QED BY <1>1, <2>1 DEF RetrieveCommand, TypeOK, ProcessingTypes, ThreadStates
<1>2. CASE FindQueueEmpty
  BY <1>2 DEF FindQueueEmpty, TypeOK, ProcessingTypes, ThreadStates
<1>3. CASE PutBack
  <2>1. gCommandQueue' \in Seq(RadioCommand) /\ command' = NoCommand /\ pc' = "retrieve"
    BY <1>3 DEF PutBack, AddCommand, TypeOK
  <2>2. command' \in RadioCommand /\ command'.uid = 0
    BY <2>1, NoCommandType DEF NoCommand
  <2> QED BY <1>3, <2>1, <2>2 DEF PutBack, TypeOK, ProcessingTypes, ThreadStates
<1>4. CASE XBeeRadioConnect
  BY <1>4 DEF XBeeRadioConnect, TypeOK, ProcessingTypes, ThreadStates
<1>5. CASE SendAcknowledged
  <2>1. {command.ep} \in SUBSET Endpoints
    BY <1>5 DEF SendAcknowledged, TypeOK, RadioCommand
  <2>2. Transmit({command.ep})
    BY <1>5 DEF SendAcknowledged
  <2> QED
    BY <1>5, <2>1, <2>2, TransmitType DEF SendAcknowledged, TypeOK, ProcessingTypes, ThreadStates
<1>6. CASE SendFails
  <2>1. PICK heard \in {{}, {command.ep}} : Transmit(heard)
    BY <1>6 DEF SendFails
  <2>2. heard \in SUBSET Endpoints
    BY <1>6, <2>1 DEF SendFails, TypeOK, RadioCommand
  <2> QED
    BY <1>6, <2>1, <2>2, TransmitType DEF SendFails, TypeOK, ProcessingTypes, ThreadStates
<1>7. CASE SendBroadcast
  <2>1. PICK heard \in SUBSET Endpoints : Transmit(heard)
    BY <1>7 DEF SendBroadcast
  <2> QED
    BY <1>7, <2>1, TransmitType DEF SendBroadcast, TypeOK, ProcessingTypes, ThreadStates
<1>8. ASSUME NEW byte \in SUBSET Relays, pc = "receive", AwaitReturn(byte),
             air' \in [Endpoints -> Seq(SUBSET Relays)]
      PROVE  ProcessingTypes
  <2>1. SetReturnData(command, byte) \in RadioCommand
    BY <1>8 DEF SetReturnData, TypeOK, RadioCommand, CommandFields
  <2>2. gAwaitingReturnQueue' \in Seq(RadioCommand)
    BY <1>8, <2>1 DEF AwaitReturn, AddCommand, TypeOK
  <2>3. command' \in RadioCommand /\ command'.uid = 0 /\ pc' = "retrieve"
    BY <1>8, NoCommandType DEF AwaitReturn, NoCommand
  <2> QED BY <1>8, <2>2, <2>3 DEF AwaitReturn, TypeOK, ProcessingTypes, ThreadStates
<1>9. CASE ReceiveAnswer
  <2>1. command.ep \in Endpoints
    BY <1>9 DEF ReceiveAnswer, TypeOK, RadioCommand
  <2>2. /\ Head(air[command.ep]) \in SUBSET Relays
        /\ Tail(air[command.ep]) \in Seq(SUBSET Relays)
    BY <1>9, <2>1 DEF ReceiveAnswer, TypeOK
  <2>3. air' \in [Endpoints -> Seq(SUBSET Relays)]
    BY <1>9, <2>1, <2>2 DEF ReceiveAnswer, TypeOK
  <2> QED BY <1>8, <1>9, <2>2, <2>3 DEF ReceiveAnswer
<1>10. CASE ReceiveNothing
  <2>1. air' \in [Endpoints -> Seq(SUBSET Relays)]
    BY <1>10 DEF ReceiveNothing, TypeOK
  <2> QED BY <1>8, <1>10, <2>1 DEF ReceiveNothing
<1>11. CASE GetReturnData
  <2>1. /\ Head(gAwaitingReturnQueue) \in RadioCommand
        /\ Head(gAwaitingReturnQueue).uid # 0
        /\ gAwaitingReturnQueue' \in Seq(RadioCommand)
    BY <1>11, Numbered, HeadType DEF GetReturnData, TypeOK
  <2>2. reply' \in Reply /\ reply'.uid # 0
    BY <1>11, <2>1, ReplyType DEF GetReturnData, ReplyTo
  <2> QED BY <1>11, <2>1, <2>2 DEF GetReturnData, TypeOK, ProcessingTypes, ThreadStates
<1>12. CASE NothingToReturn
  BY <1>12 DEF NothingToReturn, TypeOK, ProcessingTypes, ThreadStates
<1>13. CASE HandOver
  <2>1. replies' \in Seq(Reply) /\ reply' \in Reply /\ reply'.uid = 0
    BY <1>13, NoCommandType DEF HandOver, TypeOK, NoReply
  <2> QED BY <1>13, <2>1 DEF HandOver, TypeOK, ProcessingTypes, ThreadStates
<1>14. CASE Sleep
  BY <1>14 DEF Sleep, TypeOK, ProcessingTypes, ThreadStates
<1> QED
  BY <1>1, <1>2, <1>3, <1>4, <1>5, <1>6, <1>7, <1>9, <1>10, <1>11, <1>12, <1>13, <1>14
  DEF ProcessingThread

\* Every step keeps the types.
LEMMA TypeStep ==
  ASSUME TypeOK, OnePlace, [Next]_vars
  PROVE  TypeOK'
<1>1. CASE SocketThread
  <2>1. SocketTypes
    BY <1>1, SocketThreadType
  <2> QED BY <1>1, <2>1 DEF SocketThread, SocketTypes, BatchOK, TypeOK, radioVars
<1>2. CASE ProcessingThread
  <2>1. ProcessingTypes
    BY <1>2, ProcessingThreadType
  <2> QED BY <1>2, <2>1 DEF ProcessingThread, ProcessingTypes, TypeOK
<1>3. CASE Tick
  BY <1>3, BoundAssumption
  DEF Tick, TypeOK, BoundAssumption, queueVars, radioVars, historyVars
<1>4. ASSUME NEW e \in Endpoints, LoseAnswer(e) PROVE TypeOK'
  <2>1. Tail(air[e]) \in Seq(SUBSET Relays)
    BY <1>4 DEF LoseAnswer, TypeOK
  <2> QED BY <1>4, <2>1 DEF LoseAnswer, TypeOK, queueVars, historyVars
<1>5. CASE UNCHANGED vars
  BY <1>5 DEF vars, TypeOK, queueVars, radioVars, historyVars
<1> QED BY <1>1, <1>2, <1>3, <1>4, <1>5 DEF Next, Ended

\* Adding a command with a number no queue has.
LEMMA AddNumber ==
  ASSUME NEW s \in Seq(RadioCommand), DistinctUids(s),
         NEW c \in RadioCommand, c.uid \notin Uids(s)
  PROVE  /\ Uids(AddCommand(s, c)) = Uids(s) \cup {c.uid}
         /\ DistinctUids(AddCommand(s, c))
  BY UidsOfAppend, DistinctAppend DEF AddCommand

\* A step of the socket thread gives the next number to one of the queues.
LEMMA SocketThreadOnePlace ==
  ASSUME TypeOK, OnePlace, SocketThread
  PROVE  OnePlace'
<1>1. UNCHANGED <<command, reply, replies>>
  BY DEF SocketThread
<1>2. CASE UNCHANGED <<gCommandQueue, gAwaitingReturnQueue, accepted>>
  BY <1>1, <1>2 DEF OnePlace, Issued
<1>3. ASSUME NEW c \in RadioCommand, NEW a \in Accepted, Adds(c, a)
      PROVE  OnePlace'
  <2>1. Len(accepted) \in Nat /\ Len(accepted') = Len(accepted) + 1
    BY <1>3 DEF TypeOK, Adds
  <2>2. Issued' = Issued \cup {NextUid} /\ NextUid \notin Issued
    BY <2>1 DEF Issued, NextUid
  <2>3. NextUid \notin Uids(gCommandQueue) /\ NextUid \notin Uids(gAwaitingReturnQueue)
    BY <2>2 DEF OnePlace, Cover5
  <2>4. CASE gCommandQueue' = AddCommand(gCommandQueue, c) /\ UNCHANGED gAwaitingReturnQueue
    <3>1. /\ Uids(gCommandQueue)' = Uids(gCommandQueue) \cup {NextUid}
          /\ DistinctUids(gCommandQueue)'
      BY <1>3, <2>3, <2>4, AddNumber DEF TypeOK, OnePlace, Adds
    <3> QED BY <1>1, <2>2, <2>4, <3>1 DEF OnePlace, Cover5, Disjoint5
  <2>5. CASE gAwaitingReturnQueue' = AddCommand(gAwaitingReturnQueue, c) /\ UNCHANGED gCommandQueue
    <3>1. /\ Uids(gAwaitingReturnQueue)' = Uids(gAwaitingReturnQueue) \cup {NextUid}
          /\ DistinctUids(gAwaitingReturnQueue)'
      BY <1>3, <2>3, <2>5, AddNumber DEF TypeOK, OnePlace, Adds
    <3> QED BY <1>1, <2>2, <2>5, <3>1 DEF OnePlace, Cover5, Disjoint5
  <2> QED BY <1>3, <2>4, <2>5 DEF Adds
<1> QED BY <1>2, <1>3, SocketThreadAdds

\* What the processing thread holds, as a set of numbers.
LEMMA UidOfFacts ==
  /\ UidOf(NoCommand) = {} /\ UidOf(NoReply) = {}
  /\ \A x : x.uid # 0 => UidOf(x) = {x.uid}
  BY DEF UidOf, NoCommand, NoReply

\* Each step of the processing thread moves one number on, or none.
LEMMA ProcessingThreadOnePlace ==
  ASSUME TypeOK, OnePlace, ProcessingThread
  PROVE  OnePlace'
<1>0. UNCHANGED accepted /\ Issued' = Issued
  BY DEF ProcessingThread, Issued
<1> DEFINE q == Uids(gCommandQueue)
           c == UidOf(command)
           a == Uids(gAwaitingReturnQueue)
           r == UidOf(reply)
           p == Uids(replies)
           Moved == /\ Cover5(q', c', a', r', p') = Cover5(q, c, a, r, p)
                    /\ Disjoint5(q', c', a', r', p')
                    /\ DistinctUids(gCommandQueue)'
                    /\ DistinctUids(gAwaitingReturnQueue)'
                    /\ DistinctUids(replies)'
<1>1. SUFFICES Moved
  BY <1>0 DEF OnePlace
<1>2. /\ Disjoint5(q, c, a, r, p)
      /\ DistinctUids(gCommandQueue)
      /\ DistinctUids(gAwaitingReturnQueue)
      /\ DistinctUids(replies)
  BY DEF OnePlace
<1>3. CASE UNCHANGED <<queueVars, command, reply, replies>>
  BY <1>2, <1>3 DEF queueVars
<1>4. CASE RetrieveCommand
  <2>1. /\ Head(gCommandQueue).uid \in q
        /\ q' = q \ {Head(gCommandQueue).uid}
        /\ DistinctUids(gCommandQueue)'
        /\ command'.uid = Head(gCommandQueue).uid
        /\ command'.uid # 0
    BY <1>4, <1>2, UidsOfTail, Numbered, HeadType DEF RetrieveCommand, TypeOK
  <2>2. c = {} /\ c' = {Head(gCommandQueue).uid}
    BY <1>4, <2>1 DEF RetrieveCommand, TypeOK, UidOf
  <2>3. a' = a /\ r' = r /\ p' = p
    BY <1>4 DEF RetrieveCommand
  <2>4. DistinctUids(gAwaitingReturnQueue)' /\ DistinctUids(replies)'
    BY <1>2, <1>4 DEF RetrieveCommand
  <2> HIDE DEF q, c, a, r, p
  <2> QED BY <1>2, <2>1, <2>2, <2>3, <2>4 DEF Cover5, Disjoint5
<1>5. CASE PutBack
  <2>1. command.uid # 0 /\ c = {command.uid} /\ c' = {}
    BY <1>5, UidOfFacts DEF PutBack, TypeOK
  <2>2. command.uid \notin q
    BY <1>2, <2>1 DEF Disjoint5
  <2>3. q' = q \cup {command.uid} /\ DistinctUids(gCommandQueue)'
    BY <1>2, <1>5, <2>2, AddNumber DEF PutBack, TypeOK
  <2>4. a' = a /\ r' = r /\ p' = p
    BY <1>5 DEF PutBack
  <2>5. DistinctUids(gAwaitingReturnQueue)' /\ DistinctUids(replies)'
    BY <1>2, <1>5 DEF PutBack
  <2> HIDE DEF q, c, a, r, p
  <2> QED BY <1>2, <2>1, <2>3, <2>4, <2>5 DEF Cover5, Disjoint5
<1>6. ASSUME NEW byte \in SUBSET Relays, pc = "receive", AwaitReturn(byte)
      PROVE  Moved
  <2> DEFINE done == SetReturnData(command, byte)
  <2>1. command.uid # 0 /\ c = {command.uid} /\ c' = {}
    BY <1>6, UidOfFacts DEF AwaitReturn, TypeOK
  <2>2. command.uid \notin a
    BY <1>2, <2>1 DEF Disjoint5
  <2>3. done \in RadioCommand /\ done.uid = command.uid
    BY DEF SetReturnData, TypeOK, RadioCommand, CommandFields
  <2>4. gAwaitingReturnQueue' = AddCommand(gAwaitingReturnQueue, done)
    BY <1>6 DEF AwaitReturn
  <2> HIDE DEF done
  <2>5. a' = a \cup {command.uid} /\ DistinctUids(gAwaitingReturnQueue)'
    BY <1>2, <2>2, <2>3, <2>4, AddNumber DEF TypeOK
  <2>6. q' = q /\ r' = r /\ p' = p
    BY <1>6 DEF AwaitReturn
  <2>7. DistinctUids(gCommandQueue)' /\ DistinctUids(replies)'
    BY <1>2, <1>6 DEF AwaitReturn
  <2> HIDE DEF q, c, a, r, p
  <2>8. /\ Cover5(q', c', a', r', p') = Cover5(q, c, a, r, p)
        /\ Disjoint5(q', c', a', r', p')
    BY <1>2, <2>1, <2>5, <2>6 DEF Cover5, Disjoint5
  <2> QED BY <2>5, <2>7, <2>8
<1>7. CASE ReceiveAnswer
  <2>1. command.ep \in Endpoints
    BY <1>7 DEF ReceiveAnswer, TypeOK, RadioCommand
  <2>2. Head(air[command.ep]) \in SUBSET Relays
    BY <1>7, <2>1 DEF ReceiveAnswer, TypeOK
  <2> QED BY <1>6, <1>7, <2>2 DEF ReceiveAnswer
<1>8. CASE ReceiveNothing
  BY <1>6, <1>8 DEF ReceiveNothing
<1>9. CASE GetReturnData
  <2>1. /\ Head(gAwaitingReturnQueue).uid \in a
        /\ a' = a \ {Head(gAwaitingReturnQueue).uid}
        /\ DistinctUids(gAwaitingReturnQueue)'
        /\ Head(gAwaitingReturnQueue).uid # 0
    BY <1>9, <1>2, UidsOfTail, Numbered, HeadType DEF GetReturnData, TypeOK
  <2>2. reply'.uid = Head(gAwaitingReturnQueue).uid
    BY <1>9 DEF GetReturnData, ReplyTo
  <2>3. r = {} /\ r' = {Head(gAwaitingReturnQueue).uid}
    BY <1>9, <2>1, <2>2 DEF GetReturnData, TypeOK, UidOf
  <2>4. q' = q /\ c' = c /\ p' = p
    BY <1>9 DEF GetReturnData
  <2>5. DistinctUids(gCommandQueue)' /\ DistinctUids(replies)'
    BY <1>2, <1>9 DEF GetReturnData
  <2> HIDE DEF q, c, a, r, p
  <2> QED BY <1>2, <2>1, <2>3, <2>4, <2>5 DEF Cover5, Disjoint5
<1>10. CASE HandOver
  <2>1. reply.uid # 0 /\ r = {reply.uid} /\ r' = {}
    BY <1>10, UidOfFacts DEF HandOver, TypeOK
  <2>2. reply.uid \notin p
    BY <1>2, <2>1 DEF Disjoint5
  <2>3. p' = p \cup {reply.uid} /\ DistinctUids(replies)'
    BY <1>2, <1>10, <2>2, UidsOfAppend, DistinctAppend DEF HandOver, TypeOK
  <2>4. q' = q /\ c' = c /\ a' = a
    BY <1>10 DEF HandOver, queueVars
  <2>5. DistinctUids(gCommandQueue)' /\ DistinctUids(gAwaitingReturnQueue)'
    BY <1>2, <1>10 DEF HandOver, queueVars
  <2> HIDE DEF q, c, a, r, p
  <2> QED BY <1>2, <2>1, <2>3, <2>4, <2>5 DEF Cover5, Disjoint5
<1> QED
  BY <1>1, <1>3, <1>4, <1>5, <1>7, <1>8, <1>9, <1>10
  DEF ProcessingThread, FindQueueEmpty, XBeeRadioConnect, SendAcknowledged, SendFails,
      SendBroadcast, NothingToReturn, Sleep

LEMMA OnePlaceStep ==
  ASSUME TypeOK, OnePlace, [Next]_vars
  PROVE  OnePlace'
<1>1. CASE UNCHANGED <<queueVars, command, reply, replies, accepted>>
  BY <1>1 DEF OnePlace, Issued, queueVars
<1> QED
  BY <1>1, SocketThreadOnePlace, ProcessingThreadOnePlace
  DEF Next, Tick, LoseAnswer, Ended, vars, historyVars

LEMMA InitOK == Init => TypeOK /\ OnePlace
<1> SUFFICES ASSUME Init PROVE TypeOK /\ OnePlace
  OBVIOUS
<1>1. NoCommand \in RadioCommand /\ NoReply \in Reply /\ NoCommand.uid = 0 /\ NoReply.uid = 0
  BY NoCommandType DEF NoCommand, NoReply
<1>2. TypeOK
  BY <1>1, BoundAssumption DEF Init, TypeOK, BoundAssumption, ThreadStates
<1>3. Issued = {}
  BY DEF Init, Issued
<1>4. OnePlace
  BY <1>3, UidOfFacts, EmptyQueue DEF Init, OnePlace, Cover5, Disjoint5
<1> QED BY <1>2, <1>4

\* TypeOK /\ OnePlace is inductive.
LEMMA BaseInvariant == Spec => [](TypeOK /\ OnePlace)
<1>1. TypeOK /\ OnePlace /\ [Next]_vars => (TypeOK /\ OnePlace)'
  BY TypeStep, OnePlaceStep
<1> QED BY InitOK, <1>1, PTL DEF Spec

\* Every variable keeps the type of the code's variable, for every number of
\* boards and switches and every set of calls; the processing thread holds a
\* command exactly between taking it from one queue and adding it to one.
THEOREM TypeCorrect == Spec => []TypeOK
  BY BaseInvariant, PTL

\* No command is lost, duplicated or answered twice between the socket thread,
\* the processing thread and their two queues, however their steps interleave.
THEOREM CommandsConserved == Spec => []EachCommandInOnePlace
  BY BaseInvariant, OnePlaceExpanded, PTL

-----------------------------------------------------------------------------
(***************************************************************************)
(* When and in which order commands are sent.                               *)
(*                                                                          *)
(* The predicates below take the queues, histories and clock they speak of  *)
(* as arguments, so that one lemma serves for the state before a step and   *)
(* the state after it.                                                      *)
(***************************************************************************)

\* A command keeps what its call asked for, and is filled unless its index is
\* over the limit; its trigger time is no earlier than the call allows; without
\* a delay it is due.
Timely(c, acc, t) ==
  /\ c.uid \in DOMAIN acc
  /\ acc[c.uid].commandType = c.commandType
  /\ c.commandType \in RadioTypes
  /\ c.filled <=> ~OverLimit(acc[c.uid].index)
  /\ c.filled => acc[c.uid].notBefore <= c.triggerTime
  /\ Immediate(c) => c.triggerTime <= t

QueueTimely(q, acc, t) == \A i \in DOMAIN q : Timely(q[i], acc, t)

SentTimely(s, acc) ==
  \A i \in DOMAIN s : s[i].uid \in DOMAIN acc /\ s[i].at >= acc[s[i].uid].notBefore

TimingInv ==
  /\ QueueTimely(gCommandQueue, accepted, now)
  /\ pc \in {"check", "send"} => Timely(command, accepted, now)
  /\ pc = "send" => command.triggerTime <= now
  /\ SentTimely(sent, accepted)

\* Commands without a delay stand in the queue in the order of their numbers.
InOrder(q) ==
  \A i, j \in DOMAIN q :
    i < j /\ Immediate(q[i]) /\ Immediate(q[j]) => q[i].uid < q[j].uid

\* u comes before every command without a delay in q.
Ahead(u, q) == \A i \in DOMAIN q : Immediate(q[i]) => u < q[i].uid

InstantIn(u, acc) == acc[u].commandType # "SetSingleSwitchDelay"

SentAhead(s, acc, q) == \A i \in DOMAIN s : InstantIn(s[i].uid, acc) => Ahead(s[i].uid, q)
SentBefore(s, acc, u) == \A i \in DOMAIN s : InstantIn(s[i].uid, acc) => s[i].uid < u
SentInOrder(s, acc) ==
  \A i, j \in DOMAIN s :
    i < j /\ InstantIn(s[i].uid, acc) /\ InstantIn(s[j].uid, acc)
      => s[i].uid < s[j].uid

OrderInv ==
  /\ InOrder(gCommandQueue)
  /\ SentAhead(sent, accepted, gCommandQueue)
  /\ SentInOrder(sent, accepted)
  /\ pc \in {"check", "send"} /\ Immediate(command) =>
       /\ Ahead(command.uid, gCommandQueue)
       /\ SentBefore(sent, accepted, command.uid)

-----------------------------------------------------------------------------
(***************************************************************************)
(* What adding a command, accepting one and the passing of time do.         *)
(***************************************************************************)
LEMMA AppendFacts ==
  ASSUME NEW S, NEW s \in Seq(S), NEW x \in S
  PROVE  /\ DOMAIN s = 1..Len(s) /\ Len(s) \in Nat
         /\ DOMAIN Append(s, x) = 1..(Len(s) + 1)
         /\ \A i \in DOMAIN s : Append(s, x)[i] = s[i]
         /\ Append(s, x)[Len(s) + 1] = x
         /\ \A i \in DOMAIN Append(s, x) : i \in DOMAIN s \/ i = Len(s) + 1
  OBVIOUS

LEMMA TailFacts ==
  ASSUME NEW S, NEW s \in Seq(S), s # <<>>
  PROVE  /\ 1 \in DOMAIN s /\ Head(s) = s[1]
         /\ \A i \in DOMAIN Tail(s) : i \in Int /\ i + 1 \in DOMAIN s /\ i + 1 > 1
                                      /\ Tail(s)[i] = s[i + 1]
  OBVIOUS

\* t is s, or s with one element more.
Grows(s, t) == t = s \/ \E x : t = Append(s, x)

LEMMA GrowthFacts ==
  ASSUME NEW S, NEW s \in Seq(S), NEW t, Grows(s, t)
  PROVE  \A i \in DOMAIN s : i \in DOMAIN t /\ t[i] = s[i]
<1>1. ASSUME NEW x, t = Append(s, x)
      PROVE  \A i \in DOMAIN s : i \in DOMAIN t /\ t[i] = s[i]
  <2>1. s \in Seq(S \cup {x}) /\ x \in S \cup {x}
    OBVIOUS
  <2>2. /\ DOMAIN s = 1..Len(s) /\ Len(s) \in Nat
        /\ DOMAIN t = 1..(Len(s) + 1)
        /\ \A i \in DOMAIN s : t[i] = s[i]
    BY <1>1, <2>1, AppendFacts
  <2> QED BY <2>2
<1> QED BY <1>1 DEF Grows

\* What is in a sequence that grew is the old, or the last.
LEMMA LastOrOld ==
  ASSUME NEW S, NEW s \in Seq(S), NEW x
  PROVE  \A i \in DOMAIN Append(s, x) : (i \in DOMAIN s /\ Append(s, x)[i] = s[i])
                                        \/ Append(s, x)[i] = x
<1>1. s \in Seq(S \cup {x}) /\ x \in S \cup {x}
  OBVIOUS
<1> QED BY <1>1, AppendFacts

\* A later clock, and one more accepted command, leave a command timely.
LEMMA TimelyStays ==
  ASSUME NEW acc \in Seq(Accepted), NEW t \in Nat, NEW u \in Nat, t <= u,
         NEW a \in Accepted, NEW c \in RadioCommand, Timely(c, acc, t)
  PROVE  /\ Timely(c, acc, u)
         /\ Timely(c, Append(acc, a), u)
         /\ c.uid <= Len(acc)
<1>1. /\ c.triggerTime \in Nat
      /\ c.uid \in Nat /\ c.uid <= Len(acc)
      /\ c.uid \in DOMAIN Append(acc, a) /\ Append(acc, a)[c.uid] = acc[c.uid]
  BY AppendFacts DEF Timely, RadioCommand, CommandFields
<1>2. Immediate(c) => c.triggerTime <= u
  BY <1>1 DEF Timely
<1> QED BY <1>1, <1>2 DEF Timely

LEMMA QueueTimelyStays ==
  ASSUME NEW acc \in Seq(Accepted), NEW t \in Nat, NEW u \in Nat, t <= u,
         NEW a \in Accepted, NEW q \in Seq(RadioCommand), QueueTimely(q, acc, t)
  PROVE  QueueTimely(q, acc, u) /\ QueueTimely(q, Append(acc, a), u)
<1>1. \A i \in DOMAIN q : q[i] \in RadioCommand /\ Timely(q[i], acc, t)
  BY DEF QueueTimely
<1> QED BY <1>1, TimelyStays DEF QueueTimely

LEMMA SentTimelyStays ==
  ASSUME NEW acc \in Seq(Accepted), NEW a \in Accepted, NEW s \in Seq(Sent),
         SentTimely(s, acc)
  PROVE  /\ SentTimely(s, Append(acc, a))
         /\ \A i \in DOMAIN s : InstantIn(s[i].uid, Append(acc, a)) <=> InstantIn(s[i].uid, acc)
<1>1. \A i \in DOMAIN s : /\ s[i].uid \in DOMAIN acc
                          /\ s[i].uid \in DOMAIN Append(acc, a)
                          /\ Append(acc, a)[s[i].uid] = acc[s[i].uid]
  BY AppendFacts DEF SentTimely
<1> QED BY <1>1 DEF SentTimely, InstantIn

LEMMA QueueTimelyAppend ==
  ASSUME NEW acc, NEW t, NEW q \in Seq(RadioCommand), QueueTimely(q, acc, t),
         NEW c \in RadioCommand, Timely(c, acc, t)
  PROVE  QueueTimely(Append(q, c), acc, t)
<1>1. \A i \in DOMAIN Append(q, c) : (i \in DOMAIN q /\ Append(q, c)[i] = q[i])
                                     \/ Append(q, c)[i] = c
  BY AppendFacts
<1> QED BY <1>1 DEF QueueTimely

LEMMA QueueTimelyTail ==
  ASSUME NEW acc, NEW t, NEW q \in Seq(RadioCommand), q # <<>>, QueueTimely(q, acc, t)
  PROVE  QueueTimely(Tail(q), acc, t) /\ Timely(Head(q), acc, t)
  BY TailFacts DEF QueueTimely

\* The command a call adds to the command queue is timely.
LEMMA AddedTimely ==
  ASSUME TypeOK, NEW c \in RadioCommand, NEW a \in Accepted, Adds(c, a),
         c.commandType \in RadioTypes, c.filled <=> ~OverLimit(a.index)
  PROVE  Timely(c, accepted', now)
<1>1. /\ c.uid = Len(accepted) + 1
      /\ accepted' = Append(accepted, a)
      /\ accepted \in Seq(Accepted)
  BY DEF Adds, NextUid, TypeOK
<1>2. c.uid \in DOMAIN accepted' /\ accepted'[c.uid] = a
  BY <1>1, AppendFacts
<1>3. a.notBefore \in Nat /\ c.triggerTime \in Nat /\ now \in Nat
  BY BoundAssumption DEF Accepted, RadioCommand, CommandFields, TypeOK, BoundAssumption
<1>4. c.filled => a.notBefore <= c.triggerTime
  BY <1>3 DEF Adds
<1>5. Immediate(c) => c.triggerTime <= now
  BY <1>3 DEF Adds, Immediate
<1>6. a.commandType = c.commandType
  BY DEF Adds
<1> QED BY <1>2, <1>4, <1>5, <1>6 DEF Timely

-----------------------------------------------------------------------------
(***************************************************************************)
(* Every step keeps the commands timely.                                    *)
(***************************************************************************)
LEMMA SocketThreadTiming ==
  ASSUME TypeOK, TimingInv, SocketThread
  PROVE  TimingInv'
<1>1. UNCHANGED <<now, pc, command, sent>>
  BY DEF SocketThread
<1>2. CASE UNCHANGED <<gCommandQueue, gAwaitingReturnQueue, accepted>>
  BY <1>1, <1>2 DEF TimingInv
<1>3. ASSUME NEW c \in RadioCommand, NEW a \in Accepted, Adds(c, a)
      PROVE  TimingInv'
  <2>1. /\ accepted' = Append(accepted, a) /\ accepted \in Seq(Accepted)
        /\ gCommandQueue \in Seq(RadioCommand) /\ command \in RadioCommand
        /\ sent \in Seq(Sent) /\ now \in Nat /\ now <= now
    BY <1>3, BoundAssumption DEF Adds, TypeOK, BoundAssumption
  <2>2. QueueTimely(gCommandQueue, accepted', now)
    BY <2>1, QueueTimelyStays DEF TimingInv
  <2>3. c.commandType \in RadioTypes /\ (c.filled <=> ~OverLimit(a.index)) =>
          QueueTimely(Append(gCommandQueue, c), accepted', now)
    BY <1>3, <2>1, <2>2, AddedTimely, QueueTimelyAppend
  <2>4. \/ gCommandQueue' = gCommandQueue
        \/ /\ gCommandQueue' = Append(gCommandQueue, c)
           /\ c.commandType \in RadioTypes /\ (c.filled <=> ~OverLimit(a.index))
    BY <1>3 DEF Adds, AddCommand
  <2>5. pc \in {"check", "send"} => Timely(command, accepted', now)
    BY <2>1, TimelyStays DEF TimingInv
  <2>6. SentTimely(sent, accepted')
    BY <2>1, SentTimelyStays DEF TimingInv
  <2> QED BY <1>1, <2>2, <2>3, <2>4, <2>5, <2>6 DEF TimingInv
<1> QED BY <1>2, <1>3, SocketThreadAdds

LEMMA TransmitTiming ==
  ASSUME TypeOK, TimingInv, pc = "send", NEW heard, Transmit(heard)
  PROVE  SentTimely(sent', accepted)
<1>1. /\ command.filled /\ Timely(command, accepted, now)
      /\ command.triggerTime <= now /\ command.triggerTime \in Nat /\ now \in Nat
  BY BoundAssumption DEF TypeOK, TimingInv, RadioCommand, CommandFields, BoundAssumption
<1>2. /\ command.uid \in DOMAIN accepted
      /\ accepted[command.uid].notBefore <= command.triggerTime
  BY <1>1 DEF Timely
<1>3. accepted[command.uid] \in Accepted
  BY <1>2 DEF TypeOK
<1>4. now >= accepted[command.uid].notBefore
  BY <1>1, <1>2, <1>3 DEF Accepted
<1> DEFINE x == [uid |-> command.uid, byte |-> command.toSend, heard |-> heard, at |-> now]
<1>5. sent' = Append(sent, x) /\ x.uid = command.uid /\ x.at = now
  BY DEF Transmit
<1> HIDE DEF x
<1>6. sent \in Seq(Sent \cup {x}) /\ x \in Sent \cup {x}
  BY DEF TypeOK
<1>7. \A i \in DOMAIN sent' : (i \in DOMAIN sent /\ sent'[i] = sent[i]) \/ sent'[i] = x
  BY <1>5, <1>6, AppendFacts
<1> QED BY <1>2, <1>4, <1>5, <1>7 DEF TimingInv, SentTimely

LEMMA ProcessingThreadTiming ==
  ASSUME TypeOK, TimingInv, ProcessingThread
  PROVE  TimingInv'
<1>0. UNCHANGED <<now, accepted>> /\ gCommandQueue \in Seq(RadioCommand)
  BY DEF ProcessingThread, TypeOK
<1>1. CASE RetrieveCommand
  BY <1>0, <1>1, QueueTimelyTail DEF RetrieveCommand, TimingInv
<1>2. CASE PutBack
  <2>1. Timely(command, accepted, now) /\ command \in RadioCommand
    BY <1>2 DEF PutBack, TimingInv, TypeOK
  <2>2. QueueTimely(gCommandQueue', accepted, now)
    BY <1>0, <1>2, <2>1, QueueTimelyAppend DEF PutBack, AddCommand, TimingInv
  <2> QED BY <1>0, <1>2, <2>2 DEF PutBack, TimingInv
<1>3. CASE XBeeRadioConnect
  BY <1>0, <1>3 DEF XBeeRadioConnect, queueVars, TimingInv, Due
<1>4. ASSUME NEW heard, Transmit(heard), pc = "send", pc' \in {"receive", "aborted"},
             UNCHANGED <<queueVars, command, reply, replies>>
      PROVE  TimingInv'
  BY <1>0, <1>4, TransmitTiming DEF TimingInv, queueVars
<1>5. CASE SendAcknowledged \/ SendFails \/ SendBroadcast
  BY <1>4, <1>5 DEF SendAcknowledged, SendFails, SendBroadcast
<1>6. CASE UNCHANGED <<gCommandQueue, sent>> /\ pc' \notin {"check", "send"}
  BY <1>0, <1>6 DEF TimingInv
<1> QED
  BY <1>1, <1>2, <1>3, <1>5, <1>6
  DEF ProcessingThread, FindQueueEmpty, ReceiveAnswer, ReceiveNothing, AwaitReturn,
      GetReturnData, NothingToReturn, HandOver, Sleep, queueVars

LEMMA TimingStep ==
  ASSUME TypeOK, TimingInv, [Next]_vars
  PROVE  TimingInv'
<1>1. CASE UNCHANGED <<gCommandQueue, now, pc, command, sent, accepted>>
  BY <1>1 DEF TimingInv
<1>2. CASE Tick
  <2>1. /\ UNCHANGED <<gCommandQueue, pc, command, sent, accepted>>
        /\ now \in Nat /\ now' \in Nat /\ now <= now'
        /\ accepted \in Seq(Accepted) /\ gCommandQueue \in Seq(RadioCommand)
        /\ command \in RadioCommand
    BY <1>2, BoundAssumption DEF Tick, TypeOK, BoundAssumption, queueVars, historyVars
  <2>2. \E a : a \in Accepted
    <3>1. [commandType |-> "PassThrough", index |-> 0, status |-> FALSE,
           notBefore |-> 0] \in Accepted
      BY DEF Accepted, CommandTypes
    <3> QED BY <3>1
  <2>3. QueueTimely(gCommandQueue, accepted, now')
    BY <2>1, <2>2, QueueTimelyStays DEF TimingInv
  <2>4. pc \in {"check", "send"} => Timely(command, accepted, now')
    BY <2>1, <2>2, TimelyStays DEF TimingInv
  <2>5. pc = "send" => command.triggerTime <= now'
    BY <2>1 DEF TimingInv, RadioCommand, CommandFields
  <2> QED BY <2>1, <2>3, <2>4, <2>5 DEF TimingInv
<1> QED
  BY <1>1, <1>2, SocketThreadTiming, ProcessingThreadTiming
  DEF Next, LoseAnswer, Ended, vars, queueVars, historyVars

LEMMA TimingInvariant == Spec => []TimingInv
<1>1. Init => TimingInv
  BY DEF Init, TimingInv, QueueTimely, SentTimely
<1>2. TypeOK /\ TimingInv /\ [Next]_vars => TimingInv'
  BY TimingStep
<1> QED BY <1>1, <1>2, TypeCorrect, PTL DEF Spec

\* No delayed command is sent before its delay has passed, however often it goes
\* round the queue and whatever else is added meanwhile.
THEOREM DelaysKept == Spec => []NeverSentEarly
<1>1. TimingInv => NeverSentEarly
  BY DEF TimingInv, SentTimely, NeverSentEarly
<1> QED BY <1>1, TimingInvariant, PTL

-----------------------------------------------------------------------------
(***************************************************************************)
(* The order of commands without a delay.                                   *)
(***************************************************************************)

\* Adding a command that is last, or not without a delay, keeps the order.
LEMMA OrderAppend ==
  ASSUME NEW q \in Seq(RadioCommand), NEW c \in RadioCommand, InOrder(q),
         Immediate(c) => \A i \in DOMAIN q : q[i].uid < c.uid
  PROVE  InOrder(Append(q, c))
<1> DEFINE t == Append(q, c)
           n == Len(q)
<1>1. /\ n \in Nat /\ DOMAIN q = 1..n /\ DOMAIN t = 1..n+1 /\ t[n+1] = c
      /\ \A i \in 1..n : t[i] = q[i]
  BY AppendFacts
<1> HIDE DEF t, n
<1>2. SUFFICES ASSUME NEW i \in 1..n+1, NEW j \in 1..n+1, i < j,
                      Immediate(t[i]), Immediate(t[j])
               PROVE  t[i].uid < t[j].uid
  BY <1>1 DEF InOrder, t
<1>3. i \in 1..n /\ t[i] = q[i]
  BY <1>1, <1>2
<1>4. CASE j = n + 1
  BY <1>1, <1>2, <1>3, <1>4
<1>5. CASE j # n + 1
  <2>1. j \in 1..n /\ t[j] = q[j]
    BY <1>1, <1>5
  <2> QED BY <1>1, <1>2, <1>3, <2>1 DEF InOrder
<1> QED BY <1>4, <1>5

LEMMA AheadAppend ==
  ASSUME NEW q \in Seq(RadioCommand), NEW c \in RadioCommand, NEW u,
         Ahead(u, q), Immediate(c) => u < c.uid
  PROVE  Ahead(u, Append(q, c))
<1>1. \A i \in DOMAIN Append(q, c) : (i \in DOMAIN q /\ Append(q, c)[i] = q[i])
                                     \/ Append(q, c)[i] = c
  BY AppendFacts
<1> QED BY <1>1 DEF Ahead

\* The head comes before the rest.
LEMMA OrderTail ==
  ASSUME NEW q \in Seq(RadioCommand), q # <<>>, InOrder(q)
  PROVE  /\ InOrder(Tail(q))
         /\ Immediate(Head(q)) => Ahead(Head(q).uid, Tail(q))
         /\ \A u : Ahead(u, q) => Ahead(u, Tail(q)) /\ (Immediate(Head(q)) => u < Head(q).uid)
<1>1. InOrder(Tail(q))
  <2>1. SUFFICES ASSUME NEW i \in DOMAIN Tail(q), NEW j \in DOMAIN Tail(q), i < j,
                        Immediate(Tail(q)[i]), Immediate(Tail(q)[j])
                 PROVE  Tail(q)[i].uid < Tail(q)[j].uid
    BY DEF InOrder
  <2>2. /\ i + 1 \in DOMAIN q /\ Tail(q)[i] = q[i + 1]
        /\ j + 1 \in DOMAIN q /\ Tail(q)[j] = q[j + 1]
        /\ i + 1 < j + 1
    BY <2>1, TailFacts
  <2> QED BY <2>1, <2>2 DEF InOrder
<1>2. Immediate(Head(q)) => Ahead(Head(q).uid, Tail(q))
  BY TailFacts DEF InOrder, Ahead
<1>3. \A u : Ahead(u, q) => Ahead(u, Tail(q)) /\ (Immediate(Head(q)) => u < Head(q).uid)
  BY TailFacts DEF Ahead
<1> QED BY <1>1, <1>2, <1>3

LEMMA SocketThreadOrder ==
  ASSUME TypeOK, TimingInv, OrderInv, SocketThread
  PROVE  OrderInv'
<1>1. UNCHANGED <<pc, command, sent>>
  BY DEF SocketThread
<1>2. CASE UNCHANGED <<gCommandQueue, gAwaitingReturnQueue, accepted>>
  BY <1>1, <1>2 DEF OrderInv
<1>3. ASSUME NEW c \in RadioCommand, NEW a \in Accepted, Adds(c, a)
      PROVE  OrderInv'
  <2>1. /\ accepted' = Append(accepted, a) /\ accepted \in Seq(Accepted)
        /\ gCommandQueue \in Seq(RadioCommand) /\ command \in RadioCommand
        /\ sent \in Seq(Sent) /\ now \in Nat /\ now <= now
        /\ c.uid = Len(accepted) + 1 /\ Len(accepted) \in Nat
    BY <1>3, BoundAssumption DEF Adds, TypeOK, BoundAssumption, NextUid
  <2>2. /\ \A i \in DOMAIN sent : InstantIn(sent[i].uid, accepted') <=> InstantIn(sent[i].uid, accepted)
    BY <2>1, SentTimelyStays DEF TimingInv
  <2>3. /\ SentInOrder(sent, accepted')
        /\ \A u : SentBefore(sent, accepted, u) => SentBefore(sent, accepted', u)
        /\ \A q : SentAhead(sent, accepted, q) => SentAhead(sent, accepted', q)
    BY <2>2 DEF OrderInv, SentInOrder, SentBefore, SentAhead
  <2>4. CASE UNCHANGED gCommandQueue
    BY <1>1, <2>3, <2>4 DEF OrderInv
  <2>5. CASE gCommandQueue' = Append(gCommandQueue, c)
    <3>1. \A i \in DOMAIN gCommandQueue : gCommandQueue[i].uid < c.uid
      <4>1. \A i \in DOMAIN gCommandQueue :
              gCommandQueue[i] \in RadioCommand /\ Timely(gCommandQueue[i], accepted, now)
        BY <2>1 DEF TimingInv, QueueTimely
      <4>2. \A i \in DOMAIN gCommandQueue : gCommandQueue[i].uid \in 1..Len(accepted)
        BY <2>1, <4>1 DEF Timely
      <4> QED BY <2>1, <4>2
    <3>2. \A i \in DOMAIN sent : sent[i].uid < c.uid
      <4>1. \A i \in DOMAIN sent : sent[i].uid \in 1..Len(accepted)
        BY <2>1 DEF TimingInv, SentTimely
      <4> QED BY <2>1, <4>1
    <3>3. pc \in {"check", "send"} => command.uid < c.uid
      <4>1. pc \in {"check", "send"} => command.uid \in 1..Len(accepted)
        BY <2>1 DEF TimingInv, Timely
      <4> QED BY <2>1, <4>1
    <3>4. InOrder(gCommandQueue')
      BY <2>1, <2>5, <3>1, OrderAppend DEF OrderInv
    <3>5. SentAhead(sent, accepted', gCommandQueue')
      BY <2>1, <2>2, <2>5, <3>2, AheadAppend DEF OrderInv, SentAhead
    <3>6. pc \in {"check", "send"} /\ Immediate(command) =>
            Ahead(command.uid, gCommandQueue') /\ SentBefore(sent, accepted', command.uid)
      BY <2>1, <2>3, <2>5, <3>3, AheadAppend DEF OrderInv
    <3> QED BY <1>1, <2>3, <3>4, <3>5, <3>6 DEF OrderInv
  <2> QED BY <1>3, <2>4, <2>5 DEF Adds, AddCommand
<1> QED BY <1>2, <1>3, SocketThreadAdds

LEMMA TransmitOrder ==
  ASSUME TypeOK, TimingInv, OrderInv, pc = "send", NEW heard, Transmit(heard)
  PROVE  SentInOrder(sent', accepted) /\ SentAhead(sent', accepted, gCommandQueue)
<1> DEFINE x == [uid |-> command.uid, byte |-> command.toSend, heard |-> heard, at |-> now]
           n == Len(sent)
<1>1. sent' = Append(sent, x) /\ x.uid = command.uid
  BY DEF Transmit
<1>2. InstantIn(command.uid, accepted) <=> Immediate(command)
  BY DEF TypeOK, TimingInv, Timely, InstantIn, Immediate
<1> HIDE DEF x
<1>3. sent \in Seq(Sent \cup {x}) /\ x \in Sent \cup {x}
  BY DEF TypeOK
<1>4. /\ n \in Nat /\ DOMAIN sent = 1..n /\ DOMAIN sent' = 1..n+1 /\ sent'[n+1] = x
      /\ \A i \in 1..n : sent'[i] = sent[i]
  BY <1>1, <1>3, AppendFacts
<1> HIDE DEF n
<1>5. ASSUME NEW i \in 1..n+1, NEW j \in 1..n+1, i < j,
             InstantIn(sent'[i].uid, accepted), InstantIn(sent'[j].uid, accepted)
      PROVE  sent'[i].uid < sent'[j].uid
  <2>1. i \in 1..n /\ sent'[i] = sent[i]
    BY <1>4, <1>5
  <2>2. CASE j = n + 1
    BY <1>1, <1>2, <1>4, <1>5, <2>1, <2>2 DEF OrderInv, SentBefore
  <2>3. CASE j # n + 1
    <3>1. j \in 1..n /\ sent'[j] = sent[j]
      BY <1>4, <2>3
    <3> QED BY <1>4, <1>5, <2>1, <3>1 DEF OrderInv, SentInOrder
  <2> QED BY <2>2, <2>3
<1>6. SentInOrder(sent', accepted)
  BY <1>4, <1>5 DEF SentInOrder
<1>7. \A i \in 1..n+1 : (i \in 1..n /\ sent'[i] = sent[i]) \/ sent'[i] = x
  BY <1>4
<1>8. SentAhead(sent', accepted, gCommandQueue)
  BY <1>1, <1>2, <1>4, <1>7 DEF OrderInv, SentAhead
<1> QED BY <1>6, <1>8

LEMMA ProcessingThreadOrder ==
  ASSUME TypeOK, TimingInv, OrderInv, ProcessingThread
  PROVE  OrderInv'
<1>0. UNCHANGED accepted /\ gCommandQueue \in Seq(RadioCommand)
  BY DEF ProcessingThread, TypeOK
<1>1. CASE RetrieveCommand
  <2>1. /\ gCommandQueue # <<>> /\ gCommandQueue' = Tail(gCommandQueue)
        /\ command' = Head(gCommandQueue) /\ UNCHANGED sent
    BY <1>1 DEF RetrieveCommand
  <2>2. InOrder(gCommandQueue') /\ (Immediate(command') => Ahead(command'.uid, gCommandQueue'))
    BY <1>0, <2>1, OrderTail DEF OrderInv
  <2>3. /\ SentAhead(sent, accepted, gCommandQueue')
        /\ Immediate(command') => SentBefore(sent, accepted, command'.uid)
    BY <1>0, <2>1, OrderTail DEF OrderInv, SentAhead, SentBefore
  <2> QED BY <1>0, <2>1, <2>2, <2>3 DEF OrderInv
<1>2. CASE PutBack
  <2>1. /\ command \in RadioCommand /\ gCommandQueue' = Append(gCommandQueue, command)
        /\ UNCHANGED sent /\ pc' = "retrieve"
    BY <1>2 DEF PutBack, AddCommand, TypeOK
  <2>2. ~Immediate(command)
    BY <1>2 DEF PutBack, TimingInv, Timely, Due
  <2>3. InOrder(gCommandQueue')
    BY <1>0, <2>1, <2>2, OrderAppend DEF OrderInv
  <2>4. SentAhead(sent, accepted, gCommandQueue')
    BY <1>0, <2>1, <2>2, AheadAppend DEF OrderInv, SentAhead
  <2> QED BY <1>0, <2>1, <2>3, <2>4 DEF OrderInv
<1>3. CASE XBeeRadioConnect
  BY <1>0, <1>3 DEF XBeeRadioConnect, queueVars, OrderInv
<1>4. ASSUME NEW heard, Transmit(heard), pc = "send", pc' \in {"receive", "aborted"},
             UNCHANGED <<queueVars, command, reply, replies>>
      PROVE  OrderInv'
  BY <1>0, <1>4, TransmitOrder DEF OrderInv, queueVars
<1>5. CASE SendAcknowledged \/ SendFails \/ SendBroadcast
  BY <1>4, <1>5 DEF SendAcknowledged, SendFails, SendBroadcast
<1>6. CASE UNCHANGED <<gCommandQueue, sent>> /\ pc' \notin {"check", "send"}
  BY <1>0, <1>6 DEF OrderInv
<1> QED
  BY <1>1, <1>2, <1>3, <1>5, <1>6
  DEF ProcessingThread, FindQueueEmpty, ReceiveAnswer, ReceiveNothing, AwaitReturn,
      GetReturnData, NothingToReturn, HandOver, Sleep, queueVars

LEMMA OrderStep ==
  ASSUME TypeOK, TimingInv, OrderInv, [Next]_vars
  PROVE  OrderInv'
<1>1. CASE UNCHANGED <<gCommandQueue, pc, command, sent, accepted>>
  BY <1>1 DEF OrderInv
<1> QED
  BY <1>1, SocketThreadOrder, ProcessingThreadOrder
  DEF Next, Tick, LoseAnswer, Ended, vars, queueVars, historyVars

LEMMA OrderInvariant == Spec => []OrderInv
<1>1. Init => OrderInv
  BY DEF Init, OrderInv, InOrder, SentAhead, SentInOrder
<1>2. TypeOK /\ TimingInv /\ OrderInv /\ [Next]_vars => OrderInv'
  BY OrderStep
<1> QED BY <1>1, <1>2, TypeCorrect, TimingInvariant, PTL DEF Spec

\* Commands without a delay are sent in the order of the calls that added them,
\* although delayed ones go round the queue between them and one call adds many.
THEOREM InstantOrder == Spec => []InstantCommandsSentInOrder
<1>1. OrderInv => InstantCommandsSentInOrder
  BY DEF OrderInv, SentInOrder, InstantIn, InstantCommandsSentInOrder, Instant
<1> QED BY <1>1, OrderInvariant, PTL

-----------------------------------------------------------------------------
(***************************************************************************)
(* A command that is due keeps its place.                                   *)
(***************************************************************************)
LineOf(c, q) == (IF c.uid = 0 THEN <<>> ELSE <<c>>) \o q

\* Every due command of line l, at time t, is in a line m no further back, or
\* has gone to the queue r of those that await their reply.
KeepsPlaces(l, t, m, r) ==
  \A i \in DOMAIN l : Due(l[i], t) =>
    l[i].uid \in Uids(r) \/ \E j \in DOMAIN m : j <= i /\ m[j] = l[i]

\* The arithmetic of places: all but the first of n+1 follow one of n.
LEMMA Places ==
  ASSUME NEW n \in Nat, NEW k \in Nat, n <= k, NEW i \in 1..n+1
  PROVE  /\ i <= i /\ i \in 1..k+1
         /\ i # 1 => /\ i \in 2..n+1 /\ i \in 2..k+1
                     /\ i - 1 \in 1..n /\ i - 1 \in 1..k /\ i - 1 <= i
  OBVIOUS

LEMMA LineFacts ==
  ASSUME NEW c \in RadioCommand, NEW q \in Seq(RadioCommand)
  PROVE  /\ c.uid = 0 => LineOf(c, q) = q
         /\ c.uid # 0 =>
              /\ DOMAIN LineOf(c, q) = 1..Len(q)+1
              /\ LineOf(c, q)[1] = c
              /\ \A i \in 2..Len(q)+1 : LineOf(c, q)[i] = q[i-1]
<1>1. CASE c.uid = 0
  BY <1>1 DEF LineOf
<1>2. CASE c.uid # 0
  <2>1. LineOf(c, q) = <<c>> \o q
    BY <1>2 DEF LineOf
  <2> QED BY <1>2, <2>1
<1> QED BY <1>1, <1>2

\* A line that stays, or grows at its end, keeps every place.
LEMMA GrowingKeepsPlaces ==
  ASSUME NEW c \in RadioCommand, NEW q \in Seq(RadioCommand), NEW t, NEW r,
         NEW p \in Seq(RadioCommand),
         p = q \/ \E d \in RadioCommand : p = Append(q, d)
  PROVE  KeepsPlaces(LineOf(c, q), t, LineOf(c, p), r)
<1>1. /\ Len(q) \in Nat /\ Len(p) \in Nat /\ Len(p) >= Len(q)
      /\ DOMAIN q = 1..Len(q) /\ DOMAIN p = 1..Len(p)
      /\ \A i \in 1..Len(q) : p[i] = q[i]
  BY AppendFacts
<1>2. CASE c.uid = 0
  <2>1. LineOf(c, q) = q /\ LineOf(c, p) = p
    BY <1>2, LineFacts
  <2>2. ASSUME NEW i \in 1..Len(q) PROVE i \in DOMAIN p /\ p[i] = q[i] /\ i <= i
    <3>1. Len(q) \in Nat /\ Len(p) \in Nat /\ Len(p) >= Len(q)
      BY <1>1
    <3>2. i \in 1..Len(p) /\ i <= i
      BY <3>1
    <3> QED BY <1>1, <3>2
  <2>3. KeepsPlaces(q, t, p, r)
    BY <1>1, <2>2 DEF KeepsPlaces
  <2> QED BY <2>1, <2>3
<1>3. CASE c.uid # 0
  <2> DEFINE l == LineOf(c, q)
             m == LineOf(c, p)
  <2>1. /\ DOMAIN l = 1..Len(q)+1 /\ l[1] = c
        /\ \A i \in 2..Len(q)+1 : l[i] = q[i-1]
    BY <1>3, LineFacts
  <2>2. /\ DOMAIN m = 1..Len(p)+1 /\ m[1] = c
        /\ \A i \in 2..Len(p)+1 : m[i] = p[i-1]
    BY <1>3, LineFacts
  <2> HIDE DEF l, m
  <2>3. ASSUME NEW i \in 1..Len(q)+1 PROVE i \in DOMAIN m /\ m[i] = l[i] /\ i <= i
    <3>0. i \in 1..Len(p)+1 /\ i <= i
      BY <1>1, Places
    <3>1. CASE i = 1
      BY <2>1, <2>2, <3>0, <3>1
    <3>2. CASE i # 1
      <4>1. i \in 2..Len(q)+1 /\ i \in 2..Len(p)+1 /\ i - 1 \in 1..Len(q)
        BY <1>1, <3>2, Places
      <4> QED BY <1>1, <2>1, <2>2, <3>0, <4>1
    <3> QED BY <3>1, <3>2
  <2>4. KeepsPlaces(l, t, m, r)
    BY <2>1, <2>3 DEF KeepsPlaces
  <2> QED BY <2>4 DEF l, m
<1> QED BY <1>2, <1>3

\* When the command in hand goes, not due or to await its reply, the others move
\* up, whatever is added behind them.
LEMMA LeavingKeepsPlaces ==
  ASSUME NEW c \in RadioCommand, NEW q \in Seq(RadioCommand), NEW t, NEW r,
         NEW p \in Seq(RadioCommand),
         p = q \/ \E d \in RadioCommand : p = Append(q, d),
         c.uid # 0, ~Due(c, t) \/ c.uid \in Uids(r)
  PROVE  KeepsPlaces(LineOf(c, q), t, p, r)
<1>1. /\ Len(q) \in Nat /\ Len(p) \in Nat /\ Len(p) >= Len(q)
      /\ DOMAIN q = 1..Len(q) /\ DOMAIN p = 1..Len(p)
      /\ \A i \in 1..Len(q) : p[i] = q[i]
  BY AppendFacts
<1> DEFINE l == LineOf(c, q)
<1>2. /\ DOMAIN l = 1..Len(q)+1 /\ l[1] = c
      /\ \A i \in 2..Len(q)+1 : l[i] = q[i-1]
  BY LineFacts
<1> HIDE DEF l
<1>3. ASSUME NEW i \in DOMAIN l, Due(l[i], t)
      PROVE  l[i].uid \in Uids(r) \/ \E j \in DOMAIN p : j <= i /\ p[j] = l[i]
  <2>1. CASE i = 1
    BY <1>2, <1>3, <2>1
  <2>2. CASE i # 1
    <3>1. i \in 2..Len(q)+1 /\ i - 1 \in 1..Len(q) /\ i - 1 \in DOMAIN p /\ i - 1 <= i
      BY <1>1, <1>2, <1>3, <2>2, Places
    <3>2. p[i-1] = l[i]
      BY <1>1, <1>2, <3>1
    <3> QED BY <3>1, <3>2
  <2> QED BY <2>1, <2>2
<1>4. KeepsPlaces(l, t, p, r)
  BY <1>3 DEF KeepsPlaces
<1> QED BY <1>4 DEF l

\* Taking the head of the queue in hand moves nothing.
LEMMA TakingKeepsPlaces ==
  ASSUME NEW q \in Seq(RadioCommand), q # <<>>, Head(q).uid # 0, NEW t, NEW r
  PROVE  KeepsPlaces(q, t, LineOf(Head(q), Tail(q)), r)
<1> DEFINE m == LineOf(Head(q), Tail(q))
<1>1. /\ Len(q) \in Nat /\ Len(q) >= 1 /\ Len(Tail(q)) = Len(q) - 1
      /\ DOMAIN q = 1..Len(q)
      /\ Head(q) = q[1] /\ Head(q) \in RadioCommand
      /\ Tail(q) \in Seq(RadioCommand)
      /\ \A i \in 1..Len(q)-1 : Tail(q)[i] = q[i+1]
  OBVIOUS
<1>2. /\ DOMAIN m = 1..Len(Tail(q))+1 /\ m[1] = Head(q)
      /\ \A i \in 2..Len(Tail(q))+1 : m[i] = Tail(q)[i-1]
  BY <1>1, LineFacts
<1> HIDE DEF m
<1>3. ASSUME NEW i \in 1..Len(q) PROVE i \in DOMAIN m /\ m[i] = q[i] /\ i <= i
  <2>1. CASE i = 1
    BY <1>1, <1>2, <2>1
  <2>2. CASE i # 1
    <3>1. i \in 2..Len(Tail(q))+1 /\ i - 1 \in 1..Len(q)-1 /\ (i - 1) + 1 = i
      BY <1>1, <2>2
    <3> QED BY <1>1, <1>2, <3>1
  <2> QED BY <2>1, <2>2
<1>4. KeepsPlaces(q, t, m, r)
  BY <1>1, <1>3 DEF KeepsPlaces
<1> QED BY <1>4 DEF m

StepKeepsPlaces ==
  KeepsPlaces(LineOf(command, gCommandQueue), now,
              LineOf(command', gCommandQueue'), gAwaitingReturnQueue')

LEMMA ProcessingThreadKeepsPlaces ==
  ASSUME TypeOK, TypeOK', OnePlace, ProcessingThread
  PROVE  StepKeepsPlaces
<1> USE DEF queueVars
<1>0. /\ gCommandQueue \in Seq(RadioCommand) /\ command \in RadioCommand
      /\ gAwaitingReturnQueue \in Seq(RadioCommand)
      /\ gCommandQueue' \in Seq(RadioCommand) /\ command' \in RadioCommand
      /\ NoCommand \in RadioCommand /\ NoCommand.uid = 0
  BY NoCommandType DEF TypeOK, NoCommand
<1>1. CASE RetrieveCommand
  <2>1. command.uid = 0 /\ gCommandQueue # <<>> /\ Head(gCommandQueue).uid # 0
    BY <1>0, <1>1, Numbered, HeadType DEF RetrieveCommand, TypeOK
  <2>2. LineOf(command, gCommandQueue) = gCommandQueue
    BY <1>0, <2>1, LineFacts
  <2> QED BY <1>0, <1>1, <2>1, <2>2, TakingKeepsPlaces
      DEF RetrieveCommand, StepKeepsPlaces
<1>2. CASE PutBack
  <2>1. command.uid # 0 /\ ~Due(command, now) /\ command' = NoCommand
        /\ gCommandQueue' = Append(gCommandQueue, command)
    BY <1>2 DEF PutBack, TypeOK, AddCommand, ThreadStates
  <2>2. LineOf(command', gCommandQueue') = gCommandQueue'
    BY <1>0, <2>1, LineFacts
  <2> QED BY <1>0, <2>1, <2>2, LeavingKeepsPlaces DEF StepKeepsPlaces
<1>3. CASE ReceiveAnswer \/ ReceiveNothing
  <2>1. PICK byte \in SUBSET Relays : AwaitReturn(byte)
    <3>1. CASE ReceiveAnswer
      <4>1. command.ep \in Endpoints
        BY <3>1 DEF ReceiveAnswer, TypeOK, RadioCommand
      <4>2. Head(air[command.ep]) \in SUBSET Relays
        BY <3>1, <4>1 DEF ReceiveAnswer, TypeOK
      <4> QED BY <3>1, <4>2 DEF ReceiveAnswer
    <3>2. CASE ReceiveNothing
      BY <3>2 DEF ReceiveNothing
    <3> QED BY <1>3, <3>1, <3>2
  <2>2. command.uid # 0 /\ command' = NoCommand /\ gCommandQueue' = gCommandQueue
    BY <1>3, <2>1 DEF ReceiveAnswer, ReceiveNothing, AwaitReturn, TypeOK
  <2>3. command.uid \in Uids(gAwaitingReturnQueue')
    <3>1. SetReturnData(command, byte) \in RadioCommand
          /\ SetReturnData(command, byte).uid = command.uid
      BY <1>0, <2>1 DEF SetReturnData, RadioCommand, CommandFields
    <3> QED BY <1>0, <2>1, <3>1, UidsOfAppend DEF AwaitReturn, AddCommand
  <2>4. LineOf(command', gCommandQueue') = gCommandQueue'
    BY <1>0, <2>2, LineFacts
  <2> QED BY <1>0, <2>2, <2>3, <2>4, LeavingKeepsPlaces DEF StepKeepsPlaces
<1>4. CASE UNCHANGED <<gCommandQueue, command>>
  BY <1>0, <1>4, GrowingKeepsPlaces DEF StepKeepsPlaces
<1> QED BY <1>1, <1>2, <1>3, <1>4
    DEF ProcessingThread, FindQueueEmpty, XBeeRadioConnect, SendAcknowledged,
        SendFails, SendBroadcast, GetReturnData, NothingToReturn, HandOver, Sleep

LEMMA KeepsPlacesStep ==
  ASSUME TypeOK, TypeOK', OnePlace, [Next]_vars
  PROVE  StepKeepsPlaces
<1>0. /\ gCommandQueue \in Seq(RadioCommand) /\ command \in RadioCommand
      /\ gCommandQueue' \in Seq(RadioCommand)
  BY DEF TypeOK
<1>1. CASE SocketThread
  <2>1. command' = command
        /\ \/ gCommandQueue' = gCommandQueue
           \/ \E d \in RadioCommand : gCommandQueue' = Append(gCommandQueue, d)
    BY <1>1, SocketThreadAdds DEF SocketThread, Adds, AddCommand
  <2> QED BY <1>0, <2>1, GrowingKeepsPlaces DEF StepKeepsPlaces
<1>2. CASE UNCHANGED <<gCommandQueue, command>>
  BY <1>0, <1>2, GrowingKeepsPlaces DEF StepKeepsPlaces
<1> QED BY <1>1, <1>2, ProcessingThreadKeepsPlaces
    DEF Next, Tick, LoseAnswer, Ended, vars, queueVars

\* While delayed commands are put back and others are added, no command passes
\* one that is due, for every number of commands and every delay.
THEOREM DueServedInTurn == Spec => DueKeepsItsPlace
<1>1. TypeOK /\ OnePlace /\ TypeOK' /\ [Next]_vars
        => [\A i \in DOMAIN Line : Due(Line[i], now) =>
              \/ Line[i].uid \in Uids(gAwaitingReturnQueue')
              \/ \E j \in DOMAIN Line' : j <= i /\ Line'[j] = Line[i]]_vars
  BY KeepsPlacesStep DEF StepKeepsPlaces, KeepsPlaces, LineOf, Line
<1> QED BY <1>1, BaseInvariant, PTL DEF Spec, DueKeepsItsPlace
-----------------------------------------------------------------------------
(***************************************************************************)
(* In which order replies come.  A command sent is on its way through the   *)
(* processing thread's hands, the queue of those that await their reply and *)
(* the reply buffer to the replies, and nothing overtakes it there.         *)
(***************************************************************************)
\* Command u has been sent, and every command sent before it is in S.
Follows(u, s, S) ==
  \E k \in DOMAIN s : s[k].uid = u /\ \A i \in 1..k-1 : s[i].uid \in S

\* x, a command or a reply, is of the type its call asked for.
Known(x, acc) == x.uid \in DOMAIN acc /\ acc[x.uid].commandType = x.commandType

\* The numbers of the first n elements of a sequence.
FirstUids(q, n) == {q[i].uid : i \in 1..n}

\* Each of q that uses the radio follows S and those before it in q.
AllFollow(q, acc, s, S) ==
  \A a \in DOMAIN q :
    /\ Known(q[a], acc)
    /\ UsesRadio(q[a]) => Follows(q[a].uid, s, S \cup FirstUids(q, a - 1))

\* The numbers of the commands that are past the radio.
PastRadio ==
  Uids(replies) \cup UidOf(reply) \cup Uids(gAwaitingReturnQueue)
    \cup (IF pc = "receive" THEN {command.uid} ELSE {})

SentOnce(s, acc) ==
  /\ DistinctUids(s)
  /\ \A i \in DOMAIN s : s[i].uid \in DOMAIN acc
                         /\ acc[s[i].uid].commandType # "GetNumSwitches"

ReturnInv ==
  /\ SentOnce(sent, accepted)
  /\ AllFollow(replies, accepted, sent, {})
  /\ pc = "reply" => /\ Known(reply, accepted)
                     /\ UsesRadio(reply) => Follows(reply.uid, sent, Uids(replies))
  /\ AllFollow(gAwaitingReturnQueue, accepted, sent, Uids(replies) \cup UidOf(reply))
  /\ pc = "receive" => /\ Known(command, accepted)
                       /\ Follows(command.uid, sent, Uids(replies) \cup UidOf(reply)
                                                       \cup Uids(gAwaitingReturnQueue))
  /\ pc # "aborted" => Uids(sent) \subseteq PastRadio

-----------------------------------------------------------------------------
(***************************************************************************)
(* What was said of the order stays so while histories grow, and passes on  *)
(* with the commands.                                                       *)
(***************************************************************************)
LEMMA FollowsStays ==
  ASSUME NEW s \in Seq(Sent), NEW t, Grows(s, t), NEW S, NEW T, S \subseteq T,
         NEW u, Follows(u, s, S)
  PROVE  Follows(u, t, T)
<1>1. PICK k \in DOMAIN s : s[k].uid = u /\ \A i \in 1..k-1 : s[i].uid \in S
  BY DEF Follows
<1>2. k \in DOMAIN t /\ t[k] = s[k] /\ \A i \in 1..k-1 : i \in DOMAIN s
  BY GrowthFacts
<1>3. \A i \in 1..k-1 : t[i] = s[i]
  BY <1>2, GrowthFacts
<1> QED BY <1>1, <1>2, <1>3 DEF Follows

LEMMA KnownStays ==
  ASSUME NEW acc \in Seq(Accepted), NEW bcc, Grows(acc, bcc), NEW x, Known(x, acc)
  PROVE  Known(x, bcc)
  BY GrowthFacts DEF Known

LEMMA AllFollowStays ==
  ASSUME NEW acc \in Seq(Accepted), NEW bcc, Grows(acc, bcc),
         NEW s \in Seq(Sent), NEW t, Grows(s, t), NEW S, NEW T, S \subseteq T,
         NEW q, AllFollow(q, acc, s, S)
  PROVE  AllFollow(q, bcc, t, T)
<1>1. SUFFICES ASSUME NEW a \in DOMAIN q
               PROVE  /\ Known(q[a], bcc)
                      /\ UsesRadio(q[a]) => Follows(q[a].uid, t, T \cup FirstUids(q, a - 1))
  BY DEF AllFollow
<1>2. S \cup FirstUids(q, a - 1) \subseteq T \cup FirstUids(q, a - 1)
  OBVIOUS
<1>3. /\ Known(q[a], acc)
      /\ UsesRadio(q[a]) => Follows(q[a].uid, s, S \cup FirstUids(q, a - 1))
  BY DEF AllFollow
<1>4. Known(q[a], bcc)
  BY <1>3, KnownStays
<1>5. UsesRadio(q[a]) => Follows(q[a].uid, t, T \cup FirstUids(q, a - 1))
  BY <1>2, <1>3, FollowsStays
<1> QED BY <1>4, <1>5

\* The one added follows all that are there.
LEMMA AllFollowAppend ==
  ASSUME NEW X, NEW q \in Seq(X), NEW x \in X, NEW acc, NEW s, NEW S,
         AllFollow(q, acc, s, S), Known(x, acc),
         UsesRadio(x) => Follows(x.uid, s, S \cup Uids(q))
  PROVE  AllFollow(Append(q, x), acc, s, S)
<1> DEFINE p == Append(q, x)
           n == Len(q)
<1>1. /\ n \in Nat /\ DOMAIN q = 1..n /\ DOMAIN p = 1..n+1 /\ p[n+1] = x
      /\ \A i \in 1..n : p[i] = q[i]
  BY AppendFacts
<1> HIDE DEF p, n
<1>2. ASSUME NEW a \in 1..n+1
      PROVE  /\ a # n + 1 => a \in 1..n
             /\ FirstUids(p, a - 1) = FirstUids(q, a - 1)
  <2>1. \A i \in 1..a-1 : i \in 1..n
    BY <1>1
  <2>2. \A i \in 1..a-1 : p[i] = q[i]
    BY <1>1, <2>1
  <2>3. FirstUids(p, a - 1) = FirstUids(q, a - 1)
    BY <2>2 DEF FirstUids
  <2> QED BY <1>1, <2>3
<1>3. FirstUids(q, (n + 1) - 1) = Uids(q) /\ n + 1 \in 1..n+1
  BY <1>1 DEF FirstUids, Uids
<1>4. ASSUME NEW a \in 1..n+1
      PROVE  /\ Known(p[a], acc)
             /\ UsesRadio(p[a]) => Follows(p[a].uid, s, S \cup FirstUids(p, a - 1))
  <2>1. CASE a = n + 1
    BY <1>1, <1>2, <1>3, <2>1
  <2>2. CASE a # n + 1
    <3>1. a \in DOMAIN q /\ p[a] = q[a] /\ FirstUids(p, a - 1) = FirstUids(q, a - 1)
      BY <1>1, <1>2, <2>2
    <3> QED BY <3>1 DEF AllFollow
  <2> QED BY <2>1, <2>2
<1>5. AllFollow(p, acc, s, S)
  BY <1>1, <1>4 DEF AllFollow
<1> QED BY <1>5 DEF p

\* When the first is taken, it comes before the rest.
LEMMA AllFollowTail ==
  ASSUME NEW X, NEW q \in Seq(X), q # <<>>, NEW acc, NEW s \in Seq(Sent), NEW S,
         AllFollow(q, acc, s, S)
  PROVE  /\ Known(Head(q), acc)
         /\ UsesRadio(Head(q)) => Follows(Head(q).uid, s, S)
         /\ AllFollow(Tail(q), acc, s, S \cup {Head(q).uid})
<1> DEFINE p == Tail(q)
           n == Len(q)
<1>1. /\ n \in Nat /\ n >= 1 /\ DOMAIN q = 1..n /\ DOMAIN p = 1..n-1
      /\ Head(q) = q[1] /\ \A i \in 1..n-1 : p[i] = q[i+1]
  OBVIOUS
<1> HIDE DEF p, n
<1>2. 1 \in DOMAIN q /\ S \cup FirstUids(q, 1 - 1) = S
  BY <1>1 DEF FirstUids
<1>3. ASSUME NEW a \in 1..n-1
      PROVE  /\ Known(p[a], acc)
             /\ UsesRadio(p[a]) =>
                  Follows(p[a].uid, s, (S \cup {q[1].uid}) \cup FirstUids(p, a - 1))
  <2>1. a + 1 \in DOMAIN q /\ p[a] = q[a + 1] /\ (a + 1) - 1 = a
    BY <1>1
  <2>2. FirstUids(q, a) \subseteq {q[1].uid} \cup FirstUids(p, a - 1)
    <3>1. ASSUME NEW i \in 1..a
          PROVE  q[i].uid \in {q[1].uid} \cup FirstUids(p, a - 1)
      <4>1. CASE i # 1
        <5>1. i - 1 \in 1..a-1 /\ i - 1 \in 1..n-1 /\ (i - 1) + 1 = i
          BY <1>1, <4>1
        <5>2. p[i - 1] = q[i]
          BY <1>1, <5>1
        <5> QED BY <5>1, <5>2 DEF FirstUids
      <4> QED BY <4>1
    <3> QED BY <3>1 DEF FirstUids
  <2>3. /\ Known(q[a + 1], acc)
        /\ UsesRadio(q[a + 1]) => Follows(q[a + 1].uid, s, S \cup FirstUids(q, a))
    BY <2>1 DEF AllFollow
  <2>4. Grows(s, s) /\ S \cup FirstUids(q, a) \subseteq (S \cup {q[1].uid}) \cup FirstUids(p, a - 1)
    BY <2>2 DEF Grows
  <2> QED BY <2>1, <2>3, <2>4, FollowsStays
<1>4. AllFollow(p, acc, s, S \cup {q[1].uid})
  BY <1>1, <1>3 DEF AllFollow
<1> QED BY <1>1, <1>2, <1>4 DEF p, AllFollow

-----------------------------------------------------------------------------
(***************************************************************************)
(* Every step keeps the order of the replies.                               *)
(***************************************************************************)
LEMMA SentOnceStays ==
  ASSUME NEW acc \in Seq(Accepted), NEW bcc, Grows(acc, bcc), NEW s, SentOnce(s, acc)
  PROVE  SentOnce(s, bcc)
  BY GrowthFacts DEF SentOnce

LEMMA SocketThreadReturns ==
  ASSUME TypeOK, ReturnInv, SocketThread
  PROVE  ReturnInv'
<1>1. UNCHANGED <<pc, command, reply, sent, replies>> /\ Grows(sent, sent')
  BY DEF SocketThread, Grows
<1>2. CASE UNCHANGED <<gCommandQueue, gAwaitingReturnQueue, accepted>>
  BY <1>1, <1>2 DEF ReturnInv, PastRadio
<1>3. ASSUME NEW c \in RadioCommand, NEW a \in Accepted, Adds(c, a)
      PROVE  ReturnInv'
  <2>1. /\ Grows(accepted, accepted') /\ accepted \in Seq(Accepted)
        /\ sent \in Seq(Sent) /\ gAwaitingReturnQueue \in Seq(RadioCommand)
        /\ c.uid \in DOMAIN accepted' /\ accepted'[c.uid].commandType = c.commandType
    <3>1. accepted \in Seq(Accepted) /\ accepted' = Append(accepted, a)
      BY <1>3 DEF Adds, TypeOK
    <3>2. c.uid \in DOMAIN accepted' /\ accepted'[c.uid] = a
      BY <1>3, <3>1, AppendFacts DEF Adds, NextUid
    <3> QED BY <1>3, <3>1, <3>2 DEF Grows, Adds, TypeOK
  <2>2. SentOnce(sent', accepted')
    BY <1>1, <2>1, SentOnceStays DEF ReturnInv
  <2>3. AllFollow(replies', accepted', sent', {})
    BY <1>1, <2>1, AllFollowStays DEF ReturnInv
  <2>4. pc' = "reply" =>
          /\ Known(reply', accepted')
          /\ UsesRadio(reply') => Follows(reply'.uid, sent', Uids(replies'))
    BY <1>1, <2>1, KnownStays DEF ReturnInv
  <2> DEFINE S == Uids(replies) \cup UidOf(reply)
  <2>5. AllFollow(gAwaitingReturnQueue, accepted', sent', S)
    BY <1>1, <2>1, AllFollowStays DEF ReturnInv
  <2>6. /\ AllFollow(gAwaitingReturnQueue', accepted', sent', S)
        /\ Uids(gAwaitingReturnQueue) \subseteq Uids(gAwaitingReturnQueue')
    <3>1. CASE UNCHANGED gAwaitingReturnQueue
      BY <2>5, <3>1
    <3>2. CASE /\ gAwaitingReturnQueue' = Append(gAwaitingReturnQueue, c)
               /\ ~UsesRadio(c)
      BY <2>1, <2>5, <3>2, AllFollowAppend, UidsOfAppend DEF Known
    <3> QED BY <1>3, <3>1, <3>2 DEF Adds, AddCommand
  <2>7. pc' = "receive" =>
          /\ Known(command', accepted')
          /\ Follows(command'.uid, sent', S \cup Uids(gAwaitingReturnQueue'))
    <3>1. SUFFICES ASSUME pc = "receive"
                   PROVE  /\ Known(command, accepted')
                          /\ Follows(command.uid, sent', S \cup Uids(gAwaitingReturnQueue'))
      BY <1>1
    <3>2. Known(command, accepted) /\ Follows(command.uid, sent, S \cup Uids(gAwaitingReturnQueue))
      BY <3>1 DEF ReturnInv
    <3>3. Known(command, accepted')
      BY <2>1, <3>2, KnownStays
    <3>4. S \cup Uids(gAwaitingReturnQueue) \subseteq S \cup Uids(gAwaitingReturnQueue')
      BY <2>6
    <3> HIDE DEF S
    <3>5. Follows(command.uid, sent', S \cup Uids(gAwaitingReturnQueue'))
      BY <1>1, <2>1, <3>2, <3>4, FollowsStays
    <3> QED BY <3>3, <3>5
  <2>8. pc' # "aborted" => Uids(sent') \subseteq PastRadio'
    BY <1>1, <2>6 DEF ReturnInv, PastRadio
  <2> QED BY <1>1, <2>2, <2>3, <2>4, <2>6, <2>7, <2>8 DEF ReturnInv
<1> QED BY <1>2, <1>3, SocketThreadAdds

\* What is sent has not been sent before, and follows all that has.
LEMMA TransmitReturns ==
  ASSUME TypeOK, OnePlace, TimingInv, ReturnInv, pc = "send",
         NEW heard, Transmit(heard), pc' \in {"receive", "aborted"},
         UNCHANGED <<queueVars, command, reply, replies, accepted>>
  PROVE  ReturnInv'
<1> DEFINE x == [uid |-> command.uid, byte |-> command.toSend, heard |-> heard, at |-> now]
           n == Len(sent)
           S == Uids(replies) \cup UidOf(reply) \cup Uids(gAwaitingReturnQueue)
<1>1. /\ sent' = Append(sent, x) /\ x.uid = command.uid
      /\ Grows(sent, sent') /\ Grows(accepted, accepted')
      /\ accepted \in Seq(Accepted) /\ sent \in Seq(Sent)
  BY DEF Transmit, Grows, TypeOK
<1>2. Known(command, accepted) /\ command.commandType \in RadioTypes /\ command.uid # 0
  BY DEF TimingInv, Timely, TypeOK, Known
<1>3. Uids(sent) \subseteq S /\ command.uid \notin S
  <2>1. command.uid \in UidOf(command)
    BY <1>2 DEF UidOf
  <2> QED BY <2>1 DEF ReturnInv, PastRadio, OnePlace, Disjoint5
<1> HIDE DEF x
<1>4. sent \in Seq(Sent \cup {x}) /\ x \in Sent \cup {x}
  BY <1>1
<1>5. /\ n \in Nat /\ DOMAIN sent = 1..n /\ DOMAIN sent' = 1..n+1 /\ sent'[n+1] = x
      /\ \A i \in 1..n : sent'[i] = sent[i]
  BY <1>1, <1>4, AppendFacts
<1>6. Uids(sent') = Uids(sent) \cup {command.uid} /\ DistinctUids(sent')
  BY <1>1, <1>3, <1>4, UidsOfAppend, DistinctAppend DEF ReturnInv, SentOnce
<1> HIDE DEF n
<1>7. SentOnce(sent', accepted')
  <2>1. \A i \in 1..n+1 : (i \in DOMAIN sent /\ sent'[i] = sent[i]) \/ sent'[i] = x
    BY <1>5
  <2>2. command.commandType # "GetNumSwitches"
    BY <1>2 DEF RadioTypes, SetTypes, SetSingleTypes
  <2> QED BY <1>1, <1>2, <1>5, <1>6, <2>1, <2>2 DEF ReturnInv, SentOnce, Known
<1>8. Follows(command.uid, sent', S)
  <2>1. \A i \in 1..(n+1)-1 : sent'[i].uid \in S
    BY <1>3, <1>5 DEF Uids
  <2>2. n + 1 \in DOMAIN sent'
    BY <1>5
  <2> QED BY <1>1, <1>5, <2>1, <2>2 DEF Follows
<1>9. /\ AllFollow(replies', accepted', sent', {})
      /\ AllFollow(gAwaitingReturnQueue', accepted', sent', Uids(replies') \cup UidOf(reply'))
  BY <1>1, AllFollowStays DEF ReturnInv, queueVars
<1>10. Uids(sent') \subseteq S \cup {command.uid}
  BY <1>3, <1>6
<1>11. UNCHANGED <<S, command, accepted>>
  BY DEF queueVars
<1> QED BY <1>2, <1>7, <1>8, <1>9, <1>10, <1>11 DEF ReturnInv, PastRadio

LEMMA ProcessingThreadReturns ==
  ASSUME TypeOK, OnePlace, TimingInv, ReturnInv, ProcessingThread
  PROVE  ReturnInv'
<1>0. /\ UNCHANGED accepted /\ Grows(accepted, accepted') /\ Grows(sent, sent)
      /\ accepted \in Seq(Accepted) /\ sent \in Seq(Sent)
      /\ gAwaitingReturnQueue \in Seq(RadioCommand) /\ replies \in Seq(Reply)
  BY DEF ProcessingThread, Grows, TypeOK
<1>1. CASE SendAcknowledged \/ SendFails \/ SendBroadcast
  BY <1>0, <1>1, TransmitReturns DEF SendAcknowledged, SendFails, SendBroadcast
<1>2. ASSUME NEW byte \in SUBSET Relays, pc = "receive", AwaitReturn(byte)
      PROVE  ReturnInv'
  <2> DEFINE done == SetReturnData(command, byte)
             S == Uids(replies) \cup UidOf(reply)
  <2>1. /\ done.uid = command.uid /\ done.commandType = command.commandType
        /\ done \in RadioCommand
    BY DEF SetReturnData, TypeOK, RadioCommand, CommandFields
  <2>2. /\ gAwaitingReturnQueue' = Append(gAwaitingReturnQueue, done)
        /\ UNCHANGED <<reply, sent, replies>> /\ pc' = "retrieve"
    BY <1>2 DEF AwaitReturn, AddCommand
  <2> HIDE DEF done
  <2>3. /\ Known(done, accepted)
        /\ Follows(done.uid, sent, S \cup Uids(gAwaitingReturnQueue))
    BY <1>2, <2>1 DEF ReturnInv, Known
  <2>4. AllFollow(gAwaitingReturnQueue', accepted, sent, S)
    BY <1>0, <2>1, <2>2, <2>3, AllFollowAppend DEF ReturnInv
  <2>5. Uids(gAwaitingReturnQueue') = Uids(gAwaitingReturnQueue) \cup {command.uid}
    BY <1>0, <2>1, <2>2, UidsOfAppend
  <2>6. Uids(sent') \subseteq PastRadio'
    BY <1>2, <2>2, <2>5 DEF ReturnInv, PastRadio
  <2> QED BY <1>0, <2>2, <2>4, <2>6 DEF ReturnInv
<1>3. CASE ReceiveAnswer
  <2>1. command.ep \in Endpoints
    BY <1>3 DEF ReceiveAnswer, TypeOK, RadioCommand
  <2>2. Head(air[command.ep]) \in SUBSET Relays
    BY <1>3, <2>1 DEF ReceiveAnswer, TypeOK
  <2> QED BY <1>2, <1>3, <2>2 DEF ReceiveAnswer
<1>4. CASE ReceiveNothing
  BY <1>2, <1>4 DEF ReceiveNothing
<1>5. CASE GetReturnData
  <2> DEFINE c == Head(gAwaitingReturnQueue)
             R == Uids(replies)
  <2>1. /\ gAwaitingReturnQueue # <<>> /\ pc = "update" /\ pc' = "reply"
        /\ gAwaitingReturnQueue' = Tail(gAwaitingReturnQueue)
        /\ reply' = ReplyTo(c) /\ UNCHANGED <<sent, replies>>
    BY <1>5 DEF GetReturnData
  <2>2. UidOf(reply) = {}
    BY <2>1 DEF TypeOK, UidOf
  <2>3. /\ c.uid # 0
        /\ Uids(gAwaitingReturnQueue') = Uids(gAwaitingReturnQueue) \ {c.uid}
    BY <1>0, <2>1, Numbered, HeadType, UidsOfTail
  <2> HIDE DEF c
  <2>4. /\ reply'.uid = c.uid /\ reply'.commandType = c.commandType
        /\ UidOf(reply') = {c.uid}
    BY <2>1, <2>3, UidOfFacts DEF ReplyTo
  <2>5. AllFollow(gAwaitingReturnQueue, accepted, sent, R)
    BY <2>2 DEF ReturnInv
  <2> HIDE DEF R
  <2>6. /\ Known(c, accepted) /\ (UsesRadio(c) => Follows(c.uid, sent, R))
        /\ AllFollow(gAwaitingReturnQueue', accepted, sent, R \cup {c.uid})
    BY <1>0, <2>1, <2>5, AllFollowTail DEF c
  <2>7. Known(reply', accepted) /\ (UsesRadio(reply') => Follows(reply'.uid, sent, R))
    BY <2>4, <2>6 DEF Known, UsesRadio
  <2>8. Uids(sent') \subseteq PastRadio'
    BY <2>1, <2>2, <2>3, <2>4 DEF ReturnInv, PastRadio
  <2> QED BY <1>0, <2>1, <2>4, <2>6, <2>7, <2>8 DEF ReturnInv, R
<1>6. CASE HandOver
  <2>1. /\ pc = "reply" /\ pc' = "retrieve" /\ replies' = Append(replies, reply)
        /\ reply' = NoReply /\ UNCHANGED <<queueVars, sent>>
        /\ reply \in Reply /\ reply.uid # 0
    BY <1>6 DEF HandOver, TypeOK
  <2>2. AllFollow(replies', accepted, sent, {})
    BY <1>0, <2>1, AllFollowAppend DEF ReturnInv
  <2>3. Uids(replies') = Uids(replies) \cup {reply.uid}
        /\ UidOf(reply) = {reply.uid} /\ UidOf(reply') = {}
    BY <1>0, <2>1, UidsOfAppend, UidOfFacts
  <2>4. Uids(replies') \cup UidOf(reply') = Uids(replies) \cup UidOf(reply)
    BY <2>3
  <2> QED BY <1>0, <2>1, <2>2, <2>4 DEF ReturnInv, PastRadio, queueVars
<1>7. CASE /\ pc \notin {"receive", "reply"} /\ pc' \notin {"receive", "reply"}
           /\ pc # "aborted"
           /\ UNCHANGED <<gAwaitingReturnQueue, reply, sent, replies>>
  BY <1>0, <1>7 DEF ReturnInv, PastRadio
<1> QED
  BY <1>1, <1>3, <1>4, <1>5, <1>6, <1>7
  DEF ProcessingThread, RetrieveCommand, FindQueueEmpty, PutBack, XBeeRadioConnect,
      NothingToReturn, Sleep, queueVars

LEMMA ReturnStep ==
  ASSUME TypeOK, OnePlace, TimingInv, ReturnInv, [Next]_vars
  PROVE  ReturnInv'
<1>1. CASE UNCHANGED <<gAwaitingReturnQueue, pc, command, reply, historyVars>>
  BY <1>1 DEF ReturnInv, PastRadio, historyVars
<1> QED
  BY <1>1, SocketThreadReturns, ProcessingThreadReturns
  DEF Next, Tick, LoseAnswer, Ended, vars, queueVars

LEMMA ReturnInvariant == Spec => []ReturnInv
<1>1. Init => ReturnInv
  BY EmptyQueue DEF Init, ReturnInv, SentOnce, AllFollow
<1>2. TypeOK /\ OnePlace /\ TimingInv /\ ReturnInv /\ [Next]_vars => ReturnInv'
  BY ReturnStep
<1> QED BY <1>1, <1>2, BaseInvariant, TimingInvariant, PTL DEF Spec

\* Replies come in the order of the transmissions, each when its command has been
\* sent, however GetNumSwitches replies and calls of the socket thread come
\* between them, for every number of commands.
THEOREM RepliesKeepOrder == Spec => []RepliesInOrderSent
<1>1. ReturnInv => RepliesInOrderSent
  <2>1. SUFFICES ASSUME ReturnInv, NEW a \in DOMAIN replies,
                        replies[a].commandType # "GetNumSwitches"
                 PROVE  \E k \in DOMAIN sent :
                          /\ sent[k].uid = replies[a].uid
                          /\ \A i \in 1..k-1 : \E b \in 1..a-1 : replies[b].uid = sent[i].uid
    BY DEF RepliesInOrderSent
  <2>2. Follows(replies[a].uid, sent, {} \cup FirstUids(replies, a - 1))
    BY <2>1 DEF ReturnInv, AllFollow, UsesRadio
  <2> QED BY <2>2 DEF Follows, FirstUids
<1> QED BY <1>1, ReturnInvariant, PTL

-----------------------------------------------------------------------------
(***************************************************************************)
(* What the boards do and what a reply says of it.                          *)
(*                                                                          *)
(* Every reply to a command that sets a switch says success.  It is true    *)
(* because such a command carries the address of the board of its switch    *)
(* from the call to the radio (AddressInv), and because no command comes    *)
(* past the assertion on XBeeRadioSend unless that board acknowledged       *)
(* (HeardInv).  That the switch is then in the state the call asked for     *)
(* holds of boards of four switches, the number command_table is made for,  *)
(* as long as no PassThrough sends a byte of that table (FollowInv).        *)
(* Under the same conditions a board never reports, and no reply ever says, *)
(* that a switch is on which was not set on before (OnInv).                 *)
(***************************************************************************)

\* PassThrough leaves the switches alone.
OnlyCommandsSwitch ==
  \A r \in Requests : r.commandType = "PassThrough" =>
    r.data # <<>> /\ Head(r.data) \in {StatusQuery, OtherByte}

\* A command about one switch has the address of its board, and the byte to set
\* it or the relay to look at; any but a set command has a byte that switches
\* nothing.
SwitchTypes == SetTypes \cup {"GetSingleSwitch"}

CarriesOut(c, a) ==
  /\ c.ep = EndpointOf(a.index)
  /\ c.commandType \in SetTypes =>
       c.toSend = CommandByte(IndexInEndpoint(a.index), a.status)
  /\ c.commandType = "GetSingleSwitch" =>
       c.customData = IndexInEndpoint(a.index) /\ c.toSend = StatusQuery

Harmless(c) ==
  OnlyCommandsSwitch /\ c.commandType \notin SetTypes =>
    c.toSend \in {StatusQuery, OtherByte}

Addressed(c, acc) ==
  /\ c.commandType \in SwitchTypes => c.uid \in DOMAIN acc /\ CarriesOut(c, acc[c.uid])
  /\ Harmless(c)

QueueAddressed(q, acc) == \A i \in DOMAIN q : Addressed(q[i], acc)

AddressInv ==
  /\ QueueAddressed(gCommandQueue, accepted)
  /\ Addressed(command, accepted)

\* x, a command or a reply, has been heard by the board of its switch.
Heard(x, acc, s) ==
  x.commandType \in SetTypes =>
    /\ x.uid \in DOMAIN acc
    /\ \E k \in DOMAIN s : s[k].uid = x.uid /\ EndpointOf(acc[x.uid].index) \in s[k].heard

AllHeard(xs, acc, s) == \A i \in DOMAIN xs : Heard(xs[i], acc, s)

HeardInv ==
  /\ pc = "receive" => Heard(command, accepted, sent)
  /\ AllHeard(gAwaitingReturnQueue, accepted, sent)
  /\ Heard(reply, accepted, sent)
  /\ AllHeard(replies, accepted, sent)

-----------------------------------------------------------------------------
(***************************************************************************)
(* Histories only grow, which takes nothing back.                           *)
(***************************************************************************)
LEMMA AddressedStays ==
  ASSUME NEW acc \in Seq(Accepted), NEW bcc, Grows(acc, bcc)
  PROVE  \A c : Addressed(c, acc) => Addressed(c, bcc)
  BY GrowthFacts DEF Addressed

LEMMA HeardStays ==
  ASSUME NEW acc \in Seq(Accepted), NEW bcc, Grows(acc, bcc),
         NEW s \in Seq(Sent), NEW t, Grows(s, t)
  PROVE  \A x : Heard(x, acc, s) => Heard(x, bcc, t)
<1>1. /\ \A i \in DOMAIN acc : i \in DOMAIN bcc /\ bcc[i] = acc[i]
      /\ \A i \in DOMAIN s : i \in DOMAIN t /\ t[i] = s[i]
  BY GrowthFacts
<1>2. SUFFICES ASSUME NEW x, Heard(x, acc, s), x.commandType \in SetTypes
               PROVE  Heard(x, bcc, t)
  BY DEF Heard
<1>3. PICK k \in DOMAIN s : s[k].uid = x.uid /\ EndpointOf(acc[x.uid].index) \in s[k].heard
  BY <1>2 DEF Heard
<1>4. x.uid \in DOMAIN bcc /\ bcc[x.uid] = acc[x.uid]
  BY <1>1, <1>2 DEF Heard
<1>5. k \in DOMAIN t /\ t[k] = s[k]
  BY <1>1
<1> QED BY <1>3, <1>4, <1>5 DEF Heard

LEMMA AllHeardStays ==
  ASSUME TypeOK, HeardInv, Grows(accepted, accepted'), Grows(sent, sent')
  PROVE  /\ \A x : Heard(x, accepted, sent) => Heard(x, accepted', sent')
         /\ AllHeard(gAwaitingReturnQueue, accepted', sent')
         /\ Heard(reply, accepted', sent')
         /\ AllHeard(replies, accepted', sent')
<1>1. \A x : Heard(x, accepted, sent) => Heard(x, accepted', sent')
  BY HeardStays DEF TypeOK
<1> QED BY <1>1 DEF HeardInv, AllHeard

-----------------------------------------------------------------------------
(***************************************************************************)
(* The socket thread.                                                       *)
(***************************************************************************)
\* A call adds one addressed command to the command queue, or a query of the
\* number of switches to the other, or nothing.
AddsAddressed ==
  \/ UNCHANGED <<gCommandQueue, gAwaitingReturnQueue, accepted>>
  \/ \E a : /\ accepted' = Append(accepted, a)
            /\ \/ /\ UNCHANGED gAwaitingReturnQueue
                  /\ \E c : /\ gCommandQueue' = Append(gCommandQueue, c)
                            /\ Harmless(c)
                            /\ c.commandType \in SwitchTypes =>
                                 c.uid = NextUid /\ CarriesOut(c, a)
               \/ /\ UNCHANGED gCommandQueue
                  /\ \E c : /\ gAwaitingReturnQueue' = Append(gAwaitingReturnQueue, c)
                            /\ c.commandType = "GetNumSwitches"

LEMMA SocketThreadAddresses ==
  ASSUME TypeOK, SocketThread
  PROVE  AddsAddressed
<1>1. ASSUME NEW r, AppendSetSingle(r) PROVE AddsAddressed
  <2>1. PICK t : gCommandQueue' = AddCommand(gCommandQueue,
          FillCommand(NextUid, r.commandType, r.index, r.status, t + r.delay))
    BY <1>1 DEF AppendSetSingle
  <2> DEFINE c == FillCommand(NextUid, r.commandType, r.index, r.status, t + r.delay)
             a == [commandType |-> r.commandType, index |-> r.index,
                   status |-> r.status, notBefore |-> now + r.delay]
  <2>2. /\ c.uid = NextUid /\ c.commandType \in SetTypes
        /\ CarriesOut(c, a) /\ Harmless(c)
    BY <1>1
    DEF FillCommand, CarriesOut, Harmless, AppendSetSingle, SetTypes, SetSingleTypes
  <2>3. /\ accepted' = Append(accepted, a) /\ gCommandQueue' = Append(gCommandQueue, c)
        /\ UNCHANGED gAwaitingReturnQueue
    BY <1>1, <2>1 DEF AppendSetSingle, Accept, AddCommand
  <2> HIDE DEF c, a
  <2> QED BY <2>2, <2>3 DEF AddsAddressed
<1>2. ASSUME NEW r, AppendGetSingle(r) PROVE AddsAddressed
  <2>1. PICK t : gCommandQueue' = AddCommand(gCommandQueue,
          FillStatusQuery(NextUid, r.index, t))
    BY <1>2 DEF AppendGetSingle
  <2> DEFINE c == FillStatusQuery(NextUid, r.index, t)
             a == [commandType |-> r.commandType, index |-> r.index,
                   status |-> FALSE, notBefore |-> now + r.delay]
  <2>2. c.uid = NextUid /\ CarriesOut(c, a) /\ Harmless(c)
    BY DEF FillStatusQuery, CarriesOut, SetTypes, SetSingleTypes, Harmless
  <2>3. /\ accepted' = Append(accepted, a) /\ gCommandQueue' = Append(gCommandQueue, c)
        /\ UNCHANGED gAwaitingReturnQueue
    BY <1>2, <2>1 DEF AppendGetSingle, Accept, AddCommand
  <2> HIDE DEF c, a
  <2> QED BY <2>2, <2>3 DEF AddsAddressed
<1>3. ASSUME NEW r \in Requests, AppendPassThrough(r) PROVE AddsAddressed
  <2>1. PICK b \in (IF r.data = <<>> THEN Bytes ELSE {Head(r.data)}) :
          gCommandQueue' = AddCommand(gCommandQueue, FillPassThrough(NextUid, b))
    BY <1>3 DEF AppendPassThrough
  <2> DEFINE c == FillPassThrough(NextUid, b)
  <2>2. c.commandType \notin SwitchTypes /\ c.toSend = b
    BY DEF FillPassThrough, SwitchTypes, SetTypes, SetSingleTypes
  <2>4. Harmless(c)
    BY <1>3, <2>1, <2>2 DEF Harmless, OnlyCommandsSwitch, AppendPassThrough
  <2>3. /\ \E a : accepted' = Append(accepted, a)
        /\ gCommandQueue' = Append(gCommandQueue, c)
        /\ UNCHANGED gAwaitingReturnQueue
    BY <1>3, <2>1 DEF AppendPassThrough, Accept, AddCommand
  <2> HIDE DEF c
  <2> QED BY <2>2, <2>3, <2>4 DEF AddsAddressed
<1>4. ASSUME NEW r, AppendGetNum(r) PROVE AddsAddressed
  <2> DEFINE c == [NoCommand EXCEPT !.uid = NextUid]
  <2>1. c.commandType = "GetNumSwitches"
    BY DEF NoCommand
  <2>2. /\ \E a : accepted' = Append(accepted, a)
        /\ gAwaitingReturnQueue' = Append(gAwaitingReturnQueue, c)
        /\ UNCHANGED gCommandQueue
    BY <1>4 DEF AppendGetNum, Accept, AddCommand
  <2> HIDE DEF c
  <2> QED BY <2>1, <2>2 DEF AddsAddressed
<1>5. ASSUME AppendNextOfBatch PROVE AddsAddressed
  <2> DEFINE r == batch[1]
             i == batch[2]
             c == FillCommand(NextUid, r.commandType, r.index + i, i \in r.mask, now)
             a == [commandType |-> r.commandType, index |-> r.index + i,
                   status |-> i \in r.mask, notBefore |-> now + r.delay]
  <2>1. c.uid = NextUid /\ c.commandType = "SetMultipleSwitches"
    BY <1>5 DEF FillCommand, AppendNextOfBatch, TypeOK
  <2>3. CarriesOut(c, a) /\ Harmless(c)
    BY <2>1 DEF FillCommand, CarriesOut, Harmless, SetTypes, SetSingleTypes
  <2>2. /\ accepted' = Append(accepted, a) /\ gCommandQueue' = Append(gCommandQueue, c)
        /\ UNCHANGED gAwaitingReturnQueue
    BY <1>5 DEF AppendNextOfBatch, Accept, AddCommand
  <2> HIDE DEF c, a
  <2> QED BY <2>1, <2>2, <2>3 DEF AddsAddressed
<1>6. CASE UNCHANGED <<queueVars, accepted>>
  BY <1>6 DEF AddsAddressed, queueVars
<1> QED
  BY <1>1, <1>2, <1>3, <1>4, <1>5, <1>6
  DEF SocketThread, RadioNetworkAppendCommand, AppendGetMultiple, BeginSetMultiple, EndBatch

LEMMA SocketThreadReplies ==
  ASSUME TypeOK, AddressInv, HeardInv, SocketThread
  PROVE  AddressInv' /\ HeardInv'
<1>1. UNCHANGED <<pc, command, reply, sent, replies>> /\ Grows(sent, sent')
  BY DEF SocketThread, Grows
<1>2. CASE UNCHANGED <<gCommandQueue, gAwaitingReturnQueue, accepted>>
  BY <1>1, <1>2 DEF AddressInv, HeardInv
<1>3. ASSUME NEW a, accepted' = Append(accepted, a),
             \/ /\ UNCHANGED gAwaitingReturnQueue
                /\ \E c : /\ gCommandQueue' = Append(gCommandQueue, c)
                          /\ Harmless(c)
                          /\ c.commandType \in SwitchTypes =>
                               c.uid = NextUid /\ CarriesOut(c, a)
             \/ /\ UNCHANGED gCommandQueue
                /\ \E c : /\ gAwaitingReturnQueue' = Append(gAwaitingReturnQueue, c)
                          /\ c.commandType = "GetNumSwitches"
      PROVE  AddressInv' /\ HeardInv'
  <2>1. Grows(accepted, accepted')
    BY <1>3 DEF Grows
  <2>2. \A c : Addressed(c, accepted) => Addressed(c, accepted')
    BY <2>1, AddressedStays DEF TypeOK
  <2>3. QueueAddressed(gCommandQueue, accepted') /\ Addressed(command, accepted')
    BY <2>2 DEF AddressInv, QueueAddressed
  <2>4. /\ \A x : Heard(x, accepted, sent) => Heard(x, accepted', sent')
        /\ AllHeard(gAwaitingReturnQueue, accepted', sent')
        /\ Heard(reply, accepted', sent')
        /\ AllHeard(replies, accepted', sent')
    BY <1>1, <2>1, AllHeardStays
  <2>5. accepted'[NextUid] = a /\ NextUid \in DOMAIN accepted'
    <3>1. accepted \in Seq(Accepted \cup {a}) /\ a \in Accepted \cup {a}
      BY DEF TypeOK
    <3> QED BY <1>3, <3>1, AppendFacts DEF NextUid
  <2>6. ASSUME NEW c, gCommandQueue' = Append(gCommandQueue, c),
               Harmless(c),
               c.commandType \in SwitchTypes => c.uid = NextUid /\ CarriesOut(c, a)
        PROVE  QueueAddressed(gCommandQueue', accepted')
    <3>1. Addressed(c, accepted')
      BY <2>5, <2>6 DEF Addressed
    <3> QED BY <2>3, <2>6, <3>1, LastOrOld DEF QueueAddressed, TypeOK
  <2>7. ASSUME NEW c, gAwaitingReturnQueue' = Append(gAwaitingReturnQueue, c),
               c.commandType = "GetNumSwitches"
        PROVE  AllHeard(gAwaitingReturnQueue', accepted', sent')
    <3>1. Heard(c, accepted', sent')
      BY <2>7 DEF Heard, SetTypes, SetSingleTypes
    <3> QED BY <2>4, <2>7, <3>1, LastOrOld DEF AllHeard, TypeOK
  <2>8. QueueAddressed(gCommandQueue', accepted')
    BY <1>3, <2>3, <2>6
  <2>9. AllHeard(gAwaitingReturnQueue', accepted', sent')
    BY <1>3, <2>4, <2>7
  <2> QED BY <1>1, <2>3, <2>4, <2>8, <2>9 DEF AddressInv, HeardInv
<1> QED BY <1>2, <1>3, SocketThreadAddresses DEF AddsAddressed

-----------------------------------------------------------------------------
(***************************************************************************)
(* The processing thread.                                                   *)
(***************************************************************************)
LEMMA ProcessingThreadAddresses ==
  ASSUME TypeOK, AddressInv, ProcessingThread
  PROVE  AddressInv'
<1>0. UNCHANGED accepted /\ gCommandQueue \in Seq(RadioCommand)
  BY DEF ProcessingThread, TypeOK
<1>1. Addressed(NoCommand, accepted)
  BY DEF Addressed, Harmless, NoCommand, SwitchTypes, SetTypes, SetSingleTypes
<1>2. CASE RetrieveCommand
  <2>1. /\ gCommandQueue # <<>> /\ gCommandQueue' = Tail(gCommandQueue)
        /\ command' = Head(gCommandQueue)
    BY <1>2 DEF RetrieveCommand
  <2> QED BY <1>0, <2>1, TailFacts DEF AddressInv, QueueAddressed
<1>3. CASE PutBack
  <2>1. gCommandQueue' = Append(gCommandQueue, command) /\ command' = NoCommand
    BY <1>3 DEF PutBack, AddCommand
  <2> QED BY <1>0, <1>1, <2>1, LastOrOld DEF AddressInv, QueueAddressed
<1>4. CASE UNCHANGED gCommandQueue /\ command' \in {command, NoCommand}
  BY <1>0, <1>1, <1>4 DEF AddressInv
<1> QED
  BY <1>2, <1>3, <1>4
  DEF ProcessingThread, FindQueueEmpty, XBeeRadioConnect, SendAcknowledged, SendFails,
      SendBroadcast, ReceiveAnswer, ReceiveNothing, AwaitReturn, GetReturnData,
      NothingToReturn, HandOver, Sleep, queueVars

\* The board that acknowledged a command is the board of its switch.
LEMMA AcknowledgedIsHeard ==
  ASSUME TypeOK, AddressInv, UNCHANGED <<accepted, command>>,
         Transmit({command.ep})
  PROVE  Heard(command', accepted', sent')
<1> DEFINE x == [uid |-> command.uid, byte |-> command.toSend, heard |-> {command.ep},
                 at |-> now]
<1>1. sent' = Append(sent, x) /\ x.uid = command.uid /\ x.heard = {command.ep}
  BY DEF Transmit
<1> HIDE DEF x
<1>2. sent \in Seq(Sent \cup {x}) /\ x \in Sent \cup {x}
  BY DEF TypeOK
<1>3. Len(sent) + 1 \in DOMAIN sent' /\ sent'[Len(sent) + 1] = x
  BY <1>1, <1>2, AppendFacts
<1>4. Addressed(command, accepted)
  BY DEF AddressInv
<1> QED BY <1>1, <1>3, <1>4 DEF Addressed, CarriesOut, Heard, SwitchTypes

LEMMA ProcessingThreadReplies ==
  ASSUME TypeOK, AddressInv, HeardInv, ProcessingThread
  PROVE  HeardInv'
<1>0. UNCHANGED accepted /\ Grows(accepted, accepted')
  BY DEF ProcessingThread, Grows
<1>1. ASSUME NEW heard, Transmit(heard), UNCHANGED <<queueVars, command, reply, replies>>,
             pc' = "receive" => Heard(command', accepted', sent')
      PROVE  HeardInv'
  <2>1. Grows(sent, sent')
    BY <1>1 DEF Transmit, Grows
  <2> QED BY <1>0, <1>1, <2>1, AllHeardStays DEF HeardInv, queueVars
<1>2. CASE SendAcknowledged
  <2>1. Transmit({command.ep}) /\ UNCHANGED <<queueVars, command, reply, replies>>
    BY <1>2 DEF SendAcknowledged
  <2>2. Heard(command', accepted', sent')
    BY <1>0, <2>1, AcknowledgedIsHeard
  <2> QED BY <1>1, <2>1, <2>2
<1>3. CASE SendFails
  BY <1>1, <1>3 DEF SendFails
<1>4. CASE SendBroadcast
  <2>1. command'.commandType \notin SetTypes
    BY <1>4 DEF SendBroadcast, SetTypes, SetSingleTypes
  <2> QED BY <1>1, <1>4, <2>1 DEF SendBroadcast, Heard
<1>5. ASSUME NEW byte, pc = "receive", AwaitReturn(byte)
      PROVE  HeardInv'
  <2> DEFINE done == SetReturnData(command, byte)
  <2>1. done.uid = command.uid /\ done.commandType = command.commandType
    BY DEF SetReturnData, TypeOK, RadioCommand, CommandFields
  <2>2. gAwaitingReturnQueue' = Append(gAwaitingReturnQueue, done)
    BY <1>5 DEF AwaitReturn, AddCommand
  <2> HIDE DEF done
  <2>3. Heard(done, accepted, sent)
    BY <1>5, <2>1 DEF HeardInv, Heard
  <2>4. AllHeard(gAwaitingReturnQueue', accepted, sent)
    BY <2>2, <2>3, LastOrOld DEF HeardInv, AllHeard, TypeOK
  <2> QED BY <1>0, <1>5, <2>4 DEF AwaitReturn, HeardInv
<1>6. CASE ReceiveAnswer \/ ReceiveNothing
  BY <1>5, <1>6 DEF ReceiveAnswer, ReceiveNothing
<1>7. CASE GetReturnData
  <2>1. /\ gAwaitingReturnQueue # <<>> /\ gAwaitingReturnQueue \in Seq(RadioCommand)
        /\ gAwaitingReturnQueue' = Tail(gAwaitingReturnQueue)
        /\ reply' = ReplyTo(Head(gAwaitingReturnQueue))
        /\ pc' = "reply" /\ UNCHANGED <<sent, replies>>
    BY <1>7 DEF GetReturnData, TypeOK
  <2>2. /\ Heard(Head(gAwaitingReturnQueue), accepted, sent)
        /\ AllHeard(gAwaitingReturnQueue', accepted, sent)
    BY <2>1, TailFacts DEF HeardInv, AllHeard
  <2>3. Heard(reply', accepted, sent)
    BY <2>1, <2>2 DEF ReplyTo, Heard
  <2> QED BY <1>0, <2>1, <2>2, <2>3 DEF HeardInv
<1>8. CASE HandOver
  <2>1. /\ replies' = Append(replies, reply) /\ reply' = NoReply
        /\ pc' = "retrieve" /\ UNCHANGED <<queueVars, sent>>
    BY <1>8 DEF HandOver
  <2>2. AllHeard(replies', accepted, sent)
    BY <2>1, LastOrOld DEF HeardInv, AllHeard, TypeOK
  <2>3. Heard(NoReply, accepted, sent)
    BY DEF Heard, NoReply, SetTypes, SetSingleTypes
  <2> QED BY <1>0, <2>1, <2>2, <2>3 DEF HeardInv, queueVars
<1>9. CASE /\ pc' # "receive"
           /\ UNCHANGED <<gAwaitingReturnQueue, reply, sent, replies>>
  BY <1>0, <1>9 DEF HeardInv
<1> QED
  BY <1>2, <1>3, <1>4, <1>6, <1>7, <1>8, <1>9
  DEF ProcessingThread, RetrieveCommand, FindQueueEmpty, PutBack, XBeeRadioConnect,
      NothingToReturn, Sleep, queueVars

-----------------------------------------------------------------------------
LEMMA ReplyStep ==
  ASSUME TypeOK, AddressInv, HeardInv, [Next]_vars
  PROVE  AddressInv' /\ HeardInv'
<1>1. CASE UNCHANGED <<queueVars, pc, command, reply, historyVars>>
  BY <1>1 DEF AddressInv, HeardInv, queueVars, historyVars
<1> QED
  BY <1>1, SocketThreadReplies, ProcessingThreadAddresses, ProcessingThreadReplies
  DEF Next, Tick, LoseAnswer, Ended, vars

LEMMA ReplyInit == Init => AddressInv /\ HeardInv
<1> SUFFICES ASSUME Init PROVE AddressInv /\ HeardInv
  OBVIOUS
<1>1. /\ NoCommand.commandType \notin SwitchTypes /\ NoReply.commandType \notin SetTypes
      /\ Harmless(NoCommand)
  BY DEF NoCommand, NoReply, Harmless, SwitchTypes, SetTypes, SetSingleTypes
<1> QED BY <1>1 DEF Init, AddressInv, HeardInv, QueueAddressed, AllHeard, Addressed, Heard

LEMMA AddressInvariant == Spec => [](AddressInv /\ HeardInv)
<1>1. TypeOK /\ AddressInv /\ HeardInv /\ [Next]_vars => (AddressInv /\ HeardInv)'
  BY ReplyStep
<1> QED BY <1>1, ReplyInit, TypeCorrect, PTL DEF Spec

\* Nobody is told that a switch was set unless the board of that switch heard
\* the command, whatever is queued before and after it, for every number of
\* boards and switches and every loss of answers.
THEOREM RepliesMeanHeard == Spec => []SetReplyMeansHeard
<1>1. AddressInv /\ HeardInv => SetReplyMeansHeard
  BY DEF HeardInv, AllHeard, Heard, SetReplyMeansHeard, EndpointHeard
<1> QED BY <1>1, AddressInvariant, PTL

-----------------------------------------------------------------------------
(***************************************************************************)
(* Boards of four switches.                                                 *)
(***************************************************************************)
FourSwitches == SwitchCount = 4

\* The byte for one relay switches that relay and no other.
LEMMA TableFacts ==
  ASSUME FourSwitches, NEW i \in Relays, NEW status \in BOOLEAN,
         NEW on \in SUBSET Relays
  PROVE  /\ i \in Obey(on, CommandByte(i, status)) <=> status
         /\ \A r \in Relays \ {i} : r \in Obey(on, CommandByte(i, status)) <=> r \in on
<1>1. i \in {0, 1, 2, 3} /\ Relays = {0, 1, 2, 3} /\ 1..8 = {1, 2, 3, 4, 5, 6, 7, 8}
  BY DEF Relays
<1>2. /\ command_table[1] = "o" /\ command_table[2] = "p" /\ command_table[3] = "q"
      /\ command_table[4] = "r" /\ command_table[5] = "e" /\ command_table[6] = "f"
      /\ command_table[7] = "g" /\ command_table[8] = "h"
  BY DEF command_table
<1>3. CASE status
  <2>1. CommandByte(i, status) = command_table[5 + i]
    BY <1>1, <1>3 DEF CommandByte, FourSwitches
  <2>2. \A r \in Relays : /\ command_table[5 + i] # command_table[1 + r]
                          /\ r # i => command_table[5 + i] # command_table[5 + r]
    BY <1>1, <1>2
  <2> QED BY <1>3, <2>1, <2>2 DEF Obey
<1>4. CASE ~status
  <2>1. CommandByte(i, status) = command_table[1 + i]
    BY <1>1, <1>4 DEF CommandByte, FourSwitches
  <2>2. \A r \in Relays : /\ command_table[1 + i] # command_table[5 + r]
                          /\ r # i => command_table[1 + i] # command_table[1 + r]
    BY <1>1, <1>2
  <2> QED BY <1>4, <2>1, <2>2 DEF Obey
<1> QED BY <1>3, <1>4

LEMMA OtherBytesSwitchNothing ==
  ASSUME NEW on \in SUBSET Relays, NEW byte \in {StatusQuery, OtherByte}
  PROVE  Obey(on, byte) = on
<1>1. Relays = {0, 1, 2, 3}
  BY DEF Relays
<1>2. /\ command_table[1] = "o" /\ command_table[2] = "p" /\ command_table[3] = "q"
      /\ command_table[4] = "r" /\ command_table[5] = "e" /\ command_table[6] = "f"
      /\ command_table[7] = "g" /\ command_table[8] = "h"
  BY DEF command_table
<1>3. \A r \in Relays : byte # command_table[5 + r] /\ byte # command_table[1 + r]
  BY <1>1, <1>2 DEF StatusQuery, OtherByte
<1> QED BY <1>3 DEF Obey

\* A switch is one relay of one board.
LEMMA WhereSwitchesAre ==
  ASSUME FourSwitches, NEW index \in 0..NumSwitches-1
  PROVE  /\ EndpointOf(index) \in Endpoints /\ IndexInEndpoint(index) \in Relays
         /\ \A other \in Nat : /\ IndexInEndpoint(other) \in Relays
                               /\ EndpointOf(other) = EndpointOf(index) /\ other # index =>
                                    IndexInEndpoint(other) # IndexInEndpoint(index)
  BY SpecAssumption
  DEF FourSwitches, NumSwitches, EndpointOf, IndexInEndpoint, Endpoints, Relays,
      SpecAssumption

-----------------------------------------------------------------------------
(***************************************************************************)
(* The last transmission that set a switch, if any, decides its state.      *)
(***************************************************************************)
FollowInv ==
  \A index \in 0..NumSwitches-1 :
    \/ SetsOf(index) = {} /\ ~IsOn(index)
    \/ \E k \in SetsOf(index) :
         /\ \A l \in SetsOf(index) : l <= k
         /\ IsOn(index) <=> accepted[sent[k].uid].status

LEMMA FollowMeansFollow ==
  ASSUME TypeOK, TimingInv, FollowInv
  PROVE  SwitchesFollowCommands
<1>1. SUFFICES ASSUME NEW index \in 0..NumSwitches-1, SetsOf(index) # {}
               PROVE  IsOn(index) = accepted[sent[Latest(SetsOf(index))].uid].status
  BY DEF FollowInv, SwitchesFollowCommands
<1>2. PICK k \in SetsOf(index) : /\ \A l \in SetsOf(index) : l <= k
                                 /\ IsOn(index) <=> accepted[sent[k].uid].status
  BY <1>1 DEF FollowInv
<1>3. SetsOf(index) \subseteq DOMAIN sent /\ DOMAIN sent \subseteq Nat
  BY DEF SetsOf, TypeOK
<1>4. \A j \in SetsOf(index) : (\A l \in SetsOf(index) : l <= j) => j = k
  BY <1>2, <1>3
<1>5. Latest(SetsOf(index)) = k
  BY <1>2, <1>4 DEF Latest
<1>6. accepted[sent[k].uid].status \in BOOLEAN
  <2>1. k \in DOMAIN sent
    BY <1>3
  <2>2. accepted[sent[k].uid] \in Accepted
    BY <2>1 DEF TimingInv, SentTimely, TypeOK
  <2> QED BY <2>2 DEF Accepted
<1>7. IsOn(index) \in BOOLEAN
  BY DEF IsOn
<1> QED BY <1>2, <1>5, <1>6, <1>7

\* What has been accepted since says nothing of what was sent before.
LEMMA FollowStays ==
  ASSUME TypeOK, TimingInv, FollowInv, UNCHANGED <<sent, relay>>,
         Grows(accepted, accepted')
  PROVE  FollowInv'
<1>1. \A k \in DOMAIN sent : accepted'[sent[k].uid] = accepted[sent[k].uid]
  BY GrowthFacts DEF TimingInv, SentTimely, TypeOK
<1>2. \A index : SetsOf(index)' = SetsOf(index) /\ (IsOn(index)' <=> IsOn(index))
  BY <1>1 DEF SetsOf, EndpointHeard, IsOn
<1>3. \A index : \A k \in SetsOf(index) : k \in DOMAIN sent
  BY DEF SetsOf
<1> QED BY <1>1, <1>2, <1>3 DEF FollowInv

\* A transmission that is heard sets the switch it is for and no other.
LEMMA TransmitFollows ==
  ASSUME FourSwitches, OnlyCommandsSwitch, TypeOK, TimingInv, AddressInv, FollowInv,
         pc = "send", NEW heard, Transmit(heard), UNCHANGED accepted,
         command.commandType \in SetTypes => heard \subseteq {command.ep}
  PROVE  FollowInv'
<1> DEFINE x == [uid |-> command.uid, byte |-> command.toSend, heard |-> heard, at |-> now]
           n == Len(sent)
           a == accepted[command.uid]
<1>1. sent' = Append(sent, x) /\ x.uid = command.uid /\ x.heard = heard
  BY DEF Transmit
<1>2. /\ a.commandType = command.commandType /\ a \in Accepted
      /\ command.commandType \in SetTypes => CarriesOut(command, a)
      /\ command.commandType \notin SetTypes => command.toSend \in {StatusQuery, OtherByte}
  BY DEF TimingInv, Timely, TypeOK, AddressInv, Addressed, Harmless, SwitchTypes
<1> HIDE DEF x
<1>3. sent \in Seq(Sent \cup {x}) /\ x \in Sent \cup {x}
  BY DEF TypeOK
<1>4. /\ n \in Nat /\ DOMAIN sent = 1..n /\ DOMAIN sent' = 1..n+1 /\ sent'[n+1] = x
      /\ \A i \in 1..n : sent'[i] = sent[i]
  BY <1>1, <1>3, AppendFacts
<1> HIDE DEF n, a
<1>5. SUFFICES ASSUME NEW index \in 0..NumSwitches-1
               PROVE  \/ SetsOf(index)' = {} /\ ~IsOn(index)'
                      \/ \E k \in SetsOf(index)' :
                           /\ \A l \in SetsOf(index)' : l <= k
                           /\ IsOn(index)' <=> accepted[sent'[k].uid].status
  BY DEF FollowInv
<1> DEFINE e == EndpointOf(index)
           r == IndexInEndpoint(index)
           Sets == a.commandType \in SetTypes /\ a.index = index /\ e \in heard
<1>6. /\ e \in Endpoints /\ r \in Relays /\ relay[e] \in SUBSET Relays
      /\ relay'[e] = IF e \in heard THEN Obey(relay[e], command.toSend) ELSE relay[e]
  BY WhereSwitchesAre DEF TypeOK, Transmit
<1>7. \A k \in 1..n+1 : k \in SetsOf(index)' <=> IF k = n + 1 THEN Sets ELSE k \in SetsOf(index)
  BY <1>1, <1>4 DEF SetsOf, EndpointHeard, a
<1>8. SetsOf(index)' \subseteq 1..n+1 /\ SetsOf(index) \subseteq 1..n
  BY <1>4 DEF SetsOf
<1>9. (IsOn(index) <=> r \in relay[e]) /\ (IsOn(index)' <=> r \in relay'[e])
  BY DEF IsOn
<1>10. CASE Sets
  <2>1. /\ command.toSend = CommandByte(r, a.status)
        /\ a.status \in BOOLEAN
    BY <1>2, <1>10 DEF CarriesOut, Accepted
  <2>2. IsOn(index)' <=> a.status
    BY <1>6, <1>9, <1>10, <2>1, TableFacts
  <2>3. n + 1 \in SetsOf(index)' /\ accepted[sent'[n+1].uid] = a
    BY <1>1, <1>4, <1>7, <1>10 DEF a
  <2>4. \A l \in SetsOf(index)' : l <= n + 1
    BY <1>4, <1>8
  <2> QED BY <2>2, <2>3, <2>4
<1>11. CASE ~Sets
  <2>1. r \in relay'[e] <=> r \in relay[e]
    <3>1. CASE e \notin heard
      BY <1>6, <3>1
    <3>2. CASE e \in heard /\ command.commandType \notin SetTypes
      BY <1>2, <1>6, <3>2, OtherBytesSwitchNothing
    <3>3. CASE e \in heard /\ command.commandType \in SetTypes
      <4>1. /\ EndpointOf(a.index) = e /\ a.index # index
            /\ command.toSend = CommandByte(IndexInEndpoint(a.index), a.status)
        BY <1>2, <1>11, <3>3 DEF CarriesOut
      <4>2. a.index \in Nat /\ a.status \in BOOLEAN
        BY <1>2 DEF Accepted
      <4>3. IndexInEndpoint(a.index) \in Relays /\ IndexInEndpoint(a.index) # r
        BY <4>1, <4>2, WhereSwitchesAre
      <4> QED BY <1>6, <3>3, <4>1, <4>2, <4>3, TableFacts
    <3> QED BY <3>1, <3>2, <3>3
  <2>2. SetsOf(index)' = SetsOf(index)
    <3>1. \A k \in SetsOf(index)' : k \in SetsOf(index)
      BY <1>7, <1>8, <1>11
    <3>2. \A k \in SetsOf(index) : k \in SetsOf(index)'
      <4>1. \A k \in 1..n : k \in 1..n+1 /\ k # n + 1
        BY <1>4
      <4> QED BY <1>7, <1>8, <4>1
    <3> QED BY <3>1, <3>2
  <2>3. \A k \in SetsOf(index) : sent'[k] = sent[k]
    BY <1>4, <1>8
  <2> QED BY <1>9, <2>1, <2>2, <2>3 DEF FollowInv
<1> QED BY <1>10, <1>11

LEMMA FollowStep ==
  ASSUME FourSwitches, OnlyCommandsSwitch, TypeOK, TimingInv, AddressInv, FollowInv,
         [Next]_vars
  PROVE  FollowInv'
<1>1. CASE SocketThread
  <2>1. UNCHANGED <<sent, relay>>
    BY <1>1 DEF SocketThread, radioVars
  <2>2. Grows(accepted, accepted')
    BY <1>1, SocketThreadAddresses DEF AddsAddressed, Grows
  <2> QED BY <2>1, <2>2, FollowStays
<1>2. CASE UNCHANGED <<sent, relay, accepted>>
  BY <1>2, FollowStays DEF Grows
<1>3. CASE ProcessingThread
  <2>1. UNCHANGED accepted
    BY <1>3 DEF ProcessingThread
  <2>2. CASE SendAcknowledged
    BY <2>1, <2>2, TransmitFollows DEF SendAcknowledged
  <2>3. CASE SendFails
    <3>1. PICK heard \in {{}, {command.ep}} : Transmit(heard)
      BY <2>3 DEF SendFails
    <3> QED BY <2>1, <2>3, <3>1, TransmitFollows DEF SendFails
  <2>4. CASE SendBroadcast
    <3>1. PICK heard : Transmit(heard)
      BY <2>4 DEF SendBroadcast
    <3>2. command.commandType \notin SetTypes
      BY <2>4 DEF SendBroadcast, SetTypes, SetSingleTypes
    <3> QED BY <2>1, <2>4, <3>1, <3>2, TransmitFollows DEF SendBroadcast
  <2> QED
    BY <1>2, <1>3, <2>1, <2>2, <2>3, <2>4
    DEF ProcessingThread, RetrieveCommand, FindQueueEmpty, PutBack, XBeeRadioConnect,
        ReceiveAnswer, ReceiveNothing, AwaitReturn, GetReturnData, NothingToReturn,
        HandOver, Sleep, radioVars
<1> QED
  BY <1>1, <1>2, <1>3
  DEF Next, Tick, LoseAnswer, Ended, vars, radioVars, historyVars

\* With boards of four switches every switch is in the state the last command for
\* it asked for, whether acknowledged or not and whatever else is queued: the
\* right board, the right byte of command_table, and no switch moved by a command
\* for another.
THEOREM SwitchesObey ==
  ASSUME FourSwitches, OnlyCommandsSwitch
  PROVE  Spec => []SwitchesFollowCommands
<1>1. Init => FollowInv
  BY WhereSwitchesAre DEF Init, FollowInv, SetsOf, IsOn
<1>2. TypeOK /\ TimingInv /\ AddressInv /\ FollowInv /\ [Next]_vars => FollowInv'
  BY FollowStep
<1>3. TypeOK /\ TimingInv /\ FollowInv => SwitchesFollowCommands
  BY FollowMeansFollow
<1> QED BY <1>1, <1>2, <1>3, AddressInvariant, TypeCorrect, TimingInvariant, PTL DEF Spec

-----------------------------------------------------------------------------
(***************************************************************************)
(* Where an "on" comes from: a relay that is on, an answer in the air, the  *)
(* return data of a command, a reply.                                       *)
(***************************************************************************)
\* Transmission j, as far as it is one of s, has set relay r of board e on.
SetOn(e, r, j, acc, s) ==
  /\ s[j].uid \in DOMAIN acc
  /\ acc[s[j].uid].commandType \in SetTypes
  /\ acc[s[j].uid].status
  /\ EndpointOf(acc[s[j].uid].index) = e
  /\ IndexInEndpoint(acc[s[j].uid].index) = r
  /\ e \in s[j].heard

EverOn(e, r, acc, s) == \E j \in DOMAIN s : SetOn(e, r, j, acc, s)

\* Command u asked after a switch, and after the switch had been set on.
OnWhenAsked(u, acc, s) ==
  /\ u \in DOMAIN acc
  /\ \E j, k \in DOMAIN s :
       /\ j < k /\ s[k].uid = u
       /\ SetOn(EndpointOf(acc[u].index), IndexInEndpoint(acc[u].index), j, acc, s)

\* A command that has its return data, and a reply.
DataTrue(c, acc, s) ==
  c.commandType = "GetSingleSwitch" /\ c.customData \in c.toRet => OnWhenAsked(c.uid, acc, s)
ReplyTrue(x, acc, s) ==
  x.commandType = "GetSingleSwitch" /\ x.value = 1 => OnWhenAsked(x.uid, acc, s)

RelaysTrue(rel, acc, s) ==
  \A e \in Endpoints, r \in Relays : r \in rel[e] => EverOn(e, r, acc, s)
AirTrue(answers, acc, s) ==
  \A e \in Endpoints : \A i \in DOMAIN answers[e] : \A r \in Relays :
    r \in answers[e][i] => EverOn(e, r, acc, s)
QueueTrue(q, acc, s) == \A i \in DOMAIN q : DataTrue(q[i], acc, s)
RepliesTrue(xs, acc, s) == \A i \in DOMAIN xs : ReplyTrue(xs[i], acc, s)

\* The command in hand is the one sent last.
LastSent(u, type, acc, s) ==
  /\ Len(s) \in DOMAIN s /\ s[Len(s)].uid = u
  /\ u \in DOMAIN acc /\ acc[u].commandType = type

OnInv ==
  /\ RelaysTrue(relay, accepted, sent)
  /\ AirTrue(air, accepted, sent)
  /\ pc = "receive" => LastSent(command.uid, command.commandType, accepted, sent)
  /\ QueueTrue(gAwaitingReturnQueue, accepted, sent)
  /\ ReplyTrue(reply, accepted, sent)
  /\ RepliesTrue(replies, accepted, sent)

LEMMA OnStays ==
  ASSUME NEW acc \in Seq(Accepted), NEW bcc, Grows(acc, bcc),
         NEW s \in Seq(Sent), NEW t, Grows(s, t)
  PROVE  /\ \A e, r : EverOn(e, r, acc, s) => EverOn(e, r, bcc, t)
         /\ \A u : OnWhenAsked(u, acc, s) => OnWhenAsked(u, bcc, t)
<1>1. /\ \A i \in DOMAIN acc : i \in DOMAIN bcc /\ bcc[i] = acc[i]
      /\ \A i \in DOMAIN s : i \in DOMAIN t /\ t[i] = s[i]
  BY GrowthFacts
<1>2. \A e, r : \A j \in DOMAIN s : SetOn(e, r, j, acc, s) => SetOn(e, r, j, bcc, t)
  BY <1>1 DEF SetOn
<1>3. \A e, r : EverOn(e, r, acc, s) => EverOn(e, r, bcc, t)
  BY <1>1, <1>2 DEF EverOn
<1>4. ASSUME NEW u, OnWhenAsked(u, acc, s)
      PROVE  OnWhenAsked(u, bcc, t)
  <2>1. PICK j \in DOMAIN s, k \in DOMAIN s :
          /\ j < k /\ s[k].uid = u
          /\ SetOn(EndpointOf(acc[u].index), IndexInEndpoint(acc[u].index), j, acc, s)
    BY <1>4 DEF OnWhenAsked
  <2>2. /\ u \in DOMAIN bcc /\ bcc[u] = acc[u]
        /\ j \in DOMAIN t /\ k \in DOMAIN t /\ t[k].uid = u
    BY <1>1, <1>4, <2>1 DEF OnWhenAsked
  <2>3. SetOn(EndpointOf(bcc[u].index), IndexInEndpoint(bcc[u].index), j, bcc, t)
    BY <1>2, <2>1, <2>2
  <2> QED BY <2>1, <2>2, <2>3 DEF OnWhenAsked
<1> QED BY <1>3, <1>4

\* Whatever is recorded afterwards, what was true stays so.
LEMMA OnInvStays ==
  ASSUME TypeOK, OnInv, Grows(accepted, accepted'), Grows(sent, sent')
  PROVE  /\ \A e, r : EverOn(e, r, accepted, sent) => EverOn(e, r, accepted', sent')
         /\ RelaysTrue(relay, accepted', sent')
         /\ AirTrue(air, accepted', sent')
         /\ QueueTrue(gAwaitingReturnQueue, accepted', sent')
         /\ ReplyTrue(reply, accepted', sent')
         /\ RepliesTrue(replies, accepted', sent')
<1>1. /\ \A e, r : EverOn(e, r, accepted, sent) => EverOn(e, r, accepted', sent')
      /\ \A u : OnWhenAsked(u, accepted, sent) => OnWhenAsked(u, accepted', sent')
  BY OnStays DEF TypeOK
<1>2. RelaysTrue(relay, accepted', sent') /\ AirTrue(air, accepted', sent')
  BY <1>1 DEF OnInv, RelaysTrue, AirTrue
<1>3. /\ QueueTrue(gAwaitingReturnQueue, accepted', sent')
      /\ ReplyTrue(reply, accepted', sent')
      /\ RepliesTrue(replies, accepted', sent')
  BY <1>1 DEF OnInv, QueueTrue, DataTrue, RepliesTrue, ReplyTrue
<1> QED BY <1>1, <1>2, <1>3

LEMMA SocketThreadOn ==
  ASSUME TypeOK, OnInv, SocketThread
  PROVE  OnInv'
<1>1. UNCHANGED <<relay, air, pc, command, reply, sent, replies>> /\ Grows(sent, sent')
  BY DEF SocketThread, radioVars, Grows
<1>2. Grows(accepted, accepted')
  BY SocketThreadAddresses DEF AddsAddressed, Grows
<1>3. pc = "receive" => LastSent(command.uid, command.commandType, accepted', sent)
  BY <1>2, GrowthFacts DEF OnInv, LastSent, TypeOK
<1>4. QueueTrue(gAwaitingReturnQueue, accepted', sent')
  BY <1>1, <1>2, OnInvStays
<1>5. QueueTrue(gAwaitingReturnQueue', accepted', sent')
  <2>1. CASE UNCHANGED gAwaitingReturnQueue
    BY <1>4, <2>1
  <2>2. ASSUME NEW c, gAwaitingReturnQueue' = Append(gAwaitingReturnQueue, c),
               c.commandType = "GetNumSwitches"
        PROVE  QueueTrue(gAwaitingReturnQueue', accepted', sent')
    <3>1. DataTrue(c, accepted', sent')
      BY <2>2 DEF DataTrue
    <3> QED BY <1>4, <2>2, <3>1, LastOrOld DEF QueueTrue, TypeOK
  <2> QED BY <2>1, <2>2, SocketThreadAddresses DEF AddsAddressed
<1> QED BY <1>1, <1>2, <1>3, <1>5, OnInvStays DEF OnInv

\* A transmission turns relays on only where it sets them, and adds to the air
\* only what a board reports.
LEMMA TransmitOn ==
  ASSUME FourSwitches, OnlyCommandsSwitch, TypeOK, TimingInv, AddressInv, OnInv,
         pc = "send", NEW heard, Transmit(heard), heard \subseteq Endpoints,
         UNCHANGED <<accepted, command>>,
         command.commandType \in SetTypes => heard \subseteq {command.ep}
  PROVE  /\ RelaysTrue(relay', accepted', sent')
         /\ AirTrue(air', accepted', sent')
         /\ LastSent(command.uid, command.commandType, accepted', sent')
<1> DEFINE x == [uid |-> command.uid, byte |-> command.toSend, heard |-> heard, at |-> now]
           n == Len(sent)
           a == accepted[command.uid]
<1>1. /\ sent' = Append(sent, x) /\ x.uid = command.uid /\ x.heard = heard
      /\ Grows(sent, sent') /\ Grows(accepted, accepted')
  BY DEF Transmit, Grows
<1>2. /\ command.uid \in DOMAIN accepted
      /\ a.commandType = command.commandType /\ a \in Accepted
      /\ command.commandType \in SetTypes => CarriesOut(command, a)
      /\ command.commandType \notin SetTypes => command.toSend \in {StatusQuery, OtherByte}
  BY DEF TimingInv, Timely, TypeOK, AddressInv, Addressed, Harmless, SwitchTypes
<1> HIDE DEF x, a
<1>3. sent \in Seq(Sent \cup {x}) /\ x \in Sent \cup {x}
  BY DEF TypeOK
<1>4. /\ n \in Nat /\ DOMAIN sent' = 1..n+1 /\ sent'[n+1] = x
      /\ n + 1 \in DOMAIN sent' /\ Len(sent') = n + 1
  BY <1>1, <1>3, AppendFacts
<1> HIDE DEF n
<1>5. /\ \A e, r : EverOn(e, r, accepted, sent) => EverOn(e, r, accepted', sent')
      /\ RelaysTrue(relay, accepted', sent')
      /\ AirTrue(air, accepted', sent')
  BY <1>1, OnInvStays
<1>6. ASSUME NEW e \in Endpoints, NEW r \in Relays, r \in relay'[e]
      PROVE  EverOn(e, r, accepted', sent')
  <2>1. /\ relay'[e] = IF e \in heard THEN Obey(relay[e], command.toSend) ELSE relay[e]
        /\ relay[e] \in SUBSET Relays
    BY DEF Transmit, TypeOK
  <2>2. CASE r \in relay[e]
    BY <1>5, <2>2 DEF RelaysTrue
  <2>3. CASE r \notin relay[e]
    <3>1. e \in heard /\ r \in Obey(relay[e], command.toSend)
      BY <1>6, <2>1, <2>3
    <3>2. command.commandType \in SetTypes
      BY <1>2, <2>1, <2>3, <3>1, OtherBytesSwitchNothing
    <3>3. /\ EndpointOf(a.index) = e
          /\ command.toSend = CommandByte(IndexInEndpoint(a.index), a.status)
          /\ a.index \in Nat /\ a.status \in BOOLEAN
      BY <1>2, <3>1, <3>2 DEF CarriesOut, Accepted
    <3>4. IndexInEndpoint(a.index) \in Relays
      BY <3>3 DEF IndexInEndpoint, Relays, FourSwitches
    <3>5. IndexInEndpoint(a.index) = r /\ a.status
      BY <2>1, <2>3, <3>1, <3>3, <3>4, TableFacts
    <3>6. SetOn(e, r, n + 1, accepted', sent')
      BY <1>1, <1>2, <1>4, <3>1, <3>2, <3>3, <3>5 DEF SetOn, a
    <3> QED BY <1>4, <3>6 DEF EverOn
  <2> QED BY <2>2, <2>3
<1>7. ASSUME NEW e \in Endpoints, NEW i \in DOMAIN air'[e], NEW r \in Relays,
             r \in air'[e][i]
      PROVE  EverOn(e, r, accepted', sent')
  <2>1. air[e] \in Seq(SUBSET Relays) /\ relay[e] \in SUBSET Relays
    BY DEF TypeOK
  <2>2. air'[e] = air[e] \/ air'[e] = Append(air[e], relay[e])
    BY DEF Transmit, TypeOK
  <2>3. (i \in DOMAIN air[e] /\ air'[e][i] = air[e][i]) \/ air'[e][i] = relay[e]
    BY <2>1, <2>2, LastOrOld
  <2> QED BY <1>5, <1>7, <2>3 DEF RelaysTrue, AirTrue
<1>8. LastSent(command.uid, command.commandType, accepted', sent')
  BY <1>1, <1>2, <1>4 DEF LastSent, a
<1> QED BY <1>6, <1>7, <1>8 DEF RelaysTrue, AirTrue

\* What a board answers is true of the command that receives it, whichever
\* command the answer was meant for.
LEMMA AnswerIsTrue ==
  ASSUME TypeOK, AddressInv, OnInv, pc = "receive",
         NEW byte, \A r \in Relays : r \in byte => EverOn(command.ep, r, accepted, sent),
         byte \in SUBSET Relays
  PROVE  DataTrue(SetReturnData(command, byte), accepted, sent)
<1> DEFINE u == command.uid
           n == Len(sent)
<1>1. /\ SetReturnData(command, byte).uid = u
      /\ SetReturnData(command, byte).commandType = command.commandType
      /\ SetReturnData(command, byte).customData = command.customData
      /\ SetReturnData(command, byte).toRet = byte
  BY DEF SetReturnData, TypeOK, RadioCommand, CommandFields
<1>2. SUFFICES ASSUME command.commandType = "GetSingleSwitch", command.customData \in byte
               PROVE  OnWhenAsked(u, accepted, sent)
  BY <1>1 DEF DataTrue
<1>3. /\ u \in DOMAIN accepted
      /\ command.ep = EndpointOf(accepted[u].index)
      /\ command.customData = IndexInEndpoint(accepted[u].index)
  BY <1>2 DEF AddressInv, Addressed, CarriesOut, SwitchTypes
<1>4. PICK j \in DOMAIN sent : SetOn(command.ep, command.customData, j, accepted, sent)
  BY <1>2 DEF EverOn
<1>5. n \in DOMAIN sent /\ sent[n].uid = u /\ accepted[u].commandType = "GetSingleSwitch"
  BY <1>2 DEF OnInv, LastSent
<1>6. j # n
  BY <1>4, <1>5 DEF SetOn, SetTypes, SetSingleTypes
<1>7. DOMAIN sent = 1..n /\ n \in Nat
  BY DEF TypeOK
<1>8. j < n
  BY <1>4, <1>6, <1>7
<1> QED BY <1>3, <1>4, <1>5, <1>8 DEF OnWhenAsked

LEMMA ProcessingThreadOn ==
  ASSUME FourSwitches, OnlyCommandsSwitch, TypeOK, TimingInv, AddressInv, OnInv,
         ProcessingThread
  PROVE  OnInv'
<1>0. UNCHANGED accepted /\ Grows(accepted, accepted')
  BY DEF ProcessingThread, Grows
<1>1. ASSUME NEW heard, Transmit(heard), pc = "send", heard \subseteq Endpoints,
             UNCHANGED <<queueVars, command, reply, replies>>,
             command.commandType \in SetTypes => heard \subseteq {command.ep}
      PROVE  OnInv'
  <2>1. Grows(sent, sent')
    BY <1>1 DEF Transmit, Grows
  <2>2. /\ QueueTrue(gAwaitingReturnQueue', accepted', sent')
        /\ ReplyTrue(reply', accepted', sent')
        /\ RepliesTrue(replies', accepted', sent')
    BY <1>0, <1>1, <2>1, OnInvStays DEF queueVars
  <2>3. /\ RelaysTrue(relay', accepted', sent')
        /\ AirTrue(air', accepted', sent')
        /\ LastSent(command'.uid, command'.commandType, accepted', sent')
    BY <1>0, <1>1, TransmitOn
  <2> QED BY <2>2, <2>3 DEF OnInv
<1>2. CASE SendAcknowledged \/ SendFails \/ SendBroadcast
  <2>1. command.ep \in Endpoints
    BY <1>2 DEF SendAcknowledged, SendFails, SendBroadcast, TypeOK, RadioCommand
  <2>2. CASE SendAcknowledged
    BY <1>1, <2>1, <2>2 DEF SendAcknowledged
  <2>3. CASE SendFails
    <3>1. PICK heard \in {{}, {command.ep}} : Transmit(heard)
      BY <2>3 DEF SendFails
    <3> QED BY <1>1, <2>1, <2>3, <3>1 DEF SendFails
  <2>4. CASE SendBroadcast
    <3>1. PICK heard \in SUBSET Endpoints : Transmit(heard)
      BY <2>4 DEF SendBroadcast
    <3>2. command.commandType \notin SetTypes
      BY <2>4 DEF SendBroadcast, SetTypes, SetSingleTypes
    <3> QED BY <1>1, <2>4, <3>1, <3>2 DEF SendBroadcast
  <2> QED BY <1>2, <2>2, <2>3, <2>4
<1>3. ASSUME NEW byte \in SUBSET Relays, pc = "receive", AwaitReturn(byte),
             \A r \in Relays : r \in byte => EverOn(command.ep, r, accepted, sent),
             AirTrue(air', accepted, sent)
      PROVE  OnInv'
  <2> DEFINE done == SetReturnData(command, byte)
  <2>1. DataTrue(done, accepted, sent)
    BY <1>3, AnswerIsTrue
  <2>2. gAwaitingReturnQueue' = Append(gAwaitingReturnQueue, done)
    BY <1>3 DEF AwaitReturn, AddCommand
  <2> HIDE DEF done
  <2>3. QueueTrue(gAwaitingReturnQueue', accepted, sent)
    BY <2>1, <2>2, LastOrOld DEF OnInv, QueueTrue, TypeOK
  <2> QED BY <1>0, <1>3, <2>3 DEF AwaitReturn, OnInv
<1>4. CASE ReceiveAnswer
  <2> DEFINE e == command.ep
  <2>1. /\ e \in Endpoints /\ air[e] # <<>> /\ air[e] \in Seq(SUBSET Relays)
        /\ air' = [air EXCEPT ![e] = Tail(@)] /\ AwaitReturn(Head(air[e]))
        /\ pc = "receive"
    BY <1>4 DEF ReceiveAnswer, TypeOK, RadioCommand
  <2>2. /\ 1 \in DOMAIN air[e] /\ Head(air[e]) = air[e][1]
        /\ \A i \in DOMAIN Tail(air[e]) : i + 1 \in DOMAIN air[e]
                                          /\ Tail(air[e])[i] = air[e][i + 1]
    BY <2>1, TailFacts
  <2>3. /\ Head(air[e]) \in SUBSET Relays
        /\ \A r \in Relays : r \in Head(air[e]) => EverOn(e, r, accepted, sent)
    BY <2>1, <2>2 DEF OnInv, AirTrue
  <2>4. AirTrue(air', accepted, sent)
    <3>1. \A f \in Endpoints : air'[f] = IF f = e THEN Tail(air[e]) ELSE air[f]
      BY <2>1 DEF TypeOK
    <3> QED BY <2>1, <2>2, <3>1 DEF OnInv, AirTrue
  <2> QED BY <1>3, <2>1, <2>3, <2>4
<1>5. CASE ReceiveNothing
  <2>1. AirTrue(air', accepted, sent)
    BY <1>5 DEF ReceiveNothing, OnInv
  <2> QED BY <1>3, <1>5, <2>1 DEF ReceiveNothing
<1>6. CASE GetReturnData
  <2> DEFINE c == Head(gAwaitingReturnQueue)
  <2>1. /\ gAwaitingReturnQueue # <<>> /\ gAwaitingReturnQueue \in Seq(RadioCommand)
        /\ gAwaitingReturnQueue' = Tail(gAwaitingReturnQueue)
        /\ reply' = ReplyTo(c)
        /\ pc' = "reply" /\ UNCHANGED <<relay, air, sent, replies>>
    BY <1>6 DEF GetReturnData, radioVars, TypeOK
  <2>2. DataTrue(c, accepted, sent) /\ QueueTrue(gAwaitingReturnQueue', accepted, sent)
    BY <2>1, TailFacts DEF OnInv, QueueTrue
  <2> HIDE DEF c
  <2>3. ReplyTrue(reply', accepted, sent)
    BY <2>1, <2>2 DEF ReplyTo, ReplyValue, DataTrue, ReplyTrue
  <2> QED BY <1>0, <2>1, <2>2, <2>3 DEF OnInv
<1>7. CASE HandOver
  <2>1. /\ replies' = Append(replies, reply) /\ reply' = NoReply
        /\ pc' = "retrieve" /\ UNCHANGED <<queueVars, relay, air, sent>>
    BY <1>7 DEF HandOver, radioVars
  <2>2. RepliesTrue(replies', accepted, sent)
    BY <2>1, LastOrOld DEF OnInv, RepliesTrue, TypeOK
  <2>3. ReplyTrue(NoReply, accepted, sent)
    BY DEF ReplyTrue, NoReply
  <2> QED BY <1>0, <2>1, <2>2, <2>3 DEF OnInv, queueVars
<1>8. CASE /\ pc' # "receive"
           /\ UNCHANGED <<gAwaitingReturnQueue, reply, relay, air, sent, replies>>
  BY <1>0, <1>8 DEF OnInv
<1> QED
  BY <1>2, <1>4, <1>5, <1>6, <1>7, <1>8
  DEF ProcessingThread, RetrieveCommand, FindQueueEmpty, PutBack, XBeeRadioConnect,
      NothingToReturn, Sleep, queueVars, radioVars

LEMMA OnStep ==
  ASSUME FourSwitches, OnlyCommandsSwitch, TypeOK, TimingInv, AddressInv, OnInv,
         [Next]_vars
  PROVE  OnInv'
<1>1. CASE UNCHANGED <<queueVars, pc, command, reply, relay, air, historyVars>>
  BY <1>1 DEF OnInv, queueVars, historyVars
<1>2. ASSUME NEW e \in Endpoints, LoseAnswer(e)
      PROVE  OnInv'
  <2>1. /\ air[e] # <<>> /\ air[e] \in Seq(SUBSET Relays)
        /\ air' = [air EXCEPT ![e] = Tail(@)]
        /\ UNCHANGED <<queueVars, pc, command, reply, relay, historyVars>>
    BY <1>2 DEF LoseAnswer, TypeOK
  <2>2. \A f \in Endpoints : air'[f] = IF f = e THEN Tail(air[e]) ELSE air[f]
    BY <2>1 DEF TypeOK
  <2>3. \A i \in DOMAIN Tail(air[e]) : i + 1 \in DOMAIN air[e]
                                       /\ Tail(air[e])[i] = air[e][i + 1]
    BY <2>1, TailFacts
  <2>4. AirTrue(air', accepted, sent)
    BY <2>2, <2>3 DEF OnInv, AirTrue
  <2> QED BY <2>1, <2>4 DEF OnInv, queueVars, historyVars
<1> QED
  BY <1>1, <1>2, SocketThreadOn, ProcessingThreadOn
  DEF Next, Tick, Ended, vars, radioVars

\* With boards of four switches a GetSingleSwitch is answered "on" only if that
\* very switch had been set on before it was asked after, however late the answers
\* of a board come and to whichever command of that board they are given.
THEOREM OnIsTrue ==
  ASSUME FourSwitches, OnlyCommandsSwitch
  PROVE  Spec => []OnIsNeverInvented
<1>1. Init => OnInv
  <2>1. NoReply.commandType # "GetSingleSwitch"
    BY DEF NoReply
  <2> QED BY <2>1
      DEF Init, OnInv, RelaysTrue, AirTrue, QueueTrue, RepliesTrue, ReplyTrue
<1>2. TypeOK /\ TimingInv /\ AddressInv /\ OnInv /\ [Next]_vars => OnInv'
  BY OnStep
<1>3. TypeOK /\ OnInv => OnIsNeverInvented
  <2>1. SUFFICES ASSUME TypeOK, OnInv, NEW i \in DOMAIN replies,
                        replies[i].commandType = "GetSingleSwitch", replies[i].value = 1
                 PROVE  \E j, k \in DOMAIN sent :
                          /\ j < k
                          /\ sent[k].uid = replies[i].uid
                          /\ j \in SetsOf(accepted[sent[k].uid].index)
                          /\ accepted[sent[j].uid].status
    BY DEF OnIsNeverInvented
  <2> DEFINE u == replies[i].uid
  <2>2. OnWhenAsked(u, accepted, sent)
    BY <2>1 DEF OnInv, RepliesTrue, ReplyTrue
  <2> HIDE DEF u
  <2>3. PICK j \in DOMAIN sent, k \in DOMAIN sent :
          /\ j < k /\ sent[k].uid = u
          /\ SetOn(EndpointOf(accepted[u].index), IndexInEndpoint(accepted[u].index),
                   j, accepted, sent)
    BY <2>2 DEF OnWhenAsked
  <2>4. accepted[u] \in Accepted /\ accepted[sent[j].uid] \in Accepted
    BY <2>1, <2>2, <2>3 DEF OnWhenAsked, SetOn, TypeOK
  <2>5. accepted[u].index \in Nat /\ accepted[sent[j].uid].index \in Nat
    BY <2>4 DEF Accepted
  <2>6. accepted[sent[j].uid].index = accepted[u].index
    BY <2>3, <2>5 DEF SetOn, EndpointOf, IndexInEndpoint, FourSwitches
  <2>7. j \in SetsOf(accepted[u].index)
    BY <2>3, <2>6 DEF SetOn, SetsOf, EndpointHeard
  <2> QED BY <2>3, <2>7 DEF SetOn, u
<1> QED BY <1>1, <1>2, <1>3, AddressInvariant, TypeCorrect, TimingInvariant, PTL DEF Spec

-----------------------------------------------------------------------------
(***************************************************************************)
(* Refinement.  Each step of the threads is a step of SwitchService, or     *)
(* none: the first transmission of a command performs it, the hand-over of  *)
(* its reply answers it, a failed assertion stops the service.              *)
(***************************************************************************)
Performed(s) == [i \in DOMAIN s |-> s[i].uid]
OnSet == {index \in 0..NumSwitches-1 : IsOn(index)}

LEMMA PerformedFacts ==
  ASSUME NEW S, NEW s \in Seq(S), NEW x \in S
  PROVE  /\ Performed(Append(s, x)) = Append(Performed(s), x.uid)
         /\ {Performed(s)[i] : i \in DOMAIN Performed(s)} = Uids(s)
         /\ Performed(s) \in Seq({t.uid : t \in S})
<1> DEFINE n == Len(s)
           p == Performed(s)
           q == Performed(Append(s, x))
<1>1. /\ n \in Nat /\ DOMAIN s = 1..n /\ DOMAIN Append(s, x) = 1..n+1
      /\ Append(s, x)[n+1] = x /\ \A i \in 1..n : Append(s, x)[i] = s[i]
  BY AppendFacts
<1>2. /\ DOMAIN p = 1..n /\ \A i \in 1..n : p[i] = s[i].uid
      /\ p \in Seq({t.uid : t \in S}) /\ Len(p) = n
  BY <1>1 DEF Performed
<1>3. /\ DOMAIN q = 1..n+1 /\ \A i \in 1..n+1 : q[i] = Append(s, x)[i].uid
      /\ q \in Seq({t.uid : t \in S}) /\ Len(q) = n + 1
  BY <1>1 DEF Performed
<1>4. {p[i] : i \in DOMAIN p} = Uids(s)
  BY <1>1, <1>2 DEF Uids
<1> HIDE DEF n, p, q
<1>5. /\ DOMAIN Append(p, x.uid) = 1..n+1 /\ Append(p, x.uid)[n+1] = x.uid
      /\ \A i \in 1..n : Append(p, x.uid)[i] = p[i]
      /\ Append(p, x.uid) \in Seq({t.uid : t \in S}) /\ Len(Append(p, x.uid)) = n + 1
  BY <1>2, AppendFacts
<1>6. \A i \in 1..n+1 : i \in 1..n \/ i = n + 1
  BY <1>1
<1>7. \A i \in 1..n+1 : q[i] = Append(p, x.uid)[i]
  BY <1>1, <1>2, <1>3, <1>5, <1>6
<1>8. q = Append(p, x.uid)
  BY <1>3, <1>5, <1>7
<1> QED BY <1>2, <1>4, <1>8 DEF p, q

\* What the service's own names stand for.
LEMMA ServiceNames ==
  ASSUME TypeOK
  PROVE  /\ Service!Values(Performed(sent)) = Uids(sent)
         /\ Service!Values(Performed(replies)) = Uids(replies)
         /\ Service!Waiting = {u \in DOMAIN accepted :
                                 accepted[u].commandType # "GetNumSwitches"} \ Uids(sent)
         /\ \A u : Service!Instant(u) <=>
              /\ accepted[u].commandType # "SetSingleSwitchDelay"
              /\ accepted[u].index \in 0..NumSwitches-1
<1>1. sent \in Seq(Sent) /\ replies \in Seq(Reply)
  BY DEF TypeOK
<1>2. Service!Values(Performed(sent)) = Uids(sent)
  BY <1>1 DEF Service!Values, Performed, Uids
<1>3. Service!Values(Performed(replies)) = Uids(replies)
  BY <1>1 DEF Service!Values, Performed, Uids
<1>4. Service!Waiting = {u \in DOMAIN accepted :
                           accepted[u].commandType # "GetNumSwitches"} \ Uids(sent)
  BY <1>2 DEF Service!Waiting, Service!NeedsRadio, Service!Kind, Performed
<1> QED BY <1>2, <1>3, <1>4 DEF Service!Instant, Service!Kind

\* A command that waits is in the command queue or in hand: the others that use
\* the radio have been sent.
LEMMA WhereItWaits ==
  ASSUME TypeOK, OnePlace, ReturnInv, NEW u \in Service!Waiting
  PROVE  u \in Uids(gCommandQueue) \cup UidOf(command)
<1>1. /\ u \in DOMAIN accepted /\ accepted[u].commandType # "GetNumSwitches"
      /\ u \notin Uids(sent)
  BY ServiceNames
<1>2. u \in Issued
  BY <1>1 DEF Issued, TypeOK
<1>3. ASSUME NEW S, Follows(u, sent, S) PROVE FALSE
  BY <1>1, <1>3 DEF Follows, Uids
<1>4. u \notin Uids(replies)
  <2>1. SUFFICES ASSUME NEW a \in DOMAIN replies, replies[a].uid = u PROVE FALSE
    BY DEF Uids
  <2>2. Known(replies[a], accepted)
    BY DEF ReturnInv, AllFollow
  <2>3. UsesRadio(replies[a])
    BY <1>1, <2>1, <2>2 DEF Known, UsesRadio
  <2> QED BY <1>3, <2>1, <2>3 DEF ReturnInv, AllFollow
<1>5. u \notin UidOf(reply)
  <2>1. SUFFICES ASSUME reply.uid = u, pc = "reply" PROVE FALSE
    BY DEF UidOf, TypeOK
  <2>2. Known(reply, accepted)
    BY <2>1 DEF ReturnInv
  <2>3. UsesRadio(reply)
    BY <1>1, <2>1, <2>2 DEF Known, UsesRadio
  <2> QED BY <1>3, <2>1, <2>3 DEF ReturnInv
<1>6. u \notin Uids(gAwaitingReturnQueue)
  <2>1. SUFFICES ASSUME NEW a \in DOMAIN gAwaitingReturnQueue,
                        gAwaitingReturnQueue[a].uid = u
                 PROVE  FALSE
    BY DEF Uids
  <2>2. Known(gAwaitingReturnQueue[a], accepted)
    BY DEF ReturnInv, AllFollow
  <2>3. UsesRadio(gAwaitingReturnQueue[a])
    BY <1>1, <2>1, <2>2 DEF Known, UsesRadio
  <2> QED BY <1>3, <2>1, <2>3 DEF ReturnInv, AllFollow
<1> QED BY <1>2, <1>4, <1>5, <1>6 DEF OnePlace, Cover5

\* When a command is sent it waits and its time has come, and no instant command
\* within the limits that waits was accepted before it, if it is one itself.
LEMMA SentMayPerform ==
  ASSUME TypeOK, OnePlace, TimingInv, OrderInv, ReturnInv, pc = "send",
         NEW heard, Transmit(heard),
         UNCHANGED <<queueVars, command, reply, replies, accepted, now>>,
         NEW u, u = command.uid
  PROVE  Service!MayPerform(u)
<1> DEFINE x == [uid |-> u, byte |-> command.toSend, heard |-> heard, at |-> now]
<1>1. sent' = Append(sent, x) /\ x.uid = u
  BY DEF Transmit
<1>2. /\ u \in DOMAIN accepted /\ accepted[u].commandType = command.commandType
      /\ command.commandType \in RadioTypes /\ command.filled
      /\ accepted[u].notBefore <= command.triggerTime /\ command.triggerTime <= now
      /\ accepted[u] \in Accepted /\ command.triggerTime \in Nat /\ now \in Nat
  BY BoundAssumption
  DEF TimingInv, Timely, TypeOK, RadioCommand, CommandFields, BoundAssumption
<1>3. now >= accepted[u].notBefore
  BY <1>2 DEF Accepted
<1>4. u \in Service!Waiting
  <2>1. u \in UidOf(command)
    BY <1>2 DEF UidOf, TypeOK
  <2>2. u \notin Uids(sent)
    BY <2>1 DEF ReturnInv, PastRadio, OnePlace, Disjoint5
  <2>3. command.commandType # "GetNumSwitches"
    BY <1>2 DEF RadioTypes, SetTypes, SetSingleTypes
  <2> QED BY <1>2, <2>2, <2>3, ServiceNames
<1>5. ASSUME Service!Instant(u), NEW v \in Service!Waiting, Service!Instant(v)
      PROVE  u <= v
  <2>1. /\ accepted[v].commandType # "SetSingleSwitchDelay"
        /\ accepted[v].index \in 0..NumSwitches-1
        /\ accepted[u].commandType # "SetSingleSwitchDelay"
        /\ v \in DOMAIN accepted
    BY <1>5, ServiceNames
  <2>2. u \in Nat /\ v \in Nat
    BY <1>2, <2>1 DEF TypeOK
  <2>3. CASE v \in UidOf(command)
    BY <2>2, <2>3 DEF UidOf
  <2>4. CASE v \in Uids(gCommandQueue)
    <3>1. PICK i \in DOMAIN gCommandQueue : gCommandQueue[i].uid = v
      BY <2>4 DEF Uids
    <3>2. Timely(gCommandQueue[i], accepted, now)
      BY DEF TimingInv, QueueTimely
    <3>3. ~OverLimit(accepted[v].index)
      BY <2>1, SpecAssumption DEF OverLimit, EndpointOf, NumSwitches, SpecAssumption
    <3>4. Immediate(gCommandQueue[i])
      BY <2>1, <3>1, <3>2, <3>3 DEF Timely, Immediate
    <3>5. Ahead(u, gCommandQueue)
      BY <1>2, <2>1 DEF OrderInv, Immediate
    <3>6. u < v
      BY <3>1, <3>4, <3>5 DEF Ahead
    <3> QED BY <2>2, <3>6
  <2> QED BY <2>3, <2>4, WhereItWaits
<1>6. Performed(sent') = Append(Performed(sent), u)
  <2> HIDE DEF x
  <2>1. sent \in Seq(Sent \cup {x}) /\ x \in Sent \cup {x}
    BY DEF TypeOK
  <2> QED BY <1>1, <2>1, PerformedFacts
<1>7. UNCHANGED Performed(replies)
  OBVIOUS
<1> QED BY <1>3, <1>4, <1>5, <1>6, <1>7 DEF Service!MayPerform, Performed

\* A transmission does to the switches what the service allows the command, or
\* nothing if nobody hears it.
LEMMA SentHasEffect ==
  ASSUME FourSwitches, TypeOK, TimingInv, AddressInv, pc = "send",
         NEW heard, Transmit(heard), UNCHANGED accepted,
         command.commandType # "PassThrough" => heard \in {{}, {command.ep}},
         NEW u, u = command.uid
  PROVE  /\ heard # {} => OnSet' \in Service!Effects(u)
         /\ heard = {} => OnSet' = OnSet
<1> DEFINE a == accepted[u]
           Sw == 0..NumSwitches-1
<1>1. /\ u \in DOMAIN accepted /\ a.commandType = command.commandType /\ a \in Accepted
      /\ command.commandType \in RadioTypes /\ command.filled /\ ~OverLimit(a.index)
      /\ command.commandType \in SwitchTypes => CarriesOut(command, a)
  BY DEF TimingInv, Timely, TypeOK, AddressInv, Addressed
<1>2. ASSUME NEW index \in Sw
      PROVE  /\ EndpointOf(index) \in Endpoints /\ IndexInEndpoint(index) \in Relays
             /\ relay[EndpointOf(index)] \in SUBSET Relays
             /\ IsOn(index) <=> IndexInEndpoint(index) \in relay[EndpointOf(index)]
             /\ IsOn(index)' <=> IndexInEndpoint(index) \in relay'[EndpointOf(index)]
             /\ relay'[EndpointOf(index)] =
                  IF EndpointOf(index) \in heard
                  THEN Obey(relay[EndpointOf(index)], command.toSend)
                  ELSE relay[EndpointOf(index)]
  BY WhereSwitchesAre DEF TypeOK, IsOn, Transmit
<1>3. heard = {} => OnSet' = OnSet
  BY <1>2 DEF OnSet
<1>4. OnSet' \in SUBSET Sw
  BY DEF OnSet
<1>5. CASE command.commandType = "PassThrough"
  BY <1>1, <1>3, <1>4, <1>5 DEF Service!Effects, Service!Kind
<1>6. CASE command.commandType = "GetSingleSwitch"
  <2>1. command.toSend = StatusQuery
    BY <1>1, <1>6 DEF CarriesOut, SwitchTypes
  <2>2. \A index \in Sw : IsOn(index)' <=> IsOn(index)
    BY <1>2, <2>1, OtherBytesSwitchNothing
  <2>3. OnSet' = OnSet
    BY <2>2 DEF OnSet
  <2> QED BY <1>1, <1>3, <1>6, <2>3 DEF Service!Effects, Service!Kind, OnSet
<1>7. CASE command.commandType \in SetTypes /\ heard = {command.ep}
  <2>1. /\ command.ep = EndpointOf(a.index)
        /\ command.toSend = CommandByte(IndexInEndpoint(a.index), a.status)
        /\ a.index \in Nat /\ a.status \in BOOLEAN
    BY <1>1, <1>7 DEF CarriesOut, SwitchTypes, Accepted
  <2>2. a.index \in Sw
    BY <1>1, <2>1, SpecAssumption
    DEF OverLimit, EndpointOf, NumSwitches, SpecAssumption, FourSwitches
  <2> HIDE DEF a, Sw
  <2>3. ASSUME NEW index \in Sw
        PROVE  IsOn(index)' <=> IF index = a.index THEN a.status ELSE IsOn(index)
    <3>0. IndexInEndpoint(a.index) \in Relays
      BY <1>2, <2>2
    <3>1. CASE index = a.index
      BY <1>2, <1>7, <2>1, <3>0, <3>1, TableFacts
    <3>2. CASE index # a.index /\ EndpointOf(index) = EndpointOf(a.index)
      <4>1. IndexInEndpoint(a.index) # IndexInEndpoint(index)
        BY <2>1, <3>2, WhereSwitchesAre DEF Sw
      <4> QED BY <1>2, <1>7, <2>1, <3>0, <3>2, <4>1, TableFacts
    <3>3. CASE index # a.index /\ EndpointOf(index) # EndpointOf(a.index)
      BY <1>2, <1>7, <2>1, <3>3
    <3> QED BY <3>1, <3>2, <3>3
  <2>4. OnSet = {index \in Sw : IsOn(index)} /\ OnSet' = {index \in Sw : IsOn(index)'}
    BY DEF OnSet, Sw
  <2>5. OnSet' = IF a.status THEN OnSet \cup {a.index} ELSE OnSet \ {a.index}
    BY <2>1, <2>2, <2>3, <2>4
  <2>6. a.commandType \notin {"GetSingleSwitch", "PassThrough"}
    BY <1>1, <1>7 DEF SetTypes, SetSingleTypes, a
  <2> QED BY <1>3, <2>5, <2>6 DEF Service!Effects, Service!Kind, OnSet, a
<1> QED BY <1>1, <1>3, <1>5, <1>6, <1>7 DEF RadioTypes

ServiceInv ==
  TypeOK /\ OnePlace /\ TimingInv /\ OrderInv /\ ReturnInv /\ AddressInv

\* What the service sees of the radio network.
serviceVars == <<accepted, sent, replies, relay, now>>

LEMMA ServiceUnchanged ==
  ASSUME UNCHANGED serviceVars, (pc' # "aborted") = (pc # "aborted")
  PROVE  UNCHANGED Service!vars
  BY DEF serviceVars, Service!vars, IsOn

LEMMA SendsPerform ==
  ASSUME FourSwitches, ServiceInv, SendAcknowledged \/ SendFails \/ SendBroadcast,
         UNCHANGED <<batch, now, accepted>>
  PROVE  Service!Next
<1>0. PICK u : u = command.uid
  OBVIOUS
<1>1. /\ pc = "send" /\ UNCHANGED <<queueVars, command, reply, replies, accepted, now>>
      /\ TypeOK /\ OnePlace /\ TimingInv /\ OrderInv /\ ReturnInv /\ AddressInv
      /\ u \in DOMAIN accepted
  BY <1>0 DEF SendAcknowledged, SendFails, SendBroadcast, ServiceInv, TimingInv, Timely
<1>2. ASSUME NEW heard, Transmit(heard), pc' = "receive", heard # {},
             command.commandType # "PassThrough" => heard \in {{}, {command.ep}}
      PROVE  Service!Perform(u)
  <2>1. Service!MayPerform(u)
    BY <1>0, <1>1, <1>2, SentMayPerform
  <2>2. OnSet' \in Service!Effects(u)
    BY <1>0, <1>1, <1>2, SentHasEffect
  <2>3. pc # "aborted" /\ pc' # "aborted"
    BY <1>1, <1>2
  <2> QED BY <2>1, <2>2, <2>3 DEF Service!Perform, OnSet
<1>3. CASE SendAcknowledged
  <2>1. Service!Perform(u)
    BY <1>2, <1>3 DEF SendAcknowledged
  <2> QED BY <1>1, <2>1 DEF Service!Next
<1>4. CASE SendFails
  <2>1. PICK heard \in {{}, {command.ep}} : Transmit(heard)
    BY <1>4 DEF SendFails
  <2>2. Service!MayPerform(u)
    BY <1>0, <1>1, <2>1, SentMayPerform
  <2>3. OnSet' \in {OnSet} \cup Service!Effects(u)
    BY <1>0, <1>1, <2>1, SentHasEffect
  <2>4. pc' = "aborted"
    BY <1>4 DEF SendFails
  <2>5. Service!PerformAndStop(u)
    BY <2>2, <2>3, <2>4 DEF Service!PerformAndStop, OnSet
  <2> QED BY <1>1, <2>5 DEF Service!Next
<1>5. CASE SendBroadcast
  <2>1. PICK heard \in SUBSET Endpoints : Transmit(heard)
    BY <1>5 DEF SendBroadcast
  <2>2. Service!MayPerform(u)
    BY <1>0, <1>1, <2>1, SentMayPerform
  <2>3. OnSet' \in Service!Effects(u)
    <3>1. Service!Effects(u) = SUBSET (0..NumSwitches-1)
      BY <1>0, <1>1, <1>5
      DEF SendBroadcast, Service!Effects, Service!Kind, TimingInv, Timely
    <3> QED BY <3>1 DEF OnSet
  <2>4. pc # "aborted" /\ pc' # "aborted"
    BY <1>5 DEF SendBroadcast
  <2>5. Service!Perform(u)
    BY <2>2, <2>3, <2>4 DEF Service!Perform, OnSet
  <2> QED BY <1>1, <2>5 DEF Service!Next
<1> QED BY <1>3, <1>4, <1>5

\* A reply is handed over once, for a command that has been performed or needs
\* no radio, after those of the commands performed before it.
LEMMA HandOverAnswers ==
  ASSUME ServiceInv, HandOver, UNCHANGED <<batch, now, accepted>>
  PROVE  Service!Next
<1>0. PICK u : u = reply.uid
  OBVIOUS
<1>1. /\ pc = "reply" /\ pc' = "retrieve" /\ replies' = Append(replies, reply)
      /\ UNCHANGED <<accepted, sent, relay, now>> /\ replies \in Seq(Reply)
      /\ sent \in Seq(Sent) /\ reply \in Reply /\ u # 0
      /\ TypeOK /\ OnePlace /\ ReturnInv
  BY <1>0 DEF HandOver, radioVars, ServiceInv, TypeOK
<1>2. /\ Known(reply, accepted)
      /\ UsesRadio(reply) => Follows(u, sent, Uids(replies))
  BY <1>0, <1>1 DEF ReturnInv
<1>3. u \in DOMAIN accepted /\ u \notin Service!Waiting
  <2>1. CASE UsesRadio(reply)
    BY <1>0, <1>1, <1>2, <2>1, ServiceNames DEF Follows, Known, Uids
  <2>2. CASE ~UsesRadio(reply)
    BY <1>0, <1>1, <1>2, <2>2, ServiceNames DEF Known, UsesRadio
  <2> QED BY <1>0, <1>2, <2>1, <2>2 DEF Known
<1>4. u \notin Service!Values(Performed(replies))
  <2>1. u \in UidOf(reply)
    BY <1>0, <1>1 DEF UidOf
  <2>2. u \notin Uids(replies)
    BY <1>1, <2>1 DEF OnePlace, Disjoint5
  <2> QED BY <1>1, <2>2, ServiceNames
<1>5. ASSUME NEW i \in DOMAIN sent, sent[i].uid = u
      PROVE  \A j \in 1..i-1 : sent[j].uid \in Uids(replies)
  <2>1. UsesRadio(reply)
    BY <1>0, <1>1, <1>2, <1>5 DEF ReturnInv, SentOnce, Known, UsesRadio
  <2>2. PICK k \in DOMAIN sent : sent[k].uid = u /\ \A j \in 1..k-1 : sent[j].uid \in Uids(replies)
    BY <1>2, <2>1 DEF Follows
  <2>3. k = i
    BY <1>1, <1>5, <2>2 DEF ReturnInv, SentOnce, DistinctUids
  <2> QED BY <2>2, <2>3
<1>6. \A i \in DOMAIN Performed(sent) : Performed(sent)[i] = u =>
        \A j \in 1..i-1 : Performed(sent)[j] \in Service!Values(Performed(replies))
  <2>1. ASSUME NEW i \in DOMAIN sent, NEW j \in 1..i-1 PROVE j \in DOMAIN sent
    BY <1>1
  <2>2. Service!Values(Performed(replies)) = Uids(replies)
    BY <1>1, ServiceNames
  <2>3. DOMAIN Performed(sent) = DOMAIN sent /\ \A i \in DOMAIN sent : Performed(sent)[i] = sent[i].uid
    BY DEF Performed
  <2> QED BY <1>5, <2>1, <2>2, <2>3
<1>7. Performed(replies') = Append(Performed(replies), u)
  BY <1>0, <1>1, PerformedFacts
<1>8. UNCHANGED <<Performed(sent), OnSet, accepted, now>> /\ pc # "aborted" /\ pc' # "aborted"
  BY <1>1 DEF Performed, OnSet, IsOn
<1>9. Service!Answer(u)
  BY <1>3, <1>4, <1>6, <1>7, <1>8 DEF Service!Answer, Performed, OnSet
<1> QED BY <1>3, <1>9 DEF Service!Next

LEMMA ServiceStep ==
  ASSUME FourSwitches, ServiceInv, [Next]_vars
  PROVE  [Service!Next]_(Service!vars)
<1>1. CASE SocketThread
  <2>1. UNCHANGED <<sent, replies, relay, now, pc>>
    BY <1>1 DEF SocketThread, radioVars
  <2>2. CASE UNCHANGED accepted
    BY <2>1, <2>2, ServiceUnchanged DEF serviceVars
  <2>3. ASSUME NEW a \in Accepted, accepted' = Append(accepted, a)
        PROVE  Service!Next
    <3>1. accepted \in Seq(Accepted)
      BY DEF ServiceInv, TypeOK
    <3>2. Len(accepted') = Len(accepted) + 1 /\ accepted'[Len(accepted) + 1] = a
      BY <2>3, <3>1
    <3>3. UNCHANGED <<Performed(sent), Performed(replies), OnSet>>
      BY <2>1 DEF Performed, OnSet, IsOn
    <3>4. pc # "aborted"
      BY <1>1
      DEF SocketThread, RadioNetworkAppendCommand, AppendSetSingle, AppendGetSingle,
          AppendPassThrough, AppendGetNum, AppendGetMultiple, BeginSetMultiple, CanAppend,
          AppendNextOfBatch, EndBatch
    <3>5. Service!Accept
      BY <2>1, <2>3, <3>2, <3>3, <3>4 DEF Service!Accept, Performed, OnSet
    <3> QED BY <3>5 DEF Service!Next
  <2>4. \/ UNCHANGED accepted
        \/ \E a \in Accepted : accepted' = Append(accepted, a)
    BY <1>1, SocketThreadAdds DEF ServiceInv, Adds
  <2> QED BY <2>2, <2>3, <2>4
<1>2. CASE ProcessingThread
  <2>0. UNCHANGED <<batch, now, accepted>>
    BY <1>2 DEF ProcessingThread
  <2>1. CASE SendAcknowledged \/ SendFails \/ SendBroadcast
    BY <2>0, <2>1, SendsPerform
  <2>2. CASE HandOver
    BY <2>0, <2>2, HandOverAnswers
  <2>3. CASE XBeeRadioConnect /\ pc' = "aborted"
    <3>1. UNCHANGED <<Performed(sent), Performed(replies), OnSet, accepted, now>>
      BY <2>0, <2>3 DEF XBeeRadioConnect, radioVars, Performed, OnSet, IsOn
    <3>2. pc # "aborted"
      BY <2>3 DEF XBeeRadioConnect
    <3>3. Service!Stop
      BY <2>3, <3>1, <3>2 DEF Service!Stop, Performed, OnSet
    <3> QED BY <3>3 DEF Service!Next
  <2>4. CASE pc # "aborted" /\ pc' # "aborted" /\ UNCHANGED <<sent, replies, relay>>
    BY <2>0, <2>4, ServiceUnchanged DEF serviceVars
  <2> QED
    BY <1>2, <2>1, <2>2, <2>3, <2>4
    DEF ProcessingThread, RetrieveCommand, FindQueueEmpty, PutBack, XBeeRadioConnect,
        ReceiveAnswer, ReceiveNothing, AwaitReturn, GetReturnData, NothingToReturn,
        Sleep, radioVars
<1>3. CASE Tick
  <2>1. UNCHANGED <<Performed(sent), Performed(replies), OnSet, accepted, pc>>
    BY <1>3 DEF Tick, radioVars, historyVars, Performed, OnSet, IsOn
  <2>2. Service!Tick
    BY <1>3, <2>1 DEF Tick, Service!Tick, Performed, OnSet
  <2> QED BY <2>2 DEF Service!Next
<1>4. CASE UNCHANGED <<pc, relay, now, historyVars>>
  BY <1>4, ServiceUnchanged DEF serviceVars, historyVars
<1> QED
  BY <1>1, <1>2, <1>3, <1>4
  DEF Next, LoseAnswer, Ended, vars, radioVars

LEMMA ServiceInit == FourSwitches /\ Init => Service!Init
<1> SUFFICES ASSUME FourSwitches, Init PROVE Service!Init
  OBVIOUS
<1>1. Performed(sent) = <<>> /\ Performed(replies) = <<>>
  BY DEF Init, Performed
<1>2. OnSet = {}
  BY WhereSwitchesAre DEF Init, OnSet, IsOn
<1>3. pc # "aborted" /\ accepted = <<>> /\ now = 0
  BY DEF Init
<1> QED BY <1>1, <1>2, <1>3 DEF Service!Init, Performed, OnSet

\* The queues and threads implement the service, for every number of boards of
\* four switches, every set of calls, every delay and every loss of answers.
THEOREM RefinesService ==
  ASSUME FourSwitches
  PROVE  Spec => ImplementsService
<1>1. ServiceInv /\ [Next]_vars => [Service!Next]_(Service!vars)
  BY ServiceStep
<1>2. Init => Service!Init
  BY ServiceInit
<1>3. Spec => []ServiceInv
  BY BaseInvariant, TimingInvariant, OrderInvariant, ReturnInvariant, AddressInvariant, PTL
  DEF ServiceInv
<1> QED BY <1>1, <1>2, <1>3, PTL DEF Spec, ImplementsService, Service!Spec

-----------------------------------------------------------------------------
(***************************************************************************)
(* The server.                                                              *)
(***************************************************************************)

\* A step of the socket thread moves the radio network by RadioNetworkAppendCommand
\* alone (SocketServerRun, SSECallback).
LEMMA SocketThreadSteps ==
  ASSUME ServerThread
  PROVE  SocketThread \/ UNCHANGED vars
<1>1. ASSUME \/ AcceptConnection \/ SocketServerStop \/ SocketConnected
             \/ ReceiveMessage \/ ReceiveFragment \/ CloseConnection
             \/ SocketDisconnected \/ SocketServerStart
      PROVE  UNCHANGED vars
  BY <1>1 DEF AcceptConnection, SocketServerStop, SocketConnected,
              ReceiveMessage, ReceiveFragment, CloseConnection,
              SocketDisconnected, SocketServerStart
<1>2. ASSUME AppendFromMessage PROVE SocketThread
  BY <1>2 DEF AppendFromMessage
<1> QED
  BY <1>1, <1>2 DEF ServerThread

\* The callback gives the reply away and does nothing else to the radio network
\* (RadioNetworkProcessCommandQueue, UpdateReturnData).
LEMMA ProcessingThreadSteps ==
  ASSUME ProcessCommandQueue
  PROVE  ProcessingThread \/ UNCHANGED vars
BY DEF ProcessCommandQueue, UpdateReturnData, SendToResetConnection

LEMMA EnvironmentSteps ==
  ASSUME Environment
  PROVE  Tick \/ (\E e \in Endpoints : LoseAnswer(e)) \/ UNCHANGED vars
<1>1. ASSUME NEW k \in Clients,
             \/ ClientConnect(k) \/ ClientRead(k) \/ ClientLeave(k)
             \/ \E m \in Messages : ClientSend(k, m)
      PROVE  UNCHANGED vars
  BY <1>1 DEF ClientConnect, ClientRead, ClientLeave, ClientSend
<1>2. ASSUME LingeringEnds PROVE UNCHANGED vars
  BY <1>2 DEF LingeringEnds
<1> QED
  BY <1>1, <1>2 DEF Environment

LEMMA ServerSteps ==
  ASSUME [ServerNext]_serverAllVars
  PROVE  [Next]_vars
<1>1. CASE UNCHANGED serverAllVars
  BY <1>1 DEF serverAllVars
<1>2. CASE ServerThread
  BY <1>2, SocketThreadSteps DEF Next
<1>3. CASE ProcessCommandQueue
  BY <1>3, ProcessingThreadSteps DEF Next
<1>4. CASE Environment
  BY <1>4, EnvironmentSteps DEF Next
<1> QED
  BY <1>1, <1>2, <1>3, <1>4 DEF ServerNext

\* Every behaviour of the server is one of the radio network: the socket thread
\* and the callback drive it in no way RadioNetwork leaves out.
THEOREM ServerRunsRadioNetwork == ServerSpec => RunsRadioNetwork
<1>1. ServerInit => Init
  BY DEF ServerInit
<1>2. [ServerNext]_serverAllVars => [Next]_vars
  BY ServerSteps
<1> QED
  BY <1>1, <1>2, PTL DEF ServerSpec, RunsRadioNetwork, Spec

\* Within the server, with its clients, sessions and packs, no command is lost,
\* sent twice or answered twice between the two threads.
THEOREM ServerConservesCommands == ServerSpec => []EachCommandInOnePlace
BY ServerRunsRadioNetwork, CommandsConserved, PTL DEF RunsRadioNetwork

\* Within the server, the instant commands of all the clients are sent in the
\* order their messages were received.
THEOREM ServerKeepsOrder == ServerSpec => []InstantCommandsSentInOrder
BY ServerRunsRadioNetwork, InstantOrder, PTL DEF RunsRadioNetwork

\* Within the server no client is told that a switch was set unless the board of
\* that switch heard the command.
THEOREM ServerRepliesMeanHeard == ServerSpec => []SetReplyMeansHeard
BY ServerRunsRadioNetwork, RepliesMeanHeard, PTL DEF RunsRadioNetwork

\* Within the server the replies are handed to the callback in the order of the
\* transmissions.
THEOREM ServerRepliesKeepOrder == ServerSpec => []RepliesInOrderSent
BY ServerRunsRadioNetwork, RepliesKeepOrder, PTL DEF RunsRadioNetwork

\* The server as a whole implements the service of its switches.
THEOREM ServerRefinesService ==
  ASSUME FourSwitches
  PROVE  ServerSpec => ImplementsService
BY ServerRunsRadioNetwork, RefinesService, PTL DEF RunsRadioNetwork

-----------------------------------------------------------------------------
(***************************************************************************)
(* Sessions.  A client is served once, after the clients served before it   *)
(* have left: the owner of a command is the client being received from, or  *)
(* one that is gone for good.                                               *)
(***************************************************************************)
ClientStates == {"away", "connected", "left", "refused"}
SocketStates == {"accept", "stop", "connect", "recv", "disconnect", "start"}

InBacklog(k) == \E i \in DOMAIN backlog : backlog[i] = k

\* The client has left, and its connection has been closed.
Gone(k) == client[k] = "left" /\ ~InBacklog(k) /\ k # new_fd

ConnectionInv ==
  /\ client \in [Clients -> ClientStates]
  /\ backlog \in Seq(Clients)
  /\ \A i, j \in DOMAIN backlog : backlog[i] = backlog[j] => i = j
  /\ \A i \in DOMAIN backlog : backlog[i] # new_fd /\ client[backlog[i]] # "away"
  /\ new_fd \in Clients \cup {Nobody}
  /\ socketPc \in SocketStates
  /\ new_fd # Nobody <=> socketPc \in {"stop", "connect", "recv"}
  /\ new_fd # Nobody => client[new_fd] # "away"
  /\ socketPc = "recv" => gActiveSocketId = NewFd

OwnerInv ==
  /\ owner \in Seq(Clients)
  /\ Len(owner) = Len(accepted)
  /\ \A u \in DOMAIN owner : (owner[u] = new_fd /\ socketPc = "recv") \/ Gone(owner[u])

Strays ==
  \A i \in DOMAIN delivered : owner[delivered[i].uid] # delivered[i].to =>
    /\ Gone(owner[delivered[i].uid])
    /\ \A j \in DOMAIN delivered : delivered[j].to = owner[delivered[i].uid] => j < i

\* The client that is there has had the replies to its commands.
GotReplies ==
  new_fd # Nobody /\ client[new_fd] = "connected" =>
    \A u \in Uids(replies) : owner[u] = new_fd =>
      \E i \in DOMAIN delivered : delivered[i] = [uid |-> u, to |-> new_fd]

DeliveryInv ==
  /\ delivered \in Seq([uid : Nat, to : Clients])
  /\ \A i \in DOMAIN delivered : delivered[i].uid \in DOMAIN owner
  /\ Strays
  /\ GotReplies

SessionInv == TypeOK /\ OnePlace /\ ConnectionInv /\ OwnerInv /\ DeliveryInv

connectionVars == <<client, backlog, new_fd, socketPc, gActiveSocketId>>

\* Who has left for good stays so.
GoneStays == \A k \in Clients : Gone(k) => Gone(k)'

LEMMA ConnectionUnchanged ==
  ASSUME ConnectionInv, UNCHANGED connectionVars
  PROVE  ConnectionInv' /\ GoneStays
BY DEF ConnectionInv, GoneStays, Gone, InBacklog, connectionVars

\* A client connects that never did before.
LEMMA ConnectStep ==
  ASSUME ConnectionInv, NEW k \in Clients, ClientConnect(k)
  PROVE  ConnectionInv' /\ GoneStays
<1> USE DEF ConnectionInv
<1>1. /\ backlog' = Append(backlog, k) /\ client' = [client EXCEPT ![k] = "connected"]
      /\ client[k] = "away" /\ UNCHANGED <<new_fd, socketPc, gActiveSocketId>>
  BY DEF ClientConnect, serverVars
<1>2. /\ backlog' \in Seq(Clients)
      /\ DOMAIN backlog = 1..Len(backlog) /\ Len(backlog) \in Nat
      /\ DOMAIN backlog' = 1..(Len(backlog) + 1)
      /\ backlog'[Len(backlog) + 1] = k
      /\ \A i \in DOMAIN backlog : backlog'[i] = backlog[i] /\ backlog[i] \in Clients
  BY <1>1
<1>3. /\ client' \in [Clients -> ClientStates]
      /\ client'[k] = "connected" /\ \A j \in Clients : j # k => client'[j] = client[j]
  BY <1>1 DEF ClientStates
<1>4. \A i \in DOMAIN backlog : backlog[i] # k
  BY <1>1
<1>5. \A i \in DOMAIN backlog' : \/ i \in DOMAIN backlog /\ backlog'[i] = backlog[i]
                                 \/ i = Len(backlog) + 1 /\ backlog'[i] = k
  BY <1>2
<1>6. new_fd # k
  BY <1>1, ServerAssumption DEF ServerAssumption
<1>7. \A i, j \in DOMAIN backlog' : backlog'[i] = backlog'[j] => i = j
  BY <1>4, <1>5
<1>8. \A i \in DOMAIN backlog' : backlog'[i] # new_fd' /\ client'[backlog'[i]] # "away"
  BY <1>1, <1>2, <1>3, <1>5, <1>6
<1>9. new_fd' # Nobody => client'[new_fd'] # "away"
  BY <1>1, <1>3
<1>10. ConnectionInv'
  BY <1>1, <1>2, <1>3, <1>7, <1>8, <1>9
<1>11. ASSUME NEW j \in Clients, Gone(j) PROVE Gone(j)'
  <2>1. j # k
    BY <1>1, <1>11 DEF Gone
  <2> QED BY <1>1, <1>3, <1>5, <1>11, <2>1 DEF Gone, InBacklog
<1> QED BY <1>10, <1>11 DEF GoneStays

LEMMA LeaveStep ==
  ASSUME ConnectionInv, NEW k \in Clients, ClientLeave(k)
  PROVE  ConnectionInv' /\ GoneStays
<1>1. client' = [client EXCEPT ![k] = "left"] /\ UNCHANGED <<backlog, new_fd, socketPc, gActiveSocketId>>
  BY DEF ClientLeave, serverVars
<1>2. /\ client' \in [Clients -> ClientStates]
      /\ \A j \in Clients : client'[j] = client[j] \/ client'[j] = "left"
  BY <1>1 DEF ConnectionInv, ClientStates
<1>3. \A i \in DOMAIN backlog : backlog[i] \in Clients
  BY DEF ConnectionInv
<1>4. ConnectionInv'
  BY <1>1, <1>2, <1>3 DEF ConnectionInv
<1> QED BY <1>1, <1>2, <1>4 DEF GoneStays, Gone, InBacklog

\* The client accepted is not one that has gone.
LEMMA AcceptStep ==
  ASSUME ConnectionInv, AcceptConnection
  PROVE  ConnectionInv' /\ GoneStays
<1> USE DEF ConnectionInv
<1>1. /\ socketPc = "accept" /\ backlog # <<>> /\ new_fd' = Head(backlog)
      /\ backlog' = Tail(backlog) /\ socketPc' = "stop" /\ UNCHANGED <<client, gActiveSocketId>>
  BY DEF AcceptConnection, clientVars
<1>2. /\ 1 \in DOMAIN backlog /\ new_fd' = backlog[1]
      /\ \A i \in DOMAIN backlog' : i \in Int /\ i + 1 \in DOMAIN backlog /\ i + 1 > 1
                                    /\ backlog'[i] = backlog[i + 1]
  BY <1>1, TailFacts
<1>3. backlog' \in Seq(Clients) /\ new_fd' \in Clients /\ new_fd' # Nobody
  BY <1>1, <1>2, ServerAssumption DEF ServerAssumption
<1>4. \A i, j \in DOMAIN backlog' : backlog'[i] = backlog'[j] => i = j
  <2>1. SUFFICES ASSUME NEW i \in DOMAIN backlog', NEW j \in DOMAIN backlog',
                        backlog'[i] = backlog'[j]
                 PROVE  i = j
    OBVIOUS
  <2>2. i + 1 = j + 1
    BY <1>2, <2>1
  <2> QED BY <1>2, <2>2
<1>5. \A i \in DOMAIN backlog' : backlog'[i] # new_fd' /\ client'[backlog'[i]] # "away"
  <2>1. SUFFICES ASSUME NEW i \in DOMAIN backlog'
                 PROVE  backlog'[i] # new_fd' /\ client'[backlog'[i]] # "away"
    OBVIOUS
  <2>2. i + 1 \in DOMAIN backlog /\ i + 1 # 1 /\ backlog'[i] = backlog[i + 1]
    BY <1>2
  <2> QED BY <1>1, <1>2, <2>2
<1>6. socketPc' \in SocketStates
  BY <1>1 DEF SocketStates
<1>7. ConnectionInv'
  BY <1>1, <1>2, <1>3, <1>4, <1>5, <1>6
<1> QED BY <1>1, <1>2, <1>7 DEF GoneStays, Gone, InBacklog

\* The clients refused were connecting.
LEMMA StopStep ==
  ASSUME ConnectionInv, SocketServerStop
  PROVE  ConnectionInv' /\ GoneStays
<1> DEFINE refused == {backlog[i] : i \in DOMAIN backlog}
<1>1. /\ socketPc = "stop" /\ backlog' = <<>> /\ socketPc' = "connect"
      /\ client' = [k \in Clients |-> IF k \in refused THEN "refused" ELSE client[k]]
      /\ UNCHANGED <<new_fd, gActiveSocketId>>
  BY DEF SocketServerStop
<1>2. /\ client' \in [Clients -> ClientStates]
      /\ \A k \in Clients : client'[k] = IF k \in refused THEN "refused" ELSE client[k]
  BY <1>1 DEF ConnectionInv, ClientStates
<1>3. new_fd \in Clients /\ client'[new_fd] # "away"
  BY <1>1, <1>2 DEF ConnectionInv
<1>4. DOMAIN backlog' = {} /\ backlog' \in Seq(Clients) /\ socketPc' \in SocketStates
  BY <1>1 DEF SocketStates
<1>5. ConnectionInv'
  BY <1>1, <1>2, <1>3, <1>4 DEF ConnectionInv
<1>6. \A k \in Clients : ~InBacklog(k) => k \notin refused
  BY DEF InBacklog
<1> QED BY <1>1, <1>2, <1>4, <1>5, <1>6 DEF GoneStays, Gone, InBacklog

LEMMA ThreadConnectionStep ==
  ASSUME ConnectionInv, SocketConnected \/ CloseConnection \/ SocketDisconnected \/ SocketServerStart
  PROVE  ConnectionInv' /\ GoneStays
<1>1. /\ UNCHANGED <<client, backlog>>
      /\ new_fd' \in {new_fd, Nobody}
      /\ socketPc' \in SocketStates
      /\ new_fd' # Nobody <=> socketPc' \in {"stop", "connect", "recv"}
      /\ socketPc' = "recv" => gActiveSocketId' = NewFd
  BY DEF ConnectionInv, SocketConnected, CloseConnection, SocketDisconnected,
         SocketServerStart, ReadyToReceive, clientVars, tcpVars, SocketStates
<1>2. \A i \in DOMAIN backlog : backlog[i] # Nobody
  BY ServerAssumption DEF ConnectionInv, ServerAssumption
<1>3. ConnectionInv'
  BY <1>1, <1>2 DEF ConnectionInv
<1> QED BY <1>1, <1>3, ServerAssumption DEF GoneStays, Gone, InBacklog, ServerAssumption

LEMMA ConnectionStep ==
  ASSUME ConnectionInv, [ServerNext]_serverAllVars
  PROVE  ConnectionInv' /\ GoneStays
<1> USE DEF connectionVars, clientVars, tcpVars, serverVars, sessionVars
<1>1. CASE UNCHANGED serverAllVars
  BY <1>1, ConnectionUnchanged DEF serverAllVars
<1>2. CASE ServerThread
  <2>1. ASSUME ReceiveMessage \/ ReceiveFragment \/ AppendFromMessage
        PROVE  UNCHANGED connectionVars
    BY <2>1 DEF ReceiveMessage, ReceiveFragment, AppendFromMessage
  <2> QED
    BY <1>2, <2>1, ConnectionUnchanged, AcceptStep, StopStep, ThreadConnectionStep DEF ServerThread
<1>3. CASE ProcessCommandQueue
  BY <1>3, ConnectionUnchanged DEF ProcessCommandQueue, UpdateReturnData, SendToResetConnection
<1>4. CASE Environment
  <2>1. ASSUME NEW k \in Clients, ClientRead(k) \/ \E m \in Messages : ClientSend(k, m)
        PROVE  UNCHANGED connectionVars
    BY <2>1 DEF ClientRead, ClientSend
  <2>2. ASSUME LingeringEnds PROVE UNCHANGED connectionVars
    BY <2>2 DEF LingeringEnds
  <2> QED
    BY <1>4, <2>1, <2>2, ConnectionUnchanged, ConnectStep, LeaveStep DEF Environment
<1> QED BY <1>1, <1>2, <1>3, <1>4 DEF ServerNext

-----------------------------------------------------------------------------
\* A command is its client's from the moment it is accepted.
LEMMA OwnerAppend ==
  ASSUME TypeOK, ConnectionInv, OwnerInv, AppendFromMessage
  PROVE  OwnerInv' /\ Grows(owner, owner')
<1>1. socketPc = "recv" /\ new_fd \in Clients
  BY DEF AppendFromMessage, ConnectionInv
<1>2. UNCHANGED connectionVars /\ SocketThread
  BY DEF AppendFromMessage, clientVars, tcpVars, connectionVars
<1>3. CASE UNCHANGED accepted
  <2>1. owner' = owner
    BY <1>3 DEF AppendFromMessage
  <2> QED BY <1>2, <1>3, <2>1 DEF OwnerInv, Gone, InBacklog, Grows, connectionVars
<1>4. ASSUME NEW c, NEW a \in Accepted, Adds(c, a)
      PROVE  OwnerInv' /\ Grows(owner, owner')
  <2>1. Len(accepted') = Len(accepted) + 1 /\ Len(accepted) \in Nat
    BY <1>4 DEF Adds, TypeOK
  <2>2. owner' = Append(owner, new_fd)
    BY <2>1 DEF AppendFromMessage
  <2>3. owner' \in Seq(Clients) /\ Len(owner') = Len(accepted')
    BY <1>1, <2>1, <2>2 DEF OwnerInv
  <2>4. \A u \in DOMAIN owner' : (u \in DOMAIN owner /\ owner'[u] = owner[u]) \/ owner'[u] = new_fd
    BY <2>2, LastOrOld DEF OwnerInv
  <2>5. \A u \in DOMAIN owner' : (owner'[u] = new_fd /\ socketPc = "recv") \/ Gone(owner'[u])
    BY <1>1, <2>4 DEF OwnerInv
  <2> QED BY <1>2, <2>2, <2>3, <2>5 DEF OwnerInv, Gone, InBacklog, Grows, connectionVars
<1> QED BY <1>2, <1>3, <1>4, SocketThreadAdds

\* recv has seen the end before new_fd is closed: the client has left, so that
\* its commands' owner is gone.
LEMMA OwnerStep ==
  ASSUME TypeOK, ConnectionInv, OwnerInv, [ServerNext]_serverAllVars
  PROVE  OwnerInv' /\ Grows(owner, owner')
<1> USE DEF clientVars, tcpVars, serverVars, sessionVars
<1>1. GoneStays
  BY ConnectionStep
<1>2. \A u \in DOMAIN owner : owner[u] \in Clients
  BY DEF OwnerInv
<1>3. ASSUME UNCHANGED <<owner, accepted, new_fd, socketPc>>
      PROVE  OwnerInv'
  BY <1>1, <1>2, <1>3 DEF OwnerInv, GoneStays
<1>4. ASSUME UNCHANGED <<owner, accepted>>, socketPc # "recv"
      PROVE  OwnerInv'
  BY <1>1, <1>2, <1>4 DEF OwnerInv, GoneStays
<1>5. CASE CloseConnection
  <2>1. /\ socketPc = "recv" /\ client[new_fd] = "left" /\ new_fd' = Nobody
        /\ UNCHANGED <<owner, accepted, client, backlog>>
    BY <1>5 DEF CloseConnection, ReadyToReceive, AtEnd, vars, historyVars
  <2>2. new_fd \in Clients /\ new_fd # Nobody /\ ~InBacklog(new_fd)
    BY <2>1, ServerAssumption DEF ConnectionInv, ServerAssumption, InBacklog
  <2> PICK k : k = new_fd
    OBVIOUS
  <2>3. Gone(k)'
    BY <2>1, <2>2 DEF Gone, InBacklog
  <2>4. \A u \in DOMAIN owner : owner[u] = k \/ Gone(owner[u])
    BY DEF OwnerInv
  <2>5. \A u \in DOMAIN owner : Gone(owner[u])'
    <3>1. SUFFICES ASSUME NEW u \in DOMAIN owner, NEW j, j = owner[u] PROVE Gone(j)'
      BY <2>1
    <3> QED BY <1>1, <1>2, <2>3, <2>4, <3>1 DEF GoneStays
  <2> QED BY <2>1, <2>5 DEF OwnerInv, Grows
<1>6. CASE UNCHANGED serverAllVars
  BY <1>3, <1>6 DEF serverAllVars, vars, historyVars, Grows
<1>7. CASE ServerThread
  <2>1. ASSUME AcceptConnection \/ SocketServerStop \/ SocketConnected \/ SocketDisconnected
               \/ SocketServerStart
        PROVE  UNCHANGED <<owner, accepted>> /\ socketPc # "recv"
    BY <2>1 DEF AcceptConnection, SocketServerStop, SocketConnected, SocketDisconnected,
                SocketServerStart, vars, historyVars
  <2>2. ASSUME ReceiveMessage \/ ReceiveFragment
        PROVE  UNCHANGED <<owner, accepted, new_fd, socketPc>>
    BY <2>2 DEF ReceiveMessage, ReceiveFragment, vars, historyVars
  <2> QED BY <1>3, <1>4, <1>5, <1>7, <2>1, <2>2, OwnerAppend DEF ServerThread, Grows
<1>8. CASE ProcessCommandQueue
  <2>1. UNCHANGED <<owner, accepted, new_fd, socketPc>>
    BY <1>8 DEF ProcessCommandQueue, UpdateReturnData, SendToResetConnection,
                ProcessingThread, vars, historyVars
  <2> QED BY <1>3, <2>1 DEF Grows
<1>9. CASE Environment
  <2>1. UNCHANGED <<owner, accepted, new_fd, socketPc>>
    BY <1>9 DEF Environment, ClientConnect, ClientRead, ClientLeave, ClientSend,
                LingeringEnds, Tick, LoseAnswer, vars, historyVars
  <2> QED BY <1>3, <2>1 DEF Grows
<1> QED BY <1>6, <1>7, <1>8, <1>9 DEF ServerNext

\* Where no reply is delivered: who is there now was there before, or has sent
\* nothing yet.
PeerIsOldOrNew ==
  new_fd' # Nobody /\ client'[new_fd'] = "connected" =>
    \/ new_fd' = new_fd /\ client[new_fd] = "connected"
    \/ \A u \in DOMAIN owner : owner[u] # new_fd'

LEMMA AnsweredHasOwner ==
  ASSUME TypeOK, OnePlace, OwnerInv
  PROVE  /\ \A u \in Uids(replies) \cup UidOf(reply) : u \in DOMAIN owner
         /\ pc = "reply" => reply.uid \in DOMAIN owner
<1>1. Issued = DOMAIN owner
  BY DEF OwnerInv, Issued
<1> QED BY <1>1 DEF OnePlace, Cover5, TypeOK, UidOf

LEMMA DeliveryStays ==
  ASSUME TypeOK, OnePlace, OwnerInv, DeliveryInv, GoneStays, PeerIsOldOrNew,
         UNCHANGED <<delivered, replies>>, Grows(owner, owner')
  PROVE  DeliveryInv'
<1>1. \A u \in DOMAIN owner : u \in DOMAIN owner' /\ owner'[u] = owner[u] /\ owner[u] \in Clients
  BY GrowthFacts DEF OwnerInv
<1>2. Strays'
  BY <1>1 DEF DeliveryInv, Strays, GoneStays
<1>3. \A u \in Uids(replies) : u \in DOMAIN owner
  BY AnsweredHasOwner
<1>4. GotReplies'
  BY <1>1, <1>3 DEF DeliveryInv, GotReplies, PeerIsOldOrNew, Uids
<1> QED BY <1>1, <1>2, <1>4 DEF DeliveryInv

\* The callback's reply reaches who is there now: its sender, or somebody after it.
LEMMA DeliveryUpdate ==
  ASSUME TypeOK, OnePlace, ConnectionInv, OwnerInv, DeliveryInv, UpdateReturnData
  PROVE  DeliveryInv'
<1> DEFINE d == [uid |-> reply.uid, to |-> new_fd]
<1>1. /\ pc = "reply" /\ replies' = Append(replies, reply)
      /\ UNCHANGED <<client, backlog, new_fd, socketPc, owner>>
  BY DEF UpdateReturnData, HandOver, serverVars
<1>2. reply.uid \in DOMAIN owner /\ reply.uid \in Nat /\ owner[reply.uid] \in Clients
  BY <1>1, AnsweredHasOwner DEF TypeOK, Reply, OwnerInv
<1>3. Uids(replies') = Uids(replies) \cup {reply.uid}
  BY <1>1, UidsOfAppend DEF TypeOK
<1>4. \A k : Gone(k)' <=> Gone(k)
  BY <1>1 DEF Gone, InBacklog
<1>5. CASE PeerThere /\ delivered' = Append(delivered, d)
  <2>1. new_fd \in Clients /\ d \in [uid : Nat, to : Clients]
    BY <1>2, <1>5 DEF PeerThere, ConnectionInv
  <2>2. /\ DOMAIN delivered = 1..Len(delivered) /\ Len(delivered) \in Nat
        /\ DOMAIN delivered' = 1..(Len(delivered) + 1)
        /\ \A i \in DOMAIN delivered : delivered'[i] = delivered[i]
        /\ delivered'[Len(delivered) + 1] = d
        /\ delivered' \in Seq([uid : Nat, to : Clients])
    BY <1>5, <2>1 DEF DeliveryInv
  <2> DEFINE n == Len(delivered) + 1
  <2> HIDE DEF d
  <2>3. d.uid = reply.uid /\ d.to = new_fd /\ d = [uid |-> reply.uid, to |-> new_fd]
    BY DEF d
  <2>4. n \in DOMAIN delivered' /\ \A i \in DOMAIN delivered' :
          (i \in DOMAIN delivered /\ i < n) \/ i = n
    BY <2>2
  <2>5. owner[reply.uid] # new_fd => Gone(owner[reply.uid])
    BY <1>2 DEF OwnerInv
  <2>6. ASSUME NEW i \in DOMAIN delivered', owner[delivered'[i].uid] # delivered'[i].to
        PROVE  /\ Gone(owner[delivered'[i].uid])
               /\ \A j \in DOMAIN delivered' : delivered'[j].to = owner[delivered'[i].uid] => j < i
    <3>1. CASE i = n
      BY <2>2, <2>3, <2>4, <2>5, <2>6, <3>1
    <3>2. CASE i \in DOMAIN delivered
      <4>1. /\ Gone(owner[delivered[i].uid])
            /\ \A j \in DOMAIN delivered : delivered[j].to = owner[delivered[i].uid] => j < i
        BY <2>2, <2>6, <3>2 DEF DeliveryInv, Strays
      <4>2. owner[delivered[i].uid] # new_fd
        BY <4>1 DEF Gone
      <4> QED BY <2>2, <2>3, <2>4, <3>2, <4>1, <4>2
    <3> QED BY <2>4, <3>1, <3>2
  <2>7. Strays'
    BY <1>1, <2>6 DEF Strays, Gone, InBacklog
  <2>8. GotReplies'
    <3>1. SUFFICES ASSUME new_fd # Nobody, client[new_fd] = "connected",
                          NEW u \in Uids(replies'), owner[u] = new_fd
                   PROVE  \E i \in DOMAIN delivered' : delivered'[i] = [uid |-> u, to |-> new_fd]
      BY <1>1 DEF GotReplies, Uids
    <3>2. CASE u \in Uids(replies)
      <4>1. PICK i \in DOMAIN delivered : delivered[i] = [uid |-> u, to |-> new_fd]
        BY <3>1, <3>2 DEF GotReplies, DeliveryInv
      <4> QED BY <2>2, <4>1
    <3>3. CASE u = reply.uid
      BY <2>2, <2>3, <2>4, <3>3
    <3> QED BY <1>3, <3>1, <3>2, <3>3
  <2>9. \A i \in DOMAIN delivered' : delivered'[i].uid \in DOMAIN owner
    BY <1>2, <2>2, <2>3, <2>4 DEF DeliveryInv
  <2> QED BY <1>1, <2>2, <2>7, <2>8, <2>9 DEF DeliveryInv
<1>6. CASE delivered' = delivered /\ ~(gActiveSocketId # 0 /\ PeerThere)
  <2>1. Strays' /\ \A i \in DOMAIN delivered' : delivered'[i].uid \in DOMAIN owner
    BY <1>1, <1>4, <1>6 DEF Strays, DeliveryInv
  <2>2. new_fd # Nobody /\ client[new_fd] = "connected" => owner[reply.uid] # new_fd
    BY <1>2, <1>6 DEF OwnerInv, ConnectionInv, Gone, PeerThere, NewFd
  <2>3. GotReplies'
    BY <1>1, <1>3, <1>6, <2>2 DEF GotReplies, DeliveryInv
  <2> QED BY <1>1, <1>6, <2>1, <2>3 DEF DeliveryInv
<1>7. SocketServerSend
  BY DEF UpdateReturnData
<1> QED BY <1>5, <1>6, <1>7 DEF SocketServerSend, PeerThere, PeerLeft

LEMMA DeliveryStep ==
  ASSUME TypeOK, OnePlace, ConnectionInv, OwnerInv, DeliveryInv, [ServerNext]_serverAllVars
  PROVE  DeliveryInv'
<1> USE DEF clientVars, tcpVars, serverVars, sessionVars
<1>1. GoneStays /\ Grows(owner, owner')
  BY ConnectionStep, OwnerStep
<1>2. ASSUME UNCHANGED <<delivered, replies, client, new_fd>> PROVE DeliveryInv'
  BY <1>1, <1>2, DeliveryStays DEF PeerIsOldOrNew
<1>3. CASE UNCHANGED serverAllVars
  BY <1>2, <1>3 DEF serverAllVars, vars, historyVars
<1>4. CASE AcceptConnection
  <2>1. /\ socketPc = "accept" /\ backlog # <<>> /\ new_fd' = Head(backlog)
        /\ UNCHANGED <<delivered, replies, client>>
    BY <1>4 DEF AcceptConnection, vars, historyVars
  <2>2. InBacklog(new_fd')
    BY <2>1, TailFacts DEF ConnectionInv, InBacklog
  <2>3. \A u \in DOMAIN owner : owner[u] # new_fd'
    BY <2>1, <2>2 DEF OwnerInv, Gone
  <2> QED BY <1>1, <2>1, <2>3, DeliveryStays DEF PeerIsOldOrNew
<1>5. CASE SocketServerStop
  <2>1. /\ socketPc = "stop" /\ UNCHANGED <<delivered, replies, new_fd>>
        /\ client' = [k \in Clients |-> IF k \in {backlog[i] : i \in DOMAIN backlog}
                                        THEN "refused" ELSE client[k]]
    BY <1>5 DEF SocketServerStop, vars, historyVars
  <2>2. new_fd \in Clients
    BY <2>1 DEF ConnectionInv
  <2>3. client'[new_fd] = "connected" => client[new_fd] = "connected"
    BY <2>1, <2>2
  <2> QED BY <1>1, <2>1, <2>3, DeliveryStays DEF PeerIsOldOrNew
<1>6. CASE ServerThread
  <2>1. ASSUME \/ SocketConnected \/ SocketDisconnected \/ SocketServerStart
               \/ ReceiveMessage \/ ReceiveFragment
        PROVE  UNCHANGED <<delivered, replies, client, new_fd>>
    BY <2>1 DEF SocketConnected, SocketDisconnected, SocketServerStart, ReceiveMessage,
                ReceiveFragment, vars, historyVars
  <2>2. ASSUME AppendFromMessage
        PROVE  UNCHANGED <<delivered, replies, client, new_fd>>
    BY <2>2 DEF AppendFromMessage, SocketThread
  <2>3. CASE CloseConnection
    <3>1. new_fd' = Nobody /\ UNCHANGED <<delivered, replies>>
      BY <2>3 DEF CloseConnection, vars, historyVars
    <3> QED BY <1>1, <3>1, DeliveryStays DEF PeerIsOldOrNew
  <2> QED BY <1>2, <1>4, <1>5, <1>6, <2>1, <2>2, <2>3 DEF ServerThread
<1>7. CASE ProcessCommandQueue
  <2>1. ASSUME pc # "reply" /\ ProcessingThread /\ UNCHANGED sessionVars
        PROVE  UNCHANGED <<delivered, replies, client, new_fd>>
    BY <2>1 DEF ProcessingThread, RetrieveCommand, FindQueueEmpty, PutBack, XBeeRadioConnect,
         SendAcknowledged, SendFails, SendBroadcast, ReceiveAnswer, ReceiveNothing, AwaitReturn,
         GetReturnData, NothingToReturn, HandOver, Sleep
  <2>2. ASSUME SendToResetConnection
        PROVE  UNCHANGED <<delivered, replies, client, new_fd>>
    BY <2>2 DEF SendToResetConnection, vars, historyVars
  <2> QED BY <1>2, <1>7, <2>1, <2>2, DeliveryUpdate DEF ProcessCommandQueue
<1>8. CASE Environment
  <2>1. ASSUME NEW k \in Clients, ClientRead(k) \/ \E m \in Messages : ClientSend(k, m)
        PROVE  UNCHANGED <<delivered, replies, client, new_fd>>
    BY <2>1 DEF ClientRead, ClientSend, vars, historyVars
  <2>2. ASSUME NEW k \in Clients, ClientConnect(k) PROVE DeliveryInv'
    <3>1. /\ client[k] = "away" /\ client' = [client EXCEPT ![k] = "connected"]
          /\ UNCHANGED <<delivered, replies, new_fd>>
      BY <2>2 DEF ClientConnect, vars, historyVars
    <3>2. new_fd # Nobody => client'[new_fd] = client[new_fd]
      BY <3>1 DEF ConnectionInv
    <3> QED BY <1>1, <3>1, <3>2, DeliveryStays DEF PeerIsOldOrNew
  <2>3. ASSUME NEW k \in Clients, ClientLeave(k) PROVE DeliveryInv'
    <3>1. /\ client' = [client EXCEPT ![k] = "left"] /\ UNCHANGED <<delivered, replies, new_fd>>
      BY <2>3 DEF ClientLeave, vars, historyVars
    <3>2. new_fd # Nobody /\ client'[new_fd] = "connected" => client[new_fd] = "connected"
      BY <3>1 DEF ConnectionInv
    <3> QED BY <1>1, <3>1, <3>2, DeliveryStays DEF PeerIsOldOrNew
  <2>5. CASE \E k \in Clients : \/ ClientConnect(k) \/ ClientRead(k) \/ ClientLeave(k)
                                \/ \E m \in Messages : ClientSend(k, m)
    BY <1>2, <2>1, <2>2, <2>3, <2>5
  <2>6. CASE LingeringEnds
    <3>1. UNCHANGED <<delivered, replies, client, new_fd>>
      BY <2>6 DEF LingeringEnds, vars, historyVars
    <3> QED BY <1>2, <3>1
  <2>7. CASE (Tick \/ \E e \in Endpoints : LoseAnswer(e)) /\ UNCHANGED sessionVars
    <3>1. UNCHANGED <<delivered, replies, client, new_fd>>
      BY <2>7 DEF Tick, LoseAnswer, historyVars
    <3> QED BY <1>2, <3>1
  <2> QED BY <1>8, <2>5, <2>6, <2>7 DEF Environment
<1> QED BY <1>3, <1>6, <1>7, <1>8 DEF ServerNext

LEMMA SessionInit == ServerInit => ConnectionInv /\ OwnerInv /\ DeliveryInv
BY ServerAssumption
DEF ServerInit, Init, ConnectionInv, OwnerInv, DeliveryInv, Strays, GotReplies,
    ServerAssumption, ClientStates, SocketStates

LEMMA SessionInvariant == ServerSpec => []SessionInv
<1>1. ServerSpec => [](TypeOK /\ OnePlace)
  BY ServerRunsRadioNetwork, BaseInvariant, PTL DEF RunsRadioNetwork
<1>2. TypeOK /\ OnePlace /\ ConnectionInv /\ OwnerInv /\ DeliveryInv /\ [ServerNext]_serverAllVars
      => (ConnectionInv /\ OwnerInv /\ DeliveryInv)'
  BY ConnectionStep, OwnerStep, DeliveryStep
<1> QED BY <1>1, <1>2, SessionInit, PTL DEF ServerSpec, SessionInv

\* Whatever the two threads are at, while a client is connected and served each
\* reply to its commands reaches it, for every number of clients, messages and
\* commands.
THEOREM ClientsGetTheirReplies == ServerSpec => []ConnectedClientGetsItsReplies
<1>1. SessionInv => ConnectedClientGetsItsReplies
  BY ServerAssumption
  DEF SessionInv, ConnectedClientGetsItsReplies, Served, DeliveryInv, GotReplies, ServerAssumption
<1> QED BY <1>1, SessionInvariant, PTL

\* A reply that reaches another client than the sender of its command reaches one
\* served after the sender has left for good.
THEOREM StraysGoForward == ServerSpec => []StrayRepliesGoForward
<1>1. SessionInv => StrayRepliesGoForward
  BY DEF SessionInv, StrayRepliesGoForward, DeliveryInv, Strays, Gone
<1> QED BY <1>1, SessionInvariant, PTL
=============================================================================
