---------------------------- MODULE RadioNetwork ----------------------------
(***************************************************************************)
(* RadioNetwork.c: the command queue, the queue of commands that await      *)
(* their reply, and the two threads that share them.  The socket thread     *)
(* appends commands (RadioNetworkAppendCommand); the processing thread      *)
(* (RadioNetworkProcessCommandQueue) sends the due ones to the relay boards *)
(* through XBeeInterface.c and, when the command queue is empty, calls back *)
(* for one reply.                                                           *)
(*                                                                          *)
(* Both queues are linked lists under a rwlock; every access is one         *)
(* critical section, so a queue is a sequence and an access one step.       *)
(*                                                                          *)
(* The radio boards and the air between them and the coordinator are        *)
(* external: a board obeys the bytes of command_table and answers '[' with  *)
(* its status byte; the answer may be lost or late.                         *)
(***************************************************************************)
EXTENDS Integers, Sequences, FiniteSets

CONSTANTS
  EndpointCount,  \* g_radio_network_spec.endpoint_count
  SwitchCount,    \* g_radio_network_spec.switch_count, per endpoint
  Requests,       \* the calls of RadioNetworkAppendCommand that may come
  MaxCommands,    \* bound: RadioCommands allocated in a behaviour
  MaxTime         \* bound: the clock stops here, no delay reaches beyond

Relays == 0..3                  \* external: the relays of one board
Endpoints == 0..EndpointCount-1
NumSwitches == EndpointCount * SwitchCount

SetSingleTypes == {"SetSingleSwitch", "SetSingleSwitchDelay"}
SetTypes == SetSingleTypes \cup {"SetMultipleSwitches"}
CommandTypes == SetTypes \cup {"GetSingleSwitch", "GetMultipleSwitches",
                               "GetNumSwitches", "PassThrough"}

(***************************************************************************)
(* The byte that switches relay i of a board off, then on, by position.     *)
(***************************************************************************)
command_table == <<"o", "p", "q", "r", "e", "f", "g", "h">>
StatusQuery == "["
OtherByte == "other"            \* a byte the board does not know
Bytes == {command_table[i] : i \in 1..8} \cup {StatusQuery, OtherByte}

(***************************************************************************)
(* The parameters of a call.  A parameter the type does not have is 0, {}   *)
(* or empty.  mask holds the positions of the one bits of the 64-bit mask,  *)
(* position 0 the highest bit.                                              *)
(***************************************************************************)
UInt16 == 0..65535
Masks == SUBSET (0..63)
Parameters == [commandType : CommandTypes, index : UInt16, status : BOOLEAN,
               delay : UInt16, mask : Masks, data : Seq(Bytes)]
Request == {r \in Parameters :
              r.commandType # "SetSingleSwitchDelay" => r.delay = 0}

SpecAssumption == EndpointCount \in Nat \ {0} /\ SwitchCount \in Nat \ {0}
BoundAssumption == MaxCommands \in Nat /\ MaxTime \in Nat
RequestAssumption == Requests \subseteq Request

ASSUME SpecAssumption
ASSUME BoundAssumption
ASSUME RequestAssumption

Never == MaxTime + 1            \* a garbage trigger time that never comes

(***************************************************************************)
(* A RadioCommand.  uid numbers the commands in the order they are          *)
(* allocated (the field exists in the code, which never sets it).  filled   *)
(* is FALSE when _FillCommand or _FillCommandA returned 1 and left the      *)
(* malloc'd fields as they were.  toRet is the first byte of the answer, as *)
(* the set of relays it reports on.                                         *)
(***************************************************************************)
CommandFields ==
  [uid : Nat, commandType : CommandTypes, filled : BOOLEAN, ep : Nat,
   toSend : Bytes, triggerTime : Nat, customData : Nat,
   toRet : SUBSET Relays]
RadioCommand == {c \in CommandFields : c.filled => c.ep \in Endpoints}

NoCommand ==
  [uid |-> 0, commandType |-> "GetNumSwitches", filled |-> FALSE, ep |-> 0,
   toSend |-> OtherByte, triggerTime |-> 0, customData |-> 0, toRet |-> {}]

Reply == [uid : Nat, commandType : CommandTypes, value : Nat, size : 0..2]
NoReply == [uid |-> 0, commandType |-> "GetNumSwitches", value |-> 0, size |-> 0]

VARIABLES
  gCommandQueue,         \* the commands to send
  gAwaitingReturnQueue,  \* the commands whose reply is still to be built
  batch,     \* the rest of the SetMultipleSwitches call in progress
  now,       \* time(NULL), in seconds
  pc,        \* the processing thread's place in its loop
  command,   \* the command the processing thread holds
  reply,     \* the reply in UpdateReturnData's buffer
  relay,     \* external: the relays that are on, at each board
  air,       \* external: each board's answers still in the air
  accepted,  \* history: by uid, what the call asked for
  sent,      \* history: the transmissions, in order
  replies    \* history: the replies handed to the callback, in order

queueVars == <<gCommandQueue, gAwaitingReturnQueue>>
radioVars == <<relay, air>>
historyVars == <<accepted, sent, replies>>
vars == <<queueVars, batch, now, pc, command, reply, radioVars, historyVars>>

-----------------------------------------------------------------------------
(***************************************************************************)
(* Operators of the code.                                                   *)
(***************************************************************************)
\* Mutant: the INSERT_COMMAND variant, at the head.
AddCommand_AtHead(queue, c) == <<c>> \o queue
AddCommand(queue, c) == Append(queue, c)

\* The byte for a switch of an endpoint; an index past the table reads
\* whatever byte follows it.
\*
\* Mutant: the second half of the table taken to start one further on.
CommandByte_OneTooFar(i, status) ==
  LET k == 1 + (IF status THEN SwitchCount + i + 1 ELSE i)
  IN  IF k \in 1..8 THEN command_table[k] ELSE OtherByte
CommandByte(i, status) ==
  LET k == 1 + (IF status THEN SwitchCount + i ELSE i)
  IN  IF k \in 1..8 THEN command_table[k] ELSE OtherByte

EndpointOf(index) == index \div SwitchCount
IndexInEndpoint(index) == index % SwitchCount
OverLimit(index) == EndpointOf(index) >= EndpointCount

\* triggerTime as _FillCommand and _FillCommandA leave it: now, or the
\* uninitialised field when the index is over the limit.
TriggerTimes(index) == IF OverLimit(index) THEN 0..Never ELSE {now}

FillCommand(uid, type, index, status, trigger) ==
  [uid |-> uid, commandType |-> type, filled |-> ~OverLimit(index),
   ep |-> EndpointOf(index),
   toSend |-> CommandByte(IndexInEndpoint(index), status),
   triggerTime |-> trigger, customData |-> 0, toRet |-> {}]

\* GetSingleSwitch asks the board for its status, and keeps in customData the
\* relay to look at in the answer.
FillStatusQuery(uid, index, trigger) ==
  [uid |-> uid, commandType |-> "GetSingleSwitch", filled |-> ~OverLimit(index),
   ep |-> EndpointOf(index), toSend |-> StatusQuery,
   triggerTime |-> trigger, customData |-> IndexInEndpoint(index),
   toRet |-> {}]

\* PassThrough allocates and sends one byte, to every board, whatever the
\* length; of an empty data it sends the uninitialised byte.
FillPassThrough(uid, byte) ==
  [uid |-> uid, commandType |-> "PassThrough", filled |-> TRUE, ep |-> 0,
   toSend |-> byte, triggerTime |-> now, customData |-> 0, toRet |-> {}]

\* The reply that RadioNetworkGetReturnData builds for a command.
\*
\* Mutant: the answer is not masked with the switch's bit.
ReplyValue_Unmasked(c) ==
  CASE c.commandType = "GetSingleSwitch" -> IF c.toRet # {} THEN 1 ELSE 0
    [] c.commandType = "GetNumSwitches" -> NumSwitches % 65536
    [] OTHER -> 0
ReplyValue(c) ==
  CASE c.commandType = "GetSingleSwitch" -> IF c.customData \in c.toRet THEN 1 ELSE 0
    [] c.commandType = "GetNumSwitches" -> NumSwitches % 65536
    [] OTHER -> 0
ReplySize(c) == IF c.commandType = "GetNumSwitches" THEN 2 ELSE 1

ReplyTo(c) == [uid |-> c.uid, commandType |-> c.commandType,
               value |-> ReplyValue(c), size |-> ReplySize(c)]

\* External: what a board does with a byte.
Obey(on, byte) ==
  {r \in Relays : byte = command_table[5 + r]
                  \/ (r \in on /\ byte # command_table[1 + r])}

-----------------------------------------------------------------------------
Init ==
  /\ gCommandQueue = <<>>
  /\ gAwaitingReturnQueue = <<>>
  /\ batch = <<>>
  /\ now = 0
  /\ pc = "retrieve"
  /\ command = NoCommand
  /\ reply = NoReply
  /\ relay = [e \in Endpoints |-> {}]
  /\ air = [e \in Endpoints |-> <<>>]
  /\ accepted = <<>>
  /\ sent = <<>>
  /\ replies = <<>>

-----------------------------------------------------------------------------
(***************************************************************************)
(* The socket thread: RadioNetworkAppendCommand.                            *)
(***************************************************************************)
NextUid == Len(accepted) + 1

CanAppend(r) ==
  /\ pc # "aborted"
  /\ batch = <<>>
  /\ r \in Requests
  /\ NextUid <= MaxCommands
  /\ now + r.delay <= MaxTime

Accept(r, index, status) ==
  accepted' = Append(accepted,
    [commandType |-> r.commandType, index |-> index, status |-> status,
     notBefore |-> now + r.delay])

AppendSetSingle(r) ==
  /\ CanAppend(r)
  /\ r.commandType \in SetSingleTypes
  /\ \E t \in TriggerTimes(r.index) :
       gCommandQueue' = AddCommand(gCommandQueue,
         FillCommand(NextUid, r.commandType, r.index, r.status, t + r.delay))
  /\ Accept(r, r.index, r.status)
  /\ UNCHANGED <<gAwaitingReturnQueue, batch>>

AppendGetSingle(r) ==
  /\ CanAppend(r)
  /\ r.commandType = "GetSingleSwitch"
  /\ \E t \in TriggerTimes(r.index) :
       gCommandQueue' = AddCommand(gCommandQueue,
                                   FillStatusQuery(NextUid, r.index, t))
  /\ Accept(r, r.index, FALSE)
  /\ UNCHANGED <<gAwaitingReturnQueue, batch>>

AppendPassThrough(r) ==
  /\ CanAppend(r)
  /\ r.commandType = "PassThrough"
  /\ \E b \in IF r.data = <<>> THEN Bytes ELSE {Head(r.data)} :
       gCommandQueue' = AddCommand(gCommandQueue, FillPassThrough(NextUid, b))
  /\ Accept(r, 0, FALSE)
  /\ UNCHANGED <<gAwaitingReturnQueue, batch>>

\* GetNumSwitches is answered from the configuration: it goes straight to the
\* commands that await their reply.
AppendGetNum(r) ==
  /\ CanAppend(r)
  /\ r.commandType = "GetNumSwitches"
  /\ gAwaitingReturnQueue' = AddCommand(gAwaitingReturnQueue,
       [NoCommand EXCEPT !.uid = NextUid])
  /\ Accept(r, 0, FALSE)
  /\ UNCHANGED <<gCommandQueue, batch>>

\* GetMultipleSwitches is not supported: no command is made, and no reply follows.
AppendGetMultiple(r) ==
  /\ CanAppend(r)
  /\ r.commandType = "GetMultipleSwitches"
  /\ UNCHANGED <<queueVars, batch, accepted>>

\* SetMultipleSwitches loops over the mask and adds one command per switch,
\* each in a critical section of its own: the call in progress is batch, the
\* request and the bit it has reached.  A mask that begins past the last switch
\* adds none.  (The bound leaves room for the batch.)
BeginSetMultiple(r) ==
  /\ CanAppend(r)
  /\ r.commandType = "SetMultipleSwitches"
  /\ Len(accepted) + NumSwitches - r.index <= MaxCommands
  /\ batch' = <<r, 0>>
  /\ UNCHANGED <<queueVars, accepted>>

AppendNextOfBatch ==
  LET r == batch[1]
      i == batch[2]
      index == r.index + i
  IN  /\ pc # "aborted"
      /\ batch # <<>>
      /\ i < 64 /\ index < NumSwitches
      /\ gCommandQueue' = AddCommand(gCommandQueue,
           FillCommand(NextUid, r.commandType, index, i \in r.mask, now))
      /\ Accept(r, index, i \in r.mask)
      /\ batch' = <<r, i + 1>>
      /\ UNCHANGED gAwaitingReturnQueue

EndBatch ==
  /\ pc # "aborted"
  /\ batch # <<>>
  /\ batch[2] = 64 \/ batch[1].index + batch[2] >= NumSwitches
  /\ batch' = <<>>
  /\ UNCHANGED <<queueVars, accepted>>

\* The call for one request returns at once, or starts its loop.
RadioNetworkAppendCommand(r) ==
  \/ AppendSetSingle(r)
  \/ AppendGetSingle(r)
  \/ AppendPassThrough(r)
  \/ AppendGetNum(r)
  \/ AppendGetMultiple(r)
  \/ BeginSetMultiple(r)

SocketThread ==
  /\ \/ \E r \in Requests : RadioNetworkAppendCommand(r)
     \/ AppendNextOfBatch
     \/ EndBatch
  /\ UNCHANGED <<now, pc, command, reply, radioVars, sent, replies>>

-----------------------------------------------------------------------------
(***************************************************************************)
(* The processing thread: RadioNetworkProcessCommandQueue.                  *)
(***************************************************************************)
RetrieveCommand ==
  /\ pc = "retrieve"
  /\ gCommandQueue # <<>>
  /\ command' = Head(gCommandQueue)
  /\ gCommandQueue' = Tail(gCommandQueue)
  /\ pc' = "check"
  /\ UNCHANGED <<gAwaitingReturnQueue, reply, radioVars, sent, replies>>

FindQueueEmpty ==
  /\ pc = "retrieve"
  /\ gCommandQueue = <<>>
  /\ pc' = "update"
  /\ UNCHANGED <<queueVars, command, reply, radioVars, sent, replies>>

\* Mutant: a second too early.
Due_Early(c, t) == c.triggerTime <= t + 1
Due(c, t) == c.triggerTime <= t

\* A command that is not due goes back, to the tail.
\*
\* Mutant: it is not put back.
PutBack_Dropped ==
  /\ pc = "check"
  /\ ~Due(command, now)
  /\ command' = NoCommand
  /\ pc' = "retrieve"
  /\ UNCHANGED <<queueVars, reply, radioVars, sent, replies>>
PutBack ==
  /\ pc = "check"
  /\ ~Due(command, now)
  /\ gCommandQueue' = AddCommand(gCommandQueue, command)
  /\ command' = NoCommand
  /\ pc' = "retrieve"
  /\ UNCHANGED <<gAwaitingReturnQueue, reply, radioVars, sent, replies>>

\* _ProcessCommand, first part.  XBeeRadioConnect fails for a command that was
\* not filled: _FillCommand's memset cleared addr64_enabled, which a "Data"
\* connection requires.  The assertion ends the program.
XBeeRadioConnect ==
  /\ pc = "check"
  /\ Due(command, now)
  /\ pc' = IF command.filled THEN "send" ELSE "aborted"
  /\ UNCHANGED <<queueVars, command, reply, radioVars, sent, replies>>

\* What the boards in heard do with the byte: they obey it, or answer it.
Transmit(heard) ==
  /\ relay' = [e \in Endpoints |->
       IF e \in heard THEN Obey(relay[e], command.toSend) ELSE relay[e]]
  /\ air' = [e \in Endpoints |->
       IF e \in heard /\ command.toSend = StatusQuery
       THEN Append(air[e], relay[e]) ELSE air[e]]
  /\ sent' = Append(sent, [uid |-> command.uid, byte |-> command.toSend,
                           heard |-> heard, at |-> now])

\* XBeeRadioSend to one board: the acknowledgement says that it heard.
SendAcknowledged ==
  /\ pc = "send"
  /\ command.commandType # "PassThrough"
  /\ Transmit({command.ep})
  /\ pc' = "receive"
  /\ UNCHANGED <<queueVars, command, reply, replies>>

\* No acknowledgement, or a negative one: the board may have heard even so.
\* The assertion on XBeeRadioSend ends the program.
\*
\* Mutant: the return value is ignored.
SendFails_Ignored ==
  /\ pc = "send"
  /\ command.commandType # "PassThrough"
  /\ \E heard \in {{}, {command.ep}} : Transmit(heard)
  /\ pc' = "receive"
  /\ UNCHANGED <<queueVars, command, reply, replies>>
SendFails ==
  /\ pc = "send"
  /\ command.commandType # "PassThrough"
  /\ \E heard \in {{}, {command.ep}} : Transmit(heard)
  /\ pc' = "aborted"
  /\ UNCHANGED <<queueVars, command, reply, replies>>

\* A broadcast disables the acknowledgement: any of the boards hear it.
SendBroadcast ==
  /\ pc = "send"
  /\ command.commandType = "PassThrough"
  /\ \E heard \in SUBSET Endpoints : Transmit(heard)
  /\ pc' = "receive"
  /\ UNCHANGED <<queueVars, command, reply, replies>>

SetReturnData(c, byte) == [c EXCEPT !.toRet = byte]

\* Mutant: the latest command is the first to be answered.
AwaitReturn_AtHead(byte) ==
  /\ gAwaitingReturnQueue' = <<SetReturnData(command, byte)>> \o gAwaitingReturnQueue
  /\ command' = NoCommand
  /\ pc' = "retrieve"
  /\ UNCHANGED <<gCommandQueue, reply, relay, sent, replies>>
AwaitReturn(byte) ==
  /\ gAwaitingReturnQueue' =
       AddCommand(gAwaitingReturnQueue, SetReturnData(command, byte))
  /\ command' = NoCommand
  /\ pc' = "retrieve"
  /\ UNCHANGED <<gCommandQueue, reply, relay, sent, replies>>

\* XBeeRadioReceive finds a packet within its second.  Packets are matched to
\* the connection by address, so it is the oldest answer of that board still
\* in the air, whichever command it answers.
ReceiveAnswer ==
  /\ pc = "receive"
  /\ command.commandType # "PassThrough"
  /\ air[command.ep] # <<>>
  /\ AwaitReturn(Head(air[command.ep]))
  /\ air' = [air EXCEPT ![command.ep] = Tail(@)]

\* No packet: the return data is a zero byte.
ReceiveNothing ==
  /\ pc = "receive"
  /\ AwaitReturn({})
  /\ UNCHANGED air

\* UpdateReturnData, first part: RadioNetworkGetReturnData.
\*
\* Mutant: the command stays in the queue.
GetReturnData_Peek ==
  /\ pc = "update"
  /\ gAwaitingReturnQueue # <<>>
  /\ reply' = ReplyTo(Head(gAwaitingReturnQueue))
  /\ pc' = "reply"
  /\ UNCHANGED <<queueVars, command, radioVars, sent, replies>>
GetReturnData ==
  /\ pc = "update"
  /\ gAwaitingReturnQueue # <<>>
  /\ reply' = ReplyTo(Head(gAwaitingReturnQueue))
  /\ gAwaitingReturnQueue' = Tail(gAwaitingReturnQueue)
  /\ pc' = "reply"
  /\ UNCHANGED <<gCommandQueue, command, radioVars, sent, replies>>

NothingToReturn ==
  /\ pc = "update"
  /\ gAwaitingReturnQueue = <<>>
  /\ pc' = "sleep"
  /\ UNCHANGED <<queueVars, command, reply, radioVars, sent, replies>>

\* UpdateReturnData, second part: the callback has the reply.
HandOver ==
  /\ pc = "reply"
  /\ replies' = Append(replies, reply)
  /\ reply' = NoReply
  /\ pc' = "retrieve"
  /\ UNCHANGED <<queueVars, command, radioVars, sent>>

Sleep ==
  /\ pc = "sleep"
  /\ pc' = "retrieve"
  /\ UNCHANGED <<queueVars, command, reply, radioVars, sent, replies>>

ProcessingThread ==
  /\ \/ RetrieveCommand \/ FindQueueEmpty
     \/ PutBack \/ XBeeRadioConnect
     \/ SendAcknowledged \/ SendFails \/ SendBroadcast
     \/ ReceiveAnswer \/ ReceiveNothing
     \/ GetReturnData \/ NothingToReturn \/ HandOver \/ Sleep
  /\ UNCHANGED <<batch, now, accepted>>

-----------------------------------------------------------------------------
(***************************************************************************)
(* The environment: the clock, and answers that are lost.                   *)
(***************************************************************************)
Tick ==
  /\ now < MaxTime
  /\ now' = now + 1
  /\ UNCHANGED <<queueVars, batch, pc, command, reply, radioVars, historyVars>>

LoseAnswer(e) ==
  /\ air[e] # <<>>
  /\ air' = [air EXCEPT ![e] = Tail(@)]
  /\ UNCHANGED <<queueVars, batch, now, pc, command, reply, relay, historyVars>>

\* After a failed assertion nothing runs.
Ended == pc = "aborted" /\ UNCHANGED vars

Next ==
  \/ SocketThread
  \/ ProcessingThread
  \/ Tick
  \/ \E e \in Endpoints : LoseAnswer(e)
  \/ Ended

Spec == Init /\ [][Next]_vars

(***************************************************************************)
(* The threads are scheduled: the processing thread never blocks for ever   *)
(* (its receive is bounded to a second, its sleep to one), the loop over a  *)
(* mask runs to its end, and the clock advances.                            *)
(***************************************************************************)
Fairness ==
  /\ WF_vars(ProcessingThread)
  /\ WF_vars(SocketThread /\ batch # <<>>)
  /\ WF_vars(Tick)

FairSpec == Spec /\ Fairness

-----------------------------------------------------------------------------
(***************************************************************************)
(* Properties.                                                              *)
(***************************************************************************)
Accepted == [commandType : CommandTypes, index : Nat, status : BOOLEAN,
             notBefore : Nat]
Sent == [uid : Nat, byte : Bytes, heard : SUBSET Endpoints, at : Nat]
ThreadStates == {"retrieve", "check", "send", "receive", "update", "reply",
                 "sleep", "aborted"}

\* Every variable has the type of the code's variable; the processing thread
\* holds a command exactly between taking it and queueing it.
TypeOK ==
  /\ gCommandQueue \in Seq(RadioCommand)
  /\ gAwaitingReturnQueue \in Seq(RadioCommand)
  /\ batch = <<>> \/ batch \in Requests \X (0..64)
  /\ batch # <<>> => batch[1].commandType = "SetMultipleSwitches"
  /\ now \in 0..MaxTime
  /\ pc \in ThreadStates
  /\ command \in RadioCommand
  /\ pc \in {"send", "receive"} => command.filled
  /\ pc # "aborted" => (command.uid # 0 <=> pc \in {"check", "send", "receive"})
  /\ reply \in Reply
  /\ reply.uid # 0 <=> pc = "reply"
  /\ relay \in [Endpoints -> SUBSET Relays]
  /\ air \in [Endpoints -> Seq(SUBSET Relays)]
  /\ accepted \in Seq(Accepted)
  /\ sent \in Seq(Sent)
  /\ replies \in Seq(Reply)

Uids(s) == {s[i].uid : i \in DOMAIN s}
DistinctUids(s) == \A i, j \in DOMAIN s : s[i].uid = s[j].uid => i = j
UidOf(x) == {x.uid} \ {0}
Issued == 1..Len(accepted)

\* Between the two threads and the two queues no command is lost, sent twice or
\* answered twice: every command the calls added is in the command queue, in
\* the processing thread's hands, in the return queue, in the reply buffer or
\* among the replies, in exactly one of them and once
\* (_AddCommand, _RetrieveCommand, _ProcessCommand, RadioNetworkGetReturnData).
EachCommandInOnePlace ==
  LET places == <<Uids(gCommandQueue), UidOf(command),
                  Uids(gAwaitingReturnQueue), UidOf(reply), Uids(replies)>>
  IN  /\ UNION {places[k] : k \in 1..5} = Issued
      /\ \A k, l \in 1..5 : k # l => places[k] \cap places[l] = {}
      /\ DistinctUids(gCommandQueue)
      /\ DistinctUids(gAwaitingReturnQueue)
      /\ DistinctUids(replies)

Instant(u) == accepted[u].commandType # "SetSingleSwitchDelay"

\* Commands without a delay reach the radio in the order they were added,
\* although a delayed command moves to the tail every time the processing
\* thread meets it, and although a SetMultipleSwitches adds its commands while
\* others are being sent (RadioNetworkProcessCommandQueue).
InstantCommandsSentInOrder ==
  \A i, j \in DOMAIN sent :
    i < j /\ Instant(sent[i].uid) /\ Instant(sent[j].uid)
      => sent[i].uid < sent[j].uid

\* A delayed command is not sent before its delay has passed since the call,
\* however often it went round the queue (RadioNetworkAppendCommand's
\* triggerTime, RadioNetworkProcessCommandQueue's comparison).
NeverSentEarly ==
  \A i \in DOMAIN sent : sent[i].at >= accepted[sent[i].uid].notBefore

\* A reply to a command that uses the radio comes when the command has been sent
\* and every command sent before it has had its reply: replies come in the order
\* of the transmissions, with GetNumSwitches replies between them
\* (_ProcessCommand adds, RadioNetworkGetReturnData removes).
RepliesInOrderSent ==
  \A a \in DOMAIN replies : replies[a].commandType # "GetNumSwitches" =>
    \E k \in DOMAIN sent :
      /\ sent[k].uid = replies[a].uid
      /\ \A i \in 1..k-1 : \E b \in 1..a-1 : replies[b].uid = sent[i].uid

EndpointHeard(k) == EndpointOf(accepted[sent[k].uid].index) \in sent[k].heard

\* A reply to a command that sets a switch, which always says success, is only
\* given when the board of that switch heard the command: _ProcessCommand's
\* assertion on XBeeRadioSend stands between the two.
SetReplyMeansHeard ==
  \A i \in DOMAIN replies : replies[i].commandType \in SetTypes =>
    \E k \in DOMAIN sent : sent[k].uid = replies[i].uid /\ EndpointHeard(k)

\* The transmissions that set switch index.
SetsOf(index) ==
  {k \in DOMAIN sent : /\ accepted[sent[k].uid].commandType \in SetTypes
                       /\ accepted[sent[k].uid].index = index
                       /\ EndpointHeard(k)}

Latest(S) == CHOOSE k \in S : \A l \in S : l <= k
IsOn(index) == IndexInEndpoint(index) \in relay[EndpointOf(index)]

\* Each switch is in the state the last command for it asked for: _FillCommand
\* addresses the right board and picks the right byte, and no command for one
\* switch moves another.
SwitchesFollowCommands ==
  \A index \in 0..NumSwitches-1 :
    IF SetsOf(index) = {} THEN ~IsOn(index)
    ELSE IsOn(index) = accepted[sent[Latest(SetsOf(index))].uid].status

\* A GetSingleSwitch is answered "on" only if a command that switches that very
\* switch on was sent before it: no other relay's bit, no other board's byte,
\* whatever answers are late (customData, ReplyValue, the reuse of addresses).
OnIsNeverInvented ==
  \A i \in DOMAIN replies :
    replies[i].commandType = "GetSingleSwitch" /\ replies[i].value = 1 =>
      \E j, k \in DOMAIN sent :
        /\ j < k
        /\ sent[k].uid = replies[i].uid
        /\ j \in SetsOf(accepted[sent[k].uid].index)
        /\ accepted[sent[j].uid].status

\* The commands still to be sent, the one in the processing thread's hands first.
Line == (IF command.uid = 0 THEN <<>> ELSE <<command>>) \o gCommandQueue

\* A command that is due never loses its place: putting back the ones that are
\* not due, while the clock goes on and others are added, no step lets a command
\* pass one that is due already (RadioNetworkProcessCommandQueue).
DueKeepsItsPlace ==
  [][\A i \in DOMAIN Line : Due(Line[i], now) =>
       \/ Line[i].uid \in Uids(gAwaitingReturnQueue')
       \/ \E j \in DOMAIN Line' : j <= i /\ Line'[j] = Line[i]]_vars

\* Every command within the limits is answered, the delayed ones too, although
\* no reply leaves while the command queue is not empty; unless a board does
\* not acknowledge and the program ends.
EveryCommandAnswered ==
  \A u \in 1..MaxCommands :
    (u \in Issued) ~> (u \in Uids(replies) \/ pc = "aborted")

-----------------------------------------------------------------------------
(***************************************************************************)
(* Refinement: the queues and threads implement SwitchService.              *)
(***************************************************************************)
Service == INSTANCE SwitchService WITH
  Switches <- 0..NumSwitches-1,
  Commands <- Accepted,
  performed <- [i \in DOMAIN sent |-> sent[i].uid],
  answered <- [i \in DOMAIN replies |-> replies[i].uid],
  on <- {index \in 0..NumSwitches-1 : IsOn(index)},
  up <- pc # "aborted"

\* Every step of the threads is a step of the service or none: a command is
\* performed once, when due, in order, moves only its own switch, and is
\* answered in order.
ImplementsService == Service!Spec

=============================================================================
