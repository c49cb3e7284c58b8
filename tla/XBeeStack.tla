------------------------------ MODULE XBeeStack -----------------------------
(***************************************************************************)
(* How libxbee sends a message and learns its fate: xbee_connTx (conn.c),   *)
(* the block of frame identifiers (frame.c), the transmit thread and its    *)
(* buffers (tx.c), and the receive handler that posts the statuses of the   *)
(* board to the callers that wait (rx.c).                                   *)
(*                                                                          *)
(* Threads of the program call xbee_connTx on connections they may share.   *)
(* A step of a thread ends where it takes a lock or waits; what it does     *)
(* under one lock is one step.  The board and the serial line are external: *)
(* a status may come late, or never, and messages libxbee does not know may *)
(* come between.  No signal handler runs, so that a wait on a semaphore is  *)
(* not interrupted.                                                         *)
(***************************************************************************)
EXTENDS Integers, Sequences, FiniteSets

CONSTANTS
  Users,      \* the threads that call xbee_connTx
  Cons,       \* the connections
  AtCons,     \* the AT connections: the status also carries a packet
  QuietCons,  \* the connections without acknowledgement (disableAck, broadcast)
  Nobody,     \* no thread, no connection
  NumFrames,  \* frame identifiers beside 0: 255 in the code
  MaxCalls,   \* bound: the calls of xbee_connTx in a behaviour
  MaxUnknown, \* bound: the messages of a type libxbee does not know
  Faults      \* what may go wrong

FaultKinds == {"build", "write", "timeout"}

StackAssumption ==
  /\ AtCons \subseteq Cons
  /\ QuietCons \subseteq Cons
  /\ Nobody \notin Users \cup Cons
  /\ NumFrames \in Nat \ {0}
  /\ MaxCalls \in Nat
  /\ MaxUnknown \in Nat
  /\ Faults \subseteq FaultKinds
ASSUME StackAssumption

Frames == 1..NumFrames

VARIABLES
  frame,      \* fBlock->frame; by: history, the call whose status completed it
  lastFrame,  \* fBlock->lastFrame
  frameId,    \* con->frameId
  txMutex,    \* con->txMutex: the thread that holds it
  pc,         \* a thread's place in xbee_connTx
  current,    \* a thread's call, 0 if it is idle
  calls,      \* the calls so far; by: history, the call whose status ended its wait
  bufList,    \* the transmit thread's list: the calls whose buffers wait
  txBuf,      \* the call whose buffer the transmit thread holds, 0 if none
  needsFree,  \* the buffers the transmit thread is to free
  air,        \* external: the calls the board has still to answer
  unknowns,   \* external: the unknown messages received
  rxList,     \* the messages received and not handled yet
  frameInfo,  \* the receive handler's frameInfo
  handler,    \* the receive handler's place: "wait", "link", "top" of its loop
  linked      \* the calls whose packet is in their connection's pktList

frameVars == <<frame, lastFrame, frameId>>
callVars == <<txMutex, pc, current, calls>>
txVars == <<bufList, txBuf, needsFree>>
rxVars == <<rxList, frameInfo, handler, linked>>
airVars == <<air, unknowns>>
vars == <<frameVars, callVars, txVars, airVars, rxVars>>

FreeFrame == [con |-> Nobody, status |-> {}, retVal |-> 0, sem |-> 0, by |-> 0]
NoInfo == [active |-> FALSE, id |-> 0, retVal |-> 0, by |-> 0]
Unknown == [kind |-> "unknown", id |-> 0, retVal |-> 0, by |-> 0]

Init ==
  /\ frame = [f \in Frames |-> FreeFrame]
  /\ lastFrame = 0
  /\ frameId = [c \in Cons |-> 0]
  /\ txMutex = [c \in Cons |-> Nobody]
  /\ pc = [u \in Users |-> "idle"]
  /\ current = [u \in Users |-> 0]
  /\ calls = <<>>
  /\ bufList = <<>>
  /\ txBuf = 0
  /\ needsFree = {}
  /\ air = {}
  /\ unknowns = 0
  /\ rxList = <<>>
  /\ frameInfo = NoInfo
  /\ handler = "wait"
  /\ linked = {}

Con(u) == calls[current[u]].con

-----------------------------------------------------------------------------
(***************************************************************************)
(* Frame identifiers (frame.c).                                             *)
(***************************************************************************)
Free == {f \in Frames : frame[f].status = {}}

\* The search of xbee_frameGetFreeID goes up from lastFrame + 1, that of
\* xbee_frameWait down from lastFrame; both go round.
StepsUp(f) == (f - lastFrame - 1) % (NumFrames + 1)
StepsDown(f) == (lastFrame - f) % (NumFrames + 1)

FramesOf(c) == {f \in Frames : frame[f].status # {} /\ frame[f].con = c}

NextFree == {f \in Free : \A g \in Free : StepsUp(f) <= StepsUp(g)}

LatestOf(c) ==
  {f \in FramesOf(c) : \A g \in FramesOf(c) : StepsDown(f) <= StepsDown(g)}

\* With no identifier free it reports success and leaves con->frameId alone.
FrameGetFreeID(c) ==
  \/ /\ Free = {}
     /\ UNCHANGED frameVars
  \/ \E f \in NextFree :
       /\ frame' = [frame EXCEPT ![f].con = c, ![f].status = {"scheduled"}]
       /\ lastFrame' = f
       /\ frameId' = [frameId EXCEPT ![c] = f]

\* Mutants: the frame is free as soon as its caller is woken; a status nobody
\* waits for is ignored.
FramePost_Freed(info) ==
  frame' = [frame EXCEPT ![info.id].status = {}, ![info.id].retVal = info.retVal,
                         ![info.id].sem = @ + 1, ![info.id].by = info.by]

FramePost_Ignored(info) ==
  IF "waiting" \notin frame[info.id].status THEN UNCHANGED frame
  ELSE frame' = [frame EXCEPT ![info.id].status = @ \cup {"complete"},
                              ![info.id].sem = @ + 1, ![info.id].by = info.by]

\* A waiting caller is woken; a frame nobody waits for is free again.
FramePost(info) ==
  LET f == info.id IN
  IF f = 0 \/ f \in Free THEN UNCHANGED frame
  ELSE IF frame[f].con # Nobody /\ "waiting" \in frame[f].status
  THEN frame' = [frame EXCEPT ![f].status = @ \cup {"complete"},
                              ![f].retVal = info.retVal,
                              ![f].sem = @ + 1,
                              ![f].by = info.by]
  ELSE frame' = [frame EXCEPT ![f].status = {}]

-----------------------------------------------------------------------------
(***************************************************************************)
(* The callers: xbee_connTx (conn.c), xbee_txHandler (tx.c) and             *)
(* xbee_frameWait (frame.c).                                                *)
(***************************************************************************)
Return(u, result, by) ==
  /\ pc' = [pc EXCEPT ![u] = "idle"]
  /\ txMutex' = [txMutex EXCEPT ![Con(u)] = Nobody]
  /\ calls' = [calls EXCEPT ![current[u]].result = result, ![current[u]].by = by]
  /\ current' = [current EXCEPT ![u] = 0]

\* A caller waits for the connection's mutex, or gives up if noBlock is set.
ConnTx(u, c) ==
  /\ pc[u] = "idle"
  /\ txMutex[c] = Nobody
  /\ Len(calls) < MaxCalls
  /\ txMutex' = [txMutex EXCEPT ![c] = u]
  /\ pc' = [pc EXCEPT ![u] = "begin"]
  /\ current' = [current EXCEPT ![u] = Len(calls) + 1]
  /\ IF c \in QuietCons
     THEN /\ frameId' = [frameId EXCEPT ![c] = 0]
          /\ UNCHANGED <<frame, lastFrame>>
     ELSE FrameGetFreeID(c)
  /\ calls' = Append(calls, [con |-> c, id |-> frameId'[c], buf |-> "none",
                             result |-> "none", by |-> 0])
  /\ UNCHANGED <<txVars, airVars, rxVars>>

\* The type's tx_func refuses the message: its frame stays scheduled.
TxFuncFails(u) ==
  /\ "build" \in Faults
  /\ pc[u] = "begin"
  /\ Return(u, "error", 0)
  /\ UNCHANGED <<frameVars, txVars, airVars, rxVars>>

TxQueueBuffer(u) ==
  /\ pc[u] = "begin"
  /\ bufList' = Append(bufList, current[u])
  /\ calls' = [calls EXCEPT ![current[u]].buf = "queued"]
  /\ pc' = [pc EXCEPT ![u] = IF Con(u) \in QuietCons THEN "queued" ELSE "sending"]
  /\ UNCHANGED <<frameVars, txMutex, current, txBuf, needsFree, airVars, rxVars>>

\* Without acknowledgement the buffer is marked only now: the transmit thread
\* may have finished with it, and then nobody frees it.
MarkForFree(u) ==
  /\ pc[u] = "queued"
  /\ needsFree' = needsFree \cup {current[u]}
  /\ Return(u, "success", 0)
  /\ UNCHANGED <<frameVars, bufList, txBuf, airVars, rxVars>>

TxDone(u) ==
  /\ pc[u] = "sending"
  /\ calls[current[u]].buf = "posted"
  /\ calls' = [calls EXCEPT ![current[u]].buf = "freed"]
  /\ pc' = [pc EXCEPT ![u] = "sent"]
  /\ UNCHANGED <<frameVars, txMutex, current, txVars, airVars, rxVars>>

\* The frame is looked for by its connection, and may be gone: the status came
\* first, or no identifier was free.
FrameWait(u) ==
  LET c == Con(u) IN
  /\ pc[u] = "sent"
  /\ IF frameId[c] \in LatestOf(c)
     THEN /\ frame' = [frame EXCEPT ![frameId[c]].status = @ \cup {"waiting"}]
          /\ pc' = [pc EXCEPT ![u] = "waiting"]
          /\ UNCHANGED <<txMutex, current, calls>>
     ELSE /\ Return(u, "error", 0)
          /\ UNCHANGED frame
  /\ UNCHANGED <<lastFrame, frameId, txVars, airVars, rxVars>>

FrameWake(u) ==
  LET f == frameId[Con(u)] IN
  /\ pc[u] = "waiting"
  /\ frame[f].sem > 0
  /\ frame' = [frame EXCEPT ![f].sem = @ - 1]
  /\ pc' = [pc EXCEPT ![u] = "woken"]
  /\ UNCHANGED <<lastFrame, frameId, txMutex, current, calls, txVars, airVars, rxVars>>

FrameTimeout(u) ==
  /\ "timeout" \in Faults
  /\ pc[u] = "waiting"
  /\ frame[frameId[Con(u)]].sem = 0
  /\ pc' = [pc EXCEPT ![u] = "timedout"]
  /\ UNCHANGED <<frameVars, txMutex, current, calls, txVars, airVars, rxVars>>

\* Mutant: sem_timedwait's return value is not looked at.
Outcome_Untimed(u, f, complete) ==
  IF complete /\ frame[f].retVal # 0 THEN "refused" ELSE "success"

Outcome(u, f, complete) ==
  CASE pc[u] = "timedout" -> "timeout"
    [] complete /\ frame[f].retVal # 0 -> "refused"
    [] OTHER -> "success"

\* What xbee_frameWait does after its wait.  Woken without "complete", the
\* caller takes the value it set before: 0.
FrameLeave(u) ==
  LET c == Con(u)
      f == frameId[c]
      complete == pc[u] = "woken" /\ "complete" \in frame[f].status
  IN
  /\ pc[u] \in {"woken", "timedout"}
  /\ frame' = [frame EXCEPT
                 ![f].con = Nobody,
                 ![f].status = IF complete THEN {} ELSE @ \ {"waiting"},
                 ![f].by = IF complete THEN 0 ELSE @]
  /\ frameId' = [frameId EXCEPT ![c] = 0]
  /\ Return(u, Outcome(u, f, complete), IF complete THEN frame[f].by ELSE 0)
  /\ UNCHANGED <<lastFrame, txVars, airVars, rxVars>>

Caller(u) ==
  \/ TxFuncFails(u) \/ TxQueueBuffer(u) \/ MarkForFree(u) \/ TxDone(u)
  \/ FrameWait(u) \/ FrameWake(u) \/ FrameTimeout(u) \/ FrameLeave(u)

-----------------------------------------------------------------------------
(***************************************************************************)
(* The transmit thread: xbee_tx.                                            *)
(***************************************************************************)
TxWrite ==
  LET k == Head(bufList) IN
  /\ txBuf = 0
  /\ bufList # <<>>
  /\ bufList' = Tail(bufList)
  /\ txBuf' = k
  /\ air' = IF calls[k].id = 0 THEN air ELSE air \cup {k}
  /\ UNCHANGED <<frameVars, callVars, needsFree, unknowns, rxVars>>

\* The buffer is forgotten, and its caller's semaphore never posted.
TxWriteFails ==
  LET k == Head(bufList) IN
  /\ "write" \in Faults
  /\ txBuf = 0
  /\ bufList # <<>>
  /\ bufList' = Tail(bufList)
  /\ calls' = [calls EXCEPT ![k].buf = "lost"]
  /\ UNCHANGED <<frameVars, txMutex, pc, current, txBuf, needsFree, airVars,
                 rxVars>>

\* Mutant: the caller is not posted.
TxRelease_Unposted ==
  /\ txBuf # 0
  /\ txBuf' = 0
  /\ UNCHANGED <<frameVars, callVars, bufList, needsFree, airVars, rxVars>>

TxRelease ==
  /\ txBuf # 0
  /\ calls' = [calls EXCEPT ![txBuf].buf =
                 IF txBuf \in needsFree THEN "freed" ELSE "posted"]
  /\ needsFree' = needsFree \ {txBuf}
  /\ txBuf' = 0
  /\ UNCHANGED <<frameVars, txMutex, pc, current, bufList, airVars, rxVars>>

TxThread == TxWrite \/ TxWriteFails \/ TxRelease

-----------------------------------------------------------------------------
(***************************************************************************)
(* The board and the receive thread xbee_rx: one message at a time reaches  *)
(* the handler's list.                                                      *)
(***************************************************************************)
\* The answer to a message may never come: nothing makes the board give it.
Answer(k, retVal) ==
  /\ k \in air
  /\ air' = air \ {k}
  /\ rxList' = Append(rxList, [kind |-> "status", id |-> calls[k].id,
                               retVal |-> retVal, by |-> k])
  /\ UNCHANGED <<frameVars, callVars, txVars, unknowns, frameInfo, handler,
                 linked>>

\* A message of a type no connection type handles.
UnknownMessage ==
  /\ unknowns < MaxUnknown
  /\ unknowns' = unknowns + 1
  /\ rxList' = Append(rxList, Unknown)
  /\ UNCHANGED <<frameVars, callVars, txVars, air, frameInfo, handler, linked>>

Board ==
  \/ \E k \in air, retVal \in {0, 1} : Answer(k, retVal)
  \/ UnknownMessage

-----------------------------------------------------------------------------
(***************************************************************************)
(* The receive handler: xbee_rxHandler.                                     *)
(***************************************************************************)
\* Mutant: the status is posted before the packet is queued.
PostFrameInfo_Early ==
  /\ handler \in {"link", "top"}
  /\ handler' = "wait"
  /\ IF frameInfo.active THEN FramePost(frameInfo) ELSE UNCHANGED frame
  /\ UNCHANGED <<lastFrame, frameId, callVars, txVars, airVars, rxList, frameInfo,
                 linked>>

\* At the top of the loop the last frame information is posted.
PostFrameInfo ==
  /\ handler = "top"
  /\ handler' = "wait"
  /\ IF frameInfo.active THEN FramePost(frameInfo) ELSE UNCHANGED frame
  /\ UNCHANGED <<lastFrame, frameId, callVars, txVars, airVars, rxList, frameInfo,
                 linked>>

\* An unknown message leaves the frame information of the message before it.
HandleMessage ==
  LET m == Head(rxList) IN
  /\ handler = "wait"
  /\ rxList # <<>>
  /\ rxList' = Tail(rxList)
  /\ IF m.kind = "unknown" THEN handler' = "top" /\ UNCHANGED frameInfo
     ELSE /\ frameInfo' = [active |-> TRUE, id |-> m.id, retVal |-> m.retVal,
                           by |-> m.by]
          /\ handler' = IF calls[m.by].con \in AtCons THEN "link" ELSE "top"
  /\ UNCHANGED <<frameVars, callVars, txVars, airVars, linked>>

LinkPacket ==
  /\ handler = "link"
  /\ handler' = "top"
  /\ linked' = linked \cup {frameInfo.by}
  /\ UNCHANGED <<frameVars, callVars, txVars, airVars, rxList, frameInfo>>

RxHandler == PostFrameInfo \/ HandleMessage \/ LinkPacket

Next ==
  \/ \E u \in Users : Caller(u) \/ \E c \in Cons : ConnTx(u, c)
  \/ TxThread
  \/ Board
  \/ RxHandler

Spec == Init /\ [][Next]_vars

\* The threads run on: a thread of the program in xbee_connTx goes on when it
\* can, and a wait with a timeout ends.  Nothing is assumed of the board.
Fairness ==
  /\ \A u \in Users : WF_vars(Caller(u))
  /\ WF_vars(TxThread)
  /\ WF_vars(RxHandler)

FairSpec == Spec /\ Fairness

-----------------------------------------------------------------------------
(***************************************************************************)
(* Properties.                                                              *)
(***************************************************************************)
FrameRecords ==
  [con : Cons \cup {Nobody}, status : SUBSET {"scheduled", "waiting", "complete"},
   retVal : {0, 1}, sem : Nat, by : 0..MaxCalls]
Places == {"idle", "begin", "queued", "sending", "sent", "waiting", "woken",
           "timedout"}
CallRecords ==
  [con : Cons, id : 0..NumFrames,
   buf : {"none", "queued", "posted", "lost", "freed"},
   result : {"none", "success", "refused", "timeout", "error"}, by : 0..MaxCalls]
Messages ==
  [kind : {"status", "unknown"}, id : 0..NumFrames, retVal : {0, 1},
   by : 0..MaxCalls]
FrameInfos ==
  [active : BOOLEAN, id : 0..NumFrames, retVal : {0, 1}, by : 0..MaxCalls]

TypeOK ==
  /\ frame \in [Frames -> FrameRecords]
  /\ lastFrame \in 0..NumFrames
  /\ frameId \in [Cons -> 0..NumFrames]
  /\ txMutex \in [Cons -> Users \cup {Nobody}]
  /\ pc \in [Users -> Places]
  /\ current \in [Users -> 0..Len(calls)]
  /\ calls \in Seq(CallRecords) /\ Len(calls) <= MaxCalls
  /\ bufList \in Seq(1..Len(calls))
  /\ txBuf \in 0..Len(calls)
  /\ needsFree \subseteq 1..Len(calls)
  /\ air \subseteq 1..Len(calls)
  /\ unknowns \in 0..MaxUnknown
  /\ rxList \in Seq(Messages)
  /\ frameInfo \in FrameInfos
  /\ handler \in {"wait", "link", "top"}
  /\ linked \subseteq 0..MaxCalls

InFrameWait(u) == pc[u] \in {"waiting", "woken", "timedout"}

\* The frame a caller waits on, without a lock, stays its own until it leaves:
\* no other caller waits on it and xbee_frameGetFreeID does not hand it out.
WaitersOwnTheirFrames ==
  \A u \in Users : InFrameWait(u) =>
    /\ frameId[Con(u)] \in Frames
    /\ frame[frameId[Con(u)]].con = Con(u)
    /\ "waiting" \in frame[frameId[Con(u)]].status

\* What makes a success false is left by an earlier use of the identifier: before
\* the identifiers have gone round once, success is an acknowledgement.
FirstUseIsAcknowledged ==
  \A k \in 1..Len(calls) :
    /\ calls[k].result = "success"
    /\ calls[k].con \notin QuietCons
    /\ \A l \in 1..(k - 1) : calls[l].id # calls[k].id
    => calls[k].by = k

\* A caller that its answer woke finds the answer's packet in the connection:
\* xbee_rxHandler posts a status after it has queued the packet.
PacketBeforeStatus ==
  \A k \in 1..Len(calls) :
    calls[k].by # 0 /\ calls[calls[k].by].con \in AtCons => calls[k].by \in linked

\* The status that comes after its caller gave up makes the identifier free
\* (xbee_frameWait, xbee_framePost).
LateStatusFreesTheFrame ==
  [][ /\ PostFrameInfo
      /\ frameInfo.active
      /\ frameInfo.id # 0
      /\ \A u \in Users : InFrameWait(u) => frameId[Con(u)] # frameInfo.id
      => frame'[frameInfo.id].status = {} ]_vars

\* Every call of xbee_connTx returns, unless a write to the serial line failed
\* with a caller waiting for it.
ConnTxReturns ==
  \A u \in Users : pc[u] # "idle" ~>
    (pc[u] = "idle" \/ \E k \in 1..Len(calls) : calls[k].buf = "lost")
=============================================================================
