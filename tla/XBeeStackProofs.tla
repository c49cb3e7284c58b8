--------------------------- MODULE XBeeStackProofs --------------------------
(***************************************************************************)
(* What holds of xbee_connTx and its frames for any number of threads,      *)
(* connections and identifiers, whatever goes wrong.                        *)
(***************************************************************************)
EXTENDS XBeeStack, TLAPS

\* A thread in xbee_connTx holds the mutex of its call's connection (xbee_connTx).
Owning ==
  \A u \in Users : pc[u] # "idle" =>
    current[u] \in 1..Len(calls) /\ txMutex[Con(u)] = u

Heard(k) ==
  k # 0 => k \in 1..Len(calls) /\ (calls[k].con \in AtCons => k \in linked)

MessagesKnown ==
  \A i \in 1..Len(rxList) : rxList[i].kind = "status" => rxList[i].by \in 1..Len(calls)

\* What PacketBeforeStatus says of the callers holds of every place a status
\* passes on its way from the handler to its caller (xbee_rxHandler, xbee_framePost).
StatusesHeard ==
  /\ \A f \in Frames : Heard(frame[f].by)
  /\ handler # "link" => Heard(frameInfo.by)
  /\ frameInfo.by \in 0..Len(calls)
  /\ \A k \in 1..Len(calls) : Heard(calls[k].by)
  /\ MessagesKnown

IInv == TypeOK /\ Owning /\ WaitersOwnTheirFrames

USE StackAssumption DEF StackAssumption

\* A longer range of calls keeps the types of what names them.
LEMMA LongerSeq ==
  ASSUME NEW m \in Nat, NEW n \in Nat, m <= n, NEW s \in Seq(1..m)
  PROVE  s \in Seq(1..n)
OBVIOUS

LEMMA InitIInv == Init => IInv /\ StatusesHeard
BY DEF Init, IInv, TypeOK, Owning, WaitersOwnTheirFrames, InFrameWait, FreeFrame,
       NoInfo, FrameRecords, Places, CallRecords, Messages, FrameInfos,
       StatusesHeard, Heard, MessagesKnown, Frames

\* A frame is handed out under the block's mutex, and only if it was free
\* (xbee_frameGetFreeID).
LEMMA GetFreeIDTypes ==
  ASSUME TypeOK, NEW c \in Cons, FrameGetFreeID(c)
  PROVE  /\ frame' \in [Frames -> FrameRecords]
         /\ lastFrame' \in 0..NumFrames
         /\ frameId' \in [Cons -> 0..NumFrames]
         /\ \A d \in Cons \ {c} : frameId'[d] = frameId[d]
         /\ \A f \in Frames : frame[f].status # {} => frame'[f] = frame[f]
         /\ \A f \in Frames : frame'[f].by = frame[f].by
<1>1. CASE UNCHANGED frameVars
  BY <1>1 DEF frameVars, TypeOK
<1>2. ASSUME NEW f \in NextFree,
             frame' = [frame EXCEPT ![f].con = c, ![f].status = {"scheduled"}],
             lastFrame' = f, frameId' = [frameId EXCEPT ![c] = f]
      PROVE  /\ frame' \in [Frames -> FrameRecords]
             /\ lastFrame' \in 0..NumFrames
             /\ frameId' \in [Cons -> 0..NumFrames]
             /\ \A d \in Cons \ {c} : frameId'[d] = frameId[d]
             /\ \A g \in Frames : frame[g].status # {} => frame'[g] = frame[g]
             /\ \A g \in Frames : frame'[g].by = frame[g].by
  <2>1. f \in Frames /\ frame[f].status = {}
    BY DEF NextFree, Free
  <2>2. frame \in [Frames -> FrameRecords] /\ frameId \in [Cons -> 0..NumFrames]
    BY DEF TypeOK
  <2>3. frame' \in [Frames -> FrameRecords]
    BY <1>2, <2>1, <2>2 DEF FrameRecords
  <2>4. f \in 0..NumFrames
    BY <2>1 DEF Frames
  <2> QED
    BY <1>2, <2>1, <2>2, <2>3, <2>4 DEF FrameRecords
<1> QED
  BY <1>1, <1>2 DEF FrameGetFreeID

\* What a call does as it begins: the frames in use stay as they are.
LEMMA ConnTxSteps ==
  ASSUME TypeOK, NEW u \in Users, NEW c \in Cons, ConnTx(u, c)
  PROVE  /\ TypeOK'
         /\ Len(calls') = Len(calls) + 1
         /\ \A k \in 1..Len(calls) : calls'[k] = calls[k]
         /\ calls'[Len(calls) + 1].con = c
         /\ calls'[Len(calls) + 1].by = 0
         /\ \A d \in Cons \ {c} : frameId'[d] = frameId[d]
         /\ \A f \in Frames : frame[f].status # {} => frame'[f] = frame[f]
         /\ \A f \in Frames : frame'[f].by = frame[f].by
<1> DEFINE r == [con |-> c, id |-> frameId'[c], buf |-> "none",
                 result |-> "none", by |-> 0]
           n == Len(calls)
<1>1. n \in Nat /\ n < MaxCalls
  BY DEF TypeOK, ConnTx
<1>2. /\ frame' \in [Frames -> FrameRecords]
      /\ lastFrame' \in 0..NumFrames
      /\ frameId' \in [Cons -> 0..NumFrames]
      /\ \A d \in Cons \ {c} : frameId'[d] = frameId[d]
      /\ \A f \in Frames : frame[f].status # {} => frame'[f] = frame[f]
      /\ \A f \in Frames : frame'[f].by = frame[f].by
  <2>1. CASE c \in QuietCons
    <3>1. frameId' = [frameId EXCEPT ![c] = 0] /\ UNCHANGED <<frame, lastFrame>>
      BY <2>1 DEF ConnTx
    <3>2. 0 \in 0..NumFrames
      OBVIOUS
    <3> QED
      BY <3>1, <3>2 DEF TypeOK
  <2>2. CASE c \notin QuietCons
    BY <2>2, GetFreeIDTypes DEF ConnTx
  <2> QED
    BY <2>1, <2>2
<1>3. r \in CallRecords
  BY <1>2 DEF CallRecords
<1>4. calls \in Seq(CallRecords) /\ calls' = Append(calls, r)
  BY DEF ConnTx, TypeOK
<1>5. /\ Len(calls') = n + 1
      /\ \A k \in 1..n : calls'[k] = calls[k]
      /\ calls'[n + 1] = r
      /\ calls' \in Seq(CallRecords)
  BY <1>3, <1>4
<1>6. /\ txMutex' \in [Cons -> Users \cup {Nobody}]
      /\ pc' \in [Users -> Places]
      /\ current' \in [Users -> 0..(n + 1)]
  BY <1>1 DEF ConnTx, Places, TypeOK
<1>7. bufList' \in Seq(1..(n + 1))
  BY <1>1, LongerSeq DEF ConnTx, txVars, TypeOK
<1>8. /\ txBuf' \in 0..(n + 1) /\ needsFree' \subseteq 1..(n + 1)
      /\ air' \subseteq 1..(n + 1) /\ unknowns' \in 0..MaxUnknown
      /\ rxList' \in Seq(Messages) /\ frameInfo' \in FrameInfos
      /\ handler' \in {"wait", "link", "top"} /\ linked' \subseteq 0..MaxCalls
  BY <1>1 DEF ConnTx, txVars, airVars, rxVars, TypeOK
<1>9. TypeOK'
  <2>1. Len(calls') <= MaxCalls
    BY <1>1, <1>5
  <2> QED
    BY <1>2, <1>5, <1>6, <1>7, <1>8, <2>1 DEF TypeOK
<1> QED
  BY <1>2, <1>3, <1>5, <1>9

-----------------------------------------------------------------------------
\* The calls keep their connections.
SameCalls ==
  /\ Len(calls') = Len(calls)
  /\ \A k \in 1..Len(calls) : calls'[k].con = calls[k].con

\* The types once more, with the length of the calls as it was.
LEMMA TypesKept ==
  ASSUME TypeOK, SameCalls, calls' \in Seq(CallRecords), UNCHANGED lastFrame,
         frame' \in [Frames -> FrameRecords], frameId' \in [Cons -> 0..NumFrames],
         pc' \in [Users -> Places], txMutex' \in [Cons -> Users \cup {Nobody}],
         current' \in [Users -> 0..Len(calls)],
         bufList' \in Seq(1..Len(calls)), txBuf' \in 0..Len(calls),
         needsFree' \subseteq 1..Len(calls), air' \subseteq 1..Len(calls),
         unknowns' \in 0..MaxUnknown, rxList' \in Seq(Messages),
         frameInfo' \in FrameInfos, handler' \in {"wait", "link", "top"},
         linked' \subseteq 0..MaxCalls
  PROVE  TypeOK'
<1>1. Len(calls') = Len(calls) /\ Len(calls) <= MaxCalls /\ lastFrame \in 0..NumFrames
  BY DEF SameCalls, TypeOK
<1>2. /\ current' \in [Users -> 0..Len(calls')]
      /\ bufList' \in Seq(1..Len(calls')) /\ txBuf' \in 0..Len(calls')
      /\ needsFree' \subseteq 1..Len(calls') /\ air' \subseteq 1..Len(calls')
      /\ Len(calls') <= MaxCalls /\ lastFrame' \in 0..NumFrames
  BY <1>1
<1> HIDE DEF StackAssumption
<1> QED
  BY <1>2 DEF TypeOK

\* How a call ends: the connection's mutex is let go (xbee_connTx).
LEMMA ReturnSteps ==
  ASSUME TypeOK, Owning, NEW u \in Users, pc[u] # "idle",
         NEW result \in {"success", "refused", "timeout", "error"},
         NEW by \in 0..MaxCalls, Return(u, result, by)
  PROVE  /\ SameCalls
         /\ calls' \in Seq(CallRecords)
         /\ \A k \in 1..Len(calls) :
              calls'[k].by = IF k = current[u] THEN by ELSE calls[k].by
         /\ pc' \in [Users -> Places]
         /\ txMutex' \in [Cons -> Users \cup {Nobody}]
         /\ current' \in [Users -> 0..Len(calls)]
         /\ Con(u) \in Cons
         /\ \A v \in Users \ {u} : pc'[v] = pc[v] /\ current'[v] = current[v]
         /\ pc'[u] = "idle"
         /\ \A c \in Cons : c # Con(u) => txMutex'[c] = txMutex[c]
<1> DEFINE k == current[u]
           r == [calls[k] EXCEPT !.result = result, !.by = by]
<1>1. k \in 1..Len(calls) /\ calls[k] \in CallRecords
  BY DEF Owning, TypeOK
<1>2. calls' = [calls EXCEPT ![k] = r]
  BY <1>1 DEF Return, TypeOK
<1>3. r \in CallRecords /\ r.con = calls[k].con /\ r.by = by
  BY <1>1 DEF CallRecords
<1>4. calls' \in Seq(CallRecords) /\ SameCalls
  BY <1>1, <1>2, <1>3 DEF TypeOK, SameCalls
<1>5. \A j \in 1..Len(calls) : calls'[j].by = IF j = k THEN by ELSE calls[j].by
  BY <1>1, <1>2, <1>3 DEF TypeOK
<1>6. Con(u) \in Cons
  BY <1>1 DEF CallRecords, Con
<1>7. /\ pc' \in [Users -> Places]
      /\ txMutex' \in [Cons -> Users \cup {Nobody}]
      /\ \A v \in Users \ {u} : pc'[v] = pc[v] /\ current'[v] = current[v]
      /\ pc'[u] = "idle"
      /\ \A c \in Cons : c # Con(u) => txMutex'[c] = txMutex[c]
  BY <1>6 DEF Return, TypeOK, Places
<1>8. current' \in [Users -> 0..Len(calls)]
  BY DEF Return, TypeOK
<1> QED
  BY <1>4, <1>5, <1>6, <1>7, <1>8

\* Two callers wait on connections of their own, so on frames of their own.
LEMMA OtherFrames ==
  ASSUME IInv, NEW u \in Users, NEW v \in Users \ {u}, pc[u] # "idle", pc[v] # "idle"
  PROVE  Con(u) # Con(v) /\ Con(u) \in Cons /\ Con(v) \in Cons
<1>1. /\ current[u] \in 1..Len(calls) /\ txMutex[Con(u)] = u
      /\ current[v] \in 1..Len(calls) /\ txMutex[Con(v)] = v
  BY DEF IInv, Owning
<1>2. calls[current[u]] \in CallRecords /\ calls[current[v]] \in CallRecords
  BY <1>1 DEF IInv, TypeOK
<1> QED
  BY <1>1, <1>2 DEF CallRecords, Con

\* The steps that touch neither the callers' places nor the frames.
LEMMA QuietSteps ==
  ASSUME IInv, SameCalls, UNCHANGED <<frame, frameId, txMutex, pc, current>>
  PROVE  Owning' /\ WaitersOwnTheirFrames'
<1>1. ASSUME NEW v \in Users, pc[v] # "idle"
      PROVE  current[v] \in 1..Len(calls) /\ Con(v)' = Con(v)
  BY <1>1 DEF IInv, Owning, SameCalls, Con
<1>2. Owning'
  <2> SUFFICES ASSUME NEW v \in Users, pc'[v] # "idle"
               PROVE  current'[v] \in 1..Len(calls') /\ txMutex'[Con(v)'] = v
    BY DEF Owning, Con
  <2> QED
    BY <1>1 DEF IInv, Owning, SameCalls
<1>3. WaitersOwnTheirFrames'
  <2> SUFFICES ASSUME NEW v \in Users, InFrameWait(v)'
               PROVE  /\ frameId'[Con(v)'] \in Frames
                      /\ frame'[frameId'[Con(v)']].con = Con(v)'
                      /\ "waiting" \in frame'[frameId'[Con(v)']].status
    BY DEF WaitersOwnTheirFrames, Con
  <2>1. InFrameWait(v) /\ pc[v] # "idle"
    BY DEF InFrameWait
  <2> QED
    BY <1>1, <2>1 DEF IInv, WaitersOwnTheirFrames
<1> QED
  BY <1>2, <1>3

LEMMA ConnTxKeepsIInv ==
  ASSUME IInv, NEW u \in Users, NEW c \in Cons, ConnTx(u, c)
  PROVE  IInv'
<1>1. TypeOK'
  BY ConnTxSteps DEF IInv
<1>2. /\ pc' = [pc EXCEPT ![u] = "begin"]
      /\ current' = [current EXCEPT ![u] = Len(calls) + 1]
      /\ txMutex' = [txMutex EXCEPT ![c] = u]
      /\ pc[u] = "idle" /\ txMutex[c] = Nobody
  BY DEF ConnTx
<1>3. /\ pc \in [Users -> Places] /\ current \in [Users -> 0..Len(calls)]
      /\ txMutex \in [Cons -> Users \cup {Nobody}] /\ Len(calls) \in Nat
  BY DEF IInv, TypeOK
<1>4. ASSUME NEW v \in Users, v # u, pc[v] # "idle"
      PROVE  /\ current'[v] = current[v] /\ current[v] \in 1..Len(calls)
             /\ Con(v)' = Con(v) /\ Con(v) # c /\ txMutex[Con(v)] = v
  BY <1>2, <1>3, <1>4, ConnTxSteps DEF IInv, Owning, Con
<1>5. Owning'
  <2>1. current'[u] \in 1..Len(calls') /\ txMutex'[Con(u)'] = u
    <3>1. current'[u] = Len(calls) + 1 /\ txMutex'[c] = u
      BY <1>2, <1>3
    <3>2. Len(calls') = Len(calls) + 1 /\ calls'[Len(calls) + 1].con = c
      BY ConnTxSteps DEF IInv
    <3> QED
      BY <1>3, <3>1, <3>2 DEF Con
  <2>2. ASSUME NEW v \in Users, v # u, pc'[v] # "idle"
        PROVE  current'[v] \in 1..Len(calls') /\ txMutex'[Con(v)'] = v
    BY <1>2, <1>3, <1>4, <2>2, ConnTxSteps DEF IInv
  <2> QED
    BY <2>1, <2>2 DEF Owning, Con
<1>6. WaitersOwnTheirFrames'
  <2> SUFFICES ASSUME NEW v \in Users, InFrameWait(v)'
               PROVE  /\ frameId'[Con(v)'] \in Frames
                      /\ frame'[frameId'[Con(v)']].con = Con(v)'
                      /\ "waiting" \in frame'[frameId'[Con(v)']].status
    BY DEF WaitersOwnTheirFrames, Con
  <2>1. v # u /\ InFrameWait(v) /\ pc[v] # "idle"
    BY <1>2, <1>3 DEF InFrameWait
  <2>2. Con(v) \in Cons
    <3>1. calls[current[v]] \in CallRecords
      BY <1>4, <2>1 DEF IInv, TypeOK
    <3> QED
      BY <3>1 DEF CallRecords, Con
  <2>3. /\ frameId[Con(v)] \in Frames
        /\ frame[frameId[Con(v)]].con = Con(v)
        /\ "waiting" \in frame[frameId[Con(v)]].status
    BY <2>1 DEF IInv, WaitersOwnTheirFrames
  <2>4. frameId'[Con(v)] = frameId[Con(v)]
    BY <1>4, <2>1, <2>2, ConnTxSteps DEF IInv
  <2>5. frame'[frameId[Con(v)]] = frame[frameId[Con(v)]]
    BY <2>3, ConnTxSteps DEF IInv
  <2> QED
    BY <1>4, <2>1, <2>3, <2>4, <2>5
<1> QED
  BY <1>1, <1>5, <1>6 DEF IInv

\* The steps of one caller: what another caller holds stays as it is.
LEMMA CallerSteps ==
  ASSUME IInv, NEW u \in Users, pc[u] # "idle", SameCalls,
         \A v \in Users \ {u} : pc'[v] = pc[v] /\ current'[v] = current[v],
         \/ pc'[u] = "idle"
         \/ current'[u] = current[u] /\ txMutex'[Con(u)] = u,
         \A c \in Cons \ {Con(u)} : /\ txMutex'[c] = txMutex[c]
                                    /\ frameId'[c] = frameId[c],
         \A f \in Frames : frame[f].con # Con(u) => frame'[f] = frame[f],
         InFrameWait(u)' => /\ frameId'[Con(u)] \in Frames
                            /\ frame'[frameId'[Con(u)]].con = Con(u)
                            /\ "waiting" \in frame'[frameId'[Con(u)]].status
  PROVE  Owning' /\ WaitersOwnTheirFrames'
<1>1. ASSUME NEW v \in Users, pc[v] # "idle", current'[v] = current[v]
      PROVE  current[v] \in 1..Len(calls) /\ Con(v)' = Con(v)
  BY <1>1 DEF IInv, Owning, SameCalls, Con
<1>2. Owning'
  <2> SUFFICES ASSUME NEW v \in Users, pc'[v] # "idle"
               PROVE  current'[v] \in 1..Len(calls') /\ txMutex'[Con(v)'] = v
    BY DEF Owning, Con
  <2>1. CASE v = u
    BY <1>1, <2>1 DEF SameCalls
  <2>2. CASE v # u
    <3>1. pc[v] # "idle" /\ current'[v] = current[v]
      BY <2>2
    <3>2. Con(v) \in Cons \ {Con(u)} /\ txMutex[Con(v)] = v
      BY <2>2, <3>1, OtherFrames DEF IInv, Owning
    <3> QED
      BY <1>1, <3>1, <3>2 DEF SameCalls
  <2> QED
    BY <2>1, <2>2
<1>3. WaitersOwnTheirFrames'
  <2> SUFFICES ASSUME NEW v \in Users, InFrameWait(v)'
               PROVE  /\ frameId'[Con(v)'] \in Frames
                      /\ frame'[frameId'[Con(v)']].con = Con(v)'
                      /\ "waiting" \in frame'[frameId'[Con(v)']].status
    BY DEF WaitersOwnTheirFrames, Con
  <2>1. CASE v = u
    <3>1. pc'[u] # "idle"
      BY <2>1 DEF InFrameWait
    <3> QED
      BY <1>1, <2>1, <3>1
  <2>2. CASE v # u
    <3>1. pc[v] # "idle" /\ current'[v] = current[v] /\ InFrameWait(v)
      BY <2>2 DEF InFrameWait
    <3>2. Con(v) \in Cons \ {Con(u)} /\ Con(v)' = Con(v)
      BY <1>1, <2>2, <3>1, OtherFrames
    <3>3. /\ frameId[Con(v)] \in Frames
          /\ frame[frameId[Con(v)]].con = Con(v)
          /\ "waiting" \in frame[frameId[Con(v)]].status
      BY <3>1 DEF IInv, WaitersOwnTheirFrames
    <3> QED
      BY <3>2, <3>3
  <2> QED
    BY <2>1, <2>2
<1> QED
  BY <1>2, <1>3

\* A caller that goes on in its call, and moves no frame.
LEMMA CallerGoesOn ==
  ASSUME IInv, NEW u \in Users, pc[u] # "idle", SameCalls, ~InFrameWait(u),
         NEW place \in Places \ {"waiting", "woken", "timedout"},
         pc' = [pc EXCEPT ![u] = place],
         UNCHANGED <<current, txMutex, frame, frameId>>
  PROVE  Owning' /\ WaitersOwnTheirFrames'
<1>1. pc'[u] = place /\ \A v \in Users \ {u} : pc'[v] = pc[v]
  BY DEF IInv, TypeOK
<1>2. txMutex[Con(u)] = u
  BY DEF IInv, Owning
<1>3. ~InFrameWait(u)'
  BY <1>1 DEF InFrameWait
<1> HIDE DEF Places
<1> QED
  BY <1>1, <1>2, <1>3, CallerSteps

\* A caller that returns without a frame of its own.
LEMMA CallerReturns ==
  ASSUME IInv, NEW u \in Users, pc[u] # "idle",
         NEW result \in {"success", "refused", "timeout", "error"},
         NEW by \in 0..MaxCalls, Return(u, result, by),
         UNCHANGED <<frame, frameId>>
  PROVE  Owning' /\ WaitersOwnTheirFrames'
<1>1. /\ SameCalls /\ pc'[u] = "idle"
      /\ \A v \in Users \ {u} : pc'[v] = pc[v] /\ current'[v] = current[v]
      /\ \A c \in Cons : c # Con(u) => txMutex'[c] = txMutex[c]
  BY ReturnSteps DEF IInv
<1>2. ~InFrameWait(u)'
  BY <1>1 DEF InFrameWait
<1> QED
  BY <1>1, <1>2, CallerSteps

LEMMA TxFuncFailsKeepsIInv ==
  ASSUME IInv, NEW u \in Users, TxFuncFails(u)
  PROVE  IInv'
<1>1. Return(u, "error", 0) /\ pc[u] # "idle"
  BY DEF TxFuncFails
<1>2. /\ SameCalls /\ calls' \in Seq(CallRecords) /\ pc' \in [Users -> Places]
      /\ txMutex' \in [Cons -> Users \cup {Nobody}]
      /\ current' \in [Users -> 0..Len(calls)]
  BY <1>1, ReturnSteps DEF IInv
<1>3. /\ frame' \in [Frames -> FrameRecords] /\ frameId' \in [Cons -> 0..NumFrames]
      /\ UNCHANGED <<lastFrame, txVars, airVars, rxVars>>
  BY DEF TxFuncFails, IInv, TypeOK, frameVars
<1>4. TypeOK'
  BY <1>2, <1>3, TypesKept DEF IInv, TypeOK, txVars, airVars, rxVars
<1> QED
  BY <1>1, <1>4, CallerReturns DEF IInv, TxFuncFails, frameVars

LEMMA MarkForFreeKeepsIInv ==
  ASSUME IInv, NEW u \in Users, MarkForFree(u)
  PROVE  IInv'
<1>1. Return(u, "success", 0) /\ pc[u] # "idle"
  BY DEF MarkForFree
<1>2. needsFree' \subseteq 1..Len(calls)
  BY <1>1 DEF MarkForFree, IInv, TypeOK, Owning
<1>3. /\ SameCalls /\ calls' \in Seq(CallRecords) /\ pc' \in [Users -> Places]
      /\ txMutex' \in [Cons -> Users \cup {Nobody}]
      /\ current' \in [Users -> 0..Len(calls)]
  BY <1>1, ReturnSteps DEF IInv
<1>4. /\ frame' \in [Frames -> FrameRecords] /\ frameId' \in [Cons -> 0..NumFrames]
      /\ UNCHANGED <<lastFrame, bufList, txBuf, airVars, rxVars>>
  BY DEF MarkForFree, IInv, TypeOK, frameVars
<1>5. TypeOK'
  BY <1>2, <1>3, <1>4, TypesKept DEF IInv, TypeOK, airVars, rxVars
<1> QED
  BY <1>1, <1>5, CallerReturns DEF IInv, MarkForFree, frameVars

\* The steps that write the state of a call's buffer.
LEMMA BufferSteps ==
  ASSUME TypeOK, NEW k \in 1..Len(calls),
         NEW buf \in {"none", "queued", "posted", "lost", "freed"},
         calls' = [calls EXCEPT ![k].buf = buf]
  PROVE  /\ SameCalls
         /\ calls' \in Seq(CallRecords)
         /\ \A j \in 1..Len(calls) : calls'[j].by = calls[j].by
<1> DEFINE r == [calls[k] EXCEPT !.buf = buf]
<1>1. calls \in Seq(CallRecords) /\ calls[k] \in CallRecords
  BY DEF TypeOK
<1>2. calls' = [calls EXCEPT ![k] = r]
  BY <1>1
<1>3. r \in CallRecords /\ r.con = calls[k].con /\ r.by = calls[k].by
  BY <1>1 DEF CallRecords
<1> QED
  BY <1>1, <1>2, <1>3 DEF SameCalls

LEMMA TxQueueBufferKeepsIInv ==
  ASSUME IInv, NEW u \in Users, TxQueueBuffer(u)
  PROVE  IInv'
<1> DEFINE place == IF Con(u) \in QuietCons THEN "queued" ELSE "sending"
<1>1. /\ pc[u] = "begin"
      /\ bufList' = Append(bufList, current[u])
      /\ calls' = [calls EXCEPT ![current[u]].buf = "queued"]
      /\ pc' = [pc EXCEPT ![u] = place]
      /\ UNCHANGED <<frameVars, txMutex, current, txBuf, needsFree, airVars, rxVars>>
  BY DEF TxQueueBuffer
<1>2. current[u] \in 1..Len(calls)
  BY <1>1 DEF IInv, Owning
<1>3. SameCalls /\ calls' \in Seq(CallRecords)
  BY <1>1, <1>2, BufferSteps DEF IInv
<1>4. place \in Places \ {"waiting", "woken", "timedout"}
  BY DEF Places
<1>5. bufList' \in Seq(1..Len(calls)) /\ pc' \in [Users -> Places]
  BY <1>1, <1>2, <1>4 DEF IInv, TypeOK
<1>6. TypeOK'
  BY <1>1, <1>3, <1>5 DEF IInv, TypeOK, SameCalls, frameVars, airVars, rxVars
<1>7. pc[u] # "idle" /\ ~InFrameWait(u)
  BY <1>1 DEF InFrameWait
<1>8. Owning' /\ WaitersOwnTheirFrames'
  <2> HIDE DEF place
  <2> QED
    BY <1>1, <1>3, <1>4, <1>7, CallerGoesOn DEF frameVars
<1> QED
  BY <1>6, <1>8 DEF IInv

LEMMA TxDoneKeepsIInv ==
  ASSUME IInv, NEW u \in Users, TxDone(u)
  PROVE  IInv'
<1>1. /\ pc[u] = "sending"
      /\ calls' = [calls EXCEPT ![current[u]].buf = "freed"]
      /\ pc' = [pc EXCEPT ![u] = "sent"]
      /\ UNCHANGED <<frameVars, txMutex, current, txVars, airVars, rxVars>>
  BY DEF TxDone
<1>2. current[u] \in 1..Len(calls)
  BY <1>1 DEF IInv, Owning
<1>3. SameCalls /\ calls' \in Seq(CallRecords)
  BY <1>1, <1>2, BufferSteps DEF IInv
<1>4. "sent" \in Places \ {"waiting", "woken", "timedout"}
  BY DEF Places
<1>5. TypeOK'
  BY <1>1, <1>3, <1>4 DEF IInv, TypeOK, SameCalls, frameVars, txVars, airVars, rxVars
<1>6. pc[u] # "idle" /\ ~InFrameWait(u)
  BY <1>1 DEF InFrameWait
<1>7. Owning' /\ WaitersOwnTheirFrames'
  BY <1>1, <1>3, <1>4, <1>6, CallerGoesOn DEF frameVars
<1> QED
  BY <1>5, <1>7 DEF IInv

\* xbee_frameWait marks a frame of the caller's own connection.
LEMMA FrameWaitKeepsIInv ==
  ASSUME IInv, NEW u \in Users, FrameWait(u)
  PROVE  IInv'
<1> DEFINE c == Con(u)
           f == frameId[c]
<1>1. /\ pc[u] = "sent"
      /\ UNCHANGED <<lastFrame, frameId, txVars, airVars, rxVars>>
  BY DEF FrameWait
<1>2. CASE f \notin LatestOf(c)
  <2>1. Return(u, "error", 0) /\ UNCHANGED <<frame, frameId>>
    BY <1>2 DEF FrameWait
  <2>2. /\ SameCalls /\ calls' \in Seq(CallRecords) /\ pc' \in [Users -> Places]
        /\ txMutex' \in [Cons -> Users \cup {Nobody}]
        /\ current' \in [Users -> 0..Len(calls)]
    BY <1>1, <2>1, ReturnSteps DEF IInv
  <2>3. TypeOK'
    BY <1>1, <2>1, <2>2, TypesKept DEF IInv, TypeOK, txVars, airVars, rxVars
  <2> QED
    BY <1>1, <2>1, <2>3, CallerReturns DEF IInv
<1>3. CASE f \in LatestOf(c)
  <2>1. /\ frame' = [frame EXCEPT ![f].status = @ \cup {"waiting"}]
        /\ pc' = [pc EXCEPT ![u] = "waiting"]
        /\ UNCHANGED <<txMutex, current, calls>>
    BY <1>3 DEF FrameWait
  <2>2. f \in Frames /\ frame[f].con = c
    BY <1>3 DEF LatestOf, FramesOf
  <2>3. frame \in [Frames -> FrameRecords]
    BY DEF IInv, TypeOK
  <2>4. /\ frame' \in [Frames -> FrameRecords]
        /\ frame'[f].con = c /\ "waiting" \in frame'[f].status
        /\ \A g \in Frames : g # f => frame'[g] = frame[g]
    BY <2>1, <2>2, <2>3 DEF FrameRecords
  <2>5. pc' \in [Users -> Places] /\ pc'[u] = "waiting"
        /\ \A v \in Users \ {u} : pc'[v] = pc[v]
    BY <2>1 DEF IInv, TypeOK, Places
  <2>6. TypeOK'
    BY <1>1, <2>1, <2>4, <2>5 DEF IInv, TypeOK, txVars, airVars, rxVars
  <2>7. txMutex[Con(u)] = u /\ SameCalls
    BY <1>1, <2>1 DEF IInv, Owning, SameCalls
  <2>8. Owning' /\ WaitersOwnTheirFrames'
    BY <1>1, <2>1, <2>2, <2>4, <2>5, <2>7, CallerSteps
  <2> QED
    BY <2>6, <2>8 DEF IInv
<1> QED
  BY <1>2, <1>3

LEMMA FrameWakeKeepsIInv ==
  ASSUME IInv, NEW u \in Users, FrameWake(u)
  PROVE  IInv'
<1> DEFINE c == Con(u)
           f == frameId[c]
<1>1. /\ pc[u] = "waiting" /\ frame[f].sem > 0
      /\ frame' = [frame EXCEPT ![f].sem = @ - 1]
      /\ pc' = [pc EXCEPT ![u] = "woken"]
      /\ UNCHANGED <<lastFrame, frameId, txMutex, current, calls, txVars, airVars, rxVars>>
  BY DEF FrameWake
<1>2. f \in Frames /\ frame[f].con = c /\ "waiting" \in frame[f].status
  BY <1>1 DEF IInv, WaitersOwnTheirFrames, InFrameWait
<1>3. frame \in [Frames -> FrameRecords]
  BY DEF IInv, TypeOK
<1>4. frame[f].sem - 1 \in Nat
  BY <1>1, <1>2, <1>3 DEF FrameRecords
<1>5. /\ frame' \in [Frames -> FrameRecords]
      /\ frame'[f].con = c /\ "waiting" \in frame'[f].status
      /\ \A g \in Frames : g # f => frame'[g] = frame[g]
  BY <1>1, <1>2, <1>3, <1>4 DEF FrameRecords
<1>6. pc' \in [Users -> Places] /\ \A v \in Users \ {u} : pc'[v] = pc[v]
  BY <1>1 DEF IInv, TypeOK, Places
<1>7. txMutex[Con(u)] = u /\ SameCalls
  BY <1>1 DEF IInv, Owning, SameCalls
<1>8. TypeOK'
  BY <1>1, <1>5, <1>6, <1>7, TypesKept DEF IInv, TypeOK, txVars, airVars, rxVars
<1>9. Owning' /\ WaitersOwnTheirFrames'
  BY <1>1, <1>2, <1>5, <1>6, <1>7, CallerSteps
<1> QED
  BY <1>8, <1>9 DEF IInv

LEMMA FrameTimeoutKeepsIInv ==
  ASSUME IInv, NEW u \in Users, FrameTimeout(u)
  PROVE  IInv'
<1> DEFINE c == Con(u)
           f == frameId[c]
<1>1. /\ pc[u] = "waiting"
      /\ pc' = [pc EXCEPT ![u] = "timedout"]
      /\ UNCHANGED <<frameVars, txMutex, current, calls, txVars, airVars, rxVars>>
  BY DEF FrameTimeout
<1>2. f \in Frames /\ frame[f].con = c /\ "waiting" \in frame[f].status
  BY <1>1 DEF IInv, WaitersOwnTheirFrames, InFrameWait
<1>3. pc' \in [Users -> Places] /\ \A v \in Users \ {u} : pc'[v] = pc[v]
  BY <1>1 DEF IInv, TypeOK, Places
<1>4. txMutex[Con(u)] = u /\ SameCalls
  BY <1>1 DEF IInv, Owning, SameCalls
<1>5. TypeOK'
  BY <1>1, <1>3, <1>4, TypesKept DEF IInv, TypeOK, frameVars, txVars, airVars, rxVars
<1>6. UNCHANGED <<frame, frameId>>
  BY <1>1 DEF frameVars
<1>7. Owning' /\ WaitersOwnTheirFrames'
  BY <1>1, <1>2, <1>3, <1>4, <1>6, CallerSteps
<1> QED
  BY <1>5, <1>7 DEF IInv

\* A caller that leaves xbee_frameWait touches its own frame only.
LEMMA FrameLeaveKeepsIInv ==
  ASSUME IInv, NEW u \in Users, FrameLeave(u)
  PROVE  IInv'
<1> DEFINE c == Con(u)
           f == frameId[c]
           complete == pc[u] = "woken" /\ "complete" \in frame[f].status
           result == Outcome(u, f, complete)
           by == IF complete THEN frame[f].by ELSE 0
           status == IF complete THEN {} ELSE frame[f].status \ {"waiting"}
<1>1. /\ pc[u] \in {"woken", "timedout"}
      /\ frame' = [frame EXCEPT ![f].con = Nobody, ![f].status = status, ![f].by =
                                   IF complete THEN 0 ELSE @]
      /\ frameId' = [frameId EXCEPT ![c] = 0]
      /\ Return(u, result, by)
      /\ UNCHANGED <<lastFrame, txVars, airVars, rxVars>>
  BY DEF FrameLeave
<1>2. f \in Frames /\ frame[f].con = c
  BY <1>1 DEF IInv, WaitersOwnTheirFrames, InFrameWait
<1>3. frame \in [Frames -> FrameRecords] /\ frameId \in [Cons -> 0..NumFrames]
  BY DEF IInv, TypeOK
<1>4. /\ result \in {"success", "refused", "timeout", "error"}
      /\ by \in 0..MaxCalls
      /\ status \in SUBSET {"scheduled", "waiting", "complete"}
  BY <1>2, <1>3 DEF FrameRecords, Outcome
<1>5. /\ SameCalls /\ calls' \in Seq(CallRecords) /\ pc' \in [Users -> Places]
      /\ txMutex' \in [Cons -> Users \cup {Nobody}]
      /\ current' \in [Users -> 0..Len(calls)]
      /\ Con(u) \in Cons /\ pc'[u] = "idle"
      /\ \A v \in Users \ {u} : pc'[v] = pc[v] /\ current'[v] = current[v]
      /\ \A d \in Cons : d # Con(u) => txMutex'[d] = txMutex[d]
  <2> HIDE DEF result, by
  <2> QED
    BY <1>1, <1>4, ReturnSteps DEF IInv
<1>6. /\ frame' \in [Frames -> FrameRecords]
      /\ \A g \in Frames : g # f => frame'[g] = frame[g]
  <2> HIDE DEF status, result, by
  <2>1. 0 \in 0..MaxCalls
    OBVIOUS
  <2> QED
    BY <1>1, <1>2, <1>3, <1>4, <2>1 DEF FrameRecords
<1> HIDE DEF complete, result, by, status, f
<1>7. /\ frameId' \in [Cons -> 0..NumFrames]
      /\ \A d \in Cons : d # c => frameId'[d] = frameId[d]
  <2>1. 0 \in 0..NumFrames
    OBVIOUS
  <2> HIDE DEF c
  <2> QED
    BY <1>1, <1>3, <2>1
<1>8. TypeOK'
  BY <1>1, <1>5, <1>6, <1>7, TypesKept DEF IInv, TypeOK, txVars, airVars, rxVars
<1>9. ~InFrameWait(u)' /\ pc[u] # "idle"
  BY <1>1, <1>5 DEF InFrameWait
<1>10. /\ \A g \in Frames : frame[g].con # Con(u) => frame'[g] = frame[g]
       /\ \A d \in Cons \ {Con(u)} : txMutex'[d] = txMutex[d] /\ frameId'[d] = frameId[d]
  BY <1>2, <1>5, <1>6, <1>7
<1>11. Owning' /\ WaitersOwnTheirFrames'
  BY <1>5, <1>9, <1>10, CallerSteps
<1> QED
  BY <1>8, <1>11 DEF IInv

-----------------------------------------------------------------------------
(***************************************************************************)
(* The threads of the library and the board.                                *)
(***************************************************************************)
LEMMA TxThreadKeepsIInv ==
  ASSUME IInv, TxThread
  PROVE  IInv'
<1>1. CASE TxWrite
  <2>1. /\ bufList # <<>> /\ bufList' = Tail(bufList) /\ txBuf' = Head(bufList)
        /\ air' \subseteq air \cup {Head(bufList)}
        /\ UNCHANGED <<frameVars, callVars, needsFree, unknowns, rxVars>>
    BY <1>1 DEF TxWrite
  <2>2. bufList \in Seq(1..Len(calls))
    BY DEF IInv, TypeOK
  <2>3. /\ Head(bufList) \in 1..Len(calls) /\ bufList' \in Seq(1..Len(calls))
        /\ txBuf' \in 0..Len(calls) /\ air' \subseteq 1..Len(calls)
    BY <2>1, <2>2 DEF IInv, TypeOK
  <2>4. SameCalls
    BY <2>1 DEF SameCalls, callVars
  <2>5. TypeOK'
    BY <2>1, <2>3, <2>4, TypesKept DEF IInv, TypeOK, frameVars, callVars, rxVars
  <2> QED
    BY <2>1, <2>4, <2>5, QuietSteps DEF IInv, frameVars, callVars
<1>2. CASE TxWriteFails
  <2>1. /\ bufList # <<>> /\ bufList' = Tail(bufList)
        /\ calls' = [calls EXCEPT ![Head(bufList)].buf = "lost"]
        /\ UNCHANGED <<frameVars, txMutex, pc, current, txBuf, needsFree, airVars,
                       rxVars>>
    BY <1>2 DEF TxWriteFails
  <2>2. bufList \in Seq(1..Len(calls))
    BY DEF IInv, TypeOK
  <2>3. Head(bufList) \in 1..Len(calls) /\ bufList' \in Seq(1..Len(calls))
    BY <2>1, <2>2
  <2>4. SameCalls /\ calls' \in Seq(CallRecords)
    BY <2>1, <2>3, BufferSteps DEF IInv
  <2>5. TypeOK'
    BY <2>1, <2>3, <2>4, TypesKept DEF IInv, TypeOK, frameVars, airVars, rxVars
  <2> QED
    BY <2>1, <2>4, <2>5, QuietSteps DEF IInv, frameVars
<1>3. CASE TxRelease
  <2> DEFINE buf == IF txBuf \in needsFree THEN "freed" ELSE "posted"
  <2>1. /\ txBuf # 0 /\ calls' = [calls EXCEPT ![txBuf].buf = buf]
        /\ needsFree' \subseteq needsFree /\ txBuf' = 0
        /\ UNCHANGED <<frameVars, txMutex, pc, current, bufList, airVars, rxVars>>
    BY <1>3 DEF TxRelease
  <2>2. txBuf \in 1..Len(calls) /\ buf \in {"none", "queued", "posted", "lost", "freed"}
    BY <2>1 DEF IInv, TypeOK
  <2>3. SameCalls /\ calls' \in Seq(CallRecords)
    <3> HIDE DEF buf
    <3> QED
      BY <2>1, <2>2, BufferSteps DEF IInv
  <2>4. TypeOK'
    <3>1. needsFree' \subseteq 1..Len(calls) /\ txBuf' \in 0..Len(calls)
      BY <2>1, <2>2 DEF IInv, TypeOK
    <3> HIDE DEF buf
    <3> QED
      BY <2>1, <2>3, <3>1, TypesKept DEF IInv, TypeOK, frameVars, airVars, rxVars
  <2> QED
    BY <2>1, <2>3, <2>4, QuietSteps DEF IInv, frameVars
<1> QED
  BY <1>1, <1>2, <1>3 DEF TxThread

LEMMA BoardKeepsIInv ==
  ASSUME IInv, Board
  PROVE  IInv'
<1>1. SameCalls /\ UNCHANGED <<frameVars, callVars, txVars, frameInfo, handler, linked>>
  BY DEF Board, Answer, UnknownMessage, SameCalls, callVars
<1>2. rxList' \in Seq(Messages) /\ air' \subseteq air /\ unknowns' \in 0..MaxUnknown
  <2>1. ASSUME NEW k \in air, NEW retVal \in {0, 1}, Answer(k, retVal)
        PROVE  rxList' \in Seq(Messages) /\ air' \subseteq air /\ unknowns' \in 0..MaxUnknown
    <3>1. k \in 1..Len(calls) /\ Len(calls) <= MaxCalls /\ Len(calls) \in Nat
      BY DEF IInv, TypeOK
    <3>2. calls[k] \in CallRecords /\ k \in 0..MaxCalls
      BY <3>1 DEF IInv, TypeOK
    <3>3. [kind |-> "status", id |-> calls[k].id, retVal |-> retVal, by |-> k] \in Messages
      BY <3>2 DEF Messages, CallRecords
    <3> QED
      BY <2>1, <3>3 DEF Answer, IInv, TypeOK
  <2>2. CASE UnknownMessage
    <3>1. Unknown \in Messages
      BY DEF Unknown, Messages
    <3> QED
      BY <2>2, <3>1 DEF UnknownMessage, IInv, TypeOK
  <2> QED
    BY <2>1, <2>2 DEF Board
<1>3. TypeOK'
  BY <1>1, <1>2, TypesKept DEF IInv, TypeOK, frameVars, callVars, txVars
<1> QED
  BY <1>1, <1>3, QuietSteps DEF IInv, frameVars, callVars

\* What a status changes: nothing of who waits on a frame (xbee_framePost).
LEMMA FramePostSteps ==
  ASSUME TypeOK, NEW info \in FrameInfos, FramePost(info)
  PROVE  /\ frame' \in [Frames -> FrameRecords]
         /\ \A f \in Frames : frame[f].con # Nobody /\ "waiting" \in frame[f].status =>
              frame'[f].con = frame[f].con /\ "waiting" \in frame'[f].status
         /\ \A f \in Frames : frame'[f].by \in {frame[f].by, info.by}
<1> DEFINE f == info.id
           r == [frame[f] EXCEPT !.status = @ \cup {"complete"}, !.retVal = info.retVal,
                                 !.sem = @ + 1, !.by = info.by]
           s == [frame[f] EXCEPT !.status = {}]
<1>1. frame \in [Frames -> FrameRecords]
  BY DEF TypeOK
<1>2. CASE UNCHANGED frame
  BY <1>1, <1>2
<1>3. CASE f # 0 /\ f \notin Free
  <2>1. f \in Frames /\ frame[f] \in FrameRecords
    BY <1>1, <1>3 DEF FrameInfos, Frames
  <2>2. r \in FrameRecords /\ s \in FrameRecords
    <3>1. info.retVal \in {0, 1} /\ info.by \in 0..MaxCalls
      BY DEF FrameInfos
    <3>2. frame[f].sem + 1 \in Nat
      BY <2>1 DEF FrameRecords
    <3>3. s \in FrameRecords
      BY <2>1 DEF FrameRecords
    <3>4. frame[f].status \cup {"complete"} \in SUBSET {"scheduled", "waiting", "complete"}
      BY <2>1 DEF FrameRecords
    <3>5. r \in FrameRecords
      BY <2>1, <3>1, <3>2, <3>4 DEF FrameRecords
    <3> QED
      BY <3>3, <3>5
  <2>3. /\ r.con = frame[f].con /\ r.by = info.by
        /\ "waiting" \in frame[f].status => "waiting" \in r.status
        /\ s.con = frame[f].con /\ s.by = frame[f].by
    BY <2>1 DEF FrameRecords
  <2>4. CASE frame[f].con # Nobody /\ "waiting" \in frame[f].status
    <3>1. frame' = [frame EXCEPT ![f] = r]
      BY <1>1, <1>3, <2>1, <2>4 DEF FramePost
    <3> QED
      BY <1>1, <2>1, <2>2, <2>3, <3>1
  <2>5. CASE ~(frame[f].con # Nobody /\ "waiting" \in frame[f].status)
    <3>1. frame' = [frame EXCEPT ![f] = s]
      BY <1>1, <1>3, <2>1, <2>5 DEF FramePost
    <3> QED
      BY <1>1, <2>1, <2>2, <2>3, <2>5, <3>1
  <2> QED
    BY <2>4, <2>5
<1> QED
  BY <1>2, <1>3 DEF FramePost

LEMMA PostFrameInfoKeepsIInv ==
  ASSUME IInv, PostFrameInfo
  PROVE  IInv'
<1>1. /\ handler' = "wait"
      /\ UNCHANGED <<lastFrame, frameId, callVars, txVars, airVars, rxList, frameInfo,
                     linked>>
  BY DEF PostFrameInfo
<1>2. /\ frame' \in [Frames -> FrameRecords]
      /\ \A f \in Frames : frame[f].con # Nobody /\ "waiting" \in frame[f].status =>
           frame'[f].con = frame[f].con /\ "waiting" \in frame'[f].status
  BY FramePostSteps DEF PostFrameInfo, IInv, TypeOK
<1>3. SameCalls
  BY <1>1 DEF SameCalls, callVars
<1>4. TypeOK'
  BY <1>1, <1>2, <1>3, TypesKept DEF IInv, TypeOK, callVars, txVars, airVars
<1>5. Owning'
  BY <1>1 DEF IInv, Owning, Con, callVars
<1>6. WaitersOwnTheirFrames'
  <2> SUFFICES ASSUME NEW v \in Users, InFrameWait(v)'
               PROVE  /\ frameId'[Con(v)'] \in Frames
                      /\ frame'[frameId'[Con(v)']].con = Con(v)'
                      /\ "waiting" \in frame'[frameId'[Con(v)']].status
    BY DEF WaitersOwnTheirFrames, Con
  <2>1. InFrameWait(v) /\ Con(v)' = Con(v) /\ pc[v] # "idle"
    BY <1>1 DEF InFrameWait, Con, callVars
  <2>2. Con(v) # Nobody
    <3>1. current[v] \in 1..Len(calls) /\ calls[current[v]] \in CallRecords
      BY <2>1 DEF IInv, Owning, TypeOK
    <3> QED
      BY <3>1 DEF Con, CallRecords
  <2> QED
    BY <1>1, <1>2, <2>1, <2>2 DEF IInv, WaitersOwnTheirFrames
<1> QED
  BY <1>4, <1>5, <1>6 DEF IInv

LEMMA RxHandlerKeepsIInv ==
  ASSUME IInv, RxHandler
  PROVE  IInv'
<1>1. CASE PostFrameInfo
  BY <1>1, PostFrameInfoKeepsIInv
<1>2. CASE HandleMessage
  <2> DEFINE m == Head(rxList)
  <2>1. /\ rxList # <<>> /\ rxList' = Tail(rxList)
        /\ handler' \in {"wait", "link", "top"}
        /\ \/ UNCHANGED frameInfo
           \/ frameInfo' = [active |-> TRUE, id |-> m.id, retVal |-> m.retVal, by |-> m.by]
        /\ UNCHANGED <<frameVars, callVars, txVars, airVars, linked>>
    BY <1>2 DEF HandleMessage
  <2>2. m \in Messages /\ rxList' \in Seq(Messages)
    BY <2>1 DEF IInv, TypeOK
  <2>3. frameInfo' \in FrameInfos
    <3>1. m.id \in 0..NumFrames /\ m.retVal \in {0, 1} /\ m.by \in 0..MaxCalls
      BY <2>2 DEF Messages
    <3>2. frameInfo \in FrameInfos
      BY DEF IInv, TypeOK
    <3>3. [active |-> TRUE, id |-> m.id, retVal |-> m.retVal, by |-> m.by] \in FrameInfos
      BY <3>1 DEF FrameInfos
    <3> QED
      BY <2>1, <3>2, <3>3
  <2>4. SameCalls
    BY <2>1 DEF SameCalls, callVars
  <2>5. TypeOK'
    BY <2>1, <2>2, <2>3, <2>4, TypesKept DEF IInv, TypeOK, frameVars, callVars, txVars, airVars
  <2> QED
    BY <2>1, <2>4, <2>5, QuietSteps DEF IInv, frameVars, callVars
<1>3. CASE LinkPacket
  <2>1. /\ handler = "link" /\ handler' = "top" /\ linked' = linked \cup {frameInfo.by}
        /\ UNCHANGED <<frameVars, callVars, txVars, airVars, rxList, frameInfo>>
    BY <1>3 DEF LinkPacket
  <2>2. SameCalls
    BY <2>1 DEF SameCalls, callVars
  <2>3. linked' \subseteq 0..MaxCalls
    BY <2>1 DEF IInv, TypeOK, FrameInfos
  <2>4. TypeOK'
    BY <2>1, <2>2, <2>3, TypesKept DEF IInv, TypeOK, frameVars, callVars, txVars, airVars
  <2> QED
    BY <2>1, <2>2, <2>4, QuietSteps DEF IInv, frameVars, callVars
<1> QED
  BY <1>1, <1>2, <1>3 DEF RxHandler

LEMMA NextKeepsIInv ==
  ASSUME IInv, [Next]_vars
  PROVE  IInv'
<1>1. ASSUME NEW u \in Users, Caller(u)
      PROVE  IInv'
  BY <1>1, TxFuncFailsKeepsIInv, TxQueueBufferKeepsIInv, MarkForFreeKeepsIInv,
     TxDoneKeepsIInv, FrameWaitKeepsIInv, FrameWakeKeepsIInv, FrameTimeoutKeepsIInv,
     FrameLeaveKeepsIInv DEF Caller
<1>2. ASSUME NEW u \in Users, NEW c \in Cons, ConnTx(u, c)
      PROVE  IInv'
  BY <1>2, ConnTxKeepsIInv
<1>3. CASE TxThread \/ Board \/ RxHandler
  BY <1>3, TxThreadKeepsIInv, BoardKeepsIInv, RxHandlerKeepsIInv
<1>4. CASE UNCHANGED vars
  <2>1. SameCalls
    BY <1>4 DEF SameCalls, vars, callVars
  <2>2. TypeOK'
    BY <1>4, <2>1, TypesKept DEF IInv, TypeOK, vars, frameVars, callVars, txVars,
       airVars, rxVars
  <2> QED
    BY <1>4, <2>1, <2>2, QuietSteps DEF IInv, vars, frameVars, callVars
<1> QED
  BY <1>1, <1>2, <1>3, <1>4 DEF Next

\* Every state has the types declared, for any number of threads, connections and
\* identifiers.
THEOREM StackTypes == Spec => []TypeOK
<1>1. Init => IInv
  BY InitIInv
<1>2. IInv /\ [Next]_vars => IInv'
  BY NextKeepsIInv
<1> QED
  BY <1>1, <1>2, PTL DEF Spec, IInv

\* While a caller is in xbee_frameWait its frame stays its own, although it holds
\* no lock there: whoever else calls, times out or is answered.
THEOREM FramesAreOwned == Spec => []WaitersOwnTheirFrames
<1>1. Init => IInv
  BY InitIInv
<1>2. IInv /\ [Next]_vars => IInv'
  BY NextKeepsIInv
<1> QED
  BY <1>1, <1>2, PTL DEF Spec, IInv

-----------------------------------------------------------------------------
(***************************************************************************)
(* The way of a status: message list, frame information, frame, caller.     *)
(***************************************************************************)
CallsGrow ==
  /\ Len(calls') \in Nat /\ Len(calls) <= Len(calls')
  /\ \A k \in 1..Len(calls) : calls'[k].con = calls[k].con
  /\ linked \subseteq linked'

LEMMA StaysHeard ==
  ASSUME TypeOK, CallsGrow, NEW k, Heard(k)
  PROVE  k # 0 => k \in 1..Len(calls') /\ (calls'[k].con \in AtCons => k \in linked')
BY DEF TypeOK, CallsGrow, Heard

FrameStatusesMove ==
  \A f \in Frames :
    \/ frame'[f].by \in {0, frame[f].by}
    \/ handler # "link" /\ frame'[f].by = frameInfo.by

CallStatusesMove ==
  \A k \in 1..Len(calls') :
    \/ calls'[k].by = 0
    \/ k \in 1..Len(calls) /\ calls'[k].by = calls[k].by
    \/ \E f \in Frames : calls'[k].by = frame[f].by

\* A step that moves statuses on from where they were heard.
LEMMA HeardSteps ==
  ASSUME TypeOK, StatusesHeard, CallsGrow, FrameStatusesMove, CallStatusesMove,
         UNCHANGED frameInfo, handler' # "link" => handler # "link", MessagesKnown'
  PROVE  StatusesHeard'
<1> DEFINE Heard1(k) ==
      k # 0 => k \in 1..Len(calls') /\ (calls'[k].con \in AtCons => k \in linked')
<1>1. \A f \in Frames : Heard1(frame'[f].by)
  <2> SUFFICES ASSUME NEW f \in Frames PROVE Heard1(frame'[f].by)
    OBVIOUS
  <2> USE DEF FrameStatusesMove
  <2>1. CASE frame'[f].by = 0
    BY <2>1
  <2>2. CASE frame'[f].by = frame[f].by
    BY <2>2, StaysHeard DEF StatusesHeard
  <2>3. CASE handler # "link" /\ frame'[f].by = frameInfo.by
    BY <2>3, StaysHeard DEF StatusesHeard
  <2> QED
    BY <2>1, <2>2, <2>3
<1>2. \A k \in 1..Len(calls') : Heard1(calls'[k].by)
  <2> SUFFICES ASSUME NEW k \in 1..Len(calls') PROVE Heard1(calls'[k].by)
    OBVIOUS
  <2> USE DEF CallStatusesMove
  <2>1. CASE calls'[k].by = 0
    BY <2>1
  <2>2. CASE k \in 1..Len(calls) /\ calls'[k].by = calls[k].by
    BY <2>2, StaysHeard DEF StatusesHeard
  <2>3. ASSUME NEW f \in Frames, calls'[k].by = frame[f].by
        PROVE  Heard1(calls'[k].by)
    BY <2>3, StaysHeard DEF StatusesHeard
  <2> QED
    BY <2>1, <2>2, <2>3
<1>3. handler' # "link" => Heard1(frameInfo'.by)
  BY StaysHeard DEF StatusesHeard
<1>4. frameInfo'.by \in 0..Len(calls')
  BY DEF StatusesHeard, CallsGrow, TypeOK
<1> QED
  BY <1>1, <1>2, <1>3, <1>4 DEF StatusesHeard, Heard

LEMMA CallerKeepsHeard ==
  ASSUME IInv, StatusesHeard, NEW u \in Users, Caller(u)
  PROVE  StatusesHeard'
<1>1. UNCHANGED <<frameInfo, handler, rxList, linked>>
  BY DEF Caller, TxFuncFails, TxQueueBuffer, MarkForFree, TxDone, FrameWait, FrameWake,
     FrameTimeout, FrameLeave, rxVars
<1>2. ASSUME SameCalls,
             \A f \in Frames : frame'[f].by \in {0, frame[f].by},
             \A k \in 1..Len(calls) :
               \/ calls'[k].by \in {0, calls[k].by}
               \/ \E f \in Frames : calls'[k].by = frame[f].by
      PROVE  StatusesHeard'
  <2>1. CallsGrow
    BY <1>1, <1>2 DEF CallsGrow, SameCalls, IInv, TypeOK
  <2>2. MessagesKnown'
    BY <1>1, <1>2 DEF StatusesHeard, SameCalls, MessagesKnown
  <2>3. FrameStatusesMove
    BY <1>2 DEF FrameStatusesMove
  <2>4. CallStatusesMove
    BY <1>2 DEF CallStatusesMove, SameCalls
  <2> QED
    BY <1>1, <2>1, <2>2, <2>3, <2>4, HeardSteps DEF IInv
<1>3. ASSUME Return(u, "error", 0) \/ Return(u, "success", 0), pc[u] # "idle", UNCHANGED frame
      PROVE  StatusesHeard'
  <2>1. SameCalls /\ \A k \in 1..Len(calls) : calls'[k].by \in {0, calls[k].by}
    <3>1. 0 \in 0..MaxCalls
      OBVIOUS
    <3> QED
      BY <1>3, <3>1, ReturnSteps DEF IInv
  <2> QED
    BY <1>2, <1>3, <2>1
<1>4. CASE TxFuncFails(u) \/ MarkForFree(u)
  BY <1>3, <1>4 DEF TxFuncFails, MarkForFree, frameVars
<1>5. CASE TxQueueBuffer(u) \/ TxDone(u)
  <2>1. current[u] \in 1..Len(calls) /\ UNCHANGED frame
    BY <1>5 DEF IInv, Owning, TxQueueBuffer, TxDone, frameVars
  <2>2. SameCalls /\ \A k \in 1..Len(calls) : calls'[k].by = calls[k].by
    BY <1>5, <2>1, BufferSteps DEF IInv, TxQueueBuffer, TxDone
  <2> QED
    BY <1>2, <2>1, <2>2
<1>6. CASE FrameWait(u) \/ FrameWake(u) \/ FrameTimeout(u)
  <2>1. \/ Return(u, "error", 0) /\ UNCHANGED frame /\ pc[u] # "idle"
        \/ UNCHANGED calls /\ \A f \in Frames : frame'[f].by = frame[f].by
    <3>1. frame \in [Frames -> FrameRecords]
      BY DEF IInv, TypeOK
    <3>2. ASSUME NEW g \in Frames, NEW status,
                 frame' = [frame EXCEPT ![g].status = status]
          PROVE  \A f \in Frames : frame'[f].by = frame[f].by
      BY <3>1, <3>2 DEF FrameRecords
    <3>3. CASE FrameWait(u)
      BY <3>2, <3>3 DEF FrameWait, LatestOf, FramesOf
    <3>4. CASE FrameWake(u)
      BY <3>1, <3>4 DEF FrameWake, FrameRecords
    <3> QED
      BY <1>6, <3>3, <3>4 DEF FrameTimeout, frameVars
  <2>2. CASE UNCHANGED calls /\ \A f \in Frames : frame'[f].by = frame[f].by
    BY <1>2, <2>2 DEF SameCalls
  <2> QED
    BY <1>3, <2>1, <2>2
<1>7. CASE FrameLeave(u)
  <2> DEFINE c == Con(u)
             f == frameId[c]
             complete == pc[u] = "woken" /\ "complete" \in frame[f].status
             result == Outcome(u, f, complete)
             by == IF complete THEN frame[f].by ELSE 0
  <2>1. pc[u] \in {"woken", "timedout"} /\ Return(u, result, by)
    BY <1>7 DEF FrameLeave
  <2>2. f \in Frames
    BY <2>1 DEF IInv, WaitersOwnTheirFrames, InFrameWait
  <2>3. \A g \in Frames : frame'[g].by \in {0, frame[g].by}
    BY <1>7, <2>2 DEF FrameLeave, IInv, TypeOK, FrameRecords
  <2>4. by \in 0..MaxCalls /\ result \in {"success", "refused", "timeout", "error"}
    BY <2>2 DEF IInv, TypeOK, FrameRecords, Outcome
  <2>5. by = 0 \/ \E g \in Frames : by = frame[g].by
    BY <2>2
  <2>6. SameCalls /\ \A k \in 1..Len(calls) :
                       calls'[k].by = IF k = current[u] THEN by ELSE calls[k].by
    <3> HIDE DEF by, result
    <3> QED
      BY <2>1, <2>4, ReturnSteps DEF IInv
  <2> HIDE DEF by, result
  <2> QED
    BY <1>2, <2>3, <2>5, <2>6
<1> QED
  BY <1>4, <1>5, <1>6, <1>7 DEF Caller

LEMMA NextKeepsHeard ==
  ASSUME IInv, StatusesHeard, [Next]_vars
  PROVE  StatusesHeard'
<1>1. ASSUME NEW u \in Users, NEW c \in Cons, ConnTx(u, c)
      PROVE  StatusesHeard'
  <2>1. UNCHANGED <<rxList, frameInfo, handler, linked>>
    BY <1>1 DEF ConnTx, rxVars
  <2>2. /\ Len(calls') = Len(calls) + 1 /\ Len(calls) \in Nat
        /\ \A k \in 1..Len(calls) : calls'[k] = calls[k]
        /\ calls'[Len(calls) + 1].by = 0
        /\ \A f \in Frames : frame'[f].by = frame[f].by
    <3>1. Len(calls) \in Nat
      BY DEF IInv, TypeOK
    <3> QED
      BY <1>1, <3>1, ConnTxSteps DEF IInv
  <2>3. CallsGrow
    BY <2>1, <2>2 DEF CallsGrow
  <2>4. FrameStatusesMove
    BY <2>2 DEF FrameStatusesMove
  <2>5. CallStatusesMove
    BY <2>2 DEF CallStatusesMove
  <2>6. MessagesKnown'
    BY <2>1, <2>2 DEF StatusesHeard, MessagesKnown
  <2> QED
    BY <2>1, <2>3, <2>4, <2>5, <2>6, HeardSteps DEF IInv
<1>2. ASSUME SameCalls, UNCHANGED <<frame, frameInfo, handler, linked>>,
             \A k \in 1..Len(calls) : calls'[k].by = calls[k].by,
             MessagesKnown'
      PROVE  StatusesHeard'
  <2>1. CallsGrow
    BY <1>2 DEF CallsGrow, SameCalls, IInv, TypeOK
  <2>2. FrameStatusesMove
    BY <1>2 DEF FrameStatusesMove
  <2>3. CallStatusesMove
    BY <1>2 DEF CallStatusesMove, SameCalls
  <2> QED
    BY <1>2, <2>1, <2>2, <2>3, HeardSteps DEF IInv
<1>3. CASE TxThread
  <2>1. UNCHANGED <<frame, rxList, frameInfo, handler, linked>>
    BY <1>3 DEF TxThread, TxWrite, TxWriteFails, TxRelease, frameVars, rxVars
  <2>2. SameCalls /\ \A k \in 1..Len(calls) : calls'[k].by = calls[k].by
    <3>1. CASE UNCHANGED calls
      BY <3>1 DEF SameCalls
    <3>2. ASSUME NEW k \in 1..Len(calls), NEW buf \in {"none", "queued", "posted", "lost", "freed"},
                 calls' = [calls EXCEPT ![k].buf = buf]
          PROVE  SameCalls /\ \A j \in 1..Len(calls) : calls'[j].by = calls[j].by
      BY <3>2, BufferSteps DEF IInv
    <3>3. TxWriteFails => Head(bufList) \in 1..Len(calls)
      BY DEF TxWriteFails, IInv, TypeOK
    <3>4. TxRelease => txBuf \in 1..Len(calls)
      BY DEF TxRelease, IInv, TypeOK
    <3> QED
      BY <1>3, <3>1, <3>2, <3>3, <3>4 DEF TxThread, TxWrite, TxWriteFails, TxRelease, callVars
  <2>3. MessagesKnown'
    BY <2>1, <2>2 DEF StatusesHeard, MessagesKnown, SameCalls
  <2> QED
    BY <1>2, <2>1, <2>2, <2>3
<1>4. CASE Board
  <2>1. UNCHANGED <<frame, calls, frameInfo, handler, linked>>
    BY <1>4 DEF Board, Answer, UnknownMessage, frameVars, callVars
  <2>2. ASSUME NEW m, rxList' = Append(rxList, m),
               m.kind = "status" => m.by \in 1..Len(calls)
        PROVE  StatusesHeard'
    <3>1. MessagesKnown'
      BY <2>1, <2>2 DEF StatusesHeard, MessagesKnown, IInv, TypeOK
    <3> QED
      BY <1>2, <2>1, <3>1 DEF SameCalls
  <2>3. ASSUME NEW k \in air, NEW retVal \in {0, 1}, Answer(k, retVal)
        PROVE  StatusesHeard'
    <3>1. k \in 1..Len(calls)
      BY DEF IInv, TypeOK
    <3> QED
      BY <2>2, <2>3, <3>1 DEF Answer
  <2>4. CASE UnknownMessage
    BY <2>2, <2>4 DEF UnknownMessage, Unknown
  <2> QED
    BY <1>4, <2>3, <2>4 DEF Board
<1>5. CASE PostFrameInfo
  <2>1. /\ handler = "top" /\ handler' = "wait"
        /\ UNCHANGED <<calls, rxList, frameInfo, linked>>
    BY <1>5 DEF PostFrameInfo, callVars
  <2>2. \A f \in Frames : frame'[f].by \in {frame[f].by, frameInfo.by}
    BY <1>5, FramePostSteps DEF PostFrameInfo, IInv, TypeOK
  <2>3. CallsGrow
    BY <2>1 DEF CallsGrow, IInv, TypeOK
  <2>4. FrameStatusesMove
    BY <2>1, <2>2 DEF FrameStatusesMove
  <2>5. CallStatusesMove
    BY <2>1 DEF CallStatusesMove
  <2>6. MessagesKnown'
    BY <2>1 DEF StatusesHeard, MessagesKnown
  <2> QED
    BY <2>1, <2>3, <2>4, <2>5, <2>6, HeardSteps DEF IInv
<1>6. CASE HandleMessage
  <2> DEFINE m == Head(rxList)
  <2>1. /\ rxList # <<>> /\ rxList' = Tail(rxList) /\ handler = "wait"
        /\ UNCHANGED <<frame, calls, linked>>
    BY <1>6 DEF HandleMessage, frameVars, callVars
  <2>2. rxList \in Seq(Messages) /\ Len(rxList) \in Nat
    BY DEF IInv, TypeOK
  <2>3. m \in Messages /\ (m.kind = "status" => m.by \in 1..Len(calls))
    BY <2>1, <2>2 DEF StatusesHeard, MessagesKnown
  <2>4. MessagesKnown'
    BY <2>1, <2>2 DEF StatusesHeard, MessagesKnown
  <2>5. \/ UNCHANGED frameInfo /\ handler' = "top"
        \/ /\ frameInfo'.by = m.by /\ m.by \in 1..Len(calls)
           /\ handler' = IF calls[m.by].con \in AtCons THEN "link" ELSE "top"
    BY <1>6, <2>3 DEF HandleMessage, Messages
  <2>6. /\ frameInfo'.by \in 0..Len(calls)
        /\ handler' # "link" => Heard(frameInfo'.by)
    BY <2>1, <2>5 DEF StatusesHeard, Heard
  <2> QED
    BY <2>1, <2>4, <2>6 DEF StatusesHeard, Heard
<1>7. CASE LinkPacket
  <2>1. /\ handler = "link" /\ handler' = "top" /\ linked' = linked \cup {frameInfo.by}
        /\ UNCHANGED <<frame, calls, rxList, frameInfo>>
    BY <1>7 DEF LinkPacket, frameVars, callVars
  <2> QED
    BY <2>1 DEF StatusesHeard, Heard, MessagesKnown
<1>8. CASE UNCHANGED vars
  BY <1>8 DEF vars, frameVars, callVars, rxVars, StatusesHeard, Heard, MessagesKnown
<1> QED
  BY <1>1, <1>3, <1>4, <1>5, <1>6, <1>7, <1>8, CallerKeepsHeard DEF Next, RxHandler

\* A caller that its answer woke finds the answer's packet in its connection, in
\* every interleaving of the receive handler and the callers.
THEOREM PacketComesFirst == Spec => []PacketBeforeStatus
<1> DEFINE Inv == IInv /\ StatusesHeard
<1>1. Init => Inv
  BY InitIInv
<1>2. Inv /\ [Next]_vars => Inv'
  BY NextKeepsIInv, NextKeepsHeard
<1>3. Inv => PacketBeforeStatus
  BY DEF StatusesHeard, Heard, PacketBeforeStatus
<1> QED
  BY <1>1, <1>2, <1>3, PTL DEF Spec

-----------------------------------------------------------------------------
(***************************************************************************)
(* The uses of an identifier.                                               *)
(***************************************************************************)
First(k) == \A l \in 1..(k - 1) : calls[l].id # calls[k].id

Held(u) == frameId[Con(u)]

\* A caller whose frame has neither been freed nor handed out again.
Holding(u) ==
  /\ pc[u] # "idle" /\ Held(u) \in Frames
  /\ frame[Held(u)].con = Con(u) /\ frame[Held(u)].status # {}

\* An identifier a connection keeps was that of one of its calls (xbee_connTx).
CallIds ==
  /\ \A c \in Cons : frameId[c] # 0 =>
       \E k \in 1..Len(calls) : calls[k].con = c /\ calls[k].id = frameId[c]
  /\ \A u \in Users : pc[u] # "idle" => calls[current[u]].id = Held(u)
  /\ \A u \in Users : pc[u] = "queued" => Con(u) \in QuietCons

\* A status names the identifier of the call it answers, on its whole way.
FrameIds ==
  \A f \in Frames : frame[f].by # 0 =>
    frame[f].by \in 1..Len(calls) /\ calls[frame[f].by].id = f

MessageIds ==
  /\ \A i \in 1..Len(rxList) : rxList[i].kind = "status" =>
       rxList[i].by \in 1..Len(calls) /\ calls[rxList[i].by].id = rxList[i].id
  /\ frameInfo.active =>
       frameInfo.by \in 1..Len(calls) /\ calls[frameInfo.by].id = frameInfo.id

Unused ==
  \A f \in Frames : (\A k \in 1..Len(calls) : calls[k].id # f) => frame[f] = FreeFrame

\* While the first call with an identifier holds its frame no other call has the
\* identifier, and what is posted there is its own answer.
FirstUses ==
  \A u \in Users : Holding(u) /\ First(current[u]) =>
    /\ \A k \in 1..Len(calls) : calls[k].id = Held(u) => k = current[u]
    /\ frame[Held(u)].sem > 0 \/ pc[u] = "woken" => "complete" \in frame[Held(u)].status
    /\ "complete" \in frame[Held(u)].status => frame[Held(u)].by = current[u]

UInv == CallIds /\ FrameIds /\ MessageIds /\ Unused /\ FirstUses

SameIds == SameCalls /\ \A k \in 1..Len(calls) : calls'[k].id = calls[k].id

\* What the steps after the beginning of a call do to the callers and the frames.
CallMoves ==
  /\ SameIds
  /\ \A c \in Cons : frameId'[c] \in {0, frameId[c]}
  /\ \A v \in Users : pc'[v] # "idle" =>
       /\ pc[v] # "idle" /\ current'[v] = current[v] /\ frameId'[Con(v)] = frameId[Con(v)]
       /\ pc'[v] = "queued" => pc[v] = "queued" \/ Con(v) \in QuietCons
       /\ pc'[v] = "woken" => pc[v] = "woken" \/ frame[Held(v)].sem > 0

Quits(f) ==
  /\ frame'[f].con = Nobody \/ frame'[f].status = {}
  /\ frame'[f].by \in {0, frame[f].by}
GoesOn(f) ==
  /\ frame'[f].con = frame[f].con /\ frame[f].status # {} /\ frame'[f].by = frame[f].by
  /\ "complete" \in frame'[f].status <=> "complete" \in frame[f].status
  /\ frame'[f].sem > 0 => frame[f].sem > 0
IsPosted(f) ==
  /\ frame'[f].con = frame[f].con /\ frame[f].status # {}
  /\ "complete" \in frame'[f].status
  /\ frame'[f].by \in 1..Len(calls) /\ calls[frame'[f].by].id = f
FrameMoves ==
  \A f \in Frames :
    \/ frame'[f] = frame[f]
    \/ /\ \E k \in 1..Len(calls) : calls[k].id = f
       /\ Quits(f) \/ GoesOn(f) \/ IsPosted(f)

LEMMA UsesKept ==
  ASSUME IInv, CallIds, FrameIds, Unused, FirstUses, CallMoves, FrameMoves
  PROVE  CallIds' /\ FrameIds' /\ Unused' /\ FirstUses'
<1>1. /\ Len(calls') = Len(calls)
      /\ \A k \in 1..Len(calls) : calls'[k].con = calls[k].con /\ calls'[k].id = calls[k].id
  BY DEF CallMoves, SameIds, SameCalls
<1>2. \A v \in Users : pc'[v] # "idle" =>
        /\ pc[v] # "idle" /\ current[v] \in 1..Len(calls) /\ current'[v] = current[v]
        /\ Con(v)' = Con(v) /\ Con(v) \in Cons /\ Held(v)' = Held(v)
  <2> SUFFICES ASSUME NEW v \in Users, pc'[v] # "idle"
               PROVE  /\ pc[v] # "idle" /\ current[v] \in 1..Len(calls) /\ current'[v] = current[v]
                      /\ Con(v)' = Con(v) /\ Con(v) \in Cons /\ Held(v)' = Held(v)
    OBVIOUS
  <2>1. /\ pc[v] # "idle" /\ current[v] \in 1..Len(calls) /\ current'[v] = current[v]
        /\ frameId'[Con(v)] = frameId[Con(v)]
    BY DEF CallMoves, IInv, Owning
  <2>2. Con(v)' = Con(v)
    BY <1>1, <2>1 DEF Con
  <2>3. Con(v) \in Cons
    <3>1. calls[current[v]] \in CallRecords
      BY <2>1 DEF IInv, TypeOK
    <3> QED
      BY <3>1 DEF CallRecords, Con
  <2> QED
    BY <2>1, <2>2, <2>3 DEF Held
<1>3. CallIds'
  <2>1. \A c \in Cons : frameId'[c] # 0 =>
          \E k \in 1..Len(calls) : calls'[k].con = c /\ calls'[k].id = frameId'[c]
    <3> SUFFICES ASSUME NEW c \in Cons, frameId'[c] # 0
                 PROVE  \E k \in 1..Len(calls) : calls'[k].con = c /\ calls'[k].id = frameId'[c]
      OBVIOUS
    <3>1. frameId'[c] = frameId[c]
      BY DEF CallMoves
    <3> QED
      BY <1>1, <3>1 DEF CallIds
  <2>2. \A v \in Users : pc'[v] # "idle" => calls'[current'[v]].id = Held(v)'
    BY <1>1, <1>2 DEF CallIds
  <2>3. \A v \in Users : pc'[v] = "queued" => Con(v)' \in QuietCons
    BY <1>2 DEF CallIds, CallMoves
  <2> QED
    BY <1>1, <2>1, <2>2, <2>3 DEF CallIds
<1>4. FrameIds'
  <2> SUFFICES ASSUME NEW f \in Frames, frame'[f].by # 0
               PROVE  frame'[f].by \in 1..Len(calls) /\ calls[frame'[f].by].id = f
    BY <1>1 DEF FrameIds
  <2> QED
    BY DEF FrameIds, FrameMoves, Quits, GoesOn, IsPosted
<1>5. Unused'
  <2> SUFFICES ASSUME NEW f \in Frames, \A k \in 1..Len(calls') : calls'[k].id # f
               PROVE  frame'[f] = FreeFrame
    BY DEF Unused, FreeFrame
  <2>1. \A k \in 1..Len(calls) : calls[k].id # f
    BY <1>1
  <2> QED
    BY <2>1 DEF Unused, FrameMoves
<1>6. FirstUses'
  <2> SUFFICES ASSUME NEW u \in Users, Holding(u)', First(current[u])'
               PROVE  /\ \A k \in 1..Len(calls') : calls'[k].id = Held(u)' => k = current'[u]
                      /\ frame'[Held(u)'].sem > 0 \/ pc'[u] = "woken" =>
                           "complete" \in frame'[Held(u)'].status
                      /\ "complete" \in frame'[Held(u)'].status => frame'[Held(u)'].by = current'[u]
    BY DEF FirstUses, Holding, First, Held, Con
  <2>1. PICK f, k : f = Held(u) /\ k = current[u]
    OBVIOUS
  <2>2. /\ pc'[u] # "idle" /\ pc[u] # "idle" /\ k \in 1..Len(calls) /\ current'[u] = k
        /\ Held(u)' = f /\ f \in Frames /\ Con(u) \in Cons
        /\ frame'[f].con = Con(u) /\ frame'[f].status # {}
    BY <1>2, <2>1 DEF Holding
  <2>3. First(k)
    <3>1. \A l \in 1..(k - 1) : calls'[l].id # calls'[k].id
      BY <2>2 DEF First
    <3>2. \A l \in 1..(k - 1) : l \in 1..Len(calls)
      BY <2>2 DEF IInv, TypeOK
    <3> QED
      BY <1>1, <2>2, <3>1, <3>2 DEF First
  <2>4. Con(u) # Nobody
    BY <2>2
  <2>5. \/ frame'[f] = frame[f]
        \/ GoesOn(f) \/ IsPosted(f)
    BY <2>2, <2>4 DEF FrameMoves, Quits
  <2>6. frame[f].con = Con(u) /\ frame[f].status # {}
    BY <2>2, <2>5 DEF GoesOn, IsPosted
  <2>7. /\ \A j \in 1..Len(calls) : calls[j].id = f => j = k
        /\ frame[f].sem > 0 \/ pc[u] = "woken" => "complete" \in frame[f].status
        /\ "complete" \in frame[f].status => frame[f].by = k
    <3>1. Holding(u) /\ First(current[u])
      BY <2>1, <2>2, <2>3, <2>6 DEF Holding
    <3> QED
      BY <2>1, <3>1 DEF FirstUses
  <2>8. pc'[u] = "woken" => pc[u] = "woken" \/ frame[f].sem > 0
    BY <2>1 DEF CallMoves
  <2>9. /\ frame'[f].sem > 0 \/ pc'[u] = "woken" => "complete" \in frame'[f].status
        /\ "complete" \in frame'[f].status => frame'[f].by = k
    BY <2>5, <2>7, <2>8 DEF GoesOn, IsPosted
  <2> QED
    BY <1>1, <2>2, <2>7, <2>9
<1> QED
  BY <1>3, <1>4, <1>5, <1>6

\* The messages, when the handler leaves them alone.
LEMMA MessageIdsKept ==
  ASSUME MessageIds, SameIds, UNCHANGED <<rxList, frameInfo>>
  PROVE  MessageIds'
BY DEF MessageIds, SameIds, SameCalls

LEMMA ReturnIds ==
  ASSUME IInv, NEW u \in Users, pc[u] # "idle",
         NEW result \in {"success", "refused", "timeout", "error"},
         NEW by \in 0..MaxCalls, Return(u, result, by)
  PROVE  /\ SameIds
         /\ pc'[u] = "idle"
         /\ \A v \in Users \ {u} : pc'[v] = pc[v] /\ current'[v] = current[v]
         /\ \A k \in 1..Len(calls) : k # current[u] => calls'[k] = calls[k]
         /\ calls'[current[u]].result = result /\ calls'[current[u]].by = by
<1> DEFINE k == current[u]
           r == [calls[k] EXCEPT !.result = result, !.by = by]
<1>1. k \in 1..Len(calls) /\ calls[k] \in CallRecords
  BY DEF IInv, Owning, TypeOK
<1>2. calls' = [calls EXCEPT ![k] = r]
  BY <1>1 DEF Return, IInv, TypeOK
<1>3. r.id = calls[k].id /\ r.con = calls[k].con /\ r.result = result /\ r.by = by
  BY <1>1 DEF CallRecords
<1>4. calls \in Seq(CallRecords)
  BY DEF IInv, TypeOK
<1> HIDE DEF r
<1>5. /\ SameIds /\ \A j \in 1..Len(calls) : j # k => calls'[j] = calls[j]
      /\ calls'[k].result = result /\ calls'[k].by = by
  BY <1>1, <1>2, <1>3, <1>4 DEF SameIds, SameCalls
<1> QED
  BY <1>5, ReturnSteps DEF IInv

LEMMA BufferIds ==
  ASSUME IInv, NEW k \in 1..Len(calls),
         NEW buf \in {"none", "queued", "posted", "lost", "freed"},
         calls' = [calls EXCEPT ![k].buf = buf]
  PROVE  /\ SameIds
         /\ \A j \in 1..Len(calls) : calls'[j].result = calls[j].result /\ calls'[j].by = calls[j].by
<1> DEFINE r == [calls[k] EXCEPT !.buf = buf]
<1>1. calls \in Seq(CallRecords) /\ calls[k] \in CallRecords
  BY DEF IInv, TypeOK
<1>2. calls' = [calls EXCEPT ![k] = r]
  BY <1>1
<1>3. r.id = calls[k].id /\ r.con = calls[k].con /\ r.result = calls[k].result /\ r.by = calls[k].by
  BY <1>1 DEF CallRecords
<1> HIDE DEF r
<1> QED
  BY <1>1, <1>2, <1>3 DEF SameIds, SameCalls

\* A call begins: it has the identifier of a free frame, none, or that of an
\* earlier call of its connection.
LEMMA ConnTxFrames ==
  ASSUME IInv, NEW u \in Users, NEW c \in Cons, ConnTx(u, c)
  PROVE  \/ frame' = frame /\ frameId'[c] \in {0, frameId[c]}
         \/ \E f \in Frames :
              /\ frame[f].status = {} /\ frameId'[c] = f
              /\ frame' = [frame EXCEPT ![f].con = c, ![f].status = {"scheduled"}]
<1>1. frameId \in [Cons -> 0..NumFrames]
  BY DEF IInv, TypeOK
<1>2. CASE c \in QuietCons
  BY <1>1, <1>2 DEF ConnTx
<1>3. CASE c \notin QuietCons
  <2>1. FrameGetFreeID(c)
    BY <1>3 DEF ConnTx
  <2>2. CASE UNCHANGED frameVars
    BY <2>2 DEF frameVars
  <2>3. ASSUME NEW f \in NextFree,
               frame' = [frame EXCEPT ![f].con = c, ![f].status = {"scheduled"}],
               frameId' = [frameId EXCEPT ![c] = f]
        PROVE  \E g \in Frames :
                 /\ frame[g].status = {} /\ frameId'[c] = g
                 /\ frame' = [frame EXCEPT ![g].con = c, ![g].status = {"scheduled"}]
    <3>1. f \in Frames /\ frame[f].status = {}
      BY DEF NextFree, Free
    <3> QED
      BY <1>1, <2>3, <3>1
  <2> QED
    BY <2>1, <2>2, <2>3 DEF FrameGetFreeID
<1> QED
  BY <1>2, <1>3

LEMMA ConnTxKeepsUses ==
  ASSUME IInv, UInv, FirstUseIsAcknowledged, NEW u \in Users, NEW c \in Cons, ConnTx(u, c)
  PROVE  UInv' /\ FirstUseIsAcknowledged'
<1> DEFINE N == Len(calls)
<1>1. /\ N \in Nat /\ Len(calls') = N + 1 /\ \A k \in 1..N : calls'[k] = calls[k]
      /\ calls'[N + 1].con = c
      /\ \A d \in Cons \ {c} : frameId'[d] = frameId[d]
      /\ \A f \in Frames : frame[f].status # {} => frame'[f] = frame[f]
      /\ \A f \in Frames : frame'[f].by = frame[f].by
  <2>1. N \in Nat
    BY DEF IInv, TypeOK
  <2> QED
    BY <2>1, ConnTxSteps DEF IInv
<1>2. calls'[N + 1].id = frameId'[c] /\ calls'[N + 1].result = "none"
  <2>1. calls \in Seq(CallRecords)
    BY DEF IInv, TypeOK
  <2>2. PICK r : /\ r = [con |-> c, id |-> frameId'[c], buf |-> "none", result |-> "none", by |-> 0]
                 /\ calls' = Append(calls, r)
    BY DEF ConnTx
  <2>3. calls'[N + 1] = r
    BY <2>1, <2>2
  <2>4. r.id = frameId'[c] /\ r.result = "none"
    BY <2>2
  <2> QED
    BY <2>3, <2>4
<1>3. /\ pc[u] = "idle" /\ txMutex[c] = Nobody
      /\ pc' = [pc EXCEPT ![u] = "begin"] /\ current' = [current EXCEPT ![u] = N + 1]
      /\ UNCHANGED <<rxList, frameInfo>>
  BY DEF ConnTx, rxVars
<1>4. /\ pc'[u] = "begin" /\ current'[u] = N + 1
      /\ \A v \in Users \ {u} : pc'[v] = pc[v] /\ current'[v] = current[v]
  BY <1>3 DEF IInv, TypeOK
<1>5. \A k \in 1..(N + 1) : k \in 1..N \/ k = N + 1
  BY <1>1
<1>6. N + 1 \in 1..(N + 1)
  BY <1>1
<1> HIDE DEF N
<1>7. Con(u)' = c
  BY <1>1, <1>4 DEF Con
<1>8. ASSUME NEW v \in Users \ {u}, pc[v] # "idle"
      PROVE  /\ current[v] \in 1..N /\ Con(v) \in Cons \ {c} /\ Con(v)' = Con(v)
             /\ Held(v)' = Held(v)
  <2>1. current[v] \in 1..N /\ txMutex[Con(v)] = v
    BY <1>8 DEF IInv, Owning, N
  <2>2. calls[current[v]] \in CallRecords
    BY <2>1 DEF IInv, TypeOK, N
  <2>3. Con(v) \in Cons \ {c}
    BY <1>3, <2>1, <2>2 DEF Con, CallRecords
  <2>4. Con(v)' = Con(v)
    BY <1>1, <1>4, <2>1 DEF Con
  <2> QED
    BY <1>1, <2>1, <2>3, <2>4 DEF Held
<1>9. CallIds'
  <2>1. ASSUME NEW d \in Cons, frameId'[d] # 0
        PROVE  \E k \in 1..(N + 1) : calls'[k].con = d /\ calls'[k].id = frameId'[d]
    <3>1. CASE d = c
      BY <1>1, <1>2, <1>6, <3>1
    <3>2. CASE d # c
      <4>1. PICK k \in 1..N : calls[k].con = d /\ calls[k].id = frameId[d]
        BY <1>1, <2>1, <3>2 DEF UInv, CallIds, N
      <4>2. k \in 1..(N + 1)
        BY <1>1
      <4> QED
        BY <1>1, <3>2, <4>1, <4>2
    <3> QED
      BY <3>1, <3>2
  <2>2. ASSUME NEW v \in Users, pc'[v] # "idle"
        PROVE  calls'[current'[v]].id = Held(v)'
    <3>1. CASE v = u
      BY <1>2, <1>4, <1>7, <3>1 DEF Held
    <3>2. CASE v # u
      BY <1>1, <1>4, <1>8, <2>2, <3>2 DEF UInv, CallIds
    <3> QED
      BY <3>1, <3>2
  <2>3. ASSUME NEW v \in Users, pc'[v] = "queued"
        PROVE  Con(v)' \in QuietCons
    BY <1>4, <1>8, <2>3 DEF UInv, CallIds
  <2> QED
    BY <1>1, <2>1, <2>2, <2>3 DEF CallIds
<1>10. FrameIds' /\ MessageIds'
  <2>1. \A k \in 1..N : k \in 1..(N + 1)
    BY <1>1
  <2>2. FrameIds'
    BY <1>1, <2>1 DEF UInv, FrameIds, N
  <2>3. MessageIds'
    BY <1>1, <1>3, <2>1 DEF UInv, MessageIds, N
  <2> QED
    BY <2>2, <2>3
<1>11. \/ frame' = frame /\ frameId'[c] \in {0, frameId[c]}
       \/ \E f \in Frames :
            /\ frame[f].status = {} /\ frameId'[c] = f
            /\ frame' = [frame EXCEPT ![f].con = c, ![f].status = {"scheduled"}]
  BY ConnTxFrames
<1>12. \A f \in Frames : frame'[f] = frame[f] \/ frameId'[c] = f
  <2>1. CASE frame' = frame
    BY <2>1
  <2>2. CASE \E g \in Frames :
               /\ frame[g].status = {} /\ frameId'[c] = g
               /\ frame' = [frame EXCEPT ![g].con = c, ![g].status = {"scheduled"}]
    <3>1. PICK g \in Frames :
            /\ frameId'[c] = g
            /\ frame' = [frame EXCEPT ![g].con = c, ![g].status = {"scheduled"}]
      BY <2>2
    <3>2. frame \in [Frames -> FrameRecords]
      BY DEF IInv, TypeOK
    <3>3. \A f \in Frames : f # g => frame'[f] = frame[f]
      BY <3>1, <3>2
    <3>4. \A f \in Frames : f = g => frameId'[c] = f
      BY <3>1
    <3> QED
      BY <3>3, <3>4, Zenon
  <2> QED
    BY <1>11, <2>1, <2>2, Zenon
<1>13. Unused'
  <2> SUFFICES ASSUME NEW f \in Frames, \A k \in 1..(N + 1) : calls'[k].id # f
               PROVE  frame'[f] = FreeFrame
    BY <1>1 DEF Unused, FreeFrame
  <2>1. frameId'[c] # f
    BY <1>2, <1>6
  <2>2. \A k \in 1..N : calls[k].id # f /\ k \in 1..(N + 1)
    BY <1>1
  <2> QED
    BY <1>12, <2>1, <2>2 DEF UInv, Unused, N
<1>14. FirstUses'
  <2> SUFFICES ASSUME NEW v \in Users, Holding(v)', First(current[v])'
               PROVE  /\ \A k \in 1..(N + 1) : calls'[k].id = Held(v)' => k = current'[v]
                      /\ frame'[Held(v)'].sem > 0 \/ pc'[v] = "woken" =>
                           "complete" \in frame'[Held(v)'].status
                      /\ "complete" \in frame'[Held(v)'].status => frame'[Held(v)'].by = current'[v]
    BY <1>1 DEF FirstUses, Holding, First, Held, Con
  <2>1. CASE v = u
    <3>1. PICK f : f = frameId'[c]
      OBVIOUS
    <3>2. Held(v)' = f /\ f \in Frames /\ current'[v] = N + 1
      BY <1>4, <1>7, <2>1, <3>1 DEF Holding, Held
    <3>3. \A k \in 1..N : calls[k].id # f
      <4>1. \A l \in 1..((N + 1) - 1) : calls'[l].id # calls'[N + 1].id
        BY <3>2 DEF First
      <4>2. (N + 1) - 1 = N
        BY <1>1
      <4> QED
        BY <1>1, <1>2, <3>1, <4>1, <4>2
    <3>4. frame[f] = FreeFrame
      BY <3>2, <3>3 DEF UInv, Unused, N
    <3>5. f # 0 /\ frameId[c] # f
      BY <3>2, <3>3 DEF UInv, CallIds, N, Frames
    <3>6. frame' = [frame EXCEPT ![f].con = c, ![f].status = {"scheduled"}]
      BY <1>11, <3>1, <3>5
    <3>7. frame'[f].sem = 0 /\ frame'[f].status = {"scheduled"}
      <4>1. frame[f].sem = 0 /\ frame \in [Frames -> FrameRecords]
        BY <3>4 DEF FreeFrame, IInv, TypeOK
      <4> QED
        BY <3>2, <3>6, <4>1 DEF FrameRecords
    <3>8. \A k \in 1..(N + 1) : calls'[k].id = f => k = N + 1
      BY <1>1, <1>5, <3>3
    <3> QED
      BY <1>4, <2>1, <3>2, <3>7, <3>8
  <2>2. CASE v # u
    <3>1. pc[v] # "idle" /\ pc'[v] = pc[v] /\ current'[v] = current[v]
      BY <1>4, <2>2 DEF Holding
    <3>2. PICK f, k : f = Held(v) /\ k = current[v]
      OBVIOUS
    <3>3. k \in 1..N /\ Con(v) \in Cons \ {c} /\ Con(v)' = Con(v) /\ Held(v)' = f
      BY <1>8, <2>2, <3>1, <3>2
    <3>4. f \in Frames /\ frame'[f].con = Con(v) /\ frame'[f].status # {}
      BY <3>3 DEF Holding
    <3>5. frame'[f] = frame[f]
      <4>1. ASSUME NEW g \in Frames,
                   frame' = [frame EXCEPT ![g].con = c, ![g].status = {"scheduled"}]
            PROVE  frame'[f] = frame[f]
        <5>1. frame \in [Frames -> FrameRecords]
          BY DEF IInv, TypeOK
        <5>2. g = f => frame'[f].con = c
          BY <3>4, <4>1, <5>1 DEF FrameRecords
        <5> QED
          BY <3>3, <3>4, <4>1, <5>1, <5>2
      <4> QED
        BY <1>11, <4>1
    <3>6. Holding(v)
      BY <3>1, <3>2, <3>3, <3>4, <3>5 DEF Holding
    <3>7. First(k)
      <4>1. \A l \in 1..(k - 1) : calls'[l].id # calls'[k].id
        BY <3>1, <3>2 DEF First
      <4>2. \A l \in 1..(k - 1) : l \in 1..N
        BY <1>1, <3>3
      <4> QED
        BY <1>1, <3>3, <4>1, <4>2 DEF First
    <3>8. /\ \A j \in 1..N : calls[j].id = f => j = k
          /\ frame[f].sem > 0 \/ pc[v] = "woken" => "complete" \in frame[f].status
          /\ "complete" \in frame[f].status => frame[f].by = k
      BY <3>2, <3>6, <3>7 DEF UInv, FirstUses, N
    <3>9. frameId'[c] # f
      <4>1. CASE frame' = frame /\ frameId'[c] \in {0, frameId[c]}
        <5>1. ASSUME frameId'[c] = f PROVE FALSE
          <6>1. f # 0 /\ frameId[c] = f
            BY <3>4, <4>1, <5>1 DEF Frames
          <6>2. PICK j \in 1..N : calls[j].con = c /\ calls[j].id = f
            BY <6>1 DEF UInv, CallIds, N
          <6>3. j = k
            BY <3>8, <6>2
          <6> QED
            BY <3>2, <3>3, <6>2, <6>3 DEF Con
        <5> QED
          BY <5>1
      <4>2. CASE \E g \in Frames : frame[g].status = {} /\ frameId'[c] = g
        BY <3>4, <3>5, <4>2
      <4> QED
        BY <1>11, <4>1, <4>2
    <3>10. \A j \in 1..(N + 1) : calls'[j].id = f => j = k
      BY <1>1, <1>2, <1>5, <3>8, <3>9
    <3> QED
      BY <3>1, <3>2, <3>3, <3>5, <3>8, <3>10
  <2> QED
    BY <2>1, <2>2
<1>15. FirstUseIsAcknowledged'
  <2> SUFFICES ASSUME NEW k \in 1..(N + 1), calls'[k].result = "success", calls'[k].con \notin QuietCons,
                      \A l \in 1..(k - 1) : calls'[l].id # calls'[k].id
               PROVE  calls'[k].by = k
    BY <1>1 DEF FirstUseIsAcknowledged
  <2>1. k \in 1..N
    BY <1>2, <1>5
  <2>2. \A l \in 1..(k - 1) : l \in 1..N
    BY <1>1, <2>1
  <2> QED
    BY <1>1, <2>1, <2>2 DEF FirstUseIsAcknowledged, N
<1> QED
  BY <1>9, <1>10, <1>13, <1>14, <1>15 DEF UInv

\* The steps of a caller.
LEMMA ReturnUses ==
  ASSUME IInv, UInv, NEW u \in Users, pc[u] # "idle",
         NEW result \in {"success", "refused", "timeout", "error"},
         NEW by \in 0..MaxCalls, Return(u, result, by),
         \A c \in Cons : frameId'[c] \in {0, frameId[c]},
         \A c \in Cons \ {Con(u)} : frameId'[c] = frameId[c]
  PROVE  CallMoves
<1>1. /\ SameIds /\ pc'[u] = "idle"
      /\ \A v \in Users \ {u} : pc'[v] = pc[v] /\ current'[v] = current[v]
  BY ReturnIds
<1>2. ASSUME NEW v \in Users, pc'[v] # "idle"
      PROVE  /\ pc[v] # "idle" /\ current'[v] = current[v] /\ frameId'[Con(v)] = frameId[Con(v)]
             /\ pc'[v] = pc[v]
  <2>1. v \in Users \ {u} /\ pc[v] # "idle" /\ pc'[v] = pc[v]
    BY <1>1, <1>2
  <2>2. Con(v) \in Cons \ {Con(u)}
    BY <2>1, OtherFrames
  <2> QED
    BY <1>1, <2>1, <2>2
<1> QED
  BY <1>1, <1>2 DEF CallMoves

LEMMA StillAcknowledged ==
  ASSUME FirstUseIsAcknowledged, SameIds, IInv,
         \A k \in 1..Len(calls) :
           \/ calls'[k].result = calls[k].result /\ calls'[k].by = calls[k].by
           \/ calls'[k].result # "success"
           \/ calls[k].con \in QuietCons
           \/ First(k) => calls'[k].by = k
  PROVE  FirstUseIsAcknowledged'
<1> SUFFICES ASSUME NEW k \in 1..Len(calls'), calls'[k].result = "success",
                    calls'[k].con \notin QuietCons,
                    \A l \in 1..(k - 1) : calls'[l].id # calls'[k].id
             PROVE  calls'[k].by = k
  BY DEF FirstUseIsAcknowledged
<1>1. k \in 1..Len(calls) /\ calls'[k].con = calls[k].con /\ calls'[k].id = calls[k].id
  BY DEF SameIds, SameCalls
<1>2. \A l \in 1..(k - 1) : l \in 1..Len(calls)
  BY <1>1 DEF IInv, TypeOK
<1>3. First(k)
  BY <1>1, <1>2 DEF First, SameIds
<1> QED
  BY <1>1, <1>3 DEF First, FirstUseIsAcknowledged

\* A caller that returns without a status to go by.
LEMMA PlainReturn ==
  ASSUME IInv, UInv, FirstUseIsAcknowledged, NEW u \in Users, pc[u] # "idle",
         NEW result \in {"success", "error"}, Return(u, result, 0),
         result = "error" \/ Con(u) \in QuietCons,
         UNCHANGED <<frame, frameId, rxList, frameInfo>>
  PROVE  UInv' /\ FirstUseIsAcknowledged'
<1>0. result \in {"success", "refused", "timeout", "error"} /\ 0 \in 0..MaxCalls
  OBVIOUS
<1>1. /\ SameIds
      /\ \A k \in 1..Len(calls) : k # current[u] => calls'[k] = calls[k]
      /\ calls'[current[u]].result = result
  BY <1>0, ReturnIds
<1>2. CallMoves
  BY <1>0, ReturnUses
<1>3. FrameMoves
  BY DEF FrameMoves
<1>4. UInv'
  BY <1>1, <1>2, <1>3, UsesKept, MessageIdsKept DEF UInv
<1>5. FirstUseIsAcknowledged'
  <2>1. \A k \in 1..Len(calls) :
          \/ calls'[k].result = calls[k].result /\ calls'[k].by = calls[k].by
          \/ calls'[k].result # "success"
          \/ calls[k].con \in QuietCons
    BY <1>1 DEF Con
  <2> QED
    BY <1>1, <2>1, StillAcknowledged
<1> QED
  BY <1>4, <1>5

\* A step within a call: its result is not set yet.
LEMMA WithinCall ==
  ASSUME IInv, UInv, FirstUseIsAcknowledged, NEW u \in Users, pc[u] # "idle", pc'[u] # "idle",
         SameIds, \A k \in 1..Len(calls) :
                    calls'[k].result = calls[k].result /\ calls'[k].by = calls[k].by,
         \A v \in Users \ {u} : pc'[v] = pc[v],
         pc'[u] = "queued" => Con(u) \in QuietCons,
         pc'[u] = "woken" => frame[Held(u)].sem > 0,
         UNCHANGED <<current, frameId, rxList, frameInfo>>, FrameMoves
  PROVE  UInv' /\ FirstUseIsAcknowledged'
<1>1. \A v \in Users : pc'[v] # "idle" =>
        /\ pc[v] # "idle" /\ current'[v] = current[v] /\ frameId'[Con(v)] = frameId[Con(v)]
        /\ pc'[v] = "queued" => pc[v] = "queued" \/ Con(v) \in QuietCons
        /\ pc'[v] = "woken" => pc[v] = "woken" \/ frame[Held(v)].sem > 0
  OBVIOUS
<1>2. CallMoves
  BY <1>1 DEF CallMoves
<1>3. UInv'
  BY <1>2, UsesKept, MessageIdsKept DEF UInv
<1> QED
  BY <1>3, StillAcknowledged

LEMMA BufferUses ==
  ASSUME IInv, UInv, FirstUseIsAcknowledged, NEW u \in Users, TxQueueBuffer(u) \/ TxDone(u)
  PROVE  UInv' /\ FirstUseIsAcknowledged'
<1>1. pc[u] # "idle" /\ UNCHANGED <<frame, current, frameId, rxList, frameInfo>>
  BY DEF TxQueueBuffer, TxDone, frameVars, rxVars
<1>2. PICK buf \in {"queued", "freed"} : calls' = [calls EXCEPT ![current[u]].buf = buf]
  BY DEF TxQueueBuffer, TxDone
<1>3. current[u] \in 1..Len(calls)
  BY <1>1 DEF IInv, Owning
<1>4. SameIds /\ \A k \in 1..Len(calls) :
                   calls'[k].result = calls[k].result /\ calls'[k].by = calls[k].by
  BY <1>2, <1>3, BufferIds
<1>5. PICK place \in {"queued", "sending", "sent"} :
        /\ pc' = [pc EXCEPT ![u] = place]
        /\ place = "queued" => Con(u) \in QuietCons
  BY DEF TxQueueBuffer, TxDone
<1>6. pc'[u] = place /\ \A v \in Users \ {u} : pc'[v] = pc[v]
  BY <1>5 DEF IInv, TypeOK
<1>7. FrameMoves
  BY <1>1 DEF FrameMoves
<1> QED
  BY <1>1, <1>4, <1>5, <1>6, <1>7, WithinCall

\* The frame a caller holds was given to a call, its own.
LEMMA HeldIsUsed ==
  ASSUME IInv, CallIds, NEW u \in Users, pc[u] # "idle"
  PROVE  \E k \in 1..Len(calls) : calls[k].id = Held(u)
<1>1. current[u] \in 1..Len(calls)
  BY DEF IInv, Owning
<1> QED
  BY <1>1 DEF CallIds

LEMMA WaitUses ==
  ASSUME IInv, UInv, FirstUseIsAcknowledged, NEW u \in Users, FrameWait(u)
  PROVE  UInv' /\ FirstUseIsAcknowledged'
<1>1. pc[u] = "sent" /\ UNCHANGED <<frameId, rxList, frameInfo>>
  BY DEF FrameWait, rxVars
<1>2. CASE Held(u) \notin LatestOf(Con(u))
  <2>1. Return(u, "error", 0) /\ UNCHANGED frame
    BY <1>2 DEF FrameWait, Held
  <2> QED
    BY <1>1, <2>1, PlainReturn
<1>3. CASE Held(u) \in LatestOf(Con(u))
  <2>1. PICK f : f = Held(u)
    OBVIOUS
  <2>2. /\ frame' = [frame EXCEPT ![f].status = @ \cup {"waiting"}]
        /\ pc' = [pc EXCEPT ![u] = "waiting"]
        /\ UNCHANGED <<current, calls>>
    BY <1>3, <2>1 DEF FrameWait, Held
  <2>3. f \in Frames /\ frame[f].status # {}
    BY <1>3, <2>1 DEF LatestOf, FramesOf
  <2>4. frame \in [Frames -> FrameRecords] /\ frame[f] \in FrameRecords
    BY <2>3 DEF IInv, TypeOK
  <2>5. GoesOn(f) /\ \A g \in Frames : g # f => frame'[g] = frame[g]
    BY <2>2, <2>3, <2>4 DEF GoesOn, FrameRecords
  <2>6. FrameMoves
    BY <1>1, <2>1, <2>5, HeldIsUsed DEF FrameMoves, UInv
  <2>7. pc'[u] = "waiting" /\ \A v \in Users \ {u} : pc'[v] = pc[v]
    BY <2>2 DEF IInv, TypeOK
  <2>8. SameIds
    BY <2>2 DEF SameIds, SameCalls
  <2> QED
    BY <1>1, <2>2, <2>6, <2>7, <2>8, WithinCall
<1> QED
  BY <1>2, <1>3

LEMMA WakeUses ==
  ASSUME IInv, UInv, FirstUseIsAcknowledged, NEW u \in Users, FrameWake(u) \/ FrameTimeout(u)
  PROVE  UInv' /\ FirstUseIsAcknowledged'
<1>1. /\ pc[u] = "waiting" /\ UNCHANGED <<frameId, current, calls, rxList, frameInfo>>
  BY DEF FrameWake, FrameTimeout, frameVars, rxVars
<1>2. PICK place \in {"woken", "timedout"} :
        /\ pc' = [pc EXCEPT ![u] = place]
        /\ place = "woken" => frame[Held(u)].sem > 0
  BY DEF FrameWake, FrameTimeout, Held
<1>3. pc'[u] = place /\ \A v \in Users \ {u} : pc'[v] = pc[v]
  BY <1>2 DEF IInv, TypeOK
<1>4. SameIds
  BY <1>1 DEF SameIds, SameCalls
<1>5. FrameMoves
  <2>1. CASE FrameTimeout(u)
    BY <2>1 DEF FrameTimeout, FrameMoves, frameVars
  <2>2. CASE FrameWake(u)
    <3>1. PICK f : f = Held(u)
      OBVIOUS
    <3>2. frame' = [frame EXCEPT ![f].sem = @ - 1] /\ frame[f].sem > 0
      BY <2>2, <3>1 DEF FrameWake, Held
    <3>3. f \in Frames /\ frame[f].status # {}
      BY <1>1, <3>1 DEF IInv, WaitersOwnTheirFrames, InFrameWait, Held
    <3>4. frame \in [Frames -> FrameRecords] /\ frame[f] \in FrameRecords
      BY <3>3 DEF IInv, TypeOK
    <3>5. GoesOn(f) /\ \A g \in Frames : g # f => frame'[g] = frame[g]
      BY <3>2, <3>3, <3>4 DEF GoesOn, FrameRecords
    <3> QED
      BY <1>1, <3>1, <3>5, HeldIsUsed DEF FrameMoves, UInv
  <2> QED
    BY <2>1, <2>2
<1> QED
  BY <1>1, <1>2, <1>3, <1>4, <1>5, WithinCall

\* A caller leaves its wait: a success is the answer to its own call.
LEMMA LeaveUses ==
  ASSUME IInv, UInv, FirstUseIsAcknowledged, NEW u \in Users, FrameLeave(u)
  PROVE  UInv' /\ FirstUseIsAcknowledged'
<1>1. PICK c, f, complete : /\ c = Con(u) /\ f = frameId[c] /\ complete \in BOOLEAN
                            /\ complete <=> pc[u] = "woken" /\ "complete" \in frame[f].status
  OBVIOUS
<1>2. PICK result, by : /\ result = Outcome(u, f, complete)
                        /\ by = IF complete THEN frame[f].by ELSE 0
  OBVIOUS
<1>3. /\ pc[u] \in {"woken", "timedout"} /\ pc[u] # "idle"
      /\ UNCHANGED <<rxList, frameInfo>>
  BY DEF FrameLeave, rxVars
<1>4. c \in Cons /\ f \in Frames /\ frame[f].con = c /\ "waiting" \in frame[f].status
  <2>1. current[u] \in 1..Len(calls) /\ calls[current[u]] \in CallRecords
    BY <1>3 DEF IInv, Owning, TypeOK
  <2>2. c \in Cons
    BY <1>1, <2>1 DEF CallRecords, Con
  <2> QED
    BY <1>1, <1>3, <2>2 DEF IInv, WaitersOwnTheirFrames, InFrameWait
<1>5. /\ frame' = [frame EXCEPT
                     ![f].con = Nobody,
                     ![f].status = IF complete THEN {} ELSE @ \ {"waiting"},
                     ![f].by = IF complete THEN 0 ELSE @]
      /\ frameId' = [frameId EXCEPT ![c] = 0]
      /\ Return(u, result, by)
  BY <1>1, <1>2 DEF FrameLeave
<1>6. frame \in [Frames -> FrameRecords] /\ frame[f] \in FrameRecords
  BY <1>4 DEF IInv, TypeOK
<1>7. Quits(f) /\ \A g \in Frames : g # f => frame'[g] = frame[g]
  BY <1>4, <1>5, <1>6 DEF Quits, FrameRecords
<1>8. FrameMoves
  BY <1>1, <1>3, <1>7, HeldIsUsed DEF FrameMoves, UInv, Held
<1>9. result \in {"success", "refused", "timeout", "error"} /\ by \in 0..MaxCalls
  BY <1>2, <1>6 DEF Outcome, FrameRecords
<1>10. /\ \A d \in Cons : frameId'[d] \in {0, frameId[d]}
       /\ \A d \in Cons \ {Con(u)} : frameId'[d] = frameId[d]
  BY <1>1, <1>5 DEF IInv, TypeOK
<1>11. CallMoves
  BY <1>3, <1>5, <1>9, <1>10, ReturnUses
<1>12. /\ SameIds
       /\ \A k \in 1..Len(calls) : k # current[u] => calls'[k] = calls[k]
       /\ calls'[current[u]].result = result /\ calls'[current[u]].by = by
  BY <1>3, <1>5, <1>9, ReturnIds
<1>13. UInv'
  BY <1>3, <1>8, <1>11, <1>12, UsesKept, MessageIdsKept DEF UInv
<1>14. result = "success" /\ First(current[u]) => by = current[u]
  <2> SUFFICES ASSUME result = "success", First(current[u]) PROVE by = current[u]
    OBVIOUS
  <2>1. pc[u] = "woken"
    BY <1>2, <1>3 DEF Outcome
  <2>2. Holding(u) /\ Held(u) = f
    BY <1>1, <1>3, <1>4 DEF Holding, Held
  <2>3. "complete" \in frame[f].status /\ frame[f].by = current[u]
    BY <2>1, <2>2 DEF UInv, FirstUses
  <2> QED
    BY <1>1, <1>2, <2>1, <2>3
<1>15. \A k \in 1..Len(calls) :
         \/ calls'[k].result = calls[k].result /\ calls'[k].by = calls[k].by
         \/ calls'[k].result # "success"
         \/ First(k) => calls'[k].by = k
  BY <1>12, <1>14
<1> QED
  BY <1>12, <1>13, <1>15, StillAcknowledged

-----------------------------------------------------------------------------
\* The threads of the library and the board: they end no call.
LEMMA OthersUses ==
  ASSUME IInv, UInv, FirstUseIsAcknowledged, SameIds,
         \A k \in 1..Len(calls) :
           calls'[k].result = calls[k].result /\ calls'[k].by = calls[k].by,
         UNCHANGED <<frameId, pc, current>>, FrameMoves, MessageIds'
  PROVE  UInv' /\ FirstUseIsAcknowledged'
<1>1. CallMoves
  BY DEF CallMoves
<1>2. UInv'
  BY <1>1, UsesKept DEF UInv
<1> QED
  BY <1>2, StillAcknowledged

LEMMA TxThreadUses ==
  ASSUME IInv, UInv, FirstUseIsAcknowledged, TxThread
  PROVE  UInv' /\ FirstUseIsAcknowledged'
<1>1. UNCHANGED <<frame, frameId, pc, current, rxList, frameInfo>>
  BY DEF TxThread, TxWrite, TxWriteFails, TxRelease, frameVars, callVars, rxVars
<1>2. FrameMoves
  BY <1>1 DEF FrameMoves
<1>3. SameIds /\ \A k \in 1..Len(calls) :
                   calls'[k].result = calls[k].result /\ calls'[k].by = calls[k].by
  <2>1. CASE TxWrite
    BY <2>1 DEF TxWrite, SameIds, SameCalls, callVars
  <2>2. CASE TxWriteFails
    <3>1. /\ bufList # <<>> /\ bufList \in Seq(1..Len(calls))
          /\ calls' = [calls EXCEPT ![Head(bufList)].buf = "lost"]
      BY <2>2 DEF TxWriteFails, IInv, TypeOK
    <3>2. Head(bufList) \in 1..Len(calls)
      BY <3>1
    <3> QED
      BY <3>1, <3>2, BufferIds
  <2>3. CASE TxRelease
    <3>1. PICK buf \in {"freed", "posted"} : calls' = [calls EXCEPT ![txBuf].buf = buf]
      BY <2>3 DEF TxRelease
    <3>2. txBuf \in 1..Len(calls)
      BY <2>3 DEF TxRelease, IInv, TypeOK
    <3> QED
      BY <3>1, <3>2, BufferIds
  <2> QED
    BY <2>1, <2>2, <2>3 DEF TxThread
<1>4. MessageIds'
  BY <1>1, <1>3, MessageIdsKept DEF UInv
<1> QED
  BY <1>1, <1>2, <1>3, <1>4, OthersUses

LEMMA BoardUses ==
  ASSUME IInv, UInv, FirstUseIsAcknowledged, Board
  PROVE  UInv' /\ FirstUseIsAcknowledged'
<1>1. UNCHANGED <<frame, frameId, pc, current, calls, frameInfo>>
  BY DEF Board, Answer, UnknownMessage, frameVars, callVars
<1>2. FrameMoves
  BY <1>1 DEF FrameMoves
<1>3. SameIds
  BY <1>1 DEF SameIds, SameCalls
<1>4. rxList \in Seq(Messages)
  BY DEF IInv, TypeOK
<1>5. PICK m \in Messages :
        /\ rxList' = Append(rxList, m)
        /\ m.kind = "status" => m.by \in 1..Len(calls) /\ calls[m.by].id = m.id
  <2>1. ASSUME NEW k \in air, NEW retVal \in {0, 1}, Answer(k, retVal)
        PROVE  \E m \in Messages :
                 /\ rxList' = Append(rxList, m)
                 /\ m.kind = "status" => m.by \in 1..Len(calls) /\ calls[m.by].id = m.id
    <3>1. k \in 1..Len(calls) /\ Len(calls) <= MaxCalls /\ Len(calls) \in Nat
      BY DEF IInv, TypeOK
    <3>2. calls[k] \in CallRecords /\ k \in 0..MaxCalls
      BY <3>1 DEF IInv, TypeOK
    <3>3. PICK m : m = [kind |-> "status", id |-> calls[k].id, retVal |-> retVal, by |-> k]
      OBVIOUS
    <3>4. m \in Messages /\ m.by = k /\ m.id = calls[k].id
      BY <3>2, <3>3 DEF Messages, CallRecords
    <3>5. rxList' = Append(rxList, m)
      BY <2>1, <3>3 DEF Answer
    <3> QED
      BY <3>1, <3>4, <3>5
  <2>2. CASE UnknownMessage
    <3>1. Unknown \in Messages /\ Unknown.kind # "status"
      BY DEF Unknown, Messages
    <3> QED
      BY <2>2, <3>1 DEF UnknownMessage
  <2> QED
    BY <2>1, <2>2 DEF Board
<1>6. MessageIds'
  <2>1. \A i \in 1..Len(rxList') :
          (i \in 1..Len(rxList) /\ rxList'[i] = rxList[i]) \/ rxList'[i] = m
    BY <1>4, <1>5
  <2> QED
    BY <1>1, <1>5, <2>1 DEF UInv, MessageIds
<1> QED
  BY <1>1, <1>2, <1>3, <1>6, OthersUses

\* What xbee_framePost does to a frame: nothing, free it, or complete the wait of
\* its caller by an answer to a call with the frame's identifier.
LEMMA FramePostMoves ==
  ASSUME IInv, UInv, PostFrameInfo
  PROVE  FrameMoves
<1>1. PICK info \in FrameInfos : info = frameInfo
  BY DEF IInv, TypeOK
<1>2. CASE UNCHANGED frame
  BY <1>2 DEF FrameMoves
<1>3. CASE frame' # frame
  <2>1. info.active /\ FramePost(info)
    BY <1>1, <1>3 DEF PostFrameInfo
  <2>2. PICK f, by : f = info.id /\ by = info.by
    OBVIOUS
  <2>3. f # 0 /\ f \notin Free
    BY <1>3, <2>1, <2>2 DEF FramePost
  <2>4. f \in Frames /\ frame[f].status # {}
    BY <2>2, <2>3 DEF FrameInfos, Frames, Free
  <2>5. by \in 1..Len(calls) /\ calls[by].id = f
    BY <1>1, <2>1, <2>2 DEF UInv, MessageIds
  <2>6. frame \in [Frames -> FrameRecords] /\ frame[f] \in FrameRecords
    BY <2>4 DEF IInv, TypeOK
  <2>7. CASE frame[f].con # Nobody /\ "waiting" \in frame[f].status
    <3>1. frame' = [frame EXCEPT ![f].status = @ \cup {"complete"}, ![f].retVal = info.retVal,
                                 ![f].sem = @ + 1, ![f].by = by]
      BY <2>1, <2>2, <2>3, <2>7 DEF FramePost
    <3>2. IsPosted(f) /\ \A g \in Frames : g # f => frame'[g] = frame[g]
      BY <2>4, <2>5, <2>6, <3>1 DEF IsPosted, FrameRecords
    <3> QED
      BY <2>5, <3>2 DEF FrameMoves
  <2>8. CASE ~(frame[f].con # Nobody /\ "waiting" \in frame[f].status)
    <3>1. frame' = [frame EXCEPT ![f].status = {}]
      BY <2>1, <2>2, <2>3, <2>8 DEF FramePost
    <3>2. Quits(f) /\ \A g \in Frames : g # f => frame'[g] = frame[g]
      BY <2>4, <2>6, <3>1 DEF Quits, FrameRecords
    <3> QED
      BY <2>5, <3>2 DEF FrameMoves
  <2> QED
    BY <2>7, <2>8
<1> QED
  BY <1>2, <1>3

LEMMA RxHandlerUses ==
  ASSUME IInv, UInv, FirstUseIsAcknowledged, RxHandler
  PROVE  UInv' /\ FirstUseIsAcknowledged'
<1>1. UNCHANGED <<frameId, pc, current, calls>>
  BY DEF RxHandler, PostFrameInfo, HandleMessage, LinkPacket, frameVars, callVars
<1>2. SameIds
  BY <1>1 DEF SameIds, SameCalls
<1>3. FrameMoves
  <2>1. CASE PostFrameInfo
    BY <2>1, FramePostMoves
  <2>2. CASE HandleMessage \/ LinkPacket
    BY <2>2 DEF HandleMessage, LinkPacket, frameVars, FrameMoves
  <2> QED
    BY <2>1, <2>2 DEF RxHandler
<1>4. MessageIds'
  <2>1. CASE UNCHANGED <<rxList, frameInfo>>
    BY <1>2, <2>1, MessageIdsKept DEF UInv
  <2>2. CASE HandleMessage
    <3>1. rxList # <<>> /\ rxList \in Seq(Messages) /\ rxList' = Tail(rxList)
      BY <2>2 DEF HandleMessage, IInv, TypeOK
    <3>2. /\ \A i \in 1..Len(rxList') : i + 1 \in 1..Len(rxList) /\ rxList'[i] = rxList[i + 1]
          /\ 1 \in 1..Len(rxList) /\ Head(rxList) = rxList[1] /\ rxList[1] \in Messages
      BY <3>1
    <3>3. PICK m \in Messages : m = rxList[1]
      BY <3>2
    <3>4. CASE m.kind = "unknown"
      BY <1>1, <2>2, <3>2, <3>3, <3>4 DEF HandleMessage, UInv, MessageIds
    <3>5. CASE m.kind = "status"
      <4>1. m.by \in 1..Len(calls) /\ calls[m.by].id = m.id
        BY <3>2, <3>3, <3>5 DEF UInv, MessageIds
      <4>2. frameInfo' = [active |-> TRUE, id |-> m.id, retVal |-> m.retVal, by |-> m.by]
        BY <2>2, <3>2, <3>3, <3>5 DEF HandleMessage
      <4>3. frameInfo'.by = m.by /\ frameInfo'.id = m.id
        BY <4>2
      <4> QED
        BY <1>1, <3>2, <4>1, <4>3 DEF UInv, MessageIds
    <3> QED
      BY <3>3, <3>4, <3>5 DEF Messages
  <2> QED
    BY <2>1, <2>2 DEF RxHandler, PostFrameInfo, LinkPacket
<1> QED
  BY <1>1, <1>2, <1>3, <1>4, OthersUses

LEMMA NextKeepsUses ==
  ASSUME IInv, UInv, FirstUseIsAcknowledged, [Next]_vars
  PROVE  UInv' /\ FirstUseIsAcknowledged'
<1>1. ASSUME NEW u \in Users, Caller(u)
      PROVE  UInv' /\ FirstUseIsAcknowledged'
  <2>1. CASE TxFuncFails(u)
    BY <2>1, PlainReturn DEF TxFuncFails, frameVars, rxVars
  <2>2. CASE MarkForFree(u)
    <3>1. Con(u) \in QuietCons
      BY <2>2 DEF MarkForFree, UInv, CallIds
    <3> QED
      BY <2>2, <3>1, PlainReturn DEF MarkForFree, frameVars, rxVars
  <2> QED
    BY <1>1, <2>1, <2>2, BufferUses, WaitUses, WakeUses, LeaveUses DEF Caller
<1>2. ASSUME NEW u \in Users, NEW c \in Cons, ConnTx(u, c)
      PROVE  UInv' /\ FirstUseIsAcknowledged'
  BY <1>2, ConnTxKeepsUses
<1>3. CASE TxThread \/ Board \/ RxHandler
  BY <1>3, TxThreadUses, BoardUses, RxHandlerUses
<1>4. CASE UNCHANGED vars
  <2>1. UNCHANGED <<frame, frameId, pc, current, calls, rxList, frameInfo>>
    BY <1>4 DEF vars, frameVars, callVars, rxVars
  <2>2. SameIds /\ FrameMoves
    BY <2>1 DEF SameIds, SameCalls, FrameMoves
  <2>3. MessageIds'
    BY <2>1, <2>2, MessageIdsKept DEF UInv
  <2> QED
    BY <2>1, <2>2, <2>3, OthersUses
<1> QED
  BY <1>1, <1>2, <1>3, <1>4 DEF Next

LEMMA InitUses == Init => UInv /\ FirstUseIsAcknowledged
BY DEF Init, UInv, CallIds, FrameIds, MessageIds, Unused, FirstUses, Holding, FreeFrame,
       NoInfo, FirstUseIsAcknowledged

\* Until the identifiers have gone round once, a success is the board's answer to the
\* caller's own message, whatever is late, refused or lost (xbee_frameWait,
\* xbee_framePost): the identifier of a call nobody had before stays its own.
THEOREM FirstUsesAreAcknowledged == Spec => []FirstUseIsAcknowledged
<1> DEFINE Inv == IInv /\ UInv /\ FirstUseIsAcknowledged
<1>1. Init => Inv
  BY InitIInv, InitUses
<1>2. Inv /\ [Next]_vars => Inv'
  BY NextKeepsIInv, NextKeepsUses
<1> QED
  BY <1>1, <1>2, PTL DEF Spec

-----------------------------------------------------------------------------
(***************************************************************************)
(* Who waits on a frame marked as waited on.                                *)
(***************************************************************************)
WaitingHasAWaiter ==
  \A f \in Frames : "waiting" \in frame[f].status =>
    \E u \in Users : InFrameWait(u) /\ Held(u) = f

Stays(u) == InFrameWait(u)' /\ Con(u)' = Con(u) /\ Held(u)' = Held(u)

\* The other callers stay where they are, and each has a frame of its own.
LEMMA OthersStay ==
  ASSUME IInv, NEW u \in Users, pc[u] # "idle", SameCalls,
         \A v \in Users \ {u} : pc'[v] = pc[v] /\ current'[v] = current[v],
         \A c \in Cons \ {Con(u)} : frameId'[c] = frameId[c]
  PROVE  \A v \in Users \ {u} : InFrameWait(v) => Stays(v)
<1> SUFFICES ASSUME NEW v \in Users \ {u}, InFrameWait(v) PROVE Stays(v)
  OBVIOUS
<1>1. pc[v] # "idle" /\ InFrameWait(v)'
  BY DEF InFrameWait
<1>2. Con(v) \in Cons \ {Con(u)}
  BY <1>1, OtherFrames
<1>3. Con(v)' = Con(v)
  BY <1>1 DEF Con, IInv, Owning, SameCalls
<1> QED
  BY <1>1, <1>2, <1>3 DEF Stays, Held

\* A step that leaves the frames alone and lets nobody out of xbee_frameWait.
LEMMA NobodyLeaves ==
  ASSUME WaitingHasAWaiter,
         \A f \in Frames : "waiting" \in frame'[f].status => "waiting" \in frame[f].status,
         \A v \in Users : InFrameWait(v) => Stays(v)
  PROVE  WaitingHasAWaiter'
<1> SUFFICES ASSUME NEW f \in Frames, "waiting" \in frame'[f].status
             PROVE  \E v \in Users : InFrameWait(v)' /\ Held(v)' = f
  BY DEF WaitingHasAWaiter, InFrameWait, Held, Con
<1>1. PICK v \in Users : InFrameWait(v) /\ Held(v) = f
  BY DEF WaitingHasAWaiter
<1> QED
  BY <1>1 DEF Stays

LEMMA CallerKeepsWaiters ==
  ASSUME IInv, WaitingHasAWaiter, NEW u \in Users, Caller(u)
  PROVE  WaitingHasAWaiter'
<1>1. pc[u] # "idle"
  BY DEF Caller, TxFuncFails, TxQueueBuffer, MarkForFree, TxDone, FrameWait, FrameWake,
         FrameTimeout, FrameLeave
<1>2. current[u] \in 1..Len(calls)
  BY <1>1 DEF IInv, Owning
<1>3. CASE \E result \in {"success", "error"} :
             ~InFrameWait(u) /\ Return(u, result, 0) /\ UNCHANGED <<frame, frameId>>
  <2>1. PICK result \in {"success", "error"} :
          ~InFrameWait(u) /\ Return(u, result, 0) /\ UNCHANGED <<frame, frameId>>
    BY <1>3
  <2>2. result \in {"success", "refused", "timeout", "error"} /\ 0 \in 0..MaxCalls
    OBVIOUS
  <2>3. /\ SameCalls
        /\ \A v \in Users \ {u} : pc'[v] = pc[v] /\ current'[v] = current[v]
    BY <1>1, <2>1, <2>2, ReturnSteps DEF IInv
  <2> QED
    BY <1>1, <2>1, <2>3, OthersStay, NobodyLeaves
<1>4. CASE TxQueueBuffer(u) \/ TxDone(u)
  <2>1. /\ ~InFrameWait(u) /\ UNCHANGED <<frame, frameId, current>>
        /\ \A v \in Users \ {u} : pc'[v] = pc[v]
    BY <1>4 DEF TxQueueBuffer, TxDone, InFrameWait, frameVars, IInv, TypeOK
  <2>2. PICK buf \in {"queued", "freed"} : calls' = [calls EXCEPT ![current[u]].buf = buf]
    BY <1>4 DEF TxQueueBuffer, TxDone
  <2>3. SameCalls
    BY <1>2, <2>2, BufferSteps DEF IInv
  <2> QED
    BY <1>1, <2>1, <2>3, OthersStay, NobodyLeaves
<1>5. CASE FrameWake(u) \/ FrameTimeout(u)
  <2>1. /\ UNCHANGED <<frameId, current, calls>> /\ pc[u] = "waiting"
        /\ \A v \in Users \ {u} : pc'[v] = pc[v]
        /\ pc'[u] \in {"woken", "timedout"}
    BY <1>5 DEF FrameWake, FrameTimeout, frameVars, IInv, TypeOK
  <2>2. \A f \in Frames : frame'[f].status = frame[f].status
    <3>1. CASE UNCHANGED frame
      BY <3>1
    <3>2. CASE FrameWake(u)
      <4>1. PICK g : g = frameId[Con(u)]
        OBVIOUS
      <4>2. frame' = [frame EXCEPT ![g].sem = @ - 1] /\ frame \in [Frames -> FrameRecords]
        BY <3>2, <4>1 DEF FrameWake, IInv, TypeOK
      <4> QED
        BY <4>2 DEF FrameRecords
    <3> QED
      BY <1>5, <3>1, <3>2 DEF FrameTimeout, frameVars
  <2>3. SameCalls
    BY <2>1 DEF SameCalls
  <2>4. Stays(u)
    BY <2>1 DEF Stays, InFrameWait, Held, Con
  <2> QED
    BY <1>1, <2>1, <2>2, <2>3, <2>4, OthersStay, NobodyLeaves
<1>6. CASE FrameWait(u) /\ Held(u) \in LatestOf(Con(u))
  <2>1. PICK f : f = Held(u)
    OBVIOUS
  <2>2. /\ frame' = [frame EXCEPT ![f].status = @ \cup {"waiting"}]
        /\ pc' = [pc EXCEPT ![u] = "waiting"]
        /\ UNCHANGED <<current, calls, frameId>>
    BY <1>6, <2>1 DEF FrameWait, Held
  <2>3. /\ pc'[u] = "waiting" /\ \A v \in Users \ {u} : pc'[v] = pc[v]
        /\ \A g \in Frames : g # f => frame'[g] = frame[g]
    BY <2>2 DEF IInv, TypeOK
  <2>4. SameCalls
    BY <2>2 DEF SameCalls
  <2>5. InFrameWait(u)' /\ Held(u)' = f
    BY <2>1, <2>2, <2>3 DEF InFrameWait, Held, Con
  <2>6. \A v \in Users \ {u} : InFrameWait(v) => Stays(v)
    BY <1>1, <2>2, <2>3, <2>4, OthersStay
  <2>7. ~InFrameWait(u)
    BY <1>6 DEF FrameWait, InFrameWait
  <2> SUFFICES ASSUME NEW g \in Frames, "waiting" \in frame'[g].status
               PROVE  \E v \in Users : InFrameWait(v)' /\ Held(v)' = g
    BY DEF WaitingHasAWaiter, InFrameWait, Held, Con
  <2>8. CASE g = f
    BY <2>5, <2>8
  <2>9. CASE g # f
    <3>1. PICK v \in Users : InFrameWait(v) /\ Held(v) = g
      BY <2>3, <2>9 DEF WaitingHasAWaiter
    <3> QED
      BY <2>6, <2>7, <3>1 DEF Stays
  <2> QED
    BY <2>8, <2>9
<1>7. CASE FrameLeave(u)
  <2>1. PICK c, f, complete :
          /\ c = Con(u) /\ f = frameId[c] /\ complete \in BOOLEAN
          /\ complete <=> pc[u] = "woken" /\ "complete" \in frame[f].status
    OBVIOUS
  <2>2. PICK result, by : /\ result = Outcome(u, f, complete)
                          /\ by = IF complete THEN frame[f].by ELSE 0
    OBVIOUS
  <2>3. /\ frame' = [frame EXCEPT
                       ![f].con = Nobody,
                       ![f].status = IF complete THEN {} ELSE @ \ {"waiting"},
                       ![f].by = IF complete THEN 0 ELSE @]
        /\ frameId' = [frameId EXCEPT ![c] = 0]
        /\ Return(u, result, by)
        /\ InFrameWait(u)
    BY <1>7, <2>1, <2>2 DEF FrameLeave, InFrameWait
  <2>4. f \in Frames /\ frame \in [Frames -> FrameRecords] /\ frame[f] \in FrameRecords
    BY <2>1, <2>3 DEF IInv, WaitersOwnTheirFrames, TypeOK
  <2>5. "waiting" \notin frame'[f].status /\ \A g \in Frames : g # f => frame'[g] = frame[g]
    BY <2>3, <2>4 DEF FrameRecords
  <2>6. result \in {"success", "refused", "timeout", "error"} /\ by \in 0..MaxCalls
    BY <2>2, <2>4 DEF Outcome, FrameRecords
  <2>7. /\ SameCalls
        /\ \A v \in Users \ {u} : pc'[v] = pc[v] /\ current'[v] = current[v]
    BY <1>1, <2>3, <2>6, ReturnSteps DEF IInv
  <2>8. \A d \in Cons \ {Con(u)} : frameId'[d] = frameId[d]
    BY <2>1, <2>3 DEF IInv, TypeOK
  <2>9. \A v \in Users \ {u} : InFrameWait(v) => Stays(v)
    BY <1>1, <2>7, <2>8, OthersStay
  <2> SUFFICES ASSUME NEW g \in Frames, "waiting" \in frame'[g].status
               PROVE  \E v \in Users : InFrameWait(v)' /\ Held(v)' = g
    BY DEF WaitingHasAWaiter, InFrameWait, Held, Con
  <2>10. g # f
    BY <2>5
  <2>11. PICK v \in Users : InFrameWait(v) /\ Held(v) = g
    BY <2>5, <2>10 DEF WaitingHasAWaiter
  <2>12. v # u
    BY <2>1, <2>10, <2>11 DEF Held
  <2> QED
    BY <2>9, <2>11, <2>12 DEF Stays
<1>8. CASE TxFuncFails(u) \/ MarkForFree(u) \/ (FrameWait(u) /\ Held(u) \notin LatestOf(Con(u)))
  BY <1>3, <1>8 DEF TxFuncFails, MarkForFree, FrameWait, InFrameWait, frameVars, Held
<1> QED
  BY <1>4, <1>5, <1>6, <1>7, <1>8 DEF Caller

LEMMA ConnTxKeepsWaiters ==
  ASSUME IInv, WaitingHasAWaiter, NEW u \in Users, NEW c \in Cons, ConnTx(u, c)
  PROVE  WaitingHasAWaiter'
<1>1. \A f \in Frames : "waiting" \in frame'[f].status => "waiting" \in frame[f].status
  <2>1. CASE frame' = frame
    BY <2>1
  <2>2. CASE \E g \in Frames :
               frame' = [frame EXCEPT ![g].con = c, ![g].status = {"scheduled"}]
    <3>1. PICK g \in Frames :
            frame' = [frame EXCEPT ![g].con = c, ![g].status = {"scheduled"}]
      BY <2>2
    <3>2. frame \in [Frames -> FrameRecords]
      BY DEF IInv, TypeOK
    <3> QED
      BY <3>1, <3>2 DEF FrameRecords
  <2>3. \/ frame' = frame
        \/ \E g \in Frames : frame' = [frame EXCEPT ![g].con = c, ![g].status = {"scheduled"}]
    <3>1. \/ frame' = frame /\ frameId'[c] \in {0, frameId[c]}
          \/ \E f \in Frames :
               /\ frame[f].status = {} /\ frameId'[c] = f
               /\ frame' = [frame EXCEPT ![f].con = c, ![f].status = {"scheduled"}]
      BY ConnTxFrames
    <3> QED
      BY <3>1, Zenon
  <2> QED
    BY <2>1, <2>2, <2>3, Zenon
<1>2. ASSUME NEW v \in Users, InFrameWait(v)
      PROVE  Stays(v)
  <2>1. /\ pc[u] = "idle" /\ txMutex[c] = Nobody
        /\ pc' = [pc EXCEPT ![u] = "begin"] /\ current' = [current EXCEPT ![u] = Len(calls) + 1]
    BY DEF ConnTx
  <2>2. v # u /\ pc[v] # "idle"
    BY <1>2, <2>1 DEF InFrameWait
  <2>3. pc'[v] = pc[v] /\ current'[v] = current[v]
    BY <2>1, <2>2 DEF IInv, TypeOK
  <2>4. current[v] \in 1..Len(calls) /\ txMutex[Con(v)] = v /\ calls[current[v]] \in CallRecords
    BY <2>2 DEF IInv, Owning, TypeOK
  <2>5. Con(v) \in Cons \ {c}
    BY <2>1, <2>4 DEF Con, CallRecords
  <2>6. Con(v)' = Con(v)
    BY <2>3, <2>4, ConnTxSteps DEF Con, IInv
  <2>7. frameId'[Con(v)] = frameId[Con(v)]
    BY <2>5, ConnTxSteps DEF IInv
  <2> QED
    BY <1>2, <2>3, <2>6, <2>7 DEF Stays, InFrameWait, Held
<1> QED
  BY <1>1, <1>2, NobodyLeaves

LEMMA NextKeepsWaiters ==
  ASSUME IInv, WaitingHasAWaiter, [Next]_vars
  PROVE  WaitingHasAWaiter'
<1>1. ASSUME UNCHANGED <<frameId, pc, current>>, SameCalls,
             \A f \in Frames : "waiting" \in frame'[f].status => "waiting" \in frame[f].status
      PROVE  WaitingHasAWaiter'
  <2>1. ASSUME NEW v \in Users, InFrameWait(v) PROVE Stays(v)
    <3>1. current[v] \in 1..Len(calls)
      BY <2>1 DEF InFrameWait, IInv, Owning
    <3>2. Con(v)' = Con(v)
      BY <1>1, <3>1 DEF Con, SameCalls
    <3> QED
      BY <1>1, <2>1, <3>2 DEF Stays, InFrameWait, Held
  <2> QED
    BY <1>1, <2>1, NobodyLeaves
<1>2. CASE TxThread
  <2>1. UNCHANGED <<frame, frameId, pc, current>>
    BY <1>2 DEF TxThread, TxWrite, TxWriteFails, TxRelease, frameVars, callVars
  <2>2. SameCalls
    <3>1. CASE UNCHANGED calls
      BY <3>1 DEF SameCalls
    <3>2. CASE TxWriteFails
      <4>1. /\ bufList # <<>> /\ bufList \in Seq(1..Len(calls))
            /\ calls' = [calls EXCEPT ![Head(bufList)].buf = "lost"]
        BY <3>2 DEF TxWriteFails, IInv, TypeOK
      <4>2. Head(bufList) \in 1..Len(calls)
        BY <4>1
      <4> QED
        BY <4>1, <4>2, BufferSteps DEF IInv
    <3>3. CASE TxRelease
      <4>1. PICK buf \in {"freed", "posted"} : calls' = [calls EXCEPT ![txBuf].buf = buf]
        BY <3>3 DEF TxRelease
      <4>2. txBuf \in 1..Len(calls)
        BY <3>3 DEF TxRelease, IInv, TypeOK
      <4> QED
        BY <4>1, <4>2, BufferSteps DEF IInv
    <3> QED
      BY <1>2, <3>1, <3>2, <3>3 DEF TxThread, TxWrite, callVars
  <2> QED
    BY <1>1, <2>1, <2>2
<1>3. CASE Board \/ HandleMessage \/ LinkPacket \/ UNCHANGED vars
  BY <1>1, <1>3 DEF Board, Answer, UnknownMessage, HandleMessage, LinkPacket, vars, SameCalls,
     frameVars, callVars
<1>4. CASE PostFrameInfo
  <2>1. UNCHANGED <<frameId, pc, current, calls>>
    BY <1>4 DEF PostFrameInfo, callVars
  <2>2. \A f \in Frames : "waiting" \in frame'[f].status => "waiting" \in frame[f].status
    <3>1. CASE UNCHANGED frame
      BY <3>1
    <3>2. CASE frame' # frame
      <4>1. PICK info \in FrameInfos : FramePost(info)
        BY <1>4, <3>2 DEF PostFrameInfo, IInv, TypeOK
      <4>2. PICK g : g = info.id
        OBVIOUS
      <4>3. frame \in [Frames -> FrameRecords]
        BY DEF IInv, TypeOK
      <4>4. CASE "waiting" \in frame[g].status
        <5>1. frame' = [frame EXCEPT ![g].status = @ \cup {"complete"}, ![g].retVal = info.retVal,
                                     ![g].sem = @ + 1, ![g].by = info.by]
              \/ frame' = [frame EXCEPT ![g].status = {}]
          BY <3>2, <4>1, <4>2 DEF FramePost
        <5>2. \A f \in Frames : f # g => frame'[f] = frame[f]
          BY <4>3, <5>1
        <5> QED
          BY <4>4, <5>2
      <4>5. CASE "waiting" \notin frame[g].status
        <5>1. frame' = [frame EXCEPT ![g].status = {}]
          BY <3>2, <4>1, <4>2, <4>5 DEF FramePost
        <5> QED
          BY <4>3, <5>1 DEF FrameRecords
      <4> QED
        BY <4>4, <4>5
    <3> QED
      BY <3>1, <3>2
  <2> QED
    BY <1>1, <2>1, <2>2 DEF SameCalls
<1> QED
  BY <1>2, <1>3, <1>4, CallerKeepsWaiters, ConnTxKeepsWaiters DEF Next, RxHandler

\* The status that comes when its caller has given up makes the identifier free: a frame
\* marked as waited on has its waiter, so that xbee_framePost never keeps a frame for a
\* caller that has left, and the wait that timed out costs the block no identifier.
THEOREM LateStatusesFree == Spec => LateStatusFreesTheFrame
<1> DEFINE Inv == IInv /\ WaitingHasAWaiter
           Frees == PostFrameInfo /\ frameInfo.active /\ frameInfo.id # 0
                    /\ (\A u \in Users : InFrameWait(u) => frameId[Con(u)] # frameInfo.id)
                    => frame'[frameInfo.id].status = {}
<1>1. Init => Inv
  <2>1. Init => WaitingHasAWaiter
    BY DEF Init, FreeFrame, WaitingHasAWaiter
  <2> QED
    BY <2>1, InitIInv
<1>2. Inv /\ [Next]_vars => Inv'
  BY NextKeepsIInv, NextKeepsWaiters
<1>3. Inv => Frees
  <2> SUFFICES ASSUME Inv, PostFrameInfo, frameInfo.active, frameInfo.id # 0,
                      \A u \in Users : InFrameWait(u) => frameId[Con(u)] # frameInfo.id
               PROVE  frame'[frameInfo.id].status = {}
    OBVIOUS
  <2>1. PICK f \in Frames : f = frameInfo.id
    BY DEF IInv, TypeOK, FrameInfos, Frames
  <2>2. "waiting" \notin frame[f].status
    BY <2>1 DEF WaitingHasAWaiter, Held
  <2>3. frame \in [Frames -> FrameRecords]
    BY DEF IInv, TypeOK
  <2>4. CASE f \in Free
    <3>1. frame' = frame
      BY <2>1, <2>4 DEF PostFrameInfo, FramePost
    <3> QED
      BY <2>1, <2>4, <3>1 DEF Free
  <2>5. CASE f \notin Free
    <3>1. f # 0
      BY DEF Frames
    <3>2. frame' = [frame EXCEPT ![f].status = {}]
      BY <2>1, <2>2, <2>5, <3>1 DEF PostFrameInfo, FramePost
    <3> QED
      BY <2>1, <2>3, <3>2 DEF FrameRecords
  <2> QED
    BY <2>4, <2>5
<1> HIDE DEF Inv
<1>4. Inv => [Frees]_vars
  BY <1>3
<1> QED
  BY <1>1, <1>2, <1>4, PTL DEF Spec, LateStatusFreesTheFrame
=============================================================================
