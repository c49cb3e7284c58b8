------------------------- MODULE XBeeCallbacksProofs -------------------------
(***************************************************************************)
(* Proofs about XBeeCallbacks, for every number of users, connections,      *)
(* packets and calls, as long as a callback is set while no packets wait or *)
(* come for its connection: then the receive handler alone starts threads.  *)
(***************************************************************************)
EXTENDS XBeeCallbacks, FiniteSetTheorems, TLAPS

\* Callbacks are set when no packet can be prodding their thread.
SetEarly == ~LateSet

Places == {"created", "top", "callback", "wait", "leaving", "ended", "gone"}
Dead == {"ended", "gone"}
Prodding == {"prod", "check", "join", "joining", "start"}
Ending == {"end", "endjoin", "killed", "endjoining", "free"}

ConRec == [callback : BOOLEAN, pktList : Seq(Nat), callbackSem : Nat,
           ending : BOOLEAN, thread : Nat]
ThreadRec == [con : Cons, place : Places, active : BOOLEAN, cancelled : BOOLEAN]
Pcs == {"idle", "link"} \cup Prodding \cup Ending
JobRec == [pc : Pcs, con : Cons \cup {"none"},
           thread : Nat, packet : Nat]

Types ==
  /\ conList \subseteq Cons /\ linked \subseteq Cons
  /\ con \in [Cons -> ConRec]
  /\ threads \in Seq(ThreadRec)
  /\ job \in [Actors -> JobRec]
  /\ \A a \in Actors : job[a].pc # "idle" => job[a].con \in Cons
  /\ received \in Nat
  /\ begun \in [Cons -> Seq(Nat)]

\* Users' prods find nothing; each thread is the receive handler's.
OneProdder ==
  /\ job[Rx].pc \in {"idle", "link"} \cup Prodding
  /\ \A u \in Users :
       /\ job[u].pc \in {"idle", "prod"} \cup Ending
       /\ job[u].pc = "prod" =>
            /\ con[job[u].con].pktList = <<>>
            /\ ~(job[Rx].pc # "idle" /\ job[Rx].con = job[u].con)

\* A thread that lives is the one its connection knows.
ThreadsInv ==
  \A t \in 1..Len(threads) :
    /\ threads[t].active => threads[t].place \notin {"created"} \cup Dead
    /\ threads[t].cancelled => threads[t].place # "created" /\ ~threads[t].active
    /\ threads[t].place \notin Dead => con[threads[t].con].thread = t

Handles ==
  \A c \in Cons : con[c].thread # 0 =>
    con[c].thread \in 1..Len(threads) /\ threads[con[c].thread].con = c

\* A thread is joined by one actor, and its connection knows it until then.
Joining ==
  /\ \A a \in Actors : job[a].pc \in Joins =>
       /\ job[a].con \in Cons
       /\ job[a].thread # 0 /\ con[job[a].con].thread = job[a].thread
  /\ \A a, b \in Actors :
       job[a].pc \in Joins /\ job[b].pc \in Joins /\ job[a].con = job[b].con => a = b

Starter == job[Rx].pc = "start" => con[job[Rx].con].thread = 0

NoneCancelled(c) ==
  \A t \in 1..Len(threads) :
    threads[t].con = c /\ threads[t].cancelled => threads[t].place \in Dead

\* A connection is ended by one user, who frees it after its cancelled thread
\* has ended.
Ends ==
  /\ \A u \in Users : job[u].pc \in Ending => job[u].con \notin linked
  /\ \A u, v \in Users :
       job[u].pc \in Ending /\ job[v].pc \in Ending /\ job[u].con = job[v].con => u = v
  /\ \A u \in Users : job[u].pc = "free" => NoneCancelled(job[u].con)
  /\ \A c \in Cons : c \notin conList => NoneCancelled(c)

LifeInv == Types /\ OneProdder /\ ThreadsInv /\ Handles /\ Joining /\ Starter /\ Ends

-----------------------------------------------------------------------------
(***************************************************************************)
(* Types.                                                                   *)
(***************************************************************************)
LEMMA JobMoves ==
  ASSUME Types, NEW a \in Actors
  PROVE  /\ \A pc \in Pcs :
              Goto(a, pc) => /\ job' \in [Actors -> JobRec]
                             /\ job'[a] = [job[a] EXCEPT !.pc = pc]
                             /\ \A b \in Actors : b # a => job'[b] = job[b]
         /\ Done(a) => /\ job' \in [Actors -> JobRec]
                       /\ job'[a] = Idle
                       /\ \A b \in Actors : b # a => job'[b] = job[b]
<1>1. Idle \in JobRec
  BY DEF Idle, JobRec, Pcs
<1>2. job[a] \in JobRec
  BY DEF Types
<1>3. ASSUME NEW pc \in Pcs, Goto(a, pc)
      PROVE  /\ job' \in [Actors -> JobRec]
             /\ job'[a] = [job[a] EXCEPT !.pc = pc]
             /\ \A b \in Actors : b # a => job'[b] = job[b]
  <2>1. [job[a] EXCEPT !.pc = pc] \in JobRec
    BY <1>2 DEF JobRec
  <2>2. job' = [job EXCEPT ![a] = [job[a] EXCEPT !.pc = pc]]
    BY <1>3 DEF Goto
  <2> QED BY <2>1, <2>2 DEF Types
<1>4. Done(a) => /\ job' \in [Actors -> JobRec]
                 /\ job'[a] = Idle
                 /\ \A b \in Actors : b # a => job'[b] = job[b]
  BY <1>1 DEF Types, Done
<1> QED BY <1>3, <1>4

LEMMA GotoFacts ==
  ASSUME Types, NEW a \in Actors, NEW pc \in Pcs, Goto(a, pc)
  PROVE  /\ job' \in [Actors -> JobRec] /\ \A b \in Actors : b # a => job'[b] = job[b]
         /\ job'[a].pc = pc /\ job'[a].con = job[a].con
         /\ job'[a].thread = job[a].thread /\ job'[a].packet = job[a].packet
<1>1. job[a] \in JobRec
  BY DEF Types
<1>2. /\ job' \in [Actors -> JobRec] /\ \A b \in Actors : b # a => job'[b] = job[b]
      /\ job'[a] = [job[a] EXCEPT !.pc = pc]
  BY JobMoves
<1> QED BY <1>1, <1>2 DEF JobRec

LEMMA DoneFacts ==
  ASSUME Types, NEW a \in Actors, Done(a)
  PROVE  /\ job' \in [Actors -> JobRec] /\ \A b \in Actors : b # a => job'[b] = job[b]
         /\ job'[a].pc = "idle"
BY JobMoves DEF Idle

LEMMA Replacing ==
  ASSUME NEW S, NEW s \in Seq(S), NEW i \in 1..Len(s), NEW x \in S
  PROVE  LET t == [s EXCEPT ![i] = x]
         IN  /\ t \in Seq(S) /\ Len(t) = Len(s) /\ t[i] = x
             /\ \A j \in 1..Len(s) : j # i => t[j] = s[j]
OBVIOUS

\* What moving a thread on does.
LEMMA Moves ==
  ASSUME Types, NEW t \in 1..Len(threads), NEW place \in Places, Move(t, place)
  PROVE  /\ threads' \in Seq(ThreadRec) /\ Len(threads') = Len(threads)
         /\ threads'[t] = [threads[t] EXCEPT !.place = place]
         /\ \A s \in 1..Len(threads) : s # t => threads'[s] = threads[s]
<1>0. threads[t] \in ThreadRec
  BY DEF Types
<1>1. [threads[t] EXCEPT !.place = place] \in ThreadRec
  BY <1>0 DEF ThreadRec
<1>2. threads' = [threads EXCEPT ![t] = [threads[t] EXCEPT !.place = place]]
  BY DEF Move
<1> QED BY <1>1, <1>2, Replacing DEF Types

LEMMA ThreadTypes ==
  ASSUME Types
  PROVE  \A t \in 1..Len(threads) :
           /\ threads[t] \in ThreadRec /\ threads[t].con \in Cons
           /\ threads[t].active \in BOOLEAN /\ threads[t].cancelled \in BOOLEAN
<1>1. \A t \in 1..Len(threads) : threads[t] \in ThreadRec
  BY DEF Types
<1> QED BY <1>1 DEF ThreadRec

\* What changing a connection does.
LEMMA Changing ==
  ASSUME Types, NEW c \in Cons, NEW x \in ConRec, con' = [con EXCEPT ![c] = x]
  PROVE  /\ con' \in [Cons -> ConRec] /\ con'[c] = x
         /\ \A d \in Cons : d # c => con'[d] = con[d]
BY DEF Types

\* An actor that is at something is so with a connection that exists.
LEMMA AtFacts ==
  ASSUME Types, NEW a \in Actors, NEW pc, At(a, pc)
  PROVE  job[a].pc = pc /\ job[a].con \in Cons /\ job[a].con \in conList
BY DEF At, Types

LEMMA PthreadJoinFacts ==
  ASSUME Types, NEW a \in Actors, PthreadJoin(a), job[a].thread \in 1..Len(threads)
  PROVE  /\ job[a].con \in Cons
         /\ threads' \in Seq(ThreadRec) /\ Len(threads') = Len(threads)
         /\ threads'[job[a].thread] = [threads[job[a].thread] EXCEPT !.place = "gone"]
         /\ \A s \in 1..Len(threads) : s # job[a].thread => threads'[s] = threads[s]
         /\ con' \in [Cons -> ConRec]
         /\ \A c \in Cons : con'[c].thread = IF c = job[a].con THEN 0 ELSE con[c].thread
         /\ \A c \in Cons : con'[c].pktList = con[c].pktList
         /\ job' \in [Actors -> JobRec]
         /\ job'[a] = [job[a] EXCEPT !.pc = IF job[a].pc = "joining" THEN "start" ELSE "free"]
         /\ \A b \in Actors : b # a => job'[b] = job[b]
<1>1. job[a].con \in Cons
  BY AtFacts DEF PthreadJoin
<1>2. Move(job[a].thread, "gone")
  BY DEF PthreadJoin, Move
<1>3. "gone" \in Places /\ {"start", "free"} \subseteq Prodding \cup Ending
  BY DEF Places, Prodding, Ending
<1>8. {"start", "free"} \subseteq Pcs
  BY <1>3 DEF Pcs
<1>4. con' = [con EXCEPT ![job[a].con].thread = 0]
  BY DEF PthreadJoin
<1>5. Goto(a, IF job[a].pc = "joining" THEN "start" ELSE "free")
  BY DEF PthreadJoin
<1>6. /\ con' \in [Cons -> ConRec]
      /\ \A c \in Cons : con'[c].thread = IF c = job[a].con THEN 0 ELSE con[c].thread
      /\ \A c \in Cons : con'[c].pktList = con[c].pktList
  BY <1>1, <1>4 DEF Types, ConRec
<1>7. /\ job' \in [Actors -> JobRec]
      /\ job'[a] = [job[a] EXCEPT !.pc = IF job[a].pc = "joining" THEN "start" ELSE "free"]
      /\ \A b \in Actors : b # a => job'[b] = job[b]
  BY <1>5, <1>8, JobMoves
<1> QED BY <1>1, <1>2, <1>3, <1>6, <1>7, Moves

-----------------------------------------------------------------------------
(***************************************************************************)
(* A step of a callback thread.                                             *)
(***************************************************************************)
ThreadMoves(t) ==
  /\ t \in 1..Len(threads) /\ Len(threads') = Len(threads)
  /\ threads' \in Seq(ThreadRec)
  /\ \A s \in 1..Len(threads) : s # t => threads'[s] = threads[s]
  /\ threads[t].place \notin Dead
  /\ threads'[t].con = threads[t].con /\ threads'[t].cancelled = threads[t].cancelled
  /\ threads'[t].place # "created"
  /\ threads'[t].active => threads'[t].place \notin Dead /\ ~threads[t].cancelled
  /\ con' \in [Cons -> ConRec] /\ begun' \in [Cons -> Seq(Nat)]
  /\ \A c \in Cons : con'[c].thread = con[c].thread
  /\ \A c \in Cons : con[c].pktList = <<>> => con'[c].pktList = <<>>
  /\ UNCHANGED <<conList, linked, job, received>>

LEMMA CallbackThreadMoves ==
  ASSUME LifeInv, NEW t \in 1..Len(threads),
         ThreadBegins(t) \/ CallbackTop(t) \/ CallbackReturns(t) \/ CallbackWait(t)
           \/ ThreadEnds(t) \/ ThreadCancelled(t)
  PROVE  ThreadMoves(t)
<1> DEFINE r == threads[t]
<1>1. /\ r \in ThreadRec
      /\ r.active => r.place \notin {"created"} \cup Dead
      /\ r.cancelled => r.place # "created" /\ ~r.active
  BY DEF LifeInv, Types, ThreadsInv
<1>2. Types
  BY DEF LifeInv
<1>3. ASSUME NEW place \in Places \ {"created"}, Move(t, place),
             r.active => place \notin Dead,
             r.place \notin Dead,
             con' \in [Cons -> ConRec], begun' \in [Cons -> Seq(Nat)],
             \A c \in Cons : con'[c].thread = con[c].thread,
             \A c \in Cons : con[c].pktList = <<>> => con'[c].pktList = <<>>,
             UNCHANGED <<conList, linked, job, received>>
      PROVE  ThreadMoves(t)
  <2>1. /\ threads' \in Seq(ThreadRec) /\ Len(threads') = Len(threads)
        /\ threads'[t] = [r EXCEPT !.place = place]
        /\ \A s \in 1..Len(threads) : s # t => threads'[s] = threads[s]
    BY <1>2, <1>3, Moves
  <2>2. /\ threads'[t].con = r.con /\ threads'[t].cancelled = r.cancelled
        /\ threads'[t].place = place /\ threads'[t].active = r.active
    BY <1>1, <2>1 DEF ThreadRec
  <2> QED BY <1>1, <1>3, <2>1, <2>2 DEF ThreadMoves
<1>4. CASE ThreadBegins(t)
  <2> DEFINE x == [r EXCEPT !.place = "top", !.active = TRUE]
  <2>1. x \in ThreadRec
    BY <1>1 DEF ThreadRec, Places
  <2>2. threads' = [threads EXCEPT ![t] = x]
    BY <1>4 DEF ThreadBegins
  <2>3. /\ threads' \in Seq(ThreadRec) /\ Len(threads') = Len(threads)
        /\ threads'[t] = x
        /\ \A s \in 1..Len(threads) : s # t => threads'[s] = threads[s]
    <3> HIDE DEF x
    <3> QED BY <1>2, <2>1, <2>2, Replacing DEF Types
  <2>4. /\ threads'[t].con = r.con /\ threads'[t].cancelled = r.cancelled
        /\ threads'[t].place = "top"
    BY <1>1, <2>3 DEF ThreadRec
  <2>5. r.place = "created" /\ UNCHANGED <<conList, linked, con, job, received, begun>>
    BY <1>4 DEF ThreadBegins, Thread
  <2> QED BY <1>1, <1>2, <2>3, <2>4, <2>5 DEF ThreadMoves, Types, Dead
<1>5. CASE CallbackTop(t)
  <2> DEFINE c == r.con
  <2>1. c \in Cons /\ con[c] \in ConRec /\ r.place = "top"
    BY <1>1, <1>2, <1>5 DEF ThreadRec, CallbackTop, Thread, Types
  <2>2. \/ \E place \in {"leaving", "wait"} : Move(t, place) /\ UNCHANGED <<con, begun>>
        \/ /\ con[c].pktList # <<>> /\ Move(t, "callback")
           /\ con' = [con EXCEPT ![c].pktList = Tail(@)]
           /\ begun' = [begun EXCEPT ![c] = Append(@, Head(con[c].pktList))]
    BY <1>5 DEF CallbackTop
  <2>3. UNCHANGED <<conList, linked, job, received>>
    BY <1>5 DEF CallbackTop
  <2>4. CASE \E place \in {"leaving", "wait"} : Move(t, place) /\ UNCHANGED <<con, begun>>
    BY <1>2, <1>3, <2>1, <2>3, <2>4 DEF Types, Places, Dead
  <2>5. CASE /\ con[c].pktList # <<>> /\ Move(t, "callback")
             /\ con' = [con EXCEPT ![c].pktList = Tail(@)]
             /\ begun' = [begun EXCEPT ![c] = Append(@, Head(con[c].pktList))]
    <3>1. Tail(con[c].pktList) \in Seq(Nat) /\ Head(con[c].pktList) \in Nat
      BY <2>1, <2>5 DEF ConRec
    <3>2. begun' \in [Cons -> Seq(Nat)]
      BY <1>2, <2>1, <2>5, <3>1 DEF Types
    <3> DEFINE x == [con[c] EXCEPT !.pktList = Tail(con[c].pktList)]
    <3>3. x \in ConRec /\ x.thread = con[c].thread
      BY <2>1, <3>1 DEF ConRec
    <3>4. con' = [con EXCEPT ![c] = x]
      BY <2>5
    <3>5. /\ con' \in [Cons -> ConRec]
          /\ \A d \in Cons : con'[d].thread = con[d].thread
          /\ \A d \in Cons : con[d].pktList = <<>> => con'[d].pktList = <<>>
      <4> HIDE DEF x
      <4> QED BY <1>2, <2>1, <2>5, <3>3, <3>4, Changing
    <3> QED BY <1>3, <2>1, <2>3, <2>5, <3>2, <3>5 DEF Places, Dead
  <2> QED BY <2>2, <2>4, <2>5
<1>6. CASE CallbackReturns(t)
  BY <1>2, <1>3, <1>6 DEF CallbackReturns, Thread, Types, Places, Dead
<1>7. CASE CallbackWait(t)
  <2> DEFINE c == r.con
  <2>1. c \in Cons /\ con[c] \in ConRec /\ r.place = "wait"
    BY <1>1, <1>2, <1>7 DEF ThreadRec, CallbackWait, Thread, Types
  <2>2. \/ /\ con[c].callbackSem > 0 /\ Move(t, "top")
           /\ con' = [con EXCEPT ![c].callbackSem = @ - 1]
        \/ Move(t, "leaving") /\ UNCHANGED con
    BY <1>7 DEF CallbackWait
  <2>3. UNCHANGED <<conList, linked, job, received, begun>>
    BY <1>7 DEF CallbackWait
  <2>4. CASE Move(t, "leaving") /\ UNCHANGED con
    BY <1>2, <1>3, <2>1, <2>3, <2>4 DEF Types, Places, Dead
  <2>5. CASE /\ con[c].callbackSem > 0 /\ Move(t, "top")
             /\ con' = [con EXCEPT ![c].callbackSem = @ - 1]
    <3>1. [con[c] EXCEPT !.callbackSem = con[c].callbackSem - 1] \in ConRec
      BY <2>1, <2>5 DEF ConRec
    <3>2. con' = [con EXCEPT ![c] = [con[c] EXCEPT !.callbackSem = con[c].callbackSem - 1]]
      BY <2>5
    <3>3. /\ con' \in [Cons -> ConRec]
          /\ \A d \in Cons : con'[d].thread = con[d].thread
          /\ \A d \in Cons : con'[d].pktList = con[d].pktList
      BY <1>2, <2>1, <3>1, <3>2 DEF Types, ConRec
    <3> QED BY <1>2, <1>3, <2>1, <2>3, <2>5, <3>3 DEF Types, Places, Dead
  <2> QED BY <2>2, <2>4, <2>5
<1>8. CASE ThreadEnds(t)
  <2> DEFINE x == [r EXCEPT !.place = "ended", !.active = FALSE]
  <2>1. x \in ThreadRec
    BY <1>1 DEF ThreadRec, Places
  <2>2. threads' = [threads EXCEPT ![t] = x]
    BY <1>8 DEF ThreadEnds
  <2>3. /\ threads' \in Seq(ThreadRec) /\ Len(threads') = Len(threads)
        /\ threads'[t] = x
        /\ \A s \in 1..Len(threads) : s # t => threads'[s] = threads[s]
    <3> HIDE DEF x
    <3> QED BY <1>2, <2>1, <2>2, Replacing DEF Types
  <2>4. /\ threads'[t].con = r.con /\ threads'[t].cancelled = r.cancelled
        /\ threads'[t].place = "ended" /\ ~threads'[t].active
    BY <1>1, <2>3 DEF ThreadRec
  <2>5. r.place = "leaving" /\ UNCHANGED <<conList, linked, con, job, received, begun>>
    BY <1>8 DEF ThreadEnds, Thread
  <2> QED BY <1>1, <1>2, <2>3, <2>4, <2>5 DEF ThreadMoves, Types, Dead
<1>9. CASE ThreadCancelled(t)
  <2>1. r.cancelled /\ r.place \notin Dead /\ Move(t, "ended")
    BY <1>9 DEF ThreadCancelled, Thread, Dead
  <2>2. UNCHANGED <<conList, linked, con, job, received, begun>>
    BY <1>9 DEF ThreadCancelled
  <2> QED BY <1>1, <1>2, <1>3, <2>1, <2>2 DEF Types, Places
<1> QED BY <1>4, <1>5, <1>6, <1>7, <1>8, <1>9

LEMMA ThreadMovesKeep ==
  ASSUME LifeInv, NEW t, ThreadMoves(t)
  PROVE  LifeInv'
<1>0. /\ Types /\ OneProdder /\ ThreadsInv /\ Handles /\ Joining /\ Starter /\ Ends
      /\ UNCHANGED <<conList, linked, job>> /\ Len(threads') = Len(threads)
      /\ \A c \in Cons : con'[c].thread = con[c].thread
      /\ \A s \in 1..Len(threads) : threads[s].con \in Cons /\ threads'[s].con = threads[s].con
  BY ThreadTypes DEF LifeInv, ThreadMoves
<1>1. Types'
  BY <1>0 DEF Types, ThreadMoves
<1>2. OneProdder'
  <2>1. \A u \in Users : job[u].pc = "prod" => con'[job[u].con].pktList = <<>>
    BY <1>0 DEF OneProdder, Types, Actors, ThreadMoves
  <2> QED BY <1>0, <2>1 DEF OneProdder
<1>3. ThreadsInv'
  <2>1. ASSUME NEW s \in 1..Len(threads)
        PROVE  /\ threads'[s].active => threads'[s].place \notin {"created"} \cup Dead
               /\ threads'[s].cancelled => threads'[s].place # "created" /\ ~threads'[s].active
               /\ threads'[s].place \notin Dead => con'[threads'[s].con].thread = s
    <3>1. /\ threads[s].active => threads[s].place \notin {"created"} \cup Dead
          /\ threads[s].cancelled => threads[s].place # "created" /\ ~threads[s].active
          /\ threads[s].place \notin Dead => con'[threads'[s].con].thread = s
      BY <1>0 DEF ThreadsInv
    <3>2. CASE s # t
      BY <3>1, <3>2 DEF ThreadMoves
    <3>3. CASE s = t
      BY <3>1, <3>3 DEF ThreadMoves
    <3> QED BY <3>2, <3>3
  <2> QED BY <1>0, <2>1 DEF ThreadsInv
<1>4. Handles'
  BY <1>0 DEF Handles
<1>5. Joining'
  BY <1>0 DEF Joining
<1>6. Starter'
  BY <1>0 DEF Starter, Types, Actors
<1>7. \A c : NoneCancelled(c) => NoneCancelled(c)'
  <2>1. SUFFICES ASSUME NEW c, NoneCancelled(c), NEW s \in 1..Len(threads),
                        threads'[s].con = c, threads'[s].cancelled
                 PROVE  threads'[s].place \in Dead
    BY <1>0 DEF NoneCancelled
  <2> QED BY <1>0, <2>1 DEF NoneCancelled, ThreadMoves
<1>8. Ends'
  BY <1>0, <1>7 DEF Ends
<1> QED BY <1>1, <1>2, <1>3, <1>4, <1>5, <1>6, <1>8 DEF LifeInv

-----------------------------------------------------------------------------
(***************************************************************************)
(* A step of an actor that leaves the threads alone.                        *)
(***************************************************************************)
JobFrame(a) ==
  /\ UNCHANGED threads
  /\ con' \in [Cons -> ConRec] /\ \A c \in Cons : con'[c].thread = con[c].thread
  /\ job' \in [Actors -> JobRec] /\ \A b \in Actors : b # a => job'[b] = job[b]
  /\ job'[a].pc # "idle" => job'[a].con \in Cons
  /\ linked' \subseteq linked /\ conList' \subseteq conList
  /\ received' \in Nat /\ begun' \in [Cons -> Seq(Nat)]

\* What the actor begins is begun by no other.
JobBegins(a) ==
  /\ job'[a].pc \in Joins =>
       /\ job'[a].thread # 0 /\ con[job'[a].con].thread = job'[a].thread
       /\ \A b \in Actors : b # a => ~(job[b].pc \in Joins /\ job[b].con = job'[a].con)
  /\ job'[Rx].pc = "start" => con[job'[Rx].con].thread = 0
  /\ a \in Users /\ job'[a].pc \in Ending =>
       /\ job'[a].con \notin linked'
       /\ \A u \in Users : u # a => ~(job[u].pc \in Ending /\ job[u].con = job'[a].con)
  /\ a \in Users /\ job'[a].pc = "free" => NoneCancelled(job'[a].con)
  /\ \A c \in Cons : c \in conList /\ c \notin conList' => NoneCancelled(c)

LEMMA JobStepKeeps ==
  ASSUME LifeInv, NEW a \in Actors, JobFrame(a), JobBegins(a), OneProdder'
  PROVE  LifeInv'
<1>0. Types /\ ThreadsInv /\ Handles /\ Joining /\ Starter /\ Ends
  BY DEF LifeInv
<1>1. Types'
  BY <1>0 DEF Types, JobFrame
<1>2. \A t \in 1..Len(threads) : threads[t].con \in Cons
  BY <1>0, ThreadTypes
<1>3. ThreadsInv'
  BY <1>0, <1>2 DEF ThreadsInv, JobFrame
<1>4. Handles'
  BY <1>0 DEF Handles, JobFrame
<1>5. Joining'
  <2>1. \A b \in Actors : job'[b].pc \in Joins =>
          /\ job'[b].con \in Cons
          /\ job'[b].thread # 0 /\ con'[job'[b].con].thread = job'[b].thread
    BY <1>0 DEF Joining, JobFrame, JobBegins, Joins
  <2>2. \A b, d \in Actors :
          job'[b].pc \in Joins /\ job'[d].pc \in Joins /\ job'[b].con = job'[d].con => b = d
    BY <1>0 DEF Joining, JobFrame, JobBegins
  <2> QED BY <2>1, <2>2 DEF Joining
<1>6. Starter'
  <2>1. job'[Rx].pc = "start" => job'[Rx].con \in Cons
    BY <1>1 DEF Types, Actors
  <2> QED BY <2>1 DEF Starter, JobFrame, JobBegins
<1>7. \A c : NoneCancelled(c) => NoneCancelled(c)'
  BY DEF NoneCancelled, JobFrame
<1>8. Ends'
  <2>0. \A u \in Users : u \in Actors
    BY DEF Actors
  <2>1. \A u \in Users : job'[u].pc \in Ending => job'[u].con \notin linked'
    BY <1>0, <2>0 DEF Ends, JobFrame, JobBegins
  <2>2. \A u, v \in Users :
          job'[u].pc \in Ending /\ job'[v].pc \in Ending /\ job'[u].con = job'[v].con => u = v
    BY <1>0, <2>0 DEF Ends, JobFrame, JobBegins
  <2>3. \A u \in Users : job'[u].pc = "free" => NoneCancelled(job'[u].con)
    BY <1>0, <2>0 DEF Ends, JobFrame, JobBegins
  <2>4. \A c \in Cons : c \notin conList' => NoneCancelled(c)
    BY <1>0 DEF Ends, JobFrame, JobBegins
  <2>5. \A c : NoneCancelled(c)' <=> NoneCancelled(c)
    BY DEF NoneCancelled, JobFrame
  <2>6. \A u \in Users : job'[u].pc = "free" =>
          \A t \in 1..Len(threads') :
             threads'[t].con = job'[u].con /\ threads'[t].cancelled => threads'[t].place \in Dead
    BY <2>3 DEF NoneCancelled, JobFrame
  <2> QED BY <2>1, <2>2, <2>4, <2>5, <2>6 DEF Ends, NoneCancelled
<1> QED BY <1>1, <1>3, <1>4, <1>5, <1>6, <1>8 DEF LifeInv

\* xbee_threadJoin's look: the actor leaves, or is the one that joins.
LEMMA ThreadJoinFacts ==
  ASSUME LifeInv, NEW a \in Actors, job[a].con \in Cons, NEW pc \in Joins,
         ThreadJoin(a, job[a].con, pc)
  PROVE  /\ job' \in [Actors -> JobRec] /\ \A b \in Actors : b # a => job'[b] = job[b]
         /\ \/ job'[a] = Idle
            \/ /\ job'[a].pc = pc /\ job'[a].con = job[a].con
               /\ job'[a].thread # 0 /\ con[job[a].con].thread = job'[a].thread
               /\ \A b \in Actors : ~(job[b].pc \in Joins /\ job[b].con = job[a].con)
<1> DEFINE t == con[job[a].con].thread
<1>0. Types /\ Joining
  BY DEF LifeInv
<1>1. CASE Done(a)
  BY <1>0, <1>1, JobMoves
<1>2. CASE t # 0 /\ ~Joined(t) /\ job' = [job EXCEPT ![a].pc = pc, ![a].thread = t]
  <2>1. job[a] \in JobRec /\ con[job[a].con] \in ConRec
    BY <1>0 DEF Types
  <2>2. t \in Nat /\ pc \in Pcs
    BY <2>1 DEF ConRec, Joins, Pcs, Prodding, Ending
  <2> DEFINE x == [job[a] EXCEPT !.pc = pc, !.thread = t]
  <2>3. x \in JobRec /\ x.pc = pc /\ x.con = job[a].con /\ x.thread = t
    BY <2>1, <2>2 DEF JobRec
  <2>4. job' = [job EXCEPT ![a] = x]
    BY <1>2
  <2>5. \A b \in Actors : ~(job[b].pc \in Joins /\ job[b].con = job[a].con)
    BY <1>0, <1>2 DEF Joining, Joined
  <2> HIDE DEF x, t
  <2>6. job' \in [Actors -> JobRec] /\ job'[a] = x /\ \A b \in Actors : b # a => job'[b] = job[b]
    BY <1>0, <2>3, <2>4 DEF Types
  <2> QED BY <1>2, <2>3, <2>5, <2>6 DEF t
<1>3. \/ Done(a)
      \/ t # 0 /\ ~Joined(t) /\ job' = [job EXCEPT ![a].pc = pc, ![a].thread = t]
  BY DEF ThreadJoin
<1> QED BY <1>1, <1>2, <1>3

\* Nothing the life of threads and connections depends on changes.
LEMMA QuietSteps ==
  ASSUME LifeInv,
         UNCHANGED <<conList, linked, threads, job>>,
         received' \in Nat, begun' \in [Cons -> Seq(Nat)],
         con' \in [Cons -> ConRec], \A c \in Cons : con'[c].thread = con[c].thread,
         \A c \in Cons : con[c].pktList = <<>> => con'[c].pktList = <<>>
  PROVE  LifeInv'
<1>0. Types /\ OneProdder /\ ThreadsInv /\ Handles /\ Joining /\ Starter /\ Ends
  BY DEF LifeInv
<1>1. Types'
  BY <1>0 DEF Types
<1>2. OneProdder'
  BY <1>0 DEF OneProdder, Types, Actors
<1>3. ThreadsInv'
  BY <1>0, ThreadTypes DEF ThreadsInv
<1>4. Handles' /\ Joining' /\ Starter'
  BY <1>0 DEF Handles, Joining, Starter, Types, Actors
<1>5. Ends'
  BY <1>0 DEF Ends, NoneCancelled
<1> QED BY <1>1, <1>2, <1>3, <1>4, <1>5 DEF LifeInv

LEMMA Who == Rx \in Actors /\ Rx \notin Users /\ \A u \in Users : u \in Actors /\ u # Rx
BY CallbackAssumption DEF Actors, CallbackAssumption

\* Only the receive handler gets past the look at the queue.
LEMMA OnlyRxProds ==
  ASSUME LifeInv, NEW a \in Actors, job[a].pc \in Prodding \ {"prod"}
  PROVE  a = Rx
BY Who DEF LifeInv, OneProdder, Actors, Prodding, Ending

LEMMA LocateKeeps ==
  ASSUME LifeInv, SetEarly, NEW c \in Cons, Locate(c)
  PROVE  LifeInv'
<1> DEFINE x == [pc |-> "link", con |-> c, thread |-> 0, packet |-> received']
<1>0. Types /\ OneProdder
  BY DEF LifeInv
<1>1. /\ received' = received + 1 /\ job' = [job EXCEPT ![Rx] = x]
      /\ UNCHANGED <<conList, linked, con, threads, begun>>
      /\ \A u \in Users : ~(job[u].pc = "prod" /\ job[u].con = c)
  BY DEF Locate, SetEarly
<1>2. received' \in Nat
  BY <1>0, <1>1 DEF Types
<1>3. x \in JobRec /\ x.pc = "link" /\ x.con = c
  BY <1>2 DEF JobRec, Pcs
<1> HIDE DEF x
<1>4. job' \in [Actors -> JobRec] /\ job'[Rx] = x /\ \A b \in Actors : b # Rx => job'[b] = job[b]
  BY <1>0, <1>1, <1>3, Who DEF Types
<1>5. JobFrame(Rx)
  BY <1>0, <1>1, <1>2, <1>3, <1>4 DEF JobFrame, Types
<1>6. JobBegins(Rx)
  BY <1>1, <1>3, <1>4, Who DEF JobBegins, Joins, Ending
<1>7. OneProdder'
  BY <1>0, <1>1, <1>3, <1>4, Who DEF OneProdder
<1> QED BY <1>5, <1>6, <1>7, JobStepKeeps, Who

LEMMA LinkPacketKeeps ==
  ASSUME LifeInv, LinkPacket
  PROVE  LifeInv'
<1> DEFINE c == job[Rx].con
<1>0. Types /\ OneProdder
  BY DEF LifeInv
<1>1. /\ job[Rx].pc = "link" /\ c \in Cons /\ con[c] \in ConRec /\ job[Rx].packet \in Nat
      /\ UNCHANGED <<conList, linked, threads, received, begun>>
      /\ Goto(Rx, "prod") \/ Done(Rx)
  BY <1>0, AtFacts, Who DEF LinkPacket, Types, JobRec
<1>2. /\ job' \in [Actors -> JobRec] /\ \A b \in Actors : b # Rx => job'[b] = job[b]
      /\ \/ job'[Rx].pc = "prod" /\ job'[Rx].con = c
         \/ job'[Rx].pc = "idle"
  <2>1. "prod" \in Pcs
    BY DEF Pcs, Prodding
  <2>2. CASE Goto(Rx, "prod")
    BY <1>0, <2>1, <2>2, GotoFacts, Who
  <2>3. CASE Done(Rx)
    BY <1>0, <2>3, DoneFacts, Who
  <2> QED BY <1>1, <2>2, <2>3
<1> DEFINE x == [con[c] EXCEPT !.pktList = Append(con[c].pktList, job[Rx].packet)]
<1>3. x \in ConRec /\ x.thread = con[c].thread
  <2>1. con[c].pktList \in Seq(Nat)
    BY <1>1 DEF ConRec
  <2>2. Append(con[c].pktList, job[Rx].packet) \in Seq(Nat)
    BY <1>1, <2>1
  <2> QED BY <1>1, <2>2 DEF ConRec
<1>4. con' = [con EXCEPT ![c] = x]
  BY DEF LinkPacket
<1> HIDE DEF x
<1>5. /\ con' \in [Cons -> ConRec] /\ con'[c] = x
      /\ \A d \in Cons : d # c => con'[d] = con[d]
  BY <1>0, <1>1, <1>3, <1>4, Changing
<1>6. JobFrame(Rx)
  BY <1>0, <1>1, <1>2, <1>3, <1>5 DEF JobFrame, Types
<1>7. JobBegins(Rx)
  BY <1>1, <1>2, Who DEF JobBegins, Joins, Ending
<1>8. OneProdder'
  <2>1. ASSUME NEW u \in Users, job[u].pc = "prod"
        PROVE  con'[job[u].con].pktList = <<>> /\ ~(job'[Rx].pc # "idle" /\ job'[Rx].con = job[u].con)
    <3>1. job[u].con # c /\ job[u].con \in Cons
      BY <1>0, <1>1, <2>1, Who DEF OneProdder, Types
    <3> QED BY <1>0, <1>2, <1>5, <2>1, <3>1 DEF OneProdder
  <2> QED BY <1>0, <1>2, <2>1, Who DEF OneProdder, Prodding
<1> QED BY <1>6, <1>7, <1>8, JobStepKeeps, Who

LEMMA CallbackProdKeeps ==
  ASSUME LifeInv, NEW a \in Actors, CallbackProd(a)
  PROVE  LifeInv'
<1> DEFINE c == job[a].con
<1>0. Types /\ OneProdder
  BY DEF LifeInv
<1>1. /\ job[a].pc = "prod" /\ c \in Cons /\ con[c] \in ConRec
      /\ UNCHANGED <<conList, linked, threads, received, begun>>
      /\ \/ Done(a) /\ UNCHANGED con
         \/ /\ con[c].pktList # <<>>
            /\ con' = [con EXCEPT ![c].callbackSem = @ + 1]
            /\ Goto(a, "check")
  BY <1>0, AtFacts DEF CallbackProd, Types
<1>2. CASE Done(a) /\ UNCHANGED con
  <2>1. /\ job' \in [Actors -> JobRec] /\ job'[a].pc = "idle"
        /\ \A b \in Actors : b # a => job'[b] = job[b]
    BY <1>0, <1>2, DoneFacts
  <2>2. JobFrame(a)
    BY <1>0, <1>1, <1>2, <2>1 DEF JobFrame, Types
  <2>3. JobBegins(a)
    BY <1>1, <2>1, Who DEF JobBegins, Joins, Ending, LifeInv, Starter
  <2>4. OneProdder'
    BY <1>0, <1>2, <2>1, Who DEF OneProdder
  <2> QED BY <2>2, <2>3, <2>4, JobStepKeeps
<1>3. CASE /\ con[c].pktList # <<>>
           /\ con' = [con EXCEPT ![c].callbackSem = @ + 1]
           /\ Goto(a, "check")
  <2>0. a = Rx
    BY <1>0, <1>1, <1>3 DEF OneProdder, Actors
  <2>1. /\ job' \in [Actors -> JobRec] /\ job'[a].pc = "check" /\ job'[a].con = c
        /\ \A b \in Actors : b # a => job'[b] = job[b]
    <3>1. "check" \in Pcs
      BY DEF Pcs, Prodding
    <3> QED BY <1>0, <1>3, <3>1, GotoFacts
  <2> DEFINE x == [con[c] EXCEPT !.callbackSem = con[c].callbackSem + 1]
  <2>2. x \in ConRec /\ x.thread = con[c].thread /\ x.pktList = con[c].pktList
    BY <1>1 DEF ConRec
  <2>3. con' = [con EXCEPT ![c] = x]
    BY <1>3
  <2> HIDE DEF x
  <2>4. /\ con' \in [Cons -> ConRec] /\ con'[c] = x
        /\ \A d \in Cons : d # c => con'[d] = con[d]
    BY <1>0, <1>1, <2>2, <2>3, Changing
  <2>5. JobFrame(a)
    BY <1>0, <1>1, <2>1, <2>2, <2>4 DEF JobFrame, Types
  <2>6. JobBegins(a)
    BY <1>1, <2>0, <2>1, Who DEF JobBegins, Joins, Ending
  <2>7. OneProdder'
    BY <1>0, <1>1, <2>0, <2>1, <2>2, <2>4, Who DEF OneProdder, Prodding, Types
  <2> QED BY <2>5, <2>6, <2>7, JobStepKeeps
<1> QED BY <1>1, <1>2, <1>3

LEMMA CallbackCheckKeeps ==
  ASSUME LifeInv, NEW a \in Actors, CallbackCheck(a)
  PROVE  LifeInv'
<1> DEFINE c == job[a].con
<1>0. Types /\ OneProdder /\ job[a].pc = "check" /\ c \in Cons
  BY AtFacts DEF LifeInv, CallbackCheck
<1>1. a = Rx
  BY <1>0, OnlyRxProds DEF Prodding
<1>2. /\ UNCHANGED <<conList, linked, con, threads, received, begun>>
      /\ (con[c].thread = 0 /\ Goto(a, "start")) \/ Done(a) \/ Goto(a, "join")
  BY DEF CallbackCheck
<1>3. /\ job' \in [Actors -> JobRec] /\ \A b \in Actors : b # a => job'[b] = job[b]
      /\ \/ job'[a].pc = "start" /\ job'[a].con = c /\ con[c].thread = 0
         \/ job'[a].pc = "idle"
         \/ job'[a].pc = "join" /\ job'[a].con = c
  <2>1. "start" \in Pcs /\ "join" \in Pcs
    BY DEF Pcs, Prodding
  <2>2. CASE con[c].thread = 0 /\ Goto(a, "start")
    BY <1>0, <2>1, <2>2, GotoFacts
  <2>3. CASE Goto(a, "join")
    BY <1>0, <2>1, <2>3, GotoFacts
  <2>4. CASE Done(a)
    BY <1>0, <2>4, DoneFacts
  <2> QED BY <1>2, <2>2, <2>3, <2>4
<1>4. JobFrame(a)
  BY <1>0, <1>2, <1>3 DEF JobFrame, Types
<1>5. JobBegins(a)
  BY <1>1, <1>2, <1>3, Who DEF JobBegins, Joins
<1>6. OneProdder'
  BY <1>0, <1>1, <1>2, <1>3, Who DEF OneProdder, Prodding
<1> QED BY <1>4, <1>5, <1>6, JobStepKeeps

LEMMA CallbackJoinKeeps ==
  ASSUME LifeInv, NEW a \in Actors, CallbackJoin(a)
  PROVE  LifeInv'
<1>0. Types /\ OneProdder /\ job[a].pc = "join" /\ job[a].con \in Cons
  BY AtFacts DEF LifeInv, CallbackJoin
<1>1. a = Rx
  BY <1>0, OnlyRxProds DEF Prodding
<1>2. UNCHANGED <<conList, linked, con, threads, received, begun>>
  BY DEF CallbackJoin
<1>3. /\ job' \in [Actors -> JobRec] /\ \A b \in Actors : b # a => job'[b] = job[b]
      /\ \/ job'[a] = Idle
         \/ /\ job'[a].pc = "joining" /\ job'[a].con = job[a].con
            /\ job'[a].thread # 0 /\ con[job[a].con].thread = job'[a].thread
            /\ \A b \in Actors : ~(job[b].pc \in Joins /\ job[b].con = job[a].con)
  BY <1>0, ThreadJoinFacts DEF CallbackJoin, Joins
<1>4. Idle.pc = "idle"
  BY DEF Idle
<1>5. JobFrame(a)
  BY <1>0, <1>2, <1>3, <1>4 DEF JobFrame, Types
<1>6. JobBegins(a)
  BY <1>1, <1>2, <1>3, <1>4, Who DEF JobBegins, Joins
<1>7. OneProdder'
  BY <1>0, <1>1, <1>2, <1>3, <1>4, Who DEF OneProdder, Prodding
<1> QED BY <1>5, <1>6, <1>7, JobStepKeeps

\* A new thread starts where the last one has been joined.
LEMMA CallbackStartKeeps ==
  ASSUME LifeInv, NEW a \in Actors, CallbackStart(a)
  PROVE  LifeInv'
<1> DEFINE c == job[a].con
           n == Len(threads) + 1
           new == [con |-> c, place |-> "created", active |-> FALSE, cancelled |-> FALSE]
           x == [con[c] EXCEPT !.thread = n]
<1>0. /\ Types /\ OneProdder /\ ThreadsInv /\ Handles /\ Joining /\ Starter /\ Ends
      /\ job[a].pc = "start" /\ c \in Cons
  BY AtFacts DEF LifeInv, CallbackStart
<1>1. a = Rx
  BY <1>0, OnlyRxProds DEF Prodding
<1>2. /\ UNCHANGED <<conList, linked, received, begun>>
      /\ threads' = Append(threads, new) /\ con' = [con EXCEPT ![c] = x]
      /\ Done(a)
  BY DEF CallbackStart, ThreadStart
<1>3. con[c].thread = 0
  BY <1>0, <1>1 DEF Starter
<1>4. con[c] \in ConRec /\ Len(threads) \in Nat
  BY <1>0 DEF Types
<1>5. x \in ConRec /\ x.thread = n /\ x.pktList = con[c].pktList
  BY <1>4 DEF ConRec
<1>6. new \in ThreadRec
  BY <1>0 DEF ThreadRec, Places
<1> HIDE DEF x
<1>7. /\ con' \in [Cons -> ConRec] /\ con'[c] = x
      /\ \A d \in Cons : d # c => con'[d] = con[d]
  BY <1>0, <1>2, <1>5, Changing
<1>8. /\ job' \in [Actors -> JobRec] /\ \A b \in Actors : b # a => job'[b] = job[b]
      /\ job'[a].pc = "idle"
  BY <1>0, <1>2, DoneFacts
<1>9. /\ new.con = c /\ new.place = "created" /\ ~new.active /\ ~new.cancelled
  OBVIOUS
<1> HIDE DEF new
<1>10. /\ threads' \in Seq(ThreadRec) /\ Len(threads') = n /\ threads'[n] = new
       /\ \A t \in 1..Len(threads) : threads'[t] = threads[t]
       /\ \A t \in 1..Len(threads') : t \in 1..Len(threads) \/ t = n
       /\ n \in Nat /\ n # 0
  BY <1>0, <1>2, <1>4, <1>6 DEF Types
<1> HIDE DEF n
<1>11. \A t \in 1..Len(threads) : threads[t].con \in Cons
                                  /\ (threads[t].con = c => threads[t].place \in Dead)
  <2>1. SUFFICES ASSUME NEW t \in 1..Len(threads)
                 PROVE  threads[t].con \in Cons
                        /\ (threads[t].con = c => threads[t].place \in Dead)
    OBVIOUS
  <2>2. t # 0
    OBVIOUS
  <2> QED BY <1>0, <1>3, <2>2, ThreadTypes DEF ThreadsInv
<1>12. Types'
  BY <1>0, <1>2, <1>7, <1>8, <1>10 DEF Types
<1>13. OneProdder'
  BY <1>0, <1>1, <1>5, <1>7, <1>8, Who DEF OneProdder, Types
<1>14. ThreadsInv'
  <2>1. ASSUME NEW t \in 1..Len(threads')
        PROVE  /\ threads'[t].active => threads'[t].place \notin {"created"} \cup Dead
               /\ threads'[t].cancelled => threads'[t].place # "created" /\ ~threads'[t].active
               /\ threads'[t].place \notin Dead => con'[threads'[t].con].thread = t
    <3>1. CASE t \in 1..Len(threads)
      BY <1>0, <1>7, <1>10, <1>11, <3>1 DEF ThreadsInv
    <3>2. CASE t = n
      BY <1>5, <1>7, <1>9, <1>10, <3>2
    <3> QED BY <1>10, <3>1, <3>2
  <2> QED BY <2>1 DEF ThreadsInv
<1>15. Handles'
  <2>1. \A d \in Cons : d # c => con'[d].thread = con[d].thread
    BY <1>7
  <2>2. n \in 1..Len(threads') /\ \A t \in 1..Len(threads) : t \in 1..Len(threads')
    BY <1>4, <1>10 DEF n
  <2> QED BY <1>0, <1>5, <1>7, <1>9, <1>10, <2>1, <2>2 DEF Handles
<1>16. Joining'
  <2>1. \A b \in Actors : job[b].pc \in Joins => job[b].con # c
    BY <1>0, <1>3 DEF Joining
  <2>2. \A b \in Actors : job'[b].pc \in Joins => b # a
    BY <1>8 DEF Joins
  <2> QED BY <1>0, <1>7, <1>8, <2>1, <2>2 DEF Joining
<1>17. Starter'
  BY <1>1, <1>8 DEF Starter
<1>18. \A d : NoneCancelled(d) => NoneCancelled(d)'
  <2>1. SUFFICES ASSUME NEW d, NoneCancelled(d), NEW t \in 1..Len(threads'),
                        threads'[t].con = d, threads'[t].cancelled
                 PROVE  threads'[t].place \in Dead
    BY DEF NoneCancelled
  <2> QED BY <1>9, <1>10, <2>1 DEF NoneCancelled
<1>19. Ends'
  BY <1>0, <1>1, <1>2, <1>8, <1>18, Who DEF Ends
<1> QED BY <1>12, <1>13, <1>14, <1>15, <1>16, <1>17, <1>19 DEF LifeInv

\* A thread that is joined leaves its connection without one.
LEMMA PthreadJoinKeeps ==
  ASSUME LifeInv, NEW a \in Actors, PthreadJoin(a)
  PROVE  LifeInv'
<1> DEFINE c == job[a].con
           t == job[a].thread
<1>0. /\ Types /\ OneProdder /\ ThreadsInv /\ Handles /\ Joining /\ Starter /\ Ends
      /\ job[a].pc \in Joins /\ threads[t].place = "ended"
      /\ UNCHANGED <<conList, linked, received, begun>>
  BY DEF LifeInv, PthreadJoin, At, Joins
<1>1. c \in Cons /\ t # 0 /\ con[c].thread = t /\ t \in 1..Len(threads) /\ threads[t].con = c
  BY <1>0 DEF Joining, Handles
<1>2. /\ threads' \in Seq(ThreadRec) /\ Len(threads') = Len(threads)
      /\ threads'[t] = [threads[t] EXCEPT !.place = "gone"]
      /\ \A s \in 1..Len(threads) : s # t => threads'[s] = threads[s]
      /\ con' \in [Cons -> ConRec]
      /\ \A d \in Cons : con'[d].thread = IF d = c THEN 0 ELSE con[d].thread
      /\ \A d \in Cons : con'[d].pktList = con[d].pktList
      /\ job' \in [Actors -> JobRec]
      /\ job'[a] = [job[a] EXCEPT !.pc = IF job[a].pc = "joining" THEN "start" ELSE "free"]
      /\ \A b \in Actors : b # a => job'[b] = job[b]
  BY <1>0, <1>1, PthreadJoinFacts
<1>3. /\ threads'[t].con = c /\ threads'[t].place = "gone"
      /\ threads'[t].active = threads[t].active /\ threads'[t].cancelled = threads[t].cancelled
  BY <1>0, <1>1, <1>2, ThreadTypes DEF ThreadRec
<1>4. /\ job'[a].con = c
      /\ job'[a].pc = IF job[a].pc = "joining" THEN "start" ELSE "free"
      /\ job'[a].pc \notin Joins
  <2>1. job[a] \in JobRec
    BY <1>0 DEF Types
  <2> QED BY <1>2, <2>1 DEF JobRec, Joins
<1>5. \/ a = Rx /\ job'[a].pc = "start"
      \/ a \in Users /\ job[a].pc = "endjoining" /\ job'[a].pc = "free"
  BY <1>0, <1>4, Who DEF Actors, OneProdder, Joins, Prodding, Ending
<1> HIDE DEF c, t
<1>6. \A s \in 1..Len(threads) : threads[s].con = c /\ s # t => threads[s].place \in Dead
  BY <1>0, <1>1 DEF ThreadsInv
<1>7. Types'
  BY <1>0, <1>1, <1>2, <1>4 DEF Types
<1>8. OneProdder'
  <2>1. \A u \in Users : job'[u].pc = "prod" => u # a /\ job[u].pc = "prod"
    BY <1>2, <1>5, Who
  <2>2. \A u \in Users : job[u].pc = "prod" => con'[job[u].con].pktList = <<>>
    BY <1>0, <1>2, Who DEF OneProdder, Types
  <2>3. job'[Rx].con = job[Rx].con /\ (job'[Rx].pc # "idle" => job[Rx].pc # "idle")
    BY <1>0, <1>2, <1>4, Who DEF c, Joins
  <2>4. job'[Rx].pc \in {"idle", "link"} \cup Prodding
    BY <1>0, <1>2, <1>4, <1>5, Who DEF OneProdder, Prodding
  <2>5. \A u \in Users : job'[u].pc \in {"idle", "prod"} \cup Ending
    BY <1>0, <1>2, <1>5, Who DEF OneProdder, Ending
  <2> QED BY <1>0, <1>2, <2>1, <2>2, <2>3, <2>4, <2>5, Who DEF OneProdder
<1>9. ThreadsInv'
  <2>1. ASSUME NEW s \in 1..Len(threads)
        PROVE  /\ threads'[s].active => threads'[s].place \notin {"created"} \cup Dead
               /\ threads'[s].cancelled => threads'[s].place # "created" /\ ~threads'[s].active
               /\ threads'[s].place \notin Dead => con'[threads'[s].con].thread = s
    <3>1. CASE s # t
      <4>1. threads[s].con \in Cons
        BY <1>0, ThreadTypes
      <4> QED BY <1>0, <1>2, <1>6, <3>1, <4>1 DEF ThreadsInv
    <3>2. CASE s = t
      BY <1>0, <1>1, <1>3, <3>2 DEF ThreadsInv, Dead
    <3> QED BY <3>1, <3>2
  <2> QED BY <1>2, <2>1 DEF ThreadsInv
<1>10. Handles'
  BY <1>0, <1>1, <1>2, <1>3 DEF Handles
<1>11. Joining'
  <2>1. \A b \in Actors : job'[b].pc \in Joins =>
          /\ b # a /\ job'[b] = job[b] /\ job[b].con \in Cons /\ job[b].con # c
          /\ job[b].thread # 0 /\ con[job[b].con].thread = job[b].thread
    BY <1>0, <1>2, <1>4 DEF Joining, c
  <2>2. \A b \in Actors : job'[b].pc \in Joins =>
          /\ job'[b].con \in Cons
          /\ job'[b].thread # 0 /\ con'[job'[b].con].thread = job'[b].thread
    BY <1>2, <2>1
  <2>3. \A b, d \in Actors :
          job'[b].pc \in Joins /\ job'[d].pc \in Joins /\ job'[b].con = job'[d].con => b = d
    BY <1>0, <2>1 DEF Joining
  <2> QED BY <2>2, <2>3 DEF Joining
<1>12. Starter'
  <2>1. CASE a = Rx
    BY <1>1, <1>2, <1>4, <2>1 DEF Starter
  <2>2. CASE a # Rx
    <3>1. job'[Rx] = job[Rx] /\ (job[Rx].pc = "start" => job[Rx].con \in Cons)
      BY <1>0, <1>2, <2>2, Who DEF Types
    <3> QED BY <1>0, <1>2, <3>1 DEF Starter
  <2> QED BY <2>1, <2>2
<1>13. \A d : NoneCancelled(d) => NoneCancelled(d)'
  BY <1>2, <1>3 DEF NoneCancelled, Dead
<1>14. NoneCancelled(c)'
  <2>1. \A s \in 1..Len(threads') : threads'[s].con = c /\ threads'[s].cancelled
                                   => threads'[s].place \in Dead
    BY <1>2, <1>3, <1>6 DEF Dead
  <2> QED BY <1>4, <2>1 DEF NoneCancelled, c
<1>15. Ends'
  <2>1. \A u \in Users : job'[u].pc \in Ending => job[u].pc \in Ending /\ job'[u].con = job[u].con
    BY <1>2, <1>4, <1>5, Who DEF c, Ending
  <2>2. /\ \A u \in Users : job'[u].pc \in Ending => job'[u].con \notin linked'
        /\ \A u, v \in Users :
             job'[u].pc \in Ending /\ job'[v].pc \in Ending /\ job'[u].con = job'[v].con => u = v
    BY <1>0, <2>1 DEF Ends
  <2>3. \A u \in Users : job'[u].pc = "free" => NoneCancelled(job[u].con)'
    <3>1. SUFFICES ASSUME NEW u \in Users, job'[u].pc = "free", NEW d, d = job'[u].con
                   PROVE  NoneCancelled(d)'
      BY <1>2, <1>4, <2>1 DEF NoneCancelled, c
    <3>2. CASE u = a
      BY <1>14, <3>1, <3>2, <1>4 DEF NoneCancelled, c
    <3>3. CASE u # a
      BY <1>0, <1>2, <1>13, <3>1, <3>3, Who DEF Ends
    <3> QED BY <3>2, <3>3
  <2>4. \A d \in Cons : d \notin conList' => NoneCancelled(d)'
    BY <1>0, <1>13 DEF Ends
  <2> QED BY <2>2, <2>3, <2>4 DEF Ends
<1> QED BY <1>7, <1>8, <1>9, <1>10, <1>11, <1>12, <1>15 DEF LifeInv

LEMMA CallbackSetKeeps ==
  ASSUME LifeInv, SetEarly, NEW u \in Users, NEW c \in Cons, NEW callback \in BOOLEAN,
         CallbackSet(u, c, callback)
  PROVE  LifeInv'
<1> DEFINE x == [con[c] EXCEPT !.callback = callback]
           y == [Idle EXCEPT !.pc = "prod", !.con = c]
<1>0. Types /\ OneProdder /\ Starter
  BY DEF LifeInv
<1>1. /\ con' = [con EXCEPT ![c] = x] /\ job' = [job EXCEPT ![u] = y]
      /\ con[c].pktList = <<>> /\ job[Rx].con # c
      /\ UNCHANGED <<conList, linked, threads, received, begun>>
  BY DEF CallbackSet, SetEarly
<1>2. con[c] \in ConRec
  BY <1>0 DEF Types
<1>3. x \in ConRec /\ x.thread = con[c].thread /\ x.pktList = con[c].pktList
  BY <1>2 DEF ConRec
<1>4. y \in JobRec /\ y.pc = "prod" /\ y.con = c
  BY DEF Idle, JobRec, Pcs, Prodding
<1> HIDE DEF x, y
<1>5. /\ con' \in [Cons -> ConRec] /\ con'[c] = x
      /\ \A d \in Cons : d # c => con'[d] = con[d]
  BY <1>0, <1>1, <1>3, Changing
<1>6. job' \in [Actors -> JobRec] /\ job'[u] = y /\ \A b \in Actors : b # u => job'[b] = job[b]
  BY <1>0, <1>1, <1>4, Who DEF Types
<1>7. JobFrame(u)
  BY <1>0, <1>1, <1>3, <1>4, <1>5, <1>6 DEF JobFrame, Types
<1>8. JobBegins(u)
  BY <1>0, <1>1, <1>4, <1>6, Who DEF JobBegins, Joins, Ending, Starter
<1>9. OneProdder'
  <2>1. job'[Rx] = job[Rx]
    BY <1>6, Who
  <2>2. ASSUME NEW v \in Users, job'[v].pc = "prod"
        PROVE  /\ con'[job'[v].con].pktList = <<>>
               /\ ~(job'[Rx].pc # "idle" /\ job'[Rx].con = job'[v].con)
    <3>1. CASE v = u
      BY <1>1, <1>3, <1>4, <1>5, <1>6, <2>1, <3>1
    <3>2. CASE v # u
      BY <1>0, <1>1, <1>3, <1>5, <1>6, <2>1, <2>2, <3>2, Who DEF OneProdder, Types
    <3> QED BY <3>1, <3>2
  <2>3. \A v \in Users : job'[v].pc \in {"idle", "prod"} \cup Ending
    BY <1>0, <1>4, <1>6, Who DEF OneProdder
  <2> QED BY <1>0, <2>1, <2>2, <2>3 DEF OneProdder
<1> QED BY <1>7, <1>8, <1>9, JobStepKeeps, Who

LEMMA ConRxKeeps ==
  ASSUME LifeInv, NEW u \in Users, NEW c \in Cons, ConRx(u, c)
  PROVE  LifeInv'
<1> DEFINE x == [con[c] EXCEPT !.pktList = Tail(con[c].pktList)]
<1>0. Types
  BY DEF LifeInv
<1>1. /\ con' = [con EXCEPT ![c] = x] /\ con[c].pktList # <<>>
      /\ UNCHANGED <<conList, linked, threads, job, received, begun>>
  BY DEF ConRx
<1>2. con[c] \in ConRec
  BY <1>0 DEF Types
<1>3. x \in ConRec /\ x.thread = con[c].thread
  <2>1. con[c].pktList \in Seq(Nat)
    BY <1>2 DEF ConRec
  <2>2. Tail(con[c].pktList) \in Seq(Nat)
    BY <1>1, <2>1
  <2> QED BY <1>2, <2>2 DEF ConRec
<1> HIDE DEF x
<1>4. /\ con' \in [Cons -> ConRec] /\ con'[c] = x
      /\ \A d \in Cons : d # c => con'[d] = con[d]
  BY <1>0, <1>1, <1>3, Changing
<1> QED BY <1>0, <1>1, <1>3, <1>4, QuietSteps DEF Types

\* A connection ends once.
LEMMA ConEndKeeps ==
  ASSUME LifeInv, NEW u \in Users, NEW c \in Cons, ConEnd(u, c)
  PROVE  LifeInv'
<1> DEFINE y == [Idle EXCEPT !.pc = "end", !.con = c]
<1>0. Types /\ OneProdder /\ Starter /\ Ends
  BY DEF LifeInv
<1>1. /\ job' = [job EXCEPT ![u] = y] /\ c \in linked /\ linked' = linked \ {c}
      /\ UNCHANGED <<conList, con, threads, received, begun>>
  BY DEF ConEnd
<1>2. y \in JobRec /\ y.pc = "end" /\ y.con = c
  BY DEF Idle, JobRec, Pcs, Ending
<1> HIDE DEF y
<1>3. job' \in [Actors -> JobRec] /\ job'[u] = y /\ \A b \in Actors : b # u => job'[b] = job[b]
  BY <1>0, <1>1, <1>2, Who DEF Types
<1>4. JobFrame(u)
  BY <1>0, <1>1, <1>2, <1>3 DEF JobFrame, Types
<1>5. \A v \in Users : ~(job[v].pc \in Ending /\ job[v].con = c)
  BY <1>0, <1>1 DEF Ends
<1>6. JobBegins(u)
  BY <1>0, <1>1, <1>2, <1>3, <1>5, Who DEF JobBegins, Joins, Starter
<1>7. OneProdder'
  BY <1>0, <1>1, <1>2, <1>3, Who DEF OneProdder, Ending
<1> QED BY <1>4, <1>6, <1>7, JobStepKeeps, Who

\* What a user that ends a connection goes on to.
LEMMA EndingKeeps ==
  ASSUME LifeInv, NEW u \in Users, job[u].pc \in Ending,
         JobFrame(u),
         job'[u].pc = "idle" \/ (job'[u].pc \in Ending /\ job'[u].con = job[u].con),
         job'[u].pc \in Joins =>
           /\ job'[u].thread # 0 /\ con[job[u].con].thread = job'[u].thread
           /\ \A b \in Actors : ~(job[b].pc \in Joins /\ job[b].con = job[u].con),
         job'[u].pc = "free" => NoneCancelled(job[u].con),
         \A c \in Cons : con[c].pktList = <<>> => con'[c].pktList = <<>>,
         \A c \in Cons : c \in conList /\ c \notin conList' => NoneCancelled(c)
  PROVE  LifeInv'
<1>0. Types /\ OneProdder /\ Starter /\ Ends
  BY DEF LifeInv
<1>1. job'[Rx] = job[Rx]
  BY Who DEF JobFrame
<1>2. "idle" \notin Joins \cup Ending \cup {"free"}
  BY DEF Joins, Ending
<1>3. JobBegins(u)
  <2>1. job'[u].pc \in Ending =>
          /\ job'[u].con \notin linked'
          /\ \A v \in Users : v # u => ~(job[v].pc \in Ending /\ job[v].con = job'[u].con)
    BY <1>0, <1>2 DEF Ends, JobFrame
  <2>2. job'[Rx].pc = "start" => con[job'[Rx].con].thread = 0
    BY <1>0, <1>1 DEF Starter
  <2> QED BY <1>2, <2>1, <2>2 DEF JobBegins, Joins
<1>4. OneProdder'
  <2>1. \A v \in Users : job'[v].pc = "prod" => v # u /\ job'[v] = job[v] /\ job[v].con \in Cons
    BY <1>0, Who DEF JobFrame, Types, Ending
  <2>2. \A v \in Users : job'[v].pc \in {"idle", "prod"} \cup Ending
    BY <1>0, Who DEF OneProdder, JobFrame
  <2> QED BY <1>0, <1>1, <2>1, <2>2 DEF OneProdder
<1> QED BY <1>3, <1>4, JobStepKeeps, Who

LEMMA NoThreadNoneCancelled ==
  ASSUME LifeInv, NEW c \in Cons, con[c].thread = 0
  PROVE  NoneCancelled(c)
<1>1. \A t \in 1..Len(threads) : t # 0
  OBVIOUS
<1> QED BY <1>1 DEF LifeInv, ThreadsInv, NoneCancelled

LEMMA ConFreeKeeps ==
  ASSUME LifeInv, NEW u \in Users, ConFree(u)
  PROVE  LifeInv'
<1> DEFINE c == job[u].con
           x == [con[c] EXCEPT !.ending = TRUE, !.callbackSem = con[c].callbackSem + 1]
<1>0. Types /\ job[u].pc = "end" /\ c \in Cons
  BY AtFacts, Who DEF LifeInv, ConFree
<1>1. /\ UNCHANGED <<conList, linked, threads, received, begun>>
      /\ \/ con[c].thread = 0 /\ Goto(u, "free") /\ UNCHANGED con
         \/ con' = [con EXCEPT ![c] = x] /\ Goto(u, "endjoin")
  BY DEF ConFree
<1>2. {"free", "endjoin"} \subseteq Pcs /\ {"free", "endjoin", "end"} \subseteq Ending
      /\ "free" \notin Joins /\ "endjoin" \notin Joins
  BY DEF Pcs, Ending, Joins
<1>3. CASE con[c].thread = 0 /\ Goto(u, "free") /\ UNCHANGED con
  <2>1. /\ job' \in [Actors -> JobRec] /\ \A b \in Actors : b # u => job'[b] = job[b]
        /\ job'[u].pc = "free" /\ job'[u].con = c
    BY <1>0, <1>2, <1>3, GotoFacts, Who
  <2>2. JobFrame(u)
    BY <1>0, <1>1, <1>3, <2>1 DEF JobFrame, Types
  <2>3. NoneCancelled(c)
    BY <1>0, <1>3, NoThreadNoneCancelled
  <2> QED BY <1>0, <1>1, <1>2, <1>3, <2>1, <2>2, <2>3, EndingKeeps
<1>4. CASE con' = [con EXCEPT ![c] = x] /\ Goto(u, "endjoin")
  <2>1. /\ job' \in [Actors -> JobRec] /\ \A b \in Actors : b # u => job'[b] = job[b]
        /\ job'[u].pc = "endjoin" /\ job'[u].con = c
    BY <1>0, <1>2, <1>4, GotoFacts, Who
  <2>2. con[c] \in ConRec
    BY <1>0 DEF Types
  <2>3. x \in ConRec /\ x.thread = con[c].thread /\ x.pktList = con[c].pktList
    <3>1. con[c].callbackSem + 1 \in Nat
      BY <2>2 DEF ConRec
    <3> QED BY <2>2, <3>1 DEF ConRec
  <2> HIDE DEF x
  <2>4. /\ con' \in [Cons -> ConRec] /\ con'[c] = x
        /\ \A d \in Cons : d # c => con'[d] = con[d]
    BY <1>0, <1>4, <2>3, Changing
  <2>5. JobFrame(u)
    BY <1>0, <1>1, <2>1, <2>3, <2>4 DEF JobFrame, Types
  <2> QED BY <1>0, <1>1, <1>2, <2>1, <2>3, <2>4, <2>5, EndingKeeps
<1> QED BY <1>1, <1>3, <1>4

LEMMA ConFreeJoinKeeps ==
  ASSUME LifeInv, NEW u \in Users, ConFreeJoin(u)
  PROVE  LifeInv'
<1>0. Types /\ job[u].pc \in {"endjoin", "killed"} /\ job[u].con \in Cons
  BY AtFacts, Who DEF LifeInv, ConFreeJoin
<1>1. /\ UNCHANGED <<conList, linked, con, threads, received, begun>>
      /\ ThreadJoin(u, job[u].con, "endjoining")
  BY DEF ConFreeJoin
<1>2. /\ job' \in [Actors -> JobRec] /\ \A b \in Actors : b # u => job'[b] = job[b]
      /\ \/ job'[u] = Idle
         \/ /\ job'[u].pc = "endjoining" /\ job'[u].con = job[u].con
            /\ job'[u].thread # 0 /\ con[job[u].con].thread = job'[u].thread
            /\ \A b \in Actors : ~(job[b].pc \in Joins /\ job[b].con = job[u].con)
  BY <1>0, <1>1, ThreadJoinFacts, Who DEF Joins
<1>3. Idle.pc = "idle" /\ "idle" \notin Joins /\ {"endjoin", "killed", "endjoining"} \subseteq Ending
  BY DEF Idle, Joins, Ending
<1>4. JobFrame(u)
  BY <1>0, <1>1, <1>2, <1>3 DEF JobFrame, Types
<1> QED BY <1>0, <1>1, <1>2, <1>3, <1>4, EndingKeeps

LEMMA FreeKeeps ==
  ASSUME LifeInv, NEW u \in Users, Free(u)
  PROVE  LifeInv'
<1> DEFINE c == job[u].con
           x == [con[c] EXCEPT !.pktList = <<>>]
<1>0. Types /\ Ends /\ job[u].pc = "free" /\ c \in Cons
  BY AtFacts, Who DEF LifeInv, Free
<1>1. /\ UNCHANGED <<linked, threads, received, begun>> /\ conList' = conList \ {c}
      /\ con' = [con EXCEPT ![c] = x] /\ Done(u)
  BY DEF Free
<1>2. /\ job' \in [Actors -> JobRec] /\ \A b \in Actors : b # u => job'[b] = job[b]
      /\ job'[u].pc = "idle"
  BY <1>0, <1>1, DoneFacts, Who
<1>3. con[c] \in ConRec
  BY <1>0 DEF Types
<1>4. x \in ConRec /\ x.thread = con[c].thread /\ x.pktList = <<>>
  <2>1. <<>> \in Seq(Nat)
    OBVIOUS
  <2> QED BY <1>3, <2>1 DEF ConRec
<1> HIDE DEF x
<1>5. /\ con' \in [Cons -> ConRec] /\ con'[c] = x
      /\ \A d \in Cons : d # c => con'[d] = con[d]
  BY <1>0, <1>1, <1>4, Changing
<1>6. JobFrame(u)
  BY <1>0, <1>1, <1>2, <1>4, <1>5 DEF JobFrame, Types
<1>7. NoneCancelled(c)
  BY <1>0 DEF Ends
<1>8. "free" \in Ending /\ "idle" \notin Joins
  BY DEF Ending, Joins
<1> QED BY <1>0, <1>1, <1>2, <1>4, <1>5, <1>6, <1>7, <1>8, EndingKeeps

\* The thread that is cancelled is that of the user's own connection.
LEMMA ConFreeKillKeeps ==
  ASSUME LifeInv, NEW u \in Users, ConFreeKill(u)
  PROVE  LifeInv'
<1> DEFINE c == job[u].con
           t == con[c].thread
           x == [threads[t] EXCEPT !.cancelled = TRUE, !.active = FALSE]
<1>0. /\ Types /\ OneProdder /\ ThreadsInv /\ Handles /\ Joining /\ Starter /\ Ends
      /\ job[u].pc = "endjoin" /\ c \in Cons /\ c \in conList
  BY AtFacts, Who DEF LifeInv, ConFreeKill
<1>1. /\ UNCHANGED <<conList, linked, con, received, begun>>
      /\ t # 0 /\ threads[t].active /\ threads' = [threads EXCEPT ![t] = x]
      /\ Goto(u, "killed")
  BY DEF ConFreeKill
<1>2. t \in 1..Len(threads) /\ threads[t].con = c
  BY <1>0, <1>1 DEF Handles
<1>3. threads[t] \in ThreadRec /\ threads[t].place \notin {"created"} \cup Dead
  BY <1>0, <1>1, <1>2, ThreadTypes DEF ThreadsInv
<1>4. /\ x \in ThreadRec /\ x.con = c /\ x.place = threads[t].place
      /\ x.cancelled /\ ~x.active
  BY <1>2, <1>3 DEF ThreadRec
<1> HIDE DEF x
<1>5. /\ threads' \in Seq(ThreadRec) /\ Len(threads') = Len(threads) /\ threads'[t] = x
      /\ \A s \in 1..Len(threads) : s # t => threads'[s] = threads[s]
  BY <1>0, <1>1, <1>2, <1>4, Replacing DEF Types
<1>6. /\ "killed" \in Pcs /\ {"endjoin", "killed"} \subseteq Ending
      /\ "killed" \notin Joins \cup {"free", "prod", "start"}
  BY DEF Pcs, Ending, Joins
<1>7. /\ job' \in [Actors -> JobRec] /\ \A b \in Actors : b # u => job'[b] = job[b]
      /\ job'[u].pc = "killed" /\ job'[u].con = c
  BY <1>0, <1>1, <1>6, GotoFacts, Who
<1> HIDE DEF c, t
<1>8. Types'
  BY <1>0, <1>1, <1>5, <1>7 DEF Types
<1>9. OneProdder'
  BY <1>0, <1>1, <1>6, <1>7, Who DEF OneProdder
<1>10. ThreadsInv'
  <2>1. ASSUME NEW s \in 1..Len(threads)
        PROVE  /\ threads'[s].active => threads'[s].place \notin {"created"} \cup Dead
               /\ threads'[s].cancelled => threads'[s].place # "created" /\ ~threads'[s].active
               /\ threads'[s].place \notin Dead => con'[threads'[s].con].thread = s
    <3>1. CASE s # t
      BY <1>0, <1>1, <1>5, <3>1 DEF ThreadsInv
    <3>2. CASE s = t
      BY <1>0, <1>1, <1>2, <1>3, <1>4, <1>5, <3>2 DEF ThreadsInv
    <3> QED BY <3>1, <3>2
  <2> QED BY <1>5, <2>1 DEF ThreadsInv
<1>11. Handles'
  BY <1>0, <1>1, <1>2, <1>4, <1>5 DEF Handles
<1>12. Joining' /\ Starter'
  BY <1>0, <1>1, <1>6, <1>7, Who DEF Joining, Starter
<1>13. \A d : d # c /\ NoneCancelled(d) => NoneCancelled(d)'
  BY <1>2, <1>4, <1>5 DEF NoneCancelled
<1>14. Ends'
  <2>1. \A v \in Users : job'[v].pc \in Ending => job[v].pc \in Ending /\ job'[v].con = job[v].con
    BY <1>0, <1>6, <1>7, Who DEF c
  <2>2. /\ \A v \in Users : job'[v].pc \in Ending => job'[v].con \notin linked'
        /\ \A v, w \in Users :
             job'[v].pc \in Ending /\ job'[w].pc \in Ending /\ job'[v].con = job'[w].con => v = w
    BY <1>0, <1>1, <2>1 DEF Ends
  <2>3. \A v \in Users : job'[v].pc = "free" => NoneCancelled(job[v].con)'
    <3>1. SUFFICES ASSUME NEW v \in Users, job'[v].pc = "free", NEW d, d = job'[v].con
                   PROVE  NoneCancelled(d)'
      BY DEF NoneCancelled
    <3>2. v # u /\ job'[v] = job[v] /\ "free" \in Ending
      BY <1>6, <1>7, <3>1, Who DEF Ending
    <3>3. d # c
      BY <1>0, <1>6, <3>1, <3>2 DEF Ends, c
    <3> QED BY <1>0, <1>13, <3>1, <3>2, <3>3 DEF Ends
  <2>4. \A d \in Cons : d \notin conList' => NoneCancelled(d)'
    BY <1>0, <1>1, <1>13 DEF Ends
  <2> QED BY <2>2, <2>3, <2>4 DEF Ends
<1> QED BY <1>8, <1>9, <1>10, <1>11, <1>12, <1>14 DEF LifeInv

LEMMA LifeStep ==
  ASSUME SetEarly, LifeInv, [Next]_vars
  PROVE  LifeInv'
<1>0. Types
  BY DEF LifeInv
<1>1. ASSUME UNCHANGED <<conList, linked, con, threads, job, received, begun>> PROVE LifeInv'
  BY <1>0, <1>1, QuietSteps DEF Types
<1>2. ASSUME NEW a \in Actors, Prod(a) PROVE LifeInv'
  <2>1. CASE UseAfterFree(a)
    BY <1>1, <2>1 DEF UseAfterFree
  <2> QED BY <1>2, <2>1, CallbackProdKeeps, CallbackCheckKeeps, CallbackJoinKeeps,
             CallbackStartKeeps, PthreadJoinKeeps DEF Prod
<1>3. ASSUME NEW t \in 1..Len(threads), CallbackThread(t) \/ CallbackReturns(t) PROVE LifeInv'
  <2>1. CASE ThreadUsesFreed(t)
    BY <1>1, <2>1 DEF ThreadUsesFreed
  <2> QED BY <1>3, <2>1, CallbackThreadMoves, ThreadMovesKeep DEF CallbackThread
<1>4. ASSUME NEW u \in Users, User(u) PROVE LifeInv'
  BY <1>2, <1>4, Who, ConFreeKeeps, ConFreeJoinKeeps, ConFreeKillKeeps, FreeKeeps DEF User
<1>5. ASSUME NEW u \in Users, NEW c \in Cons,
             (\E callback \in BOOLEAN : CallbackSet(u, c, callback)) \/ ConRx(u, c) \/ ConEnd(u, c)
      PROVE  LifeInv'
  BY <1>5, CallbackSetKeeps, ConRxKeeps, ConEndKeeps
<1>6. CASE UNCHANGED vars
  BY <1>1, <1>6 DEF vars
<1>7. CASE Next
  BY <1>2, <1>3, <1>4, <1>5, <1>7, LocateKeeps, LinkPacketKeeps, Who DEF Next
<1> QED BY <1>6, <1>7

LEMMA LifeInit == Init => LifeInv
<1> SUFFICES ASSUME Init PROVE LifeInv
  OBVIOUS
<1>1. NewCon \in ConRec /\ NewCon.thread = 0
  BY DEF NewCon, ConRec
<1>2. Idle \in JobRec /\ Idle.pc = "idle"
  BY DEF Idle, JobRec, Pcs
<1>3. /\ con = [c \in Cons |-> NewCon] /\ job = [a \in Actors |-> Idle] /\ threads = <<>>
      /\ conList = Cons /\ linked = Cons /\ received = 0 /\ begun = [c \in Cons |-> <<>>]
  BY DEF Init
<1>4. Types
  BY <1>1, <1>2, <1>3 DEF Types
<1>5. OneProdder /\ Joining /\ Starter
  BY <1>2, <1>3, Who DEF OneProdder, Joining, Starter, Joins
<1>6. ThreadsInv /\ Handles
  BY <1>1, <1>3 DEF ThreadsInv, Handles
<1>7. Ends
  BY <1>2, <1>3, Who DEF Ends, Ending, NoneCancelled
<1> QED BY <1>4, <1>5, <1>6, <1>7 DEF LifeInv

LEMMA LifeInvariant == ASSUME SetEarly PROVE Spec => []LifeInv
<1>1. LifeInv /\ [Next]_vars => LifeInv'
  BY LifeStep
<1> QED BY <1>1, LifeInit, PTL DEF Spec

\* xbee_conFree frees a connection only after the callback thread it cancelled
\* has ended, for every number of users, connections and packets.
THEOREM CancelledThreadsEnd ==
  ASSUME SetEarly
  PROVE  Spec => []CancelledEndsBeforeFree
<1>1. LifeInv => CancelledEndsBeforeFree
  <2>1. SUFFICES ASSUME LifeInv, NEW t \in 1..Len(threads),
                        threads[t].cancelled, threads[t].con \notin conList
                 PROVE  threads[t].place \in Dead
    BY DEF CancelledEndsBeforeFree, Dead
  <2>2. threads[t].con \in Cons
    BY <2>1, ThreadTypes DEF LifeInv
  <2> QED BY <2>1, <2>2 DEF LifeInv, Ends, NoneCancelled
<1> QED BY <1>1, LifeInvariant, PTL

-----------------------------------------------------------------------------
(***************************************************************************)
(* The order of the packets: those given to the callback, then those that   *)
(* wait, then the one the receive handler is about to link.                 *)
(***************************************************************************)
Increasing(s) == \A i, j \in DOMAIN s : i < j => s[i] < s[j]
Before(s, t) == \A i \in DOMAIN s, j \in DOMAIN t : s[i] < t[j]
AtMost(s, n) == \A i \in DOMAIN s : s[i] <= n

PacketsInOrder(b, q, c) ==
  /\ Increasing(b) /\ Increasing(q) /\ Before(b, q)
  /\ AtMost(b, received) /\ AtMost(q, received)
  /\ job[Rx].pc = "link" /\ job[Rx].con = c =>
       Before(b, <<job[Rx].packet>>) /\ Before(q, <<job[Rx].packet>>)

OrderInv ==
  /\ \A c \in Cons : PacketsInOrder(begun[c], con[c].pktList, c)
  /\ job[Rx].pc = "link" => job[Rx].packet <= received

LEMMA Grown ==
  ASSUME NEW s \in Seq(Nat), NEW x \in Nat
  PROVE  LET t == Append(s, x)
         IN  /\ \A n \in Nat : AtMost(s, n) /\ x <= n => AtMost(t, n)
             /\ Increasing(s) /\ Before(s, <<x>>) => Increasing(t)
             /\ \A q \in Seq(Nat) : Before(s, q) /\ Before(<<x>>, q) => Before(t, q)
             /\ \A b \in Seq(Nat) : Before(b, s) /\ Before(b, <<x>>) => Before(b, t)
<1> DEFINE t == Append(s, x)
<1>1. /\ DOMAIN s = 1..Len(s) /\ Len(s) \in Nat /\ DOMAIN t = 1..(Len(s) + 1)
      /\ t[Len(s) + 1] = x /\ \A i \in DOMAIN s : t[i] = s[i] /\ s[i] \in Nat
  OBVIOUS
<1>2. DOMAIN <<x>> = {1} /\ <<x>>[1] = x
  OBVIOUS
<1>3. \A i \in DOMAIN t : (i \in DOMAIN s /\ t[i] = s[i]) \/ (i = Len(s) + 1 /\ t[i] = x)
  BY <1>1
<1> HIDE DEF t
<1>4. \A n \in Nat : AtMost(s, n) /\ x <= n => AtMost(t, n)
  BY <1>3 DEF AtMost
<1>5. Increasing(s) /\ Before(s, <<x>>) => Increasing(t)
  <2>1. SUFFICES ASSUME Increasing(s), Before(s, <<x>>),
                        NEW i \in DOMAIN t, NEW j \in DOMAIN t, i < j
                 PROVE  t[i] < t[j]
    BY DEF Increasing
  <2>2. i \in DOMAIN s
    BY <1>1, <2>1
  <2> QED BY <1>1, <1>2, <1>3, <2>1, <2>2 DEF Increasing, Before
<1>6. \A q \in Seq(Nat) : Before(s, q) /\ Before(<<x>>, q) => Before(t, q)
  BY <1>2, <1>3 DEF Before
<1>7. \A b \in Seq(Nat) : Before(b, s) /\ Before(b, <<x>>) => Before(b, t)
  <2>1. SUFFICES ASSUME NEW b \in Seq(Nat), Before(b, s), Before(b, <<x>>),
                        NEW i \in DOMAIN b, NEW j \in DOMAIN t
                 PROVE  b[i] < t[j]
    BY DEF Before
  <2>2. b[i] < x
    BY <1>2, <2>1 DEF Before
  <2> QED BY <1>3, <2>1, <2>2 DEF Before
<1> QED BY <1>4, <1>5, <1>6, <1>7 DEF t

LEMMA Shrunk ==
  ASSUME NEW s \in Seq(Nat), s # <<>>
  PROVE  LET t == Tail(s)
         IN  /\ \A n \in Nat : AtMost(s, n) => AtMost(t, n) /\ Head(s) <= n
             /\ Increasing(s) => Increasing(t) /\ Before(<<Head(s)>>, t)
             /\ \A q \in Seq(Nat) : Before(s, q) => Before(t, q) /\ Before(<<Head(s)>>, q)
             /\ \A b \in Seq(Nat) : Before(b, s) => Before(b, t) /\ Before(b, <<Head(s)>>)
<1> DEFINE t == Tail(s)
           x == Head(s)
<1>1. /\ 1 \in DOMAIN s /\ x = s[1]
      /\ \A i \in DOMAIN t : i \in Int /\ i + 1 \in DOMAIN s /\ 1 < i + 1 /\ t[i] = s[i + 1]
  OBVIOUS
<1>2. DOMAIN <<x>> = {1} /\ <<x>>[1] = x
  OBVIOUS
<1> HIDE DEF t, x
<1>3. \A n \in Nat : AtMost(s, n) => AtMost(t, n) /\ x <= n
  BY <1>1 DEF AtMost
<1>4. ASSUME Increasing(s) PROVE Increasing(t) /\ Before(<<x>>, t)
  <2>1. ASSUME NEW i \in DOMAIN t, NEW j \in DOMAIN t, i < j PROVE t[i] < t[j]
    <3>1. i + 1 < j + 1
      BY <1>1, <2>1
    <3> QED BY <1>1, <1>4, <3>1 DEF Increasing
  <2>2. \A j \in DOMAIN t : x < t[j]
    BY <1>1, <1>4 DEF Increasing
  <2> QED BY <1>2, <2>1, <2>2 DEF Increasing, Before
<1>5. \A q \in Seq(Nat) : Before(s, q) => Before(t, q) /\ Before(<<x>>, q)
  BY <1>1, <1>2 DEF Before
<1>6. \A b \in Seq(Nat) : Before(b, s) => Before(b, t) /\ Before(b, <<x>>)
  BY <1>1, <1>2 DEF Before
<1> QED BY <1>3, <1>4, <1>5, <1>6 DEF t, x

OrderFrame ==
  /\ UNCHANGED <<begun, received>>
  /\ \A c \in Cons : con'[c].pktList = con[c].pktList
  /\ job'[Rx].pc # "link" \/ job'[Rx] = job[Rx]

LEMMA OrderUnchanged ==
  ASSUME OrderInv, OrderFrame
  PROVE  OrderInv'
<1>1. ASSUME NEW c \in Cons PROVE PacketsInOrder(begun[c], con[c].pktList, c)'
  BY DEF OrderInv, OrderFrame, PacketsInOrder
<1> QED BY <1>1 DEF OrderInv, OrderFrame

LEMMA EmptyInOrder ==
  \A s : Increasing(<<>>) /\ Before(<<>>, s) /\ Before(s, <<>>) /\ \A n : AtMost(<<>>, n)
BY DEF Increasing, Before, AtMost

\* A packet leaves the head of a queue.
LEMMA TakeInOrder ==
  ASSUME Types, NEW c \in Cons, con[c].pktList # <<>>,
         PacketsInOrder(begun[c], con[c].pktList, c)
  PROVE  /\ PacketsInOrder(begun[c], Tail(con[c].pktList), c)
         /\ PacketsInOrder(Append(begun[c], Head(con[c].pktList)), Tail(con[c].pktList), c)
<1> DEFINE q == con[c].pktList
           b == begun[c]
           p == <<job[Rx].packet>>
<1>1. /\ q \in Seq(Nat) /\ b \in Seq(Nat) /\ p \in Seq(Nat) /\ received \in Nat
      /\ q # <<>> /\ Head(q) \in Nat /\ Tail(q) \in Seq(Nat)
  <2>1. con[c] \in ConRec /\ job[Rx] \in JobRec
    BY Who DEF Types
  <2>2. q \in Seq(Nat) /\ job[Rx].packet \in Nat
    BY <2>1 DEF ConRec, JobRec
  <2> QED BY <2>2 DEF Types
<1>2. PacketsInOrder(b, q, c)
  OBVIOUS
<1> DEFINE late == job[Rx].pc = "link" /\ job[Rx].con = c
<1>3. /\ Increasing(b) /\ Increasing(q) /\ Before(b, q)
      /\ AtMost(b, received) /\ AtMost(q, received)
      /\ late => Before(b, p) /\ Before(q, p)
  BY <1>2 DEF PacketsInOrder
<1>4. \A x, y, z : PacketsInOrder(x, y, c) <=>
        /\ Increasing(x) /\ Increasing(y) /\ Before(x, y)
        /\ AtMost(x, received) /\ AtMost(y, received)
        /\ late => Before(x, p) /\ Before(y, p)
  BY DEF PacketsInOrder
<1> HIDE DEF q, b, p, late
<1>5. /\ AtMost(Tail(q), received) /\ Head(q) <= received
      /\ Increasing(Tail(q)) /\ Before(<<Head(q)>>, Tail(q))
      /\ Before(b, Tail(q)) /\ Before(b, <<Head(q)>>)
      /\ late => Before(Tail(q), p) /\ Before(<<Head(q)>>, p)
  BY <1>1, <1>3, Shrunk
<1>6. /\ AtMost(Append(b, Head(q)), received) /\ Increasing(Append(b, Head(q)))
      /\ Before(Append(b, Head(q)), Tail(q))
      /\ late => Before(Append(b, Head(q)), p)
  BY <1>1, <1>3, <1>5, Grown
<1>7. PacketsInOrder(b, Tail(q), c) /\ PacketsInOrder(Append(b, Head(q)), Tail(q), c)
  BY <1>3, <1>4, <1>5, <1>6
<1> QED BY <1>7 DEF b, q

LEMMA LocateInOrder ==
  ASSUME Types, OrderInv, NEW c \in Cons, Locate(c)
  PROVE  OrderInv'
<1>1. /\ received' = received + 1 /\ received \in Nat /\ UNCHANGED <<con, begun>>
      /\ job'[Rx].packet = received' /\ job'[Rx].con = c
  BY Who DEF Locate, Types
<1>2. ASSUME NEW s \in Seq(Nat), AtMost(s, received)
      PROVE  AtMost(s, received') /\ Before(s, <<job'[Rx].packet>>)
  <2>1. \A i \in DOMAIN s : s[i] \in Nat /\ s[i] <= received
    BY <1>2 DEF AtMost
  <2>2. DOMAIN <<received'>> = {1} /\ <<received'>>[1] = received'
    OBVIOUS
  <2>3. \A i \in DOMAIN s : s[i] <= received' /\ s[i] < received'
    BY <1>1, <2>1
  <2> QED BY <1>1, <2>2, <2>3 DEF AtMost, Before
<1>3. ASSUME NEW d \in Cons PROVE PacketsInOrder(begun[d], con[d].pktList, d)'
  <2>1. con[d].pktList \in Seq(Nat) /\ begun[d] \in Seq(Nat)
    BY DEF Types, ConRec
  <2> QED BY <1>1, <1>2, <2>1 DEF OrderInv, PacketsInOrder
<1>4. job'[Rx].packet <= received'
  BY <1>1
<1> QED BY <1>3, <1>4 DEF OrderInv

LEMMA LinkInOrder ==
  ASSUME Types, OrderInv, LinkPacket
  PROVE  OrderInv'
<1> DEFINE c == job[Rx].con
           q == con[c].pktList
           x == job[Rx].packet
<1>0. job[Rx].pc = "link" /\ c \in Cons /\ con[c] \in ConRec /\ job[Rx] \in JobRec
  BY AtFacts, Who DEF LinkPacket, Types
<1>1. q \in Seq(Nat) /\ x \in Nat /\ received \in Nat /\ begun[c] \in Seq(Nat)
  BY <1>0 DEF ConRec, JobRec, Types
<1>2. UNCHANGED <<begun, received>> /\ con' = [con EXCEPT ![c].pktList = Append(q, x)]
  BY DEF LinkPacket
<1>3. \A d \in Cons : con'[d].pktList = IF d = c THEN Append(q, x) ELSE con[d].pktList
  BY <1>0, <1>2 DEF Types, ConRec
<1>4. job'[Rx].pc # "link"
  <2>1. CASE Goto(Rx, "prod")
    BY <2>1, GotoFacts, Who DEF Pcs, Prodding
  <2>2. CASE Done(Rx)
    BY <2>2, DoneFacts, Who
  <2> QED BY <2>1, <2>2 DEF LinkPacket
<1>5. /\ x <= received /\ Increasing(q) /\ AtMost(q, received)
      /\ Before(q, <<x>>) /\ Before(begun[c], <<x>>) /\ Before(begun[c], q)
      /\ Increasing(begun[c]) /\ AtMost(begun[c], received)
  BY <1>0 DEF OrderInv, PacketsInOrder
<1> HIDE DEF c, q, x
<1>6. Increasing(Append(q, x)) /\ AtMost(Append(q, x), received) /\ Before(begun[c], Append(q, x))
  BY <1>1, <1>5, Grown
<1>7. ASSUME NEW d \in Cons PROVE PacketsInOrder(begun[d], con[d].pktList, d)'
  <2>1. CASE d = c
    BY <1>2, <1>3, <1>4, <1>5, <1>6, <2>1 DEF PacketsInOrder
  <2>2. CASE d # c
    BY <1>2, <1>3, <1>4, <2>2 DEF PacketsInOrder, OrderInv
  <2> QED BY <2>1, <2>2
<1> QED BY <1>4, <1>7 DEF OrderInv

LEMMA CallbackTopInOrder ==
  ASSUME Types, OrderInv, NEW t \in 1..Len(threads), CallbackTop(t)
  PROVE  OrderInv'
<1> DEFINE c == threads[t].con
           q == con[c].pktList
<1>1. c \in Cons /\ UNCHANGED <<received, job>>
  BY ThreadTypes DEF CallbackTop
<1>2. \/ UNCHANGED <<con, begun>>
      \/ /\ q # <<>> /\ con' = [con EXCEPT ![c].pktList = Tail(q)]
         /\ begun' = [begun EXCEPT ![c] = Append(begun[c], Head(q))]
  BY DEF CallbackTop
<1>3. CASE UNCHANGED <<con, begun>>
  BY <1>1, <1>3, OrderUnchanged DEF OrderFrame
<1>4. CASE /\ q # <<>> /\ con' = [con EXCEPT ![c].pktList = Tail(q)]
           /\ begun' = [begun EXCEPT ![c] = Append(begun[c], Head(q))]
  <2>1. \A d \in Cons :
          /\ con'[d].pktList = IF d = c THEN Tail(q) ELSE con[d].pktList
          /\ begun'[d] = IF d = c THEN Append(begun[c], Head(q)) ELSE begun[d]
    BY <1>1, <1>4 DEF Types, ConRec
  <2>2. PacketsInOrder(Append(begun[c], Head(q)), Tail(q), c)
    BY <1>1, <1>4, TakeInOrder DEF OrderInv
  <2> HIDE DEF q, c
  <2>3. ASSUME NEW d \in Cons PROVE PacketsInOrder(begun[d], con[d].pktList, d)'
    <3>1. CASE d = c
      BY <1>1, <2>1, <2>2, <3>1 DEF PacketsInOrder
    <3>2. CASE d # c
      BY <1>1, <2>1, <3>2 DEF PacketsInOrder, OrderInv
    <3> QED BY <3>1, <3>2
  <2> QED BY <1>1, <2>3 DEF OrderInv
<1> QED BY <1>2, <1>3, <1>4

LEMMA ConRxInOrder ==
  ASSUME Types, OrderInv, NEW u \in Users, NEW c \in Cons, ConRx(u, c)
  PROVE  OrderInv'
<1> DEFINE q == con[c].pktList
<1>1. /\ q # <<>> /\ con' = [con EXCEPT ![c].pktList = Tail(q)]
      /\ UNCHANGED <<received, job, begun>>
  BY DEF ConRx
<1>2. \A d \in Cons : con'[d].pktList = IF d = c THEN Tail(q) ELSE con[d].pktList
  BY <1>1 DEF Types, ConRec
<1>3. PacketsInOrder(begun[c], Tail(q), c)
  BY <1>1, TakeInOrder DEF OrderInv
<1> HIDE DEF q
<1>4. ASSUME NEW d \in Cons PROVE PacketsInOrder(begun[d], con[d].pktList, d)'
  <2>1. CASE d = c
    BY <1>1, <1>2, <1>3, <2>1 DEF PacketsInOrder
  <2>2. CASE d # c
    BY <1>1, <1>2, <2>2 DEF PacketsInOrder, OrderInv
  <2> QED BY <2>1, <2>2
<1> QED BY <1>1, <1>4 DEF OrderInv

LEMMA FreeInOrder ==
  ASSUME Types, OrderInv, NEW u \in Users, Free(u)
  PROVE  OrderInv'
<1> DEFINE c == job[u].con
<1>1. c \in Cons /\ con' = [con EXCEPT ![c].pktList = <<>>] /\ UNCHANGED <<received, begun>>
  BY AtFacts, Who DEF Free
<1>2. \A d \in Cons : con'[d].pktList = IF d = c THEN <<>> ELSE con[d].pktList
  BY <1>1 DEF Types, ConRec
<1>3. job'[Rx] = job[Rx]
  BY DoneFacts, Who DEF Free
<1> HIDE DEF c
<1>4. ASSUME NEW d \in Cons PROVE PacketsInOrder(begun[d], con[d].pktList, d)'
  <2>1. CASE d = c
    BY <1>1, <1>2, <1>3, <2>1, EmptyInOrder DEF PacketsInOrder, OrderInv
  <2>2. CASE d # c
    BY <1>1, <1>2, <1>3, <2>2 DEF PacketsInOrder, OrderInv
  <2> QED BY <2>1, <2>2
<1> QED BY <1>1, <1>3, <1>4 DEF OrderInv

\* An actor's step that leaves the queues alone.
LEMMA JobInOrder ==
  ASSUME Types, OrderInv, NEW a \in Actors,
         UNCHANGED <<begun, received>>,
         \A c \in Cons : con'[c].pktList = con[c].pktList,
         \A b \in Actors : b # a => job'[b] = job[b],
         job'[a].pc # "link"
  PROVE  OrderInv'
BY Who, OrderUnchanged DEF OrderFrame

\* Fields but the queue.
LEMMA QueuesKept ==
  ASSUME Types, NEW c \in Cons, NEW n, NEW e
  PROVE  /\ con' = [con EXCEPT ![c].callbackSem = n] =>
              \A d \in Cons : con'[d].pktList = con[d].pktList
         /\ con' = [con EXCEPT ![c].ending = e, ![c].callbackSem = n] =>
              \A d \in Cons : con'[d].pktList = con[d].pktList
<1>1. con[c] \in ConRec
  BY DEF Types
<1> DEFINE x == [con[c] EXCEPT !.callbackSem = n]
           y == [con[c] EXCEPT !.ending = e, !.callbackSem = n]
<1>2. x.pktList = con[c].pktList /\ y.pktList = con[c].pktList
  BY <1>1 DEF ConRec
<1>3. /\ [con EXCEPT ![c].callbackSem = n] = [con EXCEPT ![c] = x]
      /\ [con EXCEPT ![c].ending = e, ![c].callbackSem = n] = [con EXCEPT ![c] = y]
  BY DEF Types
<1> HIDE DEF x, y
<1>4. /\ con' = [con EXCEPT ![c] = x] => \A d \in Cons : con'[d].pktList = con[d].pktList
      /\ con' = [con EXCEPT ![c] = y] => \A d \in Cons : con'[d].pktList = con[d].pktList
  BY <1>2 DEF Types
<1> QED BY <1>3, <1>4

LEMMA ProdInOrder ==
  ASSUME LifeInv, OrderInv, NEW a \in Actors, Prod(a)
  PROVE  OrderInv'
<1>0. Types /\ Handles /\ Joining
  BY DEF LifeInv
<1>1. \A pc \in {"prod", "check", "join", "joining", "start", "free"} :
        pc \in Pcs /\ pc # "link"
  BY DEF Pcs, Prodding, Ending
<1>2. \A c \in Cons : con[c] \in ConRec
  BY <1>0 DEF Types
<1>3. CASE UseAfterFree(a)
  BY <1>3, OrderUnchanged DEF UseAfterFree, OrderFrame
<1>4. ASSUME NEW pc \in {"prod", "check", "join", "joining", "start", "free"},
             Done(a) \/ Goto(a, pc)
      PROVE  job'[a].pc # "link" /\ \A b \in Actors : b # a => job'[b] = job[b]
  BY <1>0, <1>1, <1>4, GotoFacts, DoneFacts
<1>5. CASE CallbackProd(a)
  <2>1. /\ Done(a) \/ Goto(a, "check")
        /\ con' = con \/ con' = [con EXCEPT ![job[a].con].callbackSem = con[job[a].con].callbackSem + 1]
        /\ UNCHANGED <<begun, received>> /\ job[a].con \in Cons
    BY <1>0, <1>5, AtFacts DEF CallbackProd
  <2>2. \A c \in Cons : con'[c].pktList = con[c].pktList
    BY <1>0, <2>1, QueuesKept
  <2> QED BY <1>0, <1>4, <2>1, <2>2, JobInOrder
<1>6. CASE CallbackCheck(a)
  BY <1>0, <1>4, <1>6, JobInOrder DEF CallbackCheck
<1>7. CASE CallbackJoin(a)
  <2>1. job[a].con \in Cons /\ "joining" \in Joins
    BY <1>0, <1>7, AtFacts DEF CallbackJoin, Joins
  <2>2. /\ \A b \in Actors : b # a => job'[b] = job[b]
        /\ job'[a] = Idle \/ job'[a].pc = "joining"
    BY <1>7, <2>1, ThreadJoinFacts DEF CallbackJoin
  <2>3. job'[a].pc # "link"
    BY <2>2 DEF Idle
  <2>4. UNCHANGED <<con, begun, received>>
    BY <1>7 DEF CallbackJoin
  <2> QED BY <1>0, <2>2, <2>3, <2>4, JobInOrder
<1>8. CASE CallbackStart(a)
  <2>1. /\ Done(a) /\ con' = [con EXCEPT ![job[a].con].thread = Len(threads) + 1]
        /\ UNCHANGED <<begun, received>> /\ job[a].con \in Cons
    BY <1>0, <1>8, AtFacts DEF CallbackStart, ThreadStart
  <2>2. \A c \in Cons : con'[c].pktList = con[c].pktList
    BY <1>0, <1>2, <2>1 DEF Types, ConRec
  <2> QED BY <1>0, <1>4, <2>1, <2>2, JobInOrder
<1>9. CASE PthreadJoin(a)
  <2>1. job[a].pc \in Joins
    BY <1>9 DEF PthreadJoin, At, Joins
  <2>2. job[a].thread \in 1..Len(threads)
    BY <1>0, <2>1 DEF Joining, Handles
  <2>3. /\ \A c \in Cons : con'[c].pktList = con[c].pktList
        /\ UNCHANGED <<begun, received>>
    BY <1>0, <1>9, <2>2, PthreadJoinFacts DEF PthreadJoin
  <2>4. Goto(a, "start") \/ Goto(a, "free")
    BY <1>9 DEF PthreadJoin
  <2> QED BY <1>0, <1>4, <2>3, <2>4, JobInOrder
<1> QED BY <1>3, <1>5, <1>6, <1>7, <1>8, <1>9 DEF Prod, LifeInv

LEMMA ThreadInOrder ==
  ASSUME Types, OrderInv, NEW t \in 1..Len(threads),
         CallbackThread(t) \/ CallbackReturns(t)
  PROVE  OrderInv'
<1>1. CASE CallbackTop(t)
  BY <1>1, CallbackTopInOrder
<1>2. CASE CallbackWait(t)
  <2>1. /\ con' = con \/ con' = [con EXCEPT ![threads[t].con].callbackSem = con[threads[t].con].callbackSem - 1]
        /\ UNCHANGED <<begun, received, job>>
    BY <1>2 DEF CallbackWait
  <2>2. \A c \in Cons : con'[c].pktList = con[c].pktList
    BY <2>1, ThreadTypes, QueuesKept
  <2> QED BY <2>1, <2>2, OrderUnchanged DEF OrderFrame
<1>3. CASE \/ ThreadBegins(t) \/ CallbackReturns(t) \/ ThreadEnds(t) \/ ThreadCancelled(t)
           \/ ThreadUsesFreed(t)
  <2>1. UNCHANGED <<con, begun, received, job>>
    BY <1>3 DEF ThreadBegins, CallbackReturns, ThreadEnds, ThreadCancelled, ThreadUsesFreed
  <2> QED BY <2>1, OrderUnchanged DEF OrderFrame
<1> QED BY <1>1, <1>2, <1>3 DEF CallbackThread

LEMMA UserInOrder ==
  ASSUME LifeInv, OrderInv, NEW u \in Users, User(u)
  PROVE  OrderInv'
<1>0. Types /\ u \in Actors
  BY Who DEF LifeInv
<1>1. \A pc \in {"free", "endjoin", "killed"} : pc \in Pcs /\ pc # "link"
  BY DEF Pcs, Ending
<1>2. ASSUME NEW pc \in {"free", "endjoin", "killed"}, Goto(u, pc)
      PROVE  job'[u].pc # "link" /\ \A b \in Actors : b # u => job'[b] = job[b]
  BY <1>0, <1>1, <1>2, GotoFacts
<1>3. CASE ConFree(u)
  <2>1. /\ Goto(u, "free") \/ Goto(u, "endjoin")
        /\ \/ con' = con
           \/ con' = [con EXCEPT ![job[u].con].ending = TRUE,
                                 ![job[u].con].callbackSem = con[job[u].con].callbackSem + 1]
        /\ UNCHANGED <<begun, received>> /\ job[u].con \in Cons
    BY <1>0, <1>3, AtFacts DEF ConFree
  <2>2. \A c \in Cons : con'[c].pktList = con[c].pktList
    BY <1>0, <2>1, QueuesKept
  <2> QED BY <1>0, <1>2, <2>1, <2>2, JobInOrder
<1>4. CASE ConFreeJoin(u)
  <2>1. job[u].con \in Cons /\ "endjoining" \in Joins
    BY <1>0, <1>4, AtFacts DEF ConFreeJoin, Joins
  <2>2. /\ \A b \in Actors : b # u => job'[b] = job[b]
        /\ job'[u] = Idle \/ job'[u].pc = "endjoining"
    BY <1>0, <1>4, <2>1, ThreadJoinFacts DEF ConFreeJoin
  <2>3. job'[u].pc # "link"
    BY <2>2 DEF Idle
  <2>4. UNCHANGED <<con, begun, received>>
    BY <1>4 DEF ConFreeJoin
  <2> QED BY <1>0, <2>2, <2>3, <2>4, JobInOrder
<1>5. CASE ConFreeKill(u)
  BY <1>0, <1>2, <1>5, JobInOrder DEF ConFreeKill
<1>6. CASE Free(u)
  BY <1>0, <1>6, FreeInOrder
<1> QED BY <1>0, <1>3, <1>4, <1>5, <1>6, ProdInOrder DEF User

LEMMA OrderStep ==
  ASSUME LifeInv, OrderInv, [Next]_vars
  PROVE  OrderInv'
<1>0. Types
  BY DEF LifeInv
<1>1. ASSUME NEW u \in Users, NEW c \in Cons, NEW callback \in BOOLEAN,
             CallbackSet(u, c, callback)
      PROVE  OrderInv'
  <2>1. /\ UNCHANGED <<begun, received>> /\ con' = [con EXCEPT ![c].callback = callback]
        /\ job' = [job EXCEPT ![u] = [Idle EXCEPT !.pc = "prod", !.con = c]]
    BY <1>1 DEF CallbackSet
  <2>2. \A d \in Cons : con'[d].pktList = con[d].pktList
    BY <1>0, <2>1 DEF Types, ConRec
  <2>3. job'[u].pc # "link" /\ \A b \in Actors : b # u => job'[b] = job[b]
    BY <1>0, <2>1, Who DEF Types, Idle
  <2> QED BY <1>0, <2>1, <2>2, <2>3, Who, JobInOrder
<1>2. ASSUME NEW u \in Users, NEW c \in Cons, ConEnd(u, c)
      PROVE  OrderInv'
  <2>1. /\ UNCHANGED <<begun, received, con>>
        /\ job' = [job EXCEPT ![u] = [Idle EXCEPT !.pc = "end", !.con = c]]
    BY <1>2 DEF ConEnd
  <2>2. job'[u].pc # "link" /\ \A b \in Actors : b # u => job'[b] = job[b]
    BY <1>0, <2>1, Who DEF Types, Idle
  <2> QED BY <1>0, <2>1, <2>2, Who, JobInOrder
<1>3. CASE UNCHANGED vars
  BY <1>3, OrderUnchanged DEF vars, OrderFrame
<1>4. CASE Next
  BY <1>0, <1>1, <1>2, <1>4, LocateInOrder, LinkInOrder, ProdInOrder, ThreadInOrder,
     UserInOrder, ConRxInOrder, Who DEF Next
<1> QED BY <1>3, <1>4

LEMMA OrderInit == Init => OrderInv
<1> SUFFICES ASSUME Init PROVE OrderInv
  OBVIOUS
<1>1. job[Rx].pc = "idle"
  BY Who DEF Init, Idle
<1>2. \A c \in Cons : begun[c] = <<>> /\ con[c].pktList = <<>>
  BY DEF Init, NewCon
<1> QED BY <1>1, <1>2, EmptyInOrder DEF OrderInv, PacketsInOrder

LEMMA OrderInvariant == ASSUME SetEarly PROVE Spec => [](LifeInv /\ OrderInv)
<1>1. LifeInv /\ OrderInv /\ [Next]_vars => (LifeInv /\ OrderInv)'
  BY LifeStep, OrderStep
<1>2. Init => LifeInv /\ OrderInv
  BY LifeInit, OrderInit
<1> QED BY <1>1, <1>2, PTL DEF Spec

\* However threads of the callback end and are started again, one callback of a
\* connection runs at a time, for each packet once and in the order received.
THEOREM CallbacksInOrder ==
  ASSUME SetEarly
  PROVE  Spec => []OneCallbackInOrder
<1>1. ASSUME LifeInv, OrderInv, NEW c \in Cons
      PROVE  Cardinality({t \in 1..Len(threads) :
               threads[t].con = c /\ threads[t].place = "callback"}) <= 1
  <2> DEFINE running == {t \in 1..Len(threads) :
               threads[t].con = c /\ threads[t].place = "callback"}
  <2>1. \A t \in running : t = con[c].thread
    BY <1>1 DEF LifeInv, ThreadsInv, Dead
  <2>2. running = {} \/ running = {con[c].thread}
    BY <2>1
  <2> HIDE DEF running
  <2>3. Cardinality({}) = 0 /\ Cardinality({con[c].thread}) = 1
    BY FS_EmptySet, FS_Singleton
  <2>4. Cardinality(running) <= 1
    BY <2>2, <2>3
  <2> QED BY <2>4 DEF running
<1>2. ASSUME LifeInv, OrderInv, NEW c \in Cons
      PROVE  \A i, j \in 1..Len(begun[c]) : i < j => begun[c][i] < begun[c][j]
  <2>1. begun[c] \in Seq(Nat) /\ Increasing(begun[c])
    BY <1>2 DEF LifeInv, Types, OrderInv, PacketsInOrder
  <2>2. DOMAIN begun[c] = 1..Len(begun[c])
    BY <2>1
  <2> QED BY <2>1, <2>2 DEF Increasing
<1>3. LifeInv /\ OrderInv => OneCallbackInOrder
  BY <1>1, <1>2 DEF OneCallbackInOrder
<1> QED BY <1>3, OrderInvariant, PTL
=============================================================================
