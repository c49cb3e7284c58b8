---------------------------- MODULE XBeeCallbacks ---------------------------
(***************************************************************************)
(* The callbacks of libxbee's connections and how a connection ends         *)
(* (conn.c, with the threads of thread.c).                                  *)
(*                                                                          *)
(* The receive handler queues a packet in its connection and prods the      *)
(* connection's callback thread, which empties the queue, waits five        *)
(* seconds for more, and ends; the next packet starts another.  Threads of  *)
(* the program set callbacks, read packets and end connections meanwhile.   *)
(* None of them holds a lock over more than one operation on a list, so a   *)
(* step is one such operation or one look at a field of the connection.     *)
(*                                                                          *)
(* A step on memory that was freed before leaves the behaviour undefined:   *)
(* nothing is said of what follows.                                         *)
(***************************************************************************)
EXTENDS Integers, Sequences, FiniteSets

CONSTANTS
  Users,       \* threads of the program
  Rx,          \* the receive handler
  Cons,        \* connections, created and linked
  MaxPackets,  \* bound: the packets received
  MaxSets,     \* bound: the calls of xbee_conCallbackSet
  LateSet      \* bound: may a callback be set while packets wait or come?

CallbackAssumption ==
  /\ Rx \notin Users
  /\ MaxPackets \in Nat
  /\ MaxSets \in Nat
  /\ LateSet \in BOOLEAN
ASSUME CallbackAssumption

Actors == Users \cup {Rx}

VARIABLES
  conList,   \* the connections that are valid
  linked,    \* the connections in their type's conList
  con,       \* struct xbee_con; thread: an index of threads, 0 for NULL
  threads,   \* the callback threads started so far
  job,       \* what each actor is doing, to which connection, with which thread
  received,  \* the packets received
  sets,      \* the calls of xbee_conCallbackSet
  begun,     \* history: the packets given to each connection's callback
  undefined  \* freed memory has been used

vars == <<conList, linked, con, threads, job, received, sets, begun, undefined>>

Idle == [pc |-> "idle", con |-> "none", thread |-> 0, packet |-> 0]
NewCon == [callback |-> FALSE, pktList |-> <<>>, callbackSem |-> 0,
           ending |-> FALSE, thread |-> 0]

Init ==
  /\ conList = Cons
  /\ linked = Cons
  /\ con = [c \in Cons |-> NewCon]
  /\ threads = <<>>
  /\ job = [a \in Actors |-> Idle]
  /\ received = 0
  /\ sets = 0
  /\ begun = [c \in Cons |-> <<>>]
  /\ undefined = FALSE

At(a, pc) == ~undefined /\ job[a].pc = pc /\ job[a].con \in conList
Goto(a, pc) == job' = [job EXCEPT ![a].pc = pc]
Done(a) == job' = [job EXCEPT ![a] = Idle]
Joins == {"joining", "endjoining"}
Joined(t) == \E a \in Actors : job[a].pc \in Joins /\ job[a].thread = t

\* An actor that goes on with a connection another has freed.
UseAfterFree(a) ==
  /\ ~undefined
  /\ job[a].pc # "idle"
  /\ job[a].con \notin conList
  /\ undefined' = TRUE
  /\ UNCHANGED <<conList, linked, con, threads, job, received, sets, begun>>

-----------------------------------------------------------------------------
(***************************************************************************)
(* The threads (thread.c).                                                  *)
(***************************************************************************)
ThreadStart(a, c) ==
  /\ threads' = Append(threads, [con |-> c, place |-> "created", active |-> FALSE,
                                 cancelled |-> FALSE])
  /\ con' = [con EXCEPT ![c].thread = Len(threads) + 1]
  /\ Done(a)

\* xbee_threadJoin: the thread must be known and not active, and is waited for by
\* one thread only.
ThreadJoin(a, c, pc) ==
  LET t == con[c].thread IN
  IF t = 0 \/ threads[t].place = "gone" \/ threads[t].active \/ Joined(t) THEN Done(a)
  ELSE job' = [job EXCEPT ![a].pc = pc, ![a].thread = t]

PthreadJoin(a) ==
  LET t == job[a].thread IN
  /\ At(a, "joining") \/ At(a, "endjoining")
  /\ threads[t].place = "ended"
  /\ threads' = [threads EXCEPT ![t].place = "gone"]
  /\ con' = [con EXCEPT ![job[a].con].thread = 0]
  /\ Goto(a, IF job[a].pc = "joining" THEN "start" ELSE "free")
  /\ UNCHANGED <<conList, linked, received, sets, begun, undefined>>

-----------------------------------------------------------------------------
(***************************************************************************)
(* The receive handler, and prodding the callback thread.                   *)
(***************************************************************************)
\* xbee_conLocate has found the connection under its list's lock.
Locate(c) ==
  /\ ~undefined
  /\ job[Rx].pc = "idle"
  /\ received < MaxPackets
  /\ c \in linked
  /\ ~con[c].ending
  /\ LateSet \/ \A u \in Users : ~(job[u].pc = "prod" /\ job[u].con = c)
  /\ received' = received + 1
  /\ job' = [job EXCEPT ![Rx] = [pc |-> "link", con |-> c, thread |-> 0,
                                 packet |-> received']]
  /\ UNCHANGED <<conList, linked, con, threads, sets, begun, undefined>>

LinkPacket ==
  LET c == job[Rx].con IN
  /\ At(Rx, "link")
  /\ con' = [con EXCEPT ![c].pktList = Append(@, job[Rx].packet)]
  /\ IF con[c].callback THEN Goto(Rx, "prod") ELSE Done(Rx)
  /\ UNCHANGED <<conList, linked, threads, received, sets, begun, undefined>>

CallbackProd(a) ==
  LET c == job[a].con IN
  /\ At(a, "prod")
  /\ IF ~con[c].callback \/ con[c].pktList = <<>>
     THEN Done(a) /\ UNCHANGED con
     ELSE /\ con' = [con EXCEPT ![c].callbackSem = @ + 1]
          /\ Goto(a, "check")
  /\ UNCHANGED <<conList, linked, threads, received, sets, begun, undefined>>

\* Mutants: it does not look whether the thread is active; it takes an old thread
\* for one that lives.
CallbackCheck_Blind(a) ==
  /\ At(a, "check")
  /\ Goto(a, "start")
  /\ UNCHANGED <<conList, linked, con, threads, received, sets, begun, undefined>>

CallbackCheck_Trusting(a) ==
  /\ At(a, "check")
  /\ IF con[job[a].con].thread = 0 THEN Goto(a, "start") ELSE Done(a)
  /\ UNCHANGED <<conList, linked, con, threads, received, sets, begun, undefined>>

\* Another prod may have joined the thread, and freed what it is looked at in.
CallbackCheck(a) ==
  LET t == con[job[a].con].thread IN
  /\ At(a, "check")
  /\ undefined' = (t # 0 /\ threads[t].place = "gone")
  /\ IF t = 0 THEN Goto(a, "start")
     ELSE IF threads[t].active THEN Done(a)
     ELSE Goto(a, "join")
  /\ UNCHANGED <<conList, linked, con, threads, received, sets, begun>>

CallbackJoin(a) ==
  /\ At(a, "join")
  /\ ThreadJoin(a, job[a].con, "joining")
  /\ UNCHANGED <<conList, linked, con, threads, received, sets, begun, undefined>>

CallbackStart(a) ==
  /\ At(a, "start")
  /\ ThreadStart(a, job[a].con)
  /\ UNCHANGED <<conList, linked, received, sets, begun, undefined>>

Prod(a) ==
  \/ CallbackProd(a) \/ CallbackCheck(a) \/ CallbackJoin(a) \/ CallbackStart(a)
  \/ PthreadJoin(a) \/ UseAfterFree(a)

-----------------------------------------------------------------------------
(***************************************************************************)
(* The callback thread: xbee_conCallbackHandler in threadFunc.              *)
(***************************************************************************)
Thread(t, place) == ~undefined /\ t \in 1..Len(threads) /\ threads[t].place = place
Move(t, place) == threads' = [threads EXCEPT ![t].place = place]

ThreadBegins(t) ==
  /\ Thread(t, "created")
  /\ threads' = [threads EXCEPT ![t].place = "top", ![t].active = TRUE]
  /\ UNCHANGED <<conList, linked, con, job, received, sets, begun, undefined>>

CallbackTop(t) ==
  LET c == threads[t].con IN
  /\ Thread(t, "top")
  /\ c \in conList
  /\ IF con[c].ending \/ ~con[c].callback
     THEN Move(t, "leaving") /\ UNCHANGED <<con, begun>>
     ELSE IF con[c].pktList = <<>>
     THEN Move(t, "wait") /\ UNCHANGED <<con, begun>>
     ELSE /\ Move(t, "callback")
          /\ con' = [con EXCEPT ![c].pktList = Tail(@)]
          /\ begun' = [begun EXCEPT ![c] = Append(@, Head(con[c].pktList))]
  /\ UNCHANGED <<conList, linked, job, received, sets, undefined>>

CallbackReturns(t) ==
  /\ Thread(t, "callback")
  /\ Move(t, "top")
  /\ UNCHANGED <<conList, linked, con, job, received, sets, begun, undefined>>

\* Five seconds without a post end the thread.
CallbackWait(t) ==
  LET c == threads[t].con IN
  /\ Thread(t, "wait")
  /\ c \in conList
  /\ IF con[c].callbackSem > 0
     THEN con' = [con EXCEPT ![c].callbackSem = @ - 1] /\ Move(t, "top")
     ELSE Move(t, "leaving") /\ UNCHANGED con
  /\ UNCHANGED <<conList, linked, job, received, sets, begun, undefined>>

ThreadEnds(t) ==
  /\ Thread(t, "leaving")
  /\ threads' = [threads EXCEPT ![t].place = "ended", ![t].active = FALSE]
  /\ UNCHANGED <<conList, linked, con, job, received, sets, begun, undefined>>

\* A thread that is cancelled ends where it waits, in its callback too.
ThreadCancelled(t) ==
  /\ Thread(t, "callback") \/ Thread(t, "wait")
  /\ threads[t].cancelled
  /\ Move(t, "ended")
  /\ UNCHANGED <<conList, linked, con, job, received, sets, begun, undefined>>

ThreadUsesFreed(t) ==
  /\ Thread(t, "top") \/ Thread(t, "wait")
  /\ threads[t].con \notin conList
  /\ undefined' = TRUE
  /\ UNCHANGED <<conList, linked, con, threads, job, received, sets, begun>>

CallbackThread(t) ==
  \/ ThreadBegins(t) \/ CallbackTop(t) \/ CallbackWait(t) \/ ThreadEnds(t)
  \/ ThreadCancelled(t) \/ ThreadUsesFreed(t)

-----------------------------------------------------------------------------
(***************************************************************************)
(* The program: xbee_conCallbackSet, xbee_conRx, xbee_conEnd.               *)
(***************************************************************************)
Starts(u, c) == ~undefined /\ job[u].pc = "idle" /\ c \in conList

CallbackSet(u, c, callback) ==
  /\ Starts(u, c)
  /\ sets < MaxSets
  /\ LateSet \/ (con[c].pktList = <<>> /\ job[Rx].con # c)
  /\ sets' = sets + 1
  /\ con' = [con EXCEPT ![c].callback = callback]
  /\ job' = [job EXCEPT ![u] = [Idle EXCEPT !.pc = "prod", !.con = c]]
  /\ UNCHANGED <<conList, linked, threads, received, begun, undefined>>

\* xbee_conRx, and xbee_conRxWait that calls it again; refused to a connection
\* with a callback.
ConRx(u, c) ==
  /\ Starts(u, c)
  /\ ~con[c].callback
  /\ con[c].pktList # <<>>
  /\ con' = [con EXCEPT ![c].pktList = Tail(@)]
  /\ UNCHANGED <<conList, linked, threads, job, received, sets, begun, undefined>>

\* A connection ends once: whoever calls xbee_conEnd again holds a dead pointer.
ConEnd(u, c) ==
  /\ Starts(u, c)
  /\ c \in linked
  /\ linked' = linked \ {c}
  /\ job' = [job EXCEPT ![u] = [Idle EXCEPT !.pc = "end", !.con = c]]
  /\ UNCHANGED <<conList, con, threads, received, sets, begun, undefined>>

\* The thread may be started after this look.
ConFree(u) ==
  LET c == job[u].con IN
  /\ At(u, "end")
  /\ IF con[c].thread = 0 THEN Goto(u, "free") /\ UNCHANGED con
     ELSE /\ con' = [con EXCEPT ![c].ending = TRUE, ![c].callbackSem = @ + 1]
          /\ Goto(u, "endjoin")
  /\ UNCHANGED <<conList, linked, threads, received, sets, begun, undefined>>

\* xbee_threadJoin, up to eleven times in fifty milliseconds while the thread is
\* active; when it fails otherwise the connection is left as it is.
ConFreeJoin(u) ==
  LET t == con[job[u].con].thread IN
  /\ At(u, "endjoin") \/ At(u, "killed")
  /\ job[u].pc = "endjoin" => ~(t # 0 /\ threads[t].active)
  /\ ThreadJoin(u, job[u].con, "endjoining")
  /\ UNCHANGED <<conList, linked, con, threads, received, sets, begun, undefined>>

\* Mutant: the thread is cancelled and not joined.
ConFreeKill_NoJoin(u) ==
  LET t == con[job[u].con].thread IN
  /\ At(u, "endjoin")
  /\ t # 0 /\ threads[t].active
  /\ threads' = [threads EXCEPT ![t].cancelled = TRUE, ![t].active = FALSE]
  /\ Goto(u, "free")
  /\ UNCHANGED <<conList, linked, con, received, sets, begun, undefined>>

\* Mutant: it only waits.
ConFreeKill_Patient(u) == FALSE

\* Fifty milliseconds have passed: xbee_threadKillJoin.
ConFreeKill(u) ==
  LET t == con[job[u].con].thread IN
  /\ At(u, "endjoin")
  /\ t # 0 /\ threads[t].active
  /\ threads' = [threads EXCEPT ![t].cancelled = TRUE, ![t].active = FALSE]
  /\ Goto(u, "killed")
  /\ UNCHANGED <<conList, linked, con, received, sets, begun, undefined>>

Free(u) ==
  /\ At(u, "free")
  /\ conList' = conList \ {job[u].con}
  /\ con' = [con EXCEPT ![job[u].con].pktList = <<>>]
  /\ Done(u)
  /\ UNCHANGED <<linked, threads, received, sets, begun, undefined>>

User(u) ==
  \/ Prod(u) \/ ConFree(u) \/ ConFreeJoin(u) \/ ConFreeKill(u) \/ Free(u)

Next ==
  \/ \E c \in Cons : Locate(c)
  \/ LinkPacket
  \/ Prod(Rx)
  \/ \E t \in 1..Len(threads) : CallbackThread(t) \/ CallbackReturns(t)
  \/ \E u \in Users : User(u)
  \/ \E u \in Users, c \in Cons :
       \/ \E callback \in BOOLEAN : CallbackSet(u, c, callback)
       \/ ConRx(u, c)
       \/ ConEnd(u, c)

Spec == Init /\ [][Next]_vars

\* The threads run on.  A callback need not return.
Fairness ==
  /\ WF_vars(LinkPacket \/ Prod(Rx))
  /\ \A u \in Users : WF_vars(User(u))
  /\ \A t \in 1..(MaxPackets + MaxSets) : WF_vars(CallbackThread(t))

FairSpec == Spec /\ Fairness

-----------------------------------------------------------------------------
(***************************************************************************)
(* Properties.                                                              *)
(***************************************************************************)
\* One callback at a time, for each packet once and in the order received, though
\* threads end and start and nothing locks xbee_conCallbackProd.
OneCallbackInOrder ==
  \A c \in Cons :
    /\ Cardinality({t \in 1..Len(threads) :
         threads[t].con = c /\ threads[t].place = "callback"}) <= 1
    /\ \A i, j \in 1..Len(begun[c]) : i < j => begun[c][i] < begun[c][j]

\* A callback thread that was cancelled has ended before its connection is freed
\* (xbee_threadKillJoin in xbee_conFree).
CancelledEndsBeforeFree ==
  \A t \in 1..Len(threads) :
    threads[t].cancelled /\ threads[t].con \notin conList
    => threads[t].place \in {"ended", "gone"} \/ undefined

\* xbee_conEnd returns, whatever a callback does and the receive handler is at.
ConEndReturns ==
  \A u \in Users : job[u].pc = "end" ~> job[u].pc = "idle" \/ undefined

\* A packet that finds the callback thread dead is not left lying: its queue is
\* emptied, unless a callback keeps it waiting or the program no longer wants it.
DeadCallbackWoken ==
  \A c \in Cons :
    /\ job[Rx].pc = "check" /\ job[Rx].con = c
    /\ \A t \in 1..Len(threads) : threads[t].con = c => ~threads[t].active
    ~> \/ con[c].pktList = <<>> \/ ~con[c].callback \/ c \notin linked \/ undefined
       \/ \E t \in 1..Len(threads) : threads[t].con = c /\ threads[t].place = "callback"
=============================================================================
