--------------------------- MODULE XBeeInstances ----------------------------
(***************************************************************************)
(* The life of libxbee instances: set up, run by three threads, shut down    *)
(* from a thread of its own (src/lib/xbee/xbee.c), with the serial port      *)
(* (xsys_linux.c), the registry of threads (thread.c), the callback threads   *)
(* that come and go in it (conn.c), and the mutexes that keep a thread from   *)
(* being cancelled while it holds one (mutex.c).                              *)
(***************************************************************************)
EXTENDS Naturals, FiniteSetsExt, SequencesExt

CONSTANTS
    Instances,
    Order,        \* the threads of an instance, in the order they are started:
                  \* <<"rx", "handler", "tx">>, or fewer to check less
    Talkers,      \* the instances that have a connection with a callback
    Null

\* The threads of a network client (net.c) are listed, joined and freed beside
\* their server thread as a callback thread is beside the handler: it stands
\* for them too.
Kinds   == ToSet(Order) \cup {"callback"}
Threads == Instances \X Kinds

InstancesAssumption ==
    /\ Order \in Seq({"rx", "handler", "tx"})
    /\ \A m, n \in DOMAIN Order : Order[m] = Order[n] => m = n
    /\ Talkers \subseteq Instances
    /\ Null \notin Threads \cup Nat
ASSUME InstancesAssumption

VARIABLES
    at,           \* where the setup or the shutdown of an instance is
    serial,       \* its serial port: the descriptor and the stream
    modeData,     \* xbee->modeData is there
    die,          \* xbee->die
    walk,         \* its xbee_threadDestroyMine: ref, prev, and the thread it ends
    thread,       \* where each thread is
    cancelled,    \* the threads xbee_threadKill was called for
    xbeeList,     \* the instances that are valid
    threadList,   \* the threads that are
    mutex,        \* the thread of an instance that holds the mutex of a list
    ports,        \* the kernel's open descriptors (external), each to its owner
    raced,        \* which of the races below have happened
    lost,         \* the instances whose walk's place was taken off the registry
    early         \* those whose walk came to a thread that had not begun

port    == <<serial, modeData, ports>>
threads == <<thread, cancelled, threadList, mutex>>
ghosts  == <<raced, lost, early>>
vars    == <<at, port, die, walk, threads, xbeeList, ghosts>>

Closed     == [fd |-> 0, stream |-> FALSE]
NotWalking == [ref |-> Null, prev |-> Null, kill |-> Null]

\* A thread is "none" yet, "new" until it first runs, "runs", "locks" while it
\* holds a mutex, or is "over".
Active(t) == thread[t] \in {"runs", "locks"}
Alive(t)  == Active(t) \/ thread[t] = "new"

Drop(s, x) == IF x \in ToSet(s) THEN RemoveFirst(s, x) ELSE s

Init ==
    /\ at = [i \in Instances |-> "none"]
    /\ serial = [i \in Instances |-> Closed]
    /\ modeData = [i \in Instances |-> FALSE]
    /\ die = [i \in Instances |-> FALSE]
    /\ walk = [i \in Instances |-> NotWalking]
    /\ thread = [t \in Threads |-> "none"]
    /\ cancelled = {}
    /\ xbeeList = <<>> /\ threadList = <<>>
    /\ mutex = Null
    /\ ports = <<>>
    /\ raced = {} /\ lost = {} /\ early = {}

-----------------------------------------------------------------------------
(* xbee_vsetup.                                                             *)

Go(i, from, to) == at[i] = from /\ at' = [at EXCEPT ![i] = to]

\* A mode whose name is not known changes nothing; otherwise the instance is
\* allocated, and listed.
SetupAlloc(i) ==
    /\ Go(i, "none", "init")
    /\ mutex = Null
    /\ xbeeList' = Append(xbeeList, i)
    /\ UNCHANGED <<port, die, walk, threads, ghosts>>

FreeDescriptor == Min(1..(Cardinality(DOMAIN ports) + 1) \ DOMAIN ports)
Opened(i) ==
    [d \in DOMAIN ports \cup {FreeDescriptor} |-> IF d \in DOMAIN ports THEN ports[d] ELSE i]
Shut(fd) == [d \in DOMAIN ports \ {fd} |-> ports[d]]

\* xsys_serialSetup: the ways it ends, and what it leaves in the structure.
\* A speed that is not known leaves the zeros it found.
Outcomes ==
    [ok     |-> [fd |-> FreeDescriptor, stream |-> TRUE],
     baud   |-> Closed,
     open   |-> [fd |-> Null, stream |-> FALSE],
     fdopen |-> [fd |-> FreeDescriptor, stream |-> FALSE],
     tc     |-> [fd |-> FreeDescriptor, stream |-> TRUE]]

\* What follows the start of the first n threads.
NextStep(n) == IF n = Len(Order) THEN "list" ELSE Order[n + 1]

\* The mode's init: on an error it calls mode_shutdown, and setup calls free.
SetupInit(i, how) ==
    /\ Go(i, "init", IF how = "ok" THEN NextStep(0) ELSE "init failed")
    /\ modeData' = [modeData EXCEPT ![i] = TRUE]
    /\ serial' = [serial EXCEPT ![i] = Outcomes[how]]
    /\ IF how \in {"baud", "open"} THEN UNCHANGED <<ports, raced>>
       ELSE /\ ports' = Opened(i)
            /\ raced' = IF \E j \in Instances : at[j] \in {"close", "init close"}
                        THEN raced \cup {"port"} ELSE raced
    /\ UNCHANGED <<die, walk, threads, xbeeList, lost, early>>

Start(t) ==
    /\ mutex = Null
    /\ thread' = [thread EXCEPT ![t] = "new"]
    /\ threadList' = Append(threadList, t)
    /\ UNCHANGED <<cancelled, mutex>>

\* xbee_threadStart for the three threads in turn, which may fail.
SetupThread(i, n) ==
    /\ Go(i, Order[n], NextStep(n))
    /\ Start(<<i, Order[n]>>)
    /\ UNCHANGED <<port, die, walk, xbeeList, ghosts>>

SetupThreadFails(i, n) ==
    /\ Go(i, Order[n], "free")
    /\ UNCHANGED <<port, die, walk, threads, xbeeList, ghosts>>

\* The instance is listed a second time.
SetupDone(i) ==
    /\ Go(i, "list", "ready")
    /\ mutex = Null
    /\ xbeeList' = Append(xbeeList, i)
    /\ UNCHANGED <<port, die, walk, threads, ghosts>>

-----------------------------------------------------------------------------
(* mode_shutdown: fclose closes the descriptor, and close closes it again.   *)

ModeShutdown(i, from, to, done) ==
    /\ Go(i, from, IF modeData[i] THEN to ELSE done)
    /\ IF modeData[i] /\ serial[i].stream
       THEN /\ ports' = Shut(serial[i].fd)
            /\ serial' = [serial EXCEPT ![i].stream = FALSE]
       ELSE UNCHANGED <<ports, serial>>
    /\ UNCHANGED <<modeData, die, walk, threads, xbeeList, ghosts>>

\* A shutdown that leaves the structure as it is.
ModeShutdownClose_Kept(i, from, done) ==
    /\ Go(i, from, done)
    /\ ports' = Shut(serial[i].fd)
    /\ UNCHANGED <<serial, modeData, die, walk, threads, xbeeList, ghosts>>

ModeShutdownClose(i, from, done) ==
    /\ Go(i, from, done)
    /\ ports' = Shut(serial[i].fd)
    /\ serial' = [serial EXCEPT ![i].fd = Null]
    /\ modeData' = [modeData EXCEPT ![i] = FALSE]
    /\ UNCHANGED <<die, walk, threads, xbeeList, ghosts>>

InitFailed(i) ==
    \/ ModeShutdown(i, "init failed", "init close", "free")
    \/ ModeShutdownClose(i, "init close", "free")

-----------------------------------------------------------------------------
(* xbee_shutdown and xbee_free.                                             *)

\* The program shuts an instance down, if it is valid, and the call returns:
\* the rest is done by a thread of its own, if that can be made.  The instance
\* is still listed, from its setup, until that thread begins, so a second
\* shutdown finds it valid: it makes good for a thread that was not made, or
\* two threads free one structure.  That is undefined, and the model ends there.
\* The program ends no connection of an instance while it shuts it down.
Shutdown(i) ==
    /\ at[i] \in {"ready", "plucked", "left"}
    /\ i \in ToSet(xbeeList) /\ mutex = Null
    /\ <<i, "callback">> \notin cancelled
    /\ xbeeList' = Drop(xbeeList, i)
    /\ \/ /\ at' = [at EXCEPT ![i] = IF @ = "ready" THEN "left" ELSE @]
          /\ UNCHANGED raced
       \/ /\ at' = [at EXCEPT ![i] = "plucked"]
          /\ raced' = IF at[i] = "plucked" THEN raced \cup {"twice"} ELSE raced
    /\ UNCHANGED <<port, die, walk, threads, lost, early>>

FreeBegin(i) ==
    /\ Go(i, "free", "sleep") \/ Go(i, "plucked", "sleep")
    /\ mutex = Null
    /\ xbeeList' = Drop(xbeeList, i)
    /\ die' = [die EXCEPT ![i] = TRUE]
    /\ UNCHANGED <<port, walk, threads, ghosts>>

\* Four seconds are over: the threads have seen die, unless they are stuck.
FreeSlept(i) ==
    /\ Go(i, "sleep", "walk")
    /\ UNCHANGED <<port, die, walk, threads, xbeeList, ghosts>>

\* xbee_ll_get_next: a reference that is no longer listed ends the walk.
NextThread(ref) ==
    LET k == IF ref = Null THEN 0
             ELSE IF ref \in ToSet(threadList) THEN CHOOSE n \in DOMAIN threadList : threadList[n] = ref
             ELSE Len(threadList)
    IN  IF k < Len(threadList) THEN threadList[k + 1] ELSE Null

\* xbee_threadDestroyMine: one turn of its loop.  A thread of another instance
\* is where it goes on from; its own it kills, if it is active, and joins.
WalkStep(i) ==
    /\ at[i] = "walk" /\ mutex = Null
    /\ LET t == NextThread(walk[i].ref)
       IN  \/ /\ t = Null
              /\ at' = [at EXCEPT ![i] = "mode"]
              /\ walk' = [walk EXCEPT ![i] = NotWalking]
              /\ UNCHANGED early
           \/ /\ t # Null /\ t[1] # i
              /\ walk' = [walk EXCEPT ![i] = [ref |-> t, prev |-> t, kill |-> Null]]
              /\ UNCHANGED <<at, early>>
           \/ /\ t # Null /\ t[1] = i
              /\ at' = [at EXCEPT ![i] = IF Active(t) THEN "kill" ELSE "join"]
              /\ walk' = [walk EXCEPT ![i].kill = t]
              /\ early' = IF thread[t] = "new" THEN early \cup {i} ELSE early
    /\ UNCHANGED <<port, die, threads, xbeeList, raced, lost>>

\* xbee_threadKillJoin failed: the walk goes on behind the thread, still listed.
WalkOn(i) ==
    /\ at' = [at EXCEPT ![i] = "walk"]
    /\ walk' = [walk EXCEPT ![i] = [@ EXCEPT !.ref = walk[i].kill, !.kill = Null]]
    /\ UNCHANGED cancelled

\* xbee_threadKill, a millisecond later: to cancel a thread that ended in it
\* fails, in some C libraries.
WalkKill(i) ==
    LET t == walk[i].kill
    IN  /\ at[i] = "kill"
        /\ \/ /\ at' = [at EXCEPT ![i] = "wait"]
              /\ cancelled' = IF Active(t) THEN cancelled \cup {t} ELSE cancelled
              /\ UNCHANGED walk
           \/ ~Active(t) /\ WalkOn(i)
        /\ UNCHANGED <<port, die, thread, threadList, mutex, xbeeList, ghosts>>

\* xbee_threadJoin refuses a thread that is active by now.
WalkCheck(i) ==
    LET t == walk[i].kill
    IN  /\ at[i] = "join"
        /\ \/ ~Active(t) /\ at' = [at EXCEPT ![i] = "wait"] /\ UNCHANGED <<walk, cancelled>>
           \/ Active(t) /\ WalkOn(i)
        /\ UNCHANGED <<port, die, thread, threadList, mutex, xbeeList, ghosts>>

\* A thread is taken off the registry, and the walks of others that stand on it
\* or are about to end it lose their place.
Unlist(t, others) ==
    /\ mutex = Null
    /\ cancelled' = cancelled \ {t}
    /\ threadList' = Drop(threadList, t)
    /\ lost' = lost \cup {j \in others : t \in {walk[j].ref, walk[j].prev, walk[j].kill}}
    /\ UNCHANGED mutex

\* A walk that goes on from the thread it has just freed.
WalkJoin_Freed(i) ==
    LET t == walk[i].kill
    IN  /\ Go(i, "wait", "walk")
        /\ ~Alive(t) /\ Unlist(t, Instances \ {i})
        /\ walk' = [walk EXCEPT ![i] = [@ EXCEPT !.ref = t, !.kill = Null]]
        /\ UNCHANGED <<port, die, thread, xbeeList, raced, early>>

\* xbee_threadJoin, when the thread is over; the walk goes on from the thread
\* of another instance it met last.
WalkJoin(i) ==
    LET t == walk[i].kill
    IN  /\ Go(i, "wait", "walk")
        /\ ~Alive(t) /\ Unlist(t, Instances \ {i})
        /\ walk' = [walk EXCEPT ![i] = [@ EXCEPT !.ref = walk[i].prev, !.kill = Null]]
        /\ UNCHANGED <<port, die, thread, xbeeList, raced, early>>

Free(i) ==
    \/ FreeBegin(i) \/ FreeSlept(i)
    \/ WalkStep(i) \/ WalkKill(i) \/ WalkCheck(i) \/ WalkJoin(i)
    \/ ModeShutdown(i, "mode", "close", "gone")
    \/ ModeShutdownClose(i, "close", "gone")

-----------------------------------------------------------------------------
(* The threads of an instance.                                              *)

\* A lock that leaves the thread as it is.
MutexLock_Cancellable(t) ==
    /\ thread[t] = "runs" /\ mutex = Null
    /\ mutex' = t
    /\ UNCHANGED <<thread, cancelled, threadList>>

\* xbee_mutex_lock makes a thread immune to cancellation; the unlock ends it.
MutexLock(t) ==
    /\ thread[t] = "runs" /\ mutex = Null
    /\ mutex' = t
    /\ thread' = [thread EXCEPT ![t] = "locks"]
    /\ UNCHANGED <<cancelled, threadList>>

MutexUnlock(t) ==
    /\ mutex = t /\ Active(t)
    /\ mutex' = Null
    /\ thread' = [thread EXCEPT ![t] = "runs"]
    /\ UNCHANGED <<cancelled, threadList>>

ThreadBegins(t) ==
    /\ thread[t] = "new"
    /\ thread' = [thread EXCEPT ![t] = "runs"]
    /\ UNCHANGED <<cancelled, threadList, mutex>>

\* It ends when it sees die; the receive thread at the end of the port, and a
\* callback thread when it has had nothing to do for a while; or it is cancelled.
ThreadEnds(t) ==
    /\ thread[t] = "runs"
    /\ die[t[1]] \/ t[2] \in {"rx", "callback"} \/ t \in cancelled
    /\ thread' = [thread EXCEPT ![t] = "over"]
    /\ UNCHANGED <<cancelled, threadList, mutex>>

ThreadStep(t) ==
    /\ ThreadBegins(t) \/ MutexLock(t) \/ MutexUnlock(t) \/ ThreadEnds(t)
    /\ UNCHANGED <<at, port, die, walk, xbeeList, ghosts>>

-----------------------------------------------------------------------------
(* The callback thread of a connection: xbee_conCallbackProd, which the       *)
(* program calls, or the handler thread while it runs, and xbee_conFree.      *)

Talks(i) ==
    /\ i \in Talkers
    /\ \/ at[i] = "ready"
       \/ /\ at[i] \in {"plucked", "left", "sleep", "walk", "kill", "join", "wait"}
          /\ "handler" \in ToSet(Order) /\ thread[<<i, "handler">>] = "runs"

CallbackStart(i) ==
    /\ Talks(i) /\ thread[<<i, "callback">>] = "none"
    /\ Start(<<i, "callback">>)
    /\ UNCHANGED <<at, port, die, walk, xbeeList, ghosts>>

\* A thread that is over is joined and freed, for the next one to be started
\* or with its connection.
CallbackJoin(i) ==
    /\ Talks(i) /\ thread[<<i, "callback">>] = "over"
    /\ Unlist(<<i, "callback">>, Instances)
    /\ thread' = [thread EXCEPT ![<<i, "callback">>] = "none"]
    /\ UNCHANGED <<at, port, die, walk, xbeeList, raced, early>>

\* The program frees the connection of a callback that does not end in time.
CallbackKill(i) ==
    /\ i \in Talkers /\ at[i] = "ready" /\ Active(<<i, "callback">>)
    /\ cancelled' = cancelled \cup {<<i, "callback">>}
    /\ UNCHANGED <<at, port, die, walk, thread, threadList, mutex, xbeeList, ghosts>>

Callback(i) == CallbackStart(i) \/ CallbackJoin(i) \/ CallbackKill(i)

Setup(i) ==
    \/ SetupAlloc(i) \/ SetupDone(i) \/ InitFailed(i)
    \/ \E how \in DOMAIN Outcomes : SetupInit(i, how)
    \/ \E n \in DOMAIN Order : SetupThread(i, n) \/ SetupThreadFails(i, n)

Next ==
    /\ "twice" \notin raced
    /\ \/ \E i \in Instances : Setup(i) \/ Shutdown(i) \/ Free(i) \/ Callback(i)
       \/ \E t \in Threads : ThreadStep(t)

Spec == Init /\ [][Next]_vars

\* The thread a walk waits for, when it was cancelled: every loop of a thread
\* passes a cancellation point.
CancelledEnds(i) ==
    /\ at[i] = "wait" /\ walk[i].kill \in cancelled
    /\ ThreadEnds(walk[i].kill)
    /\ UNCHANGED <<at, port, die, walk, xbeeList, ghosts>>

\* The setup and the shutdown thread go on, get the mutex in the end, and the
\* thread they cancelled ends in between; a thread lets the mutex go.
Fairness ==
    /\ \A i \in Instances : SF_vars(Free(i) \/ InitFailed(i) \/ CancelledEnds(i))
    /\ WF_vars(\E t \in Threads : t = mutex /\ ThreadStep(t) /\ MutexUnlock(t))
FairSpec == Spec /\ Fairness

-----------------------------------------------------------------------------
\* An instance that was freed, after a setup that failed anywhere or a
\* shutdown, is not listed and has no port.  It has no thread either, which
\* would use its memory, unless its walk lost its place, because the thread of
\* another instance it stood on was joined and freed meanwhile, by that
\* instance's own walk or as a callback that was over; or unless it came to a
\* thread that had not begun, which it neither cancels nor need wait for.
NothingLeftBehind ==
    \A i \in Instances :
        at[i] = "gone" =>
            /\ i \notin ToSet(xbeeList)
            /\ \A fd \in DOMAIN ports : ports[fd] # i
            /\ (\E k \in Kinds : Alive(<<i, k>>)) => i \in lost \cup early

\* An instance in use has its own port, unless one was opened while another
\* instance was between the two calls that close it.
PortsStayOpen ==
    \A i \in Instances :
        at[i] \in ToSet(Order) \cup {"list", "ready", "left", "plucked"} =>
            \/ serial[i].fd \in DOMAIN ports /\ ports[serial[i].fd] = i
            \/ "port" \in raced

\* Every shutdown whose thread could be made, and every setup that fails, in
\* the mode's init or at any of its threads, comes to its end, whatever its
\* threads are doing and hold; unless the walk came to a thread that had not
\* begun, which it joins without cancelling it, or a second shutdown freed the
\* instance as well.
FreeEnds ==
    \A i \in Instances :
        at[i] \in {"plucked", "init failed", "free"} ~>
            at[i] = "gone" \/ i \in early \/ "twice" \in raced
=============================================================================
