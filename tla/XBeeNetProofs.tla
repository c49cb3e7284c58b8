---------------------------- MODULE XBeeNetProofs ---------------------------
(***************************************************************************)
(* The life of the network server's clients, for any number of them, and    *)
(* what their programs send and get.                                        *)
(***************************************************************************)
EXTENDS XBeeNet, FiniteSetTheorems, WellFoundedInduction, TLAPS

-----------------------------------------------------------------------------
(***************************************************************************)
(* As long as no client raced (raced), a structure has one owner: the server *)
(* thread that lets the client in, the list of the living, that of the dead,  *)
(* or whoever shuts it down.                                                 *)
(***************************************************************************)
Leaving == {"workers", "close", "connections", "done"}
RxPlaces == {"none", "recv", "dead", "joined"} \cup Leaving
Structures ==
  [used : BOOLEAN, fd : {"closed", "open", "eof"}, rx : RxPlaces, workers : SUBSET Workers]

LifeTypes ==
  /\ netUp \in BOOLEAN /\ (netUp <=> user = "up")
  /\ newClient \in Clients \cup {NoClient}
  /\ clients \in [Clients -> Structures]
  /\ clientList \subseteq Clients
  /\ deadList \in Seq(Clients)
  /\ ending \in [Actors -> Clients \cup {NoClient}]

\* The structure the server thread has for the next client.
Coming ==
  /\ newClient # NoClient =>
       /\ clients[newClient].used
       /\ clients[newClient].rx = IF server \in {"workers", "add"} THEN "recv" ELSE "none"
  /\ server \in {"accept", "filter", "start", "workers", "add"} => newClient # NoClient
  /\ server \in {"start", "workers", "add"} => user = "up"

Listed ==
  /\ \A c \in clientList :
       clients[c].used /\ clients[c].rx \in {"recv", "dead"} /\ c # newClient
  /\ \A c \in Clients : clients[c].rx = "dead" => c \in clientList /\ user = "up"
  /\ \A i \in 1..Len(deadList) : clients[deadList[i]].used /\ clients[deadList[i]].rx \in Leaving
  /\ \A i, j \in 1..Len(deadList) : deadList[i] = deadList[j] => i = j

Ended ==
  /\ \A a \in Actors : ending[a] # NoClient =>
       /\ clients[ending[a]].used
       /\ clients[ending[a]].rx \in Leaving \cup {"recv", "joined"}
       /\ ending[a] # newClient /\ ending[a] \notin clientList
       /\ \A i \in 1..Len(deadList) : deadList[i] # ending[a]
  /\ \A a, b \in Actors : ending[a] = ending[b] /\ ending[a] # NoClient => a = b
  /\ \A c \in Clients : ending[c] # NoClient => clients[c].rx = "dead"

Freed == \A c \in Clients : clients[c].used \/ clients[c] = Unused

\* Before its receive thread runs nothing is asked for a client.
Silent ==
  /\ DOMAIN inbox = Clients
  /\ \A c \in Clients : clients[c].rx = "none" => inbox[c] = <<>> /\ ServedFor(c) = {}

Life == LifeTypes /\ Coming /\ Listed /\ Ended /\ Freed

NetInv == raced \/ (faults = {} /\ Life /\ Silent)

USE NetAssumption DEF NetAssumption, Actors

\* What a step does to one structure.
Only(c) ==
  /\ clients' \in [Clients -> Structures]
  /\ \A d \in Clients \ {c} : clients'[d] = clients[d]

LEMMA UnusedTypes ==
  /\ Unused \in Structures /\ Unused.rx = "none" /\ ~Unused.used
  /\ Fresh \in Structures /\ Fresh.rx = "none" /\ Fresh.used
BY DEF Unused, Fresh, Structures, RxPlaces

LEMMA RxMoves ==
  ASSUME LifeTypes, NEW c \in Clients, NEW x \in RxPlaces,
         clients' = [clients EXCEPT ![c].rx = x]
  PROVE  Only(c) /\ clients'[c].rx = x /\ clients'[c].used = clients[c].used
<1> DEFINE r == [clients[c] EXCEPT !.rx = x]
<1>1. clients \in [Clients -> Structures] /\ clients[c] \in Structures
  BY DEF LifeTypes
<1>2. r \in Structures /\ r.rx = x /\ r.used = clients[c].used
  BY <1>1 DEF Structures
<1>3. clients' = [clients EXCEPT ![c] = r]
  BY <1>1
<1> HIDE DEF r
<1> QED
  BY <1>1, <1>2, <1>3 DEF Only

LEMMA FdMoves ==
  ASSUME LifeTypes, NEW c \in Clients, NEW x \in {"closed", "open", "eof"},
         clients' = [clients EXCEPT ![c].fd = x]
  PROVE  Only(c) /\ clients'[c].rx = clients[c].rx /\ clients'[c].used = clients[c].used
<1> DEFINE r == [clients[c] EXCEPT !.fd = x]
<1>1. clients \in [Clients -> Structures] /\ clients[c] \in Structures
  BY DEF LifeTypes
<1>2. r \in Structures /\ r.rx = clients[c].rx /\ r.used = clients[c].used
  BY <1>1 DEF Structures
<1>3. clients' = [clients EXCEPT ![c] = r]
  BY <1>1
<1> HIDE DEF r
<1> QED
  BY <1>1, <1>2, <1>3 DEF Only

LEMMA StructureMoves ==
  ASSUME LifeTypes, NEW c \in Clients, NEW r \in Structures,
         clients' = [clients EXCEPT ![c] = r]
  PROVE  Only(c) /\ clients'[c] = r
BY DEF LifeTypes, Only

\* What a step keeps of the structures that no receive thread has.
Wakes == \A c \in Clients : clients'[c].rx = "none" => clients[c].rx = "none"

\* A structure is taken from the dead by who will shut it down (xbee_ll_ext_head).
LEMMA TakeDeadSteps ==
  ASSUME Life, NEW a \in Actors, TakeDead(a), ending[a] = NoClient,
         a \in Clients => clients[a].rx = "dead",
         UNCHANGED <<netUp, user, server, newClient, clients, clientList>>
  PROVE  Life' /\ Wakes
<1> DEFINE N == Len(deadList)
<1>1. deadList \in Seq(Clients) /\ deadList # <<>> /\ deadList' = Tail(deadList) /\ N \in Nat
  BY DEF TakeDead, Life, LifeTypes
<1>2. PICK c : c = Head(deadList)
  OBVIOUS
<1>3. /\ c \in Clients /\ c = deadList[1] /\ 1 \in 1..N
      /\ Len(deadList') = N - 1 /\ deadList' \in Seq(Clients)
      /\ \A i \in 1..Len(deadList') : i + 1 \in 1..N /\ deadList'[i] = deadList[i + 1]
  BY <1>1, <1>2
<1>4. ending' = [ending EXCEPT ![a] = c] /\ ending \in [Actors -> Clients \cup {NoClient}]
  BY <1>2 DEF TakeDead, Life, LifeTypes
<1>5. /\ ending'[a] = c /\ \A b \in Actors \ {a} : ending'[b] = ending[b]
      /\ ending' \in [Actors -> Clients \cup {NoClient}]
  BY <1>3, <1>4
<1> HIDE DEF N
<1>6. LifeTypes' /\ Coming' /\ Freed'
  BY <1>3, <1>5 DEF Life, LifeTypes, Coming, Freed
<1>7. Listed'
  <2>1. \A i \in 1..Len(deadList') : clients[deadList'[i]].used /\ clients[deadList'[i]].rx \in Leaving
    BY <1>3 DEF Life, Listed, N
  <2>2. ASSUME NEW i \in 1..Len(deadList'), NEW j \in 1..Len(deadList'), deadList'[i] = deadList'[j]
        PROVE  i = j
    <3>1. i + 1 = j + 1
      BY <1>3, <2>2 DEF Life, Listed, N
    <3> QED
      BY <3>1
  <2> QED
    BY <2>1, <2>2 DEF Life, Listed
<1>8. /\ clients[c].used /\ clients[c].rx \in Leaving
      /\ \A b \in Actors : ending[b] # c
      /\ \A i \in 1..Len(deadList') : deadList'[i] # c
  <2>1. clients[c].used /\ clients[c].rx \in Leaving
    BY <1>3 DEF Life, Listed, N
  <2>2. \A b \in Actors : ending[b] # c
    BY <1>3 DEF Life, Ended, N
  <2>3. ASSUME NEW i \in 1..Len(deadList'), deadList'[i] = c PROVE FALSE
    <3>1. i + 1 = 1
      BY <1>3, <2>3 DEF Life, Listed, N
    <3> QED
      BY <3>1
  <2> QED
    BY <2>1, <2>2, <2>3
<1>9. c # newClient /\ c \notin clientList
  <2>1. clients[c].rx \notin {"none", "recv", "dead"}
    BY <1>8 DEF Leaving
  <2> QED
    BY <1>3, <2>1 DEF Life, Coming, Listed
<1>10. Ended'
  <2>1. ASSUME NEW b \in Actors, ending'[b] # NoClient
        PROVE  /\ clients[ending'[b]].used
               /\ clients[ending'[b]].rx \in Leaving \cup {"recv", "joined"}
               /\ ending'[b] # newClient /\ ending'[b] \notin clientList
               /\ \A i \in 1..Len(deadList') : deadList'[i] # ending'[b]
    <3>1. CASE b = a
      BY <1>5, <1>8, <1>9, <3>1
    <3>2. CASE b # a
      <4>1. ending'[b] = ending[b]
        BY <1>5, <3>2
      <4>2. \A i \in 1..Len(deadList') : deadList'[i] # ending[b]
        BY <1>3, <2>1, <4>1 DEF Life, Ended, N
      <4> QED
        BY <2>1, <4>1, <4>2 DEF Life, Ended
    <3> QED
      BY <3>1, <3>2
  <2>2. ASSUME NEW b \in Actors, NEW d \in Actors, ending'[b] = ending'[d], ending'[b] # NoClient
        PROVE  b = d
    BY <1>5, <1>8, <2>2 DEF Life, Ended
  <2>3. \A d \in Clients : ending'[d] # NoClient => clients[d].rx = "dead"
    BY <1>5 DEF Life, Ended
  <2> QED
    BY <2>1, <2>2, <2>3 DEF Ended
<1> QED
  BY <1>6, <1>7, <1>10 DEF Life, Wakes

-----------------------------------------------------------------------------
(***************************************************************************)
(* xbee_netStart and xbee_netStop.                                          *)
(***************************************************************************)
LEMMA NetStartSteps ==
  ASSUME Life, NetStart
  PROVE  Life' /\ Wakes
<1>1. /\ netUp' = TRUE /\ user' = "up" /\ server' = "top" /\ server = "none"
      /\ UNCHANGED <<newClient, clients, clientList, deadList, ending>>
  BY DEF NetStart
<1> QED
  BY <1>1 DEF Life, LifeTypes, Coming, Listed, Ended, Freed, Wakes

LEMMA NetStopSteps ==
  ASSUME Life, NetStop, ~raced'
  PROVE  Life' /\ Wakes
<1>1. /\ netUp' = FALSE /\ user' = "close" /\ server \notin {"start", "workers", "add"}
      /\ \A c \in Clients : clients[c].rx # "dead"
      /\ UNCHANGED <<server, newClient, clients, clientList, deadList, ending>>
  BY DEF NetStop
<1> QED
  BY <1>1 DEF Life, LifeTypes, Coming, Listed, Ended, Freed, Wakes

LEMMA NetStopCloseSteps ==
  ASSUME Life, NetStopClose
  PROVE  Life' /\ Wakes
<1>1. /\ user = "close" /\ user' = "list"
      /\ UNCHANGED <<netUp, server, newClient, clients, clientList, deadList, ending>>
  BY DEF NetStopClose
<1> QED
  BY <1>1 DEF Life, LifeTypes, Coming, Listed, Ended, Freed, Wakes

LEMMA NetStopListSteps ==
  ASSUME Life, NetStopList
  PROVE  Life' /\ Wakes
<1>1. /\ user = "list" /\ ending[User] = NoClient
      /\ UNCHANGED <<netUp, server, newClient, clients, deadList>>
  BY DEF NetStopList
<1>2. CASE clientList = {}
  <2>1. user' = "dead" /\ UNCHANGED <<clientList, ending>>
    BY <1>2 DEF NetStopList
  <2> QED
    BY <1>1, <2>1 DEF Life, LifeTypes, Coming, Listed, Ended, Freed, Wakes
<1>3. CASE clientList # {}
  <2>1. PICK c \in clientList : /\ clientList' = clientList \ {c}
                                /\ ending' = [ending EXCEPT ![User] = c]
                                /\ UNCHANGED user
    BY <1>3 DEF NetStopList
  <2>2. c \in Clients /\ ending \in [Actors -> Clients \cup {NoClient}]
    BY DEF Life, LifeTypes
  <2>3. /\ ending'[User] = c /\ \A b \in Actors \ {User} : ending'[b] = ending[b]
        /\ ending' \in [Actors -> Clients \cup {NoClient}]
    BY <2>1, <2>2
  <2>4. /\ clients[c].used /\ clients[c].rx = "recv" /\ c # newClient
        /\ \A d \in Clients : clients[d].rx # "dead"
    BY <1>1, <2>2 DEF Life, Listed
  <2>5. LifeTypes' /\ Coming' /\ Freed'
    BY <1>1, <2>1, <2>3 DEF Life, LifeTypes, Coming, Freed
  <2>6. Listed'
    BY <1>1, <2>1, <2>4 DEF Life, Listed
  <2>7. /\ \A b \in Actors : ending[b] # c
        /\ \A i \in 1..Len(deadList) : deadList[i] # c
    <3>1. \A i \in 1..Len(deadList) : deadList[i] # c
      BY <2>4 DEF Life, Listed, Leaving
    <3> QED
      BY <2>2, <3>1 DEF Life, Ended
  <2>8. Ended'
    <3>1. ASSUME NEW b \in Actors, ending'[b] # NoClient
          PROVE  /\ clients[ending'[b]].used
                 /\ clients[ending'[b]].rx \in Leaving \cup {"recv", "joined"}
                 /\ ending'[b] # newClient /\ ending'[b] \notin clientList'
                 /\ \A i \in 1..Len(deadList) : deadList[i] # ending'[b]
      <4>1. CASE b = User
        BY <2>1, <2>3, <2>4, <2>7, <4>1
      <4>2. CASE b # User
        BY <2>1, <2>3, <3>1, <4>2 DEF Life, Ended
      <4> QED
        BY <4>1, <4>2
    <3>2. \A b, d \in Actors : ending'[b] = ending'[d] /\ ending'[b] # NoClient => b = d
      BY <2>3, <2>7 DEF Life, Ended
    <3>3. \A d \in Clients : ending'[d] # NoClient => clients[d].rx = "dead"
      BY <2>3 DEF Life, Ended
    <3> QED
      BY <1>1, <3>1, <3>2, <3>3 DEF Ended
  <2> QED
    BY <1>1, <2>5, <2>6, <2>8 DEF Life, Wakes
<1> QED
  BY <1>2, <1>3

LEMMA NetStopDeadSteps ==
  ASSUME Life, NetStopDead
  PROVE  Life' /\ Wakes
<1>1. /\ user = "dead" /\ ending[User] = NoClient
      /\ UNCHANGED <<netUp, server, newClient, clients, clientList>>
  BY DEF NetStopDead
<1>2. CASE deadList = <<>>
  <2>1. user' = "off" /\ UNCHANGED <<deadList, ending>>
    BY <1>2 DEF NetStopDead
  <2> QED
    BY <1>1, <2>1 DEF Life, LifeTypes, Coming, Listed, Ended, Freed, Wakes
<1>3. CASE deadList # <<>>
  BY <1>1, <1>3, TakeDeadSteps DEF NetStopDead
<1> QED
  BY <1>2, <1>3

-----------------------------------------------------------------------------
(***************************************************************************)
(* The server thread.                                                       *)
(***************************************************************************)
\* A step that changes one structure, which nobody shuts down and no list names.
LEMMA ServerTopSteps ==
  ASSUME Life, ServerTop
  PROVE  Life' /\ Wakes
<1>1. /\ server = "top" /\ ending[Server] = NoClient /\ netUp
      /\ UNCHANGED <<netUp, user, clientList>>
  BY DEF ServerTop
<1>2. CASE TakeDead(Server) /\ UNCHANGED <<server, newClient, clients>>
  BY <1>1, <1>2, TakeDeadSteps
<1>3. CASE server' = "accept" /\ newClient # NoClient /\ UNCHANGED <<deadList, ending, newClient, clients>>
  BY <1>1, <1>3 DEF Life, LifeTypes, Coming, Listed, Ended, Freed, Wakes
<1>4. CASE /\ server' = "accept" /\ newClient = NoClient /\ UNCHANGED <<deadList, ending>>
           /\ \E c \in Clients : /\ ~clients[c].used /\ newClient' = c
                                 /\ clients' = [clients EXCEPT ![c] = Fresh]
  <2>1. PICK c \in Clients : /\ ~clients[c].used /\ newClient' = c
                             /\ clients' = [clients EXCEPT ![c] = Fresh]
    BY <1>4
  <2>2. Only(c) /\ clients'[c] = Fresh
    BY <2>1, StructureMoves, UnusedTypes DEF Life
  <2>3. clients[c].rx = "none" /\ clients'[c].used /\ clients'[c].rx = "none"
    BY <2>1, <2>2, UnusedTypes DEF Life, Freed
  <2>4. LifeTypes' /\ Coming' /\ Freed' /\ Wakes
    BY <1>1, <1>4, <2>1, <2>2, <2>3 DEF Life, LifeTypes, Coming, Freed, Wakes, Only
  <2>5. /\ c \notin clientList /\ \A i \in 1..Len(deadList) : deadList[i] # c
        /\ \A b \in Actors : ending[b] # c
    BY <2>1 DEF Life, Listed, Ended
  <2>6. Listed'
    <3>1. \A i \in 1..Len(deadList) : deadList[i] \in Clients
      BY DEF Life, LifeTypes
    <3> QED
      BY <1>1, <1>4, <2>1, <2>2, <2>3, <2>5, <3>1 DEF Life, LifeTypes, Listed, Only
  <2>7. Ended'
    <3>1. \A b \in Actors : ending[b] \in Clients \cup {NoClient}
      BY DEF Life, LifeTypes
    <3> QED
      BY <1>1, <1>4, <2>1, <2>2, <2>3, <2>5, <3>1 DEF Life, Ended, Only
  <2> QED
    BY <2>4, <2>6, <2>7 DEF Life
<1> QED
  BY <1>2, <1>3, <1>4 DEF ServerTop


\* A step that changes one structure in use, where no list says otherwise.
LEMMA OneMoves ==
  ASSUME Life, NEW c \in Clients, Only(c), clients[c].used, clients'[c].used,
         \/ clients'[c].rx = clients[c].rx
         \/ clients[c].rx \in Leaving /\ clients'[c].rx \in Leaving,
         UNCHANGED <<netUp, user, newClient, clientList, deadList, ending>>
  PROVE  /\ LifeTypes' /\ Listed' /\ Ended' /\ Freed' /\ Wakes
         /\ newClient # NoClient => clients'[newClient].used
                                    /\ clients'[newClient].rx = clients[newClient].rx
<1>1. LifeTypes' /\ Freed'
  BY DEF Life, LifeTypes, Freed, Only
<1>2. /\ \A d \in Clients : d \in clientList \/ d = newClient =>
           clients'[d].rx = clients[d].rx
      /\ \A d \in Clients : clients[d].rx \in Leaving => clients'[d].rx \in Leaving
      /\ \A d \in Clients : clients[d].used => clients'[d].used
      /\ \A d \in Clients : clients[d].rx \notin Leaving => clients'[d].rx = clients[d].rx
  <2>1. \A d \in Clients : d \in clientList \/ d = newClient => clients[d].rx \notin Leaving
    BY DEF Life, Listed, Coming, Leaving
  <2> QED
    BY <2>1 DEF Only
<1>3. newClient # NoClient => newClient \in Clients /\ clients[newClient].used
  BY DEF Life, LifeTypes, Coming
<1>4. clientList \subseteq Clients /\ \A i \in 1..Len(deadList) : deadList[i] \in Clients
  BY DEF Life, LifeTypes
<1>5. Listed'
  <2>1. \A d \in Clients : clients'[d].rx = "dead" => clients[d].rx = "dead"
    BY <1>2 DEF Leaving
  <2>2. \A d \in clientList : clients'[d].rx = clients[d].rx /\ (clients[d].used => clients'[d].used)
    BY <1>2, <1>4
  <2>3. \A d \in clientList :
          clients'[d].used /\ clients'[d].rx \in {"recv", "dead"} /\ d # newClient'
    BY <2>2 DEF Life, Listed
  <2>4. \A d \in Clients : clients'[d].rx = "dead" => d \in clientList /\ user' = "up"
    BY <2>1 DEF Life, Listed
  <2>5. \A i \in 1..Len(deadList) : clients'[deadList[i]].used /\ clients'[deadList[i]].rx \in Leaving
    BY <1>2, <1>4 DEF Life, Listed
  <2>6. \A i, j \in 1..Len(deadList) : deadList[i] = deadList[j] => i = j
    BY DEF Life, Listed
  <2> QED
    BY <2>3, <2>4, <2>5, <2>6 DEF Listed
<1>6. Ended'
  <2>1. \A d \in Clients : clients[d].rx \in Leaving \cup {"recv", "joined"} =>
          clients'[d].rx \in Leaving \cup {"recv", "joined"}
    BY <1>2
  <2>2. \A d \in Clients : clients[d].rx = "dead" => clients'[d].rx = "dead"
    BY <1>2 DEF Leaving
  <2>3. \A b \in Actors : ending[b] \in Clients \cup {NoClient}
    BY DEF Life, LifeTypes
  <2> QED
    BY <1>2, <2>1, <2>2, <2>3 DEF Life, Ended
<1>7. Wakes
  BY DEF Only, Wakes, Leaving
<1> QED
  BY <1>1, <1>2, <1>3, <1>5, <1>6, <1>7

LEMMA AcceptSteps ==
  ASSUME Life, Accept
  PROVE  Life' /\ Wakes
<1>1. /\ server = "accept"
      /\ UNCHANGED <<netUp, user, newClient, clientList, deadList, ending>>
  BY DEF Accept
<1>2. newClient \in Clients /\ clients[newClient].used /\ clients[newClient].rx = "none"
  BY <1>1 DEF Life, LifeTypes, Coming
<1>3. CASE server' \in {"top", "stop"} /\ UNCHANGED clients
  BY <1>1, <1>3 DEF Life, LifeTypes, Coming, Listed, Ended, Freed, Wakes
<1>4. CASE server' = "filter" /\ clients' = [clients EXCEPT ![newClient].fd = "open"]
  <2>1. PICK c \in Clients : c = newClient /\ clients' = [clients EXCEPT ![c].fd = "open"]
    BY <1>2, <1>4
  <2>2. Only(c) /\ clients'[c].rx = "none" /\ clients'[c].used
    BY <1>2, <2>1, FdMoves DEF Life
  <2>3. LifeTypes' /\ Listed' /\ Ended' /\ Freed' /\ Wakes
    BY <1>1, <1>2, <2>1, <2>2, OneMoves
  <2>4. Coming'
    BY <1>1, <1>4, <2>1, <2>2 DEF Coming
  <2> QED
    BY <2>3, <2>4 DEF Life
<1> QED
  BY <1>3, <1>4 DEF Accept

LEMMA FilterSteps ==
  ASSUME Life, Filter
  PROVE  Life' /\ Wakes
<1>1. /\ server = "filter"
      /\ UNCHANGED <<netUp, user, newClient, clientList, deadList, ending>>
  BY DEF Filter
<1>2. newClient \in Clients /\ clients[newClient].used /\ clients[newClient].rx = "none"
  BY <1>1 DEF Life, LifeTypes, Coming
<1>3. CASE server' = "start" /\ netUp /\ UNCHANGED clients
  BY <1>1, <1>2, <1>3 DEF Life, LifeTypes, Coming, Listed, Ended, Freed, Wakes
<1>4. CASE server' \in {"top", "stop"} /\ clients' = [clients EXCEPT ![newClient].fd = "closed"]
  <2>1. PICK c \in Clients : c = newClient /\ clients' = [clients EXCEPT ![c].fd = "closed"]
    BY <1>2, <1>4
  <2>2. Only(c) /\ clients'[c].rx = "none" /\ clients'[c].used
    BY <1>2, <2>1, FdMoves DEF Life
  <2>3. LifeTypes' /\ Listed' /\ Ended' /\ Freed' /\ Wakes
    BY <1>1, <1>2, <2>1, <2>2, OneMoves
  <2>4. Coming'
    BY <1>1, <1>4, <2>1, <2>2 DEF Coming
  <2> QED
    BY <2>3, <2>4 DEF Life
<1> QED
  BY <1>3, <1>4 DEF Filter

\* The structure of the next client is in nobody else's hands.
LEMMA ComingApart ==
  ASSUME Life, newClient # NoClient
  PROVE  /\ newClient \in Clients /\ newClient \notin clientList
         /\ \A i \in 1..Len(deadList) : deadList[i] # newClient
         /\ \A a \in Actors : ending[a] # newClient
<1>1. newClient \in Clients /\ clients[newClient].rx \in {"none", "recv"}
  BY DEF Life, LifeTypes, Coming
<1>2. \A i \in 1..Len(deadList) : deadList[i] # newClient
  BY <1>1 DEF Life, Listed, Leaving
<1> QED
  BY <1>1, <1>2 DEF Life, Listed, Ended

LEMMA StartRxSteps ==
  ASSUME Life, StartRx
  PROVE  Life' /\ Wakes
<1>1. /\ server = "start" /\ server' = "workers"
      /\ UNCHANGED <<netUp, user, newClient, clientList, deadList, ending>>
  BY DEF StartRx
<1>2. PICK c \in Clients : /\ c = newClient /\ clients[c].used /\ clients[c].rx = "none"
                           /\ clients' = [clients EXCEPT ![c].rx = "recv"]
  BY <1>1 DEF StartRx, Life, LifeTypes, Coming
<1>3. "recv" \in RxPlaces
  BY DEF RxPlaces
<1>4. Only(c) /\ clients'[c].rx = "recv" /\ clients'[c].used
  BY <1>2, <1>3, RxMoves DEF Life
<1>5. /\ c \notin clientList /\ \A i \in 1..Len(deadList) : deadList[i] # c
      /\ \A a \in Actors : ending[a] # c
  <2>1. newClient # NoClient
    BY <1>2
  <2> QED
    BY <1>2, <2>1, ComingApart
<1>6. LifeTypes' /\ Coming' /\ Freed' /\ Wakes
  BY <1>1, <1>2, <1>4 DEF Life, LifeTypes, Coming, Freed, Wakes, Only
<1>7. Listed'
  <2>1. clientList \subseteq Clients /\ \A i \in 1..Len(deadList) : deadList[i] \in Clients
    BY DEF Life, LifeTypes
  <2> QED
    BY <1>1, <1>4, <1>5, <2>1 DEF Life, Listed, Only
<1>8. Ended'
  <2>1. \A b \in Actors : ending[b] \in Clients \cup {NoClient}
    BY DEF Life, LifeTypes
  <2> QED
    BY <1>1, <1>2, <1>4, <1>5, <2>1 DEF Life, Ended, Only
<1> QED
  BY <1>6, <1>7, <1>8 DEF Life

LEMMA StartWorkersSteps ==
  ASSUME Life, StartWorkers
  PROVE  Life' /\ Wakes
<1>1. /\ server = "workers" /\ server' = "add"
      /\ UNCHANGED <<netUp, user, newClient, clientList, deadList, ending>>
  BY DEF StartWorkers
<1>2. PICK c \in Clients : /\ c = newClient /\ clients[c].used /\ clients[c].rx = "recv"
                           /\ clients' = [clients EXCEPT ![c].workers = Workers]
  BY <1>1 DEF StartWorkers, Life, LifeTypes, Coming
<1>3. Only(c) /\ clients'[c].rx = "recv" /\ clients'[c].used
  <2> DEFINE r == [clients[c] EXCEPT !.workers = Workers]
  <2>1. clients \in [Clients -> Structures] /\ clients[c] \in Structures
    BY DEF Life, LifeTypes
  <2>2. r \in Structures /\ r.rx = clients[c].rx /\ r.used = clients[c].used
    BY <2>1 DEF Structures
  <2>3. clients' = [clients EXCEPT ![c] = r]
    BY <1>2, <2>1
  <2> HIDE DEF r
  <2> QED
    BY <1>2, <2>2, <2>3, StructureMoves DEF Life
<1>4. LifeTypes' /\ Listed' /\ Ended' /\ Freed' /\ Wakes
  BY <1>1, <1>2, <1>3, OneMoves
<1>5. Coming'
  BY <1>1, <1>2, <1>3 DEF Life, Coming
<1> QED
  BY <1>4, <1>5 DEF Life

LEMMA AddClientSteps ==
  ASSUME Life, faults = {}, AddClient
  PROVE  Life' /\ Wakes /\ faults' = {}
<1>1. /\ server = "add" /\ server' = "top" /\ newClient' = NoClient
      /\ clientList' = clientList \cup {newClient}
      /\ UNCHANGED <<netUp, user, clients, deadList, ending>>
  BY DEF AddClient
<1>2. user = "up" /\ newClient # NoClient /\ clients[newClient].used /\ clients[newClient].rx = "recv"
  BY <1>1 DEF Life, Coming
<1>3. /\ newClient \in Clients /\ newClient \notin clientList
      /\ \A i \in 1..Len(deadList) : deadList[i] # newClient
      /\ \A a \in Actors : ending[a] # newClient
  BY <1>2, ComingApart
<1>4. LifeTypes' /\ Coming' /\ Freed' /\ Wakes
  BY <1>1, <1>3 DEF Life, LifeTypes, Coming, Freed, Wakes
<1>5. Listed'
  <2>1. \A c \in clientList' : c # NoClient
    BY <1>1, <1>3 DEF Life, LifeTypes
  <2> QED
    BY <1>1, <1>2, <1>3, <2>1 DEF Life, Listed
<1>6. Ended'
  BY <1>1, <1>3 DEF Life, Ended
<1>7. faults' = {}
  BY <1>2 DEF AddClient
<1> QED
  BY <1>4, <1>5, <1>6, <1>7 DEF Life

LEMMA ServerStopsSteps ==
  ASSUME Life, ServerStops
  PROVE  Life' /\ Wakes
<1>1. /\ server \in {"stop", "top"} /\ server' \in {"top", "none"} /\ newClient' = NoClient
      /\ UNCHANGED <<netUp, user, clientList, deadList, ending>>
  BY DEF ServerStops
<1>2. CASE newClient = NoClient
  <2>1. UNCHANGED clients
    BY <1>2 DEF ServerStops
  <2> QED
    BY <1>1, <1>2, <2>1 DEF Life, LifeTypes, Coming, Listed, Ended, Freed, Wakes
<1>3. CASE newClient # NoClient
  <2>1. PICK c \in Clients : /\ c = newClient /\ clients[c].rx = "none"
                             /\ clients' = [clients EXCEPT ![c] = Unused]
    BY <1>1, <1>3 DEF ServerStops, Life, LifeTypes, Coming
  <2>2. Only(c) /\ clients'[c] = Unused
    BY <2>1, StructureMoves, UnusedTypes DEF Life
  <2>3. /\ c \notin clientList /\ \A i \in 1..Len(deadList) : deadList[i] # c
        /\ \A a \in Actors : ending[a] # c
    BY <1>3, <2>1, ComingApart
  <2>4. LifeTypes' /\ Coming' /\ Wakes
    BY <1>1, <2>1, <2>2 DEF Life, LifeTypes, Coming, Wakes, Only
  <2>5. Freed'
    BY <2>2 DEF Life, Freed, Only, Unused
  <2>6. Listed'
    <3>1. clientList \subseteq Clients /\ \A i \in 1..Len(deadList) : deadList[i] \in Clients
      BY DEF Life, LifeTypes
    <3>2. NoClient \notin clientList
      BY <3>1
    <3>3. clients'[c].rx # "dead"
      BY <2>2, UnusedTypes
    <3> QED
      BY <1>1, <2>2, <2>3, <3>1, <3>2, <3>3 DEF Life, Listed, Only
  <2>7. Ended'
    <3>1. \A b \in Actors : ending[b] \in Clients \cup {NoClient}
      BY DEF Life, LifeTypes
    <3>2. ending[c] = NoClient
      BY <2>1 DEF Life, Ended
    <3> QED
      BY <1>1, <2>1, <2>2, <2>3, <3>1, <3>2 DEF Life, Ended, Only
  <2> QED
    BY <2>4, <2>5, <2>6, <2>7 DEF Life
<1> QED
  BY <1>2, <1>3

-----------------------------------------------------------------------------
(***************************************************************************)
(* A client that leaves.                                                    *)
(***************************************************************************)
LEMMA LeaveSteps ==
  ASSUME Life, NEW c \in Clients, Leave(c)
  PROVE  Life' /\ Wakes
<1>1. /\ clients[c].rx # "none" /\ clients' = [clients EXCEPT ![c].fd = "eof"]
      /\ UNCHANGED <<netUp, user, server, newClient, clientList, deadList, ending>>
  BY DEF Leave
<1>2. clients[c].used
  BY <1>1, UnusedTypes DEF Life, Freed
<1>3. Only(c) /\ clients'[c].rx = clients[c].rx /\ clients'[c].used
  BY <1>1, <1>2, FdMoves DEF Life
<1>4. /\ LifeTypes' /\ Listed' /\ Ended' /\ Freed' /\ Wakes
      /\ newClient # NoClient => clients'[newClient].used
                                 /\ clients'[newClient].rx = clients[newClient].rx
  BY <1>1, <1>2, <1>3, OneMoves
<1>5. Coming'
  BY <1>1, <1>4 DEF Life, Coming
<1> QED
  BY <1>4, <1>5 DEF Life

LEMMA EofSteps ==
  ASSUME Life, NEW c \in Clients, Eof(c), ~raced'
  PROVE  Life' /\ Wakes
<1>1. /\ clients[c].rx = "recv" /\ clients' = [clients EXCEPT ![c].rx = "dead"]
      /\ c \in clientList /\ user = "up"
      /\ UNCHANGED <<netUp, user, server, newClient, clientList, deadList, ending>>
  BY DEF Eof
<1>2. clients[c].used /\ c # newClient
  BY <1>1 DEF Life, Listed
<1>3. "dead" \in RxPlaces
  BY DEF RxPlaces
<1>4. Only(c) /\ clients'[c].rx = "dead" /\ clients'[c].used
  BY <1>1, <1>2, <1>3, RxMoves DEF Life
<1>5. \A a \in Actors : ending[a] # c
  BY <1>1 DEF Life, Ended
<1>6. \A i \in 1..Len(deadList) : deadList[i] # c
  BY <1>1 DEF Life, Listed, Leaving
<1>7. LifeTypes' /\ Coming' /\ Freed' /\ Wakes
  BY <1>1, <1>2, <1>4 DEF Life, LifeTypes, Coming, Freed, Wakes, Only
<1>8. Listed'
  <2>1. clientList \subseteq Clients /\ \A i \in 1..Len(deadList) : deadList[i] \in Clients
    BY DEF Life, LifeTypes
  <2> QED
    BY <1>1, <1>4, <1>6, <2>1 DEF Life, Listed, Only
<1>9. Ended'
  <2>1. \A b \in Actors : ending[b] \in Clients \cup {NoClient}
    BY DEF Life, LifeTypes
  <2> QED
    BY <1>1, <1>4, <1>5, <2>1 DEF Life, Ended, Only
<1> QED
  BY <1>7, <1>8, <1>9 DEF Life

LEMMA RxDeadSteps ==
  ASSUME Life, NEW c \in Clients, RxDead(c), faults = {}
  PROVE  Life' /\ Wakes /\ faults' = {}
<1>1. /\ clients[c].rx = "dead" /\ ending[c] = NoClient
      /\ UNCHANGED <<netUp, user, server, newClient>>
  BY DEF RxDead
<1>2. c \in clientList /\ user = "up" /\ netUp /\ clients[c].used /\ c # newClient
  BY <1>1 DEF Life, LifeTypes, Listed
<1>3. CASE TakeDead(c) /\ UNCHANGED <<clients, clientList, faults>>
  BY <1>1, <1>3, TakeDeadSteps
<1>4. CASE /\ deadList = <<>> /\ deadList' = Append(deadList, c)
           /\ clientList' = clientList \ {c} /\ UNCHANGED <<faults, ending>>
           /\ clients' = [clients EXCEPT ![c].rx = "workers"]
  <2>1. "workers" \in RxPlaces /\ "workers" \in Leaving
    BY DEF RxPlaces, Leaving
  <2>2. Only(c) /\ clients'[c].rx = "workers" /\ clients'[c].used
    BY <1>2, <1>4, <2>1, RxMoves DEF Life
  <2>3. deadList' \in Seq(Clients) /\ Len(deadList') = 1 /\ deadList'[1] = c
    BY <1>4
  <2>4. \A a \in Actors : ending[a] # c
    BY <1>1 DEF Life, Ended, Leaving
  <2>5. LifeTypes' /\ Coming' /\ Freed' /\ Wakes
    BY <1>1, <1>2, <1>4, <2>2, <2>3 DEF Life, LifeTypes, Coming, Freed, Wakes, Only
  <2>6. Listed'
    <3>1. clientList \subseteq Clients
      BY DEF Life, LifeTypes
    <3>2. \A i \in 1..Len(deadList') : i = 1
      BY <2>3
    <3>3. \A d \in clientList' : d \in Clients \ {c} /\ d \in clientList
      BY <1>4, <3>1
    <3>4. \A d \in Clients : clients'[d].rx = "dead" => d # c /\ clients[d].rx = "dead"
      BY <2>2 DEF Only
    <3>5. /\ \A d \in clientList' :
               clients'[d].used /\ clients'[d].rx \in {"recv", "dead"} /\ d # newClient
          /\ \A d \in Clients : clients'[d].rx = "dead" => d \in clientList' /\ user = "up"
      BY <1>4, <2>2, <3>3, <3>4 DEF Life, Listed, Only
    <3> QED
      BY <1>1, <2>1, <2>2, <2>3, <3>2, <3>5 DEF Listed
  <2>7. Ended'
    <3>1. \A b \in Actors : ending[b] \in Clients \cup {NoClient}
      BY DEF Life, LifeTypes
    <3>2. \A i \in 1..Len(deadList') : deadList'[i] = c
      BY <2>3
    <3>3. \A b \in Actors : ending[b] # NoClient =>
            /\ clients'[ending[b]].used
            /\ clients'[ending[b]].rx \in Leaving \cup {"recv", "joined"}
            /\ ending[b] # newClient /\ ending[b] \notin clientList'
      BY <1>4, <2>2, <2>4, <3>1 DEF Life, Ended, Only
    <3>4. \A d \in Clients : ending[d] # NoClient => clients'[d].rx = "dead"
      BY <1>1, <2>2 DEF Life, Ended, Only
    <3>5. \A b, d \in Actors : ending[b] = ending[d] /\ ending[b] # NoClient => b = d
      BY DEF Life, Ended
    <3> QED
      BY <1>1, <1>4, <2>4, <3>2, <3>3, <3>4, <3>5 DEF Ended
  <2> QED
    BY <1>4, <2>5, <2>6, <2>7 DEF Life
<1> QED
  BY <1>2, <1>3, <1>4 DEF RxDead

LEMMA RxWorkersSteps ==
  ASSUME Life, NEW c \in Clients, RxWorkers(c)
  PROVE  Life' /\ Wakes
<1>1. /\ clients[c].rx = "workers"
      /\ clients' = [clients EXCEPT ![c].workers = {}, ![c].rx = "close"]
      /\ UNCHANGED <<netUp, user, server, newClient, clientList, deadList, ending>>
  BY DEF RxWorkers
<1>2. clients[c].used /\ clients[c].rx \in Leaving
  BY <1>1, UnusedTypes DEF Life, Freed, Leaving
<1>3. Only(c) /\ clients'[c].rx \in Leaving /\ clients'[c].used
  <2> DEFINE r == [clients[c] EXCEPT !.workers = {}, !.rx = "close"]
  <2>1. clients \in [Clients -> Structures] /\ clients[c] \in Structures
    BY DEF Life, LifeTypes
  <2>2. r \in Structures /\ r.rx = "close" /\ r.used = clients[c].used
    BY <2>1 DEF Structures, RxPlaces, Leaving
  <2>3. clients' = [clients EXCEPT ![c] = r]
    BY <1>1, <2>1
  <2> HIDE DEF r
  <2> QED
    BY <1>2, <2>2, <2>3, StructureMoves DEF Life, Leaving
<1>4. /\ LifeTypes' /\ Listed' /\ Ended' /\ Freed' /\ Wakes
      /\ newClient # NoClient => clients'[newClient].used
                                 /\ clients'[newClient].rx = clients[newClient].rx
  BY <1>1, <1>2, <1>3, OneMoves
<1>5. Coming'
  BY <1>1, <1>4 DEF Life, Coming
<1> QED
  BY <1>4, <1>5 DEF Life

LEMMA RxCloseSteps ==
  ASSUME Life, NEW c \in Clients, RxClose(c)
  PROVE  Life' /\ Wakes
<1>1. /\ clients[c].rx = "close"
      /\ clients' = [clients EXCEPT ![c].fd = "closed", ![c].rx = "connections"]
      /\ UNCHANGED <<netUp, user, server, newClient, clientList, deadList, ending>>
  BY DEF RxClose
<1>2. clients[c].used /\ clients[c].rx \in Leaving
  BY <1>1, UnusedTypes DEF Life, Freed, Leaving
<1>3. Only(c) /\ clients'[c].rx \in Leaving /\ clients'[c].used
  <2> DEFINE r == [clients[c] EXCEPT !.fd = "closed", !.rx = "connections"]
  <2>1. clients \in [Clients -> Structures] /\ clients[c] \in Structures
    BY DEF Life, LifeTypes
  <2>2. r \in Structures /\ r.rx = "connections" /\ r.used = clients[c].used
    BY <2>1 DEF Structures, RxPlaces, Leaving
  <2>3. clients' = [clients EXCEPT ![c] = r]
    BY <1>1, <2>1
  <2> HIDE DEF r
  <2> QED
    BY <1>2, <2>2, <2>3, StructureMoves DEF Life, Leaving
<1>4. /\ LifeTypes' /\ Listed' /\ Ended' /\ Freed' /\ Wakes
      /\ newClient # NoClient => clients'[newClient].used
                                 /\ clients'[newClient].rx = clients[newClient].rx
  BY <1>1, <1>2, <1>3, OneMoves
<1>5. Coming'
  BY <1>1, <1>4 DEF Life, Coming
<1> QED
  BY <1>4, <1>5 DEF Life

LEMMA RxConnectionsSteps ==
  ASSUME Life, NEW c \in Clients, RxConnections(c)
  PROVE  Life' /\ Wakes
<1>1. /\ clients[c].rx = "connections" /\ clients' = [clients EXCEPT ![c].rx = "done"]
      /\ UNCHANGED <<netUp, user, server, newClient, clientList, deadList, ending>>
  BY DEF RxConnections
<1>2. /\ clients[c].used /\ clients[c].rx \in Leaving
      /\ "done" \in Leaving /\ "done" \in RxPlaces
  BY <1>1, UnusedTypes DEF Life, Freed, Leaving, RxPlaces
<1>3. Only(c) /\ clients'[c].rx \in Leaving /\ clients'[c].used
  BY <1>1, <1>2, RxMoves DEF Life
<1>4. /\ LifeTypes' /\ Listed' /\ Ended' /\ Freed' /\ Wakes
      /\ newClient # NoClient => clients'[newClient].used
                                 /\ clients'[newClient].rx = clients[newClient].rx
  BY <1>1, <1>2, <1>3, OneMoves
<1>5. Coming'
  BY <1>1, <1>4 DEF Life, Coming
<1> QED
  BY <1>4, <1>5 DEF Life

-----------------------------------------------------------------------------
(***************************************************************************)
(* Shutting a client down.                                                  *)
(***************************************************************************)
LEMMA JoinRxSteps ==
  ASSUME Life, NEW a \in Actors, JoinRx(a)
  PROVE  Life' /\ Wakes /\ UNCHANGED faults
<1>1. PICK c \in Clients : c = ending[a]
  BY DEF JoinRx, Life, LifeTypes
<1>2. /\ clients[c].used /\ clients[c].rx \in Leaving \cup {"recv", "joined"}
      /\ c # newClient /\ c \notin clientList
      /\ \A i \in 1..Len(deadList) : deadList[i] # c
  BY <1>1 DEF Life, Ended
<1>3. /\ clients' = [clients EXCEPT ![c].rx = "joined"]
      /\ ending' = [ending EXCEPT ![c] = NoClient]
      /\ UNCHANGED <<netUp, user, server, newClient, clientList, deadList, faults>>
  BY <1>1, <1>2 DEF JoinRx
<1>4. UNCHANGED ending
  <2>1. ending[c] = NoClient
    BY <1>2 DEF Life, Ended, Leaving
  <2>2. ending \in [Actors -> Clients \cup {NoClient}]
    BY DEF Life, LifeTypes
  <2> QED
    BY <1>3, <2>1, <2>2
<1>5. Only(c) /\ clients'[c].rx = "joined" /\ clients'[c].used
  <2>1. "joined" \in RxPlaces
    BY DEF RxPlaces
  <2> QED
    BY <1>2, <1>3, <2>1, RxMoves DEF Life
<1>6. LifeTypes' /\ Coming' /\ Freed' /\ Wakes
  BY <1>2, <1>3, <1>4, <1>5 DEF Life, LifeTypes, Coming, Freed, Wakes, Only
<1>7. Listed'
  <2>1. clientList \subseteq Clients /\ \A i \in 1..Len(deadList) : deadList[i] \in Clients
    BY DEF Life, LifeTypes
  <2> QED
    BY <1>2, <1>3, <1>5, <2>1 DEF Life, Listed, Only
<1>8. Ended'
  <2>1. \A b \in Actors : ending[b] \in Clients \cup {NoClient}
    BY DEF Life, LifeTypes
  <2>2. ending[c] = NoClient
    BY <1>2 DEF Life, Ended, Leaving
  <2>3. \A d \in Clients : ending[d] # NoClient => clients'[d].rx = "dead"
    BY <1>5, <2>2 DEF Life, Ended, Only
  <2>4. \A b \in Actors : ending[b] # NoClient =>
          /\ clients'[ending[b]].used
          /\ clients'[ending[b]].rx \in Leaving \cup {"recv", "joined"}
    BY <1>5, <2>1 DEF Life, Ended, Only
  <2> QED
    BY <1>3, <1>4, <2>3, <2>4 DEF Life, Ended
<1> QED
  BY <1>3, <1>6, <1>7, <1>8 DEF Life

LEMMA EndClientSteps ==
  ASSUME Life, NEW a \in Actors, EndClient(a)
  PROVE  /\ Life' /\ UNCHANGED faults
         /\ ending[a] \in Clients
         /\ \A d \in Clients \ {ending[a]} : clients'[d] = clients[d]
<1>1. PICK c \in Clients : c = ending[a]
  BY DEF EndClient, Life, LifeTypes
<1>2. /\ clients' = [clients EXCEPT ![c] = Unused]
      /\ ending' = [ending EXCEPT ![a] = NoClient]
      /\ clients[c].rx = "joined"
      /\ UNCHANGED <<netUp, user, server, newClient, clientList, deadList, faults>>
  BY <1>1 DEF EndClient
<1>3. /\ c # newClient /\ c \notin clientList
      /\ \A i \in 1..Len(deadList) : deadList[i] # c
  BY <1>1 DEF Life, Ended
<1>4. Only(c) /\ clients'[c] = Unused
  BY <1>2, StructureMoves, UnusedTypes DEF Life
<1>5. /\ ending'[a] = NoClient /\ \A b \in Actors \ {a} : ending'[b] = ending[b]
      /\ ending' \in [Actors -> Clients \cup {NoClient}]
  BY <1>2 DEF Life, LifeTypes
<1>6. \A b \in Actors : ending'[b] # c
  BY <1>1, <1>5 DEF Life, Ended
<1>7. LifeTypes' /\ Coming'
  BY <1>2, <1>3, <1>4, <1>5 DEF Life, LifeTypes, Coming, Only
<1>8. Freed'
  BY <1>4 DEF Life, Freed, Only, Unused
<1>9. Listed'
  <2>1. clientList \subseteq Clients /\ \A i \in 1..Len(deadList) : deadList[i] \in Clients
    BY DEF Life, LifeTypes
  <2>2. clients'[c].rx # "dead"
    BY <1>4, UnusedTypes
  <2> QED
    BY <1>2, <1>3, <1>4, <2>1, <2>2 DEF Life, Listed, Only
<1>10. Ended'
  <2>1. \A b \in Actors : ending'[b] # NoClient =>
          b # a /\ ending'[b] = ending[b] /\ ending[b] \in Clients \ {c}
    BY <1>1, <1>5, <1>6 DEF Life, LifeTypes
  <2>2. \A b \in Actors : ending'[b] # NoClient =>
          /\ clients'[ending'[b]].used
          /\ clients'[ending'[b]].rx \in Leaving \cup {"recv", "joined"}
          /\ ending'[b] # newClient /\ ending'[b] \notin clientList
          /\ \A i \in 1..Len(deadList) : deadList[i] # ending'[b]
    BY <1>4, <2>1 DEF Life, Ended, Only
  <2>3. \A b, d \in Actors : ending'[b] = ending'[d] /\ ending'[b] # NoClient => b = d
    BY <2>1 DEF Life, Ended
  <2>4. \A d \in Clients : ending'[d] # NoClient => clients'[d].rx = "dead"
    <3>1. ending[c] = NoClient
      BY <1>2 DEF Life, Ended
    <3> QED
      BY <1>4, <2>1, <3>1 DEF Life, Ended, Only
  <2> QED
    BY <1>2, <2>2, <2>3, <2>4 DEF Ended
<1> QED
  BY <1>1, <1>2, <1>4, <1>7, <1>8, <1>9, <1>10 DEF Life, Only

\* The steps of the server that no connection takes part in.
LEMMA ServerStepSteps ==
  ASSUME Life, faults = {}, ServerStep, ~raced'
  PROVE  Life' /\ Wakes /\ faults' = {} /\ ~raced
<1>1. CASE NetStart
  BY <1>1, NetStartSteps DEF NetStart
<1>2. CASE NetStop
  BY <1>2, NetStopSteps DEF NetStop
<1>3. CASE NetStopClose
  BY <1>3, NetStopCloseSteps DEF NetStopClose
<1>4. CASE NetStopList
  BY <1>4, NetStopListSteps DEF NetStopList
<1>5. CASE NetStopDead
  BY <1>5, NetStopDeadSteps DEF NetStopDead
<1>6. CASE ServerTop
  BY <1>6, ServerTopSteps DEF ServerTop
<1>7. CASE Accept
  BY <1>7, AcceptSteps DEF Accept
<1>8. CASE Filter
  BY <1>8, FilterSteps DEF Filter
<1>9. CASE StartWorkers
  BY <1>9, StartWorkersSteps DEF StartWorkers
<1>10. CASE AddClient
  <2>1. ~raced
    BY <1>10 DEF AddClient
  <2> QED
    BY <1>10, <2>1, AddClientSteps
<1>11. CASE ServerStops
  BY <1>11, ServerStopsSteps DEF ServerStops
<1>12. ASSUME NEW c \in Clients, RxDead(c) PROVE Life' /\ Wakes /\ faults' = {} /\ ~raced
  <2>1. ~raced
    BY <1>12 DEF RxDead
  <2> QED
    BY <1>12, <2>1, RxDeadSteps
<1>13. ASSUME NEW c \in Clients, RxWorkers(c) PROVE Life' /\ Wakes /\ faults' = {} /\ ~raced
  <2>1. ~raced /\ UNCHANGED faults
    BY <1>13 DEF RxWorkers
  <2> QED
    BY <1>13, <2>1, RxWorkersSteps
<1>14. ASSUME NEW c \in Clients, RxClose(c) PROVE Life' /\ Wakes /\ faults' = {} /\ ~raced
  <2>1. ~raced /\ UNCHANGED faults
    BY <1>14 DEF RxClose
  <2> QED
    BY <1>14, <2>1, RxCloseSteps
<1>15. ASSUME NEW a \in Actors, JoinRx(a) PROVE Life' /\ Wakes /\ faults' = {} /\ ~raced
  <2>1. ~raced
    BY <1>15 DEF JoinRx
  <2> QED
    BY <1>15, <2>1, JoinRxSteps
<1> QED
  BY <1>1, <1>2, <1>3, <1>4, <1>5, <1>6, <1>7, <1>8, <1>9, <1>10, <1>11, <1>12, <1>13, <1>14,
     <1>15 DEF ServerStep, Stopper, ServerThread

-----------------------------------------------------------------------------
(***************************************************************************)
(* The steps that connections take part in.                                 *)
(***************************************************************************)
\* A step that asks nothing for a client without a receive thread.
LEMMA SilentKept ==
  ASSUME Silent, Wakes, DOMAIN inbox' = Clients,
         \A d \in Clients : clients[d].rx = "none" =>
           inbox'[d] = inbox[d] /\ ServedFor(d)' \subseteq ServedFor(d)
  PROVE  Silent'
BY DEF Silent, Wakes

LEMMA InboxKept ==
  ASSUME Silent, Wakes, UNCHANGED <<inbox, served>>
  PROVE  Silent'
<1>1. \A d \in Clients : ServedFor(d)' = ServedFor(d)
  BY DEF ServedFor
<1> QED
  BY <1>1 DEF Silent, Wakes

\* A step that only one client's inbox and its connections take part in.
LEMMA OneAsks ==
  ASSUME Silent, NEW c \in Clients, clients[c].rx # "none", NEW q,
         inbox' = inbox \/ inbox' = [inbox EXCEPT ![c] = q],
         \A s \in served' : s \in served \/ s.client = c,
         UNCHANGED clients
  PROVE  Silent'
<1>1. DOMAIN inbox' = Clients /\ \A d \in Clients \ {c} : inbox'[d] = inbox[d]
  BY DEF Silent
<1>2. \A d \in Clients \ {c} : ServedFor(d)' \subseteq ServedFor(d)
  BY DEF ServedFor
<1> QED
  BY <1>1, <1>2, SilentKept DEF Wakes

\* Only a client that has asked is answered.
LEMMA AskedHasRead ==
  ASSUME Silent, NEW c \in Clients, NEW ep, FirstFor(c, ep) # 0
  PROVE  clients[c].rx # "none"
<1>1. SUFFICES ASSUME inbox[c] = <<>> PROVE FirstFor(c, ep) = 0
  BY DEF Silent
<1>2. 1..Len(inbox[c]) = {}
  BY <1>1
<1> QED
  BY <1>2 DEF FirstFor, SelectInSeq

LEMMA IdleSteps ==
  ASSUME Life, UNCHANGED serverVars
  PROVE  Life' /\ Wakes /\ UNCHANGED <<clients, faults, raced>>
BY DEF serverVars, Life, LifeTypes, Coming, Listed, Ended, Freed, Wakes

LEMMA CallbackSteps ==
  ASSUME Silent, NEW c \in Clients, Callbacks(c), UNCHANGED clients, Wakes
  PROVE  Silent'
<1> USE DEF Takes, Rest, EndpointNames
<1>1. ASSUME NEW ep, Ignored(c, ep) PROVE Silent'
  BY <1>1, AskedHasRead, OneAsks DEF Ignored, callbackVars
<1>2. CASE NetStartBegins(c)
  BY <1>2, AskedHasRead, OneAsks DEF NetStartBegins
<1>3. CASE NetStarts(c)
  BY <1>3, InboxKept DEF NetStarts
<1>4. CASE NetConGetTypes(c)
  BY <1>4, AskedHasRead, OneAsks DEF NetConGetTypes
<1>5. CASE NetConNew(c)
  <2>1. \A s \in served' : s \in served \/ s.client = c
    BY <1>5 DEF NetConNew
  <2> QED
    BY <1>5, <2>1, AskedHasRead, OneAsks DEF NetConNew
<1>6. CASE NetConValidate(c)
  BY <1>6, AskedHasRead, OneAsks DEF NetConValidate
<1>7. CASE NetConSleep(c)
  BY <1>7, AskedHasRead, OneAsks DEF NetConSleep
<1>8. CASE NetConSettings(c)
  BY <1>8, AskedHasRead, OneAsks DEF NetConSettings
<1>9. CASE NetConEnd(c)
  <2>1. FirstFor(c, "conEnd") # 0 /\ UNCHANGED served
    BY <1>9 DEF NetConEnd
  <2>2. PICK q : inbox' = [inbox EXCEPT ![c] = q]
    BY <1>9 DEF NetConEnd
  <2> QED
    BY <2>1, <2>2, AskedHasRead, OneAsks
<1> QED
  BY <1>1, <1>2, <1>3, <1>4, <1>5, <1>6, <1>7, <1>8, <1>9 DEF Callbacks

\* The program gives up: what it asked for is marked.
LEMMA TimeoutSteps ==
  ASSUME Silent, NEW c \in Clients, Timeout(c), Wakes
  PROVE  Silent'
<1>1. inbox' = [inbox EXCEPT ![c] = GivenUp(inbox[c])] /\ UNCHANGED served
  BY DEF Timeout
<1>2. inbox[c] = <<>> => GivenUp(inbox[c]) = <<>>
  BY DEF GivenUp
<1>3. DOMAIN inbox' = Clients /\ \A d \in Clients : clients[d].rx = "none" => inbox'[d] = inbox[d]
  BY <1>1, <1>2 DEF Silent
<1>4. \A d \in Clients : ServedFor(d)' = ServedFor(d)
  BY <1>1 DEF ServedFor
<1> QED
  BY <1>3, <1>4, SilentKept

LEMMA ProgramSteps ==
  ASSUME Life, Silent, faults = {}, NEW c \in Clients, ClientProgram(c)
  PROVE  Life' /\ Silent' /\ UNCHANGED <<faults, raced>>
<1>1. CASE Disconnect(c)
  <2>1. Leave(c) /\ UNCHANGED <<inbox, served>>
    BY <1>1 DEF Disconnect, callbackVars
  <2> QED
    BY <2>1, LeaveSteps, InboxKept DEF Leave
<1>2. CASE Timeout(c)
  BY <1>2, IdleSteps, TimeoutSteps DEF Timeout
<1>3. CASE Connect(c) \/ Begin(c) \/ ReadAnswer(c) \/ RxAnswer(c) \/ RxData(c)
  <2>1. UNCHANGED <<serverVars, inbox, served>>
    BY <1>3 DEF Connect, Begin, ReadAnswer, RxAnswer, RxData, callbackVars
  <2> QED
    BY <2>1, IdleSteps, InboxKept
<1> QED
  BY <1>1, <1>2, <1>3 DEF ClientProgram

LEMMA FreeClientSteps ==
  ASSUME Life, Silent, NEW a \in Actors, FreeClient(a)
  PROVE  Life' /\ Silent' /\ UNCHANGED <<faults, raced>>
<1>1. PICK c \in Clients : c = ending[a]
  BY DEF FreeClient, EndClient, Life, LifeTypes
<1>2. /\ Life' /\ UNCHANGED <<faults, raced>>
      /\ \A d \in Clients \ {c} : clients'[d] = clients[d]
  BY <1>1, EndClientSteps DEF FreeClient, EndClient
<1>3. inbox' = [inbox EXCEPT ![c] = <<>>] /\ served' = served \ ServedFor(c)
  BY <1>1 DEF FreeClient, Remaining
<1>4. \A d \in Clients : ServedFor(d)' \subseteq ServedFor(d)
  BY <1>3 DEF ServedFor
<1>5. ServedFor(c)' = {}
  BY <1>3 DEF ServedFor
<1>6. DOMAIN inbox' = Clients /\ inbox'[c] = <<>> /\ \A d \in Clients \ {c} : inbox'[d] = inbox[d]
  BY <1>3 DEF Silent
<1>7. Silent'
  BY <1>2, <1>4, <1>5, <1>6 DEF Silent
<1> QED
  BY <1>2, <1>7

-----------------------------------------------------------------------------
LEMMA NetInvInit ==
  ASSUME Init
  PROVE  NetInv
<1>1. /\ ServerInit /\ inbox = [c \in Clients |-> <<>>] /\ served = {}
  BY DEF Init
<1>2. LifeTypes /\ Coming
  <2>1. clients \in [Clients -> Structures] /\ ending \in [Actors -> Clients \cup {NoClient}]
    BY <1>1, UnusedTypes DEF ServerInit
  <2>2. Coming
    BY <1>1 DEF ServerInit, Coming
  <2>3. deadList \in Seq(Clients)
    BY <1>1 DEF ServerInit
  <2> QED
    BY <1>1, <2>1, <2>2, <2>3 DEF ServerInit, LifeTypes
<1>4. Listed /\ Freed
  <2>1. clientList = {} /\ 1..Len(deadList) = {} /\ \A c \in Clients : clients[c] = Unused
    BY <1>1 DEF ServerInit
  <2> QED
    BY <2>1, UnusedTypes DEF Listed, Freed
<1>5. Ended
  <2>1. \A a \in Actors : ending[a] = NoClient
    BY <1>1 DEF ServerInit
  <2> QED
    BY <2>1 DEF Ended
<1>3. Silent
  BY <1>1 DEF Silent, ServedFor
<1> QED
  BY <1>1, <1>2, <1>3, <1>4, <1>5 DEF NetInv, Life, ServerInit

\* A race is not forgotten.
LEMMA RacedStays ==
  ASSUME raced, [Next]_vars
  PROVE  raced'
<1>1. ASSUME ServerStep PROVE raced'
  BY <1>1 DEF ServerStep, Stopper, ServerThread, NetStart, NetStop, NetStopClose, NetStopList,
     NetStopDead, ServerTop, Accept, Filter, StartWorkers, AddClient, ServerStops, RxDead,
     RxWorkers, RxClose, JoinRx
<1>2. ASSUME NEW c \in Clients, ClientProgram(c) PROVE raced'
  BY <1>2 DEF ClientProgram, serverVars, Connect, Begin, Timeout, ReadAnswer, Disconnect, Leave,
     RxAnswer, RxData
<1>3. ASSUME NEW c \in Clients, Callbacks(c) PROVE raced'
  BY <1>3 DEF Callbacks, serverVars, Ignored, NetStartBegins, NetStarts, NetConGetTypes, NetConNew,
     NetConValidate, NetConSleep, NetConSettings, NetConEnd, Takes
<1>4. ASSUME NEW c \in Clients,
             \/ RxRequest(c) \/ FromClient(c) \/ RxEof(c) \/ LeaveSilent(c) \/ EndConnections(c)
      PROVE  raced'
  BY <1>4 DEF serverVars, RxRequest, FromClient, RxEof, Eof, LeaveSilent, Leave, EndConnections,
     RxConnections
<1>5. ASSUME NEW a \in Actors, FreeClient(a) PROVE raced'
  BY <1>5 DEF FreeClient, EndClient
<1>6. ASSUME NEW s \in served, ToClient(s) PROVE raced'
  BY <1>6 DEF ToClient, serverVars
<1>7. CASE SetupBackchannel
  BY <1>7 DEF SetupBackchannel, StartRx
<1>8. CASE UNCHANGED vars
  BY <1>8 DEF vars, serverVars
<1> QED
  BY <1>1, <1>2, <1>3, <1>4, <1>5, <1>6, <1>7, <1>8 DEF Next

LEMMA NetInvNext ==
  ASSUME NetInv, [Next]_vars
  PROVE  NetInv'
<1>0. CASE raced
  BY <1>0, RacedStays DEF NetInv
<1> SUFFICES ASSUME ~raced, ~raced' PROVE faults' = {} /\ Life' /\ Silent'
  BY <1>0 DEF NetInv
<1>1. faults = {} /\ Life /\ Silent
  BY DEF NetInv
<1>2. CASE ServerStep /\ UNCHANGED <<clientVars, linkVars, callbackVars, relayed>>
  <2>1. Life' /\ Wakes /\ faults' = {}
    BY <1>1, <1>2, ServerStepSteps
  <2>2. UNCHANGED <<inbox, served>>
    BY <1>2 DEF callbackVars
  <2> QED
    BY <1>1, <2>1, <2>2, InboxKept
<1>3. CASE SetupBackchannel
  <2>1. StartRx /\ UNCHANGED <<inbox, served, faults>>
    BY <1>3 DEF SetupBackchannel, StartRx
  <2> QED
    BY <1>1, <2>1, StartRxSteps, InboxKept
<1>4. ASSUME NEW c \in Clients, ClientProgram(c) PROVE faults' = {} /\ Life' /\ Silent'
  BY <1>1, <1>4, ProgramSteps
<1>5. ASSUME NEW c \in Clients, RxRequest(c) PROVE faults' = {} /\ Life' /\ Silent'
  <2>1. clients[c].rx # "none" /\ UNCHANGED <<serverVars, served>>
    BY <1>5 DEF RxRequest, Reading
  <2>2. inbox' = inbox \/ inbox' = [inbox EXCEPT ![c] = Append(@, Head(toServer[c]))]
    BY <1>5 DEF RxRequest
  <2>3. Life' /\ Wakes /\ UNCHANGED <<clients, faults>>
    BY <1>1, <2>1, IdleSteps
  <2> QED
    BY <1>1, <2>1, <2>2, <2>3, OneAsks
<1>6. ASSUME NEW c \in Clients, FromClient(c) PROVE faults' = {} /\ Life' /\ Silent'
  <2>1. UNCHANGED <<serverVars, inbox, served>>
    BY <1>6 DEF FromClient, callbackVars
  <2> QED
    BY <1>1, <2>1, IdleSteps, InboxKept
<1>7. ASSUME NEW c \in Clients, Callbacks(c) PROVE faults' = {} /\ Life' /\ Silent'
  <2>1. UNCHANGED serverVars
    BY <1>7 DEF Callbacks, Ignored, NetStartBegins, NetStarts, NetConGetTypes, NetConNew,
       NetConValidate, NetConSleep, NetConSettings, NetConEnd, Takes
  <2> QED
    BY <1>1, <1>7, <2>1, IdleSteps, CallbackSteps
<1>8. ASSUME NEW c \in Clients, RxEof(c) PROVE faults' = {} /\ Life' /\ Silent'
  <2>1. Eof(c) /\ UNCHANGED <<inbox, served, faults>>
    BY <1>8 DEF RxEof, Eof, callbackVars
  <2> QED
    BY <1>1, <2>1, EofSteps, InboxKept
<1>9. ASSUME NEW c \in Clients, LeaveSilent(c) PROVE faults' = {} /\ Life' /\ Silent'
  <2>1. Leave(c) /\ UNCHANGED <<inbox, served, faults>>
    BY <1>9 DEF LeaveSilent, Leave, callbackVars
  <2> QED
    BY <1>1, <2>1, LeaveSteps, InboxKept
<1>10. ASSUME NEW c \in Clients, EndConnections(c) PROVE faults' = {} /\ Life' /\ Silent'
  <2>1. /\ RxConnections(c) /\ UNCHANGED <<inbox, faults>> /\ served' = served \ ServedFor(c)
    BY <1>10 DEF EndConnections, RxConnections
  <2>2. \A d \in Clients : ServedFor(d)' \subseteq ServedFor(d)
    BY <2>1 DEF ServedFor
  <2>3. Life' /\ Wakes
    BY <1>1, <2>1, RxConnectionsSteps
  <2>4. DOMAIN inbox' = Clients
    BY <1>1, <2>1 DEF Silent
  <2> QED
    BY <1>1, <2>1, <2>2, <2>3, <2>4, SilentKept
<1>11. ASSUME NEW s \in served, ToClient(s) PROVE faults' = {} /\ Life' /\ Silent'
  <2>1. UNCHANGED <<serverVars, inbox, served>>
    BY <1>11 DEF ToClient, callbackVars
  <2> QED
    BY <1>1, <2>1, IdleSteps, InboxKept
<1>12. ASSUME NEW a \in Actors, FreeClient(a) PROVE faults' = {} /\ Life' /\ Silent'
  BY <1>1, <1>12, FreeClientSteps
<1>13. CASE UNCHANGED vars
  <2>1. UNCHANGED <<serverVars, inbox, served>>
    BY <1>13 DEF vars, callbackVars
  <2> QED
    BY <1>1, <2>1, IdleSteps, InboxKept
<1> QED
  BY <1>2, <1>3, <1>4, <1>5, <1>6, <1>7, <1>8, <1>9, <1>10, <1>11, <1>12, <1>13 DEF Next

\* The structure of a client is shut down or listed after it was freed only in
\* a race: a client left before it was listed, or was let in or left while the
\* server was stopped.
THEOREM FaultsNeedRaces == Spec => []FaultsNeedARace
<1>1. Init => NetInv
  BY NetInvInit
<1>2. NetInv /\ [Next]_vars => NetInv'
  BY NetInvNext
<1>3. NetInv => FaultsNeedARace
  BY DEF NetInv, FaultsNeedARace
<1> QED
  BY <1>1, <1>2, <1>3, PTL DEF Spec

\* A client that was freed has no thread and no place in a list, and no
\* connection of the radio serves it, whoever shut it down and wherever the
\* others stood meanwhile; a client that takes its structure starts from nothing.
THEOREM FreedIsGone == Spec => []FreedMeansGone
<1>1. Init => NetInv
  BY NetInvInit
<1>2. NetInv /\ [Next]_vars => NetInv'
  BY NetInvNext
<1>3. NetInv => FreedMeansGone
  <2> SUFFICES ASSUME NetInv, ~raced, NEW c \in Clients, ~clients[c].used
               PROVE  /\ clients[c] = Unused
                      /\ c \notin clientList \cup ToSet(deadList)
                      /\ ServedFor(c) = {}
    BY DEF FreedMeansGone
  <2>1. Life /\ Silent
    BY DEF NetInv
  <2>2. clients[c] = Unused /\ clients[c].rx = "none"
    BY <2>1, UnusedTypes DEF Life, Freed
  <2>3. c \notin clientList
    BY <2>1 DEF Life, Listed
  <2>4. c \notin ToSet(deadList)
    <3>1. deadList \in Seq(Clients)
      BY <2>1 DEF Life, LifeTypes
    <3> QED
      BY <2>1, <3>1 DEF Life, Listed, ToSet
  <2> QED
    BY <2>1, <2>2, <2>3, <2>4 DEF Silent
<1> QED
  BY <1>1, <1>2, <1>3, PTL DEF Spec

-----------------------------------------------------------------------------
(***************************************************************************)
(* What the programs send and get.                                          *)
(*                                                                          *)
(* A stream carries one request or one answer at a time, of the call its     *)
(* program makes, as long as no call gave up; and the connections a program   *)
(* has are those the server made for it.  Clients may race here: of their     *)
(* structures little more is needed than that a stream begins anew.           *)
(***************************************************************************)
Held ==
  /\ server \in {"accept", "filter", "start", "workers", "add"} => newClient # NoClient
  /\ newClient # NoClient /\ server \notin {"workers", "add"} =>
       clients[newClient].used /\ clients[newClient].rx = "none"
  /\ \A c \in Clients : ~clients[c].used => clients[c].rx = "none"

\* A program's stream is open.
Online ==
  \A c \in Clients : stage[c] # "off" =>
    clients[c].used /\ clients[c].fd = "open" /\ clients[c].rx \in {"recv", "joined"}

\* What every step but the last of a structure leaves of it.
Settled ==
  \A c \in Clients :
    /\ stage[c] # "off" => /\ clients'[c].used /\ clients'[c].fd = "open"
                           /\ clients'[c].rx \in {"recv", "joined"}
    /\ clients'[c].rx = "none" => clients[c].rx = "none"
    /\ clients'[c].rx = "recv" => clients[c].rx \in {"none", "recv"}
    /\ clients'[c].fd = "open" => clients[c].fd = "open" \/ clients[c].rx = "none"

Structural == LifeTypes /\ Held /\ Online

LEMMA UnmovedSettles ==
  ASSUME Structural, UNCHANGED clients
  PROVE  Settled
BY DEF Structural, Online, Settled

LEMMA OneSettles ==
  ASSUME Structural, NEW c \in Clients, Only(c),
         stage[c] # "off" => /\ clients'[c].used /\ clients'[c].fd = "open"
                             /\ clients'[c].rx \in {"recv", "joined"},
         clients'[c].rx = "none" => clients[c].rx = "none",
         clients'[c].rx = "recv" => clients[c].rx \in {"none", "recv"},
         clients'[c].fd = "open" => clients[c].fd = "open" \/ clients[c].rx = "none"
  PROVE  Settled
BY DEF Structural, Online, Settled, Only

LEMMA TakeDeadTypes ==
  ASSUME LifeTypes, NEW a \in Actors, TakeDead(a)
  PROVE  deadList' \in Seq(Clients) /\ ending' \in [Actors -> Clients \cup {NoClient}]
<1>1. /\ deadList \in Seq(Clients) /\ deadList # <<>> /\ deadList' = Tail(deadList)
      /\ ending' = [ending EXCEPT ![a] = Head(deadList)]
      /\ ending \in [Actors -> Clients \cup {NoClient}]
  BY DEF TakeDead, LifeTypes
<1>2. Head(deadList) \in Clients /\ deadList' \in Seq(Clients)
  BY <1>1
<1> QED
  BY <1>1, <1>2

\* The steps that change no structure.
LEMMA UnmovedStructural ==
  ASSUME Structural, NetStart \/ Stopper \/ AddClient
  PROVE  LifeTypes' /\ Held' /\ Settled
<1>1. UNCHANGED clients
  BY DEF NetStart, Stopper, NetStop, NetStopClose, NetStopList, NetStopDead, AddClient
<1>0. Settled
  BY <1>1, UnmovedSettles
<1>2. CASE NetStart
  <2>1. /\ netUp' = TRUE /\ user' = "up" /\ server' = "top" /\ server = "none"
        /\ UNCHANGED <<newClient, clientList, deadList, ending>>
    BY <1>2 DEF NetStart
  <2> QED
    BY <1>0, <1>1, <2>1 DEF Structural, LifeTypes, Held
<1>3. CASE NetStop
  <2>1. netUp' = FALSE /\ user' = "close" /\ UNCHANGED <<server, newClient, clientList, deadList, ending>>
    BY <1>3 DEF NetStop
  <2> QED
    BY <1>0, <1>1, <2>1 DEF Structural, LifeTypes, Held
<1>4. CASE NetStopClose
  <2>1. /\ user = "close" /\ user' = "list"
        /\ UNCHANGED <<netUp, server, newClient, clientList, deadList, ending>>
    BY <1>4 DEF NetStopClose
  <2> QED
    BY <1>0, <1>1, <2>1 DEF Structural, LifeTypes, Held
<1>5. CASE NetStopList
  <2>1. /\ user = "list" /\ user' \in {"list", "dead"} /\ clientList' \subseteq clientList
        /\ UNCHANGED <<netUp, server, newClient, deadList>>
    BY <1>5 DEF NetStopList
  <2>2. clientList \subseteq Clients /\ ending \in [Actors -> Clients \cup {NoClient}]
    BY DEF Structural, LifeTypes
  <2>3. ending' = ending \/ \E c \in clientList : ending' = [ending EXCEPT ![User] = c]
    BY <1>5 DEF NetStopList
  <2>4. ending' \in [Actors -> Clients \cup {NoClient}]
    BY <2>2, <2>3
  <2> QED
    BY <1>0, <1>1, <2>1, <2>4 DEF Structural, LifeTypes, Held
<1>6. CASE NetStopDead
  <2>1. /\ user = "dead" /\ user' \in {"dead", "off"}
        /\ UNCHANGED <<netUp, server, newClient, clientList>>
    BY <1>6 DEF NetStopDead
  <2>2. deadList' \in Seq(Clients) /\ ending' \in [Actors -> Clients \cup {NoClient}]
    BY <1>6, TakeDeadTypes DEF NetStopDead, Structural, LifeTypes
  <2> QED
    BY <1>0, <1>1, <2>1, <2>2 DEF Structural, LifeTypes, Held
<1>7. CASE AddClient
  <2>1. /\ server = "add" /\ server' = "top" /\ newClient' = NoClient
        /\ clientList' = clientList \cup {newClient}
        /\ UNCHANGED <<netUp, user, deadList, ending>>
    BY <1>7 DEF AddClient
  <2> QED
    BY <1>0, <1>1, <2>1 DEF Structural, LifeTypes, Held
<1> QED
  BY <1>1, <1>2, <1>3, <1>4, <1>5, <1>6, <1>7 DEF Stopper

LEMMA ServerTopStructural ==
  ASSUME Structural, ServerTop
  PROVE  LifeTypes' /\ Held' /\ Settled
<1>1. server = "top" /\ UNCHANGED <<netUp, user, clientList>>
  BY DEF ServerTop
<1>2. CASE TakeDead(Server) /\ UNCHANGED <<server, newClient, clients>>
  <2>1. deadList' \in Seq(Clients) /\ ending' \in [Actors -> Clients \cup {NoClient}]
    BY <1>2, TakeDeadTypes DEF Structural
  <2> QED
    BY <1>1, <1>2, <2>1, UnmovedSettles DEF Structural, LifeTypes, Held
<1>3. CASE server' = "accept" /\ newClient # NoClient /\ UNCHANGED <<deadList, ending, newClient, clients>>
  BY <1>1, <1>3, UnmovedSettles DEF Structural, LifeTypes, Held
<1>4. CASE /\ server' = "accept" /\ newClient = NoClient /\ UNCHANGED <<deadList, ending>>
           /\ \E c \in Clients : /\ ~clients[c].used /\ newClient' = c
                                 /\ clients' = [clients EXCEPT ![c] = Fresh]
  <2>1. PICK c \in Clients : /\ ~clients[c].used /\ newClient' = c
                             /\ clients' = [clients EXCEPT ![c] = Fresh]
    BY <1>4
  <2>2. Only(c) /\ clients'[c] = Fresh
    BY <2>1, StructureMoves, UnusedTypes DEF Structural
  <2>3. clients[c].rx = "none" /\ stage[c] = "off"
    BY <2>1 DEF Structural, Held, Online
  <2>4. Settled
    BY <2>2, <2>3, UnusedTypes, OneSettles
  <2>5. LifeTypes' /\ Held'
    BY <1>1, <1>4, <2>1, <2>2, UnusedTypes DEF Structural, LifeTypes, Held, Only
  <2> QED
    BY <2>4, <2>5
<1> QED
  BY <1>2, <1>3, <1>4 DEF ServerTop

\* The steps that change the structure the server thread works on.
LEMMA NewClientStructural ==
  ASSUME Structural, Accept \/ Filter \/ StartRx \/ StartWorkers \/ ServerStops
  PROVE  LifeTypes' /\ Held' /\ Settled
<1>1. /\ UNCHANGED <<netUp, user, clientList, deadList, ending>>
      /\ server \in {"accept", "filter", "start", "workers", "stop", "top"}
  BY DEF Accept, Filter, StartRx, StartWorkers, ServerStops
<1>2. CASE UNCHANGED clients
  <2>1. newClient' \in {newClient, NoClient}
    BY DEF Accept, Filter, StartRx, StartWorkers, ServerStops
  <2>2. Held'
    BY <1>2, <2>1 DEF Accept, Filter, StartRx, StartWorkers, ServerStops, Structural, Held
  <2> QED
    BY <1>1, <1>2, <2>1, <2>2, UnmovedSettles DEF Structural, LifeTypes
<1>3. CASE clients' # clients
  <2>1. newClient # NoClient
    BY <1>3 DEF Accept, Filter, StartRx, StartWorkers, ServerStops, Structural, Held
  <2>2. PICK c \in Clients : c = newClient
    BY <2>1 DEF Structural, LifeTypes
  <2>3. CASE Accept \/ Filter
    <3>1. \E x \in {"open", "closed"} : clients' = [clients EXCEPT ![c].fd = x]
      BY <1>3, <2>2, <2>3 DEF Accept, Filter
    <3>2. /\ server \in {"accept", "filter"} /\ server' \in {"filter", "stop", "top"}
          /\ UNCHANGED newClient
      BY <1>3, <2>3 DEF Accept, Filter
    <3>3. clients[c].used /\ clients[c].rx = "none" /\ stage[c] = "off"
      BY <2>1, <2>2, <3>2 DEF Structural, Held, Online
    <3>4. Only(c) /\ clients'[c].rx = "none" /\ clients'[c].used
      BY <3>1, <3>3, FdMoves DEF Structural
    <3>5. Settled
      BY <3>3, <3>4, OneSettles
    <3>6. LifeTypes' /\ Held'
      BY <1>1, <2>2, <3>2, <3>3, <3>4 DEF Structural, LifeTypes, Held, Only
    <3> QED
      BY <3>5, <3>6
  <2>4. CASE StartRx
    <3>1. /\ clients' = [clients EXCEPT ![c].rx = "recv"]
          /\ server = "start" /\ server' = "workers" /\ UNCHANGED newClient
      BY <2>2, <2>4 DEF StartRx
    <3>2. clients[c].used /\ clients[c].rx = "none" /\ stage[c] = "off"
      BY <2>1, <2>2, <3>1 DEF Structural, Held, Online
    <3>3. Only(c) /\ clients'[c].rx = "recv" /\ clients'[c].used
      <4>1. "recv" \in RxPlaces
        BY DEF RxPlaces
      <4> QED
        BY <3>1, <3>2, <4>1, RxMoves DEF Structural
    <3>4. Settled
      BY <3>2, <3>3, OneSettles
    <3>5. LifeTypes' /\ Held'
      BY <1>1, <2>2, <3>1, <3>2, <3>3 DEF Structural, LifeTypes, Held, Only
    <3> QED
      BY <3>4, <3>5
  <2>5. CASE StartWorkers
    <3> DEFINE r == [clients[c] EXCEPT !.workers = Workers]
    <3>1. /\ clients' = [clients EXCEPT ![c].workers = Workers]
          /\ server = "workers" /\ server' = "add" /\ UNCHANGED newClient
      BY <2>2, <2>5 DEF StartWorkers
    <3>2. clients \in [Clients -> Structures] /\ clients[c] \in Structures
      BY DEF Structural, LifeTypes
    <3>3. /\ r \in Structures /\ r.rx = clients[c].rx /\ r.used = clients[c].used
          /\ r.fd = clients[c].fd
      BY <3>2 DEF Structures
    <3>4. clients' = [clients EXCEPT ![c] = r]
      BY <3>1, <3>2
    <3> HIDE DEF r
    <3>5. Only(c) /\ clients'[c] = r
      BY <3>3, <3>4, StructureMoves DEF Structural
    <3>6. Settled
      BY <3>3, <3>5, OneSettles DEF Structural, Online
    <3>7. LifeTypes' /\ Held'
      BY <1>1, <2>2, <3>1, <3>3, <3>5 DEF Structural, LifeTypes, Held, Only
    <3> QED
      BY <3>6, <3>7
  <2>6. CASE ServerStops
    <3>1. /\ clients' = [clients EXCEPT ![c] = Unused]
          /\ server \in {"stop", "top"} /\ server' \in {"top", "none"} /\ newClient' = NoClient
      BY <2>1, <2>2, <2>6 DEF ServerStops
    <3>2. clients[c].rx = "none" /\ stage[c] = "off"
      BY <2>1, <2>2, <3>1 DEF Structural, Held, Online
    <3>3. Only(c) /\ clients'[c] = Unused
      BY <3>1, StructureMoves, UnusedTypes DEF Structural
    <3>4. Settled
      BY <3>2, <3>3, UnusedTypes, OneSettles DEF Unused
    <3>5. LifeTypes' /\ Held'
      BY <1>1, <3>1, <3>3, UnusedTypes DEF Structural, LifeTypes, Held, Only
    <3> QED
      BY <3>4, <3>5
  <2> QED
    BY <2>3, <2>4, <2>5, <2>6
<1> QED
  BY <1>2, <1>3

\* The steps of a receive thread that takes its client down.
LEMMA DownStructural ==
  ASSUME Structural, NEW c \in Clients,
         RxDead(c) \/ RxWorkers(c) \/ RxClose(c) \/ RxConnections(c) \/ Eof(c)
  PROVE  LifeTypes' /\ Held' /\ Settled
<1>1. /\ UNCHANGED <<netUp, user, server, newClient>> /\ clientList' \subseteq clientList
      /\ clients[c].rx \in Leaving \cup {"dead", "recv"}
  BY DEF RxDead, RxWorkers, RxClose, RxConnections, Eof, Leaving
<1>2. deadList' \in Seq(Clients) /\ ending' \in [Actors -> Clients \cup {NoClient}]
  <2>1. CASE RxDead(c)
    <3>1. /\ deadList \in Seq(Clients) /\ ending \in [Actors -> Clients \cup {NoClient}]
          /\ Append(deadList, c) \in Seq(Clients)
      BY DEF Structural, LifeTypes
    <3>2. TakeDead(c) \/ (deadList' = Append(deadList, c) /\ UNCHANGED ending)
      BY <2>1 DEF RxDead
    <3> QED
      BY <3>1, <3>2, TakeDeadTypes DEF Structural
  <2>2. CASE RxWorkers(c) \/ RxClose(c) \/ RxConnections(c) \/ Eof(c)
    BY <2>2 DEF RxWorkers, RxClose, RxConnections, Eof, Structural, LifeTypes
  <2> QED
    BY <2>1, <2>2
<1>3. stage[c] = "off"
  BY DEF RxDead, RxWorkers, RxClose, RxConnections, Eof, Structural, Online
<1>4. CASE UNCHANGED clients
  BY <1>1, <1>2, <1>4, UnmovedSettles DEF Structural, LifeTypes, Held
<1>5. CASE clients' # clients
  <2>1. PICK r \in Structures :
          /\ clients' = [clients EXCEPT ![c] = r]
          /\ r.rx \in Leaving \cup {"dead"} /\ r.used = clients[c].used
          /\ r.fd \in {clients[c].fd, "closed"}
    <3> DEFINE st == clients[c]
    <3>1. clients \in [Clients -> Structures] /\ st \in Structures
      BY DEF Structural, LifeTypes
    <3>2. CASE RxDead(c)
      <4> DEFINE r == [st EXCEPT !.rx = "workers"]
      <4>1. clients' = [clients EXCEPT ![c] = r]
        BY <1>5, <3>1, <3>2 DEF RxDead
      <4>2. r \in Structures /\ r.rx = "workers" /\ r.used = st.used /\ r.fd = st.fd
        BY <3>1 DEF Structures, RxPlaces, Leaving
      <4> QED
        BY <4>1, <4>2 DEF Leaving
    <3>3. CASE RxWorkers(c)
      <4> DEFINE r == [st EXCEPT !.workers = {}, !.rx = "close"]
      <4>1. clients' = [clients EXCEPT ![c] = r]
        BY <3>1, <3>3 DEF RxWorkers
      <4>2. r \in Structures /\ r.rx = "close" /\ r.used = st.used /\ r.fd = st.fd
        BY <3>1 DEF Structures, RxPlaces, Leaving
      <4> QED
        BY <4>1, <4>2 DEF Leaving
    <3>4. CASE RxClose(c)
      <4> DEFINE r == [st EXCEPT !.fd = "closed", !.rx = "connections"]
      <4>1. clients' = [clients EXCEPT ![c] = r]
        BY <3>1, <3>4 DEF RxClose
      <4>2. r \in Structures /\ r.rx = "connections" /\ r.used = st.used /\ r.fd = "closed"
        BY <3>1 DEF Structures, RxPlaces, Leaving
      <4> QED
        BY <4>1, <4>2 DEF Leaving
    <3>5. CASE RxConnections(c)
      <4> DEFINE r == [st EXCEPT !.rx = "done"]
      <4>1. clients' = [clients EXCEPT ![c] = r]
        BY <3>1, <3>5 DEF RxConnections
      <4>2. r \in Structures /\ r.rx = "done" /\ r.used = st.used /\ r.fd = st.fd
        BY <3>1 DEF Structures, RxPlaces, Leaving
      <4> QED
        BY <4>1, <4>2 DEF Leaving
    <3>6. CASE Eof(c)
      <4> DEFINE r == [st EXCEPT !.rx = "dead"]
      <4>1. clients' = [clients EXCEPT ![c] = r]
        BY <3>1, <3>6 DEF Eof
      <4>2. r \in Structures /\ r.rx = "dead" /\ r.used = st.used /\ r.fd = st.fd
        BY <3>1 DEF Structures, RxPlaces, Leaving
      <4> QED
        BY <4>1, <4>2
    <3> QED
      BY <3>2, <3>3, <3>4, <3>5, <3>6
  <2>2. Only(c) /\ clients'[c] = r
    BY <2>1, StructureMoves DEF Structural
  <2>3. clients[c].used /\ (server \notin {"workers", "add"} => c # newClient)
    BY <1>1 DEF Structural, Held, LifeTypes, Leaving
  <2>4. Settled
    BY <1>3, <2>1, <2>2, OneSettles DEF Leaving
  <2>5. LifeTypes' /\ Held'
    BY <1>1, <1>2, <2>1, <2>2, <2>3 DEF Structural, LifeTypes, Held, Only
  <2> QED
    BY <2>4, <2>5
<1> QED
  BY <1>4, <1>5

LEMMA JoinStructural ==
  ASSUME Structural, NEW a \in Actors, JoinRx(a)
  PROVE  LifeTypes' /\ Held' /\ Settled
<1>1. PICK c \in Clients : c = ending[a]
  BY DEF JoinRx, Structural, LifeTypes
<1>2. /\ UNCHANGED <<netUp, user, server, newClient, clientList, deadList>>
      /\ ending' \in [Actors -> Clients \cup {NoClient}]
  BY <1>1 DEF JoinRx, Structural, LifeTypes
<1>3. CASE ~clients[c].used
  <2>1. UNCHANGED clients
    BY <1>1, <1>3 DEF JoinRx
  <2> QED
    BY <1>2, <2>1, UnmovedSettles DEF Structural, LifeTypes, Held
<1>4. CASE clients[c].used
  <2> DEFINE r == [clients[c] EXCEPT !.rx = "joined"]
  <2>1. clients \in [Clients -> Structures] /\ clients[c] \in Structures
    BY DEF Structural, LifeTypes
  <2>2. /\ r \in Structures /\ r.rx = "joined" /\ r.used = clients[c].used /\ r.fd = clients[c].fd
    BY <2>1 DEF Structures, RxPlaces
  <2>3. clients' = [clients EXCEPT ![c] = r] /\ clients[c].rx # "none"
    BY <1>1, <1>4, <2>1 DEF JoinRx, Cancellable
  <2> HIDE DEF r
  <2>4. Only(c) /\ clients'[c] = r
    BY <2>2, <2>3, StructureMoves DEF Structural
  <2>5. server \notin {"workers", "add"} => c # newClient
    BY <2>3 DEF Structural, Held, LifeTypes
  <2>6. Settled
    BY <1>4, <2>2, <2>4, OneSettles DEF Structural, Online
  <2>7. LifeTypes' /\ Held'
    BY <1>2, <1>4, <2>2, <2>4, <2>5 DEF Structural, LifeTypes, Held, Only
  <2> QED
    BY <2>6, <2>7
<1> QED
  BY <1>3, <1>4

LEMMA ServerStepStructural ==
  ASSUME Structural, ServerStep
  PROVE  LifeTypes' /\ Held' /\ Settled
BY UnmovedStructural, ServerTopStructural, NewClientStructural, DownStructural, JoinStructural
   DEF ServerStep, ServerThread

LEMMA LeaveStructural ==
  ASSUME Structural, NEW c \in Clients, Leave(c)
  PROVE  /\ LifeTypes' /\ Held' /\ Only(c)
         /\ clients'[c].fd = "eof" /\ clients'[c].rx = clients[c].rx /\ clients[c].rx # "none"
<1> DEFINE r == [clients[c] EXCEPT !.fd = "eof"]
<1>1. clients \in [Clients -> Structures] /\ clients[c] \in Structures
  BY DEF Structural, LifeTypes
<1>2. r \in Structures /\ r.rx = clients[c].rx /\ r.used = clients[c].used /\ r.fd = "eof"
  BY <1>1 DEF Structures
<1>3. /\ clients' = [clients EXCEPT ![c] = r] /\ clients[c].rx # "none"
      /\ UNCHANGED <<netUp, user, server, newClient, clientList, deadList, ending>>
  BY <1>1 DEF Leave
<1> HIDE DEF r
<1>4. Only(c) /\ clients'[c] = r
  BY <1>2, <1>3, StructureMoves DEF Structural
<1>5. LifeTypes' /\ Held'
  BY <1>2, <1>3, <1>4 DEF Structural, LifeTypes, Held, Only
<1> QED
  BY <1>2, <1>3, <1>4, <1>5

LEMMA EndStructural ==
  ASSUME Structural, NEW a \in Actors, EndClient(a)
  PROVE  /\ ending[a] \in Clients /\ LifeTypes' /\ Held'
         /\ \A d \in Clients \ {ending[a]} : clients'[d] = clients[d]
<1>1. PICK c \in Clients : c = ending[a]
  BY DEF EndClient, Structural, LifeTypes
<1>2. /\ UNCHANGED <<netUp, user, server, newClient, clientList, deadList>>
      /\ ending' \in [Actors -> Clients \cup {NoClient}]
      /\ clients' = [clients EXCEPT ![c] = Unused] /\ clients[c].rx = "joined"
  BY <1>1 DEF EndClient, Structural, LifeTypes
<1>3. Only(c) /\ clients'[c] = Unused
  BY <1>2, StructureMoves, UnusedTypes DEF Structural
<1>4. server \notin {"workers", "add"} => c # newClient
  BY <1>2 DEF Structural, Held, LifeTypes
<1>5. LifeTypes' /\ Held'
  BY <1>2, <1>3, <1>4, UnusedTypes DEF Structural, LifeTypes, Held, Only
<1> QED
  BY <1>1, <1>3, <1>5 DEF Only

HIDE DEF NetAssumption, Actors

-----------------------------------------------------------------------------
(***************************************************************************)
(* A stream: the program's side, the server's, and what is between them.     *)
(***************************************************************************)
Stream(c) ==
  [who |-> c, stage |-> stage[c], call |-> call[c], cons |-> cons[c], packets |-> packets[c],
   toServer |-> toServer[c], toClient |-> toClient[c], inbox |-> inbox[c],
   served |-> ServedFor(c), reads |-> clients[c].rx = "recv"]

Connections == [type : TypeNumbers, address : Addresses, id : Nat]
Unread == [e \in EndpointNames |-> <<>>]
IsSeq(s) == Len(s) \in Nat /\ s = [i \in 1..Len(s) |-> s[i]]

\* The server has made the connection.
Known(p, con) ==
  [client |-> p.who, type |-> con.type, address |-> con.address, id |-> con.id] \in p.served

\* What a frame of a front channel is meant for.
MeantFor(f) == [type |-> f.for.type, address |-> f.for.address, id |-> f.con]
Message(p, f) ==
  /\ f = FrontFrame(FrontId(f.for.type), f.con, [type |-> f.for.type, address |-> f.for.address])
  /\ MeantFor(f) \in Connections /\ f.for.type # 1
  /\ p.reads => Known(p, MeantFor(f))
Packet(f) ==
  /\ f = FrontFrame(ServerFrontId(f.for.type), f.con,
                    [type |-> f.for.type, address |-> f.for.address])
  /\ MeantFor(f) \in Connections

\* A call and what is left of it.
Steps ==
  { <<"start", <<"start", "conGetTypes">> >>, <<"start", <<"conGetTypes">> >>,
    <<"new", <<"conNew">> >>, <<"validate", <<"conValidate">> >>,
    <<"tx", <<"conValidate", "data">> >>,
    <<"settings", <<"conValidate", "conSettings">> >>, <<"settings", <<"conSettings">> >>,
    <<"end", <<"conEnd">> >> }
  \cup {<<op, todo>> : op \in {"sleep", "wake", "sleepGet"},
                       todo \in {<<"conValidate", "conSleep">>, <<"conSleep">>}}

CallOK(p, k) ==
  /\ k = [op |-> k.op, con |-> k.con, todo |-> k.todo, at |-> k.at, ret |-> k.ret]
  /\ <<k.op, k.todo>> \in Steps
  /\ k.at \in {"wait", "read", "fail"}
  /\ k.op # "start" => k.con \in Connections
  /\ k.op \notin {"start", "new"} => Known(p, k.con)
  /\ k.op = "tx" => k.con.type # 1

TheRequest(k) == Request(Head(k.todo), Argument(k))

\* What an answer says: the identifier of the connection that was made.
Says(p, data) ==
  Head(p.call.todo) = "conNew" /\ data # NoData =>
    data = <<data[1]>> /\ data[1] \in Nat /\ Known(p, [p.call.con EXCEPT !.id = data[1]])

TheAnswer(p, f) ==
  f.kind = "answer" /\ f.ep = Head(p.call.todo) /\ ~f.late /\ Says(p, f.data)

\* Where the one request or answer of a call is.
NoRequest(p) == \A i \in DOMAIN p.toServer : p.toServer[i].kind # "request"
NoAnswer(p) == \A i \in DOMAIN p.toClient : p.toClient[i].kind # "answer"

Idle(p) == NoRequest(p) /\ p.inbox = <<>> /\ NoAnswer(p) /\ p.packets = Unread
RequestGoes(p) ==
  /\ p.call.at = "wait" /\ p.inbox = <<>> /\ NoAnswer(p) /\ p.packets = Unread
  /\ \E i \in DOMAIN p.toServer :
       /\ p.toServer[i] = TheRequest(p.call)
       /\ \A j \in DOMAIN p.toServer : j # i => p.toServer[j].kind # "request"
RequestThere(p) ==
  /\ p.call.at = "wait" /\ NoRequest(p) /\ NoAnswer(p) /\ p.packets = Unread
  /\ p.inbox = <<TheRequest(p.call)>>
AnswerComes(p) ==
  /\ p.call.at = "wait" /\ NoRequest(p) /\ p.inbox = <<>> /\ p.packets = Unread
  /\ \E i \in DOMAIN p.toClient :
       /\ TheAnswer(p, p.toClient[i])
       /\ \A j \in DOMAIN p.toClient : j # i => p.toClient[j].kind # "answer"
AnswerThere(p) ==
  /\ p.call.at \in {"read", "fail"} /\ NoRequest(p) /\ p.inbox = <<>> /\ NoAnswer(p)
  /\ LET e == Head(p.call.todo) IN
       /\ p.packets = [Unread EXCEPT ![e] = <<p.packets[e][1]>>]
       /\ Says(p, p.packets[e][1])

\* What the program knows and what devices send it.
Heard(p) ==
  /\ \A con \in p.cons : con \in Connections /\ Known(p, con)
  /\ \A s \in p.served : s.type \in TypeNumbers /\ s.address \in Addresses
  /\ IsSeq(p.toClient)
  /\ \A i \in DOMAIN p.toClient : p.toClient[i].kind # "answer" => Packet(p.toClient[i])

Talking(p) ==
  /\ Heard(p)
  /\ p.call # NoCall => CallOK(p, p.call)
  /\ Idle(p) \/ RequestGoes(p) \/ RequestThere(p) \/ AnswerComes(p) \/ AnswerThere(p)

Sent(p) ==
  /\ IsSeq(p.toServer)
  /\ \A i \in DOMAIN p.toServer : p.toServer[i].kind # "request" => Message(p, p.toServer[i])

\* The stream of a program none of whose calls gave up.
InTime(p) == Sent(p) /\ (p.stage # "off" => Talking(p))

\* A program without a stream, and a stream nobody has spoken on.
Off(p) == p.call = NoCall /\ p.cons = {} /\ p.toClient = <<>> /\ p.packets = Unread
Quiet(p) == Off(p) /\ p.toServer = <<>> /\ p.inbox = <<>> /\ p.served = {}

StreamOK(c) ==
  /\ stage[c] = "off" => Off(Stream(c))
  /\ stage[c] = "off" /\ (clients[c].rx = "none" \/ clients[c].fd = "open") => Quiet(Stream(c))
  /\ lates[c] = 0 => InTime(Stream(c))

Streams == \A c \in Clients : StreamOK(c)

\* The server's connections have identifiers of their own.
Identified ==
  /\ IsFiniteSet(served)
  /\ \A s \in served :
       /\ s = [client |-> s.client, type |-> s.type, address |-> s.address, id |-> s.id]
       /\ s.client \in Clients /\ s.id \in Nat
  /\ \A s, t \in served : s.type = t.type /\ s.id = t.id => s = t

Domains ==
  /\ DOMAIN stage = Clients /\ DOMAIN call = Clients /\ DOMAIN cons = Clients
  /\ DOMAIN packets = Clients /\ DOMAIN toServer = Clients /\ DOMAIN toClient = Clients
  /\ DOMAIN inbox = Clients /\ lates \in [Clients -> Nat]

Arrived == \A c \in Clients : lates[c] = 0 /\ relayed.client = c => relayed.got = relayed.sent

MeetInv == Structural /\ Domains /\ Identified /\ Streams /\ Arrived


-----------------------------------------------------------------------------
LEMMA SeqIn ==
  ASSUME NEW s, IsSeq(s)
  PROVE  \E S : s \in Seq(S)
<1>1. s \in Seq({s[i] : i \in 1..Len(s)})
  BY DEF IsSeq
<1> QED
  BY <1>1

LEMMA SeqIsSeq ==
  ASSUME NEW S, NEW s \in Seq(S)
  PROVE  IsSeq(s)
<1>1. Len(s) \in Nat /\ s \in [1..Len(s) -> S]
  OBVIOUS
<1> QED
  BY <1>1 DEF IsSeq

LEMMA EmptyIsSeq ==
  ASSUME NEW s, s = <<>>
  PROVE  IsSeq(s)
<1>1. s \in Seq({})
  OBVIOUS
<1> QED
  BY <1>1, SeqIsSeq

LEMMA Appended ==
  ASSUME NEW s, IsSeq(s), NEW x
  PROVE  /\ IsSeq(Append(s, x))
         /\ DOMAIN Append(s, x) = 1..(Len(s) + 1) /\ DOMAIN s = 1..Len(s) /\ Len(s) \in Nat
         /\ Append(s, x)[Len(s) + 1] = x
         /\ \A i \in DOMAIN s : Append(s, x)[i] = s[i]
<1>1. PICK S : s \in Seq(S)
  BY SeqIn
<1>2. s \in Seq(S \cup {x})
  BY <1>1
<1> DEFINE t == Append(s, x)
<1>3. /\ t \in Seq(S \cup {x}) /\ Len(t) = Len(s) + 1 /\ t[Len(s) + 1] = x
      /\ \A i \in 1..Len(s) : t[i] = s[i]
  BY <1>2
<1>4. IsSeq(t)
  BY <1>3, SeqIsSeq
<1> QED
  BY <1>2, <1>3, <1>4

LEMMA Taken ==
  ASSUME NEW s, IsSeq(s), s # <<>>
  PROVE  /\ IsSeq(Tail(s)) /\ Head(s) = s[1] /\ 1 \in DOMAIN s
         /\ DOMAIN s = 1..Len(s) /\ DOMAIN Tail(s) = 1..(Len(s) - 1)
         /\ Len(s) \in Nat /\ Len(s) > 0
         /\ \A i \in DOMAIN Tail(s) : i + 1 \in DOMAIN s /\ Tail(s)[i] = s[i + 1]
         /\ \A i \in DOMAIN s : i # 1 => i - 1 \in DOMAIN Tail(s) /\ Tail(s)[i - 1] = s[i]
<1>1. PICK S : s \in Seq(S)
  BY SeqIn
<1> DEFINE t == Tail(s)
<1>2. /\ t \in Seq(S) /\ Len(t) = Len(s) - 1 /\ Len(s) \in Nat /\ Len(s) > 0
      /\ \A i \in 1..(Len(s) - 1) : t[i] = s[i + 1]
  BY <1>1
<1>3. IsSeq(t)
  BY <1>2, SeqIsSeq
<1> QED
  BY <1>1, <1>2, <1>3

-----------------------------------------------------------------------------
(*****************************************************************************)
(* What a step of the program or the server does to one stream.              *)
(*****************************************************************************)
LEMMA EndpointMembers ==
  EndpointNames = {"start", "conValidate", "conSleep", "conSettings", "conNew", "conEnd",
                   "conGetTypes", "echo"}
<1>1. DOMAIN Endpoints = 1..8 /\ Len(Endpoints) = 8
  BY DEF Endpoints
<1>2. 1..8 = {1, 2, 3, 4, 5, 6, 7, 8}
  OBVIOUS
<1> QED
  BY <1>1, <1>2 DEF EndpointNames, Endpoints

LEMMA StepFacts ==
  ASSUME NEW op, NEW todo, <<op, todo>> \in Steps
  PROVE  /\ Head(todo) \in EndpointNames /\ Head(todo) # "data"
         /\ Head(todo) = "conNew" => op = "new" /\ Len(todo) = 1
         /\ Head(todo) = "conEnd" => op = "end"
         /\ Len(todo) # 1 => \/ op = "tx" /\ Head(Tail(todo)) = "data"
                             \/ <<op, Tail(todo)>> \in Steps
<1>1. CASE todo = <<"start", "conGetTypes">> /\ op = "start"
  <2>1. Head(todo) = "start" /\ Tail(todo) = <<"conGetTypes">>
    BY <1>1
  <2> QED
    BY <1>1, <2>1, EndpointMembers DEF Steps
<1>2. CASE todo = <<"conValidate", "data">> /\ op = "tx"
  <2>1. Head(todo) = "conValidate" /\ Head(Tail(todo)) = "data"
    BY <1>2
  <2> QED
    BY <1>2, <2>1, EndpointMembers
<1>3. CASE todo = <<"conValidate", "conSleep">> /\ op \in {"sleep", "wake", "sleepGet"}
  <2>1. Head(todo) = "conValidate" /\ Tail(todo) = <<"conSleep">>
    BY <1>3
  <2> QED
    BY <1>3, <2>1, EndpointMembers DEF Steps
<1>4. CASE todo = <<"conValidate", "conSettings">> /\ op = "settings"
  <2>1. Head(todo) = "conValidate" /\ Tail(todo) = <<"conSettings">>
    BY <1>4
  <2> QED
    BY <1>4, <2>1, EndpointMembers DEF Steps
<1>5. CASE \E e \in {"conGetTypes", "conNew", "conValidate", "conSettings", "conEnd", "conSleep"} :
             todo = <<e>> /\ (e = "conNew" => op = "new") /\ (e = "conEnd" => op = "end")
  <2>1. PICK e \in {"conGetTypes", "conNew", "conValidate", "conSettings", "conEnd", "conSleep"} :
             todo = <<e>> /\ (e = "conNew" => op = "new") /\ (e = "conEnd" => op = "end")
    BY <1>5
  <2>2. Head(todo) = e /\ Len(todo) = 1 /\ e \in EndpointNames /\ e # "data"
    BY <2>1, EndpointMembers
  <2> QED
    BY <2>1, <2>2
<1> QED
  BY <1>1, <1>2, <1>3, <1>4, <1>5 DEF Steps

LEMMA RequestSteps ==
  ASSUME NEW op \in ProgramCalls \cup {"start"}
  PROVE  <<op, Requests[op]>> \in Steps
BY DEF Steps, Requests, ProgramCalls

LEMMA KnownGrows ==
  ASSUME NEW p, NEW q, q.who = p.who, p.served \subseteq q.served
  PROVE  /\ \A con : Known(p, con) => Known(q, con)
         /\ \A k : CallOK(p, k) => CallOK(q, k)
         /\ (q.reads => p.reads) => \A f : Message(p, f) => Message(q, f)
         /\ q.call = p.call => \A data : Says(p, data) => Says(q, data)
         /\ q.call = p.call => \A f : TheAnswer(p, f) => TheAnswer(q, f)
<1>1. \A con : Known(p, con) => Known(q, con)
  BY DEF Known
<1>2. \A k : CallOK(p, k) => CallOK(q, k)
  BY <1>1 DEF CallOK
<1>3. (q.reads => p.reads) => \A f : Message(p, f) => Message(q, f)
  BY <1>1 DEF Message
<1>4. q.call = p.call => \A data : Says(p, data) => Says(q, data)
  BY <1>1 DEF Says
<1>5. q.call = p.call => \A f : TheAnswer(p, f) => TheAnswer(q, f)
  BY <1>4 DEF TheAnswer
<1> QED
  BY <1>1, <1>2, <1>3, <1>4, <1>5

\* Nothing of the stream changes but whether the server reads it.
LEMMA InTimeKept ==
  ASSUME NEW p, NEW q, InTime(p),
         q.who = p.who, q.stage = p.stage, q.call = p.call, q.cons = p.cons,
         q.packets = p.packets, q.toServer = p.toServer, q.toClient = p.toClient,
         q.inbox = p.inbox, q.served = p.served,
         q.reads => p.reads \/ p.toServer = <<>>
  PROVE  InTime(q)
<1>1. Sent(q)
  <2>1. IsSeq(q.toServer)
    BY DEF InTime, Sent
  <2>2. CASE q.reads => p.reads
    BY <2>1, <2>2, KnownGrows DEF InTime, Sent
  <2>3. CASE p.toServer = <<>>
    BY <2>1, <2>3 DEF Sent
  <2> QED
    BY <2>2, <2>3
<1>2. ASSUME q.stage # "off" PROVE Talking(q)
  <2>1. Talking(p)
    BY <1>2 DEF InTime
  <2>2. Heard(q) /\ (q.call # NoCall => CallOK(q, q.call))
    BY <2>1, KnownGrows DEF Talking, Heard
  <2>3. (Idle(p) => Idle(q)) /\ (RequestGoes(p) => RequestGoes(q))
        /\ (RequestThere(p) => RequestThere(q))
    BY DEF Idle, RequestGoes, RequestThere, NoRequest, NoAnswer
  <2>4. AnswerComes(p) => AnswerComes(q)
    BY KnownGrows DEF AnswerComes, NoRequest
  <2>5. AnswerThere(p) => AnswerThere(q)
    BY KnownGrows DEF AnswerThere, NoRequest, NoAnswer
  <2> QED
    BY <2>1, <2>2, <2>3, <2>4, <2>5 DEF Talking
<1> QED
  BY <1>1, <1>2 DEF InTime

\* A frame is put into the stream to the server, and one is taken from it.
LEMMA SendsFrame ==
  ASSUME NEW p, NEW q, NEW f, Sent(p), q.toServer = Append(p.toServer, f),
         q.who = p.who, q.served = p.served, q.reads => p.reads,
         f.kind # "request" => Message(q, f)
  PROVE  /\ Sent(q)
         /\ DOMAIN q.toServer = 1..(Len(p.toServer) + 1) /\ DOMAIN p.toServer = 1..Len(p.toServer)
         /\ Len(p.toServer) \in Nat
         /\ q.toServer[Len(p.toServer) + 1] = f
         /\ \A i \in DOMAIN p.toServer : q.toServer[i] = p.toServer[i]
<1>1. IsSeq(p.toServer)
  BY DEF Sent
<1> DEFINE s == p.toServer
           t == q.toServer
<1>2. /\ IsSeq(t) /\ DOMAIN t = 1..(Len(s) + 1) /\ DOMAIN s = 1..Len(s) /\ Len(s) \in Nat
      /\ t[Len(s) + 1] = f /\ \A i \in DOMAIN s : t[i] = s[i]
  BY <1>1, Appended
<1>3. \A i \in DOMAIN t : t[i].kind # "request" => Message(q, t[i])
  <2> SUFFICES ASSUME NEW i \in DOMAIN t, t[i].kind # "request" PROVE Message(q, t[i])
    OBVIOUS
  <2>1. CASE i = Len(s) + 1
    BY <1>2, <2>1
  <2>2. CASE i # Len(s) + 1
    <3>1. i \in DOMAIN s /\ t[i] = s[i]
      BY <1>2, <2>2
    <3> QED
      BY <3>1, KnownGrows DEF Sent
  <2> QED
    BY <2>1, <2>2
<1> QED
  BY <1>2, <1>3 DEF Sent

LEMMA TakesFrame ==
  ASSUME NEW p, NEW q, Sent(p), p.toServer # <<>>, q.toServer = Tail(p.toServer),
         q.who = p.who, q.served = p.served, q.reads => p.reads
  PROVE  Sent(q)
<1>1. IsSeq(p.toServer)
  BY DEF Sent
<1>2. /\ IsSeq(q.toServer)
      /\ \A i \in DOMAIN q.toServer :
           i + 1 \in DOMAIN p.toServer /\ q.toServer[i] = p.toServer[i + 1]
  BY <1>1, Taken
<1> QED
  BY <1>2, KnownGrows DEF Sent

\* A call's first or next request, or its message, when nothing else is under way.
LEMMA SendsRequest ==
  ASSUME NEW p, NEW q, NEW k, Sent(p), NoRequest(p), Heard(q),
         q.who = p.who, q.served = p.served, q.reads => p.reads,
         q.inbox = <<>>, NoAnswer(q), q.packets = Unread,
         CallOK(q, k), k.at = "wait", q.call = k, q.toServer = Append(p.toServer, TheRequest(k))
  PROVE  InTime(q)
<1> DEFINE r == TheRequest(k)
<1>1. r.kind = "request"
  BY DEF TheRequest, Request
<1>2. /\ Sent(q)
      /\ DOMAIN q.toServer = 1..(Len(p.toServer) + 1) /\ DOMAIN p.toServer = 1..Len(p.toServer)
      /\ Len(p.toServer) \in Nat
      /\ q.toServer[Len(p.toServer) + 1] = r
      /\ \A i \in DOMAIN p.toServer : q.toServer[i] = p.toServer[i]
  <2> HIDE DEF r
  <2> QED
    BY <1>1, SendsFrame DEF r
<1> HIDE DEF r
<1>3. RequestGoes(q)
  <2>1. \A j \in DOMAIN q.toServer : j # Len(p.toServer) + 1 => q.toServer[j].kind # "request"
    BY <1>2 DEF NoRequest
  <2> QED
    BY <1>2, <2>1 DEF RequestGoes, r
<1> QED
  BY <1>2, <1>3 DEF InTime, Talking

LEMMA SendsMessage ==
  ASSUME NEW p, NEW q, NEW con, Sent(p), NoRequest(p), Heard(q),
         q.who = p.who, q.served = p.served, q.reads => p.reads,
         q.inbox = <<>>, NoAnswer(q), q.packets = Unread, q.call = NoCall,
         con \in Connections, Known(q, con), con.type # 1,
         q.toServer = Append(p.toServer, FrontFrame(FrontId(con.type), con.id,
                                           [type |-> con.type, address |-> con.address]))
  PROVE  InTime(q)
<1> DEFINE for == [type |-> con.type, address |-> con.address]
           f == FrontFrame(FrontId(con.type), con.id, for)
<1>1. MeantFor(f) = con /\ f.kind = "front" /\ f.for = for /\ f.con = con.id
  BY DEF MeantFor, FrontFrame, Connections
<1>2. Message(q, f)
  BY <1>1 DEF Message
<1> HIDE DEF f
<1>3. /\ Sent(q)
      /\ DOMAIN q.toServer = 1..(Len(p.toServer) + 1) /\ DOMAIN p.toServer = 1..Len(p.toServer)
      /\ Len(p.toServer) \in Nat
      /\ q.toServer[Len(p.toServer) + 1] = f
      /\ \A i \in DOMAIN p.toServer : q.toServer[i] = p.toServer[i]
  BY <1>2, SendsFrame DEF f
<1>4. NoRequest(q)
  BY <1>1, <1>3 DEF NoRequest
<1> QED
  BY <1>3, <1>4 DEF InTime, Talking, Idle

\* The call of a program is over, or its next request is none.
LEMMA EndsCall ==
  ASSUME NEW p, NEW q, Sent(p), NoRequest(p), Heard(q),
         q.who = p.who, q.served = p.served, q.reads => p.reads,
         q.inbox = <<>>, NoAnswer(q), q.packets = Unread, q.toServer = p.toServer,
         q.call # NoCall => CallOK(q, q.call)
  PROVE  InTime(q)
<1>1. Sent(q)
  BY KnownGrows DEF Sent
<1>2. Idle(q)
  BY DEF Idle, NoRequest
<1> QED
  BY <1>1, <1>2 DEF InTime, Talking

LEMMA HeardKept ==
  ASSUME NEW p, NEW q, Heard(p), q.who = p.who, q.cons \subseteq p.cons, q.served = p.served,
         q.toClient = p.toClient
  PROVE  Heard(q)
BY KnownGrows DEF Heard

\* The server reads a frame: a request for a callback, or a message.
LEMMA ReadsRequest ==
  ASSUME NEW p, NEW q, InTime(p), p.toServer # <<>>, Head(p.toServer).kind = "request",
         q.who = p.who, q.stage = p.stage, q.call = p.call, q.cons = p.cons,
         q.packets = p.packets, q.toClient = p.toClient, q.served = p.served,
         q.reads = p.reads, q.toServer = Tail(p.toServer),
         q.inbox \in {p.inbox, Append(p.inbox, Head(p.toServer))}
  PROVE  InTime(q)
<1>1. Sent(q)
  BY TakesFrame DEF InTime
<1>2. ASSUME q.stage # "off" PROVE Talking(q)
  <2>1. Talking(p) /\ IsSeq(p.toServer)
    BY <1>2 DEF InTime, Sent
  <2>2. Heard(q) /\ (q.call # NoCall => CallOK(q, q.call))
    BY <2>1, KnownGrows, HeardKept DEF Talking
  <2>3. /\ Head(p.toServer) = p.toServer[1] /\ 1 \in DOMAIN p.toServer
        /\ DOMAIN p.toServer = 1..Len(p.toServer) /\ Len(p.toServer) \in Nat
        /\ \A i \in DOMAIN q.toServer : i + 1 \in DOMAIN p.toServer /\ q.toServer[i] = p.toServer[i + 1]
        /\ DOMAIN q.toServer = 1..(Len(p.toServer) - 1)
    BY <2>1, Taken
  <2>4. ~NoRequest(p)
    BY <2>3 DEF NoRequest
  <2>5. RequestGoes(p)
    BY <2>1, <2>4 DEF Talking, Idle, RequestThere, AnswerComes, AnswerThere
  <2>6. /\ p.toServer[1] = TheRequest(p.call)
        /\ \A j \in DOMAIN p.toServer : j # 1 => p.toServer[j].kind # "request"
    BY <2>3, <2>5 DEF RequestGoes
  <2>7. NoRequest(q)
    BY <2>3, <2>6 DEF NoRequest
  <2>8. q.call.at = "wait" /\ NoAnswer(q) /\ q.packets = Unread /\ p.inbox = <<>>
    BY <2>5 DEF RequestGoes, NoAnswer
  <2>9. q.inbox = <<>> \/ q.inbox = <<TheRequest(q.call)>>
    BY <2>3, <2>6, <2>8
  <2> QED
    BY <2>2, <2>7, <2>8, <2>9 DEF Talking, Idle, RequestThere
<1> QED
  BY <1>1, <1>2 DEF InTime

LEMMA ReadsMessage ==
  ASSUME NEW p, NEW q, InTime(p), p.toServer # <<>>, Head(p.toServer).kind = "front",
         q.who = p.who, q.stage = p.stage, q.call = p.call, q.cons = p.cons,
         q.packets = p.packets, q.toClient = p.toClient, q.served = p.served,
         q.reads = p.reads, q.toServer = Tail(p.toServer), q.inbox = p.inbox
  PROVE  InTime(q)
<1>1. Sent(q)
  BY TakesFrame DEF InTime
<1>2. ASSUME q.stage # "off" PROVE Talking(q)
  <2>1. Talking(p) /\ IsSeq(p.toServer)
    BY <1>2 DEF InTime, Sent
  <2>2. Heard(q) /\ (q.call # NoCall => CallOK(q, q.call))
    BY <2>1, KnownGrows, HeardKept DEF Talking
  <2>3. /\ Head(p.toServer) = p.toServer[1] /\ 1 \in DOMAIN p.toServer
        /\ DOMAIN p.toServer = 1..Len(p.toServer) /\ Len(p.toServer) \in Nat
        /\ \A i \in DOMAIN q.toServer : i + 1 \in DOMAIN p.toServer /\ q.toServer[i] = p.toServer[i + 1]
        /\ \A i \in DOMAIN p.toServer :
             i # 1 => i - 1 \in DOMAIN q.toServer /\ q.toServer[i - 1] = p.toServer[i]
        /\ DOMAIN q.toServer = 1..(Len(p.toServer) - 1)
    BY <2>1, Taken
  <2>4. NoRequest(p) => NoRequest(q)
    BY <2>3 DEF NoRequest
  <2>5. ASSUME RequestGoes(p) PROVE RequestGoes(q)
    <3>1. PICK i \in DOMAIN p.toServer :
            /\ p.toServer[i] = TheRequest(p.call)
            /\ \A j \in DOMAIN p.toServer : j # i => p.toServer[j].kind # "request"
      BY <2>5 DEF RequestGoes
    <3>2. i # 1
      BY <2>3, <3>1 DEF TheRequest, Request
    <3>3. i \in Int /\ i - 1 \in DOMAIN q.toServer /\ q.toServer[i - 1] = TheRequest(q.call)
      BY <2>3, <3>1, <3>2
    <3>4. \A j \in DOMAIN q.toServer : j # i - 1 => q.toServer[j].kind # "request"
      <4> SUFFICES ASSUME NEW j \in DOMAIN q.toServer, j # i - 1
                   PROVE  q.toServer[j].kind # "request"
        OBVIOUS
      <4>1. j \in Int /\ j + 1 \in DOMAIN p.toServer /\ q.toServer[j] = p.toServer[j + 1]
        BY <2>3
      <4>2. j + 1 # i
        BY <3>3, <4>1
      <4> QED
        BY <3>1, <4>1, <4>2
    <3> QED
      BY <2>5, <3>3, <3>4 DEF RequestGoes, NoAnswer
  <2>6. (Idle(p) => Idle(q)) /\ (RequestThere(p) => RequestThere(q))
    BY <2>4 DEF Idle, RequestThere, NoAnswer
  <2>7. (AnswerComes(p) => AnswerComes(q)) /\ (AnswerThere(p) => AnswerThere(q))
    BY <2>4, KnownGrows DEF AnswerComes, AnswerThere, NoAnswer
  <2> QED
    BY <2>1, <2>2, <2>5, <2>6, <2>7 DEF Talking
<1> QED
  BY <1>1, <1>2 DEF InTime

\* A callback takes the request.
LEMMA RequestIsThere ==
  ASSUME NEW p, InTime(p), p.stage # "off", p.inbox # <<>>
  PROVE  /\ RequestThere(p) /\ p.call # NoCall /\ CallOK(p, p.call) /\ Heard(p)
         /\ p.inbox = <<TheRequest(p.call)>>
<1>1. RequestThere(p)
  BY DEF InTime, Talking, Idle, RequestGoes, AnswerComes, AnswerThere
<1>2. p.call # NoCall
  BY <1>1 DEF RequestThere, NoCall, None
<1> QED
  BY <1>1, <1>2 DEF InTime, Talking, RequestThere

LEMMA Replies ==
  ASSUME NEW p, NEW q, InTime(p), p.stage # "off", p.inbox # <<>>, q.inbox = <<>>,
         q.who = p.who, q.stage = p.stage, q.call = p.call, q.cons = p.cons,
         q.packets = p.packets, q.toServer = p.toServer, q.reads = p.reads,
         p.served \subseteq q.served, \A s \in q.served : s.type \in TypeNumbers /\ s.address \in Addresses,
         \/ q.toClient = p.toClient
         \/ \E f : q.toClient = Append(p.toClient, f) /\ TheAnswer(q, f)
  PROVE  InTime(q)
<1>1. /\ RequestThere(p) /\ CallOK(p, p.call) /\ Heard(p)
  BY RequestIsThere
<1>2. Sent(q)
  BY KnownGrows DEF InTime, Sent
<1>3. CallOK(q, q.call) /\ NoRequest(q) /\ q.packets = Unread /\ q.call.at = "wait" /\ NoAnswer(p)
  BY <1>1, KnownGrows DEF RequestThere, NoRequest
<1>4. \A con \in q.cons : con \in Connections /\ Known(q, con)
  BY <1>1, KnownGrows DEF Heard
<1>5. CASE q.toClient = p.toClient
  <2>1. Heard(q) /\ NoAnswer(q)
    BY <1>1, <1>3, <1>4, <1>5 DEF Heard, NoAnswer
  <2> QED
    BY <1>2, <1>3, <2>1 DEF InTime, Talking, Idle
<1>6. CASE \E f : q.toClient = Append(p.toClient, f) /\ TheAnswer(q, f)
  <2> DEFINE s == p.toClient
             t == q.toClient
  <2>1. PICK f : t = Append(s, f) /\ TheAnswer(q, f)
    BY <1>6
  <2>2. f.kind = "answer" /\ IsSeq(s)
    BY <1>1, <2>1 DEF TheAnswer, Heard
  <2>3. /\ IsSeq(t) /\ DOMAIN t = 1..(Len(s) + 1) /\ DOMAIN s = 1..Len(s) /\ Len(s) \in Nat
        /\ t[Len(s) + 1] = f /\ \A i \in DOMAIN s : t[i] = s[i]
    BY <2>1, <2>2, Appended
  <2> HIDE DEF s, t
  <2>4. \A i \in DOMAIN t : i # Len(s) + 1 => i \in DOMAIN s /\ t[i] = s[i]
    BY <2>3
  <2>5. Heard(q)
    <3>1. \A i \in DOMAIN t : t[i].kind # "answer" => Packet(t[i])
      BY <1>1, <2>2, <2>3, <2>4 DEF Heard, s
    <3> QED
      BY <1>4, <2>3, <3>1 DEF Heard, t
  <2>6. \A j \in DOMAIN t : j # Len(s) + 1 => t[j].kind # "answer"
    BY <1>3, <2>4 DEF NoAnswer, s
  <2>7. AnswerComes(q)
    BY <1>3, <2>1, <2>3, <2>6 DEF AnswerComes, t
  <2> QED
    BY <1>2, <1>3, <2>5, <2>7 DEF InTime, Talking
<1> QED
  BY <1>5, <1>6

\* The answer arrives.
LEMMA AnswerArrives ==
  ASSUME NEW p, NEW q, NEW f, InTime(p), p.stage # "off",
         p.toClient # <<>>, f = Head(p.toClient), f.kind = "answer",
         q.who = p.who, q.stage = p.stage, q.cons = p.cons, q.toServer = p.toServer,
         q.inbox = p.inbox, q.served = p.served, q.reads = p.reads,
         q.toClient = Tail(p.toClient),
         f.ep = "start" /\ f.data = NoData => q.packets = p.packets,
         ~(f.ep = "start" /\ f.data = NoData) =>
           q.packets = [p.packets EXCEPT ![f.ep] = Append(@, f.data)],
         ~f.late /\ p.call # NoCall =>
           \E x \in {"read", "fail"} : q.call = [op |-> p.call.op, con |-> p.call.con,
                                              todo |-> p.call.todo, at |-> x, ret |-> f.ret]
  PROVE  InTime(q)
<1> DEFINE s == p.toClient
           t == q.toClient
           k == p.call
<1>1. Talking(p) /\ IsSeq(s)
  BY DEF InTime, Talking, Heard
<1>2. /\ f = s[1] /\ 1 \in DOMAIN s /\ IsSeq(t)
      /\ DOMAIN s = 1..Len(s) /\ Len(s) \in Nat /\ DOMAIN t = 1..(Len(s) - 1)
      /\ \A i \in DOMAIN t : i + 1 \in DOMAIN s /\ t[i] = s[i + 1]
  BY <1>1, Taken
<1>3. AnswerComes(p)
  BY <1>1, <1>2 DEF Talking, Idle, RequestGoes, RequestThere, AnswerThere, NoAnswer
<1>4. TheAnswer(p, f) /\ \A j \in DOMAIN s : j # 1 => s[j].kind # "answer"
  BY <1>2, <1>3 DEF AnswerComes
<1>5. NoAnswer(q)
  BY <1>2, <1>4 DEF NoAnswer
<1>6. k # NoCall /\ k.at = "wait"
  BY <1>3 DEF AnswerComes, NoCall, None
<1>7. CallOK(p, k)
  BY <1>1, <1>6 DEF Talking
<1>8. /\ q.call = [op |-> k.op, con |-> k.con, todo |-> k.todo, at |-> q.call.at, ret |-> f.ret]
      /\ q.call.at \in {"read", "fail"}
  <2>1. ~f.late
    BY <1>4 DEF TheAnswer
  <2> QED
    BY <1>6, <2>1
<1>9. CallOK(q, q.call)
  BY <1>7, <1>8, KnownGrows DEF CallOK
<1>10. Sent(q)
  BY KnownGrows DEF InTime, Sent
<1>11. Heard(q)
  <2>1. \A con \in q.cons : con \in Connections /\ Known(q, con)
    BY <1>1, KnownGrows DEF Talking, Heard
  <2>2. \A i \in DOMAIN t : t[i].kind # "answer" => Packet(t[i])
    BY <1>1, <1>2 DEF Talking, Heard
  <2> QED
    BY <1>1, <1>2, <2>1, <2>2 DEF Talking, Heard
<1>12. NoRequest(q) /\ q.inbox = <<>> /\ p.packets = Unread
  BY <1>3 DEF AnswerComes, NoRequest
<1>13. CASE f.ep = "start" /\ f.data = NoData
  BY <1>5, <1>9, <1>10, <1>11, <1>12, <1>13 DEF InTime, Talking, Idle
<1>14. CASE ~(f.ep = "start" /\ f.data = NoData)
  <2>1. f.ep = Head(q.call.todo) /\ f.ep \in EndpointNames
    <3>1. f.ep = Head(k.todo) /\ q.call.todo = k.todo
      BY <1>4, <1>8 DEF TheAnswer
    <3>2. <<k.op, k.todo>> \in Steps
      BY <1>7 DEF CallOK
    <3>3. Head(k.todo) \in EndpointNames
      BY <3>2, StepFacts
    <3> QED
      BY <3>1, <3>3
  <2>0. q.packets = [p.packets EXCEPT ![f.ep] = Append(p.packets[f.ep], f.data)]
    BY <1>14
  <2>2. q.packets = [Unread EXCEPT ![f.ep] = Append(Unread[f.ep], f.data)]
    BY <1>12, <2>0
  <2>3. q.packets[f.ep] = Append(<<>>, f.data)
    BY <2>1, <2>2 DEF Unread
  <2>4. q.packets[f.ep] = <<f.data>> /\ q.packets = [Unread EXCEPT ![f.ep] = <<f.data>>]
    <3>1. PICK x : x = f.data
      OBVIOUS
    <3>2. Append(<<>>, x) = <<x>>
      OBVIOUS
    <3> QED
      BY <2>1, <2>2, <2>3, <3>1, <3>2 DEF Unread
  <2>5. q.packets[f.ep][1] = f.data
    BY <2>4
  <2>6. Says(q, f.data)
    BY <1>4, <1>8, KnownGrows DEF TheAnswer, Says, Known
  <2>7. AnswerThere(q)
    BY <1>5, <1>8, <1>12, <2>1, <2>4, <2>5, <2>6 DEF AnswerThere
  <2> QED
    BY <1>9, <1>10, <1>11, <2>7 DEF InTime, Talking
<1> QED
  BY <1>13, <1>14

\* A packet of a device arrives.
LEMMA PacketArrives ==
  ASSUME NEW p, NEW q, InTime(p), p.stage # "off",
         p.toClient # <<>>, Head(p.toClient).kind = "front",
         q.who = p.who, q.stage = p.stage, q.call = p.call, q.cons = p.cons,
         q.packets = p.packets, q.toServer = p.toServer, q.inbox = p.inbox,
         q.served = p.served, q.reads = p.reads, q.toClient = Tail(p.toClient)
  PROVE  InTime(q) /\ Packet(Head(p.toClient))
<1> DEFINE s == p.toClient
           t == q.toClient
<1>1. Talking(p) /\ IsSeq(s)
  BY DEF InTime, Talking, Heard
<1>2. /\ Head(s) = s[1] /\ 1 \in DOMAIN s /\ IsSeq(t)
      /\ DOMAIN s = 1..Len(s) /\ Len(s) \in Nat /\ DOMAIN t = 1..(Len(s) - 1)
      /\ \A i \in DOMAIN t : i + 1 \in DOMAIN s /\ t[i] = s[i + 1]
      /\ \A i \in DOMAIN s : i # 1 => i - 1 \in DOMAIN t /\ t[i - 1] = s[i]
  BY <1>1, Taken
<1>3. Packet(Head(s))
  BY <1>1, <1>2 DEF Talking, Heard
<1>4. Sent(q)
  BY KnownGrows DEF InTime, Sent
<1>5. Heard(q)
  <2>1. \A con \in q.cons : con \in Connections /\ Known(q, con)
    BY <1>1, KnownGrows DEF Talking, Heard
  <2>2. \A i \in DOMAIN t : t[i].kind # "answer" => Packet(t[i])
    BY <1>1, <1>2 DEF Talking, Heard
  <2> QED
    BY <1>1, <1>2, <2>1, <2>2 DEF Talking, Heard
<1>6. q.call # NoCall => CallOK(q, q.call)
  BY <1>1, KnownGrows DEF Talking
<1>7. NoAnswer(p) => NoAnswer(q)
  BY <1>2 DEF NoAnswer
<1>8. ASSUME AnswerComes(p) PROVE AnswerComes(q)
  <2>1. PICK i \in DOMAIN s :
          TheAnswer(p, s[i]) /\ \A j \in DOMAIN s : j # i => s[j].kind # "answer"
    BY <1>8 DEF AnswerComes
  <2>2. i # 1
    BY <1>2, <2>1 DEF TheAnswer
  <2>3. i \in Int /\ i - 1 \in DOMAIN t /\ TheAnswer(q, t[i - 1])
    BY <1>2, <2>1, <2>2, KnownGrows
  <2>4. \A j \in DOMAIN t : j # i - 1 => t[j].kind # "answer"
    <3> SUFFICES ASSUME NEW j \in DOMAIN t, j # i - 1 PROVE t[j].kind # "answer"
      OBVIOUS
    <3>1. j \in Int /\ j + 1 \in DOMAIN s /\ t[j] = s[j + 1]
      BY <1>2
    <3>2. j + 1 # i
      BY <2>3, <3>1
    <3> QED
      BY <2>1, <3>1, <3>2
  <2> QED
    BY <1>8, <2>3, <2>4 DEF AnswerComes, NoRequest
<1>9. /\ Idle(p) => Idle(q)
      /\ RequestGoes(p) => RequestGoes(q)
      /\ RequestThere(p) => RequestThere(q)
  BY <1>7 DEF Idle, RequestGoes, RequestThere, NoRequest
<1>10. AnswerThere(p) => AnswerThere(q)
  BY <1>7, KnownGrows DEF AnswerThere, NoRequest
<1> QED
  BY <1>1, <1>3, <1>4, <1>5, <1>6, <1>8, <1>9, <1>10 DEF InTime, Talking

\* A device sends one.
LEMMA PacketComes ==
  ASSUME NEW p, NEW q, NEW f, InTime(p), p.stage # "off",
         f.kind = "front", Packet(f),
         q.who = p.who, q.stage = p.stage, q.call = p.call, q.cons = p.cons,
         q.packets = p.packets, q.toServer = p.toServer, q.inbox = p.inbox,
         q.served = p.served, q.reads = p.reads, q.toClient = Append(p.toClient, f)
  PROVE  InTime(q)
<1> DEFINE s == p.toClient
           t == q.toClient
<1>1. Talking(p) /\ IsSeq(s)
  BY DEF InTime, Talking, Heard
<1>2. /\ IsSeq(t) /\ DOMAIN t = 1..(Len(s) + 1) /\ DOMAIN s = 1..Len(s) /\ Len(s) \in Nat
      /\ t[Len(s) + 1] = f /\ \A i \in DOMAIN s : t[i] = s[i]
  BY <1>1, Appended
<1>3. \A i \in DOMAIN t : t[i].kind = "answer" => i \in DOMAIN s
  BY <1>2
<1>4. Sent(q)
  BY KnownGrows DEF InTime, Sent
<1>5. Heard(q)
  <2>1. \A con \in q.cons : con \in Connections /\ Known(q, con)
    BY <1>1, KnownGrows DEF Talking, Heard
  <2>2. \A i \in DOMAIN t : t[i].kind # "answer" => Packet(t[i])
    <3> SUFFICES ASSUME NEW i \in DOMAIN t, t[i].kind # "answer" PROVE Packet(t[i])
      OBVIOUS
    <3>1. i \in DOMAIN s \/ i = Len(s) + 1
      BY <1>2
    <3> QED
      BY <1>1, <1>2, <3>1 DEF Talking, Heard
  <2> QED
    BY <1>1, <1>2, <2>1, <2>2 DEF Talking, Heard
<1>6. q.call # NoCall => CallOK(q, q.call)
  BY <1>1, KnownGrows DEF Talking
<1>7. NoAnswer(p) => NoAnswer(q)
  BY <1>2, <1>3 DEF NoAnswer
<1>8. ASSUME AnswerComes(p) PROVE AnswerComes(q)
  <2>1. PICK i \in DOMAIN s :
          TheAnswer(p, s[i]) /\ \A j \in DOMAIN s : j # i => s[j].kind # "answer"
    BY <1>8 DEF AnswerComes
  <2>2. i \in DOMAIN t /\ TheAnswer(q, t[i])
    BY <1>2, <2>1, KnownGrows
  <2>3. \A j \in DOMAIN t : j # i => t[j].kind # "answer"
    BY <1>2, <1>3, <2>1
  <2> QED
    BY <1>8, <2>2, <2>3 DEF AnswerComes, NoRequest
<1>9. /\ Idle(p) => Idle(q)
      /\ RequestGoes(p) => RequestGoes(q)
      /\ RequestThere(p) => RequestThere(q)
  BY <1>7 DEF Idle, RequestGoes, RequestThere, NoRequest
<1>10. AnswerThere(p) => AnswerThere(q)
  BY <1>7, KnownGrows DEF AnswerThere, NoRequest
<1> QED
  BY <1>1, <1>4, <1>5, <1>6, <1>8, <1>9, <1>10 DEF InTime, Talking

\* The call reads its answer, or finds none.
LEMMA AnswerIsThere ==
  ASSUME NEW p, NEW e, InTime(p), p.stage # "off", p.call.at = "read", e = Head(p.call.todo)
  PROVE  /\ Heard(p) /\ CallOK(p, p.call)
         /\ NoRequest(p) /\ NoAnswer(p) /\ p.inbox = <<>>
         /\ p.packets[e] = <<>> => p.packets = Unread
         /\ p.packets[e] # <<>> => /\ [p.packets EXCEPT ![e] = Tail(@)] = Unread
                                   /\ Says(p, Head(p.packets[e]))
<1>1. p.call # NoCall
  BY DEF NoCall, None
<1>2. Heard(p) /\ CallOK(p, p.call)
  BY <1>1 DEF InTime, Talking
<1>3. e \in EndpointNames
  BY <1>2, StepFacts DEF CallOK
<1>4. Idle(p) \/ AnswerThere(p)
  BY DEF InTime, Talking, RequestGoes, RequestThere, AnswerComes
<1>5. CASE Idle(p)
  BY <1>2, <1>3, <1>5 DEF Idle, Unread
<1>6. CASE AnswerThere(p)
  <2>1. PICK x : x = p.packets[e][1]
    OBVIOUS
  <2>2. p.packets = [Unread EXCEPT ![e] = <<x>>] /\ Says(p, x)
    BY <1>6, <2>1 DEF AnswerThere
  <2>3. p.packets[e] = <<x>> /\ Head(p.packets[e]) = x /\ Tail(p.packets[e]) = <<>>
    BY <1>3, <2>2 DEF Unread
  <2>4. [p.packets EXCEPT ![e] = Tail(@)] = Unread
    BY <1>3, <2>2, <2>3 DEF Unread
  <2> QED
    BY <1>2, <1>6, <2>2, <2>3, <2>4 DEF AnswerThere
<1> QED
  BY <1>4, <1>5, <1>6

-----------------------------------------------------------------------------
(*****************************************************************************)
(* Numbers of types, and identifiers of connections.                         *)
(*****************************************************************************)
\* Both sides count the types in the same way.
LEMMA TypesAgree ==
  ASSUME NEW t \in TypeNumbers
  PROVE  /\ Located(ServerFrontId(t)) = IF t = 1 THEN 0 ELSE t
         /\ ServerLocated(FrontId(t)) = IF t = 1 THEN 0 ELSE t
<1>1. t \in Int /\ \A u \in TypeNumbers : u \in Int
  BY DEF TypeNumbers
<1>2. {u \in TypeNumbers : FrontId(u) = ServerFrontId(t)} = {t}
  BY <1>1 DEF FrontId, ServerFrontId
<1>3. {u \in TypeNumbers : ServerFrontId(u) = FrontId(t)} = {t}
  BY <1>1 DEF FrontId, ServerFrontId
<1>4. (CHOOSE u \in {t} : TRUE) = t
  OBVIOUS
<1>5. (ServerFrontId(t) = 0 <=> t = 1) /\ (FrontId(t) = 0 <=> t = 1)
  BY <1>1 DEF FrontId, ServerFrontId
<1>6. Located(ServerFrontId(t)) = IF t = 1 THEN 0 ELSE t
  BY <1>2, <1>4, <1>5 DEF Located
<1>7. ServerLocated(FrontId(t)) = IF t = 1 THEN 0 ELSE t
  BY <1>3, <1>4, <1>5 DEF ServerLocated
<1> QED
  BY <1>6, <1>7

LEMMA LeastNumber ==
  ASSUME NEW S, S \subseteq Nat, S # {}
  PROVE  \E n \in S : \A i \in S : n <= i
<1>1. PICK n \in S : \A i \in S : <<i, n>> \notin OpToRel(<, Nat)
  BY WFMin, NatLessThanWellFounded, Zenon
<1>2. \A i \in S : ~(i < n)
  BY <1>1 DEF OpToRel
<1> QED
  BY <1>2

LEMMA LeastOutside ==
  ASSUME NEW T, NEW m \in Nat, m \notin T
  PROVE  \E n \in 0..m : n \notin T /\ 0..(n - 1) \subseteq T
<1>1. PICK n \in Nat \ T : \A i \in Nat \ T : n <= i
  <2>1. Nat \ T # {} /\ Nat \ T \subseteq Nat
    OBVIOUS
  <2> QED
    BY <2>1, LeastNumber
<1> QED
  BY <1>1

\* The server finds an identifier that no connection of the type has.
LEMMA IdentifierIsFree ==
  ASSUME IsFiniteSet(served), NEW con
  PROVE  /\ FreeIdentifier(con) \in Nat
         /\ \A s \in served : s.type = con.type => s.id # FreeIdentifier(con)
<1> DEFINE K == Cardinality(served)
           T == {s.id : s \in {s \in served : s.type = con.type}}
<1>1. K \in Nat
  BY FS_CardinalityType
<1>2. IsFiniteSet(T) /\ Cardinality(T) <= K
  <2> DEFINE U == {s \in served : s.type = con.type}
  <2>1. IsFiniteSet(U) /\ Cardinality(U) <= K
    BY FS_Subset
  <2>2. IsFiniteSet(T) /\ Cardinality(T) <= Cardinality(U)
    <3> DEFINE f == [s \in U |-> s.id]
    <3>1. f \in Surjection(U, T)
      BY DEF Surjection
    <3> HIDE DEF f, U, T
    <3> QED
      BY <2>1, <3>1, FS_Surjection
  <2> QED
    BY <1>1, <2>1, <2>2, FS_CardinalityType
<1> HIDE DEF T
<1>3. \E m \in 0..K : m \notin T
  <2> SUFFICES ASSUME 0..K \subseteq T PROVE FALSE
    OBVIOUS
  <2>1. IsFiniteSet(0..K) /\ Cardinality(0..K) = K + 1
    BY <1>1, FS_Interval
  <2>2. Cardinality(0..K) <= Cardinality(T)
    BY <1>2, FS_Subset
  <2> QED
    BY <1>1, <1>2, <2>1, <2>2, FS_CardinalityType
<1>4. \E n \in 0..K : n \notin T /\ 0..(n - 1) \subseteq T
  BY <1>1, <1>3, LeastOutside
<1>5. FreeIdentifier(con) = CHOOSE n \in 0..K : n \notin T /\ 0..(n - 1) \subseteq T
  BY DEF FreeIdentifier, T
<1>6. FreeIdentifier(con) \in 0..K /\ FreeIdentifier(con) \notin T
  BY <1>4, <1>5
<1> QED
  BY <1>1, <1>6 DEF T

-----------------------------------------------------------------------------
(*****************************************************************************)
(* A step that works on one stream.                                          *)
(*****************************************************************************)
\* A step leaves the others' streams alone.
Elsewhere(c) ==
  \A d \in Clients \ {c} :
    /\ stage'[d] = stage[d] /\ call'[d] = call[d] /\ lates'[d] = lates[d] /\ cons'[d] = cons[d]
    /\ packets'[d] = packets[d] /\ toServer'[d] = toServer[d] /\ toClient'[d] = toClient[d]
    /\ inbox'[d] = inbox[d] /\ ServedFor(d)' = ServedFor(d) /\ clients'[d] = clients[d]

LEMMA StreamFields ==
  ASSUME NEW c, NEW p, p = Stream(c)
  PROVE  /\ p.who = c /\ p.stage = stage[c] /\ p.call = call[c] /\ p.cons = cons[c]
         /\ p.packets = packets[c] /\ p.toServer = toServer[c] /\ p.toClient = toClient[c]
         /\ p.inbox = inbox[c] /\ p.served = ServedFor(c) /\ p.reads = (clients[c].rx = "recv")
BY DEF Stream

LEMMA StreamFieldsThen ==
  ASSUME NEW c, NEW q, q = Stream(c)'
  PROVE  /\ q.who = c /\ q.stage = stage'[c] /\ q.call = call'[c] /\ q.cons = cons'[c]
         /\ q.packets = packets'[c] /\ q.toServer = toServer'[c] /\ q.toClient = toClient'[c]
         /\ q.inbox = inbox'[c] /\ q.served = ServedFor(c)' /\ q.reads = (clients'[c].rx = "recv")
BY DEF Stream

LEMMA StreamThen ==
  ASSUME NEW c, NEW q, q = Stream(c)',
         stage'[c] = "off" => Off(q),
         stage'[c] = "off" /\ (clients'[c].rx = "none" \/ clients'[c].fd = "open") => Quiet(q),
         lates'[c] = 0 => InTime(q)
  PROVE  StreamOK(c)'
BY DEF StreamOK

LEMMA OthersThen ==
  ASSUME Streams, NEW c \in Clients, Elsewhere(c), StreamOK(c)'
  PROVE  Streams'
<1> SUFFICES ASSUME NEW d \in Clients, d # c PROVE StreamOK(d)'
  BY DEF Streams
<1>1. StreamOK(d)
  BY DEF Streams
<1>2. /\ Stream(d)' = Stream(d) /\ stage'[d] = stage[d] /\ lates'[d] = lates[d]
      /\ clients'[d] = clients[d]
  BY DEF Elsewhere, Stream
<1>3. PICK p : p = Stream(d)
  OBVIOUS
<1> QED
  BY <1>1, <1>2, <1>3, StreamThen DEF StreamOK

LEMMA MeetsAgain ==
  ASSUME MeetInv, NEW c \in Clients, UNCHANGED serverVars, UNCHANGED served,
         Domains', Elsewhere(c), StreamOK(c)', Arrived',
         stage'[c] # "off" => \/ stage[c] # "off"
                              \/ clients[c].fd = "open" /\ clients[c].rx = "recv"
  PROVE  MeetInv'
<1>1. Structural'
  <2>1. LifeTypes' /\ Held'
    BY DEF MeetInv, Structural, LifeTypes, Held, serverVars
  <2>2. Online'
    BY DEF MeetInv, Structural, Held, Online, Elsewhere, serverVars
  <2> QED
    BY <2>1, <2>2 DEF Structural
<1>2. Identified'
  BY DEF MeetInv, Identified
<1>3. Streams'
  BY OthersThen DEF MeetInv
<1> QED
  BY <1>1, <1>2, <1>3 DEF MeetInv

\* Nothing arrives.
LEMMA NothingArrives ==
  ASSUME MeetInv, \/ UNCHANGED relayed /\ \A d \in Clients : lates'[d] = 0 => lates[d] = 0
                  \/ relayed' = Nothing
  PROVE  Arrived'
BY NetAssumption DEF MeetInv, Arrived, Nothing, NetAssumption

-----------------------------------------------------------------------------
(*****************************************************************************)
(* The steps, one by one.                                                    *)
(*****************************************************************************)
\* A program whose stream nobody has spoken on.
LEMMA QuietSent ==
  ASSUME NEW p, Quiet(p)
  PROVE  Sent(p) /\ NoRequest(p) /\ NoAnswer(p) /\ p.inbox = <<>> /\ p.packets = Unread /\ Heard(p)
<1>1. IsSeq(p.toServer) /\ IsSeq(p.toClient)
  BY EmptyIsSeq DEF Quiet, Off
<1>2. DOMAIN p.toServer = {} /\ DOMAIN p.toClient = {}
  BY DEF Quiet, Off
<1> QED
  BY <1>1, <1>2 DEF Quiet, Off, Sent, NoRequest, NoAnswer, Heard

LEMMA ServerRests ==
  ASSUME UNCHANGED <<serverVars, served>>, NEW c
  PROVE  ServedFor(c)' = ServedFor(c) /\ clients' = clients
BY DEF ServedFor, serverVars

\* A call that is asked and waits.
LEMMA WaitShape ==
  ASSUME NEW k, k = [op |-> k.op, con |-> k.con, todo |-> k.todo, at |-> k.at, ret |-> k.ret]
  PROVE  [k EXCEPT !.at = "wait", !.ret = 0] =
           [op |-> k.op, con |-> k.con, todo |-> k.todo, at |-> "wait", ret |-> 0]
<1>1. PICK j : j = [k EXCEPT !.at = "wait"]
  OBVIOUS
<1>2. j = [op |-> k.op, con |-> k.con, todo |-> k.todo, at |-> "wait", ret |-> k.ret]
  <2>1. PICK a, b, x, y, z : k = [op |-> a, con |-> b, todo |-> x, at |-> y, ret |-> z]
    OBVIOUS
  <2> QED
    BY <1>1, <2>1
<1>3. [j EXCEPT !.ret = 0] =
        [op |-> k.op, con |-> k.con, todo |-> k.todo, at |-> "wait", ret |-> 0]
  BY <1>2
<1>4. [k EXCEPT !.at = "wait", !.ret = 0] = [j EXCEPT !.ret = 0]
  BY <1>1, Zenon
<1> QED
  BY <1>3, <1>4

LEMMA ConnectMeets ==
  ASSUME MeetInv, NEW c \in Clients, Connect(c)
  PROVE  MeetInv'
<1>1. PICK p, q : p = Stream(c) /\ q = Stream(c)'
  OBVIOUS
<1> DEFINE k == [op |-> "start", con |-> NoClient, todo |-> <<"start", "conGetTypes">>,
                 at |-> "wait", ret |-> 0]
<1>2. /\ Ask("start", NoClient) = k /\ Head(k.todo) = "start"
  BY DEF Ask, Requests
<1>3. /\ stage[c] = "off" /\ clients[c].fd = "open" /\ clients[c].rx = "recv"
      /\ stage' = [stage EXCEPT ![c] = "start"]
      /\ toServer' = [toServer EXCEPT ![c] = Append(@, Request("start", Argument(k)))]
      /\ call' = [call EXCEPT ![c] = [k EXCEPT !.at = "wait", !.ret = 0]]
      /\ UNCHANGED <<serverVars, lates, cons, packets, toClient, inbox, served, relayed>>
  BY <1>2 DEF Connect, Send, SendRequest
<1>4. [k EXCEPT !.at = "wait", !.ret = 0] = k /\ Request("start", Argument(k)) = TheRequest(k)
  <2>1. [k EXCEPT !.at = "wait", !.ret = 0] = k
    <3>1. k = [op |-> k.op, con |-> k.con, todo |-> k.todo, at |-> k.at, ret |-> k.ret]
          /\ k.at = "wait" /\ k.ret = 0
      OBVIOUS
    <3> HIDE DEF k
    <3> QED
      BY <3>1, WaitShape
  <2> QED
    BY <1>2, <2>1 DEF TheRequest
<1> HIDE DEF k
<1>5. Domains' /\ stage'[c] = "start" /\ call'[c] = k
      /\ toServer'[c] = Append(toServer[c], TheRequest(k))
  BY <1>3, <1>4 DEF MeetInv, Domains
<1>6. Elsewhere(c)
  BY <1>3 DEF MeetInv, Domains, Elsewhere, ServedFor, serverVars
<1>7. Quiet(p)
  BY <1>1, <1>3 DEF MeetInv, Streams, StreamOK
<1>8. InTime(q)
  <2>1. /\ q.who = p.who /\ q.served = p.served /\ q.reads = p.reads /\ q.inbox = p.inbox
        /\ q.packets = p.packets /\ q.toClient = p.toClient /\ q.cons = p.cons
        /\ q.call = k /\ q.toServer = Append(p.toServer, TheRequest(k))
    <3>1. ServedFor(c)' = ServedFor(c) /\ clients' = clients
      BY <1>3, ServerRests
    <3>2. UNCHANGED <<cons, packets, toClient, inbox>>
      BY <1>3
    <3> QED
      BY <1>1, <1>5, <3>1, <3>2, StreamFields, StreamFieldsThen
  <2>2. Sent(p) /\ NoRequest(p) /\ NoAnswer(p) /\ p.inbox = <<>> /\ p.packets = Unread /\ Heard(p)
    BY <1>7, QuietSent
  <2>3. Heard(q) /\ NoAnswer(q)
    BY <2>1, <2>2, HeardKept DEF NoAnswer
  <2>4. CallOK(q, k) /\ k.at = "wait"
    <3>1. <<k.op, k.todo>> \in Steps
      BY DEF k, Steps
    <3>2. /\ k.op = "start" /\ k.at = "wait"
          /\ k = [op |-> k.op, con |-> k.con, todo |-> k.todo, at |-> k.at, ret |-> k.ret]
      BY DEF k
    <3> QED
      BY <3>1, <3>2 DEF CallOK
  <2> QED
    BY <2>1, <2>2, <2>3, <2>4, SendsRequest
<1>9. StreamOK(c)'
  BY <1>1, <1>5, <1>8, StreamThen
<1>10. Arrived'
  BY <1>3, NothingArrives
<1> QED
  BY <1>3, <1>5, <1>6, <1>9, <1>10, MeetsAgain

LEMMA TimeoutMeets ==
  ASSUME MeetInv, NEW c \in Clients, Timeout(c)
  PROVE  MeetInv'
<1>1. PICK q : q = Stream(c)'
  OBVIOUS
<1>2. /\ call[c].at = "wait" /\ lates' = [lates EXCEPT ![c] = @ + 1]
      /\ UNCHANGED <<serverVars, stage, cons, packets, served, relayed>>
      /\ toServer' = [toServer EXCEPT ![c] = GivenUp(@)]
      /\ toClient' = [toClient EXCEPT ![c] = GivenUp(@)]
      /\ inbox' = [inbox EXCEPT ![c] = GivenUp(@)]
  BY DEF Timeout
<1>3. DOMAIN call' = DOMAIN call /\ \A d \in Clients \ {c} : call'[d] = call[d]
  BY DEF Timeout, MeetInv, Domains
<1>4. stage[c] # "off"
  <2>1. Off(Stream(c)) => call[c].at = "none"
    BY StreamFields DEF Off, NoCall, None
  <2> QED
    BY <1>2, <2>1 DEF MeetInv, Streams, StreamOK
<1>5. Domains' /\ lates'[c] # 0 /\ \A d \in Clients : lates'[d] = 0 => lates[d] = 0
  BY <1>2, <1>3 DEF MeetInv, Domains
<1>6. Elsewhere(c)
  BY <1>2, <1>3 DEF MeetInv, Domains, Elsewhere, ServedFor, serverVars
<1>7. StreamOK(c)'
  BY <1>1, <1>2, <1>4, <1>5, StreamThen
<1>8. Arrived'
  BY <1>2, <1>5, NothingArrives
<1> QED
  BY <1>2, <1>4, <1>5, <1>6, <1>7, <1>8, MeetsAgain

LEMMA RxRequestMeets ==
  ASSUME MeetInv, NEW c \in Clients, RxRequest(c)
  PROVE  MeetInv'
<1>1. PICK p, q : p = Stream(c) /\ q = Stream(c)'
  OBVIOUS
<1>2. /\ clients[c].rx = "recv"
      /\ toServer[c] # <<>> /\ Head(toServer[c]).kind = "request"
      /\ toServer' = [toServer EXCEPT ![c] = Tail(@)]
      /\ inbox' \in {[inbox EXCEPT ![c] = Append(@, Head(toServer[c]))], inbox}
      /\ UNCHANGED <<serverVars, clientVars, toClient, served, relayed>>
  BY DEF RxRequest, Reading
<1>3. /\ Domains' /\ toServer'[c] = Tail(toServer[c])
      /\ inbox'[c] \in {inbox[c], Append(inbox[c], Head(toServer[c]))}
  BY <1>2 DEF MeetInv, Domains, clientVars
<1>4. Elsewhere(c)
  BY <1>2 DEF MeetInv, Domains, Elsewhere, ServedFor, serverVars, clientVars
<1>5. /\ p.toServer # <<>> /\ Head(p.toServer).kind = "request"
      /\ q.who = p.who /\ q.stage = p.stage /\ q.call = p.call /\ q.cons = p.cons
      /\ q.packets = p.packets /\ q.toClient = p.toClient /\ q.served = p.served
      /\ q.reads = p.reads /\ q.toServer = Tail(p.toServer)
      /\ q.inbox \in {p.inbox, Append(p.inbox, Head(p.toServer))}
  <2>1. ServedFor(c)' = ServedFor(c) /\ clients' = clients
    BY <1>2, ServerRests
  <2>2. /\ q.inbox = inbox'[c] /\ p.inbox = inbox[c] /\ p.toServer = toServer[c]
        /\ q.toServer = toServer'[c]
    BY <1>1, StreamFields, StreamFieldsThen
  <2> QED
    BY <1>1, <1>2, <1>3, <2>1, <2>2, StreamFields, StreamFieldsThen DEF clientVars
<1>6. (lates[c] = 0 => InTime(p)) /\ (stage[c] = "off" => Off(p))
      /\ (stage[c] = "off" => clients[c].fd # "open")
  <2>1. Quiet(p) => p.toServer = <<>>
    BY DEF Quiet
  <2> QED
    BY <1>1, <1>5, <2>1 DEF MeetInv, Streams, StreamOK
<1>7. StreamOK(c)'
  <2>1. lates'[c] = 0 => InTime(q)
    BY <1>2, <1>5, <1>6, ReadsRequest DEF clientVars
  <2>2. Off(p) => Off(q)
    BY <1>5 DEF Off
  <2> QED
    BY <1>1, <1>2, <1>6, <2>1, <2>2, StreamThen DEF clientVars, serverVars
<1>8. Arrived'
  BY <1>2, NothingArrives DEF clientVars
<1> QED
  BY <1>2, <1>3, <1>4, <1>7, <1>8, MeetsAgain DEF clientVars

\* The server finds the connection that a program's message is meant for.
LEMMA MessageFinds ==
  ASSUME MeetInv, NEW c, NEW p, p = Stream(c), NEW f, Message(p, f), p.reads
  PROVE  /\ {s \in served : s.client = c /\ s.type = ServerLocated(f.id) /\ s.id = f.con} =
              {[client |-> c, type |-> f.for.type, address |-> f.for.address, id |-> f.con]}
         /\ f.for = [type |-> f.for.type, address |-> f.for.address]
<1> DEFINE for == f.for
           s0 == [client |-> c, type |-> for.type, address |-> for.address, id |-> f.con]
<1>1. /\ f = FrontFrame(FrontId(for.type), f.con, [type |-> for.type, address |-> for.address])
      /\ MeantFor(f) \in Connections /\ for.type # 1 /\ Known(p, MeantFor(f))
  BY DEF Message
<1>2. f.id = FrontId(for.type) /\ for = [type |-> for.type, address |-> for.address]
  <2>1. PICK i, k, g : i = FrontId(for.type) /\ k = f.con /\ g = [type |-> for.type, address |-> for.address]
    OBVIOUS
  <2>2. f = [kind |-> "front", id |-> i, con |-> k, for |-> g]
    BY <1>1, <2>1 DEF FrontFrame
  <2>3. f.id = i /\ f.for = g
    BY <2>2
  <2> QED
    BY <2>1, <2>3
<1>3. for.type \in TypeNumbers
  BY <1>1 DEF MeantFor, Connections
<1>4. ServerLocated(f.id) = for.type
  BY <1>1, <1>2, <1>3, TypesAgree
<1>5. s0 \in ServedFor(c)
  BY <1>1, StreamFields DEF Known, MeantFor
<1> HIDE DEF for
<1>6. s0 \in served /\ s0.client = c /\ s0.type = for.type /\ s0.id = f.con
  BY <1>5 DEF ServedFor
<1>7. \A s \in served : s.client = c /\ s.type = for.type /\ s.id = f.con => s = s0
  BY <1>6 DEF MeetInv, Identified
<1> HIDE DEF s0
<1>8. {s \in served : s.client = c /\ s.type = for.type /\ s.id = f.con} = {s0}
  BY <1>6, <1>7
<1> QED
  BY <1>2, <1>4, <1>8 DEF s0, for

LEMMA FromClientMeets ==
  ASSUME MeetInv, NEW c \in Clients, FromClient(c)
  PROVE  MeetInv'
<1>1. PICK p, q : p = Stream(c) /\ q = Stream(c)'
  OBVIOUS
<1> DEFINE f == Head(toServer[c])
           found == {s \in served : s.client = c /\ s.type = ServerLocated(f.id) /\ s.id = f.con}
<1>2. /\ clients[c].rx = "recv" /\ toServer[c] # <<>> /\ f.kind = "front"
      /\ toServer' = [toServer EXCEPT ![c] = Tail(@)]
      /\ UNCHANGED <<serverVars, clientVars, toClient, inbox, served>>
  BY DEF FromClient, Reading, callbackVars
<1>3. relayed' = [client |-> c, sent |-> f.for,
                  got |-> IF found = {} THEN Nobody
                          ELSE LET s == CHOOSE s \in found : TRUE
                               IN [type |-> s.type, address |-> s.address]]
  BY DEF FromClient
<1> HIDE DEF f, found
<1>4. Domains' /\ toServer'[c] = Tail(toServer[c])
  BY <1>2 DEF MeetInv, Domains, clientVars
<1>5. Elsewhere(c)
  BY <1>2 DEF MeetInv, Domains, Elsewhere, ServedFor, serverVars, clientVars
<1>6. /\ p.toServer # <<>> /\ Head(p.toServer) = f /\ p.reads
      /\ q.who = p.who /\ q.stage = p.stage /\ q.call = p.call /\ q.cons = p.cons
      /\ q.packets = p.packets /\ q.toClient = p.toClient /\ q.served = p.served
      /\ q.reads = p.reads /\ q.toServer = Tail(p.toServer) /\ q.inbox = p.inbox
  <2>1. ServedFor(c)' = ServedFor(c) /\ clients' = clients
    BY <1>2, ServerRests
  <2>2. UNCHANGED <<stage, call, cons, packets, toClient, inbox>>
    BY <1>2 DEF clientVars
  <2>3. toServer[c] # <<>> /\ clients[c].rx = "recv" /\ f = Head(toServer[c])
    BY <1>2 DEF f
  <2>4. p.reads /\ q.reads = p.reads
    <3>1. p.reads = (clients[c].rx = "recv") /\ q.reads = (clients'[c].rx = "recv")
      BY <1>1, StreamFields, StreamFieldsThen
    <3> QED
      BY <2>1, <2>3, <3>1
  <2> QED
    BY <1>1, <1>4, <2>1, <2>2, <2>3, <2>4, StreamFields, StreamFieldsThen
<1>7. (lates[c] = 0 => InTime(p)) /\ (stage[c] = "off" => Off(p))
      /\ (stage[c] = "off" => clients[c].fd # "open")
  <2>1. Quiet(p) => p.toServer = <<>>
    BY DEF Quiet
  <2> QED
    BY <1>1, <1>6, <2>1 DEF MeetInv, Streams, StreamOK
<1>8. StreamOK(c)'
  <2>1. lates'[c] = 0 => InTime(q)
    BY <1>2, <1>6, <1>7, ReadsMessage DEF clientVars
  <2>2. Off(p) => Off(q)
    BY <1>6 DEF Off
  <2> QED
    BY <1>1, <1>2, <1>7, <2>1, <2>2, StreamThen DEF clientVars, serverVars
<1>9. lates[c] = 0 => relayed'.got = relayed'.sent
  <2> HAVE lates[c] = 0
  <2>1. IsSeq(p.toServer) /\ Sent(p)
    BY <1>7 DEF InTime, Sent
  <2>2. f = p.toServer[1] /\ 1 \in DOMAIN p.toServer
    BY <1>6, <2>1, Taken
  <2>3. Message(p, f)
    BY <1>2, <2>1, <2>2 DEF Sent
  <2> DEFINE s0 == [client |-> c, type |-> f.for.type, address |-> f.for.address, id |-> f.con]
  <2>4. found = {s0} /\ f.for = [type |-> f.for.type, address |-> f.for.address]
    BY <1>1, <1>6, <2>3, MessageFinds DEF found
  <2>5. s0.type = f.for.type /\ s0.address = f.for.address
    OBVIOUS
  <2> HIDE DEF s0
  <2>6. (CHOOSE s \in found : TRUE) = s0 /\ found # {}
    BY <2>4
  <2>7. relayed' = [client |-> c, sent |-> f.for, got |-> [type |-> s0.type, address |-> s0.address]]
    BY <1>3, <2>6
  <2> QED
    BY <2>4, <2>5, <2>7
<1>10. Arrived'
  <2>1. relayed'.client = c /\ lates' = lates
    BY <1>2, <1>3 DEF clientVars
  <2> QED
    BY <1>9, <2>1 DEF Arrived
<1> QED
  BY <1>2, <1>4, <1>5, <1>8, <1>10, MeetsAgain DEF clientVars

\* The client's receive handler finds the connection that a device's packet is for.
LEMMA PacketFinds ==
  ASSUME NEW f, Packet(f)
  PROVE  /\ Located(f.id) # 0 => Located(f.id) = f.for.type
         /\ f.for = [type |-> f.for.type, address |-> f.for.address]
<1> DEFINE for == f.for
<1>1. /\ f = FrontFrame(ServerFrontId(for.type), f.con, [type |-> for.type, address |-> for.address])
      /\ MeantFor(f) \in Connections
  BY DEF Packet
<1>2. f.id = ServerFrontId(for.type) /\ for = [type |-> for.type, address |-> for.address]
  <2>1. PICK i, k, g : i = ServerFrontId(for.type) /\ k = f.con
                       /\ g = [type |-> for.type, address |-> for.address]
    OBVIOUS
  <2>2. f = [kind |-> "front", id |-> i, con |-> k, for |-> g]
    BY <1>1, <2>1 DEF FrontFrame
  <2>3. f.id = i /\ f.for = g
    BY <2>2
  <2> QED
    BY <2>1, <2>3
<1>3. for.type \in TypeNumbers
  BY <1>1 DEF MeantFor, Connections
<1> QED
  BY <1>2, <1>3, TypesAgree

LEMMA RxDataMeets ==
  ASSUME MeetInv, NEW c \in Clients, RxData(c)
  PROVE  MeetInv'
<1>1. PICK p, q : p = Stream(c) /\ q = Stream(c)'
  OBVIOUS
<1> DEFINE f == Head(toClient[c])
           type == Located(f.id)
           found == {con \in cons[c] : con.type = type /\ con.address = f.for.address}
<1>2. /\ toClient[c] # <<>> /\ f.kind = "front"
      /\ toClient' = [toClient EXCEPT ![c] = Tail(@)]
      /\ UNCHANGED <<serverVars, clientVars, toServer, inbox, served>>
  BY DEF RxData, callbackVars
<1>3. relayed' = IF type = 0 \/ found = {} THEN Nothing
                 ELSE [client |-> c, sent |-> f.for,
                       got |-> [type |-> type, address |-> f.for.address]]
  BY DEF RxData
<1> HIDE DEF f, type, found
<1>4. Domains' /\ toClient'[c] = Tail(toClient[c])
  BY <1>2 DEF MeetInv, Domains, clientVars
<1>5. Elsewhere(c)
  BY <1>2 DEF MeetInv, Domains, Elsewhere, ServedFor, serverVars, clientVars
<1>6. /\ p.toClient # <<>> /\ Head(p.toClient) = f
      /\ q.who = p.who /\ q.stage = p.stage /\ q.call = p.call /\ q.cons = p.cons
      /\ q.packets = p.packets /\ q.toServer = p.toServer /\ q.served = p.served
      /\ q.reads = p.reads /\ q.toClient = Tail(p.toClient) /\ q.inbox = p.inbox
      /\ p.stage = stage[c]
  <2>1. ServedFor(c)' = ServedFor(c) /\ clients' = clients
    BY <1>2, ServerRests
  <2>2. UNCHANGED <<stage, call, cons, packets, toServer, inbox>>
    BY <1>2 DEF clientVars
  <2>3. toClient[c] # <<>> /\ f = Head(toClient[c])
    BY <1>2 DEF f
  <2> QED
    BY <1>1, <1>4, <2>1, <2>2, <2>3, StreamFields, StreamFieldsThen
<1>7. (lates[c] = 0 => InTime(p)) /\ stage[c] # "off"
  <2>1. Off(p) => p.toClient = <<>>
    BY DEF Off
  <2> QED
    BY <1>1, <1>6, <2>1 DEF MeetInv, Streams, StreamOK
<1>8. StreamOK(c)'
  <2>1. lates'[c] = 0 => InTime(q)
    BY <1>2, <1>6, <1>7, PacketArrives DEF clientVars
  <2> QED
    BY <1>1, <1>2, <1>7, <2>1, StreamThen DEF clientVars, serverVars
<1>9. Arrived'
  <2>1. CASE relayed' = Nothing
    BY <2>1, NothingArrives
  <2>2. CASE /\ type # 0
             /\ relayed' = [client |-> c, sent |-> f.for,
                            got |-> [type |-> type, address |-> f.for.address]]
    <3>1. lates[c] = 0 => relayed'.got = relayed'.sent
      <4> HAVE lates[c] = 0
      <4>1. Packet(f)
        BY <1>2, <1>6, <1>7, PacketArrives
      <4> QED
        BY <2>2, <4>1, PacketFinds DEF type
    <3>2. relayed'.client = c /\ lates' = lates
      BY <1>2, <2>2 DEF clientVars
    <3> QED
      BY <3>1, <3>2 DEF Arrived
  <2> QED
    BY <1>3, <2>1, <2>2
<1> QED
  BY <1>2, <1>4, <1>5, <1>8, <1>9, MeetsAgain DEF clientVars

\* A step of the server that nothing of the streams takes part in.
LEMMA SettledMeets ==
  ASSUME MeetInv, LifeTypes', Held', Settled,
         UNCHANGED <<clientVars, linkVars, inbox, served, relayed>>
  PROVE  MeetInv'
<1>1. /\ UNCHANGED <<stage, call, cons, packets, toServer, toClient, inbox, served, relayed>>
      /\ UNCHANGED lates
  BY DEF clientVars, linkVars
<1>2. Structural'
  BY <1>1 DEF Structural, Online, Settled
<1>3. Domains' /\ Identified'
  BY <1>1 DEF MeetInv, Domains, Identified
<1>4. Streams'
  <2> SUFFICES ASSUME NEW c \in Clients PROVE StreamOK(c)'
    BY DEF Streams
  <2>1. PICK p, q : p = Stream(c) /\ q = Stream(c)'
    OBVIOUS
  <2>2. ServedFor(c)' = ServedFor(c)
    BY <1>1 DEF ServedFor
  <2>3. /\ q.who = p.who /\ q.stage = p.stage /\ q.call = p.call /\ q.cons = p.cons
        /\ q.packets = p.packets /\ q.toServer = p.toServer /\ q.toClient = p.toClient
        /\ q.inbox = p.inbox /\ q.served = p.served /\ p.toServer = toServer[c]
    BY <1>1, <2>1, <2>2, StreamFields, StreamFieldsThen
  <2>4. StreamOK(c)
    BY DEF MeetInv, Streams
  <2>5. (Off(p) => Off(q)) /\ (Quiet(p) => Quiet(q))
    BY <2>3 DEF Off, Quiet
  <2>6. stage[c] = "off" /\ clients[c].rx = "none" => Quiet(p)
    BY <2>1, <2>4 DEF StreamOK
  <2>7. q.reads => p.reads \/ p.toServer = <<>>
    <3>1. p.reads = (clients[c].rx = "recv") /\ q.reads = (clients'[c].rx = "recv")
      BY <2>1, StreamFields, StreamFieldsThen
    <3>2. clients'[c].rx = "recv" => clients[c].rx = "recv" \/ p.toServer = <<>>
      BY <2>6 DEF Settled, MeetInv, Structural, Online, Quiet
    <3> QED
      BY <3>1, <3>2
  <2>8. lates[c] = 0 => InTime(q)
    BY <2>1, <2>3, <2>4, <2>7, InTimeKept DEF StreamOK
  <2>9. stage'[c] = "off" /\ (clients'[c].rx = "none" \/ clients'[c].fd = "open") => Quiet(q)
    BY <1>1, <2>1, <2>4, <2>5 DEF Settled, StreamOK
  <2> QED
    BY <1>1, <2>1, <2>4, <2>5, <2>8, <2>9, StreamThen DEF StreamOK
<1>5. Arrived'
  BY <1>1, NothingArrives
<1> QED
  BY <1>2, <1>3, <1>4, <1>5 DEF MeetInv

LEMMA ServerStepMeets ==
  ASSUME MeetInv, ServerStep, UNCHANGED <<clientVars, linkVars, callbackVars, relayed>>
  PROVE  MeetInv'
<1>1. LifeTypes' /\ Held' /\ Settled
  BY ServerStepStructural DEF MeetInv
<1>2. UNCHANGED <<clientVars, linkVars, inbox, served, relayed>>
  BY DEF callbackVars
<1> QED
  BY <1>1, <1>2, SettledMeets

LEMMA SetupMeets ==
  ASSUME MeetInv, SetupBackchannel
  PROVE  MeetInv'
<1>1. LifeTypes' /\ Held' /\ Settled
  BY NewClientStructural DEF MeetInv, SetupBackchannel
<1>2. UNCHANGED <<clientVars, linkVars, inbox, served, relayed>>
  BY DEF SetupBackchannel
<1> QED
  BY <1>1, <1>2, SettledMeets

LEMMA RxEofMeets ==
  ASSUME MeetInv, NEW c \in Clients, RxEof(c)
  PROVE  MeetInv'
<1>1. LifeTypes' /\ Held' /\ Settled
  BY DownStructural DEF MeetInv, RxEof
<1>2. UNCHANGED <<clientVars, linkVars, inbox, served, relayed>>
  BY DEF RxEof, callbackVars
<1> QED
  BY <1>1, <1>2, SettledMeets

LEMMA LeaveSilentMeets ==
  ASSUME MeetInv, NEW c \in Clients, LeaveSilent(c)
  PROVE  MeetInv'
<1>1. /\ stage[c] = "off" /\ LifeTypes' /\ Held' /\ Only(c)
      /\ clients'[c].fd = "eof" /\ clients'[c].rx = clients[c].rx
  BY LeaveStructural DEF MeetInv, LeaveSilent
<1>2. Settled
  BY <1>1, OneSettles DEF MeetInv
<1>3. UNCHANGED <<clientVars, linkVars, inbox, served, relayed>>
  BY DEF LeaveSilent, callbackVars
<1> QED
  BY <1>1, <1>2, <1>3, SettledMeets

LEMMA DisconnectMeets ==
  ASSUME MeetInv, NEW c \in Clients, Disconnect(c)
  PROVE  MeetInv'
<1>1. PICK p, q : p = Stream(c) /\ q = Stream(c)'
  OBVIOUS
<1>2. /\ stage[c] # "off" /\ stage' = [stage EXCEPT ![c] = "off"]
      /\ call' = [call EXCEPT ![c] = NoCall] /\ cons' = [cons EXCEPT ![c] = {}]
      /\ packets' = [packets EXCEPT ![c] = [e \in EndpointNames |-> <<>>]]
      /\ toClient' = [toClient EXCEPT ![c] = <<>>] /\ relayed' = Nothing
      /\ UNCHANGED <<lates, toServer, inbox, served>>
  BY DEF Disconnect, callbackVars
<1>3. /\ LifeTypes' /\ Held' /\ Only(c) /\ clients'[c].fd = "eof"
      /\ clients'[c].rx = clients[c].rx /\ clients[c].rx # "none"
  BY LeaveStructural DEF MeetInv, Disconnect
<1>4. /\ Domains' /\ stage'[c] = "off" /\ call'[c] = NoCall /\ cons'[c] = {}
      /\ packets'[c] = Unread /\ toClient'[c] = <<>>
  BY <1>2 DEF MeetInv, Domains, Unread
<1>5. Elsewhere(c)
  BY <1>2, <1>3 DEF MeetInv, Domains, Elsewhere, ServedFor, Only
<1>6. Structural'
  <2>1. Online'
    BY <1>4, <1>5 DEF MeetInv, Structural, Online, Elsewhere
  <2> QED
    BY <1>3, <2>1 DEF Structural
<1>7. Identified'
  BY <1>2 DEF MeetInv, Identified
<1>8. StreamOK(c)'
  <2>1. /\ q.who = p.who /\ q.stage = "off" /\ q.call = NoCall /\ q.cons = {}
        /\ q.packets = Unread /\ q.toServer = p.toServer /\ q.toClient = <<>>
        /\ q.served = p.served
    <3>1. ServedFor(c)' = ServedFor(c)
      BY <1>2 DEF ServedFor
    <3> QED
      BY <1>1, <1>2, <1>4, <3>1, StreamFields, StreamFieldsThen
  <2>2. q.reads = p.reads
    <3>1. p.reads = (clients[c].rx = "recv") /\ q.reads = (clients'[c].rx = "recv")
      BY <1>1, StreamFields, StreamFieldsThen
    <3> QED
      BY <1>3, <3>1
  <2>3. Off(q)
    BY <2>1 DEF Off
  <2>4. lates[c] = 0 => InTime(q)
    <3>1. lates[c] = 0 => InTime(p)
      BY <1>1 DEF MeetInv, Streams, StreamOK
    <3> QED
      BY <2>1, <2>2, <3>1, KnownGrows DEF InTime, Sent
  <2> QED
    BY <1>1, <1>2, <1>3, <2>3, <2>4, StreamThen
<1>9. Streams'
  BY <1>5, <1>8, OthersThen DEF MeetInv
<1>10. Arrived'
  BY <1>2, NothingArrives
<1> QED
  BY <1>4, <1>6, <1>7, <1>9, <1>10 DEF MeetInv

LEMMA EndConnectionsMeets ==
  ASSUME MeetInv, NEW c \in Clients, EndConnections(c)
  PROVE  MeetInv'
<1>1. PICK p, q : p = Stream(c) /\ q = Stream(c)'
  OBVIOUS
<1>2. /\ clients[c].rx = "connections" /\ clients' = [clients EXCEPT ![c].rx = "done"]
      /\ served' = served \ ServedFor(c)
      /\ UNCHANGED <<clientVars, linkVars, inbox, relayed>>
  BY DEF EndConnections, RxConnections
<1>3. UNCHANGED <<stage, call, lates, cons, packets, toServer, toClient>>
  BY <1>2 DEF clientVars, linkVars
<1>4. LifeTypes' /\ Held' /\ Settled
  BY DownStructural DEF MeetInv, EndConnections
<1>5. Structural' /\ Domains'
  BY <1>2, <1>3, <1>4 DEF MeetInv, Structural, Online, Settled, Domains
<1>6. Identified'
  <2>1. served' \subseteq served
    BY <1>2
  <2> QED
    BY <2>1, FS_Subset DEF MeetInv, Identified
<1>7. stage[c] = "off" /\ clients'[c].rx = "done" /\ clients'[c].fd = clients[c].fd
  BY <1>2 DEF MeetInv, Structural, LifeTypes, Structures, Online
<1>8. Elsewhere(c)
  <2>1. \A d \in Clients \ {c} : ServedFor(d)' = ServedFor(d)
    BY <1>2 DEF ServedFor
  <2>2. \A d \in Clients \ {c} : clients'[d] = clients[d]
    BY <1>2 DEF MeetInv, Structural, LifeTypes
  <2> QED
    BY <1>2, <1>3, <2>1, <2>2 DEF Elsewhere
<1>9. StreamOK(c)'
  <2>1. /\ q.call = p.call /\ q.cons = p.cons /\ q.stage = "off" /\ q.inbox = p.inbox
        /\ q.packets = p.packets /\ q.toServer = p.toServer /\ q.toClient = p.toClient
        /\ q.served \subseteq p.served
    <3>1. ServedFor(c)' \subseteq ServedFor(c)
      BY <1>2 DEF ServedFor
    <3> QED
      BY <1>1, <1>2, <1>3, <1>7, <3>1, StreamFields, StreamFieldsThen
  <2>2. q.reads = FALSE
    <3>1. q.reads = (clients'[c].rx = "recv")
      BY <1>1, StreamFieldsThen
    <3> QED
      BY <1>7, <3>1
  <2>3. (Off(p) => Off(q)) /\ (Quiet(p) => Quiet(q))
    BY <2>1 DEF Off, Quiet
  <2>4. InTime(p) => InTime(q)
    BY <2>1, <2>2 DEF InTime, Sent, Message
  <2>5. StreamOK(c)
    BY DEF MeetInv, Streams
  <2> QED
    BY <1>1, <1>3, <1>7, <2>3, <2>4, <2>5, StreamThen DEF StreamOK
<1>10. Streams'
  BY <1>8, <1>9, OthersThen DEF MeetInv
<1>11. Arrived'
  BY <1>2, <1>3, NothingArrives
<1> QED
  BY <1>5, <1>6, <1>10, <1>11 DEF MeetInv

LEMMA FreeClientMeets ==
  ASSUME MeetInv, NEW a \in Actors, FreeClient(a)
  PROVE  MeetInv'
<1>1. PICK c : c = ending[a]
  OBVIOUS
<1>2. /\ c \in Clients /\ LifeTypes' /\ Held'
      /\ \A d \in Clients \ {c} : clients'[d] = clients[d]
  BY <1>1, EndStructural DEF MeetInv, FreeClient
<1>3. /\ stage' = [stage EXCEPT ![c] = "off"] /\ call' = [call EXCEPT ![c] = NoCall]
      /\ lates' = [lates EXCEPT ![c] = 0] /\ cons' = [cons EXCEPT ![c] = {}]
      /\ packets' = [packets EXCEPT ![c] = [e \in EndpointNames |-> <<>>]]
      /\ toServer' = [toServer EXCEPT ![c] = <<>>] /\ toClient' = [toClient EXCEPT ![c] = <<>>]
      /\ inbox' = [inbox EXCEPT ![c] = <<>>]
      /\ served' = served \ ServedFor(c) /\ relayed' = Nothing
  BY <1>1 DEF FreeClient, Remaining
<1>4. /\ Domains' /\ stage'[c] = "off" /\ call'[c] = NoCall /\ cons'[c] = {}
      /\ packets'[c] = Unread /\ toServer'[c] = <<>> /\ toClient'[c] = <<>> /\ inbox'[c] = <<>>
  BY <1>2, <1>3 DEF MeetInv, Domains, Unread
<1>5. Elsewhere(c)
  <2>1. \A d \in Clients \ {c} : ServedFor(d)' = ServedFor(d)
    BY <1>3 DEF ServedFor
  <2> QED
    BY <1>2, <1>3, <2>1 DEF MeetInv, Domains, Elsewhere
<1>6. Structural'
  <2>1. Online'
    BY <1>4, <1>5 DEF MeetInv, Structural, Online, Elsewhere
  <2> QED
    BY <1>2, <2>1 DEF Structural
<1>7. Identified'
  <2>1. served' \subseteq served
    BY <1>3
  <2> QED
    BY <2>1, FS_Subset DEF MeetInv, Identified
<1>8. StreamOK(c)'
  <2>1. PICK q : q = Stream(c)'
    OBVIOUS
  <2>2. /\ q.stage = "off" /\ q.call = NoCall /\ q.cons = {} /\ q.packets = Unread
        /\ q.toServer = <<>> /\ q.toClient = <<>> /\ q.inbox = <<>> /\ q.served = {}
    <3>1. ServedFor(c)' = {}
      BY <1>3 DEF ServedFor
    <3> QED
      BY <1>4, <2>1, <3>1, StreamFieldsThen
  <2>3. Off(q) /\ Quiet(q)
    BY <2>2 DEF Off, Quiet
  <2>4. InTime(q)
    BY <2>2, <2>3, QuietSent DEF InTime
  <2> QED
    BY <2>1, <2>3, <2>4, StreamThen
<1>9. Streams'
  BY <1>2, <1>5, <1>8, OthersThen DEF MeetInv
<1>10. Arrived'
  BY <1>3, NothingArrives
<1> QED
  BY <1>4, <1>6, <1>7, <1>9, <1>10 DEF MeetInv

LEMMA TwoFields ==
  ASSUME NEW g, NEW c \in DOMAIN g, NEW a, NEW x, NEW h, h = [g EXCEPT ![c].ret = a, ![c].at = x]
  PROVE  /\ DOMAIN h = DOMAIN g /\ \A d \in DOMAIN g \ {c} : h[d] = g[d]
         /\ g[c] = [op |-> g[c].op, con |-> g[c].con, todo |-> g[c].todo,
                    at |-> g[c].at, ret |-> g[c].ret] =>
              h[c] = [op |-> g[c].op, con |-> g[c].con, todo |-> g[c].todo, at |-> x, ret |-> a]
<1>1. PICK m : m = [g EXCEPT ![c].ret = a]
  OBVIOUS
<1>2. h = [m EXCEPT ![c].at = x]
  BY <1>1, Zenon
<1>3. /\ DOMAIN m = DOMAIN g /\ \A d \in DOMAIN g \ {c} : m[d] = g[d]
      /\ m[c] = [g[c] EXCEPT !.ret = a]
  BY <1>1
<1>4. /\ DOMAIN h = DOMAIN g /\ \A d \in DOMAIN g \ {c} : h[d] = g[d]
      /\ h[c] = [m[c] EXCEPT !.at = x]
  <2> HIDE <1>1
  <2>1. c \in DOMAIN m
    BY <1>3
  <2> QED
    BY <1>2, <1>3, <2>1
<1>5. ASSUME g[c] = [op |-> g[c].op, con |-> g[c].con, todo |-> g[c].todo,
                     at |-> g[c].at, ret |-> g[c].ret]
      PROVE  h[c] = [op |-> g[c].op, con |-> g[c].con, todo |-> g[c].todo, at |-> x, ret |-> a]
  <2>1. PICK r, s, t, u, v :
          r = g[c].op /\ s = g[c].con /\ t = g[c].todo /\ u = g[c].at /\ v = g[c].ret
    OBVIOUS
  <2>2. g[c] = [op |-> r, con |-> s, todo |-> t, at |-> u, ret |-> v]
    BY <1>5, <2>1
  <2>3. m[c] = [op |-> r, con |-> s, todo |-> t, at |-> u, ret |-> a]
    BY <1>3, <2>2
  <2>4. h[c] = [op |-> r, con |-> s, todo |-> t, at |-> x, ret |-> a]
    BY <1>4, <2>3
  <2> QED
    BY <2>1, <2>4
<1> QED
  BY <1>4, <1>5

LEMMA RxAnswerMeets ==
  ASSUME MeetInv, NEW c \in Clients, RxAnswer(c)
  PROVE  MeetInv'
<1>1. PICK p, q : p = Stream(c) /\ q = Stream(c)'
  OBVIOUS
<1>2. PICK f : f = Head(toClient[c])
  OBVIOUS
<1>3. PICK x \in {"read", "fail"} : x = IF call[c].op = "start" /\ f.ret # 0 THEN "fail" ELSE "read"
  OBVIOUS
<1>4. /\ toClient[c] # <<>> /\ f.kind = "answer"
      /\ toClient' = [toClient EXCEPT ![c] = Tail(@)]
      /\ UNCHANGED <<serverVars, stage, lates, cons, toServer, inbox, served, relayed>>
  BY <1>2 DEF RxAnswer, callbackVars
<1>5. /\ f.ep = "start" /\ f.data = NoData => packets' = packets
      /\ ~(f.ep = "start" /\ f.data = NoData) =>
           packets' = [packets EXCEPT ![c][f.ep] = Append(@, f.data)]
  BY <1>2 DEF RxAnswer
<1>6. /\ f.late \/ call[c] = NoCall => call' = call
      /\ ~(f.late \/ call[c] = NoCall) => call' = [call EXCEPT ![c].ret = f.ret, ![c].at = x]
  BY <1>2, <1>3, Zenon DEF RxAnswer
<1>7. /\ DOMAIN call = Clients /\ DOMAIN packets = Clients /\ DOMAIN toClient = Clients
  BY DEF MeetInv, Domains
<1>8. DOMAIN packets' = Clients /\ \A d \in Clients \ {c} : packets'[d] = packets[d]
  BY <1>5, <1>7
<1>9. DOMAIN call' = Clients /\ \A d \in Clients \ {c} : call'[d] = call[d]
  BY <1>6, <1>7, TwoFields
<1>10. Domains' /\ toClient'[c] = Tail(toClient[c])
  BY <1>4, <1>8, <1>9 DEF MeetInv, Domains
<1>11. Elsewhere(c)
  BY <1>4, <1>7, <1>8, <1>9 DEF Elsewhere, ServedFor, serverVars
<1>12. /\ f = Head(p.toClient) /\ p.toClient # <<>>
       /\ q.who = p.who /\ q.stage = p.stage /\ q.cons = p.cons /\ q.toServer = p.toServer
       /\ q.inbox = p.inbox /\ q.served = p.served /\ q.reads = p.reads
       /\ q.toClient = Tail(p.toClient) /\ p.call = call[c] /\ q.call = call'[c]
       /\ p.packets = packets[c] /\ q.packets = packets'[c] /\ p.stage = stage[c]
  <2>1. ServedFor(c)' = ServedFor(c) /\ clients' = clients
    BY <1>4, ServerRests
  <2>2. UNCHANGED <<stage, cons, toServer, inbox>> /\ toClient[c] # <<>>
    BY <1>4
  <2> QED
    BY <1>1, <1>2, <1>10, <2>1, <2>2, StreamFields, StreamFieldsThen
<1>13. (lates[c] = 0 => InTime(p)) /\ stage[c] # "off"
  <2>1. Off(p) => p.toClient = <<>>
    BY DEF Off
  <2> QED
    BY <1>1, <1>12, <2>1 DEF MeetInv, Streams, StreamOK
<1>14. lates[c] = 0 => InTime(q)
  <2> HAVE lates[c] = 0
  <2>1. p.call # NoCall => CallOK(p, p.call)
    BY <1>12, <1>13 DEF InTime, Talking
  <2>2. ~f.late /\ p.call # NoCall =>
          q.call = [op |-> p.call.op, con |-> p.call.con, todo |-> p.call.todo, at |-> x, ret |-> f.ret]
    <3> HAVE ~f.late /\ p.call # NoCall
    <3>1. call' = [call EXCEPT ![c].ret = f.ret, ![c].at = x]
      BY <1>6, <1>12
    <3>2. call[c] = [op |-> call[c].op, con |-> call[c].con, todo |-> call[c].todo,
                     at |-> call[c].at, ret |-> call[c].ret]
      BY <1>12, <2>1 DEF CallOK
    <3> QED
      BY <1>7, <1>12, <3>1, <3>2, TwoFields
  <2>3. f.ep = "start" /\ f.data = NoData => q.packets = p.packets
    BY <1>5, <1>12
  <2>4. ~(f.ep = "start" /\ f.data = NoData) =>
          q.packets = [p.packets EXCEPT ![f.ep] = Append(@, f.data)]
    <3> HAVE ~(f.ep = "start" /\ f.data = NoData)
    <3>1. PICK g, e, d : g = packets[c] /\ e = f.ep /\ d = f.data
      OBVIOUS
    <3>2. packets' = [packets EXCEPT ![c][e] = Append(@, d)]
      BY <1>5, <3>1
    <3>3. packets'[c] = [g EXCEPT ![e] = Append(@, d)]
      BY <1>7, <3>1, <3>2
    <3> QED
      BY <1>12, <3>1, <3>3
  <2>5. ~f.late /\ p.call # NoCall =>
          \E y \in {"read", "fail"} : q.call = [op |-> p.call.op, con |-> p.call.con,
                                             todo |-> p.call.todo, at |-> y, ret |-> f.ret]
    BY <2>2
  <2>6. InTime(p) /\ p.stage # "off" /\ f.kind = "answer"
    BY <1>4, <1>12, <1>13
  <2> QED
    BY <1>12, <2>3, <2>4, <2>5, <2>6, AnswerArrives, ZenonT(60)
<1>15. StreamOK(c)'
  BY <1>1, <1>4, <1>13, <1>14, StreamThen
<1>16. Arrived'
  BY <1>4, NothingArrives
<1> QED
  BY <1>4, <1>10, <1>11, <1>13, <1>15, <1>16, MeetsAgain

LEMMA ToClientMeets ==
  ASSUME MeetInv, NEW t \in served, ToClient(t)
  PROVE  MeetInv'
<1>1. PICK c : c = t.client
  OBVIOUS
<1>2. PICK p, q : p = Stream(c) /\ q = Stream(c)'
  OBVIOUS
<1> DEFINE for == [type |-> t.type, address |-> t.address]
           f == FrontFrame(ServerFrontId(t.type), t.id, for)
<1>3. /\ clients[c].fd = "open" /\ toClient' = [toClient EXCEPT ![c] = Append(@, f)]
      /\ UNCHANGED <<serverVars, clientVars, toServer, inbox, served, relayed>>
  BY <1>1 DEF ToClient, callbackVars
<1>4. c \in Clients /\ t \in ServedFor(c) /\ t.id \in Nat
  BY <1>1 DEF MeetInv, Identified, ServedFor
<1>5. /\ f.kind = "front" /\ f.for = for /\ f.con = t.id
      /\ MeantFor(f) = [type |-> t.type, address |-> t.address, id |-> t.id]
      /\ f.for.type = t.type /\ f.for.address = t.address
  BY DEF FrontFrame, MeantFor
<1>6. t.type \in TypeNumbers /\ t.address \in Addresses => Packet(f)
  BY <1>4, <1>5 DEF Packet, Connections
<1> HIDE DEF f
<1>7. Domains' /\ toClient'[c] = Append(toClient[c], f)
  BY <1>3, <1>4 DEF MeetInv, Domains, clientVars
<1>8. Elsewhere(c)
  BY <1>3 DEF MeetInv, Domains, Elsewhere, ServedFor, serverVars, clientVars
<1>9. /\ q.who = p.who /\ q.stage = p.stage /\ q.call = p.call /\ q.cons = p.cons
      /\ q.packets = p.packets /\ q.toServer = p.toServer /\ q.served = p.served
      /\ q.reads = p.reads /\ q.toClient = Append(p.toClient, f) /\ q.inbox = p.inbox
      /\ p.stage = stage[c] /\ p.served = ServedFor(c)
  <2>1. ServedFor(c)' = ServedFor(c) /\ clients' = clients
    BY <1>3, ServerRests
  <2>2. UNCHANGED <<stage, call, cons, packets, toServer, inbox>>
    BY <1>3 DEF clientVars
  <2> QED
    BY <1>2, <1>7, <2>1, <2>2, StreamFields, StreamFieldsThen
<1>10. (lates[c] = 0 => InTime(p)) /\ stage[c] # "off"
  <2>1. Quiet(p) => p.served = {}
    BY DEF Quiet
  <2> QED
    BY <1>2, <1>3, <1>4, <1>9, <2>1 DEF MeetInv, Streams, StreamOK
<1>11. StreamOK(c)'
  <2>1. lates[c] = 0 => InTime(q)
    <3> HAVE lates[c] = 0
    <3>1. t.type \in TypeNumbers /\ t.address \in Addresses
      BY <1>4, <1>9, <1>10 DEF InTime, Talking, Heard
    <3> QED
      BY <1>5, <1>6, <1>9, <1>10, <3>1, PacketComes
  <2> QED
    BY <1>2, <1>3, <1>10, <2>1, StreamThen DEF clientVars
<1>12. Arrived'
  BY <1>3, NothingArrives DEF clientVars
<1> QED
  BY <1>3, <1>4, <1>7, <1>8, <1>10, <1>11, <1>12, MeetsAgain DEF clientVars

First(s, ep) == SelectInSeq(s, LAMBDA r : r.ep = ep)

LEMMA FirstOfOne ==
  ASSUME NEW s, IsSeq(s), NEW ep, First(s, ep) # 0
  PROVE  /\ s # <<>>
         /\ Len(s) = 1 => First(s, ep) = 1 /\ RemoveAt(s, 1) = <<>> /\ s[1].ep = ep
<1>1. PICK S : s \in Seq(S)
  BY SeqIn
<1>2. s # <<>>
  BY <1>1 DEF First, SelectInSeq
<1>3. ASSUME Len(s) = 1
      PROVE  First(s, ep) = 1 /\ s[1].ep = ep /\ RemoveAt(s, 1) = <<>>
  BY <1>1, <1>3 DEF First, SelectInSeq, RemoveAt, Min
<1> QED
  BY <1>2, <1>3

\* The requests that a callback looks through.
LEMMA NothingToTake ==
  ASSUME NEW c, NEW ep, inbox[c] = <<>>
  PROVE  FirstFor(c, ep) = 0
BY DEF FirstFor, SelectInSeq

LEMMA RequestTaken ==
  ASSUME MeetInv, NEW c \in Clients, NEW ep, FirstFor(c, ep) # 0, stage[c] # "off", lates[c] = 0
  PROVE  /\ CallOK(Stream(c), call[c]) /\ Head(call[c].todo) = ep
         /\ Asking(c, ep) = TheRequest(call[c]) /\ Heard(Stream(c))
         /\ FirstFor(c, ep) = 1 /\ RemoveAt(inbox[c], 1) = <<>>
<1>1. PICK p : p = Stream(c)
  OBVIOUS
<1>2. InTime(p) /\ p.stage = stage[c] /\ p.call = call[c] /\ p.inbox = inbox[c]
  BY <1>1, StreamFields DEF MeetInv, Streams, StreamOK
<1>3. p.inbox # <<>>
  BY <1>2, NothingToTake
<1>4. CallOK(p, p.call) /\ inbox[c] = <<TheRequest(call[c])>> /\ Heard(p)
  BY <1>2, <1>3, RequestIsThere
<1>5. PICK r : r = TheRequest(call[c])
  OBVIOUS
<1>6. PICK s : s = inbox[c]
  OBVIOUS
<1>7. s = <<r>>
  BY <1>4, <1>5, <1>6
<1>8. s \in Seq({r}) /\ Len(s) = 1 /\ s[1] = r
  BY <1>7
<1>9. IsSeq(s)
  BY <1>8, SeqIsSeq
<1>10. FirstFor(c, ep) = First(s, ep)
  BY <1>6 DEF FirstFor, First
<1>11. FirstFor(c, ep) = 1 /\ RemoveAt(s, 1) = <<>> /\ s[1].ep = ep
  BY <1>8, <1>9, <1>10, FirstOfOne
<1>12. r.ep = Head(call[c].todo)
  BY <1>5 DEF TheRequest, Request
<1> QED
  BY <1>1, <1>2, <1>4, <1>5, <1>6, <1>8, <1>11, <1>12 DEF Asking

\* A callback takes its request, and may answer it.
LEMMA CallbackMeets ==
  ASSUME MeetInv, NEW c \in Clients, NEW ep, FirstFor(c, ep) # 0,
         UNCHANGED <<serverVars, clientVars, toServer, relayed>>,
         DOMAIN inbox' = Clients, DOMAIN toClient' = Clients, Identified', served \subseteq served',
         \A d \in Clients \ {c} : /\ inbox'[d] = inbox[d] /\ toClient'[d] = toClient[d]
                                  /\ ServedFor(d)' = ServedFor(d),
         clients[c].fd # "open" => toClient'[c] = toClient[c],
         lates[c] = 0 /\ stage[c] # "off" =>
           /\ inbox'[c] = <<>>
           /\ \A s \in ServedFor(c)' : s.type \in TypeNumbers /\ s.address \in Addresses
           /\ \/ toClient'[c] = toClient[c]
              \/ \E f : toClient'[c] = Append(toClient[c], f) /\ TheAnswer(Stream(c)', f)
  PROVE  MeetInv'
<1>1. PICK p, q : p = Stream(c) /\ q = Stream(c)'
  OBVIOUS
<1>2. /\ UNCHANGED <<stage, call, lates, cons, packets, toServer>>
      /\ clients' = clients /\ relayed' = relayed
  BY DEF clientVars, serverVars
<1>3. Structural' /\ Domains'
  <2>1. LifeTypes' /\ Held' /\ Online'
    BY <1>2 DEF MeetInv, Structural, LifeTypes, Held, Online, serverVars
  <2> QED
    BY <1>2, <2>1 DEF MeetInv, Structural, Domains
<1>4. Elsewhere(c)
  BY <1>2 DEF Elsewhere
<1>5. /\ q.who = p.who /\ q.stage = p.stage /\ q.call = p.call /\ q.cons = p.cons
      /\ q.packets = p.packets /\ q.toServer = p.toServer /\ q.reads = p.reads
      /\ p.served \subseteq q.served /\ p.stage = stage[c]
      /\ p.inbox = inbox[c] /\ q.inbox = inbox'[c]
      /\ p.toClient = toClient[c] /\ q.toClient = toClient'[c] /\ q.served = ServedFor(c)'
  <2>1. ServedFor(c) \subseteq ServedFor(c)'
    BY DEF ServedFor
  <2> QED
    BY <1>1, <1>2, <2>1, StreamFields, StreamFieldsThen
<1>6. p.inbox # <<>>
  BY <1>5, NothingToTake
<1>7. /\ lates[c] = 0 => InTime(p)
      /\ stage[c] = "off" => Off(p) /\ clients[c].rx # "none" /\ clients[c].fd # "open"
  <2>1. Quiet(p) => p.inbox = <<>>
    BY DEF Quiet
  <2> QED
    BY <1>1, <1>6, <2>1 DEF MeetInv, Streams, StreamOK
<1>8. StreamOK(c)'
  <2>1. stage[c] = "off" => Off(q)
    BY <1>5, <1>7 DEF Off
  <2>2. lates[c] = 0 => InTime(q)
    <3> HAVE lates[c] = 0
    <3>1. CASE stage[c] = "off"
      <4>1. Sent(q)
        BY <1>5, <1>7, KnownGrows DEF InTime, Sent
      <4> QED
        BY <1>5, <3>1, <4>1 DEF InTime
    <3>2. CASE stage[c] # "off"
      <4>1. /\ q.inbox = <<>> /\ InTime(p)
            /\ \A s \in q.served : s.type \in TypeNumbers /\ s.address \in Addresses
            /\ \/ q.toClient = p.toClient
               \/ \E f : q.toClient = Append(p.toClient, f) /\ TheAnswer(q, f)
        BY <1>1, <1>5, <1>7, <3>2
      <4> QED
        BY <1>5, <1>6, <3>2, <4>1, Replies
    <3> QED
      BY <3>1, <3>2
  <2> QED
    BY <1>1, <1>2, <1>7, <2>1, <2>2, StreamThen
<1>9. Streams'
  BY <1>4, <1>8, OthersThen DEF MeetInv
<1>10. Arrived'
  BY <1>2, NothingArrives
<1> QED
  BY <1>3, <1>9, <1>10 DEF MeetInv

LEMMA IgnoredMeets ==
  ASSUME MeetInv, NEW c \in Clients, NEW ep, Ignored(c, ep)
  PROVE  MeetInv'
<1>1. /\ FirstFor(c, ep) # 0 /\ inbox' = [inbox EXCEPT ![c] = RemoveAt(@, FirstFor(c, ep))]
      /\ UNCHANGED <<serverVars, clientVars, toServer, relayed>> /\ UNCHANGED <<toClient, served>>
  BY DEF Ignored, Rest, linkVars
<1>2. /\ DOMAIN inbox' = Clients /\ DOMAIN toClient' = Clients /\ Identified'
      /\ inbox'[c] = RemoveAt(inbox[c], FirstFor(c, ep))
      /\ \A d \in Clients \ {c} : inbox'[d] = inbox[d]
      /\ \A d \in Clients : ServedFor(d)' = ServedFor(d)
  BY <1>1 DEF MeetInv, Domains, Identified, ServedFor
<1>3. ASSUME lates[c] = 0, stage[c] # "off"
      PROVE  /\ inbox'[c] = <<>>
             /\ \A s \in ServedFor(c)' : s.type \in TypeNumbers /\ s.address \in Addresses
  BY <1>1, <1>2, <1>3, RequestTaken, StreamFields DEF Heard
<1> QED
  BY <1>1, <1>2, <1>3, CallbackMeets

LEMMA ReplyGoes ==
  ASSUME MeetInv, NEW c \in Clients, NEW f, Reply(c, f)
  PROVE  /\ DOMAIN toClient' = Clients
         /\ \A d \in Clients \ {c} : toClient'[d] = toClient[d]
         /\ clients[c].fd # "open" => toClient'[c] = toClient[c]
         /\ toClient'[c] = toClient[c] \/ toClient'[c] = Append(toClient[c], f)
BY DEF Reply, MeetInv, Domains

LEMMA RestOfInbox ==
  ASSUME MeetInv, NEW c \in Clients, NEW ep, FirstFor(c, ep) # 0, inbox' = Rest(c, ep)
  PROVE  /\ DOMAIN inbox' = Clients /\ \A d \in Clients \ {c} : inbox'[d] = inbox[d]
         /\ lates[c] = 0 /\ stage[c] # "off" => inbox'[c] = <<>>
<1>1. /\ DOMAIN inbox' = Clients /\ inbox'[c] = RemoveAt(inbox[c], FirstFor(c, ep))
      /\ \A d \in Clients \ {c} : inbox'[d] = inbox[d]
  BY DEF Rest, MeetInv, Domains
<1> QED
  BY <1>1, RequestTaken

\* An answer that gives no identifier.
LEMMA ReplyMeets ==
  ASSUME MeetInv, NEW c \in Clients, NEW ep, ep # "conNew", Takes(c, ep), UNCHANGED served,
         NEW ret, NEW data, Reply(c, Answer(Asking(c, ep), ret, data)),
         DOMAIN inbox' = Clients, \A d \in Clients \ {c} : inbox'[d] = inbox[d],
         lates[c] = 0 /\ stage[c] # "off" => inbox'[c] = <<>>
  PROVE  MeetInv'
<1>1. FirstFor(c, ep) # 0 /\ UNCHANGED <<serverVars, clientVars, toServer, relayed>>
  BY DEF Takes
<1>2. PICK f : f = Answer(Asking(c, ep), ret, data)
  OBVIOUS
<1>3. /\ DOMAIN toClient' = Clients
      /\ \A d \in Clients \ {c} : toClient'[d] = toClient[d]
      /\ clients[c].fd # "open" => toClient'[c] = toClient[c]
      /\ toClient'[c] = toClient[c] \/ toClient'[c] = Append(toClient[c], f)
  BY <1>2, ReplyGoes
<1>4. Identified' /\ \A d \in Clients : ServedFor(d)' = ServedFor(d)
  BY DEF MeetInv, Identified, ServedFor
<1>5. ASSUME lates[c] = 0, stage[c] # "off"
      PROVE  /\ \A s \in ServedFor(c)' : s.type \in TypeNumbers /\ s.address \in Addresses
             /\ TheAnswer(Stream(c)', f)
  <2>1. /\ Head(call[c].todo) = ep /\ Asking(c, ep) = TheRequest(call[c]) /\ Heard(Stream(c))
    BY <1>1, <1>5, RequestTaken
  <2>2. \A s \in ServedFor(c)' : s.type \in TypeNumbers /\ s.address \in Addresses
    BY <1>4, <2>1, StreamFields DEF Heard
  <2>3. PICK q : q = Stream(c)'
    OBVIOUS
  <2>4. q.call = call[c]
    BY <1>1, <2>3, StreamFieldsThen DEF clientVars
  <2>5. f.kind = "answer" /\ f.ep = ep /\ f.late = FALSE
    BY <1>2, <2>1 DEF Answer, TheRequest, Request
  <2>6. Says(q, f.data)
    BY <2>1, <2>4 DEF Says
  <2>7. TheAnswer(q, f)
    BY <2>1, <2>4, <2>5, <2>6 DEF TheAnswer
  <2> QED
    BY <2>2, <2>3, <2>7
<1> QED
  BY <1>1, <1>3, <1>4, <1>5, CallbackMeets

LEMMA AnswersMeet ==
  ASSUME MeetInv, NEW c \in Clients,
         NetStartBegins(c) \/ NetConGetTypes(c) \/ NetConValidate(c) \/ NetConSleep(c)
         \/ NetConSettings(c)
  PROVE  MeetInv'
<1>1. CASE NetStartBegins(c)
  <2>1. Takes(c, "start") /\ inbox' = Rest(c, "start") /\ UNCHANGED served
    BY <1>1 DEF NetStartBegins
  <2>2. \E ret, data : Reply(c, Answer(Asking(c, "start"), ret, data))
    BY <1>1 DEF NetStartBegins
  <2> QED
    BY <2>1, <2>2, RestOfInbox, ReplyMeets DEF Takes
<1>2. CASE NetConGetTypes(c)
  <2>1. Takes(c, "conGetTypes") /\ inbox' = Rest(c, "conGetTypes") /\ UNCHANGED served
    BY <1>2 DEF NetConGetTypes
  <2>2. \E ret, data : Reply(c, Answer(Asking(c, "conGetTypes"), ret, data))
    BY <1>2 DEF NetConGetTypes
  <2> QED
    BY <2>1, <2>2, RestOfInbox, ReplyMeets DEF Takes
<1>3. CASE NetConValidate(c)
  <2>1. Takes(c, "conValidate") /\ inbox' = Rest(c, "conValidate") /\ UNCHANGED served
    BY <1>3 DEF NetConValidate
  <2>2. \E ret, data : Reply(c, Answer(Asking(c, "conValidate"), ret, data))
    BY <1>3 DEF NetConValidate
  <2> QED
    BY <2>1, <2>2, RestOfInbox, ReplyMeets DEF Takes
<1>4. CASE NetConSleep(c)
  <2>1. Takes(c, "conSleep") /\ inbox' = Rest(c, "conSleep") /\ UNCHANGED served
    BY <1>4 DEF NetConSleep
  <2>2. \E ret, data : Reply(c, Answer(Asking(c, "conSleep"), ret, data))
    BY <1>4 DEF NetConSleep
  <2> QED
    BY <2>1, <2>2, RestOfInbox, ReplyMeets DEF Takes
<1>5. CASE NetConSettings(c)
  <2>1. Takes(c, "conSettings") /\ inbox' = Rest(c, "conSettings") /\ UNCHANGED served
    BY <1>5 DEF NetConSettings
  <2>2. \E ret, data : Reply(c, Answer(Asking(c, "conSettings"), ret, data))
    BY <1>5 DEF NetConSettings
  <2> QED
    BY <2>1, <2>2, RestOfInbox, ReplyMeets DEF Takes
<1> QED
  BY <1>1, <1>2, <1>3, <1>4, <1>5

LEMMA NoOthers ==
  ASSUME NEW s, s = <<>>, NEW ep
  PROVE  Others(s, ep) = <<>>
<1> DEFINE F(g, i) == IF i = 0 THEN <<>>
                      ELSE IF s[i].ep = ep THEN g[i - 1] ELSE Append(g[i - 1], s[i])
           G(g) == g = [i \in 0..Len(s) |-> F(g, i)]
<1>1. Len(s) = 0
  OBVIOUS
<1>2. G([i \in {0} |-> <<>>])
  BY <1>1, SMT
<1>3. G(CHOOSE g : G(g))
  BY <1>2
<1>4. (CHOOSE g : G(g))[0] = <<>>
  BY <1>1, <1>3
<1>5. Others(s, ep) = (CHOOSE g : G(g))[0]
  BY <1>1 DEF Others
<1> QED
  BY <1>4, <1>5

LEMMA NetConEndMeets ==
  ASSUME MeetInv, NEW c \in Clients, NetConEnd(c)
  PROVE  MeetInv'
<1>1. Takes(c, "conEnd") /\ UNCHANGED served /\ FirstFor(c, "conEnd") # 0
  BY DEF NetConEnd, Takes
<1>2. \E ret, data : Reply(c, Answer(Asking(c, "conEnd"), ret, data))
  BY DEF NetConEnd
<1>3. \/ inbox' = Rest(c, "conEnd")
      \/ \E e : inbox' = [inbox EXCEPT ![c] = Others(RemoveAt(@, FirstFor(c, "conEnd")), e)]
  BY DEF NetConEnd
<1>4. CASE inbox' = Rest(c, "conEnd")
  BY <1>1, <1>2, <1>4, RestOfInbox, ReplyMeets
<1>5. CASE \E e : inbox' = [inbox EXCEPT ![c] = Others(RemoveAt(@, FirstFor(c, "conEnd")), e)]
  <2>1. PICK e : inbox' = [inbox EXCEPT ![c] = Others(RemoveAt(@, FirstFor(c, "conEnd")), e)]
    BY <1>5
  <2>2. /\ DOMAIN inbox' = Clients /\ \A d \in Clients \ {c} : inbox'[d] = inbox[d]
        /\ inbox'[c] = Others(RemoveAt(inbox[c], FirstFor(c, "conEnd")), e)
    BY <2>1 DEF MeetInv, Domains
  <2>3. lates[c] = 0 /\ stage[c] # "off" => inbox'[c] = <<>>
    BY <1>1, <2>2, RequestTaken, NoOthers
  <2> QED
    BY <1>1, <1>2, <2>2, <2>3, ReplyMeets
<1> QED
  BY <1>3, <1>4, <1>5

LEMMA NetStartsMeets ==
  ASSUME MeetInv, NEW c \in Clients, NetStarts(c)
  PROVE  MeetInv'
<1>1. /\ UNCHANGED <<netUp, user, server, newClient, clients, clientList, deadList, ending>>
      /\ UNCHANGED <<clientVars, linkVars, inbox, served, relayed>>
  BY DEF NetStarts, serverVars
<1>2. LifeTypes' /\ Held' /\ Settled
  BY <1>1, UnmovedSettles DEF MeetInv, Structural, LifeTypes, Held
<1> QED
  BY <1>1, <1>2, SettledMeets

\* A connection is made.
LEMMA NetConNewMeets ==
  ASSUME MeetInv, NEW c \in Clients, NetConNew(c)
  PROVE  MeetInv'
<1> DEFINE r == Asking(c, "conNew")
           con == r.arg.con
           id == FreeIdentifier(con)
           t == [client |-> c, type |-> con.type, address |-> con.address, id |-> id]
<1>1. /\ Takes(c, "conNew") /\ FirstFor(c, "conNew") # 0 /\ inbox' = Rest(c, "conNew")
      /\ UNCHANGED <<serverVars, clientVars, toServer, relayed>>
  BY DEF NetConNew, Takes
<1>2. PICK f :
        \/ f = Answer(r, 1, NoData) /\ Reply(c, f) /\ UNCHANGED served
        \/ f = Answer(r, 0, <<id>>) /\ Reply(c, f) /\ served' = served \cup {t}
  BY DEF NetConNew
<1>3. /\ DOMAIN toClient' = Clients
      /\ \A d \in Clients \ {c} : toClient'[d] = toClient[d]
      /\ clients[c].fd # "open" => toClient'[c] = toClient[c]
      /\ toClient'[c] = toClient[c] \/ toClient'[c] = Append(toClient[c], f)
  BY <1>2, ReplyGoes
<1>4. id \in Nat /\ \A s \in served : s.type = con.type => s.id # id
  BY IdentifierIsFree DEF MeetInv, Identified
<1>5. Identified'
  <2>1. CASE UNCHANGED served
    BY <2>1 DEF MeetInv, Identified
  <2>2. CASE served' = served \cup {t}
    <3>1. IsFiniteSet(served')
      BY <2>2, FS_AddElement DEF MeetInv, Identified
    <3>2. t.client = c /\ t.type = con.type /\ t.id = id /\ t.address = con.address
      OBVIOUS
    <3> HIDE DEF id, con, r
    <3>3. \A s \in served' :
            /\ s = [client |-> s.client, type |-> s.type, address |-> s.address, id |-> s.id]
            /\ s.client \in Clients /\ s.id \in Nat
      BY <1>4, <2>2, <3>2 DEF MeetInv, Identified
    <3> HIDE DEF t
    <3>4. \A s, u \in served' : s.type = u.type /\ s.id = u.id => s = u
      BY <1>4, <2>2, <3>2 DEF MeetInv, Identified
    <3> QED
      BY <3>1, <3>3, <3>4 DEF Identified
  <2> QED
    BY <1>2, <2>1, <2>2
<1>6. served \subseteq served' /\ \A d \in Clients \ {c} : ServedFor(d)' = ServedFor(d)
  <2>1. t.client = c
    OBVIOUS
  <2> HIDE DEF t
  <2> QED
    BY <1>2, <2>1 DEF ServedFor
<1>7. ASSUME lates[c] = 0, stage[c] # "off"
      PROVE  /\ \A s \in ServedFor(c)' : s.type \in TypeNumbers /\ s.address \in Addresses
             /\ TheAnswer(Stream(c)', f)
  <2>1. PICK p, q : p = Stream(c) /\ q = Stream(c)'
    OBVIOUS
  <2>2. PICK k : k = call[c]
    OBVIOUS
  <2>3. CallOK(p, k) /\ Head(k.todo) = "conNew" /\ r = TheRequest(k) /\ Heard(p)
    BY <1>1, <1>7, <2>1, <2>2, RequestTaken
  <2>4. con = k.con /\ r.ep = "conNew" /\ r.late = FALSE
    BY <2>3 DEF TheRequest, Request, Argument
  <2>5. con \in Connections
    <3>1. k.op # "start"
      BY <2>3, StepFacts DEF CallOK
    <3> QED
      BY <2>3, <2>4, <3>1 DEF CallOK
  <2>6. q.call = k /\ q.who = c /\ q.served = ServedFor(c)' /\ p.served = ServedFor(c)
    BY <1>1, <2>1, <2>2, StreamFields, StreamFieldsThen DEF clientVars
  <2> HIDE DEF r, con, id
  <2>7. t.client = c /\ t.type = con.type /\ t.address = con.address
    OBVIOUS
  <2>8. con.type \in TypeNumbers /\ con.address \in Addresses
    BY <2>5 DEF Connections
  <2>9. \A s \in ServedFor(c)' : s.type \in TypeNumbers /\ s.address \in Addresses
    <3> HIDE DEF t
    <3>1. \A s \in ServedFor(c) : s.type \in TypeNumbers /\ s.address \in Addresses
      BY <2>3, <2>6 DEF Heard
    <3>2. \A s \in ServedFor(c)' : s \in ServedFor(c) \/ s = t
      BY <1>2 DEF ServedFor
    <3> QED
      BY <2>7, <2>8, <3>1, <3>2
  <2>10. f.kind = "answer" /\ f.ep = "conNew" /\ f.late = FALSE
    BY <1>2, <2>4 DEF Answer
  <2>11. Says(q, f.data)
    <3>1. CASE f = Answer(r, 1, NoData)
      BY <3>1 DEF Answer, Says
    <3>2. CASE f = Answer(r, 0, <<id>>) /\ served' = served \cup {t}
      <4>1. f.data = <<id>> /\ f.data[1] = id
        BY <3>2 DEF Answer
      <4>2. t \in ServedFor(c)'
        BY <2>7, <3>2 DEF ServedFor
      <4>3. PICK con2 : con2 = [con EXCEPT !.id = id]
        OBVIOUS
      <4>4. con2.type = con.type /\ con2.address = con.address /\ con2.id = id
        BY <2>5, <4>3 DEF Connections
      <4>5. Known(q, con2)
        BY <2>6, <4>2, <4>4 DEF Known
      <4> QED
        BY <1>4, <2>4, <2>6, <4>1, <4>3, <4>5 DEF Says
    <3> QED
      BY <1>2, <3>1, <3>2
  <2>12. TheAnswer(q, f)
    BY <2>3, <2>6, <2>10, <2>11 DEF TheAnswer
  <2> QED
    BY <2>1, <2>9, <2>12
<1>8. /\ DOMAIN inbox' = Clients /\ \A d \in Clients \ {c} : inbox'[d] = inbox[d]
      /\ lates[c] = 0 /\ stage[c] # "off" => inbox'[c] = <<>>
  BY <1>1, RestOfInbox
<1> QED
  BY <1>1, <1>3, <1>5, <1>6, <1>7, <1>8, CallbackMeets

LEMMA CallMoves ==
  ASSUME NEW p, NEW k, CallOK(p, k), NEW todo, <<k.op, todo>> \in Steps,
         NEW at \in {"wait", "read", "fail"}, NEW ret
  PROVE  CallOK(p, [op |-> k.op, con |-> k.con, todo |-> todo, at |-> at, ret |-> ret])
<1>1. PICK j : j = [op |-> k.op, con |-> k.con, todo |-> todo, at |-> at, ret |-> ret]
  OBVIOUS
<1>2. j.op = k.op /\ j.con = k.con /\ j.todo = todo /\ j.at = at /\ j.ret = ret
  BY <1>1
<1>3. j = [op |-> j.op, con |-> j.con, todo |-> j.todo, at |-> j.at, ret |-> j.ret]
  BY <1>1, <1>2
<1>4. CallOK(p, j)
  BY <1>2, <1>3 DEF CallOK
<1> QED
  BY <1>1, <1>4

LEMMA SendParts ==
  ASSUME MeetInv, NEW c \in Clients, NEW k, Send(c, k)
  PROVE  /\ DOMAIN toServer' = Clients /\ DOMAIN call' = Clients
         /\ \A d \in Clients \ {c} : toServer'[d] = toServer[d] /\ call'[d] = call[d]
         /\ Head(k.todo) # "data" =>
              /\ toServer'[c] = Append(toServer[c], TheRequest(k))
              /\ k = [op |-> k.op, con |-> k.con, todo |-> k.todo, at |-> k.at, ret |-> k.ret] =>
                   call'[c] = [op |-> k.op, con |-> k.con, todo |-> k.todo, at |-> "wait", ret |-> 0]
         /\ Head(k.todo) = "data" =>
              /\ toServer'[c] = Append(toServer[c], FrontFrame(FrontId(k.con.type), k.con.id,
                                       [type |-> k.con.type, address |-> k.con.address]))
              /\ call'[c] = NoCall
<1>1. DOMAIN toServer = Clients /\ DOMAIN call = Clients
  BY DEF MeetInv, Domains
<1>2. CASE Head(k.todo) = "data"
  <2>1. /\ toServer' = [toServer EXCEPT ![c] =
             Append(@, FrontFrame(FrontId(k.con.type), k.con.id,
                                  [type |-> k.con.type, address |-> k.con.address]))]
        /\ call' = [call EXCEPT ![c] = NoCall]
    BY <1>2 DEF Send, SendData
  <2> QED
    BY <1>1, <1>2, <2>1
<1>3. CASE Head(k.todo) # "data"
  <2>1. PICK j : j = [k EXCEPT !.at = "wait", !.ret = 0]
    OBVIOUS
  <2>2. /\ toServer' = [toServer EXCEPT ![c] = Append(@, TheRequest(k))]
        /\ call' = [call EXCEPT ![c] = j]
    <3>1. SendRequest(c, k)
      BY <1>3 DEF Send
    <3>2. call' = [call EXCEPT ![c] = j]
      BY <2>1, <3>1, Zenon DEF SendRequest
    <3>3. toServer' = [toServer EXCEPT ![c] = Append(@, TheRequest(k))]
      BY <3>1, Zenon DEF SendRequest, TheRequest
    <3> QED
      BY <3>2, <3>3
  <2>3. k = [op |-> k.op, con |-> k.con, todo |-> k.todo, at |-> k.at, ret |-> k.ret] =>
          j = [op |-> k.op, con |-> k.con, todo |-> k.todo, at |-> "wait", ret |-> 0]
    BY <2>1, WaitShape, Zenon
  <2> HIDE <2>1
  <2>4. /\ DOMAIN toServer' = Clients /\ DOMAIN call' = Clients
        /\ \A d \in Clients \ {c} : toServer'[d] = toServer[d] /\ call'[d] = call[d]
        /\ toServer'[c] = Append(toServer[c], TheRequest(k)) /\ call'[c] = j
    BY <1>1, <2>2
  <2> QED
    BY <1>3, <2>3, <2>4
<1> QED
  BY <1>2, <1>3

LEMMA SameRequest ==
  ASSUME NEW k, NEW j, j.todo = k.todo, j.op = k.op, j.con = k.con
  PROVE  TheRequest(j) = TheRequest(k)
BY DEF TheRequest, Argument

LEMMA BeginMeets ==
  ASSUME MeetInv, NEW c \in Clients, Begin(c)
  PROVE  MeetInv'
<1>1. PICK p, q : p = Stream(c) /\ q = Stream(c)'
  OBVIOUS
<1>2. /\ stage[c] = "up" /\ call[c] = NoCall
      /\ UNCHANGED <<serverVars, stage, lates, cons, packets, toClient, inbox, served, relayed>>
  BY DEF Begin, callbackVars
<1>3. PICK op, con :
        /\ op \in ProgramCalls /\ Send(c, Ask(op, con))
        /\ \/ op = "new" /\ con \in Connections
           \/ op # "new" /\ con \in cons[c] /\ (op = "tx" => Types[con.type].tx)
  <2>1. Calls[c] \subseteq ProgramCalls
    BY CallsAssumption DEF CallsAssumption
  <2>2. CASE "new" \in Calls[c] /\ \E t \in TypeNumbers, a \in Addresses :
               Send(c, Ask("new", [type |-> t, address |-> a, id |-> 0]))
    BY <2>1, <2>2 DEF Connections
  <2>3. CASE \E op \in Calls[c] \ {"new"}, con \in cons[c] :
               (op = "tx" => Types[con.type].tx) /\ Send(c, Ask(op, con))
    BY <2>1, <2>3
  <2> QED
    BY <2>2, <2>3 DEF Begin
<1> DEFINE k == Ask(op, con)
<1>4. /\ k.op = op /\ k.con = con /\ k.todo = Requests[op] /\ k.at = "wait" /\ k.ret = 0
      /\ k = [op |-> k.op, con |-> k.con, todo |-> k.todo, at |-> k.at, ret |-> k.ret]
  BY DEF Ask
<1>5. <<k.op, k.todo>> \in Steps /\ Head(k.todo) # "data"
  BY <1>3, <1>4, RequestSteps, StepFacts
<1> HIDE DEF k
<1>6. /\ DOMAIN toServer' = Clients /\ DOMAIN call' = Clients
      /\ \A d \in Clients \ {c} : toServer'[d] = toServer[d] /\ call'[d] = call[d]
      /\ toServer'[c] = Append(toServer[c], TheRequest(k)) /\ call'[c] = k
  <2>1. Send(c, k)
    BY <1>3 DEF k
  <2>2. [op |-> k.op, con |-> k.con, todo |-> k.todo, at |-> "wait", ret |-> 0] = k
    BY <1>4
  <2>3. k = [op |-> k.op, con |-> k.con, todo |-> k.todo, at |-> k.at, ret |-> k.ret]
    BY <1>4
  <2>4. call'[c] = [op |-> k.op, con |-> k.con, todo |-> k.todo, at |-> "wait", ret |-> 0]
    BY <1>5, <2>1, <2>3, SendParts
  <2> QED
    BY <1>5, <2>1, <2>2, <2>4, SendParts
<1>7. Domains'
  BY <1>2, <1>6 DEF MeetInv, Domains
<1>8. Elsewhere(c)
  BY <1>2, <1>6 DEF Elsewhere, ServedFor, serverVars
<1>9. /\ q.who = p.who /\ q.stage = p.stage /\ q.cons = p.cons /\ q.packets = p.packets
      /\ q.toServer = Append(p.toServer, TheRequest(k)) /\ q.call = k /\ q.served = p.served
      /\ q.reads = p.reads /\ q.toClient = p.toClient /\ q.inbox = p.inbox
      /\ p.stage = stage[c] /\ p.call = NoCall /\ p.cons = cons[c]
  <2>1. ServedFor(c)' = ServedFor(c) /\ clients' = clients
    BY <1>2, ServerRests
  <2>2. UNCHANGED <<stage, cons, packets, toClient, inbox>> /\ call[c] = NoCall
    BY <1>2
  <2>3. q.toServer = Append(p.toServer, TheRequest(k)) /\ q.call = k
    BY <1>1, <1>6, StreamFields, StreamFieldsThen
  <2>4. q.reads = p.reads
    <3>1. p.reads = (clients[c].rx = "recv") /\ q.reads = (clients'[c].rx = "recv")
      BY <1>1, StreamFields, StreamFieldsThen
    <3> QED
      BY <2>1, <3>1
  <2> QED
    BY <1>1, <2>1, <2>2, <2>3, <2>4, StreamFields, StreamFieldsThen
<1>10. lates[c] = 0 => InTime(q)
  <2> HAVE lates[c] = 0
  <2>1. InTime(p)
    BY <1>1 DEF MeetInv, Streams, StreamOK
  <2>2. Talking(p) /\ Sent(p)
    BY <1>2, <1>9, <2>1 DEF InTime
  <2>3. p.call.at = "none"
    BY <1>9 DEF NoCall, None
  <2>4. Idle(p)
    BY <2>2, <2>3 DEF Talking, RequestGoes, RequestThere, AnswerComes, AnswerThere
  <2>5. Heard(q)
    BY <1>9, <2>2, HeardKept DEF Talking
  <2>6. CallOK(q, k)
    <3>1. CASE op = "new" /\ con \in Connections
      BY <1>4, <1>5, <3>1 DEF CallOK
    <3>2. CASE op # "new" /\ con \in cons[c] /\ (op = "tx" => Types[con.type].tx)
      <4>1. con \in Connections /\ Known(q, con)
        BY <1>9, <2>5, <3>2 DEF Heard
      <4>2. op = "tx" => con.type # 1
        BY <3>2, <4>1, TypesAssumption DEF TypesAssumption, Connections, TypeNumbers
      <4> QED
        BY <1>4, <1>5, <3>2, <4>1, <4>2 DEF CallOK
    <3> QED
      BY <1>3, <3>1, <3>2
  <2>7. NoRequest(p) /\ q.inbox = <<>> /\ NoAnswer(q) /\ q.packets = Unread
    BY <1>9, <2>4 DEF Idle, NoAnswer
  <2> QED
    BY <1>4, <1>9, <2>2, <2>5, <2>6, <2>7, SendsRequest
<1>11. StreamOK(c)'
  BY <1>1, <1>2, <1>10, StreamThen
<1>12. Arrived'
  BY <1>2, NothingArrives
<1> QED
  BY <1>2, <1>7, <1>8, <1>11, <1>12, MeetsAgain

\* What a call that reads its answer does to the variables.
LEMMA ReadParts ==
  ASSUME MeetInv, NEW c \in Clients, ReadAnswer(c), NEW e, e = Asked(c),
         NEW k, k = [call[c] EXCEPT !.todo = Tail(@)]
  PROVE  /\ call[c].at = "read" /\ stage[c] # "off" /\ stage'[c] # "off"
         /\ UNCHANGED <<serverVars, lates, toClient, inbox, served, relayed>>
         /\ Domains' /\ Elsewhere(c)
         /\ packets[c][e] = <<>> => packets'[c] = packets[c]
         /\ packets[c][e] # <<>> => packets'[c] = [packets[c] EXCEPT ![e] = Tail(@)]
         /\ \/ /\ call'[c] = NoCall \/ call'[c] = [call[c] EXCEPT !.at = "fail"]
               /\ toServer'[c] = toServer[c] /\ cons'[c] = cons[c]
            \/ /\ Succeeds(c)
               /\ \/ Len(call[c].todo) = 1 /\ call'[c] = NoCall /\ toServer'[c] = toServer[c]
                  \/ Len(call[c].todo) # 1 /\ Send(c, k)
               /\ \/ cons'[c] \subseteq cons[c]
                  \/ /\ e = "conNew"
                     /\ cons'[c] = cons[c] \cup {[call[c].con EXCEPT !.id = FirstAnswer(c)[1]]}
<1>1. /\ call[c].at = "read"
      /\ UNCHANGED <<serverVars, lates, toClient, inbox, served, relayed>>
  BY DEF ReadAnswer, callbackVars
<1>2. /\ DOMAIN call = Clients /\ DOMAIN packets = Clients /\ DOMAIN toServer = Clients
      /\ DOMAIN stage = Clients /\ DOMAIN cons = Clients
  BY DEF MeetInv, Domains
<1>3. stage[c] # "off"
  <2>1. Off(Stream(c)) => call[c] = NoCall
    BY StreamFields DEF Off
  <2> QED
    BY <1>1, <2>1 DEF MeetInv, Streams, StreamOK, NoCall, None
<1>4. /\ DOMAIN packets' = Clients /\ \A d \in Clients \ {c} : packets'[d] = packets[d]
      /\ packets[c][e] = <<>> => packets'[c] = packets[c]
      /\ packets[c][e] # <<>> => packets'[c] = [packets[c] EXCEPT ![e] = Tail(@)]
  <2>1. CASE packets[c][e] = <<>>
    <3>1. packets' = packets
      BY <2>1 DEF ReadAnswer, TakeAnswer, Answered
    <3> QED
      BY <1>2, <2>1, <3>1
  <2>2. CASE packets[c][e] # <<>>
    <3>1. packets' = [packets EXCEPT ![c][e] = Tail(@)]
      BY <2>2 DEF ReadAnswer, TakeAnswer, Answered
    <3> QED
      BY <1>2, <2>2, <3>1
  <2> QED
    BY <2>1, <2>2
<1>5. CASE ~Succeeds(c)
  <2>1. UNCHANGED <<stage, cons, toServer>>
    BY <1>5 DEF ReadAnswer
  <2>2. \E x : /\ x = NoCall \/ x = [call[c] EXCEPT !.at = "fail"]
               /\ call' = [call EXCEPT ![c] = x]
    <3>1. PICK y : y = [call[c] EXCEPT !.at = "fail"]
      OBVIOUS
    <3>2. call' = [call EXCEPT ![c] = IF stage[c] = "up" THEN NoCall ELSE [@ EXCEPT !.at = "fail"]]
      BY <1>5 DEF ReadAnswer
    <3>3. call' = [call EXCEPT ![c] = IF stage[c] = "up" THEN NoCall ELSE y]
      BY <3>1, <3>2
    <3>4. CASE stage[c] = "up"
      BY <3>3, <3>4
    <3>5. CASE stage[c] # "up"
      BY <3>1, <3>3, <3>5
    <3> QED
      BY <3>4, <3>5
  <2>3. PICK x : /\ x = NoCall \/ x = [call[c] EXCEPT !.at = "fail"]
                 /\ call' = [call EXCEPT ![c] = x]
    BY <2>2
  <2>4. DOMAIN call' = Clients /\ call'[c] = x /\ \A d \in Clients \ {c} : call'[d] = call[d]
    BY <1>2, <2>3
  <2>5. Domains'
    BY <1>1, <1>4, <2>1, <2>4 DEF MeetInv, Domains
  <2>6. Elsewhere(c)
    BY <1>1, <1>4, <2>1, <2>4 DEF Elsewhere, ServedFor, serverVars
  <2> QED
    BY <1>1, <1>3, <1>4, <2>1, <2>3, <2>4, <2>5, <2>6
<1>6. CASE Succeeds(c)
  <2>1. /\ stage' = [stage EXCEPT ![c] = IF e = "conGetTypes" THEN "up" ELSE @]
        /\ \/ UNCHANGED toServer /\ call' = [call EXCEPT ![c] = NoCall] /\ Len(call[c].todo) = 1
           \/ Len(call[c].todo) # 1 /\ Send(c, k)
    BY <1>6 DEF ReadAnswer
  <2>2. DOMAIN stage' = Clients /\ stage'[c] # "off" /\ \A d \in Clients \ {c} : stage'[d] = stage[d]
    BY <1>2, <1>3, <2>1
  <2>3. /\ DOMAIN cons' = Clients /\ \A d \in Clients \ {c} : cons'[d] = cons[d]
        /\ \/ cons'[c] \subseteq cons[c]
           \/ /\ e = "conNew"
              /\ cons'[c] = cons[c] \cup {[call[c].con EXCEPT !.id = FirstAnswer(c)[1]]}
    <3>1. PICK z : z = [call[c].con EXCEPT !.id = FirstAnswer(c)[1]]
      OBVIOUS
    <3>2. cons' = [cons EXCEPT ![c] = CASE e = "conNew" -> @ \cup {z}
                                        [] e = "conEnd" -> @ \ {call[c].con}
                                        [] OTHER -> @]
      BY <1>6, <3>1 DEF ReadAnswer
    <3>3. CASE e = "conNew"
      BY <1>2, <3>1, <3>2, <3>3
    <3>4. CASE e # "conNew"
      <4> HIDE <3>1
      <4>1. \E s : s \subseteq cons[c] /\ cons' = [cons EXCEPT ![c] = s]
        BY <3>2, <3>4
      <4> QED
        BY <1>2, <4>1
    <3> QED
      BY <3>3, <3>4
  <2>4. /\ DOMAIN call' = Clients /\ DOMAIN toServer' = Clients
        /\ \A d \in Clients \ {c} : call'[d] = call[d] /\ toServer'[d] = toServer[d]
        /\ \/ Len(call[c].todo) = 1 /\ call'[c] = NoCall /\ toServer'[c] = toServer[c]
           \/ Len(call[c].todo) # 1 /\ Send(c, k)
    <3>1. CASE UNCHANGED toServer /\ call' = [call EXCEPT ![c] = NoCall] /\ Len(call[c].todo) = 1
      BY <1>2, <3>1
    <3>2. CASE Len(call[c].todo) # 1 /\ Send(c, k)
      <4> HIDE DEF Send
      <4> QED
        BY <3>2, SendParts
    <3> QED
      BY <2>1, <3>1, <3>2
  <2>5. Domains'
    BY <1>1, <1>4, <2>2, <2>3, <2>4 DEF MeetInv, Domains
  <2>6. Elsewhere(c)
    BY <1>1, <1>4, <2>2, <2>3, <2>4 DEF Elsewhere, ServedFor, serverVars
  <2> QED
    BY <1>1, <1>3, <1>4, <1>6, <2>2, <2>3, <2>4, <2>5, <2>6
<1> QED
  BY <1>5, <1>6

LEMMA NextShape ==
  ASSUME NEW j, j = [op |-> j.op, con |-> j.con, todo |-> j.todo, at |-> j.at, ret |-> j.ret],
         NEW k, k = [j EXCEPT !.todo = Tail(@)]
  PROVE  /\ k.op = j.op /\ k.con = j.con /\ k.todo = Tail(j.todo)
         /\ k = [op |-> k.op, con |-> k.con, todo |-> k.todo, at |-> k.at, ret |-> k.ret]
<1>1. PICK a, b, x, y, z : j = [op |-> a, con |-> b, todo |-> x, at |-> y, ret |-> z]
  OBVIOUS
<1>2. k = [op |-> a, con |-> b, todo |-> Tail(x), at |-> y, ret |-> z]
  BY <1>1
<1> QED
  BY <1>1, <1>2

LEMMA FailShape ==
  ASSUME NEW j, j = [op |-> j.op, con |-> j.con, todo |-> j.todo, at |-> j.at, ret |-> j.ret]
  PROVE  [j EXCEPT !.at = "fail"] =
           [op |-> j.op, con |-> j.con, todo |-> j.todo, at |-> "fail", ret |-> j.ret]
<1>1. PICK a, b, x, y, z : j = [op |-> a, con |-> b, todo |-> x, at |-> y, ret |-> z]
  OBVIOUS
<1> QED
  BY <1>1

\* The connection that was made is known from then on.
LEMMA HearsOfNew ==
  ASSUME NEW p, NEW q, NEW data, NEW con, Heard(p), q.who = p.who, q.served = p.served,
         q.toClient = p.toClient, CallOK(p, p.call), Head(p.call.todo) = "conNew",
         Says(p, data), data # NoData, con = [p.call.con EXCEPT !.id = data[1]],
         q.cons = p.cons \cup {con}
  PROVE  Heard(q)
<1>1. data[1] \in Nat /\ Known(p, con)
  BY DEF Says
<1>2. p.call.con \in Connections
  <2>1. p.call.op = "new"
    BY StepFacts DEF CallOK
  <2> QED
    BY <2>1 DEF CallOK
<1>3. con \in Connections
  BY <1>1, <1>2 DEF Connections
<1>4. \A d : Known(p, d) => Known(q, d)
  BY KnownGrows
<1> QED
  BY <1>1, <1>3, <1>4 DEF Heard

LEMMA ReadAnswerMeets ==
  ASSUME MeetInv, NEW c \in Clients, ReadAnswer(c)
  PROVE  MeetInv'
<1>1. PICK p, q, e, k : /\ p = Stream(c) /\ q = Stream(c)' /\ e = Asked(c)
                        /\ k = [call[c] EXCEPT !.todo = Tail(@)]
  OBVIOUS
<1>2. /\ call[c].at = "read" /\ stage[c] # "off" /\ stage'[c] # "off"
      /\ UNCHANGED <<serverVars, lates, toClient, inbox, served, relayed>>
      /\ Domains' /\ Elsewhere(c)
  BY <1>1, ReadParts
<1>3. /\ packets[c][e] = <<>> => packets'[c] = packets[c]
      /\ packets[c][e] # <<>> => packets'[c] = [packets[c] EXCEPT ![e] = Tail(@)]
  BY <1>1, ReadParts
<1>4. \/ /\ call'[c] = NoCall \/ call'[c] = [call[c] EXCEPT !.at = "fail"]
         /\ toServer'[c] = toServer[c] /\ cons'[c] = cons[c]
      \/ /\ Succeeds(c)
         /\ \/ Len(call[c].todo) = 1 /\ call'[c] = NoCall /\ toServer'[c] = toServer[c]
            \/ Len(call[c].todo) # 1 /\ Send(c, k)
         /\ \/ cons'[c] \subseteq cons[c]
            \/ /\ e = "conNew"
               /\ cons'[c] = cons[c] \cup {[call[c].con EXCEPT !.id = FirstAnswer(c)[1]]}
  BY <1>1, ReadParts
<1>5. /\ p.stage = stage[c] /\ p.call = call[c] /\ p.cons = cons[c] /\ p.packets = packets[c]
      /\ p.toServer = toServer[c] /\ q.call = call'[c] /\ q.cons = cons'[c]
      /\ q.packets = packets'[c] /\ q.toServer = toServer'[c]
      /\ q.who = p.who /\ q.served = p.served /\ q.toClient = p.toClient /\ q.inbox = p.inbox
      /\ q.reads = p.reads
  <2>1. ServedFor(c)' = ServedFor(c) /\ clients' = clients
    BY <1>2, ServerRests
  <2>2. UNCHANGED <<toClient, inbox>>
    BY <1>2
  <2>3. q.reads = p.reads
    <3>1. p.reads = (clients[c].rx = "recv") /\ q.reads = (clients'[c].rx = "recv")
      BY <1>1, StreamFields, StreamFieldsThen
    <3> QED
      BY <2>1, <3>1
  <2> QED
    BY <1>1, <2>1, <2>2, <2>3, StreamFields, StreamFieldsThen
<1>6. lates[c] = 0 => InTime(q)
  <2> HAVE lates[c] = 0
  <2>1. InTime(p)
    BY <1>1 DEF MeetInv, Streams, StreamOK
  <2>2. e = Head(p.call.todo) /\ p.stage # "off" /\ p.call.at = "read"
    BY <1>1, <1>2, <1>5 DEF Asked
  <2>3. /\ Heard(p) /\ CallOK(p, p.call) /\ NoRequest(p) /\ NoAnswer(p) /\ p.inbox = <<>>
        /\ p.packets[e] = <<>> => p.packets = Unread
        /\ p.packets[e] # <<>> => /\ [p.packets EXCEPT ![e] = Tail(@)] = Unread
                                  /\ Says(p, Head(p.packets[e]))
    BY <2>1, <2>2, AnswerIsThere
  <2>4. Sent(p)
    BY <2>1 DEF InTime
  <2>5. q.packets = Unread
    BY <1>3, <1>5, <2>3
  <2>6. NoAnswer(q) /\ q.inbox = <<>>
    BY <1>5, <2>3 DEF NoAnswer
  <2>7. /\ <<p.call.op, p.call.todo>> \in Steps
        /\ p.call = [op |-> p.call.op, con |-> p.call.con, todo |-> p.call.todo,
                     at |-> p.call.at, ret |-> p.call.ret]
    BY <2>3 DEF CallOK
  <2>8. CASE /\ call'[c] = NoCall \/ call'[c] = [call[c] EXCEPT !.at = "fail"]
             /\ toServer'[c] = toServer[c] /\ cons'[c] = cons[c]
    <3>1. Heard(q)
      BY <1>5, <2>3, <2>8, HeardKept
    <3>2. q.call # NoCall => CallOK(q, q.call)
      <4>1. CASE q.call = NoCall
        BY <4>1
      <4>2. CASE q.call = [p.call EXCEPT !.at = "fail"]
        <5>1. q.call = [op |-> p.call.op, con |-> p.call.con, todo |-> p.call.todo,
                        at |-> "fail", ret |-> p.call.ret]
          BY <2>7, <4>2, FailShape
        <5>2. CallOK(p, q.call)
          BY <2>3, <2>7, <5>1, CallMoves
        <5> QED
          BY <1>5, <5>2, KnownGrows
      <4> QED
        BY <1>5, <2>8, <4>1, <4>2
    <3> QED
      BY <1>5, <2>3, <2>4, <2>5, <2>6, <2>8, <3>1, <3>2, EndsCall
  <2>9. CASE /\ Succeeds(c)
             /\ \/ Len(call[c].todo) = 1 /\ call'[c] = NoCall /\ toServer'[c] = toServer[c]
                \/ Len(call[c].todo) # 1 /\ Send(c, k)
             /\ \/ cons'[c] \subseteq cons[c]
                \/ /\ e = "conNew"
                   /\ cons'[c] = cons[c] \cup {[call[c].con EXCEPT !.id = FirstAnswer(c)[1]]}
    <3>1. Heard(q)
      <4>1. CASE cons'[c] \subseteq cons[c]
        BY <1>5, <2>3, <4>1, HeardKept
      <4>2. CASE e = "conNew" /\ cons'[c] = cons[c] \cup {[call[c].con EXCEPT !.id = FirstAnswer(c)[1]]}
        <5>1. PICK data : data = FirstAnswer(c)
          OBVIOUS
        <5>2. packets[c][e] # <<>> /\ data # NoData /\ data = Head(packets[c][e])
          BY <1>1, <2>9, <4>2, <5>1 DEF Succeeds, Answered, FirstAnswer
        <5>3. Says(p, data)
          BY <1>5, <2>3, <5>2
        <5>4. PICK con : con = [p.call.con EXCEPT !.id = data[1]]
          OBVIOUS
        <5>5. q.cons = p.cons \cup {con}
          BY <1>5, <4>2, <5>1, <5>4
        <5> QED
          BY <1>5, <2>2, <2>3, <4>2, <5>2, <5>3, <5>4, <5>5, HearsOfNew
      <4> QED
        BY <2>9, <4>1, <4>2
    <3>2. CASE call'[c] = NoCall /\ toServer'[c] = toServer[c]
      BY <1>5, <2>3, <2>4, <2>5, <2>6, <3>1, <3>2, EndsCall
    <3>3. CASE Len(p.call.todo) # 1 /\ Send(c, k)
      <4>1. /\ k.op = p.call.op /\ k.con = p.call.con /\ k.todo = Tail(p.call.todo)
            /\ k = [op |-> k.op, con |-> k.con, todo |-> k.todo, at |-> k.at, ret |-> k.ret]
        <5>1. k = [p.call EXCEPT !.todo = Tail(@)]
          <6>1. k = [call[c] EXCEPT !.todo = Tail(@)]
            BY <1>1
          <6>2. p.call = call[c]
            BY <1>5
          <6> QED
            BY <6>1, <6>2, Zenon
        <5>2. PICK j : j = p.call
          OBVIOUS
        <5>3. j = [op |-> j.op, con |-> j.con, todo |-> j.todo, at |-> j.at, ret |-> j.ret]
          BY <2>7, <5>2
        <5>4. k = [j EXCEPT !.todo = Tail(@)]
          BY <5>1, <5>2, Zenon
        <5>5. /\ k.op = j.op /\ k.con = j.con /\ k.todo = Tail(j.todo)
              /\ k = [op |-> k.op, con |-> k.con, todo |-> k.todo, at |-> k.at, ret |-> k.ret]
          BY <5>3, <5>4, NextShape, Zenon
        <5> QED
          BY <5>2, <5>5
      <4> HIDE <1>1
      <4>2. CASE p.call.op = "tx" /\ Head(k.todo) = "data"
        <5>1. /\ toServer'[c] = Append(toServer[c], FrontFrame(FrontId(k.con.type), k.con.id,
                                       [type |-> k.con.type, address |-> k.con.address]))
              /\ call'[c] = NoCall
          BY <3>3, <4>2, SendParts
        <5>2. k.con \in Connections /\ Known(p, k.con) /\ k.con.type # 1
          BY <2>3, <4>1, <4>2 DEF CallOK
        <5>3. Known(q, k.con)
          BY <1>5, <5>2, KnownGrows
        <5> QED
          BY <1>5, <2>3, <2>4, <2>5, <2>6, <3>1, <5>1, <5>2, <5>3, SendsMessage
      <4>3. CASE <<k.op, k.todo>> \in Steps
        <5>1. Head(k.todo) # "data"
          BY <4>3, StepFacts
        <5>2. PICK m : m = [op |-> k.op, con |-> k.con, todo |-> k.todo, at |-> "wait", ret |-> 0]
          OBVIOUS
        <5>3. toServer'[c] = Append(toServer[c], TheRequest(k)) /\ call'[c] = m
          BY <3>3, <4>1, <5>1, <5>2, SendParts
        <5>4. m.op = k.op /\ m.con = k.con /\ m.todo = k.todo /\ m.at = "wait"
          BY <5>2
        <5>5. CallOK(p, m)
          BY <2>3, <4>1, <4>3, <5>2, CallMoves
        <5>6. CallOK(q, m)
          BY <1>5, <5>5, KnownGrows
        <5>7. TheRequest(m) = TheRequest(k)
          BY <5>4, SameRequest
        <5> QED
          BY <1>5, <2>3, <2>4, <2>5, <2>6, <3>1, <5>3, <5>4, <5>6, <5>7, SendsRequest
      <4> QED
        BY <2>7, <3>3, <4>1, <4>2, <4>3, StepFacts
    <3> QED
      BY <1>5, <2>9, <3>2, <3>3
  <2> QED
    BY <1>4, <2>8, <2>9
<1>7. StreamOK(c)'
  BY <1>1, <1>2, <1>6, StreamThen
<1>8. Arrived'
  BY <1>2, NothingArrives
<1> QED
  BY <1>2, <1>7, <1>8, MeetsAgain

LEMMA MeetInit ==
  ASSUME Init
  PROVE  MeetInv
<1>1. /\ ServerInit
      /\ stage = [c \in Clients |-> "off"] /\ call = [c \in Clients |-> NoCall]
      /\ lates = [c \in Clients |-> 0] /\ cons = [c \in Clients |-> {}]
      /\ packets = [c \in Clients |-> Unread]
      /\ toServer = [c \in Clients |-> <<>>] /\ toClient = [c \in Clients |-> <<>>]
      /\ inbox = [c \in Clients |-> <<>>] /\ served = {} /\ relayed = Nothing
  BY DEF Init, Unread
<1>2. Structural
  <2>1. LifeTypes
    <3>1. clients \in [Clients -> Structures] /\ ending \in [Actors -> Clients \cup {NoClient}]
      BY <1>1, UnusedTypes DEF ServerInit
    <3>2. deadList \in Seq(Clients)
      BY <1>1 DEF ServerInit
    <3> QED
      BY <1>1, <3>1, <3>2 DEF ServerInit, LifeTypes
  <2>2. Held /\ Online
    BY <1>1, UnusedTypes DEF ServerInit, Held, Online
  <2> QED
    BY <2>1, <2>2 DEF Structural
<1>3. Domains
  BY <1>1 DEF Domains
<1>4. Identified
  BY <1>1, FS_EmptySet DEF Identified
<1>5. Streams
  <2> SUFFICES ASSUME NEW c \in Clients PROVE StreamOK(c)
    BY DEF Streams
  <2>1. PICK p : p = Stream(c)
    OBVIOUS
  <2>2. /\ stage[c] = "off" /\ p.stage = "off" /\ p.call = NoCall /\ p.cons = {}
        /\ p.packets = Unread /\ p.toServer = <<>> /\ p.toClient = <<>> /\ p.inbox = <<>>
        /\ p.served = {}
    BY <1>1, <2>1, StreamFields DEF ServedFor
  <2>3. Quiet(p) /\ Off(p)
    BY <2>2 DEF Quiet, Off
  <2>4. InTime(p)
    BY <2>2, <2>3, QuietSent DEF InTime
  <2> QED
    BY <2>1, <2>3, <2>4 DEF StreamOK
<1>6. Arrived
  BY <1>1, NetAssumption DEF Arrived, Nothing, NetAssumption
<1> QED
  BY <1>2, <1>3, <1>4, <1>5, <1>6 DEF MeetInv

LEMMA MeetNext ==
  ASSUME MeetInv, [Next]_vars
  PROVE  MeetInv'
<1>1. CASE ServerStep /\ UNCHANGED <<clientVars, linkVars, callbackVars, relayed>>
  BY <1>1, ServerStepMeets
<1>2. CASE SetupBackchannel
  BY <1>2, SetupMeets
<1>3. ASSUME NEW c \in Clients, ClientProgram(c) PROVE MeetInv'
  BY <1>3, ConnectMeets, BeginMeets, TimeoutMeets, ReadAnswerMeets, DisconnectMeets,
     RxAnswerMeets, RxDataMeets DEF ClientProgram
<1>4. ASSUME NEW c \in Clients, RxRequest(c) \/ FromClient(c) PROVE MeetInv'
  BY <1>4, RxRequestMeets, FromClientMeets
<1>5. ASSUME NEW c \in Clients, Callbacks(c) PROVE MeetInv'
  BY <1>5, IgnoredMeets, AnswersMeet, NetStartsMeets, NetConNewMeets, NetConEndMeets
  DEF Callbacks
<1>6. ASSUME NEW c \in Clients, RxEof(c) \/ LeaveSilent(c) \/ EndConnections(c) PROVE MeetInv'
  BY <1>6, RxEofMeets, LeaveSilentMeets, EndConnectionsMeets
<1>7. ASSUME NEW s \in served, ToClient(s) PROVE MeetInv'
  BY <1>7, ToClientMeets
<1>8. ASSUME NEW a \in Actors, FreeClient(a) PROVE MeetInv'
  BY <1>8, FreeClientMeets
<1>9. CASE UNCHANGED vars
  <2>1. /\ UNCHANGED <<netUp, user, server, newClient, clients, clientList, deadList, ending>>
        /\ UNCHANGED <<clientVars, linkVars, inbox, served, relayed>>
    BY <1>9 DEF vars, serverVars, callbackVars
  <2>2. LifeTypes' /\ Held' /\ Settled
    BY <2>1, UnmovedSettles DEF MeetInv, Structural, LifeTypes, Held
  <2> QED
    BY <2>1, <2>2, SettledMeets
<1> QED
  BY <1>1, <1>2, <1>3, <1>4, <1>5, <1>6, <1>7, <1>8, <1>9 DEF Next

\* A message and a device's packet arrive at the connection their sender means,
\* and a program's connections have the addresses it gave, with any clients,
\* types and addresses, whatever else waits in the streams, as long as no call of
\* the program gave up.
THEOREM MeantArrives == Spec => []ArrivesWhereMeant
<1>1. Init => MeetInv
  BY MeetInit
<1>2. MeetInv /\ [Next]_vars => MeetInv'
  BY MeetNext
<1>3. MeetInv => ArrivesWhereMeant
  <2> SUFFICES ASSUME MeetInv, NEW c \in Clients, lates[c] = 0
               PROVE  /\ relayed.client = c => relayed.got = relayed.sent
                      /\ \A con \in cons[c] : \A s \in ServedFor(c) :
                           s.type = con.type /\ s.id = con.id => s.address = con.address
    BY DEF ArrivesWhereMeant
  <2>1. relayed.client = c => relayed.got = relayed.sent
    BY DEF MeetInv, Arrived
  <2>2. ASSUME NEW con \in cons[c], NEW s \in ServedFor(c), s.type = con.type, s.id = con.id
        PROVE  s.address = con.address
    <3>1. PICK p : p = Stream(c)
      OBVIOUS
    <3>2. p.who = c /\ p.cons = cons[c] /\ p.served = ServedFor(c) /\ p.stage = stage[c]
      BY <3>1, StreamFields
    <3>3. StreamOK(c)
      BY DEF MeetInv, Streams
    <3>4. stage[c] # "off" /\ InTime(p)
      BY <2>2, <3>1, <3>2, <3>3 DEF StreamOK, Off
    <3>5. Known(p, con)
      BY <2>2, <3>2, <3>4 DEF InTime, Talking, Heard
    <3>6. PICK t : t = [client |-> c, type |-> con.type, address |-> con.address, id |-> con.id]
      OBVIOUS
    <3>7. t \in served /\ s \in served
      BY <2>2, <3>2, <3>5, <3>6 DEF Known, ServedFor
    <3>8. s = t
      BY <2>2, <3>6, <3>7 DEF MeetInv, Identified
    <3> QED
      BY <3>6, <3>8
  <2> QED
    BY <2>1, <2>2
<1> QED
  BY <1>1, <1>2, <1>3, PTL DEF Spec

=============================================================================
