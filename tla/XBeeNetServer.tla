---------------------------- MODULE XBeeNetServer --------------------------
(***************************************************************************)
(* The life of a client of libxbee's network server: the server thread that *)
(* accepts it and starts its threads (net.c), its receive thread, which     *)
(* takes it down when the client leaves (net_io.c), and xbee_netStop.       *)
(*                                                                          *)
(* A client that has left waits on a list of the dead until somebody frees  *)
(* it: the server thread before its next accept, the receive thread of the  *)
(* next client that leaves, or xbee_netStop.                                *)
(*                                                                          *)
(* pthread_cancel acts where the cancelled thread blocks.  What the memory  *)
(* of a freed client would do when it is used again is not modelled: faults *)
(* says that it happened.                                                   *)
(***************************************************************************)
EXTENDS Naturals, Sequences, FiniteSets

CONSTANTS
  Clients,    \* bound: the client structures there may be at a time
  NoClient,
  Server,     \* the server thread
  User        \* the program that calls xbee_netStart and xbee_netStop

NetAssumption ==
  NoClient \notin Clients /\ Server \notin Clients /\ User \notin Clients \cup {Server}
ASSUME NetAssumption

Workers == {"rxHandler", "tx"}
Actors == Clients \cup {Server, User}

VARIABLES
  netUp,      \* xbee->netInfo # NULL
  user,       \* the program: "off", "up", or its place in xbee_netStop
  server,     \* the server thread's place
  newClient,  \* info->newClient: the structure the server thread works on
  clients,    \* the client structures
  clientList, \* info->clientList
  deadList,   \* netDeadClientList
  ending,     \* whom an actor is shutting down
  faults,     \* history: what was used after it was freed
  raced       \* history: a client left before it was listed or during xbee_netStop,
              \* or was being let in when it began

serverVars ==
  <<netUp, user, server, newClient, clients, clientList, deadList, ending, faults, raced>>

\* A structure that is not allocated, and one with no threads.
Unused == [used |-> FALSE, fd |-> "closed", rx |-> "none", workers |-> {}]
Fresh == [Unused EXCEPT !.used = TRUE]

ServerInit ==
  /\ netUp = FALSE /\ user = "off" /\ server = "none"
  /\ newClient = NoClient
  /\ clients = [c \in Clients |-> Unused]
  /\ clientList = {} /\ deadList = <<>>
  /\ ending = [a \in Actors |-> NoClient]
  /\ faults = {} /\ raced = FALSE

-----------------------------------------------------------------------------
(***************************************************************************)
(* Shutting a client down, whoever does it.                                 *)
(***************************************************************************)
\* Take the first of the dead (xbee_ll_ext_head) and begin to shut it down.
TakeDead(a) ==
  /\ deadList # <<>>
  /\ deadList' = Tail(deadList)
  /\ ending' = [ending EXCEPT ![a] = Head(deadList)]

\* A receive thread can be cancelled when it waits for input, shuts another
\* client down, or takes its own down.
Cancellable(c) ==
  \/ clients[c].rx \in {"recv", "workers", "close", "connections"}
  \/ clients[c].rx = "dead" /\ ending[c] # NoClient

\* xbee_netClientShutdown: kill and join the receive thread ...
JoinRx(a) ==
  LET c == ending[a] IN
  /\ c # NoClient
  /\ IF ~clients[c].used
     THEN /\ faults' = faults \cup {"shut down after free"}
          /\ ending' = [ending EXCEPT ![a] = NoClient]
          /\ UNCHANGED clients
     ELSE /\ Cancellable(c) \/ clients[c].rx = "done"
          /\ clients' = [clients EXCEPT ![c].rx = "joined"]
          /\ ending' = [ending EXCEPT ![c] = NoClient]   \* whom it was shutting down is lost
          /\ UNCHANGED faults
  /\ UNCHANGED <<netUp, user, server, newClient, clientList, deadList, raced>>

\* Mutant: the receive thread is trusted to have killed the others.
EndClient_Trusting(a) ==
  LET c == ending[a] IN
  /\ c # NoClient
  /\ clients[c].used /\ clients[c].rx = "joined"
  /\ clients' = [clients EXCEPT ![c].used = FALSE, ![c].fd = "closed", ![c].rx = "none"]
  /\ ending' = [ending EXCEPT ![a] = NoClient]
  /\ UNCHANGED <<netUp, user, server, newClient, clientList, deadList, faults, raced>>

\* ... then the others; close the socket if it is still open; free the structure.
EndClient(a) ==
  LET c == ending[a] IN
  /\ c # NoClient
  /\ clients[c].used /\ clients[c].rx = "joined"
  /\ clients' = [clients EXCEPT ![c] = Unused]
  /\ ending' = [ending EXCEPT ![a] = NoClient]
  /\ UNCHANGED <<netUp, user, server, newClient, clientList, deadList, faults, raced>>

-----------------------------------------------------------------------------
(***************************************************************************)
(* xbee_netStart and xbee_netStop.                                          *)
(***************************************************************************)
\* The server thread of an earlier start has ended (bound: it sleeps 5 ms).
NetStart ==
  /\ user = "off" /\ server = "none"
  /\ netUp' = TRUE /\ user' = "up" /\ server' = "top"
  /\ UNCHANGED <<newClient, clients, clientList, deadList, ending, faults, raced>>

NetStop ==
  /\ user = "up"
  /\ netUp' = FALSE /\ user' = "close"
  /\ raced' = (raced \/ server \in {"start", "workers", "add"}
                     \/ \E c \in Clients : clients[c].rx = "dead")
  /\ UNCHANGED <<server, newClient, clients, clientList, deadList, ending, faults>>

\* The listening socket is shut down and closed.
NetStopClose ==
  /\ user = "close"
  /\ user' = "list"
  /\ UNCHANGED <<netUp, server, newClient, clients, clientList, deadList, ending, faults, raced>>

\* xbee_ll_free(info->clientList, xbee_netClientShutdown)
NetStopList ==
  /\ user = "list" /\ ending[User] = NoClient
  /\ IF clientList # {}
     THEN \E c \in clientList :
            /\ clientList' = clientList \ {c}
            /\ ending' = [ending EXCEPT ![User] = c]
            /\ UNCHANGED user
     ELSE user' = "dead" /\ UNCHANGED <<clientList, ending>>
  /\ UNCHANGED <<netUp, server, newClient, clients, deadList, faults, raced>>

\* The dead that are left; then the structure netInfo pointed to is freed.
NetStopDead ==
  /\ user = "dead" /\ ending[User] = NoClient
  /\ IF deadList # <<>>
     THEN TakeDead(User) /\ UNCHANGED user
     ELSE user' = "off" /\ UNCHANGED <<deadList, ending>>
  /\ UNCHANGED <<netUp, server, newClient, clients, clientList, faults, raced>>

-----------------------------------------------------------------------------
(***************************************************************************)
(* xbee_netServerThread.                                                    *)
(***************************************************************************)
\* Its loop's top: free the dead, then have a structure for the next client.
ServerTop ==
  /\ server = "top" /\ ending[Server] = NoClient /\ netUp
  /\ \/ /\ TakeDead(Server)
        /\ UNCHANGED <<server, newClient, clients>>
     \/ /\ deadList = <<>>
        /\ IF newClient = NoClient
           THEN \E c \in Clients :
                  /\ ~clients[c].used
                  /\ newClient' = c
                  /\ clients' = [clients EXCEPT ![c] = Fresh]
           ELSE UNCHANGED <<newClient, clients>>
        /\ server' = "accept"
        /\ UNCHANGED <<deadList, ending>>
  /\ UNCHANGED <<netUp, user, clientList, faults, raced>>

\* accept: a client, nothing yet to accept on, or an error that ends the loop.
Accept ==
  /\ server = "accept"
  /\ \/ /\ user \in {"up", "close"}
        /\ clients' = [clients EXCEPT ![newClient].fd = "open"]
        /\ server' = "filter"
     \/ server' = "top" /\ UNCHANGED clients
     \/ server' = "stop" /\ UNCHANGED clients
  /\ UNCHANGED <<netUp, user, newClient, clientList, deadList, ending, faults, raced>>

\* The client is let in, or its socket is closed: by the filter, or when its
\* connection types or its threads cannot be made.
Filter ==
  /\ server = "filter"
  /\ IF ~netUp
     THEN /\ server' = "stop"
          /\ clients' = [clients EXCEPT ![newClient].fd = "closed"]
     ELSE \/ server' = "start" /\ UNCHANGED clients
          \/ /\ server' = "top"
             /\ clients' = [clients EXCEPT ![newClient].fd = "closed"]
  /\ UNCHANGED <<netUp, user, newClient, clientList, deadList, ending, faults, raced>>

\* xbee_netClientStartup: the receive thread first, then the others.
StartRx ==
  /\ server = "start"
  /\ clients' = [clients EXCEPT ![newClient].rx = "recv"]
  /\ server' = "workers"
  /\ UNCHANGED <<netUp, user, newClient, clientList, deadList, ending, faults, raced>>

StartWorkers ==
  /\ server = "workers"
  /\ clients' = [clients EXCEPT ![newClient].workers = Workers]
  /\ server' = "add"
  /\ UNCHANGED <<netUp, user, newClient, clientList, deadList, ending, faults, raced>>

AddClient ==
  /\ server = "add"
  /\ clientList' = clientList \cup {newClient}
  /\ faults' = faults \cup IF user \in {"dead", "off"} THEN {"listed after free"} ELSE {}
  /\ newClient' = NoClient
  /\ server' = "top"
  /\ UNCHANGED <<netUp, user, clients, deadList, ending, raced>>

\* The loop ends when the network is stopped or accept failed: the structure
\* that has no client is freed.  After a failure the thread is started again.
ServerStops ==
  /\ server = "stop" \/ (server = "top" /\ ending[Server] = NoClient /\ ~netUp)
  /\ IF newClient # NoClient
     THEN clients' = [clients EXCEPT ![newClient] = Unused]
     ELSE UNCHANGED clients
  /\ newClient' = NoClient
  /\ server' = IF netUp THEN "top" ELSE "none"
  /\ UNCHANGED <<netUp, user, clientList, deadList, ending, faults, raced>>

-----------------------------------------------------------------------------
(***************************************************************************)
(* xbee_netRx when the client has left.                                     *)
(***************************************************************************)
\* External: the client goes away.
Leave(c) ==
  /\ clients[c].fd = "open" /\ clients[c].rx # "none"
  /\ clients' = [clients EXCEPT ![c].fd = "eof"]
  /\ UNCHANGED <<netUp, user, server, newClient, clientList, deadList, ending, faults, raced>>

Eof(c) ==
  /\ clients[c].rx = "recv" /\ clients[c].fd = "eof"
  /\ clients' = [clients EXCEPT ![c].rx = "dead"]
  /\ raced' = (raced \/ c \notin clientList \/ user # "up")
  /\ UNCHANGED <<netUp, user, server, newClient, clientList, deadList, ending, faults>>

\* Mutant: the client does not leave the list of the living.
RxDead_Listed(c) ==
  /\ clients[c].rx = "dead" /\ ending[c] = NoClient
  /\ \/ /\ TakeDead(c)
        /\ UNCHANGED <<clients, clientList, faults>>
     \/ /\ deadList = <<>>
        /\ deadList' = Append(deadList, c)
        /\ clients' = [clients EXCEPT ![c].rx = "workers"]
        /\ UNCHANGED <<clientList, faults, ending>>
  /\ UNCHANGED <<netUp, user, server, newClient, raced>>

\* It frees the other dead, then goes from the list of the living to theirs.
RxDead(c) ==
  /\ clients[c].rx = "dead" /\ ending[c] = NoClient
  /\ \/ /\ TakeDead(c)
        /\ UNCHANGED <<clients, clientList, faults>>
     \/ /\ deadList = <<>>
        /\ deadList' = Append(deadList, c)
        /\ IF netUp
           THEN clientList' = clientList \ {c} /\ UNCHANGED faults
           ELSE faults' = faults \cup {"netInfo is NULL"} /\ UNCHANGED clientList
        /\ clients' = [clients EXCEPT ![c].rx = "workers"]
        /\ UNCHANGED ending
  /\ UNCHANGED <<netUp, user, server, newClient, raced>>

\* It kills the threads that have been started, ...
RxWorkers(c) ==
  /\ clients[c].rx = "workers"
  /\ clients' = [clients EXCEPT ![c].workers = {}, ![c].rx = "close"]
  /\ UNCHANGED <<netUp, user, server, newClient, clientList, deadList, ending, faults, raced>>

\* ... closes the socket, ...
RxClose(c) ==
  /\ clients[c].rx = "close"
  /\ clients' = [clients EXCEPT ![c].fd = "closed", ![c].rx = "connections"]
  /\ UNCHANGED <<netUp, user, server, newClient, clientList, deadList, ending, faults, raced>>

\* ... and ends the client's connections.
RxConnections(c) ==
  /\ clients[c].rx = "connections"
  /\ clients' = [clients EXCEPT ![c].rx = "done"]
  /\ UNCHANGED <<netUp, user, server, newClient, clientList, deadList, ending, faults, raced>>

-----------------------------------------------------------------------------
ServerThread == ServerTop \/ Accept \/ Filter \/ StartWorkers \/ AddClient \/ ServerStops
Stopper == NetStop \/ NetStopClose \/ NetStopList \/ NetStopDead

\* Every step at which no connection begins or ends and nothing of the stream
\* is read: those are StartRx, Leave, Eof, RxConnections and EndClient.
ServerStep ==
  \/ NetStart \/ Stopper \/ ServerThread
  \/ \E c \in Clients : RxDead(c) \/ RxWorkers(c) \/ RxClose(c)
  \/ \E a \in Actors : JoinRx(a)
=============================================================================
