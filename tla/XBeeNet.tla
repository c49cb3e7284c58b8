------------------------------- MODULE XBeeNet -----------------------------
(***************************************************************************)
(* A program that uses libxbee's "net" mode (modes/net), the server it       *)
(* talks to (net_callbacks.c, net_handlers.c) and the stream between them,   *)
(* over the life of the server's clients (XBeeNetServer).                    *)
(*                                                                          *)
(* Requests go to the endpoints of a back channel, each with a callback      *)
(* thread of its own on the server; data goes through front channels, one    *)
(* for each connection type of the server's mode.  A client's calls are one  *)
(* after the other; each may time out and leave its answer behind.           *)
(*                                                                          *)
(* Frame identifiers are in XBeeStack: here an answer that is too late is    *)
(* marked so when its call gives up.                                         *)
(***************************************************************************)
EXTENDS XBeeNetServer, SequencesExt

CONSTANTS
  Types,       \* the types of the server's mode that are not internal, in order
  Addresses,   \* the addresses programs give
  Calls,       \* the calls each client makes
  MaxCalls,    \* bound: the calls of a client from its start
  MaxLate,     \* bound: the calls of a client that time out
  MaxPackets   \* bound: the packets of devices under way to a client

\* The calls of a program, apart from its setup.
ProgramCalls == {"new", "validate", "tx", "sleep", "wake", "sleepGet", "settings", "end"}

\* The first type of every mode is one that only receives (its statuses).
TypesAssumption == Len(Types) \in Nat /\ (Len(Types) > 0 => ~Types[1].tx)
CallsAssumption == Calls \in [Clients -> SUBSET ProgramCalls]
ASSUME TypesAssumption
ASSUME CallsAssumption

None == "none"

\* The server's callbacks, in their order: the endpoints of the back channel.
Endpoints == <<"start", "conValidate", "conSleep", "conSettings", "conNew", "conEnd",
               "conGetTypes", "echo">>
EndpointNames == {Endpoints[i] : i \in 1..Len(Endpoints)}
TypeNumbers == 1..Len(Types)

VARIABLES
  stage,     \* the client program: "off", "start", "types", "up"
  call,      \* its call
  calls,     \* bound: how many it made
  lates,     \* bound: how many timed out on the stream it has
  cons,      \* its connections, with the identifiers the server gave
  packets,   \* the answers that wait in its back channel's connections
  toServer, toClient,  \* the stream, both ways
  agrees,    \* whether its version is the server's
  started,   \* client->started: "no", "yes", or "soon" (it has been told so)
  backchannel,  \* the back channel's connections on the server, oldest first
  inbox,     \* their packets, for their callback threads
  served,    \* the server's connections for its clients
  relayed    \* history: what came of the last frame of a front channel

clientVars == <<stage, call, calls, lates, cons, packets>>
linkVars == <<toServer, toClient>>
callbackVars == <<agrees, started, backchannel, inbox, served>>
vars == <<serverVars, clientVars, linkVars, callbackVars, relayed>>

NoCall == [op |-> None, at |-> None]
Nothing == [client |-> NoClient]
Nobody == [type |-> 0, address |-> 0]

Init ==
  /\ ServerInit
  /\ stage = [c \in Clients |-> "off"] /\ call = [c \in Clients |-> NoCall]
  /\ calls = [c \in Clients |-> 0] /\ lates = [c \in Clients |-> 0]
  /\ cons = [c \in Clients |-> {}]
  /\ packets = [c \in Clients |-> [e \in EndpointNames |-> <<>>]]
  /\ toServer = [c \in Clients |-> <<>>] /\ toClient = [c \in Clients |-> <<>>]
  /\ agrees = [c \in Clients |-> TRUE] /\ started = [c \in Clients |-> "no"]
  /\ backchannel = [c \in Clients |-> <<>>]
  /\ inbox = [c \in Clients |-> <<>>]
  /\ served = {}
  /\ relayed = Nothing

-----------------------------------------------------------------------------
(***************************************************************************)
(* Frames.  A first byte says the type, 0 the back channel; the server and   *)
(* the client both count the front channels from 0 too, in the same order.   *)
(***************************************************************************)
\* Mutant: the client counts its types from the back channel.
FrontId_Shifted(type) == type

FrontId(type) == type - 1

ServerFrontId(type) == type - 1

\* xbee_modeLocateConType: the first type with the identifier, the back channel
\* before the front channels.  0: the back channel, which does nothing with a
\* front channel's frame, or no type.
Located(id) ==
  LET same == {t \in TypeNumbers : FrontId(t) = id} IN
  IF id = 0 \/ same = {} THEN 0 ELSE CHOOSE t \in same : TRUE
ServerLocated(id) ==
  LET same == {t \in TypeNumbers : ServerFrontId(t) = id} IN
  IF id = 0 \/ same = {} THEN 0 ELSE CHOOSE t \in same : TRUE

Request(ep, arg) == [kind |-> "request", ep |-> ep, arg |-> arg, late |-> FALSE]
\* xbee_netServer_bc_tx_func, over what the callbacks put into their buffers
Answer(r, ret, data) ==
  [kind |-> "answer", ep |-> r.ep, ret |-> ret, data |-> data, late |-> r.late]
\* A front channel's frame; "for" is what its sender means by it.
FrontFrame(id, con, for) == [kind |-> "front", id |-> id, con |-> con, for |-> for]

\* The frames of a call that has given up.
GivenUp(frames) ==
  [i \in DOMAIN frames |->
     IF frames[i].kind = "front" THEN frames[i] ELSE [frames[i] EXCEPT !.late = TRUE]]

NoData == <<>>

-----------------------------------------------------------------------------
(***************************************************************************)
(* The client: calls are made of requests, each with its answer awaited.     *)
(***************************************************************************)
Requests ==
  [ start    |-> <<"start", "conGetTypes">>,
    new      |-> <<"conNew">>,
    validate |-> <<"conValidate">>,
    tx       |-> <<"conValidate", "data">>,
    sleep    |-> <<"conValidate", "conSleep">>,
    wake     |-> <<"conValidate", "conSleep">>,
    sleepGet |-> <<"conValidate", "conSleep">>,
    settings |-> <<"conValidate", "conSettings">>,
    end      |-> <<"conEnd">> ]

Ask(op, con) == [op |-> op, con |-> con, todo |-> Requests[op], at |-> "wait", ret |-> 0]

Argument(k) ==
  [con |-> k.con, state |-> IF k.op \in {"sleep", "wake"} THEN k.op ELSE None]

\* xbee_connTx to an endpoint, up to the wait for the answer.
SendRequest(c, k) ==
  /\ toServer' = [toServer EXCEPT ![c] = Append(@, Request(Head(k.todo), Argument(k)))]
  /\ call' = [call EXCEPT ![c] = [k EXCEPT !.at = "wait", !.ret = 0]]

\* A message to the device: no frame identifier, as the template that allows
\* one is given to the types without it, and nothing to wait for.
SendData(c, k) ==
  /\ toServer' = [toServer EXCEPT ![c] =
       Append(@, FrontFrame(FrontId(k.con.type), k.con.id,
                            [type |-> k.con.type, address |-> k.con.address]))]
  /\ call' = [call EXCEPT ![c] = NoCall]

Send(c, k) == IF Head(k.todo) = "data" THEN SendData(c, k) ELSE SendRequest(c, k)

\* init and prepare, on a connection that the server has taken.  A client
\* without calls says nothing.
Connect(c) ==
  /\ Calls[c] # {}
  /\ stage[c] = "off" /\ clients[c].fd = "open" /\ clients[c].rx = "recv"
  /\ stage' = [stage EXCEPT ![c] = "start"]
  /\ Send(c, Ask("start", NoClient))
  /\ agrees' \in {[agrees EXCEPT ![c] = b] : b \in BOOLEAN}
  /\ UNCHANGED <<serverVars, calls, lates, cons, packets, toClient,
                 started, backchannel, inbox, served, relayed>>

\* A call of the program.  The strict checks of libxbee ask the server first
\* whether it still knows the connection.
Begin(c) ==
  /\ stage[c] = "up" /\ call[c] = NoCall /\ calls[c] < MaxCalls
  /\ \/ "new" \in Calls[c] /\ \E t \in TypeNumbers, a \in Addresses :
          Send(c, Ask("new", [type |-> t, address |-> a, id |-> 0]))
     \/ \E op \in Calls[c] \ {"new"}, con \in cons[c] :
          /\ op = "tx" => Types[con.type].tx
          /\ Send(c, Ask(op, con))
  /\ calls' = [calls EXCEPT ![c] = @ + 1]
  /\ UNCHANGED <<serverVars, stage, lates, cons, packets, toClient,
                 callbackVars, relayed>>

Asked(c) == Head(call[c].todo)

\* Five seconds without an answer.
Timeout(c) ==
  /\ call[c].at = "wait" /\ lates[c] < MaxLate
  /\ lates' = [lates EXCEPT ![c] = @ + 1]
  /\ call' = [call EXCEPT ![c].at = IF call[c].op = "start" THEN "fail" ELSE "read"]
  /\ toServer' = [toServer EXCEPT ![c] = GivenUp(@)]
  /\ toClient' = [toClient EXCEPT ![c] = GivenUp(@)]
  /\ inbox' = [inbox EXCEPT ![c] = GivenUp(@)]
  /\ UNCHANGED <<serverVars, stage, calls, cons, packets,
                 agrees, started, backchannel, served, relayed>>

\* The first answer that waits is taken, whichever request it answers.
Answered(c) == packets[c][Asked(c)] # <<>>
FirstAnswer(c) == Head(packets[c][Asked(c)])

\* Whether a request succeeded: the support functions want a result of 0, and
\* data where the answer has some.
Succeeds(c) ==
  /\ Answered(c) /\ call[c].ret = 0
  /\ Asked(c) \in {"conNew", "conSleep", "conSettings"} => FirstAnswer(c) # NoData

TakeAnswer(c) ==
  IF Answered(c) THEN packets' = [packets EXCEPT ![c][Asked(c)] = Tail(@)]
  ELSE UNCHANGED packets

ReadAnswer(c) ==
  /\ call[c].at = "read"
  /\ TakeAnswer(c)
  /\ LET con == call[c].con
         last == Len(call[c].todo) = 1
     IN IF ~Succeeds(c)
        THEN /\ call' = [call EXCEPT ![c] = IF stage[c] = "up" THEN NoCall ELSE [@ EXCEPT !.at = "fail"]]
             /\ UNCHANGED <<stage, cons, toServer>>
        ELSE /\ IF last THEN call' = [call EXCEPT ![c] = NoCall] /\ UNCHANGED toServer
                        ELSE Send(c, [call[c] EXCEPT !.todo = Tail(@)])
             /\ stage' = [stage EXCEPT ![c] = IF Asked(c) = "conGetTypes" THEN "up" ELSE @]
             /\ cons' = [cons EXCEPT ![c] =
                  CASE Asked(c) = "conNew" -> @ \cup {[con EXCEPT !.id = FirstAnswer(c)[1]]}
                    [] Asked(c) = "conEnd" -> @ \ {con}
                    [] OTHER -> @]
  /\ UNCHANGED <<serverVars, calls, lates, toClient, callbackVars, relayed>>

\* The program gives the server up: its setup failed, or it likes to.
Disconnect(c) ==
  /\ stage[c] # "off"
  /\ call[c].at \in {None, "fail"}
  /\ Leave(c)
  /\ stage' = [stage EXCEPT ![c] = "off"] /\ call' = [call EXCEPT ![c] = NoCall]
  /\ calls' = [calls EXCEPT ![c] = 0] /\ cons' = [cons EXCEPT ![c] = {}]
  /\ packets' = [packets EXCEPT ![c] = [e \in EndpointNames |-> <<>>]]
  /\ toClient' = [toClient EXCEPT ![c] = <<>>]
  /\ relayed' = Nothing
  /\ UNCHANGED <<lates, toServer, callbackVars>>

-----------------------------------------------------------------------------
(***************************************************************************)
(* The client's receive handler.                                            *)
(***************************************************************************)
\* An answer: its packet is kept, unless it is only a status; then the call
\* that waits for it goes on (xbee_netServer_bc_rx_func, in XBeeStack's order).
RxAnswer(c) ==
  /\ toClient[c] # <<>> /\ Head(toClient[c]).kind = "answer"
  /\ LET f == Head(toClient[c]) IN
       /\ packets' = IF f.ep = "start" /\ f.data = NoData THEN packets
                     ELSE [packets EXCEPT ![c][f.ep] = Append(@, f.data)]
       /\ call' = IF f.late \/ call[c] = NoCall THEN call
                  ELSE [call EXCEPT ![c].ret = f.ret,
                          ![c].at = IF call[c].op = "start" /\ f.ret # 0 THEN "fail" ELSE "read"]
  /\ toClient' = [toClient EXCEPT ![c] = Tail(@)]
  /\ UNCHANGED <<serverVars, stage, calls, lates, cons, toServer, callbackVars, relayed>>

\* A device's packet, to the connection with its address.  One that comes under
\* the back channel's identifier is taken for an answer to nobody.
RxData(c) ==
  /\ toClient[c] # <<>> /\ Head(toClient[c]).kind = "front"
  /\ LET f == Head(toClient[c])
         type == Located(f.id)
         found == {con \in cons[c] : con.type = type /\ con.address = f.for.address}
     IN relayed' = IF type = 0 \/ found = {} THEN Nothing
                   ELSE [client |-> c, sent |-> f.for,
                         got |-> [type |-> type, address |-> f.for.address]]
  /\ toClient' = [toClient EXCEPT ![c] = Tail(@)]
  /\ UNCHANGED <<serverVars, clientVars, toServer, callbackVars>>

-----------------------------------------------------------------------------
(***************************************************************************)
(* The server's receive handler and callbacks.                              *)
(***************************************************************************)
Reading(c) == clients[c].rx = "recv" /\ "rxHandler" \in clients[c].workers

\* A request goes to the connection of its endpoint, if that is there and awake.
RxRequest(c) ==
  /\ Reading(c) /\ toServer[c] # <<>> /\ Head(toServer[c]).kind = "request"
  /\ LET r == Head(toServer[c]) IN
       inbox' = IF \E i \in DOMAIN backchannel[c] : backchannel[c][i] = [ep |-> r.ep, awake |-> TRUE]
                THEN [inbox EXCEPT ![c] = Append(@, r)] ELSE inbox
  /\ toServer' = [toServer EXCEPT ![c] = Tail(@)]
  /\ UNCHANGED <<serverVars, clientVars, toClient, agrees, started, backchannel, served,
                 relayed>>

\* A message goes to the device of the connection it names
\* (xbee_netServer_fc_rx_func, xbee_net_fromClient).
FromClient(c) ==
  /\ Reading(c) /\ toServer[c] # <<>> /\ Head(toServer[c]).kind = "front"
  /\ LET f == Head(toServer[c])
         found == {s \in served : s.client = c /\ s.type = ServerLocated(f.id) /\ s.id = f.con}
     IN relayed' = [client |-> c, sent |-> f.for,
                    got |-> IF found = {} THEN Nobody
                            ELSE LET s == CHOOSE s \in found : TRUE
                                 IN [type |-> s.type, address |-> s.address]]
  /\ toServer' = [toServer EXCEPT ![c] = Tail(@)]
  /\ UNCHANGED <<serverVars, clientVars, toClient, callbackVars>>

\* A device's packet for a connection of the client (xbee_net_toClient).
ToClient(s) ==
  /\ "tx" \in clients[s.client].workers /\ clients[s.client].fd = "open"
  /\ Len(SelectSeq(toClient[s.client], LAMBDA f : f.kind = "front")) < MaxPackets
  /\ toClient' = [toClient EXCEPT ![s.client] =
       Append(@, FrontFrame(ServerFrontId(s.type), s.id, [type |-> s.type, address |-> s.address]))]
  /\ UNCHANGED <<serverVars, clientVars, toServer, callbackVars, relayed>>

\* The first request of an endpoint is its callback's next; its answer goes out
\* if the client's transmit thread is still there.
FirstFor(c, ep) == SelectInSeq(inbox[c], LAMBDA r : r.ep = ep)

Reply(c, frame) ==
  toClient' = IF "tx" \in clients[c].workers /\ clients[c].fd = "open"
              THEN [toClient EXCEPT ![c] = Append(@, frame)] ELSE toClient

\* A callback takes its request; the others answer only a client that started.
Takes(c, ep) ==
  /\ clients[c].used /\ FirstFor(c, ep) # 0
  /\ ep # "start" => started[c] = "yes"
  /\ UNCHANGED <<serverVars, clientVars, toServer, agrees, relayed>>
Asking(c, ep) == inbox[c][FirstFor(c, ep)]
Rest(c, ep) == [inbox EXCEPT ![c] = RemoveAt(@, FirstFor(c, ep))]

Ignored(c, ep) ==
  /\ clients[c].used /\ FirstFor(c, ep) # 0
  /\ ep # "start" /\ started[c] # "yes"
  /\ inbox' = Rest(c, ep)
  /\ UNCHANGED <<serverVars, clientVars, linkVars, agrees, started, backchannel, served,
                 relayed>>

\* xbee_net_start: the answer, and started after it
NetStartBegins(c) ==
  /\ Takes(c, "start")
  /\ Reply(c, IF agrees[c] THEN Answer(Asking(c, "start"), 0, <<"mode and callbacks">>)
                          ELSE Answer(Asking(c, "start"), 2, NoData))
  /\ started' = [started EXCEPT ![c] = IF agrees[c] THEN "soon" ELSE @]
  /\ inbox' = Rest(c, "start")
  /\ UNCHANGED <<backchannel, served>>

NetStarts(c) ==
  /\ started[c] = "soon"
  /\ started' = [started EXCEPT ![c] = "yes"]
  /\ UNCHANGED <<serverVars, clientVars, linkVars, agrees, backchannel, inbox, served,
                 relayed>>

NetConGetTypes(c) ==
  /\ Takes(c, "conGetTypes")
  /\ Reply(c, Answer(Asking(c, "conGetTypes"), 0, <<Types>>))
  /\ inbox' = Rest(c, "conGetTypes")
  /\ UNCHANGED <<started, backchannel, served>>

\* The least identifier that no connection of the type has.
FreeIdentifier(con) ==
  CHOOSE n \in 0..Cardinality(served) :
    LET taken == {s.id : s \in {s \in served : s.type = con.type}}
    IN n \notin taken /\ 0..(n - 1) \subseteq taken

\* xbee_net_conNew: an address that a connection has is refused.
NetConNew(c) ==
  /\ Takes(c, "conNew")
  /\ LET r == Asking(c, "conNew")
         con == r.arg.con
         id == FreeIdentifier(con)
     IN IF \E s \in served : s.type = con.type /\ s.address = con.address
        THEN /\ Reply(c, Answer(r, 1, NoData))
             /\ UNCHANGED served
        ELSE /\ served' = served \cup {[client |-> c, type |-> con.type, address |-> con.address,
                                        id |-> id]}
             /\ Reply(c, Answer(r, 0, <<id>>))
  /\ inbox' = Rest(c, "conNew")
  /\ UNCHANGED <<started, backchannel>>

\* The other callbacks look for the identifier among the back channel's own
\* connections, which all have identifier 0, and find the oldest of these.
Finds(r) == r.arg.con.id = 0

NetConValidate(c) ==
  /\ Takes(c, "conValidate")
  /\ LET r == Asking(c, "conValidate") IN Reply(c, Answer(r, IF Finds(r) THEN 0 ELSE 2, NoData))
  /\ inbox' = Rest(c, "conValidate")
  /\ UNCHANGED <<started, backchannel, served>>

NetConSleep(c) ==
  /\ Takes(c, "conSleep")
  /\ LET r == Asking(c, "conSleep") IN
       IF Finds(r)
       THEN /\ Reply(c, Answer(r, 0, <<backchannel[c][1].awake>>))
            /\ backchannel' = [backchannel EXCEPT ![c][1].awake =
                                 IF r.arg.state = None THEN @ ELSE r.arg.state = "wake"]
       ELSE /\ Reply(c, Answer(r, 2, NoData))
            /\ UNCHANGED backchannel
  /\ inbox' = Rest(c, "conSleep")
  /\ UNCHANGED <<started, served>>

\* Bound: no program makes a catch-all of its connection, which would make one
\* of the back channel.
NetConSettings(c) ==
  /\ Takes(c, "conSettings")
  /\ LET r == Asking(c, "conSettings") IN
       Reply(c, IF Finds(r) THEN Answer(r, 0, <<"settings">>) ELSE Answer(r, 2, NoData))
  /\ inbox' = Rest(c, "conSettings")
  /\ UNCHANGED <<started, backchannel, served>>

\* The requests for other endpoints (SelectSeq, as a function).
Others(requests, ep) ==
  LET others[i \in 0..Len(requests)] ==
        IF i = 0 THEN <<>>
        ELSE IF requests[i].ep = ep THEN others[i - 1] ELSE Append(others[i - 1], requests[i])
  IN others[Len(requests)]

\* Bound: the fifth before it has not been ended, so it does not end itself.
NetConEnd(c) ==
  /\ Takes(c, "conEnd")
  /\ LET r == Asking(c, "conEnd")
         ended == backchannel[c][1].ep
     IN IF Finds(r)
        THEN /\ ended # "conEnd"
             /\ Reply(c, Answer(r, 0, NoData))
             /\ backchannel' = [backchannel EXCEPT ![c] = Tail(@)]
             /\ inbox' = [inbox EXCEPT ![c] = Others(RemoveAt(@, FirstFor(c, "conEnd")), ended)]
        ELSE /\ Reply(c, Answer(r, 2, NoData))
             /\ inbox' = Rest(c, "conEnd")
             /\ UNCHANGED backchannel
  /\ UNCHANGED <<started, served>>

Callbacks(c) ==
  \/ \E ep \in EndpointNames : Ignored(c, ep)
  \/ NetStartBegins(c) \/ NetStarts(c) \/ NetConGetTypes(c)
  \/ NetConNew(c) \/ NetConValidate(c) \/ NetConSleep(c) \/ NetConSettings(c) \/ NetConEnd(c)

-----------------------------------------------------------------------------
(***************************************************************************)
(* The steps of the server's threads that touch connections.                *)
(***************************************************************************)
\* xbee_netClientSetupBackchannel, before the threads are started
SetupBackchannel ==
  /\ StartRx
  /\ backchannel' = [backchannel EXCEPT ![newClient] =
                       [i \in 1..Len(Endpoints) |-> [ep |-> Endpoints[i], awake |-> TRUE]]]
  /\ UNCHANGED <<clientVars, linkVars, agrees, started, inbox, served, relayed>>

\* The end of the stream is read after what is before it.
RxEof(c) ==
  /\ toServer[c] = <<>>
  /\ Eof(c)
  /\ UNCHANGED <<clientVars, linkVars, callbackVars, relayed>>

ServedFor(c) == {s \in served : s.client = c}

\* A client that says nothing and leaves.
LeaveSilent(c) ==
  /\ stage[c] = "off"
  /\ Leave(c)
  /\ UNCHANGED <<clientVars, linkVars, callbackVars, relayed>>

EndConnections(c) ==
  /\ RxConnections(c)
  /\ served' = served \ ServedFor(c)
  /\ UNCHANGED <<clientVars, linkVars, agrees, started, backchannel, inbox, relayed>>

\* Mutant: the connections made while the client was taken down are left.
Remaining_Left(c) == served

Remaining(c) == served \ ServedFor(c)

\* xbee_netClientFree, and with it everything of the client.  A program that
\* was still there finds its stream at its end, and is left out from then on.
FreeClient(a) ==
  LET c == ending[a] IN
  /\ EndClient(a)
  /\ stage' = [stage EXCEPT ![c] = "off"] /\ call' = [call EXCEPT ![c] = NoCall]
  /\ calls' = [calls EXCEPT ![c] = 0] /\ lates' = [lates EXCEPT ![c] = 0]
  /\ cons' = [cons EXCEPT ![c] = {}]
  /\ packets' = [packets EXCEPT ![c] = [e \in EndpointNames |-> <<>>]]
  /\ toServer' = [toServer EXCEPT ![c] = <<>>] /\ toClient' = [toClient EXCEPT ![c] = <<>>]
  /\ agrees' = [agrees EXCEPT ![c] = TRUE] /\ started' = [started EXCEPT ![c] = "no"]
  /\ backchannel' = [backchannel EXCEPT ![c] = <<>>]
  /\ inbox' = [inbox EXCEPT ![c] = <<>>]
  /\ served' = Remaining(c)
  /\ relayed' = Nothing

ClientProgram(c) ==
  Connect(c) \/ Begin(c) \/ Timeout(c) \/ ReadAnswer(c)
  \/ Disconnect(c) \/ RxAnswer(c) \/ RxData(c)

\* After a fault anything may happen, and nothing more is said.
Next ==
  /\ faults = {}
  /\ \/ ServerStep /\ UNCHANGED <<clientVars, linkVars, callbackVars, relayed>>
     \/ SetupBackchannel
     \/ \E c \in Clients : ClientProgram(c) \/ RxRequest(c) \/ FromClient(c) \/ Callbacks(c)
                           \/ RxEof(c) \/ LeaveSilent(c) \/ EndConnections(c)
     \/ \E s \in served : ToClient(s)
     \/ \E a \in Actors : FreeClient(a)

Spec == Init /\ [][Next]_vars

-----------------------------------------------------------------------------
(***************************************************************************)
(* Properties                                                               *)
(***************************************************************************)
\* The structure of a client is shut down or listed after it was freed, or its
\* list is gone, only if it left before it was listed, or the server was
\* stopped while a client came or left (the lists of the living and the dead,
\* and the order of the steps that move a client between them).
FaultsNeedARace == faults # {} => raced

\* When a client has been freed nothing of it is left: no thread, no place in a
\* list, no connection of the radio that devices would go on to be served by.
FreedMeansGone ==
  \A c \in Clients : ~clients[c].used /\ ~raced =>
    /\ clients[c] = Unused
    /\ c \notin clientList \cup ToSet(deadList)
    /\ ServedFor(c) = {}

\* What travels through a front channel arrives at the connection its sender
\* means: the identifiers that the server gave, the numbers both count their
\* types by, and the addresses agree, as long as no call timed out.
ArrivesWhereMeant ==
  \A c \in Clients : lates[c] = 0 =>
    /\ relayed.client = c => relayed.got = relayed.sent
    /\ \A con \in cons[c] : \A s \in ServedFor(c) :
         s.type = con.type /\ s.id = con.id => s.address = con.address

=============================================================================
