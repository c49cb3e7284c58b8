---------------------------- MODULE SwitchServer ----------------------------
(***************************************************************************)
(* The whole server of SwitchControlApp.c: the socket thread of             *)
(* SocketServerControl.c, which serves one TCP client at a time, parses its *)
(* messages (CommandLogic.c) and appends their commands, and the processing *)
(* thread of RadioNetwork.c, whose callback UpdateReturnData sends replies  *)
(* to whichever client gActiveSocketId names.                               *)
(*                                                                          *)
(* RadioNetwork is extended, not changed: each step here either is a step   *)
(* of RadioNetwork or leaves its variables alone.                           *)
(*                                                                          *)
(* The clients are SwitchControlClient.java: a client sends a message, reads *)
(* one byte, and goes on to the next; it may leave, or be killed, at any    *)
(* moment.  TCP is external: a message arrives whole or in pieces; a client *)
(* that leaves with bytes unread, or is sent bytes after it left, resets    *)
(* the connection; a connection the server closed second lingers a while.   *)
(***************************************************************************)
EXTENDS RadioNetwork

CONSTANTS
  Clients,      \* each connects at most once
  Nobody,       \* no connection
  Messages,     \* what a client may send: the commands of a message, in order
  MaxMessages   \* bound: the messages sent in a behaviour

ServerAssumption ==
  /\ Messages \subseteq Seq(Requests) \ {<<>>}
  /\ Nobody \notin Clients
  /\ MaxMessages \in Nat
ASSUME ServerAssumption

NewFd == 1     \* the descriptor accept returns: close frees it for the next

VARIABLES
  client,     \* external: each client's place in its life
  reading,    \* external: the clients blocked in read
  inbox,      \* external: each client's messages the server has not received
  unread,     \* external: how many bytes each client has not read
  backlog,    \* external: the listening socket's queue of connections
  reset,      \* external: new_fd's connection has been reset
  lingering,  \* external: a closed connection still holds the port
  port,       \* the port socketfd is bound to
  socketPc,   \* the socket thread's place in SocketServerRun
  new_fd,     \* the client at the other end of new_fd
  gActiveSocketId,
  parse,      \* the rest of the message ParseCommand is at
  death,      \* what ended the program, other than RadioNetwork
  messages,   \* history: how many messages have been sent
  owner,      \* history: by uid, the client that sent the command
  delivered   \* history: the replies that reached a client, in order

clientVars == <<client, reading, inbox, unread, messages>>
tcpVars == <<backlog, reset, lingering>>
serverVars == <<port, socketPc, new_fd, gActiveSocketId, parse>>
sessionVars == <<clientVars, tcpVars, serverVars, death, owner, delivered>>
serverAllVars == <<vars, sessionVars>>

ServerInit ==
  /\ Init
  /\ client = [k \in Clients |-> "away"]
  /\ reading = {}
  /\ inbox = [k \in Clients |-> <<>>]
  /\ unread = [k \in Clients |-> 0]
  /\ messages = 0
  /\ backlog = <<>>
  /\ reset = FALSE
  /\ lingering = FALSE
  /\ port = "configured"
  /\ socketPc = "accept"
  /\ new_fd = Nobody
  /\ gActiveSocketId = 0
  /\ parse = <<>>
  /\ death = "none"
  /\ owner = <<>>
  /\ delivered = <<>>

Running == death = "none" /\ pc # "aborted"

-----------------------------------------------------------------------------
(***************************************************************************)
(* The clients.                                                             *)
(***************************************************************************)
Listening == socketPc \in {"accept", "stop"} /\ port = "configured"

ClientConnect(k) ==
  /\ Listening
  /\ client[k] = "away"
  /\ client' = [client EXCEPT ![k] = "connected"]
  /\ backlog' = Append(backlog, k)
  /\ UNCHANGED <<vars, reading, inbox, unread, messages, reset, lingering,
                 serverVars, death, owner, delivered>>

ClientSend(k, m) ==
  /\ client[k] = "connected"
  /\ k \notin reading
  /\ messages < MaxMessages
  /\ inbox' = [inbox EXCEPT ![k] = Append(@, m)]
  /\ reading' = reading \cup {k}
  /\ messages' = messages + 1
  /\ UNCHANGED <<vars, client, unread, tcpVars, serverVars, death, owner,
                 delivered>>

\* One byte per message, whatever the reply's size and the message's commands.
ClientRead(k) ==
  /\ k \in reading
  /\ unread[k] > 0
  /\ unread' = [unread EXCEPT ![k] = @ - 1]
  /\ reading' = reading \ {k}
  /\ UNCHANGED <<vars, client, inbox, messages, tcpVars, serverVars, death,
                 owner, delivered>>

\* The script ends, or the client is killed.
ClientLeave(k) ==
  /\ client[k] = "connected"
  /\ client' = [client EXCEPT ![k] = "left"]
  /\ reading' = reading \ {k}
  /\ reset' = (reset \/ (k = new_fd /\ unread[k] > 0))
  /\ UNCHANGED <<vars, inbox, unread, messages, backlog, lingering, serverVars,
                 death, owner, delivered>>

LingeringEnds ==
  /\ lingering
  /\ lingering' = FALSE
  /\ UNCHANGED <<vars, clientVars, backlog, reset, serverVars, death, owner,
                 delivered>>

-----------------------------------------------------------------------------
(***************************************************************************)
(* The socket thread: SocketServerRun and the events it sends SSECallback.  *)
(***************************************************************************)
AcceptConnection ==
  /\ socketPc = "accept"
  /\ backlog # <<>>
  /\ new_fd' = Head(backlog)
  /\ backlog' = Tail(backlog)
  /\ reset' = (client[Head(backlog)] = "left" /\ unread[Head(backlog)] > 0)
  /\ socketPc' = "stop"
  /\ UNCHANGED <<vars, clientVars, lingering, port, gActiveSocketId, parse,
                 death, owner, delivered>>

\* Closing the listening socket resets the connections still in its queue.
SocketServerStop ==
  /\ socketPc = "stop"
  /\ LET refused == {backlog[i] : i \in DOMAIN backlog}
     IN  /\ client' = [k \in Clients |-> IF k \in refused THEN "refused" ELSE client[k]]
         /\ reading' = reading \ refused
  /\ backlog' = <<>>
  /\ socketPc' = "connect"
  /\ UNCHANGED <<vars, inbox, unread, messages, reset, lingering, port, new_fd,
                 gActiveSocketId, parse, death, owner, delivered>>

\* SSE_CONNECT: _SetSocketId(new_fd).
\*
\* Mutant: the event is not handled.
SocketConnected_Ignored ==
  /\ socketPc = "connect"
  /\ socketPc' = "recv"
  /\ UNCHANGED <<vars, clientVars, tcpVars, port, new_fd, gActiveSocketId, parse,
                 death, owner, delivered>>
SocketConnected ==
  /\ socketPc = "connect"
  /\ gActiveSocketId' = NewFd
  /\ socketPc' = "recv"
  /\ UNCHANGED <<vars, clientVars, tcpVars, port, new_fd, parse, death, owner,
                 delivered>>

ReadyToReceive == socketPc = "recv" /\ parse = <<>> /\ batch = <<>>
AtEnd(k) == client[k] = "left" /\ inbox[k] = <<>>

\* recv returns all that has arrived; ParseCommand asserts that it is exactly
\* one message, and starts on its commands.
ReceiveMessage ==
  /\ ReadyToReceive
  /\ Len(inbox[new_fd]) = 1
  /\ parse' = Head(inbox[new_fd])
  /\ inbox' = [inbox EXCEPT ![new_fd] = <<>>]
  /\ UNCHANGED <<vars, client, reading, unread, messages, tcpVars, port, socketPc,
                 new_fd, gActiveSocketId, death, owner, delivered>>

\* recv returns a part of a message, or several: the assertion fails.  (Some
\* parts of a pack pass it: CommandProtocol.)
ReceiveFragment ==
  /\ ReadyToReceive
  /\ inbox[new_fd] # <<>>
  /\ death' = "fragment"
  /\ UNCHANGED <<vars, clientVars, tcpVars, serverVars, owner, delivered>>

\* The commands of a message, of a pack as of a single one, are appended one by
\* one: RadioNetworkAppendCommand's critical sections.
AppendFromMessage ==
  /\ socketPc = "recv"
  /\ SocketThread
  /\ IF batch = <<>>
     THEN parse # <<>> /\ RadioNetworkAppendCommand(Head(parse)) /\ parse' = Tail(parse)
     ELSE UNCHANGED parse
  /\ owner' = IF accepted' = accepted THEN owner ELSE Append(owner, new_fd)
  /\ UNCHANGED <<clientVars, tcpVars, port, socketPc, new_fd, gActiveSocketId,
                 death, delivered>>

\* recv returns 0: close(new_fd).
\*
\* Mutant: it does not wait for the end, and takes no data for it.
CloseConnection_NoData ==
  /\ ReadyToReceive
  /\ inbox[new_fd] = <<>>
  /\ new_fd' = Nobody
  /\ lingering' = ~reset
  /\ reset' = FALSE
  /\ socketPc' = "disconnect"
  /\ UNCHANGED <<vars, clientVars, backlog, port, gActiveSocketId, parse, death,
                 owner, delivered>>
CloseConnection ==
  /\ ReadyToReceive
  /\ AtEnd(new_fd)
  /\ new_fd' = Nobody
  /\ lingering' = ~reset
  /\ reset' = FALSE
  /\ socketPc' = "disconnect"
  /\ UNCHANGED <<vars, clientVars, backlog, port, gActiveSocketId, parse, death,
                 owner, delivered>>

\* SSE_DISCONNECT: _SetSocketId(0).
\*
\* Mutant: the event is not handled.
SocketDisconnected_Ignored ==
  /\ socketPc = "disconnect"
  /\ socketPc' = "start"
  /\ UNCHANGED <<vars, clientVars, tcpVars, port, new_fd, gActiveSocketId, parse,
                 death, owner, delivered>>
SocketDisconnected ==
  /\ socketPc = "disconnect"
  /\ gActiveSocketId' = 0
  /\ socketPc' = "start"
  /\ UNCHANGED <<vars, clientVars, tcpVars, port, new_fd, parse, death, owner,
                 delivered>>

\* bind fails while a closed connection holds the port (SO_REUSEADDR is not
\* set); its result is not looked at, and listen picks some other port.
SocketServerStart ==
  /\ socketPc = "start"
  /\ port' = IF lingering THEN "any" ELSE "configured"
  /\ socketPc' = "accept"
  /\ UNCHANGED <<vars, clientVars, tcpVars, new_fd, gActiveSocketId, parse, death,
                 owner, delivered>>

ServerThread ==
  \/ AcceptConnection \/ SocketServerStop \/ SocketConnected
  \/ ReceiveMessage \/ ReceiveFragment \/ AppendFromMessage
  \/ CloseConnection \/ SocketDisconnected \/ SocketServerStart

-----------------------------------------------------------------------------
(***************************************************************************)
(* The processing thread, with UpdateReturnData as its callback.            *)
(***************************************************************************)
PeerThere == new_fd # Nobody /\ client[new_fd] = "connected"
PeerLeft == new_fd # Nobody /\ client[new_fd] = "left"

\* SocketServerSend, under the lock of gActiveSocketId: the reply reaches the
\* client; or it is sent to a client that has left, which resets the
\* connection; or there is no client, or no connection any more, and it is lost.
SocketServerSend ==
  \/ /\ gActiveSocketId # 0 /\ PeerThere
     /\ unread' = [unread EXCEPT ![new_fd] = @ + reply.size]
     /\ delivered' = Append(delivered, [uid |-> reply.uid, to |-> new_fd])
     /\ UNCHANGED reset
  \/ /\ gActiveSocketId # 0 /\ PeerLeft
     /\ reset' = TRUE
     /\ UNCHANGED <<unread, delivered>>
  \/ /\ gActiveSocketId = 0 \/ new_fd = Nobody
     /\ UNCHANGED <<unread, delivered, reset>>

UpdateReturnData ==
  /\ HandOver /\ ProcessingThread
  /\ SocketServerSend
  /\ UNCHANGED <<client, reading, inbox, messages, backlog, lingering, serverVars,
                 death, owner>>

\* A send to a connection that has been reset raises SIGPIPE.
SendToResetConnection ==
  /\ pc = "reply"
  /\ gActiveSocketId # 0 /\ PeerLeft /\ reset
  /\ death' = "SIGPIPE"
  /\ UNCHANGED <<vars, clientVars, tcpVars, serverVars, owner, delivered>>

ProcessCommandQueue ==
  \/ pc # "reply" /\ ProcessingThread /\ UNCHANGED sessionVars
  \/ UpdateReturnData
  \/ SendToResetConnection

-----------------------------------------------------------------------------
Environment ==
  \/ \E k \in Clients :
       \/ ClientConnect(k) \/ ClientRead(k) \/ ClientLeave(k)
       \/ \E m \in Messages : ClientSend(k, m)
  \/ LingeringEnds
  \/ (Tick \/ \E e \in Endpoints : LoseAnswer(e)) /\ UNCHANGED sessionVars

ServerNext ==
  \/ Running /\ (ServerThread \/ ProcessCommandQueue \/ Environment)
  \/ ~Running /\ UNCHANGED serverAllVars

ServerSpec == ServerInit /\ [][ServerNext]_serverAllVars

(***************************************************************************)
(* Both threads are scheduled, and a client reads what has come.  Nothing   *)
(* makes a client send or leave, or the lingering connection end.           *)
(***************************************************************************)
ServerFairness ==
  /\ WF_serverAllVars(Running /\ ServerThread)
  /\ WF_serverAllVars(Running /\ ProcessCommandQueue)
  /\ \A k \in Clients : WF_serverAllVars(Running /\ ClientRead(k))

FairServerSpec == ServerSpec /\ ServerFairness

-----------------------------------------------------------------------------
(***************************************************************************)
(* Properties.                                                              *)
(***************************************************************************)
Served(k) == new_fd = k /\ client[k] = "connected" /\ socketPc = "recv"

\* While a client stays connected no reply to its commands goes elsewhere or is
\* dropped: gActiveSocketId is set before the first command is received and
\* stays until recv has seen the end, whatever the processing thread is at
\* (SSECallback, UpdateReturnData).
ConnectedClientGetsItsReplies ==
  \A k \in Clients : Served(k) =>
    \A u \in Uids(replies) : owner[u] = k =>
      \E i \in DOMAIN delivered : delivered[i] = [uid |-> u, to |-> k]

\* A reply that goes to the wrong client goes to one served later, when the
\* sender has left: never to a client before the sender, never while both are
\* there (the socket thread serves one connection at a time).
StrayRepliesGoForward ==
  \A i \in DOMAIN delivered :
    LET from == owner[delivered[i].uid]
    IN  from # delivered[i].to =>
          /\ client[from] = "left"
          /\ \A j \in DOMAIN delivered : delivered[j].to = from => j < i

\* The server drives the radio network as RadioNetwork says: what is checked and
\* proved of RadioNetwork holds inside the server.
RunsRadioNetwork == Spec

\* RadioNetworkAppendCommand makes a command of the request, whose reply leaves
\* the server in the end: not of GetMultipleSwitches, nor of a mask that begins
\* past the last switch; and a single switch past the last one leaves a command
\* with a garbage trigger time.
Answerable(r) ==
  /\ r.commandType # "GetMultipleSwitches"
  /\ r.commandType \notin {"GetNumSwitches", "PassThrough"} => r.index < NumSwitches

\* A client that sends a message with an answerable request, and waits for a
\* byte, gets one, unless it is refused, leaves or the program ends: the request
\* becomes a command, its reply leaves when the queue is empty, and it finds the
\* client there.  One whose requests all get no reply (Answerable) waits in read
\* for ever.  No command with a garbage trigger time may stand in the queue
\* meanwhile: it can keep every reply back.
WaitingClientReads ==
  \A k \in Clients, m \in {x \in Messages : \E i \in DOMAIN x : Answerable(x[i])} :
    (k \in reading /\ inbox[k] # <<>> /\ inbox[k][Len(inbox[k])] = m)
      ~> (k \notin reading \/ ~Running)

\* When a client has left, the socket thread comes back to accept and the active
\* socket is forgotten.
ComesBackToAccept ==
  \A k \in Clients :
    (new_fd = k /\ client[k] = "left") ~>
      ((socketPc = "accept" /\ gActiveSocketId = 0) \/ ~Running)
=============================================================================
