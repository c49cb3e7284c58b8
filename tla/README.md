# A verification project for XbeeProject

XbeeProject lets TCP clients switch relays that hang on XBee radio boards. A
server (`src/Server`, C) accepts one client at a time, takes commands of a
small binary protocol, queues them, sends each as one byte to a relay board
through libxbee, and returns a status byte per command. A Java test client
(`src/Client`) encodes the commands of a script and prints what comes back.

This directory holds TLA+ modules of that system, the TLC configurations that
check them on small instances, and theorems checked by TLAPS for all instances.
`PROJECT.json` lists the runs, the lines each definition stands for, the
hazards, and what was found. Paths below are relative to the repository.

## 1. Inventory

| Component | State | Operations | Modelled in |
|---|---|---|---|
| Radio network, `src/Server/RadioNetwork.c` | two linked-list queues under a rwlock, `g_radio_network_spec` | `RadioNetworkAppendCommand` (socket thread), `RadioNetworkProcessCommandQueue` and `RadioNetworkGetReturnData` (processing thread) | `RadioNetwork`, abstractly `SwitchService` |
| XBee interface, `XBeeInterface.c` | one connection at a time | connect, send, receive, disconnect | `RadioNetwork` (its outcomes) |
| Socket server, `SocketServerControl.c` | listening socket, `new_fd` | start, stop, run (accept/recv loop), send | `SwitchServer` |
| Application, `SwitchControlApp.c` | `gActiveSocketId` under a rwlock | `SSECallback`, `UpdateReturnData`, `main` | `SwitchServer`, `ServerStart` |
| Command logic, `CommandLogic.c`, `CommandProtocol.h` | the receive buffer of the caller | `GetCommandLength`, `ParseCommand` | `CommandProtocol` |
| Configuration, `Util.c`, `config.ini`, `lib/inih` | `gAppConfig`, the section and name `ini_parse` is at | `iniHandler`, `ini_parse`, `zLogInit` | `AppConfig`, `ServerStart` |
| Java client | script, socket | encode, send, read one byte | `CommandProtocol` (encoding), `SwitchServer` (behaviour) |
| libxbee: transmission, `conn.c`, `frame.c`, `tx.c`, `rx.c` | the block of frame identifiers, the queue of messages to write, the connections' mutexes | `xbee_connTx`, the transmit thread, the receive handler | `XBeeStack` |
| libxbee: connections, `conn.c` | the list of each connection type, each connection's address, settings, packets and callback thread | create, end, sleep, wake, send, receive, callbacks | `XBeeConnections`, `XBeeCallbacks`, `XBeeAddress` |
| libxbee: modes, `modes/xbee1`, `xbee2`, `xbeeZB`, `xbee5` | the connection types, the serial port | a `txHandler` or `rxHandler` for each type of frame; I/O samples | `XBeeModes`, `XBeeSamples` |
| libxbee: serial line, packets, lists, `modes/common.c`, `xsys_linux.c`, `pkt.c`, `ll.c` | where the reader is in a frame; the registry of packets and their keyed data; linked lists | framing and escaping, reading, the queue of messages, every list operation | `XBeeSerial`, `XBeeSamples`, `XBeeList` |
| libxbee: instances and threads, `xbee.c`, `thread.c`, `mutex.c` | the lists of instances and threads | set up, shut down, free, start and kill a thread | `XBeeInstances` |
| libxbee: network server and its clients, `net*.c`, `modes/net` | the lists of living and dead clients, back and front channels on both sides | start, stop, accept, the callbacks, the client's support functions | `XBeeNetServer`, `XBeeNet` |
| zlog (vendored); `log.c`, `ver.c`, `error.c` | | | not modelled |

How they interact. The *socket thread* runs `SocketServerRun`; the bytes of one
`recv` go through `SSECallback` to `ParseCommand`, which calls
`RadioNetworkAppendCommand` once per command of a message. The *processing
thread* takes commands from `gCommandQueue`, puts back those whose trigger time
has not come, sends the others, waits up to a second for an answer and moves
the command to `gAwaitingReturnQueue`; when `gCommandQueue` is empty it calls
back `UpdateReturnData`, which takes one command from that queue and sends its
reply to `gActiveSocketId`. The threads share the two queues and
`gActiveSocketId`, each under a lock that is held for one access only.

Below, `XBeeRadioConnect`, `XBeeRadioSend` and the receive are calls of libxbee.
Three threads run an instance of it: one reads the serial port and lists what
the frames contain, one (the receive handler) gives each message to a
connection, posts the statuses to the callers that wait and prods the
connection's callback thread, one writes. A caller of `xbee_connTx` takes a frame
identifier, lists its message for the transmit thread and waits for the status
that comes back under that identifier. `RadioNetwork` has what these calls can
return as choices; the libxbee modules have the library itself. libxbee's "net"
mode runs the same connections over TCP, against the library's own server.

What is hard, and what must hold in spite of it:

* two threads and two queues: no command lost, doubled or answered twice;
* delayed commands rotate through the queue: none early, none starved, and
  commands already due are not passed;
* replies carry no number: their order is all that ties them to commands;
* a board may not acknowledge, may obey without acknowledging, may answer late
  or not at all: a reply must not claim what did not happen;
* clients come and go while their commands are queued: replies must not be sent
  to one who waits for something else;
* TCP cuts and joins messages: no piece may be taken for a command;
* a frame identifier is used again while a late status for its last use is still
  to come; what a status or an answer says must reach the call it belongs to;
* connections, callback threads, network clients and whole instances are ended
  by one thread while others use them: nothing may be used after it is freed;
* addresses have three forms, of which connections may lack some and learn them
  from packets: a packet must find the connection of its device;
* a serial line loses bytes: the reader must find the next frame again.

Every hazard with its line is in `PROJECT.json`.

## 2. The modules

* **`RadioNetwork`** is the core. A queue is a sequence and each critical
  section (`_AddCommand`, `_RetrieveCommand`) one step. The socket thread's
  actions are the cases of `RadioNetworkAppendCommand`; `SetMultipleSwitches`
  adds one command per step, its loop state in `batch`. The processing thread
  has a program counter `pc` and one action per step of the loop
  (`RetrieveCommand`, `PutBack`, `XBeeRadioConnect`, `Send...`, `Receive...`,
  `GetReturnData`, `HandOver`, ...). `sent`, `accepted` and `replies` are
  histories. External: what a relay board does with a byte, and `air`, the
  answers in flight, which may be lost or arrive after the second the receive
  waits. A failed assertion is `pc = "aborted"`. A command whose index is over
  the limit has `filled = FALSE` and an arbitrary trigger time, as the code
  leaves its memory uninitialised.
* **`SwitchService`** is what the radio network promises: commands performed
  once, when due, instant ones in order, moving only their own switch, and
  answered in the order of performance. `ImplementsService` is the refinement,
  checked by a run and proved.
* **`SwitchServer`** extends `RadioNetwork` with the socket thread, the
  clients and TCP: connecting, refused connections when the listening socket
  closes, messages whole or in parts, leaving, resets and SIGPIPE, the
  lingering connection that makes `bind` fail. Each of its steps is a step of
  `RadioNetwork` or leaves it alone (`RunsRadioNetwork`, which is proved).
* **`CommandProtocol`** has the bytes: the client's encoding, an arbitrary
  segmentation by TCP, the receive buffer that keeps old bytes, and
  `GetCommandLength`/`ParseCommand` on it, pointer arithmetic and recursion
  included (the recursion's depth is bounded by `MaxNesting`, beyond which the
  stack counts as used up).
* **`AppConfig`** is `iniHandler` on one entry; **`ServerStart`** is `main` up to
  `SocketServerRun`: `zLogInit`, `ini_parse` with its section and the name a
  continuation line belongs to, over the chunks `fgets` returns, then each
  component's init. Every call may fail, and `main` looks at two of the results:
  a `getaddrinfo` that fails is a NULL dereference later (`"crashed"`).
* **`XBeeStack`** is how a message is sent: `pc[u]` is a caller's place in
  `xbee_connTx`, between taking and releasing each lock; `frame` is the frame
  block, `bufList` and `txBuf` the transmit thread's. A status may come while the
  caller waits, before it waits, after it gave up, or never (`Faults`).
* **`XBeeCallbacks`** is one connection's callback thread, from
  `xbee_conCallbackProd` to `xbee_conEnd`, which gives it fifty milliseconds and
  then cancels it. A step is one list operation or one look at a field, as no
  lock is held for longer.
* **`XBeeAddress`** is `xbee_conAddressCmp` and the rules for what address a type
  takes; **`XBeeModes`** the connection types of the four radio modes as a table
  of what their handlers write and read; **`XBeeConnections`** composes both: the
  list of a type, the calls of the program, the devices and the frames in the
  air.
* **`XBeeNetServer`** is the life of a client of the network server (accept,
  threads, the lists of the living and the dead, `xbee_netStop`); **`XBeeNet`**
  extends it with the program at the other end: back channel requests, the
  callbacks that answer them, front channels.
* **`XBeeList`** is `ll.c` with its nodes and pointers as functions;
  **`XBeeSamples`** the keyed data of packets, the four parsers of I/O
  samples and the messages they are for (an I/O message or an answer to `IS`), and
  the getters, which store a pointer in an int (`AsInt`, per build);
  **`XBeeSerial`** the bytes between the board and the receive handler, with the
  list and the packets: the library's whole way in. The program takes a
  packet (`xbee_conRx`) and frees it (`xbee_pktFree`) in separate steps, so `held`
  packets may be freed in any order while the handler makes others. A message of which
  no packet is made, of an unknown type or length or a command that failed, is
  dropped (`HandlerDrops`).
* **`XBeeInstances`** is `xbee_setup` and `xbee_shutdown` of several instances at
  a time, the serial port's descriptor numbers and the walk over the registry of
  threads (`WalkStep` to `WalkJoin`), from which others take theirs too: the walks
  of other instances, and the callback threads, which are listed by the prod that
  starts them and joined and freed by the next one or with their connection
  (`CallbackStart`, `CallbackJoin`, `CallbackKill`). Network client threads are
  listed and joined in the same way and are not told apart. The look at the next
  thread and at its owner is one step, although the registry's lock is let go in
  between: what reading a thread that was just freed does is not modelled. Nor is
  what happens once two threads free one instance (the model stops there), or a
  program that ends connections of an instance it is shutting down.
* `MC*` modules define the instances; `*Proofs` modules hold the proofs.

## 3. What the runs check

| Run | Instance | Shows |
|---|---|---|
| `radio_switches` | 2 boards of 4, 3 commands, time 0..1 | conservation of commands; `SetReplyMeansHeard`; `SwitchesFollowCommands` across the border between boards; `OnIsNeverInvented` with late and lost answers |
| `radio_service` | 1 board of 4, 3 commands, time 0..2 | order, timing, replies in order, `DueKeepsItsPlace`, refinement of `SwitchService`, every command is answered |
| `server_sessions` | 2 clients, 2 messages, up to 4 commands | replies reach a client that stays, stray ones only go forward; a client whose message gets a reply reads, whatever another waits for; the socket thread comes back to accept |
| `protocol` | 8 commands, 3 sent in every combination and cut | whole commands are understood, pieces of single ones are not mistaken |
| `serial` | 3 frames, both framings, 3 modes, one fault | frames in order, the reader gets back in step, samples read as measured, each packet once and registered while it lives, the list's operations |
| `instances` | 2 instances with a handler thread, one with a callback thread, every failure of a setup | nothing of a freed instance is left, ports stay open; every shutdown whose thread could be made, and every setup that fails, ends |
| `xbee_stack` | 2 callers, 2 connections, 2 identifiers, 3 calls | who owns a frame, what success means, packets before statuses, late statuses free frames, `xbee_connTx` returns |
| `xbee_callbacks` | 2 threads, 1 connection, 3 packets | one callback at a time and in order, no use after the end, `xbee_conEnd` returns, a dead callback thread is started again |
| `xbee_connections` | 2 connections of every type, 2 devices | one connection for a packet, the right one; what is learnt; answers find who asked |
| `net_clients` | 2 client structures, stop and restart | what is freed is gone; use after free needs one of the known races |
| `net_calls` | 3 calls, one of which may be late | what travels through a front channel arrives where it was meant |

Deadlock is checked in the four runs of the server. In the others a finite number
of calls or frames is made and the model then rests.

One run finds a disagreement between the repository's words and its code,
`config_ini_file`: the `MATCH` macro's parenthesis makes entries of other sections
be handled as `ServerPort`, so the shipped `config.ini` configures no end point.

It bears on the other runs: as `main` starts it today, the radio network has
neither end points nor switches (`NeverServesSwitches`, below). `RadioNetwork` and
`SwitchServer` are checked for the configurations `RadioNetworkInit` is written
for and `config.ini` states, with positive `SwitchCount` and `EndpointCount`.

Where the models show a defect, the property says what holds apart from it. These
behaviours are in the models, and each was met as a counterexample to the
property without its exception:

* an index past the last switch ends the server at an assertion; a query whose
  answer is lost or late reports off; any number of switches per board but four
  picks wrong bytes; a client is sent the reply to a command of one that left;
* a mask that begins past the last switch, and `GetMultipleSwitches`, get no reply,
  and the client waits for ever, although the design document has the server tell
  success from failure (`doc/Design Doc.mkd:164`; `Answerable` leaves them out of
  `WaitingClientReads`); an index past the last switch may leave a command that is
  never due and keeps back every reply, so no message of that run has one;
* the header of a pack passes the length check over stale bytes, and a command
  nobody sent is carried out (`CutsAreNotMistaken` is about single commands);
* a status that comes for an earlier use of a frame identifier is taken for the
  success of the later one (`FirstUseIsAcknowledged` is about the first use);
  a failed write leaves its caller waiting for ever (`ConnTxReturns` excepts it);
* a callback set while packets are being received can start two callback threads
  for one connection (`LateSet`, a constant, is FALSE in the run, which the proofs
  take as the hypothesis `SetEarly`);
* a network client's connection is looked up among the back channel's own, so the
  callbacks that end, sleep or validate one act on another or on none; a
  client that leaves before it is listed is used after it was freed
  (`FaultsNeedARace` names the races);
* a byte lost from the serial line, or a pause of two seconds inside a frame, can
  make up a frame whose checksum holds; an escape at the end of a chunk is
  dropped if the chunk holds an earlier one (`ArriveInOrder` and `BackInStep`
  speak of the frames sent, and of a line that is quiet again);
* the walk over all threads goes on from one of another instance, which that
  instance's own walk, or a prod or the end of a connection that joins a callback
  thread, may free: then it ends early and leaves threads (`lost`). It is enough
  that one instance is shut down while another is in use. A thread that has not
  begun is waited for without being cancelled (`early`). `NothingLeftBehind` and
  `FreeEnds` except these;
* the getters of a packet's samples store a pointer in an int (`AsInt`). Where
  pointers are wider, what is next to it on the stack is written over, and where
  their high half comes first the reading is lost. On the common 64-bit builds the
  value is right as long as nothing notices the rest, and `SamplesReadBack` says it of
  those and of 32-bit builds;
* an instance is listed twice (`xbee.c:90`, `:167`), so that it is not invalid "from
  now on", as the comment at `xbee.c:202` has it, when `xbee_shutdown` has taken it off
  the list once, and a second shutdown is let in;
* an instance whose shutdown thread could not be made stays as it is (`"left"`), until
  the program shuts it down again; two shutdowns whose threads could be made free
  one instance twice (`"twice"`);
* the port is closed twice, by which one that was opened in between is closed too
  (`PortsStayOpen`).

**Bounds.** Three commands let one be delayed, one be overtaken or overtake and
one be in flight or awaiting its reply; two would hide the rotation past a
third. Time 0..2 tells two delays apart. Two boards have a border, and an index
on each side of it. Two clients are one that leaves and one that comes after;
each connects once. The server runs have no delayed commands (`MaxTime = 0`):
delays only add waiting, which `radio_service` has. In
`CommandProtocol` three commands leave a long one behind a short one and a third
to be misread; `MaxNesting = 3` is one more than the deepest pack that ends.

In the libxbee runs: two identifiers and three calls (`NumFrames`, `MaxCalls`) use
one again while both are busy; two callers share a connection; one unknown
message (`MaxUnknown`) is enough to come between two known ones. Three packets
(`MaxPackets`) find a callback thread running, about to end, and gone. One frame
in the air (`MaxAir`) and one thread at a time in the calls that overlap without
a lock (`Single`) keep `xbee_connections` finite with every type of every mode;
overlapping calls are what its properties except. `net_clients` has both client
structures and one call, `net_calls` one client, three calls and one late answer
(`MaxLate`): a race needs two clients, a late answer only one, with a call before it
and one after. Three frames
(`MaxFrames`) are one the fault spoils, one in which the reader finds its place
again and one that must arrive; `Stale` has what an earlier message may have left
behind, a plain byte and a delimiter. Their packets are one at either end of the
registry and one in its middle. In `instances` each instance has the one thread that
can start callback threads, and one of them has a callback: a walk has a thread of
another instance to stand on that its walk or a prod can take away. The other two
threads of an instance lock, end and are cancelled as these do.

**Fairness.** `Fairness` has the two threads scheduled and the clock advance:
neither blocks for ever, the receive being bounded to a second and the sleep to
one. `ServerFairness` adds that a client reads what has come. Nothing makes a
client send or leave, a connection stop lingering, or the air deliver. `TIME`,
answers and acknowledgements may all fail in the liveness runs; a missing
acknowledgement ends the program, which the properties name. In libxbee the
threads run: a caller, the transmit thread, the receive handler, a callback
thread, but no status, no packet and no answer of a board need ever come, as every
wait in the code is bounded. `XBeeInstances` asks for more of what frees an instance
and of the thread it has cancelled and waits for (strong fairness): the first waits
for a mutex others take in turn, and gets it; the second comes to a cancellation
point outside the lists' mutexes again and again, as `xbee_mutex_unlock` makes it
cancellable each time. That a thread comes to run at all, or ends when it is not
cancelled, is not assumed: hence the exception for the one that had not begun.

## 4. What is proved

The theorems hold for every value of the constants that the named assumptions
allow. These are `SpecAssumption`, `BoundAssumption` and `RequestAssumption` of the
radio network (positive counts, well-formed requests), `ServerAssumption`,
`StackAssumption`, `CallbackAssumption`, `ConnectionsAssumption`, `InstancesAssumption`,
`NetAssumption`, `TypesAssumption` (the first type of a mode is one that only
receives), `CallsAssumption`, `NoItemAssumption` and `FramesAssumption`: they say which constants are sets, numbers or
distinct values, and every one is evaluated by a run. Some theorems have a
hypothesis besides, given below (`FourSwitches`, `OnlyCommandsSwitch`, `SetEarly`,
`FitTheProtocol`).

**The radio network** (`SwitchServerProofs`).

1. `TypeCorrect` and `CommandsConserved`. The inductive invariant is
   `TypeOK /\ OnePlace`: `OnePlace` says that the numbers in the
   queues, in the thread's hands, in the reply buffer and among the replies
   are disjoint, distinct and together the issued ones. `TypeOK` alone is not
   inductive: that the head of a queue is a numbered command needs `OnePlace`.
2. `DelaysKept`. `TimingInv` ties each queued command's
   trigger time to what its call asked for; the step that matters is the
   passing of the clock between check and send.
3. `InstantOrder`. `OrderInv`: instant commands stand in the queue in the order
   of their numbers, the one in hand before them, the sent ones before that. It
   needs `TimingInv`, as an instant command is always due and so never put back.
4. `RepliesKeepOrder`. `ReturnInv`: whoever waits for a reply (in the thread's
   hands, in the return queue, in the reply buffer) was sent after all that were
   answered and before all that stand behind it.
5. `DueServedInTurn`: an action property, one lemma for each way the line of
   waiting commands can change (it grows, its head is taken, the one in hand
   leaves).
6. `RepliesMeanHeard`, `SwitchesObey` and `OnIsTrue`. `AddressInv`: a
   command carries the address and the byte for what its call asked for, through
   the queue and the thread's hands; `HeardInv`: behind the assertion on
   `XBeeRadioSend`, in the return queue, the reply buffer and among the replies,
   every set command was heard. The other two assume `FourSwitches`, as
   `command_table` has the bytes of four relays whatever `switch_count` says,
   and `OnlyCommandsSwitch`, as the one byte of a `PassThrough` goes to every
   board. `FollowInv` names the last transmission that was heard; `OnInv` follows
   an "on" from the relay through the air, the return data and the reply, and
   holds whichever command of the board receives the answer.
7. `RefinesService`: the radio network implements `SwitchService`, step by step,
   under `FourSwitches`. `ServiceInv` joins the invariants of 1 to 4 and
   `AddressInv`; a step that sends a command maps to `Perform` (`PerformAndStop` where
   an assertion then fails), one that hands over a reply to `Answer`, and the
   thread's others to a stutter. A command whose index is
   past the last switch is in no order with the others (its trigger time is not
   initialised), which is why the service's instant commands are those with an
   index that exists.

**The server** (`SwitchServerProofs`, and `ServerInputProofs` for what it reads).

8. `ServerRunsRadioNetwork`: the server refines `RadioNetwork`, hence
   `ServerConservesCommands`, `ServerKeepsOrder`, `ServerRepliesMeanHeard`,
   `ServerRepliesKeepOrder` and `ServerRefinesService`.
9. `ClientsGetTheirReplies` and `StraysGoForward`, from `SessionInv`:
   `ConnectionInv` (who is connected, who waits, where the socket thread is),
   `OwnerInv` (commands are of the client that is connected or of one that left
   for good) and `DeliveryInv` (what went astray belonged to one that had left, and
   nothing was delivered to that one later).
10. `StarIsNeverConfigured` and `NeverServesSwitches` (of `ServerStart`), for every
    file, every mode name and every failure: only the first two branches of the
    handler are ever taken, so a server that comes up has no XBee instance (its
    device path is NULL) and divides by zero at the first switch command. The
    lemmas they rest on are about `iniHandler` on one entry.
11. `ProtocolTypes`, `CutsAreHarmless` and `WholeCommandsAreUnderstood` (of
    `CommandProtocol`), under `FitTheProtocol`: the commands are of a type both sides
    agree on (not `GetMultipleSwitches`, whose length the server takes for two and the
    client for three), a `PassThrough` has at most 255 bytes and a pack at most 255
    commands, as their counts are one byte. What a command's bytes are is read back by
    the server field by field (`Int16ReadBack`, `LongReadBack`, `SimpleAt`), for every
    value; a piece of a simple command has, whatever stands behind it, the length of
    the whole or an unknown one (`CutSimple`); in a pack the pointer of
    `GetCommandLength`, and of `ParseCommand` after it, stands at each of the commands
    in turn (`PackPositions`, `PackUnderstood`). The recursions of the model are shown to
    be what their rules say by `Iterates`, from the well-foundedness of the naturals.

**libxbee: sending** (`XBeeStackProofs`), for any number of threads, connections and
identifiers.

12. `StackTypes`, `FramesAreOwned` and `PacketComesFirst`. For the second the
    invariant says which of the frame's flags goes with each place of a caller in
    `xbee_frameWait`; for the third, that wherever a status is on its way from the
    receive handler to its caller, the packet is queued already. Both rest on the
    mutex of the connection being held throughout (`StackTypes`' second half).
13. `FirstUsesAreAcknowledged`. `UInv`: the identifier a connection keeps was that
    of one of its calls (`CallIds`), a status names the identifier of the call it
    answers on its whole way (`FrameIds`, `MessageIds`), a frame nobody used is as
    it was (`Unused`), and while the first call with an identifier holds its frame
    what is posted there is its own answer (`FirstUses`).
14. `LateStatusesFree`, an action property, from `WaitingHasAWaiter`: a frame
    marked as waited on has a caller in `xbee_frameWait`.

**libxbee: callbacks** (`XBeeCallbacksProofs`), under `SetEarly`: no callback is set
while packets wait or come. Without it two callback threads of one connection can be
started, and neither theorem is true.

15. `CancelledThreadsEnd`. `LifeInv`: a thread that lives is the one its connection
    names (`ThreadsInv`, `Handles`), one actor joins it (`Joining`), one user ends
    the connection and frees it only when its cancelled threads are over (`Ends`).
16. `CallbacksInOrder`. `OrderInv`: the packets begun, those queued and the one in
    the receive thread's hands come in this order.

**libxbee: connections** (`XBeeConnectionsProofs`), for every type of every mode and
any number of devices, threads and connections.

17. `CmpReflexive`, `CmpSymmetric`, `CmpTransitive` (among 64-bit addresses) and
    `LearningKeepsMatches`: what the search for a connection,
    the wake and the receive handler count on. In general the comparison is not
    transitive, which `DeliveredToAddressee` allows for.
18. `AwakeStayDistinct`, `LearnsOwnDevice` and `PacketsReachAddressee`, from
    `ConInv`. `Names`: what a connection is addressed by is its name and what it
    learnt, of one device. `Apart`: unless two steps overlapped, no other that is
    awake is named as a connection that is awake, is about to wake, or is about
    to be made. That no packet leads a connection astray needs what each mode's
    `rxHandler` reads of an address (`ReadOf`, one lemma per mode): all that the
    names of its type may have.
19. `AnswersFindListeners`, an action property. `AskInv`: an answer under way
    carries the service (endpoints, profile, cluster) its asker was created for as
    the mode's `txHandler` wrote it (`ServiceSent`), and the asker is still listed.
    The `rxHandler` turns it back (`ServiceReadBack`), the address is of the right
    device (`AddressReadBack`), so the comparison accepts the asker itself and the
    search finds it or one before it.

**libxbee: instances** (`XBeeInstancesProofs`), for any number of instances and any
order of threads.

20. `FreedLeavesNothing` and `UsedPortsStayOpen`. `InstInv`: how often an instance is
    listed (`Listing`), which open descriptors are whose (`Descriptors`, and
    `OnceOpen` as long as no port was closed twice), that the registry lists each
    thread that was started and not joined, once (`Registry`, `Unstarted`), what a
    walk stands on and is about to end (`Walkers`), and that of an instance whose
    walk nobody disturbed the threads that are still listed stand behind the
    walk's place (`Behind`, `Walks`), while others add callback threads and take
    them off. A walk whose place is taken away is in `lost`, which is all that the
    theorem excepts besides a thread that had not begun.

**libxbee: the network server** (`XBeeNetProofs`), for any number of clients, types,
addresses and calls.

21. `FaultsNeedRaces` and `FreedIsGone`. `NetInv`: one of the known races happened, or
    nothing went wrong and every client structure has one owner, the server thread
    (`Coming`), the list of the living or of the dead (`Listed`), the one who takes
    it down (`Ended`), or nobody (`Freed`); nothing is asked for a client before its
    receive thread runs (`Silent`).
22. `MeantArrives`. `MeetInv`: the server's connections have identifiers of their own
    (`Identified`), and on a stream none of whose calls gave up (`Streams`) there is
    one request or one answer at a time, the one of the call that waits, and what
    the program knows of its connections is what the server has. The invariant
    could not be shown for a count of late calls that starts again with the
    program's next connection: frames of a call that timed out may still stand in
    the old stream when the client goes, and are read later. So `lates` counts
    until the client structure is freed.

**libxbee: lists, packets and the serial line** (`XBeeSerialProofs`), for lists of any
length and any number of frames and packets.

23. `OperationsOfAChain`. A list is a `Chain` of nodes `p` and items `s` when the nodes
    allocated are linked in this order in both directions. Then the walk forwards
    meets `p` and the walk backwards its reverse, the search ends at the item's node,
    and a node put between two neighbours or taken out (`InsertChain`, `UnlinkChain`)
    leaves the chain of both sequences with an element more or less; so each of the
    functions of `ll.c` gives what it gives on the sequence. That a walk is at the
    next node after each step is `WalkIs`, by induction over sets of numbers
    (`Induction`, from `Least`).
24. `OperationsAlwaysAgree` and `PacketsComeOnce`, from `Registry`: the registry and
    the connection's list are chains, the first of the packets held and those not yet
    taken, the second of those linked and not taken, in their order.
25. `FramesComeInStep`, for any messages (`FramesAssumption`), builds with and without
    `XBEE_API2`, and faults in any number. `Framing`: while nothing spoils it, the
    reader is `InStep`: the bytes under way lead it (`Way`) from where it is, a frame,
    a number of its bytes read and whether an escape is open, to the end of the frames
    due, and those it has read are the last that were accepted (`Came`). Most of the
    work is in one chunk (`ReceivesChunk`): the escaper, byte after byte, follows the
    way, so that the chunk ends inside the call or at its end and an open escape is
    remembered (`CallGoesOn`); a delimiter is met between frames only
    (`DelimiterGoesOn`); and the line cannot fall silent inside a frame
    (`NeverSilent`). An escape the escaper drops at the end of a shrunk chunk spoils
    the reader, like a lost byte: then nothing is due until the line is silent again.
    That what is due is an end of what the program has gives `BackInStep`
    (`EndIsPart`). A fault can make up a message of which no packet is made, and
    the handler drops it (`AcceptedDropped`); the board's own make packets
    (`FramesAssumption`), so none of those that are due is dropped.

Type invariants are proved (`TypeCorrect`, `StackTypes`, the `Types` parts above) and
are no property of a run.

**Only model-checked:**

* what must happen in the end (`EveryCommandAnswered`, `WaitingClientReads`,
  `ComesBackToAccept`, `ConnTxReturns`, `ConEndReturns`, `DeadCallbackWoken`,
  `FreeEnds`): liveness under fairness is out of the prover's reach;
* `ArriveInOrder`, which is not true of every set of frames: the checksum is a sum of
  bytes, and a byte lost from one frame can make up another that the board does send;
* `SamplesReadBack`, as what the parsers compute is no matter of the steps: an
  assumption of `MCXBeeSerial` evaluates it for every I/O type and for the answers to
  `IS`, local and remote, in all four modes, the run for three of the messages on
  their whole way.

## 5. Not modelled

* The server: `XBeeRadioDestroy`, `SocketServerDestroy` and the end of `main`, which
  is never reached; a `recv` or `accept` that fails; memory (the one-byte buffer of
  `PassThrough`, leaks); a clock that is set back; the parsing of the client's
  script. `GetMultipleSwitches` has its length and parsing in `CommandProtocol`
  but is in no instance of it nor of `SwitchServer`: the client sends three bytes
  where the server expects two, and the assertion ends the server.
* inih: how one line is scanned for its parts, which a line here comes with.
* libxbee: memory that runs out; the debug mode; `log.c`, `ver.c`, `error.c`; the
  getters and `xbee_conPurge`; `xbee_threadRelease` and its like;
  `xbee_attachEOFCallback`; the restart of a thread after an error; in the network
  server a partial send, the echo endpoint, and the undoing of a client whose threads
  cannot be made (`Filter` has it together with the other refusals, without threads
  to end); its loop from freeing the dead to `accept` is one step, so a server that is
  stopped in the middle of it is not seen; in its client the failures of
  `gethostbyname` and `connect`. The C++ binding, the samples and the build are no
  part of the program.
* zlog: logging only, and no state the program looks at.

## 6. Plan

Done: every module of section 2 and the theorems of section 4. What is left, in
this order:

1. prove: every safety invariant and action property that needs no induction over
   data has its theorem; what some assume (`SetEarly`, `FourSwitches`) could give way
   to properties that say what holds without it;
2. compose: `XBeeStack` below `RadioNetwork`, so that its three ways to send are
   those of `xbee_connTx`; `XBeeSerial` below `XBeeStack`'s receive handler;
3. extend: `GetMultipleSwitches` and scheduled tasks in an instance of
   `CommandProtocol`; the debug mode; the reading of a line by inih.
