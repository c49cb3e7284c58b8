--------------------------- MODULE XBeeConnections --------------------------
(***************************************************************************)
(* The connections of one type (conn.c) and the receive thread that gives   *)
(* each packet to one of them (rx.c): creating, ending, putting to sleep    *)
(* and waking connections, and what they send, over the address comparison  *)
(* (XBeeAddress) and the frames of the modes (XBeeModes).                   *)
(*                                                                          *)
(* The threads of the program are Users.  A call that reads the list under  *)
(* its lock and decides under the same hold is one step, except that        *)
(* xbee_conWake reads without the lock and then unlocks it, whoever holds   *)
(* it: the steps of its callers and of xbee_conLink are apart.              *)
(* The remote devices and the board are external.                           *)
(***************************************************************************)
EXTENDS XBeeModes, Sequences, FiniteSets

CONSTANTS
  Devices,    \* the devices of the network, with 64-bit and 16-bit addresses
  Users,      \* the threads of the program
  Nobody,
  Cons,       \* bound: the connections there may be at a time
  NoCon,
  MaxAir,     \* bound: the replies under way at a time
  Single,     \* bound: the types with one connection at a time, <<mode, name>>
  Choices,    \* the settings a program may choose, a set of sets
  Uses        \* bound: what explicit connections are created with besides the
              \* device's address: <<endpoints, profile, cluster>>

ConnectionsAssumption ==
  /\ Devices \subseteq Nat \ {0}
  /\ Nobody \notin Users
  /\ NoCon \notin Cons
  /\ MaxAir \in Nat
  /\ Uses \subseteq (Nat \X Nat) \X Nat \X Nat
ASSUME ConnectionsAssumption

Addr64(d) == 100 + d
Addr16(d) == 10 + d

VARIABLES
  mode, conType,  \* the mode and the connection type: they never change
  cons,           \* the connections
  conList,        \* conType->conList
  holder,         \* who holds the list's lock
  job,            \* a thread's place in its call
  rx,             \* the receive thread: the packet it has, and its connection
  air,            \* external: the replies under way, with their askers
  raced           \* history: two steps that make a connection awake overlapped

vars == <<mode, conType, cons, conList, holder, job, rx, air, raced>>
fixed == <<mode, conType>>

NewCon(a) == [address |-> a, named |-> a, sleepState |-> "awake", settings |-> {},
              caught |-> FALSE]
Linked == {conList[i] : i \in 1..Len(conList)}
Idle == [at |-> "idle"]
Waiting == [at |-> "wait", address |-> NoAddress, con |-> NoCon, device |-> 0]

Init ==
  /\ mode \in Modes
  /\ conType \in ConTypes(mode)
  /\ cons = [c \in Cons |-> NewCon(NoAddress)]
  /\ conList = <<>>
  /\ holder = Nobody
  /\ job = [u \in Users |-> Idle]
  /\ rx = Waiting
  /\ air = {}
  /\ raced = FALSE

\* The addresses a program gives: of a device, by either address or both.
AddressesOf(d) ==
  IF conType.name = "Data (explicit)"
  THEN {[NoAddress EXCEPT !.addr64 = Addr64(d), !.endpoints = use[1],
                          !.profile = use[2], !.cluster = use[3]] : use \in Uses}
  ELSE {[NoAddress EXCEPT !.addr64 = Addr64(d)], [NoAddress EXCEPT !.addr16 = Addr16(d)],
        [NoAddress EXCEPT !.addr64 = Addr64(d), !.addr16 = Addr16(d)]}
Addresses == {NoAddress} \cup UNION {AddressesOf(d) : d \in Devices}

-----------------------------------------------------------------------------
(***************************************************************************)
(* Finding a connection.                                                    *)
(***************************************************************************)
WillingAt(alert) == {i \in 1..Len(conList) : cons[conList[i]].sleepState \in {"awake"} \cup alert}
MatchesAt(places, address) == {i \in places : AddressCmp(cons[conList[i]].address, address)}
AwakeAt(places) == {i \in places : cons[conList[i]].sleepState = "awake"}
FirstOf(S) == conList[CHOOSE i \in S : \A j \in S : i <= j]
LastOf(S) == conList[CHOOSE i \in S : \A j \in S : i >= j]
Found(c, how) == [con |-> c, how |-> how]

\* Mutant: every connection will do when none matches.
conLocate_Any(address, alert) ==
  LET willing == WillingAt(alert)
      awake == AwakeAt(MatchesAt(willing, address))
  IN IF awake # {} THEN Found(FirstOf(awake), "ENONE")
     ELSE IF willing # {} THEN Found(LastOf(willing), "ECATCHALL")
     ELSE Found(NoCon, "ENOTEXISTS")

\* _xbee_conLocate: the first that is awake, else the latest that sleeps and
\* may be woken, else the latest catch-all.
conLocate(address, alert) ==
  LET willing == WillingAt(alert)
      matches == MatchesAt(willing, address)
      awake == AwakeAt(matches)
      catchAlls == {i \in willing : "catchAll" \in cons[conList[i]].settings}
  IN IF awake # {} THEN Found(FirstOf(awake), "ENONE")
     ELSE IF matches # {} THEN Found(LastOf(matches), "ESLEEPING")
     ELSE IF catchAlls # {} THEN Found(LastOf(catchAlls), "ECATCHALL")
     ELSE Found(NoCon, "ENOTEXISTS")

\* Threads between looking at the list and acting on what they saw.
Deciding == {u \in Users : job[u].at \in {"link", "wake"}}
Overlap(u) == Deciding \ {u} # {} \/ rx.at = "deliver"

-----------------------------------------------------------------------------
(***************************************************************************)
(* xbee_conNew, and xbee_conLink under the list's lock.                     *)
(***************************************************************************)
ConNew(u) ==
  /\ job[u] = Idle
  /\ holder = Nobody
  /\ Len(conList) + Cardinality({v \in Users : job[v].at = "link"}) <
       IF <<mode, conType.name>> \in Single THEN 1 ELSE Cardinality(Cons)
  /\ \E a \in Addresses :
       /\ AddressAllowed(conType.addressRules, a)
       /\ conLocate(a, {"snooze", "sleep"}).how # "ENONE"
       /\ holder' = u
       /\ job' = [job EXCEPT ![u] = [at |-> "link", address |-> a]]
  /\ UNCHANGED <<fixed, cons, conList, rx, air, raced>>

ConLink(u) ==
  /\ job[u].at = "link"
  /\ \E c \in Cons \ Linked :
       /\ cons' = [cons EXCEPT ![c] = NewCon(job[u].address)]
       /\ conList' = Append(conList, c)
  /\ holder' = Nobody
  /\ job' = [job EXCEPT ![u] = Idle]
  /\ raced' = (raced \/ Overlap(u))
  /\ UNCHANGED <<fixed, rx, air>>

\* xbee_conEnd, for a connection no other call is using.  The answers it waits
\* for are then like anything else the devices send.
ConEnd(u, c) ==
  /\ job[u] = Idle
  /\ holder = Nobody
  /\ \A v \in Users : job[v].at \in {"wake", "tx"} => job[v].con # c
  /\ \E i \in 1..Len(conList) :
       /\ conList[i] = c
       /\ conList' = SubSeq(conList, 1, i - 1) \o SubSeq(conList, i + 1, Len(conList))
  /\ cons' = [cons EXCEPT ![c] = NewCon(NoAddress)]
  /\ air' = {r \in air : r.asker # c}
  /\ rx' = IF rx.con = c THEN [rx EXCEPT !.con = NoCon] ELSE rx
  /\ UNCHANGED <<fixed, holder, job, raced>>

-----------------------------------------------------------------------------
(***************************************************************************)
(* Sleep, settings.                                                         *)
(***************************************************************************)
\* xbee_conSleepSet, but to wake
SleepSet(u, c, state) ==
  /\ job[u] = Idle
  /\ cons' = [cons EXCEPT ![c].sleepState = state]
  /\ UNCHANGED <<fixed, conList, holder, job, rx, air, raced>>

\* Mutant: a connection may wake whoever else is awake.
MayWake_Always(c) == TRUE

MayWake(c) ==
  \A i \in 1..Len(conList) :
    LET d == conList[i] IN
    d # c /\ cons[d].sleepState = "awake" => ~AddressCmp(cons[c].address, cons[d].address)

\* xbee_conWake: the look, of xbee_conSleepSet and of xbee_connTx ...
WakeLook(u, c, next) ==
  /\ job[u] = Idle
  /\ cons[c].sleepState # "awake"
  /\ next = "tx" => cons[c].sleepState = "snooze"
  /\ IF MayWake(c)
     THEN /\ job' = [job EXCEPT ![u] = [at |-> "wake", con |-> c, next |-> next]]
          /\ UNCHANGED holder
     ELSE /\ holder' = Nobody
          /\ UNCHANGED job
  /\ UNCHANGED <<fixed, cons, conList, rx, air, raced>>

\* ... and what it does if no other is awake.
WakeSet(u) ==
  /\ job[u].at = "wake"
  /\ cons' = [cons EXCEPT ![job[u].con].sleepState = "awake"]
  /\ holder' = Nobody
  /\ job' = [job EXCEPT ![u] = IF job[u].next = "tx"
                               THEN [at |-> "tx", con |-> job[u].con] ELSE Idle]
  /\ raced' = (raced \/ Overlap(u))
  /\ UNCHANGED <<fixed, conList, rx, air>>

\* xbee_conSettings
ConSettings(u, c) ==
  /\ job[u] = Idle
  /\ \E s \in Choices :
       cons' = [cons EXCEPT ![c].settings = s, ![c].caught = @ \/ "catchAll" \in s]
  /\ UNCHANGED <<fixed, conList, holder, job, rx, air, raced>>

-----------------------------------------------------------------------------
(***************************************************************************)
(* xbee_connTx.  Frame identifiers and acknowledgements are in XBeeStack.    *)
(***************************************************************************)
\* External: the frame a device answers with, its endpoints the other way.
Reply(d, f) ==
  [Frame EXCEPT !.id = conType.rxId, !.endpoints = <<f.endpoints[2], f.endpoints[1]>>,
                !.profile = f.profile, !.cluster = f.cluster]

\* External: the devices a frame reaches.
Reached(f) ==
  {d \in Devices : \/ f.addr64 \in {Addr64(d), Broadcast}
                   \/ f.addr64 = None /\ f.addr16 = Addr16(d)}

MayTx(u, c) ==
  \/ job[u] = Idle /\ cons[c].sleepState = "awake"
  \/ job[u].at = "tx" /\ job[u].con = c

TxResult(c) ==
  IF conType.txId = NoId THEN Fails("ENOTIMPLEMENTED")
  ELSE TxFunc(mode, conType, 1, cons[c].address, cons[c].settings, 2)

ConnTx(u, c) ==
  /\ MayTx(u, c)
  /\ TxResult(c).ret = "ENONE"
  /\ LET f == TxResult(c).frame IN
       air' = air \cup {[frame |-> Reply(d, f), device |-> d, asker |-> c] :
                          d \in IF conType.name = "Local AT" THEN {0} ELSE Reached(f)}
  /\ Cardinality(air') <= MaxAir
  /\ job' = [job EXCEPT ![u] = Idle]
  /\ UNCHANGED <<fixed, cons, conList, holder, rx, raced>>

\* A type that cannot send, or an address that the frame cannot take.
ConnTxFails(u, c) ==
  /\ job[u].at = "tx" /\ job[u].con = c
  /\ TxResult(c).ret # "ENONE"
  /\ job' = [job EXCEPT ![u] = Idle]
  /\ UNCHANGED <<fixed, cons, conList, holder, rx, air, raced>>

-----------------------------------------------------------------------------
(***************************************************************************)
(* xbee_rxHandler: read the frame and find the connection under the lock;   *)
(* then, without it, wake the connection and let it learn the address.      *)
(***************************************************************************)
\* External: the device of a frame writes its addresses into it.
From(d, f) ==
  IF d = 0 THEN f ELSE [f EXCEPT !.addr64 = Addr64(d), !.addr16 = Addr16(d)]

\* External: what a device sends of its own, to the endpoint it likes.
Unsolicited(d) ==
  LET f == [Frame EXCEPT !.id = conType.rxId] IN
  IF conType.name # "Data (explicit)" THEN {f}
  ELSE {[f EXCEPT !.endpoints = e[1], !.profile = e[2], !.cluster = e[3]] :
          e \in {<<DataEndpoints, DefaultProfile, DefaultCluster>>,
                 <<<<9, 8>>, DefaultProfile, DefaultCluster>>, <<<<9, 8>>, 7, 6>>}}

\* A length at which the type's rxHandler finds a packet; at another it may fail,
\* and the frame is lost.
Reads(f) ==
  LET Read(n) == RxFunc(mode, conType, [f EXCEPT !.len = n]) IN
  Read(CHOOSE n \in {2, 3, 7, 22, 30} : Read(n).ret = "ENONE")

RxFrame(f, device) ==
  /\ rx.at = "wait"
  /\ holder = Nobody
  /\ LET read == Reads(From(device, f))
         located == conLocate(read.address, {"snooze"})
     IN /\ conType \in TypesFor(mode, f.id)
        /\ read.dataLen # NoPacket
        /\ rx' = [at |-> IF located.con = NoCon THEN "wait" ELSE "deliver",
                  address |-> [NoAddress EXCEPT !.addr64 = read.address.addr64,
                                                !.addr16 = read.address.addr16],
                  con |-> located.con, device |-> device]
  /\ UNCHANGED <<fixed, cons, conList, holder, job, raced>>

RxReply(r) == RxFrame(r.frame, r.device) /\ air' = air \ {r}
RxOther(d) == \E f \in Unsolicited(d) : RxFrame(f, d) /\ UNCHANGED air

Learned(c, address) ==
  [c EXCEPT !.addr16 = IF @ = None /\ conType.save_addr16 THEN address.addr16 ELSE @,
            !.addr64 = IF @ = None /\ conType.save_addr64 THEN address.addr64 ELSE @]

\* The connection may have ended since (NoCon): the code then uses freed memory,
\* which the model leaves out.
RxDeliver ==
  /\ rx.at = "deliver"
  /\ IF rx.con # NoCon
     THEN /\ cons' = [cons EXCEPT ![rx.con].sleepState = "awake",
                                  ![rx.con].address = Learned(@, rx.address)]
          /\ raced' = (raced \/ (cons[rx.con].sleepState # "awake" /\ Deciding # {}))
     ELSE UNCHANGED <<cons, raced>>
  /\ rx' = Waiting
  /\ UNCHANGED <<fixed, conList, holder, job, air>>

-----------------------------------------------------------------------------
Next ==
  \/ \E u \in Users :
       \/ ConNew(u) \/ ConLink(u) \/ WakeSet(u)
       \/ \E c \in Linked :
            \/ ConEnd(u, c) \/ ConSettings(u, c) \/ ConnTx(u, c) \/ ConnTxFails(u, c)
            \/ \E s \in {"snooze", "sleep"} : SleepSet(u, c, s)
            \/ \E next \in {"set", "tx"} : WakeLook(u, c, next)
  \/ \E r \in air : RxReply(r)
  \/ \E d \in Devices : RxOther(d)
  \/ RxDeliver

Spec == Init /\ [][Next]_vars

-----------------------------------------------------------------------------
(***************************************************************************)
(* Properties                                                               *)
(***************************************************************************)
\* The device a connection was created for.
NamedDevices(c) ==
  {d \in Devices : \/ cons[c].named.addr64 = Addr64(d)
                   \/ cons[c].named.addr64 = None /\ cons[c].named.addr16 = Addr16(d)}

\* Connections that are awake were created for addresses that do not match: a
\* packet has one connection to go to (_xbee_conNew, conWake, the receive
\* handler's wake).  Not, however, once two of these overlapped, nor for a
\* catch-all, which another's packet may wake.
AwakeAreDistinct ==
  \A c, d \in Linked :
    /\ ~raced /\ c # d
    /\ ~cons[c].caught /\ ~cons[d].caught
    /\ cons[c].sleepState = "awake" /\ cons[d].sleepState = "awake"
    => ~AddressCmp(cons[c].named, cons[d].named)

\* A packet goes to a connection created for the device that sent it, or to
\* one that has been made a catch-all (rx.c, with what connections learn).
DeliveredToAddressee ==
  /\ rx.con # NoCon /\ rx.device # 0
  /\ ~cons[rx.con].caught
  /\ cons[rx.con].named.addr64 # None \/ cons[rx.con].named.addr16 # None
  => rx.device \in NamedDevices(rx.con)

AddressesOfOneDevice(c) ==
  cons[c].address.addr64 # None /\ cons[c].address.addr16 # None =>
  \E d \in Devices : cons[c].address.addr64 = Addr64(d) /\ cons[c].address.addr16 = Addr16(d)

\* What a connection learns is the other address of its own device: the frames
\* it sends carry two addresses of one device, unless it has been a catch-all.
LearnsItsOwnDevice == \A c \in Cons : cons[c].caught \/ AddressesOfOneDevice(c)

Listens(c) == c \in Linked /\ cons[c].sleepState \in {"awake", "snooze"}

\* Whether the frames of a connection carry the address it was created with.
Answerable(c) ==
  conType.name = "Data (explicit)" =>
    /\ cons[c].named.endpoints # NoEndpoints
    /\ mode = "xbee2" => cons[c].named.cluster = None /\ cons[c].named.profile = None
    /\ mode = "xbee5" =>
         (cons[c].named.cluster = None <=> cons[c].named.profile = None)

\* The answer of the device a connection was created for finds a connection,
\* as long as the one that asked listens: what the mode's txHandler writes, its
\* rxHandler reads back and the address comparison accepts.
AnswersAreHeard ==
  [][\A r \in air \ air' :
       /\ Listens(r.asker)' /\ Answerable(r.asker)
       /\ r.device \in NamedDevices(r.asker) \cup {0}
       => rx'.con # NoCon]_vars
=============================================================================
