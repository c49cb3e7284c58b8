------------------------- MODULE XBeeInstancesProofs ------------------------
(***************************************************************************)
(* Proofs about XBeeInstances.                                              *)
(***************************************************************************)
EXTENDS XBeeInstances, SequenceTheorems, FiniteSetTheorems, WellFoundedInduction, TLAPS

-----------------------------------------------------------------------------
(***************************************************************************)
(* The inductive invariant.                                                 *)
(***************************************************************************)
\* The places of setups and shutdowns.
Names == ToSet(Order)
Closing == {"close", "init close"}
Starting == {"none", "init", "init failed", "init close"}
Freed == {"mode", "close", "gone"}
Ending == {"kill", "join", "wait"}
OnWalk == {"walk"} \cup Ending
Unlisted == {"none", "sleep"} \cup OnWalk \cup Freed
InUse == Names \cup {"list", "ready", "left", "plucked"}
Places == InUse \cup Closing \cup Starting \cup Freed \cup OnWalk \cup {"free", "sleep"}

Types ==
    /\ at \in [Instances -> Places]
    /\ serial \in [Instances -> [fd : Nat \cup {Null}, stream : BOOLEAN]]
    /\ modeData \in [Instances -> BOOLEAN]
    /\ walk \in [Instances -> [ref : Threads \cup {Null}, prev : Threads \cup {Null},
                               kill : Threads \cup {Null}]]
    /\ thread \in [Threads -> {"none", "new", "runs", "locks", "over"}]
    /\ xbeeList \in Seq(Instances)
    /\ threadList \in Seq(Threads)

\* How often an instance is listed.
Never(s, i) == \A k \in 1..Len(s) : s[k] # i
Once(s, i) == \A k, l \in 1..Len(s) : s[k] = i /\ s[l] = i => k = l
Twice(s, i) == \A k, l, m \in 1..Len(s) : s[k] = i /\ s[l] = i /\ s[m] = i => k = l \/ l = m \/ k = m
Listing ==
    \A i \in Instances :
        /\ at[i] \in Unlisted => Never(xbeeList, i)
        /\ at[i] # "ready" => Once(xbeeList, i)
        /\ Twice(xbeeList, i)

\* The descriptors that are open, and those that instances know.
Owns(i) == serial[i].fd \in DOMAIN ports /\ ports[serial[i].fd] = i
Descriptors ==
    /\ IsFiniteSet(DOMAIN ports) /\ DOMAIN ports \subseteq Nat \ {0}
    /\ \A d \in DOMAIN ports : /\ ports[d] \in Instances
                               /\ serial[ports[d]].fd = d /\ modeData[ports[d]]
    /\ \A i \in Instances :
        /\ at[i] \in {"none", "init", "gone"} => ~modeData[i]
        /\ at[i] \in InUse => modeData[i] /\ serial[i].stream
        /\ at[i] \in Closing => modeData[i]
OnceOpen ==
    "port" \notin raced =>
        \A i \in Instances : modeData[i] =>
            \/ Owns(i)
            \/ ~serial[i].stream /\ serial[i].fd \in {0, Null}
            \/ at[i] \in Closing /\ ~serial[i].stream /\ serial[i].fd \notin DOMAIN ports

\* The registry lists every thread that is alive, and none that is not there.
Registry ==
    /\ \A p, q \in 1..Len(threadList) : threadList[p] = threadList[q] => p = q
    /\ \A t \in Threads :
        /\ Alive(t) => \E p \in 1..Len(threadList) : threadList[p] = t
        /\ thread[t] = "none" => \A p \in 1..Len(threadList) : threadList[p] # t

\* A setup has not yet started the threads it still has to start.
Unstarted ==
    \A i \in Instances, m \in 1..Len(Order) :
        /\ at[i] \in Starting => thread[<<i, Order[m]>>] = "none"
        /\ \A n \in 1..Len(Order) : at[i] = Order[n] /\ n <= m => thread[<<i, Order[m]>>] = "none"

\* What a walk remembers.
Walkers ==
    \A i \in Instances :
        /\ at[i] \notin OnWalk => walk[i] = NotWalking
        /\ at[i] = "walk" => walk[i].kill = Null
        /\ at[i] \in Ending => walk[i].kill \in Threads /\ walk[i].kill[1] = i
        /\ walk[i].prev = Null \/ walk[i].prev[1] # i

\* Thread r is listed before all threads of i that are alive, k aside.
Behind(i, r, k) ==
    \E p \in 1..Len(threadList) :
        /\ threadList[p] = r
        /\ \A q \in 1..Len(threadList) :
            Alive(threadList[q]) /\ threadList[q][1] = i /\ threadList[q] # k => p < q

\* The living threads of an instance lie behind all that its walk remembers.
Walks ==
    \A i \in Instances : i \notin lost \cup early =>
        /\ at[i] \in OnWalk => \A r \in {walk[i].ref, walk[i].prev, walk[i].kill} :
                                   r = Null \/ Behind(i, r, walk[i].kill)
        /\ at[i] \in Ending => thread[walk[i].kill] \notin {"none", "new"}
        /\ at[i] = "join" => ~Alive(walk[i].kill)
        /\ at[i] \in Freed => \A k \in Kinds : ~Alive(<<i, k>>)

ThreadInv == Registry /\ Unstarted /\ Walkers /\ Walks
InstInv == Types /\ Listing /\ Descriptors /\ OnceOpen /\ ThreadInv


-----------------------------------------------------------------------------
(***************************************************************************)
(* Sequences, the registry's removal and the kernel's choice.               *)
(***************************************************************************)
LEMMA Least ==
  ASSUME NEW S, S \subseteq Nat, S # {}
  PROVE  Min(S) \in S
<1>1. PICK i \in S : \A j \in S : <<j, i>> \notin OpToRel(<, Nat)
  BY WFMin, NatLessThanWellFounded, Zenon
<1>2. \A j \in S : ~(j < i)
  BY <1>1 DEF OpToRel
<1>3. \E k \in S : \A j \in S : k <= j
  BY <1>2
<1> QED BY <1>3 DEF Min

LEMMA Removed ==
  ASSUME NEW S, NEW s \in Seq(S), NEW p \in 1..Len(s), NEW t, t = RemoveAt(s, p)
  PROVE  /\ t \in Seq(S) /\ Len(t) = Len(s) - 1
         /\ \A j \in 1..Len(t) : t[j] = s[IF j < p THEN j ELSE j + 1]
<1> DEFINE A == SubSeq(s, 1, p - 1)
           B == SubSeq(s, p + 1, Len(s))
<1>1. Len(s) \in Nat /\ p \in Nat /\ 1 <= p /\ p <= Len(s)
  OBVIOUS
<1>2. \A j \in 1..Len(s) : s[j] \in S
  OBVIOUS
<1>3. A \in Seq(S) /\ B \in Seq(S)
  BY <1>1, <1>2, SubSeqProperties
<1>4. /\ Len(A) = p - 1 /\ Len(B) = Len(s) - p
      /\ \A j \in 1..(p - 1) : A[j] = s[j]
      /\ \A j \in 1..(Len(s) - p) : B[j] = s[j + p]
  BY <1>1
<1>5. t = A \o B
  BY DEF RemoveAt
<1> HIDE DEF A, B
<1>6. t \in Seq(S) /\ Len(t) = Len(s) - 1
  BY <1>1, <1>3, <1>4, <1>5
<1>7. ASSUME NEW j \in 1..Len(t) PROVE t[j] = s[IF j < p THEN j ELSE j + 1]
  <2>1. t[j] = IF j <= Len(A) THEN A[j] ELSE B[j - Len(A)]
    BY <1>1, <1>3, <1>4, <1>5, <1>6
  <2>2. CASE j < p
    <3>1. j \in 1..(p - 1)
      BY <1>1, <2>2
    <3> QED BY <1>1, <1>4, <2>1, <2>2, <3>1
  <2>3. CASE ~(j < p)
    <3>1. PICK k : k = j - Len(A)
      OBVIOUS
    <3>2. k \in 1..(Len(s) - p) /\ k + p = j + 1 /\ ~(j <= Len(A))
      BY <1>1, <1>4, <1>6, <2>3, <3>1
    <3>3. B[k] = s[k + p]
      BY <1>4, <3>2, Zenon
    <3> QED BY <2>1, <2>3, <3>1, <3>2, <3>3
  <2> QED BY <2>2, <2>3
<1> QED BY <1>6, <1>7

\* Drop takes one place of x out of the list, if there is one.
LEMMA Dropped ==
  ASSUME NEW S, NEW s \in Seq(S), NEW x, NEW t, t = Drop(s, x)
  PROVE  \/ t = s /\ \A k \in 1..Len(s) : s[k] # x
         \/ \E p \in 1..Len(s) :
              /\ s[p] = x /\ t \in Seq(S) /\ Len(t) = Len(s) - 1
              /\ \A j \in 1..Len(t) : t[j] = s[IF j < p THEN j ELSE j + 1]
<1>0. DOMAIN s = 1..Len(s)
  OBVIOUS
<1>1. CASE x \notin ToSet(s)
  BY <1>0, <1>1 DEF Drop, ToSet
<1>2. CASE x \in ToSet(s)
  <2> DEFINE I == {j \in 1..Len(s) : s[j] = x}
  <2>1. I # {} /\ I \subseteq Nat
    BY <1>0, <1>2 DEF ToSet
  <2>2. t = RemoveAt(s, SelectInSeq(s, LAMBDA v : v = x))
    BY <1>2, <2>1 DEF Drop, RemoveFirst
  <2>3. SelectInSeq(s, LAMBDA v : v = x) = Min(I)
    BY <2>1 DEF SelectInSeq
  <2>4. Min(I) \in I
    BY <2>1, Least
  <2>5. PICK p \in 1..Len(s) : s[p] = x /\ t = RemoveAt(s, p)
    BY <2>2, <2>3, <2>4
  <2> QED BY <2>5, Removed
<1> QED BY <1>1, <1>2

LEMMA Appended ==
  ASSUME NEW S, NEW s \in Seq(S), NEW x \in S
  PROVE  /\ Append(s, x) \in Seq(S) /\ Len(Append(s, x)) = Len(s) + 1
         /\ Append(s, x)[Len(s) + 1] = x
         /\ \A j \in 1..Len(s) : Append(s, x)[j] = s[j]
OBVIOUS

\* open returns a descriptor that is not open.
LEMMA FreeOne ==
  ASSUME IsFiniteSet(DOMAIN ports), DOMAIN ports \subseteq Nat \ {0}
  PROVE  FreeDescriptor \in Nat \ {0} /\ FreeDescriptor \notin DOMAIN ports
<1> DEFINE n == Cardinality(DOMAIN ports)
           S == 1..(n + 1) \ DOMAIN ports
<1>1. n \in Nat
  BY FS_CardinalityType
<1>2. IsFiniteSet(1..(n + 1)) /\ Cardinality(1..(n + 1)) = n + 1
  BY <1>1, FS_Interval
<1>3. S # {}
  <2>1. SUFFICES ASSUME 1..(n + 1) \subseteq DOMAIN ports PROVE FALSE
    OBVIOUS
  <2>2. Cardinality(1..(n + 1)) <= n
    BY <2>1, FS_Subset
  <2> QED BY <1>1, <1>2, <2>2
<1>4. S \subseteq Nat
  BY <1>1
<1>5. Min(S) \in S
  BY <1>3, <1>4, Least
<1> QED BY <1>1, <1>5 DEF FreeDescriptor

-----------------------------------------------------------------------------
(***************************************************************************)
(* The steps, part by part.                                                 *)
(***************************************************************************)
LEMMA Gone ==
  ASSUME Types, NEW i \in Instances, NEW from, NEW to \in Places, Go(i, from, to)
  PROVE  /\ at' \in [Instances -> Places] /\ at[i] = from /\ at'[i] = to
         /\ \A j \in Instances : j # i => at'[j] = at[j]
BY DEF Types, Go

LEMMA NextPlace ==
  ASSUME NEW n \in 0..Len(Order)
  PROVE  /\ NextStep(n) \in Names \cup {"list"} /\ NextStep(n) \in Places
         /\ \A m \in 1..Len(Order) : NextStep(n) = Order[m] => m = n + 1
<1>1. Order \in Seq({"rx", "handler", "tx"}) /\ DOMAIN Order = 1..Len(Order)
  BY InstancesAssumption DEF InstancesAssumption
<1>2. \A k, m \in 1..Len(Order) : Order[k] = Order[m] => k = m
  BY <1>1, InstancesAssumption DEF InstancesAssumption
<1>3. \A m \in 1..Len(Order) : Order[m] # "list" /\ Order[m] \in Names
  BY <1>1 DEF Names, ToSet
<1>4. CASE n = Len(Order)
  BY <1>3, <1>4 DEF NextStep, Places, InUse
<1>5. CASE n # Len(Order)
  <2>0. Len(Order) \in Nat
    BY <1>1
  <2>1. n + 1 \in 1..Len(Order) /\ NextStep(n) = Order[n + 1]
    BY <1>5, <2>0 DEF NextStep
  <2> QED BY <1>2, <1>3, <2>1 DEF Places, InUse
<1> QED BY <1>4, <1>5

\* The names of the places of a setup and a shutdown are no threads'.
LEMMA KindsApart ==
  /\ Names \subseteq {"rx", "handler", "tx"}
  /\ \A n \in 1..Len(Order) : Order[n] \in Names /\ Order[n] \in Kinds
<1>1. Order \in Seq({"rx", "handler", "tx"}) /\ DOMAIN Order = 1..Len(Order)
  BY InstancesAssumption DEF InstancesAssumption
<1> QED BY <1>1 DEF Names, Kinds, ToSet

LEMMA ListingSame ==
  ASSUME Listing, UNCHANGED xbeeList,
         \A i \in Instances : /\ at'[i] \in Unlisted => at[i] \in Unlisted
                              /\ at'[i] # "ready" => at[i] # "ready"
  PROVE  Listing'
BY DEF Listing, Never, Once, Twice

LEMMA ListingGrows ==
  ASSUME Types, Listing, NEW i \in Instances, xbeeList' = Append(xbeeList, i),
         \A j \in Instances : j # i => at'[j] = at[j],
         \/ at[i] \in Unlisted /\ at'[i] \notin Unlisted
         \/ at[i] # "ready" /\ at'[i] = "ready"
  PROVE  Listing'
<1> DEFINE n == Len(xbeeList)
<1>1. /\ n \in Nat /\ Len(xbeeList') = n + 1 /\ xbeeList'[n + 1] = i
      /\ \A k \in 1..n : xbeeList'[k] = xbeeList[k]
  BY Appended DEF Types
<1>2. \A k \in 1..(n + 1) : k \in 1..n \/ k = n + 1
  BY <1>1
<1> HIDE DEF n
<1>3. ASSUME NEW j \in Instances, j # i
      PROVE  /\ Never(xbeeList, j) => Never(xbeeList', j)
             /\ Once(xbeeList, j) => Once(xbeeList', j)
             /\ Twice(xbeeList, j) => Twice(xbeeList', j)
  <2>1. \A k \in 1..(n + 1) : xbeeList'[k] = j => k \in 1..n /\ xbeeList[k] = j
    BY <1>1, <1>2, <1>3
  <2> QED BY <1>1, <2>1 DEF Never, Once, Twice, n
<1>4. Never(xbeeList, i) => Once(xbeeList', i)
  BY <1>1, <1>2 DEF Never, Once, n
<1>5. Once(xbeeList, i) => Twice(xbeeList', i)
  BY <1>1, <1>2 DEF Twice, Once, n
<1>6. \A t : Once(t, i) => Twice(t, i)
  BY DEF Once, Twice
<1>7. CASE at[i] \in Unlisted /\ at'[i] \notin Unlisted
  BY <1>3, <1>4, <1>6, <1>7 DEF Listing
<1>8. CASE at[i] # "ready" /\ at'[i] = "ready"
  <2>1. "ready" \notin Unlisted
    BY DEF Unlisted, Freed, OnWalk, Ending
  <2> QED BY <1>3, <1>5, <1>8, <2>1 DEF Listing
<1> QED BY <1>7, <1>8

LEMMA ListingShrinks ==
  ASSUME Types, Listing, NEW i \in Instances, xbeeList' = Drop(xbeeList, i),
         \A j \in Instances : j # i => at'[j] = at[j],
         at'[i] # "ready" /\ (at'[i] \in Unlisted => at[i] # "ready")
  PROVE  Listing' /\ xbeeList' \in Seq(Instances)
<1>1. xbeeList \in Seq(Instances)
  BY DEF Types
<1>2. CASE xbeeList' = xbeeList /\ \A k \in 1..Len(xbeeList) : xbeeList[k] # i
  BY <1>1, <1>2 DEF Listing, Never, Once, Twice
<1>3. ASSUME NEW p \in 1..Len(xbeeList), xbeeList[p] = i, xbeeList' \in Seq(Instances),
             Len(xbeeList') = Len(xbeeList) - 1,
             \A j \in 1..Len(xbeeList') : xbeeList'[j] = xbeeList[IF j < p THEN j ELSE j + 1]
      PROVE  Listing' /\ xbeeList' \in Seq(Instances)
  <2> DEFINE old(j) == IF j < p THEN j ELSE j + 1
  <2>1. /\ Len(xbeeList) \in Nat /\ p \in Nat
        /\ \A j \in 1..Len(xbeeList') : old(j) \in 1..Len(xbeeList) /\ old(j) # p
        /\ \A j, k \in 1..Len(xbeeList') : old(j) = old(k) => j = k
    BY <1>1, <1>3
  <2>2. \A j \in 1..Len(xbeeList') : xbeeList'[j] = xbeeList[old(j)]
    BY <1>3
  <2> HIDE DEF old
  <2>3. ASSUME NEW j \in Instances
        PROVE  /\ Never(xbeeList, j) => Never(xbeeList', j)
               /\ Once(xbeeList, j) => Once(xbeeList', j)
               /\ Twice(xbeeList, j) => Twice(xbeeList', j)
    <3>1. Never(xbeeList, j) => Never(xbeeList', j)
      BY <2>1, <2>2 DEF Never
    <3>2. Once(xbeeList, j) => Once(xbeeList', j)
      BY <2>1, <2>2 DEF Once
    <3>3. Twice(xbeeList, j) => Twice(xbeeList', j)
      <4>1. SUFFICES ASSUME Twice(xbeeList, j),
                            NEW k \in 1..Len(xbeeList'), NEW l \in 1..Len(xbeeList'),
                            NEW m \in 1..Len(xbeeList'),
                            xbeeList'[k] = j, xbeeList'[l] = j, xbeeList'[m] = j
                     PROVE  k = l \/ l = m \/ k = m
        BY DEF Twice
      <4>2. PICK a, b, c : a = old(k) /\ b = old(l) /\ c = old(m)
        OBVIOUS
      <4>3. /\ a \in 1..Len(xbeeList) /\ b \in 1..Len(xbeeList) /\ c \in 1..Len(xbeeList)
            /\ xbeeList[a] = j /\ xbeeList[b] = j /\ xbeeList[c] = j
        BY <2>1, <2>2, <4>1, <4>2
      <4>4. a = b \/ b = c \/ a = c
        BY <4>1, <4>3, Zenon DEF Twice
      <4> QED BY <2>1, <4>2, <4>4
    <3> QED BY <3>1, <3>2, <3>3
  <2>4. Once(xbeeList, i) => Never(xbeeList', i)
    BY <1>3, <2>1, <2>2 DEF Once, Never
  <2>5. Twice(xbeeList, i) => Once(xbeeList', i)
    <3>1. SUFFICES ASSUME Twice(xbeeList, i),
                          NEW k \in 1..Len(xbeeList'), NEW l \in 1..Len(xbeeList'),
                          xbeeList'[k] = i, xbeeList'[l] = i
                   PROVE  k = l
      BY DEF Once
    <3>2. old(k) = old(l) \/ old(l) = p \/ old(k) = p
      BY <1>3, <2>1, <2>2, <3>1 DEF Twice
    <3> QED BY <2>1, <3>2
  <2>6. \A j \in Instances : j # i =>
          /\ at'[j] \in Unlisted => Never(xbeeList', j)
          /\ at'[j] # "ready" => Once(xbeeList', j)
          /\ Twice(xbeeList', j)
    BY <2>3 DEF Listing
  <2>7. /\ at'[i] \in Unlisted => Never(xbeeList', i)
        /\ Once(xbeeList', i) /\ Twice(xbeeList', i)
    BY <2>3, <2>4, <2>5 DEF Listing
  <2> QED BY <1>3, <2>6, <2>7 DEF Listing
<1>4. \/ xbeeList' = xbeeList /\ \A k \in 1..Len(xbeeList) : xbeeList[k] # i
      \/ \E p \in 1..Len(xbeeList) :
           /\ xbeeList[p] = i /\ xbeeList' \in Seq(Instances) /\ Len(xbeeList') = Len(xbeeList) - 1
           /\ \A j \in 1..Len(xbeeList') : xbeeList'[j] = xbeeList[IF j < p THEN j ELSE j + 1]
  <2>1. PICK t : t = xbeeList'
    OBVIOUS
  <2>2. \/ t = xbeeList /\ \A k \in 1..Len(xbeeList) : xbeeList[k] # i
        \/ \E p \in 1..Len(xbeeList) :
             /\ xbeeList[p] = i /\ t \in Seq(Instances) /\ Len(t) = Len(xbeeList) - 1
             /\ \A j \in 1..Len(t) : t[j] = xbeeList[IF j < p THEN j ELSE j + 1]
    BY <1>1, <2>1, Dropped
  <2> QED BY <2>1, <2>2
<1> QED BY <1>1, <1>2, <1>3, <1>4

\* The descriptors: the steps that open and close none.
LEMMA PortsSame ==
  ASSUME Descriptors, OnceOpen, UNCHANGED port, "port" \in raced => "port" \in raced',
         \A i \in Instances :
           /\ at'[i] \in {"none", "init", "gone"} => at[i] \in {"none", "init", "gone"} \/ ~modeData[i]
           /\ at'[i] \in InUse => at[i] \in InUse
           /\ at[i] \in Closing => at'[i] \in Closing
           /\ at'[i] \in Closing => at[i] \in Closing \/ modeData[i]
  PROVE  Descriptors' /\ OnceOpen'
<1>1. serial' = serial /\ modeData' = modeData /\ ports' = ports
  BY DEF port
<1>2. \A i \in Instances : Owns(i)' <=> Owns(i)
  BY <1>1 DEF Owns
<1>3. Descriptors'
  <2>1. \A i \in Instances : /\ at'[i] \in {"none", "init", "gone"} => ~modeData[i]
                             /\ at'[i] \in InUse => modeData[i] /\ serial[i].stream
                             /\ at'[i] \in Closing => modeData[i]
    BY DEF Descriptors
  <2> HIDE DEF InUse
  <2> QED BY <1>1, <2>1 DEF Descriptors
<1>4. OnceOpen'
  BY <1>1, <1>2 DEF OnceOpen
<1> QED BY <1>3, <1>4

LEMMA HowItEnds ==
  ASSUME NEW how \in DOMAIN Outcomes, FreeDescriptor \in Nat
  PROVE  /\ Outcomes[how] \in [fd : Nat \cup {Null}, stream : BOOLEAN]
         /\ how \in {"baud", "open"} => Outcomes[how].fd \in {0, Null} /\ ~Outcomes[how].stream
         /\ how \notin {"baud", "open"} => Outcomes[how].fd = FreeDescriptor
         /\ how = "ok" => Outcomes[how].stream
<1>1. how \in {"ok", "baud", "open", "fdopen", "tc"}
  BY DEF Outcomes
<1>2. /\ Outcomes["ok"] = [fd |-> FreeDescriptor, stream |-> TRUE]
      /\ Outcomes["baud"] = [fd |-> 0, stream |-> FALSE]
      /\ Outcomes["open"] = [fd |-> Null, stream |-> FALSE]
      /\ Outcomes["fdopen"] = [fd |-> FreeDescriptor, stream |-> FALSE]
      /\ Outcomes["tc"] = [fd |-> FreeDescriptor, stream |-> TRUE]
  BY DEF Outcomes, Closed
<1> HIDE DEF Outcomes
<1>3. CASE how = "ok"
  <2>1. Outcomes[how] = [fd |-> FreeDescriptor, stream |-> TRUE]
    BY <1>2, <1>3
  <2>2. Outcomes[how].stream /\ Outcomes[how].fd = FreeDescriptor
    BY <2>1
  <2>3. Outcomes[how] \in [fd : Nat \cup {Null}, stream : BOOLEAN]
    BY <2>1
  <2> QED BY <1>3, <2>2, <2>3
<1>4. CASE how \in {"baud", "open"}
  <2>1. PICK d \in {0, Null} : Outcomes[how] = [fd |-> d, stream |-> FALSE]
    BY <1>2, <1>4
  <2>2. ~Outcomes[how].stream /\ Outcomes[how].fd = d
    BY <2>1
  <2>3. Outcomes[how] \in [fd : Nat \cup {Null}, stream : BOOLEAN]
    BY <2>1
  <2> QED BY <1>4, <2>1, <2>2, <2>3
<1>5. CASE how \in {"fdopen", "tc"}
  <2>1. PICK b \in BOOLEAN : Outcomes[how] = [fd |-> FreeDescriptor, stream |-> b]
    BY <1>2, <1>5
  <2>2. Outcomes[how].fd = FreeDescriptor
    BY <2>1
  <2>3. Outcomes[how] \in [fd : Nat \cup {Null}, stream : BOOLEAN]
    BY <2>1
  <2> QED BY <1>5, <2>2, <2>3
<1> QED BY <1>1, <1>3, <1>4, <1>5

\* The mode's init, which opens the port or fails to.
LEMMA SetupInitPorts ==
  ASSUME Types, Descriptors, OnceOpen, NEW i \in Instances, NEW how \in DOMAIN Outcomes,
         SetupInit(i, how)
  PROVE  /\ Descriptors' /\ OnceOpen'
         /\ serial' \in [Instances -> [fd : Nat \cup {Null}, stream : BOOLEAN]]
         /\ modeData' \in [Instances -> BOOLEAN]
<1> DEFINE to == IF how = "ok" THEN NextStep(0) ELSE "init failed"
<1>1. /\ at[i] = "init" /\ at'[i] = to /\ to \in Names \cup {"list", "init failed"}
      /\ to \in InUse => how = "ok"
      /\ \A j \in Instances : j # i => at'[j] = at[j]
  <2>1. 0 \in 0..Len(Order)
    BY InstancesAssumption DEF InstancesAssumption
  <2>2. to \in Names \cup {"list", "init failed"} /\ to \in Places
    BY <2>1, NextPlace DEF Places, InUse, Starting
  <2>3. to \in InUse => how = "ok"
    BY KindsApart DEF InUse
  <2>4. Go(i, "init", to)
    BY DEF SetupInit
  <2> HIDE DEF to
  <2> QED BY <2>2, <2>3, <2>4, Gone
<1> HIDE DEF to
<1>2. /\ FreeDescriptor \in Nat \ {0} /\ FreeDescriptor \notin DOMAIN ports
      /\ IsFiniteSet(DOMAIN ports)
  BY FreeOne DEF Descriptors
<1>3. PICK x : x = Outcomes[how]
  OBVIOUS
<1>4. /\ x \in [fd : Nat \cup {Null}, stream : BOOLEAN]
      /\ how \in {"baud", "open"} => x.fd \in {0, Null} /\ ~x.stream
      /\ how \notin {"baud", "open"} => x.fd = FreeDescriptor
      /\ how = "ok" => x.stream
  BY <1>2, <1>3, HowItEnds
<1>5. /\ modeData' \in [Instances -> BOOLEAN] /\ modeData'[i] = TRUE
      /\ \A j \in Instances : j # i => modeData'[j] = modeData[j]
      /\ serial' \in [Instances -> [fd : Nat \cup {Null}, stream : BOOLEAN]] /\ serial'[i] = x
      /\ \A j \in Instances : j # i => serial'[j] = serial[j]
  <2>1. modeData' = [modeData EXCEPT ![i] = TRUE] /\ serial' = [serial EXCEPT ![i] = x]
    BY <1>3 DEF SetupInit
  <2> QED BY <1>4, <2>1 DEF Types
<1>6. ~modeData[i] /\ \A d \in DOMAIN ports : ports[d] # i
  <2>1. ~modeData[i]
    BY <1>1 DEF Descriptors
  <2> QED BY <2>1 DEF Descriptors
<1>7. \A j \in Instances : j # i =>
        /\ at'[j] \in {"none", "init", "gone"} => ~modeData'[j]
        /\ at'[j] \in InUse => modeData'[j] /\ serial'[j].stream
        /\ at'[j] \in Closing => modeData'[j]
  <2> HIDE DEF InUse
  <2> QED BY <1>1, <1>5 DEF Descriptors
<1>8. /\ at'[i] \notin {"none", "init", "gone"} \cup Closing
      /\ at'[i] \in InUse => modeData'[i] /\ serial'[i].stream
  BY <1>1, <1>4, <1>5, KindsApart DEF Closing
<1>9. CASE how \in {"baud", "open"}
  <2>1. UNCHANGED <<ports, raced>>
    BY <1>9 DEF SetupInit
  <2>2. Descriptors'
    BY <1>5, <1>6, <1>7, <1>8, <2>1 DEF Descriptors
  <2>3. \A j \in Instances : j # i => (Owns(j) => Owns(j)')
    BY <1>5, <2>1 DEF Owns
  <2>4. OnceOpen'
    BY <1>1, <1>4, <1>5, <1>9, <2>1, <2>3 DEF OnceOpen
  <2> QED BY <1>5, <2>2, <2>4
<1>10. CASE how \notin {"baud", "open"}
  <2>1. /\ ports' = Opened(i)
        /\ raced' = IF \E j \in Instances : at[j] \in Closing THEN raced \cup {"port"} ELSE raced
    BY <1>10 DEF SetupInit, Closing
  <2>2. /\ DOMAIN ports' = DOMAIN ports \cup {FreeDescriptor}
        /\ ports'[FreeDescriptor] = i /\ \A d \in DOMAIN ports : ports'[d] = ports[d]
    BY <1>2, <2>1 DEF Opened
  <2>3. IsFiniteSet(DOMAIN ports')
    BY <1>2, <2>2, FS_AddElement
  <2>4. Descriptors'
    BY <1>2, <1>4, <1>5, <1>6, <1>7, <1>8, <1>10, <2>2, <2>3 DEF Descriptors
  <2>5. /\ \A j \in Instances : j # i => (Owns(j) => Owns(j)')
        /\ Owns(i)'
    BY <1>4, <1>5, <1>10, <2>2 DEF Owns
  <2>6. OnceOpen'
    <3> SUFFICES ASSUME "port" \notin raced', NEW j \in Instances, modeData'[j]
                 PROVE  \/ Owns(j)'
                        \/ ~serial'[j].stream /\ serial'[j].fd \in {0, Null}
      BY DEF OnceOpen
    <3>1. "port" \notin raced /\ at[j] \notin Closing
      BY <2>1
    <3> QED BY <1>5, <2>5, <3>1 DEF OnceOpen
  <2> QED BY <1>5, <2>4, <2>6
<1> QED BY <1>9, <1>10

\* A descriptor is closed that is the instance's own or nobody's.
LEMMA ShutPorts ==
  ASSUME Types, Descriptors, OnceOpen, NEW i \in Instances, NEW fd, fd = serial[i].fd,
         ports' = Shut(fd), modeData[i],
         "port" \in raced => "port" \in raced',
         "port" \notin raced' => Owns(i) \/ fd \notin DOMAIN ports,
         serial' \in [Instances -> [fd : Nat \cup {Null}, stream : BOOLEAN]],
         modeData' \in [Instances -> BOOLEAN],
         \A j \in Instances : j # i =>
           serial'[j] = serial[j] /\ modeData'[j] = modeData[j] /\ at'[j] = at[j],
         \/ ~modeData'[i] /\ at'[i] \notin Closing
         \/ serial'[i].fd = fd /\ ~serial'[i].stream /\ at'[i] \in Closing /\ modeData'[i],
         at'[i] \notin InUse, at'[i] \in {"none", "init", "gone"} => ~modeData'[i]
  PROVE  Descriptors' /\ OnceOpen'
<1>1. /\ DOMAIN ports' = DOMAIN ports \ {fd}
      /\ \A d \in DOMAIN ports' : ports'[d] = ports[d]
  BY DEF Shut
<1>2. \A d \in DOMAIN ports' : ports'[d] # i
  BY <1>1 DEF Descriptors
<1>3. IsFiniteSet(DOMAIN ports')
  BY <1>1, FS_Subset DEF Descriptors
<1>4. Descriptors'
  BY <1>1, <1>2, <1>3 DEF Descriptors
<1>5. OnceOpen'
  <2> SUFFICES ASSUME "port" \notin raced', NEW j \in Instances, modeData'[j]
               PROVE  \/ Owns(j)'
                      \/ ~serial'[j].stream /\ serial'[j].fd \in {0, Null}
                      \/ at'[j] \in Closing /\ ~serial'[j].stream /\ serial'[j].fd \notin DOMAIN ports'
    BY DEF OnceOpen
  <2>1. CASE j = i
    BY <1>1, <2>1
  <2>2. CASE j # i
    <3>1. Owns(j) => Owns(j)'
      <4>1. ASSUME Owns(j) PROVE serial[j].fd # fd
        BY <2>2, <4>1 DEF Owns
      <4> QED BY <1>1, <2>2, <4>1 DEF Owns
    <3> QED BY <1>1, <2>2, <3>1 DEF OnceOpen
  <2> QED BY <2>1, <2>2
<1> QED BY <1>4, <1>5

LEMMA ModeShutdownPorts ==
  ASSUME Types, Descriptors, OnceOpen, NEW i \in Instances,
         \/ ModeShutdown(i, "init failed", "init close", "free")
         \/ ModeShutdown(i, "mode", "close", "gone")
  PROVE  /\ Descriptors' /\ OnceOpen'
         /\ serial' \in [Instances -> [fd : Nat \cup {Null}, stream : BOOLEAN]]
         /\ modeData' \in [Instances -> BOOLEAN]
<1>0. PICK from \in {"init failed", "mode"}, to \in Closing, done \in {"free", "gone"} :
        Go(i, from, IF modeData[i] THEN to ELSE done)
  <2>1. CASE ModeShutdown(i, "init failed", "init close", "free")
    BY <2>1 DEF ModeShutdown, Closing
  <2>2. CASE ModeShutdown(i, "mode", "close", "gone")
    BY <2>2 DEF ModeShutdown, Closing
  <2> QED BY <2>1, <2>2
<1>1. /\ at[i] = from /\ at'[i] = IF modeData[i] THEN to ELSE done
      /\ \A j \in Instances : j # i => at'[j] = at[j]
  <2>1. to \in Places /\ done \in Places
    BY <1>0 DEF Places, Closing, Freed, Starting
  <2> QED BY <1>0, <2>1, Gone
<1>2. modeData' = modeData /\ raced' = raced
  BY DEF ModeShutdown, ghosts
<1>3. /\ from \notin {"none", "init", "gone"} \cup InUse \cup Closing
      /\ to \in Closing /\ to \notin {"none", "init", "gone"} \cup InUse
      /\ done \notin {"none", "init"} \cup InUse \cup Closing
  BY <1>0, KindsApart DEF InUse, Closing
<1>4. CASE modeData[i] /\ serial[i].stream
  <2>1. ports' = Shut(serial[i].fd) /\ serial' = [serial EXCEPT ![i].stream = FALSE]
    BY <1>4 DEF ModeShutdown
  <2>2. /\ serial' \in [Instances -> [fd : Nat \cup {Null}, stream : BOOLEAN]]
        /\ serial'[i].fd = serial[i].fd /\ ~serial'[i].stream
        /\ \A j \in Instances : j # i => serial'[j] = serial[j]
    BY <2>1 DEF Types
  <2>3. "port" \notin raced => Owns(i)
    BY <1>4 DEF OnceOpen
  <2>4. modeData' \in [Instances -> BOOLEAN] /\ modeData'[i]
    BY <1>2, <1>4 DEF Types
  <2>5. at'[i] = to
    BY <1>1, <1>4
  <2>6. PICK fd : fd = serial[i].fd
    OBVIOUS
  <2>7. Descriptors' /\ OnceOpen'
    <3>1. /\ "port" \notin raced' => Owns(i) \/ fd \notin DOMAIN ports
          /\ "port" \in raced => "port" \in raced'
          /\ serial'[i].fd = fd /\ ~serial'[i].stream /\ at'[i] \in Closing /\ modeData'[i]
          /\ \A j \in Instances : j # i =>
               serial'[j] = serial[j] /\ modeData'[j] = modeData[j] /\ at'[j] = at[j]
      BY <1>1, <1>2, <1>3, <2>2, <2>3, <2>4, <2>5, <2>6
    <3>2. at'[i] \notin InUse /\ at'[i] \notin {"none", "init", "gone"} /\ ports' = Shut(fd)
      BY <1>3, <2>1, <2>5, <2>6
    <3> QED BY <1>4, <2>2, <2>4, <2>6, <3>1, <3>2, ShutPorts, Zenon
  <2> QED BY <2>2, <2>4, <2>7
<1>5. CASE ~(modeData[i] /\ serial[i].stream)
  <2>1. UNCHANGED <<ports, serial>>
    BY <1>5 DEF ModeShutdown
  <2>2. Descriptors' /\ OnceOpen'
    BY <1>1, <1>2, <1>3, <2>1, PortsSame DEF port
  <2> QED BY <1>2, <2>1, <2>2 DEF Types
<1> QED BY <1>4, <1>5

LEMMA ModeShutdownClosePorts ==
  ASSUME Types, Descriptors, OnceOpen, NEW i \in Instances,
         ModeShutdownClose(i, "init close", "free") \/ ModeShutdownClose(i, "close", "gone")
  PROVE  /\ Descriptors' /\ OnceOpen'
         /\ serial' \in [Instances -> [fd : Nat \cup {Null}, stream : BOOLEAN]]
         /\ modeData' \in [Instances -> BOOLEAN]
<1>0. PICK from \in Closing, done \in {"free", "gone"} : Go(i, from, done)
  <2>1. CASE ModeShutdownClose(i, "init close", "free")
    BY <2>1 DEF ModeShutdownClose, Closing
  <2>2. CASE ModeShutdownClose(i, "close", "gone")
    BY <2>2 DEF ModeShutdownClose, Closing
  <2> QED BY <2>1, <2>2
<1>1. /\ at[i] = from /\ at'[i] = done
      /\ \A j \in Instances : j # i => at'[j] = at[j]
  <2>1. done \in Places
    BY <1>0 DEF Places, Freed
  <2> QED BY <1>0, <2>1, Gone
<1>2. /\ ports' = Shut(serial[i].fd) /\ serial' = [serial EXCEPT ![i].fd = Null]
      /\ modeData' = [modeData EXCEPT ![i] = FALSE] /\ raced' = raced
  BY DEF ModeShutdownClose, ghosts
<1>3. /\ serial' \in [Instances -> [fd : Nat \cup {Null}, stream : BOOLEAN]]
      /\ modeData' \in [Instances -> BOOLEAN] /\ ~modeData'[i]
      /\ \A j \in Instances : j # i => serial'[j] = serial[j] /\ modeData'[j] = modeData[j]
  BY <1>2 DEF Types
<1>4. from \in Closing /\ done \notin InUse \cup Closing
  BY <1>0, KindsApart DEF InUse, Closing
<1>5. modeData[i]
  BY <1>1, <1>4 DEF Descriptors
<1>6. PICK fd : fd = serial[i].fd
  OBVIOUS
<1>7. "port" \notin raced' => Owns(i) \/ fd \notin DOMAIN ports
  <2>1. Null \notin DOMAIN ports /\ 0 \notin DOMAIN ports
    BY InstancesAssumption DEF Descriptors, InstancesAssumption
  <2> QED BY <1>2, <1>5, <1>6, <2>1 DEF OnceOpen
<1>8. Descriptors' /\ OnceOpen'
  <2>1. /\ "port" \in raced => "port" \in raced'
        /\ ~modeData'[i] /\ at'[i] \notin Closing /\ at'[i] \notin InUse
        /\ \A j \in Instances : j # i =>
             serial'[j] = serial[j] /\ modeData'[j] = modeData[j] /\ at'[j] = at[j]
    BY <1>1, <1>2, <1>3, <1>4
  <2>2. ports' = Shut(fd)
    BY <1>2, <1>6
  <2> QED BY <1>3, <1>5, <1>6, <1>7, <2>1, <2>2, ShutPorts, Zenon
<1> QED BY <1>3, <1>8

\* Where a walk goes from the place it remembers.
LEMMA Following ==
  ASSUME Types, Registry, NEW ref, NEW t, t = NextThread(ref)
  PROVE  /\ t # Null =>
              /\ t \in Threads
              /\ \E p \in 1..Len(threadList) :
                   /\ threadList[p] = t
                   /\ IF ref = Null THEN p = 1 ELSE p > 1 /\ threadList[p - 1] = ref
         /\ t = Null =>
              \/ ref = Null /\ Len(threadList) = 0
              \/ ref # Null /\ ref \notin ToSet(threadList)
              \/ ref # Null /\ Len(threadList) >= 1 /\ threadList[Len(threadList)] = ref
<1> DEFINE N == Len(threadList)
           k == IF ref = Null THEN 0
                ELSE IF ref \in ToSet(threadList)
                     THEN CHOOSE n \in DOMAIN threadList : threadList[n] = ref ELSE N
<1>1. N \in Nat /\ DOMAIN threadList = 1..N /\ \A p \in 1..N : threadList[p] \in Threads
  BY DEF Types
<1>2. t = IF k < N THEN threadList[k + 1] ELSE Null
  BY DEF NextThread
<1>3. ref # Null /\ ref \in ToSet(threadList) => k \in 1..N /\ threadList[k] = ref
  BY <1>1 DEF ToSet
<1>4. ref = Null => k = 0
  OBVIOUS
<1>5. ref # Null /\ ref \notin ToSet(threadList) => k = N
  OBVIOUS
<1>6. Null \notin Threads
  BY InstancesAssumption DEF InstancesAssumption
<1> HIDE DEF N, k
<1>7. CASE ref = Null
  <2>1. CASE N = 0
    BY <1>2, <1>4, <1>7, <2>1 DEF N
  <2>2. CASE N # 0
    <3>1. 1 \in 1..N /\ t = threadList[1]
      BY <1>1, <1>2, <1>4, <1>7, <2>2
    <3> QED BY <1>1, <1>6, <1>7, <3>1 DEF N
  <2> QED BY <2>1, <2>2
<1>8. CASE ref # Null /\ ref \notin ToSet(threadList)
  BY <1>1, <1>2, <1>5, <1>8
<1>9. CASE ref # Null /\ ref \in ToSet(threadList)
  <2>1. CASE k < N
    <3>1. k + 1 \in 1..N /\ t = threadList[k + 1] /\ k + 1 > 1 /\ (k + 1) - 1 = k
      BY <1>1, <1>2, <1>3, <1>9, <2>1
    <3> QED BY <1>1, <1>3, <1>6, <1>9, <3>1 DEF N
  <2>2. CASE ~(k < N)
    <3>1. k = N /\ N >= 1 /\ t = Null
      BY <1>1, <1>2, <1>3, <1>9, <2>2
    <3> QED BY <1>3, <1>9, <3>1 DEF N
  <2> QED BY <2>1, <2>2
<1> QED BY <1>7, <1>8, <1>9

\* A thread leaves the registry, and the others keep their order.
LEMMA ThreadDropped ==
  ASSUME Types, Registry, NEW t, threadList' = Drop(threadList, t)
  PROVE  /\ threadList' \in Seq(Threads)
         /\ \/ threadList' = threadList /\ \A p \in 1..Len(threadList) : threadList[p] # t
            \/ \E r \in 1..Len(threadList) :
                 /\ threadList[r] = t /\ Len(threadList') = Len(threadList) - 1
                 /\ \A j \in 1..Len(threadList') :
                      threadList'[j] = threadList[IF j < r THEN j ELSE j + 1]
<1>1. threadList \in Seq(Threads)
  BY DEF Types
<1>2. PICK u : u = threadList'
  OBVIOUS
<1>3. \/ u = threadList /\ \A p \in 1..Len(threadList) : threadList[p] # t
      \/ \E r \in 1..Len(threadList) :
           /\ threadList[r] = t /\ u \in Seq(Threads) /\ Len(u) = Len(threadList) - 1
           /\ \A j \in 1..Len(u) : u[j] = threadList[IF j < r THEN j ELSE j + 1]
  BY <1>1, <1>2, Dropped
<1> QED BY <1>1, <1>2, <1>3

\* The registry and the walks: the steps that change neither.
LEMMA ThreadsSame ==
  ASSUME Types, ThreadInv, UNCHANGED <<walk, threadList, lost, early>>,
         \A t \in Threads : /\ Alive(t)' => Alive(t)
                            /\ thread'[t] = "none" <=> thread[t] = "none"
                            /\ thread'[t] = "new" => thread[t] = "new",
         \A i \in Instances :
           /\ at'[i] \in Starting => at[i] \in Starting
           /\ at'[i] \in Names => at'[i] = at[i] \/ at[i] \in Starting
           /\ at'[i] = at[i] \/ (at[i] \notin OnWalk /\ at'[i] \notin OnWalk)
           /\ at'[i] \in Freed => at[i] \in Freed
  PROVE  ThreadInv'
<1>1. \A p \in 1..Len(threadList) : threadList[p] \in Threads
  BY DEF Types
<1>2. Registry'
  BY DEF ThreadInv, Registry
<1>3. Unstarted'
  <2> SUFFICES ASSUME NEW i \in Instances, NEW m \in 1..Len(Order)
               PROVE  /\ at'[i] \in Starting => thread'[<<i, Order[m]>>] = "none"
                      /\ \A n \in 1..Len(Order) :
                           at'[i] = Order[n] /\ n <= m => thread'[<<i, Order[m]>>] = "none"
    BY DEF Unstarted
  <2>1. PICK t \in Threads : t = <<i, Order[m]>>
    BY KindsApart DEF Threads
  <2>2. \A n \in 1..Len(Order) : Order[n] \in Names
    BY KindsApart
  <2>3. /\ at[i] \in Starting => thread[t] = "none"
        /\ \A n \in 1..Len(Order) : at[i] = Order[n] /\ n <= m => thread[t] = "none"
    BY <2>1 DEF ThreadInv, Unstarted
  <2> QED BY <2>1, <2>2, <2>3
<1>4. Walkers'
  BY DEF ThreadInv, Walkers, OnWalk, Ending
<1>5. ASSUME NEW i \in Instances, NEW r, NEW k, Behind(i, r, k) PROVE Behind(i, r, k)'
  BY <1>1, <1>5 DEF Behind
<1>6. Walks'
  <2> SUFFICES ASSUME NEW i \in Instances, i \notin lost \cup early
               PROVE  /\ at'[i] \in OnWalk => \A r \in {walk[i].ref, walk[i].prev, walk[i].kill} :
                                                  r = Null \/ Behind(i, r, walk[i].kill)'
                      /\ at'[i] \in Ending => thread'[walk[i].kill] \notin {"none", "new"}
                      /\ at'[i] = "join" => ~Alive(walk[i].kill)'
                      /\ at'[i] \in Freed => \A k \in Kinds : ~Alive(<<i, k>>)'
    BY DEF Walks, Behind, Alive, Active
  <2>1. at'[i] \in OnWalk => at'[i] = at[i]
    OBVIOUS
  <2>2. Ending \subseteq OnWalk /\ "join" \in Ending
    BY DEF OnWalk, Ending
  <2>3. at[i] \in Ending => walk[i].kill \in Threads
    BY DEF ThreadInv, Walkers
  <2>4. \A k \in Kinds : <<i, k>> \in Threads
    BY DEF Threads
  <2> QED BY <1>5, <2>1, <2>2, <2>3, <2>4 DEF ThreadInv, Walks
<1> QED BY <1>2, <1>3, <1>4, <1>6 DEF ThreadInv

\* A thread is started, and registered after all others.
LEMMA StartThreads ==
  ASSUME Types, ThreadInv, NEW t \in Threads, thread[t] = "none", Start(t),
         UNCHANGED <<walk, lost, early>>, Unstarted', at'[t[1]] \notin Freed,
         \A i \in Instances :
           /\ at'[i] = at[i] \/ (at[i] \notin OnWalk /\ at'[i] \notin OnWalk)
           /\ at'[i] \in Freed => at[i] \in Freed
  PROVE  /\ ThreadInv' /\ threadList' \in Seq(Threads)
         /\ thread' \in [Threads -> {"none", "new", "runs", "locks", "over"}]
<1> DEFINE N == Len(threadList)
<1>1. /\ N \in Nat /\ threadList' \in Seq(Threads) /\ Len(threadList') = N + 1
      /\ threadList'[N + 1] = t
      /\ \A p \in 1..N : threadList'[p] = threadList[p]
  BY Appended DEF Types, Start
<1>2. \A p \in 1..(N + 1) : p \in 1..N \/ p = N + 1
  BY <1>1
<1>3. /\ thread' \in [Threads -> {"none", "new", "runs", "locks", "over"}]
      /\ thread'[t] = "new" /\ \A u \in Threads : u # t => thread'[u] = thread[u]
  BY DEF Types, Start
<1>4. \A p \in 1..N : threadList[p] \in Threads /\ threadList[p] # t
  BY DEF Types, ThreadInv, Registry
<1> HIDE DEF N
<1>5. \A u \in Threads : u # t => (Alive(u)' <=> Alive(u))
  BY <1>3 DEF Alive, Active
<1>6. Registry'
  <2>1. \A p, q \in 1..(N + 1) : threadList'[p] = threadList'[q] => p = q
    <3>1. \A p, q \in 1..N : threadList[p] = threadList[q] => p = q
      BY DEF ThreadInv, Registry, N
    <3> QED BY <1>1, <1>2, <1>4, <3>1
  <2>2. ASSUME NEW u \in Threads, Alive(u)' PROVE \E p \in 1..(N + 1) : threadList'[p] = u
    <3>1. CASE u = t
      <4>1. N + 1 \in 1..(N + 1)
        BY <1>1
      <4> QED BY <1>1, <3>1, <4>1
    <3>2. CASE u # t
      <4>1. PICK p \in 1..N : threadList[p] = u
        BY <1>5, <2>2, <3>2 DEF ThreadInv, Registry, N
      <4>2. p \in 1..(N + 1)
        BY <1>1
      <4> QED BY <1>1, <4>1, <4>2
    <3> QED BY <3>1, <3>2
  <2>3. ASSUME NEW u \in Threads, thread'[u] = "none", NEW p \in 1..(N + 1)
        PROVE  threadList'[p] # u
    <3>1. u # t /\ thread[u] = "none"
      BY <1>3, <2>3
    <3>2. \A q \in 1..N : threadList[q] # u
      BY <3>1 DEF ThreadInv, Registry, N
    <3> QED BY <1>1, <1>2, <3>1, <3>2
  <2> QED BY <1>1, <2>1, <2>2, <2>3 DEF Registry
<1>7. Walkers'
  BY DEF ThreadInv, Walkers, OnWalk, Ending
<1>8. ASSUME NEW i \in Instances, NEW r, NEW k, Behind(i, r, k) PROVE Behind(i, r, k)'
  <2>1. PICK p \in 1..N :
          /\ threadList[p] = r
          /\ \A q \in 1..N : Alive(threadList[q]) /\ threadList[q][1] = i /\ threadList[q] # k => p < q
    BY <1>8 DEF Behind, N
  <2>2. p \in 1..(N + 1) /\ threadList'[p] = r
    BY <1>1, <2>1
  <2>3. ASSUME NEW q \in 1..(N + 1),
               thread'[threadList'[q]] \in {"new", "runs", "locks"}, threadList'[q][1] = i, threadList'[q] # k
        PROVE  p < q
    <3>1. CASE q = N + 1
      BY <1>1, <3>1
    <3>2. CASE q \in 1..N
      <4>1. Alive(threadList[q]) /\ threadList[q][1] = i /\ threadList[q] # k
        <5>1. PICK u \in Threads : u = threadList[q] /\ u = threadList'[q] /\ u # t
          BY <1>1, <1>4, <3>2
        <5>2. Alive(u)'
          BY <2>3, <5>1 DEF Alive, Active
        <5> QED BY <1>5, <2>3, <5>1, <5>2
      <4> QED BY <2>1, <3>2, <4>1
    <3> QED BY <1>2, <3>1, <3>2
  <2> QED BY <1>1, <2>2, <2>3 DEF Behind, Alive, Active
<1>9. Walks'
  <2> SUFFICES ASSUME NEW i \in Instances, i \notin lost \cup early
               PROVE  /\ at'[i] \in OnWalk => \A r \in {walk[i].ref, walk[i].prev, walk[i].kill} :
                                                  r = Null \/ Behind(i, r, walk[i].kill)'
                      /\ at'[i] \in Ending => thread'[walk[i].kill] \notin {"none", "new"}
                      /\ at'[i] = "join" => ~Alive(walk[i].kill)'
                      /\ at'[i] \in Freed => \A k \in Kinds : ~Alive(<<i, k>>)'
    BY DEF Walks, Behind, Alive, Active
  <2>1. at'[i] \in OnWalk => at'[i] = at[i]
    OBVIOUS
  <2>2. Ending \subseteq OnWalk /\ "join" \in Ending
    BY DEF OnWalk, Ending
  <2>3. at[i] \in Ending => walk[i].kill \in Threads /\ thread[walk[i].kill] \notin {"none", "new"}
    BY DEF ThreadInv, Walkers, Walks
  <2>4. at[i] \in Ending => walk[i].kill # t
    BY <2>3
  <2>5. at'[i] \in Freed => \A k \in Kinds : <<i, k>> \in Threads /\ <<i, k>> # t
    BY DEF Threads
  <2>6. at[i] \in Freed => \A k \in Kinds : ~Alive(<<i, k>>)
    BY DEF ThreadInv, Walks
  <2>7. at'[i] \in Freed => \A k \in Kinds : ~Alive(<<i, k>>)'
    BY <1>5, <2>5, <2>6
  <2>8. at'[i] = "join" => ~Alive(walk[i].kill)'
    BY <1>5, <2>1, <2>2, <2>3, <2>4 DEF ThreadInv, Walks
  <2>9. at'[i] \in OnWalk => \A r \in {walk[i].ref, walk[i].prev, walk[i].kill} :
                                 r = Null \/ Behind(i, r, walk[i].kill)'
    BY <1>8, <2>1 DEF ThreadInv, Walks
  <2> QED BY <1>3, <2>1, <2>2, <2>3, <2>4, <2>7, <2>8, <2>9
<1> QED BY <1>1, <1>3, <1>6, <1>7, <1>9 DEF ThreadInv

\* A thread that is over leaves the registry, and the others keep their order.
LEMMA UnlistThreads ==
  ASSUME Types, ThreadInv, NEW t \in Threads, ~Alive(t), threadList' = Drop(threadList, t),
         \A u \in Threads : /\ Alive(u)' => Alive(u)
                            /\ thread'[u] = "none" => thread[u] = "none" \/ u = t
  PROVE  /\ Registry' /\ threadList' \in Seq(Threads)
         /\ \A i \in Instances, r \in Threads, k \in Threads \cup {Null} :
              r # t /\ Behind(i, r, k) => Behind(i, r, k)'
<1> DEFINE N == Len(threadList)
           M == Len(threadList')
<1>7. /\ N \in Nat
      /\ \A p \in 1..N : threadList[p] \in Threads
      /\ \A p, q \in 1..N : threadList[p] = threadList[q] => p = q
  BY DEF Types, ThreadInv, Registry
<1>8. /\ threadList' \in Seq(Threads)
      /\ \/ threadList' = threadList /\ \A p \in 1..N : threadList[p] # t
         \/ \E r \in 1..N : /\ threadList[r] = t /\ M = N - 1
                            /\ \A j \in 1..M : threadList'[j] = threadList[IF j < r THEN j ELSE j + 1]
  BY ThreadDropped DEF ThreadInv, N, M
<1>9. M \in Nat
  BY <1>8
<1> HIDE DEF N, M
\* Where each of those that stay was, and where it is.
<1>10. \E old \in [1..M -> 1..N], new \in [1..N -> Int] :
         /\ \A j \in 1..M : threadList'[j] = threadList[old[j]]
         /\ \A p \in 1..N : threadList[p] # t => new[p] \in 1..M /\ threadList'[new[p]] = threadList[p]
         /\ \A j, k \in 1..M : j < k <=> old[j] < old[k]
         /\ \A p, q \in 1..N : threadList[p] # t /\ threadList[q] # t => (p < q <=> new[p] < new[q])
  <2>1. CASE threadList' = threadList /\ \A p \in 1..N : threadList[p] # t
    <3> DEFINE f == [p \in 1..N |-> p]
    <3>1. M = N
      BY <2>1 DEF M, N
    <3>2. f \in [1..M -> 1..N] /\ f \in [1..N -> Int] /\ \A p \in 1..N : f[p] = p
      BY <1>7, <3>1
    <3> HIDE DEF f
    <3>3. /\ \A j \in 1..M : threadList'[j] = threadList[f[j]]
          /\ \A p \in 1..N : threadList[p] # t => f[p] \in 1..M /\ threadList'[f[p]] = threadList[p]
          /\ \A j, k \in 1..M : j < k <=> f[j] < f[k]
          /\ \A p, q \in 1..N : threadList[p] # t /\ threadList[q] # t => (p < q <=> f[p] < f[q])
      BY <2>1, <3>1, <3>2
    <3> QED BY <3>2, <3>3
  <2>2. CASE \E r \in 1..N : /\ threadList[r] = t /\ M = N - 1
                             /\ \A j \in 1..M : threadList'[j] = threadList[IF j < r THEN j ELSE j + 1]
    <3>0. PICK r \in 1..N : /\ threadList[r] = t /\ M = N - 1
                           /\ \A j \in 1..M : threadList'[j] = threadList[IF j < r THEN j ELSE j + 1]
      BY <2>2
    <3> DEFINE old == [j \in 1..M |-> IF j < r THEN j ELSE j + 1]
               new == [p \in 1..N |-> IF p < r THEN p ELSE p - 1]
    <3>1. old \in [1..M -> 1..N] /\ new \in [1..N -> Int]
      BY <1>7, <3>0
    <3>2. /\ \A j \in 1..M : old[j] = IF j < r THEN j ELSE j + 1
          /\ \A p \in 1..N : new[p] = IF p < r THEN p ELSE p - 1
      OBVIOUS
    <3> HIDE DEF old, new
    <3>3. \A j \in 1..M : threadList'[j] = threadList[old[j]]
      BY <3>0, <3>2
    <3>4. \A p \in 1..N : threadList[p] # t => p # r
      BY <3>0
    <3>5. \A p \in 1..N : p # r => new[p] \in 1..M /\ old[new[p]] = p
      BY <1>7, <3>0, <3>2
    <3>6. \A j, k \in 1..M : j < k <=> old[j] < old[k]
      BY <1>7, <3>0, <3>2
    <3>7. \A p, q \in 1..N : p # r /\ q # r => (p < q <=> new[p] < new[q])
      BY <1>7, <3>0, <3>2
    <3>8. \A p \in 1..N : threadList[p] # t => new[p] \in 1..M /\ threadList'[new[p]] = threadList[p]
      BY <3>3, <3>4, <3>5
    <3>9. \A p, q \in 1..N : threadList[p] # t /\ threadList[q] # t => (p < q <=> new[p] < new[q])
      BY <3>4, <3>7
    <3> QED BY <3>1, <3>3, <3>6, <3>8, <3>9, Zenon
  <2> QED BY <1>8, <2>1, <2>2
<1>11. PICK old \in [1..M -> 1..N], new \in [1..N -> Int] :
         /\ \A j \in 1..M : threadList'[j] = threadList[old[j]]
         /\ \A p \in 1..N : threadList[p] # t => new[p] \in 1..M /\ threadList'[new[p]] = threadList[p]
         /\ \A j, k \in 1..M : j < k <=> old[j] < old[k]
         /\ \A p, q \in 1..N : threadList[p] # t /\ threadList[q] # t => (p < q <=> new[p] < new[q])
  BY <1>10
<1>12. \A p, q \in 1..M : threadList'[p] = threadList'[q] => p = q
  <2>1. SUFFICES ASSUME NEW p \in 1..M, NEW q \in 1..M, threadList'[p] = threadList'[q] PROVE p = q
    OBVIOUS
  <2>2. old[p] = old[q] /\ old[p] \in Nat
    BY <1>7, <1>11, <2>1
  <2>3. ~(p < q) /\ ~(q < p)
    BY <1>11, <2>2
  <2> QED BY <1>9, <2>3
<1>13. \A u \in Threads : Alive(u)' => \E p \in 1..M : threadList'[p] = u
  <2>1. SUFFICES ASSUME NEW u \in Threads, Alive(u) PROVE \E p \in 1..M : threadList'[p] = u
    OBVIOUS
  <2>2. PICK p \in 1..N : threadList[p] = u
    BY <2>1 DEF ThreadInv, Registry, N
  <2>3. threadList[p] # t
    BY <2>1, <2>2
  <2> QED BY <1>11, <2>2, <2>3
<1>14. \A p \in 1..M : threadList'[p] # t
  <2>1. CASE \A p \in 1..N : threadList[p] # t
    BY <1>11, <2>1
  <2>2. CASE \E r \in 1..N : threadList[r] = t
    <3>1. PICK r \in 1..N : /\ threadList[r] = t /\ M = N - 1
                            /\ \A j \in 1..M : threadList'[j] = threadList[IF j < r THEN j ELSE j + 1]
      BY <1>8, <2>2
    <3>2. SUFFICES ASSUME NEW j \in 1..M, threadList'[j] = t PROVE FALSE
      OBVIOUS
    <3>3. PICK x : x = IF j < r THEN j ELSE j + 1
      OBVIOUS
    <3>4. x \in 1..N /\ x # r /\ threadList[x] = t
      BY <1>7, <1>9, <3>1, <3>2, <3>3
    <3> QED BY <1>7, <3>1, <3>4
  <2> QED BY <2>1, <2>2
<1>15. Registry'
  <2>1. ASSUME NEW u \in Threads, thread'[u] = "none", NEW p \in 1..M PROVE threadList'[p] # u
    <3>1. CASE u = t
      BY <1>14, <3>1
    <3>2. CASE u # t
      <4>1. \A q \in 1..N : threadList[q] # u
        BY <2>1, <3>2 DEF ThreadInv, Registry, N
      <4> QED BY <1>11, <4>1
    <3> QED BY <3>1, <3>2
  <2> QED BY <1>12, <1>13, <2>1 DEF Registry, M
<1>16. ASSUME NEW i \in Instances, NEW r \in Threads, NEW k \in Threads \cup {Null},
              r # t, Behind(i, r, k)
       PROVE  Behind(i, r, k)'
  <2>1. PICK p \in 1..N :
          /\ threadList[p] = r
          /\ \A q \in 1..N : Alive(threadList[q]) /\ threadList[q][1] = i /\ threadList[q] # k => p < q
    BY <1>16 DEF Behind, N
  <2>2. new[p] \in 1..M /\ threadList'[new[p]] = r
    BY <1>11, <1>16, <2>1
  <2>3. ASSUME NEW q \in 1..M,
               thread'[threadList'[q]] \in {"new", "runs", "locks"}, threadList'[q][1] = i, threadList'[q] # k
        PROVE  new[p] < q
    <3>1. PICK x \in 1..N : x = old[q] /\ threadList'[q] = threadList[x]
      BY <1>11
    <3>2. Alive(threadList[x])
      <4>1. PICK u \in Threads : u = threadList[x] /\ u = threadList'[q]
        BY <1>7, <3>1
      <4>2. Alive(u)'
        BY <2>3, <4>1 DEF Alive, Active
      <4> QED BY <4>1, <4>2
    <3>3. p < x
      BY <2>1, <2>3, <3>1, <3>2
    <3>4. threadList[x] # t
      BY <3>2
    <3>5. new[x] \in 1..M /\ threadList'[new[x]] = threadList'[q]
      BY <1>11, <3>1, <3>4
    <3>6. new[x] = q
      BY <1>12, <3>5
    <3> QED BY <1>11, <1>16, <2>1, <3>3, <3>4, <3>6
  <2> QED BY <2>2, <2>3 DEF Behind, Alive, Active, M
<1> QED BY <1>8, <1>15, <1>16

\* What a walk remembers is a thread or nothing.
LEMMA Remembered ==
  ASSUME Types, NEW i \in Instances
  PROVE  /\ walk[i].ref \in Threads \cup {Null} /\ walk[i].prev \in Threads \cup {Null}
         /\ walk[i].kill \in Threads \cup {Null}
         /\ Null \notin Threads /\ \A t \in Threads : t[1] \in Instances
BY InstancesAssumption DEF Types, InstancesAssumption, Threads

\* A thread that is over need not lie behind.
LEMMA BehindOver ==
  ASSUME Types, NEW i \in Instances, NEW r, NEW k, ~Alive(k), Behind(i, r, k)
  PROVE  Behind(i, r, Null)
BY DEF Behind

\* A walk's own move, which changes neither the registry nor a thread.
LEMMA WalkMoves ==
  ASSUME Types, ThreadInv, NEW i \in Instances,
         NEW to \in OnWalk \cup {"mode"},
         NEW w \in [ref : Threads \cup {Null}, prev : Threads \cup {Null}, kill : Threads \cup {Null}],
         at' = [at EXCEPT ![i] = to], walk' = [walk EXCEPT ![i] = w],
         UNCHANGED <<thread, threadList, lost>>, early \subseteq early',
         to = "mode" => w = NotWalking,
         to = "walk" => w.kill = Null,
         to \in Ending => w.kill \in Threads /\ w.kill[1] = i,
         w.prev = Null \/ w.prev[1] # i,
         i \notin lost \cup early' =>
           /\ to \in OnWalk => \A r \in {w.ref, w.prev, w.kill} : r = Null \/ Behind(i, r, w.kill)
           /\ to \in Ending => thread[w.kill] \notin {"none", "new"}
           /\ to = "join" => ~Alive(w.kill)
           /\ to = "mode" => \A k \in Kinds : ~Alive(<<i, k>>)
  PROVE  /\ ThreadInv'
         /\ at' \in [Instances -> Places] /\ at'[i] = to
         /\ \A j \in Instances : j # i => at'[j] = at[j]
         /\ walk' \in [Instances -> [ref : Threads \cup {Null}, prev : Threads \cup {Null},
                                     kill : Threads \cup {Null}]]
<1>1. /\ at' \in [Instances -> Places] /\ at'[i] = to
      /\ \A j \in Instances : j # i => at'[j] = at[j] /\ walk'[j] = walk[j]
      /\ walk'[i] = w
      /\ walk' \in [Instances -> [ref : Threads \cup {Null}, prev : Threads \cup {Null},
                                  kill : Threads \cup {Null}]]
  BY DEF Types, Places, Freed
<1>2. /\ to \notin Starting \cup Names /\ (to \in Freed => to = "mode")
      /\ (to \notin OnWalk => to = "mode") /\ (to = "mode" => to \notin Ending)
      /\ to \in OnWalk <=> to # "mode"
  BY KindsApart DEF Starting, Freed, OnWalk, Ending
<1>3. Registry'
  BY DEF ThreadInv, Registry, Alive, Active
<1>4. Unstarted'
  <2> SUFFICES ASSUME NEW j \in Instances, NEW m \in 1..Len(Order)
               PROVE  /\ at'[j] \in Starting => thread[<<j, Order[m]>>] = "none"
                      /\ \A n \in 1..Len(Order) :
                           at'[j] = Order[n] /\ n <= m => thread[<<j, Order[m]>>] = "none"
    BY DEF Unstarted
  <2>1. \A n \in 1..Len(Order) : Order[n] \in Names
    BY KindsApart
  <2> QED BY <1>1, <1>2, <2>1 DEF ThreadInv, Unstarted
<1>5. Walkers'
  <2>1. \A j \in Instances : j # i =>
          /\ at'[j] \notin OnWalk => walk'[j] = NotWalking
          /\ at'[j] = "walk" => walk'[j].kill = Null
          /\ at'[j] \in Ending => walk'[j].kill \in Threads /\ walk'[j].kill[1] = j
          /\ walk'[j].prev = Null \/ walk'[j].prev[1] # j
    BY <1>1 DEF ThreadInv, Walkers
  <2> QED BY <1>1, <1>2, <2>1 DEF Walkers
<1>6. ASSUME NEW j \in Instances, NEW r, NEW k, Behind(j, r, k) PROVE Behind(j, r, k)'
  BY <1>6 DEF Behind, Alive, Active
<1>7. \A t : Alive(t)' <=> Alive(t)
  BY DEF Alive, Active
<1>8. Walks'
  <2> SUFFICES ASSUME NEW j \in Instances, j \notin lost \cup early', NEW v, v = walk'[j]
               PROVE  /\ at'[j] \in OnWalk => \A r \in {v.ref, v.prev, v.kill} :
                                                  r = Null \/ Behind(j, r, v.kill)'
                      /\ at'[j] \in Ending => thread[v.kill] \notin {"none", "new"}
                      /\ at'[j] = "join" => ~Alive(v.kill)'
                      /\ at'[j] \in Freed => \A k \in Kinds : ~Alive(<<j, k>>)'
    BY DEF Walks, Behind, Alive, Active
  <2>1. CASE j = i
    BY <1>1, <1>2, <1>6, <1>7, <2>1
  <2>2. CASE j # i
    <3>1. at'[j] = at[j] /\ v = walk[j] /\ j \notin lost \cup early
      BY <1>1, <2>2
    <3> QED BY <1>6, <1>7, <3>1 DEF ThreadInv, Walks
  <2> QED BY <2>1, <2>2
<1> QED BY <1>1, <1>3, <1>4, <1>5, <1>8 DEF ThreadInv

\* One turn of a walk.
LEMMA WalkStepThreads ==
  ASSUME Types, ThreadInv, NEW i \in Instances, WalkStep(i)
  PROVE  /\ ThreadInv' /\ at[i] \in OnWalk
         /\ at' \in [Instances -> Places] /\ at'[i] \in OnWalk \cup {"mode"}
         /\ \A j \in Instances : j # i => at'[j] = at[j]
         /\ walk' \in [Instances -> [ref : Threads \cup {Null}, prev : Threads \cup {Null},
                                     kill : Threads \cup {Null}]]
<1> DEFINE N == Len(threadList)
           ref == walk[i].ref
<1>1. PICK t : t = NextThread(ref)
  OBVIOUS
<1>2. /\ t # Null =>
           /\ t \in Threads
           /\ \E p \in 1..N :
                /\ threadList[p] = t
                /\ IF ref = Null THEN p = 1 ELSE p > 1 /\ threadList[p - 1] = ref
      /\ t = Null =>
           \/ ref = Null /\ N = 0
           \/ ref # Null /\ ref \notin ToSet(threadList)
           \/ ref # Null /\ N >= 1 /\ threadList[N] = ref
  BY <1>1, Following DEF ThreadInv
<1>3. /\ threadList' = threadList /\ thread' = thread /\ lost' = lost
      /\ at[i] = "walk" /\ at[i] \in OnWalk
  BY DEF WalkStep, threads, OnWalk
<1>4. \/ /\ t = Null
         /\ at' = [at EXCEPT ![i] = "mode"]
         /\ walk' = [walk EXCEPT ![i] = NotWalking]
         /\ early' = early
      \/ /\ t # Null /\ t[1] # i
         /\ walk' = [walk EXCEPT ![i] = [ref |-> t, prev |-> t, kill |-> Null]]
         /\ at' = at /\ early' = early
      \/ /\ t # Null /\ t[1] = i
         /\ at' = [at EXCEPT ![i] = IF Active(t) THEN "kill" ELSE "join"]
         /\ walk' = [walk EXCEPT ![i].kill = t]
         /\ early' = IF thread[t] = "new" THEN early \cup {i} ELSE early
  BY <1>1 DEF WalkStep
<1>5. /\ N \in Nat /\ DOMAIN threadList = 1..N
      /\ \A p \in 1..N : threadList[p] \in Threads
      /\ \A p, q \in 1..N : threadList[p] = threadList[q] => p = q
  BY DEF Types, ThreadInv, Registry
<1>6. /\ at \in [Instances -> Places]
      /\ walk \in [Instances -> [ref : Threads \cup {Null}, prev : Threads \cup {Null},
                                 kill : Threads \cup {Null}]]
      /\ walk[i].kill = Null /\ (walk[i].prev = Null \/ walk[i].prev[1] # i)
      /\ Null \notin Threads
  BY <1>3, Remembered DEF Types, ThreadInv, Walkers
<1>7. i \notin lost \cup early => \A r \in {ref, walk[i].prev} : r = Null \/ Behind(i, r, Null)
  BY <1>3, <1>6 DEF ThreadInv, Walks
<1>8. \A k \in Kinds : <<i, k>> \in Threads
  BY DEF Threads
<1> HIDE DEF N
<1>9. ASSUME i \notin lost \cup early, t # Null PROVE Behind(i, t, t)
  <2>1. PICK p \in 1..N : /\ threadList[p] = t
                          /\ IF ref = Null THEN p = 1 ELSE p > 1 /\ threadList[p - 1] = ref
    BY <1>2, <1>9
  <2>2. ASSUME NEW q \in 1..N, Alive(threadList[q]), threadList[q][1] = i, threadList[q] # t
        PROVE  p < q
    <3>1. q # p
      BY <2>1, <2>2
    <3>2. CASE ref = Null
      BY <1>5, <2>1, <3>1, <3>2
    <3>3. CASE ref # Null
      <4>1. PICK r \in 1..N : threadList[r] = ref /\ r < q
        <5>1. Behind(i, ref, Null) /\ threadList[q] # Null
          BY <1>5, <1>6, <1>7, <1>9, <3>3
        <5> QED BY <2>2, <5>1 DEF Behind, N
      <4>2. p - 1 \in 1..N
        BY <1>5, <2>1, <3>3
      <4>3. r = p - 1
        BY <1>5, <2>1, <3>3, <4>1, <4>2
      <4> QED BY <1>5, <3>1, <4>1, <4>3
    <3> QED BY <3>2, <3>3
  <2> QED BY <2>1, <2>2 DEF Behind, N
<1>10. ASSUME i \notin lost \cup early, t = Null, NEW k \in Kinds PROVE ~Alive(<<i, k>>)
  <2>1. SUFFICES ASSUME Alive(<<i, k>>) PROVE FALSE
    OBVIOUS
  <2>2. PICK u \in Threads : u = <<i, k>> /\ u[1] = i
    BY <1>8
  <2>3. PICK q \in 1..N : threadList[q] = u
    BY <2>1, <2>2 DEF ThreadInv, Registry, N
  <2>4. CASE ref = Null
    BY <1>2, <1>5, <1>10, <2>3, <2>4
  <2>5. CASE ref # Null
    <3>1. PICK p \in 1..N : threadList[p] = ref /\ p < q
      <4>1. Behind(i, ref, Null) /\ threadList[q] # Null
        BY <1>5, <1>6, <1>7, <1>10, <2>5
      <4> QED BY <2>1, <2>2, <2>3, <4>1 DEF Behind, N
    <3>2. ref \in ToSet(threadList)
      BY <1>5, <3>1 DEF ToSet
    <3>3. N \in 1..N /\ threadList[N] = ref
      BY <1>2, <1>5, <1>10, <2>5, <3>2
    <3>4. p = N
      BY <1>5, <3>1, <3>3
    <3> QED BY <1>5, <3>1, <3>4
  <2> QED BY <2>4, <2>5
<1>11. CASE t = Null
  <2>1. /\ at' = [at EXCEPT ![i] = "mode"] /\ walk' = [walk EXCEPT ![i] = NotWalking]
        /\ early' = early
    BY <1>4, <1>11
  <2>2. /\ NotWalking \in [ref : Threads \cup {Null}, prev : Threads \cup {Null},
                           kill : Threads \cup {Null}]
        /\ NotWalking.prev = Null /\ NotWalking.kill = Null
        /\ "mode" \notin OnWalk \cup Ending
    BY DEF NotWalking, OnWalk, Ending
  <2>3. i \notin lost \cup early' => \A k \in Kinds : ~Alive(<<i, k>>)
    BY <1>10, <1>11, <2>1
  <2> QED BY <1>3, <2>1, <2>2, <2>3, WalkMoves
<1>12. CASE t # Null /\ t[1] # i
  <2>1. PICK w : w = [ref |-> t, prev |-> t, kill |-> Null]
    OBVIOUS
  <2>2. /\ w \in [ref : Threads \cup {Null}, prev : Threads \cup {Null}, kill : Threads \cup {Null}]
        /\ w.ref = t /\ w.prev = t /\ w.kill = Null
    BY <1>2, <1>12, <2>1
  <2>3. /\ at' = [at EXCEPT ![i] = "walk"] /\ walk' = [walk EXCEPT ![i] = w] /\ early' = early
    BY <1>3, <1>4, <1>6, <1>12, <2>1
  <2>4. i \notin lost \cup early' => \A r \in {w.ref, w.prev, w.kill} : r = Null \/ Behind(i, r, w.kill)
    <3>1. ASSUME Behind(i, t, t) PROVE Behind(i, t, Null)
      BY <1>12, <3>1 DEF Behind
    <3> QED BY <1>9, <1>12, <2>2, <2>3, <3>1
  <2>5. "walk" \in OnWalk /\ "walk" \notin Ending
    BY DEF OnWalk, Ending
  <2> QED BY <1>3, <1>12, <2>2, <2>3, <2>4, <2>5, WalkMoves
<1>13. CASE t # Null /\ t[1] = i
  <2>1. PICK w, to : w = [walk[i] EXCEPT !.kill = t] /\ to = IF Active(t) THEN "kill" ELSE "join"
    OBVIOUS
  <2>2. /\ w \in [ref : Threads \cup {Null}, prev : Threads \cup {Null}, kill : Threads \cup {Null}]
        /\ w.ref = ref /\ w.prev = walk[i].prev /\ w.kill = t
    BY <1>2, <1>6, <1>13, <2>1
  <2>3. /\ at' = [at EXCEPT ![i] = to] /\ walk' = [walk EXCEPT ![i] = w]
        /\ early' = IF thread[t] = "new" THEN early \cup {i} ELSE early
        /\ t \in Threads
    BY <1>2, <1>4, <1>6, <1>13, <2>1
  <2>4. to \in Ending /\ to \in OnWalk /\ to \notin {"walk", "mode"}
    BY <2>1 DEF OnWalk, Ending
  <2>5. ASSUME i \notin lost \cup early', NEW r \in {w.ref, w.prev, w.kill}
        PROVE  r = Null \/ Behind(i, r, w.kill)
    <3>0. i \notin lost \cup early
      BY <2>3, <2>5
    <3>1. ASSUME Behind(i, r, Null) PROVE Behind(i, r, t)
      <4>1. \A q \in 1..Len(threadList) : threadList[q] # Null
        BY <1>5, <1>6 DEF N
      <4> QED BY <3>1, <4>1 DEF Behind
    <3> QED BY <1>7, <1>9, <1>13, <2>2, <2>5, <3>0, <3>1
  <2>6. i \notin lost \cup early' => /\ thread[t] \notin {"none", "new"}
                                     /\ to = "join" => ~Alive(t)
    <3>1. PICK p \in 1..N : threadList[p] = t
      BY <1>2, <1>13
    <3>2. thread[t] # "none"
      BY <2>3, <3>1 DEF ThreadInv, Registry, N
    <3>3. i \notin lost \cup early' => thread[t] # "new"
      BY <2>3
    <3> QED BY <2>1, <3>2, <3>3 DEF Alive
  <2>7. early \subseteq early'
    BY <2>3
  <2>8. /\ w.kill \in Threads /\ w.kill[1] = i /\ (w.prev = Null \/ w.prev[1] # i)
        /\ to \in OnWalk \cup {"mode"} /\ to # "walk" /\ to # "mode"
    BY <1>6, <1>13, <2>2, <2>3, <2>4
  <2>9. i \notin lost \cup early' =>
          /\ \A r \in {w.ref, w.prev, w.kill} : r = Null \/ Behind(i, r, w.kill)
          /\ thread[w.kill] \notin {"none", "new"} /\ (to = "join" => ~Alive(w.kill))
    BY <2>2, <2>5, <2>6
  <2>10. /\ ThreadInv' /\ at' \in [Instances -> Places] /\ at'[i] = to
         /\ \A j \in Instances : j # i => at'[j] = at[j]
         /\ walk' \in [Instances -> [ref : Threads \cup {Null}, prev : Threads \cup {Null},
                                      kill : Threads \cup {Null}]]
    <3> HIDE DEF ref
    <3> QED BY <1>3, <2>2, <2>3, <2>7, <2>8, <2>9, WalkMoves
  <2> QED BY <1>3, <2>4, <2>10
<1> QED BY <1>3, <1>11, <1>12, <1>13

\* A walk cancels the thread it came to, or goes on behind it.
LEMMA WalkEndsThreads ==
  ASSUME Types, ThreadInv, NEW i \in Instances, WalkKill(i) \/ WalkCheck(i)
  PROVE  /\ ThreadInv' /\ at[i] \in OnWalk
         /\ at' \in [Instances -> Places] /\ at'[i] \in OnWalk
         /\ \A j \in Instances : j # i => at'[j] = at[j]
         /\ walk' \in [Instances -> [ref : Threads \cup {Null}, prev : Threads \cup {Null},
                                     kill : Threads \cup {Null}]]
<1>1. PICK t : t = walk[i].kill
  OBVIOUS
<1>2. /\ at[i] \in {"kill", "join"}
      /\ UNCHANGED <<thread, threadList, lost, early>>
      /\ \/ at' = [at EXCEPT ![i] = "wait"] /\ walk' = walk
         \/ /\ (at[i] = "kill" /\ ~Active(t)) \/ (at[i] = "join" /\ Active(t))
            /\ at' = [at EXCEPT ![i] = "walk"]
            /\ walk' = [walk EXCEPT ![i] = [@ EXCEPT !.ref = t, !.kill = Null]]
  <2>1. CASE WalkKill(i)
    <3>1. /\ at[i] = "kill" /\ UNCHANGED <<thread, threadList, lost, early>>
          /\ \/ at' = [at EXCEPT ![i] = "wait"] /\ UNCHANGED walk
             \/ ~Active(t) /\ WalkOn(i)
      BY <1>1, <2>1 DEF WalkKill, ghosts
    <3> QED BY <1>1, <3>1 DEF WalkOn
  <2>2. CASE WalkCheck(i)
    <3>1. /\ at[i] = "join" /\ UNCHANGED <<thread, threadList, lost, early>>
          /\ \/ at' = [at EXCEPT ![i] = "wait"] /\ UNCHANGED walk
             \/ Active(t) /\ WalkOn(i)
      BY <1>1, <2>2 DEF WalkCheck, ghosts
    <3> QED BY <1>1, <3>1 DEF WalkOn
  <2> QED BY <2>1, <2>2
<1>3. /\ at[i] \in Ending /\ at[i] \in OnWalk
      /\ "wait" \in OnWalk /\ "wait" \in Ending /\ "walk" \in OnWalk /\ "walk" \notin Ending
  BY <1>2 DEF OnWalk, Ending
<1>4. /\ walk \in [Instances -> [ref : Threads \cup {Null}, prev : Threads \cup {Null},
                                 kill : Threads \cup {Null}]]
      /\ t \in Threads /\ t[1] = i /\ (walk[i].prev = Null \/ walk[i].prev[1] # i)
  BY <1>1, <1>3 DEF Types, ThreadInv, Walkers
<1>5. i \notin lost \cup early =>
        /\ \A r \in {walk[i].ref, walk[i].prev, t} : r = Null \/ Behind(i, r, t)
        /\ thread[t] \notin {"none", "new"} /\ (at[i] = "join" => ~Alive(t))
  BY <1>1, <1>3 DEF ThreadInv, Walks
<1>6. CASE at' = [at EXCEPT ![i] = "wait"] /\ walk' = walk
  <2>1. PICK w : w = walk[i]
    OBVIOUS
  <2>2. /\ w \in [ref : Threads \cup {Null}, prev : Threads \cup {Null}, kill : Threads \cup {Null}]
        /\ walk' = [walk EXCEPT ![i] = w] /\ w.kill = t /\ w.ref = walk[i].ref /\ w.prev = walk[i].prev
    BY <1>1, <1>4, <1>6, <2>1
  <2>3. /\ ThreadInv' /\ at' \in [Instances -> Places] /\ at'[i] = "wait"
        /\ \A j \in Instances : j # i => at'[j] = at[j]
        /\ walk' \in [Instances -> [ref : Threads \cup {Null}, prev : Threads \cup {Null},
                                     kill : Threads \cup {Null}]]
    <3>1. /\ w.kill \in Threads /\ w.kill[1] = i /\ (w.prev = Null \/ w.prev[1] # i)
          /\ early \subseteq early' /\ UNCHANGED <<thread, threadList, lost>>
          /\ "wait" \in OnWalk \cup {"mode"}
      BY <1>2, <1>3, <1>4, <2>2
    <3>2. i \notin lost \cup early' =>
            /\ \A r \in {w.ref, w.prev, w.kill} : r = Null \/ Behind(i, r, w.kill)
            /\ thread[w.kill] \notin {"none", "new"}
      BY <1>2, <1>5, <2>2
    <3> QED BY <1>3, <1>6, <2>2, <3>1, <3>2, WalkMoves
  <2> QED BY <1>3, <2>3
<1>7. CASE /\ (at[i] = "kill" /\ ~Active(t)) \/ (at[i] = "join" /\ Active(t))
           /\ at' = [at EXCEPT ![i] = "walk"]
           /\ walk' = [walk EXCEPT ![i] = [@ EXCEPT !.ref = t, !.kill = Null]]
  <2>1. PICK w : w = [walk[i] EXCEPT !.ref = t, !.kill = Null]
    OBVIOUS
  <2>2. /\ w \in [ref : Threads \cup {Null}, prev : Threads \cup {Null}, kill : Threads \cup {Null}]
        /\ w.kill = Null /\ w.ref = t /\ w.prev = walk[i].prev
    BY <1>4, <2>1
  <2>3. walk' = [walk EXCEPT ![i] = w]
    BY <1>7, <2>1
  <2>4. ASSUME i \notin lost \cup early, NEW r \in {w.ref, w.prev, w.kill}
        PROVE  r = Null \/ Behind(i, r, w.kill)
    <3>1. ~Alive(t)
      BY <1>5, <1>7, <2>4 DEF Alive
    <3>2. \A u : Behind(i, u, t) => Behind(i, u, Null)
      BY <3>1, BehindOver
    <3> QED BY <1>5, <2>2, <2>4, <3>2
  <2>5. /\ ThreadInv' /\ at' \in [Instances -> Places] /\ at'[i] = "walk"
        /\ \A j \in Instances : j # i => at'[j] = at[j]
        /\ walk' \in [Instances -> [ref : Threads \cup {Null}, prev : Threads \cup {Null},
                                     kill : Threads \cup {Null}]]
    <3>1. /\ w.kill = Null /\ (w.prev = Null \/ w.prev[1] # i)
          /\ early \subseteq early' /\ UNCHANGED <<thread, threadList, lost>>
          /\ "walk" \in OnWalk \cup {"mode"}
      BY <1>2, <1>3, <1>4, <2>2
    <3>2. i \notin lost \cup early' =>
            \A r \in {w.ref, w.prev, w.kill} : r = Null \/ Behind(i, r, w.kill)
      BY <1>2, <2>4
    <3>3. at' = [at EXCEPT ![i] = "walk"] /\ "walk" \notin Ending
      BY <1>3, <1>7
    <3> QED BY <2>2, <2>3, <3>1, <3>2, <3>3, WalkMoves
  <2> QED BY <1>3, <2>5
<1> QED BY <1>2, <1>6, <1>7

\* A walk has joined its thread.
LEMMA WalkJoinThreads ==
  ASSUME Types, ThreadInv, NEW i \in Instances, WalkJoin(i)
  PROVE  /\ ThreadInv' /\ threadList' \in Seq(Threads) /\ at[i] \in OnWalk
         /\ at' \in [Instances -> Places] /\ at'[i] \in OnWalk
         /\ \A j \in Instances : j # i => at'[j] = at[j]
         /\ walk' \in [Instances -> [ref : Threads \cup {Null}, prev : Threads \cup {Null},
                                     kill : Threads \cup {Null}]]
<1>1. /\ at[i] = "wait" /\ at[i] \in Ending /\ at[i] \in OnWalk
      /\ at' \in [Instances -> Places] /\ at'[i] = "walk" /\ at'[i] \in OnWalk
      /\ \A j \in Instances : j # i => at'[j] = at[j]
      /\ "walk" \notin Ending \cup Starting \cup Freed
  <2>1. "walk" \in Places /\ "walk" \in OnWalk /\ "wait" \in Ending /\ "wait" \in OnWalk
    BY DEF Places, OnWalk, Ending
  <2>2. Go(i, "wait", "walk")
    BY DEF WalkJoin
  <2>3. "walk" \notin Ending \cup Starting \cup Freed
    BY DEF Ending, Starting, Freed
  <2> QED BY <2>1, <2>2, <2>3, Gone
<1>2. PICK t : t = walk[i].kill
  OBVIOUS
<1>3. /\ t \in Threads /\ t[1] = i /\ (walk[i].prev = Null \/ walk[i].prev[1] # i)
      /\ walk[i].prev \in Threads \cup {Null} /\ Null \notin Threads
  BY <1>1, <1>2, Remembered DEF ThreadInv, Walkers
<1>4. /\ ~Alive(t) /\ thread' = thread /\ early' = early /\ threadList' = Drop(threadList, t)
      /\ lost' = lost \cup {j \in Instances \ {i} : t \in {walk[j].ref, walk[j].prev, walk[j].kill}}
      /\ walk' = [walk EXCEPT ![i] = [@ EXCEPT !.ref = walk[i].prev, !.kill = Null]]
  BY <1>2 DEF WalkJoin, Unlist
<1>5. /\ walk' \in [Instances -> [ref : Threads \cup {Null}, prev : Threads \cup {Null},
                                  kill : Threads \cup {Null}]]
      /\ \A j \in Instances : j # i => walk'[j] = walk[j]
      /\ walk'[i].ref = walk[i].prev /\ walk'[i].prev = walk[i].prev /\ walk'[i].kill = Null
  <2>1. walk \in [Instances -> [ref : Threads \cup {Null}, prev : Threads \cup {Null},
                                kill : Threads \cup {Null}]]
    BY DEF Types
  <2>2. PICK w : w = [walk[i] EXCEPT !.ref = walk[i].prev, !.kill = Null]
    OBVIOUS
  <2>3. /\ w \in [ref : Threads \cup {Null}, prev : Threads \cup {Null}, kill : Threads \cup {Null}]
        /\ w.ref = walk[i].prev /\ w.prev = walk[i].prev /\ w.kill = Null
    BY <2>1, <2>2
  <2>4. walk' = [walk EXCEPT ![i] = w]
    BY <1>4, <2>2
  <2> QED BY <2>1, <2>3, <2>4
<1>6. /\ Registry' /\ threadList' \in Seq(Threads)
      /\ \A j \in Instances, r \in Threads, k \in Threads \cup {Null} :
           r # t /\ Behind(j, r, k) => Behind(j, r, k)'
  BY <1>3, <1>4, UnlistThreads DEF Alive, Active
<1>7. Unstarted'
  <2> SUFFICES ASSUME NEW j \in Instances, NEW m \in 1..Len(Order)
               PROVE  /\ at'[j] \in Starting => thread[<<j, Order[m]>>] = "none"
                      /\ \A n \in 1..Len(Order) :
                           at'[j] = Order[n] /\ n <= m => thread[<<j, Order[m]>>] = "none"
    BY <1>4 DEF Unstarted
  <2>1. \A n \in 1..Len(Order) : Order[n] # "walk"
    BY KindsApart
  <2> QED BY <1>1, <2>1 DEF ThreadInv, Unstarted
<1>8. Walkers'
  <2>1. \A j \in Instances : j # i =>
          /\ at'[j] \notin OnWalk => walk'[j] = NotWalking
          /\ at'[j] = "walk" => walk'[j].kill = Null
          /\ at'[j] \in Ending => walk'[j].kill \in Threads /\ walk'[j].kill[1] = j
          /\ walk'[j].prev = Null \/ walk'[j].prev[1] # j
    BY <1>1, <1>5 DEF ThreadInv, Walkers
  <2> QED BY <1>1, <1>3, <1>5, <2>1 DEF Walkers
<1>9. Walks'
  <2> SUFFICES ASSUME NEW j \in Instances, j \notin lost' \cup early, NEW v, v = walk'[j]
               PROVE  /\ at'[j] \in OnWalk => \A r \in {v.ref, v.prev, v.kill} :
                                                  r = Null \/ Behind(j, r, v.kill)'
                      /\ at'[j] \in Ending => thread[v.kill] \notin {"none", "new"}
                      /\ at'[j] = "join" => ~Alive(v.kill)
                      /\ at'[j] \in Freed => \A k \in Kinds : ~Alive(<<j, k>>)
    <3>1. ASSUME NEW k, NEW r PROVE /\ Alive(k)' <=> Alive(k)
                                    /\ thread'[k] = thread[k]
      BY <1>4 DEF Alive, Active
    <3> QED BY <1>4, <3>1 DEF Walks
  <2>0. j \notin lost \cup early
    BY <1>4
  <2>1. CASE j = i
    <3>0. PICK r : r = walk[i].prev
      OBVIOUS
    <3>1. r = Null \/ Behind(i, r, t)
      BY <1>1, <1>2, <2>0, <2>1, <3>0 DEF ThreadInv, Walks
    <3>2. r = Null \/ (r \in Threads /\ r # t)
      BY <1>3, <3>0
    <3>3. r = Null \/ Behind(i, r, Null)
      BY <1>4, <3>1, BehindOver
    <3>4. r = Null \/ Behind(i, r, Null)'
      BY <1>6, <3>2, <3>3
    <3>5. v.ref = r /\ v.prev = r /\ v.kill = Null
      BY <1>5, <2>1, <3>0
    <3>6. at'[j] \notin Ending \cup Freed \cup {"join"}
      BY <1>1, <2>1 DEF Ending
    <3> QED BY <2>1, <3>4, <3>5, <3>6
  <2>2. CASE j # i
    <3>1. /\ at'[j] = at[j] /\ v = walk[j]
          /\ t \notin {v.ref, v.prev, v.kill}
      BY <1>1, <1>4, <1>5, <2>2
    <3>2. /\ v.ref \in Threads \cup {Null} /\ v.prev \in Threads \cup {Null}
          /\ v.kill \in Threads \cup {Null}
      BY <3>1, Remembered
    <3> QED BY <1>6, <2>0, <3>1, <3>2 DEF ThreadInv, Walks
  <2> QED BY <2>1, <2>2
<1> QED BY <1>1, <1>5, <1>6, <1>7, <1>8, <1>9 DEF ThreadInv

\* The handler or the program has joined a callback thread.
LEMMA CallbackJoinThreads ==
  ASSUME Types, ThreadInv, NEW i \in Instances, CallbackJoin(i)
  PROVE  /\ ThreadInv' /\ threadList' \in Seq(Threads)
         /\ thread' \in [Threads -> {"none", "new", "runs", "locks", "over"}]
<1>1. PICK t : t = <<i, "callback">>
  OBVIOUS
<1>2. t \in Threads
  BY <1>1 DEF Threads, Kinds
<1>3. /\ thread[t] = "over" /\ ~Alive(t) /\ threadList' = Drop(threadList, t)
      /\ thread' = [thread EXCEPT ![t] = "none"]
      /\ lost' = lost \cup {j \in Instances : t \in {walk[j].ref, walk[j].prev, walk[j].kill}}
      /\ UNCHANGED <<at, walk, early>>
  BY <1>1 DEF CallbackJoin, Unlist, Alive, Active
<1>4. /\ thread' \in [Threads -> {"none", "new", "runs", "locks", "over"}]
      /\ thread'[t] = "none" /\ \A u \in Threads : u # t => thread'[u] = thread[u]
  BY <1>2, <1>3 DEF Types
<1>5. \A u \in Threads : /\ Alive(u)' => Alive(u)
                         /\ thread'[u] = "none" <=> thread[u] = "none" \/ u = t
  BY <1>3, <1>4 DEF Alive, Active
<1>6. /\ Registry' /\ threadList' \in Seq(Threads)
      /\ \A j \in Instances, r \in Threads, k \in Threads \cup {Null} :
           r # t /\ Behind(j, r, k) => Behind(j, r, k)'
  BY <1>2, <1>3, <1>5, UnlistThreads
<1>7. Unstarted'
  <2>1. \A j \in Instances, m \in 1..Len(Order) : <<j, Order[m]>> \in Threads
    BY KindsApart DEF Threads
  <2> QED BY <1>3, <1>5, <2>1 DEF ThreadInv, Unstarted
<1>8. Walkers'
  BY <1>3 DEF ThreadInv, Walkers
<1>9. Walks'
  <2> SUFFICES ASSUME NEW j \in Instances, j \notin lost' \cup early, NEW v, v = walk[j]
               PROVE  /\ at[j] \in OnWalk => \A r \in {v.ref, v.prev, v.kill} :
                                                  r = Null \/ Behind(j, r, v.kill)'
                      /\ at[j] \in Ending => thread'[v.kill] \notin {"none", "new"}
                      /\ at[j] = "join" => ~Alive(v.kill)'
                      /\ at[j] \in Freed => \A k \in Kinds : ~Alive(<<j, k>>)'
    BY <1>3 DEF Walks, Behind, Alive, Active
  <2>1. j \notin lost \cup early /\ t \notin {v.ref, v.prev, v.kill}
    BY <1>3
  <2>2. /\ v.ref \in Threads \cup {Null} /\ v.prev \in Threads \cup {Null}
        /\ v.kill \in Threads \cup {Null}
    BY Remembered
  <2>3. at[j] \in Ending => v.kill \in Threads
    BY DEF ThreadInv, Walkers
  <2>4. "join" \in Ending /\ \A k \in Kinds : <<j, k>> \in Threads
    BY DEF Ending, Threads
  <2>5. at[j] \in OnWalk => \A r \in {v.ref, v.prev, v.kill} : r = Null \/ Behind(j, r, v.kill)'
    BY <1>6, <2>1, <2>2 DEF ThreadInv, Walks
  <2>6. at[j] \in Ending => thread'[v.kill] \notin {"none", "new"}
    BY <1>4, <2>1, <2>3 DEF ThreadInv, Walks
  <2>7. at[j] = "join" => ~Alive(v.kill)'
    BY <1>5, <2>1, <2>3, <2>4 DEF ThreadInv, Walks
  <2>8. at[j] \in Freed => \A k \in Kinds : ~Alive(<<j, k>>)'
    BY <1>5, <2>1, <2>4 DEF ThreadInv, Walks
  <2> QED BY <2>5, <2>6, <2>7, <2>8
<1> QED BY <1>4, <1>6, <1>7, <1>8, <1>9 DEF ThreadInv

\* A setup starts the next of its threads.
LEMMA SetupThreadThreads ==
  ASSUME Types, ThreadInv, NEW i \in Instances, NEW n \in DOMAIN Order, SetupThread(i, n)
  PROVE  /\ ThreadInv' /\ threadList' \in Seq(Threads)
         /\ thread' \in [Threads -> {"none", "new", "runs", "locks", "over"}]
<1>1. /\ Order \in Seq({"rx", "handler", "tx"}) /\ DOMAIN Order = 1..Len(Order) /\ Len(Order) \in Nat
      /\ \A k, m \in 1..Len(Order) : Order[k] = Order[m] => k = m
  BY InstancesAssumption DEF InstancesAssumption
<1>2. n \in 1..Len(Order) /\ n \in 0..Len(Order) /\ n \in Nat
  BY <1>1
<1>3. PICK to : to = NextStep(n)
  OBVIOUS
<1>4. /\ to \in Names \cup {"list"} /\ to \in Places
      /\ \A m \in 1..Len(Order) : to = Order[m] => m = n + 1
  BY <1>2, <1>3, NextPlace
<1>5. /\ at[i] = Order[n] /\ at'[i] = to
      /\ \A j \in Instances : j # i => at'[j] = at[j]
  <2>1. Go(i, Order[n], to)
    BY <1>3 DEF SetupThread
  <2> QED BY <1>4, <2>1, Gone
<1>6. /\ at[i] \notin Starting \cup Freed \cup OnWalk
      /\ to \notin Starting \cup Freed \cup OnWalk
  BY <1>2, <1>4, <1>5, KindsApart DEF Starting, Freed, OnWalk, Ending
<1>7. PICK t : t = <<i, Order[n]>>
  OBVIOUS
<1>8. t \in Threads /\ t[1] = i
  BY <1>2, <1>7, KindsApart DEF Threads
<1>9. Start(t) /\ UNCHANGED <<walk, lost, early>>
  BY <1>7 DEF SetupThread, ghosts
<1>10. thread[t] = "none"
  BY <1>2, <1>5, <1>7 DEF ThreadInv, Unstarted
<1>11. \A u \in Threads : u # t => thread'[u] = thread[u]
  BY <1>9 DEF Start, Types
<1>12. Unstarted'
  <2> SUFFICES ASSUME NEW j \in Instances, NEW m \in 1..Len(Order)
               PROVE  /\ at'[j] \in Starting => thread'[<<j, Order[m]>>] = "none"
                      /\ \A k \in 1..Len(Order) :
                           at'[j] = Order[k] /\ k <= m => thread'[<<j, Order[m]>>] = "none"
    BY DEF Unstarted
  <2>1. PICK u \in Threads : u = <<j, Order[m]>>
    BY KindsApart DEF Threads
  <2>2. CASE j # i
    <3>1. u # t
      BY <1>7, <2>1, <2>2
    <3> QED BY <1>5, <1>11, <2>1, <2>2, <3>1 DEF ThreadInv, Unstarted
  <2>3. CASE j = i
    <3>1. ASSUME NEW k \in 1..Len(Order), at'[j] = Order[k], k <= m
          PROVE  thread'[u] = "none"
      <4>1. k = n + 1 /\ m \in Nat
        BY <1>1, <1>4, <1>5, <2>3, <3>1
      <4>2. n <= m /\ m # n
        BY <1>2, <3>1, <4>1
      <4>3. Order[m] # Order[n]
        BY <1>1, <1>2, <4>2
      <4>4. u # t
        BY <1>7, <2>1, <4>3
      <4>5. thread[u] = "none"
        BY <1>2, <1>5, <2>1, <2>3, <4>2 DEF ThreadInv, Unstarted
      <4> QED BY <1>11, <4>4, <4>5
    <3> QED BY <1>5, <1>6, <2>1, <2>3, <3>1
  <2> QED BY <2>2, <2>3
<1>13. \A j \in Instances :
         /\ at'[j] = at[j] \/ (at[j] \notin OnWalk /\ at'[j] \notin OnWalk)
         /\ at'[j] \in Freed => at[j] \in Freed
  BY <1>5, <1>6
<1>14. at'[t[1]] \notin Freed
  BY <1>5, <1>6, <1>8
<1> QED BY <1>8, <1>9, <1>10, <1>12, <1>13, <1>14, StartThreads

\* A callback thread is started.
LEMMA CallbackStartThreads ==
  ASSUME Types, ThreadInv, NEW i \in Instances, CallbackStart(i)
  PROVE  /\ ThreadInv' /\ threadList' \in Seq(Threads)
         /\ thread' \in [Threads -> {"none", "new", "runs", "locks", "over"}]
<1>1. PICK t : t = <<i, "callback">>
  OBVIOUS
<1>2. t \in Threads /\ t[1] = i
  BY <1>1 DEF Threads, Kinds
<1>3. thread[t] = "none" /\ Start(t) /\ UNCHANGED <<at, walk, lost, early>>
  BY <1>1 DEF CallbackStart, ghosts
<1>4. at[i] \notin Starting \cup Freed \cup Names
  BY KindsApart DEF CallbackStart, Talks, Starting, Freed
<1>5. \A u \in Threads : u # t => thread'[u] = thread[u]
  BY <1>3 DEF Start, Types
<1>6. Unstarted'
  <2> SUFFICES ASSUME NEW j \in Instances, NEW m \in 1..Len(Order)
               PROVE  /\ at[j] \in Starting => thread'[<<j, Order[m]>>] = "none"
                      /\ \A k \in 1..Len(Order) :
                           at[j] = Order[k] /\ k <= m => thread'[<<j, Order[m]>>] = "none"
    BY <1>3 DEF Unstarted
  <2>1. CASE j = i
    BY <1>4, <2>1, KindsApart
  <2>2. CASE j # i
    <3>1. PICK u \in Threads : u = <<j, Order[m]>>
      BY KindsApart DEF Threads
    <3>2. u # t
      BY <1>1, <2>2, <3>1
    <3> QED BY <1>5, <3>1, <3>2 DEF ThreadInv, Unstarted
  <2> QED BY <2>1, <2>2
<1>7. at'[t[1]] \notin Freed
  BY <1>2, <1>3, <1>4
<1>8. \A j \in Instances :
         /\ at'[j] = at[j] \/ (at[j] \notin OnWalk /\ at'[j] \notin OnWalk)
         /\ at'[j] \in Freed => at[j] \in Freed
  BY <1>3
<1> QED BY <1>2, <1>3, <1>6, <1>7, <1>8, StartThreads

-----------------------------------------------------------------------------
(***************************************************************************)
(* The invariant holds at first, and every step keeps it.                   *)
(***************************************************************************)
LEMMA InstInit == Init => InstInv
<1> SUFFICES ASSUME Init PROVE InstInv
  OBVIOUS
<1>1. Types
  BY DEF Init, Types, Closed, NotWalking, Places, Starting
<1>2. Listing
  BY DEF Init, Listing, Never, Once, Twice, Unlisted
<1>3. DOMAIN ports = {}
  BY DEF Init
<1>4. Descriptors
  <2>1. "none" \notin InUse \cup Closing
    BY KindsApart DEF InUse, Closing
  <2>2. \A i \in Instances : at[i] = "none" /\ ~modeData[i]
    BY DEF Init
  <2>3. IsFiniteSet(DOMAIN ports)
    BY <1>3, FS_EmptySet
  <2> QED BY <1>3, <2>1, <2>2, <2>3 DEF Descriptors
<1>5. OnceOpen
  BY DEF Init, OnceOpen
<1>6. Len(threadList) = 0 /\ 1..Len(threadList) = {}
  BY DEF Init
<1>7. \A i \in Instances : at[i] = "none" /\ walk[i] = NotWalking
  BY DEF Init
<1>8. \A t \in Threads : thread[t] = "none" /\ ~Alive(t)
  BY DEF Init, Alive, Active
<1>9. Registry
  BY <1>6, <1>8 DEF Registry
<1>10. Unstarted
  <2>1. \A i \in Instances, m \in 1..Len(Order) : <<i, Order[m]>> \in Threads
    BY KindsApart DEF Threads
  <2> QED BY <1>8, <2>1 DEF Unstarted
<1>11. Walkers /\ Walks
  <2>1. "none" \notin OnWalk \cup Ending \cup Freed \cup {"walk", "join"}
    BY DEF OnWalk, Ending, Freed
  <2>2. NotWalking.prev = Null
    BY DEF NotWalking
  <2> QED BY <1>7, <2>1, <2>2 DEF Walkers, Walks
<1> QED BY <1>1, <1>2, <1>4, <1>5, <1>9, <1>10, <1>11 DEF InstInv, ThreadInv

\* The steps of a setup and a shutdown that touch no port and no thread.
LEMMA Moved ==
  ASSUME InstInv, NEW i \in Instances, NEW from, NEW to, Go(i, from, to),
         \/ from \in Names /\ to = "free"
         \/ <<from, to>> \in {<<"none", "init">>, <<"list", "ready">>, <<"free", "sleep">>,
                              <<"plucked", "sleep">>}
         \/ from \in {"ready", "left", "plucked"} /\ to \in {"left", "plucked"},
         UNCHANGED <<port, walk, threads, lost, early>>, "port" \in raced => "port" \in raced',
         xbeeList' \in Seq(Instances)
  PROVE  /\ Types' /\ Descriptors' /\ OnceOpen' /\ ThreadInv'
         /\ at[i] = from /\ at'[i] = to
         /\ \A j \in Instances : j # i => at'[j] = at[j]
<1>1. /\ to \in Places
      /\ from \notin Closing \cup OnWalk
      /\ to \notin Names \cup Closing \cup Freed \cup OnWalk
      /\ to \in InUse => from \in InUse
      /\ to \in Starting => from \in Starting
      /\ to \in {"none", "init", "gone"} => from \in {"none", "init", "gone"}
  BY KindsApart DEF Places, Freed, InUse, Closing, Starting, OnWalk, Ending
<1>2. /\ at' \in [Instances -> Places] /\ at[i] = from /\ at'[i] = to
      /\ \A j \in Instances : j # i => at'[j] = at[j]
  BY <1>1, Gone DEF InstInv
<1>3. Descriptors' /\ OnceOpen'
  <2>1. \A j \in Instances :
          /\ at'[j] \in {"none", "init", "gone"} => at[j] \in {"none", "init", "gone"}
          /\ at'[j] \in InUse => at[j] \in InUse
          /\ at[j] \in Closing => at'[j] \in Closing
          /\ at'[j] \in Closing => at[j] \in Closing
    BY <1>1, <1>2
  <2> QED BY <2>1, PortsSame DEF InstInv
<1>4. ThreadInv'
  <2>1. \A j \in Instances :
          /\ at'[j] \in Starting => at[j] \in Starting
          /\ at'[j] \in Names => at'[j] = at[j]
          /\ at'[j] = at[j] \/ (at[j] \notin OnWalk /\ at'[j] \notin OnWalk)
          /\ at'[j] \in Freed => at[j] \in Freed
    BY <1>1, <1>2
  <2> QED BY <2>1, ThreadsSame DEF InstInv, threads, Alive, Active
<1>5. Types'
  BY <1>2 DEF InstInv, Types, port, threads
<1> QED BY <1>2, <1>3, <1>4, <1>5

LEMMA ListKeeps ==
  ASSUME InstInv, NEW i \in Instances, SetupAlloc(i) \/ SetupDone(i) PROVE InstInv'
<1>1. PICK from, to : /\ <<from, to>> \in {<<"none", "init">>, <<"list", "ready">>}
                      /\ Go(i, from, to)
  BY DEF SetupAlloc, SetupDone
<1>2. xbeeList' = Append(xbeeList, i) /\ UNCHANGED <<port, walk, threads, raced, lost, early>>
  BY DEF SetupAlloc, SetupDone, ghosts
<1>3. xbeeList' \in Seq(Instances)
  BY <1>2, Appended DEF InstInv, Types
<1>4. /\ Types' /\ Descriptors' /\ OnceOpen' /\ ThreadInv'
      /\ at[i] = from /\ at'[i] = to
      /\ \A j \in Instances : j # i => at'[j] = at[j]
  BY <1>1, <1>2, <1>3, Moved
<1>5. \/ from \in Unlisted /\ to \notin Unlisted
      \/ from # "ready" /\ to = "ready"
  BY <1>1 DEF Unlisted, Freed, OnWalk, Ending
<1> QED BY <1>2, <1>4, <1>5, ListingGrows DEF InstInv

LEMMA UnlistKeeps ==
  ASSUME InstInv, NEW i \in Instances, Shutdown(i) \/ FreeBegin(i) PROVE InstInv'
<1>1. PICK from, to :
        /\ \/ <<from, to>> \in {<<"free", "sleep">>, <<"plucked", "sleep">>}
           \/ from \in {"ready", "left", "plucked"} /\ to \in {"left", "plucked"}
        /\ Go(i, from, to)
  <2>1. CASE Shutdown(i)
    <3>1. /\ at[i] \in {"ready", "plucked", "left"}
          /\ \/ at' = [at EXCEPT ![i] = IF @ = "ready" THEN "left" ELSE @]
             \/ at' = [at EXCEPT ![i] = "plucked"]
      BY <2>1 DEF Shutdown
    <3>2. PICK from : from = at[i]
      OBVIOUS
    <3>3. CASE at' = [at EXCEPT ![i] = "plucked"]
      <4>1. Go(i, from, "plucked")
        BY <3>2, <3>3 DEF Go
      <4> QED BY <3>1, <3>2, <4>1
    <3>4. CASE at' = [at EXCEPT ![i] = IF @ = "ready" THEN "left" ELSE @]
      <4>1. PICK to : to = IF from = "ready" THEN "left" ELSE from
        OBVIOUS
      <4>2. Go(i, from, to)
        BY <3>2, <3>4, <4>1 DEF Go
      <4>3. from \in {"ready", "plucked", "left"} /\ to \in {"left", "plucked"}
        BY <3>1, <3>2, <4>1
      <4> QED BY <4>2, <4>3
    <3> QED BY <3>1, <3>3, <3>4
  <2>2. CASE FreeBegin(i)
    BY <2>2 DEF FreeBegin
  <2> QED BY <2>1, <2>2
<1>2. /\ xbeeList' = Drop(xbeeList, i) /\ UNCHANGED <<port, walk, threads, lost, early>>
      /\ "port" \in raced => "port" \in raced'
  BY DEF Shutdown, FreeBegin, ghosts
<1>3. /\ to \in Places /\ to # "ready" /\ (to \in Unlisted => from # "ready")
  BY <1>1 DEF Unlisted, Freed, Places, InUse, OnWalk, Ending
<1>4. /\ at[i] = from /\ at'[i] = to /\ \A j \in Instances : j # i => at'[j] = at[j]
  BY <1>1, <1>3, Gone DEF InstInv
<1>5. Listing' /\ xbeeList' \in Seq(Instances)
  BY <1>2, <1>3, <1>4, ListingShrinks DEF InstInv
<1>6. Types' /\ Descriptors' /\ OnceOpen' /\ ThreadInv'
  BY <1>1, <1>2, <1>5, Moved
<1> QED BY <1>5, <1>6 DEF InstInv

LEMMA StartFailsKeeps ==
  ASSUME InstInv, NEW i \in Instances, NEW n \in DOMAIN Order, SetupThreadFails(i, n)
  PROVE  InstInv'
<1>1. PICK k \in Names : k = Order[n]
  BY DEF Names, ToSet
<1>2. /\ Go(i, k, "free") /\ UNCHANGED <<port, walk, threads, raced, lost, early>>
      /\ xbeeList' = xbeeList
  BY <1>1 DEF SetupThreadFails, ghosts
<1>3. xbeeList' \in Seq(Instances)
  BY <1>2 DEF InstInv, Types
<1>4. /\ Types' /\ Descriptors' /\ OnceOpen' /\ ThreadInv'
      /\ at[i] = k /\ at'[i] = "free"
      /\ \A j \in Instances : j # i => at'[j] = at[j]
  BY <1>2, <1>3, Moved
<1>5. "free" \notin Unlisted /\ k # "ready"
  BY KindsApart DEF Unlisted, Freed, OnWalk, Ending
<1>6. Listing'
  <2>1. \A j \in Instances : /\ at'[j] \in Unlisted => at[j] \in Unlisted
                             /\ at'[j] # "ready" => at[j] # "ready"
    BY <1>4, <1>5
  <2> QED BY <1>2, <2>1, ListingSame DEF InstInv
<1> QED BY <1>4, <1>6 DEF InstInv

LEMMA StartKeeps ==
  ASSUME InstInv, NEW i \in Instances, NEW n \in DOMAIN Order, SetupThread(i, n)
  PROVE  InstInv'
<1>0. n \in 1..Len(Order) /\ n \in 0..Len(Order)
  <2>1. Order \in Seq({"rx", "handler", "tx"})
    BY InstancesAssumption DEF InstancesAssumption
  <2> QED BY <2>1
<1>1. PICK k, to : k = Order[n] /\ to = NextStep(n)
  OBVIOUS
<1>2. k \in Names /\ to \in Names \cup {"list"} /\ to \in Places
  BY <1>0, <1>1, NextPlace, KindsApart
<1>3. Go(i, k, to) /\ UNCHANGED <<port, walk, xbeeList, raced>>
  BY <1>1 DEF SetupThread, ghosts
<1>4. /\ at' \in [Instances -> Places] /\ at[i] = k /\ at'[i] = to
      /\ \A j \in Instances : j # i => at'[j] = at[j]
  BY <1>2, <1>3, Gone DEF InstInv
<1>5. /\ ThreadInv' /\ threadList' \in Seq(Threads)
      /\ thread' \in [Threads -> {"none", "new", "runs", "locks", "over"}]
  BY SetupThreadThreads DEF InstInv
<1>6. /\ k \in InUse /\ to \in InUse
      /\ to \notin {"none", "init", "gone"} \cup Closing \cup Unlisted
      /\ k \notin Closing /\ k # "ready"
  BY <1>2, KindsApart DEF InUse, Closing, Unlisted, Freed, OnWalk, Ending
<1>7. Descriptors' /\ OnceOpen'
  <2>1. \A j \in Instances :
          /\ at'[j] \in {"none", "init", "gone"} => at[j] \in {"none", "init", "gone"}
          /\ at'[j] \in InUse => at[j] \in InUse
          /\ at[j] \in Closing => at'[j] \in Closing
          /\ at'[j] \in Closing => at[j] \in Closing
    BY <1>4, <1>6
  <2> QED BY <1>3, <2>1, PortsSame DEF InstInv
<1>8. Listing'
  <2>1. \A j \in Instances : /\ at'[j] \in Unlisted => at[j] \in Unlisted
                             /\ at'[j] # "ready" => at[j] # "ready"
    BY <1>4, <1>6
  <2> QED BY <1>3, <2>1, ListingSame DEF InstInv
<1>9. Types'
  BY <1>3, <1>4, <1>5 DEF InstInv, Types, port
<1> QED BY <1>5, <1>7, <1>8, <1>9 DEF InstInv

LEMMA SetupInitKeeps ==
  ASSUME InstInv, NEW i \in Instances, NEW how \in DOMAIN Outcomes, SetupInit(i, how)
  PROVE  InstInv'
<1>1. PICK to : to = IF how = "ok" THEN NextStep(0) ELSE "init failed"
  OBVIOUS
<1>2. to \in Names \cup {"list", "init failed"} /\ to \in Places
  <2>1. 0 \in 0..Len(Order)
    BY InstancesAssumption DEF InstancesAssumption
  <2> QED BY <1>1, <2>1, NextPlace DEF Places, Starting
<1>3. Go(i, "init", to) /\ UNCHANGED <<walk, threads, xbeeList, lost, early>>
  BY <1>1 DEF SetupInit
<1>4. /\ at' \in [Instances -> Places] /\ at[i] = "init" /\ at'[i] = to
      /\ \A j \in Instances : j # i => at'[j] = at[j]
  BY <1>2, <1>3, Gone DEF InstInv
<1>5. /\ to \notin Unlisted \cup Freed \cup OnWalk /\ "init" \in Starting /\ "init" \notin OnWalk
      /\ to \in Starting \/ to \in Names \cup {"list"}
  BY <1>2, KindsApart DEF Unlisted, Freed, Starting, OnWalk, Ending
<1>6. /\ Descriptors' /\ OnceOpen'
      /\ serial' \in [Instances -> [fd : Nat \cup {Null}, stream : BOOLEAN]]
      /\ modeData' \in [Instances -> BOOLEAN]
  BY SetupInitPorts DEF InstInv
<1>8. Listing'
  <2>1. \A j \in Instances : /\ at'[j] \in Unlisted => at[j] \in Unlisted
                             /\ at'[j] # "ready" => at[j] # "ready"
    BY <1>4, <1>5
  <2> QED BY <1>3, <2>1, ListingSame DEF InstInv
<1>9. ThreadInv'
  <2>1. \A j \in Instances :
          /\ at'[j] \in Starting => at[j] \in Starting
          /\ at'[j] \in Names => at'[j] = at[j] \/ at[j] \in Starting
          /\ at'[j] = at[j] \/ (at[j] \notin OnWalk /\ at'[j] \notin OnWalk)
          /\ at'[j] \in Freed => at[j] \in Freed
    BY <1>4, <1>5
  <2> QED BY <1>3, <2>1, ThreadsSame DEF InstInv, threads, Alive, Active
<1>10. Types'
  BY <1>3, <1>4, <1>6 DEF InstInv, Types, threads
<1> QED BY <1>6, <1>8, <1>9, <1>10 DEF InstInv

LEMMA CloseKeeps ==
  ASSUME InstInv, NEW i \in Instances,
         \/ ModeShutdown(i, "init failed", "init close", "free")
         \/ ModeShutdownClose(i, "init close", "free")
         \/ ModeShutdown(i, "mode", "close", "gone")
         \/ ModeShutdownClose(i, "close", "gone")
  PROVE  InstInv'
<1>1. /\ Descriptors' /\ OnceOpen'
      /\ serial' \in [Instances -> [fd : Nat \cup {Null}, stream : BOOLEAN]]
      /\ modeData' \in [Instances -> BOOLEAN]
  BY ModeShutdownPorts, ModeShutdownClosePorts DEF InstInv
<1>2. PICK from, to : /\ <<from, to>> \in {"init failed", "init close"} \X {"init close", "free"}
                                           \cup {"mode", "close"} \X {"close", "gone"}
                      /\ Go(i, from, to)
  <2>1. CASE ModeShutdown(i, "init failed", "init close", "free")
    BY <2>1 DEF ModeShutdown
  <2>2. CASE ModeShutdownClose(i, "init close", "free")
    BY <2>2 DEF ModeShutdownClose
  <2>3. CASE ModeShutdown(i, "mode", "close", "gone")
    BY <2>3 DEF ModeShutdown
  <2>4. CASE ModeShutdownClose(i, "close", "gone")
    BY <2>4 DEF ModeShutdownClose
  <2> QED BY <2>1, <2>2, <2>3, <2>4
<1>3. UNCHANGED <<walk, threads, xbeeList, lost, early>>
  BY DEF ModeShutdown, ModeShutdownClose, ghosts
<1>4. /\ to \in Places /\ to \notin Names \cup OnWalk \cup {"ready"}
      /\ from \notin OnWalk \cup {"ready"}
      /\ to \in Starting => from \in Starting
      /\ to \in Freed => from \in Freed
      /\ to \in Unlisted => from \in Unlisted
  BY <1>2, KindsApart DEF Places, Closing, Starting, Freed, Unlisted, OnWalk, Ending
<1>5. /\ at' \in [Instances -> Places] /\ at[i] = from /\ at'[i] = to
      /\ \A j \in Instances : j # i => at'[j] = at[j]
  BY <1>2, <1>4, Gone DEF InstInv
<1>6. Listing'
  <2>1. \A j \in Instances : /\ at'[j] \in Unlisted => at[j] \in Unlisted
                             /\ at'[j] # "ready" => at[j] # "ready"
    BY <1>4, <1>5
  <2> QED BY <1>3, <2>1, ListingSame DEF InstInv
<1>7. ThreadInv'
  <2>1. \A j \in Instances :
          /\ at'[j] \in Starting => at[j] \in Starting
          /\ at'[j] \in Names => at'[j] = at[j]
          /\ at'[j] = at[j] \/ (at[j] \notin OnWalk /\ at'[j] \notin OnWalk)
          /\ at'[j] \in Freed => at[j] \in Freed
    BY <1>4, <1>5
  <2> QED BY <1>3, <2>1, ThreadsSame DEF InstInv, threads, Alive, Active
<1>8. Types'
  BY <1>1, <1>3, <1>5 DEF InstInv, Types, threads
<1> QED BY <1>1, <1>6, <1>7, <1>8 DEF InstInv

\* The steps of xbee_threadDestroyMine, from the end of the sleep before it.
LEMMA WalkKeeps ==
  ASSUME InstInv, NEW i \in Instances,
         FreeSlept(i) \/ WalkStep(i) \/ WalkKill(i) \/ WalkCheck(i) \/ WalkJoin(i)
  PROVE  InstInv'
<1>1. /\ ThreadInv' /\ threadList' \in Seq(Threads)
      /\ at' \in [Instances -> Places]
      /\ at[i] \in {"sleep"} \cup OnWalk /\ at'[i] \in OnWalk \cup {"mode"}
      /\ \A j \in Instances : j # i => at'[j] = at[j]
      /\ walk' \in [Instances -> [ref : Threads \cup {Null}, prev : Threads \cup {Null},
                                  kill : Threads \cup {Null}]]
  <2>1. CASE FreeSlept(i)
    <3>1. /\ at[i] = "sleep" /\ at' = [at EXCEPT ![i] = "walk"]
          /\ UNCHANGED <<thread, threadList, walk, lost, early>>
      BY <2>1 DEF FreeSlept, Go, threads, ghosts
    <3>2. "walk" \in OnWalk /\ "walk" \notin Ending /\ "sleep" \notin OnWalk
      BY DEF OnWalk, Ending
    <3>3. PICK w : w = NotWalking
      OBVIOUS
    <3>4. /\ w \in [ref : Threads \cup {Null}, prev : Threads \cup {Null}, kill : Threads \cup {Null}]
          /\ w.ref = Null /\ w.prev = Null /\ w.kill = Null
      BY <3>3 DEF NotWalking
    <3>5. walk[i] = w
      BY <3>1, <3>2, <3>3 DEF InstInv, ThreadInv, Walkers
    <3>6. walk' = [walk EXCEPT ![i] = w]
      BY <3>1, <3>5 DEF InstInv, Types
    <3> QED BY <3>1, <3>2, <3>4, <3>6, WalkMoves DEF InstInv, Types
  <2>2. CASE WalkStep(i)
    <3>1. threadList' = threadList
      BY <2>2 DEF WalkStep, threads
    <3> QED BY <2>2, <3>1, WalkStepThreads DEF InstInv, Types
  <2>3. CASE WalkKill(i) \/ WalkCheck(i)
    <3>1. threadList' = threadList
      BY <2>3 DEF WalkKill, WalkCheck
    <3> QED BY <2>3, <3>1, WalkEndsThreads DEF InstInv, Types
  <2>4. CASE WalkJoin(i)
    BY <2>4, WalkJoinThreads DEF InstInv
  <2> QED BY <2>1, <2>2, <2>3, <2>4
<1>2. UNCHANGED <<port, thread, xbeeList, raced>>
  BY DEF FreeSlept, WalkStep, WalkKill, WalkCheck, WalkJoin, threads, ghosts
<1>3. /\ {"sleep"} \cup OnWalk \subseteq Unlisted /\ "ready" \notin OnWalk \cup {"mode"}
      /\ (OnWalk \cup {"mode"}) \cap ({"none", "init", "gone"} \cup InUse \cup Closing) = {}
      /\ ({"sleep"} \cup OnWalk) \cap Closing = {}
  BY KindsApart DEF Unlisted, Freed, InUse, Closing, OnWalk, Ending
<1>4. Listing'
  <2>1. \A j \in Instances : /\ at'[j] \in Unlisted => at[j] \in Unlisted
                             /\ at'[j] # "ready" => at[j] # "ready"
    <3>1. "ready" \notin Unlisted
      BY DEF Unlisted, Freed, OnWalk, Ending
    <3> QED BY <1>1, <1>3, <3>1
  <2> QED BY <1>2, <2>1, ListingSame DEF InstInv
<1>5. Descriptors' /\ OnceOpen'
  <2>1. \A j \in Instances :
          /\ at'[j] \in {"none", "init", "gone"} => at[j] \in {"none", "init", "gone"}
          /\ at'[j] \in InUse => at[j] \in InUse
          /\ at[j] \in Closing => at'[j] \in Closing
          /\ at'[j] \in Closing => at[j] \in Closing
    BY <1>1, <1>3
  <2> QED BY <1>2, <2>1, PortsSame DEF InstInv
<1>6. Types'
  BY <1>1, <1>2 DEF InstInv, Types, port
<1> QED BY <1>1, <1>4, <1>5, <1>6 DEF InstInv

\* What the threads of the instances and of their connections do.
LEMMA RunKeeps ==
  ASSUME InstInv, UNCHANGED <<at, port, walk, xbeeList, raced>>, ThreadInv',
         thread' \in [Threads -> {"none", "new", "runs", "locks", "over"}],
         threadList' \in Seq(Threads)
  PROVE  InstInv'
<1>1. Types' /\ Listing'
  BY ListingSame DEF InstInv, Types, port
<1>2. Descriptors' /\ OnceOpen'
  BY PortsSame DEF InstInv
<1> QED BY <1>1, <1>2 DEF InstInv

LEMMA ThreadStepKeeps ==
  ASSUME InstInv, NEW t \in Threads, ThreadStep(t) PROVE InstInv'
<1>1. UNCHANGED <<at, port, walk, xbeeList, raced, lost, early, threadList>>
  BY DEF ThreadStep, ThreadBegins, MutexLock, MutexUnlock, ThreadEnds, ghosts
<1>2. PICK s \in {"runs", "locks", "over"} :
        thread' = [thread EXCEPT ![t] = s] /\ Alive(t)
  BY DEF ThreadStep, ThreadBegins, MutexLock, MutexUnlock, ThreadEnds, Alive, Active
<1>3. /\ thread' \in [Threads -> {"none", "new", "runs", "locks", "over"}]
      /\ thread'[t] = s /\ \A u \in Threads : u # t => thread'[u] = thread[u]
  BY <1>2 DEF InstInv, Types
<1>4. \A u \in Threads : /\ Alive(u)' => Alive(u)
                         /\ thread'[u] = "none" <=> thread[u] = "none"
                         /\ thread'[u] = "new" => thread[u] = "new"
  BY <1>2, <1>3 DEF Alive, Active
<1>5. ThreadInv'
  BY <1>1, <1>4, ThreadsSame DEF InstInv
<1>6. threadList' \in Seq(Threads)
  BY <1>1 DEF InstInv, Types
<1> QED BY <1>1, <1>3, <1>5, <1>6, RunKeeps

LEMMA CallbackKeeps ==
  ASSUME InstInv, NEW i \in Instances, Callback(i) PROVE InstInv'
<1>1. UNCHANGED <<at, port, walk, xbeeList, raced>>
  BY DEF Callback, CallbackStart, CallbackJoin, CallbackKill, ghosts
<1>2. CASE CallbackStart(i)
  BY <1>1, <1>2, CallbackStartThreads, RunKeeps DEF InstInv
<1>3. CASE CallbackJoin(i)
  BY <1>1, <1>3, CallbackJoinThreads, RunKeeps DEF InstInv
<1>4. CASE CallbackKill(i)
  <2>1. UNCHANGED <<walk, thread, threadList, lost, early>>
    BY <1>4 DEF CallbackKill, ghosts
  <2>2. ThreadInv'
    BY <1>1, <2>1, ThreadsSame DEF InstInv, Alive, Active
  <2>3. /\ thread' \in [Threads -> {"none", "new", "runs", "locks", "over"}]
        /\ threadList' \in Seq(Threads)
    BY <2>1 DEF InstInv, Types
  <2> QED BY <1>1, <2>2, <2>3, RunKeeps
<1> QED BY <1>2, <1>3, <1>4 DEF Callback

LEMMA InstStep == InstInv /\ [Next]_vars => InstInv'
<1> SUFFICES ASSUME InstInv, [Next]_vars PROVE InstInv'
  OBVIOUS
<1>1. ASSUME NEW i \in Instances, Setup(i) PROVE InstInv'
  <2>1. CASE SetupAlloc(i) \/ SetupDone(i)
    BY <2>1, ListKeeps
  <2>2. CASE InitFailed(i)
    BY <2>2, CloseKeeps DEF InitFailed
  <2>3. ASSUME NEW how \in DOMAIN Outcomes, SetupInit(i, how) PROVE InstInv'
    BY <2>3, SetupInitKeeps
  <2>4. ASSUME NEW n \in DOMAIN Order, SetupThread(i, n) PROVE InstInv'
    BY <2>4, StartKeeps
  <2>5. ASSUME NEW n \in DOMAIN Order, SetupThreadFails(i, n) PROVE InstInv'
    BY <2>5, StartFailsKeeps
  <2> QED BY <1>1, <2>1, <2>2, <2>3, <2>4, <2>5 DEF Setup
<1>2. ASSUME NEW i \in Instances, Shutdown(i) PROVE InstInv'
  BY <1>2, UnlistKeeps
<1>3. ASSUME NEW i \in Instances, Free(i) PROVE InstInv'
  <2>1. CASE FreeBegin(i)
    BY <2>1, UnlistKeeps
  <2>2. CASE FreeSlept(i) \/ WalkStep(i) \/ WalkKill(i) \/ WalkCheck(i) \/ WalkJoin(i)
    BY <2>2, WalkKeeps
  <2>3. CASE \/ ModeShutdown(i, "mode", "close", "gone")
             \/ ModeShutdownClose(i, "close", "gone")
    BY <2>3, CloseKeeps
  <2> QED BY <1>3, <2>1, <2>2, <2>3 DEF Free
<1>4. ASSUME NEW i \in Instances, Callback(i) PROVE InstInv'
  BY <1>4, CallbackKeeps
<1>5. ASSUME NEW t \in Threads, ThreadStep(t) PROVE InstInv'
  BY <1>5, ThreadStepKeeps
<1>6. CASE UNCHANGED vars
  <2>1. UNCHANGED <<at, port, walk, thread, threadList, xbeeList, raced, lost, early>>
    BY <1>6 DEF vars, threads, ghosts
  <2>2. ThreadInv'
    BY <2>1, ThreadsSame DEF InstInv, Alive, Active
  <2> QED BY <2>1, <2>2, RunKeeps DEF InstInv, Types
<1> QED BY <1>1, <1>2, <1>3, <1>4, <1>5, <1>6 DEF Next

LEMMA InstAlways == Spec => []InstInv
BY InstInit, InstStep, PTL DEF Spec

-----------------------------------------------------------------------------
(***************************************************************************)
(* What the instances promise.                                              *)
(***************************************************************************)
\* NothingLeftBehind: when xbee_free comes to its end, after xbee_shutdown or
\* after a setup that failed at any step, no list of valid instances names the
\* instance, the kernel has no port open for it, and no thread of its own runs
\* on, however many instances are set up and freed meanwhile and however often
\* callback threads come and go in the registry the walk goes through; unless
\* the walk lost its place, because a thread it remembered was joined and freed
\* by somebody else, or came to a thread that had not begun to run.
THEOREM FreedLeavesNothing == Spec => []NothingLeftBehind
<1>1. InstInv => NothingLeftBehind
  <2> SUFFICES ASSUME InstInv, NEW i \in Instances, at[i] = "gone"
               PROVE  /\ i \notin ToSet(xbeeList)
                      /\ \A fd \in DOMAIN ports : ports[fd] # i
                      /\ (\E k \in Kinds : Alive(<<i, k>>)) => i \in lost \cup early
    BY DEF NothingLeftBehind
  <2>1. at[i] \in Unlisted /\ at[i] \in Freed
    BY DEF Unlisted, Freed
  <2>2. i \notin ToSet(xbeeList)
    <3>1. Never(xbeeList, i) /\ DOMAIN xbeeList = 1..Len(xbeeList)
      BY <2>1 DEF InstInv, Types, Listing
    <3> QED BY <3>1 DEF Never, ToSet
  <2>3. \A fd \in DOMAIN ports : ports[fd] # i
    BY DEF InstInv, Descriptors
  <2>4. (\E k \in Kinds : Alive(<<i, k>>)) => i \in lost \cup early
    BY <2>1 DEF InstInv, ThreadInv, Walks
  <2> QED BY <2>2, <2>3, <2>4
<1> QED BY <1>1, InstAlways, PTL

\* PortsStayOpen: from its mode's init until its shutdown begins to free it, an
\* instance's serial port is a descriptor the kernel holds for it and for no
\* other, unless a port was opened between the fclose and the close of another
\* instance's.
THEOREM UsedPortsStayOpen == Spec => []PortsStayOpen
<1>1. InstInv => PortsStayOpen
  <2> SUFFICES ASSUME InstInv, NEW i \in Instances, at[i] \in InUse, "port" \notin raced
               PROVE  Owns(i)
    BY DEF PortsStayOpen, Owns, InUse, Names
  <2>1. modeData[i] /\ serial[i].stream
    BY DEF InstInv, Descriptors
  <2> QED BY <2>1 DEF InstInv, OnceOpen
<1> QED BY <1>1, InstAlways, PTL
=============================================================================
