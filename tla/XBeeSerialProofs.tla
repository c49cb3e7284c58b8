-------------------------- MODULE XBeeSerialProofs --------------------------
(***************************************************************************)
(* The lists of ll.c, the registry of packets kept in one, and the reader.  *)
(*                                                                          *)
(* The argument goes from the links to the sequence.  A list is a chain     *)
(* (Chain) when the nodes p it has allocated are linked in this order both  *)
(* ways and hold the items s.  Then the walks from its ends meet p, the     *)
(* search finds the item's node, and a node put between two neighbours, or  *)
(* taken out, leaves the chain of p and s with an element more, or less.    *)
(*                                                                          *)
(* The reader is in step when the bytes under way lead it to the end of the *)
(* frames due (InStep).  A place is a frame d, a number j of its bytes read *)
(* and whether an escape is open; a way gives the place after every byte.   *)
(* A chunk follows the way for as many bytes of its frame as it asked for,  *)
(* however many of them are escaped, and the next starts where it must.     *)
(***************************************************************************)
EXTENDS XBeeSerial, FiniteSetTheorems, SequenceTheorems, WellFoundedInduction, TLAPS

-----------------------------------------------------------------------------
(***************************************************************************)
(* Least elements, and induction over the numbers up to n.                  *)
(***************************************************************************)
\* Every set of naturals but the empty one has a least.
LEMMA Least ==
  ASSUME NEW S, S \subseteq Nat, S # {}
  PROVE  \E i \in S : \A j \in S : i <= j
<1>1. PICK i \in S : \A j \in S : <<j, i>> \notin OpToRel(<, Nat)
  BY WFMin, NatLessThanWellFounded, Zenon
<1>2. \A j \in S : ~(j < i)
  BY <1>1 DEF OpToRel
<1>3. \A j \in S : i <= j
  BY <1>2
<1> QED BY <1>3

\* Min is the least.
LEMMA MinIsLeast ==
  ASSUME NEW S, S \subseteq Nat, S # {}
  PROVE  Min(S) \in S /\ \A j \in S : Min(S) <= j
<1>1. \E i \in S : \A j \in S : i <= j
  BY Least
<1> QED BY <1>1 DEF Min

\* Induction over the steps 0..n, the good ones being a set.
LEMMA Induction ==
  ASSUME NEW n \in Nat, NEW Good, 0 \in Good,
         \A i \in 1..n : i - 1 \in Good => i \in Good
  PROVE  \A i \in 0..n : i \in Good
<1> DEFINE Bad == {i \in 0..n : i \notin Good}
<1>1. \A i \in Bad : i \in Nat /\ i \in 0..n /\ i \notin Good
  OBVIOUS
<1>2. SUFFICES ASSUME Bad # {} PROVE FALSE
  <2>1. \A i \in 0..n : i \notin Good => i \in Bad
    OBVIOUS
  <2> QED BY <2>1
<1>3. PICK m \in Bad : \A k \in Bad : m <= k
  BY <1>1, <1>2, Least, Bad \subseteq Nat
<1>4. m \in 1..n /\ m \notin Good
  <2>1. m # 0
    BY <1>1
  <2> QED BY <1>1, <2>1
<1>5. m - 1 \notin Bad
  BY <1>3, <1>4
<1>6. m - 1 \in Good
  BY <1>4, <1>5
<1> QED BY <1>4, <1>6

\* The node at position i of the chain p; NULL before its first and behind its
\* last.
Node(p, i) == IF i \in 1..Len(p) THEN p[i] ELSE 0

\* The nodes of list l are those of p, linked in this order both ways, and hold
\* the items s.
Chain(l, p, s) ==
  /\ p \in Seq(Nat \ {0}) /\ Len(s) = Len(p)
  /\ \A i, j \in 1..Len(p) : p[i] = p[j] => i = j
  /\ l = [head |-> Node(p, 1), tail |-> Node(p, Len(p)), node |-> l.node]
  /\ DOMAIN l.node = {p[i] : i \in 1..Len(p)}
  /\ \A i \in 1..Len(p) :
       l.node[p[i]] = [next |-> Node(p, i + 1), prev |-> Node(p, i - 1), item |-> s[i]]

\* What the fields of a chain's nodes are.
LEMMA ChainParts ==
  ASSUME NEW l, NEW p, NEW s, Chain(l, p, s)
  PROVE  /\ Len(p) \in Nat /\ Len(s) = Len(p)
         /\ l.head = Node(p, 1) /\ l.tail = Node(p, Len(p))
         /\ \A i \in 1..Len(p) : /\ p[i] \in Nat /\ p[i] # 0 /\ p[i] \in DOMAIN l.node
                                 /\ Node(p, i) = p[i]
                                 /\ l.node[p[i]].next = Node(p, i + 1)
                                 /\ l.node[p[i]].prev = Node(p, i - 1)
                                 /\ l.node[p[i]].item = s[i]
         /\ \A k \in DOMAIN l.node : \E i \in 1..Len(p) : k = p[i]
         /\ 0 \notin DOMAIN l.node
<1>1. /\ p \in Seq(Nat \ {0}) /\ Len(s) = Len(p)
      /\ l = [head |-> Node(p, 1), tail |-> Node(p, Len(p)), node |-> l.node]
      /\ DOMAIN l.node = {p[i] : i \in 1..Len(p)}
      /\ \A i \in 1..Len(p) :
           l.node[p[i]] = [next |-> Node(p, i + 1), prev |-> Node(p, i - 1), item |-> s[i]]
  BY DEF Chain
<1>2. \A i \in 1..Len(p) : p[i] \in Nat /\ p[i] # 0
  BY <1>1
<1>3. l.head = Node(p, 1) /\ l.tail = Node(p, Len(p))
  BY <1>1
<1>4. \A i \in 1..Len(p) : Node(p, i) = p[i]
  BY DEF Node
<1>5. Len(p) \in Nat
  BY <1>1
<1>6. ASSUME NEW i \in 1..Len(p)
      PROVE  /\ p[i] \in DOMAIN l.node
             /\ l.node[p[i]].next = Node(p, i + 1)
             /\ l.node[p[i]].prev = Node(p, i - 1)
             /\ l.node[p[i]].item = s[i]
  <2>1. p[i] \in DOMAIN l.node
    BY <1>1
  <2>2. l.node[p[i]] = [next |-> Node(p, i + 1), prev |-> Node(p, i - 1), item |-> s[i]]
    BY <1>1
  <2> HIDE DEF Node
  <2> QED BY <2>1, <2>2
<1>7. \A k \in DOMAIN l.node : \E i \in 1..Len(p) : k = p[i]
  BY <1>1
<1>8. 0 \notin DOMAIN l.node
  BY <1>2, <1>7
<1> QED BY <1>1, <1>2, <1>3, <1>4, <1>5, <1>6, <1>7, <1>8, Zenon

\* The node at a position of the chain.
LEMMA AtPosition ==
  ASSUME NEW l, NEW p, NEW s, Chain(l, p, s), NEW i \in 1..Len(p)
  PROVE  /\ p[i] # 0 /\ p[i] \in DOMAIN l.node /\ Node(p, i) = p[i]
         /\ l.node[p[i]].next = Node(p, i + 1)
         /\ l.node[p[i]].prev = Node(p, i - 1)
         /\ l.node[p[i]].item = s[i]
<1>1. /\ p \in Seq(Nat \ {0})
      /\ DOMAIN l.node = {p[k] : k \in 1..Len(p)}
      /\ \A k \in 1..Len(p) :
           l.node[p[k]] = [next |-> Node(p, k + 1), prev |-> Node(p, k - 1), item |-> s[k]]
  BY DEF Chain
<1>2. p[i] # 0
  BY <1>1
<1>3. p[i] \in DOMAIN l.node
  BY <1>1
<1>4. Node(p, i) = p[i]
  BY DEF Node
<1>5. l.node[p[i]] = [next |-> Node(p, i + 1), prev |-> Node(p, i - 1), item |-> s[i]]
  BY <1>1
<1> QED BY <1>2, <1>3, <1>4, <1>5

\* A chain has as many nodes as positions.
LEMMA Counted ==
  ASSUME NEW l, NEW p, NEW s, Chain(l, p, s)
  PROVE  IsFiniteSet(DOMAIN l.node) /\ Cardinality(DOMAIN l.node) = Len(p)
<1> DEFINE n == Len(p)
           D == DOMAIN l.node
<1>1. /\ p \in [1..n -> D] /\ n \in Nat
      /\ \A i, j \in 1..n : p[i] = p[j] => i = j
      /\ \A k \in D : \E i \in 1..n : p[i] = k
  BY DEF Chain
<1>2. p \in Bijection(1..n, D)
  BY <1>1 DEF Bijection, Injection, Surjection, IsInjective
<1>3. ExistsBijection(1..n, D)
  BY <1>2 DEF ExistsBijection
<1>4. IsFiniteSet(1..n) /\ n \in Nat
  BY <1>1, FS_Interval
<1>5. IsFiniteSet(D)
  BY <1>3, <1>4, FS_Bijection
<1>6. Cardinality(D) = n
  BY <1>1, <1>3, FS_CountingElements
<1> QED BY <1>5, <1>6

\* calloc gives an address of none of the nodes, and never NULL.
LEMMA FreshIsNew ==
  ASSUME NEW l, NEW p, NEW s, Chain(l, p, s)
  PROVE  Fresh(l) \in Nat \ {0} /\ Fresh(l) \notin DOMAIN l.node
<1> DEFINE n == Len(p)
           D == DOMAIN l.node
           S == 1..(n + 1)
<1>1. n \in Nat /\ IsFiniteSet(D) /\ Cardinality(D) = n
  BY Counted, ChainParts
<1>2. Cardinality(S) = n + 1
  <2>1. 1 \in Int /\ n + 1 \in Int /\ ~(1 > n + 1) /\ (n + 1) - 1 + 1 = n + 1
    BY <1>1
  <2> QED BY <2>1, FS_Interval
<1>3. S \ D # {}
  <2>1. SUFFICES ASSUME S \subseteq D PROVE FALSE
    OBVIOUS
  <2>2. Cardinality(S) <= Cardinality(D)
    BY <1>1, <2>1, FS_Subset
  <2> QED BY <1>1, <1>2, <2>2
<1>4. S \ D \subseteq Nat
  BY <1>1
<1>5. Min(S \ D) \in S \ D
  BY <1>3, <1>4, MinIsLeast
<1>6. Fresh(l) = Min(S \ D)
  BY <1>1 DEF Fresh
<1> QED BY <1>1, <1>5, <1>6

-----------------------------------------------------------------------------
\* Walk's function is what its rule says, once a function that follows the rule
\* is at hand.
LEMMA WalkIs ==
  ASSUME NEW l, NEW first, NEW field, NEW n \in Nat, Cardinality(DOMAIN l.node) = n,
         NEW h, h = [i \in 0..n |-> h[i]], h[0] = first,
         \A i \in 1..n : h[i] = IF h[i-1] \notin DOMAIN l.node THEN 0
                                ELSE l.node[h[i-1]][field]
  PROVE  Walk(l, first, field) = h
<1> DEFINE D == DOMAIN l.node
           Hop(g, i) == IF i = 0 THEN first
                        ELSE IF g[i-1] \notin D THEN 0 ELSE l.node[g[i-1]][field]
           Rule(g) == g = [i \in 0..n |-> Hop(g, i)]
           hop == CHOOSE g : Rule(g)
<1>1. Walk(l, first, field) = hop
  BY Zenon DEF Walk
<1>2. Rule(h)
  <2>1. ASSUME NEW i \in 0..n PROVE h[i] = Hop(h, i)
    <3>1. CASE i = 0
      BY <3>1
    <3>2. CASE i # 0
      <4>1. i \in 1..n
        BY <3>2
      <4> QED BY <3>2, <4>1
    <3> QED BY <3>1, <3>2
  <2> HIDE DEF Hop
  <2> QED BY <2>1
<1>3. Rule(hop)
  BY <1>2, Zenon
<1> HIDE DEF hop
<1>4. hop[0] = first /\ \A i \in 1..n : hop[i] = IF hop[i-1] \notin D THEN 0
                                               ELSE l.node[hop[i-1]][field]
  <2>1. \A i \in 0..n : hop[i] = Hop(hop, i)
    BY <1>3
  <2> QED BY <2>1
<1> DEFINE Good == {i \in 0..n : hop[i] = h[i]}
<1>5. 0 \in Good
  BY <1>4
<1>6. ASSUME NEW i \in 1..n, i - 1 \in Good PROVE i \in Good
  <2>1. hop[i - 1] = h[i - 1]
    BY <1>6
  <2>2. hop[i] = h[i]
    BY <1>4, <2>1
  <2> QED BY <2>2
<1>7. \A i \in 0..n : i \in Good
  <2> HIDE DEF Good
  <2> QED BY <1>5, <1>6, Induction
<1>8. \A i \in 0..n : hop[i] = h[i]
  BY <1>7
<1>9. hop = [i \in 0..n |-> hop[i]]
  BY <1>3
<1> QED BY <1>1, <1>8, <1>9

\* The walk forwards meets the nodes in order, then NULL.
LEMMA Forwards ==
  ASSUME NEW l, NEW p, NEW s, Chain(l, p, s)
  PROVE  Walk(l, l.head, "next") = [i \in 0..Len(p) |-> Node(p, i + 1)]
<1> DEFINE n == Len(p)
           h == [i \in 0..n |-> Node(p, i + 1)]
<1>1. n \in Nat /\ Cardinality(DOMAIN l.node) = n
  BY Counted, ChainParts
<1>2. h[0] = l.head
  BY <1>1, ChainParts
<1>3. ASSUME NEW i \in 1..n
      PROVE h[i] = IF h[i-1] \notin DOMAIN l.node THEN 0 ELSE l.node[h[i-1]]["next"]
  <2>1. h[i - 1] = Node(p, i) /\ h[i] = Node(p, i + 1)
    <3>1. i - 1 \in 0..n /\ i \in 0..n /\ (i - 1) + 1 = i
      BY <1>1
    <3> QED BY <3>1
  <2>2. Node(p, i) = p[i] /\ p[i] \in DOMAIN l.node /\ l.node[p[i]].next = Node(p, i + 1)
    BY AtPosition
  <2> QED BY <2>1, <2>2
<1>4. h = [i \in 0..n |-> h[i]]
  OBVIOUS
<1> HIDE DEF h
<1>5. Walk(l, l.head, "next") = h
  BY <1>1, <1>2, <1>3, <1>4, WalkIs
<1> QED BY <1>5 DEF h

\* The walk backwards meets them in the other order.
LEMMA Backwards ==
  ASSUME NEW l, NEW p, NEW s, Chain(l, p, s)
  PROVE  Walk(l, l.tail, "prev") = [i \in 0..Len(p) |-> Node(p, Len(p) - i)]
<1> DEFINE n == Len(p)
           h == [i \in 0..n |-> Node(p, n - i)]
<1>1. n \in Nat /\ Cardinality(DOMAIN l.node) = n
  BY Counted, ChainParts
<1>2. h[0] = l.tail
  BY <1>1, ChainParts
<1>3. ASSUME NEW i \in 1..n
      PROVE h[i] = IF h[i-1] \notin DOMAIN l.node THEN 0 ELSE l.node[h[i-1]]["prev"]
  <2> DEFINE k == n - (i - 1)
  <2>1. h[i - 1] = Node(p, k) /\ h[i] = Node(p, k - 1) /\ k \in 1..n
    <3>1. i - 1 \in 0..n /\ i \in 0..n /\ k - 1 = n - i /\ k \in 1..n
      BY <1>1
    <3> QED BY <3>1
  <2>2. Node(p, k) = p[k] /\ p[k] \in DOMAIN l.node /\ l.node[p[k]].prev = Node(p, k - 1)
    BY <2>1, ChainParts
  <2> QED BY <2>1, <2>2
<1>4. h = [i \in 0..n |-> h[i]]
  OBVIOUS
<1> HIDE DEF h
<1>5. Walk(l, l.tail, "prev") = h
  BY <1>1, <1>2, <1>3, <1>4, WalkIs
<1> QED BY <1>5 DEF h

\* The items in their order.
LEMMA ItemsInOrder ==
  ASSUME NEW l, NEW p, NEW S, NEW s \in Seq(S), Chain(l, p, s)
  PROVE  /\ CountItems(l) = Len(s) /\ Items(l) = s
         /\ \A i \in 0..Len(s) : NodeAt(l, i) = Node(p, i + 1)
<1> DEFINE n == Len(p)
           hop == Walk(l, l.head, "next")
<1>1. n \in Nat /\ Len(s) = n /\ DOMAIN s = 1..n
  BY ChainParts
<1>2. hop = [i \in 0..n |-> Node(p, i + 1)]
  BY Forwards
<1>3. {i \in DOMAIN hop : hop[i] # 0} = 0..(n - 1)
  <2>1. ASSUME NEW i \in 0..n PROVE hop[i] # 0 <=> i \in 0..(n - 1)
    <3>1. CASE i \in 0..(n - 1)
      <4>1. i + 1 \in 1..n
        BY <1>1, <3>1
      <4> QED BY <1>2, <3>1, <4>1, ChainParts
    <3>2. CASE i \notin 0..(n - 1)
      <4>1. i + 1 \notin 1..n
        BY <1>1, <3>2
      <4> QED BY <1>2, <3>2, <4>1 DEF Node
    <3> QED BY <3>1, <3>2
  <2>2. 0..(n - 1) \subseteq 0..n /\ DOMAIN hop = 0..n
    BY <1>1, <1>2
  <2> HIDE DEF hop
  <2> QED BY <2>1, <2>2
<1>4. Cardinality(0..(n - 1)) = n
  <2>1. 0 \in Int /\ n - 1 \in Int /\ (0 > n - 1 => n = 0) /\ (n - 1) - 0 + 1 = n
    BY <1>1
  <2> QED BY <2>1, FS_Interval
<1>5. CountItems(l) = n
  BY <1>3, <1>4 DEF CountItems
<1>6. \A i \in 0..n : NodeAt(l, i) = Node(p, i + 1)
  BY <1>2 DEF NodeAt
<1>7. ASSUME NEW i \in 1..n PROVE l.node[NodeAt(l, i - 1)].item = s[i]
  <2>1. i - 1 \in 0..n /\ (i - 1) + 1 = i
    BY <1>1
  <2>2. NodeAt(l, i - 1) = Node(p, i)
    BY <1>6, <2>1
  <2>3. Node(p, i) = p[i] /\ l.node[p[i]].item = s[i]
    BY AtPosition
  <2> QED BY <2>2, <2>3
<1>8. Items(l) = [i \in 1..n |-> s[i]]
  BY <1>5, <1>7 DEF Items
<1>9. s = [i \in 1..n |-> s[i]]
  BY <1>1
<1> QED BY <1>1, <1>5, <1>6, <1>8, <1>9

\* A chain is what IsList asks for.
LEMMA ChainIsList ==
  ASSUME NEW l, NEW p, NEW S, NEW s \in Seq(S), Chain(l, p, s)
  PROVE  IsList(l, s)
<1> DEFINE n == Len(p)
           back == Walk(l, l.tail, "prev")
<1>1. n \in Nat /\ Len(s) = n /\ DOMAIN s = 1..n
  BY ChainParts
<1>2. back = [i \in 0..n |-> Node(p, n - i)]
  BY Backwards
<1>3. Items(l) = s /\ Cardinality(DOMAIN l.node) = n
  BY ItemsInOrder, Counted
<1>4. back[n] = 0
  <2>1. n \in 0..n /\ n - n = 0 /\ 0 \notin 1..n
    BY <1>1
  <2>2. back[n] = Node(p, 0)
    BY <1>2, <2>1
  <2> QED BY <2>1, <2>2 DEF Node
<1>5. s = <<>> => l.head = 0
  <2>1. s = <<>> => n = 0
    BY <1>1
  <2>2. l.head = Node(p, 1)
    BY ChainParts
  <2> QED BY <2>1, <2>2 DEF Node
<1>6. ASSUME NEW i \in 1..n
      PROVE  back[n - i] \in DOMAIN l.node /\ l.node[back[n - i]].item = s[i]
  <2>1. n - i \in 0..n /\ n - (n - i) = i
    BY <1>1
  <2>2. back[n - i] = Node(p, i)
    BY <1>2, <2>1
  <2>3. Node(p, i) \in DOMAIN l.node /\ l.node[Node(p, i)].item = s[i]
    BY AtPosition
  <2> HIDE DEF back
  <2> QED BY <2>2, <2>3
<1> HIDE DEF back
<1> QED BY <1>1, <1>3, <1>4, <1>5, <1>6 DEF IsList, back

\* The elements of two sequences joined.
LEMMA Joined ==
  ASSUME NEW S, NEW s \in Seq(S), NEW t \in Seq(S)
  PROVE  /\ s \o t \in Seq(S) /\ Len(s \o t) = Len(s) + Len(t)
         /\ \A j \in 1..Len(s) : (s \o t)[j] = s[j]
         /\ \A j \in 1..Len(t) : (s \o t)[Len(s) + j] = t[j]
OBVIOUS

\* InsertAt, position by position.
LEMMA Inserted ==
  ASSUME NEW S, NEW s \in Seq(S), NEW x \in S, NEW k \in 1..(Len(s) + 1)
  PROVE  /\ InsertAt(s, k, x) \in Seq(S) /\ Len(InsertAt(s, k, x)) = Len(s) + 1
         /\ \A i \in 1..(Len(s) + 1) :
              InsertAt(s, k, x)[i] = IF i < k THEN s[i] ELSE IF i = k THEN x ELSE s[i - 1]
<1> DEFINE n == Len(s)
           u == SubSeq(s, 1, k - 1)
           v == SubSeq(s, k, n)
           w == u \o <<x>>
<1>1. n \in Nat /\ k \in Nat /\ k >= 1 /\ k <= n + 1
  OBVIOUS
<1>2. /\ u \in Seq(S) /\ Len(u) = k - 1 /\ \A i \in 1..(k - 1) : u[i] = s[i]
  BY <1>1
<1>3. /\ v \in Seq(S) /\ Len(v) = n + 1 - k /\ \A i \in 1..(n + 1 - k) : v[i] = s[k + i - 1]
  BY <1>1
<1> HIDE DEF u, v
<1>4. w \in Seq(S) /\ Len(w) = k /\ (\A i \in 1..(k - 1) : w[i] = s[i]) /\ w[k] = x
  BY <1>1, <1>2
<1> HIDE DEF w
<1>5. InsertAt(s, k, x) = w \o v
  BY DEF InsertAt, w, u, v
<1>6. w \o v \in Seq(S) /\ Len(w \o v) = n + 1
  <2>1. w \o v \in Seq(S) /\ Len(w \o v) = Len(w) + Len(v)
    BY <1>3, <1>4, Joined
  <2>2. k + (n + 1 - k) = n + 1
    BY <1>1
  <2> QED BY <1>3, <1>4, <2>1, <2>2
<1>7. ASSUME NEW i \in 1..(n + 1)
      PROVE (w \o v)[i] = IF i < k THEN s[i] ELSE IF i = k THEN x ELSE s[i - 1]
  <2>1. CASE i <= k
    BY <1>1, <1>3, <1>4, <2>1
  <2>2. CASE i > k
    <3>1. (w \o v)[i] = v[i - k] /\ i - k \in 1..(n + 1 - k) /\ k + (i - k) - 1 = i - 1
      BY <1>1, <1>3, <1>4, <2>2
    <3> QED BY <1>1, <1>3, <2>2, <3>1
  <2>3. i <= k \/ i > k
    BY <1>1
  <2> QED BY <2>1, <2>2, <2>3
<1> QED BY <1>5, <1>6, <1>7

\* RemoveAt, position by position.
LEMMA Removed ==
  ASSUME NEW S, NEW s \in Seq(S), NEW k \in 1..Len(s)
  PROVE  /\ RemoveAt(s, k) \in Seq(S) /\ Len(RemoveAt(s, k)) = Len(s) - 1
         /\ \A i \in 1..(Len(s) - 1) : RemoveAt(s, k)[i] = IF i < k THEN s[i] ELSE s[i + 1]
<1> DEFINE n == Len(s)
           u == SubSeq(s, 1, k - 1)
           v == SubSeq(s, k + 1, n)
<1>1. n \in Nat /\ k \in Nat /\ k >= 1 /\ k <= n
  OBVIOUS
<1>2. /\ u \in Seq(S) /\ Len(u) = k - 1 /\ \A i \in 1..(k - 1) : u[i] = s[i]
  BY <1>1
<1>3. /\ v \in Seq(S) /\ Len(v) = n - k /\ \A i \in 1..(n - k) : v[i] = s[k + i]
  BY <1>1
<1> HIDE DEF u, v
<1>5. RemoveAt(s, k) = u \o v
  BY DEF RemoveAt, u, v
<1>6. u \o v \in Seq(S) /\ Len(u \o v) = n - 1
  <2>1. u \o v \in Seq(S) /\ Len(u \o v) = Len(u) + Len(v)
    BY <1>2, <1>3, Joined
  <2>2. (k - 1) + (n - k) = n - 1
    BY <1>1
  <2> QED BY <1>2, <1>3, <2>1, <2>2
<1>7. ASSUME NEW i \in 1..(n - 1)
      PROVE (u \o v)[i] = IF i < k THEN s[i] ELSE s[i + 1]
  <2>1. CASE i < k
    BY <1>1, <1>2, <1>3, <2>1
  <2>2. CASE i >= k
    <3>1. (u \o v)[i] = v[i - (k - 1)] /\ i - (k - 1) \in 1..(n - k) /\ k + (i - (k - 1)) = i + 1
      BY <1>1, <1>2, <1>3, <2>2
    <3>2. v[i - (k - 1)] = s[k + (i - (k - 1))]
      BY <1>3, <3>1
    <3>3. ~(i < k)
      BY <1>1, <2>2
    <3> QED BY <3>1, <3>2, <3>3
  <2>3. i < k \/ i >= k
    BY <1>1
  <2> QED BY <2>1, <2>2, <2>3
<1> QED BY <1>5, <1>6, <1>7

\* The nodes of a chain with a node more.
LEMMA NodeInserted ==
  ASSUME NEW S, NEW p \in Seq(S), NEW t \in S, NEW k \in 1..(Len(p) + 1), NEW i \in Int
  PROVE  Node(InsertAt(p, k, t), i) =
           IF i < k THEN Node(p, i) ELSE IF i = k THEN t ELSE Node(p, i - 1)
<1> DEFINE q == InsertAt(p, k, t)
           n == Len(p)
<1>0. SUFFICES Node(q, i) = IF i < k THEN Node(p, i) ELSE IF i = k THEN t ELSE Node(p, i - 1)
  OBVIOUS
<1>1. n \in Nat /\ k \in Nat /\ k >= 1 /\ k <= n + 1 /\ Len(q) = n + 1
      /\ \A j \in 1..(n + 1) : q[j] = IF j < k THEN p[j] ELSE IF j = k THEN t ELSE p[j - 1]
  BY Inserted
<1> HIDE DEF q
<1>2. CASE i < k
  <2>1. i \in 1..(n + 1) <=> i \in 1..n
    BY <1>1, <1>2
  <2>2. i \in 1..(n + 1) => q[i] = p[i]
    BY <1>1, <1>2
  <2> QED BY <1>1, <1>2, <2>1, <2>2 DEF Node
<1>3. CASE i = k
  BY <1>1, <1>3 DEF Node
<1>4. CASE i > k
  <2>1. i \in 1..(n + 1) <=> i - 1 \in 1..n
    BY <1>1, <1>4
  <2>2. i \in 1..(n + 1) => q[i] = p[i - 1]
    BY <1>1, <1>4
  <2> QED BY <1>1, <1>4, <2>1, <2>2 DEF Node
<1>5. k \in Int
  OBVIOUS
<1>6. i < k \/ i = k \/ i > k
  BY <1>5
<1> QED BY <1>2, <1>3, <1>4, <1>6

\* The nodes of a chain with a node less.
LEMMA NodeRemoved ==
  ASSUME NEW S, NEW p \in Seq(S), NEW k \in 1..Len(p), NEW i \in Int
  PROVE  Node(RemoveAt(p, k), i) = IF i < k THEN Node(p, i) ELSE Node(p, i + 1)
<1> DEFINE q == RemoveAt(p, k)
           n == Len(p)
<1>0. SUFFICES Node(q, i) = IF i < k THEN Node(p, i) ELSE Node(p, i + 1)
  OBVIOUS
<1>1. n \in Nat /\ k \in Nat /\ k >= 1 /\ k <= n /\ Len(q) = n - 1
      /\ \A j \in 1..(n - 1) : q[j] = IF j < k THEN p[j] ELSE p[j + 1]
  BY Removed
<1> HIDE DEF q
<1>2. CASE i < k
  <2>1. i \in 1..(n - 1) <=> i \in 1..n
    BY <1>1, <1>2
  <2>2. i \in 1..(n - 1) => q[i] = p[i]
    BY <1>1, <1>2
  <2> QED BY <1>1, <1>2, <2>1, <2>2 DEF Node
<1>4. CASE i >= k
  <2>1. i \in 1..(n - 1) <=> i + 1 \in 1..n
    BY <1>1, <1>4
  <2>2. i \in 1..(n - 1) => q[i] = p[i + 1]
    BY <1>1, <1>4
  <2> QED BY <1>1, <1>4, <2>1, <2>2 DEF Node
<1>5. k \in Int
  OBVIOUS
<1>6. i < k \/ i >= k
  BY <1>5
<1> QED BY <1>2, <1>4, <1>6

\* A node's links.
\* Every node is a record of its two links and its item.
NodesOf(node) == \A j \in DOMAIN node :
   node[j] = [next |-> node[j].next, prev |-> node[j].prev, item |-> node[j].item]

\* One link changed: every other field stays.
LEMMA LinkNext ==
  ASSUME NEW node, NodesOf(node), 0 \notin DOMAIN node, NEW n, n = 0 \/ n \in DOMAIN node, NEW to
  PROVE  LET linked == Link(node, n, "next", to)
         IN  /\ DOMAIN linked = DOMAIN node
             /\ \A j \in DOMAIN node :
                  linked[j] = [next |-> IF j = n THEN to ELSE node[j].next,
                               prev |-> node[j].prev, item |-> node[j].item]
<1>1. CASE n = 0
  <2>1. Link(node, n, "next", to) = node
    BY <1>1 DEF Link
  <2>2. \A j \in DOMAIN node : j # n
    BY <1>1
  <2> QED BY <2>1, <2>2 DEF NodesOf
<1>2. CASE n # 0
  <2>1. Link(node, n, "next", to) = [node EXCEPT ![n] = [node[n] EXCEPT !["next"] = to]]
    BY <1>2 DEF Link
  <2>2. node[n] = [next |-> node[n].next, prev |-> node[n].prev, item |-> node[n].item]
    BY <1>2 DEF NodesOf
  <2>3. [node[n] EXCEPT !["next"] = to] = [next |-> to, prev |-> node[n].prev, item |-> node[n].item]
    BY <2>2
  <2> QED BY <1>2, <2>1, <2>3 DEF NodesOf
<1> QED BY <1>1, <1>2

\* The same for the way back.
LEMMA LinkPrev ==
  ASSUME NEW node, NodesOf(node), 0 \notin DOMAIN node, NEW n, n = 0 \/ n \in DOMAIN node, NEW to
  PROVE  LET linked == Link(node, n, "prev", to)
         IN  /\ DOMAIN linked = DOMAIN node
             /\ \A j \in DOMAIN node :
                  linked[j] = [next |-> node[j].next, prev |-> IF j = n THEN to ELSE node[j].prev,
                               item |-> node[j].item]
<1>1. CASE n = 0
  <2>1. Link(node, n, "prev", to) = node
    BY <1>1 DEF Link
  <2>2. \A j \in DOMAIN node : j # n
    BY <1>1
  <2> QED BY <2>1, <2>2 DEF NodesOf
<1>2. CASE n # 0
  <2>1. Link(node, n, "prev", to) = [node EXCEPT ![n] = [node[n] EXCEPT !["prev"] = to]]
    BY <1>2 DEF Link
  <2>2. node[n] = [next |-> node[n].next, prev |-> node[n].prev, item |-> node[n].item]
    BY <1>2 DEF NodesOf
  <2>3. [node[n] EXCEPT !["prev"] = to] = [next |-> node[n].next, prev |-> to, item |-> node[n].item]
    BY <2>2
  <2> QED BY <1>2, <2>1, <2>3 DEF NodesOf
<1> QED BY <1>1, <1>2

\* Both links of a gap in the list, or around a node.
LEMMA Relinked ==
  ASSUME NEW node, NodesOf(node), 0 \notin DOMAIN node,
         NEW before, before = 0 \/ before \in DOMAIN node,
         NEW after, after = 0 \/ after \in DOMAIN node, NEW to, NEW back
  PROVE  LET linked == Link(Link(node, before, "next", to), after, "prev", back)
         IN  /\ DOMAIN linked = DOMAIN node
             /\ \A j \in DOMAIN node :
                  linked[j] = [next |-> IF j = before THEN to ELSE node[j].next,
                               prev |-> IF j = after THEN back ELSE node[j].prev,
                               item |-> node[j].item]
<1> DEFINE half == Link(node, before, "next", to)
<1>1. /\ DOMAIN half = DOMAIN node
      /\ \A j \in DOMAIN node :
           half[j] = [next |-> IF j = before THEN to ELSE node[j].next,
                      prev |-> node[j].prev, item |-> node[j].item]
  BY LinkNext
<1> HIDE DEF half
<1>2. NodesOf(half)
  BY <1>1 DEF NodesOf
<1>3. LET linked == Link(half, after, "prev", back)
      IN  /\ DOMAIN linked = DOMAIN half
          /\ \A j \in DOMAIN half :
               linked[j] = [next |-> half[j].next, prev |-> IF j = after THEN back ELSE half[j].prev,
                            item |-> half[j].item]
  BY <1>1, <1>2, LinkPrev
<1> DEFINE linked == Link(half, after, "prev", back)
<1>4. DOMAIN linked = DOMAIN node
  BY <1>1, <1>3
<1>5. ASSUME NEW j \in DOMAIN node
      PROVE  linked[j] = [next |-> IF j = before THEN to ELSE node[j].next,
                          prev |-> IF j = after THEN back ELSE node[j].prev,
                          item |-> node[j].item]
  <2>1. linked[j] = [next |-> half[j].next, prev |-> IF j = after THEN back ELSE half[j].prev,
                     item |-> half[j].item]
    BY <1>1, <1>3
  <2>2. half[j] = [next |-> IF j = before THEN to ELSE node[j].next,
                   prev |-> node[j].prev, item |-> node[j].item]
    BY <1>1
  <2> HIDE DEF linked
  <2> QED BY <2>1, <2>2
<1> QED BY <1>4, <1>5 DEF half

\* The nodes of a chain are such, and each position's node is NULL or one.
LEMMA ChainNodes ==
  ASSUME NEW l, NEW p, NEW s, Chain(l, p, s)
  PROVE  /\ NodesOf(l.node) /\ 0 \notin DOMAIN l.node
         /\ \A i \in Int : Node(p, i) = 0 \/ Node(p, i) \in DOMAIN l.node
         /\ \A i \in Int : Node(p, i) = 0 <=> i \notin 1..Len(p)
         /\ \A i \in 1..Len(p), j \in Int : Node(p, j) = p[i] <=> j = i
<1>1. ASSUME NEW j \in DOMAIN l.node
      PROVE  l.node[j] = [next |-> l.node[j].next, prev |-> l.node[j].prev, item |-> l.node[j].item]
  <2>1. PICK i \in 1..Len(p) : j = p[i]
    BY ChainParts
  <2>2. l.node[p[i]] = [next |-> Node(p, i + 1), prev |-> Node(p, i - 1), item |-> s[i]]
    BY DEF Chain
  <2> HIDE DEF Node
  <2> QED BY <2>1, <2>2
<1>2. \A i \in Int : i \in 1..Len(p) => Node(p, i) \in DOMAIN l.node /\ Node(p, i) # 0
  BY ChainParts
<1>3. \A i \in Int : i \notin 1..Len(p) => Node(p, i) = 0
  BY DEF Node
<1>4. 0 \notin DOMAIN l.node
  BY ChainParts
<1>5. ASSUME NEW i \in 1..Len(p), NEW j \in Int PROVE Node(p, j) = p[i] <=> j = i
  <2>1. p[i] # 0 /\ Node(p, i) = p[i]
    BY ChainParts
  <2>2. CASE j \in 1..Len(p)
    <3>1. Node(p, j) = p[j]
      BY <2>2, ChainParts
    <3>2. p[j] = p[i] => j = i
      BY <2>2 DEF Chain
    <3> QED BY <2>1, <3>1, <3>2
  <2>3. CASE j \notin 1..Len(p)
    BY <1>3, <2>1, <2>3
  <2> QED BY <2>2, <2>3
<1> QED BY <1>1, <1>2, <1>3, <1>4, <1>5 DEF NodesOf

-----------------------------------------------------------------------------
\* A node between two that are next to each other: the chain with it.
LEMMA InsertChain ==
  ASSUME NEW l, NEW p, NEW S, NEW s \in Seq(S), Chain(l, p, s), NEW x \in S,
         NEW k \in 0..Len(s)
  PROVE  Chain(Insert(l, Node(p, k), Node(p, k + 1), x),
               InsertAt(p, k + 1, Fresh(l)), InsertAt(s, k + 1, x))
<1> DEFINE t == Fresh(l)
           n == Len(p)
           before == Node(p, k)
           after == Node(p, k + 1)
           q == InsertAt(p, k + 1, t)
           r == InsertAt(s, k + 1, x)
           m == Insert(l, before, after, x)
           linked == Link(Link(l.node, before, "next", t), after, "prev", t)
           new == [next |-> after, prev |-> before, item |-> x]
           node == [j \in DOMAIN l.node \cup {t} |-> IF j = t THEN new ELSE linked[j]]
           P == Nat \ {0}
           D == DOMAIN l.node
<1>0. SUFFICES Chain(m, q, r)
  OBVIOUS
<1>1. n \in Nat /\ Len(s) = n /\ k \in Nat /\ k <= n /\ k + 1 \in 1..(n + 1)
      /\ p \in Seq(P) /\ k \in Int /\ k + 1 \in Int
  BY DEF Chain
<1>2. t \in P /\ t \notin D /\ 0 \notin D
  BY FreshIsNew, ChainParts
<1> HIDE DEF t, P
<1>3. /\ q \in Seq(P) /\ Len(q) = n + 1
      /\ \A i \in 1..(n + 1) : q[i] = IF i < k + 1 THEN p[i] ELSE IF i = k + 1 THEN t ELSE p[i - 1]
  <2>1. k + 1 \in 1..(Len(p) + 1) /\ p \in Seq(P) /\ t \in P
    BY <1>1, <1>2
  <2> QED BY <2>1, Inserted
<1>4. /\ Len(r) = n + 1
      /\ \A i \in 1..(n + 1) : r[i] = IF i < k + 1 THEN s[i] ELSE IF i = k + 1 THEN x ELSE s[i - 1]
  <2>1. /\ Len(r) = Len(s) + 1
        /\ \A i \in 1..(Len(s) + 1) :
             r[i] = IF i < k + 1 THEN s[i] ELSE IF i = k + 1 THEN x ELSE s[i - 1]
    <3>1. k + 1 \in 1..(Len(s) + 1)
      BY <1>1
    <3> QED BY <3>1, Inserted
  <2> HIDE DEF r
  <2> QED BY <1>1, <2>1
<1>5. \A i \in Int : Node(q, i) = IF i < k + 1 THEN Node(p, i) ELSE IF i = k + 1 THEN t
                                  ELSE Node(p, i - 1)
  BY <1>1, <1>2, NodeInserted
<1> HIDE DEF q, r, before, after
<1>6. (before = 0 \/ before \in D) /\ (after = 0 \/ after \in D)
  BY <1>1, ChainNodes DEF before, after
<1>7. /\ DOMAIN linked = D
      /\ \A j \in D : linked[j] = [next |-> IF j = before THEN t ELSE l.node[j].next,
                                   prev |-> IF j = after THEN t ELSE l.node[j].prev,
                                   item |-> l.node[j].item]
  BY <1>2, <1>6, ChainNodes, Relinked
<1>8. m = [head |-> IF before = 0 THEN t ELSE l.head,
           tail |-> IF after = 0 THEN t ELSE l.tail,
           node |-> node]
  BY Zenon DEF Insert, t
<1> HIDE DEF linked, m, new
<1>9. /\ DOMAIN node = D \cup {t} /\ node[t] = new
      /\ \A j \in D : node[j] = linked[j]
  BY <1>2
<1> HIDE DEF node
<1>10. /\ m.head = IF before = 0 THEN t ELSE l.head
       /\ m.tail = IF after = 0 THEN t ELSE l.tail
       /\ m.node = node
       /\ m = [head |-> m.head, tail |-> m.tail, node |-> m.node]
  BY <1>8
<1>11. (before = 0 <=> k = 0) /\ (after = 0 <=> k = n)
  <2>1. before = 0 <=> k \notin 1..n
    BY <1>1, ChainNodes DEF before
  <2>2. after = 0 <=> k + 1 \notin 1..n
    BY <1>1, ChainNodes DEF after
  <2> QED BY <1>1, <2>1, <2>2
<1>12. m.head = Node(q, 1)
  <2>1. Node(q, 1) = IF 1 < k + 1 THEN Node(p, 1) ELSE IF 1 = k + 1 THEN t ELSE Node(p, 0)
    BY <1>5
  <2>2. l.head = Node(p, 1)
    BY ChainParts
  <2> QED BY <1>1, <1>10, <1>11, <2>1, <2>2
<1>13. m.tail = Node(q, n + 1)
  <2>1. n + 1 \in Int /\ (n + 1) - 1 = n
    BY <1>1
  <2>2. Node(q, n + 1) = IF n + 1 < k + 1 THEN Node(p, n + 1) ELSE IF n + 1 = k + 1 THEN t
                         ELSE Node(p, n)
    BY <1>5, <2>1
  <2>3. l.tail = Node(p, n)
    BY ChainParts
  <2> QED BY <1>1, <1>10, <1>11, <2>2, <2>3
<1>14. \A i \in 1..n : p[i] \in D /\ p[i] # t
  BY <1>2, AtPosition
<1>15. ASSUME NEW i \in 1..(n + 1), NEW j \in 1..(n + 1), q[i] = q[j] PROVE i = j
  <2>1. \A a, b \in 1..n : p[a] = p[b] => a = b
    BY DEF Chain
  <2>2. \A a \in 1..(n + 1) : /\ a < k + 1 => a \in 1..n
                              /\ a > k + 1 => a - 1 \in 1..n
    BY <1>1
  <2>3. i < k + 1 \/ i = k + 1 \/ i > k + 1
    BY <1>1
  <2>4. j < k + 1 \/ j = k + 1 \/ j > k + 1
    BY <1>1
  <2>5. CASE i = k + 1
    <3>1. q[i] = t
      BY <1>3, <2>5
    <3> QED BY <1>1, <1>3, <1>14, <1>15, <2>2, <2>4, <2>5, <3>1
  <2>6. CASE i < k + 1
    <3>1. q[i] = p[i] /\ i \in 1..n
      BY <1>3, <2>2, <2>6
    <3>2. CASE j < k + 1
      BY <1>3, <1>15, <2>1, <2>2, <3>1, <3>2
    <3>3. CASE j = k + 1
      <4>1. q[j] = t
        BY <1>1, <1>3, <3>3
      <4> QED BY <1>14, <1>15, <3>1, <4>1
    <3>4. CASE j > k + 1
      <4>1. q[j] = p[j - 1] /\ j - 1 \in 1..n
        BY <1>1, <1>3, <2>2, <3>4
      <4>2. i = j - 1
        BY <1>15, <2>1, <3>1, <4>1
      <4> QED BY <1>1, <2>6, <3>4, <4>2
    <3> QED BY <2>4, <3>2, <3>3, <3>4
  <2>7. CASE i > k + 1
    <3>1. q[i] = p[i - 1] /\ i - 1 \in 1..n
      BY <1>1, <1>3, <2>2, <2>7
    <3>2. CASE j < k + 1
      <4>1. q[j] = p[j] /\ j \in 1..n
        BY <1>3, <2>2, <3>2
      <4>2. i - 1 = j
        BY <1>15, <2>1, <3>1, <4>1
      <4> QED BY <1>1, <2>7, <3>2, <4>2
    <3>3. CASE j = k + 1
      <4>1. q[j] = t
        BY <1>1, <1>3, <3>3
      <4> QED BY <1>14, <1>15, <3>1, <4>1
    <3>4. CASE j > k + 1
      <4>1. q[j] = p[j - 1] /\ j - 1 \in 1..n
        BY <1>1, <1>3, <2>2, <3>4
      <4>2. i - 1 = j - 1
        BY <1>15, <2>1, <3>1, <4>1
      <4> QED BY <1>1, <4>2
    <3> QED BY <2>4, <3>2, <3>3, <3>4
  <2> QED BY <2>3, <2>5, <2>6, <2>7
<1>16. DOMAIN m.node = {q[i] : i \in 1..(n + 1)}
  <2>1. DOMAIN m.node = D \cup {t}
    BY <1>9, <1>10
  <2>2. ASSUME NEW i \in 1..(n + 1) PROVE q[i] \in D \cup {t}
    <3>1. i < k + 1 => i \in 1..n
      BY <1>1
    <3>2. i > k + 1 => i - 1 \in 1..n
      BY <1>1
    <3>3. i < k + 1 \/ i = k + 1 \/ i > k + 1
      BY <1>1
    <3> QED BY <1>1, <1>3, <1>14, <3>1, <3>2, <3>3
  <2>3. t = q[k + 1]
    BY <1>1, <1>3
  <2>4. ASSUME NEW j \in D PROVE \E i \in 1..(n + 1) : j = q[i]
    <3>1. PICK i \in 1..n : j = p[i]
      BY ChainParts
    <3>2. CASE i < k + 1
      <4>1. q[i] = p[i] /\ i \in 1..(n + 1)
        BY <1>1, <1>3, <3>2
      <4> QED BY <3>1, <4>1
    <3>3. CASE i >= k + 1
      <4>1. q[i + 1] = p[i] /\ i + 1 \in 1..(n + 1)
        BY <1>1, <1>3, <3>3
      <4> QED BY <3>1, <4>1
    <3>4. i < k + 1 \/ i >= k + 1
      BY <1>1
    <3> QED BY <3>2, <3>3, <3>4
  <2> QED BY <1>1, <2>1, <2>2, <2>3, <2>4
<1>17. ASSUME NEW j \in 1..n
       PROVE  m.node[p[j]] = [next |-> IF p[j] = before THEN t ELSE Node(p, j + 1),
                              prev |-> IF p[j] = after THEN t ELSE Node(p, j - 1), item |-> s[j]]
  <2>1. /\ p[j] \in D /\ l.node[p[j]].next = Node(p, j + 1)
        /\ l.node[p[j]].prev = Node(p, j - 1) /\ l.node[p[j]].item = s[j]
    BY ChainParts
  <2>2. m.node[p[j]] = linked[p[j]]
    BY <1>9, <1>10, <2>1
  <2>3. linked[p[j]] = [next |-> IF p[j] = before THEN t ELSE l.node[p[j]].next,
                        prev |-> IF p[j] = after THEN t ELSE l.node[p[j]].prev,
                        item |-> l.node[p[j]].item]
    BY <1>7, <2>1
  <2> QED BY <2>1, <2>2, <2>3
<1>18. ASSUME NEW i \in 1..(n + 1)
       PROVE  m.node[q[i]] = [next |-> Node(q, i + 1), prev |-> Node(q, i - 1), item |-> r[i]]
  <2>0. i \in Int /\ i + 1 \in Int /\ i - 1 \in Int /\ k + 1 \in Int
    BY <1>1
  <2>1. CASE i = k + 1
    <3>1. q[i] = t /\ r[i] = x
      BY <1>1, <1>3, <1>4, <2>1
    <3>2. Node(q, i - 1) = before
      <4>1. i - 1 = k /\ k < k + 1
        BY <1>1, <2>1
      <4> QED BY <1>1, <1>5, <4>1 DEF before
    <3>3. Node(q, i + 1) = after
      <4>1. (i + 1) - 1 = k + 1 /\ ~(i + 1 < k + 1) /\ i + 1 # k + 1
        BY <1>1, <2>1
      <4> QED BY <1>5, <2>0, <4>1 DEF after
    <3> QED BY <1>9, <1>10, <3>1, <3>2, <3>3 DEF new
  <2>2. CASE i < k + 1
    <3>1. i \in 1..n /\ q[i] = p[i] /\ r[i] = s[i]
      BY <1>1, <1>3, <1>4, <2>2
    <3>2. m.node[p[i]] = [next |-> IF p[i] = before THEN t ELSE Node(p, i + 1),
                          prev |-> IF p[i] = after THEN t ELSE Node(p, i - 1), item |-> s[i]]
      BY <1>17, <3>1
    <3>3. (p[i] = before <=> i = k) /\ p[i] # after
      <4>1. (before = p[i] <=> k = i) /\ (after = p[i] <=> k + 1 = i)
        BY <1>1, <3>1, ChainNodes DEF before, after
      <4> QED BY <2>2, <4>1, <1>1
    <3>4. Node(q, i + 1) = IF i = k THEN t ELSE Node(p, i + 1)
      <4>1. IF i = k THEN i + 1 = k + 1 ELSE i + 1 < k + 1
        BY <1>1, <2>2
      <4> QED BY <1>1, <1>5, <2>0, <4>1
    <3>5. Node(q, i - 1) = Node(p, i - 1)
      <4>1. i - 1 < k + 1
        BY <1>1, <2>2
      <4> QED BY <1>5, <2>0, <4>1
    <3> QED BY <3>1, <3>2, <3>3, <3>4, <3>5
  <2>3. CASE i > k + 1
    <3>1. i - 1 \in 1..n /\ q[i] = p[i - 1] /\ r[i] = s[i - 1]
      BY <1>1, <1>3, <1>4, <2>3
    <3>2. m.node[p[i - 1]] = [next |-> IF p[i - 1] = before THEN t ELSE Node(p, (i - 1) + 1),
                              prev |-> IF p[i - 1] = after THEN t ELSE Node(p, (i - 1) - 1),
                              item |-> s[i - 1]]
      BY <1>17, <3>1
    <3>3. p[i - 1] # before /\ (p[i - 1] = after <=> i - 1 = k + 1)
      <4>1. (before = p[i - 1] <=> k = i - 1) /\ (after = p[i - 1] <=> k + 1 = i - 1)
        BY <1>1, <3>1, ChainNodes DEF before, after
      <4> QED BY <1>1, <2>3, <4>1
    <3>4. Node(q, i + 1) = Node(p, (i - 1) + 1)
      <4>1. ~(i + 1 < k + 1) /\ i + 1 # k + 1 /\ (i + 1) - 1 = (i - 1) + 1
        BY <1>1, <2>3
      <4> QED BY <1>5, <2>0, <4>1
    <3>5. Node(q, i - 1) = IF i - 1 = k + 1 THEN t ELSE Node(p, (i - 1) - 1)
      <4>1. ~(i - 1 < k + 1)
        BY <1>1, <2>3
      <4> QED BY <1>5, <2>0, <4>1
    <3> QED BY <3>1, <3>2, <3>3, <3>4, <3>5
  <2>4. i < k + 1 \/ i = k + 1 \/ i > k + 1
    BY <1>1
  <2> QED BY <2>1, <2>2, <2>3, <2>4
<1> QED BY <1>1, <1>3, <1>4, <1>10, <1>12, <1>13, <1>15, <1>16, <1>18 DEF Chain, P

\* A node taken out: the chain without it.
LEMMA UnlinkChain ==
  ASSUME NEW l, NEW p, NEW S, NEW s \in Seq(S), Chain(l, p, s), NEW k \in 1..Len(s)
  PROVE  Chain(Unlink(l, p[k]), RemoveAt(p, k), RemoveAt(s, k))
<1> DEFINE n == Len(p)
           before == l.node[p[k]].prev
           after == l.node[p[k]].next
           q == RemoveAt(p, k)
           r == RemoveAt(s, k)
           m == Unlink(l, p[k])
           linked == Link(Link(l.node, before, "next", after), after, "prev", before)
           node == [j \in DOMAIN l.node \ {p[k]} |-> linked[j]]
           P == Nat \ {0}
           D == DOMAIN l.node
<1>0. SUFFICES Chain(m, q, r)
  OBVIOUS
<1>1. n \in Nat /\ Len(s) = n /\ k \in Nat /\ k >= 1 /\ k <= n /\ k \in 1..n
      /\ p \in Seq(P) /\ k \in Int /\ k + 1 \in Int /\ k - 1 \in Int
  BY DEF Chain
<1>2. p[k] \in D /\ 0 \notin D /\ before = Node(p, k - 1) /\ after = Node(p, k + 1)
  <2>1. k \in 1..Len(p)
    BY <1>1
  <2>2. p[k] \in D /\ 0 \notin D
    BY <2>1, ChainParts
  <2>3. before = Node(p, k - 1) /\ after = Node(p, k + 1)
    BY <2>1, ChainParts
  <2> QED BY <2>2, <2>3
<1> HIDE DEF P
<1>3. /\ q \in Seq(P) /\ Len(q) = n - 1
      /\ \A i \in 1..(n - 1) : q[i] = IF i < k THEN p[i] ELSE p[i + 1]
  BY <1>1, Removed
<1>4. /\ Len(r) = n - 1
      /\ \A i \in 1..(n - 1) : r[i] = IF i < k THEN s[i] ELSE s[i + 1]
  <2>1. /\ Len(r) = Len(s) - 1
        /\ \A i \in 1..(Len(s) - 1) : r[i] = IF i < k THEN s[i] ELSE s[i + 1]
    BY Removed
  <2> HIDE DEF r
  <2> QED BY <1>1, <2>1
<1>5. \A i \in Int : Node(q, i) = IF i < k THEN Node(p, i) ELSE Node(p, i + 1)
  BY <1>1, NodeRemoved
<1> HIDE DEF q, r, before, after
<1>6. (before = 0 \/ before \in D) /\ (after = 0 \/ after \in D)
  BY <1>1, <1>2, ChainNodes
<1>7. /\ DOMAIN linked = D
      /\ \A j \in D : linked[j] = [next |-> IF j = before THEN after ELSE l.node[j].next,
                                   prev |-> IF j = after THEN before ELSE l.node[j].prev,
                                   item |-> l.node[j].item]
  BY <1>2, <1>6, ChainNodes, Relinked
<1>8. m = [head |-> IF before = 0 THEN after ELSE l.head,
           tail |-> IF after = 0 THEN before ELSE l.tail,
           node |-> node]
  BY Zenon DEF Unlink, before, after
<1> HIDE DEF linked, m
<1>9. /\ DOMAIN node = D \ {p[k]}
      /\ \A j \in D : j # p[k] => node[j] = linked[j]
  OBVIOUS
<1> HIDE DEF node
<1>10. /\ m.head = IF before = 0 THEN after ELSE l.head
       /\ m.tail = IF after = 0 THEN before ELSE l.tail
       /\ m.node = node
       /\ m = [head |-> m.head, tail |-> m.tail, node |-> m.node]
  BY <1>8
<1>11. (before = 0 <=> k = 1) /\ (after = 0 <=> k = n)
  <2>1. before = 0 <=> k - 1 \notin 1..n
    BY <1>1, <1>2, ChainNodes
  <2>2. after = 0 <=> k + 1 \notin 1..n
    BY <1>1, <1>2, ChainNodes
  <2> QED BY <1>1, <2>1, <2>2
<1>12. m.head = Node(q, 1)
  <2>1. Node(q, 1) = IF 1 < k THEN Node(p, 1) ELSE Node(p, 2)
    BY <1>5
  <2>2. l.head = Node(p, 1)
    BY ChainParts
  <2>3. k = 1 => after = Node(p, 2)
    BY <1>2
  <2> QED BY <1>1, <1>10, <1>11, <2>1, <2>2, <2>3
<1>13. m.tail = Node(q, n - 1)
  <2>1. n - 1 \in Int /\ (n - 1) + 1 = n
    BY <1>1
  <2>2. Node(q, n - 1) = IF n - 1 < k THEN Node(p, n - 1) ELSE Node(p, n)
    BY <1>5, <2>1
  <2>3. l.tail = Node(p, n)
    BY ChainParts
  <2>4. k = n => before = Node(p, n - 1)
    BY <1>2
  <2> QED BY <1>1, <1>10, <1>11, <2>2, <2>3, <2>4
<1>14. \A a, b \in 1..n : p[a] = p[b] => a = b
  BY DEF Chain
<1>15. ASSUME NEW i \in 1..(n - 1), NEW j \in 1..(n - 1), q[i] = q[j] PROVE i = j
  <2>1. \A a \in 1..(n - 1) : a \in 1..n /\ a + 1 \in 1..n
    BY <1>1
  <2>2. CASE i < k /\ j < k
    BY <1>3, <1>14, <1>15, <2>1, <2>2
  <2>3. CASE i < k /\ ~(j < k)
    <3>1. i = j + 1
      BY <1>3, <1>14, <1>15, <2>1, <2>3
    <3> QED BY <1>1, <2>3, <3>1
  <2>4. CASE ~(i < k) /\ j < k
    <3>1. i + 1 = j
      BY <1>3, <1>14, <1>15, <2>1, <2>4
    <3> QED BY <1>1, <2>4, <3>1
  <2>5. CASE ~(i < k) /\ ~(j < k)
    <3>1. i + 1 = j + 1
      BY <1>3, <1>14, <1>15, <2>1, <2>5
    <3> QED BY <3>1
  <2> QED BY <2>2, <2>3, <2>4, <2>5
<1>16. DOMAIN m.node = {q[i] : i \in 1..(n - 1)}
  <2>1. DOMAIN m.node = D \ {p[k]}
    BY <1>9, <1>10
  <2>2. ASSUME NEW i \in 1..(n - 1) PROVE q[i] \in D \ {p[k]}
    <3>1. i \in 1..n /\ i + 1 \in 1..n
      BY <1>1
    <3>2. p[i] \in D /\ p[i + 1] \in D
      BY <3>1, ChainParts
    <3>3. (p[i] = p[k] => i = k) /\ (p[i + 1] = p[k] => i + 1 = k)
      BY <1>1, <1>14, <3>1
    <3> QED BY <1>1, <1>3, <3>2, <3>3
  <2>4. ASSUME NEW j \in D, j # p[k] PROVE \E i \in 1..(n - 1) : j = q[i]
    <3>1. PICK i \in 1..n : j = p[i]
      BY ChainParts
    <3>2. CASE i < k
      <4>1. i \in 1..(n - 1)
        BY <1>1, <3>2
      <4>2. q[i] = p[i]
        BY <1>3, <3>2, <4>1
      <4> QED BY <3>1, <4>1, <4>2
    <3>3. CASE i > k
      <4>1. i - 1 \in 1..(n - 1) /\ ~(i - 1 < k) /\ (i - 1) + 1 = i
        BY <1>1, <3>3
      <4>2. q[i - 1] = p[i]
        BY <1>3, <4>1
      <4> QED BY <3>1, <4>1, <4>2
    <3>4. i # k
      BY <2>4, <3>1
    <3>5. i < k \/ i > k
      BY <1>1, <3>4
    <3> QED BY <3>2, <3>3, <3>5
  <2> QED BY <2>1, <2>2, <2>4
<1>17. ASSUME NEW j \in 1..n, j # k
       PROVE  m.node[p[j]] = [next |-> IF p[j] = before THEN after ELSE Node(p, j + 1),
                              prev |-> IF p[j] = after THEN before ELSE Node(p, j - 1), item |-> s[j]]
  <2>1. /\ p[j] \in D /\ l.node[p[j]].next = Node(p, j + 1)
        /\ l.node[p[j]].prev = Node(p, j - 1) /\ l.node[p[j]].item = s[j]
    BY ChainParts
  <2>2. m.node[p[j]] = linked[p[j]]
    <3>1. p[j] # p[k]
      BY <1>1, <1>14, <1>17
    <3> QED BY <1>9, <1>10, <2>1, <3>1
  <2>3. linked[p[j]] = [next |-> IF p[j] = before THEN after ELSE l.node[p[j]].next,
                        prev |-> IF p[j] = after THEN before ELSE l.node[p[j]].prev,
                        item |-> l.node[p[j]].item]
    BY <1>7, <2>1
  <2> QED BY <2>1, <2>2, <2>3
<1>18. ASSUME NEW i \in 1..(n - 1)
       PROVE  m.node[q[i]] = [next |-> Node(q, i + 1), prev |-> Node(q, i - 1), item |-> r[i]]
  <2>0. i \in Int /\ i + 1 \in Int /\ i - 1 \in Int /\ i >= 1 /\ i <= n - 1
    BY <1>1
  <2>1. \A j \in 1..n : (p[j] = before <=> j = k - 1) /\ (p[j] = after <=> j = k + 1)
    <3>1. \A j \in 1..n : (Node(p, k - 1) = p[j] <=> k - 1 = j) /\ (Node(p, k + 1) = p[j] <=> k + 1 = j)
      BY <1>1, ChainNodes
    <3> QED BY <1>2, <3>1
  <2>2. CASE i < k
    <3>1. i \in 1..n /\ i # k /\ q[i] = p[i] /\ r[i] = s[i]
      <4>1. i \in 1..n /\ i # k
        BY <1>1, <2>0, <2>2
      <4>2. q[i] = p[i]
        BY <1>3, <2>2
      <4>3. r[i] = s[i]
        BY <1>4, <2>2
      <4> QED BY <4>1, <4>2, <4>3
    <3>2. m.node[p[i]] = [next |-> IF i = k - 1 THEN after ELSE Node(p, i + 1),
                          prev |-> IF i = k + 1 THEN before ELSE Node(p, i - 1), item |-> s[i]]
      BY <1>17, <2>1, <3>1
    <3>3. i # k + 1
      BY <1>1, <2>2
    <3>4. Node(q, i + 1) = IF i = k - 1 THEN after ELSE Node(p, i + 1)
      <4>1. CASE i = k - 1
        <5>1. i + 1 = k /\ ~(i + 1 < k)
          BY <1>1, <4>1
        <5> QED BY <1>1, <1>2, <1>5, <4>1, <5>1
      <4>2. CASE i # k - 1
        <5>1. i + 1 < k
          BY <1>1, <2>2, <4>2
        <5> QED BY <1>5, <2>0, <4>2, <5>1
      <4> QED BY <4>1, <4>2
    <3>5. Node(q, i - 1) = Node(p, i - 1)
      <4>1. i - 1 < k
        BY <1>1, <2>2
      <4> QED BY <1>5, <2>0, <4>1
    <3> QED BY <3>1, <3>2, <3>3, <3>4, <3>5
  <2>3. CASE ~(i < k)
    <3>1. i + 1 \in 1..n /\ i + 1 # k /\ q[i] = p[i + 1] /\ r[i] = s[i + 1]
      <4>1. i + 1 \in 1..n /\ i + 1 # k
        BY <1>1, <2>0, <2>3
      <4>2. q[i] = p[i + 1]
        BY <1>3, <2>3
      <4>3. r[i] = s[i + 1]
        BY <1>4, <2>3
      <4> QED BY <4>1, <4>2, <4>3
    <3>2. m.node[p[i + 1]] = [next |-> IF i + 1 = k - 1 THEN after ELSE Node(p, (i + 1) + 1),
                              prev |-> IF i + 1 = k + 1 THEN before ELSE Node(p, (i + 1) - 1),
                              item |-> s[i + 1]]
      BY <1>17, <2>1, <3>1
    <3>3. i + 1 # k - 1
      BY <1>1, <2>0, <2>3
    <3>4. Node(q, i + 1) = Node(p, (i + 1) + 1)
      <4>1. ~(i + 1 < k)
        BY <1>1, <2>0, <2>3
      <4> QED BY <1>5, <2>0, <4>1
    <3>5. Node(q, i - 1) = IF i + 1 = k + 1 THEN before ELSE Node(p, (i + 1) - 1)
      <4>1. CASE i = k
        <5>1. i - 1 < k /\ i - 1 = k - 1 /\ i + 1 = k + 1
          BY <1>1, <4>1
        <5> QED BY <1>2, <1>5, <2>0, <5>1
      <4>2. CASE i # k
        <5>1. ~(i - 1 < k) /\ (i - 1) + 1 = (i + 1) - 1 /\ i + 1 # k + 1
          BY <1>1, <2>0, <2>3, <4>2
        <5> QED BY <1>5, <2>0, <5>1
      <4> QED BY <4>1, <4>2
    <3> QED BY <3>1, <3>2, <3>3, <3>4, <3>5
  <2> QED BY <2>2, <2>3
<1> QED BY <1>1, <1>3, <1>4, <1>10, <1>12, <1>13, <1>15, <1>16, <1>18 DEF Chain, P

\* An item replaced: the same chain.
LEMMA ModifyChain ==
  ASSUME NEW l, NEW p, NEW S, NEW s \in Seq(S), Chain(l, p, s), NEW x, NEW k \in 1..Len(s)
  PROVE  Chain([l EXCEPT !.node[p[k]].item = x], p, [s EXCEPT ![k] = x])
<1> DEFINE n == Len(p)
           node == [l.node EXCEPT ![p[k]] = [l.node[p[k]] EXCEPT !.item = x]]
           m == [l EXCEPT !.node[p[k]].item = x]
           r == [s EXCEPT ![k] = x]
<1>1. n \in Nat /\ Len(s) = n /\ p \in Seq(Nat \ {0}) /\ k \in 1..n
      /\ l = [head |-> Node(p, 1), tail |-> Node(p, n), node |-> l.node]
  BY DEF Chain
<1>2. m = [head |-> Node(p, 1), tail |-> Node(p, n), node |-> node]
  <2> DEFINE h == Node(p, 1)
             e == Node(p, n)
             d == l.node
  <2>1. l = [head |-> h, tail |-> e, node |-> d]
    BY <1>1
  <2> HIDE DEF h, e
  <2>2. m = [l EXCEPT !.node = node]
    BY Zenon
  <2> HIDE DEF node, d, m
  <2>3. m = [head |-> h, tail |-> e, node |-> node]
    BY <2>1, <2>2
  <2> QED BY <2>3 DEF h, e
<1> HIDE DEF m
<1>3. m.head = Node(p, 1) /\ m.tail = Node(p, n) /\ m.node = node
  BY <1>2
<1>4. /\ Len(r) = n
      /\ \A i \in 1..n : r[i] = IF i = k THEN x ELSE s[i]
  BY <1>1
<1> HIDE DEF r
<1>5. DOMAIN node = DOMAIN l.node
  OBVIOUS
<1>6. ASSUME NEW i \in 1..n
      PROVE  node[p[i]] = [next |-> Node(p, i + 1), prev |-> Node(p, i - 1), item |-> r[i]]
  <2>1. p[i] \in DOMAIN l.node /\ (p[i] = p[k] => i = k)
        /\ l.node[p[i]] = [next |-> Node(p, i + 1), prev |-> Node(p, i - 1), item |-> s[i]]
    BY <1>1 DEF Chain
  <2>2. CASE i = k
    <3>1. node[p[i]] = [l.node[p[i]] EXCEPT !.item = x]
      BY <2>1, <2>2
    <3> HIDE DEF node
    <3> QED BY <1>4, <2>1, <2>2, <3>1
  <2>3. CASE i # k
    <3>1. node[p[i]] = l.node[p[i]]
      BY <2>1, <2>3
    <3> HIDE DEF node
    <3> QED BY <1>4, <2>1, <2>3, <3>1
  <2> QED BY <2>2, <2>3
<1> HIDE DEF node
<1>7. /\ \A i, j \in 1..n : p[i] = p[j] => i = j
      /\ DOMAIN l.node = {p[i] : i \in 1..n}
  BY DEF Chain
<1>8. SUFFICES Chain(m, p, r)
  BY DEF m, r
<1> QED BY <1>1, <1>2, <1>3, <1>4, <1>5, <1>6, <1>7 DEF Chain

\* No item is listed twice.
Distinct(s) == \A i, j \in 1..Len(s) : s[i] = s[j] => i = j

\* Sequences with the same elements are the same.
LEMMA SameElements ==
  ASSUME NEW S, NEW s \in Seq(S), NEW t \in Seq(S), Len(s) = Len(t),
         \A i \in 1..Len(s) : s[i] = t[i]
  PROVE  s = t
OBVIOUS

\* The search finds the node of an item that is listed.
LEMMA FindsItem ==
  ASSUME NEW l, NEW p, NEW S, NEW s \in Seq(S), Chain(l, p, s), Distinct(s),
         NEW k \in 1..Len(s)
  PROVE  Find(l, s[k]) = p[k]
<1> DEFINE n == Len(p)
           hop == Walk(l, l.head, "next")
           here == {i \in DOMAIN hop : hop[i] # 0 /\ l.node[hop[i]].item = s[k]}
<1>1. n \in Nat /\ Len(s) = n /\ k \in Nat /\ k >= 1 /\ k <= n /\ k - 1 \in 0..n /\ k - 1 \in Nat
  BY ChainParts
<1>2. hop = [i \in 0..n |-> Node(p, i + 1)]
  BY Forwards
<1>3. ASSUME NEW i \in 0..n
      PROVE  hop[i] # 0 /\ l.node[hop[i]].item = s[k] <=> i = k - 1
  <2>1. hop[i] = Node(p, i + 1)
    BY <1>2
  <2> HIDE DEF hop
  <2>2. CASE i + 1 \in 1..n
    <3>1. hop[i] # 0 /\ l.node[hop[i]].item = s[i + 1]
      <4> DEFINE j == i + 1
      <4>1. j \in 1..Len(p)
        BY <2>2
      <4> HIDE DEF j
      <4>2. p[j] # 0 /\ Node(p, j) = p[j] /\ l.node[p[j]].item = s[j]
        BY <4>1, AtPosition
      <4>3. hop[i] = Node(p, j)
        BY <2>1 DEF j
      <4>4. hop[i] # 0 /\ l.node[hop[i]].item = s[j]
        BY <4>2, <4>3
      <4> QED BY <4>4 DEF j
    <3>2. s[i + 1] = s[k] <=> i + 1 = k
      BY <1>1, <2>2 DEF Distinct
    <3>3. i + 1 = k <=> i = k - 1
      BY <1>1
    <3> QED BY <3>1, <3>2, <3>3
  <2>3. CASE i + 1 \notin 1..n
    <3>1. hop[i] = 0 /\ i # k - 1
      BY <1>1, <2>1, <2>3 DEF Node
    <3> QED BY <3>1
  <2> QED BY <2>2, <2>3
<1>4. DOMAIN hop = 0..n /\ hop[k - 1] = p[k]
  <2>1. Node(p, (k - 1) + 1) = p[k]
    BY <1>1 DEF Node
  <2> QED BY <1>1, <1>2, <2>1
<1> HIDE DEF hop
<1>5. here = {k - 1}
  BY <1>1, <1>3, <1>4
<1>6. Min(here) = k - 1
  <2>1. {k - 1} \subseteq Nat /\ {k - 1} # {}
    BY <1>1
  <2>2. Min({k - 1}) \in {k - 1}
    BY <2>1, MinIsLeast
  <2> QED BY <1>5, <2>2
<1>7. Find(l, s[k]) = IF here = {} THEN 0 ELSE hop[Min(here)]
  BY Zenon DEF Find, hop
<1> HIDE DEF here
<1> QED BY <1>4, <1>5, <1>6, <1>7

\* The search finds nothing for an item that is not listed.
LEMMA FindsNone ==
  ASSUME NEW l, NEW p, NEW S, NEW s \in Seq(S), Chain(l, p, s),
         NEW x, \A i \in 1..Len(s) : s[i] # x
  PROVE  Find(l, x) = 0
<1> DEFINE n == Len(p)
           hop == Walk(l, l.head, "next")
           here == {i \in DOMAIN hop : hop[i] # 0 /\ l.node[hop[i]].item = x}
<1>1. n \in Nat /\ Len(s) = n
  BY ChainParts
<1>2. hop = [i \in 0..n |-> Node(p, i + 1)]
  BY Forwards
<1>3. ASSUME NEW i \in 0..n
      PROVE  ~(hop[i] # 0 /\ l.node[hop[i]].item = x)
  <2>1. hop[i] = Node(p, i + 1)
    BY <1>2
  <2> HIDE DEF hop
  <2>2. CASE i + 1 \in 1..n
    <3>1. l.node[hop[i]].item = s[i + 1]
      BY <2>1, <2>2, AtPosition
    <3> QED BY <1>1, <2>2, <3>1
  <2>3. CASE i + 1 \notin 1..n
    BY <2>1, <2>3 DEF Node
  <2> QED BY <2>2, <2>3
<1>4. DOMAIN hop = 0..n
  BY <1>2
<1> HIDE DEF hop
<1>5. here = {}
  BY <1>3, <1>4
<1>7. Find(l, x) = IF here = {} THEN 0 ELSE hop[Min(here)]
  BY Zenon DEF Find, hop
<1> QED BY <1>5, <1>7

-----------------------------------------------------------------------------
\* A new item at the head.
LEMMA AddHeadChain ==
  ASSUME NEW l, NEW p, NEW S, NEW s \in Seq(S), Chain(l, p, s), NEW x \in S
  PROVE  \E q : Chain(AddHead(l, x), q, <<x>> \o s)
<1> DEFINE n == Len(s)
<1>1. n \in Nat /\ 0 \in 0..n /\ 1 \in 1..(n + 1) /\ 0 + 1 = 1
  OBVIOUS
<1>2. Node(p, 0) = 0 /\ l.head = Node(p, 1)
  BY ChainParts DEF Node
<1>3. Chain(Insert(l, Node(p, 0), Node(p, 1), x), InsertAt(p, 1, Fresh(l)), InsertAt(s, 1, x))
  BY <1>1, InsertChain
<1>4. InsertAt(s, 1, x) = <<x>> \o s
  <2>1. /\ InsertAt(s, 1, x) \in Seq(S) /\ Len(InsertAt(s, 1, x)) = n + 1
        /\ \A i \in 1..(n + 1) :
             InsertAt(s, 1, x)[i] = IF i < 1 THEN s[i] ELSE IF i = 1 THEN x ELSE s[i - 1]
    BY <1>1, Inserted
  <2>2. /\ <<x>> \o s \in Seq(S) /\ Len(<<x>> \o s) = n + 1
        /\ \A i \in 1..(n + 1) : (<<x>> \o s)[i] = IF i = 1 THEN x ELSE s[i - 1]
    BY <1>1
  <2>3. \A i \in 1..(n + 1) : ~(i < 1)
    BY <1>1
  <2> QED BY <2>1, <2>2, <2>3, SameElements
<1>5. AddHead(l, x) = Insert(l, Node(p, 0), Node(p, 1), x)
  BY <1>2 DEF AddHead
<1> QED BY <1>3, <1>4, <1>5

\* The same at the tail.
LEMMA AddTailChain ==
  ASSUME NEW l, NEW p, NEW S, NEW s \in Seq(S), Chain(l, p, s), NEW x \in S
  PROVE  \E q : Chain(AddTail(l, x), q, Append(s, x))
<1> DEFINE n == Len(s)
<1>1. n \in Nat /\ n \in 0..n /\ n + 1 \in 1..(n + 1) /\ Len(p) = n
  BY ChainParts
<1>2. Node(p, n + 1) = 0 /\ l.tail = Node(p, n)
  BY <1>1, ChainParts DEF Node
<1>3. Chain(Insert(l, Node(p, n), Node(p, n + 1), x),
            InsertAt(p, n + 1, Fresh(l)), InsertAt(s, n + 1, x))
  BY <1>1, InsertChain
<1>4. InsertAt(s, n + 1, x) = Append(s, x)
  <2>1. /\ InsertAt(s, n + 1, x) \in Seq(S) /\ Len(InsertAt(s, n + 1, x)) = n + 1
        /\ \A i \in 1..(n + 1) :
             InsertAt(s, n + 1, x)[i] = IF i < n + 1 THEN s[i] ELSE IF i = n + 1 THEN x ELSE s[i - 1]
    <3> DEFINE k == n + 1
    <3>1. k \in 1..(Len(s) + 1)
      BY <1>1
    <3> HIDE DEF k
    <3>2. /\ InsertAt(s, k, x) \in Seq(S) /\ Len(InsertAt(s, k, x)) = Len(s) + 1
          /\ \A i \in 1..(Len(s) + 1) :
               InsertAt(s, k, x)[i] = IF i < k THEN s[i] ELSE IF i = k THEN x ELSE s[i - 1]
      BY <3>1, Inserted
    <3> QED BY <3>2 DEF k
  <2>2. /\ Append(s, x) \in Seq(S) /\ Len(Append(s, x)) = n + 1
        /\ \A i \in 1..(n + 1) : Append(s, x)[i] = IF i = n + 1 THEN x ELSE s[i]
    BY <1>1
  <2>3. \A i \in 1..(n + 1) : i < n + 1 \/ i = n + 1
    BY <1>1
  <2>4. \A i \in 1..(n + 1) : ~(n + 1 < n + 1)
    BY <1>1
  <2> QED BY <2>1, <2>2, <2>3, <2>4, SameElements
<1>5. AddTail(l, x) = Insert(l, Node(p, n), Node(p, n + 1), x)
  BY <1>2 DEF AddTail
<1> QED BY <1>3, <1>4, <1>5

\* Combine with a list of one item adds it at the tail.
LEMMA CombineOne ==
  ASSUME NEW l, NEW other, NEW x, Items(other) = <<x>>
  PROVE  Combine(l, other) = AddTail(l, x)
<1> DEFINE y == <<x>>
           D == DOMAIN y
           Added(f, t) == IF t = {} THEN l ELSE AddTail(f[t \ {Max(t)}], y[Max(t)])
           Rule(f) == f = [t \in SUBSET D |-> Added(f, t)]
           it == CHOOSE f : Rule(f)
           g == [t \in SUBSET D |-> IF t = {} THEN l ELSE AddTail(l, x)]
<1>1. FoldLeft(AddTail, l, y) = it[D]
  BY Zenon DEF FoldLeft, MapThenFoldSet
<1>2. D = {1} /\ y[1] = x
  OBVIOUS
<1>3. Max({1}) = 1
  <2>1. \E i \in {1} : \A j \in {1} : i >= j
    OBVIOUS
  <2> QED BY <2>1 DEF Max
<1> HIDE DEF D, y
<1>4. \A t \in SUBSET D : t = {} \/ t = {1}
  BY <1>2
<1>5. Rule(g)
  <2>1. ASSUME NEW t \in SUBSET D PROVE g[t] = Added(g, t)
    <3>1. CASE t = {}
      BY <3>1
    <3>2. CASE t = {1}
      <4>1. t \ {Max(t)} = {} /\ {} \in SUBSET D /\ t # {}
        BY <1>3, <3>2
      <4>2. g[t \ {Max(t)}] = l /\ y[Max(t)] = x
        BY <1>2, <1>3, <3>2, <4>1
      <4>3. g[t] = AddTail(l, x)
        BY <4>1
      <4> HIDE DEF g
      <4> QED BY <4>1, <4>2, <4>3
    <3> QED BY <1>4, <3>1, <3>2
  <2>2. g = [t \in SUBSET D |-> g[t]]
    OBVIOUS
  <2> HIDE DEF g, Added
  <2> QED BY <2>1, <2>2, Zenon
<1>6. Rule(it)
  BY <1>5, Zenon
<1> HIDE DEF it
<1>7. \A t \in SUBSET D : it[t] = Added(it, t)
  <2> HIDE DEF Added
  <2> QED BY <1>6
<1>8. it[{}] = l
  BY <1>7
<1>9. it[D] = AddTail(l, x)
  <2>1. D \ {Max(D)} = {} /\ D # {} /\ y[Max(D)] = x
    BY <1>2, <1>3
  <2>2. it[D] = Added(it, D)
    BY <1>7
  <2> QED BY <1>8, <2>1, <2>2
<1> QED BY <1>1, <1>9 DEF Combine, y

\* A list without nodes is the chain of no node.
LEMMA EmptyChain == Chain(Empty, <<>>, <<>>)
<1>1. Node(<<>>, 1) = 0 /\ Node(<<>>, 0) = 0 /\ Len(<<>>) = 0
  BY DEF Node
<1>2. /\ <<>> \in Seq(Nat \ {0}) /\ {<<>>[i] : i \in 1..0} = {} /\ 1..0 = {}
      /\ DOMAIN <<>> = {}
  OBVIOUS
<1>3. Empty = [head |-> 0, tail |-> 0, node |-> <<>>] /\ Empty.node = <<>>
  BY DEF Empty
<1> QED BY <1>1, <1>2, <1>3 DEF Chain

\* A list of one item.
LEMMA OneItem ==
  ASSUME NEW S, NEW x \in S
  PROVE  Items(AddTail(Empty, x)) = <<x>>
<1>1. <<>> \in Seq(S) /\ Append(<<>>, x) = <<x>> /\ <<x>> \in Seq(S)
  OBVIOUS
<1>2. PICK q : Chain(AddTail(Empty, x), q, <<x>>)
  BY <1>1, EmptyChain, AddTailChain
<1> QED BY <1>1, <1>2, ItemsInOrder

\* Removal at the ends.
LEMMA EndsRemoved ==
  ASSUME NEW S, NEW s \in Seq(S), Len(s) > 0
  PROVE  /\ RemoveAt(s, 1) = Tail(s)
         /\ RemoveAt(s, Len(s)) = SubSeq(s, 1, Len(s) - 1)
<1> DEFINE n == Len(s)
<1>1. n \in Nat /\ n > 0 /\ 1 \in 1..Len(s) /\ n \in 1..Len(s)
  OBVIOUS
<1>2. RemoveAt(s, 1) = Tail(s)
  <2>1. /\ RemoveAt(s, 1) \in Seq(S) /\ Len(RemoveAt(s, 1)) = n - 1
        /\ \A i \in 1..(n - 1) : RemoveAt(s, 1)[i] = IF i < 1 THEN s[i] ELSE s[i + 1]
    BY <1>1, Removed
  <2>2. /\ Tail(s) \in Seq(S) /\ Len(Tail(s)) = n - 1
        /\ \A i \in 1..(n - 1) : Tail(s)[i] = s[i + 1]
    BY <1>1
  <2>3. \A i \in 1..(n - 1) : ~(i < 1)
    BY <1>1
  <2> QED BY <2>1, <2>2, <2>3, SameElements
<1>3. RemoveAt(s, n) = SubSeq(s, 1, n - 1)
  <2>1. /\ RemoveAt(s, n) \in Seq(S) /\ Len(RemoveAt(s, n)) = n - 1
        /\ \A i \in 1..(n - 1) : RemoveAt(s, n)[i] = IF i < n THEN s[i] ELSE s[i + 1]
    <3> DEFINE k == n
    <3>1. k \in 1..Len(s)
      BY <1>1
    <3> HIDE DEF k
    <3>2. /\ RemoveAt(s, k) \in Seq(S) /\ Len(RemoveAt(s, k)) = Len(s) - 1
          /\ \A i \in 1..(Len(s) - 1) : RemoveAt(s, k)[i] = IF i < k THEN s[i] ELSE s[i + 1]
      BY <3>1, Removed
    <3> QED BY <3>2 DEF k
  <2>2. /\ SubSeq(s, 1, n - 1) \in Seq(S) /\ Len(SubSeq(s, 1, n - 1)) = n - 1
        /\ \A i \in 1..(n - 1) : SubSeq(s, 1, n - 1)[i] = s[i]
    <3> DEFINE m == n - 1
    <3>1. m \in 0..Len(s) /\ m \in Nat /\ m <= Len(s)
      BY <1>1
    <3> SUFFICES /\ SubSeq(s, 1, m) \in Seq(S) /\ Len(SubSeq(s, 1, m)) = m
                 /\ \A i \in 1..m : SubSeq(s, 1, m)[i] = s[i]
      OBVIOUS
    <3> HIDE DEF m
    <3> QED BY <3>1
  <2>3. \A i \in 1..(n - 1) : i < n
    BY <1>1
  <2> QED BY <2>1, <2>2, <2>3, SameElements
<1> QED BY <1>2, <1>3

-----------------------------------------------------------------------------
\* What a removal leaves, as a list.
LEMMA UnlinkList ==
  ASSUME NEW l, NEW p, NEW S, NEW s \in Seq(S), Chain(l, p, s), NEW k \in 1..Len(s)
  PROVE  IsList(Unlink(l, p[k]), RemoveAt(s, k))
<1>1. Chain(Unlink(l, p[k]), RemoveAt(p, k), RemoveAt(s, k))
  BY UnlinkChain
<1>2. RemoveAt(s, k) \in Seq(S)
  BY Removed
<1> QED BY <1>1, <1>2, ChainIsList

\* What an insertion leaves, as a list.
LEMMA InsertList ==
  ASSUME NEW l, NEW p, NEW S, NEW s \in Seq(S), Chain(l, p, s), NEW x \in S,
         NEW k \in 0..Len(s)
  PROVE  IsList(Insert(l, Node(p, k), Node(p, k + 1), x), InsertAt(s, k + 1, x))
<1> DEFINE j == k + 1
<1>1. Chain(Insert(l, Node(p, k), Node(p, k + 1), x),
            InsertAt(p, k + 1, Fresh(l)), InsertAt(s, k + 1, x))
  BY InsertChain
<1>2. j \in 1..(Len(s) + 1)
  OBVIOUS
<1> HIDE DEF j
<1>3. InsertAt(s, j, x) \in Seq(S)
  BY <1>2, Inserted
<1> QED BY <1>1, <1>3, ChainIsList DEF j

\* What a change leaves, as a list.
LEMMA ModifyList ==
  ASSUME NEW l, NEW p, NEW S, NEW s \in Seq(S), Chain(l, p, s), NEW x \in S, NEW k \in 1..Len(s)
  PROVE  IsList([l EXCEPT !.node[p[k]].item = x], [s EXCEPT ![k] = x])
<1>1. Chain([l EXCEPT !.node[p[k]].item = x], p, [s EXCEPT ![k] = x])
  BY ModifyChain
<1>2. [s EXCEPT ![k] = x] \in Seq(S)
  OBVIOUS
<1> QED BY <1>1, <1>2, ChainIsList

-----------------------------------------------------------------------------
\* What an operation that reads an item gives.
Reads(r, item) == r.err = "none" /\ r.item = item

\* The item at a position; an error outside the list.
LEMMA ReadsNode ==
  ASSUME NEW l, NEW p, NEW s, Chain(l, p, s), NEW i \in Int
  PROVE  /\ i \in 1..Len(p) => Reads(ItemOf(l, Node(p, i)), s[i])
         /\ i \notin 1..Len(p) => ItemOf(l, Node(p, i)).err = "range"
<1>1. CASE i \in 1..Len(p)
  <2>1. Node(p, i) = p[i] /\ p[i] # 0 /\ l.node[p[i]].item = s[i]
    BY <1>1, ChainParts
  <2>2. ItemOf(l, Node(p, i)) = Gives(l, s[i])
    BY <2>1 DEF ItemOf
  <2>3. Reads(Gives(l, s[i]), s[i])
    BY DEF Reads, Gives
  <2> QED BY <1>1, <2>2, <2>3
<1>2. CASE i \notin 1..Len(p)
  <2>1. Node(p, i) = 0
    BY <1>2 DEF Node
  <2>2. ItemOf(l, Node(p, i)) = Failed(l, "range")
    BY <2>1 DEF ItemOf
  <2> QED BY <1>2, <2>2 DEF Failed
<1> QED BY <1>1, <1>2

\* The operations at the ends.
LEMMA AtTheEnds ==
  ASSUME NEW l, NEW p, NEW S, NEW s \in Seq(S), Chain(l, p, s), NEW x \in S
  PROVE  /\ IsList(l, s)
         /\ IsList(AddHead(l, x), <<x>> \o s)
         /\ IsList(AddTail(l, x), Append(s, x))
         /\ IsList(Combine(l, AddTail(Empty, x)), Append(s, x))
<1>1. <<x>> \o s \in Seq(S) /\ Append(s, x) \in Seq(S)
  OBVIOUS
<1>2. PICK q : Chain(AddHead(l, x), q, <<x>> \o s)
  BY AddHeadChain
<1>3. PICK r : Chain(AddTail(l, x), r, Append(s, x))
  BY AddTailChain
<1>4. Combine(l, AddTail(Empty, x)) = AddTail(l, x)
  BY OneItem, CombineOne
<1> QED BY <1>1, <1>2, <1>3, <1>4, ChainIsList

\* Reading the first and the last item.
LEMMA ReadsTheEnds ==
  ASSUME NEW l, NEW p, NEW S, NEW s \in Seq(S), Chain(l, p, s)
  PROVE  /\ Len(s) > 0 => Reads(GetHead(l), s[1]) /\ Reads(GetTail(l), s[Len(s)])
         /\ ~(Len(s) > 0) => GetHead(l).err = "range" /\ GetTail(l).err = "range"
<1> DEFINE n == Len(s)
<1>1. n \in Nat /\ Len(p) = n /\ l.head = Node(p, 1) /\ l.tail = Node(p, n)
  BY ChainParts
<1>2. GetHead(l) = ItemOf(l, Node(p, 1)) /\ GetTail(l) = ItemOf(l, Node(p, n))
  BY <1>1 DEF GetHead, GetTail
<1>3. CASE n > 0
  <2>1. 1 \in 1..Len(p) /\ n \in 1..Len(p) /\ 1 \in Int /\ n \in Int
    BY <1>1, <1>3
  <2>2. Reads(ItemOf(l, Node(p, 1)), s[1])
    BY <2>1, ReadsNode
  <2> HIDE DEF n
  <2>3. Reads(ItemOf(l, Node(p, n)), s[n])
    BY <2>1, ReadsNode
  <2> QED BY <1>2, <1>3, <2>2, <2>3 DEF n
<1>4. CASE ~(n > 0)
  <2>1. 1 \notin 1..Len(p) /\ n \notin 1..Len(p) /\ 1 \in Int /\ n \in Int
    BY <1>1, <1>4
  <2>2. ItemOf(l, Node(p, 1)).err = "range"
    BY <2>1, ReadsNode
  <2> HIDE DEF n
  <2>3. ItemOf(l, Node(p, n)).err = "range"
    BY <2>1, ReadsNode
  <2> QED BY <1>2, <1>4, <2>2, <2>3 DEF n
<1> QED BY <1>3, <1>4

\* Taking the first and the last item out.
LEMMA ExtractsTheEnds ==
  ASSUME NEW l, NEW p, NEW S, NEW s \in Seq(S), Chain(l, p, s)
  PROVE  /\ Len(s) > 0 =>
              /\ Reads(ExtHead(l), s[1]) /\ IsList(ExtHead(l).list, Tail(s))
              /\ ExtTail(l).item = s[Len(s)]
              /\ IsList(ExtTail(l).list, SubSeq(s, 1, Len(s) - 1))
         /\ ~(Len(s) > 0) => ExtHead(l).err = "range" /\ ExtHead(l).list = l
<1> DEFINE n == Len(s)
<1>1. n \in Nat /\ Len(p) = n /\ l.head = Node(p, 1) /\ l.tail = Node(p, n)
  BY ChainParts
<1>2. CASE n > 0
  <2>1. 1 \in 1..Len(s) /\ n \in 1..Len(s) /\ 1 \in 1..Len(p) /\ n \in 1..Len(p)
    BY <1>1, <1>2
  <2>2. Node(p, 1) = p[1] /\ p[1] # 0 /\ l.node[p[1]].item = s[1]
    BY <2>1, ChainParts
  <2>3. ExtHead(l) = Gives(Unlink(l, p[1]), s[1])
    BY <1>1, <2>2 DEF ExtHead, ExtNode
  <2>4. IsList(Unlink(l, p[1]), Tail(s))
    <3>1. IsList(Unlink(l, p[1]), RemoveAt(s, 1))
      BY <2>1, UnlinkList
    <3> QED BY <1>2, <3>1, EndsRemoved
  <2>5. IsList(Unlink(l, p[n]), SubSeq(s, 1, n - 1))
    <3>1. RemoveAt(s, n) = SubSeq(s, 1, n - 1)
      BY <1>2, EndsRemoved
    <3> HIDE DEF n
    <3>2. IsList(Unlink(l, p[n]), RemoveAt(s, n))
      BY <2>1, UnlinkList
    <3> QED BY <3>1, <3>2
  <2>6. Node(p, n) = p[n] /\ p[n] # 0 /\ l.node[p[n]].item = s[n]
    <3> HIDE DEF n
    <3> QED BY <2>1, ChainParts
  <2>7. ExtTail(l) = Gives(Unlink(l, p[n]), s[n])
    BY <1>1, <2>6 DEF ExtTail, ExtNode
  <2>8. Reads(ExtHead(l), s[1]) /\ ExtHead(l).list = Unlink(l, p[1])
    BY <2>3 DEF Reads, Gives
  <2>9. ExtTail(l).item = s[n] /\ ExtTail(l).list = Unlink(l, p[n])
    BY <2>7 DEF Gives
  <2> QED BY <1>2, <2>4, <2>5, <2>8, <2>9
<1>3. CASE ~(n > 0)
  <2>1. Node(p, 1) = 0
    BY <1>1, <1>3 DEF Node
  <2>2. ExtHead(l) = Failed(l, "range")
    BY <1>1, <2>1 DEF ExtHead, ExtNode
  <2> QED BY <1>3, <2>2 DEF Failed
<1> QED BY <1>2, <1>3

\* Item x is listed.
Lists(s, x) == \E i \in 1..Len(s) : s[i] = x

\* Nothing is done for an item that is not listed.
LEMMA OfAnUnlisted ==
  ASSUME NEW l, NEW p, NEW S, NEW s \in Seq(S), Chain(l, p, s), NEW x, ~Lists(s, x), x # NoItem
  PROVE  /\ GetItem(l, x).err = "not there" /\ ExtItem(l, x).err = "not there"
         /\ GetNext(l, x).err = "range" /\ AddAfter(l, x, x).list = l
<1>1. Find(l, x) = 0
  <2>1. \A i \in 1..Len(s) : s[i] # x
    BY DEF Lists
  <2> QED BY <2>1, FindsNone
<1>2. GetItem(l, x) = Failed(l, "not there")
  BY <1>1 DEF GetItem
<1>3. ExtItem(l, x) = Failed(l, "not there")
  BY <1>1 DEF ExtItem
<1>4. GetNext(l, x) = Failed(l, "range")
  BY <1>1 DEF GetNext
<1>5. AddAfter(l, x, x) = Failed(l, "not there")
  BY <1>1 DEF AddAfter
<1>6. \A why : Failed(l, why).err = why /\ Failed(l, why).list = l
  BY DEF Failed
<1> QED BY <1>2, <1>3, <1>4, <1>5, <1>6, Zenon

\* The operations on the item at position i.
LEMMA AtAnItem ==
  ASSUME NEW l, NEW p, NEW S, NEW s \in Seq(S), Chain(l, p, s), Distinct(s), NEW x \in S,
         NoItem \notin S, NEW i \in 1..Len(s)
  PROVE  /\ Reads(GetIndex(l, i - 1), s[i])
         /\ IsList(ExtIndex(l, i - 1).list, RemoveAt(s, i))
         /\ IsList(ExtItem(l, s[i]).list, RemoveAt(s, i))
         /\ IsList(AddAfter(l, s[i], x).list, InsertAt(s, i + 1, x))
         /\ IsList(AddBefore(l, s[i], x).list, InsertAt(s, i, x))
         /\ IsList(ModifyItem(l, s[i], x).list, [s EXCEPT ![i] = x])
<1> DEFINE n == Len(s)
<1>1. /\ n \in Nat /\ Len(p) = n /\ i \in 1..Len(p) /\ i - 1 \in 0..Len(s) /\ i \in 0..Len(s)
      /\ (i - 1) + 1 = i /\ i \in Int
  BY ChainParts
<1>2. p[i] # 0 /\ Node(p, i) = p[i] /\ l.node[p[i]].next = Node(p, i + 1)
      /\ l.node[p[i]].prev = Node(p, i - 1) /\ l.node[p[i]].item = s[i]
  BY <1>1, ChainParts
<1>3. Find(l, s[i]) = p[i] /\ s[i] # NoItem
  BY FindsItem
<1>4. NodeAt(l, i - 1) = p[i]
  <2>1. NodeAt(l, i - 1) = Node(p, (i - 1) + 1)
    BY <1>1, ItemsInOrder
  <2> QED BY <1>1, <1>2, <2>1
<1>5. IsList(Unlink(l, p[i]), RemoveAt(s, i))
  BY UnlinkList
<1>6. Reads(GetIndex(l, i - 1), s[i])
  <2>1. GetIndex(l, i - 1) = ItemOf(l, Node(p, i))
    BY <1>2, <1>4 DEF GetIndex
  <2>2. Reads(ItemOf(l, Node(p, i)), s[i])
    BY <1>1, ReadsNode
  <2> QED BY <2>1, <2>2
<1>7. IsList(ExtIndex(l, i - 1).list, RemoveAt(s, i))
  <2>1. ExtIndex(l, i - 1) = Gives(Unlink(l, p[i]), s[i])
    BY <1>2, <1>4 DEF ExtIndex, ExtNode
  <2>2. ExtIndex(l, i - 1).list = Unlink(l, p[i])
    BY <2>1 DEF Gives
  <2> QED BY <1>5, <2>2
<1>8. IsList(ExtItem(l, s[i]).list, RemoveAt(s, i))
  <2>1. ExtItem(l, s[i]) = Done(Unlink(l, p[i]))
    BY <1>2, <1>3 DEF ExtItem
  <2>2. ExtItem(l, s[i]).list = Unlink(l, p[i])
    BY <2>1 DEF Done
  <2> QED BY <1>5, <2>2
<1>9. IsList(AddAfter(l, s[i], x).list, InsertAt(s, i + 1, x))
  <2>1. AddAfter(l, s[i], x) = Done(Insert(l, p[i], l.node[p[i]].next, x))
    BY <1>2, <1>3 DEF AddAfter
  <2>2. AddAfter(l, s[i], x).list = Insert(l, Node(p, i), Node(p, i + 1), x)
    BY <1>2, <2>1 DEF Done
  <2>3. IsList(Insert(l, Node(p, i), Node(p, i + 1), x), InsertAt(s, i + 1, x))
    BY <1>1, InsertList
  <2> QED BY <2>2, <2>3
<1>10. IsList(AddBefore(l, s[i], x).list, InsertAt(s, i, x))
  <2> DEFINE k == i - 1
  <2>1. AddBefore(l, s[i], x) = Done(Insert(l, l.node[p[i]].prev, p[i], x))
    BY <1>2, <1>3 DEF AddBefore
  <2>2. AddBefore(l, s[i], x).list = Insert(l, Node(p, i - 1), Node(p, i), x)
    BY <1>2, <2>1 DEF Done
  <2>3. k \in 0..Len(s) /\ k + 1 = i
    BY <1>1
  <2>4. AddBefore(l, s[i], x).list = Insert(l, Node(p, k), Node(p, i), x)
    BY <2>2
  <2> HIDE DEF k
  <2>5. IsList(Insert(l, Node(p, k), Node(p, k + 1), x), InsertAt(s, k + 1, x))
    BY <2>3, InsertList
  <2> QED BY <2>3, <2>4, <2>5
<1>11. IsList(ModifyItem(l, s[i], x).list, [s EXCEPT ![i] = x])
  <2>1. ModifyItem(l, s[i], x) = Done([l EXCEPT !.node[p[i]].item = x])
    BY <1>2, <1>3 DEF ModifyItem
  <2>2. ModifyItem(l, s[i], x).list = [l EXCEPT !.node[p[i]].item = x]
    BY <2>1 DEF Done
  <2>3. IsList([l EXCEPT !.node[p[i]].item = x], [s EXCEPT ![i] = x])
    BY ModifyList
  <2> QED BY <2>2, <2>3
<1> QED BY <1>6, <1>7, <1>8, <1>9, <1>10, <1>11

\* The neighbours of the item at position i.
LEMMA BesideAnItem ==
  ASSUME NEW l, NEW p, NEW S, NEW s \in Seq(S), Chain(l, p, s), Distinct(s),
         NoItem \notin S, NEW i \in 1..Len(s)
  PROVE  /\ i < Len(s) => Reads(GetNext(l, s[i]), s[i + 1])
         /\ ~(i < Len(s)) => GetNext(l, s[i]).err = "range"
         /\ i > 1 => Reads(GetPrev(l, s[i]), s[i - 1])
         /\ ~(i > 1) => GetPrev(l, s[i]).err = "range"
<1> DEFINE n == Len(s)
           j == i + 1
           k == i - 1
<1>1. n \in Nat /\ Len(p) = n /\ i \in 1..Len(p) /\ j \in Int /\ k \in Int
      /\ (i < n <=> j \in 1..Len(p)) /\ (i > 1 <=> k \in 1..Len(p))
  BY ChainParts
<1>2. p[i] # 0 /\ l.node[p[i]].next = Node(p, i + 1) /\ l.node[p[i]].prev = Node(p, i - 1)
  <2>1. i \in 1..Len(p)
    BY <1>1
  <2> QED BY <2>1, AtPosition
<1>3. Find(l, s[i]) = p[i] /\ s[i] # NoItem
  BY FindsItem
<1>4. GetNext(l, s[i]) = ItemOf(l, Node(p, j))
  BY <1>2, <1>3 DEF GetNext
<1>5. GetPrev(l, s[i]) = ItemOf(l, Node(p, k))
  BY <1>2, <1>3 DEF GetPrev
<1> SUFFICES /\ i < n => Reads(GetNext(l, s[i]), s[j])
             /\ ~(i < n) => GetNext(l, s[i]).err = "range"
             /\ i > 1 => Reads(GetPrev(l, s[i]), s[k])
             /\ ~(i > 1) => GetPrev(l, s[i]).err = "range"
  OBVIOUS
<1> HIDE DEF j, k
<1>6. /\ j \in 1..Len(p) => Reads(ItemOf(l, Node(p, j)), s[j])
      /\ j \notin 1..Len(p) => ItemOf(l, Node(p, j)).err = "range"
  BY <1>1, ReadsNode
<1>7. /\ k \in 1..Len(p) => Reads(ItemOf(l, Node(p, k)), s[k])
      /\ k \notin 1..Len(p) => ItemOf(l, Node(p, k)).err = "range"
  BY <1>1, ReadsNode
<1> QED BY <1>1, <1>4, <1>5, <1>6, <1>7

\* What ll.c promises: on every list that is a chain, whatever its length, its
\* nodes' addresses and its items (each listed once), every operation gives what
\* it gives on the sequence of the items, and leaves the links of both
\* directions whole.
THEOREM OperationsOfAChain ==
  ASSUME NEW l, NEW p, NEW S, NEW s \in Seq(S), Chain(l, p, s), Distinct(s), NEW x \in S,
         ~Lists(s, x), NoItem \notin S
  PROVE  OperationsAgree(l, s, x)
<1> DEFINE n == Len(s)
<1>1. /\ IsList(l, s)
      /\ IsList(AddHead(l, x), <<x>> \o s)
      /\ IsList(AddTail(l, x), Append(s, x))
      /\ IsList(Combine(l, AddTail(Empty, x)), Append(s, x))
  BY AtTheEnds
<1>2. /\ n > 0 => Reads(GetHead(l), s[1]) /\ Reads(GetTail(l), s[n])
      /\ ~(n > 0) => GetHead(l).err = "range" /\ GetTail(l).err = "range"
  BY ReadsTheEnds
<1>3. /\ n > 0 =>
           /\ Reads(ExtHead(l), s[1]) /\ IsList(ExtHead(l).list, Tail(s))
           /\ ExtTail(l).item = s[n]
           /\ IsList(ExtTail(l).list, SubSeq(s, 1, n - 1))
      /\ ~(n > 0) => ExtHead(l).err = "range" /\ ExtHead(l).list = l
  BY ExtractsTheEnds
<1>4. x # NoItem
  OBVIOUS
<1>5. /\ GetItem(l, x).err = "not there" /\ ExtItem(l, x).err = "not there"
      /\ GetNext(l, x).err = "range" /\ AddAfter(l, x, x).list = l
  BY <1>4, OfAnUnlisted
<1>6. ASSUME NEW i \in 1..n
      PROVE  /\ Reads(GetIndex(l, i - 1), s[i])
             /\ IsList(ExtIndex(l, i - 1).list, RemoveAt(s, i))
             /\ IsList(ExtItem(l, s[i]).list, RemoveAt(s, i))
             /\ IsList(AddAfter(l, s[i], x).list, InsertAt(s, i + 1, x))
             /\ IsList(AddBefore(l, s[i], x).list, InsertAt(s, i, x))
             /\ IsList(ModifyItem(l, s[i], x).list, [s EXCEPT ![i] = x])
  BY AtAnItem
<1>7. ASSUME NEW i \in 1..n
      PROVE  /\ i < n => Reads(GetNext(l, s[i]), s[i + 1])
             /\ ~(i < n) => GetNext(l, s[i]).err = "range"
             /\ i > 1 => Reads(GetPrev(l, s[i]), s[i - 1])
             /\ ~(i > 1) => GetPrev(l, s[i]).err = "range"
  BY BesideAnItem
<1>8. n \in Nat /\ (n > 0 <=> ~(n = 0))
  OBVIOUS
<1>9. IsList(ExtHead(l).list, IF n = 0 THEN s ELSE Tail(s))
  BY <1>1, <1>3, <1>8
<1> DEFINE ReadsAs(r, present, item) ==
             IF present THEN r.err = "none" /\ r.item = item ELSE r.err = "range"
<1>10. ASSUME NEW r, NEW item, NEW present \in BOOLEAN,
              present => Reads(r, item), ~present => r.err = "range"
       PROVE  ReadsAs(r, present, item)
  BY <1>10 DEF Reads
<1> HIDE DEF ReadsAs
<1>11. ASSUME NEW i \in 1..n
       PROVE  /\ ReadsAs(GetIndex(l, i - 1), TRUE, s[i])
              /\ ReadsAs(GetNext(l, s[i]), i < n, s[i + 1])
              /\ ReadsAs(GetPrev(l, s[i]), i > 1, s[i - 1])
  <2>1. (i < n) \in BOOLEAN /\ (i > 1) \in BOOLEAN
    BY <1>8
  <2> QED BY <1>6, <1>7, <1>10, <2>1, Zenon
<1>12. /\ ReadsAs(GetHead(l), n > 0, s[1])
       /\ ReadsAs(GetTail(l), n > 0, s[n])
       /\ ReadsAs(ExtHead(l), n > 0, s[1])
  <2>1. (n > 0) \in BOOLEAN
    BY <1>8
  <2> QED BY <1>2, <1>3, <1>10, <2>1, Zenon
<1>13. /\ n > 0 => ExtTail(l).item = s[n] /\ IsList(ExtTail(l).list, SubSeq(s, 1, n - 1))
  BY <1>3
<1> QED BY <1>1, <1>5, <1>6, <1>9, <1>11, <1>12, <1>13, Zenon DEF OperationsAgree, ReadsAs

\* An element replaced.
LEMMA Replaced ==
  ASSUME NEW S, NEW s \in Seq(S), NEW v, NEW a
  PROVE  LET t == [s EXCEPT ![a] = v]
         IN  /\ t \in Seq(S \cup {v}) /\ Len(t) = Len(s)
             /\ \A i \in 1..Len(s) : t[i] = IF i = a THEN v ELSE s[i]
<1> DEFINE n == Len(s)
           T == S \cup {v}
           t == [s EXCEPT ![a] = v]
<1>1. n \in Nat /\ DOMAIN s = 1..n /\ \A i \in 1..n : s[i] \in S
  OBVIOUS
<1>2. t = [i \in 1..n |-> IF i = a THEN v ELSE s[i]]
  BY <1>1
<1> HIDE DEF t
<1>3. t \in [1..n -> T]
  BY <1>1, <1>2
<1> HIDE DEF n, T
<1>4. t \in Seq(T) /\ Len(t) = n
  BY <1>1, <1>3
<1>5. \A i \in 1..n : t[i] = IF i = a THEN v ELSE s[i]
  BY <1>2
<1> QED BY <1>4, <1>5 DEF n, T, t

-----------------------------------------------------------------------------
(***************************************************************************)
(* The numbers of the packets made and not yet taken.                       *)
(***************************************************************************)

\* The numbers above a up to b.
Numbers(a, b) == [i \in 1..(b - a) |-> a + i]

\* They are a sequence.
LEMMA NumbersFrom ==
  ASSUME NEW a \in Nat, NEW b \in Nat, a <= b
  PROVE  /\ Numbers(a, b) \in Seq(Nat) /\ Len(Numbers(a, b)) = b - a
         /\ \A i \in 1..(b - a) : Numbers(a, b)[i] = a + i
<1> DEFINE n == b - a
           N == Numbers(a, b)
<1>1. n \in Nat
  OBVIOUS
<1>2. N = [i \in 1..n |-> a + i]
  BY DEF Numbers
<1> SUFFICES N \in Seq(Nat) /\ Len(N) = n /\ \A i \in 1..n : N[i] = a + i
  OBVIOUS
<1> HIDE DEF n, N
<1> QED BY <1>1, <1>2

\* One number more at the end.
LEMMA NumberMore ==
  ASSUME NEW a \in Nat, NEW b \in Nat, a <= b
  PROVE  Append(Numbers(a, b), b + 1) = Numbers(a, b + 1)
<1> DEFINE M == Numbers(a, b)
           N == Numbers(a, b + 1)
           n == b - a
<1>1. M \in Seq(Nat) /\ Len(M) = n /\ \A i \in 1..n : M[i] = a + i
  BY NumbersFrom
<1>2. N \in Seq(Nat) /\ Len(N) = n + 1 /\ \A i \in 1..(n + 1) : N[i] = a + i
  <2>1. b + 1 \in Nat /\ a <= b + 1 /\ (b + 1) - a = n + 1
    OBVIOUS
  <2> QED BY <2>1, NumbersFrom
<1>3. n \in Nat /\ a + (n + 1) = b + 1 /\ b + 1 \in Nat
  OBVIOUS
<1> HIDE DEF M, N, n
<1>4. /\ Append(M, b + 1) \in Seq(Nat) /\ Len(Append(M, b + 1)) = n + 1
      /\ \A i \in 1..(n + 1) : Append(M, b + 1)[i] = IF i = n + 1 THEN b + 1 ELSE M[i]
  BY <1>1, <1>3
<1>5. ASSUME NEW i \in 1..(n + 1) PROVE Append(M, b + 1)[i] = N[i]
  <2>1. CASE i = n + 1
    BY <1>2, <1>3, <1>4, <2>1
  <2>2. CASE i \in 1..n
    <3>1. i # n + 1
      BY <1>3, <2>2
    <3> QED BY <1>1, <1>2, <1>4, <2>2, <3>1
  <2>3. i = n + 1 \/ i \in 1..n
    BY <1>3
  <2> QED BY <2>1, <2>2, <2>3
<1>6. Append(M, b + 1) = N
  BY <1>2, <1>4, <1>5, SameElements
<1> QED BY <1>6 DEF M, N

\* One number less at the beginning.
LEMMA NumberLess ==
  ASSUME NEW a \in Nat, NEW b \in Nat, a < b
  PROVE  Tail(Numbers(a, b)) = Numbers(a + 1, b)
<1> DEFINE M == Numbers(a, b)
           N == Numbers(a + 1, b)
           n == b - a
<1>1. M \in Seq(Nat) /\ Len(M) = n /\ \A i \in 1..n : M[i] = a + i
  BY NumbersFrom
<1>2. N \in Seq(Nat) /\ Len(N) = n - 1 /\ \A i \in 1..(n - 1) : N[i] = (a + 1) + i
  <2>1. a + 1 \in Nat /\ a + 1 <= b /\ b - (a + 1) = n - 1
    OBVIOUS
  <2> QED BY <2>1, NumbersFrom
<1>3. n \in Nat /\ n > 0
  OBVIOUS
<1> HIDE DEF M, N, n
<1>4. /\ Tail(M) \in Seq(Nat) /\ Len(Tail(M)) = n - 1
      /\ \A i \in 1..(n - 1) : Tail(M)[i] = M[i + 1]
  BY <1>1, <1>3
<1>5. ASSUME NEW i \in 1..(n - 1) PROVE Tail(M)[i] = N[i]
  <2>1. i + 1 \in 1..n /\ a + (i + 1) = (a + 1) + i
    BY <1>3
  <2> QED BY <1>1, <1>2, <1>4, <2>1
<1>6. Tail(M) = N
  BY <1>2, <1>4, <1>5, SameElements
<1> QED BY <1>6 DEF M, N

\* The elements of a sequence with one more.
LEMMA ListsAppended ==
  ASSUME NEW S, NEW s \in Seq(S), NEW x \in S, ~Lists(s, x), Distinct(s)
  PROVE  /\ Distinct(Append(s, x))
         /\ \A y : Lists(Append(s, x), y) <=> Lists(s, y) \/ y = x
<1> DEFINE n == Len(s)
           t == Append(s, x)
<1>1. /\ n \in Nat /\ t \in Seq(S) /\ Len(t) = n + 1
      /\ \A i \in 1..(n + 1) : t[i] = IF i = n + 1 THEN x ELSE s[i]
  OBVIOUS
<1> SUFFICES Distinct(t) /\ \A y : Lists(t, y) <=> Lists(s, y) \/ y = x
  OBVIOUS
<1> HIDE DEF t
<1>2. \A i \in 1..n : i \in 1..(n + 1) /\ i # n + 1 /\ t[i] = s[i] /\ t[i] # x
  <2>1. \A i \in 1..n : i \in 1..(n + 1) /\ i # n + 1
    BY <1>1
  <2>2. \A i \in 1..n : s[i] # x
    BY DEF Lists
  <2> QED BY <1>1, <2>1, <2>2
<1>3. n + 1 \in 1..(n + 1) /\ t[n + 1] = x
  BY <1>1
<1>4. \A i \in 1..(n + 1) : i \in 1..n \/ i = n + 1
  BY <1>1
<1>5. Distinct(t)
  <2> SUFFICES ASSUME NEW i \in 1..(n + 1), NEW j \in 1..(n + 1), t[i] = t[j]
               PROVE  i = j
    BY <1>1 DEF Distinct
  <2>1. CASE i \in 1..n /\ j \in 1..n
    <3>1. s[i] = s[j]
      BY <1>2, <2>1
    <3> QED BY <2>1, <3>1 DEF Distinct
  <2>2. CASE i = n + 1
    BY <1>2, <1>3, <1>4, <2>2
  <2>3. CASE j = n + 1
    BY <1>2, <1>3, <1>4, <2>3
  <2> QED BY <1>4, <2>1, <2>2, <2>3
<1>6. ASSUME NEW y PROVE Lists(t, y) <=> Lists(s, y) \/ y = x
  <2>1. Lists(t, y) <=> \E i \in 1..(n + 1) : t[i] = y
    BY <1>1 DEF Lists
  <2>2. Lists(s, y) <=> \E i \in 1..n : s[i] = y
    BY DEF Lists
  <2> QED BY <1>2, <1>3, <1>4, <2>1, <2>2
<1> QED BY <1>5, <1>6

\* The elements of a sequence with one less.
LEMMA ListsRemoved ==
  ASSUME NEW S, NEW s \in Seq(S), Distinct(s), NEW k \in 1..Len(s)
  PROVE  /\ Distinct(RemoveAt(s, k))
         /\ \A y : Lists(RemoveAt(s, k), y) <=> Lists(s, y) /\ y # s[k]
<1> DEFINE n == Len(s)
           t == RemoveAt(s, k)
           At(i) == IF i < k THEN i ELSE i + 1
<1>1. /\ t \in Seq(S) /\ Len(t) = n - 1
      /\ \A i \in 1..(n - 1) : t[i] = IF i < k THEN s[i] ELSE s[i + 1]
  BY Removed
<1>2. n \in Nat /\ k \in 1..n
  OBVIOUS
<1> SUFFICES Distinct(t) /\ \A y : Lists(t, y) <=> Lists(s, y) /\ y # s[k]
  OBVIOUS
<1> HIDE DEF t
<1>3. \A i \in 1..(n - 1) : At(i) \in 1..n /\ At(i) # k
  BY <1>2
<1>4. \A i, j \in 1..(n - 1) : At(i) = At(j) => i = j
  BY <1>2
<1>5. \A i \in 1..(n - 1) : t[i] = s[At(i)]
  BY <1>1
<1>6. ASSUME NEW j \in 1..n, j # k PROVE \E i \in 1..(n - 1) : At(i) = j
  <2>1. CASE j < k
    BY <1>2, <2>1
  <2>2. CASE j > k
    <3>1. j - 1 \in 1..(n - 1) /\ At(j - 1) = j
      BY <1>2, <2>2
    <3> QED BY <3>1
  <2> QED BY <1>2, <1>6, <2>1, <2>2
<1> HIDE DEF At
<1>7. Distinct(t)
  <2> SUFFICES ASSUME NEW i \in 1..(n - 1), NEW j \in 1..(n - 1), t[i] = t[j]
               PROVE  i = j
    BY <1>1 DEF Distinct
  <2>1. At(i) \in 1..n /\ At(j) \in 1..n /\ s[At(i)] = s[At(j)]
    BY <1>3, <1>5
  <2>2. At(i) = At(j)
    BY <2>1 DEF Distinct
  <2> QED BY <1>4, <2>2
<1>8. ASSUME NEW y PROVE Lists(t, y) <=> Lists(s, y) /\ y # s[k]
  <2>1. Lists(t, y) <=> \E i \in 1..(n - 1) : t[i] = y
    BY <1>1 DEF Lists
  <2>2. Lists(s, y) <=> \E i \in 1..n : s[i] = y
    BY DEF Lists
  <2>3. \A i \in 1..(n - 1) : s[At(i)] # s[k]
    BY <1>2, <1>3 DEF Distinct
  <2>4. ASSUME Lists(t, y) PROVE Lists(s, y) /\ y # s[k]
    <3>1. PICK i \in 1..(n - 1) : t[i] = y
      BY <2>1, <2>4
    <3>2. At(i) \in 1..n /\ s[At(i)] = y
      BY <1>3, <1>5, <3>1
    <3> QED BY <2>2, <2>3, <3>2
  <2>5. ASSUME Lists(s, y), y # s[k] PROVE Lists(t, y)
    <3>1. PICK j \in 1..n : s[j] = y
      BY <2>2, <2>5
    <3>2. j # k
      BY <2>5, <3>1
    <3>3. PICK i \in 1..(n - 1) : At(i) = j
      BY <1>6, <3>2
    <3>4. t[i] = y
      BY <1>5, <3>1, <3>3
    <3> QED BY <2>1, <3>4
  <2> QED BY <2>4, <2>5
<1> QED BY <1>7, <1>8

-----------------------------------------------------------------------------
(***************************************************************************)
(* The registry of packets.                                                 *)
(***************************************************************************)

\* How many of the packets the handler has given to the connection.
Linked == Len(packets) - IF handler.at = "wait" THEN 0 ELSE 1

\* The packets the program has taken are the first of those made, as they are
\* now, and the handler's is the last.
InTurn ==
  /\ \E S : packets \in Seq(S) /\ got \in Seq(S)
  /\ Len(got) <= Linked
  /\ \A i \in 1..Len(got) : got[i] = packets[i]
  /\ held \subseteq 1..Len(got)
  /\ handler = [at |-> handler.at, pkt |-> handler.pkt]
  /\ handler.at # "wait" => handler.pkt = Len(packets)

\* The registry is a chain of the packets that are not freed, each once.
Registered ==
  \E p, s :
    /\ s \in Seq(Nat) /\ Chain(pktList, p, s) /\ Distinct(s)
    /\ \A y : Lists(s, y) <=> y \in held \cup (Len(got) + 1)..Len(packets)

\* The connection's list is a chain of those linked and not taken, in order.
Queued == \E p : Chain(conList, p, Numbers(Len(got), Linked))

Registry == InTurn /\ Registered /\ Queued

\* No packet, no node.
LEMMA RegistryInit == Init => Registry
<1> SUFFICES ASSUME Init PROVE Registry
  OBVIOUS
<1>1. /\ packets = <<>> /\ got = <<>> /\ pktList = Empty /\ conList = Empty /\ held = {}
      /\ handler = [at |-> "wait", pkt |-> 0]
  BY DEF Init
<1>2. <<>> \in Seq(Nat) /\ Len(<<>>) = 0 /\ 1..0 = {} /\ (0 + 1)..0 = {}
  OBVIOUS
<1>3. Linked = 0 /\ handler.at = "wait"
  BY <1>1, <1>2 DEF Linked
<1>4. InTurn
  BY <1>1, <1>2, <1>3 DEF InTurn
<1>5. Registered
  <2>1. Distinct(<<>>) /\ \A y : ~Lists(<<>>, y)
    BY <1>2 DEF Distinct, Lists
  <2>2. held \cup (Len(got) + 1)..Len(packets) = {}
    BY <1>1, <1>2
  <2> QED BY <1>1, <1>2, <2>1, <2>2, EmptyChain DEF Registered
<1>6. Queued
  <2>1. Numbers(0, 0) = <<>>
    <3>1. Numbers(0, 0) \in Seq(Nat) /\ Len(Numbers(0, 0)) = 0
      BY NumbersFrom
    <3> QED BY <3>1
  <2>2. Numbers(Len(got), Linked) = <<>>
    BY <1>1, <1>2, <1>3, <2>1
  <2> QED BY <1>1, <2>2, EmptyChain DEF Queued
<1> QED BY <1>4, <1>5, <1>6 DEF Registry

\* How the counts are related.
LEMMA Counts ==
  ASSUME InTurn
  PROVE  /\ Len(packets) \in Nat /\ Len(got) \in Nat /\ Linked \in Nat
         /\ Len(got) <= Linked /\ Linked <= Len(packets)
         /\ handler.at = "wait" => Linked = Len(packets)
         /\ handler.at # "wait" => Linked = Len(packets) - 1
<1>1. Len(packets) \in Nat /\ Len(got) \in Nat /\ Len(got) <= Linked
  BY DEF InTurn
<1> QED BY <1>1 DEF Linked

\* A new packet: the last of those made, the last registered, and the handler's.
LEMMA TakesKeep == Registry /\ HandlerTakes => Registry'
<1> SUFFICES ASSUME Registry, HandlerTakes PROVE Registry'
  OBVIOUS
<1> DEFINE m == Len(packets)
           g == Len(got)
<1>1. InTurn /\ Registered /\ Queued
  BY DEF Registry
<1>2. /\ m \in Nat /\ g \in Nat /\ g <= m /\ handler.at = "wait" /\ Linked = m
  BY <1>1, Counts DEF HandlerTakes
<1>3. PICK new : packets' = Append(packets, new)
  BY DEF HandlerTakes
<1>4. /\ pktList' = AddTail(pktList, m + 1) /\ handler' = [at |-> "post", pkt |-> m + 1]
      /\ conList' = conList /\ got' = got /\ held' = held
  BY DEF HandlerTakes
<1>5. PICK S : packets \in Seq(S) /\ got \in Seq(S)
  BY <1>1 DEF InTurn
<1> DEFINE T == S \cup {new}
<1>6. packets \in Seq(T) /\ got \in Seq(T) /\ new \in T
  BY <1>5
<1> HIDE DEF T
<1>7. /\ packets' \in Seq(T) /\ Len(packets') = m + 1
      /\ \A i \in 1..m : packets'[i] = packets[i]
  BY <1>3, <1>6
<1>8. Linked' = m
  BY <1>2, <1>4, <1>7 DEF Linked
<1>9. InTurn'
  <2>1. \A i \in 1..g : got[i] = packets'[i]
    <3>1. \A i \in 1..g : i \in 1..m /\ got[i] = packets[i]
      BY <1>1, <1>2 DEF InTurn
    <3> QED BY <1>7, <3>1
  <2>2. held \subseteq 1..g
    BY <1>1 DEF InTurn
  <2>3. handler' = [at |-> handler'.at, pkt |-> handler'.pkt] /\ handler'.pkt = m + 1
    BY <1>4
  <2> QED BY <1>2, <1>4, <1>6, <1>7, <1>8, <2>1, <2>2, <2>3 DEF InTurn
<1>10. Registered'
  <2>1. PICK p, s :
          /\ s \in Seq(Nat) /\ Chain(pktList, p, s) /\ Distinct(s)
          /\ \A y : Lists(s, y) <=> y \in held \cup (g + 1)..m
    BY <1>1 DEF Registered
  <2>2. ~Lists(s, m + 1) /\ m + 1 \in Nat
    <3>1. held \subseteq 1..g
      BY <1>1 DEF InTurn
    <3> QED BY <1>2, <2>1, <3>1
  <2>3. PICK q : Chain(pktList', q, Append(s, m + 1))
    BY <1>4, <2>1, <2>2, AddTailChain
  <2>4. /\ Distinct(Append(s, m + 1))
        /\ \A y : Lists(Append(s, m + 1), y) <=> Lists(s, y) \/ y = m + 1
    BY <2>1, <2>2, ListsAppended
  <2>5. Append(s, m + 1) \in Seq(Nat)
    BY <2>1, <2>2
  <2>6. \A y : y \in held \cup (g + 1)..m \/ y = m + 1 <=> y \in held \cup (g + 1)..(m + 1)
    BY <1>2
  <2>7. \A y : Lists(Append(s, m + 1), y) <=> y \in held' \cup (Len(got') + 1)..Len(packets')
    BY <1>4, <1>7, <2>1, <2>4, <2>6
  <2> QED BY <2>3, <2>4, <2>5, <2>7 DEF Registered
<1>11. Queued'
  BY <1>1, <1>2, <1>4, <1>8 DEF Queued
<1> QED BY <1>9, <1>10, <1>11 DEF Registry

\* What the handler reads goes into its own packet, which nobody has taken.
LEMMA ReadsKeep == Registry /\ HandlerReads => Registry'
<1> SUFFICES ASSUME Registry, HandlerReads PROVE Registry'
  OBVIOUS
<1> DEFINE m == Len(packets)
           g == Len(got)
<1>1. InTurn /\ Registered /\ Queued
  BY DEF Registry
<1>2. /\ m \in Nat /\ g \in Nat /\ g <= m - 1 /\ Linked = m - 1
      /\ handler.at = "post" /\ handler.pkt = m
  <2>1. handler.at = "post" /\ handler.at # "wait"
    BY DEF HandlerReads
  <2> QED BY <1>1, <2>1, Counts DEF InTurn
<1>3. PICK v : packets' = [packets EXCEPT ![handler.pkt] = v]
  BY DEF HandlerReads
<1>4. /\ handler' = [handler EXCEPT !.at = "link"]
      /\ pktList' = pktList /\ conList' = conList /\ got' = got /\ held' = held
  BY DEF HandlerReads
<1>5. PICK S : packets \in Seq(S) /\ got \in Seq(S)
  BY <1>1 DEF InTurn
<1>6. got \in Seq(S \cup {v})
  BY <1>5
<1>7. /\ packets' \in Seq(S \cup {v}) /\ Len(packets') = m
      /\ \A i \in 1..m : packets'[i] = IF i = m THEN v ELSE packets[i]
  BY <1>2, <1>3, <1>5, Replaced
<1>8. handler'.at = "link" /\ handler'.pkt = m /\ handler' = [at |-> handler'.at, pkt |-> handler'.pkt]
  <2>1. handler = [at |-> handler.at, pkt |-> handler.pkt]
    BY <1>1 DEF InTurn
  <2>2. handler' = [at |-> "link", pkt |-> handler.pkt]
    BY <1>4, <2>1
  <2> QED BY <1>2, <2>2
<1>9. Linked' = m - 1
  BY <1>2, <1>7, <1>8 DEF Linked
<1>10. InTurn'
  <2>1. \A i \in 1..g : got[i] = packets'[i]
    <3>1. \A i \in 1..g : i \in 1..m /\ i # m
      BY <1>2
    <3>2. \A i \in 1..g : got[i] = packets[i]
      BY <1>1 DEF InTurn
    <3> QED BY <1>7, <3>1, <3>2
  <2>2. held \subseteq 1..g
    BY <1>1 DEF InTurn
  <2> QED BY <1>2, <1>4, <1>6, <1>7, <1>8, <1>9, <2>1, <2>2 DEF InTurn
<1>11. Registered'
  BY <1>1, <1>4, <1>7 DEF Registered
<1>12. Queued'
  BY <1>1, <1>2, <1>4, <1>9 DEF Queued
<1> QED BY <1>10, <1>11, <1>12 DEF Registry

\* The handler's packet is the next number in the connection's list.
LEMMA LinksKeep == Registry /\ HandlerLinks => Registry'
<1> SUFFICES ASSUME Registry, HandlerLinks PROVE Registry'
  OBVIOUS
<1> DEFINE m == Len(packets)
           g == Len(got)
<1>1. InTurn /\ Registered /\ Queued
  BY DEF Registry
<1>2. m \in Nat /\ g \in Nat /\ g <= m - 1 /\ Linked = m - 1 /\ handler.pkt = m
  <2>1. handler.at # "wait"
    BY DEF HandlerLinks
  <2> QED BY <1>1, <2>1, Counts DEF InTurn
<1>3. /\ conList' = AddTail(conList, m) /\ handler' = [at |-> "wait", pkt |-> 0]
      /\ packets' = packets /\ pktList' = pktList /\ got' = got /\ held' = held
  BY <1>2 DEF HandlerLinks
<1>4. Linked' = m /\ handler'.at = "wait" /\ handler' = [at |-> handler'.at, pkt |-> handler'.pkt]
  BY <1>2, <1>3 DEF Linked
<1>5. InTurn'
  BY <1>1, <1>2, <1>3, <1>4 DEF InTurn
<1>6. Registered'
  BY <1>1, <1>3 DEF Registered
<1>7. Queued'
  <2>1. PICK p : Chain(conList, p, Numbers(g, m - 1))
    BY <1>1, <1>2 DEF Queued
  <2>2. Numbers(g, m - 1) \in Seq(Nat)
    BY <1>2, NumbersFrom
  <2>3. PICK q : Chain(conList', q, Append(Numbers(g, m - 1), m))
    BY <1>2, <1>3, <2>1, <2>2, AddTailChain
  <2>4. Append(Numbers(g, m - 1), m) = Numbers(g, m)
    <3> DEFINE b == m - 1
    <3>1. b \in Nat /\ g <= b /\ b + 1 = m
      BY <1>2
    <3> HIDE DEF b
    <3>2. Append(Numbers(g, b), b + 1) = Numbers(g, b + 1)
      BY <1>2, <3>1, NumberMore
    <3> QED BY <3>1, <3>2 DEF b
  <2> QED BY <1>3, <1>4, <2>3, <2>4 DEF Queued
<1> QED BY <1>5, <1>6, <1>7 DEF Registry

\* The program takes the first that is linked.
LEMMA TakingKeeps == Registry /\ ProgramTakes => Registry'
<1> SUFFICES ASSUME Registry, ProgramTakes PROVE Registry'
  OBVIOUS
<1> DEFINE m == Len(packets)
           g == Len(got)
           k == Linked
<1>1. InTurn /\ Registered /\ Queued
  BY DEF Registry
<1>2. m \in Nat /\ g \in Nat /\ k \in Nat /\ g <= k /\ k <= m
  BY <1>1, Counts
<1>3. PICK p : Chain(conList, p, Numbers(g, k))
  BY <1>1 DEF Queued
<1> HIDE DEF k
<1>4. /\ Numbers(g, k) \in Seq(Nat) /\ Len(Numbers(g, k)) = k - g
      /\ \A i \in 1..(k - g) : Numbers(g, k)[i] = g + i
  BY <1>2, NumbersFrom
<1>5. g < k
  <2>1. conList.head # 0 /\ conList.head = Node(p, 1) /\ Len(p) = k - g
    BY <1>3, <1>4, ChainParts DEF ProgramTakes
  <2>2. 1 \in 1..(k - g)
    BY <2>1 DEF Node
  <2> QED BY <1>2, <2>2
<1>6. p[1] # 0 /\ ExtHead(conList) = Gives(Unlink(conList, p[1]), g + 1)
  <2>1. 1 \in 1..Len(p)
    BY <1>2, <1>3, <1>4, <1>5, ChainParts
  <2>2. 1 \in 1..(k - g)
    BY <1>2, <1>5
  <2>3. conList.head = Node(p, 1)
    BY <1>3, ChainParts
  <2>4. Node(p, 1) = p[1] /\ p[1] # 0 /\ conList.node[p[1]].item = Numbers(g, k)[1]
    BY <1>3, <2>1, AtPosition
  <2>5. conList.node[p[1]].item = g + 1
    BY <1>4, <2>2, <2>4
  <2> QED BY <2>3, <2>4, <2>5 DEF ExtHead, ExtNode
<1>7. ExtHead(conList).list = Unlink(conList, p[1]) /\ ExtHead(conList).item = g + 1
  BY <1>6 DEF Gives
<1>8. /\ conList' = Unlink(conList, p[1]) /\ got' = Append(got, packets[g + 1])
      /\ held' = held \cup {g + 1}
      /\ handler' = handler /\ packets' = packets /\ pktList' = pktList
  BY <1>7 DEF ProgramTakes
<1>9. PICK S : packets \in Seq(S) /\ got \in Seq(S)
  BY <1>1 DEF InTurn
<1>10. g + 1 \in 1..m /\ packets[g + 1] \in S
  BY <1>2, <1>5, <1>9
<1>11. /\ got' \in Seq(S) /\ Len(got') = g + 1
       /\ \A i \in 1..(g + 1) : got'[i] = IF i = g + 1 THEN packets[g + 1] ELSE got[i]
  BY <1>8, <1>9, <1>10
<1>12. Linked' = k
  BY <1>8 DEF Linked, k
<1>13. InTurn'
  <2>1. \A i \in 1..(g + 1) : got'[i] = packets[i]
    <3>1. \A i \in 1..(g + 1) : i = g + 1 \/ i \in 1..g
      BY <1>2
    <3>2. \A i \in 1..g : got[i] = packets[i]
      BY <1>1 DEF InTurn
    <3> QED BY <1>11, <3>1, <3>2
  <2>2. held' \subseteq 1..(g + 1)
    <3>1. held \subseteq 1..g
      BY <1>1 DEF InTurn
    <3>2. 1..g \subseteq 1..(g + 1) /\ g + 1 \in 1..(g + 1)
      BY <1>2
    <3> HIDE DEF g
    <3> QED BY <1>8, <3>1, <3>2
  <2>3. /\ handler = [at |-> handler.at, pkt |-> handler.pkt]
        /\ handler.at # "wait" => handler.pkt = m
    BY <1>1 DEF InTurn
  <2>4. Len(got') <= Linked'
    BY <1>2, <1>5, <1>11, <1>12
  <2> QED BY <1>8, <1>9, <1>11, <2>1, <2>2, <2>3, <2>4 DEF InTurn
<1>14. Registered'
  <2>1. \A y : y \in held \cup (g + 1)..m <=> y \in held' \cup ((g + 1) + 1)..m
    BY <1>2, <1>5, <1>8
  <2> QED BY <1>1, <1>8, <1>11, <2>1 DEF Registered
<1>15. Queued'
  <2>1. 1 \in 1..Len(Numbers(g, k))
    BY <1>2, <1>4, <1>5
  <2>2. Chain(conList', RemoveAt(p, 1), RemoveAt(Numbers(g, k), 1))
    BY <1>3, <1>4, <1>8, <2>1, UnlinkChain
  <2>3. RemoveAt(Numbers(g, k), 1) = Numbers(g + 1, k)
    <3>1. Len(Numbers(g, k)) > 0
      BY <1>2, <1>4, <1>5
    <3>2. RemoveAt(Numbers(g, k), 1) = Tail(Numbers(g, k))
      BY <1>4, <3>1, EndsRemoved
    <3> QED BY <1>2, <1>5, <3>2, NumberLess
  <2> QED BY <1>11, <1>12, <2>2, <2>3 DEF Queued
<1> QED BY <1>13, <1>14, <1>15 DEF Registry

\* The program frees one it holds, wherever it is in the registry.
LEMMA FreeingKeeps == Registry /\ ProgramFrees => Registry'
<1> SUFFICES ASSUME Registry, ProgramFrees PROVE Registry'
  OBVIOUS
<1> DEFINE m == Len(packets)
           g == Len(got)
<1>1. InTurn /\ Registered /\ Queued
  BY DEF Registry
<1>2. m \in Nat /\ g \in Nat
  BY <1>1, Counts
<1>3. PICK x \in held : held' = held \ {x} /\ pktList' = ExtItem(pktList, x).list
  BY DEF ProgramFrees
<1>4. handler' = handler /\ packets' = packets /\ conList' = conList /\ got' = got
  BY DEF ProgramFrees
<1>5. held \subseteq 1..g
  BY <1>1 DEF InTurn
<1>6. PICK p, s :
        /\ s \in Seq(Nat) /\ Chain(pktList, p, s) /\ Distinct(s)
        /\ \A y : Lists(s, y) <=> y \in held \cup (g + 1)..m
  BY <1>1 DEF Registered
<1>7. PICK k \in 1..Len(s) : s[k] = x
  BY <1>3, <1>6 DEF Lists
<1>8. Find(pktList, x) = p[k] /\ p[k] # 0
  <2>1. Find(pktList, s[k]) = p[k]
    BY <1>6, FindsItem
  <2>2. k \in 1..Len(p)
    BY <1>6, ChainParts
  <2> QED BY <1>6, <1>7, <2>1, <2>2, AtPosition
<1>9. pktList' = Unlink(pktList, p[k])
  <2>1. ExtItem(pktList, x) = Done(Unlink(pktList, p[k]))
    BY <1>8 DEF ExtItem
  <2> QED BY <1>3, <2>1 DEF Done
<1>10. Chain(pktList', RemoveAt(p, k), RemoveAt(s, k))
  BY <1>6, <1>9, UnlinkChain
<1>11. RemoveAt(s, k) \in Seq(Nat)
  BY <1>6, Removed
<1>12. /\ Distinct(RemoveAt(s, k))
       /\ \A y : Lists(RemoveAt(s, k), y) <=> Lists(s, y) /\ y # s[k]
  BY <1>6, ListsRemoved
<1>13. x \notin (g + 1)..m
  BY <1>2, <1>3, <1>5
<1>14. \A y : Lists(RemoveAt(s, k), y) <=> y \in held' \cup (Len(got') + 1)..Len(packets')
  BY <1>3, <1>4, <1>6, <1>7, <1>12, <1>13
<1>15. Registered'
  BY <1>10, <1>11, <1>12, <1>14 DEF Registered
<1>16. Linked' = Linked
  BY <1>4 DEF Linked
<1>17. InTurn'
  BY <1>1, <1>3, <1>4, <1>16 DEF InTurn
<1>18. Queued'
  BY <1>1, <1>4, <1>16 DEF Queued
<1> QED BY <1>15, <1>17, <1>18 DEF Registry

\* No other step touches the packets.
LEMMA RegistryNext == Registry /\ [Next]_vars => Registry'
<1> SUFFICES ASSUME Registry, [Next]_vars PROVE Registry'
  OBVIOUS
<1>1. \/ HandlerTakes \/ HandlerReads \/ HandlerLinks \/ ProgramTakes \/ ProgramFrees
      \/ UNCHANGED <<handler, packets, pktList, conList, got, held>>
  BY DEF Next, Send, ReadChunk, Silence, Pause, TimedOut, Lose, Interrupted, EndOfFile, Consume,
         HandlerDrops, lists, vars
<1>2. CASE UNCHANGED <<handler, packets, pktList, conList, got, held>>
  <2>1. Linked' = Linked
    BY <1>2 DEF Linked
  <2> QED BY <1>2, <2>1 DEF Registry, InTurn, Registered, Queued
<1> QED BY <1>1, <1>2, TakesKeep, ReadsKeep, LinksKeep, TakingKeeps, FreeingKeeps

\* So it is in every state.
LEMMA RegistryIsKept == Spec => []Registry
<1> QED BY RegistryInit, RegistryNext, PTL DEF Spec

\* Of such a registry the operations agree with the sequence.
LEMMA RegistryAgrees == Registry => ListOperations
<1> SUFFICES ASSUME Registry PROVE ListOperations
  OBVIOUS
<1>1. InTurn /\ Registered
  BY DEF Registry
<1>2. PICK p, s :
         /\ s \in Seq(Nat) /\ Chain(pktList, p, s) /\ Distinct(s)
         /\ \A y : Lists(s, y) <=> y \in held \cup (Len(got) + 1)..Len(packets)
  BY <1>1 DEF Registered
<1>3. ~Lists(s, 0)
  <2>1. Len(got) \in Nat /\ Len(packets) \in Nat /\ held \subseteq 1..Len(got)
    BY <1>1, Counts DEF InTurn
  <2> QED BY <1>2, <2>1
<1>4. NoItem \notin Nat /\ 0 \in Nat
  BY NoItemAssumption DEF NoItemAssumption
<1>5. OperationsAgree(pktList, s, 0)
  BY <1>2, <1>3, <1>4, OperationsOfAChain
<1>6. Items(pktList) = s
  BY <1>2, ItemsInOrder
<1> QED BY <1>5, <1>6 DEF ListOperations

\* Each packet is in its place, and taken in its turn.
LEMMA RegistryIsInTurn == Registry => EachPacketOnce
<1> SUFFICES ASSUME Registry PROVE EachPacketOnce
  OBVIOUS
<1> DEFINE m == Len(packets)
           g == Len(got)
<1>1. InTurn /\ Registered /\ Queued
  BY DEF Registry
<1>2. m \in Nat /\ g \in Nat /\ Linked \in Nat /\ g <= Linked /\ Linked <= m
  BY <1>1, Counts
<1>3. got = SubSeq(packets, 1, g)
  <2>1. PICK S : packets \in Seq(S) /\ got \in Seq(S)
    BY <1>1 DEF InTurn
  <2>2. g \in 0..m
    BY <1>2
  <2>3. /\ SubSeq(packets, 1, g) \in Seq(S) /\ Len(SubSeq(packets, 1, g)) = g
        /\ \A i \in 1..g : SubSeq(packets, 1, g)[i] = packets[i]
    <3> HIDE DEF g
    <3> QED BY <1>2, <2>1, <2>2
  <2>4. \A i \in 1..g : got[i] = packets[i]
    BY <1>1 DEF InTurn
  <2> QED BY <2>1, <2>3, <2>4, SameElements
<1>4. Items(conList) = Numbers(g, Linked)
  <2>1. PICK p : Chain(conList, p, Numbers(g, Linked))
    BY <1>1 DEF Queued
  <2>2. Numbers(g, Linked) \in Seq(Nat)
    BY <1>2, NumbersFrom
  <2> QED BY <2>1, <2>2, ItemsInOrder
<1>5. held \subseteq 1..g
  BY <1>1 DEF InTurn
<1>6. Range(Items(pktList)) = held \cup (g + 1)..m
  <2>1. PICK p, s :
           /\ s \in Seq(Nat) /\ Chain(pktList, p, s) /\ Distinct(s)
           /\ \A y : Lists(s, y) <=> y \in held \cup (g + 1)..m
    BY <1>1 DEF Registered
  <2>2. Items(pktList) = s
    BY <2>1, ItemsInOrder
  <2>3. \A y : y \in Range(s) <=> Lists(s, y)
    <3>1. DOMAIN s = 1..Len(s)
      BY <2>1
    <3> QED BY <3>1 DEF Range, Lists
  <2> QED BY <2>1, <2>2, <2>3
<1>7. Items(conList) = [i \in 1..(Linked - g) |-> g + i]
  BY <1>4 DEF Numbers
<1> QED BY <1>3, <1>5, <1>6, <1>7 DEF EachPacketOnce, Linked

\* A packet is registered from the time the handler makes it until the program
\* frees it, and the program gets each once, in their order and complete,
\* however it delays the frees: for every number of packets.
THEOREM PacketsComeOnce == Spec => []EachPacketOnce
<1> QED BY RegistryIsKept, RegistryIsInTurn, PTL

\* The operations agree on the registry of live packets in every state, through
\* the receive handler's additions and the program's removals from anywhere in it.
THEOREM OperationsAlwaysAgree == Spec => []ListOperations
<1> QED BY RegistryIsKept, RegistryAgrees, PTL

-----------------------------------------------------------------------------
(***************************************************************************)
(* What the handler reads out of a packet.                                  *)
(***************************************************************************)

\* The keys a message makes.
KeysOf(msg) == IF CarriesSample(mode, msg) THEN PacketOf(mode, msg) ELSE <<>>

\* A packet has its keys before it is linked, and is not changed afterwards.
ReadInto ==
  /\ mode \in DOMAIN Frames
  /\ \A i \in 1..Len(packets) :
       /\ packets[i] = [msg |-> packets[i].msg, keys |-> packets[i].keys]
       /\ i <= Linked \/ handler.at = "link" => packets[i].keys = KeysOf(packets[i].msg)

\* At first there is no packet.
LEMMA ReadIntoInit == Init => ReadInto
BY DEF Init, ReadInto

\* funcPost gives the handler's packet its keys; no other step writes any.
LEMMA ReadIntoNext == Registry /\ ReadInto /\ [Next]_vars => ReadInto'
<1> SUFFICES ASSUME Registry, ReadInto, [Next]_vars PROVE ReadInto'
  OBVIOUS
<1> DEFINE m == Len(packets)
           Whole(p) == p = [msg |-> p.msg, keys |-> p.keys]
           Known(p) == p.keys = KeysOf(p.msg)
<1>1. InTurn
  BY DEF Registry
<1>2. /\ m \in Nat /\ Linked \in Nat
      /\ handler.at = "wait" => Linked = m
      /\ handler.at # "wait" => Linked = m - 1 /\ handler.pkt = m
  BY <1>1, Counts DEF InTurn
<1>3. PICK S : packets \in Seq(S)
  BY <1>1 DEF InTurn
<1>4. \A i \in 1..m : Whole(packets[i]) /\ (i <= Linked \/ handler.at = "link" => Known(packets[i]))
  BY DEF ReadInto
<1>5. mode' = mode /\ mode \in DOMAIN Frames
  BY DEF ReadInto, Next, Send, ReadChunk, Silence, Pause, TimedOut, Lose, Interrupted, EndOfFile,
         Consume, lists, vars
<1>6. \A msg : KeysOf(msg)' = KeysOf(msg)
  BY <1>5 DEF KeysOf
<1> HIDE DEF Whole
<1>7. SUFFICES \A i \in 1..Len(packets') :
                  /\ Whole(packets'[i])
                  /\ i <= Linked' \/ handler'.at = "link" => packets'[i].keys = KeysOf(packets'[i].msg)
  BY <1>5, <1>6 DEF ReadInto, Whole
<1>8. CASE HandlerTakes
  <2>1. PICK new : new = [msg |-> new.msg, keys |-> <<>>] /\ packets' = Append(packets, new)
    <3>1. PICK msg : packets' = Append(packets, [msg |-> msg, keys |-> <<>>])
      BY <1>8 DEF HandlerTakes
    <3> QED BY <3>1
  <2>2. handler.at = "wait" /\ handler'.at = "post" /\ Linked = m
    BY <1>2, <1>8 DEF HandlerTakes
  <2>3. /\ Len(packets') = m + 1 /\ packets'[m + 1] = new
        /\ \A i \in 1..m : packets'[i] = packets[i]
    BY <1>3, <2>1
  <2>4. Linked' = m
    BY <1>2, <2>2, <2>3 DEF Linked
  <2>5. Whole(new)
    BY <2>1 DEF Whole
  <2>6. \A i \in 1..(m + 1) : i = m + 1 \/ (i \in 1..m /\ i <= m)
    BY <1>2
  <2>7. ~(m + 1 <= m) /\ handler'.at # "link"
    BY <1>2, <2>2
  <2> QED BY <1>4, <2>2, <2>3, <2>4, <2>5, <2>6, <2>7
<1>9. CASE HandlerReads
  <2>1. handler.at = "post" /\ Linked = m - 1 /\ handler.pkt = m /\ m \in 1..m
    <3>1. handler.at = "post"
      BY <1>9 DEF HandlerReads
    <3> QED BY <1>2, <3>1
  <2> DEFINE msg == packets[m].msg
             v == [msg |-> msg, keys |-> KeysOf(msg)]
  <2>2. packets' = [packets EXCEPT ![m] = v]
    <3>1. packets' = [packets EXCEPT ![m].keys = KeysOf(msg)]
      BY <1>9, <2>1 DEF HandlerReads, KeysOf
    <3>2. packets[m] = [msg |-> packets[m].msg, keys |-> packets[m].keys]
      BY <1>4, <2>1 DEF Whole
    <3>3. [packets[m] EXCEPT !.keys = KeysOf(msg)] = v
      BY <3>2
    <3>4. [packets EXCEPT ![m].keys = KeysOf(msg)] = [packets EXCEPT ![m] = v]
      BY <3>3
    <3> QED BY <3>1, <3>4
  <2>3. v = [msg |-> v.msg, keys |-> v.keys] /\ v.keys = KeysOf(v.msg)
    OBVIOUS
  <2> HIDE DEF v
  <2>4. /\ Len(packets') = m /\ \A i \in 1..m : packets'[i] = IF i = m THEN v ELSE packets[i]
    BY <1>3, <2>2, Replaced
  <2>5. Whole(v)
    BY <2>3 DEF Whole
  <2>6. \A i \in 1..m : i = m \/ i <= Linked
    BY <1>2, <2>1
  <2> QED BY <1>4, <2>3, <2>4, <2>5, <2>6
<1>10. CASE HandlerLinks
  <2>1. handler.at = "link" /\ packets' = packets
    BY <1>10 DEF HandlerLinks
  <2> QED BY <1>4, <2>1
<1>11. CASE UNCHANGED <<handler, packets>>
  <2>1. Linked' = Linked
    BY <1>11 DEF Linked
  <2> QED BY <1>4, <1>11, <2>1
<1>12. HandlerTakes \/ HandlerReads \/ HandlerLinks \/ UNCHANGED <<handler, packets>>
  BY DEF Next, Send, ReadChunk, Silence, Pause, TimedOut, Lose, Interrupted, EndOfFile, Consume,
         HandlerDrops, ProgramTakes, ProgramFrees, lists, vars
<1> QED BY <1>8, <1>9, <1>10, <1>11, <1>12

\* So it is in every state.
LEMMA ReadIntoIsKept == Spec => []ReadInto
<1>1. Registry /\ ReadInto /\ [Next]_vars => (Registry /\ ReadInto)'
  BY RegistryNext, ReadIntoNext
<1> QED BY <1>1, RegistryInit, ReadIntoInit, PTL DEF Spec

-----------------------------------------------------------------------------
(***************************************************************************)
(* Recursive functions, and sequences.                                      *)
(***************************************************************************)

\* f has the results of iterating F from b, for up to n times.
Runs(f, n, V, b, F) ==
  /\ f \in [0..n -> V] /\ f[0] = b
  /\ \A i \in 1..n : f[i] = F[i][f[i - 1]]

\* There is such an f, for every n.
LEMMA Iterates ==
  ASSUME NEW n \in Nat, NEW V, NEW b \in V, NEW F \in [1..n -> [V -> V]]
  PROVE  \E f : Runs(f, n, V, b, F)
<1> DEFINE Good == {m \in 0..n : \E f : Runs(f, m, V, b, F)}
<1>1. 0 \in Good
  <2> DEFINE f == [i \in 0..0 |-> b]
  <2>1. Runs(f, 0, V, b, F)
    BY DEF Runs
  <2> QED BY <2>1
<1>2. ASSUME NEW m \in 1..n, m - 1 \in Good PROVE m \in Good
  <2>0. m \in Nat /\ m >= 1 /\ m <= n /\ m \in 0..n
    OBVIOUS
  <2>1. PICK f : Runs(f, m - 1, V, b, F)
    BY <1>2
  <2> HIDE DEF Good
  <2> DEFINE g == [i \in 0..m |-> IF i = m THEN F[m][f[m - 1]] ELSE f[i]]
  <2>2. F[m] \in [V -> V] /\ f[m - 1] \in V
    BY <2>0, <2>1 DEF Runs
  <2>3. g \in [0..m -> V]
    BY <2>0, <2>1, <2>2 DEF Runs
  <2>4. g[0] = b
    BY <2>0, <2>1 DEF Runs
  <2>5. ASSUME NEW i \in 1..m PROVE g[i] = F[i][g[i-1]]
    <3>1. i - 1 \in 0..(m - 1) /\ i - 1 # m /\ i - 1 \in 0..m /\ i \in 0..m
      BY <2>0
    <3>2. g[i - 1] = f[i - 1]
      BY <3>1
    <3>3. CASE i = m
      BY <3>1, <3>2, <3>3
    <3>4. CASE i # m
      <4>1. i \in 1..(m - 1)
        BY <2>0, <3>4
      <4> QED BY <2>1, <3>1, <3>2, <3>4, <4>1 DEF Runs
    <3> QED BY <3>3, <3>4
  <2>6. Runs(g, m, V, b, F)
    BY <2>3, <2>4, <2>5 DEF Runs
  <2> QED BY <2>0, <2>6 DEF Good
<1>3. n \in 0..n
  OBVIOUS
<1> HIDE DEF Good
<1>4. n \in Good
  BY <1>1, <1>2, <1>3, Induction
<1> QED BY <1>4 DEF Good

\* Nothing is added by the empty sequence.
LEMMA JoinedToNone ==
  ASSUME NEW S, NEW s \in Seq(S)
  PROVE  <<>> \o s = s /\ s \o <<>> = s
OBVIOUS

\* h has what the first sequences make joined, for each number of them.
Joins(h, ss, S) ==
  /\ h \in [0..Len(ss) -> Seq(S)] /\ h[0] = <<>>
  /\ \A i \in 1..Len(ss) : h[i] = h[i - 1] \o ss[i]

\* FlattenSeq joins the sequences one after the other.
LEMMA FlattenJoins ==
  ASSUME NEW S, NEW ss \in Seq(Seq(S))
  PROVE  \E h : Joins(h, ss, S) /\ h[Len(ss)] = FlattenSeq(ss)
<1> DEFINE n == Len(ss)
           F == [i \in 1..n |-> [a \in Seq(S) |-> a \o ss[i]]]
           Rule(g) == g = [i \in 1..n |-> IF i = 1 THEN ss[i] ELSE g[i - 1] \o ss[i]]
           flat == CHOOSE g : Rule(g)
<1>1. n \in Nat /\ DOMAIN ss = 1..n /\ \A i \in 1..n : ss[i] \in Seq(S)
  OBVIOUS
<1>2. PICK h : Runs(h, n, Seq(S), <<>>, F)
  <2>1. F \in [1..n -> [Seq(S) -> Seq(S)]]
    BY <1>1
  <2>2. <<>> \in Seq(S)
    OBVIOUS
  <2> HIDE DEF F, n
  <2> QED BY <1>1, <2>1, <2>2, Iterates
<1>3. ASSUME NEW i \in 1..n PROVE h[i] = h[i - 1] \o ss[i]
  <2>1. h[i - 1] \in Seq(S) /\ h[i] = F[i][h[i - 1]]
    <3>1. i - 1 \in 0..n
      BY <1>1
    <3> HIDE DEF F, n
    <3> QED BY <1>2, <3>1 DEF Runs
  <2> QED BY <2>1
<1>4. Joins(h, ss, S)
  BY <1>2, <1>3 DEF Joins, Runs
<1>5. CASE n = 0
  <2>1. FlattenSeq(ss) = ss
    BY <1>5 DEF FlattenSeq
  <2>2. ss = <<>> /\ h[0] = <<>>
    BY <1>2, <1>5 DEF Runs
  <2> QED BY <1>4, <1>5, <2>1, <2>2
<1>6. CASE n # 0
  <2>1. FlattenSeq(ss) = flat[n]
    BY <1>6, Zenon DEF FlattenSeq
  <2> DEFINE g == [i \in 1..n |-> h[i]]
  <2>2. ASSUME NEW i \in 1..n PROVE g[i] = IF i = 1 THEN ss[i] ELSE g[i - 1] \o ss[i]
    <3>1. CASE i = 1
      <4>1. h[0] = <<>> /\ h[1] = h[1 - 1] \o ss[1] /\ ss[1] \in Seq(S)
        BY <1>1, <1>2, <1>3, <3>1 DEF Runs
      <4>2. h[1] = ss[1]
        <5> HIDE DEF n, Rule, F, g, flat
        <5>1. <<>> \o ss[1] = ss[1]
          BY <4>1, JoinedToNone
        <5>2. h[1] = <<>> \o ss[1]
          <6>1. 1 - 1 = 0
            OBVIOUS
          <6> QED BY <4>1, <6>1, Zenon
        <5> QED BY <5>1, <5>2
      <4> QED BY <3>1, <4>2
    <3>2. CASE i # 1
      <4>1. i - 1 \in 1..n
        BY <1>1, <3>2
      <4> QED BY <1>3, <3>2, <4>1
    <3> QED BY <3>1, <3>2
  <2>3. Rule(g)
    BY <2>2
  <2>4. Rule(flat)
    <3> HIDE DEF Rule, g
    <3> QED BY <2>3
  <2> DEFINE Good == {i \in 0..n : i # 0 => flat[i] = h[i]}
  <2>5. 0 \in Good
    BY <1>1
  <2>6. ASSUME NEW i \in 1..n, i - 1 \in Good PROVE i \in Good
    <3>0. flat[i] = IF i = 1 THEN ss[i] ELSE flat[i - 1] \o ss[i]
      <4> HIDE DEF flat
      <4> QED BY <2>4
    <3>1. CASE i = 1
      <4>1. h[i] = ss[i]
        BY <2>2, <3>1
      <4> HIDE DEF flat
      <4> QED BY <3>0, <3>1, <4>1
    <3>2. CASE i # 1
      <4>1. flat[i - 1] = h[i - 1]
        BY <1>1, <2>6, <3>2
      <4>2. h[i] = h[i - 1] \o ss[i]
        BY <1>3
      <4> HIDE DEF flat
      <4>3. flat[i] = h[i]
        BY <3>0, <3>2, <4>1, <4>2
      <4> QED BY <1>1, <4>3
    <3> QED BY <3>1, <3>2
  <2>7. n \in Good
    <3>1. n \in 0..n
      BY <1>1
    <3> HIDE DEF Good, n
    <3> QED BY <1>1, <2>5, <2>6, <3>1, Induction
  <2> QED BY <1>4, <1>6, <2>1, <2>7
<1> QED BY <1>5, <1>6

\* Joining is associative.
Associate(s, t, u) == (s \o t) \o u = s \o (t \o u)
LEMMA Associates ==
  ASSUME NEW S, NEW s \in Seq(S), NEW t \in Seq(S), NEW u \in Seq(S)
  PROVE  Associate(s, t, u)
BY DEF Associate

\* One element more at the end.
LEMMA Appended ==
  ASSUME NEW S, NEW s \in Seq(S), NEW x \in S
  PROVE  /\ s \o <<x>> = Append(s, x)
         /\ Append(s, x) \in Seq(S) /\ Len(Append(s, x)) = Len(s) + 1
         /\ Append(s, x)[Len(s) + 1] = x
         /\ \A i \in 1..Len(s) : Append(s, x)[i] = s[i]
OBVIOUS

\* A part of a sequence.
LEMMA Part ==
  ASSUME NEW S, NEW s \in Seq(S), NEW a \in 1..(Len(s) + 1), NEW b \in (a - 1)..Len(s)
  PROVE  /\ SubSeq(s, a, b) \in Seq(S) /\ Len(SubSeq(s, a, b)) = b - a + 1
         /\ \A i \in 1..(b - a + 1) : SubSeq(s, a, b)[i] = s[a + i - 1]
OBVIOUS

\* A longer part.
LEMMA PartMore ==
  ASSUME NEW S, NEW s \in Seq(S), NEW a \in 1..(Len(s) + 1), NEW b \in (a - 1)..(Len(s) - 1)
  PROVE  SubSeq(s, a, b + 1) = Append(SubSeq(s, a, b), s[b + 1])
OBVIOUS

\* Two parts joined.
LEMMA PartsJoined ==
  ASSUME NEW S, NEW s \in Seq(S), NEW a \in 1..(Len(s) + 1), NEW b \in (a - 1)..Len(s),
         NEW c \in b..Len(s)
  PROVE  SubSeq(s, a, b) \o SubSeq(s, b + 1, c) = SubSeq(s, a, c)
OBVIOUS

\* s is found at the end of t.
LEMMA EndIsPart ==
  ASSUME NEW S, NEW s \in Seq(S), NEW t \in Seq(S), Len(s) <= Len(t),
         \A i \in 1..Len(s) : s[i] = t[Len(t) - Len(s) + i]
  PROVE  IsPartOf(s, t)
<1> DEFINE n == Len(s)
           m == Len(t)
           off == m - n
           Next0(k, i) == Min({j \in 1..m : j > k /\ t[j] = s[i]} \cup {m + 1})
           F == [i \in 1..n |-> [k \in Nat |-> Next0(k, i)]]
           Rule(g) == g = [i \in 0..n |-> IF i = 0 THEN 0 ELSE Next0(g[i - 1], i)]
           after == CHOOSE g : Rule(g)
<1>1. n \in Nat /\ m \in Nat /\ off \in Nat
  OBVIOUS
<1>2. \A k \in Nat, i \in 1..n :
        Next0(k, i) \in Nat /\ \A j \in {j \in 1..m : j > k /\ t[j] = s[i]} : Next0(k, i) <= j
  <2> TAKE k \in Nat, i \in 1..n
  <2> DEFINE T == {j \in 1..m : j > k /\ t[j] = s[i]} \cup {m + 1}
  <2>1. T \subseteq Nat /\ T # {}
    BY <1>1
  <2>2. Min(T) \in T /\ \A j \in T : Min(T) <= j
    <3> HIDE DEF T
    <3> QED BY <2>1, MinIsLeast
  <2> QED BY <2>1, <2>2
<1> HIDE DEF Next0
<1>3. PICK h : Runs(h, n, Nat, 0, F)
  <2>1. F \in [1..n -> [Nat -> Nat]]
    BY <1>2
  <2> HIDE DEF F, n
  <2> QED BY <1>1, <2>1, Iterates
<1>4. Rule(h)
  <2>1. h \in [0..n -> Nat] /\ h[0] = 0 /\ \A i \in 1..n : h[i] = F[i][h[i - 1]]
    BY <1>3 DEF Runs
  <2>2. \A i \in 1..n : h[i] = Next0(h[i - 1], i)
    <3> TAKE i \in 1..n
    <3>1. i - 1 \in 0..n
      BY <1>1
    <3> QED BY <2>1, <3>1
  <2>3. \A i \in 0..n : i = 0 \/ i \in 1..n
    BY <1>1
  <2> QED BY <2>1, <2>2, <2>3
<1>5. Rule(after)
  <2> HIDE DEF Rule
  <2> QED BY <1>4
<1> HIDE DEF after
<1>6. after[0] = 0 /\ \A i \in 1..n : after[i] = Next0(after[i - 1], i)
  <2> HIDE DEF F, n, m, off
  <2>1. 0 \in 0..n /\ \A i \in 1..n : i \in 0..n /\ i # 0
    BY <1>1
  <2>2. \A i \in 0..n : after[i] = IF i = 0 THEN 0 ELSE Next0(after[i - 1], i)
    BY <1>5
  <2> QED BY <2>1, <2>2
<1> DEFINE Good == {i \in 0..n : after[i] \in Nat /\ after[i] <= off + i}
<1>7. 0 \in Good
  BY <1>1, <1>6
<1>8. ASSUME NEW i \in 1..n, i - 1 \in Good PROVE i \in Good
  <2>1. after[i - 1] \in Nat /\ after[i - 1] <= off + (i - 1)
    BY <1>8
  <2>2. off + i \in 1..m /\ off + i > after[i - 1]
    BY <1>1, <2>1
  <2>3. t[off + i] = s[i]
    OBVIOUS
  <2>4. Next0(after[i - 1], i) \in Nat /\ Next0(after[i - 1], i) <= off + i
    BY <1>2, <2>1, <2>2, <2>3
  <2>5. i \in 0..n
    BY <1>1
  <2>6. after[i] = Next0(after[i - 1], i)
    BY <1>6
  <2> HIDE DEF off, n
  <2> QED BY <2>4, <2>5, <2>6
<1>9. n \in Good
  <2> HIDE DEF Good, n
  <2>1. n \in 0..n
    BY <1>1
  <2> QED BY <1>1, <1>7, <1>8, <2>1, Induction
<1>10. after[n] <= m
  BY <1>1, <1>9
<1>11. IsPartOf(s, t) <=> after[n] <= m
  BY DEF IsPartOf, after, Next0
<1> QED BY <1>10, <1>11

\* f has what the escaper has after each byte of its chunk.
Escaping(f, chunk, esc) ==
  /\ f[0] = [out |-> <<>>, esc |-> esc, cut |-> FALSE]
  /\ \A i \in 1..Len(chunk) : f[i] = Escapes(f[i - 1], chunk, i)
  /\ Unescape(chunk, esc) = f[Len(chunk)]

\* The escaper goes over its chunk byte by byte.
LEMMA UnescapeRule ==
  ASSUME NEW S, NEW chunk \in Seq(S), NEW esc \in BOOLEAN
  PROVE  \E f : Escaping(f, chunk, esc)
<1> DEFINE n == Len(chunk)
           T == S \cup {Flip(b) : b \in S}
           V == [out : Seq(T), esc : BOOLEAN, cut : BOOLEAN]
           b0 == [out |-> <<>>, esc |-> esc, cut |-> FALSE]
           F == [i \in 1..n |-> [a \in V |-> Escapes(a, chunk, i)]]
           Rule(g) == g = [i \in 0..n |-> IF i = 0 THEN b0 ELSE Escapes(g[i - 1], chunk, i)]
           after == CHOOSE g : Rule(g)
<1>1. n \in Nat
  OBVIOUS
<1>2. b0 \in V
  OBVIOUS
<1>3. ASSUME NEW a \in V, NEW i \in 1..n PROVE Escapes(a, chunk, i) \in V
  <2>1. chunk[i] \in T /\ Flip(chunk[i]) \in T
    OBVIOUS
  <2> HIDE DEF T
  <2>2. \A x \in T : [a EXCEPT !.out = Append(@, x), !.esc = FALSE] \in V
    <3> TAKE x \in T
    <3>1. a.out \in Seq(T)
      OBVIOUS
    <3>2. Append(a.out, x) \in Seq(T)
      BY <3>1
    <3> QED BY <3>2
  <2>3. \A x \in T : [a EXCEPT !.out = Append(@, x)] \in V
    <3> TAKE x \in T
    <3>1. a.out \in Seq(T)
      OBVIOUS
    <3>2. Append(a.out, x) \in Seq(T)
      BY <3>1
    <3> QED BY <3>2
  <2>4. [a EXCEPT !.cut = TRUE] \in V /\ [a EXCEPT !.esc = TRUE] \in V
    OBVIOUS
  <2> DEFINE b == chunk[i]
  <2>5. CASE a.esc
    <3>1. Escapes(a, chunk, i) = [a EXCEPT !.out = Append(@, Flip(b)), !.esc = FALSE]
      BY <2>5 DEF Escapes
    <3> HIDE DEF V
    <3> QED BY <2>1, <2>2, <3>1
  <2>6. CASE ~a.esc
    <3>1. \/ Escapes(a, chunk, i) = [a EXCEPT !.cut = TRUE]
          \/ Escapes(a, chunk, i) = [a EXCEPT !.esc = TRUE]
          \/ Escapes(a, chunk, i) = a
          \/ Escapes(a, chunk, i) = [a EXCEPT !.out = Append(@, b)]
      BY <2>6 DEF Escapes
    <3> HIDE DEF V
    <3> QED BY <2>1, <2>3, <2>4, <3>1
  <2> QED BY <2>5, <2>6
<1> HIDE DEF V
<1>4. PICK h : Runs(h, n, V, b0, F)
  <2>1. F \in [1..n -> [V -> V]]
    BY <1>3
  <2> HIDE DEF F, n, b0
  <2> QED BY <1>1, <1>2, <2>1, Iterates
<1>5. Rule(h)
  <2>1. h \in [0..n -> V] /\ h[0] = b0 /\ \A i \in 1..n : h[i] = F[i][h[i - 1]]
    BY <1>4 DEF Runs
  <2> HIDE DEF b0
  <2>2. \A i \in 1..n : h[i] = Escapes(h[i - 1], chunk, i)
    <3> TAKE i \in 1..n
    <3>1. i - 1 \in 0..n
      BY <1>1
    <3> QED BY <2>1, <3>1
  <2>3. \A i \in 0..n : i = 0 \/ i \in 1..n
    BY <1>1
  <2> QED BY <2>1, <2>2, <2>3
<1>6. Rule(after)
  <2> HIDE DEF Rule
  <2> QED BY <1>5
<1> HIDE DEF after
<1>7. after[0] = b0 /\ \A i \in 1..n : after[i] = Escapes(after[i - 1], chunk, i)
  <2> HIDE DEF b0
  <2> QED BY <1>1, <1>6
<1>8. Unescape(chunk, esc) = after[n]
  BY DEF Unescape, after
<1>9. Escaping(after, chunk, esc)
  BY <1>7, <1>8 DEF Escaping
<1> QED BY <1>9

-----------------------------------------------------------------------------
(***************************************************************************)
(* The way of the reader through the bytes under way.                       *)
(***************************************************************************)

Byte == 0..255

\* The bytes there may be: a checksum's type is not known without induction.
Values == Int \cup {Checksum(msg) : msg \in Seq(Byte)}

\* Messages that can be framed.
Framable(ms) ==
  /\ ms \in Seq(Seq(Byte))
  /\ \A i \in 1..Len(ms) : Len(ms[i]) \in Nat /\ Len(ms[i]) >= 1 /\ Len(ms[i]) <= 256

\* How many bytes follow the delimiter of frame d, escapes not counted; there is
\* no frame 0.
Size(ms, d) == IF d = 0 THEN 0 ELSE Len(ms[d]) + 3

\* The reader is at (d, j, e) when it has read j bytes of frame d, or all and
\* waits for the delimiter of the next, and e says that an escape came last.
\* Byte b, as the board sends the messages ms, leads it to (k, i, f).
Leads(ms, escape, d, j, e, b, k, i, f) ==
  \/ /\ j < Size(ms, d) /\ k = d
     /\ \/ /\ e = FALSE /\ b = Body(ms[d])[j + 1] /\ (escape = TRUE => b \notin Special)
           /\ i = j + 1 /\ f = FALSE
        \/ /\ escape = TRUE /\ e = FALSE /\ b = 125 /\ Body(ms[d])[j + 1] \in Special
           /\ i = j /\ f = TRUE
        \/ /\ escape = TRUE /\ e = TRUE
           /\ Body(ms[d])[j + 1] \in Special /\ b = Flip(Body(ms[d])[j + 1])
           /\ i = j + 1 /\ f = FALSE
  \/ /\ j = Size(ms, d) /\ e = FALSE /\ f = FALSE
     /\ \/ b # 126 /\ k = d /\ i = j
        \/ b = 126 /\ k = d + 1 /\ i = 0

\* With escapes, and without.
With(escape) == escape = TRUE
Without(escape) == escape = FALSE

\* The places D, J, E are on a way through the bytes raw.
Way(raw, ms, escape, D, J, E) ==
  /\ D \in [0..Len(raw) -> 0..Len(ms)]
  /\ J \in [0..Len(raw) -> Nat]
  /\ E \in [0..Len(raw) -> BOOLEAN]
  /\ \A x \in 0..Len(raw) : J[x] <= Size(ms, D[x])
  /\ \A x \in 1..Len(raw) :
       Leads(ms, escape, D[x - 1], J[x - 1], E[x - 1], raw[x], D[x], J[x], E[x])

\* The bytes raw lead from one place to another.
Reaches(raw, ms, escape, d, j, e, k, i, f) ==
  \E D, J, E : /\ Way(raw, ms, escape, D, J, E)
               /\ D[0] = d /\ J[0] = j /\ E[0] = e
               /\ D[Len(raw)] = k /\ J[Len(raw)] = i /\ E[Len(raw)] = f

\* A length is its two bytes.
LEMMA HighAndLow ==
  ASSUME NEW n \in Nat
  PROVE  n \div 256 \in Int /\ n % 256 \in Int /\ (n \div 256) * 256 + (n % 256) = n
<1>1. PICK q \in Int, r \in Int : q = n \div 256 /\ r = n % 256
  OBVIOUS
<1>2. n = q * 256 + r
  BY <1>1
<1>3. n \div 256 \in Int /\ n % 256 \in Int
  OBVIOUS
<1>4. (n \div 256) * 256 + (n % 256) = n
  BY <1>1, <1>2, Zenon
<1> QED BY <1>3, <1>4

\* What a framed message's bytes are.
LEMMA BodyParts ==
  ASSUME NEW msg \in Seq(Byte), Len(msg) >= 1, Len(msg) <= 256
  PROVE  /\ Body(msg) \in Seq(Values) /\ Len(Body(msg)) = Len(msg) + 3
         /\ Body(msg)[1] = Len(msg) \div 256 /\ Body(msg)[2] = Len(msg) % 256
         /\ \A i \in 1..Len(msg) : Body(msg)[2 + i] = msg[i]
         /\ Body(msg)[Len(msg) + 3] = Checksum(msg)
         /\ (Len(msg) \div 256) * 256 + (Len(msg) % 256) = Len(msg)
<1> DEFINE n == Len(msg)
           a == <<n \div 256, n % 256>>
           z == <<Checksum(msg)>>
<1>1. n \in Nat /\ n >= 1 /\ n <= 256
  OBVIOUS
<1> HIDE DEF a, z, n
<1>2. n \div 256 \in Int /\ n % 256 \in Int /\ (n \div 256) * 256 + (n % 256) = n
  BY <1>1, HighAndLow
<1>3. Checksum(msg) \in Values /\ Int \subseteq Values
  BY DEF Values
<1>4. msg \in Seq(Values)
  <2>1. \A i \in 1..Len(msg) : msg[i] \in Values
    <3>1. \A i \in 1..Len(msg) : msg[i] \in Byte
      OBVIOUS
    <3>2. \A b \in Byte : b \in Int
      BY DEF Byte
    <3> QED BY <1>3, <3>1, <3>2, Zenon
  <2> QED BY <2>1
<1>5. a \in Seq(Values) /\ Len(a) = 2 /\ a[1] = n \div 256 /\ a[2] = n % 256
  <2>1. n \div 256 \in Values /\ n % 256 \in Values
    BY <1>2, <1>3
  <2> QED BY <2>1 DEF a
<1>6. z \in Seq(Values) /\ Len(z) = 1 /\ z[1] = Checksum(msg)
  BY <1>3 DEF z
<1> DEFINE u == a \o msg
<1>7. /\ u \in Seq(Values) /\ Len(u) = Len(a) + Len(msg)
      /\ \A j \in 1..Len(a) : u[j] = a[j]
      /\ \A j \in 1..Len(msg) : u[Len(a) + j] = msg[j]
  <2>1. a \in Seq(Values) /\ msg \in Seq(Values)
    BY <1>4, <1>5
  <2> QED BY <2>1, Joined DEF u
<1> HIDE DEF u
<1>8. Len(u) = 2 + n /\ u[1] = a[1] /\ u[2] = a[2] /\ \A i \in 1..n : u[2 + i] = msg[i]
  BY <1>1, <1>5, <1>7 DEF n
<1>9. Body(msg) = u \o z
  BY DEF Body, a, u, z, n
<1>10. /\ u \o z \in Seq(Values) /\ Len(u \o z) = Len(u) + Len(z)
       /\ \A j \in 1..Len(u) : (u \o z)[j] = u[j]
       /\ \A j \in 1..Len(z) : (u \o z)[Len(u) + j] = z[j]
  <2>1. u \in Seq(Values) /\ z \in Seq(Values)
    BY <1>6, <1>7
  <2> QED BY <2>1, Joined
<1>11. Len(Body(msg)) = n + 3 /\ Body(msg)[n + 3] = Checksum(msg)
  <2>1. 1 \in 1..Len(z) /\ Len(u) + 1 = n + 3
    BY <1>1, <1>6, <1>8
  <2>2. Body(msg)[Len(u) + 1] = z[1]
    BY <1>9, <1>10, <2>1
  <2> QED BY <1>1, <1>6, <1>8, <1>9, <1>10, <2>1, <2>2
<1>12. \A j \in 1..(2 + n) : Body(msg)[j] = u[j]
  BY <1>8, <1>9, <1>10
<1>13. 1 \in 1..(2 + n) /\ 2 \in 1..(2 + n) /\ \A i \in 1..n : 2 + i \in 1..(2 + n)
  BY <1>1
<1>14. /\ Body(msg)[1] = n \div 256 /\ Body(msg)[2] = n % 256
       /\ \A i \in 1..n : Body(msg)[2 + i] = msg[i]
  BY <1>5, <1>8, <1>12, <1>13
<1>15. Body(msg) \in Seq(Values)
  BY <1>9, <1>10
<1> QED BY <1>2, <1>11, <1>14, <1>15 DEF n

\* A frame due has a size.
LEMMA Sizes ==
  ASSUME NEW ms, Framable(ms), NEW d \in 0..Len(ms)
  PROVE  /\ Len(ms) \in Nat /\ Size(ms, d) \in Nat
         /\ d # 0 => /\ d \in 1..Len(ms) /\ ms[d] \in Seq(Byte)
                     /\ Len(ms[d]) \in Nat /\ Len(ms[d]) >= 1 /\ Len(ms[d]) <= 256
                     /\ Size(ms, d) = Len(ms[d]) + 3
BY DEF Framable, Size

\* Flipped twice, a special byte is itself.
LEMMA FlippedBack ==
  ASSUME NEW b \in Special
  PROVE  Flip(b) \in Int /\ Flip(b) # 126 /\ Flip(Flip(b)) = b
<1>1. 2^5 = 32
  OBVIOUS
<1>2. \A x \in Int : Bit(x, 5) = (x \div 32) % 2
  BY <1>1 DEF Bit
<1>3. Flip(126) = 94 /\ Flip(94) = 126
  BY <1>2 DEF Flip
<1>4. Flip(125) = 93 /\ Flip(93) = 125
  BY <1>2 DEF Flip
<1>5. Flip(17) = 49 /\ Flip(49) = 17
  BY <1>2 DEF Flip
<1>6. Flip(19) = 51 /\ Flip(51) = 19
  BY <1>2 DEF Flip
<1> QED BY <1>3, <1>4, <1>5, <1>6 DEF Special

\* One more byte.
LEMMA OneMore ==
  ASSUME NEW ms, NEW escape, NEW raw \in Seq(Values), NEW b \in Values,
         NEW d, NEW j, NEW e, NEW k, NEW i, NEW f,
         Reaches(raw, ms, escape, d, j, e, k, i, f),
         NEW k2 \in 0..Len(ms), NEW i2 \in Nat, NEW f2 \in BOOLEAN,
         i2 <= Size(ms, k2), Leads(ms, escape, k, i, f, b, k2, i2, f2)
  PROVE  Reaches(Append(raw, b), ms, escape, d, j, e, k2, i2, f2)
<1> DEFINE n == Len(raw)
           new == Append(raw, b)
<1>1. PICK D, J, E : /\ Way(raw, ms, escape, D, J, E)
                     /\ D[0] = d /\ J[0] = j /\ E[0] = e
                     /\ D[n] = k /\ J[n] = i /\ E[n] = f
  BY DEF Reaches
<1>2. /\ n \in Nat /\ Len(new) = n + 1 /\ new[n + 1] = b
      /\ \A x \in 1..n : new[x] = raw[x]
  BY Appended
<1> HIDE DEF n, new
<1>3. /\ D \in [0..n -> 0..Len(ms)] /\ J \in [0..n -> Nat] /\ E \in [0..n -> BOOLEAN]
      /\ \A x \in 0..n : J[x] <= Size(ms, D[x])
      /\ \A x \in 1..n :
           Leads(ms, escape, D[x - 1], J[x - 1], E[x - 1], raw[x], D[x], J[x], E[x])
  BY <1>1 DEF Way, n
<1> DEFINE D2 == [x \in 0..(n + 1) |-> IF x = n + 1 THEN k2 ELSE D[x]]
           J2 == [x \in 0..(n + 1) |-> IF x = n + 1 THEN i2 ELSE J[x]]
           E2 == [x \in 0..(n + 1) |-> IF x = n + 1 THEN f2 ELSE E[x]]
<1>4. \A x \in 0..(n + 1) : x = n + 1 \/ (x \in 0..n /\ x # n + 1)
  BY <1>2
<1>5. /\ D2 \in [0..(n + 1) -> 0..Len(ms)] /\ J2 \in [0..(n + 1) -> Nat]
      /\ E2 \in [0..(n + 1) -> BOOLEAN]
  BY <1>3, <1>4
<1>6. \A x \in 0..n : D2[x] = D[x] /\ J2[x] = J[x] /\ E2[x] = E[x]
  BY <1>2
<1>7. D2[n + 1] = k2 /\ J2[n + 1] = i2 /\ E2[n + 1] = f2
  BY <1>2
<1> HIDE DEF D2, J2, E2
<1>8. \A x \in 0..(n + 1) : J2[x] <= Size(ms, D2[x])
  BY <1>3, <1>4, <1>6, <1>7
<1>9. ASSUME NEW x \in 1..(n + 1)
      PROVE  Leads(ms, escape, D2[x - 1], J2[x - 1], E2[x - 1], new[x], D2[x], J2[x], E2[x])
  <2>1. x - 1 \in 0..n
    BY <1>2
  <2>2. D2[x - 1] = D[x - 1] /\ J2[x - 1] = J[x - 1] /\ E2[x - 1] = E[x - 1]
    BY <1>6, <2>1
  <2>3. CASE x = n + 1
    <3>1. x - 1 = n
      BY <1>2, <2>3
    <3>2. D2[x - 1] = k /\ J2[x - 1] = i /\ E2[x - 1] = f
      BY <1>1, <2>2, <3>1 DEF n
    <3> QED BY <1>2, <1>7, <2>3, <3>2
  <2>4. CASE x # n + 1
    <3>1. x \in 1..n /\ x \in 0..n
      BY <1>2, <2>4
    <3>2. new[x] = raw[x] /\ D2[x] = D[x] /\ J2[x] = J[x] /\ E2[x] = E[x]
      BY <1>2, <1>6, <3>1
    <3>3. Leads(ms, escape, D[x - 1], J[x - 1], E[x - 1], raw[x], D[x], J[x], E[x])
      BY <1>3, <3>1
    <3> QED BY <2>2, <3>2, <3>3
  <2> QED BY <2>3, <2>4
<1>10. Way(new, ms, escape, D2, J2, E2)
  BY <1>2, <1>5, <1>8, <1>9 DEF Way
<1>11. 0 \in 0..n
  BY <1>2
<1>12. /\ D2[0] = d /\ J2[0] = j /\ E2[0] = e
       /\ D2[Len(new)] = k2 /\ J2[Len(new)] = i2 /\ E2[Len(new)] = f2
  BY <1>1, <1>2, <1>6, <1>7, <1>11
<1>13. Reaches(new, ms, escape, d, j, e, k2, i2, f2)
  BY <1>10, <1>12 DEF Reaches
<1> QED BY <1>13 DEF new

\* One more message due changes no place there was.
LEMMA OneMoreMessage ==
  ASSUME NEW ms, Framable(ms), NEW escape, NEW raw \in Seq(Values),
         NEW msg \in Seq(Byte), Len(msg) >= 1, Len(msg) <= 256,
         NEW d, NEW j, NEW e, NEW k, NEW i, NEW f,
         Reaches(raw, ms, escape, d, j, e, k, i, f)
  PROVE  Reaches(raw, Append(ms, msg), escape, d, j, e, k, i, f)
<1> DEFINE n == Len(raw)
           m == Len(ms)
           new == Append(ms, msg)
<1>1. PICK D, J, E : /\ Way(raw, ms, escape, D, J, E)
                     /\ D[0] = d /\ J[0] = j /\ E[0] = e
                     /\ D[n] = k /\ J[n] = i /\ E[n] = f
  BY DEF Reaches
<1>2. m \in Nat /\ n \in Nat /\ Len(new) = m + 1 /\ \A x \in 1..m : new[x] = ms[x]
  <2>1. ms \in Seq(Seq(Byte))
    BY DEF Framable
  <2> QED BY <2>1, Appended
<1> HIDE DEF new
<1>3. \A x \in 0..m : Size(new, x) = Size(ms, x) /\ (x # 0 => new[x] = ms[x])
  BY <1>2 DEF Size
<1>4. ASSUME NEW x \in 0..m, NEW jj, NEW ee, NEW b, NEW kk, NEW ii, NEW ff,
             Leads(ms, escape, x, jj, ee, b, kk, ii, ff), jj \in Nat
      PROVE  Leads(new, escape, x, jj, ee, b, kk, ii, ff)
  <2>1. CASE x = 0
    <3>1. Size(ms, x) = 0 /\ Size(new, x) = 0
      BY <2>1 DEF Size
    <3> QED BY <1>4, <3>1 DEF Leads
  <2>2. CASE x # 0
    <3>1. Size(new, x) = Size(ms, x) /\ new[x] = ms[x]
      BY <1>3, <2>2
    <3> QED BY <1>4, <3>1 DEF Leads
  <2> QED BY <2>1, <2>2
<1>5. /\ D \in [0..n -> 0..m] /\ J \in [0..n -> Nat] /\ E \in [0..n -> BOOLEAN]
      /\ \A x \in 0..n : J[x] <= Size(ms, D[x])
      /\ \A x \in 1..n :
           Leads(ms, escape, D[x - 1], J[x - 1], E[x - 1], raw[x], D[x], J[x], E[x])
  BY <1>1 DEF Way
<1>6. D \in [0..n -> 0..Len(new)]
  BY <1>2, <1>5
<1>7. \A x \in 0..n : J[x] <= Size(new, D[x])
  BY <1>3, <1>5
<1>8. ASSUME NEW x \in 1..n
      PROVE  Leads(new, escape, D[x - 1], J[x - 1], E[x - 1], raw[x], D[x], J[x], E[x])
  <2>1. x - 1 \in 0..n
    BY <1>2
  <2>2. D[x - 1] \in 0..m /\ J[x - 1] \in Nat
    BY <1>5, <2>1
  <2> QED BY <1>4, <1>5, <2>2
<1>9. Way(raw, new, escape, D, J, E)
  BY <1>5, <1>6, <1>7, <1>8 DEF Way
<1> QED BY <1>1, <1>9 DEF Reaches, new

-----------------------------------------------------------------------------
(***************************************************************************)
(* A chunk within a frame.                                                  *)
(***************************************************************************)

\* The part of the way from byte n on.
LEMMA WayOn ==
  ASSUME NEW ms, NEW escape, NEW raw \in Seq(Values), NEW D, NEW J, NEW E,
         Way(raw, ms, escape, D, J, E), NEW n \in 0..Len(raw)
  PROVE  Reaches(SubSeq(raw, n + 1, Len(raw)), ms, escape, D[n], J[n], E[n],
                 D[Len(raw)], J[Len(raw)], E[Len(raw)])
<1> DEFINE m == Len(raw)
           rest == SubSeq(raw, n + 1, m)
           l == m - n
           D2 == [x \in 0..l |-> D[n + x]]
           J2 == [x \in 0..l |-> J[n + x]]
           E2 == [x \in 0..l |-> E[n + x]]
<1>1. m \in Nat /\ n \in Nat /\ n <= m /\ l \in Nat
  OBVIOUS
<1>2. Len(rest) = l /\ \A x \in 1..l : rest[x] = raw[n + x]
  <2> DEFINE a == n + 1
  <2>1. a \in 1..(Len(raw) + 1) /\ m \in (a - 1)..Len(raw) /\ m - a + 1 = l
    BY <1>1
  <2>2. /\ Len(SubSeq(raw, a, m)) = m - a + 1
        /\ \A x \in 1..(m - a + 1) : SubSeq(raw, a, m)[x] = raw[a + x - 1]
    <3> HIDE DEF a, m
    <3> QED BY <2>1, Part
  <2>3. \A x \in 1..l : a + x - 1 = n + x
    BY <1>1
  <2> QED BY <2>1, <2>2, <2>3
<1> HIDE DEF rest
<1>3. /\ D \in [0..m -> 0..Len(ms)] /\ J \in [0..m -> Nat] /\ E \in [0..m -> BOOLEAN]
      /\ \A x \in 0..m : J[x] <= Size(ms, D[x])
      /\ \A x \in 1..m :
           Leads(ms, escape, D[x - 1], J[x - 1], E[x - 1], raw[x], D[x], J[x], E[x])
  BY DEF Way
<1> HIDE DEF m
<1>4. \A x \in 0..l : n + x \in 0..m
  BY <1>1
<1>5. /\ D2 \in [0..l -> 0..Len(ms)] /\ J2 \in [0..l -> Nat] /\ E2 \in [0..l -> BOOLEAN]
      /\ \A x \in 0..l : D2[x] = D[n + x] /\ J2[x] = J[n + x] /\ E2[x] = E[n + x]
  BY <1>3, <1>4
<1> HIDE DEF D2, J2, E2
<1>6. \A x \in 0..l : J2[x] <= Size(ms, D2[x])
  BY <1>3, <1>4, <1>5
<1>7. ASSUME NEW x \in 1..l
      PROVE  Leads(ms, escape, D2[x - 1], J2[x - 1], E2[x - 1], rest[x], D2[x], J2[x], E2[x])
  <2>1. x - 1 \in 0..l /\ x \in 0..l /\ n + x \in 1..m /\ n + (x - 1) = (n + x) - 1
    BY <1>1
  <2>2. Leads(ms, escape, D[(n + x) - 1], J[(n + x) - 1], E[(n + x) - 1], raw[n + x],
              D[n + x], J[n + x], E[n + x])
    BY <1>3, <2>1
  <2> HIDE DEF l
  <2> QED BY <1>2, <1>5, <2>1, <2>2
<1>8. Way(rest, ms, escape, D2, J2, E2)
  <2> HIDE DEF l
  <2> QED BY <1>2, <1>5, <1>6, <1>7 DEF Way
<1>9. 0 \in 0..l /\ l \in 0..l /\ n + 0 = n /\ n + l = m
  BY <1>1
<1>10. /\ D2[0] = D[n] /\ J2[0] = J[n] /\ E2[0] = E[n]
       /\ D2[Len(rest)] = D[m] /\ J2[Len(rest)] = J[m] /\ E2[Len(rest)] = E[m]
  <2> HIDE DEF l
  <2> QED BY <1>2, <1>5, <1>9
<1>11. Reaches(rest, ms, escape, D[n], J[n], E[n], D[m], J[m], E[m])
  BY <1>8, <1>10 DEF Reaches
<1> QED BY <1>11 DEF rest, m

\* As long as a frame has bytes for all that is read, the way stays in it, and
\* gets one byte further at most with each.
LEMMA Inside ==
  ASSUME NEW ms, Framable(ms), NEW escape, NEW raw \in Seq(Values), NEW D, NEW J, NEW E,
         Way(raw, ms, escape, D, J, E),
         NEW n \in 0..Len(raw), J[0] + n <= Size(ms, D[0])
  PROVE  \A x \in 0..n : D[x] = D[0] /\ J[0] <= J[x] /\ J[x] <= J[0] + x
<1> DEFINE m == Len(raw)
           Good == {x \in 0..n : D[x] = D[0] /\ J[0] <= J[x] /\ J[x] <= J[0] + x}
<1>1. m \in Nat /\ n \in Nat /\ n <= m /\ 0 \in 0..n
  OBVIOUS
<1>2. /\ D \in [0..m -> 0..Len(ms)] /\ J \in [0..m -> Nat]
      /\ \A x \in 1..m :
           Leads(ms, escape, D[x - 1], J[x - 1], E[x - 1], raw[x], D[x], J[x], E[x])
  BY DEF Way
<1> HIDE DEF m
<1>3. D[0] \in 0..Len(ms) /\ J[0] \in Nat
  BY <1>1, <1>2
<1>4. Size(ms, D[0]) \in Nat
  BY <1>3, Sizes
<1>5. 0 \in Good
  BY <1>1, <1>3
<1>6. ASSUME NEW x \in 1..n, x - 1 \in Good PROVE x \in Good
  <2>1. x - 1 \in 0..n /\ x \in 1..m /\ x \in 0..m /\ x - 1 \in 0..m /\ x \in 0..n
    BY <1>1
  <2>2. D[x - 1] = D[0] /\ J[0] <= J[x - 1] /\ J[x - 1] <= J[0] + (x - 1)
    BY <1>6
  <2>3. J[x - 1] \in Nat /\ J[x] \in Nat
    BY <1>2, <2>1
  <2>4. J[x - 1] < Size(ms, D[0])
    BY <1>1, <1>3, <1>4, <2>1, <2>2, <2>3
  <2>5. D[x] = D[x - 1] /\ (J[x] = J[x - 1] \/ J[x] = J[x - 1] + 1)
    <3>1. Leads(ms, escape, D[x - 1], J[x - 1], E[x - 1], raw[x], D[x], J[x], E[x])
      BY <1>2, <2>1
    <3>2. J[x - 1] # Size(ms, D[x - 1])
      BY <1>4, <2>2, <2>3, <2>4
    <3> QED BY <3>1, <3>2 DEF Leads
  <2>6. J[0] <= J[x] /\ J[x] <= J[0] + x
    BY <1>1, <1>3, <2>1, <2>2, <2>3, <2>5
  <2> QED BY <2>1, <2>2, <2>5, <2>6
<1>7. \A x \in 0..n : x \in Good
  <2> HIDE DEF Good
  <2> QED BY <1>1, <1>5, <1>6, Induction
<1> QED BY <1>7

\* What the escaper makes of a byte that is not special to it.
LEMMA EscapesPlain ==
  ASSUME NEW s, NEW chunk, NEW x, chunk[x] \notin {125, 17, 19}
  PROVE  Escapes([out |-> s, esc |-> FALSE, cut |-> FALSE], chunk, x)
           = [out |-> Append(s, chunk[x]), esc |-> FALSE, cut |-> FALSE]
<1> DEFINE a == [out |-> s, esc |-> FALSE, cut |-> FALSE]
           u == Append(s, chunk[x])
           no == FALSE
<1>1. a.out = s /\ a.esc = FALSE /\ a = [out |-> s, esc |-> no, cut |-> no]
  OBVIOUS
<1> HIDE DEF a
<1>2. Escapes(a, chunk, x) = [a EXCEPT !.out = u]
  BY <1>1 DEF Escapes
<1> HIDE DEF u, no
<1>3. [a EXCEPT !.out = u] = [out |-> u, esc |-> no, cut |-> no]
  BY <1>1
<1> QED BY <1>2, <1>3, Zenon DEF a, u, no

\* And of an escape: it may drop the last of a chunk.
LEMMA EscapesEscape ==
  ASSUME NEW s, NEW chunk, NEW x, chunk[x] = 125
  PROVE  \/ Escapes([out |-> s, esc |-> FALSE, cut |-> FALSE], chunk, x)
              = [out |-> s, esc |-> TRUE, cut |-> FALSE]
         \/ /\ Escapes([out |-> s, esc |-> FALSE, cut |-> FALSE], chunk, x).cut = TRUE
            /\ x = Len(chunk)
<1> DEFINE a == [out |-> s, esc |-> FALSE, cut |-> FALSE]
           no == FALSE
           yes == TRUE
<1>1. a.out = s /\ a.esc = FALSE /\ a = [out |-> s, esc |-> no, cut |-> no]
  OBVIOUS
<1> HIDE DEF a
<1>2. \/ Escapes(a, chunk, x) = [a EXCEPT !.esc = yes]
      \/ Escapes(a, chunk, x) = [a EXCEPT !.cut = yes] /\ x = Len(chunk)
  BY <1>1 DEF Escapes
<1> HIDE DEF no, yes
<1>3. [a EXCEPT !.esc = yes] = [out |-> s, esc |-> yes, cut |-> no]
  BY <1>1
<1>4. [a EXCEPT !.cut = yes].cut = yes
  BY <1>1
<1>5. \/ Escapes(a, chunk, x) = [out |-> s, esc |-> yes, cut |-> no]
      \/ Escapes(a, chunk, x).cut = yes /\ x = Len(chunk)
  BY <1>2, <1>3, <1>4, Zenon
<1> QED BY <1>5, Zenon DEF a, no, yes

\* And of the byte after an escape.
LEMMA EscapesEscaped ==
  ASSUME NEW s, NEW chunk, NEW x
  PROVE  Escapes([out |-> s, esc |-> TRUE, cut |-> FALSE], chunk, x)
           = [out |-> Append(s, Flip(chunk[x])), esc |-> FALSE, cut |-> FALSE]
<1> DEFINE a == [out |-> s, esc |-> TRUE, cut |-> FALSE]
           u == Append(s, Flip(chunk[x]))
           no == FALSE
           yes == TRUE
<1>0. a = [out |-> s, esc |-> yes, cut |-> no]
  OBVIOUS
<1>1. a.out = s /\ a.esc = TRUE
  OBVIOUS
<1> HIDE DEF a
<1>2. Escapes(a, chunk, x) = [a EXCEPT !.out = u, !.esc = no]
  BY <1>1 DEF Escapes
<1> HIDE DEF u, no, yes
<1>3. [a EXCEPT !.out = u, !.esc = no] = [out |-> u, esc |-> no, cut |-> no]
  <2>1. [a EXCEPT !.out = u] = [out |-> u, esc |-> yes, cut |-> no]
    BY <1>0
  <2>2. [[out |-> u, esc |-> yes, cut |-> no] EXCEPT !.esc = no] = [out |-> u, esc |-> no, cut |-> no]
    OBVIOUS
  <2>3. [[a EXCEPT !.out = u] EXCEPT !.esc = no] = [out |-> u, esc |-> no, cut |-> no]
    BY <2>1, <2>2, Zenon
  <2> QED BY <2>3
<1> QED BY <1>2, <1>3, Zenon DEF a, u, no

\* The next n bytes are within a frame.
Within(raw, ms, escape, D, J, E, n) ==
  /\ Way(raw, ms, escape, D, J, E) /\ D[0] # 0
  /\ n \in 1..Len(raw) /\ J[0] + n <= Size(ms, D[0])

\* The first n bytes, and the bytes of a frame after j of them up to the k-th.
FirstOf(raw, n) == SubSeq(raw, 1, n)
BytesOf(ms, d, j, k) == SubSeq(Body(ms[d]), j + 1, k)

\* Within a frame, the escaper gives the bytes of the frame that were escaped,
\* and remembers an escape that came last, if it does not drop it.
LEMMA Unescapes ==
  ASSUME NEW ms, NEW raw, NEW D, NEW J, NEW E, Framable(ms), raw \in Seq(Values),
         NEW escape, NEW n, With(escape), Within(raw, ms, escape, D, J, E, n),
         ~Unescape(FirstOf(raw, n), E[0]).cut
  PROVE  /\ Unescape(FirstOf(raw, n), E[0]).out = BytesOf(ms, D[0], J[0], J[n])
         /\ Unescape(FirstOf(raw, n), E[0]).esc = E[n]
         /\ J[n] = J[0] + n => Without(E[n])
<1> Way(raw, ms, escape, D, J, E) /\ D[0] # 0 /\ n \in 1..Len(raw) /\ J[0] + n <= Size(ms, D[0])
  BY DEF Within
<1> DEFINE chunk == SubSeq(raw, 1, n)
           m == Len(raw)
           d == D[0]
           j == J[0]
           B == Body(ms[d])
           Z == Size(ms, d)
<1>1. m \in Nat /\ n \in Nat /\ n >= 1 /\ n <= m /\ n \in 0..m /\ 0 \in 0..m
  OBVIOUS
<1>2. /\ D \in [0..m -> 0..Len(ms)] /\ J \in [0..m -> Nat] /\ E \in [0..m -> BOOLEAN]
      /\ \A x \in 1..m :
           Leads(ms, escape, D[x - 1], J[x - 1], E[x - 1], raw[x], D[x], J[x], E[x])
  BY DEF Way
<1>3. d \in 0..Len(ms) /\ j \in Nat /\ E[0] \in BOOLEAN
  BY <1>1, <1>2
<1>4. /\ Z \in Nat /\ ms[d] \in Seq(Byte) /\ Z = Len(ms[d]) + 3
      /\ Len(ms[d]) \in Nat /\ Len(ms[d]) >= 1 /\ Len(ms[d]) <= 256
  BY <1>3, Sizes
<1>5. B \in Seq(Values) /\ Len(B) = Z
  BY <1>4, BodyParts
<1>6. \A x \in 0..n : D[x] = d /\ j <= J[x] /\ J[x] <= j + x
  BY <1>1, Inside
<1>7. chunk \in Seq(Values) /\ Len(chunk) = n /\ \A x \in 1..n : chunk[x] = raw[x]
  <2>1. 1 \in 1..(Len(raw) + 1) /\ n \in (1 - 1)..Len(raw) /\ n - 1 + 1 = n
    BY <1>1
  <2>2. /\ SubSeq(raw, 1, n) \in Seq(Values) /\ Len(SubSeq(raw, 1, n)) = n - 1 + 1
        /\ \A x \in 1..(n - 1 + 1) : SubSeq(raw, 1, n)[x] = raw[1 + x - 1]
    BY <2>1, Part
  <2>3. \A x \in 1..n : 1 + x - 1 = x
    OBVIOUS
  <2> QED BY <2>1, <2>2, <2>3
<1> HIDE DEF chunk
<1>8. PICK f : /\ f[0] = [out |-> <<>>, esc |-> E[0], cut |-> FALSE]
               /\ \A x \in 1..n : f[x] = Escapes(f[x - 1], chunk, x)
               /\ Unescape(chunk, E[0]) = f[n]
  <2>1. \E f : Escaping(f, chunk, E[0])
    BY <1>3, <1>7, UnescapeRule
  <2>2. PICK f : Escaping(f, chunk, E[0])
    BY <2>1
  <2>3. /\ f[0] = [out |-> <<>>, esc |-> E[0], cut |-> FALSE]
        /\ \A x \in 1..n : f[x] = Escapes(f[x - 1], chunk, x)
        /\ Unescape(chunk, E[0]) = f[n]
    BY <1>7, <2>2, Zenon DEF Escaping
  <2> QED BY <2>3, Zenon
<1> HIDE DEF m, B, Z
<1> DEFINE State(x) == [out |-> SubSeq(B, j + 1, J[x]), esc |-> E[x], cut |-> FALSE]
           Good == {x \in 0..n : /\ x < n \/ ~f[x].cut => f[x] = State(x)
                                 /\ x # 0 /\ E[x] = TRUE => J[x] + 1 <= j + x}
<1> HIDE DEF State
<1>9. 0 \in Good
  <2>1. SubSeq(B, j + 1, j) = <<>>
    <3>1. j + 1 \in 1..(Len(B) + 1) /\ j \in ((j + 1) - 1)..Len(B) /\ j - (j + 1) + 1 = 0
      <4>1. j + n <= Z
        BY DEF Z
      <4>2. j \in Nat /\ n \in Nat /\ n >= 1 /\ Len(B) = Z /\ Z \in Nat
        BY <1>1, <1>3, <1>4, <1>5
      <4> HIDE DEF j
      <4> QED BY <4>1, <4>2
    <3>2. SubSeq(B, j + 1, j) \in Seq(Values) /\ Len(SubSeq(B, j + 1, j)) = 0
      <4> DEFINE a == j + 1
                 b == j
      <4> HIDE DEF a, b
      <4>1. SubSeq(B, a, b) \in Seq(Values) /\ Len(SubSeq(B, a, b)) = b - a + 1
        <5>1. a \in 1..(Len(B) + 1) /\ b \in (a - 1)..Len(B)
          BY <3>1 DEF a, b
        <5> QED BY <1>5, <5>1, Part
      <4> QED BY <3>1, <4>1 DEF a, b
    <3> QED BY <3>2
  <2>2. f[0] = State(0)
    BY <1>8, <2>1, Zenon DEF State
  <2> QED BY <1>1, <2>2
<1>10. ASSUME NEW x \in 1..n, x - 1 \in Good PROVE x \in Good
  <2> DEFINE b == raw[x]
             p == J[x - 1]
             w == B[p + 1]
             s == SubSeq(B, j + 1, p)
  <2>1. x - 1 \in 0..n /\ x - 1 < n /\ x \in 0..n /\ x # 0 /\ x \in 1..m /\ x - 1 \in 0..m
        /\ x \in 0..m
    BY <1>1
  <2>2. f[x - 1] = State(x - 1)
    BY <1>10, <2>1
  <2>3. D[x - 1] = d /\ j <= p /\ p <= j + (x - 1) /\ p \in Nat
    BY <1>2, <1>6, <2>1
  <2>4. p < Z
    <3>1. j + n <= Z
      BY DEF Z
    <3>2. j \in Nat /\ n \in Nat /\ Z \in Nat /\ x \in Nat /\ x <= n
      BY <1>1, <1>3, <1>4
    <3> HIDE DEF j, p
    <3> QED BY <2>3, <3>1, <3>2
  <2>5. /\ D[x] = d
        /\ \/ /\ E[x - 1] = FALSE /\ b = w /\ b \notin Special /\ J[x] = p + 1 /\ E[x] = FALSE
           \/ /\ E[x - 1] = FALSE /\ b = 125 /\ w \in Special /\ J[x] = p /\ E[x] = TRUE
           \/ /\ E[x - 1] = TRUE /\ w \in Special /\ b = Flip(w) /\ J[x] = p + 1 /\ E[x] = FALSE
    <3>1. Leads(ms, escape, d, p, E[x - 1], b, D[x], J[x], E[x])
      BY <1>2, <2>1, <2>3
    <3>2. p # Size(ms, d)
      BY <1>4, <2>3, <2>4 DEF Z
    <3> HIDE DEF b, p
    <3> QED BY <3>1, <3>2 DEF With, Leads, B
  <2>6. SubSeq(B, j + 1, p + 1) = Append(s, w) /\ Len(s) = p - j
    <3> DEFINE a == j + 1
    <3>1. Len(B) = Z /\ Z \in Nat /\ p \in Nat /\ j \in Nat /\ j <= p /\ p < Z
      BY <1>3, <1>4, <1>5, <2>3, <2>4
    <3> HIDE DEF p, j
    <3>4. a \in 1..(Len(B) + 1) /\ p \in (a - 1)..(Len(B) - 1) /\ p \in (a - 1)..Len(B)
          /\ p - a + 1 = p - j
      BY <3>1
    <3> HIDE DEF a
    <3>2. SubSeq(B, a, p + 1) = Append(SubSeq(B, a, p), B[p + 1])
      BY <1>5, <3>4, PartMore
    <3>3. Len(SubSeq(B, a, p)) = p - a + 1
      BY <1>5, <3>4, Part
    <3> QED BY <3>2, <3>3, <3>4 DEF a
  <2>7. f[x] = Escapes(f[x - 1], chunk, x) /\ chunk[x] = b
    BY <1>7, <1>8
  <2>8. f[x - 1] = [out |-> s, esc |-> E[x - 1], cut |-> FALSE]
    BY <2>2 DEF State
  <2> HIDE DEF s, w, b
  <2>9. CASE /\ E[x - 1] = FALSE /\ b = w /\ b \notin Special /\ J[x] = p + 1 /\ E[x] = FALSE
    <3>1. b \notin {125, 17, 19} /\ chunk[x] \notin {125, 17, 19}
      BY <2>7, <2>9 DEF Special
    <3>2. f[x] = [out |-> Append(s, b), esc |-> FALSE, cut |-> FALSE]
      <4>1. f[x - 1] = [out |-> s, esc |-> FALSE, cut |-> FALSE]
        BY <2>8, <2>9, Zenon
      <4>2. Escapes([out |-> s, esc |-> FALSE, cut |-> FALSE], chunk, x)
              = [out |-> Append(s, chunk[x]), esc |-> FALSE, cut |-> FALSE]
        BY <3>1, EscapesPlain, Zenon
      <4> QED BY <2>7, <4>1, <4>2, Zenon
    <3>3. f[x] = State(x)
      BY <2>6, <2>9, <3>2, Zenon DEF State
    <3>4. E[x] # TRUE
      BY <2>9
    <3> QED BY <2>1, <3>3, <3>4
  <2>10. CASE /\ E[x - 1] = FALSE /\ b = 125 /\ w \in Special /\ J[x] = p /\ E[x] = TRUE
    <3>1. \/ f[x] = [out |-> s, esc |-> TRUE, cut |-> FALSE]
          \/ f[x].cut /\ x = Len(chunk)
      <4>1. f[x - 1] = [out |-> s, esc |-> FALSE, cut |-> FALSE] /\ b = 125
        BY <2>8, <2>10, Zenon
      <4>2. \/ Escapes([out |-> s, esc |-> FALSE, cut |-> FALSE], chunk, x)
                 = [out |-> s, esc |-> TRUE, cut |-> FALSE]
            \/ /\ Escapes([out |-> s, esc |-> FALSE, cut |-> FALSE], chunk, x).cut = TRUE
               /\ x = Len(chunk)
        BY <2>7, <4>1, EscapesEscape, Zenon
      <4> QED BY <2>7, <4>1, <4>2, Zenon
    <3>2. J[x] + 1 <= j + x
      BY <1>3, <2>1, <2>3, <2>10
    <3>3. CASE f[x].cut /\ x = Len(chunk)
      <4>1. f[x].cut /\ ~(x < n)
        BY <1>1, <1>7, <3>3
      <4> QED BY <2>1, <3>2, <4>1
    <3>4. CASE f[x] = [out |-> s, esc |-> TRUE, cut |-> FALSE]
      <4>1. f[x] = State(x)
        BY <2>10, <3>4, Zenon DEF State, s
      <4> QED BY <2>1, <3>2, <4>1
    <3> QED BY <3>1, <3>3, <3>4
  <2>11. CASE /\ E[x - 1] = TRUE /\ w \in Special /\ b = Flip(w) /\ J[x] = p + 1 /\ E[x] = FALSE
    <3>1. Flip(b) = w
      BY <2>11, FlippedBack
    <3>2. f[x] = [out |-> Append(s, Flip(b)), esc |-> FALSE, cut |-> FALSE]
      <4>1. f[x - 1] = [out |-> s, esc |-> TRUE, cut |-> FALSE]
        BY <2>8, <2>11, Zenon
      <4>2. Escapes([out |-> s, esc |-> TRUE, cut |-> FALSE], chunk, x)
              = [out |-> Append(s, Flip(chunk[x])), esc |-> FALSE, cut |-> FALSE]
        BY EscapesEscaped, Zenon
      <4> QED BY <2>7, <4>1, <4>2, Zenon
    <3>3. f[x] = State(x)
      BY <2>6, <2>11, <3>1, <3>2, Zenon DEF State
    <3>4. E[x] # TRUE
      BY <2>11
    <3> QED BY <2>1, <3>3, <3>4
  <2> QED BY <2>5, <2>9, <2>10, <2>11
<1>11. n \in Good
  <2>1. \A x \in 0..n : x \in Good
    <3> HIDE DEF Good
    <3> QED BY <1>1, <1>9, <1>10, Induction
  <2>2. n \in 0..n
    BY <1>1
  <2> QED BY <2>1, <2>2
<1>12. f[n] = State(n)
  BY <1>8, <1>11 DEF chunk, FirstOf
<1>13. J[n] = j + n => E[n] = FALSE
  <2>1. E[n] = TRUE => J[n] + 1 <= j + n
    BY <1>1, <1>11
  <2>2. E[n] \in BOOLEAN /\ J[n] \in Nat
    BY <1>1, <1>2
  <2> QED BY <1>1, <1>3, <2>1, <2>2
<1> QED BY <1>8, <1>12, <1>13 DEF State, B, chunk, Without, FirstOf, BytesOf

-----------------------------------------------------------------------------
(***************************************************************************)
(* The calls in which a frame is read.                                      *)
(***************************************************************************)

Stages == {"length", "data", "checksum"}

\* The bytes of a frame that a call is for, L being the length of its message.
From(at, L) == CASE at = "length" -> 0 [] at = "data" -> 2 [] at = "checksum" -> L + 2
To(at, L)   == CASE at = "length" -> 2 [] at = "data" -> L + 2 [] at = "checksum" -> L + 3

LengthOf(at, msg)  == IF at = "data" THEN Len(msg) ELSE 0
MessageOf(at, msg) == IF at = "checksum" THEN msg ELSE <<>>

\* The reader in a call, when it has j bytes of the frame of message msg.
Reading(msg, at, j, e) ==
  [at |-> at, length |-> LengthOf(at, msg), msg |-> MessageOf(at, msg),
   dest |-> SubSeq(Body(msg), From(at, Len(msg)) + 1, j), esc |-> e]

\* The reader is at a place: it waits for a delimiter, or is in a call.
ReaderAt(r, ms, d, j, e) ==
  \/ r = Restart /\ j = Size(ms, d) /\ Without(e)
  \/ /\ d # 0
     /\ \E at \in Stages : /\ From(at, Len(ms[d])) <= j /\ j < To(at, Len(ms[d]))
                           /\ r = Reading(ms[d], at, j, e)

\* The bounds of the calls within a frame.
LEMMA StageBounds ==
  ASSUME NEW at \in Stages, NEW L \in Nat, L >= 1, L <= 256
  PROVE  /\ From(at, L) \in Nat /\ To(at, L) \in Nat
         /\ From(at, L) < To(at, L) /\ To(at, L) <= L + 3
         /\ at = "length" => From(at, L) = 0 /\ To(at, L) = 2
         /\ at = "data" => From(at, L) = 2 /\ To(at, L) = L + 2
         /\ at = "checksum" => From(at, L) = L + 2 /\ To(at, L) = L + 3
BY DEF Stages, From, To

\* The bytes that a call has.
LEMMA CallBytes ==
  ASSUME NEW msg \in Seq(Byte), Len(msg) >= 1, Len(msg) <= 256, NEW at \in Stages,
         NEW j \in Nat, From(at, Len(msg)) <= j, j <= To(at, Len(msg))
  PROVE  /\ SubSeq(Body(msg), From(at, Len(msg)) + 1, j) \in Seq(Values)
         /\ Len(SubSeq(Body(msg), From(at, Len(msg)) + 1, j)) = j - From(at, Len(msg))
         /\ \A i \in 1..(j - From(at, Len(msg))) :
              SubSeq(Body(msg), From(at, Len(msg)) + 1, j)[i] = Body(msg)[From(at, Len(msg)) + i]
<1> DEFINE L == Len(msg)
           B == Body(msg)
           a == From(at, L)
           s == SubSeq(B, a + 1, j)
<1>0. L \in Nat /\ L >= 1 /\ L <= 256
  OBVIOUS
<1>2. a \in Nat /\ To(at, L) \in Nat /\ To(at, L) <= L + 3
  <2> HIDE DEF L
  <2> QED BY <1>0, StageBounds
<1>3. B \in Seq(Values) /\ Len(B) = L + 3
  BY BodyParts
<1>4. a <= j /\ j <= L + 3
  BY <1>0, <1>2
<1> HIDE DEF B, a, L
<1>5. s \in Seq(Values) /\ Len(s) = j - a /\ \A i \in 1..(j - a) : s[i] = B[a + i]
  <2> DEFINE c == a + 1
  <2>1. c \in 1..(Len(B) + 1) /\ j \in (c - 1)..Len(B) /\ j - c + 1 = j - a
        /\ \A i \in 1..(j - a) : c + i - 1 = a + i
    BY <1>0, <1>2, <1>3, <1>4
  <2>2. /\ SubSeq(B, c, j) \in Seq(Values) /\ Len(SubSeq(B, c, j)) = j - c + 1
        /\ \A i \in 1..(j - c + 1) : SubSeq(B, c, j)[i] = B[c + i - 1]
    <3> HIDE DEF c
    <3> QED BY <1>3, <2>1, Part
  <2> QED BY <2>1, <2>2
<1> QED BY <1>5 DEF B, a, L

\* What is still needed in a call.
LEMMA NeededInCall ==
  ASSUME NEW msg \in Seq(Byte), Len(msg) >= 1, Len(msg) <= 256, NEW at \in Stages, NEW e,
         NEW j \in Nat, From(at, Len(msg)) <= j, j <= To(at, Len(msg))
  PROVE  /\ Needed(Reading(msg, at, j, e)) = To(at, Len(msg)) - j
         /\ Full(Reading(msg, at, j, e)) <=> j = To(at, Len(msg))
         /\ Reading(msg, at, j, e).at \notin {"delimiter", "ended"}
<1> DEFINE L == Len(msg)
           r == Reading(msg, at, j, e)
           a == From(at, L)
           z == To(at, L)
<1>1. r.at = at /\ r.length = LengthOf(at, msg) /\ Len(r.dest) = j - a
  <2>1. /\ r.at = at /\ r.length = LengthOf(at, msg)
        /\ r.dest = SubSeq(Body(msg), a + 1, j)
    BY DEF Reading
  <2>2. Len(SubSeq(Body(msg), a + 1, j)) = j - a
    BY CallBytes
  <2> HIDE DEF r, a
  <2> QED BY <2>1, <2>2
<1>2. /\ a \in Nat /\ z \in Nat /\ L \in Nat /\ L >= 1 /\ L <= 256
      /\ at = "length" => a = 0 /\ z = 2
      /\ at = "data" => a = 2 /\ z = L + 2
      /\ at = "checksum" => a = L + 2 /\ z = L + 3
  BY StageBounds
<1>3. at = "length" \/ at = "data" \/ at = "checksum"
  BY DEF Stages
<1>4. LengthOf(at, msg) = IF at = "data" THEN L ELSE 0
  BY DEF LengthOf
<1> HIDE DEF r, a, z, L
<1>5. Want(r.at, r.length) = z - a
  <2>0. Want("length", r.length) = 2 /\ Want("data", r.length) = r.length
        /\ Want("checksum", r.length) = 1
    BY Zenon DEF Want
  <2>1. CASE at = "length"
    BY <1>1, <1>2, <2>0, <2>1
  <2>2. CASE at = "data"
    BY <1>1, <1>2, <1>4, <2>0, <2>2
  <2>3. CASE at = "checksum"
    BY <1>1, <1>2, <2>0, <2>3
  <2> QED BY <1>3, <2>1, <2>2, <2>3
<1>6. Needed(r) = z - j /\ (Full(r) <=> j = z)
  BY <1>1, <1>2, <1>5 DEF Needed, Full
<1>7. r.at \notin {"delimiter", "ended"}
  BY <1>1, <1>3
<1> QED BY <1>6, <1>7 DEF r, z, L

\* What comes after a call.
LEMMA AfterCall ==
  ASSUME NEW msg \in Seq(Byte), Len(msg) >= 1, Len(msg) <= 256, NEW at \in Stages,
         NEW e, Without(e)
  PROVE  LET r == Reading(msg, at, To(at, Len(msg)), e)
         IN  /\ at = "length" => Follows(r) = Reading(msg, "data", 2, e)
             /\ at = "data" => Follows(r) = Reading(msg, "checksum", Len(msg) + 2, e)
             /\ at = "checksum" => Follows(r) = Restart
             /\ Accepts(r) <=> at = "checksum"
             /\ at = "checksum" => r.msg = msg
<1> DEFINE L == Len(msg)
           B == Body(msg)
           a == From(at, L)
           z == To(at, L)
           r == Reading(msg, at, z, e)
           s == SubSeq(B, a + 1, z)
<1>1. /\ a \in Nat /\ z \in Nat /\ L \in Nat /\ L >= 1 /\ L <= 256 /\ a < z
      /\ at = "length" => a = 0 /\ z = 2
      /\ at = "data" => a = 2 /\ z = L + 2
      /\ at = "checksum" => a = L + 2 /\ z = L + 3
  BY StageBounds
<1>2. /\ r.at = at /\ r.length = LengthOf(at, msg) /\ r.msg = MessageOf(at, msg) /\ r.dest = s
      /\ s \in Seq(Values) /\ Len(s) = z - a /\ \A i \in 1..(z - a) : s[i] = B[a + i]
  <2>1. a <= z /\ z <= z
    BY <1>1
  <2>2. /\ r.at = at /\ r.length = LengthOf(at, msg) /\ r.msg = MessageOf(at, msg)
        /\ r.dest = SubSeq(Body(msg), a + 1, z)
    BY DEF Reading
  <2>3. /\ SubSeq(Body(msg), a + 1, z) \in Seq(Values)
        /\ Len(SubSeq(Body(msg), a + 1, z)) = z - a
        /\ \A i \in 1..(z - a) : SubSeq(Body(msg), a + 1, z)[i] = Body(msg)[a + i]
    BY <1>1, <2>1, CallBytes
  <2> QED BY <2>2, <2>3, Zenon
<1>3. /\ B \in Seq(Values) /\ Len(B) = L + 3
      /\ B[1] = L \div 256 /\ B[2] = L % 256
      /\ \A i \in 1..L : B[2 + i] = msg[i]
      /\ B[L + 3] = Checksum(msg)
      /\ (L \div 256) * 256 + (L % 256) = L
  BY BodyParts
<1>4. Full(r)
  <2>1. a <= z /\ z <= z
    BY <1>1
  <2> QED BY <1>1, <2>1, NeededInCall
<1> HIDE DEF B, L, a, z, r, s
<1>5. CASE at = "length"
  <2>1. r.dest[1] = L \div 256 /\ r.dest[2] = L % 256
    <3>1. 1 \in 1..(z - a) /\ 2 \in 1..(z - a) /\ a + 1 = 1 /\ a + 2 = 2
      BY <1>1, <1>5
    <3>2. s[1] = B[a + 1] /\ s[2] = B[a + 2] /\ r.dest = s
      BY <1>2, <3>1
    <3>3. B[1] = L \div 256 /\ B[2] = L % 256
      BY <1>3
    <3> QED BY <3>1, <3>2, <3>3
  <2>2. r.dest[1] * 256 + r.dest[2] = L
    BY <1>3, <2>1, Zenon
  <2>3. Follows(r) = Call("data", L, <<>>)
    <3>1. r.at = "length"
      BY <1>2, <1>5
    <3>2. L \in 1..256
      <4> HIDE DEF L
      <4> QED BY <1>1
    <3> HIDE DEF L
    <3> QED BY <2>2, <3>1, <3>2 DEF Follows
  <2>4. Call("data", L, <<>>) = Reading(msg, "data", 2, e)
    <3>1. "data" \in Stages
      BY DEF Stages
    <3>2. From("data", L) = 2 /\ To("data", L) = L + 2
      BY <1>1, <3>1, StageBounds
    <3>3. SubSeq(B, 2 + 1, 2) = <<>>
      BY <1>1, <1>3
    <3>4. LengthOf("data", msg) = L /\ MessageOf("data", msg) = <<>>
      BY DEF LengthOf, MessageOf, L
    <3>5. Reading(msg, "data", 2, e) =
            [at |-> "data", length |-> L, msg |-> <<>>, dest |-> <<>>, esc |-> e]
      BY <3>2, <3>3, <3>4, Zenon DEF Reading, B, L
    <3> QED BY <3>5, Zenon DEF Call, Without
  <2>5. ~Accepts(r)
    BY <1>2, <1>5 DEF Accepts
  <2> QED BY <1>5, <2>3, <2>4, <2>5 DEF r, z, L
<1>6. CASE at = "data"
  <2>1. s = msg
    <3>1. Len(msg) = L /\ Len(s) = L /\ z - a = L /\ a = 2
      BY <1>1, <1>2, <1>6 DEF L
    <3>2. \A i \in 1..L : s[i] = msg[i]
      BY <1>2, <1>3, <3>1
    <3>3. msg \in Seq(Values)
      <4>1. \A i \in 1..L : msg[i] \in Byte
        BY <3>1
      <4>2. \A b \in Byte : b \in Values
        BY DEF Byte, Values
      <4> QED BY <3>1, <4>1, <4>2
    <3> QED BY <1>2, <3>1, <3>2, <3>3, SameElements
  <2>2. Follows(r) = Call("checksum", 0, msg)
    <3>1. r.at = "data"
      BY <1>2, <1>6
    <3> QED BY <1>2, <2>1, <3>1 DEF Follows
  <2>3. Call("checksum", 0, msg) = Reading(msg, "checksum", L + 2, e)
    <3>1. "checksum" \in Stages
      BY DEF Stages
    <3>2. From("checksum", L) = L + 2
      BY <1>1, <3>1, StageBounds
    <3>3. SubSeq(B, (L + 2) + 1, L + 2) = <<>>
      <4> DEFINE c == (L + 2) + 1
                 b == L + 2
      <4>1. c \in 1..(Len(B) + 1) /\ b \in (c - 1)..Len(B) /\ b - c + 1 = 0
        BY <1>1, <1>3
      <4>2. SubSeq(B, c, b) \in Seq(Values) /\ Len(SubSeq(B, c, b)) = b - c + 1
        <5> HIDE DEF b, c
        <5> QED BY <1>3, <4>1, Part
      <4> HIDE DEF b, c
      <4>3. SubSeq(B, c, b) = <<>>
        BY <4>1, <4>2
      <4> QED BY <4>3 DEF b, c
    <3>4. LengthOf("checksum", msg) = 0 /\ MessageOf("checksum", msg) = msg
      BY DEF LengthOf, MessageOf
    <3>5. Reading(msg, "checksum", L + 2, e) =
            [at |-> "checksum", length |-> 0, msg |-> msg, dest |-> <<>>, esc |-> e]
      BY <3>2, <3>3, <3>4, Zenon DEF Reading, B, L
    <3> QED BY <3>5, Zenon DEF Call, Without
  <2>4. ~Accepts(r)
    BY <1>2, <1>6 DEF Accepts
  <2> QED BY <1>6, <2>2, <2>3, <2>4 DEF r, z, L
<1>7. CASE at = "checksum"
  <2>1. r.dest[1] = Checksum(msg)
    <3>1. 1 \in 1..(z - a) /\ a + 1 = L + 3
      BY <1>1, <1>7
    <3> QED BY <1>2, <1>3, <3>1
  <2>2. r.msg = msg
    BY <1>2, <1>7 DEF MessageOf
  <2>3. Follows(r) = Restart
    BY <1>2, <1>7 DEF Follows
  <2>4. Accepts(r)
    BY <1>2, <1>4, <1>7, <2>1, <2>2 DEF Accepts, ChecksumHolds
  <2> QED BY <1>7, <2>2, <2>3, <2>4 DEF r, z, L
<1> QED BY <1>5, <1>6, <1>7 DEF Stages

-----------------------------------------------------------------------------
(***************************************************************************)
(* A chunk received.                                                        *)
(***************************************************************************)

\* Without escapes the chunk is the bytes of the frame.
LEMMA PlainChunk ==
  ASSUME NEW ms, NEW raw, NEW D, NEW J, NEW E, Framable(ms), raw \in Seq(Values),
         NEW escape, NEW n, Without(escape), Within(raw, ms, escape, D, J, E, n)
  PROVE  /\ FirstOf(raw, n) = BytesOf(ms, D[0], J[0], J[n])
         /\ J[n] = J[0] + n /\ Without(E[n])
<1> Way(raw, ms, escape, D, J, E) /\ D[0] # 0 /\ n \in 1..Len(raw) /\ J[0] + n <= Size(ms, D[0])
  BY DEF Within
<1> DEFINE m == Len(raw)
           d == D[0]
           j == J[0]
           B == Body(ms[d])
           Z == Size(ms, d)
<1>1. m \in Nat /\ n \in Nat /\ n >= 1 /\ n <= m /\ n \in 0..m /\ 0 \in 0..m
  OBVIOUS
<1>2. /\ D \in [0..m -> 0..Len(ms)] /\ J \in [0..m -> Nat] /\ E \in [0..m -> BOOLEAN]
      /\ \A x \in 1..m :
           Leads(ms, escape, D[x - 1], J[x - 1], E[x - 1], raw[x], D[x], J[x], E[x])
  BY DEF Way
<1>3. d \in 0..Len(ms) /\ j \in Nat
  BY <1>1, <1>2
<1>4. /\ Z \in Nat /\ ms[d] \in Seq(Byte) /\ Z = Len(ms[d]) + 3
      /\ Len(ms[d]) \in Nat /\ Len(ms[d]) >= 1 /\ Len(ms[d]) <= 256
  BY <1>3, Sizes
<1>5. B \in Seq(Values) /\ Len(B) = Z
  BY <1>4, BodyParts
<1>6. \A x \in 0..n : D[x] = d /\ j <= J[x] /\ J[x] <= j + x
  BY <1>1, Inside
<1>7. j + n <= Z
  OBVIOUS
<1> HIDE DEF m, B, Z
<1>8. ASSUME NEW x \in 1..n
      PROVE  J[x] = J[x - 1] + 1 /\ E[x] = FALSE /\ raw[x] = B[J[x - 1] + 1]
  <2>1. x - 1 \in 0..n /\ x \in 1..m /\ x - 1 \in 0..m
    BY <1>1
  <2>2. D[x - 1] = d /\ J[x - 1] \in Nat /\ J[x - 1] <= j + (x - 1)
    BY <1>2, <1>6, <2>1
  <2>3. J[x - 1] # Z
    BY <1>1, <1>3, <1>4, <1>7, <2>2
  <2>4. Leads(ms, escape, d, J[x - 1], E[x - 1], raw[x], D[x], J[x], E[x])
    BY <1>2, <2>1, <2>2
  <2> QED BY <2>3, <2>4 DEF Without, Leads, Z, B
<1> DEFINE Good == {x \in 0..n : J[x] = j + x}
<1>9. \A x \in 0..n : x \in Good
  <2>1. 0 \in Good
    BY <1>1, <1>3
  <2>2. \A x \in 1..n : x - 1 \in Good => x \in Good
    <3> TAKE x \in 1..n
    <3>1. x \in 0..n /\ (j + (x - 1)) + 1 = j + x
      BY <1>1, <1>3
    <3> HIDE DEF j
    <3> QED BY <1>8, <3>1
  <2> HIDE DEF Good
  <2> QED BY <1>1, <2>1, <2>2, Induction
<1>10. \A x \in 1..n : raw[x] = B[j + x]
  <2> TAKE x \in 1..n
  <2>1. x - 1 \in 0..n /\ (j + (x - 1)) + 1 = j + x
    BY <1>1, <1>3
  <2>2. J[x - 1] = j + (x - 1)
    BY <1>9, <2>1
  <2> QED BY <1>8, <2>1, <2>2
<1>11. J[n] = j + n /\ E[n] = FALSE
  <2>1. n \in 0..n /\ n \in 1..n
    BY <1>1
  <2> QED BY <1>8, <1>9, <2>1
<1> HIDE DEF Good
<1> DEFINE u == SubSeq(raw, 1, n)
           k == j + n
           a == j + 1
           v == SubSeq(B, a, k)
<1>12. u \in Seq(Values) /\ Len(u) = n /\ \A x \in 1..n : u[x] = raw[x]
  <2>1. 1 \in 1..(Len(raw) + 1) /\ n \in (1 - 1)..Len(raw) /\ n - 1 + 1 = n
    BY <1>1 DEF m
  <2>2. /\ SubSeq(raw, 1, n) \in Seq(Values) /\ Len(SubSeq(raw, 1, n)) = n - 1 + 1
        /\ \A x \in 1..(n - 1 + 1) : SubSeq(raw, 1, n)[x] = raw[1 + x - 1]
    BY <2>1, Part
  <2>3. \A x \in 1..n : 1 + x - 1 = x
    OBVIOUS
  <2> QED BY <2>1, <2>2, <2>3
<1>13. v \in Seq(Values) /\ Len(v) = n /\ \A x \in 1..n : v[x] = B[j + x]
  <2>1. a \in 1..(Len(B) + 1) /\ k \in (a - 1)..Len(B) /\ k - a + 1 = n
        /\ \A x \in 1..n : a + x - 1 = j + x
    <3> HIDE DEF j
    <3> QED BY <1>1, <1>3, <1>4, <1>5, <1>7
  <2>2. /\ SubSeq(B, a, k) \in Seq(Values) /\ Len(SubSeq(B, a, k)) = k - a + 1
        /\ \A x \in 1..(k - a + 1) : SubSeq(B, a, k)[x] = B[a + x - 1]
    <3> HIDE DEF a, k
    <3> QED BY <1>5, <2>1, Part
  <2> QED BY <2>1, <2>2
<1> HIDE DEF u, v, k
<1>14. u = v
  BY <1>1, <1>10, <1>12, <1>13, SameElements
<1> QED BY <1>11, <1>14 DEF u, v, k, B, Without, FirstOf, BytesOf

\* A chunk leads the reader on within its call, or to the end of it.
LEMMA ReceivesChunk ==
  ASSUME With(api2) \/ Without(api2),
         NEW ms, NEW raw, NEW D, NEW J, NEW E, Framable(ms), raw \in Seq(Values),
         NEW n, Within(raw, ms, api2, D, J, E, n), NEW at \in Stages,
         From(at, Len(ms[D[0]])) <= J[0], J[0] + n = To(at, Len(ms[D[0]])),
         ~EscaperOf(Reading(ms[D[0]], at, J[0], E[0]), FirstOf(raw, n)).cut
  PROVE  /\ Received(Reading(ms[D[0]], at, J[0], E[0]), FirstOf(raw, n))
              = Reading(ms[D[0]], at, J[n], E[n])
         /\ D[n] = D[0] /\ J[0] <= J[n] /\ J[n] <= J[0] + n
         /\ J[n] = J[0] + n => Without(E[n])
<1> Way(raw, ms, api2, D, J, E) /\ D[0] # 0 /\ n \in 1..Len(raw) /\ J[0] + n <= Size(ms, D[0])
  BY DEF Within
<1> DEFINE d == D[0]
           j == J[0]
           k == J[n]
           msg == ms[d]
           L == Len(msg)
           B == Body(msg)
           a == From(at, L)
           r == Reading(msg, at, j, E[0])
           chunk == FirstOf(raw, n)
           new == BytesOf(ms, d, j, k)
           read == EscaperOf(r, chunk)
<1>1. /\ D \in [0..Len(raw) -> 0..Len(ms)] /\ J \in [0..Len(raw) -> Nat]
      /\ 0 \in 0..Len(raw) /\ n \in 0..Len(raw) /\ n \in Nat /\ n \in 0..n
  BY DEF Way
<1>2. d \in 0..Len(ms) /\ j \in Nat /\ k \in Nat
  BY <1>1
<1>3. msg \in Seq(Byte) /\ L \in Nat /\ L >= 1 /\ L <= 256 /\ Size(ms, d) = L + 3
  BY <1>2, Sizes
<1>4. a \in Nat /\ To(at, L) \in Nat /\ To(at, L) <= L + 3 /\ a <= j /\ j + n = To(at, L)
  <2>1. a <= j /\ j + n = To(at, L)
    OBVIOUS
  <2> HIDE DEF L, j
  <2> QED BY <1>3, <2>1, StageBounds
<1>5. j + n <= Size(ms, d)
  BY <1>1, <1>2, <1>3, <1>4
<1>6. D[n] = d /\ j <= k /\ k <= j + n
  BY <1>1, <1>5, Inside
<1>7. r.at = at /\ r.esc = E[0] /\ r.dest = SubSeq(B, a + 1, j) /\ r.at # "delimiter"
  BY DEF Reading, Stages
<1>8. read.out = new /\ read.esc = E[n] /\ (k = j + n => Without(E[n]))
  <2>1. CASE With(api2)
    <3>1. read = Unescape(chunk, E[0])
      <4> HIDE DEF r, chunk
      <4> QED BY <1>7, <2>1 DEF With, EscaperOf
    <3>2. ~Unescape(chunk, E[0]).cut
      BY <3>1
    <3>3. /\ Unescape(FirstOf(raw, n), E[0]).out = BytesOf(ms, D[0], J[0], J[n])
          /\ Unescape(FirstOf(raw, n), E[0]).esc = E[n]
          /\ J[n] = J[0] + n => Without(E[n])
      <4>1. J[0] + n <= Size(ms, D[0]) /\ ~Unescape(FirstOf(raw, n), E[0]).cut
        BY <3>2
      <4> HIDE DEF d, j, k, msg, L, B, a, r, chunk, new, read
      <4> QED BY <2>1, <4>1, Unescapes
    <3> QED BY <3>1, <3>3
  <2>2. CASE Without(api2)
    <3>1. read = [out |-> chunk, esc |-> FALSE, cut |-> FALSE]
      <4> HIDE DEF r, chunk
      <4> QED BY <1>7, <2>2 DEF Without, EscaperOf
    <3>2. FirstOf(raw, n) = BytesOf(ms, D[0], J[0], J[n]) /\ Without(E[n])
      <4>1. J[0] + n <= Size(ms, D[0])
        BY <1>5
      <4> HIDE DEF d, j, k, msg, L, B, a, r, chunk, new, read
      <4> QED BY <2>2, <4>1, PlainChunk
    <3>3. chunk = new /\ Without(E[n])
      BY <3>2
    <3>4. read.out = chunk /\ read.esc = FALSE
      BY <3>1
    <3> QED BY <3>3, <3>4 DEF Without
  <2> QED BY <2>1, <2>2
<1>9. SubSeq(B, a + 1, j) \o new = SubSeq(B, a + 1, k)
  <2> DEFINE c == a + 1
  <2>1. B \in Seq(Values) /\ Len(B) = L + 3
    BY <1>3, BodyParts
  <2>2. c \in 1..(Len(B) + 1) /\ j \in (c - 1)..Len(B) /\ k \in j..Len(B)
    <3> HIDE DEF B, L, a, j, k
    <3> QED BY <1>1, <1>2, <1>3, <1>4, <1>6, <2>1
  <2> HIDE DEF c, j, k, B
  <2>3. SubSeq(B, c, j) \o SubSeq(B, j + 1, k) = SubSeq(B, c, k)
    BY <2>1, <2>2, PartsJoined
  <2> QED BY <2>3 DEF c, BytesOf, B, k, j
<1>10. Received(r, chunk) = [r EXCEPT !.dest = SubSeq(B, a + 1, k), !.esc = E[n]]
  <2> HIDE DEF r, chunk, new
  <2>1. Received(r, chunk) = [r EXCEPT !.dest = r.dest \o read.out, !.esc = read.esc]
    BY DEF Received, read
  <2> HIDE DEF read
  <2> QED BY <1>7, <1>8, <1>9, <2>1
<1>11. r = [at |-> at, length |-> LengthOf(at, msg), msg |-> MessageOf(at, msg),
            dest |-> SubSeq(B, a + 1, j), esc |-> E[0]]
  BY Zenon DEF Reading
<1>12. [r EXCEPT !.dest = SubSeq(B, a + 1, k), !.esc = E[n]] = Reading(msg, at, k, E[n])
  <2> DEFINE t == SubSeq(B, a + 1, k)
             f == E[n]
             l == LengthOf(at, msg)
             mm == MessageOf(at, msg)
             s == SubSeq(B, a + 1, j)
             e == E[0]
  <2>1. r = [at |-> at, length |-> l, msg |-> mm, dest |-> s, esc |-> e]
    BY <1>11
  <2> HIDE DEF t, f, l, mm, s, e, r
  <2>2. [r EXCEPT !.dest = t, !.esc = f] = [at |-> at, length |-> l, msg |-> mm, dest |-> t, esc |-> f]
    <3>1. [r EXCEPT !.dest = t] = [at |-> at, length |-> l, msg |-> mm, dest |-> t, esc |-> e]
      BY <2>1
    <3>2. [[at |-> at, length |-> l, msg |-> mm, dest |-> t, esc |-> e] EXCEPT !.esc = f]
            = [at |-> at, length |-> l, msg |-> mm, dest |-> t, esc |-> f]
      OBVIOUS
    <3>3. [[r EXCEPT !.dest = t] EXCEPT !.esc = f]
            = [at |-> at, length |-> l, msg |-> mm, dest |-> t, esc |-> f]
      BY <3>1, <3>2, Zenon
    <3> QED BY <3>3
  <2> QED BY <2>2, Zenon DEF t, f, l, mm, Reading
<1> QED BY <1>6, <1>8, <1>10, <1>12

-----------------------------------------------------------------------------
(***************************************************************************)
(* One step of the reader.                                                  *)
(***************************************************************************)

\* Chunk of n bytes taken by reader r.
Takes(r, raw, n, x, y) ==
  /\ n = Needed(r) /\ n <= Len(raw)
  /\ x = Received(r, FirstOf(raw, n))
  /\ y = IF Full(x) THEN Follows(x) ELSE x

\* A chunk without an escape ends without one.
Clear(J, E, n) == J[n] = J[0] + n => Without(E[n])

\* Every chunk is, unless the escaper drops a byte of it.
LEMMA ChunkIsClear ==
  ASSUME With(api2) \/ Without(api2),
         NEW ms, NEW raw, NEW D, NEW J, NEW E, Framable(ms), raw \in Seq(Values),
         NEW n, Within(raw, ms, api2, D, J, E, n), NEW at \in Stages,
         From(at, Len(ms[D[0]])) <= J[0], J[0] + n = To(at, Len(ms[D[0]])),
         ~EscaperOf(Reading(ms[D[0]], at, J[0], E[0]), FirstOf(raw, n)).cut
  PROVE  Clear(J, E, n)
<1>1. J[n] = J[0] + n => Without(E[n])
  BY ReceivesChunk
<1> QED BY <1>1 DEF Clear

\* A call goes on, ends, or ends the frame, which is then accepted.
GoesOn(raw, ms, D, J, E, at, n, x, y) ==
  /\ n \in 1..Len(raw) /\ D[n] = D[0]
  /\ Reading(ms[D[0]], at, J[0], E[0]) # Restart
  /\ ReaderAt(y, ms, D[n], J[n], E[n])
  /\ Accepts(x) => x.msg = ms[D[0]] /\ y = Restart
  /\ ~Accepts(x) => y # Restart

\* So does every call within a frame, unless the escaper drops a byte.
LEMMA CallGoesOn ==
  ASSUME With(api2) \/ Without(api2),
         NEW ms, NEW raw, NEW D, NEW J, NEW E, NEW at, NEW n, NEW x, NEW y,
         Framable(ms), raw \in Seq(Values), at \in Stages,
         Way(raw, ms, api2, D, J, E), D[0] # 0,
         From(at, Len(ms[D[0]])) <= J[0], J[0] < To(at, Len(ms[D[0]])),
         Takes(Reading(ms[D[0]], at, J[0], E[0]), raw, n, x, y),
         ~EscaperOf(Reading(ms[D[0]], at, J[0], E[0]), FirstOf(raw, n)).cut
  PROVE  GoesOn(raw, ms, D, J, E, at, n, x, y)
<1> SUFFICES /\ n \in 1..Len(raw) /\ D[n] = D[0]
             /\ Reading(ms[D[0]], at, J[0], E[0]) # Restart
             /\ ReaderAt(y, ms, D[n], J[n], E[n])
             /\ Accepts(x) => x.msg = ms[D[0]] /\ y = Restart
             /\ ~Accepts(x) => y # Restart
  BY DEF GoesOn
<1> DEFINE r == Reading(ms[D[0]], at, J[0], E[0])
           d == D[0]
           j == J[0]
           k == J[n]
           msg == ms[d]
           L == Len(msg)
           a == From(at, L)
           z == To(at, L)
           e == E[n]
<1>1. /\ D \in [0..Len(raw) -> 0..Len(ms)] /\ J \in [0..Len(raw) -> Nat]
      /\ 0 \in 0..Len(raw) /\ Len(raw) \in Nat
  BY DEF Way
<1>2. d \in 0..Len(ms) /\ j \in Nat /\ d # 0
  BY <1>1
<1>3. msg \in Seq(Byte) /\ L \in Nat /\ L >= 1 /\ L <= 256 /\ Size(ms, d) = L + 3
  BY <1>2, Sizes
<1>4. a \in Nat /\ z \in Nat /\ z <= L + 3 /\ a <= j /\ j < z
  <2>1. a <= j /\ j < z
    OBVIOUS
  <2> HIDE DEF L, j
  <2> QED BY <1>3, <2>1, StageBounds
<1>5. r = Reading(msg, at, j, E[0])
  OBVIOUS
<1>6. n = z - j
  <2>1. j <= z
    BY <1>2, <1>4
  <2>2. Needed(Reading(msg, at, j, E[0])) = z - j
    <3> DEFINE e0 == E[0]
    <3> HIDE DEF msg, j, e0
    <3>1. Needed(Reading(msg, at, j, e0)) = To(at, Len(msg)) - j
      BY <1>2, <1>3, <1>4, <2>1, NeededInCall DEF L, a, z
    <3> QED BY <3>1 DEF e0, z, L
  <2> QED BY <1>5, <2>2 DEF Takes
<1>7. n \in 1..Len(raw) /\ j + n = z
  <2>1. n <= Len(raw)
    BY DEF Takes
  <2> HIDE DEF z, j
  <2> QED BY <1>1, <1>2, <1>4, <1>6, <2>1
<1>8. Within(raw, ms, api2, D, J, E, n)
  <2>1. J[0] + n <= Size(ms, D[0])
    BY <1>3, <1>4, <1>7
  <2> QED BY <1>7, <2>1 DEF Within
<1>9. /\ Received(r, FirstOf(raw, n)) = Reading(msg, at, k, e)
      /\ D[n] = d /\ j <= k /\ k <= j + n
      /\ k = j + n => Without(e)
  <2>1. /\ Received(Reading(ms[D[0]], at, J[0], E[0]), FirstOf(raw, n))
             = Reading(ms[D[0]], at, J[n], E[n])
        /\ D[n] = D[0] /\ J[0] <= J[n] /\ J[n] <= J[0] + n
        /\ J[n] = J[0] + n => Without(E[n])
    <3>1. ~EscaperOf(Reading(ms[D[0]], at, J[0], E[0]), FirstOf(raw, n)).cut
      BY <1>5
    <3>2. J[0] + n = To(at, Len(ms[D[0]]))
      BY <1>7
    <3> HIDE DEF r, d, j, k, e, msg, L, a, z
    <3>3. Received(Reading(ms[D[0]], at, J[0], E[0]), FirstOf(raw, n))
            = Reading(ms[D[0]], at, J[n], E[n])
      BY <1>8, <3>1, <3>2, ReceivesChunk
    <3>4. D[n] = D[0] /\ J[0] <= J[n] /\ J[n] <= J[0] + n
      BY <1>8, <3>1, <3>2, ReceivesChunk
    <3>5. Clear(J, E, n)
      BY <1>8, <3>1, <3>2, ChunkIsClear
    <3> QED BY <3>3, <3>4, <3>5 DEF Clear
  <2> QED BY <1>5, <2>1
<1>10. x = Reading(msg, at, k, e) /\ y = IF Full(x) THEN Follows(x) ELSE x
  BY <1>9 DEF Takes
<1>11. k \in Nat /\ a <= k /\ k <= z
  <2>1. k \in Nat
    BY <1>1, <1>7
  <2> HIDE DEF k, a, z, j
  <2> QED BY <1>2, <1>4, <1>7, <1>9, <2>1
<1> HIDE DEF r, d, j, k, e, msg, L, a, z
<1>12. (Full(x) <=> k = z) /\ x.at # "delimiter" /\ r # Restart
  <2>1. (Full(x) <=> k = z) /\ x.at \notin {"delimiter", "ended"}
    BY <1>3, <1>10, <1>11, NeededInCall DEF L, a, z
  <2>2. r.at = at /\ Restart.at = "delimiter"
    BY <1>5 DEF Reading, Restart, Call
  <2>3. at # "delimiter"
    BY DEF Stages
  <2> QED BY <2>1, <2>2, <2>3
<1>13. \A o, jj, ee : o \in Stages => Reading(msg, o, jj, ee) # Restart
  <2> TAKE o, jj, ee
  <2>1. Reading(msg, o, jj, ee).at = o /\ Restart.at = "delimiter"
    BY DEF Reading, Restart, Call
  <2> QED BY <2>1 DEF Stages
<1>14. SUFFICES /\ ReaderAt(y, ms, d, k, e)
                /\ Accepts(x) => x.msg = msg /\ y = Restart
                /\ ~Accepts(x) => y # Restart
  BY <1>7, <1>9, <1>12 DEF r, d, k, e, msg
<1>15. CASE k # z
  <2>1. y = Reading(msg, at, k, e) /\ ~Full(x)
    BY <1>10, <1>12, <1>15
  <2>2. k < z
    BY <1>4, <1>11, <1>15
  <2>3. ReaderAt(y, ms, d, k, e)
    BY <1>2, <1>11, <2>1, <2>2 DEF ReaderAt, msg, L, a, z
  <2>4. ~Accepts(x)
    BY <2>1 DEF Accepts
  <2> QED BY <1>13, <2>1, <2>3, <2>4
<1>16. CASE k = z
  <2>1. Without(e) /\ y = Follows(x) /\ x = Reading(msg, at, To(at, Len(msg)), e)
    BY <1>7, <1>9, <1>10, <1>12, <1>16 DEF z, L
  <2>2. /\ at = "length" => Follows(x) = Reading(msg, "data", 2, e)
        /\ at = "data" => Follows(x) = Reading(msg, "checksum", Len(msg) + 2, e)
        /\ at = "checksum" => Follows(x) = Restart
        /\ Accepts(x) <=> at = "checksum"
        /\ at = "checksum" => x.msg = msg
    BY <1>3, <2>1, AfterCall DEF L
  <2>3. /\ at = "length" => z = 2
        /\ at = "data" => z = L + 2
        /\ at = "checksum" => z = L + 3
    BY <1>3, StageBounds DEF z
  <2>4. /\ "data" \in Stages /\ "checksum" \in Stages
        /\ From("data", L) = 2 /\ To("data", L) = L + 2
        /\ From("checksum", L) = L + 2 /\ To("checksum", L) = L + 3
    BY DEF Stages, From, To
  <2>5. CASE at = "length"
    <3>1. y = Reading(msg, "data", k, e) /\ From("data", L) <= k /\ k < To("data", L)
      BY <1>3, <1>16, <2>1, <2>2, <2>3, <2>4, <2>5
    <3>2. ReaderAt(y, ms, d, k, e)
      BY <1>2, <2>4, <3>1 DEF ReaderAt, msg, L
    <3> QED BY <1>13, <2>2, <2>4, <2>5, <3>1, <3>2
  <2>6. CASE at = "data"
    <3>1. y = Reading(msg, "checksum", k, e) /\ From("checksum", L) <= k /\ k < To("checksum", L)
      BY <1>3, <1>16, <2>1, <2>2, <2>3, <2>4, <2>6 DEF L
    <3>2. ReaderAt(y, ms, d, k, e)
      BY <1>2, <2>4, <3>1 DEF ReaderAt, msg, L
    <3> QED BY <1>13, <2>2, <2>4, <2>6, <3>1, <3>2
  <2>7. CASE at = "checksum"
    <3>1. y = Restart /\ k = Size(ms, d)
      BY <1>3, <1>16, <2>1, <2>2, <2>3, <2>7
    <3>2. ReaderAt(y, ms, d, k, e)
      BY <2>1, <3>1 DEF ReaderAt
    <3> QED BY <2>2, <2>7, <3>1, <3>2
  <2> QED BY <2>5, <2>6, <2>7 DEF Stages
<1> QED BY <1>15, <1>16

\* What waits for a delimiter finds one and begins to read a frame, or waits on.
LEMMA DelimiterGoesOn ==
  ASSUME NEW ms, NEW raw, NEW D, NEW J, NEW E, Framable(ms), raw \in Seq(Values),
         Way(raw, ms, api2, D, J, E), J[0] = Size(ms, D[0]),
         NEW n, NEW x, NEW y, Takes(Restart, raw, n, x, y)
  PROVE  /\ n \in 1..Len(raw)
         /\ ReaderAt(y, ms, D[n], J[n], E[n]) /\ ~Accepts(x)
         /\ \/ y = Restart /\ D[n] = D[0]
            \/ y # Restart /\ D[n] = D[0] + 1
<1> DEFINE d == D[0]
           m == Len(raw)
           b == raw[1]
           chunk == FirstOf(raw, n)
<1>1. /\ Restart.at = "delimiter" /\ Restart.length = 0 /\ Restart.dest = <<>>
      /\ Restart = [at |-> "delimiter", length |-> 0, msg |-> <<>>, dest |-> <<>>, esc |-> FALSE]
  BY DEF Restart, Call
<1>2. n = 1 /\ n \in 1..m /\ m \in Nat
  <2>1. Want("delimiter", 0) = 1
    BY Zenon DEF Want
  <2>2. Needed(Restart) = 1 - 0
    <3>1. Len(<<>>) = 0
      OBVIOUS
    <3> QED BY <1>1, <2>1, <3>1, Zenon DEF Needed
  <2>3. n = Needed(Restart) /\ n <= Len(raw)
    BY DEF Takes
  <2> QED BY <2>2, <2>3
<1>3. /\ D \in [0..m -> 0..Len(ms)] /\ J \in [0..m -> Nat] /\ E \in [0..m -> BOOLEAN]
      /\ Leads(ms, api2, D[1 - 1], J[1 - 1], E[1 - 1], raw[1], D[1], J[1], E[1])
  BY <1>2 DEF Way
<1>4. d \in 0..Len(ms) /\ D[1] \in 0..Len(ms) /\ E[1] \in BOOLEAN /\ d \in Nat /\ D[1] \in Nat
  BY <1>2, <1>3
<1>5. Size(ms, d) \in Nat
  BY <1>4, Sizes
<1>6. /\ Without(E[1])
      /\ \/ b # 126 /\ D[1] = d /\ J[1] = J[0]
         \/ b = 126 /\ D[1] = d + 1 /\ J[1] = 0
  <2>1. Leads(ms, api2, D[0], J[0], E[0], raw[1], D[1], J[1], E[1])
    <3>1. 1 - 1 = 0
      OBVIOUS
    <3> QED BY <1>3, <3>1, Zenon
  <2>2. ~(J[0] < Size(ms, D[0]))
    BY <1>5
  <2> QED BY <2>1, <2>2 DEF Leads, Without
<1>7. chunk = <<b>>
  <2>1. SubSeq(raw, 1, 1) = <<raw[1]>>
    <3> DEFINE u == SubSeq(raw, 1, 1)
    <3>1. 1 \in 1..(Len(raw) + 1) /\ 1 \in (1 - 1)..Len(raw) /\ 1 - 1 + 1 = 1
      BY <1>2
    <3>2. /\ SubSeq(raw, 1, 1) \in Seq(Values) /\ Len(SubSeq(raw, 1, 1)) = 1 - 1 + 1
          /\ \A i \in 1..(1 - 1 + 1) : SubSeq(raw, 1, 1)[i] = raw[1 + i - 1]
      BY <3>1, Part
    <3>3. u \in Seq(Values) /\ Len(u) = 1 /\ u[1] = raw[1]
      BY <3>2
    <3> HIDE DEF u
    <3>4. u = <<raw[1]>>
      BY <3>3
    <3> QED BY <3>4 DEF u
  <2> QED BY <1>2, <2>1 DEF FirstOf
<1> HIDE DEF chunk, b, d
<1> DEFINE no == FALSE
           t == "delimiter"
           rest == [at |-> t, length |-> 0, msg |-> <<>>, dest |-> <<b>>, esc |-> no]
<1>8. x = rest
  <2>1. Received(Restart, chunk) = [Restart EXCEPT !.dest = <<>> \o chunk, !.esc = no]
    <3>1. EscaperOf(Restart, chunk) = [out |-> chunk, esc |-> FALSE, cut |-> FALSE]
      BY <1>1 DEF EscaperOf
    <3>2. EscaperOf(Restart, chunk).out = chunk /\ EscaperOf(Restart, chunk).esc = no
      BY <3>1
    <3> QED BY <1>1, <3>2, Zenon DEF Received
  <2>2. <<>> \o chunk = <<b>>
    BY <1>7
  <2>3. Restart = [at |-> t, length |-> 0, msg |-> <<>>, dest |-> <<>>, esc |-> no]
    BY <1>1, Zenon DEF no, t
  <2> HIDE DEF no, t
  <2> DEFINE u == <<b>>
             l == 0
             e0 == <<>>
  <2>4. Restart = [at |-> t, length |-> l, msg |-> e0, dest |-> e0, esc |-> no]
    BY <2>3
  <2>5. Received(Restart, chunk) = [Restart EXCEPT !.dest = u, !.esc = no]
    BY <2>1, <2>2, Zenon
  <2> HIDE DEF u, l, e0
  <2>6. [Restart EXCEPT !.dest = u] = [at |-> t, length |-> l, msg |-> e0, dest |-> u, esc |-> no]
    BY <2>4
  <2>7. [[at |-> t, length |-> l, msg |-> e0, dest |-> u, esc |-> no] EXCEPT !.esc = no]
          = [at |-> t, length |-> l, msg |-> e0, dest |-> u, esc |-> no]
    OBVIOUS
  <2>8. [[Restart EXCEPT !.dest = u] EXCEPT !.esc = no]
          = [at |-> t, length |-> l, msg |-> e0, dest |-> u, esc |-> no]
    BY <2>6, <2>7, Zenon
  <2>9. Received(Restart, chunk) = [at |-> t, length |-> l, msg |-> e0, dest |-> u, esc |-> no]
    BY <2>5, <2>8
  <2>10. x = Received(Restart, chunk)
    BY DEF Takes, chunk
  <2> QED BY <2>9, <2>10, Zenon DEF u, l, e0, rest
<1>9. x.at = t /\ x.length = 0 /\ x.dest = <<b>>
  BY <1>8
<1> HIDE DEF rest
<1>10. Full(x)
  <2>1. Want("delimiter", 0) = 1
    BY Zenon DEF Want
  <2>2. Len(<<b>>) = 1
    OBVIOUS
  <2> QED BY <1>9, <2>1, <2>2, Zenon DEF Full, t
<1>11. ~Accepts(x)
  BY <1>9 DEF Accepts
<1>12. y = IF b = 126 THEN Call("length", 0, <<>>) ELSE Restart
  <2>1. Follows(x) = IF x.dest = <<126>> THEN Call("length", 0, <<>>) ELSE Restart
    BY <1>9, Zenon DEF Follows, t
  <2>2. <<b>> = <<126>> <=> b = 126
    OBVIOUS
  <2>3. y = IF Full(x) THEN Follows(x) ELSE x
    BY DEF Takes
  <2> QED BY <1>9, <1>10, <2>1, <2>2, <2>3, Zenon
<1>13. CASE b # 126
  <2>1. y = Restart /\ D[1] = d /\ J[1] = Size(ms, d)
    BY <1>6, <1>12, <1>13 DEF d
  <2>2. ReaderAt(y, ms, D[1], J[1], E[1])
    BY <1>6, <2>1 DEF ReaderAt
  <2> QED BY <1>2, <1>11, <2>1, <2>2 DEF d, m
<1>14. CASE b = 126
  <2>1. y = Call("length", 0, <<>>) /\ D[1] = d + 1 /\ J[1] = 0 /\ D[1] # 0
    BY <1>4, <1>6, <1>12, <1>14
  <2> DEFINE msg == ms[D[1]]
             e == E[1]
             B == Body(msg)
             L == Len(msg)
  <2>2. msg \in Seq(Byte) /\ L \in Nat /\ L >= 1 /\ L <= 256
    BY <1>4, <2>1, Sizes
  <2>3. B \in Seq(Values) /\ Len(B) = L + 3
    BY <2>2, BodyParts
  <2>4. "length" \in Stages
    BY DEF Stages
  <2> HIDE DEF L, B
  <2>5. From("length", L) = 0 /\ To("length", L) = 2
    BY <2>2, <2>4, StageBounds
  <2>6. SubSeq(B, 0 + 1, 0) = <<>>
    BY <2>2, <2>3
  <2>7. LengthOf("length", msg) = 0 /\ MessageOf("length", msg) = <<>>
    BY DEF LengthOf, MessageOf
  <2>8. Reading(msg, "length", 0, e) =
          [at |-> "length", length |-> 0, msg |-> <<>>, dest |-> <<>>, esc |-> e]
    BY <2>5, <2>6, <2>7, Zenon DEF Reading, B, L
  <2>9. Call("length", 0, <<>>) = Reading(msg, "length", 0, e)
    BY <1>6, <2>8, Zenon DEF Call, Without
  <2>10. ReaderAt(y, ms, D[1], J[1], E[1])
    <3>1. From("length", Len(ms[D[1]])) <= J[1] /\ J[1] < To("length", Len(ms[D[1]]))
      BY <2>1, <2>5 DEF L
    <3>2. y = Reading(ms[D[1]], "length", J[1], E[1])
      BY <2>1, <2>9
    <3> QED BY <2>1, <2>4, <3>1, <3>2 DEF ReaderAt
  <2>11. y # Restart
    <3>1. y.at = "length"
      BY <2>1 DEF Call
    <3> QED BY <1>1, <3>1
  <2> QED BY <1>2, <1>11, <2>1, <2>10, <2>11 DEF d, m
<1> QED BY <1>13, <1>14

-----------------------------------------------------------------------------
(***************************************************************************)
(* What the board sends.                                                    *)
(***************************************************************************)

\* The bytes raw lead from one place to one where no escape is open.
Ready(raw, ms, escape, d, j, e, k, i) ==
  raw \in Seq(Values) /\ \E f : Without(f) /\ Reaches(raw, ms, escape, d, j, e, k, i, f)

\* One byte that is not escaped.
LEMMA PlainByte ==
  ASSUME NEW ms, NEW escape, NEW raw, NEW d, NEW j, NEW e, NEW k, NEW i, NEW b,
         Framable(ms), With(escape) \/ Without(escape),
         Ready(raw, ms, escape, d, j, e, k, i), k \in 0..Len(ms), i \in Nat, i < Size(ms, k),
         b = Body(ms[k])[i + 1], b \in Values, With(escape) => b \notin Special
  PROVE  Ready(Append(raw, b), ms, escape, d, j, e, k, i + 1)
<1>1. PICK f : Without(f) /\ Reaches(raw, ms, escape, d, j, e, k, i, f)
  BY DEF Ready
<1>2. raw \in Seq(Values) /\ Append(raw, b) \in Seq(Values)
  <2>1. raw \in Seq(Values)
    BY DEF Ready
  <2> QED BY <2>1, Appended
<1>3. Size(ms, k) \in Nat /\ i + 1 \in Nat /\ i + 1 <= Size(ms, k)
  <2>1. Size(ms, k) \in Nat
    BY Sizes
  <2> QED BY <2>1
<1>4. f \in BOOLEAN
  BY <1>1 DEF Without
<1>5. Leads(ms, escape, k, i, f, b, k, i + 1, f)
  BY <1>1 DEF Leads, With, Without
<1>6. Reaches(Append(raw, b), ms, escape, d, j, e, k, i + 1, f)
  BY <1>1, <1>2, <1>3, <1>4, <1>5, OneMore
<1> QED BY <1>1, <1>2, <1>6 DEF Ready

\* One that is.
LEMMA EscapedByte ==
  ASSUME NEW ms, NEW escape, NEW raw, NEW d, NEW j, NEW e, NEW k, NEW i, NEW w,
         Framable(ms), With(escape),
         Ready(raw, ms, escape, d, j, e, k, i), k \in 0..Len(ms), i \in Nat, i < Size(ms, k),
         w = Body(ms[k])[i + 1], w \in Special
  PROVE  Ready(Append(Append(raw, 125), Flip(w)), ms, escape, d, j, e, k, i + 1)
<1>1. PICK f : Without(f) /\ Reaches(raw, ms, escape, d, j, e, k, i, f)
  BY DEF Ready
<1>2. /\ raw \in Seq(Values) /\ 125 \in Values /\ Flip(w) \in Values
      /\ Append(raw, 125) \in Seq(Values)
      /\ Append(Append(raw, 125), Flip(w)) \in Seq(Values)
  <2>1. raw \in Seq(Values)
    BY DEF Ready
  <2>2. 125 \in Values /\ Flip(w) \in Values
    BY FlippedBack DEF Values
  <2>3. Append(raw, 125) \in Seq(Values)
    BY <2>1, <2>2, Appended
  <2> QED BY <2>1, <2>2, <2>3, Appended
<1>3. Size(ms, k) \in Nat /\ i + 1 \in Nat /\ i + 1 <= Size(ms, k) /\ i <= Size(ms, k)
  <2>1. Size(ms, k) \in Nat
    BY Sizes
  <2> QED BY <2>1
<1>4. PICK g : With(g)
  BY DEF With
<1>5. f \in BOOLEAN /\ g \in BOOLEAN
  BY <1>1, <1>4 DEF With, Without
<1>6. Leads(ms, escape, k, i, f, 125, k, i, g)
  BY <1>1, <1>4 DEF Leads, With, Without
<1>7. Leads(ms, escape, k, i, g, Flip(w), k, i + 1, f)
  BY <1>1, <1>4 DEF Leads, With, Without
<1>8. Reaches(Append(raw, 125), ms, escape, d, j, e, k, i, g)
  BY <1>1, <1>2, <1>3, <1>5, <1>6, OneMore
<1>9. Reaches(Append(Append(raw, 125), Flip(w)), ms, escape, d, j, e, k, i + 1, f)
  <2> DEFINE r == Append(raw, 125)
             b == Flip(w)
  <2>1. /\ r \in Seq(Values) /\ b \in Values /\ Leads(ms, escape, k, i, g, b, k, i + 1, f)
        /\ Reaches(r, ms, escape, d, j, e, k, i, g)
    BY <1>2, <1>7, <1>8
  <2> HIDE DEF r, b
  <2>2. Reaches(Append(r, b), ms, escape, d, j, e, k, i + 1, f)
    BY <1>3, <1>5, <2>1, OneMore
  <2> QED BY <2>2 DEF r, b
<1> QED BY <1>1, <1>2, <1>9 DEF Ready

\* The delimiter of the next frame.
LEMMA NextDelimiter ==
  ASSUME NEW ms, NEW escape, NEW raw, NEW d, NEW j, NEW e, NEW k, NEW i,
         Framable(ms), Ready(raw, ms, escape, d, j, e, k, i),
         k \in 0..Len(ms), k + 1 \in 0..Len(ms), i = Size(ms, k)
  PROVE  Ready(Append(raw, 126), ms, escape, d, j, e, k + 1, 0)
<1>1. PICK f : Without(f) /\ Reaches(raw, ms, escape, d, j, e, k, i, f)
  BY DEF Ready
<1>2. raw \in Seq(Values) /\ 126 \in Values /\ Append(raw, 126) \in Seq(Values)
  <2>1. raw \in Seq(Values)
    BY DEF Ready
  <2>2. 126 \in Values
    BY DEF Values
  <2> QED BY <2>1, <2>2, Appended
<1>3. Size(ms, k + 1) \in Nat /\ 0 <= Size(ms, k + 1) /\ 0 \in Nat
  <2> DEFINE l == k + 1
  <2>1. l \in 0..Len(ms)
    OBVIOUS
  <2> HIDE DEF l
  <2>2. Size(ms, l) \in Nat
    BY <2>1, Sizes
  <2> QED BY <2>2 DEF l
<1>4. f \in BOOLEAN
  BY <1>1 DEF Without
<1>5. Leads(ms, escape, k, i, f, 126, k + 1, 0, f)
  BY <1>1 DEF Leads, Without
<1>6. Reaches(Append(raw, 126), ms, escape, d, j, e, k + 1, 0, f)
  BY <1>1, <1>2, <1>3, <1>4, <1>5, OneMore
<1> QED BY <1>1, <1>2, <1>6 DEF Ready

\* Another byte between frames.
LEMMA BetweenFrames ==
  ASSUME NEW ms, NEW escape, NEW raw, NEW d, NEW j, NEW e, NEW k, NEW i, NEW b,
         Framable(ms), Ready(raw, ms, escape, d, j, e, k, i),
         k \in 0..Len(ms), i = Size(ms, k), b \in Values, b # 126
  PROVE  Ready(Append(raw, b), ms, escape, d, j, e, k, i)
<1>1. PICK f : Without(f) /\ Reaches(raw, ms, escape, d, j, e, k, i, f)
  BY DEF Ready
<1>2. raw \in Seq(Values) /\ Append(raw, b) \in Seq(Values)
  <2>1. raw \in Seq(Values)
    BY DEF Ready
  <2> QED BY <2>1, Appended
<1>3. i \in Nat /\ i <= Size(ms, k)
  <2>1. Size(ms, k) \in Nat
    BY Sizes
  <2> QED BY <2>1
<1>4. f \in BOOLEAN
  BY <1>1 DEF Without
<1>5. Leads(ms, escape, k, i, f, b, k, i, f)
  BY <1>1 DEF Leads, Without
<1>6. Reaches(Append(raw, b), ms, escape, d, j, e, k, i, f)
  BY <1>1, <1>2, <1>3, <1>4, <1>5, OneMore
<1> QED BY <1>1, <1>2, <1>6 DEF Ready

\* The bytes that follow a delimiter.
Following(msg, escape) == IF escape THEN Escaped(Body(msg)) ELSE Body(msg)

\* Without escapes, they lead to the end of the frame.
LEMMA PlainBody ==
  ASSUME NEW ms, NEW escape, NEW raw, NEW d, NEW j, NEW e, NEW k,
         Framable(ms), Without(escape), k \in 0..Len(ms), k # 0,
         Ready(raw, ms, escape, d, j, e, k, 0)
  PROVE  Ready(raw \o Body(ms[k]), ms, escape, d, j, e, k, Size(ms, k))
<1> DEFINE B == Body(ms[k])
           n == Size(ms, k)
           Good == {i \in 0..n : Ready(raw \o FirstOf(B, i), ms, escape, d, j, e, k, i)}
<1>1. /\ ms[k] \in Seq(Byte) /\ n \in Nat /\ n = Len(ms[k]) + 3
      /\ Len(ms[k]) \in Nat /\ Len(ms[k]) >= 1 /\ Len(ms[k]) <= 256
  BY Sizes
<1>2. B \in Seq(Values) /\ Len(B) = n
  BY <1>1, BodyParts
<1>3. raw \in Seq(Values)
  BY DEF Ready
<1> HIDE DEF B, n
<1>4. 0 \in Good
  <2>1. FirstOf(B, 0) = <<>>
    BY <1>2 DEF FirstOf
  <2>2. raw \o <<>> = raw
    BY <1>3, JoinedToNone
  <2>3. Ready(raw \o FirstOf(B, 0), ms, escape, d, j, e, k, 0)
    BY <2>1, <2>2, Zenon
  <2> QED BY <1>1, <2>3
<1>5. ASSUME NEW i \in 1..n, i - 1 \in Good PROVE i \in Good
  <2> DEFINE p == i - 1
             u == FirstOf(B, p)
             b == B[i]
  <2>1. p \in 0..n /\ p \in Nat /\ p < n /\ p + 1 = i /\ i \in 0..n
    BY <1>1
  <2>2. Ready(raw \o u, ms, escape, d, j, e, k, p)
    BY <1>5
  <2>3. b \in Values
    BY <1>1, <1>2
  <2> HIDE DEF p
  <2>4. u \in Seq(Values) /\ FirstOf(B, i) = Append(u, b)
    <3>1. 1 \in 1..(Len(B) + 1) /\ p \in (1 - 1)..(Len(B) - 1) /\ p \in (1 - 1)..Len(B)
      BY <1>1, <1>2, <2>1
    <3>2. SubSeq(B, 1, p + 1) = Append(SubSeq(B, 1, p), B[p + 1])
      BY <1>2, <3>1, PartMore
    <3>3. SubSeq(B, 1, p) \in Seq(Values)
      BY <1>2, <3>1, Part
    <3> QED BY <2>1, <3>2, <3>3 DEF FirstOf
  <2> HIDE DEF u
  <2>5. raw \o Append(u, b) = Append(raw \o u, b)
    <3>1. Append(u, b) = u \o <<b>> /\ <<b>> \in Seq(Values)
      BY <2>3, <2>4, Appended
    <3>2. (raw \o u) \o <<b>> = raw \o (u \o <<b>>) /\ raw \o u \in Seq(Values)
      <4>1. raw \in Seq(Values) /\ u \in Seq(Values)
        BY <1>3, <2>4
      <4>2. Associate(raw, u, <<b>>)
        BY <3>1, <4>1, Associates
      <4>3. raw \o u \in Seq(Values)
        BY <4>1
      <4> QED BY <4>2, <4>3 DEF Associate
    <3>3. (raw \o u) \o <<b>> = Append(raw \o u, b)
      BY <2>3, <3>2, Appended
    <3> QED BY <3>1, <3>2, <3>3
  <2>6. Ready(Append(raw \o u, b), ms, escape, d, j, e, k, p + 1)
    <3> DEFINE r == raw \o u
    <3>1. b = Body(ms[k])[p + 1] /\ p < Size(ms, k)
      BY <2>1 DEF B, n
    <3>2. Ready(r, ms, escape, d, j, e, k, p)
      BY <2>2
    <3>3. ~With(escape)
      BY DEF With, Without
    <3> HIDE DEF r, b
    <3>4. Ready(Append(r, b), ms, escape, d, j, e, k, p + 1)
      BY <2>1, <2>3, <3>1, <3>2, <3>3, PlainByte
    <3> QED BY <3>4 DEF r
  <2>7. Ready(raw \o FirstOf(B, i), ms, escape, d, j, e, k, i)
    BY <2>1, <2>4, <2>5, <2>6
  <2> QED BY <2>1, <2>7
<1>6. n \in Good
  <2>1. \A i \in 0..n : i \in Good
    <3> HIDE DEF Good
    <3> QED BY <1>1, <1>4, <1>5, Induction
  <2> QED BY <1>1, <2>1
<1>7. FirstOf(B, n) = B
  BY <1>1, <1>2 DEF FirstOf
<1>8. Ready(raw \o FirstOf(B, n), ms, escape, d, j, e, k, n)
  BY <1>6
<1> QED BY <1>7, <1>8, Zenon DEF B, n

\* With escapes too.
LEMMA EscapedBody ==
  ASSUME NEW ms, NEW escape, NEW raw, NEW d, NEW j, NEW e, NEW k,
         Framable(ms), With(escape), k \in 0..Len(ms), k # 0,
         Ready(raw, ms, escape, d, j, e, k, 0)
  PROVE  Escaped(Body(ms[k])) \in Seq(Values)
         /\ Ready(raw \o Escaped(Body(ms[k])), ms, escape, d, j, e, k, Size(ms, k))
<1> DEFINE B == Body(ms[k])
           n == Size(ms, k)
           Escapement(i) == IF B[i] \in Special THEN <<125, Flip(B[i])>> ELSE <<B[i]>>
           ss == [i \in DOMAIN B |-> Escapement(i)]
<1>1. /\ ms[k] \in Seq(Byte) /\ n \in Nat /\ n = Len(ms[k]) + 3
      /\ Len(ms[k]) \in Nat /\ Len(ms[k]) >= 1 /\ Len(ms[k]) <= 256
  BY Sizes
<1>2. B \in Seq(Values) /\ Len(B) = n
  BY <1>1, BodyParts
<1>3. raw \in Seq(Values)
  BY DEF Ready
<1>4. FlattenSeq(ss) = Escaped(B)
  BY Zenon DEF Escaped
<1> HIDE DEF B, n
<1>5. DOMAIN B = 1..n /\ \A i \in 1..n : B[i] \in Values
  BY <1>2
<1>6. ASSUME NEW i \in 1..n PROVE Escapement(i) \in Seq(Values)
  <2>1. CASE B[i] \in Special
    <3>1. Flip(B[i]) \in Values /\ 125 \in Values
      BY <2>1, FlippedBack DEF Values
    <3>2. \A x, y : x \in Values /\ y \in Values => <<x, y>> \in Seq(Values)
      OBVIOUS
    <3>3. <<125, Flip(B[i])>> \in Seq(Values)
      BY <3>1, <3>2
    <3> QED BY <2>1, <3>3
  <2>2. CASE B[i] \notin Special
    <3>1. \A x : x \in Values => <<x>> \in Seq(Values)
      OBVIOUS
    <3> QED BY <1>5, <2>2, <3>1
  <2> QED BY <2>1, <2>2
<1>7. ss \in Seq(Seq(Values)) /\ Len(ss) = n /\ \A i \in 1..n : ss[i] = Escapement(i)
  <2> HIDE DEF Escapement
  <2>1. \A i \in 1..n : ss[i] = Escapement(i)
    BY <1>5
  <2>2. ss \in [1..n -> Seq(Values)]
    BY <1>5, <1>6
  <2>3. [1..n -> Seq(Values)] \subseteq Seq(Seq(Values))
    BY <1>1
  <2> HIDE DEF ss
  <2>4. Len(ss) = n
    BY <1>1, <2>2
  <2> QED BY <2>1, <2>2, <2>3, <2>4
<1> HIDE DEF ss
<1>8. PICK h : Joins(h, ss, Values) /\ h[Len(ss)] = FlattenSeq(ss)
  BY <1>7, FlattenJoins
<1>9. /\ h \in [0..n -> Seq(Values)] /\ h[0] = <<>>
      /\ \A i \in 1..n : h[i] = h[i - 1] \o ss[i]
  BY <1>7, <1>8 DEF Joins
<1> DEFINE Good == {i \in 0..n : Ready(raw \o h[i], ms, escape, d, j, e, k, i)}
<1>10. 0 \in Good
  <2>1. raw \o <<>> = raw
    BY <1>3, JoinedToNone
  <2>2. Ready(raw \o h[0], ms, escape, d, j, e, k, 0)
    BY <1>9, <2>1, Zenon
  <2> QED BY <1>1, <2>2
<1>11. ASSUME NEW i \in 1..n, i - 1 \in Good PROVE i \in Good
  <2> DEFINE p == i - 1
             r == raw \o h[p]
             b == B[i]
  <2>1. p \in 0..n /\ p \in Nat /\ p < n /\ p + 1 = i /\ i \in 0..n
    BY <1>1
  <2>2. Ready(r, ms, escape, d, j, e, k, p)
    BY <1>11
  <2>3. b \in Values /\ b = Body(ms[k])[p + 1] /\ p < Size(ms, k)
    BY <1>5, <2>1 DEF B, n
  <2>4. h[p] \in Seq(Values) /\ ss[i] \in Seq(Values) /\ h[i] = h[p] \o ss[i]
    <3>1. ss[i] = Escapement(i) /\ Escapement(i) \in Seq(Values)
      BY <1>6, <1>7
    <3> HIDE DEF Escapement
    <3> QED BY <1>9, <2>1, <3>1
  <2> HIDE DEF p
  <2>5. raw \o h[i] = r \o ss[i] /\ r \in Seq(Values)
    <3> DEFINE u == h[p]
               v == ss[i]
    <3> HIDE DEF u, v
    <3>1. (raw \o u) \o v = raw \o (u \o v) /\ raw \o u \in Seq(Values)
      <4>1. u \in Seq(Values) /\ v \in Seq(Values)
        BY <2>4 DEF u, v
      <4>2. Associate(raw, u, v)
        BY <1>3, <4>1, Associates
      <4>3. raw \o u \in Seq(Values)
        BY <1>3, <4>1
      <4> QED BY <4>2, <4>3 DEF Associate
    <3> QED BY <2>4, <3>1 DEF u, v
  <2> HIDE DEF r
  <2>6. CASE b \in Special
    <3>1. ss[i] = <<125, Flip(b)>>
      BY <1>7, <2>6
    <3> HIDE DEF b
    <3>2. Ready(Append(Append(r, 125), Flip(b)), ms, escape, d, j, e, k, p + 1)
      BY <2>1, <2>2, <2>3, <2>6, EscapedByte
    <3>3. r \o <<125, Flip(b)>> = Append(Append(r, 125), Flip(b))
      <4> DEFINE x == 125
                 y == Flip(b)
      <4>1. x \in Values /\ y \in Values
        BY <2>6, FlippedBack DEF Values
      <4> HIDE DEF x, y
      <4>2. r \o <<x, y>> = Append(Append(r, x), y)
        BY <2>5, <4>1
      <4> QED BY <4>2 DEF x, y
    <3>4. Ready(raw \o h[i], ms, escape, d, j, e, k, i)
      BY <2>1, <2>5, <3>1, <3>2, <3>3
    <3> QED BY <2>1, <3>4
  <2>7. CASE b \notin Special
    <3>1. ss[i] = <<b>>
      BY <1>7, <2>7
    <3> HIDE DEF b
    <3>2. Ready(Append(r, b), ms, escape, d, j, e, k, p + 1)
      BY <2>1, <2>2, <2>3, <2>7, PlainByte
    <3>3. r \o <<b>> = Append(r, b)
      BY <2>3, <2>5, Appended
    <3>4. Ready(raw \o h[i], ms, escape, d, j, e, k, i)
      BY <2>1, <2>5, <3>1, <3>2, <3>3
    <3> QED BY <2>1, <3>4
  <2> QED BY <2>6, <2>7
<1>12. n \in Good
  <2>1. \A i \in 0..n : i \in Good
    <3> HIDE DEF Good
    <3> QED BY <1>1, <1>10, <1>11, Induction
  <2> QED BY <1>1, <2>1
<1>13. Ready(raw \o h[n], ms, escape, d, j, e, k, n)
  BY <1>12
<1>14. h[n] = Escaped(B) /\ h[n] \in Seq(Values)
  <2>1. h[n] = Escaped(B)
    BY <1>4, <1>7, <1>8, Zenon
  <2>2. h[n] \in Seq(Values)
    BY <1>1, <1>9
  <2> QED BY <2>1, <2>2
<1> QED BY <1>13, <1>14 DEF B, n

\* A frame sent leads from the end of those before to its own.
LEMMA SentIsReady ==
  ASSUME NEW ms, NEW escape, NEW raw, NEW msg, NEW beyond, NEW d, NEW j, NEW e,
         Framable(ms), With(escape) \/ Without(escape),
         msg \in Seq(Byte), Len(msg) >= 1, Len(msg) <= 256, beyond \in Beyond(msg, escape),
         Ready(raw, ms, escape, d, j, e, Len(ms), Size(ms, Len(ms)))
  PROVE  /\ Framable(Append(ms, msg)) /\ Len(Append(ms, msg)) = Len(ms) + 1
         /\ Ready((raw \o Framed(msg, escape)) \o beyond, Append(ms, msg), escape, d, j, e,
                  Len(ms) + 1, Size(Append(ms, msg), Len(ms) + 1))
<1> DEFINE m == Len(ms)
           new == Append(ms, msg)
           k == m + 1
           z == Size(new, k)
           first == Append(raw, 126)
           body == Following(msg, escape)
<1>1. /\ ms \in Seq(Seq(Byte)) /\ m \in Nat /\ new \in Seq(Seq(Byte)) /\ Len(new) = k
      /\ new[k] = msg /\ \A i \in 1..m : new[i] = ms[i]
  <2>1. ms \in Seq(Seq(Byte))
    BY DEF Framable
  <2> QED BY <2>1, Appended
<1>2. Framable(new)
  <2>1. \A i \in 1..k : i = k \/ i \in 1..m
    BY <1>1
  <2>2. \A i \in 1..m : Len(ms[i]) \in Nat /\ Len(ms[i]) >= 1 /\ Len(ms[i]) <= 256
    BY DEF Framable
  <2>3. \A i \in 1..k : Len(new[i]) \in Nat /\ Len(new[i]) >= 1 /\ Len(new[i]) <= 256
    BY <1>1, <2>1, <2>2
  <2> HIDE DEF new, k
  <2> QED BY <1>1, <2>3 DEF Framable
<1>3. raw \in Seq(Values) /\ 126 \in Values /\ <<126>> \in Seq(Values)
  <2>1. raw \in Seq(Values)
    BY DEF Ready
  <2>2. 126 \in Values
    BY DEF Values
  <2>3. \A x : x \in Values => <<x>> \in Seq(Values)
    OBVIOUS
  <2> QED BY <2>1, <2>2, <2>3
<1>4. Size(new, m) = Size(ms, m)
  <2>1. m = 0 \/ new[m] = ms[m]
    BY <1>1
  <2> HIDE DEF new
  <2> QED BY <2>1 DEF Size
<1>5. Ready(raw, new, escape, d, j, e, m, Size(new, m))
  <2>1. PICK f : Without(f) /\ Reaches(raw, ms, escape, d, j, e, m, Size(ms, m), f)
    BY DEF Ready
  <2>2. Reaches(raw, Append(ms, msg), escape, d, j, e, m, Size(ms, m), f)
    <3> DEFINE x == Size(ms, m)
    <3>1. Reaches(raw, ms, escape, d, j, e, m, x, f)
      BY <2>1
    <3> HIDE DEF x, m
    <3>2. Reaches(raw, Append(ms, msg), escape, d, j, e, m, x, f)
      BY <1>3, <3>1, OneMoreMessage
    <3> QED BY <3>2 DEF x
  <2> HIDE DEF m
  <2> QED BY <1>3, <1>4, <2>1, <2>2 DEF Ready
<1>6. m \in 0..Len(new) /\ k \in 0..Len(new) /\ k # 0
  BY <1>1
<1> HIDE DEF new
<1>7. Ready(first, new, escape, d, j, e, k, 0)
  <2> DEFINE x == Size(new, m)
  <2>1. x = Size(new, m) /\ Ready(raw, new, escape, d, j, e, m, x)
    BY <1>5
  <2> HIDE DEF x, m
  <2> QED BY <1>2, <1>6, <2>1, NextDelimiter
<1> HIDE DEF k
<1>8. body \in Seq(Values) /\ Ready(first \o body, new, escape, d, j, e, k, z)
  <2> HIDE DEF first
  <2>0. new[k] = msg /\ k \in 0..Len(new)
    BY <1>1, <1>6
  <2>1. CASE With(escape)
    <3>1. body = Escaped(Body(new[k]))
      BY <2>0, <2>1 DEF With, Following
    <3> HIDE DEF body
    <3> QED BY <1>2, <1>6, <1>7, <2>1, <3>1, EscapedBody
  <2>2. CASE Without(escape)
    <3>1. body = Body(new[k])
      BY <2>0, <2>2 DEF Without, Following
    <3>2. Body(new[k]) \in Seq(Values)
      BY <2>0, BodyParts
    <3> HIDE DEF body
    <3>3. Ready(first \o Body(new[k]), new, escape, d, j, e, k, Size(new, k))
      BY <1>2, <1>6, <1>7, <2>2, PlainBody
    <3> QED BY <3>1, <3>2, <3>3
  <2> QED BY <2>1, <2>2
<1>9. raw \o Framed(msg, escape) = first \o body
  <2>1. Framed(msg, escape) = <<126>> \o body
    BY Zenon DEF Framed, Following
  <2>2. raw \o <<126>> = first
    BY <1>3, Appended
  <2> HIDE DEF body, first
  <2> DEFINE u == <<126>>
  <2>3. u \in Seq(Values)
    BY <1>3
  <2> HIDE DEF u
  <2>4. (raw \o u) \o body = raw \o (u \o body)
    <3>1. raw \in Seq(Values) /\ body \in Seq(Values)
      BY <1>3, <1>8
    <3>2. Associate(raw, u, body)
      BY <2>3, <3>1, Associates
    <3> QED BY <3>2 DEF Associate
  <2> QED BY <2>1, <2>2, <2>4 DEF u
<1> DEFINE r == first \o body
<1>10. r \in Seq(Values) /\ Ready(r, new, escape, d, j, e, k, z)
  BY <1>8 DEF Ready
<1>11. z = Size(new, k) /\ k \in 0..Len(new)
  BY <1>6
<1> HIDE DEF r, z
<1>12. Ready(r \o beyond, new, escape, d, j, e, k, z)
  <2>1. beyond = <<>> \/ \E b \in Special : beyond = <<125, Flip(b)>>
    BY DEF Beyond
  <2>2. CASE beyond = <<>>
    BY <1>10, <2>2, JoinedToNone
  <2>3. CASE \E b \in Special : beyond = <<125, Flip(b)>>
    <3>1. PICK b \in Special : beyond = <<125, Flip(b)>>
      BY <2>3
    <3> DEFINE x == 125
               y == Flip(b)
               q == Append(r, x)
    <3>2. x \in Values /\ y \in Values /\ x # 126 /\ y # 126
      BY FlippedBack DEF Values
    <3> HIDE DEF x, y
    <3>3. r \o <<x, y>> = Append(q, y)
      BY <1>10, <3>2
    <3>4. Ready(q, new, escape, d, j, e, k, z)
      BY <1>2, <1>10, <1>11, <3>2, BetweenFrames
    <3> HIDE DEF q
    <3>5. Ready(Append(q, y), new, escape, d, j, e, k, z)
      BY <1>2, <1>11, <3>2, <3>4, BetweenFrames
    <3> QED BY <3>1, <3>3, <3>5 DEF x, y
  <2> QED BY <2>1, <2>2, <2>3
<1>13. Ready((raw \o Framed(msg, escape)) \o beyond, new, escape, d, j, e, k, z)
  BY <1>9, <1>12 DEF r
<1> QED BY <1>1, <1>2, <1>13 DEF new, k, z

-----------------------------------------------------------------------------
(***************************************************************************)
(* The messages accepted.                                                   *)
(***************************************************************************)

\* The messages a were accepted, in this order: those of the packets, then those
\* that are listed.
Accepted(a) ==
  \E p, s, S, M :
    /\ s \in Seq(S) /\ Chain(bufs, p, s)
    /\ a \in Seq(M) /\ Len(a) = Len(packets) + Len(s)
    /\ \A i \in 1..Len(packets) : a[i] = packets[i].msg
    /\ \A i \in 1..Len(s) : a[Len(packets) + i] = s[i].msg

\* None at first.
LEMMA AcceptedInit == Init => Accepted(<<>>)
<1> SUFFICES ASSUME Init PROVE Accepted(<<>>)
  OBVIOUS
<1>1. bufs = Empty /\ packets = <<>>
  BY DEF Init
<1>2. <<>> \in Seq(Nat) /\ Len(<<>>) = 0 /\ 1..0 = {} /\ 0 + 0 = 0
  OBVIOUS
<1>3. Chain(bufs, <<>>, <<>>)
  BY <1>1, EmptyChain
<1> QED BY <1>1, <1>2, <1>3 DEF Accepted

\* A message listed comes last.
LEMMA AcceptedMore ==
  ASSUME InTurn, NEW a, Accepted(a), NEW x, bufs' = AddTail(bufs, x), packets' = packets
  PROVE  Accepted(Append(a, x.msg))' /\ Len(a) \in Nat /\ \E M : a \in Seq(M) /\ x.msg \in M
<1> DEFINE m == Len(packets)
           v == x.msg
           b == Append(a, v)
<1>1. PICK p, s, S, M :
        /\ s \in Seq(S) /\ Chain(bufs, p, s)
        /\ a \in Seq(M) /\ Len(a) = m + Len(s)
        /\ \A i \in 1..m : a[i] = packets[i].msg
        /\ \A i \in 1..Len(s) : a[m + i] = s[i].msg
  BY DEF Accepted
<1> DEFINE n == Len(s)
           t == Append(s, x)
           T == S \cup {x}
           N == M \cup {v}
<1>2. s \in Seq(T) /\ x \in T /\ a \in Seq(N) /\ v \in N
  BY <1>1
<1>3. m \in Nat /\ n \in Nat
  BY <1>1, Counts
<1> HIDE DEF T, N, v
<1>4. /\ t \in Seq(T) /\ Len(t) = n + 1 /\ t[n + 1] = x
      /\ \A i \in 1..n : t[i] = s[i]
  BY <1>2, Appended
<1>5. /\ b \in Seq(N) /\ Len(b) = Len(a) + 1 /\ b[Len(a) + 1] = v
      /\ \A i \in 1..Len(a) : b[i] = a[i]
  BY <1>2, Appended
<1>6. PICK q : Chain(bufs', q, t)
  BY <1>1, <1>2, AddTailChain
<1> HIDE DEF t, b, n, m
<1>7. Len(a) = m + n /\ Len(b) = m + Len(t) /\ Len(a) + 1 = m + (n + 1)
  BY <1>1, <1>3, <1>4, <1>5 DEF m, n
<1>8. \A i \in 1..m : b[i] = packets'[i].msg
  <2>1. \A i \in 1..m : i \in 1..Len(a) /\ a[i] = packets'[i].msg
    BY <1>1, <1>3, <1>7 DEF m
  <2> QED BY <1>5, <2>1
<1>9. ASSUME NEW i \in 1..(n + 1) PROVE b[m + i] = t[i].msg
  <2>1. CASE i = n + 1
    BY <1>4, <1>5, <1>7, <2>1 DEF v
  <2>2. CASE i \in 1..n
    <3>1. m + i \in 1..(m + n) /\ 1..(m + n) = 1..Len(a)
      BY <1>3, <1>7, <2>2
    <3>2. a[m + i] = s[i].msg
      BY <1>1, <2>2 DEF m, n
    <3>3. b[m + i] = a[m + i]
      BY <1>5, <3>1
    <3>4. t[i] = s[i]
      BY <1>4, <2>2
    <3> QED BY <3>2, <3>3, <3>4
  <2> QED BY <1>3, <2>1, <2>2
<1>10. Len(packets') = m
  BY DEF m
<1>11. Accepted(b)'
  BY <1>4, <1>5, <1>6, <1>7, <1>8, <1>9, <1>10 DEF Accepted
<1> QED BY <1>2, <1>3, <1>7, <1>11 DEF b, v

\* The handler takes the first that is listed: its packet is the last.
LEMMA AcceptedTaken ==
  ASSUME InTurn, NEW a, Accepted(a), HandlerTakes
  PROVE  Accepted(a)'
<1> DEFINE m == Len(packets)
<1>1. PICK p, s, S, M :
        /\ s \in Seq(S) /\ Chain(bufs, p, s)
        /\ a \in Seq(M) /\ Len(a) = m + Len(s)
        /\ \A i \in 1..m : a[i] = packets[i].msg
        /\ \A i \in 1..Len(s) : a[m + i] = s[i].msg
  BY DEF Accepted
<1> DEFINE n == Len(s)
           t == RemoveAt(s, 1)
<1>2. m \in Nat /\ n \in Nat /\ Len(p) = n
  BY <1>1, Counts, ChainParts
<1>3. n > 0 /\ 1 \in 1..n
  <2>1. bufs.head # 0 /\ bufs.head = Node(p, 1)
    BY <1>1, ChainParts DEF HandlerTakes
  <2>2. 1 \in 1..Len(p)
    BY <2>1 DEF Node
  <2> QED BY <1>2, <2>2
<1>4. bufs.head = p[1] /\ p[1] # 0 /\ bufs.node[p[1]].item = s[1]
  <2>1. bufs.head = Node(p, 1) /\ 1 \in 1..Len(p)
    BY <1>1, <1>2, <1>3, ChainParts
  <2> QED BY <1>1, <2>1, AtPosition
<1>5. ExtHead(bufs) = Gives(Unlink(bufs, p[1]), s[1])
  BY <1>4 DEF ExtHead, ExtNode
<1>6. ExtHead(bufs).list = Unlink(bufs, p[1]) /\ ExtHead(bufs).item = s[1]
  BY <1>5 DEF Gives
<1> DEFINE new == [msg |-> s[1].msg, keys |-> <<>>]
<1>7. bufs' = Unlink(bufs, p[1]) /\ packets' = Append(packets, new) /\ new.msg = s[1].msg
  BY <1>6 DEF HandlerTakes
<1>8. Chain(bufs', RemoveAt(p, 1), t)
  BY <1>1, <1>3, <1>7, UnlinkChain
<1>9. /\ t \in Seq(S) /\ Len(t) = n - 1 /\ \A i \in 1..(n - 1) : t[i] = s[i + 1]
  <2>1. /\ RemoveAt(s, 1) \in Seq(S) /\ Len(RemoveAt(s, 1)) = Len(s) - 1
        /\ \A i \in 1..(Len(s) - 1) : RemoveAt(s, 1)[i] = IF i < 1 THEN s[i] ELSE s[i + 1]
    BY <1>1, <1>3, Removed
  <2>2. \A i \in 1..(n - 1) : ~(i < 1)
    BY <1>2
  <2> QED BY <2>1, <2>2
<1>10. PICK Q : packets \in Seq(Q)
  BY DEF InTurn
<1> HIDE DEF new
<1>11. /\ Len(packets') = m + 1 /\ packets'[m + 1] = new
       /\ \A i \in 1..m : packets'[i] = packets[i]
  <2>1. packets \in Seq(Q \cup {new}) /\ new \in Q \cup {new}
    BY <1>10
  <2> QED BY <1>7, <2>1, Appended
<1> HIDE DEF t, n, m
<1>12. Len(a) = Len(packets') + Len(t)
  BY <1>1, <1>2, <1>9, <1>11 DEF n
<1>13. ASSUME NEW i \in 1..(m + 1) PROVE a[i] = packets'[i].msg
  <2>1. CASE i = m + 1
    BY <1>1, <1>3, <1>7, <1>11, <2>1 DEF n
  <2>2. CASE i \in 1..m
    BY <1>1, <1>11, <2>2
  <2> QED BY <1>2, <2>1, <2>2
<1>14. ASSUME NEW i \in 1..(n - 1) PROVE a[(m + 1) + i] = t[i].msg
  <2>1. i + 1 \in 1..n /\ (m + 1) + i = m + (i + 1)
    BY <1>2
  <2>2. a[m + (i + 1)] = s[i + 1].msg
    BY <1>1, <2>1 DEF n
  <2>3. t[i] = s[i + 1]
    BY <1>9
  <2>4. a[(m + 1) + i] = a[m + (i + 1)]
    BY <2>1
  <2> QED BY <2>2, <2>3, <2>4, Zenon
<1>15. /\ \A i \in 1..Len(packets') : a[i] = packets'[i].msg
       /\ \A i \in 1..Len(t) : a[Len(packets') + i] = t[i].msg
  BY <1>9, <1>11, <1>13, <1>14, Zenon
<1>16. PICK q : Chain(bufs', q, t)
  BY <1>8
<1>17. a \in Seq(M) /\ t \in Seq(S)
  BY <1>1, <1>9
<1>18. /\ t \in Seq(S) /\ Chain(bufs', q, t)
       /\ a \in Seq(M) /\ Len(a) = Len(packets') + Len(t)
       /\ \A i \in 1..Len(packets') : a[i] = packets'[i].msg
       /\ \A i \in 1..Len(t) : a[Len(packets') + i] = t[i].msg
  BY <1>12, <1>15, <1>16, <1>17, Zenon
<1>19. \E p2, s2, S2, M2 :
          /\ s2 \in Seq(S2) /\ Chain(bufs', p2, s2)
          /\ a \in Seq(M2) /\ Len(a) = Len(packets') + Len(s2)
          /\ \A i \in 1..Len(packets') : a[i] = packets'[i].msg
          /\ \A i \in 1..Len(s2) : a[Len(packets') + i] = s2[i].msg
  BY <1>18, Zenon
<1> QED BY <1>19, Zenon DEF Accepted

\* Or it drops it, when it makes no packet.
LEMMA AcceptedDropped ==
  ASSUME InTurn, NEW a, Accepted(a), HandlerDrops
  PROVE  \E k \in 1..Len(a) : ~MakesPacket(mode, a[k]) /\ Accepted(RemoveAt(a, k))'
<1> DEFINE m == Len(packets)
           k == m + 1
<1>1. PICK p, s, S, M :
        /\ s \in Seq(S) /\ Chain(bufs, p, s)
        /\ a \in Seq(M) /\ Len(a) = m + Len(s)
        /\ \A i \in 1..m : a[i] = packets[i].msg
        /\ \A i \in 1..Len(s) : a[m + i] = s[i].msg
  BY DEF Accepted
<1> DEFINE n == Len(s)
           t == RemoveAt(s, 1)
           b == RemoveAt(a, k)
<1>2. m \in Nat /\ n \in Nat /\ Len(p) = n
  BY <1>1, Counts, ChainParts
<1>3. n > 0 /\ 1 \in 1..n
  <2>1. bufs.head # 0 /\ bufs.head = Node(p, 1)
    BY <1>1, ChainParts DEF HandlerDrops
  <2>2. 1 \in 1..Len(p)
    BY <2>1 DEF Node
  <2> QED BY <1>2, <2>2
<1>4. bufs.head = p[1] /\ p[1] # 0 /\ bufs.node[p[1]].item = s[1]
  <2>1. bufs.head = Node(p, 1) /\ 1 \in 1..Len(p)
    BY <1>1, <1>2, <1>3, ChainParts
  <2> QED BY <1>1, <2>1, AtPosition
<1>5. ExtHead(bufs) = Gives(Unlink(bufs, p[1]), s[1])
  BY <1>4 DEF ExtHead, ExtNode
<1>6. ExtHead(bufs).list = Unlink(bufs, p[1]) /\ ExtHead(bufs).item = s[1]
  BY <1>5 DEF Gives
<1>7. bufs' = Unlink(bufs, p[1]) /\ packets' = packets /\ ~MakesPacket(mode, s[1].msg)
  BY <1>6 DEF HandlerDrops
<1>8. Chain(bufs', RemoveAt(p, 1), t)
  BY <1>1, <1>3, <1>7, UnlinkChain
<1>9. /\ t \in Seq(S) /\ Len(t) = n - 1 /\ \A i \in 1..(n - 1) : t[i] = s[i + 1]
  <2>1. /\ RemoveAt(s, 1) \in Seq(S) /\ Len(RemoveAt(s, 1)) = Len(s) - 1
        /\ \A i \in 1..(Len(s) - 1) : RemoveAt(s, 1)[i] = IF i < 1 THEN s[i] ELSE s[i + 1]
    BY <1>1, <1>3, Removed
  <2>2. \A i \in 1..(n - 1) : ~(i < 1)
    BY <1>2
  <2> QED BY <2>1, <2>2
<1>10. k \in 1..Len(a) /\ a[k] = s[1].msg
  BY <1>1, <1>2, <1>3
<1>11. /\ b \in Seq(M) /\ Len(b) = Len(a) - 1
       /\ \A i \in 1..(Len(a) - 1) : b[i] = IF i < k THEN a[i] ELSE a[i + 1]
  <2> HIDE DEF k
  <2> QED BY <1>1, <1>10, Removed
<1> HIDE DEF t, b, n
<1>12. Len(b) = m + Len(t)
  BY <1>1, <1>2, <1>9, <1>11 DEF n
<1>13. \A i \in 1..m : b[i] = packets[i].msg
  <2>1. \A i \in 1..m : i \in 1..(Len(a) - 1) /\ i < k
    BY <1>1, <1>2, <1>3 DEF n
  <2> QED BY <1>1, <1>11, <2>1
<1>14. ASSUME NEW i \in 1..(n - 1) PROVE b[m + i] = t[i].msg
  <2>1. /\ i + 1 \in 1..n /\ (m + i) + 1 = m + (i + 1)
        /\ m + i \in 1..(Len(a) - 1) /\ ~(m + i < k)
    BY <1>1, <1>2 DEF n
  <2>2. a[m + (i + 1)] = s[i + 1].msg
    BY <1>1, <2>1 DEF n
  <2>3. b[m + i] = a[(m + i) + 1]
    BY <1>11, <2>1
  <2> QED BY <1>9, <2>1, <2>2, <2>3
<1> HIDE DEF k
<1>15. /\ \A i \in 1..Len(packets') : b[i] = packets'[i].msg
       /\ \A i \in 1..Len(t) : b[Len(packets') + i] = t[i].msg
       /\ Len(b) = Len(packets') + Len(t)
  BY <1>7, <1>9, <1>12, <1>13, <1>14 DEF m
<1>16. PICK q : Chain(bufs', q, t)
  BY <1>8
<1>17. b \in Seq(M) /\ t \in Seq(S)
  BY <1>9, <1>11
<1>18. \E p2, s2, S2, M2 :
          /\ s2 \in Seq(S2) /\ Chain(bufs', p2, s2)
          /\ b \in Seq(M2) /\ Len(b) = Len(packets') + Len(s2)
          /\ \A i \in 1..Len(packets') : b[i] = packets'[i].msg
          /\ \A i \in 1..Len(s2) : b[Len(packets') + i] = s2[i].msg
  BY <1>15, <1>16, <1>17, Zenon
<1>19. PICK d : d = k
  OBVIOUS
<1>20. b = RemoveAt(a, d)
  BY <1>19 DEF b
<1>21. PICK c : c = RemoveAt(a, d)
  OBVIOUS
<1>22. \E p2, s2, S2, M2 :
          /\ s2 \in Seq(S2) /\ Chain(bufs', p2, s2)
          /\ c \in Seq(M2) /\ Len(c) = Len(packets') + Len(s2)
          /\ \A i \in 1..Len(packets') : c[i] = packets'[i].msg
          /\ \A i \in 1..Len(s2) : c[Len(packets') + i] = s2[i].msg
  BY <1>18, <1>20, <1>21
<1>23. Accepted(c)'
  BY <1>22, Zenon DEF Accepted
<1>24. Accepted(RemoveAt(a, d))'
  BY <1>21, <1>23
<1>25. d \in 1..Len(a) /\ ~MakesPacket(mode, a[d])
  BY <1>7, <1>10, <1>19
<1> QED BY <1>24, <1>25

\* What it reads out of a packet leaves the message.
LEMMA AcceptedRead ==
  ASSUME InTurn, ReadInto, NEW a, Accepted(a), HandlerReads
  PROVE  Accepted(a)'
<1> DEFINE m == Len(packets)
<1>1. PICK S : packets \in Seq(S)
  BY DEF InTurn
<1>2. m \in Nat /\ handler.pkt = m /\ m \in 1..m
  <2>1. handler.at = "post" /\ handler.at # "wait"
    BY DEF HandlerReads
  <2> QED BY <2>1, Counts DEF InTurn
<1>3. packets[m] = [msg |-> packets[m].msg, keys |-> packets[m].keys]
  BY <1>2 DEF ReadInto
<1>4. PICK keys : packets' = [packets EXCEPT ![m].keys = keys] /\ bufs' = bufs
  BY <1>2 DEF HandlerReads
<1> DEFINE v == [packets[m] EXCEPT !.keys = keys]
<1>5. packets' = [packets EXCEPT ![m] = v] /\ v.msg = packets[m].msg
  <2>1. v = [msg |-> packets[m].msg, keys |-> keys]
    BY <1>3
  <2> QED BY <1>4, <2>1
<1> HIDE DEF v
<1>6. /\ Len(packets') = m /\ \A i \in 1..m : packets'[i] = IF i = m THEN v ELSE packets[i]
  BY <1>1, <1>5, Replaced
<1>7. \A i \in 1..m : packets'[i].msg = packets[i].msg
  BY <1>5, <1>6
<1> QED BY <1>4, <1>6, <1>7 DEF Accepted

\* When nothing is listed and the program has taken all, it has them all.
LEMMA AcceptedTakenAll ==
  ASSUME Registry, NEW a, Accepted(a), bufs.head = 0, conList.head = 0, handler.at = "wait"
  PROVE  Len(a) = Len(got) /\ \A i \in 1..Len(a) : a[i] = got[i].msg
<1> DEFINE m == Len(packets)
           g == Len(got)
<1>1. PICK p, s, S, M :
        /\ s \in Seq(S) /\ Chain(bufs, p, s)
        /\ a \in Seq(M) /\ Len(a) = m + Len(s)
        /\ \A i \in 1..m : a[i] = packets[i].msg
        /\ \A i \in 1..Len(s) : a[m + i] = s[i].msg
  BY DEF Accepted
<1>2. InTurn /\ Queued
  BY DEF Registry
<1>3. m \in Nat /\ g \in Nat /\ g <= m /\ Linked = m
  BY <1>2, Counts
<1>4. Len(s) = 0
  <2>1. Len(p) \in Nat /\ Len(s) = Len(p) /\ bufs.head = Node(p, 1)
        /\ \A i \in 1..Len(p) : p[i] # 0
    BY <1>1, ChainParts
  <2>2. ~(1 \in 1..Len(p))
    BY <2>1 DEF Node
  <2> QED BY <2>1, <2>2
<1>5. g = m
  <2>1. PICK q : Chain(conList, q, Numbers(g, m))
    BY <1>2, <1>3 DEF Queued
  <2>2. Len(q) \in Nat /\ Len(Numbers(g, m)) = Len(q) /\ conList.head = Node(q, 1)
        /\ \A i \in 1..Len(q) : q[i] # 0
    BY <2>1, ChainParts
  <2>3. ~(1 \in 1..Len(q))
    BY <2>2 DEF Node
  <2>4. Len(Numbers(g, m)) = m - g
    BY <1>3, NumbersFrom
  <2> QED BY <1>3, <2>2, <2>3, <2>4
<1>6. \A i \in 1..g : got[i] = packets[i]
  BY <1>2 DEF InTurn
<1> QED BY <1>1, <1>3, <1>4, <1>5, <1>6

-----------------------------------------------------------------------------
(***************************************************************************)
(* The reader in step.                                                      *)
(***************************************************************************)

\* The first n messages ms are the last of the accepted messages a.
Came(a, ms, n) ==
  n \in 0..Len(a) /\ n <= Len(ms) /\ \A i \in 1..n : a[(Len(a) - n) + i] = ms[i]

\* The frames that reader r has read to the end, when it is at frame d.
Complete(r, d) == IF r = Restart THEN d ELSE d - 1

\* The reader r is at (d, j, e); the bytes raw lead from there to the end of the
\* messages ms; those before were accepted.
Stands(a, raw, r, ms, d, j, e) ==
  /\ d \in 0..Len(ms) /\ j \in Nat
  /\ Ready(raw, ms, api2, d, j, e, Len(ms), Size(ms, Len(ms)))
  /\ ReaderAt(r, ms, d, j, e)
  /\ Came(a, ms, Complete(r, d))
InStep(a, raw, r, ms) == \E d, j, e : Stands(a, raw, r, ms, d, j, e)

\* On a silent line the reader that waits for a delimiter is in step.
LEMMA BeginsInStep ==
  ASSUME NEW a, NEW M, a \in Seq(M)
  PROVE  InStep(a, <<>>, Restart, <<>>)
<1>1. PICK e : Without(e)
  BY DEF Without
<1>2. Len(<<>>) = 0 /\ Size(<<>>, 0) = 0 /\ <<>> \in Seq(Values) /\ 1..0 = {}
  BY DEF Size
<1> DEFINE D == [x \in 0..0 |-> 0]
           E == [x \in 0..0 |-> e]
<1>3. D \in [0..0 -> 0..0] /\ D \in [0..0 -> Nat] /\ E \in [0..0 -> BOOLEAN]
      /\ D[0] = 0 /\ E[0] = e
  <2>1. e \in BOOLEAN
    BY <1>1 DEF Without
  <2> QED BY <2>1
<1> HIDE DEF D, E
<1>4. \A x \in 0..0 : D[x] <= Size(<<>>, D[x])
  BY <1>2, <1>3
<1>5. Way(<<>>, <<>>, api2, D, D, E)
  BY <1>2, <1>3, <1>4, Zenon DEF Way
<1>6. Reaches(<<>>, <<>>, api2, 0, 0, e, 0, 0, e)
  BY <1>2, <1>3, <1>5, Zenon DEF Reaches
<1>7. Ready(<<>>, <<>>, api2, 0, 0, e, Len(<<>>), Size(<<>>, Len(<<>>)))
  BY <1>1, <1>2, <1>6, Zenon DEF Ready
<1>8. ReaderAt(Restart, <<>>, 0, 0, e)
  BY <1>1, <1>2, Zenon DEF ReaderAt
<1>9. Came(a, <<>>, 0)
  BY <1>2 DEF Came
<1>10. Complete(Restart, 0) = 0 /\ 0 \in 0..Len(<<>>) /\ 0 \in Nat
  BY <1>2 DEF Complete
<1>11. Stands(a, <<>>, Restart, <<>>, 0, 0, e)
  BY <1>7, <1>8, <1>9, <1>10, Zenon DEF Stands
<1> QED BY <1>11, Zenon DEF InStep

\* What is left of the way.
LEMMA RestIsReady ==
  ASSUME NEW ms, NEW raw, NEW D, NEW J, NEW E, NEW n,
         Way(raw, ms, api2, D, J, E), raw \in Seq(Values), n \in 1..Len(raw),
         D[Len(raw)] = Len(ms), J[Len(raw)] = Size(ms, Len(ms)), Without(E[Len(raw)])
  PROVE  /\ D[n] \in 0..Len(ms) /\ J[n] \in Nat
         /\ Ready(SubSeq(raw, n + 1, Len(raw)), ms, api2, D[n], J[n], E[n],
                  Len(ms), Size(ms, Len(ms)))
<1> DEFINE m == Len(raw)
           rest == SubSeq(raw, n + 1, m)
<1>1. n \in 0..m /\ m \in Nat /\ n \in Nat
  OBVIOUS
<1>2. D[n] \in 0..Len(ms) /\ J[n] \in Nat
  BY <1>1 DEF Way
<1>3. rest \in Seq(Values)
  <2> DEFINE c == n + 1
  <2>1. c \in 1..(Len(raw) + 1) /\ m \in (c - 1)..Len(raw)
    BY <1>1
  <2> HIDE DEF c, m
  <2>2. SubSeq(raw, c, m) \in Seq(Values)
    BY <2>1, Part
  <2> QED BY <2>2 DEF c
<1>4. Reaches(rest, ms, api2, D[n], J[n], E[n], D[m], J[m], E[m])
  BY <1>1, WayOn
<1> HIDE DEF rest
<1>5. Reaches(rest, ms, api2, D[n], J[n], E[n], Len(ms), Size(ms, Len(ms)), E[m])
  BY <1>4, Zenon DEF m
<1>6. Ready(rest, ms, api2, D[n], J[n], E[n], Len(ms), Size(ms, Len(ms)))
  BY <1>3, <1>5, Zenon DEF Ready, m
<1> QED BY <1>2, <1>6 DEF rest, m

\* One message more has come.
LEMMA CameMore ==
  ASSUME NEW M, NEW a, NEW ms, NEW d, NEW v, a \in Seq(M), v \in M,
         d \in 1..Len(ms), Len(ms) \in Nat, Came(a, ms, d - 1), v = ms[d]
  PROVE  Came(Append(a, v), ms, d)
<1> DEFINE l == Len(a)
           b == Append(a, v)
<1>1. l \in Nat /\ Len(b) = l + 1 /\ b[l + 1] = v /\ \A i \in 1..l : b[i] = a[i]
  BY Appended
<1>2. /\ d - 1 \in 0..l /\ d \in Nat
      /\ \A i \in 1..(d - 1) : a[(l - (d - 1)) + i] = ms[i]
  BY DEF Came
<1> HIDE DEF l, b
<1>3. d \in 0..(l + 1) /\ d <= Len(ms)
  BY <1>1, <1>2
<1>4. ASSUME NEW i \in 1..d PROVE b[((l + 1) - d) + i] = ms[i]
  <2>1. CASE i = d
    <3>1. ((l + 1) - d) + i = l + 1
      BY <1>1, <1>2, <2>1
    <3> QED BY <1>1, <2>1, <3>1
  <2>2. CASE i # d
    <3>1. i \in 1..(d - 1) /\ ((l + 1) - d) + i = (l - (d - 1)) + i
          /\ (l - (d - 1)) + i \in 1..l
      BY <1>1, <1>2, <2>2
    <3>2. a[(l - (d - 1)) + i] = ms[i]
      BY <1>2, <3>1
    <3> QED BY <1>1, <3>1, <3>2
  <2> QED BY <2>1, <2>2
<1> QED BY <1>1, <1>3, <1>4 DEF Came, b

\* One that makes no packet is none of those that do.
LEMMA CameDropped ==
  ASSUME NEW M, NEW a, NEW ms, NEW n, NEW k \in 1..Len(a), a \in Seq(M),
         ~MakesPacket(mode, a[k]), \A i \in 1..Len(ms) : MakesPacket(mode, ms[i]),
         Len(ms) \in Nat, Came(a, ms, n)
  PROVE  Came(RemoveAt(a, k), ms, n)
<1> DEFINE l == Len(a)
           b == RemoveAt(a, k)
<1>1. l \in Nat /\ k \in 1..l
  OBVIOUS
<1>2. /\ n \in 0..l /\ n <= Len(ms)
      /\ \A i \in 1..n : a[(l - n) + i] = ms[i]
  BY DEF Came
<1>3. /\ Len(b) = l - 1
      /\ \A i \in 1..(l - 1) : b[i] = IF i < k THEN a[i] ELSE a[i + 1]
  BY Removed
<1> HIDE DEF l, b
<1>4. k <= l - n
  <2>1. SUFFICES ASSUME k > l - n PROVE FALSE
    BY <1>1, <1>2
  <2>2. k - (l - n) \in 1..n /\ (l - n) + (k - (l - n)) = k /\ k - (l - n) \in 1..Len(ms)
    BY <1>1, <1>2, <2>1
  <2>3. a[k] = ms[k - (l - n)]
    BY <1>2, <2>2
  <2> QED BY <2>2, <2>3
<1>5. ASSUME NEW i \in 1..n PROVE b[((l - 1) - n) + i] = ms[i]
  <2> DEFINE j == ((l - 1) - n) + i
  <2>1. j \in 1..(l - 1) /\ ~(j < k) /\ j + 1 = (l - n) + i
    BY <1>1, <1>2, <1>4
  <2>2. b[j] = a[j + 1]
    BY <1>3, <2>1
  <2> QED BY <1>2, <2>1, <2>2
<1>6. n \in 0..(l - 1)
  BY <1>1, <1>2, <1>4
<1> QED BY <1>2, <1>3, <1>5, <1>6 DEF Came, b

\* So the reader is in step with what is left.
LEMMA DropsInStep ==
  ASSUME NEW M, NEW a, NEW raw, NEW r, NEW ms, NEW k \in 1..Len(a), a \in Seq(M),
         ~MakesPacket(mode, a[k]), \A i \in 1..Len(ms) : MakesPacket(mode, ms[i]),
         Framable(ms), InStep(a, raw, r, ms)
  PROVE  InStep(RemoveAt(a, k), raw, r, ms)
<1>1. PICK d, j, e : Stands(a, raw, r, ms, d, j, e)
  BY DEF InStep
<1>2. Len(ms) \in Nat
  BY DEF Framable
<1>3. Came(a, ms, Complete(r, d))
  BY <1>1, Zenon DEF Stands
<1> DEFINE n == Complete(r, d)
<1>4. Came(RemoveAt(a, k), ms, n)
  <2>1. Came(a, ms, n)
    BY <1>3
  <2> HIDE DEF n
  <2> QED BY <1>2, <2>1, CameDropped
<1>5. Stands(RemoveAt(a, k), raw, r, ms, d, j, e)
  BY <1>1, <1>4, Zenon DEF Stands
<1> QED BY <1>5, Zenon DEF InStep

\* The reader stays in step when it reads on, if the escaper drops nothing.
LEMMA ReadsInStep ==
  ASSUME With(api2) \/ Without(api2),
         NEW ms, NEW raw, NEW M, NEW a, NEW r, NEW n, NEW x, NEW y,
         Framable(ms), a \in Seq(M), x.msg \in M, InStep(a, raw, r, ms),
         Takes(r, raw, n, x, y), ~EscaperOf(r, FirstOf(raw, n)).cut
  PROVE  InStep(IF Accepts(x) THEN Append(a, x.msg) ELSE a, SubSeq(raw, n + 1, Len(raw)), y, ms)
<1> DEFINE b == IF Accepts(x) THEN Append(a, x.msg) ELSE a
           rest == SubSeq(raw, n + 1, Len(raw))
           l == Len(raw)
<1>1. PICK d, j, e : Stands(a, raw, r, ms, d, j, e)
  BY DEF InStep
<1>2. PICK f : Without(f) /\ Reaches(raw, ms, api2, d, j, e, Len(ms), Size(ms, Len(ms)), f)
  BY <1>1 DEF Stands, Ready
<1>3. PICK D, J, E : /\ Way(raw, ms, api2, D, J, E)
                     /\ D[0] = d /\ J[0] = j /\ E[0] = e
                     /\ D[l] = Len(ms) /\ J[l] = Size(ms, Len(ms)) /\ E[l] = f
  BY <1>2 DEF Reaches
<1>4. /\ d \in 0..Len(ms) /\ j \in Nat /\ raw \in Seq(Values)
      /\ ReaderAt(r, ms, d, j, e) /\ Came(a, ms, Complete(r, d))
  BY <1>1 DEF Stands, Ready
<1>5. Len(ms) \in Nat /\ d \in Nat
  BY <1>4, Sizes
<1> SUFFICES /\ n \in 1..l /\ ReaderAt(y, ms, D[n], J[n], E[n])
             /\ Came(b, ms, Complete(y, D[n]))
  <2> HIDE DEF b
  <2>1. /\ D[n] \in 0..Len(ms) /\ J[n] \in Nat
        /\ Ready(rest, ms, api2, D[n], J[n], E[n], Len(ms), Size(ms, Len(ms)))
    <3> HIDE DEF rest
    <3>1. Without(E[Len(raw)]) /\ D[Len(raw)] = Len(ms) /\ J[Len(raw)] = Size(ms, Len(ms))
      BY <1>2, <1>3
    <3>2. /\ D[n] \in 0..Len(ms) /\ J[n] \in Nat
          /\ Ready(SubSeq(raw, n + 1, Len(raw)), ms, api2, D[n], J[n], E[n],
                   Len(ms), Size(ms, Len(ms)))
      BY <1>3, <1>4, <3>1, RestIsReady
    <3> QED BY <3>2 DEF rest
  <2> HIDE DEF rest
  <2>2. Stands(b, rest, y, ms, D[n], J[n], E[n])
    BY <2>1, Zenon DEF Stands
  <2>3. InStep(b, rest, y, ms)
    BY <2>2, Zenon DEF InStep
  <2> QED BY <2>3 DEF b, rest
<1>6. CASE r = Restart /\ j = Size(ms, d) /\ Without(e)
  <2>1. /\ n \in 1..Len(raw) /\ ReaderAt(y, ms, D[n], J[n], E[n]) /\ ~Accepts(x)
        /\ \/ y = Restart /\ D[n] = D[0]
           \/ y # Restart /\ D[n] = D[0] + 1
    <3>1. Takes(Restart, raw, n, x, y) /\ J[0] = Size(ms, D[0])
      BY <1>3, <1>6
    <3> HIDE DEF b, rest, l
    <3> QED BY <1>3, <1>4, <3>1, DelimiterGoesOn
  <2>2. Complete(r, d) = d /\ b = a
    BY <1>6, <2>1 DEF Complete
  <2> HIDE DEF b
  <2>3. Complete(y, D[n]) = d
    BY <1>3, <1>5, <2>1 DEF Complete
  <2> QED BY <1>4, <2>1, <2>2, <2>3
<1>7. CASE d # 0 /\ \E at \in Stages : /\ From(at, Len(ms[d])) <= j /\ j < To(at, Len(ms[d]))
                                       /\ r = Reading(ms[d], at, j, e)
  <2>1. PICK at \in Stages : /\ From(at, Len(ms[d])) <= j /\ j < To(at, Len(ms[d]))
                             /\ r = Reading(ms[d], at, j, e)
    BY <1>7
  <2>2. /\ n \in 1..Len(raw) /\ D[n] = D[0]
        /\ Reading(ms[D[0]], at, J[0], E[0]) # Restart
        /\ ReaderAt(y, ms, D[n], J[n], E[n])
        /\ Accepts(x) => x.msg = ms[D[0]] /\ y = Restart
        /\ ~Accepts(x) => y # Restart
    <3>1. r = Reading(ms[D[0]], at, J[0], E[0])
      BY <1>3, <2>1
    <3>2. /\ From(at, Len(ms[D[0]])) <= J[0] /\ J[0] < To(at, Len(ms[D[0]])) /\ D[0] # 0
          /\ at \in Stages
      BY <1>3, <1>7, <2>1
    <3>3. Takes(Reading(ms[D[0]], at, J[0], E[0]), raw, n, x, y)
          /\ ~EscaperOf(Reading(ms[D[0]], at, J[0], E[0]), FirstOf(raw, n)).cut
      BY <3>1
    <3>4. Way(raw, ms, api2, D, J, E) /\ raw \in Seq(Values)
      BY <1>3, <1>4
    <3> HIDE DEF b, rest, l
    <3>5. GoesOn(raw, ms, D, J, E, at, n, x, y)
      BY <3>2, <3>3, <3>4, CallGoesOn
    <3> QED BY <3>5 DEF GoesOn
  <2>3. r # Restart /\ Complete(r, d) = d - 1
    BY <1>3, <2>1, <2>2 DEF Complete
  <2>4. CASE Accepts(x)
    <3>1. b = Append(a, x.msg) /\ x.msg = ms[d] /\ Complete(y, D[n]) = d /\ d \in 1..Len(ms)
      BY <1>3, <1>4, <1>5, <1>7, <2>2, <2>4 DEF Complete
    <3> DEFINE v == x.msg
    <3>2. v \in M /\ v = ms[d] /\ b = Append(a, v)
      BY <3>1
    <3> HIDE DEF v, b
    <3>3. Came(Append(a, v), ms, d)
      BY <1>4, <1>5, <2>3, <3>1, <3>2, CameMore
    <3> QED BY <2>2, <3>1, <3>2, <3>3
  <2>5. CASE ~Accepts(x)
    <3>1. b = a /\ Complete(y, D[n]) = d - 1
      BY <1>3, <2>2, <2>5 DEF Complete
    <3> HIDE DEF b
    <3> QED BY <1>4, <2>2, <2>3, <3>1
  <2> QED BY <2>4, <2>5
<1> QED BY <1>4, <1>6, <1>7 DEF ReaderAt

-----------------------------------------------------------------------------
(***************************************************************************)
(* The other steps.                                                         *)
(***************************************************************************)

\* In step the bytes on the line are enough for the chunk that is read next.
LEMMA NeverSilent ==
  ASSUME NEW ms, NEW raw, NEW a, NEW r, Framable(ms), InStep(a, raw, r, ms), raw # <<>>
  PROVE  ~(Len(raw) < Needed(r))
<1> DEFINE l == Len(raw)
<1>1. PICK d, j, e : Stands(a, raw, r, ms, d, j, e)
  BY DEF InStep
<1>2. PICK f : Reaches(raw, ms, api2, d, j, e, Len(ms), Size(ms, Len(ms)), f)
  BY <1>1 DEF Stands, Ready
<1>3. PICK D, J, E : /\ Way(raw, ms, api2, D, J, E)
                     /\ D[0] = d /\ J[0] = j /\ E[0] = e
                     /\ D[l] = Len(ms) /\ J[l] = Size(ms, Len(ms)) /\ E[l] = f
  BY <1>2 DEF Reaches
<1>4. /\ d \in 0..Len(ms) /\ j \in Nat /\ raw \in Seq(Values) /\ ReaderAt(r, ms, d, j, e)
  BY <1>1 DEF Stands, Ready
<1>5. l \in Nat /\ l >= 1
  BY <1>4
<1>6. CASE r = Restart
  <2>1. Needed(Restart) = 1 - 0
    <3>1. Want("delimiter", 0) = 1
      BY Zenon DEF Want
    <3>2. Len(<<>>) = 0 /\ Restart.at = "delimiter" /\ Restart.length = 0 /\ Restart.dest = <<>>
      BY DEF Restart, Call
    <3> QED BY <3>1, <3>2, Zenon DEF Needed
  <2> QED BY <1>5, <1>6, <2>1
<1>7. CASE d # 0 /\ \E at \in Stages : /\ From(at, Len(ms[d])) <= j /\ j < To(at, Len(ms[d]))
                                       /\ r = Reading(ms[d], at, j, e)
  <2>1. PICK at \in Stages : /\ From(at, Len(ms[d])) <= j /\ j < To(at, Len(ms[d]))
                             /\ r = Reading(ms[d], at, j, e)
    BY <1>7
  <2> DEFINE L == Len(ms[d])
             z == To(at, L)
  <2>2. ms[d] \in Seq(Byte) /\ L \in Nat /\ L >= 1 /\ L <= 256 /\ Size(ms, d) = L + 3
    BY <1>4, <1>7, Sizes
  <2>3. z \in Nat /\ z <= L + 3 /\ From(at, L) \in Nat
    <3> HIDE DEF L
    <3> QED BY <2>2, StageBounds
  <2>4. From(at, L) <= j /\ j < z /\ j <= z
    BY <1>4, <2>1, <2>3
  <2>5. Needed(r) = z - j
    <3> HIDE DEF L
    <3>1. Needed(Reading(ms[d], at, j, e)) = To(at, Len(ms[d])) - j
      <4> DEFINE msg == ms[d]
      <4>1. /\ msg \in Seq(Byte) /\ Len(msg) \in Nat /\ Len(msg) >= 1 /\ Len(msg) <= 256
            /\ From(at, Len(msg)) <= j /\ j <= To(at, Len(msg))
        BY <2>2, <2>4 DEF L
      <4> HIDE DEF msg
      <4>2. Needed(Reading(msg, at, j, e)) = To(at, Len(msg)) - j
        BY <1>4, <4>1, NeededInCall
      <4> QED BY <4>2 DEF msg
    <3> QED BY <2>1, <3>1 DEF L
  <2> HIDE DEF z, L
  <2>6. SUFFICES ASSUME j + l < z PROVE FALSE
    BY <1>4, <1>5, <2>3, <2>5
  <2>7. D[l] = D[0] /\ J[l] <= J[0] + l
    <3>1. J[0] + l <= Size(ms, D[0]) /\ l \in 0..Len(raw)
      BY <1>3, <1>4, <1>5, <2>2, <2>3, <2>6 DEF L
    <3>2. \A x \in 0..l : D[x] = D[0] /\ J[0] <= J[x] /\ J[x] <= J[0] + x
      <4> HIDE DEF l
      <4> QED BY <1>3, <1>4, <3>1, Inside
    <3> QED BY <1>5, <3>2
  <2>8. Size(ms, d) <= j + l
    BY <1>3, <2>7
  <2> QED BY <1>4, <1>5, <2>2, <2>3, <2>6, <2>8 DEF L
<1> QED BY <1>4, <1>6, <1>7 DEF ReaderAt

\* When nothing is on the line, all messages have come.
LEMMA AllHaveCome ==
  ASSUME NEW ms, NEW a, NEW r, Framable(ms), InStep(a, <<>>, r, ms)
  PROVE  Came(a, ms, Len(ms))
<1>1. PICK d, j, e : Stands(a, <<>>, r, ms, d, j, e)
  BY DEF InStep
<1>2. PICK f : Reaches(<<>>, ms, api2, d, j, e, Len(ms), Size(ms, Len(ms)), f)
  BY <1>1 DEF Stands, Ready
<1>3. d = Len(ms) /\ j = Size(ms, Len(ms))
  <2>1. Len(<<>>) = 0
    OBVIOUS
  <2> QED BY <1>2, <2>1 DEF Reaches
<1>4. d \in 0..Len(ms) /\ j \in Nat /\ ReaderAt(r, ms, d, j, e) /\ Came(a, ms, Complete(r, d))
  BY <1>1 DEF Stands
<1>5. r = Restart
  <2>1. SUFFICES ASSUME d # 0, NEW at \in Stages, j < To(at, Len(ms[d])) PROVE FALSE
    BY <1>4 DEF ReaderAt
  <2> DEFINE L == Len(ms[d])
  <2>2. L \in Nat /\ L >= 1 /\ L <= 256 /\ Size(ms, d) = L + 3
    BY <1>4, <2>1, Sizes
  <2>3. To(at, L) \in Nat /\ To(at, L) <= L + 3
    <3> HIDE DEF L
    <3> QED BY <2>2, StageBounds
  <2>4. j < To(at, L) /\ j = L + 3
    BY <1>3, <2>1, <2>2
  <2> HIDE DEF L
  <2> QED BY <2>2, <2>3, <2>4
<1> QED BY <1>3, <1>4, <1>5 DEF Complete

\* A frame more is sent.
LEMMA SendsInStep ==
  ASSUME With(api2) \/ Without(api2),
         NEW ms, NEW raw, NEW a, NEW r, NEW msg, NEW beyond,
         Framable(ms), InStep(a, raw, r, ms),
         msg \in Seq(Byte), Len(msg) >= 1, Len(msg) <= 256, beyond \in Beyond(msg, api2)
  PROVE  /\ Framable(Append(ms, msg))
         /\ InStep(a, (raw \o Framed(msg, api2)) \o beyond, r, Append(ms, msg))
<1> DEFINE new == Append(ms, msg)
           sent2 == (raw \o Framed(msg, api2)) \o beyond
           m == Len(ms)
<1>1. PICK d, j, e : Stands(a, raw, r, ms, d, j, e)
  BY DEF InStep
<1>2. /\ d \in 0..m /\ j \in Nat /\ ReaderAt(r, ms, d, j, e) /\ Came(a, ms, Complete(r, d))
      /\ Ready(raw, ms, api2, d, j, e, Len(ms), Size(ms, Len(ms)))
  BY <1>1 DEF Stands
<1>3. /\ m \in Nat /\ \A x \in 1..m : new[x] = ms[x]
  <2>1. ms \in Seq(Seq(Byte))
    BY DEF Framable
  <2> QED BY <2>1, Appended
<1>4. /\ Framable(Append(ms, msg)) /\ Len(Append(ms, msg)) = Len(ms) + 1
      /\ Ready((raw \o Framed(msg, api2)) \o beyond, Append(ms, msg), api2, d, j, e,
               Len(ms) + 1, Size(Append(ms, msg), Len(ms) + 1))
  <2> HIDE DEF m, new, sent2
  <2> QED BY <1>2, SentIsReady
<1>5. /\ Framable(new) /\ Len(new) = m + 1
      /\ Ready(sent2, new, api2, d, j, e, Len(new), Size(new, Len(new)))
  BY <1>4, Zenon
<1> HIDE DEF new, sent2
<1>6. d \in 0..Len(new)
  <2>1. m \in Nat /\ d \in 0..m /\ Len(new) = m + 1
    BY <1>2, <1>3, <1>5
  <2> HIDE DEF m
  <2> QED BY <2>1
<1>7. Size(new, d) = Size(ms, d) /\ (d # 0 => new[d] = ms[d])
  BY <1>2, <1>3 DEF Size
<1>8. ReaderAt(r, new, d, j, e)
  <2>1. CASE d = 0
    BY <1>2, <1>7, <2>1 DEF ReaderAt
  <2>2. CASE d # 0
    BY <1>2, <1>7, <2>2 DEF ReaderAt
  <2> QED BY <2>1, <2>2
<1>9. Came(a, new, Complete(r, d))
  <2> DEFINE c == Complete(r, d)
  <2> HIDE DEF c
  <2>1. /\ c \in 0..Len(a) /\ c <= m /\ \A i \in 1..c : a[(Len(a) - c) + i] = ms[i]
    BY <1>2 DEF Came, c
  <2>2. c \in Int
    BY <1>2 DEF c, Complete
  <2>3. c <= Len(new) /\ \A i \in 1..c : new[i] = ms[i]
    <3>1. \A i \in 1..c : i \in 1..m
      BY <1>3, <2>1, <2>2
    <3> QED BY <1>3, <1>5, <2>1, <2>2, <3>1
  <2> QED BY <2>1, <2>3 DEF Came, c
<1>10. Stands(a, sent2, r, new, d, j, e)
  BY <1>2, <1>5, <1>6, <1>8, <1>9, Zenon DEF Stands
<1>11. InStep(a, sent2, r, new)
  BY <1>10, Zenon DEF InStep
<1> QED BY <1>5, <1>11 DEF new, sent2

-----------------------------------------------------------------------------
(***************************************************************************)
(* The frames due come in.                                                  *)
(***************************************************************************)

\* The reader is in step unless it is spoiled; then nothing is due.
Framing ==
  /\ mode \in DOMAIN Frames /\ (With(api2) \/ Without(api2))
  /\ Framable(due) /\ spoiled \in BOOLEAN /\ (spoiled => due = <<>>)
  /\ \E a : Accepted(a) /\ (~spoiled => InStep(a, line, reader, due))

\* Nothing due can be framed.
LEMMA NothingIsFramable == Framable(<<>>)
<1>1. <<>> \in Seq(Seq(Byte)) /\ Len(<<>>) = 0 /\ 1..0 = {}
  OBVIOUS
<1> QED BY <1>1 DEF Framable

\* The messages accepted are a sequence, with one more of any kind too.
LEMMA AcceptedSequence ==
  ASSUME NEW a, Accepted(a), NEW v
  PROVE  \E M : a \in Seq(M) /\ v \in M
<1>1. PICK M : a \in Seq(M)
  BY DEF Accepted
<1>2. a \in Seq(M \cup {v}) /\ v \in M \cup {v}
  BY <1>1
<1> QED BY <1>2

\* In step, after a step that leaves the build as it is.
LEMMA InStepAfter ==
  ASSUME NEW a, NEW raw, NEW r, NEW ms, InStep(a, raw, r, ms),
         api2' = api2, line' = raw, reader' = r, due' = ms
  PROVE  InStep(a, line, reader, due)'
<1>1. PICK d, j, e : Stands(a, raw, r, ms, d, j, e)
  BY DEF InStep
<1>2. Stands(a, line, reader, due, d, j, e)'
  BY <1>1, Zenon DEF Stands
<1> QED BY <1>2, Zenon DEF InStep

\* At first nothing is due.
LEMMA FramingInit == Init => Framing
<1> SUFFICES ASSUME Init PROVE Framing
  OBVIOUS
<1>1. /\ mode \in DOMAIN Frames /\ api2 \in BOOLEAN /\ line = <<>> /\ reader = Restart
      /\ due = <<>> /\ spoiled = FALSE
  BY DEF Init
<1>2. With(api2) \/ Without(api2)
  BY <1>1 DEF With, Without
<1>3. Accepted(<<>>)
  BY AcceptedInit
<1>4. InStep(<<>>, <<>>, Restart, <<>>)
  <2>1. <<>> \in Seq(Nat)
    OBVIOUS
  <2> QED BY <2>1, BeginsInStep
<1>5. InStep(<<>>, line, reader, due)
  BY <1>1, <1>4, Zenon
<1>6. Framable(due) /\ spoiled \in BOOLEAN /\ (spoiled => due = <<>>)
  BY <1>1, NothingIsFramable
<1> QED BY <1>1, <1>2, <1>3, <1>5, <1>6, Zenon DEF Framing

\* A chunk read: the reader stays in step, or the escaper has dropped a byte.
LEMMA FramingRead == InTurn /\ Framing /\ ReadChunk => Framing'
<1> SUFFICES ASSUME InTurn, Framing, ReadChunk PROVE Framing'
  OBVIOUS
<1>1. PICK a : Accepted(a) /\ (~spoiled => InStep(a, line, reader, due))
  BY DEF Framing
<1> DEFINE n == Needed(reader)
           chunk == FirstOf(line, n)
           x == Received(reader, chunk)
           y == IF Full(x) THEN Follows(x) ELSE x
           new == [msg |-> x.msg]
<1>2. /\ n <= Len(line)
      /\ line' = SubSeq(line, n + 1, Len(line)) /\ reader' = y
      /\ bufs' = IF Accepts(x) THEN AddTail(bufs, new) ELSE bufs
      /\ IF EscaperOf(reader, chunk).cut THEN Spoil ELSE due' = due /\ spoiled' = spoiled
      /\ mode' = mode /\ api2' = api2 /\ packets' = packets
  <2>1. Len(line) >= Needed(reader) => n <= Len(line)
    <3>1. \A u, v : u >= v => v <= u
      OBVIOUS
    <3> QED BY <3>1
  <2> QED BY <2>1, Zenon DEF ReadChunk, FirstOf
<1> HIDE DEF n, chunk, x, y
<1>3. new.msg = x.msg
  OBVIOUS
<1> HIDE DEF new
<1>10. PICK item : item = new
  OBVIOUS
<1>4. PICK b : b = IF Accepts(x) THEN Append(a, x.msg) ELSE a
  OBVIOUS
<1>5. Accepted(b)'
  <2>1. CASE Accepts(x)
    <3>1. bufs' = AddTail(bufs, item)
      BY <1>2, <1>10, <2>1
    <3>2. Accepted(Append(a, item.msg))'
      BY <1>1, <1>2, <3>1, AcceptedMore
    <3>3. b = Append(a, item.msg)
      BY <1>3, <1>4, <1>10, <2>1
    <3> QED BY <3>2, <3>3
  <2>2. CASE ~Accepts(x)
    <3>1. bufs' = bufs /\ b = a
      BY <1>2, <1>4, <2>2
    <3>2. Accepted(a)'
      BY <1>1, <1>2, <3>1, Zenon DEF Accepted
    <3> QED BY <3>1, <3>2
  <2> QED BY <2>1, <2>2
<1>6. /\ mode \in DOMAIN Frames /\ (With(api2) \/ Without(api2)) /\ Framable(due)
      /\ spoiled \in BOOLEAN /\ (spoiled => due = <<>>)
  BY DEF Framing
<1>7. mode' \in DOMAIN Frames /\ (With(api2') \/ Without(api2'))
  BY <1>2, <1>6
<1>8. CASE EscaperOf(reader, chunk).cut
  <2>1. spoiled' = TRUE /\ due' = <<>>
    BY <1>2, <1>8 DEF Spoil
  <2>2. Framable(due') /\ spoiled' \in BOOLEAN /\ (spoiled' => due' = <<>>)
    BY <2>1, NothingIsFramable
  <2> QED BY <1>5, <1>7, <2>1, <2>2, Zenon DEF Framing
<1>9. CASE ~EscaperOf(reader, chunk).cut
  <2>1. spoiled' = spoiled /\ due' = due
    BY <1>2, <1>9
  <2>2. Framable(due') /\ spoiled' \in BOOLEAN /\ (spoiled' => due' = <<>>)
    BY <1>6, <2>1
  <2>3. ASSUME ~spoiled PROVE InStep(b, line, reader, due)'
    <3>1. PICK M : a \in Seq(M) /\ x.msg \in M
      BY <1>1, AcceptedSequence
    <3>2. Takes(reader, line, n, x, y)
      BY <1>2, Zenon DEF Takes, n, x, y, chunk
    <3>3. InStep(a, line, reader, due) /\ ~EscaperOf(reader, FirstOf(line, n)).cut
      BY <1>1, <1>9, <2>3, Zenon DEF chunk
    <3>4. InStep(b, SubSeq(line, n + 1, Len(line)), y, due)
      <4>1. InStep(IF Accepts(x) THEN Append(a, x.msg) ELSE a,
                   SubSeq(line, n + 1, Len(line)), y, due)
        BY <1>6, <3>1, <3>2, <3>3, ReadsInStep
      <4> QED BY <1>4, <4>1
    <3> DEFINE rest == SubSeq(line, n + 1, Len(line))
    <3>5. line' = rest /\ reader' = y /\ due' = due /\ api2' = api2 /\ InStep(b, rest, y, due)
      BY <1>2, <2>1, <3>4
    <3> HIDE DEF rest
    <3> QED BY <3>5, InStepAfter
  <2> QED BY <1>5, <1>7, <2>1, <2>2, <2>3, Zenon DEF Framing
<1> QED BY <1>8, <1>9

\* A frame sent is due when the reader is in step, or waits on a silent line.
LEMMA FramingSend == ASSUME InTurn, Framing, NEW f \in Frames[mode], Send(f) PROVE Framing'
<1>1. PICK a : Accepted(a) /\ (~spoiled => InStep(a, line, reader, due))
  BY DEF Framing
<1> DEFINE msg == f.msg
           free == line = <<>> /\ reader = Restart
<1>2. PICK beyond \in Beyond(msg, api2) : line' = (line \o Framed(msg, api2)) \o beyond
  BY DEF Send
<1>3. /\ spoiled' = ~(~spoiled \/ free)
      /\ due' = IF ~spoiled \/ free THEN Append(due, msg) ELSE due
      /\ mode' = mode /\ api2' = api2 /\ reader' = reader /\ bufs' = bufs /\ packets' = packets
  BY Zenon DEF Send, lists
<1>4. /\ mode \in DOMAIN Frames /\ (With(api2) \/ Without(api2)) /\ Framable(due)
      /\ spoiled \in BOOLEAN /\ (spoiled => due = <<>>)
  BY DEF Framing
<1>5. mode' \in DOMAIN Frames /\ (With(api2') \/ Without(api2'))
  BY <1>3, <1>4
<1>6. msg \in Seq(Byte) /\ Len(msg) \in Nat /\ Len(msg) >= 1 /\ Len(msg) <= 256
  <2>1. msg \in Seq(Byte) /\ Len(msg) \in 1..256
    BY <1>4, FramesAssumption, Zenon DEF FramesAssumption, Byte
  <2> DEFINE l == Len(msg)
  <2> HIDE DEF msg
  <2> SUFFICES l \in Nat /\ l >= 1 /\ l <= 256
    BY <2>1
  <2>2. l \in 1..256
    BY <2>1
  <2> HIDE DEF l
  <2> QED BY <2>2
<1> HIDE DEF msg
<1>7. Accepted(a)'
  BY <1>1, <1>3, Zenon DEF Accepted
<1>8. CASE ~spoiled \/ free
  <2>1. InStep(a, line, reader, due)
    <3>1. CASE ~spoiled
      BY <1>1, <3>1
    <3>2. CASE spoiled
      <4>1. line = <<>> /\ reader = Restart /\ due = <<>>
        BY <1>4, <1>8, <3>2
      <4>2. PICK M : a \in Seq(M)
        BY <1>1, AcceptedSequence
      <4>3. InStep(a, <<>>, Restart, <<>>)
        BY <4>2, BeginsInStep
      <4> QED BY <4>1, <4>3, Zenon
    <3> QED BY <1>4, <3>1, <3>2
  <2> DEFINE raw == (line \o Framed(msg, api2)) \o beyond
             new == Append(due, msg)
  <2>2. Framable(new) /\ InStep(a, raw, reader, new)
    BY <1>2, <1>4, <1>6, <2>1, SendsInStep
  <2>3. line' = raw /\ due' = new /\ spoiled' = FALSE
    BY <1>2, <1>3, <1>8
  <2> HIDE DEF raw, new
  <2>4. InStep(a, line, reader, due)'
    BY <1>3, <2>2, <2>3, InStepAfter
  <2>5. Framable(due') /\ spoiled' \in BOOLEAN /\ (spoiled' => due' = <<>>)
    BY <2>2, <2>3
  <2> QED BY <1>5, <1>7, <2>4, <2>5, Zenon DEF Framing
<1>9. CASE ~(~spoiled \/ free)
  <2>1. spoiled' = TRUE /\ due' = due
    BY <1>3, <1>9
  <2>2. Framable(due') /\ spoiled' \in BOOLEAN /\ (spoiled' => due' = <<>>)
    BY <1>4, <1>9, <2>1
  <2> QED BY <1>5, <1>7, <2>1, <2>2, Zenon DEF Framing
<1> QED BY <1>8, <1>9

\* A fault: nothing is due any more.
LEMMA FramingFault == ASSUME Framing, Spoil, UNCHANGED <<mode, api2, bufs, packets>> PROVE Framing'
<1>1. PICK a : Accepted(a)
  BY DEF Framing
<1>2. Accepted(a)'
  BY <1>1, Zenon DEF Accepted
<1>3. mode' \in DOMAIN Frames /\ (With(api2') \/ Without(api2'))
  BY DEF Framing
<1>4. spoiled' = TRUE /\ due' = <<>>
  BY DEF Spoil
<1>5. Framable(due') /\ spoiled' \in BOOLEAN /\ (spoiled' => due' = <<>>)
  BY <1>4, NothingIsFramable
<1> QED BY <1>2, <1>3, <1>4, <1>5, Zenon DEF Framing

\* In step the line does not fall silent inside a chunk.
LEMMA FramingSilence == Framing /\ Silence => Framing'
<1> SUFFICES ASSUME Framing, Silence PROVE Framing'
  OBVIOUS
<1>1. PICK a : Accepted(a) /\ (~spoiled => InStep(a, line, reader, due))
  BY DEF Framing
<1>2. /\ line # <<>> /\ Len(line) < Needed(reader)
      /\ mode' = mode /\ api2' = api2 /\ reader' = reader /\ due' = due /\ spoiled' = spoiled
      /\ bufs' = bufs /\ packets' = packets
  BY Zenon DEF Silence, TimedOut, lists
<1>3. spoiled
  <2>1. SUFFICES ASSUME ~spoiled PROVE FALSE
    OBVIOUS
  <2>2. InStep(a, line, reader, due) /\ Framable(due)
    BY <1>1, <2>1 DEF Framing
  <2> QED BY <1>2, <2>2, NeverSilent
<1>4. Accepted(a)'
  BY <1>1, <1>2, Zenon DEF Accepted
<1>5. /\ mode' \in DOMAIN Frames /\ (With(api2') \/ Without(api2'))
      /\ Framable(due') /\ spoiled' \in BOOLEAN /\ (spoiled' => due' = <<>>) /\ spoiled'
  BY <1>2, <1>3 DEF Framing
<1> QED BY <1>4, <1>5, Zenon DEF Framing

\* Each frame that is due makes a packet.
Making == \A i \in 1..Len(due) : MakesPacket(mode, due[i])

\* At first none is due.
LEMMA MakingInit == Init => Making
<1>1. Len(<<>>) = 0 /\ 1..0 = {}
  OBVIOUS
<1> QED BY <1>1 DEF Init, Making

\* One more is one of Frames.
LEMMA MakingNext == Framing /\ Making /\ [Next]_vars => Making'
<1> SUFFICES ASSUME Framing, Making, [Next]_vars PROVE Making'
  OBVIOUS
<1>1. mode \in DOMAIN Frames /\ due \in Seq(Seq(Byte))
  BY DEF Framing, Framable
<1>2. CASE mode' = mode /\ due' = due
  BY <1>2 DEF Making
<1>3. CASE mode' = mode /\ due' = <<>>
  <2>1. Len(<<>>) = 0 /\ 1..0 = {}
    OBVIOUS
  <2> QED BY <1>3, <2>1 DEF Making
<1>4. ASSUME NEW f \in Frames[mode], Send(f) PROVE Making'
  <2>1. MakesPacket(mode, f.msg)
    BY <1>1, FramesAssumption DEF FramesAssumption
  <2>2. mode' = mode /\ (due' = Append(due, f.msg) \/ due' = due)
    BY <1>4, Zenon DEF Send
  <2>3. CASE due' = Append(due, f.msg)
    <3> DEFINE l == Len(due)
               v == f.msg
    <3>1. \A S, s, x : s \in Seq(S) => s \in Seq(S \cup {x}) /\ x \in S \cup {x}
      OBVIOUS
    <3> HIDE DEF v
    <3>2. /\ l \in Nat /\ Len(due') = l + 1 /\ due'[l + 1] = v
          /\ \A i \in 1..l : due'[i] = due[i]
      <4>1. due \in Seq(Seq(Byte) \cup {v}) /\ v \in Seq(Byte) \cup {v} /\ due' = Append(due, v)
        BY <1>1, <2>3, <3>1 DEF v
      <4> QED BY <4>1, Appended
    <3> HIDE DEF l
    <3>3. \A i \in 1..(l + 1) : i = l + 1 \/ i \in 1..l
      BY <3>2
    <3>4. \A i \in 1..l : MakesPacket(mode, due[i])
      BY DEF Making, l
    <3>5. \A i \in 1..(l + 1) : MakesPacket(mode, due'[i])
      BY <2>1, <3>2, <3>3, <3>4 DEF v
    <3> QED BY <2>2, <3>2, <3>5 DEF Making
  <2> QED BY <1>2, <2>2, <2>3
<1>5. CASE ~ \E f \in Frames[mode] : Send(f)
  <2>1. mode' = mode /\ (due' = due \/ due' = <<>>)
    <3>1. CASE ReadChunk
      BY <3>1, Zenon DEF ReadChunk, Spoil
    <3>2. CASE Silence \/ Pause \/ Lose \/ Interrupted \/ EndOfFile
      BY <3>2, Zenon DEF Silence, Pause, Lose, Interrupted, EndOfFile, TimedOut, Fault, Spoil
    <3>3. CASE Consume \/ UNCHANGED vars
      BY <3>3, Zenon DEF Consume, vars
    <3> QED BY <1>5, <3>1, <3>2, <3>3, Zenon DEF Next
  <2> QED BY <1>2, <1>3, <2>1
<1> QED BY <1>4, <1>5

\* The handler and the program leave what was accepted, but for what makes no
\* packet.
LEMMA FramingConsume == InTurn /\ ReadInto /\ Framing /\ Making /\ Consume => Framing'
<1> SUFFICES ASSUME InTurn, ReadInto, Framing, Making, Consume PROVE Framing'
  OBVIOUS
<1>1. PICK a : Accepted(a) /\ (~spoiled => InStep(a, line, reader, due))
  BY DEF Framing
<1>2. /\ mode' = mode /\ api2' = api2 /\ line' = line /\ reader' = reader
      /\ due' = due /\ spoiled' = spoiled
  BY Zenon DEF Consume
<1>3. PICK b : Accepted(b)' /\ (~spoiled => InStep(b, line, reader, due))
  <2>1. CASE HandlerTakes
    BY <1>1, <2>1, AcceptedTaken
  <2>2. CASE HandlerReads
    BY <1>1, <2>2, AcceptedRead
  <2>3. CASE HandlerLinks \/ ProgramTakes \/ ProgramFrees
    <3>1. bufs' = bufs /\ packets' = packets
      BY <2>3 DEF HandlerLinks, ProgramTakes, ProgramFrees
    <3>2. Accepted(a)'
      BY <1>1, <3>1, Zenon DEF Accepted
    <3> QED BY <1>1, <3>2
  <2>4. CASE HandlerDrops
    <3>1. PICK k \in 1..Len(a) : ~MakesPacket(mode, a[k]) /\ Accepted(RemoveAt(a, k))'
      BY <1>1, <2>4, AcceptedDropped
    <3>2. ASSUME ~spoiled PROVE InStep(RemoveAt(a, k), line, reader, due)
      <4>1. PICK M : a \in Seq(M)
        BY <1>1, AcceptedSequence
      <4>2. Framable(due) /\ InStep(a, line, reader, due)
        BY <1>1, <3>2 DEF Framing
      <4>3. \A i \in 1..Len(due) : MakesPacket(mode, due[i])
        BY DEF Making
      <4> QED BY <3>1, <4>1, <4>2, <4>3, DropsInStep
    <3> QED BY <3>1, <3>2
  <2> QED BY <2>1, <2>2, <2>3, <2>4, Zenon DEF Consume
<1>4. ~spoiled' => InStep(b, line, reader, due)'
  BY <1>2, <1>3, InStepAfter
<1>5. /\ mode' \in DOMAIN Frames /\ (With(api2') \/ Without(api2'))
      /\ Framable(due') /\ spoiled' \in BOOLEAN /\ (spoiled' => due' = <<>>)
  BY <1>2 DEF Framing
<1> QED BY <1>3, <1>4, <1>5, Zenon DEF Framing

\* Every step.
LEMMA FramingNext == Registry /\ ReadInto /\ Framing /\ Making /\ [Next]_vars => Framing'
<1> SUFFICES ASSUME Registry, ReadInto, Framing, Making, [Next]_vars PROVE Framing'
  OBVIOUS
<1>1. InTurn
  BY DEF Registry
<1>2. ASSUME NEW f \in Frames[mode], Send(f) PROVE Framing'
  BY <1>1, <1>2, FramingSend
<1>3. CASE ReadChunk
  BY <1>1, <1>3, FramingRead
<1>4. CASE Silence
  BY <1>4, FramingSilence
<1>5. CASE Pause \/ Lose \/ Interrupted \/ EndOfFile
  <2>1. Spoil /\ UNCHANGED <<mode, api2, bufs, packets>>
    BY <1>5, Zenon DEF Pause, Lose, Interrupted, EndOfFile, TimedOut, Fault, lists
  <2> QED BY <2>1, FramingFault
<1>6. CASE Consume
  BY <1>1, <1>6, FramingConsume
<1>7. CASE UNCHANGED vars
  <2>1. /\ mode' = mode /\ api2' = api2 /\ line' = line /\ reader' = reader
        /\ bufs' = bufs /\ packets' = packets /\ due' = due /\ spoiled' = spoiled
    BY <1>7, Zenon DEF vars, lists
  <2>2. PICK a : Accepted(a) /\ (~spoiled => InStep(a, line, reader, due))
    BY DEF Framing
  <2>3. Accepted(a)'
    BY <2>1, <2>2, Zenon DEF Accepted
  <2>4. ~spoiled' => InStep(a, line, reader, due)'
    BY <2>1, <2>2, InStepAfter
  <2>5. /\ mode' \in DOMAIN Frames /\ (With(api2') \/ Without(api2'))
        /\ Framable(due') /\ spoiled' \in BOOLEAN /\ (spoiled' => due' = <<>>)
    BY <2>1 DEF Framing
  <2> QED BY <2>3, <2>4, <2>5, Zenon DEF Framing
<1> QED BY <1>2, <1>3, <1>4, <1>5, <1>6, <1>7, Zenon DEF Next

\* When all is quiet the frames due are the last of the packets the program has.
LEMMA DueHasCome == Registry /\ Framing => BackInStep
<1> SUFFICES ASSUME Registry, Framing, Quiet PROVE IsPartOf(due, Messages(got))
  BY DEF BackInStep
<1>1. PICK a : Accepted(a) /\ (~spoiled => InStep(a, line, reader, due))
  BY DEF Framing
<1>2. Framable(due) /\ spoiled \in BOOLEAN /\ (spoiled => due = <<>>)
  BY DEF Framing
<1>3. line = <<>> /\ bufs.head = 0 /\ conList.head = 0 /\ handler.at = "wait"
  BY DEF Quiet
<1>4. Len(a) = Len(got) /\ \A i \in 1..Len(a) : a[i] = got[i].msg
  BY <1>1, <1>3, AcceptedTakenAll
<1>5. Came(a, due, Len(due))
  <2>1. CASE spoiled
    <3>1. due = <<>> /\ Len(<<>>) = 0 /\ 1..0 = {}
      BY <1>2, <2>1
    <3>2. Len(a) \in Nat
      BY <1>1, AcceptedSequence
    <3> QED BY <3>1, <3>2 DEF Came
  <2>2. CASE ~spoiled
    <3>1. InStep(a, <<>>, reader, due)
      BY <1>1, <1>3, <2>2
    <3> QED BY <1>2, <3>1, AllHaveCome
  <2> QED BY <1>2, <2>1, <2>2
<1> DEFINE n == Len(due)
           m == Len(got)
           T == Seq(Byte) \cup {got[i].msg : i \in 1..m}
<1>6. PICK S : got \in Seq(S)
  BY DEF Registry, InTurn
<1>7. m \in Nat /\ DOMAIN got = 1..m
  BY <1>6
<1>8. due \in Seq(T)
  <2>1. due \in Seq(Seq(Byte))
    BY <1>2 DEF Framable
  <2>2. Seq(Byte) \subseteq T
    OBVIOUS
  <2> HIDE DEF T
  <2>3. \A K : due \in Seq(K) /\ K \subseteq T => due \in Seq(T)
    OBVIOUS
  <2> QED BY <2>1, <2>2, <2>3
<1>9. /\ Messages(got) \in Seq(T) /\ Len(Messages(got)) = m
      /\ \A i \in 1..m : Messages(got)[i] = got[i].msg
  <2>1. Messages(got) = [i \in 1..m |-> got[i].msg]
    BY <1>7 DEF Messages
  <2>2. \A i \in 1..m : got[i].msg \in T
    OBVIOUS
  <2> HIDE DEF T, m
  <2>3. [i \in 1..m |-> got[i].msg] \in Seq(T) /\ Len([i \in 1..m |-> got[i].msg]) = m
    BY <1>7, <2>2
  <2> QED BY <2>1, <2>3
<1>10. /\ n \in 0..m /\ \A i \in 1..n : due[i] = a[(m - n) + i]
  BY <1>4, <1>5 DEF Came
<1> HIDE DEF T
<1>11. \A i \in 1..n : due[i] = Messages(got)[(Len(Messages(got)) - n) + i]
  <2> SUFFICES ASSUME NEW i \in 1..n PROVE due[i] = Messages(got)[(m - n) + i]
    BY <1>9
  <2>1. (m - n) + i \in 1..m
    <3> HIDE DEF m, n
    <3> QED BY <1>7, <1>10
  <2> QED BY <1>4, <1>9, <1>10, <2>1
<1> HIDE DEF m
<1>12. n <= m
  BY <1>7, <1>10
<1> QED BY <1>8, <1>9, <1>11, <1>12, EndIsPart

\* However the reader fell out of step: once it waits for a delimiter on a
\* silent line, every frame that the board sends reaches the program, in order,
\* with or without escapes, whatever the frames say and however many packets
\* there are, until the next fault, or until an escape is dropped at the end of a
\* chunk that has shrunk: the escaper's own fault, on a line that has none.
THEOREM FramesComeInStep == Spec => []BackInStep
<1>1. Registry /\ ReadInto /\ Framing /\ Making /\ [Next]_vars => (Framing /\ Making)'
  BY FramingNext, MakingNext
<1>2. Spec => [](Registry /\ ReadInto)
  BY RegistryIsKept, ReadIntoIsKept, PTL
<1>3. Registry /\ Framing => BackInStep
  BY DueHasCome
<1> QED BY <1>1, <1>2, <1>3, FramingInit, MakingInit, PTL DEF Spec
=============================================================================
