------------------------------ MODULE XBeeList ------------------------------
(***************************************************************************)
(* The doubly linked list of src/lib/xbee/ll.c, on which every queue and    *)
(* registry of libxbee rests: the buffers read, the packets of a           *)
(* connection, the live instances.  A list is its head structure and the    *)
(* nodes it has allocated; 0 is the pointer NULL.  An operation that gives   *)
(* a list and an error has both in a record.                                *)
(***************************************************************************)
EXTENDS Naturals, FiniteSetsExt, SequencesExt

CONSTANT NoItem    \* the pointer NULL where an item is asked for

NoItemAssumption == NoItem \notin Nat
ASSUME NoItemAssumption

Empty == [head |-> 0, tail |-> 0, node |-> <<>>]

\* calloc: an address no node has.
Fresh(l) == Min(1..(Cardinality(DOMAIN l.node) + 1) \ DOMAIN l.node)

Link(node, n, field, to) ==
    IF n = 0 THEN node ELSE [node EXCEPT ![n] = [@ EXCEPT ![field] = to]]

\* A new node between before and after, either of which may be NULL.
Insert(l, before, after, item) ==
    LET t      == Fresh(l)
        new    == [next |-> after, prev |-> before, item |-> item]
        linked == Link(Link(l.node, before, "next", t), after, "prev", t)
    IN  [head |-> IF before = 0 THEN t ELSE l.head,
         tail |-> IF after = 0 THEN t ELSE l.tail,
         node |-> [k \in DOMAIN l.node \cup {t} |-> IF k = t THEN new ELSE linked[k]]]

\* A removal that leaves the way back as it was.
Unlink_OneWay(l, n) ==
    LET before == l.node[n].prev
        after  == l.node[n].next
        linked == Link(l.node, before, "next", after)
    IN  [head |-> IF before = 0 THEN after ELSE l.head,
         tail |-> IF after = 0 THEN before ELSE l.tail,
         node |-> [k \in DOMAIN l.node \ {n} |-> linked[k]]]

\* Takes node n out of the list and frees it.
Unlink(l, n) ==
    LET before == l.node[n].prev
        after  == l.node[n].next
        linked == Link(Link(l.node, before, "next", after), after, "prev", before)
    IN  [head |-> IF before = 0 THEN after ELSE l.head,
         tail |-> IF after = 0 THEN before ELSE l.tail,
         node |-> [k \in DOMAIN l.node \ {n} |-> linked[k]]]

\* The nodes met from one end, following next or prev.
Walk(l, first, field) ==
    LET hop[i \in 0..Cardinality(DOMAIN l.node)] ==
            IF i = 0 THEN first
            ELSE IF hop[i-1] \notin DOMAIN l.node THEN 0
            ELSE l.node[hop[i-1]][field]
    IN  hop

\* The first node that holds the item, or NULL.
Find(l, item) ==
    LET hop  == Walk(l, l.head, "next")
        here == {i \in DOMAIN hop : hop[i] # 0 /\ l.node[hop[i]].item = item}
    IN  IF here = {} THEN 0 ELSE hop[Min(here)]

Done(l)         == [err |-> "none", list |-> l]
Failed(l, why)  == [err |-> why, list |-> l]
Gives(l, item)  == [err |-> "none", list |-> l, item |-> item]
ItemOf(l, n)    == IF n = 0 THEN Failed(l, "range") ELSE Gives(l, l.node[n].item)

AddHead(l, item) == Insert(l, 0, l.head, item)
AddTail(l, item) == Insert(l, l.tail, 0, item)

\* Without a reference both add at the tail; the comment above add_before
\* says at the head.
AddAfter(l, ref, item) ==
    LET n == Find(l, ref)
    IN  IF ref = NoItem THEN Done(AddTail(l, item))
        ELSE IF n = 0 THEN Failed(l, "not there")
        ELSE Done(Insert(l, n, l.node[n].next, item))

AddBefore(l, ref, item) ==
    LET n == Find(l, ref)
    IN  IF ref = NoItem THEN Done(AddTail(l, item))
        ELSE IF n = 0 THEN Failed(l, "not there")
        ELSE Done(Insert(l, l.node[n].prev, n, item))

GetHead(l) == ItemOf(l, l.head)
GetTail(l) == ItemOf(l, l.tail)
GetItem(l, item) == IF Find(l, item) = 0 THEN Failed(l, "not there") ELSE Done(l)

\* Without a reference the walk starts; one that is not (or no longer) listed
\* ends it.
GetNext(l, ref) ==
    LET n == Find(l, ref)
    IN  IF ref = NoItem THEN GetHead(l)
        ELSE IF n = 0 THEN Failed(l, "range") ELSE ItemOf(l, l.node[n].next)
GetPrev(l, ref) ==
    LET n == Find(l, ref)
    IN  IF ref = NoItem THEN GetTail(l)
        ELSE IF n = 0 THEN Failed(l, "range") ELSE ItemOf(l, l.node[n].prev)

\* The node at an index from 0.  The loop reads i->next before it looks at i:
\* an index above 0 must not be asked of an empty list.
NodeAt(l, index) ==
    LET hop == Walk(l, l.head, "next")
    IN  IF index \in DOMAIN hop THEN hop[index] ELSE 0
GetIndex(l, index) == ItemOf(l, NodeAt(l, index))

ExtNode(l, n) ==
    IF n = 0 THEN Failed(l, "range") ELSE Gives(Unlink(l, n), l.node[n].item)
ExtTail(l) == ExtNode(l, l.tail)
ExtHead(l) == ExtNode(l, l.head)
ExtIndex(l, index) == ExtNode(l, NodeAt(l, index))
ExtItem(l, item) ==
    LET n == Find(l, item)
    IN  IF n = 0 THEN Failed(l, "not there") ELSE Done(Unlink(l, n))

ModifyItem(l, old, new) ==
    LET n == Find(l, old)
    IN  IF n = 0 THEN Failed(l, "not there")
        ELSE Done([l EXCEPT !.node[n].item = new])

CountItems(l) ==
    LET hop == Walk(l, l.head, "next") IN Cardinality({i \in DOMAIN hop : hop[i] # 0})

Items(l) == [i \in 1..CountItems(l) |-> l.node[NodeAt(l, i - 1)].item]

\* Moves every item of the second list to the tail of the first.
Combine(l, other) == FoldLeft(AddTail, l, Items(other))

-----------------------------------------------------------------------------
(* What the operations promise, on the sequence of the list's items.        *)

\* The chain read backwards is the chain read forwards, and no node is lost.
IsList(l, s) ==
    LET back == Walk(l, l.tail, "prev")
    IN  /\ Items(l) = s
        /\ Cardinality(DOMAIN l.node) = Len(s)
        /\ back[Len(s)] = 0 /\ (s = <<>> => l.head = 0)
        /\ \A i \in DOMAIN s :
              LET n == back[Len(s) - i] IN n \in DOMAIN l.node /\ l.node[n].item = s[i]

\* One operation on list l that holds the distinct items s, with a new item x.
OperationsAgree(l, s, x) ==
    LET n == Len(s)
        ReadsAs(r, present, item) ==
            IF present THEN r.err = "none" /\ r.item = item ELSE r.err = "range"
    IN  /\ IsList(l, s)
        /\ IsList(AddHead(l, x), <<x>> \o s)
        /\ IsList(AddTail(l, x), Append(s, x))
        /\ ReadsAs(GetHead(l), n > 0, s[1])
        /\ ReadsAs(GetTail(l), n > 0, s[n])
        /\ ReadsAs(ExtHead(l), n > 0, s[1]) /\ IsList(ExtHead(l).list, IF n = 0 THEN s ELSE Tail(s))
        /\ n > 0 => ExtTail(l).item = s[n] /\ IsList(ExtTail(l).list, SubSeq(s, 1, n - 1))
        /\ GetItem(l, x).err = "not there" /\ ExtItem(l, x).err = "not there"
        /\ GetNext(l, x).err = "range" /\ AddAfter(l, x, x).list = l
        /\ IsList(Combine(l, AddTail(Empty, x)), Append(s, x))
        /\ \A i \in 1..n :
              /\ ReadsAs(GetIndex(l, i - 1), TRUE, s[i])
              /\ IsList(ExtIndex(l, i - 1).list, RemoveAt(s, i))
              /\ IsList(ExtItem(l, s[i]).list, RemoveAt(s, i))
              /\ IsList(AddAfter(l, s[i], x).list, InsertAt(s, i + 1, x))
              /\ IsList(AddBefore(l, s[i], x).list, InsertAt(s, i, x))
              /\ IsList(ModifyItem(l, s[i], x).list, [s EXCEPT ![i] = x])
              /\ ReadsAs(GetNext(l, s[i]), i < n, s[i + 1])
              /\ ReadsAs(GetPrev(l, s[i]), i > 1, s[i - 1])
=============================================================================
