----------------------------- MODULE ListProofs -----------------------------
(***************************************************************************)
(* The operations of list.h keep rings rings, and a loop over a ring       *)
(* visits its entries in order.                                            *)
(***************************************************************************)
EXTENDS List, SequencesExt, TLAPS, FiniteSetTheorems, SequenceTheorems

-----------------------------------------------------------------------------
(* Induction over an interval, for the loop *)

\* A set that has 0, and with each number the next, has the whole interval.  Its
\* numbers up to the first gap are as many as that gap says, because finite sets
\* have one cardinality only.
LEMMA IntervalInduction ==
    ASSUME NEW N \in Nat, NEW I \in SUBSET (0 .. N), 0 \in I,
           \A n \in 0 .. N - 1 : n \in I => n + 1 \in I
    PROVE  I = 0 .. N
<1> DEFINE J == {n \in 0 .. N : 0 .. n \subseteq I}
           c == Cardinality(J)
<1>1. IsFiniteSet(J)
  <2>1. IsFiniteSet(0 .. N)
    BY FS_Interval
  <2> QED
    BY <2>1, FS_Subset
<1>2. c \in Nat
  BY <1>1, FS_CardinalityType
<1> HIDE DEF c
<1>3. 0 .. c - 1 \subseteq J
  <2> SUFFICES ASSUME NEW j \in 0 .. c - 1, j \notin J
               PROVE  FALSE
    OBVIOUS
  <2>1. J \subseteq 0 .. j - 1
    <3> SUFFICES ASSUME NEW n \in J, n >= j
                 PROVE  FALSE
      BY <1>2
    <3>1. 0 .. j \subseteq 0 .. n /\ j \in 0 .. N
      BY <1>2
    <3> QED
      BY <3>1
  <2>2. IsFiniteSet(0 .. j - 1) /\ Cardinality(0 .. j - 1) = j
    BY <1>2, FS_Interval
  <2>3. Cardinality(J) = c
    BY DEF c
  <2> HIDE DEF J
  <2>4. Cardinality(J) <= Cardinality(0 .. j - 1)
    BY <2>1, <2>2, FS_Subset
  <2> QED
    BY <1>2, <2>2, <2>3, <2>4
<1>4. 0 .. c - 1 = J
  <2>1. Cardinality(0 .. c - 1) = c
    BY <1>2, FS_Interval
  <2>2. Cardinality(J) = c
    BY DEF c
  <2> HIDE DEF J
  <2>3. Cardinality(J) = Cardinality(0 .. c - 1) => J = 0 .. c - 1
    BY <1>1, <1>3, FS_Subset
  <2> QED
    BY <2>1, <2>2, <2>3
<1>5. c # 0 /\ c - 1 \in J /\ c \notin J
  <2>1. 0 \in J
    OBVIOUS
  <2> HIDE DEF J
  <2> QED
    BY <1>2, <1>4, <2>1
<1>6. c \in 0 .. N => c \in I
  BY <1>2, <1>5
<1>7. c \notin 0 .. N
  <2> SUFFICES ASSUME c \in 0 .. N
               PROVE  c \in J
    BY <1>5
  <2>1. 0 .. c = (0 .. c - 1) \cup {c}
    BY <1>2
  <2> QED
    BY <1>5, <1>6, <2>1
<1>8. c - 1 = N
  BY <1>2, <1>5, <1>7
<1> QED
  BY <1>5, <1>8

\* What is left of a sequence from which one place is removed.
LEMMA RemovedAt ==
    ASSUME NEW S, NEW s \in Seq(S), NEW d \in 1 .. Len(s)
    PROVE  /\ RemoveAt(s, d) \in Seq(S) /\ Len(RemoveAt(s, d)) = Len(s) - 1
           /\ \A k \in 1 .. Len(s) - 1 :
                 RemoveAt(s, d)[k] = IF k < d THEN s[k] ELSE s[k + 1]
<1> DEFINE a == SubSeq(s, 1, d - 1)
           b == SubSeq(s, d + 1, Len(s))
<1>1. a \in Seq(S) /\ Len(a) = d - 1 /\ \A k \in 1 .. d - 1 : a[k] = s[k]
  BY SubSeqProperties
<1>2. b \in Seq(S) /\ Len(b) = Len(s) - d /\ \A k \in 1 .. Len(s) - d : b[k] = s[d + k]
  BY SubSeqProperties
<1>3. RemoveAt(s, d) = a \o b
  BY DEF RemoveAt
<1> HIDE DEF a, b
<1>4. /\ a \o b \in Seq(S) /\ Len(a \o b) = Len(a) + Len(b)
      /\ \A k \in 1 .. Len(a) + Len(b) :
            (a \o b)[k] = IF k <= Len(a) THEN a[k] ELSE b[k - Len(a)]
  BY <1>1, <1>2, ConcatProperties
<1>5. Len(a) + Len(b) = Len(s) - 1
  BY <1>1, <1>2
<1>6. ASSUME NEW k \in 1 .. Len(s) - 1
      PROVE  (a \o b)[k] = IF k < d THEN s[k] ELSE s[k + 1]
  <2>1. CASE k < d
    BY <1>1, <1>4, <1>5, <2>1
  <2>2. CASE ~ k < d
    <3>1. (a \o b)[k] = b[k - (d - 1)]
      BY <1>1, <1>4, <1>5, <2>2
    <3>2. k - (d - 1) \in 1 .. Len(s) - d /\ d + (k - (d - 1)) = k + 1
      BY <2>2
    <3>3. b[k - (d - 1)] = s[d + (k - (d - 1))]
      BY <1>2, <3>2
    <3> QED
      BY <2>2, <3>1, <3>2, <3>3
  <2> QED
    BY <2>1, <2>2
<1> QED
  BY <1>3, <1>4, <1>5, <1>6

-----------------------------------------------------------------------------
(* Rings *)

LEMMA PlaceTypes ==
    ASSUME NEW s \in Seq(Nodes), NEW i \in Int
    PROVE  /\ Place(s, i) \in Nodes \cup {ListHead}
           /\ i \in 1 .. Len(s) => Place(s, i) = s[i] /\ s[i] \in Nodes
           /\ i \notin 1 .. Len(s) => Place(s, i) = ListHead
  BY ListAssumption DEF Place

\* Different places of a ring hold different nodes.
LEMMA PlacesDiffer ==
    ASSUME NEW links, NEW s \in Seq(Nodes), Ring(links, s),
           NEW i \in 0 .. Len(s), NEW j \in 0 .. Len(s), Place(s, i) = Place(s, j)
    PROVE  i = j
  BY PlaceTypes, ListAssumption DEF Ring

\* What __list_add does to each link.
LEMMA LinksAdded ==
    ASSUME NEW links \in Links, NEW n \in Nodes,
           NEW p \in Nodes \cup {ListHead}, p # n
    PROVE  LET after == __list_add(links, n, p, ListHead)
           IN  /\ after \in Links
               /\ \A x \in Nodes \cup {ListHead} :
                     /\ after[x].next = IF x = n THEN ListHead
                                        ELSE IF x = p THEN n ELSE links[x].next
                     /\ after[x].prev = IF x = n THEN p
                                        ELSE IF x = ListHead THEN n ELSE links[x].prev
<1> DEFINE link  == [next : Nodes \cup {ListHead, LIST_POISON},
                     prev : Nodes \cup {ListHead, LIST_POISON}]
           one   == [links EXCEPT ![ListHead].prev = n]
           two   == [one EXCEPT ![n] = [next |-> ListHead, prev |-> p]]
           three == [two EXCEPT ![p].next = n]
<1>1. one \in Links /\ \A x \in Nodes \cup {ListHead} :
        one[x].next = links[x].next
        /\ one[x].prev = IF x = ListHead THEN n ELSE links[x].prev
  BY DEF Links
<1>2. two \in Links /\ \A x \in Nodes \cup {ListHead} :
        /\ two[x].next = IF x = n THEN ListHead ELSE one[x].next
        /\ two[x].prev = IF x = n THEN p ELSE one[x].prev
  <2> HIDE DEF one
  <2> QED
    BY <1>1 DEF Links
<1>3. three \in Links /\ \A x \in Nodes \cup {ListHead} :
        /\ three[x].next = IF x = p THEN n ELSE two[x].next
        /\ three[x].prev = two[x].prev
  <2> HIDE DEF two
  <2> QED
    BY <1>2 DEF Links
<1>4. __list_add(links, n, p, ListHead) = three
  BY DEF __list_add
<1> HIDE DEF one, two, three
<1> QED
  BY <1>1, <1>2, <1>3, <1>4, ListAssumption

\* list_add_tail puts a node that is not in the list at its end (list.h:81-84).
THEOREM TailAdded ==
    ASSUME NEW links \in Links, NEW s \in Seq(Nodes), Ring(links, s),
           NEW n \in Nodes, \A k \in 1 .. Len(s) : s[k] # n
    PROVE  /\ list_add_tail(links, n) \in Links
           /\ Ring(list_add_tail(links, n), Append(s, n))
<1> DEFINE p     == Place(s, Len(s))
           t     == Append(s, n)
           after == __list_add(links, n, p, ListHead)
<1>1. Len(s) \in Nat /\ Place(s, Len(s) + 1) = ListHead
  BY PlaceTypes
<1>2. links[ListHead].prev = p
  BY <1>1 DEF Ring
<1>3. list_add_tail(links, n) = after
  BY <1>2 DEF list_add_tail
<1>4. p \in Nodes \cup {ListHead} /\ p # n
  BY <1>1, PlaceTypes, ListAssumption
<1>5. /\ after \in Links
      /\ \A x \in Nodes \cup {ListHead} :
            /\ after[x].next = IF x = n THEN ListHead
                               ELSE IF x = p THEN n ELSE links[x].next
            /\ after[x].prev = IF x = n THEN p
                               ELSE IF x = ListHead THEN n ELSE links[x].prev
  <2> HIDE DEF p
  <2> QED
    BY <1>4, LinksAdded
<1>6. /\ t \in Seq(Nodes) /\ Len(t) = Len(s) + 1
      /\ \A k \in 1 .. Len(s) : t[k] = s[k]
      /\ t[Len(s) + 1] = n
  OBVIOUS
<1>7. /\ \A k \in 0 .. Len(s) : Place(t, k) = Place(s, k)
      /\ Place(t, Len(s) + 1) = n /\ Place(t, Len(s) + 2) = ListHead
  BY <1>1, <1>6 DEF Place
<1> HIDE DEF after, t
<1>8. \A i, j \in 1 .. Len(t) : t[i] = t[j] => i = j
  BY <1>1, <1>6 DEF Ring
<1>9. ASSUME NEW i \in 0 .. Len(t)
      PROVE  /\ after[Place(t, i)].next = Place(t, i + 1)
             /\ after[Place(t, i + 1)].prev = Place(t, i)
  <2>1. CASE i \in 0 .. Len(s) - 1
    <3>1. Place(t, i) = Place(s, i) /\ Place(t, i + 1) = Place(s, i + 1)
      BY <1>1, <1>7, <2>1
    <3>2. Place(s, i) # n /\ Place(s, i + 1) # n /\ Place(s, i + 1) # ListHead
      BY <1>1, <2>1, PlaceTypes, ListAssumption
    <3>3. Place(s, i) # p
      BY <1>1, <2>1, PlacesDiffer
    <3>4. links[Place(s, i)].next = Place(s, i + 1) /\ links[Place(s, i + 1)].prev = Place(s, i)
      BY <1>1, <2>1 DEF Ring
    <3>5. Place(s, i) \in Nodes \cup {ListHead} /\ Place(s, i + 1) \in Nodes \cup {ListHead}
      BY PlaceTypes
    <3> HIDE DEF p
    <3> QED
      BY <1>5, <3>1, <3>2, <3>3, <3>4, <3>5
  <2>2. CASE i = Len(s)
    BY <1>1, <1>4, <1>5, <1>7, <2>2
  <2>3. CASE i = Len(s) + 1
    BY <1>1, <1>4, <1>5, <1>7, <2>3, ListAssumption
  <2> QED
    BY <1>1, <1>6, <2>1, <2>2, <2>3
<1> QED
  BY <1>3, <1>5, <1>8, <1>9 DEF Ring, t

\* What list_del does to each link.
LEMMA LinksDeleted ==
    ASSUME NEW links \in Links, NEW e \in Nodes,
           NEW p \in Nodes \cup {ListHead}, NEW q \in Nodes \cup {ListHead},
           links[e].prev = p, links[e].next = q
    PROVE  /\ list_del(links, e) \in Links
           /\ \A x \in Nodes \cup {ListHead} : x # e =>
                 /\ list_del(links, e)[x].next = IF x = p THEN q ELSE links[x].next
                 /\ list_del(links, e)[x].prev = IF x = q THEN p ELSE links[x].prev
<1> DEFINE one   == [links EXCEPT ![q].prev = p]
           two   == [one EXCEPT ![p].next = q]
           three == [two EXCEPT ![e] = [next |-> LIST_POISON, prev |-> LIST_POISON]]
<1>1. one \in Links /\ \A x \in Nodes \cup {ListHead} :
        /\ one[x].next = links[x].next
        /\ one[x].prev = IF x = q THEN p ELSE links[x].prev
  BY DEF Links
<1>2. two \in Links /\ \A x \in Nodes \cup {ListHead} :
        /\ two[x].next = IF x = p THEN q ELSE one[x].next
        /\ two[x].prev = one[x].prev
  <2> HIDE DEF one
  <2> QED
    BY <1>1 DEF Links
<1>3. three \in Links /\ \A x \in Nodes \cup {ListHead} : x # e => three[x] = two[x]
  <2> HIDE DEF two
  <2> QED
    BY <1>2 DEF Links
<1>4. list_del(links, e) = three
  BY DEF list_del, __list_del
<1> HIDE DEF one, two, three
<1> QED
  BY <1>1, <1>2, <1>3, <1>4

\* list_del takes an entry out of the list (list.h:105-110).
THEOREM EntryDeleted ==
    ASSUME NEW links \in Links, NEW s \in Seq(Nodes), Ring(links, s), NEW d \in 1 .. Len(s)
    PROVE  /\ list_del(links, s[d]) \in Links
           /\ Ring(list_del(links, s[d]), RemoveAt(s, d))
<1> DEFINE e     == s[d]
           p     == Place(s, d - 1)
           q     == Place(s, d + 1)
           t     == RemoveAt(s, d)
           after == list_del(links, e)
<1>1. Len(s) \in Nat /\ d \in Nat /\ e = Place(s, d) /\ e \in Nodes
  BY PlaceTypes
<1>2. p \in Nodes \cup {ListHead} /\ q \in Nodes \cup {ListHead}
  BY <1>1, PlaceTypes
<1>3. links[e].prev = p /\ links[e].next = q
  <2>1. links[Place(s, d)].next = Place(s, d + 1)
    BY <1>1 DEF Ring
  <2>2. d - 1 \in 0 .. Len(s) /\ (d - 1) + 1 = d
    BY <1>1
  <2>3. links[Place(s, d)].prev = Place(s, d - 1)
    BY <2>2 DEF Ring
  <2> QED
    BY <1>1, <2>1, <2>3
<1>4. /\ after \in Links
      /\ \A x \in Nodes \cup {ListHead} : x # e =>
            /\ after[x].next = IF x = p THEN q ELSE links[x].next
            /\ after[x].prev = IF x = q THEN p ELSE links[x].prev
  <2> HIDE DEF e, p, q
  <2> QED
    BY <1>1, <1>2, <1>3, LinksDeleted
<1>5. /\ t \in Seq(Nodes) /\ Len(t) = Len(s) - 1
      /\ \A k \in 1 .. Len(s) - 1 : t[k] = IF k < d THEN s[k] ELSE s[k + 1]
  BY <1>1, RemovedAt
<1>6. \A k \in 0 .. Len(s) : Place(t, k) = IF k < d THEN Place(s, k) ELSE Place(s, k + 1)
  BY <1>1, <1>5 DEF Place
<1> HIDE DEF after, t
<1>7. \A i, j \in 1 .. Len(t) : t[i] = t[j] => i = j
  <2> SUFFICES ASSUME NEW i \in 1 .. Len(t), NEW j \in 1 .. Len(t), t[i] = t[j]
               PROVE  i = j
    OBVIOUS
  <2> DEFINE was(k) == IF k < d THEN k ELSE k + 1
  <2>1. was(i) \in 1 .. Len(s) /\ was(j) \in 1 .. Len(s) /\ s[was(i)] = s[was(j)]
    BY <1>1, <1>5
  <2>2. was(i) = was(j)
    BY <2>1 DEF Ring
  <2> QED
    BY <1>1, <1>5, <2>2
<1>8. ASSUME NEW i \in 0 .. Len(t)
      PROVE  /\ after[Place(t, i)].next = Place(t, i + 1)
             /\ after[Place(t, i + 1)].prev = Place(t, i)
  <2>1. CASE i = d - 1
    <3>1. Place(t, i) = p /\ Place(t, i + 1) = q
      BY <1>1, <1>5, <1>6, <2>1
    <3>2. p # e /\ q # e
      <4>1. d + 1 \in 0 .. Len(s) \/ q = ListHead
        BY <1>1, PlaceTypes
      <4> QED
        BY <1>1, <4>1, PlacesDiffer, ListAssumption
    <3> HIDE DEF p, q, e
    <3> QED
      BY <1>2, <1>4, <3>1, <3>2
  <2>2. CASE i # d - 1
    <3> DEFINE k == IF i < d THEN i ELSE i + 1
    <3>1. k \in 0 .. Len(s) /\ k # d /\ k # d - 1
      BY <1>1, <1>5, <2>2
    <3>2. Place(t, i) = Place(s, k) /\ Place(t, i + 1) = Place(s, k + 1)
      BY <1>1, <1>5, <1>6, <2>2
    <3>3. links[Place(s, k)].next = Place(s, k + 1) /\ links[Place(s, k + 1)].prev = Place(s, k)
      BY <3>1 DEF Ring
    <3> HIDE DEF k
    <3>4. Place(s, k) # e /\ Place(s, k) # p
      BY <1>1, <3>1, PlacesDiffer
    <3>5. Place(s, k + 1) # e /\ Place(s, k + 1) # q
      <4>1. CASE k + 1 \in 0 .. Len(s) /\ d + 1 \in 0 .. Len(s)
        BY <1>1, <3>1, <4>1, PlacesDiffer
      <4>2. CASE k + 1 \in 0 .. Len(s) /\ d + 1 \notin 0 .. Len(s)
        <5>1. q = ListHead /\ k + 1 # 0
          BY <1>1, <3>1, <4>2, PlaceTypes
        <5>2. Place(s, k + 1) \in Nodes
          BY <1>1, <3>1, <4>2, <5>1, PlaceTypes
        <5> QED
          BY <1>1, <3>1, <4>2, <5>1, <5>2, PlacesDiffer, ListAssumption
      <4>3. CASE k = Len(s)
        <5>1. Place(s, k + 1) = ListHead
          BY <1>1, <4>3, PlaceTypes
        <5>2. d + 1 \in 1 .. Len(s)
          BY <1>1, <3>1, <4>3
        <5>3. q \in Nodes
          BY <5>2, PlaceTypes
        <5> QED
          BY <1>1, <5>1, <5>3, ListAssumption
      <4> QED
        BY <1>1, <3>1, <4>1, <4>2, <4>3
    <3>6. Place(s, k) \in Nodes \cup {ListHead} /\ Place(s, k + 1) \in Nodes \cup {ListHead}
      BY <1>1, <3>1, PlaceTypes
    <3> HIDE DEF p, q, e
    <3> QED
      BY <1>4, <3>2, <3>3, <3>4, <3>5, <3>6
  <2> QED
    BY <2>1, <2>2
<1> QED
  BY <1>4, <1>7, <1>8 DEF Ring, after, t

-----------------------------------------------------------------------------
(* Loops *)

LEMMA NoMoreEntriesThanNodes ==
    ASSUME NEW links, NEW s \in Seq(Nodes), Ring(links, s)
    PROVE  Len(s) <= Cardinality(Nodes) /\ Cardinality(Nodes) \in Nat
<1>1. s \in [1 .. Len(s) -> Nodes] /\ Len(s) \in Nat
  BY LenProperties
<1>2. s \in Injection(1 .. Len(s), Nodes)
  BY <1>1 DEF Ring, Injection, IsInjective
<1>3. Cardinality(1 .. Len(s)) <= Cardinality(Nodes)
  BY <1>2, ListAssumption, FS_Injection
<1>4. Cardinality(1 .. Len(s)) = Len(s)
  <2> DEFINE L == Len(s)
  <2>1. L \in Nat
    BY <1>1
  <2> HIDE DEF L
  <2>2. Cardinality(1 .. L) = L
    BY <2>1, FS_Interval
  <2> QED
    BY <2>2 DEF L
<1> QED
  BY <1>3, <1>4, ListAssumption, FS_CardinalityType

\* The variable of a loop is at the places of the ring one after the other, and
\* then stays at the head.
LEMMA LoopPlaces ==
    ASSUME NEW links, NEW s \in Seq(Nodes), Ring(links, s)
    PROVE  list_for_each(links) = [k \in 0 .. Cardinality(Nodes) |-> Place(s, k + 1)]
<1> DEFINE N == Cardinality(Nodes)
           Step(f, k) == IF k = 0 THEN links[ListHead].next
                         ELSE IF f[k - 1] \in Nodes THEN links[f[k - 1]].next ELSE f[k - 1]
           Is(f) == f = [k \in 0 .. N |-> Step(f, k)]
           ring == [k \in 0 .. N |-> Place(s, k + 1)]
           pos  == CHOOSE f : Is(f)
<1>1. N \in Nat /\ Len(s) \in Nat
  BY NoMoreEntriesThanNodes
<1>2. Place(s, 0) = ListHead /\ \A k \in 1 .. Len(s) : Place(s, k) \in Nodes
  BY PlaceTypes
<1>3. \A k \in Nat : k > Len(s) => Place(s, k) = ListHead
  BY PlaceTypes
<1>4. \A k \in 0 .. Len(s) : links[Place(s, k)].next = Place(s, k + 1)
  BY DEF Ring
<1> HIDE DEF N
<1>5. Is(ring)
  <2> SUFFICES ASSUME NEW k \in 0 .. N
               PROVE  Place(s, k + 1) = Step(ring, k)
    OBVIOUS
  <2>1. CASE k = 0
    BY <1>1, <1>2, <1>4, <2>1
  <2>2. CASE k # 0
    <3>1. ring[k - 1] = Place(s, k)
      BY <1>1, <2>2
    <3>2. CASE k <= Len(s)
      BY <1>1, <1>2, <1>4, <2>2, <3>1, <3>2
    <3>3. CASE k > Len(s)
      BY <1>1, <1>3, <2>2, <3>1, <3>3, ListAssumption
    <3> QED
      BY <1>1, <3>2, <3>3
  <2> QED
    BY <2>1, <2>2
<1>6. Is(pos)
  <2> HIDE DEF Is, ring
  <2> QED
    BY <1>5
<1>7. list_for_each(links) = pos
  BY DEF list_for_each, N
<1> HIDE DEF pos
<1> DEFINE I == {k \in 0 .. N : pos[k] = ring[k]}
<1>8. ASSUME NEW f, Is(f), NEW k \in 0 .. N
      PROVE  f[k] = Step(f, k)
  <2> DEFINE g == [j \in 0 .. N |-> Step(f, j)]
  <2>1. g[k] = Step(f, k)
    OBVIOUS
  <2>2. f = g
    BY <1>8
  <2> HIDE DEF g, Step
  <2> QED
    BY <2>1, <2>2
<1>9. 0 \in I
  <2>1. pos[0] = Step(pos, 0) /\ ring[0] = Step(ring, 0)
    <3> HIDE DEF Is, Step, ring
    <3> QED
      BY <1>1, <1>5, <1>6, <1>8
  <2> QED
    BY <1>1, <2>1
<1>10. ASSUME NEW n \in 0 .. N - 1, n \in I
      PROVE  n + 1 \in I
  <2>1. pos[n + 1] = Step(pos, n + 1) /\ ring[n + 1] = Step(ring, n + 1)
    <3> HIDE DEF Is, Step, ring
    <3> QED
      BY <1>1, <1>5, <1>6, <1>8
  <2>2. pos[(n + 1) - 1] = ring[(n + 1) - 1]
    BY <1>1, <1>10
  <2> QED
    BY <1>1, <2>1, <2>2
<1>11. I = 0 .. N
  <2> HIDE DEF I
  <2>1. I \in SUBSET (0 .. N)
    BY DEF I
  <2> QED
    BY <1>1, <1>9, <1>10, <2>1, IntervalInduction
<1>12. pos = ring
  <2>1. pos = [k \in 0 .. N |-> Step(pos, k)]
    BY <1>6
  <2>2. \A k \in 0 .. N : pos[k] = ring[k]
    BY <1>11
  <2>3. DOMAIN pos = 0 .. N /\ pos = [k \in DOMAIN pos |-> pos[k]]
    BY <2>1
  <2> QED
    BY <2>2, <2>3
<1> QED
  BY <1>7, <1>12 DEF N

\* A loop over a ring visits its entries, each once and in order
\* (list.h:241-243, 292-299).
THEOREM LoopVisits ==
    ASSUME NEW links, NEW s \in Seq(Nodes), Ring(links, s)
    PROVE  Entries(links) = s
<1> DEFINE N   == Cardinality(Nodes)
           pos == list_for_each(links)
           K   == {j \in DOMAIN pos : pos[j] \in Nodes}
<1>1. Len(s) \in Nat /\ N \in Nat /\ Len(s) <= N
  BY NoMoreEntriesThanNodes
<1>2. pos = [k \in 0 .. N |-> Place(s, k + 1)]
  BY LoopPlaces
<1> HIDE DEF N, pos
<1>3. K = 0 .. Len(s) - 1
  <2>1. ASSUME NEW k \in 0 .. N
        PROVE  pos[k] \in Nodes <=> k <= Len(s) - 1
    BY <1>1, <1>2, PlaceTypes, ListAssumption
  <2> QED
    BY <1>1, <1>2, <2>1
<1>4. Cardinality(K) = Len(s)
  <2> DEFINE L == Len(s)
  <2>1. L \in Nat
    BY <1>1
  <2> HIDE DEF L, K
  <2>2. Cardinality(0 .. L - 1) = L
    BY <2>1, FS_Interval
  <2> QED
    BY <1>3, <2>2 DEF L
<1>5. Entries(links) = [k \in 1 .. Cardinality(K) |-> pos[k - 1]]
  BY DEF Entries, pos
<1> HIDE DEF K
<1>6. Entries(links) = [k \in 1 .. Len(s) |-> pos[k - 1]]
  BY <1>4, <1>5
<1>7. \A k \in 1 .. Len(s) : pos[k - 1] = s[k]
  BY <1>1, <1>2, PlaceTypes
<1>8. s = [k \in 1 .. Len(s) |-> s[k]]
  BY LenProperties
<1> QED
  BY <1>6, <1>7, <1>8

=============================================================================
