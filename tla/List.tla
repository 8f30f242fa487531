-------------------------------- MODULE List --------------------------------
(***************************************************************************)
(* list.h: doubly linked lists that are rings through a node of their own, *)
(* the head, and whose links are inside the entries.  The operators give   *)
(* the links after a call.                                                 *)
(***************************************************************************)
EXTENDS Integers, Sequences, FiniteSets

CONSTANTS
    Nodes,          \* memory for entries
    ListHead,       \* LIST_HEAD
    LIST_POISON     \* LIST_POISON1 and LIST_POISON2

ASSUME ListAssumption ==
    IsFiniteSet(Nodes) /\ ListHead \notin Nodes /\ LIST_POISON \notin Nodes \cup {ListHead}

Links == [Nodes \cup {ListHead} -> [next : Nodes \cup {ListHead, LIST_POISON},
                                    prev : Nodes \cup {ListHead, LIST_POISON}]]

\* No entry yet: the head is alone in its ring, all other memory is unused.
LIST_HEAD_INIT ==
    [n \in Nodes \cup {ListHead} |->
        IF n = ListHead THEN [next |-> ListHead, prev |-> ListHead]
        ELSE [next |-> LIST_POISON, prev |-> LIST_POISON]]

__list_add(links, new, prev, next) ==
    [links EXCEPT ![next].prev = new,
                  ![new] = [next |-> next, prev |-> prev],
                  ![prev].next = new]

list_add_tail(links, new) == __list_add(links, new, links[ListHead].prev, ListHead)

\* Mutant: the way back from the next entry is left as it is.
__list_del_OneWay(links, prev, next) == [links EXCEPT ![prev].next = next]

__list_del(links, prev, next) ==
    [links EXCEPT ![next].prev = prev, ![prev].next = next]

list_del(links, entry) ==
    [__list_del(links, links[entry].prev, links[entry].next)
        EXCEPT ![entry] = [next |-> LIST_POISON, prev |-> LIST_POISON]]

\* The variable of a loop over the list, before each of its rounds; it stays where
\* it leaves the entries, which should be the head.
list_for_each(links) ==
    LET pos[k \in 0 .. Cardinality(Nodes)] ==
            IF k = 0 THEN links[ListHead].next
            ELSE IF pos[k - 1] \in Nodes THEN links[pos[k - 1]].next ELSE pos[k - 1]
    IN  pos

\* The entries that a loop visits.
Entries(links) ==
    LET pos == list_for_each(links)
    IN  [k \in 1 .. Cardinality({j \in DOMAIN pos : pos[j] \in Nodes}) |-> pos[k - 1]]

-----------------------------------------------------------------------------
(* What such a list should be *)

\* The node at place i of a ring with the entries s; the head is at both ends.
Place(s, i) == IF i \in 1 .. Len(s) THEN s[i] ELSE ListHead

\* Forwards and backwards, the links lead through the entries s and no other.
Ring(links, s) ==
    /\ \A i, j \in 1 .. Len(s) : s[i] = s[j] => i = j
    /\ \A i \in 0 .. Len(s) : /\ links[Place(s, i)].next = Place(s, i + 1)
                              /\ links[Place(s, i + 1)].prev = Place(s, i)

=============================================================================
