-------------------------- MODULE OptionListProofs --------------------------
(***************************************************************************)
(* The options in linked memory implement the sequence of Config, for every *)
(* file and every way of allocating memory.                                *)
(***************************************************************************)
EXTENDS OptionList, ListProofs

-----------------------------------------------------------------------------
(* Options *)

LEMMA ParsedTypes ==
    ASSUME NEW line \in Assignments
    PROVE  /\ Parsed(line) = [name |-> line.name, type |-> Parsed(line).type,
                              val |-> Parsed(line).val]
           /\ Parsed(line) \in OptionValues
<1>1. line.form \in {"number", "string", "bool"}
  BY ConfigAssumption DEF Assignments
<1>2. PICK type, val : Parsed(line) = [name |-> line.name, type |-> type, val |-> val]
  <2>1. CASE line.form = "number"
    BY <2>1 DEF Parsed
  <2>2. CASE line.form = "string"
    BY <2>2 DEF Parsed
  <2>3. CASE line.form = "bool"
    BY <2>3 DEF Parsed
  <2> QED
    BY <1>1, <2>1, <2>2, <2>3
<1>3. Parsed(line) \in OptionValues
  BY DEF OptionValues
<1> QED
  BY <1>2, <1>3

LEMMA OptionTypes ==
    ASSUME NEW opt \in OptionValues, NEW type \in {"int", "flt", "str", "bool"}
    PROVE  /\ opt # Free
           /\ AsFloat(opt, type) \in OptionValues
           /\ AsFloat(opt, type).name = opt.name
<1>1. PICK line \in Assignments : opt \in {Parsed(line), AsFloat(Parsed(line), "flt")}
  BY DEF OptionValues
<1> DEFINE p == Parsed(line)
<1>2. p = [name |-> line.name, type |-> p.type, val |-> p.val]
  BY ParsedTypes
<1> HIDE DEF p
<1>3. opt = [name |-> line.name, type |-> opt.type, val |-> opt.val]
  <2>1. PICK type0, val0 : p = [name |-> line.name, type |-> type0, val |-> val0]
    BY <1>2
  <2>2. \/ AsFloat(p, "flt") = p
        \/ AsFloat(p, "flt") = [name |-> line.name, type |-> "flt", val |-> 2 * p.val]
    BY <2>1 DEF AsFloat
  <2> QED
    BY <1>1, <1>2, <2>2 DEF p
<1>4. AsFloat(opt, type).name = opt.name
  BY <1>3 DEF AsFloat
<1>5. AsFloat(opt, type) \in {p, AsFloat(p, "flt")}
  <2>1. CASE opt = p
    BY <2>1 DEF AsFloat
  <2>2. CASE opt = AsFloat(p, "flt") /\ opt # p
    <3>1. opt.type = "flt"
      BY <1>2, <2>2 DEF AsFloat
    <3> QED
      BY <2>2, <3>1 DEF AsFloat
  <2> QED
    BY <1>1, <2>1, <2>2 DEF p
<1> QED
  BY <1>4, <1>5, OptionListAssumption DEF OptionValues, p

-----------------------------------------------------------------------------
(* The inductive invariant *)

Listing == Entries(links)

\* The list is a ring of the options in memory, each with a name of its own.
ListInv ==
    /\ links \in Links /\ options \in [Nodes -> OptionValues \cup {Free}]
    /\ Listing \in Seq(Nodes) /\ Ring(links, Listing)
    /\ Allocated = {Listing[k] : k \in 1 .. Len(Listing)}
    /\ \A i, j \in 1 .. Len(Listing) :
          options[Listing[i]].name = options[Listing[j]].name => i = j

OptionInv ==
    /\ file \in Files /\ line_nr \in Nat /\ reads \in Nat
    /\ pc \in {"parse", "read", "ready", "dead"}
    /\ pc # "ready" => ListInv /\ names = Allocated
    /\ pc = "ready" => Allocated = {}

LEMMA ListingTypes ==
    ASSUME ListInv, NEW k \in 1 .. Len(Listing)
    PROVE  /\ Listing[k] \in Nodes /\ Listing[k] \in Allocated
           /\ options[Listing[k]] \in OptionValues
  BY DEF ListInv, Allocated

\* A search finds the only option of that name, or none.
LEMMA IndexFound ==
    ASSUME ListInv, NEW name
    PROVE  LET i == IndexOfName(name)
               sought == {k \in 1 .. Len(Listing) : options[Listing[k]].name = name}
           IN  \/ i = 0 /\ sought = {}
               \/ i \in 1 .. Len(Listing) /\ sought = {i}
<1> DEFINE sought == {k \in 1 .. Len(Listing) : options[Listing[k]].name = name}
<1>1. IndexOfName(name) = IF sought # {} THEN Min(sought) ELSE 0
  BY DEF IndexOfName, SelectInSeq, Listing
<1>2. Len(Listing) \in Nat
  BY DEF ListInv
<1>3. ASSUME NEW i \in sought
      PROVE  sought = {i} /\ Min(sought) = i
  <2>1. sought = {i}
    BY <1>3 DEF ListInv
  <2>2. i \in Nat
    BY <1>2
  <2> HIDE DEF sought
  <2>3. Min({i}) = i
    BY <2>2 DEF Min
  <2> QED
    BY <2>1, <2>3
<1> QED
  BY <1>1, <1>3

-----------------------------------------------------------------------------
(* add_option *)

\* What is left of the list when the option of that name is gone.
Kept(name) ==
    LET i == IndexOfName(name)
    IN  IF i = 0 THEN Listing ELSE RemoveAt(Listing, i)

\* The options that are kept are the ones in memory with other names.
LEMMA KeptOptions ==
    ASSUME ListInv, NEW name
    PROVE  /\ Kept(name) \in Seq(Nodes)
           /\ \A j, k \in 1 .. Len(Kept(name)) :
                 options[Kept(name)[j]].name = options[Kept(name)[k]].name => j = k
           /\ \A k \in 1 .. Len(Kept(name)) :
                 /\ Kept(name)[k] \in Allocated
                 /\ options[Kept(name)[k]].name # name
           /\ \A x \in Allocated : \/ \E k \in 1 .. Len(Kept(name)) : x = Kept(name)[k]
                                  \/ /\ IndexOfName(name) # 0
                                     /\ x = Listing[IndexOfName(name)]
<1> DEFINE i == IndexOfName(name)
           L == Listing
<1>1. L \in Seq(Nodes) /\ Len(L) \in Nat
  BY DEF ListInv
<1>2. /\ \A j, k \in 1 .. Len(L) : options[L[j]].name = options[L[k]].name => j = k
      /\ Allocated = {L[k] : k \in 1 .. Len(L)}
  BY DEF ListInv
<1>3. \/ i = 0 /\ \A k \in 1 .. Len(L) : options[L[k]].name # name
      \/ i \in 1 .. Len(L) /\ \A k \in 1 .. Len(L) : options[L[k]].name = name => k = i
  BY IndexFound
<1> HIDE DEF L, i
<1>4. CASE i = 0
  <2>1. Kept(name) = L
    BY <1>4 DEF Kept, L, i
  <2> QED
    BY <1>1, <1>2, <1>3, <1>4, <2>1 DEF L, i
<1>5. CASE i # 0
  <2> DEFINE K == Kept(name)
  <2>1. K = RemoveAt(L, i) /\ i \in 1 .. Len(L)
    BY <1>3, <1>5 DEF Kept, L, i
  <2>2. /\ K \in Seq(Nodes) /\ Len(K) = Len(L) - 1
        /\ \A k \in 1 .. Len(L) - 1 : K[k] = IF k < i THEN L[k] ELSE L[k + 1]
    BY <1>1, <2>1, RemovedAt
  <2> HIDE DEF K
  <2>3. ASSUME NEW j \in 1 .. Len(K), NEW k \in 1 .. Len(K),
               options[K[j]].name = options[K[k]].name
        PROVE  j = k
    <3> DEFINE was(a) == IF a < i THEN a ELSE a + 1
    <3>1. was(j) \in 1 .. Len(L) /\ was(k) \in 1 .. Len(L)
      BY <1>1, <2>1, <2>2
    <3>2. options[L[was(j)]].name = options[L[was(k)]].name
      BY <2>2, <2>3
    <3>3. was(j) = was(k)
      <4> HIDE DEF was
      <4> QED
        BY <1>2, <3>1, <3>2
    <3> QED
      BY <1>1, <2>1, <2>2, <3>3
  <2>4. ASSUME NEW k \in 1 .. Len(K)
        PROVE  K[k] \in Allocated /\ options[K[k]].name # name
    <3> DEFINE a == IF k < i THEN k ELSE k + 1
    <3>1. a \in 1 .. Len(L) /\ a # i /\ K[k] = L[a]
      BY <1>1, <2>1, <2>2
    <3> HIDE DEF a
    <3> QED
      BY <1>2, <1>3, <1>5, <3>1
  <2>5. ASSUME NEW x \in Allocated, x # L[i]
        PROVE  \E k \in 1 .. Len(K) : x = K[k]
    <3>1. PICK a \in 1 .. Len(L) : x = L[a]
      BY <1>2
    <3>2. a # i
      BY <2>5, <3>1
    <3> DEFINE k == IF a < i THEN a ELSE a - 1
    <3>3. k \in 1 .. Len(K) /\ K[k] = L[a]
      <4>1. CASE a < i
        BY <1>1, <2>1, <2>2, <4>1
      <4>2. CASE a > i
        <5>1. a - 1 \in 1 .. Len(L) - 1 /\ ~ (a - 1 < i) /\ (a - 1) + 1 = a
          BY <1>1, <2>1, <4>2
        <5>2. K[a - 1] = L[a]
          BY <2>2, <5>1
        <5>3. k = a - 1
          BY <1>1, <2>1, <4>2
        <5> QED
          BY <2>2, <5>1, <5>2, <5>3
      <4> QED
        BY <1>1, <2>1, <3>2, <4>1, <4>2
    <3> QED
      BY <3>1, <3>3
  <2> QED
    BY <1>5, <2>2, <2>3, <2>4, <2>5 DEF K, L, i
<1> QED
  BY <1>4, <1>5

LEMMA AddOption ==
    ASSUME ListInv, NEW n \in Nodes \ Allocated, NEW line \in Assignments,
           add_option(n, Parsed(line))
    PROVE  /\ ListInv'
           /\ Listing' = Append(Kept(Parsed(line).name), n)
           /\ options'[n] = Parsed(line)
           /\ \A x \in Nodes : (\E k \in 1 .. Len(Kept(Parsed(line).name)) :
                                  x = Kept(Parsed(line).name)[k]) => options'[x] = options[x]
<1> DEFINE new == Parsed(line)
           K   == Kept(new.name)
           i   == IndexOfName(new.name)
           old == Listing[i]
           mid == IF i = 0 THEN links ELSE list_del(links, old)
<1>1. new \in OptionValues /\ new # Free
  BY ParsedTypes, OptionListAssumption
<1> HIDE DEF new
<1>2. i = 0 \/ i \in 1 .. Len(Listing)
  BY IndexFound
<1>3. mid \in Links /\ Ring(mid, K)
  <2>1. CASE i = 0
    BY <2>1 DEF ListInv, Kept
  <2>2. CASE i \in 1 .. Len(Listing)
    <3>1. i # 0 /\ K = RemoveAt(Listing, i)
      BY <2>2 DEF Kept, ListInv
    <3>2. list_del(links, old) \in Links /\ Ring(list_del(links, old), RemoveAt(Listing, i))
      BY <2>2, EntryDeleted DEF ListInv
    <3> QED
      BY <3>1, <3>2
  <2> QED
    BY <1>2, <2>1, <2>2
<1>4. /\ K \in Seq(Nodes)
      /\ \A j, k \in 1 .. Len(K) : options[K[j]].name = options[K[k]].name => j = k
      /\ \A k \in 1 .. Len(K) : K[k] \in Allocated /\ options[K[k]].name # new.name
      /\ \A x \in Allocated : (\E k \in 1 .. Len(K) : x = K[k]) \/ (i # 0 /\ x = old)
  BY KeptOptions
<1>5. /\ links' = list_add_tail(mid, n)
      /\ options' = IF i = 0 THEN [options EXCEPT ![n] = new]
                    ELSE [options EXCEPT ![old] = Free, ![n] = new]
  BY DEF add_option, new, Listing
<1>6. i # 0 => /\ old \in Nodes /\ old # n
               /\ \A k \in 1 .. Len(K) : K[k] # old
  <2>1. ASSUME i # 0
        PROVE  old \in Allocated /\ options[old].name = new.name
    BY <1>2, <2>1, ListingTypes, IndexFound
  <2> HIDE DEF old, i, K
  <2> QED
    BY <1>4, <2>1 DEF Allocated
<1> HIDE DEF K, i, old, mid
<1>7. \A k \in 1 .. Len(K) : K[k] # n /\ K[k] \in Nodes
  BY <1>4 DEF Allocated
<1>8. links' \in Links /\ Ring(links', Append(K, n))
  BY <1>3, <1>4, <1>5, <1>7, TailAdded
<1>9. Append(K, n) \in Seq(Nodes) /\ Listing' = Append(K, n)
  <2>1. Append(K, n) \in Seq(Nodes)
    BY <1>4
  <2> QED
    BY <1>8, <2>1, LoopVisits DEF Listing
<1>10. options \in [Nodes -> OptionValues \cup {Free}]
  BY DEF ListInv
<1>11. /\ options' \in [Nodes -> OptionValues \cup {Free}]
       /\ options'[n] = new
       /\ i # 0 => options'[old] = Free
       /\ \A x \in Nodes : x # n /\ (i # 0 => x # old) => options'[x] = options[x]
  <2>1. CASE i = 0
    BY <1>1, <1>5, <1>10, <2>1
  <2>2. CASE i # 0
    BY <1>1, <1>5, <1>6, <1>10, <2>2
  <2> QED
    BY <2>1, <2>2
<1>12. \A k \in 1 .. Len(K) : options'[K[k]] = options[K[k]]
  BY <1>6, <1>7, <1>11
<1>13. /\ Len(Append(K, n)) = Len(K) + 1 /\ Len(K) \in Nat
       /\ \A k \in 1 .. Len(K) : Append(K, n)[k] = K[k]
       /\ Append(K, n)[Len(K) + 1] = n
  BY <1>4
<1>14. Allocated' = {Append(K, n)[k] : k \in 1 .. Len(Append(K, n))}
  <2>1. ASSUME NEW x \in Nodes, options'[x] # Free
        PROVE  \E k \in 1 .. Len(K) + 1 : x = Append(K, n)[k]
    <3>1. CASE x = n
      BY <1>13, <3>1
    <3>2. CASE x # n
      <4>1. x \in Allocated /\ ~ (i # 0 /\ x = old)
        BY <1>11, <2>1, <3>2 DEF Allocated
      <4> QED
        BY <1>4, <1>13, <4>1
    <3> QED
      BY <3>1, <3>2
  <2>2. ASSUME NEW k \in 1 .. Len(K) + 1
        PROVE  Append(K, n)[k] \in Nodes /\ options'[Append(K, n)[k]] # Free
    <3>1. CASE k = Len(K) + 1
      BY <1>1, <1>11, <1>13, <3>1
    <3>2. CASE k \in 1 .. Len(K)
      BY <1>4, <1>7, <1>12, <1>13, <3>2 DEF Allocated
    <3> QED
      BY <1>13, <3>1, <3>2
  <2> QED
    BY <1>13, <2>1, <2>2 DEF Allocated
<1>15. ASSUME NEW j \in 1 .. Len(K) + 1, NEW k \in 1 .. Len(K) + 1,
              options'[Append(K, n)[j]].name = options'[Append(K, n)[k]].name
       PROVE  j = k
  <2>1. CASE j \in 1 .. Len(K) /\ k \in 1 .. Len(K)
    BY <1>4, <1>12, <1>13, <1>15, <2>1
  <2>2. CASE j = Len(K) + 1 \/ k = Len(K) + 1
    BY <1>4, <1>11, <1>12, <1>13, <1>15, <2>2
  <2> QED
    BY <1>13, <2>1, <2>2
<1>16. ListInv'
  BY <1>8, <1>9, <1>11, <1>13, <1>14, <1>15 DEF ListInv
<1> QED
  BY <1>9, <1>11, <1>12, <1>16 DEF K, new

\* The name of the option that is replaced is freed with it.
LEMMA NamesFollow ==
    ASSUME ListInv, names = Allocated, NEW n \in Nodes \ Allocated, NEW line \in Assignments,
           add_option(n, Parsed(line))
    PROVE  names' = Allocated'
<1> DEFINE new == Parsed(line)
           i   == IndexOfName(new.name)
           old == Listing[i]
<1>1. new # Free /\ options \in [Nodes -> OptionValues \cup {Free}]
  BY ParsedTypes, OptionListAssumption DEF ListInv
<1>2. i # 0 => old \in Allocated
  <2>1. i = 0 \/ i \in 1 .. Len(Listing)
    BY IndexFound
  <2> HIDE DEF i
  <2> QED
    BY <2>1, ListingTypes
<1>3. \/ /\ i = 0
         /\ options' = [options EXCEPT ![n] = new] /\ names' = names \cup {n}
      \/ /\ i # 0
         /\ options' = [options EXCEPT ![old] = Free, ![n] = new]
         /\ names' = (names \ {old}) \cup {n}
  BY DEF add_option, Listing
<1> HIDE DEF new, i, old
<1>4. CASE i = 0
  <2>1. \A x \in Nodes : options'[x] = IF x = n THEN new ELSE options[x]
    BY <1>1, <1>3, <1>4
  <2>2. Allocated' = Allocated \cup {n}
    BY <1>1, <2>1 DEF Allocated
  <2> QED
    BY <1>3, <1>4, <2>2
<1>5. CASE i # 0
  <2>1. old \in Nodes /\ old # n
    BY <1>2, <1>5 DEF Allocated
  <2>2. \A x \in Nodes : options'[x] = IF x = n THEN new
                                      ELSE IF x = old THEN Free ELSE options[x]
    BY <1>1, <1>3, <1>5, <2>1
  <2>3. Allocated' = (Allocated \ {old}) \cup {n}
    BY <1>1, <2>1, <2>2 DEF Allocated
  <2> QED
    BY <1>3, <1>5, <2>3
<1> QED
  BY <1>4, <1>5

-----------------------------------------------------------------------------
(* The other steps *)

LEMMA FileLength ==
    ASSUME file \in Files, file # NoFile
    PROVE  Len(file) \in Nat
<1>1. PICK m \in 0 .. MaxLines : file \in [1 .. m -> Lines]
  BY DEF Files, SeqOf
<1> QED
  BY <1>1, ConfigAssumption

LEMMA LineTypes ==
    ASSUME file \in Files, file # NoFile, NEW k \in 1 .. Len(file)
    PROVE  file[k] \in Lines
<1>1. PICK m \in 0 .. MaxLines : file \in [1 .. m -> Lines]
  BY DEF Files, SeqOf
<1>2. Len(file) = m
  BY <1>1, ConfigAssumption
<1> QED
  BY <1>1, <1>2

LEMMA InitInv == Init => OptionInv
<1> SUFFICES ASSUME Init PROVE OptionInv
  OBVIOUS
<1>1. links \in Links /\ Ring(links, <<>>)
  BY ListAssumption DEF Init, LIST_HEAD_INIT, Links, Ring, Place
<1>2. Listing = <<>>
  <2>1. <<>> \in Seq(Nodes)
    OBVIOUS
  <2> QED
    BY <1>1, <2>1, LoopVisits DEF Listing
<1>3. Allocated = {}
  BY DEF Init, Allocated
<1>4. options \in [Nodes -> OptionValues \cup {Free}]
  BY DEF Init
<1>5. ListInv
  BY <1>1, <1>2, <1>3, <1>4 DEF ListInv
<1> QED
  BY <1>3, <1>5 DEF Init, OptionInv

\* Asking for an option changes at most its type, in place.
LEMMA GetOptionInv ==
    ASSUME OptionInv, GetOption
    PROVE  /\ ListInv' /\ Listing' = Listing /\ Allocated' = Allocated
           /\ LET r == Reads[reads + 1]
                  i == IndexOfName(r.name)
              IN  /\ r.type \in {"int", "flt", "str", "bool"}
                  /\ i \in 0 .. Len(Listing)
                  /\ \A k \in 1 .. Len(Listing) :
                        options'[Listing[k]] = IF k = i THEN AsFloat(options[Listing[k]], r.type)
                                               ELSE options[Listing[k]]
<1> DEFINE r == Reads[reads + 1]
           i == IndexOfName(r.name)
           n == Listing[i]
           opt == AsFloat(options[n], r.type)
           L == Listing
<1>1. ListInv /\ pc = "read" /\ links' = links /\ pc' = pc
  BY DEF OptionInv, GetOption
<1>2. L' = L
  BY <1>1 DEF Listing
<1>3. reads + 1 \in 1 .. Len(Reads) /\ r.type \in {"int", "flt", "str", "bool"}
  <2>1. reads + 1 \in 1 .. 22
    BY DEF OptionInv, GetOption, Reads
  <2> QED
    BY <2>1 DEF Reads
<1> HIDE DEF r
<1>4. i = 0 \/ i \in 1 .. Len(L)
  BY <1>1, IndexFound
<1>5. options' = IF i = 0 THEN options ELSE [options EXCEPT ![n] = opt]
  BY DEF GetOption, r, Listing
<1>6. i # 0 => /\ n \in Nodes /\ n \in Allocated /\ options[n] \in OptionValues
               /\ opt \in OptionValues /\ opt # Free /\ opt.name = options[n].name
  BY <1>1, <1>3, <1>4, ListingTypes, OptionTypes
<1>7. /\ links \in Links /\ options \in [Nodes -> OptionValues \cup {Free}]
      /\ L \in Seq(Nodes) /\ Ring(links, L)
      /\ Allocated = {L[k] : k \in 1 .. Len(L)}
      /\ \A j, k \in 1 .. Len(L) : options[L[j]].name = options[L[k]].name => j = k
  BY <1>1 DEF ListInv
<1>8. \A j, k \in 1 .. Len(L) : L[j] = L[k] => j = k
  BY <1>7 DEF Ring
<1> HIDE DEF i, opt, L
<1>9. /\ options' \in [Nodes -> OptionValues \cup {Free}]
      /\ \A x \in Nodes : options'[x] = IF i # 0 /\ x = n THEN opt ELSE options[x]
  <2> HIDE DEF n
  <2> QED
    BY <1>5, <1>6, <1>7
<1>10. Allocated' = Allocated
  <2> HIDE DEF n
  <2> QED
    BY <1>6, <1>9 DEF Allocated
<1>11. \A k \in 1 .. Len(L) : L[k] \in Nodes /\ options'[L[k]] = IF k = i THEN opt ELSE options[L[k]]
  <2> SUFFICES ASSUME NEW k \in 1 .. Len(L)
               PROVE  L[k] \in Nodes /\ options'[L[k]] = IF k = i THEN opt ELSE options[L[k]]
    OBVIOUS
  <2>1. L[k] \in Nodes
    BY <1>7
  <2>2. (i # 0 /\ L[k] = n) <=> k = i
    BY <1>4, <1>7, <1>8 DEF L
  <2> QED
    BY <1>9, <2>1, <2>2
<1>12. \A k \in 1 .. Len(L) : options'[L[k]].name = options[L[k]].name
  <2> SUFFICES ASSUME NEW k \in 1 .. Len(L)
               PROVE  options'[L[k]].name = options[L[k]].name
    OBVIOUS
  <2>1. CASE k = i
    <3>1. i # 0 /\ options[L[k]] = options[n]
      BY <1>7, <2>1 DEF L
    <3> HIDE DEF n
    <3> QED
      BY <1>6, <1>11, <2>1, <3>1
  <2>2. CASE k # i
    BY <1>11, <2>2
  <2> QED
    BY <2>1, <2>2
<1>13. ListInv'
  BY <1>1, <1>2, <1>7, <1>9, <1>10, <1>12 DEF ListInv, L
<1>14. \A k \in 1 .. Len(L) : options'[L[k]] = IF k = i THEN AsFloat(options[L[k]], r.type)
                                               ELSE options[L[k]]
  BY <1>11 DEF opt, L
<1> QED
  BY <1>2, <1>3, <1>4, <1>7, <1>10, <1>13, <1>14 DEF L, i, r

\* Freeing what a loop visits frees everything.
LEMMA FreeInv ==
    ASSUME OptionInv, sconf_free
    PROVE  Allocated' = {}
<1>1. ListInv
  BY DEF OptionInv, sconf_free
<1>2. /\ options' = [n \in Nodes |-> IF \E k \in DOMAIN Listing : Listing[k] = n
                                     THEN Free ELSE options[n]]
      /\ DOMAIN Listing = 1 .. Len(Listing)
  BY <1>1 DEF sconf_free, Listing, ListInv
<1>3. \A n \in Nodes : options[n] # Free => \E k \in 1 .. Len(Listing) : Listing[k] = n
  BY <1>1 DEF ListInv, Allocated
<1> QED
  BY <1>2, <1>3 DEF Allocated

\* Every step keeps the invariant.
LEMMA OptionInvInductive == OptionInv /\ [ConfigNext]_vars => OptionInv'
<1> SUFFICES ASSUME OptionInv, [ConfigNext]_vars PROVE OptionInv'
  OBVIOUS
<1>1. CASE UNCHANGED vars
  <2>1. UNCHANGED <<file, line_nr, reads, pc, links, options, names>>
    BY <1>1 DEF vars
  <2>2. UNCHANGED <<Listing, Allocated>>
    BY <2>1 DEF Listing, Allocated
  <2>3. ListInv => ListInv'
    BY <2>1, <2>2 DEF ListInv
  <2> QED
    BY <2>1, <2>2, <2>3 DEF OptionInv
<1>2. CASE NoConfigFile \/ EndOfFile
  <2>1. /\ UNCHANGED <<file, line_nr, reads, links, options, names>>
        /\ pc = "parse" /\ pc' \in {"dead", "read"}
    BY <1>2 DEF NoConfigFile, EndOfFile
  <2>2. UNCHANGED <<Listing, Allocated>>
    BY <2>1 DEF Listing, Allocated
  <2>3. ListInv => ListInv'
    BY <2>1, <2>2 DEF ListInv
  <2> QED
    BY <2>1, <2>2, <2>3 DEF OptionInv
<1>3. CASE handle_line
  <2>1. /\ file # NoFile /\ line_nr + 1 \in 1 .. Len(file)
        /\ pc = "parse" /\ pc' \in {"parse", "dead"}
        /\ file' = file /\ reads' = reads /\ line_nr' = line_nr + 1
    BY <1>3, FileLength DEF handle_line, OptionInv
  <2>2. ListInv' /\ names' = Allocated'
    <3>1. ListInv /\ names = Allocated
      BY <2>1 DEF OptionInv
    <3>2. CASE UNCHANGED <<links, options, names>>
      <4>1. UNCHANGED <<Listing, Allocated>>
        BY <3>2 DEF Listing, Allocated
      <4>2. ListInv'
        BY <3>1, <3>2, <4>1 DEF ListInv
      <4> QED
        BY <3>1, <3>2, <4>1, <4>2
    <3>3. CASE ~ UNCHANGED <<links, options, names>>
      <4> DEFINE line == file[line_nr + 1]
      <4>1. /\ line.form \notin {"blank", "broken"}
            /\ \E n \in Nodes \ Allocated : add_option(n, Parsed(line))
        BY <1>3, <3>3 DEF handle_line
      <4>2. line \in Assignments
        BY <2>1, <4>1, LineTypes DEF Assignments, OptionInv
      <4> HIDE DEF line
      <4>3. PICK n \in Nodes \ Allocated : add_option(n, Parsed(line))
        BY <4>1
      <4>4. ListInv'
        BY <3>1, <4>2, <4>3, AddOption
      <4>5. names' = Allocated'
        BY <3>1, <4>2, <4>3, NamesFollow
      <4> QED
        BY <4>4, <4>5
    <3> QED
      BY <3>2, <3>3
  <2> QED
    BY <2>1, <2>2 DEF OptionInv
<1>4. CASE GetOption
  <2>1. ListInv' /\ Allocated' = Allocated
    BY <1>4, GetOptionInv
  <2>2. /\ file' = file /\ line_nr' = line_nr /\ reads' = reads + 1 /\ pc' = pc /\ pc = "read"
        /\ names' = names
    BY <1>4 DEF GetOption
  <2> QED
    BY <2>1, <2>2 DEF OptionInv
<1>5. CASE sconf_free
  <2>1. Allocated' = {}
    BY <1>5, FreeInv
  <2>2. UNCHANGED <<file, line_nr, reads>> /\ pc' = "ready"
    BY <1>5 DEF sconf_free
  <2> QED
    BY <2>1, <2>2 DEF OptionInv
<1> QED
  BY <1>1, <1>2, <1>3, <1>4, <1>5 DEF ConfigNext

LEMMA OptionInvariant == Spec => []OptionInv
  BY InitInv, OptionInvInductive, PTL DEF Spec

-----------------------------------------------------------------------------
(* What follows from it *)

\* Until it is freed, the list is intact both ways and has every option that is
\* in memory, each with its name; afterwards no option is left (sconf.c:50-56,
\* 67-72, 262-271).
THEOREM OptionsInMemory == Spec => []ListSound
<1>1. OptionInv => ListSound
  <2> SUFFICES ASSUME OptionInv PROVE ListSound
    OBVIOUS
  <2>1. CASE pc # "ready"
    <3>1. DOMAIN Listing = 1 .. Len(Listing) /\ Ring(links, Listing)
          /\ Allocated = {Listing[k] : k \in 1 .. Len(Listing)} /\ names = Allocated
      BY <2>1 DEF OptionInv, ListInv
    <3> QED
      BY <2>1, <3>1 DEF ListSound, Listing
  <2>2. CASE pc = "ready"
    BY <2>2 DEF OptionInv, ListSound
  <2> QED
    BY <2>1, <2>2
<1> QED
  BY <1>1, OptionInvariant, PTL

\* The sequence that the list stands for.
LEMMA ListedIs ==
    ASSUME OptionInv, pc # "ready"
    PROVE  /\ Listed = [k \in 1 .. Len(Listing) |-> options[Listing[k]]]
           /\ Len(Listing) \in Nat /\ Len(Listed) = Len(Listing)
           /\ Listed \in Seq(OptionValues)
<1>1. ListInv
  BY DEF OptionInv
<1>2. Listing \in Seq(Nodes) /\ DOMAIN Listing = 1 .. Len(Listing) /\ Len(Listing) \in Nat
  BY <1>1 DEF ListInv
<1>3. Listed = [k \in 1 .. Len(Listing) |-> options[Listing[k]]]
  BY <1>2 DEF Listed, Listing
<1>4. \A k \in 1 .. Len(Listing) : options[Listing[k]] \in OptionValues
  BY <1>1, ListingTypes
<1> HIDE DEF Listing
<1> QED
  BY <1>2, <1>3, <1>4

\* An assignment leaves no other one of its name (sconf.c:63-72).
THEOREM OneOptionPerName == Spec => []NamesUnique
<1>1. OptionInv => NamesUnique
  <2> SUFFICES ASSUME OptionInv PROVE NamesUnique
    OBVIOUS
  <2>1. CASE pc = "ready"
    BY <2>1 DEF NamesUnique, C!NamesUnique, Listed
  <2>2. CASE pc # "ready"
    <3>1. ListInv
      BY <2>2 DEF OptionInv
    <3>2. /\ Listed = [k \in 1 .. Len(Listing) |-> options[Listing[k]]]
          /\ DOMAIN Listed = 1 .. Len(Listing)
      BY <2>2, ListedIs
    <3> HIDE DEF Listed
    <3> QED
      BY <3>1, <3>2 DEF ListInv, NamesUnique, C!NamesUnique
  <2> QED
    BY <2>1, <2>2
<1> QED
  BY <1>1, OptionInvariant, PTL

-----------------------------------------------------------------------------
(* The list implements the sequence *)

LEMMA SameData ==
    /\ C!Files = Files /\ C!Reads = Reads /\ C!Names = Names /\ C!Defaults = Defaults
    /\ \A line : C!Parsed(line) = Parsed(line)
    /\ \A opt, type : C!AsFloat(opt, type) = AsFloat(opt, type)
    /\ \A name, value, old : C!Corrected(name, value, old) = Corrected(name, value, old)
<1>1. C!Files = Files
  BY DEF C!Files, Files, C!SeqOf, SeqOf
<1>2. C!Reads = Reads
  BY DEF C!Reads, Reads
<1>3. C!Names = Names /\ C!Defaults = Defaults
  <2>1. C!Names = Names
    BY <1>2 DEF C!Names, Names
  <2>2. \A name : C!TypeOf(name) = TypeOf(name)
    BY <1>2 DEF C!TypeOf, TypeOf, C!ToSet, ToSet
  <2> QED
    BY <2>1, <2>2 DEF C!Defaults, Defaults
<1>4. \A line : C!Parsed(line) = Parsed(line)
  BY DEF C!Parsed, Parsed
<1>5. \A opt, type : C!AsFloat(opt, type) = AsFloat(opt, type)
  BY DEF C!AsFloat, AsFloat
<1>6. \A name, value, old : C!Corrected(name, value, old) = Corrected(name, value, old)
  BY DEF C!Corrected, Corrected
<1> QED
  BY <1>1, <1>2, <1>3, <1>4, <1>5, <1>6

\* Both find an option at the same place.
LEMMA SameIndex ==
    ASSUME OptionInv, pc # "ready", NEW name
    PROVE  C!IndexOfName(Listed, name) = IndexOfName(name)
<1> DEFINE here  == {k \in 1 .. Len(Listing) : options[Listing[k]].name = name}
           there == {k \in 1 .. Len(Listed) : Listed[k].name = name}
<1>1. /\ Listed = [k \in 1 .. Len(Listing) |-> options[Listing[k]]]
      /\ Len(Listed) = Len(Listing)
  BY ListedIs
<1>2. here = there
  <2> HIDE DEF Listed
  <2> QED
    BY <1>1
<1>3. IndexOfName(name) = IF here # {} THEN Min(here) ELSE 0
  BY DEF IndexOfName, SelectInSeq, Listing
<1>4. C!IndexOfName(Listed, name) = IF there # {} THEN C!Min(there) ELSE 0
  BY DEF C!IndexOfName, C!SelectInSeq
<1>5. C!Min(there) = Min(here)
  BY <1>2 DEF C!Min, Min
<1> QED
  BY <1>2, <1>3, <1>4, <1>5

\* Adding an option to the list is adding it to the sequence.
LEMMA AddMaps ==
    ASSUME OptionInv, pc # "ready", pc' # "ready",
           NEW n \in Nodes \ Allocated, NEW line \in Assignments,
           add_option(n, Parsed(line))
    PROVE  Listed' = C!add_option(Listed, Parsed(line))
<1> DEFINE new == Parsed(line)
           i   == IndexOfName(new.name)
           K   == Kept(new.name)
           G   == IF i = 0 THEN Listed ELSE RemoveAt(Listed, i)
           L   == Listing
           D   == Listed
<1>1. ListInv
  BY DEF OptionInv
<1>2. /\ Listing' = Append(K, n) /\ options'[n] = new
      /\ \A x \in Nodes : (\E k \in 1 .. Len(K) : x = K[k]) => options'[x] = options[x]
  BY <1>1, AddOption
<1>3. K \in Seq(Nodes) /\ Len(K) \in Nat
  <2>1. K \in Seq(Nodes)
    BY <1>1, KeptOptions
  <2> HIDE DEF K
  <2> QED
    BY <2>1
<1>4. /\ D = [k \in 1 .. Len(L) |-> options[L[k]]]
      /\ Len(L) \in Nat /\ Len(D) = Len(L) /\ D \in Seq(OptionValues)
  BY ListedIs
<1>5. i = 0 \/ i \in 1 .. Len(L)
  BY <1>1, IndexFound
<1>6. L \in Seq(Nodes) /\ K = IF i = 0 THEN L ELSE RemoveAt(L, i)
  BY <1>1 DEF ListInv, Kept
<1>7. new \in OptionValues
  BY ParsedTypes
<1>8. G = IF i = 0 THEN D ELSE RemoveAt(D, i)
  OBVIOUS
<1>9. C!add_option(Listed, new) = Append(G, new)
  <2>1. C!IndexOfName(Listed, new.name) = i
    BY SameIndex
  <2>2. C!RemoveAt(Listed, i) = RemoveAt(Listed, i)
    BY DEF C!RemoveAt, RemoveAt
  <2> HIDE DEF i, new
  <2> QED
    BY <2>1, <2>2 DEF C!add_option
<1>10. Listed' = [k \in DOMAIN Append(K, n) |-> options'[Append(K, n)[k]]]
  BY <1>2 DEF Listed, Listing
<1> HIDE DEF new, i, K, G, L, D
<1>11. G \in Seq(OptionValues) /\ G = [k \in 1 .. Len(K) |-> options[K[k]]] /\ Len(G) = Len(K)
  <2>1. CASE i = 0
    BY <1>4, <1>6, <1>8, <2>1
  <2>2. CASE i \in 1 .. Len(L)
    <3>1. i # 0 /\ G = RemoveAt(D, i) /\ K = RemoveAt(L, i)
      BY <1>4, <1>6, <1>8, <2>2
    <3>2. /\ G \in Seq(OptionValues) /\ Len(G) = Len(L) - 1
          /\ \A k \in 1 .. Len(L) - 1 : G[k] = IF k < i THEN D[k] ELSE D[k + 1]
      <4>1. D \in Seq(OptionValues) /\ i \in 1 .. Len(D) /\ Len(D) = Len(L)
        BY <1>4, <2>2
      <4>2. /\ RemoveAt(D, i) \in Seq(OptionValues) /\ Len(RemoveAt(D, i)) = Len(D) - 1
            /\ \A k \in 1 .. Len(D) - 1 :
                  RemoveAt(D, i)[k] = IF k < i THEN D[k] ELSE D[k + 1]
        BY <4>1, RemovedAt
      <4> QED
        BY <3>1, <4>1, <4>2
    <3>3. /\ Len(K) = Len(L) - 1
          /\ \A k \in 1 .. Len(L) - 1 : K[k] = IF k < i THEN L[k] ELSE L[k + 1]
      BY <1>6, <2>2, <3>1, RemovedAt
    <3>4. \A k \in 1 .. Len(L) - 1 : G[k] = options[K[k]]
      <4> SUFFICES ASSUME NEW k \in 1 .. Len(L) - 1 PROVE G[k] = options[K[k]]
        OBVIOUS
      <4> DEFINE a == IF k < i THEN k ELSE k + 1
      <4>1. a \in 1 .. Len(L)
        BY <1>4
      <4>2. G[k] = D[a] /\ K[k] = L[a]
        BY <3>2, <3>3
      <4> HIDE DEF a
      <4>3. D[a] = options[L[a]]
        BY <1>4, <4>1
      <4> QED
        BY <4>2, <4>3
    <3>5. G = [k \in 1 .. Len(G) |-> G[k]]
      BY <3>2
    <3> QED
      BY <3>2, <3>3, <3>4, <3>5
  <2> QED
    BY <1>5, <2>1, <2>2
<1>12. /\ DOMAIN Append(K, n) = 1 .. Len(K) + 1
       /\ \A k \in 1 .. Len(K) : Append(K, n)[k] = K[k]
       /\ Append(K, n)[Len(K) + 1] = n
  BY <1>3
<1>13. Append(G, new) = [k \in 1 .. Len(K) + 1 |-> IF k = Len(K) + 1 THEN new ELSE G[k]]
  BY <1>3, <1>7, <1>11
<1>14. \A k \in 1 .. Len(K) : options'[K[k]] = G[k]
  <2> SUFFICES ASSUME NEW k \in 1 .. Len(K) PROVE options'[K[k]] = G[k]
    OBVIOUS
  <2>1. K[k] \in Nodes
    BY <1>3
  <2> QED
    BY <1>2, <1>11, <2>1
<1>15. \A k \in 1 .. Len(K) + 1 :
          options'[Append(K, n)[k]] = IF k = Len(K) + 1 THEN new ELSE G[k]
  BY <1>2, <1>3, <1>12, <1>14
<1>16. Listed' = Append(G, new)
  BY <1>10, <1>12, <1>13, <1>15
<1> QED
  BY <1>9, <1>16 DEF new

\* A step that leaves the memory as it is leaves the sequence as it is.
LEMMA SameListed ==
    ASSUME pc # "ready", pc' # "ready", UNCHANGED <<links, options>>
    PROVE  Listed' = Listed
  BY DEF Listed

LEMMA HandleLineMaps ==
    ASSUME OptionInv, handle_line
    PROVE  C!handle_line
<1> DEFINE line == file[line_nr + 1]
<1>1. /\ pc = "parse" /\ file # NoFile /\ line_nr < Len(file)
      /\ line_nr' = line_nr + 1 /\ UNCHANGED <<file, reads, settings>>
  BY DEF handle_line
<1>2. \/ line.form = "blank" /\ UNCHANGED <<links, options, pc>>
      \/ line.form = "broken" /\ pc' = "dead" /\ UNCHANGED <<links, options>>
      \/ /\ line.form \notin {"blank", "broken"}
         /\ \E n \in Nodes \ Allocated : add_option(n, Parsed(line))
         /\ UNCHANGED pc
  BY DEF handle_line
<1>3. line_nr + 1 \in 1 .. Len(file)
  BY <1>1, FileLength DEF OptionInv
<1>4. line \in Lines
  BY <1>1, <1>3, LineTypes DEF OptionInv
<1> HIDE DEF line
<1>5. \/ line.form = "blank" /\ UNCHANGED <<Listed, pc>>
      \/ line.form = "broken" /\ pc' = "dead" /\ UNCHANGED Listed
      \/ /\ line.form \notin {"blank", "broken"}
         /\ Listed' = C!add_option(Listed, C!Parsed(line))
         /\ UNCHANGED pc
  <2>1. CASE line.form = "blank" /\ UNCHANGED <<links, options, pc>>
    <3>1. Listed' = Listed
      BY <1>1, <2>1, SameListed
    <3> QED
      BY <2>1, <3>1
  <2>2. CASE line.form = "broken" /\ pc' = "dead" /\ UNCHANGED <<links, options>>
    <3>1. Listed' = Listed
      BY <1>1, <2>2, SameListed
    <3> QED
      BY <2>2, <3>1
  <2>3. CASE /\ line.form \notin {"blank", "broken"}
             /\ \E n \in Nodes \ Allocated : add_option(n, Parsed(line))
             /\ UNCHANGED pc
    <3>1. line \in Assignments
      BY <1>4, <2>3 DEF Assignments
    <3>2. PICK n \in Nodes \ Allocated : add_option(n, Parsed(line))
      BY <2>3
    <3>3. Listed' = C!add_option(Listed, Parsed(line))
      BY <1>1, <2>3, <3>1, <3>2, AddMaps
    <3>4. C!Parsed(line) = Parsed(line)
      BY SameData
    <3> QED
      BY <2>3, <3>3, <3>4
  <2> QED
    BY <1>2, <2>1, <2>2, <2>3
<1> QED
  BY <1>1, <1>5 DEF C!handle_line, line

LEMMA GetOptionMaps ==
    ASSUME OptionInv, GetOption
    PROVE  C!GetOption
<1> DEFINE r   == Reads[reads + 1]
           i   == IndexOfName(r.name)
           n   == Listing[i]
           opt == AsFloat(options[n], r.type)
           L   == Listing
           D   == Listed
<1>1. /\ pc = "read" /\ reads < Len(Reads) /\ reads' = reads + 1
      /\ UNCHANGED <<file, line_nr, pc>>
  BY DEF GetOption
<1>2. \/ i = 0 /\ UNCHANGED <<options, settings>>
      \/ /\ i # 0
         /\ settings' = IF opt.type # r.type THEN settings
                        ELSE [settings EXCEPT ![r.name] = Corrected(r.name, opt.val, @)]
  BY DEF GetOption, Listing
<1>3. i = 0 \/ i \in 1 .. Len(L)
  BY <1>1, IndexFound DEF OptionInv
<1>4. /\ D = [k \in 1 .. Len(L) |-> options[L[k]]]
      /\ Len(L) \in Nat /\ Len(D) = Len(L) /\ D \in Seq(OptionValues)
  BY <1>1, ListedIs
<1>5. /\ L' = L
      /\ \A k \in 1 .. Len(L) :
            options'[L[k]] = IF k = i THEN AsFloat(options[L[k]], r.type) ELSE options[L[k]]
  BY GetOptionInv
<1>6. D' = [k \in DOMAIN L' |-> options'[L'[k]]]
  BY <1>1 DEF Listed, Listing
<1>7. DOMAIN L = 1 .. Len(L)
  <2>1. L \in Seq(Nodes)
    BY <1>1 DEF OptionInv, ListInv
  <2> HIDE DEF L
  <2> QED
    BY <2>1
<1>8. C!IndexOfName(Listed, r.name) = i
  BY <1>1, SameIndex
<1>9. i # 0 => D[i] = options[n]
  <2>1. n = L[i]
    OBVIOUS
  <2> HIDE DEF D, L, n, i
  <2> QED
    BY <1>3, <1>4, <2>1
<1>10. /\ C!Reads[reads + 1] = r
       /\ \A o, type : C!AsFloat(o, type) = AsFloat(o, type)
       /\ \A name, value, old : C!Corrected(name, value, old) = Corrected(name, value, old)
       /\ Len(C!Reads) = Len(Reads)
  BY SameData
<1> HIDE DEF r, i, n, L, D
<1>11. i = 0 => D' = D
  BY <1>3, <1>4, <1>5, <1>6, <1>7
<1>12. i # 0 => D' = [D EXCEPT ![i] = opt]
  <2> SUFFICES ASSUME i # 0 PROVE D' = [D EXCEPT ![i] = opt]
    OBVIOUS
  <2>1. \A k \in 1 .. Len(L) : options'[L[k]] = IF k = i THEN opt ELSE D[k]
    BY <1>3, <1>4, <1>5, <1>9
  <2> HIDE DEF opt
  <2>2. D' = [k \in 1 .. Len(L) |-> IF k = i THEN opt ELSE D[k]]
    BY <1>5, <1>6, <1>7, <2>1
  <2> QED
    BY <1>3, <1>4, <2>2
<1>13. i # 0 => C!AsFloat(D[i], r.type) = opt
  BY <1>9, <1>10
<1> HIDE DEF opt
<1> QED
  <2>1. CASE i = 0
    BY <1>1, <1>2, <1>8, <1>10, <1>11, <2>1 DEF C!GetOption, D
  <2>2. CASE i # 0
    BY <1>1, <1>2, <1>8, <1>10, <1>12, <1>13, <2>2 DEF C!GetOption, D
  <2> QED
    BY <2>1, <2>2

\* The options in memory behave like the sequence of Config, whatever memory
\* an assignment gets (sconf.c:58-73, 256-293).
THEOREM OptionListImplementsConfig == Spec => ConfigImplemented
<1>1. Init => C!Init
  <2> SUFFICES ASSUME Init PROVE C!Init
    OBVIOUS
  <2>1. OptionInv /\ pc # "ready"
    BY InitInv DEF Init
  <2>2. Allocated = {}
    BY DEF Init, Allocated
  <2>3. Listing = <<>>
    <3>1. ListInv
      BY <2>1 DEF OptionInv
    <3>2. Listing \in Seq(Nodes) /\ \A k \in 1 .. Len(Listing) : Listing[k] \in {}
      BY <2>2, <3>1, ListingTypes DEF ListInv
    <3> HIDE DEF Listing
    <3> QED
      BY <3>2
  <2>4. Listed = <<>>
    BY <2>1, <2>3, ListedIs
  <2> QED
    BY <2>4, SameData DEF Init, C!Init
<1>2. OptionInv /\ [ConfigNext]_vars => [C!Next]_(C!vars)
  <2> SUFFICES ASSUME OptionInv, [ConfigNext]_vars PROVE [C!Next]_(C!vars)
    OBVIOUS
  <2>1. CASE UNCHANGED vars
    BY <2>1 DEF vars, C!vars, Listed
  <2>2. CASE NoConfigFile
    <3>1. Listed' = Listed
      BY <2>2, SameListed DEF NoConfigFile
    <3> QED
      BY <2>2, <3>1 DEF NoConfigFile, C!NoConfigFile, C!Next
  <2>3. CASE handle_line
    BY <2>3, HandleLineMaps DEF C!Next
  <2>4. CASE EndOfFile
    <3>1. Listed' = Listed
      BY <2>4, SameListed DEF EndOfFile
    <3> QED
      BY <2>4, <3>1 DEF EndOfFile, C!EndOfFile, C!Next
  <2>5. CASE GetOption
    BY <2>5, GetOptionMaps DEF C!Next
  <2>6. CASE sconf_free
    <3>1. Listed' = <<>>
      BY <2>6 DEF sconf_free, Listed
    <3> QED
      BY <2>6, <3>1, SameData DEF sconf_free, C!sconf_free, C!Next
  <2> QED
    BY <2>1, <2>2, <2>3, <2>4, <2>5, <2>6 DEF ConfigNext
<1> QED
  BY <1>1, <1>2, OptionInvariant, PTL DEF Spec, C!Spec, ConfigImplemented

-----------------------------------------------------------------------------
(* What the settings can be *)

\* What strtod reads from the file is always a number.
NumbersOnly == \A l \in Lines : l.form = "number" => l.value # NaN

\* What a float of the file can be.
Floats == IF NumbersOnly THEN Int ELSE Int \cup {NaN}

\* Settings the rest of the program can work with, up to an opacity of nan.
Sane(v) ==
    /\ v = [name \in Names |-> v[name]]
    /\ {v["cols"], v["rows"]} \subseteq {-1} \cup 1 .. MaxInt
    /\ v["opacity"] \in 0 .. 2 \/ v["opacity"] \in Floats \ Int
    /\ v["layer"] \in {"below", "normal", "above"}

LEMMA NamesAre ==
    /\ {"cols", "rows", "opacity", "layer"} \subseteq Names
    /\ \A k \in 1 .. Len(Reads) : /\ Reads[k].name \in Names
                                  /\ Reads[k].name \in {"cols", "rows"} => Reads[k].type = "int"
                                  /\ Reads[k].name = "opacity" => Reads[k].type = "flt"
<1>1. DOMAIN Reads = 1 .. 22 /\ Len(Reads) = 22
  BY DEF Reads
<1>2. /\ Reads[1].name = "cols" /\ Reads[2].name = "rows"
      /\ Reads[3].name = "opacity" /\ Reads[12].name = "layer"
  BY DEF Reads
<1>3. {"cols", "rows", "opacity", "layer"} \subseteq Names
  BY <1>1, <1>2 DEF Names
<1>4. \A k \in 1 .. 22 : /\ Reads[k].name \in {"cols", "rows"} => Reads[k].type = "int"
                         /\ Reads[k].name = "opacity" => Reads[k].type = "flt"
  BY DEF Reads
<1> QED
  BY <1>1, <1>3, <1>4 DEF Names

\* What find_opt returns for an int is an int, for a float a number.
LEMMA NumbersAre ==
    ASSUME NEW opt \in OptionValues, NEW type \in {"int", "flt"}, AsFloat(opt, type).type = type
    PROVE  /\ type = "int" => AsFloat(opt, type).val \in -MaxInt - 1 .. MaxInt
           /\ type = "flt" => AsFloat(opt, type).val \in Floats
<1> DEFINE a == AsFloat(opt, type)
<1>1. PICK line \in Assignments : opt \in {Parsed(line), AsFloat(Parsed(line), "flt")}
  BY DEF OptionValues
<1> DEFINE p == Parsed(line)
<1>2. /\ line.form \in {"number", "string", "bool"}
      /\ line.form = "number" => line.value \in Floats
  BY ConfigAssumption DEF Assignments, Floats, NumbersOnly
<1>3. \/ p = [name |-> line.name, type |-> "int", val |-> p.val] /\ p.val \in -MaxInt - 1 .. MaxInt
      \/ p = [name |-> line.name, type |-> "flt", val |-> p.val] /\ p.val \in Floats
      \/ p.type \in {"str", "bool"}
  <2>1. CASE line.form = "number"
    <3> DEFINE v == line.value
               q == line.value \div 2
    <3>1. v \in Floats
      BY <1>2, <2>1
    <3>2. \/ p = [name |-> line.name, type |-> "int", val |-> q] /\ q \in -MaxInt - 1 .. MaxInt
          \/ p = [name |-> line.name, type |-> "flt", val |-> v]
      BY <2>1 DEF Parsed
    <3> HIDE DEF q, v
    <3> QED
      <4>1. CASE p = [name |-> line.name, type |-> "int", val |-> q] /\ q \in -MaxInt - 1 .. MaxInt
        <5> HIDE DEF p
        <5> QED
          BY <4>1
      <4>2. CASE p = [name |-> line.name, type |-> "flt", val |-> v]
        <5> HIDE DEF p
        <5> QED
          BY <3>1, <4>2
      <4> QED
        BY <3>2, <4>1, <4>2
  <2>2. CASE line.form = "string"
    BY <2>2 DEF Parsed
  <2>3. CASE line.form = "bool"
    BY <2>3 DEF Parsed
  <2> QED
    BY <1>2, <2>1, <2>2, <2>3
<1> HIDE DEF p
<1>4. \/ opt.type = "int" /\ opt.val \in -MaxInt - 1 .. MaxInt
         /\ opt = [name |-> opt.name, type |-> "int", val |-> opt.val]
      \/ opt.type = "flt" /\ opt.val \in Floats
      \/ opt.type \in {"str", "bool"}
  <2>1. opt \in {p, AsFloat(p, "flt")}
    BY <1>1 DEF p
  <2>2. CASE p = [name |-> line.name, type |-> "int", val |-> p.val] /\ p.val \in -MaxInt - 1 .. MaxInt
    <3>1. AsFloat(p, "flt") = [name |-> line.name, type |-> "flt", val |-> 2 * p.val]
      <4>1. PICK v : p = [name |-> line.name, type |-> "int", val |-> v]
        BY <2>2
      <4>2. p.val = v
        BY <4>1
      <4> QED
        BY <4>1, <4>2 DEF AsFloat
    <3>2. 2 * p.val \in Floats /\ p.type = "int"
      <4>1. 2 * p.val \in Int
        BY <2>2, ConfigAssumption
      <4>2. p.type = "int"
        BY <2>2
      <4> QED
        BY <4>1, <4>2 DEF Floats
    <3> QED
      BY <2>1, <2>2, <3>1, <3>2
  <2>3. CASE p = [name |-> line.name, type |-> "flt", val |-> p.val] /\ p.val \in Floats
    <3>1. AsFloat(p, "flt") = p /\ p.type = "flt"
      BY <2>3 DEF AsFloat
    <3> QED
      BY <2>1, <2>3, <3>1
  <2>4. CASE p.type \in {"str", "bool"}
    <3>1. AsFloat(p, "flt") = p
      BY <2>4 DEF AsFloat
    <3> QED
      BY <2>1, <2>4, <3>1
  <2> QED
    BY <1>3, <2>2, <2>3, <2>4
<1>5. CASE type = "int"
  <2>1. a = opt
    BY <1>5 DEF AsFloat
  <2> QED
    BY <1>4, <1>5, <2>1
<1>6. CASE type = "flt"
  <2>1. CASE opt.type = "int"
    <3>1. a = [name |-> opt.name, type |-> "flt", val |-> 2 * opt.val]
      BY <1>4, <1>6, <2>1 DEF AsFloat
    <3>2. 2 * opt.val \in Floats
      <4>1. 2 * opt.val \in Int
        BY <1>4, <2>1, ConfigAssumption
      <4> QED
        BY <4>1 DEF Floats
    <3> QED
      BY <1>6, <3>1, <3>2
  <2>2. CASE opt.type # "int"
    <3>1. a = opt
      BY <2>2 DEF AsFloat
    <3> QED
      BY <1>4, <1>6, <3>1
  <2> QED
    BY <2>1, <2>2
<1> QED
  BY <1>5, <1>6

LEMMA DefaultsSane == Sane(Defaults)
<1> DEFINE d(name) == CASE name \in {"cols", "rows"} -> -1
                        [] name = "opacity" -> 2
                        [] name = "layer" -> "normal"
                        [] OTHER -> IF TypeOf(name) = "bool" THEN TRUE ELSE "unset"
<1>1. Defaults = [name \in Names |-> d(name)]
  BY DEF Defaults
<1>2. d("cols") = -1 /\ d("rows") = -1 /\ d("opacity") = 2 /\ d("layer") = "normal"
  OBVIOUS
<1> HIDE DEF d
<1>3. /\ Defaults["cols"] = -1 /\ Defaults["rows"] = -1
      /\ Defaults["opacity"] = 2 /\ Defaults["layer"] = "normal"
  BY <1>1, <1>2, NamesAre
<1>4. Defaults = [name \in Names |-> Defaults[name]]
  BY <1>1
<1> QED
  BY <1>3, <1>4 DEF Sane

\* A question leaves sane settings sane, whatever it finds.
LEMMA GetOptionSane ==
    ASSUME OptionInv, Sane(settings), GetOption
    PROVE  Sane(settings')
<1> DEFINE r   == Reads[reads + 1]
           i   == IndexOfName(r.name)
           n   == Listing[i]
           a   == AsFloat(options[n], r.type)
           new == Corrected(r.name, a.val, settings[r.name])
<1>1. ListInv /\ pc = "read"
  BY DEF OptionInv, GetOption
<1>2. reads + 1 \in 1 .. Len(Reads)
  <2>1. reads \in Nat /\ reads < 22
    BY DEF OptionInv, GetOption, Reads
  <2>2. Len(Reads) = 22
    BY DEF Reads
  <2> QED
    BY <2>1, <2>2
<1>3. /\ r.name \in Names
      /\ r.name \in {"cols", "rows"} => r.type = "int"
      /\ r.name = "opacity" => r.type = "flt"
  BY <1>2, NamesAre
<1>4. \/ settings' = settings
      \/ i # 0 /\ a.type = r.type /\ settings' = [settings EXCEPT ![r.name] = new]
  BY DEF GetOption, Listing
<1>5. i = 0 \/ i \in 1 .. Len(Listing)
  BY <1>1, IndexFound
<1>6. i # 0 => options[n] \in OptionValues
  BY <1>1, <1>5, ListingTypes
<1>7. CASE settings' = settings
  BY <1>7
<1>8. CASE i # 0 /\ a.type = r.type /\ settings' = [settings EXCEPT ![r.name] = new]
  <2>1. /\ r.type = "int" => a.val \in -MaxInt - 1 .. MaxInt
        /\ r.type = "flt" => a.val \in Floats
    BY <1>6, <1>8, NumbersAre
  <2>2. \A name \in Names : settings'[name] = IF name = r.name THEN new ELSE settings[name]
    <3> HIDE DEF new, r
    <3> QED
      BY <1>8 DEF Sane
  <2>3. settings' = [name \in Names |-> settings'[name]]
    <3> HIDE DEF new, r
    <3> QED
      BY <1>8 DEF Sane
  <2> HIDE DEF a, n, i, r
  <2>4. r.name \in {"cols", "rows"} => new \in {-1} \cup 1 .. MaxInt
    <3> SUFFICES ASSUME r.name \in {"cols", "rows"} PROVE new \in {-1} \cup 1 .. MaxInt
      OBVIOUS
    <3>1. a.val \in -MaxInt - 1 .. MaxInt /\ r.name # "opacity" /\ r.name # "layer"
      BY <1>3, <2>1
    <3>2. CASE a.val < 1 /\ a.val # -1
      <4>1. new = 1
        BY <3>2 DEF Corrected
      <4> QED
        BY <4>1, ConfigAssumption
    <3>3. CASE ~ (a.val < 1 /\ a.val # -1)
      <4>1. new = a.val
        BY <3>1, <3>3 DEF Corrected
      <4> HIDE DEF new
      <4> QED
        BY <3>1, <3>3, <4>1, ConfigAssumption
    <3> QED
      BY <3>2, <3>3
  <2>5. r.name = "opacity" => new \in 0 .. 2 \/ new \in Floats \ Int
    <3> SUFFICES ASSUME r.name = "opacity" PROVE new \in 0 .. 2 \/ new \in Floats \ Int
      OBVIOUS
    <3>1. a.val \in Floats
      BY <1>3, <2>1
    <3>2. CASE a.val # NaN /\ (a.val < 0 \/ a.val > 2)
      <4>1. new = 2
        BY <3>2 DEF Corrected
      <4> HIDE DEF new
      <4> QED
        BY <4>1
    <3>3. CASE ~ (a.val # NaN /\ (a.val < 0 \/ a.val > 2))
      <4>1. new = a.val
        BY <3>3 DEF Corrected
      <4> HIDE DEF new
      <4>2. CASE a.val \in Int
        BY <3>3, <4>1, <4>2, ConfigAssumption
      <4>3. CASE a.val \notin Int
        BY <3>1, <4>1, <4>3
      <4> QED
        BY <4>2, <4>3
    <3> QED
      BY <3>2, <3>3
  <2>6. r.name = "layer" => new \in {"below", "normal", "above"}
    <3> SUFFICES ASSUME r.name = "layer" PROVE new \in {"below", "normal", "above"}
      OBVIOUS
    <3>1. CASE a.val \notin {"below", "normal", "above"}
      <4>1. new = settings["layer"]
        BY <3>1 DEF Corrected
      <4> HIDE DEF new
      <4> QED
        BY <4>1 DEF Sane
    <3>2. CASE a.val \in {"below", "normal", "above"}
      <4>1. new = a.val
        BY <3>2 DEF Corrected
      <4> HIDE DEF new
      <4> QED
        BY <3>2, <4>1
    <3> QED
      BY <3>1, <3>2
  <2> HIDE DEF new
  <2>7. {settings'["cols"], settings'["rows"]} \subseteq {-1} \cup 1 .. MaxInt
    BY <2>2, <2>4, NamesAre DEF Sane
  <2>8. settings'["opacity"] \in 0 .. 2 \/ settings'["opacity"] \in Floats \ Int
    BY <2>2, <2>5, NamesAre DEF Sane
  <2>9. settings'["layer"] \in {"below", "normal", "above"}
    BY <2>2, <2>6, NamesAre DEF Sane
  <2> QED
    BY <2>3, <2>7, <2>8, <2>9 DEF Sane
<1> QED
  BY <1>4, <1>7, <1>8

LEMMA SaneInvariant == Spec => []Sane(settings)
<1> DEFINE I == Sane(settings)
<1>1. Init => I
  BY DefaultsSane DEF Init
<1>2. OptionInv /\ I /\ [ConfigNext]_vars => I'
  <2> SUFFICES ASSUME OptionInv, Sane(settings), [ConfigNext]_vars PROVE Sane(settings')
    OBVIOUS
  <2>1. CASE GetOption
    BY <2>1, GetOptionSane
  <2>2. CASE ~ GetOption
    <3>1. settings' = settings
      BY <2>2 DEF ConfigNext, vars, NoConfigFile, handle_line, EndOfFile, sconf_free
    <3> QED
      BY <3>1
  <2> QED
    BY <2>1, <2>2
<1> HIDE DEF I
<1>3. Spec => []I
  BY <1>1, <1>2, OptionInvariant, PTL DEF Spec
<1> QED
  BY <1>3 DEF I

\* Whatever the file says and however long it is, the program starts with a grid
\* and a layer it can work with (main.c:211-218, 232-241).
THEOREM SettingsStaySane == Spec => []SettingsSane
<1>1. Sane(settings) => SettingsSane
  BY DEF Sane, SettingsSane, C!SettingsSane
<1> QED
  BY <1>1, SaneInvariant, PTL

\* A nan is all that passes the correction of the opacity: from a file of numbers
\* the opacity is in its range (main.c:219-222).
THEOREM OpacityOfNumbers == NumbersOnly => (Spec => []OpacityInRange)
<1> SUFFICES ASSUME NumbersOnly PROVE Spec => []OpacityInRange
  OBVIOUS
<1>1. Sane(settings) => OpacityInRange
  BY DEF Sane, Floats, OpacityInRange, C!OpacityInRange
<1> QED
  BY <1>1, SaneInvariant, PTL

-----------------------------------------------------------------------------
(* The settings follow the file *)

IsAssignment(k, name) == file[k].form \notin {"blank", "broken"} /\ file[k].name = name

\* Of the first n lines, line j is the last that assigns to the name.
LastAssignment(n, name, j) ==
    /\ j \in 1 .. n /\ IsAssignment(j, name)
    /\ \A k \in 1 .. n : IsAssignment(k, name) => k <= j

Asked(name) == \E k \in 1 .. reads : Reads[k].name = name

LEMMA ReadsDistinct ==
    /\ \A j, k \in 1 .. Len(Reads) : Reads[j].name = Reads[k].name => j = k
    /\ \A k \in 1 .. Len(Reads) : Reads[k].name \in Names /\ TypeOf(Reads[k].name) = Reads[k].type
<1>1. Len(Reads) = 22 /\ DOMAIN Reads = 1 .. 22
  BY DEF Reads
<1>2. \A j, k \in 1 .. 22 : Reads[j].name = Reads[k].name => j = k
  BY DEF Reads
<1>3. ASSUME NEW k \in 1 .. 22
      PROVE  TypeOf(Reads[k].name) = Reads[k].type
  <2> DEFINE S == ToSet(Reads)
             r == CHOOSE q \in S : q.name = Reads[k].name
  <2>1. S = {Reads[j] : j \in 1 .. 22}
    BY <1>1 DEF ToSet
  <2>2. r \in S /\ r.name = Reads[k].name
    <3>1. Reads[k] \in S
      BY <2>1
    <3> HIDE DEF S
    <3> QED
      BY <3>1
  <2>3. TypeOf(Reads[k].name) = r.type
    BY DEF TypeOf
  <2> HIDE DEF S, r
  <2>4. PICK j \in 1 .. 22 : r = Reads[j]
    BY <2>1, <2>2
  <2>5. j = k
    BY <1>2, <2>2, <2>4
  <2> QED
    BY <2>3, <2>4, <2>5
<1> QED
  BY <1>1, <1>2, <1>3, NamesAre

\* What find_opt makes of an option is what its line says, if the types agree.
LEMMA FoundIsUnderstood ==
    ASSUME NEW line \in Assignments, NEW type \in {"int", "flt", "str", "bool"}
    PROVE  LET a == AsFloat(Parsed(line), type)
           IN  /\ a.type = type <=> C!Understood(line, type)
               /\ a.type = type =>
                    a.val = CASE type = "int"  -> line.value \div 2
                              [] type = "flt"  -> line.value
                              [] type = "str"  -> line.text
                              [] type = "bool" -> line.on
<1> DEFINE p == Parsed(line)
           a == AsFloat(p, type)
<1>1. line.form \in {"number", "string", "bool"} /\ (line.form = "number" => line.value \in Int \cup {NaN})
  BY ConfigAssumption DEF Assignments
<1>2. C!Parsed(line) = p
  BY SameData
<1>3. CASE line.form = "string"
  <2>1. p = [name |-> line.name, type |-> "str", val |-> line.text]
    BY <1>3 DEF Parsed
  <2>2. a = p
    <3> HIDE DEF p
    <3> QED
      BY <2>1 DEF AsFloat
  <2>3. C!Understood(line, type) <=> type = "str"
    BY <1>3 DEF C!Understood
  <2> HIDE DEF p, a
  <2> QED
    BY <2>1, <2>2, <2>3 DEF a, p
<1>4. CASE line.form = "bool"
  <2>1. p = [name |-> line.name, type |-> "bool", val |-> line.on]
    BY <1>4 DEF Parsed
  <2>2. a = p
    <3> HIDE DEF p
    <3> QED
      BY <2>1 DEF AsFloat
  <2>3. C!Understood(line, type) <=> type = "bool"
    BY <1>4 DEF C!Understood
  <2> HIDE DEF p, a
  <2> QED
    BY <2>1, <2>2, <2>3 DEF a, p
<1>5. CASE line.form = "number"
  <2> DEFINE v == line.value
             q == line.value \div 2
  <2>1. \/ p = [name |-> line.name, type |-> "int", val |-> q] /\ v # NaN /\ v % 2 = 0
        \/ p = [name |-> line.name, type |-> "flt", val |-> v]
    BY <1>5 DEF Parsed
  <2>2. C!Understood(line, type) <=> type = "flt" \/ (type = "int" /\ p.type = "int")
    BY <1>2, <1>5 DEF C!Understood
  <2>3. CASE p = [name |-> line.name, type |-> "int", val |-> q] /\ v # NaN /\ v % 2 = 0
    <3>1. v \in Int /\ 2 * q = v
      BY <1>1, <1>5, <2>3
    <3> HIDE DEF p, q, v
    <3>2. a = IF type = "flt" THEN [name |-> line.name, type |-> "flt", val |-> 2 * q] ELSE p
      <4>1. p.type = "int" /\ p.val = q
        BY <2>3
      <4>2. CASE type = "flt"
        <5>1. PICK x : p = [name |-> line.name, type |-> "int", val |-> x]
          BY <2>3
        <5>2. AsFloat(p, "flt") = [name |-> line.name, type |-> "flt", val |-> 2 * x] /\ p.val = x
          BY <5>1 DEF AsFloat
        <5> QED
          BY <4>1, <4>2, <5>2
      <4>3. CASE type # "flt"
        BY <4>3 DEF AsFloat
      <4> QED
        BY <4>2, <4>3
    <3> HIDE DEF a
    <3> QED
      BY <2>2, <2>3, <3>1, <3>2 DEF a, p, q, v
  <2>4. CASE p = [name |-> line.name, type |-> "flt", val |-> v]
    <3> HIDE DEF p, q, v
    <3>1. a = p
      BY <2>4 DEF AsFloat
    <3> HIDE DEF a
    <3> QED
      BY <2>2, <2>4, <3>1 DEF a, p, v
  <2> QED
    BY <2>1, <2>3, <2>4
<1> QED
  BY <1>1, <1>3, <1>4, <1>5

\* What a name means is what its last assignment says, if the types agree.
LEMMA NothingMeant ==
    ASSUME NEW name, file \in Files, file # NoFile,
           \A k \in 1 .. Len(file) : ~ IsAssignment(k, name)
    PROVE  C!Meant(name) = Defaults[name]
<1>1. C!Assignment(name) = 0
  BY DEF C!Assignment, C!SelectLastInSeq, IsAssignment
<1>2. C!Defaults = Defaults
  BY SameData
<1> QED
  BY <1>1, <1>2 DEF C!Meant

LEMMA AssignmentMeant ==
    ASSUME file \in Files, file # NoFile, NEW k \in 1 .. Len(Reads), NEW j,
           LastAssignment(Len(file), Reads[k].name, j)
    PROVE  LET r == Reads[k]
               a == AsFloat(Parsed(file[j]), r.type)
           IN  C!Meant(r.name) = IF a.type = r.type THEN Corrected(r.name, a.val, Defaults[r.name])
                                 ELSE Defaults[r.name]
<1> DEFINE r    == Reads[k]
           line == file[j]
           a    == AsFloat(Parsed(line), r.type)
           I    == {m \in 1 .. Len(file) : IsAssignment(m, r.name)}
<1>1. Len(file) \in Nat
  BY FileLength
<1>2. j \in I /\ (\A m \in I : m <= j) /\ I \subseteq Nat
  BY <1>1 DEF LastAssignment
<1>3. C!Assignment(r.name) = IF I # {} THEN C!Max(I) ELSE 0
  BY DEF C!Assignment, C!SelectLastInSeq, IsAssignment
<1> HIDE DEF I
<1>4. C!Max(I) = j
  <2> DEFINE Largest(x) == x \in I /\ \A y \in I : x >= y
  <2>1. Largest(j)
    BY <1>2
  <2>2. \A x : Largest(x) => x = j
    BY <1>2
  <2>3. C!Max(I) = CHOOSE x \in I : \A y \in I : x >= y
    BY DEF C!Max
  <2> QED
    BY <2>1, <2>2, <2>3
<1>5. C!Assignment(r.name) = j /\ j # 0
  BY <1>2, <1>3, <1>4 DEF LastAssignment
<1>6. line \in Assignments
  BY LineTypes DEF LastAssignment, IsAssignment, Assignments
<1>7. r.type \in {"int", "flt", "str", "bool"}
  <2>1. k \in 1 .. 22
    BY DEF Reads
  <2> QED
    BY <2>1 DEF Reads
<1>8. C!TypeOf(r.name) = r.type
  <2>1. C!TypeOf(r.name) = TypeOf(r.name)
    BY SameData DEF C!TypeOf, TypeOf, C!ToSet, ToSet
  <2> QED
    BY <2>1, ReadsDistinct
<1>9. /\ a.type = r.type <=> C!Understood(line, r.type)
      /\ a.type = r.type =>
           a.val = CASE r.type = "int"  -> line.value \div 2
                     [] r.type = "flt"  -> line.value
                     [] r.type = "str"  -> line.text
                     [] r.type = "bool" -> line.on
  BY <1>6, <1>7, FoundIsUnderstood
<1>10. /\ C!Defaults = Defaults
       /\ \A name, value, old : C!Corrected(name, value, old) = Corrected(name, value, old)
  BY SameData
<1> HIDE DEF r, a
<1> DEFINE val == CASE r.type = "int"  -> line.value \div 2
                    [] r.type = "flt"  -> line.value
                    [] r.type = "str"  -> line.text
                    [] r.type = "bool" -> line.on
<1>11. C!Meant(r.name) = IF ~ C!Understood(line, r.type) THEN C!Defaults[r.name]
                         ELSE C!Corrected(r.name, val, C!Defaults[r.name])
  <2>1. file[C!Assignment(r.name)] = line
    BY <1>5
  <2>2. CASE ~ C!Understood(line, r.type)
    BY <1>5, <1>8, <2>1, <2>2 DEF C!Meant
  <2>3. CASE C!Understood(line, r.type)
    <3> HIDE DEF line
    <3>1. CASE r.type = "int"
      BY <1>5, <1>8, <2>1, <2>3, <3>1 DEF C!Meant
    <3>2. CASE r.type = "flt"
      BY <1>5, <1>8, <2>1, <2>3, <3>2 DEF C!Meant
    <3>3. CASE r.type = "str"
      BY <1>5, <1>8, <2>1, <2>3, <3>3 DEF C!Meant
    <3>4. CASE r.type = "bool"
      BY <1>5, <1>8, <2>1, <2>3, <3>4 DEF C!Meant
    <3> QED
      BY <1>7, <3>1, <3>2, <3>3, <3>4 DEF r
  <2> QED
    BY <2>2, <2>3
<1>12. C!Meant(r.name) = IF a.type = r.type THEN Corrected(r.name, a.val, Defaults[r.name])
                         ELSE Defaults[r.name]
  <2>1. a.type = r.type => a.val = val
    BY <1>9
  <2> HIDE DEF val
  <2> QED
    BY <1>9, <1>10, <1>11, <2>1
<1> QED
  BY <1>12 DEF r, a

\* An option that was not asked for yet is as the last assignment to it made it.
Latest ==
    \A k \in 1 .. Len(Listing) : ~ Asked(options[Listing[k]].name) =>
        \E j : /\ LastAssignment(line_nr, options[Listing[k]].name, j)
               /\ options[Listing[k]] = Parsed(file[j])

\* Every name that was assigned to has an option.
Covered ==
    \A j \in 1 .. line_nr : file[j].form \notin {"blank", "broken"} =>
        \E k \in 1 .. Len(Listing) : options[Listing[k]].name = file[j].name

\* A setting is what the file means by its name as soon as it was asked for.
Answered ==
    /\ settings = [name \in Names |-> settings[name]]
    /\ \A name \in Names :
          settings[name] = IF Asked(name) THEN C!Meant(name) ELSE Defaults[name]

FollowInv ==
    /\ pc \in {"parse", "read"} => Latest /\ Covered
    /\ pc = "parse" => reads = 0
    /\ pc \in {"read", "ready"} => file # NoFile /\ line_nr = Len(file)
    /\ pc = "ready" => reads = Len(Reads)
    /\ Answered

LEMMA FollowInit == Init => FollowInv
<1> SUFFICES ASSUME Init PROVE FollowInv
  OBVIOUS
<1>1. Listing = <<>>
  <2>1. Allocated = {} /\ ListInv
    BY InitInv DEF Init, OptionInv, Allocated
  <2>2. Listing \in Seq(Nodes) /\ \A k \in 1 .. Len(Listing) : Listing[k] \in {}
    BY <2>1, ListingTypes DEF ListInv
  <2> HIDE DEF Listing
  <2> QED
    BY <2>2
<1>2. \A name : ~ Asked(name)
  BY DEF Asked, Init
<1>3. settings = [name \in Names |-> settings[name]]
  BY DEF Init, Defaults
<1>4. Latest
  BY <1>1 DEF Latest
<1> QED
  BY <1>2, <1>3, <1>4 DEF Init, FollowInv, Covered, Answered

LEMMA SameMeaning ==
    ASSUME file' = file, NEW name
    PROVE  C!Meant(name)' = C!Meant(name)
<1>1. C!Assignment(name)' = C!Assignment(name)
  BY DEF C!Assignment, C!SelectLastInSeq
<1> QED
  BY <1>1 DEF C!Meant

\* Answers stay while nothing is asked.
LEMMA SameAnswers ==
    ASSUME Answered, UNCHANGED <<file, reads, settings>>
    PROVE  Answered'
<1>1. \A name \in Names : C!Meant(name)' = C!Meant(name) /\ (Asked(name)' <=> Asked(name))
  BY SameMeaning DEF Asked
<1>2. Defaults' = Defaults
  BY DEF Defaults
<1> QED
  BY <1>1, <1>2 DEF Answered

\* A new assignment becomes the last one to its name, and of no other name.
LEMMA FollowAssignment ==
    ASSUME OptionInv, pc = "parse", file # NoFile, line_nr + 1 \in 1 .. Len(file), reads = 0,
           file' = file, line_nr' = line_nr + 1, reads' = reads,
           Latest, Covered, NEW n \in Nodes \ Allocated,
           file[line_nr + 1].form \notin {"blank", "broken"},
           add_option(n, Parsed(file[line_nr + 1]))
    PROVE  Latest' /\ Covered'
<1> DEFINE line == file[line_nr + 1]
           new  == Parsed(line)
           K    == Kept(new.name)
<1>1. line \in Assignments
  BY LineTypes DEF OptionInv, Assignments
<1>2. ListInv /\ line_nr \in Nat
  BY DEF OptionInv
<1>3. new.name = line.name
  BY <1>1, ParsedTypes
<1>4. /\ ListInv' /\ Listing' = Append(K, n) /\ options'[n] = new
      /\ \A x \in Nodes : (\E k \in 1 .. Len(K) : x = K[k]) => options'[x] = options[x]
  BY <1>1, <1>2, AddOption
<1>5. /\ K \in Seq(Nodes)
      /\ \A k \in 1 .. Len(K) : K[k] \in Allocated /\ options[K[k]].name # new.name
      /\ \A x \in Allocated : \/ \E k \in 1 .. Len(K) : x = K[k]
                              \/ /\ IndexOfName(new.name) # 0
                                 /\ x = Listing[IndexOfName(new.name)]
  BY <1>2, KeptOptions
<1>6. /\ Len(Listing') = Len(K) + 1 /\ Len(K) \in Nat
      /\ \A k \in 1 .. Len(K) : Listing'[k] = K[k]
      /\ Listing'[Len(K) + 1] = n
  <2> HIDE DEF K
  <2> QED
    BY <1>4, <1>5
<1>7. Allocated = {Listing[k] : k \in 1 .. Len(Listing)} /\ \A k \in 1 .. Len(K) : K[k] \in Nodes
  BY <1>2, <1>5 DEF ListInv
<1>8. IndexOfName(new.name) # 0 => options[Listing[IndexOfName(new.name)]].name = new.name
  BY <1>2, IndexFound
<1>9. \A name : ~ Asked(name) /\ ~ Asked(name)'
  BY DEF Asked
<1> HIDE DEF K, new
<1>10. Latest'
  <2> SUFFICES ASSUME NEW k \in 1 .. Len(Listing')
               PROVE  \E j : /\ LastAssignment(line_nr, options[Listing[k]].name, j)'
                             /\ options'[Listing'[k]] = Parsed(file[j])
    BY <1>9 DEF Latest
  <2>1. CASE k = Len(K) + 1
    <3>1. options'[Listing'[k]] = new
      BY <1>4, <1>6, <2>1
    <3>2. PICK j : j = line_nr + 1
      OBVIOUS
    <3>3. LastAssignment(line_nr, options[Listing[k]].name, j)'
      BY <1>2, <1>3, <3>1, <3>2 DEF LastAssignment, IsAssignment
    <3> QED
      BY <3>1, <3>2, <3>3 DEF new
  <2>2. CASE k \in 1 .. Len(K)
    <3>1. PICK i \in 1 .. Len(Listing) : K[k] = Listing[i]
      BY <1>5, <1>7, <2>2
    <3> DEFINE name == options[Listing[i]].name
    <3>2. options'[Listing'[k]] = options[Listing[i]] /\ name # line.name
      BY <1>3, <1>4, <1>5, <1>6, <1>7, <2>2, <3>1
    <3>3. PICK j : LastAssignment(line_nr, name, j) /\ options[Listing[i]] = Parsed(file[j])
      BY <1>9 DEF Latest
    <3>4. LastAssignment(line_nr + 1, name, j)
      <4> HIDE DEF name
      <4>1. \A m \in 1 .. line_nr + 1 : m \in 1 .. line_nr \/ m = line_nr + 1
        BY <1>2
      <4> QED
        BY <1>2, <3>2, <3>3, <4>1 DEF LastAssignment, IsAssignment
    <3> QED
      BY <3>2, <3>3, <3>4 DEF LastAssignment, IsAssignment
  <2> QED
    BY <1>6, <2>1, <2>2
<1>11. Covered'
  <2> SUFFICES ASSUME NEW j \in 1 .. line_nr + 1, file[j].form \notin {"blank", "broken"}
               PROVE  \E k \in 1 .. Len(Listing') : options'[Listing'[k]].name = file[j].name
    BY DEF Covered
  <2>1. CASE file[j].name = new.name
    BY <1>4, <1>6, <2>1
  <2>2. CASE file[j].name # new.name
    <3>1. j \in 1 .. line_nr
      BY <1>2, <1>3, <2>2
    <3>2. PICK i \in 1 .. Len(Listing) : options[Listing[i]].name = file[j].name
      BY <3>1 DEF Covered
    <3>3. PICK k \in 1 .. Len(K) : Listing[i] = K[k]
      BY <1>5, <1>7, <1>8, <2>2, <3>2
    <3>4. options'[K[k]] = options[K[k]]
      BY <1>4, <1>7
    <3>5. k \in 1 .. Len(Listing') /\ Listing'[k] = K[k]
      BY <1>6
    <3> QED
      BY <3>2, <3>3, <3>4, <3>5
  <2> QED
    BY <2>1, <2>2
<1> QED
  BY <1>10, <1>11

LEMMA FollowLine ==
    ASSUME OptionInv, FollowInv, handle_line
    PROVE  FollowInv'
<1> DEFINE line == file[line_nr + 1]
<1>1. /\ file # NoFile /\ line_nr \in Nat /\ line_nr + 1 \in 1 .. Len(file) /\ pc = "parse"
      /\ UNCHANGED <<file, reads, settings>> /\ line_nr' = line_nr + 1 /\ reads = 0
      /\ Latest /\ Covered /\ Answered
  BY FileLength DEF handle_line, OptionInv, FollowInv
<1>2. Answered'
  BY <1>1, SameAnswers
<1>3. CASE pc' = "dead"
  BY <1>2, <1>3 DEF FollowInv
<1>4. CASE line.form = "blank" /\ UNCHANGED <<links, options, pc>>
  <2>1. Listing' = Listing
    BY <1>4 DEF Listing
  <2>2. ASSUME NEW name, NEW j, LastAssignment(line_nr, name, j)
        PROVE  LastAssignment(line_nr, name, j)'
    BY <1>1, <1>4, <2>2 DEF LastAssignment, IsAssignment
  <2>3. Latest'
    BY <1>1, <1>4, <2>1, <2>2 DEF Latest, Asked
  <2>4. Covered'
    BY <1>1, <1>4, <2>1 DEF Covered
  <2> QED
    BY <1>1, <1>2, <1>4, <2>3, <2>4 DEF FollowInv
<1>5. CASE /\ line.form \notin {"blank", "broken"} /\ pc' = pc
           /\ \E n \in Nodes \ Allocated : add_option(n, Parsed(line))
  <2>1. Latest' /\ Covered'
    BY <1>1, <1>5, FollowAssignment
  <2> QED
    BY <1>1, <1>2, <1>5, <2>1 DEF FollowInv
<1> QED
  BY <1>3, <1>4, <1>5 DEF handle_line

\* The answer to a question is what the file means by the name.
LEMMA FollowAnswer ==
    ASSUME OptionInv, FollowInv, GetOption
    PROVE  Answered'
<1> DEFINE r   == Reads[reads + 1]
           i   == IndexOfName(r.name)
           a   == AsFloat(options[Listing[i]], r.type)
           new == Corrected(r.name, a.val, settings[r.name])
<1>1. /\ ListInv /\ file \in Files /\ file # NoFile /\ line_nr = Len(file) /\ reads \in Nat
      /\ Latest /\ Covered /\ Answered /\ file' = file /\ reads' = reads + 1
  BY DEF OptionInv, FollowInv, GetOption
<1>2. reads + 1 \in 1 .. Len(Reads)
  <2>1. reads < 22
    BY DEF GetOption, Reads
  <2>2. Len(Reads) = 22
    BY DEF Reads
  <2> QED
    BY <1>1, <2>1, <2>2
<1>3. r.name \in Names /\ ~ Asked(r.name)
  <2>1. \A k \in 1 .. reads : k \in 1 .. Len(Reads) /\ k # reads + 1
    BY <1>1, <1>2
  <2> QED
    BY <1>2, <2>1, ReadsDistinct DEF Asked
<1>4. \A name : Asked(name)' <=> Asked(name) \/ name = r.name
  <2>1. \A k \in Int : k \in 1 .. reads + 1 <=> k \in 1 .. reads \/ k = reads + 1
    BY <1>1
  <2>2. Reads' = Reads
    BY DEF Reads
  <2> HIDE DEF r
  <2> QED
    BY <1>1, <2>1, <2>2 DEF Asked, r
<1>5. settings[r.name] = Defaults[r.name] /\ settings = [name \in Names |-> settings[name]]
  BY <1>1, <1>3 DEF Answered
<1>6. \/ i = 0 /\ settings' = settings
      \/ /\ i # 0
         /\ settings' = IF a.type # r.type THEN settings
                        ELSE [settings EXCEPT ![r.name] = new]
  BY DEF GetOption, Listing
<1>7. CASE i = 0
  <2>1. \A k \in 1 .. Len(file) : ~ IsAssignment(k, r.name)
    BY <1>1, <1>7, IndexFound DEF Covered, IsAssignment
  <2>2. C!Meant(r.name) = Defaults[r.name]
    BY <1>1, <2>1, NothingMeant
  <2> QED
    BY <1>1, <1>4, <1>5, <1>6, <1>7, <2>2, SameMeaning DEF Answered, Defaults
<1>8. CASE i # 0
  <2>1. i \in 1 .. Len(Listing) /\ options[Listing[i]].name = r.name
    BY <1>1, <1>8, IndexFound
  <2>2. PICK j : /\ LastAssignment(Len(file), r.name, j)
                 /\ options[Listing[i]] = Parsed(file[j])
    BY <1>1, <1>3, <2>1 DEF Latest
  <2>3. C!Meant(r.name) = IF a.type = r.type THEN new ELSE settings[r.name]
    BY <1>1, <1>2, <1>5, <2>2, AssignmentMeant
  <2> HIDE DEF a, new, i, r
  <2>4. settings' = [settings EXCEPT ![r.name] = C!Meant(r.name)]
    BY <1>3, <1>5, <1>6, <1>8, <2>3
  <2>5. \A name \in Names : C!Meant(name)' = C!Meant(name)
    BY <1>1, SameMeaning
  <2>6. Defaults' = Defaults
    BY DEF Defaults
  <2> QED
    BY <1>1, <1>3, <1>4, <1>5, <2>4, <2>5, <2>6 DEF Answered
<1> QED
  BY <1>7, <1>8

LEMMA FollowGetOption ==
    ASSUME OptionInv, FollowInv, GetOption
    PROVE  FollowInv'
<1> DEFINE r == Reads[reads + 1]
<1>1. /\ Listing' = Listing /\ ListInv
      /\ \A k \in 1 .. Len(Listing) :
            options'[Listing[k]] = IF k = IndexOfName(r.name)
                                   THEN AsFloat(options[Listing[k]], r.type)
                                   ELSE options[Listing[k]]
      /\ r.type \in {"int", "flt", "str", "bool"}
  BY GetOptionInv DEF OptionInv, GetOption
<1>2. /\ UNCHANGED <<file, line_nr, pc>> /\ pc = "read" /\ reads' = reads + 1
      /\ Latest /\ Covered /\ file # NoFile /\ line_nr = Len(file) /\ reads \in Nat
  BY DEF GetOption, FollowInv, OptionInv
<1>3. \A k \in 1 .. Len(Listing) : options'[Listing[k]].name = options[Listing[k]].name
  <2> SUFFICES ASSUME NEW k \in 1 .. Len(Listing)
               PROVE  options'[Listing[k]].name = options[Listing[k]].name
    OBVIOUS
  <2>1. options[Listing[k]] \in OptionValues
    BY <1>1, ListingTypes
  <2> HIDE DEF r
  <2>2. AsFloat(options[Listing[k]], r.type).name = options[Listing[k]].name
    BY <1>1, <2>1, OptionTypes
  <2> QED
    BY <1>1, <2>2
<1>4. \A name : ~ Asked(name)' => ~ Asked(name) /\ name # r.name
  <2>1. reads + 1 \in 1 .. reads + 1 /\ \A k \in 1 .. reads : k \in 1 .. reads + 1
    BY <1>2
  <2>2. Reads' = Reads
    BY DEF Reads
  <2> QED
    BY <1>2, <2>1, <2>2 DEF Asked
<1> HIDE DEF r
<1>5. Latest'
  <2> SUFFICES ASSUME NEW k \in 1 .. Len(Listing), ~ Asked(options[Listing[k]].name)'
               PROVE  \E j : /\ LastAssignment(line_nr, options[Listing[k]].name, j)'
                             /\ options'[Listing[k]] = Parsed(file[j])
    BY <1>1, <1>2 DEF Latest
  <2>1. ~ Asked(options[Listing[k]].name) /\ options[Listing[k]].name # r.name
    BY <1>1, <1>3, <1>4
  <2>2. k # IndexOfName(r.name)
    BY <1>1, <2>1, IndexFound
  <2>3. options'[Listing[k]] = options[Listing[k]]
    BY <1>1, <2>2
  <2>4. PICK j : /\ LastAssignment(line_nr, options[Listing[k]].name, j)
                 /\ options[Listing[k]] = Parsed(file[j])
    BY <1>2, <2>1 DEF Latest
  <2>5. LastAssignment(line_nr, options[Listing[k]].name, j)'
    BY <1>1, <1>2, <2>3, <2>4 DEF LastAssignment, IsAssignment
  <2> QED
    BY <2>3, <2>4, <2>5
<1>6. Covered'
  BY <1>1, <1>2, <1>3 DEF Covered
<1> QED
  BY <1>2, <1>5, <1>6, FollowAnswer DEF FollowInv

LEMMA FollowInductive == OptionInv /\ FollowInv /\ [ConfigNext]_vars => FollowInv'
<1> SUFFICES ASSUME OptionInv, FollowInv, [ConfigNext]_vars PROVE FollowInv'
  OBVIOUS
<1>1. CASE handle_line
  BY <1>1, FollowLine
<1>2. CASE GetOption
  BY <1>2, FollowGetOption
<1>3. CASE UNCHANGED vars \/ NoConfigFile \/ EndOfFile \/ sconf_free
  <2>1. /\ UNCHANGED <<file, line_nr, reads, settings, links>>
        /\ pc' = "ready" => sconf_free \/ UNCHANGED vars
    BY <1>3 DEF vars, NoConfigFile, EndOfFile, sconf_free
  <2>2. Answered'
    BY <2>1, SameAnswers DEF FollowInv
  <2>3. Listing' = Listing
    BY <2>1 DEF Listing
  <2>4. CASE options' = options
    <3>1. Latest => Latest'
      BY <2>1, <2>3, <2>4 DEF Latest, LastAssignment, IsAssignment, Asked
    <3>2. Covered => Covered'
      BY <2>1, <2>3, <2>4 DEF Covered
    <3> QED
      BY <1>3, <2>1, <2>2, <3>1, <3>2
      DEF FollowInv, vars, NoConfigFile, EndOfFile, sconf_free
  <2>5. CASE sconf_free
    BY <2>1, <2>2, <2>5 DEF FollowInv, sconf_free
  <2> QED
    BY <1>3, <2>4, <2>5 DEF vars, NoConfigFile, EndOfFile
<1> QED
  BY <1>1, <1>2, <1>3 DEF ConfigNext

\* However long the file, once it is read each setting is what the last line
\* about it says, wherever the other lines are (sconf.c:283-288).
THEOREM SettingsAsWritten == Spec => []SettingsFollowFile
<1>1. FollowInv => SettingsFollowFile
  <2> SUFFICES ASSUME FollowInv, pc = "ready", NEW name \in Names
               PROVE  settings[name] = C!Meant(name)
    BY SameData DEF SettingsFollowFile, C!SettingsFollowFile
  <2>1. reads = Len(Reads)
    BY DEF FollowInv
  <2>2. PICK k \in 1 .. Len(Reads) : name = Reads[k].name
    <3>1. DOMAIN Reads = 1 .. Len(Reads)
      BY DEF Reads
    <3> QED
      BY <3>1 DEF Names
  <2> QED
    BY <2>1, <2>2 DEF FollowInv, Answered, Asked
<1> QED
  BY <1>1, FollowInit, FollowInductive, OptionInvariant, PTL DEF Spec

=============================================================================
