--------------------------- MODULE RpmHeaderProofs ---------------------------
(***************************************************************************)
(* Lemmas about the operators of RpmHeader, for every header: what the     *)
(* searches in the index table find, what inserting and removing an entry  *)
(* does to it, and that syncDataStoreLayout lays the data out as rpm       *)
(* demands.                                                                *)
(*                                                                         *)
(* The layout is a recursive function. What it computes is shown by        *)
(* induction on the number of entries, and that induction rests on the     *)
(* least-number principle LeastNat.                                        *)
(***************************************************************************)
EXTENDS RpmHeader, FiniteSetTheorems, SequenceTheorems, WellFoundedInduction, TLAPS

(* A nonempty set of natural numbers has a least element. *)
LEMMA LeastNat ==
    ASSUME NEW T \in SUBSET Nat, T # {}
    PROVE  \E n \in T : \A m \in T : n <= m
<1> DEFINE R == {ss \in Nat \X Nat : ss[1] < ss[2]}
<1>1. \A m, n \in Nat : m < n => <<m, n>> \in R
  OBVIOUS
<1>2. IsWellFoundedOn(R, Nat)
  BY NatLessThanWellFounded, Zenon DEF OpToRel
<1> HIDE DEF R
<1>3. PICK n \in T : \A m \in T : ~ (<<m, n>> \in R)
  BY <1>2, WFMin
<1>4. ASSUME NEW m \in T PROVE n <= m
  <2>1. m \in Nat /\ n \in Nat /\ ~(m < n)
    BY <1>1, <1>3
  <2> QED
    BY <2>1
<1> QED
  BY <1>4

(* The minimum of a nonempty set of natural numbers is a lower bound in it. *)
LEMMA MinNat ==
    ASSUME NEW T \in SUBSET Nat, T # {}
    PROVE  Min(T) \in T /\ \A m \in T : Min(T) <= m
BY LeastNat DEF Min

(* The capacity that a slice grows to is enough. *)
LEMMA CapacityIsEnough ==
    ASSUME NEW n \in Nat
    PROVE  ParsedCapacity(n) \in Nat /\ n <= ParsedCapacity(n)
<1>1. CASE n <= 682
  <2> DEFINE C == {c \in {1, 2, 4, 8, 18, 37, 85, 170, 341, 682} : c >= n}
  <2>1. C \in SUBSET Nat /\ C # {}
    <3>1. 682 \in C
      BY <1>1
    <3> QED
      BY <3>1
  <2>2. \A c \in C : c \in Nat /\ n <= c
    OBVIOUS
  <2>3. ParsedCapacity(n) = Min(C)
    BY <1>1 DEF ParsedCapacity
  <2> HIDE DEF C
  <2>4. Min(C) \in C
    BY <2>1, MinNat
  <2> QED
    BY <2>2, <2>3, <2>4
<1>2. CASE ~(n <= 682)
  <2>1. ParsedCapacity(n) = CHOOSE c \in Nat : c >= n
    BY <1>2 DEF ParsedCapacity
  <2>2. n >= n
    OBVIOUS
  <2>3. \E c \in Nat : c >= n
    BY <2>2
  <2>4. (CHOOSE c \in Nat : c >= n) \in Nat /\ (CHOOSE c \in Nat : c >= n) >= n
    BY <2>3
  <2> QED
    BY <2>1, <2>4
<1> QED
  BY <1>1, <1>2

LEMMA GrownIsEnough ==
    ASSUME NEW c \in Nat, NEW n \in Nat
    PROVE  GrownCapacity(c, n) \in Nat /\ n <= GrownCapacity(c, n)
<1>1. CASE n <= c
  BY <1>1 DEF GrownCapacity
<1>2. CASE ~(n <= c)
  BY <1>2, CapacityIsEnough DEF GrownCapacity
<1> QED
  BY <1>1, <1>2

(* Induction on 0..N, for the set S of the numbers that have the property. *)
LEMMA IntervalInduction ==
    ASSUME NEW N \in Nat, NEW S,
           0 \in S,
           \A k \in 1..N : k - 1 \in S => k \in S
    PROVE  \A k \in 0..N : k \in S
<1> DEFINE T == {k \in 0..N : k \notin S}
<1> SUFFICES ASSUME T # {} PROVE FALSE
  OBVIOUS
<1>1. T \in SUBSET Nat
  OBVIOUS
<1>2. PICK n \in T : \A m \in T : n <= m
  <2> HIDE DEF T
  <2> QED
    BY <1>1, LeastNat
<1>3. n \in 1..N /\ n - 1 \in 0..N
  OBVIOUS
<1>4. n - 1 \notin T
  BY <1>2, <1>3
<1> QED
  BY <1>3, <1>4

-----------------------------------------------------------------------------
(* The elements of an index table are entries. *)
LEMMA EntryFields ==
    ASSUME NEW V, NEW es \in Seq(Entry(V)), NEW i \in 1..Len(es)
    PROVE  /\ es[i] \in Entry(V)
           /\ es[i].tag \in Nat
           /\ es[i].fmt \in FormatTypes
           /\ es[i].offset \in Nat
           /\ es[i].cnt \in Nat
           /\ es[i].len \in Nat
           /\ es[i].val \in V
<1>1. es[i] \in Entry(V)
  OBVIOUS
<1> QED
  BY <1>1 DEF Entry

(* FindIndexEntry returns the first entry with the tag, or 0 if none has it. *)
LEMMA FindIndexEntryFinds ==
    ASSUME NEW V, NEW es \in Seq(Entry(V)), NEW tag
    PROVE  /\ FindIndexEntry(es, tag) \in 0..Len(es)
           /\ FindIndexEntry(es, tag) # 0 => es[FindIndexEntry(es, tag)].tag = tag
           /\ \A i \in 1..Len(es) :
                 es[i].tag = tag => FindIndexEntry(es, tag) \in 1..i
<1> DEFINE I == {i \in 1..Len(es) : es[i].tag = tag}
<1>1. FindIndexEntry(es, tag) = IF I # {} THEN Min(I) ELSE 0
  BY DEF FindIndexEntry, SelectInSeq
<1>2. I \in SUBSET Nat
  OBVIOUS
<1>3. CASE I = {}
  BY <1>1, <1>3
<1>4. CASE I # {}
  <2>1. Min(I) \in I /\ \A m \in I : Min(I) <= m
    <3> HIDE DEF I
    <3> QED
      BY <1>2, <1>4, MinNat
  <2>2. PICK k : k = FindIndexEntry(es, tag)
    OBVIOUS
  <2>3. k \in I /\ \A m \in I : k <= m
    BY <1>1, <1>4, <2>1, <2>2
  <2>4. k \in 1..Len(es) /\ es[k].tag = tag
    BY <2>3
  <2>5. ASSUME NEW i \in 1..Len(es), es[i].tag = tag PROVE k \in 1..i
    BY <2>3, <2>4, <2>5
  <2> QED
    BY <2>2, <2>4, <2>5
<1> QED
  BY <1>3, <1>4

-----------------------------------------------------------------------------
(* Alignments are 1, 2, 4 or 8. *)
LEMMA RequiredAlignments ==
    ASSUME NEW fmt
    PROVE  GetRequiredAlignment(fmt) \in {1, 2, 4, 8}
BY DEF GetRequiredAlignment

(* Aligned rounds up to a multiple of the alignment. *)
LEMMA AlignedIsAligned ==
    ASSUME NEW a \in Nat, NEW fmt
    PROVE  /\ Aligned(a, fmt) \in Nat
           /\ Aligned(a, fmt) >= a
           /\ Aligned(a, fmt) < a + 8
           /\ Aligned(a, fmt) % GetRequiredAlignment(fmt) = 0
<1> DEFINE n == GetRequiredAlignment(fmt)
<1>1. n = 1 \/ n = 2 \/ n = 4 \/ n = 8
  BY RequiredAlignments
<1>2. Aligned(a, fmt) = a + ((n - (a % n)) % n)
  BY DEF Aligned, CalcAlignmentByteCount
<1> HIDE DEF n
<1>3. CASE n = 1
  BY <1>2, <1>3 DEF n
<1>4. CASE n = 2
  BY <1>2, <1>4 DEF n
<1>5. CASE n = 4
  BY <1>2, <1>5 DEF n
<1>6. CASE n = 8
  BY <1>2, <1>6 DEF n
<1> QED
  BY <1>1, <1>3, <1>4, <1>5, <1>6

(* The recursive function that models the loop of syncDataStoreLayout is well *)
(* defined.                                                                  *)
LEMMA NextOffsetDef ==
    ASSUME NEW es, Len(es) \in Nat
    PROVE  NextOffset(es) =
             [k \in 0..Len(es) |->
                IF k = 0 THEN 0
                ELSE Aligned(NextOffset(es)[k - 1], es[PlacedAt(es, k)].fmt)
                     + es[PlacedAt(es, k)].len]
<1> DEFINE A(x, k) == Aligned(x, es[PlacedAt(es, k)].fmt) + es[PlacedAt(es, k)].len
           Def(f, n) == f = [k \in 0..n |-> IF k = 0 THEN 0 ELSE A(f[k - 1], k)]
           S == {n \in 0..Len(es) : \E f : Def(f, n)}
<1> HIDE DEF A
<1>1. 0 \in S
  <2> DEFINE g == [k \in 0..0 |-> 0]
  <2>1. Def(g, 0)
    OBVIOUS
  <2> HIDE DEF Def, g
  <2> QED
    BY <2>1
<1>2. ASSUME NEW n \in 1..Len(es), n - 1 \in S PROVE n \in S
  <2>1. PICK f : Def(f, n - 1)
    BY <1>2
  <2> DEFINE g == [k \in 0..n |-> IF k = n THEN A(f[n - 1], n) ELSE f[k]]
  <2>2. Def(g, n)
    BY <2>1
  <2> HIDE DEF Def, g
  <2> QED
    BY <2>2
<1>3. Len(es) \in S
  <2> HIDE DEF S
  <2>1. \A k \in 0..Len(es) : k \in S
    BY <1>1, <1>2, IntervalInduction
  <2> QED
    BY <2>1
<1>4. \E f : Def(f, Len(es))
  BY <1>3
<1>5. NextOffset(es) = CHOOSE f : Def(f, Len(es))
  BY DEF NextOffset, A
<1>6. Def(NextOffset(es), Len(es))
  BY <1>4, <1>5
<1> QED
  BY <1>6 DEF A

(* PlacedAt inverts PlaceOf: every entry gets its turn, exactly once. *)
LEMMA PlaceOfInverse ==
    ASSUME NEW V, NEW es \in Seq(Entry(V)), NEW i \in 1..Len(es)
    PROVE  /\ PlaceOf(es, i) \in 1..Len(es)
           /\ PlacedAt(es, PlaceOf(es, i)) = i
           /\ PlacedAt(es, i) \in 1..Len(es)
<1>1. RegionTrailerEntry(es) \in 0..Len(es)
  BY FindIndexEntryFinds DEF RegionTrailerEntry
<1> QED
  BY <1>1 DEF PlaceOf, PlacedAt

(* The loop's nextOffset is a natural number and grows with every turn by at *)
(* least the entry it places.                                                *)
LEMMA NextOffsetStep ==
    ASSUME NEW V, NEW es \in Seq(Entry(V)), NEW k \in 1..Len(es)
    PROVE  LET e == es[PlacedAt(es, k)]
           IN  /\ NextOffset(es)[k] = Aligned(NextOffset(es)[k - 1], e.fmt) + e.len
               /\ e \in Entry(V)
<1>1. NextOffset(es)[k] = Aligned(NextOffset(es)[k - 1], es[PlacedAt(es, k)].fmt)
                          + es[PlacedAt(es, k)].len
  <2>1. Len(es) \in Nat /\ k \in 0..Len(es) /\ k # 0
    OBVIOUS
  <2> QED
    BY <2>1, NextOffsetDef
<1>2. PlacedAt(es, k) \in 1..Len(es)
  BY PlaceOfInverse
<1> QED
  BY <1>1, <1>2

(* The offsets that syncDataStoreLayout counts through are natural numbers. *)
LEMMA NextOffsetType ==
    ASSUME NEW V, NEW es \in Seq(Entry(V))
    PROVE  \A k \in 0..Len(es) : NextOffset(es)[k] \in Nat
<1> DEFINE S == {k \in 0..Len(es) : NextOffset(es)[k] \in Nat}
<1>1. 0 \in S
  <2>1. Len(es) \in Nat /\ 0 \in 0..Len(es)
    OBVIOUS
  <2>2. NextOffset(es)[0] = 0
    BY <2>1, NextOffsetDef
  <2> QED
    BY <2>1, <2>2
<1>2. ASSUME NEW k \in 1..Len(es), k - 1 \in S PROVE k \in S
  <2> DEFINE e == es[PlacedAt(es, k)]
  <2>1. NextOffset(es)[k] = Aligned(NextOffset(es)[k - 1], e.fmt) + e.len
        /\ e \in Entry(V)
    BY NextOffsetStep
  <2>2. e.len \in Nat
    BY <2>1 DEF Entry
  <2>3. Aligned(NextOffset(es)[k - 1], e.fmt) \in Nat
    BY <1>2, AlignedIsAligned
  <2> QED
    BY <2>1, <2>2, <2>3
<1> HIDE DEF S
<1>3. \A k \in 0..Len(es) : k \in S
  <2>1. Len(es) \in Nat
    OBVIOUS
  <2> QED
    BY <1>1, <1>2, <2>1, IntervalInduction
<1> QED
  BY <1>3 DEF S

(* nextOffset never decreases in the loop of syncDataStoreLayout. *)
LEMMA NextOffsetGrows ==
    ASSUME NEW V, NEW es \in Seq(Entry(V)), NEW i \in 0..Len(es)
    PROVE  \A j \in 0..Len(es) : i <= j => NextOffset(es)[i] <= NextOffset(es)[j]
<1> DEFINE S == {j \in 0..Len(es) : i <= j => NextOffset(es)[i] <= NextOffset(es)[j]}
<1>0. \A k \in 0..Len(es) : NextOffset(es)[k] \in Nat
  BY NextOffsetType
<1>1. 0 \in S
  BY <1>0
<1>2. ASSUME NEW k \in 1..Len(es), k - 1 \in S PROVE k \in S
  <2> DEFINE e == es[PlacedAt(es, k)]
  <2>1. NextOffset(es)[k] = Aligned(NextOffset(es)[k - 1], e.fmt) + e.len
        /\ e \in Entry(V)
    BY NextOffsetStep
  <2>2. e.len \in Nat
    BY <2>1 DEF Entry
  <2>3. NextOffset(es)[k - 1] \in Nat
    BY <1>0
  <2>4. NextOffset(es)[k - 1] <= NextOffset(es)[k]
    <3>1. Aligned(NextOffset(es)[k - 1], e.fmt) \in Nat
          /\ Aligned(NextOffset(es)[k - 1], e.fmt) >= NextOffset(es)[k - 1]
      BY <2>3, AlignedIsAligned
    <3> QED
      BY <2>1, <2>2, <2>3, <3>1
  <2> QED
    BY <1>0, <1>2, <2>4
<1> HIDE DEF S
<1>3. \A k \in 0..Len(es) : k \in S
  <2>1. Len(es) \in Nat
    OBVIOUS
  <2> QED
    BY <1>1, <1>2, <2>1, IntervalInduction
<1> QED
  BY <1>3 DEF S

(* Searches depend on nothing but the tags. *)
LEMMA SameTagsSameIndex ==
    ASSUME NEW V, NEW es \in Seq(Entry(V)), NEW fs \in Seq(Entry(V)), NEW tag,
           Len(es) = Len(fs),
           \A i \in 1..Len(es) : es[i].tag = fs[i].tag
    PROVE  FindIndexEntry(es, tag) = FindIndexEntry(fs, tag)
<1> DEFINE j == FindIndexEntry(es, tag)
           k == FindIndexEntry(fs, tag)
<1>1. /\ j \in 0..Len(es)
      /\ j # 0 => es[j].tag = tag
      /\ \A i \in 1..Len(es) : es[i].tag = tag => j \in 1..i
  BY FindIndexEntryFinds
<1>2. /\ k \in 0..Len(fs)
      /\ k # 0 => fs[k].tag = tag
      /\ \A i \in 1..Len(fs) : fs[i].tag = tag => k \in 1..i
  BY FindIndexEntryFinds
<1> HIDE DEF j, k
<1>3. j = k
  BY <1>1, <1>2
<1> QED
  BY <1>3 DEF j, k

(* syncDataStoreLayout changes offsets and the store size only. *)
LEMMA SyncKeeps ==
    ASSUME NEW V, NEW h \in Header(V)
    PROVE  LET s == SyncDataStoreLayout(h)
           IN  /\ s \in Header(V)
               /\ Len(s.entries) = Len(h.entries)
               /\ s.cap = h.cap
               /\ s.indexEntryCount = h.indexEntryCount
               /\ s.regionCount = h.regionCount
               /\ s.storeSize = NextOffset(h.entries)[Len(h.entries)]
               /\ \A i \in 1..Len(h.entries) :
                     /\ s.entries[i].tag = h.entries[i].tag
                     /\ s.entries[i].fmt = h.entries[i].fmt
                     /\ s.entries[i].cnt = h.entries[i].cnt
                     /\ s.entries[i].len = h.entries[i].len
                     /\ s.entries[i].val = h.entries[i].val
                     /\ s.entries[i].offset =
                           Aligned(NextOffset(h.entries)[PlaceOf(h.entries, i) - 1],
                                   h.entries[i].fmt)
<1> DEFINE es   == h.entries
           next == NextOffset(es)
           o(i) == Aligned(next[PlaceOf(es, i) - 1], es[i].fmt)
           fs   == [i \in 1..Len(es) |-> [es[i] EXCEPT !.offset = o(i)]]
           s    == SyncDataStoreLayout(h)
<1>1. es \in Seq(Entry(V)) /\ Len(es) \in Nat
  BY DEF Header
<1>2. next[Len(es)] \in Nat
  BY <1>1, NextOffsetType
<1>3. ASSUME NEW i \in 1..Len(es)
      PROVE  /\ o(i) \in Nat
             /\ es[i] \in Entry(V)
  <2>1. PlaceOf(es, i) - 1 \in 0..Len(es)
    BY <1>1, PlaceOfInverse
  <2>2. next[PlaceOf(es, i) - 1] \in Nat
    BY <1>1, <2>1, NextOffsetType
  <2>3. o(i) \in Nat
    BY <2>2, AlignedIsAligned
  <2> QED
    BY <1>1, <2>3
<1> HIDE DEF o
<1>4. ASSUME NEW i \in 1..Len(es)
      PROVE  /\ fs[i] \in Entry(V)
             /\ fs[i].tag = es[i].tag
             /\ fs[i].fmt = es[i].fmt
             /\ fs[i].cnt = es[i].cnt
             /\ fs[i].len = es[i].len
             /\ fs[i].val = es[i].val
             /\ fs[i].offset = o(i)
  BY <1>3 DEF Entry
<1>5. fs \in Seq(Entry(V)) /\ Len(fs) = Len(es)
  <2>1. fs \in [1..Len(es) -> Entry(V)]
    BY <1>4
  <2> HIDE DEF fs
  <2> QED
    BY <1>1, <2>1
<1>6. s = [h EXCEPT !.entries = fs, !.storeSize = next[Len(es)]]
  BY DEF SyncDataStoreLayout, o
<1> HIDE DEF fs, next
<1>7. /\ s \in Header(V)
      /\ s.entries = fs
      /\ s.cap = h.cap
      /\ s.indexEntryCount = h.indexEntryCount
      /\ s.regionCount = h.regionCount
      /\ s.storeSize = next[Len(es)]
  BY <1>2, <1>5, <1>6 DEF Header
<1> HIDE DEF s
<1> QED
  BY <1>4, <1>5, <1>7 DEF s, o, next

(* syncDataStoreLayout lays the data out the way rpm demands, whatever the   *)
(* offsets were before: nothing overlaps, index order is store order, every  *)
(* entry is aligned and the region trailer ends the store.                   *)
THEOREM SyncLaysOut ==
    ASSUME NEW V, NEW h \in Header(V),
           RegionTrailerEntry(h.entries) # 0
    PROVE  DataStore(SyncDataStoreLayout(h))
<1> DEFINE es   == h.entries
           N    == Len(es)
           t    == RegionTrailerEntry(es)
           next == NextOffset(es)
           s    == SyncDataStoreLayout(h)
           fs   == s.entries
<1>1. es \in Seq(Entry(V)) /\ N \in Nat
  BY DEF Header
<1>2. /\ fs \in Seq(Entry(V))
      /\ Len(fs) = N
      /\ s.storeSize = next[N]
      /\ \A i \in 1..N : /\ fs[i].tag = es[i].tag
                         /\ fs[i].fmt = es[i].fmt
                         /\ fs[i].len = es[i].len
                         /\ fs[i].offset = Aligned(next[PlaceOf(es, i) - 1], es[i].fmt)
  <2>1. s \in Header(V)
    BY SyncKeeps
  <2> QED
    BY <2>1, SyncKeeps DEF Header
<1>3. RegionTrailerEntry(fs) = t /\ t \in 1..N
  <2>1. RegionTrailerEntry(fs) = t
    BY <1>1, <1>2, SameTagsSameIndex DEF RegionTrailerEntry
  <2>2. t \in 0..N
    BY <1>1, FindIndexEntryFinds DEF RegionTrailerEntry
  <2> QED
    BY <2>1, <2>2
<1>4. \A k \in 0..N : next[k] \in Nat
  BY <1>1, NextOffsetType
\* The k-th turn starts behind the previous one and ends where the next begins.
<1>5. ASSUME NEW i \in 1..N
      PROVE  /\ PlaceOf(es, i) \in 1..N
             /\ fs[i].offset \in Nat
             /\ next[PlaceOf(es, i) - 1] <= fs[i].offset
             /\ fs[i].offset % GetRequiredAlignment(fs[i].fmt) = 0
             /\ EndOffset(fs[i]) = next[PlaceOf(es, i)]
  <2> DEFINE p == PlaceOf(es, i)
  <2>1. p \in 1..N /\ PlacedAt(es, p) = i
    BY <1>1, PlaceOfInverse
  <2>2. next[p] = Aligned(next[p - 1], es[i].fmt) + es[i].len
    BY <1>1, <2>1, NextOffsetStep
  <2>3. next[p - 1] \in Nat
    BY <1>4, <2>1
  <2>4. /\ Aligned(next[p - 1], es[i].fmt) \in Nat
        /\ next[p - 1] <= Aligned(next[p - 1], es[i].fmt)
        /\ Aligned(next[p - 1], es[i].fmt) % GetRequiredAlignment(es[i].fmt) = 0
    BY <2>3, AlignedIsAligned
  <2>5. fs[i].offset = Aligned(next[p - 1], es[i].fmt)
        /\ fs[i].fmt = es[i].fmt /\ fs[i].len = es[i].len
    BY <1>2
  <2> HIDE DEF p, next, fs, s
  <2> QED
    BY <2>1, <2>2, <2>3, <2>4, <2>5 DEF EndOffset, p
<1>6. ASSUME NEW i \in 1..N, NEW j \in 1..N, PlaceOf(es, i) < PlaceOf(es, j)
      PROVE  EndOffset(fs[i]) <= fs[j].offset
  <2> HIDE DEF N, es, next, fs, s, t
  <2>1. PICK p \in 1..N : p = PlaceOf(es, i) /\ EndOffset(fs[i]) = next[p]
    BY <1>5
  <2>2. PICK q \in 1..N : /\ q = PlaceOf(es, j)
                          /\ next[q - 1] <= fs[j].offset
                          /\ fs[j].offset \in Nat
    BY <1>5
  <2>3. p \in 0..N /\ q - 1 \in 0..N /\ p <= q - 1
    BY <1>1, <1>6, <2>1, <2>2
  <2>4. next[p] <= next[q - 1]
    BY <1>1, <2>3, NextOffsetGrows DEF N, next
  <2>5. next[p] \in Nat /\ next[q - 1] \in Nat
    BY <1>4, <2>3
  <2> QED
    BY <2>1, <2>2, <2>4, <2>5
<1>7. \A i \in 1..N : i # t => PlaceOf(es, i) < PlaceOf(es, t)
  BY <1>1, <1>3 DEF PlaceOf
<1>8. \A i, j \in 1..N : i # t /\ j # t /\ i < j => PlaceOf(es, i) < PlaceOf(es, j)
  BY <1>1, <1>3 DEF PlaceOf
<1>9. PlaceOf(es, t) = N
  BY <1>3 DEF PlaceOf
<1>10. DataEntries(fs) = {i \in 1..N : i # t}
  BY <1>2, <1>3 DEF DataEntries
<1> HIDE DEF s, next, t, N, es, fs
<1>11. EndOffset(fs[t]) = s.storeSize
  BY <1>2, <1>3, <1>5, <1>9
<1>12. \A i, j \in DataEntries(fs) : i < j => EndOffset(fs[i]) <= fs[j].offset
  BY <1>6, <1>8, <1>10
<1>13. \A i \in DataEntries(fs) : EndOffset(fs[i]) <= fs[t].offset
  BY <1>3, <1>6, <1>7, <1>10
<1>14. \A i \in 1..Len(fs) : fs[i].offset % GetRequiredAlignment(fs[i].fmt) = 0
  BY <1>2, <1>5
<1> QED
  BY <1>3, <1>11, <1>12, <1>13, <1>14 DEF DataStore, s, fs

-----------------------------------------------------------------------------
(* What inserting into and removing from a sequence does, element by element. *)
LEMMA InsertAtElements ==
    ASSUME NEW S, NEW es \in Seq(S), NEW e \in S, NEW p \in 1..(Len(es) + 1)
    PROVE  /\ InsertAt(es, p, e) \in Seq(S)
           /\ Len(InsertAt(es, p, e)) = Len(es) + 1
           /\ \A i \in 1..(Len(es) + 1) :
                 InsertAt(es, p, e)[i] =
                     IF i < p THEN es[i] ELSE IF i = p THEN e ELSE es[i - 1]
<1> DEFINE a == SubSeq(es, 1, p - 1)
           b == SubSeq(es, p, Len(es))
<1>1. /\ a \in Seq(S) /\ Len(a) = p - 1
      /\ \A i \in 1..(p - 1) : a[i] = es[i]
  OBVIOUS
<1>2. /\ b \in Seq(S) /\ Len(b) = Len(es) - p + 1
      /\ \A i \in 1..(Len(es) - p + 1) : b[i] = es[i + p - 1]
  OBVIOUS
<1> HIDE DEF a, b
<1>3. /\ a \o <<e>> \in Seq(S) /\ Len(a \o <<e>>) = p
      /\ \A i \in 1..p : (a \o <<e>>)[i] = IF i < p THEN es[i] ELSE e
  BY <1>1
<1>4. PICK c : c = a \o <<e>>
  OBVIOUS
<1>5. InsertAt(es, p, e) = c \o b
  BY <1>4 DEF InsertAt, a, b
<1>6. /\ c \in Seq(S) /\ Len(c) = p
      /\ \A i \in 1..p : c[i] = IF i < p THEN es[i] ELSE e
  BY <1>3, <1>4, Zenon
<1>7. /\ c \o b \in Seq(S)
      /\ Len(c \o b) = Len(c) + Len(b)
      /\ \A i \in 1..(Len(c) + Len(b)) :
            (c \o b)[i] = IF i <= Len(c) THEN c[i] ELSE b[i - Len(c)]
  BY <1>2, <1>6, ConcatProperties
<1>8. Len(c) + Len(b) = Len(es) + 1
  BY <1>2, <1>6
<1>9. ASSUME NEW i \in 1..(Len(es) + 1)
      PROVE  (c \o b)[i] = IF i < p THEN es[i] ELSE IF i = p THEN e ELSE es[i - 1]
  <2>1. (c \o b)[i] = IF i <= p THEN c[i] ELSE b[i - p]
    BY <1>6, <1>7, <1>8
  <2>2. CASE i <= p
    BY <1>6, <2>1, <2>2
  <2>3. CASE i > p
    <3>1. i - p \in 1..(Len(es) - p + 1) /\ (i - p) + p - 1 = i - 1
      BY <2>3
    <3> QED
      BY <1>2, <2>1, <2>3, <3>1
  <2>4. i <= p \/ i > p
    OBVIOUS
  <2> QED
    BY <2>2, <2>3, <2>4, Zenon
<1> QED
  BY <1>5, <1>7, <1>8, <1>9, Zenon

(* RemoveAtIndex of utils.go keeps every other element, in order. *)
LEMMA RemoveAtElements ==
    ASSUME NEW S, NEW es \in Seq(S), NEW p \in 1..Len(es)
    PROVE  /\ RemoveAt(es, p) \in Seq(S)
           /\ Len(RemoveAt(es, p)) = Len(es) - 1
           /\ \A i \in 1..(Len(es) - 1) :
                 RemoveAt(es, p)[i] = IF i < p THEN es[i] ELSE es[i + 1]
<1> DEFINE a == SubSeq(es, 1, p - 1)
           b == SubSeq(es, p + 1, Len(es))
<1>1. /\ a \in Seq(S) /\ Len(a) = p - 1
      /\ \A i \in 1..(p - 1) : a[i] = es[i]
  OBVIOUS
<1>2. /\ b \in Seq(S) /\ Len(b) = Len(es) - p
      /\ \A i \in 1..(Len(es) - p) : b[i] = es[i + p]
  OBVIOUS
<1> HIDE DEF a, b
<1>3. RemoveAt(es, p) = a \o b
  BY DEF RemoveAt, a, b
<1>4. /\ a \o b \in Seq(S)
      /\ Len(a \o b) = Len(a) + Len(b)
      /\ \A i \in 1..(Len(a) + Len(b)) :
            (a \o b)[i] = IF i <= Len(a) THEN a[i] ELSE b[i - Len(a)]
  BY <1>1, <1>2, ConcatProperties
<1>5. Len(a) = p - 1 /\ Len(a) + Len(b) = Len(es) - 1
  BY <1>1, <1>2
<1>6. ASSUME NEW i \in 1..(Len(es) - 1)
      PROVE  (a \o b)[i] = IF i < p THEN es[i] ELSE es[i + 1]
  <2>1. (a \o b)[i] = IF i <= p - 1 THEN a[i] ELSE b[i - (p - 1)]
    BY <1>4, <1>5
  <2>2. CASE i < p
    BY <1>1, <2>1, <2>2
  <2>3. CASE i >= p
    <3>1. i - (p - 1) \in 1..(Len(es) - p) /\ (i - (p - 1)) + p = i + 1
      BY <2>3
    <3> QED
      BY <1>2, <2>1, <2>3, <3>1
  <2>4. i < p \/ i >= p
    OBVIOUS
  <2> QED
    BY <2>2, <2>3, <2>4, Zenon
<1> QED
  BY <1>3, <1>4, <1>5, <1>6

(* The insert position is behind all smaller tags and before all larger ones. *)
LEMMA InsertPositionSorts ==
    ASSUME NEW V, NEW es \in Seq(Entry(V)), NEW tag \in Nat,
           \A i, j \in 1..Len(es) : i < j => es[i].tag < es[j].tag
    PROVE  /\ InsertPosition(es, tag) \in 1..(Len(es) + 1)
           /\ \A i \in 1..Len(es) : i < InsertPosition(es, tag) => es[i].tag <= tag
           /\ \A i \in 1..Len(es) : i >= InsertPosition(es, tag) => es[i].tag > tag
<1> DEFINE I == {i \in 1..Len(es) : es[i].tag > tag}
           p == InsertPosition(es, tag)
<1>0. \A i \in 1..Len(es) : es[i].tag \in Nat
  BY EntryFields
<1>1. I \in SUBSET Nat /\ 0 \notin I
  OBVIOUS
<1>2. CASE I = {}
  <2>1. p = Len(es) + 1
    BY <1>2 DEF InsertPosition, SelectInSeq
  <2>2. \A i \in 1..Len(es) : ~(es[i].tag > tag)
    BY <1>2
  <2> HIDE DEF p, I
  <2> QED
    BY <1>0, <2>1, <2>2 DEF p
<1>3. CASE I # {}
  <2>1. Min(I) \in I /\ \A m \in I : Min(I) <= m
    <3> HIDE DEF I
    <3> QED
      BY <1>1, <1>3, MinNat
  <2>2. p = IF Min(I) = 0 THEN Len(es) + 1 ELSE Min(I)
    BY <1>3 DEF InsertPosition, SelectInSeq
  <2>3. p \in I /\ \A m \in I : p <= m
    <3> HIDE DEF I, p
    <3> QED
      BY <1>1, <2>1, <2>2
  <2>4. p \in 1..Len(es) /\ es[p].tag > tag
    BY <2>3
  <2>5. ASSUME NEW i \in 1..Len(es), i < p PROVE es[i].tag <= tag
    BY <1>0, <2>3, <2>4, <2>5
  <2>6. ASSUME NEW i \in 1..Len(es), i >= p PROVE es[i].tag > tag
    BY <1>0, <2>4, <2>6
  <2> HIDE DEF p, I
  <2> QED
    BY <2>4, <2>5, <2>6 DEF p
<1> QED
  BY <1>2, <1>3

-----------------------------------------------------------------------------
(* What the edits maintain besides the layout, which each of them redoes. *)
Table(V, h) ==
    /\ h \in Header(V)
    /\ IndexTable(h)
    /\ \A i \in 1..Len(h.entries) : h.entries[i].len > 0

(* A header that is edited has a region trailer (regionTrailerEntry). *)
LEMMA TrailerIndex ==
    ASSUME NEW V, NEW h, Table(V, h)
    PROVE  /\ h.entries \in Seq(Entry(V)) /\ Len(h.entries) \in Nat
           /\ RegionTrailerEntry(h.entries) \in 1..Len(h.entries)
           /\ h.entries[RegionTrailerEntry(h.entries)].tag = SigTagHeaderSignatures
<1>1. h.entries \in Seq(Entry(V)) /\ Len(h.entries) \in Nat
  BY DEF Table, Header
<1>2. RegionTrailerEntry(h.entries) # 0
  BY DEF Table, IndexTable
<1> QED
  BY <1>1, <1>2, FindIndexEntryFinds DEF RegionTrailerEntry

(* The trailing syncDataStoreLayout of an edit. *)
LEMMA SyncKeepsTable ==
    ASSUME NEW V, NEW h, Table(V, h)
    PROVE  LET s == SyncDataStoreLayout(h)
           IN  /\ Table(V, s)
               /\ DataStore(s)
               /\ \A tag : FindIndexEntry(s.entries, tag) = FindIndexEntry(h.entries, tag)
<1> DEFINE s == SyncDataStoreLayout(h)
<1>1. h \in Header(V) /\ h.entries \in Seq(Entry(V)) /\ Len(h.entries) \in Nat
  BY DEF Table, Header
<1>2. /\ s \in Header(V)
      /\ Len(s.entries) = Len(h.entries)
      /\ s.cap = h.cap
      /\ s.indexEntryCount = h.indexEntryCount
      /\ s.regionCount = h.regionCount
      /\ \A i \in 1..Len(h.entries) : /\ s.entries[i].tag = h.entries[i].tag
                                      /\ s.entries[i].len = h.entries[i].len
  BY <1>1, SyncKeeps
<1>3. DataStore(s)
  BY <1>1, SyncLaysOut DEF Table, IndexTable
<1> HIDE DEF s
<1>4. s.entries \in Seq(Entry(V))
  BY <1>2 DEF Header
<1>5. ASSUME NEW tag
      PROVE  FindIndexEntry(s.entries, tag) = FindIndexEntry(h.entries, tag)
  BY <1>1, <1>2, <1>4, SameTagsSameIndex
<1>6. IndexTable(s)
  BY <1>2, <1>5 DEF Table, IndexTable, RegionTrailerEntry
<1>7. Table(V, s)
  BY <1>2, <1>6 DEF Table
<1> QED
  BY <1>3, <1>5, <1>7 DEF s

(* insertIndexEntry adds one entry under a tag that was free. *)
LEMMA InsertKeepsTable ==
    ASSUME NEW V, NEW h, Table(V, h),
           NEW e \in Entry(V), e.len > 0,
           FindIndexEntry(h.entries, e.tag) = 0
    PROVE  LET n == InsertIndexEntry(h, e)
               k == FindIndexEntry(n.entries, e.tag)
           IN  /\ Table(V, n)
               /\ DataStore(n)
               /\ Len(n.entries) = Len(h.entries) + 1
               /\ k \in 1..Len(n.entries) /\ n.entries[k].cnt = e.cnt
               /\ \A tag : FindIndexEntry(h.entries, tag) # 0
                              => FindIndexEntry(n.entries, tag) # 0
               /\ \A tag : tag # e.tag /\ FindIndexEntry(h.entries, tag) = 0
                              => FindIndexEntry(n.entries, tag) = 0
<1> DEFINE os == h.entries
           p  == InsertPosition(os, e.tag)
           es == InsertAt(os, p, e)
           g  == [h EXCEPT !.entries = es,
                           !.cap = GrownCapacity(@, Len(es)),
                           !.indexEntryCount = @ + 1]
           u  == [g EXCEPT !.regionCount = Len(es)]
<1>1. /\ os \in Seq(Entry(V)) /\ Len(os) \in Nat
      /\ h.cap \in Nat
      /\ h.indexEntryCount = Len(os)
      /\ \A i, j \in 1..Len(os) : i < j => os[i].tag < os[j].tag
      /\ \A i \in 1..Len(os) : os[i].tag \in Nat /\ os[i].len > 0
  <2>1. os \in Seq(Entry(V)) /\ Len(os) \in Nat /\ h.cap \in Nat
    BY DEF Table, Header
  <2> QED
    BY <2>1, EntryFields DEF Table, IndexTable
<1>2. e.tag \in Nat
  BY DEF Entry
<1>3. /\ p \in 1..(Len(os) + 1)
      /\ \A i \in 1..Len(os) : i < p => os[i].tag <= e.tag
      /\ \A i \in 1..Len(os) : i >= p => os[i].tag > e.tag
  BY <1>1, <1>2, InsertPositionSorts
<1>4. \A i \in 1..Len(os) : os[i].tag # e.tag
  BY <1>1, FindIndexEntryFinds
<1> HIDE DEF p
<1>5. /\ es \in Seq(Entry(V))
      /\ Len(es) = Len(os) + 1
      /\ \A i \in 1..(Len(os) + 1) :
            es[i] = IF i < p THEN os[i] ELSE IF i = p THEN e ELSE os[i - 1]
  <2>1. os \in Seq(Entry(V)) /\ e \in Entry(V) /\ p \in 1..(Len(os) + 1)
    BY <1>1, <1>3
  <2> DEFINE S == Entry(V)
  <2> HIDE DEF os, S
  <2>2. os \in Seq(S) /\ e \in S
    BY <2>1 DEF S
  <2>3. /\ InsertAt(os, p, e) \in Seq(S)
        /\ Len(InsertAt(os, p, e)) = Len(os) + 1
        /\ \A i \in 1..(Len(os) + 1) :
              InsertAt(os, p, e)[i] =
                  IF i < p THEN os[i] ELSE IF i = p THEN e ELSE os[i - 1]
    BY <2>1, <2>2, InsertAtElements
  <2> QED
    BY <2>3 DEF S
<1> HIDE DEF es
<1>6. \A i, j \in 1..Len(es) : i < j => es[i].tag < es[j].tag
  <2> SUFFICES ASSUME NEW i \in 1..Len(es), NEW j \in 1..Len(es), i < j
               PROVE  es[i].tag < es[j].tag
    OBVIOUS
  <2> HIDE DEF os
  <2>1. CASE j < p
    <3>1. i \in 1..Len(os) /\ j \in 1..Len(os) /\ es[i] = os[i] /\ es[j] = os[j]
      BY <1>1, <1>3, <1>5, <2>1
    <3> QED
      BY <1>1, <3>1
  <2>2. CASE j = p
    <3>1. i \in 1..Len(os) /\ i < p /\ es[i] = os[i] /\ es[j] = e
      BY <1>1, <1>3, <1>5, <2>2
    <3> QED
      BY <1>1, <1>2, <1>3, <1>4, <3>1
  <2>3. CASE j > p /\ i < p
    <3>1. i \in 1..Len(os) /\ j - 1 \in 1..Len(os) /\ i < j - 1
          /\ es[i] = os[i] /\ es[j] = os[j - 1]
      BY <1>1, <1>3, <1>5, <2>3
    <3> QED
      BY <1>1, <3>1
  <2>4. CASE j > p /\ i = p
    <3>1. j - 1 \in 1..Len(os) /\ j - 1 >= p /\ es[i] = e /\ es[j] = os[j - 1]
      BY <1>1, <1>3, <1>5, <2>4
    <3> QED
      BY <1>1, <1>2, <1>3, <3>1
  <2>5. CASE j > p /\ i > p
    <3>1. i - 1 \in 1..Len(os) /\ j - 1 \in 1..Len(os) /\ i - 1 < j - 1
          /\ es[i] = os[i - 1] /\ es[j] = os[j - 1]
      BY <1>1, <1>3, <1>5, <2>5
    <3> QED
      BY <1>1, <3>1
  <2> QED
    BY <1>3, <1>5, <2>1, <2>2, <2>3, <2>4, <2>5
\* Where the old entries and the new one are.
<1>7. /\ p \in 1..Len(es) /\ es[p] = e
      /\ \A i \in 1..Len(os) : \E j \in 1..Len(es) : es[j] = os[i]
      /\ \A j \in 1..Len(es) : es[j] = e \/ \E i \in 1..Len(os) : es[j] = os[i]
  <2>1. p \in 1..Len(es) /\ es[p] = e
    BY <1>1, <1>3, <1>5
  <2>2. ASSUME NEW i \in 1..Len(os) PROVE \E j \in 1..Len(es) : es[j] = os[i]
    <3>1. CASE i < p
      <4>1. i \in 1..Len(es) /\ es[i] = os[i]
        BY <1>1, <1>3, <1>5, <3>1
      <4> QED
        BY <4>1
    <3>2. CASE i >= p
      <4>1. i + 1 \in 1..Len(es) /\ es[i + 1] = os[i]
        BY <1>1, <1>3, <1>5, <3>2
      <4> QED
        BY <4>1
    <3>3. i < p \/ i >= p
      BY <1>1, <1>3
    <3> QED
      BY <3>1, <3>2, <3>3, Zenon
  <2>3. ASSUME NEW j \in 1..Len(es)
        PROVE  es[j] = e \/ \E i \in 1..Len(os) : es[j] = os[i]
    <3>1. CASE j < p
      <4>1. j \in 1..Len(os) /\ es[j] = os[j]
        BY <1>1, <1>3, <1>5, <3>1
      <4> QED
        BY <4>1
    <3>2. CASE j = p
      BY <2>1, <3>2
    <3>3. CASE j > p
      <4>1. j - 1 \in 1..Len(os) /\ es[j] = os[j - 1]
        BY <1>1, <1>3, <1>5, <3>3
      <4> QED
        BY <4>1
    <3> QED
      BY <1>1, <1>3, <1>5, <3>1, <3>2, <3>3
  <2> QED
    BY <2>1, <2>2, <2>3
<1>8. \A i \in 1..Len(es) : es[i].len > 0
  <2> HIDE DEF os
  <2> QED
    BY <1>1, <1>7
<1>9. ASSUME NEW tag
      PROVE  /\ FindIndexEntry(os, tag) # 0 => FindIndexEntry(es, tag) # 0
             /\ tag # e.tag /\ FindIndexEntry(os, tag) = 0 => FindIndexEntry(es, tag) = 0
  <2>1. /\ FindIndexEntry(os, tag) \in 0..Len(os)
        /\ FindIndexEntry(os, tag) # 0 => os[FindIndexEntry(os, tag)].tag = tag
        /\ \A i \in 1..Len(os) : os[i].tag = tag => FindIndexEntry(os, tag) \in 1..i
    BY <1>1, FindIndexEntryFinds
  <2>2. /\ FindIndexEntry(es, tag) \in 0..Len(es)
        /\ FindIndexEntry(es, tag) # 0 => es[FindIndexEntry(es, tag)].tag = tag
        /\ \A i \in 1..Len(es) : es[i].tag = tag => FindIndexEntry(es, tag) \in 1..i
    BY <1>5, FindIndexEntryFinds
  <2> HIDE DEF os
  <2>3. ASSUME FindIndexEntry(os, tag) # 0 PROVE FindIndexEntry(es, tag) # 0
    <3>1. PICK i \in 1..Len(os) : os[i].tag = tag
      BY <2>1, <2>3
    <3>2. PICK j \in 1..Len(es) : es[j] = os[i]
      BY <1>7
    <3> QED
      BY <2>2, <3>1, <3>2
  <2>4. ASSUME tag # e.tag, FindIndexEntry(os, tag) = 0, FindIndexEntry(es, tag) # 0
        PROVE  FALSE
    <3>1. PICK j \in 1..Len(es) : es[j].tag = tag
      BY <2>2, <2>4
    <3>2. PICK i \in 1..Len(os) : es[j] = os[i]
      BY <1>7, <2>4, <3>1
    <3> QED
      BY <2>1, <2>4, <3>1, <3>2
  <2> QED
    BY <2>3, <2>4
<1>10. RegionTrailerEntry(es) # 0
  BY <1>9 DEF Table, IndexTable, RegionTrailerEntry
<1>11. InsertIndexEntry(h, e) = SyncDataStoreLayout(u)
  <2>1. InsertIndexEntry(h, e) = SyncDataStoreLayout(UpdateSignedRegionTrailer(g))
    BY DEF InsertIndexEntry, es, p
  <2>2. g.entries = es
    BY DEF Table, Header
  <2> QED
    BY <1>10, <2>1, <2>2 DEF UpdateSignedRegionTrailer
<1>12. GrownCapacity(h.cap, Len(es)) \in Nat /\ Len(es) <= GrownCapacity(h.cap, Len(es))
  <2>1. h.cap \in Nat /\ Len(es) \in Nat
    BY <1>1, <1>5
  <2> QED
    BY <2>1, GrownIsEnough
<1>13. /\ u \in Header(V)
       /\ u.entries = es
       /\ u.cap = GrownCapacity(h.cap, Len(es))
       /\ u.indexEntryCount = Len(es)
       /\ u.regionCount = Len(es)
  <2> DEFINE cap == GrownCapacity(h.cap, Len(es))
             cnt == h.indexEntryCount + 1
             len == Len(es)
  <2>1. cap \in Nat /\ cnt \in Nat /\ cnt = len /\ len \in Nat
    BY <1>1, <1>5, <1>12
  <2>2. h \in Header(V)
    BY DEF Table
  <2>3. u = [h EXCEPT !.entries = es, !.cap = cap, !.indexEntryCount = cnt,
                      !.regionCount = len]
    BY <2>2 DEF Header
  <2> HIDE DEF cap, cnt, len, u
  <2>4. /\ u \in Header(V)
        /\ u.entries = es /\ u.cap = cap
        /\ u.indexEntryCount = cnt /\ u.regionCount = len
    BY <1>5, <2>1, <2>2, <2>3 DEF Header
  <2> QED
    BY <2>1, <2>4 DEF cap, len
<1> HIDE DEF u, g
<1>14. Table(V, u)
  BY <1>6, <1>8, <1>10, <1>12, <1>13 DEF Table, IndexTable
<1> DEFINE n == SyncDataStoreLayout(u)
<1>15. /\ Table(V, n)
       /\ DataStore(n)
       /\ \A tag : FindIndexEntry(n.entries, tag) = FindIndexEntry(es, tag)
  BY <1>13, <1>14, SyncKeepsTable
<1>16. /\ Len(n.entries) = Len(es)
       /\ \A i \in 1..Len(es) : n.entries[i].cnt = es[i].cnt
  BY <1>13, SyncKeeps
<1> HIDE DEF n
<1>17. LET k == FindIndexEntry(es, e.tag) IN k \in 1..Len(es) /\ es[k].cnt = e.cnt
  <2> DEFINE k == FindIndexEntry(es, e.tag)
  <2>1. k \in 0..Len(es) /\ k \in 1..p /\ es[k].tag = e.tag
    BY <1>5, <1>7, FindIndexEntryFinds
  <2>2. k \in 1..Len(es)
    BY <2>1
  <2>3. es[k] = e
    <3> HIDE DEF k, os
    <3>1. es[k] = e \/ \E i \in 1..Len(os) : es[k] = os[i]
      BY <1>7, <2>2
    <3> QED
      BY <1>4, <2>1, <3>1
  <2> QED
    BY <2>2, <2>3
<1> QED
  BY <1>5, <1>9, <1>11, <1>15, <1>16, <1>17 DEF n

(* DeleteIndexEntryIfExists removes the entry and nothing else. *)
LEMMA DeleteKeepsTable ==
    ASSUME NEW V, NEW h, Table(V, h), NEW tag, tag # SigTagHeaderSignatures
    PROVE  LET n == DeleteIndexEntryIfExists(h, tag)
           IN  Table(V, n) /\ (n = h \/ DataStore(n))
<1> DEFINE os == h.entries
           k  == FindIndexEntry(os, tag)
           t  == RegionTrailerEntry(os)
           es == RemoveAt(os, k)
           g  == [h EXCEPT !.entries = es, !.indexEntryCount = @ - 1]
           u  == [g EXCEPT !.regionCount = Len(es)]
<1>1. /\ os \in Seq(Entry(V)) /\ Len(os) \in Nat
      /\ t \in 1..Len(os) /\ os[t].tag = SigTagHeaderSignatures
  BY TrailerIndex
<1>2. k \in 0..Len(os) /\ (k # 0 => os[k].tag = tag)
  BY <1>1, FindIndexEntryFinds
<1>3. CASE k = 0
  BY <1>3 DEF DeleteIndexEntryIfExists
<1>4. CASE k # 0
  <2>1. /\ h \in Header(V) /\ h.cap \in Nat /\ h.indexEntryCount = Len(os)
        /\ Len(os) <= h.cap
        /\ \A i, j \in 1..Len(os) : i < j => os[i].tag < os[j].tag
        /\ \A i \in 1..Len(os) : os[i].tag \in Nat /\ os[i].len > 0
    BY <1>1, EntryFields DEF Table, IndexTable, Header
  <2>2. k \in 1..Len(os) /\ k # t
    BY <1>1, <1>2, <1>4
  <2> HIDE DEF k, t
  <2>3. /\ es \in Seq(Entry(V))
        /\ Len(es) = Len(os) - 1
        /\ \A i \in 1..(Len(os) - 1) : es[i] = IF i < k THEN os[i] ELSE os[i + 1]
    <3> DEFINE S == Entry(V)
    <3> HIDE DEF os, S
    <3>1. os \in Seq(S)
      BY <1>1 DEF S
    <3>2. /\ RemoveAt(os, k) \in Seq(S)
          /\ Len(RemoveAt(os, k)) = Len(os) - 1
          /\ \A i \in 1..(Len(os) - 1) :
                RemoveAt(os, k)[i] = IF i < k THEN os[i] ELSE os[i + 1]
      BY <2>2, <3>1, RemoveAtElements
    <3> QED
      BY <3>2 DEF S
  <2>4. g.entries = es
    BY <2>1 DEF Header
  <2>5. DeleteIndexEntryIfExists(h, tag) =
           SyncDataStoreLayout(UpdateSignedRegionTrailer(g))
    BY <1>4 DEF DeleteIndexEntryIfExists, k
  <2> HIDE DEF es
  <2>6. ASSUME NEW i \in 1..Len(es)
        PROVE  \E j \in 1..Len(os) : es[i] = os[j] /\ j >= i /\ (j = i \/ j = i + 1)
                                     /\ (i < k => j = i) /\ (i >= k => j = i + 1)
    <3>1. CASE i < k
      <4>1. i \in 1..Len(os) /\ es[i] = os[i]
        BY <1>1, <2>2, <2>3, <3>1
      <4> QED
        BY <2>2, <3>1, <4>1
    <3>2. CASE i >= k
      <4>1. i + 1 \in 1..Len(os) /\ es[i] = os[i + 1]
        BY <1>1, <2>2, <2>3, <3>2
      <4> QED
        BY <2>2, <3>2, <4>1
    <3>3. i < k \/ i >= k
      BY <2>2
    <3> QED
      BY <3>1, <3>2, <3>3, Zenon
  <2>7. \A i \in 1..Len(es) : es[i].len > 0
    <3> HIDE DEF os
    <3> QED
      BY <2>1, <2>6
  <2>8. \A i, j \in 1..Len(es) : i < j => es[i].tag < es[j].tag
    <3> SUFFICES ASSUME NEW i \in 1..Len(es), NEW j \in 1..Len(es), i < j
                 PROVE  es[i].tag < es[j].tag
      OBVIOUS
    <3> HIDE DEF os
    <3>1. PICK a \in 1..Len(os) : /\ es[i] = os[a]
                                  /\ i < k => a = i
                                  /\ i >= k => a = i + 1
      BY <2>6
    <3>2. PICK b \in 1..Len(os) : /\ es[j] = os[b]
                                  /\ j < k => b = j
                                  /\ j >= k => b = j + 1
      BY <2>6
    <3>3. a < b
      BY <2>2, <3>1, <3>2
    <3> QED
      BY <2>1, <3>1, <3>2, <3>3
  <2>9. RegionTrailerEntry(es) # 0
    <3>1. \E j \in 1..Len(es) : es[j] = os[t]
      <4>1. CASE t < k
        <5>1. t \in 1..Len(es) /\ es[t] = os[t]
          BY <1>1, <2>2, <2>3, <4>1
        <5> QED
          BY <5>1
      <4>2. CASE t > k
        <5>1. t - 1 \in 1..Len(es) /\ es[t - 1] = os[t]
          BY <1>1, <2>2, <2>3, <4>2
        <5> QED
          BY <5>1
      <4>3. t < k \/ t > k
        BY <1>1, <2>2
      <4> QED
        BY <4>1, <4>2, <4>3, Zenon
    <3> HIDE DEF os
    <3>2. PICK j \in 1..Len(es) : es[j].tag = SigTagHeaderSignatures
      BY <1>1, <3>1
    <3>3. RegionTrailerEntry(es) \in 1..j
      BY <2>3, <3>2, FindIndexEntryFinds DEF RegionTrailerEntry
    <3> QED
      BY <3>3
  <2>10. DeleteIndexEntryIfExists(h, tag) = SyncDataStoreLayout(u)
    BY <2>4, <2>5, <2>9 DEF UpdateSignedRegionTrailer
  <2>11. /\ u \in Header(V)
         /\ u.entries = es
         /\ u.cap = h.cap
         /\ u.indexEntryCount = Len(es)
         /\ u.regionCount = Len(es)
    <3> DEFINE cnt == h.indexEntryCount - 1
               len == Len(es)
    <3>1. cnt = len /\ len \in Nat
      BY <1>1, <2>1, <2>2, <2>3
    <3>2. u = [h EXCEPT !.entries = es, !.indexEntryCount = cnt, !.regionCount = len]
      BY <2>1 DEF Header
    <3> HIDE DEF cnt, len, u
    <3>3. /\ u \in Header(V)
          /\ u.entries = es /\ u.cap = h.cap
          /\ u.indexEntryCount = cnt /\ u.regionCount = len
      BY <2>1, <2>3, <3>1, <3>2 DEF Header
    <3> QED
      BY <3>1, <3>3 DEF len
  <2> HIDE DEF u, g
  <2>12. Len(es) <= u.cap
    BY <1>1, <2>1, <2>2, <2>3, <2>11
  <2>13. Table(V, u)
    BY <2>7, <2>8, <2>9, <2>11, <2>12 DEF Table, IndexTable
  <2> QED
    BY <2>10, <2>13, SyncKeepsTable
<1> QED
  BY <1>3, <1>4

-----------------------------------------------------------------------------
(* The end of the data store is well defined: some entry has the largest     *)
(* offset.                                                                   *)
LEMMA FindNextType ==
    ASSUME NEW V, NEW es \in Seq(Entry(V)), NEW fmt
    PROVE  FindNextSuitablePayloadOffset(es, fmt) \in Nat
<1> DEFINE data == DataEntries(es)
           Upto(n) == {i \in data : i <= n}
           Beats(i, j) == \/ es[i].offset > es[j].offset
                          \/ es[i].offset = es[j].offset /\ i <= j
           Best(D) == \E i \in D : \A j \in D : Beats(i, j)
           S == {n \in 0..Len(es) : Upto(n) = {} \/ Best(Upto(n))}
<1>0. /\ Len(es) \in Nat
      /\ \A i \in data : i \in 1..Len(es)
      /\ \A i \in 1..Len(es) : es[i].offset \in Nat /\ es[i].len \in Nat
  BY EntryFields DEF DataEntries
<1> HIDE DEF data
<1>1. 0 \in S
  BY <1>0
<1>2. ASSUME NEW n \in 1..Len(es), n - 1 \in S PROVE n \in S
  <2>1. CASE n \notin data
    <3>1. Upto(n) = Upto(n - 1)
      BY <1>0, <2>1
    <3> HIDE DEF Upto, Best
    <3> QED
      BY <1>2, <3>1
  <2>2. CASE n \in data
    <3>1. Upto(n) = Upto(n - 1) \cup {n}
      <4>1. \A i \in data : i <= n <=> (i <= n - 1 \/ i = n)
        BY <1>0
      <4> QED
        BY <2>2, <4>1
    <3>2. CASE Upto(n - 1) = {}
      <4>1. Upto(n) = {n}
        BY <3>1, <3>2
      <4>2. Beats(n, n)
        BY <1>0
      <4> HIDE DEF Upto, Beats
      <4> QED
        BY <4>1, <4>2
    <3>3. CASE Best(Upto(n - 1))
      <4>1. PICK i \in Upto(n - 1) : \A j \in Upto(n - 1) : Beats(i, j)
        BY <3>3
      <4>2. i \in 1..Len(es) /\ i <= n
        BY <1>0, <4>1
      <4>3. CASE es[n].offset > es[i].offset
        <5>1. ASSUME NEW j \in Upto(n) PROVE Beats(n, j)
          <6>1. CASE j = n
            BY <1>0, <6>1
          <6>2. CASE j # n
            <7>1. j \in Upto(n - 1)
              BY <3>1, <6>2
            <7>2. j \in 1..Len(es) /\ es[i].offset >= es[j].offset
              <8>1. Beats(i, j)
                BY <4>1, <7>1
              <8>2. j \in data
                OBVIOUS
              <8> HIDE DEF Upto
              <8> QED
                BY <1>0, <4>2, <8>1, <8>2
            <7>3. es[n].offset > es[j].offset
              BY <1>0, <4>2, <4>3, <7>2
            <7> QED
              BY <7>3
          <6> QED
            BY <6>1, <6>2
        <5>2. n \in Upto(n)
          BY <3>1
        <5> HIDE DEF Upto, Beats
        <5> QED
          BY <5>1, <5>2
      <4>4. CASE ~(es[n].offset > es[i].offset)
        <5>1. ASSUME NEW j \in Upto(n) PROVE Beats(i, j)
          <6>1. CASE j = n
            BY <1>0, <4>2, <4>4, <6>1
          <6>2. CASE j # n
            <7>1. j \in Upto(n - 1)
              BY <3>1, <6>2
            <7> QED
              BY <4>1, <7>1
          <6> QED
            BY <6>1, <6>2
        <5>2. i \in Upto(n)
          BY <3>1
        <5> HIDE DEF Upto, Beats
        <5> QED
          BY <5>1, <5>2
      <4> QED
        BY <4>3, <4>4
    <3> HIDE DEF Best, Upto
    <3> QED
      BY <1>2, <3>2, <3>3
  <2> QED
    BY <2>1, <2>2
<1>3. Len(es) \in S
  <2> HIDE DEF S
  <2>1. \A n \in 0..Len(es) : n \in S
    BY <1>0, <1>1, <1>2, IntervalInduction
  <2> QED
    BY <1>0, <2>1
<1>4. Upto(Len(es)) = data
  BY <1>0
<1>5. data = {} \/ Best(data)
  <2> HIDE DEF Upto, Best
  <2> QED
    BY <1>3, <1>4
<1>6. CASE data = {}
  BY <1>6 DEF FindNextSuitablePayloadOffset, data
<1>7. CASE data # {}
  <2> DEFINE last == CHOOSE i \in data : \A j \in data : Beats(i, j)
  <2>1. last \in data
    <3>1. \E i \in data : \A j \in data : Beats(i, j)
      BY <1>5, <1>7
    <3> HIDE DEF Beats
    <3> QED
      BY <3>1
  <2>2. FindNextSuitablePayloadOffset(es, fmt) = Aligned(EndOffset(es[last]), fmt)
    BY <1>7 DEF FindNextSuitablePayloadOffset, data
  <2> HIDE DEF last
  <2>3. EndOffset(es[last]) \in Nat
    BY <1>0, <2>1 DEF EndOffset
  <2> QED
    BY <2>2, <2>3, AlignedIsAligned
<1> QED
  BY <1>6, <1>7

(* Alignment padding is less than 8 bytes. *)
LEMMA ActualSizeBounds ==
    ASSUME NEW offset \in Nat, NEW size \in Nat, NEW fmt
    PROVE  /\ ActualSize(offset, size, fmt) \in Nat
           /\ size <= ActualSize(offset, size, fmt)
           /\ ActualSize(offset, size, fmt) < size + 8
           /\ Aligned(offset, fmt) + size = offset + ActualSize(offset, size, fmt)
<1> DEFINE c == CalcAlignmentByteCount(offset, GetRequiredAlignment(fmt))
<1>1. Aligned(offset, fmt) = offset + c /\ ActualSize(offset, size, fmt) = size + c
  BY DEF Aligned, ActualSize
<1>2. c \in Int
  <2> DEFINE m == GetRequiredAlignment(fmt)
  <2>1. m = 1 \/ m = 2 \/ m = 4 \/ m = 8
    BY RequiredAlignments
  <2> HIDE DEF m
  <2> QED
    BY <2>1 DEF CalcAlignmentByteCount, m
<1>3. Aligned(offset, fmt) \in Nat /\ Aligned(offset, fmt) >= offset
      /\ Aligned(offset, fmt) < offset + 8
  BY AlignedIsAligned
<1> HIDE DEF c
<1> QED
  BY <1>1, <1>2, <1>3

(* Changing an entry other than in its tag. *)
LEMMA UpdateEntryKeepsTable ==
    ASSUME NEW V, NEW h, Table(V, h), NEW r \in 1..Len(h.entries),
           NEW f \in Entry(V), f.tag = h.entries[r].tag, f.len > 0,
           NEW n, n = [h EXCEPT !.entries[r] = f]
    PROVE  /\ Table(V, n)
           /\ Len(n.entries) = Len(h.entries)
           /\ n.entries[r] = f
           /\ \A i \in 1..Len(h.entries) : n.entries[i].tag = h.entries[i].tag
<1> DEFINE es == h.entries
           fs == [es EXCEPT ![r] = f]
<1>1. h \in Header(V) /\ es \in Seq(Entry(V)) /\ Len(es) \in Nat
  BY DEF Table, Header
<1>2. /\ fs \in Seq(Entry(V))
      /\ Len(fs) = Len(es)
      /\ \A i \in 1..Len(es) : fs[i] = IF i = r THEN f ELSE es[i]
  BY <1>1
<1>3. n = [h EXCEPT !.entries = fs]
  OBVIOUS
<1> HIDE DEF fs
<1>4. /\ n \in Header(V)
      /\ n.entries = fs
      /\ n.cap = h.cap
      /\ n.indexEntryCount = h.indexEntryCount
      /\ n.regionCount = h.regionCount
  BY <1>1, <1>2, <1>3 DEF Header
<1>5. \A i \in 1..Len(es) : fs[i].tag = es[i].tag
  BY <1>2
<1>6. ASSUME NEW tag PROVE FindIndexEntry(fs, tag) = FindIndexEntry(es, tag)
  <2> HIDE DEF es
  <2> QED
    BY <1>1, <1>2, <1>5, SameTagsSameIndex
<1>7. IndexTable(n)
  BY <1>2, <1>4, <1>5, <1>6 DEF Table, IndexTable, RegionTrailerEntry
<1>8. \A i \in 1..Len(fs) : fs[i].len > 0
  BY <1>2 DEF Table
<1>9. Table(V, n)
  BY <1>4, <1>7, <1>8 DEF Table
<1> QED
  BY <1>2, <1>4, <1>5, <1>9

(* Handing out the start of the reserved space never leaves it empty. *)
LEMMA TakeKeepsTable ==
    ASSUME NEW V, NEW h, Table(V, h), NEW r \in 1..Len(h.entries),
           NEW size \in Nat, NEW fmt,
           NEW a, a = TakeFromReservedSpace(h, r, size, fmt)
    PROVE  /\ Table(V, a.hdr)
           /\ Len(a.hdr.entries) = Len(h.entries)
           /\ a.addr \in Nat
           /\ \A i \in 1..Len(h.entries) : a.hdr.entries[i].tag = h.entries[i].tag
<1> DEFINE e    == h.entries[r]
           act  == ActualSize(e.offset, size, fmt)
           left == IF e.cnt - act > 0 THEN e.cnt - act ELSE ReservedAlloc
           off  == e.offset + act
           f    == [e EXCEPT !.offset = off, !.cnt = left, !.len = left]
<1>1. e \in Entry(V) /\ e.offset \in Nat /\ e.cnt \in Nat
  BY EntryFields DEF Table, Header
<1>2. act \in Nat
  BY <1>1, ActualSizeBounds
<1> HIDE DEF act, e
<1>3. left \in Nat /\ left > 0 /\ off \in Nat
  BY <1>1, <1>2, ReservedAllocAssumption
<1>4. a = [hdr  |-> [h EXCEPT !.entries[r] = f], addr |-> Aligned(e.offset, fmt)]
  BY DEF TakeFromReservedSpace, act, e
<1>5. Aligned(e.offset, fmt) \in Nat
  BY <1>1, AlignedIsAligned
<1> HIDE DEF left, off
<1>6. f \in Entry(V) /\ f.tag = e.tag /\ f.len > 0
  BY <1>1, <1>3 DEF Entry
<1> DEFINE n == [h EXCEPT !.entries[r] = f]
<1>7. /\ Table(V, n)
      /\ Len(n.entries) = Len(h.entries)
      /\ \A i \in 1..Len(h.entries) : n.entries[i].tag = h.entries[i].tag
  <2> HIDE DEF f
  <2>1. f \in Entry(V) /\ f.tag = h.entries[r].tag /\ f.len > 0
    BY <1>6 DEF e
  <2>2. n = [h EXCEPT !.entries[r] = f]
    OBVIOUS
  <2> HIDE DEF n
  <2> QED
    BY <2>1, <2>2, UpdateEntryKeepsTable
<1>8. a.hdr = n /\ a.addr = Aligned(e.offset, fmt)
  BY <1>4
<1> HIDE DEF n
<1> QED
  BY <1>5, <1>7, <1>8

(* allocateSpaceInDatastore ends after at most one recursive call: once room *)
(* has been made the reserved space is large enough, wherever it has moved   *)
(* and whatever the alignment there.                                         *)
THEOREM MakeRoomMakesRoom ==
    ASSUME NEW V, Zeroes \in V, NEW h, Table(V, h), NEW size \in Nat, NEW fmt
    PROVE  LET n == MakeRoomFor(h, size, fmt)
           IN  /\ HasRoomFor(n, size, fmt)
               /\ Table(V, n)
               /\ Len(n.entries) \in {Len(h.entries), Len(h.entries) + 1}
               /\ \A tag : tag # SigTagReservedSpace /\ FindIndexEntry(h.entries, tag) = 0
                              => FindIndexEntry(n.entries, tag) = 0
<1> DEFINE r == FindIndexEntry(h.entries, SigTagReservedSpace)
           n == MakeRoomFor(h, size, fmt)
<1>1. h.entries \in Seq(Entry(V)) /\ Len(h.entries) \in Nat
  BY DEF Table, Header
<1>2. r \in 0..Len(h.entries)
  BY <1>1, FindIndexEntryFinds
<1>3. CASE HasRoomFor(h, size, fmt)
  <2>1. n = h
    BY <1>3 DEF MakeRoomFor
  <2> QED
    BY <1>3, <2>1
<1>4. CASE ~HasRoomFor(h, size, fmt) /\ r # 0
  <2> DEFINE e     == h.entries[r]
             grown == ActualSize(e.offset, size, fmt) + ReservedAlloc
             es    == [h.entries EXCEPT ![r] = [e EXCEPT !.cnt = grown, !.len = grown]]
             start == IF IsAtEndOfDataStore(h.entries, r) THEN e.offset
                      ELSE FindNextSuitablePayloadOffset(es, FORMAT_TYPE_BINARY)
             f     == [e EXCEPT !.offset = start, !.cnt = grown, !.len = grown]
  <2>1. r \in 1..Len(h.entries)
    BY <1>2, <1>4
  <2>2. n = [h EXCEPT !.entries[r] = f]
    BY <1>4 DEF MakeRoomFor, GrowReservedSpace
  <2>3. e \in Entry(V) /\ e.offset \in Nat
    BY <1>1, <2>1, EntryFields
  <2>4. grown \in Nat /\ grown >= size + 8
    BY <2>3, ActualSizeBounds, ReservedAllocAssumption
  <2> HIDE DEF grown
  <2>5. start \in Nat
    <3>1. [e EXCEPT !.cnt = grown, !.len = grown] \in Entry(V)
      BY <2>3, <2>4 DEF Entry
    <3>2. es \in Seq(Entry(V))
      BY <1>1, <2>1, <3>1
    <3> HIDE DEF es, e
    <3> QED
      BY <2>3, <3>2, FindNextType
  <2> HIDE DEF start
  <2>6. f \in Entry(V) /\ f.tag = h.entries[r].tag /\ f.len > 0
        /\ f.cnt = grown /\ f.offset = start
    <3> HIDE DEF e
    <3>1. f \in Entry(V) /\ f.tag = e.tag /\ f.len = grown
          /\ f.cnt = grown /\ f.offset = start
      BY <2>3, <2>4, <2>5 DEF Entry
    <3> HIDE DEF f
    <3> QED
      BY <2>4, <3>1 DEF e
  <2> HIDE DEF f, n, e, r
  <2>7. /\ Table(V, n)
        /\ Len(n.entries) = Len(h.entries)
        /\ n.entries[r] = f
        /\ \A tag : FindIndexEntry(n.entries, tag) = FindIndexEntry(h.entries, tag)
    <3>1. f \in Entry(V) /\ f.tag = h.entries[r].tag /\ f.len > 0
      BY <2>6
    <3>2. Table(V, n) /\ Len(n.entries) = Len(h.entries) /\ n.entries[r] = f
      BY <2>1, <2>2, <3>1, UpdateEntryKeepsTable
    <3>3. \A i \in 1..Len(h.entries) : n.entries[i].tag = h.entries[i].tag
      BY <2>1, <2>2, <3>1, UpdateEntryKeepsTable
    <3>4. n.entries \in Seq(Entry(V))
      BY <3>2 DEF Table, Header
    <3>5. ASSUME NEW tag
          PROVE  FindIndexEntry(n.entries, tag) = FindIndexEntry(h.entries, tag)
      BY <1>1, <3>2, <3>3, <3>4, SameTagsSameIndex
    <3> QED
      BY <3>2, <3>5
  <2>8. ActualSize(start, size, fmt) \in Nat /\ ActualSize(start, size, fmt) < size + 8
    BY <2>5, ActualSizeBounds
  <2>9. grown >= ActualSize(start, size, fmt)
    BY <2>4, <2>8
  <2>10. HasRoomFor(n, size, fmt)
    BY <1>4, <2>6, <2>7, <2>9 DEF HasRoomFor, r
  <2> QED
    BY <2>7, <2>10 DEF n
<1>5. CASE ~HasRoomFor(h, size, fmt) /\ r = 0
  <2> DEFINE start == FindNextSuitablePayloadOffset(h.entries, FORMAT_TYPE_BINARY)
             bytes == ReservedAlloc + ActualSize(start, size, fmt)
             e     == NewEntry(SigTagReservedSpace, FORMAT_TYPE_BINARY, start,
                               bytes, bytes, Zeroes)
             k     == FindIndexEntry(n.entries, SigTagReservedSpace)
  <2>1. n = InsertIndexEntry(h, e)
    BY <1>5 DEF MakeRoomFor, CreateReservedSpace
  <2>2. start \in Nat
    BY <1>1, FindNextType
  <2> HIDE DEF start
  <2>3. bytes \in Nat /\ bytes >= size + 8
    BY <2>2, ActualSizeBounds, ReservedAllocAssumption
  <2> HIDE DEF bytes
  <2>4. /\ e \in Entry(V) /\ e.len > 0 /\ e.cnt = bytes
        /\ e.tag = SigTagReservedSpace
    BY <2>2, <2>3 DEF NewEntry, Entry, FormatTypes, FORMAT_TYPE_BINARY, SigTagReservedSpace
  <2> HIDE DEF e, n
  <2>5. /\ Table(V, n)
        /\ Len(n.entries) = Len(h.entries) + 1
        /\ k \in 1..Len(n.entries) /\ n.entries[k].cnt = bytes
        /\ \A tag : tag # SigTagReservedSpace /\ FindIndexEntry(h.entries, tag) = 0
                       => FindIndexEntry(n.entries, tag) = 0
    <3>1. FindIndexEntry(h.entries, e.tag) = 0
      BY <1>5, <2>4
    <3>2. LET i == FindIndexEntry(n.entries, e.tag)
          IN  /\ Table(V, n)
              /\ Len(n.entries) = Len(h.entries) + 1
              /\ i \in 1..Len(n.entries) /\ n.entries[i].cnt = e.cnt
      BY <2>1, <2>4, <3>1, InsertKeepsTable
    <3>3. \A tag : tag # e.tag /\ FindIndexEntry(h.entries, tag) = 0
                      => FindIndexEntry(n.entries, tag) = 0
      BY <2>1, <2>4, <3>1, InsertKeepsTable
    <3> QED
      BY <2>4, <3>2, <3>3
  <2>6. n.entries[k].offset \in Nat
    BY <2>5, EntryFields DEF Table, Header
  <2>7. /\ ActualSize(n.entries[k].offset, size, fmt) \in Nat
        /\ ActualSize(n.entries[k].offset, size, fmt) < size + 8
    BY <2>6, ActualSizeBounds
  <2>8. k # 0 /\ n.entries[k].cnt >= ActualSize(n.entries[k].offset, size, fmt)
    BY <2>3, <2>5, <2>7
  <2>9. HasRoomFor(n, size, fmt)
    BY <2>8 DEF HasRoomFor
  <2> QED
    BY <2>5, <2>9 DEF n
<1> QED
  BY <1>3, <1>4, <1>5

(* allocateSpaceInDatastore keeps the index table and adds at most the
   entry of the reserved space. *)
LEMMA AllocateKeepsTable ==
    ASSUME NEW V, Zeroes \in V, NEW h, Table(V, h), NEW size \in Nat, NEW fmt
    PROVE  LET a == AllocateSpaceInDatastore(h, size, fmt)
           IN  /\ Table(V, a.hdr)
               /\ Len(a.hdr.entries) \in {Len(h.entries), Len(h.entries) + 1}
               /\ a.addr \in Nat
               /\ \A tag : tag # SigTagReservedSpace /\ FindIndexEntry(h.entries, tag) = 0
                              => FindIndexEntry(a.hdr.entries, tag) = 0
<1> DEFINE n == MakeRoomFor(h, size, fmt)
           r == FindIndexEntry(n.entries, SigTagReservedSpace)
           a == TakeFromReservedSpace(n, r, size, fmt)
<1>1. /\ HasRoomFor(n, size, fmt)
      /\ Table(V, n)
      /\ Len(n.entries) \in {Len(h.entries), Len(h.entries) + 1}
      /\ \A tag : tag # SigTagReservedSpace /\ FindIndexEntry(h.entries, tag) = 0
                     => FindIndexEntry(n.entries, tag) = 0
  BY MakeRoomMakesRoom
<1>2. AllocateSpaceInDatastore(h, size, fmt) = a
  BY DEF AllocateSpaceInDatastore
<1> HIDE DEF n
<1>3. r \in 1..Len(n.entries)
  <2>1. n.entries \in Seq(Entry(V))
    BY <1>1 DEF Table, Header
  <2>2. r \in 0..Len(n.entries)
    BY <2>1, FindIndexEntryFinds
  <2> QED
    BY <1>1, <2>2 DEF HasRoomFor
<1> HIDE DEF r
<1>4. /\ Table(V, a.hdr)
      /\ Len(a.hdr.entries) = Len(n.entries)
      /\ a.addr \in Nat
      /\ \A tag : FindIndexEntry(a.hdr.entries, tag) = FindIndexEntry(n.entries, tag)
  <2>1. Table(V, n)
    BY <1>1
  <2>2. Table(V, a.hdr)
    BY <1>3, <2>1, TakeKeepsTable
  <2>3. Len(a.hdr.entries) = Len(n.entries)
    BY <1>3, <2>1, TakeKeepsTable
  <2>4. a.addr \in Nat
    BY <1>3, <2>1, TakeKeepsTable
  <2>5. \A i \in 1..Len(n.entries) : a.hdr.entries[i].tag = n.entries[i].tag
    BY <1>3, <2>1, TakeKeepsTable
  <2> HIDE DEF a
  <2>6. a.hdr.entries \in Seq(Entry(V)) /\ n.entries \in Seq(Entry(V))
    BY <2>1, <2>2 DEF Table, Header
  <2>7. ASSUME NEW tag
        PROVE  FindIndexEntry(a.hdr.entries, tag) = FindIndexEntry(n.entries, tag)
    BY <2>3, <2>5, <2>6, SameTagsSameIndex
  <2> QED
    BY <2>2, <2>3, <2>4, <2>7
<1> HIDE DEF a
<1> QED
  BY <1>1, <1>2, <1>4

(* SetOrAddIndexEntry leaves a header that rpm accepts, also when the new    *)
(* payload is lost because the slice has moved.                              *)
THEOREM SetOrAddKeepsTable ==
    ASSUME NEW V, Zeroes \in V, NEW h, Table(V, h),
           NEW tag \in Nat, tag # SigTagReservedSpace,
           NEW fmt \in FormatTypes, NEW cnt \in Nat, NEW len \in Nat, len > 0, NEW val \in V
    PROVE  LET n == SetOrAddIndexEntry(h, tag, fmt, cnt, len, val)
           IN  Table(V, n) /\ DataStore(n)
<1> DEFINE k == FindIndexEntry(h.entries, tag)
           n == SetOrAddIndexEntry(h, tag, fmt, cnt, len, val)
<1>1. h.entries \in Seq(Entry(V)) /\ Len(h.entries) \in Nat
  BY DEF Table, Header
<1>2. k \in 0..Len(h.entries)
  BY <1>1, FindIndexEntryFinds
<1>3. CASE k = 0
  <2> DEFINE a == AllocateSpaceInDatastore(h, len, fmt)
             e == NewEntry(tag, fmt, a.addr, cnt, len, val)
  <2>1. n = InsertIndexEntry(a.hdr, e)
    BY <1>3 DEF SetOrAddIndexEntry, AddIndexEntry
  <2>2. /\ Table(V, a.hdr)
        /\ a.addr \in Nat
        /\ FindIndexEntry(a.hdr.entries, tag) = 0
    BY <1>3, AllocateKeepsTable
  <2> HIDE DEF a
  <2>3. e \in Entry(V) /\ e.tag = tag /\ e.len > 0
    BY <2>2 DEF NewEntry, Entry
  <2> HIDE DEF e, n
  <2> QED
    BY <2>1, <2>2, <2>3, InsertKeepsTable DEF n
<1>4. CASE k # 0
  <2> DEFINE grows == len > h.entries[k].len /\ ~IsAtEndOfDataStore(h.entries, k)
             al == IF grows THEN AllocateSpaceInDatastore(h, len, fmt)
                   ELSE [hdr |-> h, addr |-> h.entries[k].offset]
             e == al.hdr.entries[k]
             f == [e EXCEPT !.offset = al.addr, !.cnt = cnt, !.len = len, !.val = val]
             u == IF Len(al.hdr.entries) > h.cap THEN al.hdr
                  ELSE [al.hdr EXCEPT !.entries[k] = f]
  <2>1. k \in 1..Len(h.entries)
    BY <1>2, <1>4
  <2>2. n = SyncDataStoreLayout(u)
    BY <1>4 DEF SetOrAddIndexEntry, ReplacePayload
  <2>3. /\ Table(V, al.hdr)
        /\ al.addr \in Nat
        /\ Len(al.hdr.entries) \in {Len(h.entries), Len(h.entries) + 1}
    <3>1. CASE grows
      BY <3>1, AllocateKeepsTable
    <3>2. CASE ~grows
      <4>1. al.hdr = h /\ al.addr = h.entries[k].offset
        BY <3>2
      <4>2. h.entries[k].offset \in Nat
        BY <1>1, <2>1, EntryFields
      <4> HIDE DEF al
      <4> QED
        BY <4>1, <4>2
    <3> QED
      BY <3>1, <3>2
  <2> HIDE DEF al
  <2>4. k \in 1..Len(al.hdr.entries)
    BY <1>1, <2>1, <2>3
  <2>5. e \in Entry(V)
    BY <2>3, <2>4, EntryFields DEF Table, Header
  <2>6. f \in Entry(V) /\ f.tag = e.tag /\ f.len > 0
    BY <2>3, <2>5 DEF Entry
  <2> HIDE DEF f
  <2>7. Table(V, u)
    <3>1. PICK m : m = [al.hdr EXCEPT !.entries[k] = f]
      OBVIOUS
    <3>2. Table(V, m)
      BY <2>3, <2>4, <2>6, <3>1, UpdateEntryKeepsTable
    <3> QED
      BY <2>3, <3>1, <3>2
  <2> HIDE DEF u, n
  <2> QED
    BY <2>2, <2>7, SyncKeepsTable DEF n
<1> QED
  BY <1>3, <1>4

-----------------------------------------------------------------------------
(* Entries that differ in nothing but the place of their data. *)
Same(e, f) ==
    /\ e.tag = f.tag /\ e.fmt = f.fmt
    /\ e.cnt = f.cnt /\ e.len = f.len /\ e.val = f.val

(* The entries of es whose tag is not in T are in fs. *)
Carried(es, fs, T) ==
    \A i \in 1..Len(es) : es[i].tag \notin T => \E j \in 1..Len(fs) : Same(es[i], fs[j])

(* Two index tables that agree on all tags but those of T. *)
SameBut(es, fs, T) == Carried(es, fs, T) /\ Carried(fs, es, T)

(* Two index tables with the same tags in the same places. *)
SameTags(es, fs) ==
    Len(es) = Len(fs) /\ \A i \in 1..Len(es) : es[i].tag = fs[i].tag

(* The entries with smaller tags keep their places. *)
SameUpTo(es, fs, tag) ==
    \A i \in 1..Len(es) : es[i].tag < tag => i \in 1..Len(fs) /\ fs[i].tag = es[i].tag

(* An entry with all of this is in the table. *)
Stored(es, tag, fmt, cnt, len, val) ==
    \E j \in 1..Len(es) : /\ es[j].tag = tag /\ es[j].fmt = fmt
                          /\ es[j].cnt = cnt /\ es[j].len = len /\ es[j].val = val

(* Agreement is transitive. *)
LEMMA SameButTrans ==
    ASSUME NEW es, NEW fs, NEW gs, NEW S, NEW T,
           SameBut(es, fs, S), SameBut(fs, gs, T)
    PROVE  SameBut(es, gs, S \cup T)
<1>1. Carried(es, gs, S \cup T)
  <2> SUFFICES ASSUME NEW i \in 1..Len(es), es[i].tag \notin S \cup T
               PROVE  \E j \in 1..Len(gs) : Same(es[i], gs[j])
    BY DEF Carried
  <2>1. PICK k \in 1..Len(fs) : Same(es[i], fs[k])
    BY DEF SameBut, Carried
  <2>2. PICK j \in 1..Len(gs) : Same(fs[k], gs[j])
    BY <2>1 DEF SameBut, Carried, Same
  <2> QED
    BY <2>1, <2>2 DEF Same
<1>2. Carried(gs, es, S \cup T)
  <2> SUFFICES ASSUME NEW i \in 1..Len(gs), gs[i].tag \notin S \cup T
               PROVE  \E j \in 1..Len(es) : Same(gs[i], es[j])
    BY DEF Carried
  <2>1. PICK k \in 1..Len(fs) : Same(gs[i], fs[k])
    BY DEF SameBut, Carried
  <2>2. PICK j \in 1..Len(es) : Same(fs[k], es[j])
    BY <2>1 DEF SameBut, Carried, Same
  <2> QED
    BY <2>1, <2>2 DEF Same
<1> QED
  BY <1>1, <1>2 DEF SameBut

(* syncDataStoreLayout moves data and changes nothing else. *)
LEMMA SyncSame ==
    ASSUME NEW V, NEW h \in Header(V)
    PROVE  LET s == SyncDataStoreLayout(h)
           IN  /\ SameBut(h.entries, s.entries, {})
               /\ Len(s.entries) = Len(h.entries)
               /\ \A i \in 1..Len(h.entries) : Same(h.entries[i], s.entries[i])
<1> DEFINE s == SyncDataStoreLayout(h)
<1>1. /\ Len(s.entries) = Len(h.entries)
      /\ \A i \in 1..Len(h.entries) :
                     /\ s.entries[i].tag = h.entries[i].tag
                     /\ s.entries[i].fmt = h.entries[i].fmt
                     /\ s.entries[i].cnt = h.entries[i].cnt
                     /\ s.entries[i].len = h.entries[i].len
                     /\ s.entries[i].val = h.entries[i].val
  BY SyncKeeps
<1> HIDE DEF s
<1>2. \A i \in 1..Len(h.entries) : Same(h.entries[i], s.entries[i]) /\ Same(s.entries[i], h.entries[i])
  BY <1>1 DEF Same
<1>3. SameBut(h.entries, s.entries, {})
  BY <1>1, <1>2 DEF SameBut, Carried
<1> QED
  BY <1>1, <1>2, <1>3 DEF s

(* insertIndexEntry adds the entry and leaves the others. *)
LEMMA InsertSame ==
    ASSUME NEW V, NEW h, Table(V, h), NEW e \in Entry(V)
    PROVE  LET n == InsertIndexEntry(h, e)
           IN  /\ SameBut(h.entries, n.entries, {e.tag})
               /\ \E j \in 1..Len(n.entries) : Same(e, n.entries[j])
               /\ SameUpTo(h.entries, n.entries, e.tag)
<1> DEFINE os == h.entries
           p  == InsertPosition(os, e.tag)
           es == InsertAt(os, p, e)
           g  == [h EXCEPT !.entries = es,
                           !.cap = GrownCapacity(@, Len(es)),
                           !.indexEntryCount = @ + 1]
           u  == UpdateSignedRegionTrailer(g)
           n  == InsertIndexEntry(h, e)
<1>1. /\ h \in Header(V) /\ os \in Seq(Entry(V)) /\ Len(os) \in Nat
      /\ h.cap \in Nat /\ h.indexEntryCount \in Nat
      /\ \A i, j \in 1..Len(os) : i < j => os[i].tag < os[j].tag
  BY DEF Table, IndexTable, Header
<1>2. /\ p \in 1..(Len(os) + 1)
      /\ \A i \in 1..Len(os) : i >= p => os[i].tag > e.tag
  <2>1. e.tag \in Nat
    BY DEF Entry
  <2> HIDE DEF os
  <2> QED
    BY <1>1, <2>1, InsertPositionSorts
<1> HIDE DEF p
<1>3. /\ es \in Seq(Entry(V))
      /\ Len(es) = Len(os) + 1
      /\ \A i \in 1..(Len(os) + 1) :
            es[i] = IF i < p THEN os[i] ELSE IF i = p THEN e ELSE os[i - 1]
  <2> DEFINE S == Entry(V)
  <2>1. os \in Seq(S) /\ e \in S
    BY <1>1
  <2> HIDE DEF os, S
  <2>2. /\ InsertAt(os, p, e) \in Seq(S)
        /\ Len(InsertAt(os, p, e)) = Len(os) + 1
        /\ \A i \in 1..(Len(os) + 1) :
              InsertAt(os, p, e)[i] =
                  IF i < p THEN os[i] ELSE IF i = p THEN e ELSE os[i - 1]
    BY <1>2, <2>1, InsertAtElements
  <2> QED
    BY <2>2 DEF S
<1>4. n = SyncDataStoreLayout(u)
  BY DEF InsertIndexEntry, p
<1> HIDE DEF es
<1>5. u \in Header(V) /\ u.entries = es
  <2> DEFINE c == GrownCapacity(h.cap, Len(es))
             m == h.indexEntryCount + 1
  <2>1. c \in Nat /\ m \in Nat
    <3>1. h.cap \in Nat /\ Len(es) \in Nat /\ m \in Nat
      BY <1>1, <1>3
    <3> QED
      BY <3>1, GrownIsEnough
  <2>2. g = [h EXCEPT !.entries = es, !.cap = c, !.indexEntryCount = m]
    BY <1>1 DEF Header
  <2> HIDE DEF c, m, g
  <2>3. g \in Header(V) /\ g.entries = es
    BY <1>1, <1>3, <2>1, <2>2 DEF Header
  <2>4. u = g \/ u = [g EXCEPT !.regionCount = Len(g.entries)]
    BY DEF UpdateSignedRegionTrailer
  <2>5. Len(g.entries) \in Nat
    BY <1>3, <2>3
  <2> HIDE DEF u
  <2> QED
    BY <2>3, <2>4, <2>5 DEF Header
<1> HIDE DEF u, n
<1>6. /\ Len(n.entries) = Len(es)
      /\ \A i \in 1..Len(es) : Same(es[i], n.entries[i])
      /\ SameBut(es, n.entries, {})
  BY <1>4, <1>5, SyncSame
<1>7. SameBut(os, es, {e.tag})
  <2> HIDE DEF os
  <2>1. ASSUME NEW i \in 1..Len(os) PROVE \E j \in 1..Len(es) : Same(os[i], es[j])
    <3>1. CASE i < p
      <4>1. i \in 1..Len(es) /\ es[i] = os[i]
        BY <1>1, <1>2, <1>3, <3>1
      <4> QED
        BY <4>1 DEF Same
    <3>2. CASE i >= p
      <4> DEFINE j == i + 1
      <4>1. j \in 1..Len(es) /\ es[j] = os[i]
        BY <1>1, <1>2, <1>3, <3>2
      <4> HIDE DEF j
      <4> QED
        BY <4>1 DEF Same
    <3>3. i < p \/ i >= p
      BY <1>2
    <3> QED
      BY <3>1, <3>2, <3>3, Zenon
  <2>2. ASSUME NEW i \in 1..Len(es), es[i].tag # e.tag PROVE \E j \in 1..Len(os) : Same(es[i], os[j])
    <3>1. CASE i < p
      <4>1. i \in 1..Len(os) /\ es[i] = os[i]
        BY <1>1, <1>2, <1>3, <3>1
      <4> QED
        BY <4>1 DEF Same
    <3>2. CASE i > p
      <4> DEFINE j == i - 1
      <4>1. j \in 1..Len(os) /\ es[i] = os[j]
        BY <1>1, <1>2, <1>3, <3>2
      <4> HIDE DEF j
      <4> QED
        BY <4>1 DEF Same
    <3>3. CASE i = p
      BY <1>1, <1>2, <1>3, <2>2, <3>3
    <3>4. i < p \/ i > p \/ i = p
      BY <1>2
    <3> QED
      BY <3>1, <3>2, <3>3, <3>4, Zenon
  <2> QED
    BY <2>1, <2>2 DEF SameBut, Carried
<1>8. SameBut(os, n.entries, {e.tag} \cup {})
  BY <1>6, <1>7, SameButTrans
<1>9. Same(e, n.entries[p]) /\ p \in 1..Len(n.entries)
  BY <1>1, <1>2, <1>3, <1>6
<1>10. {e.tag} \cup {} = {e.tag}
  OBVIOUS
<1>11. SameUpTo(os, n.entries, e.tag)
  <2> SUFFICES ASSUME NEW i \in 1..Len(os), os[i].tag < e.tag
               PROVE  i \in 1..Len(n.entries) /\ n.entries[i].tag = os[i].tag
    BY DEF SameUpTo
  <2>1. os[i].tag \in Nat /\ e.tag \in Nat
    <3> HIDE DEF os
    <3> QED
      BY <1>1, EntryFields DEF Entry
  <2> HIDE DEF os
  <2>2. i < p
    BY <1>2, <2>1
  <2>3. i \in 1..Len(es) /\ es[i] = os[i]
    BY <1>1, <1>3, <2>2
  <2> QED
    BY <1>6, <2>3 DEF Same
<1> QED
  BY <1>8, <1>9, <1>10, <1>11 DEF n

(* DeleteIndexEntryIfExists leaves the other entries, and none with the tag. *)
LEMMA DeleteSame ==
    ASSUME NEW V, NEW h, Table(V, h), NEW tag
    PROVE  LET n == DeleteIndexEntryIfExists(h, tag)
           IN  /\ SameBut(h.entries, n.entries, {tag})
               /\ \A j \in 1..Len(n.entries) : n.entries[j].tag # tag
<1> DEFINE os == h.entries
           k  == FindIndexEntry(os, tag)
           es == RemoveAt(os, k)
           g  == [h EXCEPT !.entries = es, !.indexEntryCount = @ - 1]
           u  == UpdateSignedRegionTrailer(g)
           n  == DeleteIndexEntryIfExists(h, tag)
<1>1. /\ h \in Header(V) /\ os \in Seq(Entry(V)) /\ Len(os) \in Nat
      /\ h.indexEntryCount = Len(os)
      /\ \A i, j \in 1..Len(os) : i < j => os[i].tag < os[j].tag
      /\ \A i \in 1..Len(os) : os[i].tag \in Nat
  <2>1. h \in Header(V) /\ os \in Seq(Entry(V)) /\ Len(os) \in Nat
    BY DEF Table, Header
  <2> QED
    BY <2>1, EntryFields DEF Table, IndexTable
<1>2. /\ k \in 0..Len(os) /\ (k # 0 => os[k].tag = tag)
      /\ \A i \in 1..Len(os) : os[i].tag = tag => k \in 1..i
  BY <1>1, FindIndexEntryFinds
<1>3. CASE k = 0
  <2>1. n = h
    BY <1>3 DEF DeleteIndexEntryIfExists
  <2>2. \A i \in 1..Len(os) : os[i].tag # tag
    BY <1>2, <1>3
  <2>3. SameBut(os, os, {tag})
    BY DEF SameBut, Carried, Same
  <2> QED
    BY <2>1, <2>2, <2>3
<1>4. CASE k # 0
  <2>1. k \in 1..Len(os) /\ os[k].tag = tag
    BY <1>2, <1>4
  <2>2. n = SyncDataStoreLayout(u)
    BY <1>4 DEF DeleteIndexEntryIfExists
  <2> HIDE DEF k
  <2>3. /\ es \in Seq(Entry(V))
        /\ Len(es) = Len(os) - 1
        /\ \A i \in 1..(Len(os) - 1) : es[i] = IF i < k THEN os[i] ELSE os[i + 1]
    <3> DEFINE S == Entry(V)
    <3>1. os \in Seq(S)
      BY <1>1
    <3> HIDE DEF os, S
    <3>2. /\ RemoveAt(os, k) \in Seq(S)
          /\ Len(RemoveAt(os, k)) = Len(os) - 1
          /\ \A i \in 1..(Len(os) - 1) :
                RemoveAt(os, k)[i] = IF i < k THEN os[i] ELSE os[i + 1]
      BY <2>1, <3>1, RemoveAtElements
    <3> QED
      BY <3>2 DEF S
  <2> HIDE DEF es
  <2>4. u \in Header(V) /\ u.entries = es
    <3> DEFINE m == h.indexEntryCount - 1
    <3>1. m \in Nat
      BY <1>1, <2>1
    <3>2. g = [h EXCEPT !.entries = es, !.indexEntryCount = m]
      BY <1>1 DEF Header
    <3> HIDE DEF m, g
    <3>3. g \in Header(V) /\ g.entries = es
      BY <1>1, <2>3, <3>1, <3>2 DEF Header
    <3>4. u = g \/ u = [g EXCEPT !.regionCount = Len(g.entries)]
      BY DEF UpdateSignedRegionTrailer
    <3>5. Len(g.entries) \in Nat
      BY <2>3, <3>3
    <3> HIDE DEF u
    <3> QED
      BY <3>3, <3>4, <3>5 DEF Header
  <2> HIDE DEF u, n
  <2>5. /\ Len(n.entries) = Len(es)
        /\ \A i \in 1..Len(es) : Same(es[i], n.entries[i])
        /\ SameBut(es, n.entries, {})
    BY <2>2, <2>4, SyncSame
  <2>6. SameBut(os, es, {tag}) /\ \A i \in 1..Len(es) : es[i].tag # tag
    <3> HIDE DEF os
    <3>1. ASSUME NEW i \in 1..Len(os), os[i].tag # tag PROVE \E j \in 1..Len(es) : Same(os[i], es[j])
      <4>1. CASE i < k
        <5>1. i \in 1..Len(es) /\ es[i] = os[i]
          BY <1>1, <2>1, <2>3, <4>1
        <5> QED
          BY <5>1 DEF Same
      <4>2. CASE i > k
        <5> DEFINE j == i - 1
        <5>1. j \in 1..Len(es) /\ es[j] = os[i]
          BY <1>1, <2>1, <2>3, <4>2
        <5> HIDE DEF j
        <5> QED
          BY <5>1 DEF Same
      <4>3. i < k \/ i > k
        BY <2>1, <3>1
      <4> QED
        BY <4>1, <4>2, <4>3, Zenon
    <3>2. ASSUME NEW i \in 1..Len(es)
          PROVE  es[i].tag # tag /\ \E j \in 1..Len(os) : Same(es[i], os[j])
      <4>1. CASE i < k
        <5>1. i \in 1..Len(os) /\ es[i] = os[i] /\ os[i].tag < os[k].tag
          BY <1>1, <2>1, <2>3, <4>1
        <5>2. os[i].tag # tag
          BY <1>1, <2>1, <5>1
        <5> QED
          BY <5>1, <5>2 DEF Same
      <4>2. CASE i >= k
        <5> DEFINE j == i + 1
        <5>1. j \in 1..Len(os) /\ es[i] = os[j] /\ os[k].tag < os[j].tag
          BY <1>1, <2>1, <2>3, <4>2
        <5> HIDE DEF j
        <5>2. os[j].tag # tag
          BY <1>1, <2>1, <5>1
        <5> QED
          BY <5>1, <5>2 DEF Same
      <4>3. i < k \/ i >= k
        BY <2>1
      <4> QED
        BY <4>1, <4>2, <4>3, Zenon
    <3> QED
      BY <3>1, <3>2 DEF SameBut, Carried
  <2>7. SameBut(os, n.entries, {tag} \cup {})
    BY <2>5, <2>6, SameButTrans
  <2>8. \A j \in 1..Len(n.entries) : n.entries[j].tag # tag
    BY <2>5, <2>6 DEF Same
  <2>9. {tag} \cup {} = {tag}
    OBVIOUS
  <2> QED
    BY <2>7, <2>8, <2>9 DEF n
<1> QED
  BY <1>3, <1>4

(* Tags are unique, so that a search finds the entry one has in mind. *)
LEMMA FindUnique ==
    ASSUME NEW V, NEW h, Table(V, h), NEW i \in 1..Len(h.entries)
    PROVE  FindIndexEntry(h.entries, h.entries[i].tag) = i
<1> DEFINE es == h.entries
           t  == es[i].tag
           k  == FindIndexEntry(es, t)
<1>1. /\ es \in Seq(Entry(V)) /\ Len(es) \in Nat
      /\ \A a, b \in 1..Len(es) : a < b => es[a].tag < es[b].tag
  BY DEF Table, IndexTable, Header
<1>2. /\ k \in 0..Len(es) /\ (k # 0 => es[k].tag = t) /\ k \in 1..i
  BY <1>1, FindIndexEntryFinds
<1>3. \A a \in 1..Len(es) : es[a].tag \in Nat
  BY <1>1, EntryFields
<1> HIDE DEF k
<1>4. ASSUME k < i PROVE FALSE
  BY <1>1, <1>2, <1>3, <1>4
<1> QED
  BY <1>2, <1>4 DEF k

(* A change of one entry leaves the others. *)
LEMMA UpdateSame ==
    ASSUME NEW V, NEW h, Table(V, h), NEW r \in 1..Len(h.entries),
           NEW f \in Entry(V), f.tag = h.entries[r].tag,
           NEW n, n = [h EXCEPT !.entries[r] = f]
    PROVE  SameBut(h.entries, n.entries, {f.tag})
<1> DEFINE es == h.entries
           fs == [es EXCEPT ![r] = f]
<1>1. h \in Header(V) /\ es \in Seq(Entry(V)) /\ Len(es) \in Nat
  BY DEF Table, Header
<1>2. /\ Len(fs) = Len(es)
      /\ \A i \in 1..Len(es) : fs[i] = IF i = r THEN f ELSE es[i]
  BY <1>1
<1>3. n.entries = fs
  BY <1>1 DEF Header
<1> HIDE DEF fs
<1>4. \A i \in 1..Len(es) : es[i].tag # f.tag => fs[i] = es[i]
  BY <1>2
<1>5. \A i \in 1..Len(es) : fs[i].tag # f.tag => fs[i] = es[i]
  BY <1>2
<1>6. SameBut(es, fs, {f.tag})
  BY <1>2, <1>4, <1>5 DEF SameBut, Carried, Same
<1> QED
  BY <1>3, <1>6

(* Handing out reserved space changes the entry that holds it only. *)
LEMMA TakeSame ==
    ASSUME NEW V, NEW h, Table(V, h), NEW r \in 1..Len(h.entries),
           NEW size \in Nat, NEW fmt
    PROVE  SameBut(h.entries, TakeFromReservedSpace(h, r, size, fmt).hdr.entries,
                   {h.entries[r].tag})
<1> DEFINE e    == h.entries[r]
           act  == ActualSize(e.offset, size, fmt)
           left == IF e.cnt - act > 0 THEN e.cnt - act ELSE ReservedAlloc
           off  == e.offset + act
           f    == [e EXCEPT !.offset = off, !.cnt = left, !.len = left]
           n    == [h EXCEPT !.entries[r] = f]
<1>1. e \in Entry(V) /\ e.offset \in Nat /\ e.cnt \in Nat
  BY EntryFields DEF Table, Header
<1>2. act \in Nat
  BY <1>1, ActualSizeBounds
<1> HIDE DEF act, e
<1>3. left \in Nat /\ off \in Nat
  BY <1>1, <1>2, ReservedAllocAssumption
<1>4. TakeFromReservedSpace(h, r, size, fmt).hdr = n
  BY DEF TakeFromReservedSpace, act, e
<1> HIDE DEF left, off
<1>5. f \in Entry(V) /\ f.tag = e.tag
  BY <1>1, <1>3 DEF Entry
<1> HIDE DEF f
<1>6. f.tag = h.entries[r].tag
  BY <1>5 DEF e
<1>7. PICK m : m = n
  OBVIOUS
<1>8. SameBut(h.entries, m.entries, {f.tag})
  BY <1>5, <1>6, <1>7, UpdateSame
<1> QED
  BY <1>4, <1>6, <1>7, <1>8

(* So does making room. The table does not grow if there is reserved space. *)
LEMMA MakeRoomSame ==
    ASSUME NEW V, Zeroes \in V, NEW h, Table(V, h), NEW size \in Nat, NEW fmt
    PROVE  LET n == MakeRoomFor(h, size, fmt)
           IN  /\ SameBut(h.entries, n.entries, {SigTagReservedSpace})
               /\ FindIndexEntry(h.entries, SigTagReservedSpace) # 0
                     => SameTags(h.entries, n.entries)
               /\ SameUpTo(h.entries, n.entries, SigTagReservedSpace)
<1> DEFINE r == FindIndexEntry(h.entries, SigTagReservedSpace)
           n == MakeRoomFor(h, size, fmt)
<1>1. h.entries \in Seq(Entry(V)) /\ Len(h.entries) \in Nat
  BY DEF Table, Header
<1>2. r \in 0..Len(h.entries) /\ (r # 0 => h.entries[r].tag = SigTagReservedSpace)
  BY <1>1, FindIndexEntryFinds
<1>3. CASE HasRoomFor(h, size, fmt)
  <2>1. n = h
    BY <1>3 DEF MakeRoomFor
  <2>2. SameBut(h.entries, h.entries, {SigTagReservedSpace})
    BY DEF SameBut, Carried, Same
  <2>3. SameTags(h.entries, h.entries) /\ SameUpTo(h.entries, h.entries, SigTagReservedSpace)
    BY DEF SameTags, SameUpTo
  <2> QED
    BY <2>1, <2>2, <2>3
<1>4. CASE ~HasRoomFor(h, size, fmt) /\ r # 0
  <2> DEFINE e     == h.entries[r]
             grown == ActualSize(e.offset, size, fmt) + ReservedAlloc
             es    == [h.entries EXCEPT ![r] = [e EXCEPT !.cnt = grown, !.len = grown]]
             start == IF IsAtEndOfDataStore(h.entries, r) THEN e.offset
                      ELSE FindNextSuitablePayloadOffset(es, FORMAT_TYPE_BINARY)
             f     == [e EXCEPT !.offset = start, !.cnt = grown, !.len = grown]
  <2>1. r \in 1..Len(h.entries) /\ e.tag = SigTagReservedSpace
    BY <1>2, <1>4
  <2>2. n = [h EXCEPT !.entries[r] = f]
    BY <1>4 DEF MakeRoomFor, GrowReservedSpace
  <2>3. e \in Entry(V) /\ e.offset \in Nat
    BY <1>1, <2>1, EntryFields
  <2>4. grown \in Nat /\ grown > 0
    BY <2>3, ActualSizeBounds, ReservedAllocAssumption
  <2> HIDE DEF grown
  <2>5. start \in Nat
    <3>1. [e EXCEPT !.cnt = grown, !.len = grown] \in Entry(V)
      BY <2>3, <2>4 DEF Entry
    <3>2. es \in Seq(Entry(V))
      BY <1>1, <2>1, <3>1
    <3> HIDE DEF es, e
    <3> QED
      BY <2>3, <3>2, FindNextType
  <2> HIDE DEF start
  <2>6. f \in Entry(V) /\ f.tag = h.entries[r].tag /\ f.len > 0
    <3> HIDE DEF e
    <3>1. f \in Entry(V) /\ f.tag = e.tag /\ f.len = grown
      BY <2>3, <2>4, <2>5 DEF Entry
    <3> HIDE DEF f
    <3> QED
      BY <2>4, <3>1 DEF e
  <2>7. f.tag = SigTagReservedSpace
    BY <2>1, <2>6
  <2> HIDE DEF f, n, e, r
  <2>8. SameBut(h.entries, n.entries, {f.tag})
    BY <2>1, <2>2, <2>6, UpdateSame
  <2>9. Len(n.entries) = Len(h.entries)
    BY <2>1, <2>2, <2>6, UpdateEntryKeepsTable
  <2>10. \A i \in 1..Len(h.entries) : n.entries[i].tag = h.entries[i].tag
    BY <2>1, <2>2, <2>6, UpdateEntryKeepsTable
  <2>11. SameTags(h.entries, n.entries) /\ SameUpTo(h.entries, n.entries, SigTagReservedSpace)
    BY <2>9, <2>10 DEF SameTags, SameUpTo
  <2> QED
    BY <2>7, <2>8, <2>11 DEF n
<1>5. CASE ~HasRoomFor(h, size, fmt) /\ r = 0
  <2> DEFINE start == FindNextSuitablePayloadOffset(h.entries, FORMAT_TYPE_BINARY)
             bytes == ReservedAlloc + ActualSize(start, size, fmt)
             e     == NewEntry(SigTagReservedSpace, FORMAT_TYPE_BINARY, start,
                               bytes, bytes, Zeroes)
  <2>1. n = InsertIndexEntry(h, e)
    BY <1>5 DEF MakeRoomFor, CreateReservedSpace
  <2>2. start \in Nat
    BY <1>1, FindNextType
  <2> HIDE DEF start
  <2>3. bytes \in Nat
    BY <2>2, ActualSizeBounds, ReservedAllocAssumption
  <2> HIDE DEF bytes
  <2>4. e \in Entry(V) /\ e.tag = SigTagReservedSpace
    BY <2>2, <2>3 DEF NewEntry, Entry, FormatTypes, FORMAT_TYPE_BINARY, SigTagReservedSpace
  <2> HIDE DEF e, n
  <2>5. SameBut(h.entries, n.entries, {e.tag}) /\ SameUpTo(h.entries, n.entries, e.tag)
    BY <2>1, <2>4, InsertSame
  <2> QED
    BY <1>5, <2>4, <2>5 DEF n
<1> QED
  BY <1>3, <1>4, <1>5

(* allocateSpaceInDatastore touches no entry but the reserved space's, which *)
(* exists afterwards.                                                        *)
LEMMA AllocateSame ==
    ASSUME NEW V, Zeroes \in V, NEW h, Table(V, h), NEW size \in Nat, NEW fmt
    PROVE  LET a == AllocateSpaceInDatastore(h, size, fmt)
           IN  /\ SameBut(h.entries, a.hdr.entries, {SigTagReservedSpace})
               /\ FindIndexEntry(a.hdr.entries, SigTagReservedSpace) # 0
               /\ FindIndexEntry(h.entries, SigTagReservedSpace) # 0
                     => SameTags(h.entries, a.hdr.entries)
               /\ SameUpTo(h.entries, a.hdr.entries, SigTagReservedSpace)
<1> DEFINE n == MakeRoomFor(h, size, fmt)
           r == FindIndexEntry(n.entries, SigTagReservedSpace)
           a == TakeFromReservedSpace(n, r, size, fmt)
<1>1. HasRoomFor(n, size, fmt) /\ Table(V, n)
  BY MakeRoomMakesRoom
<1>2. AllocateSpaceInDatastore(h, size, fmt) = a
  BY DEF AllocateSpaceInDatastore
<1>3. /\ SameBut(h.entries, n.entries, {SigTagReservedSpace})
      /\ FindIndexEntry(h.entries, SigTagReservedSpace) # 0 => SameTags(h.entries, n.entries)
      /\ SameUpTo(h.entries, n.entries, SigTagReservedSpace)
  BY MakeRoomSame
<1> HIDE DEF n
<1>4. r \in 1..Len(n.entries) /\ n.entries[r].tag = SigTagReservedSpace
  <2>1. n.entries \in Seq(Entry(V)) /\ Len(n.entries) \in Nat
    BY <1>1 DEF Table, Header
  <2>2. r \in 0..Len(n.entries) /\ (r # 0 => n.entries[r].tag = SigTagReservedSpace)
    BY <2>1, FindIndexEntryFinds
  <2>3. r # 0
    BY <1>1 DEF HasRoomFor
  <2> QED
    BY <2>1, <2>2, <2>3
<1> HIDE DEF r
<1>5. SameBut(n.entries, a.hdr.entries, {SigTagReservedSpace})
  BY <1>1, <1>4, TakeSame
<1>6. Table(V, a.hdr)
  BY <1>1, <1>4, TakeKeepsTable
<1>7. Len(a.hdr.entries) = Len(n.entries)
  BY <1>1, <1>4, TakeKeepsTable
<1>8. \A i \in 1..Len(n.entries) : a.hdr.entries[i].tag = n.entries[i].tag
  BY <1>1, <1>4, TakeKeepsTable
<1> HIDE DEF a
<1>9. SameBut(h.entries, a.hdr.entries, {SigTagReservedSpace} \cup {SigTagReservedSpace})
  BY <1>3, <1>5, SameButTrans
<1>10. SameBut(h.entries, a.hdr.entries, {SigTagReservedSpace})
  <2>1. {SigTagReservedSpace} \cup {SigTagReservedSpace} = {SigTagReservedSpace}
    OBVIOUS
  <2> QED
    BY <1>9, <2>1
<1>11. FindIndexEntry(a.hdr.entries, SigTagReservedSpace) # 0
  <2>1. r \in 1..Len(a.hdr.entries) /\ a.hdr.entries[r].tag = SigTagReservedSpace
    BY <1>4, <1>7, <1>8
  <2>2. a.hdr.entries \in Seq(Entry(V))
    BY <1>6 DEF Table, Header
  <2>3. FindIndexEntry(a.hdr.entries, SigTagReservedSpace) \in 1..r
    BY <2>1, <2>2, FindIndexEntryFinds
  <2> QED
    BY <2>3
<1>12. SameTags(h.entries, n.entries) => SameTags(h.entries, a.hdr.entries)
  BY <1>7, <1>8 DEF SameTags
<1>13. SameUpTo(h.entries, a.hdr.entries, SigTagReservedSpace)
  BY <1>3, <1>7, <1>8 DEF SameUpTo
<1> QED
  BY <1>2, <1>3, <1>10, <1>11, <1>12, <1>13

(* With reserved space, or for a new tag, SetOrAddIndexEntry stores the payload *)
(* and changes no other entry but that of the reserved space. In the remaining  *)
(* case the slice may move between the search and the write, and the payload is *)
(* lost.                                                                        *)
THEOREM SetOrAddStores ==
    ASSUME NEW V, Zeroes \in V, NEW h, Table(V, h),
           NEW tag \in Nat, tag # SigTagReservedSpace,
           NEW fmt \in FormatTypes, NEW cnt \in Nat, NEW len \in Nat, len > 0, NEW val \in V,
           \/ FindIndexEntry(h.entries, tag) = 0
           \/ FindIndexEntry(h.entries, SigTagReservedSpace) # 0
    PROVE  LET n == SetOrAddIndexEntry(h, tag, fmt, cnt, len, val)
               k == FindIndexEntry(h.entries, tag)
           IN  /\ SameBut(h.entries, n.entries, {tag, SigTagReservedSpace})
               /\ Stored(n.entries, tag, IF k = 0 THEN fmt ELSE h.entries[k].fmt, cnt, len, val)
               /\ FindIndexEntry(n.entries, SigTagReservedSpace) # 0
<1> DEFINE k == FindIndexEntry(h.entries, tag)
           r == FindIndexEntry(h.entries, SigTagReservedSpace)
           n == SetOrAddIndexEntry(h, tag, fmt, cnt, len, val)
           R == SigTagReservedSpace
<1>1. h.entries \in Seq(Entry(V)) /\ Len(h.entries) \in Nat /\ Len(h.entries) <= h.cap /\ h.cap \in Nat
  BY DEF Table, IndexTable, Header
<1>2. k \in 0..Len(h.entries) /\ (k # 0 => h.entries[k].tag = tag)
  BY <1>1, FindIndexEntryFinds
<1>3. CASE k = 0
  <2> DEFINE a == AllocateSpaceInDatastore(h, len, fmt)
             e == NewEntry(tag, fmt, a.addr, cnt, len, val)
  <2>1. n = InsertIndexEntry(a.hdr, e)
    BY <1>3 DEF SetOrAddIndexEntry, AddIndexEntry
  <2>2. /\ Table(V, a.hdr)
        /\ a.addr \in Nat
        /\ FindIndexEntry(a.hdr.entries, tag) = 0
    BY <1>3, AllocateKeepsTable
  <2>3. /\ SameBut(h.entries, a.hdr.entries, {R})
        /\ FindIndexEntry(a.hdr.entries, R) # 0
    BY AllocateSame
  <2> HIDE DEF a
  <2>4. /\ e \in Entry(V) /\ e.tag = tag /\ e.len > 0 /\ e.fmt = fmt /\ e.cnt = cnt
        /\ e.len = len /\ e.val = val
    BY <2>2 DEF NewEntry, Entry
  <2> HIDE DEF e, n
  <2>5. /\ SameBut(a.hdr.entries, n.entries, {e.tag})
        /\ \E j \in 1..Len(n.entries) : Same(e, n.entries[j])
    BY <2>1, <2>2, <2>4, InsertSame
  <2>6. SameBut(h.entries, n.entries, {R} \cup {e.tag})
    BY <2>3, <2>5, SameButTrans
  <2>7. {R} \cup {e.tag} = {tag, R}
    BY <2>4
  <2>8. FindIndexEntry(n.entries, R) # 0
    <3>1. a.hdr.entries \in Seq(Entry(V))
      BY <2>2 DEF Table, Header
    <3>2. PICK i \in 1..Len(a.hdr.entries) : a.hdr.entries[i].tag = R
      BY <2>3, <3>1, FindIndexEntryFinds
    <3>3. PICK j \in 1..Len(n.entries) : n.entries[j].tag = R
      BY <2>4, <2>5, <3>2 DEF SameBut, Carried, Same
    <3>4. Table(V, n)
      BY SetOrAddKeepsTable DEF n
    <3>5. FindIndexEntry(n.entries, R) = j
      BY <3>3, <3>4, FindUnique
    <3> QED
      BY <3>5
  <2>9. Stored(n.entries, tag, fmt, cnt, len, val)
    BY <2>4, <2>5 DEF Same, Stored
  <2> QED
    BY <1>3, <2>6, <2>7, <2>8, <2>9 DEF n
<1>4. CASE k # 0
  <2> DEFINE grows == len > h.entries[k].len /\ ~IsAtEndOfDataStore(h.entries, k)
             al == IF grows THEN AllocateSpaceInDatastore(h, len, fmt)
                   ELSE [hdr |-> h, addr |-> h.entries[k].offset]
             e == al.hdr.entries[k]
             f == [e EXCEPT !.offset = al.addr, !.cnt = cnt, !.len = len, !.val = val]
             u == [al.hdr EXCEPT !.entries[k] = f]
  <2>1. k \in 1..Len(h.entries) /\ h.entries[k].tag = tag /\ r # 0
    BY <1>2, <1>4
  <2>2. /\ Table(V, al.hdr)
        /\ al.addr \in Nat
        /\ SameBut(h.entries, al.hdr.entries, {R})
        /\ Len(al.hdr.entries) = Len(h.entries)
        /\ \A i \in 1..Len(h.entries) : al.hdr.entries[i].tag = h.entries[i].tag
    <3>1. CASE grows
      <4>1. al = AllocateSpaceInDatastore(h, len, fmt)
        BY <3>1
      <4> DEFINE b == AllocateSpaceInDatastore(h, len, fmt)
      <4>2. Table(V, b.hdr) /\ b.addr \in Nat
        BY AllocateKeepsTable
      <4>3. /\ SameBut(h.entries, b.hdr.entries, {SigTagReservedSpace})
            /\ FindIndexEntry(h.entries, SigTagReservedSpace) # 0
                  => SameTags(h.entries, b.hdr.entries)
        BY AllocateSame
      <4> HIDE DEF al, b
      <4> QED
        BY <2>1, <4>1, <4>2, <4>3 DEF b, SameTags
    <3>2. CASE ~grows
      <4>1. al.hdr = h /\ al.addr = h.entries[k].offset
        BY <3>2
      <4>2. h.entries[k].offset \in Nat
        BY <1>1, <2>1, EntryFields
      <4>3. SameBut(h.entries, h.entries, {R})
        BY DEF SameBut, Carried, Same
      <4> HIDE DEF al
      <4> QED
        BY <4>1, <4>2, <4>3
    <3> QED
      BY <3>1, <3>2
  <2>3. n = SyncDataStoreLayout(u)
    <3>1. n = SyncDataStoreLayout(IF Len(al.hdr.entries) > h.cap THEN al.hdr ELSE u)
      BY <1>4 DEF SetOrAddIndexEntry, ReplacePayload
    <3>2. ~(Len(al.hdr.entries) > h.cap)
      <4> HIDE DEF al
      <4> QED
        BY <1>1, <2>2
    <3> QED
      BY <3>1, <3>2
  <2> HIDE DEF al
  <2>4. k \in 1..Len(al.hdr.entries)
    BY <1>1, <2>1, <2>2
  <2>5. e \in Entry(V) /\ e.tag = tag
    BY <2>1, <2>2, <2>4, EntryFields DEF Table, Header
  <2>6. e.fmt = h.entries[k].fmt
    <3>1. tag \notin {R}
      OBVIOUS
    <3>2. PICK j \in 1..Len(al.hdr.entries) : Same(h.entries[k], al.hdr.entries[j])
      BY <2>1, <2>2, <3>1 DEF SameBut, Carried
    <3>3. FindIndexEntry(al.hdr.entries, al.hdr.entries[j].tag) = j
      BY <2>2, FindUnique
    <3>4. FindIndexEntry(al.hdr.entries, al.hdr.entries[k].tag) = k
      BY <2>2, <2>4, FindUnique
    <3>5. j = k
      BY <2>1, <2>5, <3>2, <3>3, <3>4 DEF Same
    <3> QED
      BY <3>2, <3>5 DEF Same
  <2>7. /\ f \in Entry(V) /\ f.tag = tag /\ f.len > 0 /\ f.fmt = h.entries[k].fmt
        /\ f.cnt = cnt /\ f.len = len /\ f.val = val
    <3> HIDE DEF e
    <3>1. /\ f \in Entry(V) /\ f.tag = e.tag /\ f.len > 0 /\ f.fmt = e.fmt
          /\ f.cnt = cnt /\ f.len = len /\ f.val = val
      BY <2>2, <2>5 DEF Entry
    <3> HIDE DEF f
    <3> QED
      BY <2>5, <2>6, <3>1
  <2> HIDE DEF f
  <2>8. PICK m : m = u
    OBVIOUS
  <2>9. f.tag = al.hdr.entries[k].tag
    BY <2>5, <2>7
  <2>10. Table(V, m) /\ Len(m.entries) = Len(h.entries) /\ m.entries[k] = f
         /\ SameTags(al.hdr.entries, m.entries)
    <3>1. PICK g : g = al.hdr
      OBVIOUS
    <3>2. /\ Table(V, g) /\ k \in 1..Len(g.entries) /\ f.tag = g.entries[k].tag
          /\ m = [g EXCEPT !.entries[k] = f] /\ Len(g.entries) = Len(h.entries)
      BY <2>2, <2>4, <2>8, <2>9, <3>1
    <3>3. f \in Entry(V) /\ f.len > 0
      BY <2>7
    <3> HIDE DEF u, e, n
    <3>4. Table(V, m) /\ Len(m.entries) = Len(g.entries) /\ m.entries[k] = f
      BY <3>2, <3>3, UpdateEntryKeepsTable
    <3>5. \A i \in 1..Len(g.entries) : m.entries[i].tag = g.entries[i].tag
      BY <3>2, <3>3, UpdateEntryKeepsTable
    <3> QED
      BY <3>1, <3>2, <3>4, <3>5 DEF SameTags
  <2>11. SameBut(al.hdr.entries, m.entries, {f.tag})
    BY <2>2, <2>4, <2>7, <2>8, <2>9, UpdateSame
  <2>12. \A i \in 1..Len(al.hdr.entries) : m.entries[i].tag = al.hdr.entries[i].tag
    BY <2>10 DEF SameTags
  <2> HIDE DEF u, n
  <2>13. m \in Header(V)
    BY <2>10 DEF Table
  <2>14. /\ SameBut(m.entries, n.entries, {})
         /\ Len(n.entries) = Len(m.entries)
         /\ \A i \in 1..Len(m.entries) : Same(m.entries[i], n.entries[i])
    BY <2>3, <2>8, <2>13, SyncSame
  <2>15. SameBut(h.entries, m.entries, {R} \cup {f.tag})
    BY <2>2, <2>11, SameButTrans
  <2>16. SameBut(h.entries, n.entries, ({R} \cup {f.tag}) \cup {})
    BY <2>14, <2>15, SameButTrans
  <2>17. ({R} \cup {f.tag}) \cup {} = {tag, R}
    BY <2>7
  <2>18. k \in 1..Len(n.entries) /\ Same(f, n.entries[k])
    BY <2>1, <2>10, <2>14
  <2>19. FindIndexEntry(n.entries, R) # 0
    <3>1. r \in 1..Len(h.entries) /\ h.entries[r].tag = R
      BY <1>1, <2>1, FindIndexEntryFinds
    <3>2. r \in 1..Len(n.entries) /\ n.entries[r].tag = R
      BY <2>2, <2>10, <2>12, <2>14, <3>1 DEF Same
    <3>3. Table(V, n)
      BY <2>3, <2>8, <2>10, SyncKeepsTable
    <3>4. FindIndexEntry(n.entries, R) = r
      BY <3>2, <3>3, FindUnique
    <3> QED
      BY <3>1, <3>4
  <2>20. Stored(n.entries, tag, h.entries[k].fmt, cnt, len, val)
    BY <2>7, <2>18 DEF Same, Stored
  <2> QED
    BY <1>4, <2>16, <2>17, <2>18, <2>19, <2>20 DEF n
<1> QED
  BY <1>3, <1>4

(* Whether the payload is lost or not, SetOrAddIndexEntry changes no entry but   *)
(* that of the tag and the reserved space, if the tag is smaller: the entry then *)
(* keeps its place when reserved space is inserted.                              *)
LEMMA SetOrAddSame ==
    ASSUME NEW V, Zeroes \in V, NEW h, Table(V, h),
           NEW tag \in Nat, tag < SigTagReservedSpace,
           NEW fmt \in FormatTypes, NEW cnt \in Nat, NEW len \in Nat, len > 0, NEW val \in V
    PROVE  SameBut(h.entries, SetOrAddIndexEntry(h, tag, fmt, cnt, len, val).entries,
                   {tag, SigTagReservedSpace})
<1> DEFINE k == FindIndexEntry(h.entries, tag)
           n == SetOrAddIndexEntry(h, tag, fmt, cnt, len, val)
           R == SigTagReservedSpace
<1>1. h.entries \in Seq(Entry(V)) /\ Len(h.entries) \in Nat
  BY DEF Table, Header
<1>2. k \in 0..Len(h.entries) /\ (k # 0 => h.entries[k].tag = tag)
  BY <1>1, FindIndexEntryFinds
<1>3. tag # R
  BY DEF SigTagReservedSpace
<1>4. CASE k = 0 \/ FindIndexEntry(h.entries, R) # 0
  BY <1>3, <1>4, SetOrAddStores
<1>5. CASE k # 0
  <2> DEFINE grows == len > h.entries[k].len /\ ~IsAtEndOfDataStore(h.entries, k)
             al == IF grows THEN AllocateSpaceInDatastore(h, len, fmt)
                   ELSE [hdr |-> h, addr |-> h.entries[k].offset]
  <2>1. k \in 1..Len(h.entries) /\ h.entries[k].tag = tag
    BY <1>2, <1>5
  <2>2. /\ Table(V, al.hdr)
        /\ al.addr \in Nat
        /\ SameBut(h.entries, al.hdr.entries, {R})
        /\ k \in 1..Len(al.hdr.entries) /\ al.hdr.entries[k].tag = tag
    <3>1. CASE grows
      <4>1. al = AllocateSpaceInDatastore(h, len, fmt)
        BY <3>1
      <4> DEFINE b == AllocateSpaceInDatastore(h, len, fmt)
      <4>2. Table(V, b.hdr) /\ b.addr \in Nat
        BY AllocateKeepsTable
      <4>3. /\ SameBut(h.entries, b.hdr.entries, {SigTagReservedSpace})
            /\ SameUpTo(h.entries, b.hdr.entries, SigTagReservedSpace)
        BY AllocateSame
      <4> HIDE DEF al, b
      <4>4. k \in 1..Len(b.hdr.entries) /\ b.hdr.entries[k].tag = tag
        BY <2>1, <4>3 DEF SameUpTo
      <4> QED
        BY <4>1, <4>2, <4>3, <4>4 DEF b
    <3>2. CASE ~grows
      <4>1. al.hdr = h /\ al.addr = h.entries[k].offset
        BY <3>2
      <4>2. h.entries[k].offset \in Nat
        BY <1>1, <2>1, EntryFields
      <4>3. SameBut(h.entries, h.entries, {R})
        BY DEF SameBut, Carried, Same
      <4> HIDE DEF al
      <4> QED
        BY <2>1, <4>1, <4>2, <4>3
    <3> QED
      BY <3>1, <3>2
  <2>3. PICK g : g = al.hdr
    OBVIOUS
  <2>4. PICK a : a = al.addr
    OBVIOUS
  <2> DEFINE e == g.entries[k]
             f == [e EXCEPT !.offset = a, !.cnt = cnt, !.len = len, !.val = val]
             u == [g EXCEPT !.entries[k] = f]
             w == IF Len(g.entries) > h.cap THEN g ELSE u
  <2>5. n = SyncDataStoreLayout(w)
    BY <1>5, <2>3, <2>4 DEF SetOrAddIndexEntry, ReplacePayload
  <2> HIDE DEF al, n
  <2>6. /\ Table(V, g) /\ a \in Nat /\ SameBut(h.entries, g.entries, {R})
        /\ k \in 1..Len(g.entries) /\ e.tag = tag
    BY <2>2, <2>3, <2>4
  <2>7. e \in Entry(V)
    BY <2>6, EntryFields DEF Table, Header
  <2>8. f \in Entry(V) /\ f.tag = tag /\ f.len > 0
    <3> HIDE DEF e
    <3> QED
      BY <2>6, <2>7 DEF Entry
  <2> HIDE DEF f
  <2>9. f.tag = g.entries[k].tag
    BY <2>6, <2>8
  <2>10. PICK m : m = u
    OBVIOUS
  <2>11. Table(V, m) /\ SameBut(g.entries, m.entries, {f.tag})
    <3> HIDE DEF e
    <3>1. Table(V, m)
      BY <2>6, <2>8, <2>9, <2>10, UpdateEntryKeepsTable
    <3>2. SameBut(g.entries, m.entries, {f.tag})
      BY <2>6, <2>8, <2>9, <2>10, UpdateSame
    <3> QED
      BY <3>1, <3>2
  <2>12. SameBut(h.entries, m.entries, {R} \cup {f.tag})
    BY <2>6, <2>11, SameButTrans
  <2>13. PICK x : x = w
    OBVIOUS
  <2>14. x = g \/ x = m
    BY <2>10, <2>13
  <2> HIDE DEF w, u, e
  <2>15. x \in Header(V)
    BY <2>6, <2>11, <2>14 DEF Table
  <2>16. SameBut(h.entries, g.entries, {R} \cup {f.tag})
    BY <2>6 DEF SameBut, Carried
  <2>17. SameBut(h.entries, x.entries, {R} \cup {f.tag})
    BY <2>12, <2>14, <2>16
  <2>18. SameBut(x.entries, n.entries, {})
    BY <2>5, <2>13, <2>15, SyncSame
  <2>19. SameBut(h.entries, n.entries, ({R} \cup {f.tag}) \cup {})
    BY <2>17, <2>18, SameButTrans
  <2>20. ({R} \cup {f.tag}) \cup {} = {tag, R}
    BY <2>8
  <2> QED
    BY <2>19, <2>20 DEF n
<1> QED
  BY <1>4, <1>5

-----------------------------------------------------------------------------
(* The data of a header that is laid out ends where its declared size says. *)
LEMMA StoreSize ==
    ASSUME NEW V, NEW h, Table(V, h), DataStore(h)
    PROVE  /\ WrittenStoreSize(h.entries) = h.storeSize
           /\ \A i \in 1..Len(h.entries) : EndOffset(h.entries[i]) <= h.storeSize
<1> DEFINE es == h.entries
           t  == RegionTrailerEntry(es)
           E  == {0} \cup {EndOffset(es[i]) : i \in 1..Len(es)}
<1>2. es \in Seq(Entry(V)) /\ t \in 1..Len(es) /\ Len(es) \in Nat
  BY TrailerIndex
<1>3. \A i \in 1..Len(es) : es[i].offset \in Nat /\ es[i].len \in Nat
  BY <1>2, EntryFields
<1>4. EndOffset(es[t]) = h.storeSize
  BY DEF DataStore
<1>5. ASSUME NEW i \in 1..Len(es) PROVE EndOffset(es[i]) <= h.storeSize
  <2>1. CASE i = t
    <3>1. EndOffset(es[t]) \in Nat
      BY <1>2, <1>3 DEF EndOffset
    <3> QED
      BY <1>4, <2>1, <3>1
  <2>2. CASE i # t
    <3>1. i \in DataEntries(es)
      BY <2>2 DEF DataEntries
    <3>2. EndOffset(es[i]) <= es[t].offset
      BY <3>1 DEF DataStore
    <3>3. es[t].offset \in Nat /\ es[t].len \in Nat /\ EndOffset(es[i]) \in Nat
      BY <1>2, <1>3 DEF EndOffset
    <3>4. h.storeSize = es[t].offset + es[t].len
      BY <1>4 DEF EndOffset
    <3> QED
      BY <3>2, <3>3, <3>4
  <2> QED
    BY <2>1, <2>2
<1>6. h.storeSize \in E /\ h.storeSize \in Nat
  <2>1. EndOffset(es[t]) \in Nat
    BY <1>2, <1>3 DEF EndOffset
  <2> QED
    BY <1>2, <1>4, <2>1
<1>7. \A x \in E : x \in Nat /\ x <= h.storeSize
  BY <1>3, <1>5, <1>6 DEF EndOffset
<1> HIDE DEF E
<1>8. Max(E) = h.storeSize
  <2>1. \E x \in E : \A y \in E : x >= y
    BY <1>6, <1>7
  <2>2. Max(E) \in E /\ \A y \in E : Max(E) >= y
    BY <2>1 DEF Max
  <2> QED
    BY <1>6, <1>7, <2>2
<1> QED
  BY <1>5, <1>8 DEF WrittenStoreSize, E

(* No data of a header that is laid out overlaps. *)
LEMMA NoOverlap ==
    ASSUME NEW V, NEW h, Table(V, h), DataStore(h),
           NEW i \in 1..Len(h.entries), NEW j \in 1..Len(h.entries), i # j
    PROVE  \/ EndOffset(h.entries[i]) <= h.entries[j].offset
           \/ EndOffset(h.entries[j]) <= h.entries[i].offset
<1> DEFINE es == h.entries
           t  == RegionTrailerEntry(es)
<1>1. CASE i = t
  <2>1. j \in DataEntries(es)
    BY <1>1 DEF DataEntries
  <2> QED
    BY <1>1, <2>1 DEF DataStore
<1>2. CASE j = t
  <2>1. i \in DataEntries(es)
    BY <1>2 DEF DataEntries
  <2> QED
    BY <1>2, <2>1 DEF DataStore
<1>3. CASE i # t /\ j # t
  <2>1. i \in DataEntries(es) /\ j \in DataEntries(es) /\ (i < j \/ j < i)
    BY <1>3 DEF DataEntries
  <2> QED
    BY <2>1 DEF DataStore
<1> QED
  BY <1>1, <1>2, <1>3
=============================================================================
