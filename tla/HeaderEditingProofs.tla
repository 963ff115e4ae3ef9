------------------------- MODULE HeaderEditingProofs -------------------------
(***************************************************************************)
(* The invariants of HeaderEditing, for every parsed header, every tag,    *)
(* every payload size and every sequence of edits.                         *)
(***************************************************************************)
EXTENDS HeaderEditing, RpmHeaderProofs

(* The inductive invariant. The table part is inductive by itself; the layout *)
(* part is established anew by the syncDataStoreLayout that ends every edit.  *)
IInv == Table(Contents, hdr) /\ DataStore(hdr)

(* Parsed headers satisfy the invariant. *)
LEMMA InitIInv == Init => IInv
BY FilesAssumption DEF Init, IInv, Table

(* SetOrAddIndexEntry and DeleteIndexEntryIfExists preserve it. *)
LEMMA NextIInv == IInv /\ [Next]_vars => IInv'
<1> SUFFICES ASSUME IInv, [Next]_vars PROVE IInv'
  OBVIOUS
<1>1. ASSUME NEW t \in SetTags, NEW l \in Lens, NEW v \in NewContents, SetOrAdd(t, l, v)
      PROVE  IInv'
  <2>1. /\ t \in Nat /\ t # SigTagReservedSpace
        /\ l \in Nat /\ l > 0
        /\ v \in Contents /\ Zeroes \in Contents
    BY ArgumentsAssumption
  <2>2. FORMAT_TYPE_BINARY \in FormatTypes
    BY DEF FORMAT_TYPE_BINARY, FormatTypes
  <2>3. Table(Contents, hdr)
    BY DEF IInv
  <2> DEFINE n == SetOrAddIndexEntry(hdr, t, FORMAT_TYPE_BINARY, l, l, v)
  <2>4. Table(Contents, n) /\ DataStore(n)
    BY <2>1, <2>2, <2>3, SetOrAddKeepsTable
  <2>5. hdr' = n
    BY <1>1 DEF SetOrAdd
  <2> HIDE DEF n
  <2> QED
    BY <2>4, <2>5 DEF IInv
<1>2. ASSUME NEW t \in DeleteTags, DeleteIfExists(t)
      PROVE  IInv'
  <2>1. t # SigTagHeaderSignatures
    BY ArgumentsAssumption
  <2>2. Table(Contents, hdr) /\ DataStore(hdr)
    BY DEF IInv
  <2> DEFINE n == DeleteIndexEntryIfExists(hdr, t)
  <2>3. Table(Contents, n) /\ (n = hdr \/ DataStore(n))
    BY <2>1, <2>2, DeleteKeepsTable
  <2>4. hdr' = n
    BY <1>2 DEF DeleteIfExists
  <2> HIDE DEF n
  <2> QED
    BY <2>2, <2>3, <2>4 DEF IInv
<1>3. CASE UNCHANGED vars
  BY <1>3 DEF vars, IInv, Table
<1> QED
  BY <1>1, <1>2, <1>3 DEF Next

(* Every reachable header satisfies the inductive invariant. *)
THEOREM Invariance == Spec => []IInv
BY InitIInv, NextIInv, PTL DEF Spec

(* No sequence of edits leaves the types of the header. *)
THEOREM TypeCorrect == Spec => []TypeOK
<1>1. IInv => TypeOK
  BY DEF IInv, Table, TypeOK
<1> QED
  BY <1>1, Invariance, PTL

(* No sequence of edits breaks the index table: sortedness, both counts, the *)
(* presence of the region trailer.                                           *)
THEOREM IndexTableCorrect == Spec => []IndexTableOK
<1>1. IInv => IndexTableOK
  BY DEF IInv, Table, IndexTableOK
<1> QED
  BY <1>1, Invariance, PTL

(* No sequence of edits makes data overlap, misaligns it, or moves the region *)
(* trailer away from the end of the store.                                   *)
THEOREM DataStoreCorrect == Spec => []DataStoreOK
<1>1. IInv => DataStoreOK
  BY DEF IInv, DataStoreOK
<1> QED
  BY <1>1, Invariance, PTL

(* No sequence of edits leaves an entry without data. *)
THEOREM NeverEmpty == Spec => []NoEmptyEntry
<1>1. IInv => NoEmptyEntry
  BY DEF IInv, Table, NoEmptyEntry
<1> QED
  BY <1>1, Invariance, PTL

(* The recursion of allocateSpaceInDatastore ends in every reachable header. *)
THEOREM AllocationEnds == Spec => []RecursionEnds
<1>1. IInv => RecursionEnds
  <2> SUFFICES ASSUME IInv, NEW l \in Lens, NEW f \in FormatTypes
               PROVE  HasRoomFor(MakeRoomFor(hdr, l, f), l, f)
    BY DEF RecursionEnds
  <2>1. l \in Nat /\ Zeroes \in Contents
    BY ArgumentsAssumption
  <2>2. Table(Contents, hdr)
    BY DEF IInv
  <2> QED
    BY <2>1, <2>2, MakeRoomMakesRoom
<1> QED
  BY <1>1, Invariance, PTL

(* The declared size of the data store is the number of bytes written. *)
THEOREM DeclaredSizeCorrect == Spec => []DeclaredSizeIsWritten
<1>1. IInv => DeclaredSizeIsWritten
  BY StoreSize DEF IInv, DeclaredSizeIsWritten
<1> QED
  BY <1>1, Invariance, PTL

-----------------------------------------------------------------------------
(* Every file has reserved space, and no caller deletes it. Otherwise the slice *)
(* may move in the middle of SetOrAddIndexEntry, and the refinement is false.   *)
Reserving ==
    /\ \A f \in Files : FindIndexEntry(f.entries, SigTagReservedSpace) # 0
    /\ SigTagReservedSpace \notin DeleteTags

HasReserve == FindIndexEntry(hdr.entries, SigTagReservedSpace) # 0

(* What a caller sees of an index table. *)
VisibleIn(es) ==
    {es[i].tag : i \in 1..Len(es)} \ {SigTagHeaderSignatures, SigTagReservedSpace}

MapIn(es) ==
    [t \in VisibleIn(es) |-> LET e == es[FindIndexEntry(es, t)] IN <<e.len, e.val>>]

(* The map with one tag set. *)
SetIn(es, t, l, v) ==
    [u \in VisibleIn(es) \cup {t} |-> IF u = t THEN <<l, v>> ELSE MapIn(es)[u]]

(* A visible entry is in the map with its payload. *)
LEMMA InMap ==
    ASSUME NEW V, NEW h, Table(V, h), NEW i \in 1..Len(h.entries),
           h.entries[i].tag \notin {SigTagHeaderSignatures, SigTagReservedSpace}
    PROVE  /\ h.entries[i].tag \in VisibleIn(h.entries)
           /\ MapIn(h.entries)[h.entries[i].tag] = <<h.entries[i].len, h.entries[i].val>>
<1>1. FindIndexEntry(h.entries, h.entries[i].tag) = i
  BY FindUnique
<1>2. h.entries[i].tag \in VisibleIn(h.entries)
  BY DEF VisibleIn
<1> QED
  BY <1>1, <1>2 DEF MapIn

(* Tables that agree on a tag agree on what the map has for it. *)
LEMMA CarriedInMap ==
    ASSUME NEW V, NEW h, NEW n, Table(V, h), Table(V, n), NEW T,
           Carried(h.entries, n.entries, T), NEW t \in VisibleIn(h.entries), t \notin T
    PROVE  t \in VisibleIn(n.entries) /\ MapIn(n.entries)[t] = MapIn(h.entries)[t]
<1>1. PICK i \in 1..Len(h.entries) : h.entries[i].tag = t
  BY DEF VisibleIn
<1>2. PICK j \in 1..Len(n.entries) : Same(h.entries[i], n.entries[j])
  BY <1>1 DEF Carried
<1>3. t \notin {SigTagHeaderSignatures, SigTagReservedSpace}
  BY DEF VisibleIn
<1>4. MapIn(h.entries)[t] = <<h.entries[i].len, h.entries[i].val>>
  BY <1>1, <1>3, InMap
<1>5. n.entries[j].tag = t /\ n.entries[j].len = h.entries[i].len /\ n.entries[j].val = h.entries[i].val
  BY <1>1, <1>2 DEF Same
<1>6. t \in VisibleIn(n.entries) /\ MapIn(n.entries)[t] = <<n.entries[j].len, n.entries[j].val>>
  BY <1>3, <1>5, InMap
<1> QED
  BY <1>4, <1>5, <1>6

(* With reserved space SetOrAddIndexEntry sets one tag of the map. *)
LEMMA SetInMap ==
    ASSUME NEW V, Zeroes \in V, NEW h, Table(V, h),
           FindIndexEntry(h.entries, SigTagReservedSpace) # 0,
           NEW t \in Nat \ {SigTagHeaderSignatures, SigTagReservedSpace},
           NEW l \in Nat \ {0}, NEW v \in V
    PROVE  LET n == SetOrAddIndexEntry(h, t, FORMAT_TYPE_BINARY, l, l, v)
           IN  /\ FindIndexEntry(n.entries, SigTagReservedSpace) # 0
               /\ MapIn(n.entries) = SetIn(h.entries, t, l, v)
<1> DEFINE n == SetOrAddIndexEntry(h, t, FORMAT_TYPE_BINARY, l, l, v)
           T == {t, SigTagReservedSpace}
<1>1. FORMAT_TYPE_BINARY \in FormatTypes /\ l > 0 /\ l \in Nat /\ t # SigTagReservedSpace
  BY DEF FORMAT_TYPE_BINARY, FormatTypes
<1>2. Table(V, n)
  BY <1>1, SetOrAddKeepsTable
<1>3. /\ SameBut(h.entries, n.entries, T)
      /\ \E fmt : Stored(n.entries, t, fmt, l, l, v)
      /\ FindIndexEntry(n.entries, SigTagReservedSpace) # 0
  BY <1>1, SetOrAddStores
<1> HIDE DEF n
<1>4. t \in VisibleIn(n.entries) /\ MapIn(n.entries)[t] = <<l, v>>
  <2>1. PICK j \in 1..Len(n.entries) :
           n.entries[j].tag = t /\ n.entries[j].len = l /\ n.entries[j].val = v
    BY <1>3 DEF Stored
  <2> QED
    BY <1>2, <2>1, InMap
<1>5. \A u : u \in VisibleIn(h.entries) \cup VisibleIn(n.entries) => u # SigTagReservedSpace
  BY DEF VisibleIn
<1>6. ASSUME NEW u \in VisibleIn(h.entries), u # t
      PROVE  u \in VisibleIn(n.entries) /\ MapIn(n.entries)[u] = MapIn(h.entries)[u]
  <2>1. Carried(h.entries, n.entries, T) /\ u \notin T
    BY <1>3, <1>5, <1>6 DEF SameBut
  <2> QED
    BY <1>2, <2>1, CarriedInMap
<1>7. ASSUME NEW u \in VisibleIn(n.entries), u # t
      PROVE  u \in VisibleIn(h.entries)
  <2>1. Carried(n.entries, h.entries, T) /\ u \notin T
    BY <1>3, <1>5, <1>7 DEF SameBut
  <2> QED
    BY <1>2, <2>1, CarriedInMap
<1>8. VisibleIn(n.entries) = VisibleIn(h.entries) \cup {t}
  BY <1>4, <1>6, <1>7
<1>9. \A u \in VisibleIn(h.entries) \cup {t} :
         MapIn(n.entries)[u] = IF u = t THEN <<l, v>> ELSE MapIn(h.entries)[u]
  BY <1>4, <1>6
<1>10. MapIn(n.entries) = [u \in VisibleIn(n.entries) |-> MapIn(n.entries)[u]]
  BY DEF MapIn
<1>11. MapIn(n.entries) =
          [u \in VisibleIn(h.entries) \cup {t} |->
              IF u = t THEN <<l, v>> ELSE MapIn(h.entries)[u]]
  BY <1>8, <1>9, <1>10
<1>12. MapIn(n.entries) = SetIn(h.entries, t, l, v)
  BY <1>11 DEF SetIn
<1> QED
  BY <1>3, <1>12 DEF n

(* DeleteIndexEntryIfExists removes one tag of the map. *)
LEMMA DeleteInMap ==
    ASSUME NEW V, NEW h, Table(V, h), NEW t \in Nat \ {SigTagHeaderSignatures, SigTagReservedSpace},
           FindIndexEntry(h.entries, SigTagReservedSpace) # 0
    PROVE  LET n == DeleteIndexEntryIfExists(h, t)
           IN  /\ FindIndexEntry(n.entries, SigTagReservedSpace) # 0
               /\ MapIn(n.entries) = [u \in VisibleIn(h.entries) \ {t} |-> MapIn(h.entries)[u]]
<1> DEFINE n == DeleteIndexEntryIfExists(h, t)
           R == SigTagReservedSpace
<1>1. Table(V, n)
  BY DeleteKeepsTable
<1>2. SameBut(h.entries, n.entries, {t}) /\ \A j \in 1..Len(n.entries) : n.entries[j].tag # t
  BY DeleteSame
<1> HIDE DEF n
<1>3. FindIndexEntry(n.entries, R) # 0
  <2>1. h.entries \in Seq(Entry(V))
    BY DEF Table, Header
  <2>2. PICK i \in 1..Len(h.entries) : h.entries[i].tag = R
    BY <2>1, FindIndexEntryFinds
  <2>3. PICK j \in 1..Len(n.entries) : n.entries[j].tag = R
    BY <1>2, <2>2 DEF SameBut, Carried, Same
  <2>4. FindIndexEntry(n.entries, R) = j
    BY <1>1, <2>3, FindUnique
  <2> QED
    BY <2>4
<1>4. t \notin VisibleIn(n.entries)
  BY <1>2 DEF VisibleIn
<1>5. ASSUME NEW u \in VisibleIn(h.entries), u # t
      PROVE  u \in VisibleIn(n.entries) /\ MapIn(n.entries)[u] = MapIn(h.entries)[u]
  <2>1. Carried(h.entries, n.entries, {t}) /\ u \notin {t}
    BY <1>2, <1>5 DEF SameBut
  <2> QED
    BY <1>1, <2>1, CarriedInMap
<1>6. ASSUME NEW u \in VisibleIn(n.entries)
      PROVE  u \in VisibleIn(h.entries)
  <2>1. Carried(n.entries, h.entries, {t}) /\ u \notin {t}
    BY <1>2, <1>4, <1>6 DEF SameBut
  <2> QED
    BY <1>1, <2>1, CarriedInMap
<1>7. VisibleIn(n.entries) = VisibleIn(h.entries) \ {t}
  BY <1>4, <1>5, <1>6
<1>8. MapIn(n.entries) = [u \in VisibleIn(n.entries) |-> MapIn(n.entries)[u]]
  BY DEF MapIn
<1>9. MapIn(n.entries) = [u \in VisibleIn(h.entries) \ {t} |-> MapIn(h.entries)[u]]
  BY <1>5, <1>7, <1>8
<1> QED
  BY <1>3, <1>9 DEF n

(* The map that a caller sees is that of the index table, now and after a step. *)
LEMMA ContentIsMap ==
    /\ Content = MapIn(hdr.entries) /\ DOMAIN Content = VisibleIn(hdr.entries)
    /\ Content' = MapIn(hdr'.entries)
BY DEF Content, VisibleTags, MapIn, VisibleIn

(* A parsed header is a map of known tags to known payloads. *)
LEMMA InitMap ==
    ASSUME Reserving PROVE Init => Map!Init /\ HasReserve
<1> SUFFICES ASSUME Init PROVE Map!Init /\ HasReserve
  OBVIOUS
<1>1. hdr \in Files /\ lastOp = <<"none">>
  BY DEF Init
<1>2. Table(Contents, hdr)
  BY <1>1, FilesAssumption DEF Table
<1>3. ASSUME NEW t \in VisibleIn(hdr.entries)
      PROVE  t \in AllTags /\ MapIn(hdr.entries)[t] \in AllPayloads
  <2>1. PICK i \in 1..Len(hdr.entries) : hdr.entries[i].tag = t
    BY DEF VisibleIn
  <2>2. t \notin {SigTagHeaderSignatures, SigTagReservedSpace}
    BY DEF VisibleIn
  <2>3. MapIn(hdr.entries)[t] = <<hdr.entries[i].len, hdr.entries[i].val>>
    BY <1>2, <2>1, <2>2, InMap
  <2>4. t \in AllTags
    BY <1>1, <2>1 DEF AllTags
  <2>5. <<hdr.entries[i].len, hdr.entries[i].val>> \in AllPayloads
    BY <1>1 DEF AllPayloads
  <2> QED
    BY <2>3, <2>4, <2>5
<1>4. Map!TypeOK
  BY <1>3, ContentIsMap DEF Map!TypeOK
<1>5. HasReserve
  BY <1>1 DEF Reserving, HasReserve
<1> QED
  BY <1>1, <1>4, <1>5 DEF Map!Init, Map!NoCall

(* An edit of a header with reserved space is the same edit of the map. *)
LEMMA StepMap ==
    ASSUME Reserving PROVE IInv /\ HasReserve /\ [Next]_vars => [Map!Next]_(Map!vars) /\ HasReserve'
<1> SUFFICES ASSUME IInv, HasReserve, [Next]_vars PROVE [Map!Next]_(Map!vars) /\ HasReserve'
  OBVIOUS
<1>0. Table(Contents, hdr) /\ Zeroes \in Contents
  BY ArgumentsAssumption DEF IInv
<1>1. ASSUME NEW t \in SetTags, NEW l \in Lens, NEW v \in NewContents, SetOrAdd(t, l, v)
      PROVE  Map!Next /\ HasReserve'
  <2>1. /\ t \in Nat \ {SigTagHeaderSignatures, SigTagReservedSpace}
        /\ l \in Nat \ {0} /\ v \in Contents
    BY ArgumentsAssumption
  <2> DEFINE n == SetOrAddIndexEntry(hdr, t, FORMAT_TYPE_BINARY, l, l, v)
  <2>2. /\ FindIndexEntry(n.entries, SigTagReservedSpace) # 0
        /\ MapIn(n.entries) = SetIn(hdr.entries, t, l, v)
    <3>1. FindIndexEntry(hdr.entries, SigTagReservedSpace) # 0
      BY DEF HasReserve
    <3> QED
      BY <1>0, <2>1, <3>1, SetInMap
  <2>3. hdr' = n /\ lastOp' = <<"set", t, <<l, v>>>>
    BY <1>1 DEF SetOrAdd
  <2> HIDE DEF n
  <2>4. Map!SetOrAdd(t, <<l, v>>)
    BY <2>2, <2>3, ContentIsMap DEF Map!SetOrAdd, SetIn
  <2>5. t \in AllTags /\ <<l, v>> \in AllPayloads
    BY DEF AllTags, AllPayloads
  <2> QED
    BY <2>2, <2>3, <2>4, <2>5 DEF Map!Next, HasReserve
<1>2. ASSUME NEW t \in DeleteTags, DeleteIfExists(t)
      PROVE  Map!Next /\ HasReserve'
  <2>1. t \in Nat \ {SigTagHeaderSignatures, SigTagReservedSpace}
    BY ArgumentsAssumption DEF Reserving
  <2> DEFINE n == DeleteIndexEntryIfExists(hdr, t)
  <2>2. /\ FindIndexEntry(n.entries, SigTagReservedSpace) # 0
        /\ MapIn(n.entries) = [u \in VisibleIn(hdr.entries) \ {t} |-> MapIn(hdr.entries)[u]]
    BY <1>0, <2>1, DeleteInMap DEF HasReserve
  <2>3. hdr' = n /\ lastOp' = <<"delete", t>>
    BY <1>2 DEF DeleteIfExists
  <2> HIDE DEF n
  <2>4. Map!DeleteIfExists(t)
    BY <2>2, <2>3, ContentIsMap DEF Map!DeleteIfExists
  <2>5. t \in AllTags
    BY DEF AllTags
  <2> QED
    BY <2>2, <2>3, <2>4, <2>5 DEF Map!Next, HasReserve
<1>3. CASE UNCHANGED vars
  <2>1. hdr' = hdr /\ lastOp' = lastOp
    BY <1>3 DEF vars
  <2> QED
    BY <2>1, ContentIsMap DEF HasReserve, Map!vars
<1> QED
  BY <1>1, <1>2, <1>3 DEF Next

(* While there is reserved space, the editing operations implement the map, for *)
(* every file, tag and payload: what SetOrAddIndexEntry was called with is found *)
(* afterwards, and no call disturbs the payload of another tag.                  *)
THEOREM Refinement == ASSUME Reserving PROVE Spec => ImplementsMap
<1>1. Init => Map!Init /\ HasReserve
  BY InitMap
<1>2. IInv /\ HasReserve /\ [Next]_vars => [Map!Next]_(Map!vars) /\ HasReserve'
  BY StepMap
<1> QED
  BY <1>1, <1>2, Invariance, PTL DEF Spec, ImplementsMap, Map!Spec
=============================================================================
