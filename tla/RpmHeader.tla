------------------------------ MODULE RpmHeader ------------------------------
(***************************************************************************)
(* The in-memory form of an RPM signature header (type RpmHeader of        *)
(* src/common/rpmparser.go) and the operations that edit it, as operators  *)
(* from header to header.                                                  *)
(*                                                                         *)
(* An index entry is a record                                              *)
(*     tag, fmt      the tag number and the format type                    *)
(*     offset        where its data starts in the data store               *)
(*     cnt, len      dataItemCnt and the length in bytes of the payload    *)
(*     val           the payload itself, which no operation looks into     *)
(* and a header is a record                                                *)
(*     entries           IndexEntries                                      *)
(*     cap               the capacity of the slice behind IndexEntries     *)
(*     indexEntryCount   the count written to the file                     *)
(*     storeSize         storeSizeInBytes                                  *)
(*     regionCount       the number of entries that the region trailer     *)
(*                       covers: bytes 8..11 of the trailer's payload      *)
(*                       and SignedRegion.IndexEntryCount, which the code  *)
(*                       always sets together                              *)
(* Sizes and offsets are bytes. Only signature headers are ever edited, so *)
(* the IsMainHeader branches of the code are not taken.                    *)
(***************************************************************************)
EXTENDS Integers, SequencesExt

CONSTANT ReservedAlloc     \* RESERVED_SPACE_ALLOCATION_SIZE, 4096 in the code

\* Larger than any alignment padding (GetRequiredAlignment is at most 8).
ASSUME ReservedAllocAssumption == ReservedAlloc \in Nat /\ ReservedAlloc >= 8

-----------------------------------------------------------------------------
SigTagHeaderSignatures == 62
SigTagDSAHeader        == 267
SigTagRSAHeader        == 268
SigTagSHA1Header       == 269
SigTagLongSigSize      == 270
SigTagSHA256Header     == 273
SigTagSize             == 1000
SigTagPGP              == 1002
SigTagMD5              == 1004
SigTagGPG              == 1005
SigTagPGP5             == 1006
SigTagReservedSpace    == 1008

FORMAT_TYPE_INT16  == 3
FORMAT_TYPE_INT32  == 4
FORMAT_TYPE_INT64  == 5
FORMAT_TYPE_STRING == 6
FORMAT_TYPE_BINARY == 7

\* The format types a parsed entry can have (0 and 10.. end the parse).
FormatTypes == 1..9

GetRequiredAlignment(fmt) ==
    CASE fmt = FORMAT_TYPE_INT16 -> 2
      [] fmt = FORMAT_TYPE_INT32 -> 4
      [] fmt = FORMAT_TYPE_INT64 -> 8
      [] OTHER -> 1

CalcAlignmentByteCount(address, alignment) ==
    (alignment - (address % alignment)) % alignment

Aligned(address, fmt) ==
    address + CalcAlignmentByteCount(address, GetRequiredAlignment(fmt))

EndOffset(e) == e.offset + e.len

NewEntry(tag, fmt, offset, cnt, len, val) ==
    [tag |-> tag, fmt |-> fmt, offset |-> offset, cnt |-> cnt, len |-> len,
     val |-> val]

\* The bytes of a region trailer: tag, type, negative offset and size.
TrailerLen == 16

\* The content of a payload of zeroes, which is what reserved space holds.
Zeroes == "zeroes"

\* Index entries and headers whose payloads have contents in vals.
Entry(vals) ==
    [tag : Nat, fmt : FormatTypes, offset : Nat, cnt : Nat, len : Nat, val : vals]

Header(vals) ==
    [entries : Seq(Entry(vals)), cap : Nat, indexEntryCount : Nat,
     storeSize : Nat, regionCount : Nat]

-----------------------------------------------------------------------------
\* Index of the first entry with the given tag, 0 for the code's nil.
FindIndexEntry(es, tag) == SelectInSeq(es, LAMBDA e : e.tag = tag)

RegionTrailerEntry(es) == FindIndexEntry(es, SigTagHeaderSignatures)

\* The loop of syncDataStoreLayout places the entries in index order, except
\* that the region trailer comes last: PlaceOf(es, i) is the turn of entry i,
\* PlacedAt(es, k) the entry whose turn is the k-th.
PlaceOf(es, i) ==
    LET trailer == RegionTrailerEntry(es)
    IN  IF trailer = 0 \/ i < trailer THEN i
        ELSE IF i = trailer THEN Len(es) ELSE i - 1

PlacedAt(es, k) ==
    LET trailer == RegionTrailerEntry(es)
    IN  IF trailer = 0 \/ k < trailer THEN k
        ELSE IF k = Len(es) THEN trailer ELSE k + 1

\* The loop's variable nextOffset after the k-th turn.
NextOffset(es) ==
    LET next[k \in 0..Len(es)] ==
            IF k = 0 THEN 0
            ELSE LET e == es[PlacedAt(es, k)]
                 IN  Aligned(next[k - 1], e.fmt) + e.len
    IN  next

SyncDataStoreLayout(h) ==
    LET es   == h.entries
        next == NextOffset(es)
    IN  [h EXCEPT !.entries =
                      [i \in 1..Len(es) |->
                          [es[i] EXCEPT !.offset =
                              Aligned(next[PlaceOf(es, i) - 1], es[i].fmt)]],
                  !.storeSize = next[Len(es)]]

\* Unless this holds, updateSignedRegionTrailer panics. It is called whenever an
\* entry is inserted or deleted, and the operators below are what is done where
\* it returns.
TrailerFits(h) ==
    LET k == RegionTrailerEntry(h.entries)
    IN  k # 0 => h.entries[k].len = TrailerLen

UpdateSignedRegionTrailer(h) ==
    IF RegionTrailerEntry(h.entries) = 0 THEN h
    ELSE [h EXCEPT !.regionCount = Len(h.entries)]

-----------------------------------------------------------------------------
\* parseHeader appends one entry at a time. The capacity doubles, and the allocator
\* rounds it up: entries have 48 bytes and hold pointers, an allocation of more than
\* 512 bytes has a header of 8 more (Go 1.22), and sizes come in classes. A slice of
\* more than 682 entries grows by less; all that is said of it is that they fit.
ParsedCapacity(n) ==
    IF n <= 682 THEN Min({c \in {1, 2, 4, 8, 18, 37, 85, 170, 341, 682} : c >= n})
    ELSE CHOOSE c \in Nat : c >= n

\* slices.Insert reuses the backing array while the result fits in it and
\* otherwise copies into one that has grown as append makes it grow.
GrownCapacity(cap, needed) == IF needed <= cap THEN cap ELSE ParsedCapacity(needed)

\* The position that keeps the entries sorted by tag.
InsertPosition(es, tag) ==
    LET larger == SelectInSeq(es, LAMBDA e : e.tag > tag)
    IN  IF larger = 0 THEN Len(es) + 1 ELSE larger

\* Mutant: indexEntryCount is not incremented.
InsertIndexEntryUncounted(h, e) ==
    LET es == InsertAt(h.entries, InsertPosition(h.entries, e.tag), e)
    IN  SyncDataStoreLayout(UpdateSignedRegionTrailer(
            [h EXCEPT !.entries = es, !.cap = GrownCapacity(@, Len(es))]))

\* Mutant: the data stays where the allocator put it.
InsertIndexEntryUnsynced(h, e) ==
    LET es == InsertAt(h.entries, InsertPosition(h.entries, e.tag), e)
    IN  UpdateSignedRegionTrailer(
            [h EXCEPT !.entries = es,
                      !.cap = GrownCapacity(@, Len(es)),
                      !.indexEntryCount = @ + 1])

InsertIndexEntry(h, e) ==
    LET es == InsertAt(h.entries, InsertPosition(h.entries, e.tag), e)
    IN  SyncDataStoreLayout(UpdateSignedRegionTrailer(
            [h EXCEPT !.entries = es,
                      !.cap = GrownCapacity(@, Len(es)),
                      !.indexEntryCount = @ + 1]))

\* Mutant: the region trailer keeps covering the deleted entry.
DeleteIndexEntryKeepsRegion(h, tag) ==
    LET k == FindIndexEntry(h.entries, tag)
    IN  IF k = 0 THEN h
        ELSE SyncDataStoreLayout(
                 [h EXCEPT !.entries = RemoveAt(@, k), !.indexEntryCount = @ - 1])

DeleteIndexEntryIfExists(h, tag) ==
    LET k == FindIndexEntry(h.entries, tag)
    IN  IF k = 0 THEN h
        ELSE SyncDataStoreLayout(UpdateSignedRegionTrailer(
                 [h EXCEPT !.entries = RemoveAt(@, k), !.indexEntryCount = @ - 1]))

-----------------------------------------------------------------------------
DataEntries(es) == {i \in 1..Len(es) : i # RegionTrailerEntry(es)}

FindNextSuitablePayloadOffset(es, fmt) ==
    LET data == DataEntries(es)
        last == CHOOSE i \in data :
                    \A j \in data : \/ es[i].offset > es[j].offset
                                    \/ es[i].offset = es[j].offset /\ i <= j
    IN  IF data = {} THEN 0 ELSE Aligned(EndOffset(es[last]), fmt)

\* No entry but the region trailer ends behind entry k.
IsAtEndOfDataStore(es, k) ==
    \A i \in DataEntries(es) : EndOffset(es[i]) <= EndOffset(es[k])

\* What an allocation takes from reserved space that starts at offset.
ActualSize(offset, size, fmt) ==
    size + CalcAlignmentByteCount(offset, GetRequiredAlignment(fmt))

\* Mutant: the case of nothing being left is not told apart.
TakeFromReservedSpaceToTheEnd(h, r, size, fmt) ==
    LET reserved  == h.entries[r]
        actual    == ActualSize(reserved.offset, size, fmt)
        remaining == reserved.cnt - actual
    IN  [hdr  |-> [h EXCEPT !.entries[r] =
                      [reserved EXCEPT !.offset = reserved.offset + actual,
                                       !.cnt = remaining, !.len = remaining]],
         addr |-> Aligned(reserved.offset, fmt)]

\* The branches that hand out the start of the reserved space, which entry r
\* holds: what is left moves behind it, a fresh block if nothing is left.
TakeFromReservedSpace(h, r, size, fmt) ==
    LET reserved  == h.entries[r]
        actual    == ActualSize(reserved.offset, size, fmt)
        remaining == reserved.cnt - actual
        left      == IF remaining > 0 THEN remaining ELSE ReservedAlloc
    IN  [hdr  |-> [h EXCEPT !.entries[r] =
                      [reserved EXCEPT !.offset = reserved.offset + actual,
                                       !.cnt = left, !.len = left]],
         addr |-> Aligned(reserved.offset, fmt)]

\* Mutant: the reserved space grows by what was asked for, without alignment.
GrowReservedSpaceUnaligned(h, r, size, fmt) ==
    [h EXCEPT !.entries[r] = [h.entries[r] EXCEPT !.cnt = size, !.len = size]]

\* Reserved space that is too small grows in place, or moves to the end.
GrowReservedSpace(h, r, size, fmt) ==
    LET reserved == h.entries[r]
        grown == ActualSize(reserved.offset, size, fmt) + ReservedAlloc
        es    == [h.entries EXCEPT ![r] = [reserved EXCEPT !.cnt = grown, !.len = grown]]
        start == IF IsAtEndOfDataStore(h.entries, r) THEN reserved.offset
                 ELSE FindNextSuitablePayloadOffset(es, FORMAT_TYPE_BINARY)
    IN  [h EXCEPT !.entries[r] =
            [reserved EXCEPT !.offset = start, !.cnt = grown, !.len = grown]]

CreateReservedSpace(h, size, fmt) ==
    LET start == FindNextSuitablePayloadOffset(h.entries, FORMAT_TYPE_BINARY)
        bytes == ReservedAlloc + ActualSize(start, size, fmt)
    IN  InsertIndexEntry(h, NewEntry(SigTagReservedSpace, FORMAT_TYPE_BINARY,
                                     start, bytes, bytes, Zeroes))

HasRoomFor(h, size, fmt) ==
    LET r == FindIndexEntry(h.entries, SigTagReservedSpace)
    IN  /\ r # 0
        /\ h.entries[r].cnt >= ActualSize(h.entries[r].offset, size, fmt)

\* What allocateSpaceInDatastore does before it calls itself again.
MakeRoomFor(h, size, fmt) ==
    LET r == FindIndexEntry(h.entries, SigTagReservedSpace)
    IN  IF HasRoomFor(h, size, fmt) THEN h
        ELSE IF r = 0 THEN CreateReservedSpace(h, size, fmt)
        ELSE GrowReservedSpace(h, r, size, fmt)

\* One recursive call is enough: HeaderEditing!RecursionEnds.
AllocateSpaceInDatastore(h, size, fmt) ==
    LET h1 == MakeRoomFor(h, size, fmt)
    IN  TakeFromReservedSpace(h1, FindIndexEntry(h1.entries, SigTagReservedSpace),
                              size, fmt)

-----------------------------------------------------------------------------
AddIndexEntry(h, tag, fmt, cnt, len, val) ==
    LET al == AllocateSpaceInDatastore(h, len, fmt)
    IN  InsertIndexEntry(al.hdr, NewEntry(tag, fmt, al.addr, cnt, len, val))

\* Mutant: the data is not laid out again.
ReplacePayloadUnsynced(h, k, fmt, cnt, len, val) ==
    LET grows == len > h.entries[k].len /\ ~IsAtEndOfDataStore(h.entries, k)
        al    == IF grows THEN AllocateSpaceInDatastore(h, len, fmt)
                 ELSE [hdr |-> h, addr |-> h.entries[k].offset]
    IN  [al.hdr EXCEPT !.entries[k] =
            [@ EXCEPT !.offset = al.addr, !.cnt = cnt, !.len = len, !.val = val]]

\* Replaces the payload of entry k. The code writes through a pointer into the
\* slice's backing array that it obtained before the allocation: if inserting
\* reserved space moved the slice to a new array, the write is lost.
ReplacePayload(h, k, fmt, cnt, len, val) ==
    LET grows == len > h.entries[k].len /\ ~IsAtEndOfDataStore(h.entries, k)
        al    == IF grows THEN AllocateSpaceInDatastore(h, len, fmt)
                 ELSE [hdr |-> h, addr |-> h.entries[k].offset]
        moved == Len(al.hdr.entries) > h.cap
    IN  SyncDataStoreLayout(
            IF moved THEN al.hdr
            ELSE [al.hdr EXCEPT !.entries[k] =
                     [@ EXCEPT !.offset = al.addr, !.cnt = cnt, !.len = len, !.val = val]])

\* Mutant: an existing entry is not looked for.
SetOrAddAlwaysAdds(h, tag, fmt, cnt, len, val) ==
    AddIndexEntry(h, tag, fmt, cnt, len, val)

\* The code panics when the entry exists with another format type.
SetOrAddIndexEntry(h, tag, fmt, cnt, len, val) ==
    LET k == FindIndexEntry(h.entries, tag)
    IN  IF k = 0 THEN AddIndexEntry(h, tag, fmt, cnt, len, val)
        ELSE ReplacePayload(h, k, fmt, cnt, len, val)

-----------------------------------------------------------------------------
\* The number of data store bytes Write emits (DynamicArray.GetData).
WrittenStoreSize(es) == Max({0} \cup {EndOffset(es[i]) : i \in 1..Len(es)})

-----------------------------------------------------------------------------
\* The index table that Write emits is the one rpm and the parser accept: the
\* entries are strictly sorted by tag, the declared count is their number, there
\* is a region trailer and it covers all of them (validateDigests rejects the
\* file otherwise), and the slice fits its backing array.
IndexTable(h) ==
    /\ \A i, j \in 1..Len(h.entries) :
          i < j => h.entries[i].tag < h.entries[j].tag
    /\ h.indexEntryCount = Len(h.entries)
    /\ RegionTrailerEntry(h.entries) # 0
    /\ h.regionCount = Len(h.entries)
    /\ Len(h.entries) <= h.cap

\* rpm's hdrblobVerifyInfo: walking the entries in index order, no entry's data
\* starts before the previous one's ends, every entry is aligned, and the
\* region trailer occupies the last bytes of the data store.
DataStore(h) ==
    LET es      == h.entries
        trailer == RegionTrailerEntry(es)
    IN  /\ \A i, j \in DataEntries(es) : i < j => EndOffset(es[i]) <= es[j].offset
        /\ \A i \in 1..Len(es) : es[i].offset % GetRequiredAlignment(es[i].fmt) = 0
        /\ \A i \in DataEntries(es) : EndOffset(es[i]) <= es[trailer].offset
        /\ EndOffset(es[trailer]) = h.storeSize
=============================================================================
