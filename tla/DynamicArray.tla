---------------------------- MODULE DynamicArray ----------------------------
(***************************************************************************)
(* The array RpmHeader.Write puts the data store together in: writes to    *)
(* arbitrary offsets, with a bitmap of the bytes written so far to report  *)
(* overlapping writes (src/common/dynamicarray.go, bitmap.go,              *)
(* GrowSliceIfNecessary of utils.go).                                      *)
(*                                                                         *)
(* The bitmap is the set of the bits set in its words. The bytes of a      *)
(* write are named after the number of the write; 0 is the zero byte.      *)
(***************************************************************************)
EXTENDS Integers, Sequences, SequencesExt, FiniteSetsExt

CONSTANTS BitsPerElement,   \* 64 in the code
          MaxOffset, MaxLen, MaxWrites

ASSUME SizesAssumption ==
    /\ BitsPerElement \in Nat \ {0}
    /\ {MaxOffset, MaxLen, MaxWrites} \subseteq Nat

VARIABLES bits,      \* the bits set in Bitmap.data
          data,      \* dynamicArrayImpl.data, a function on 0..(len - 1)
          last,      \* lastUsedOffsetExclusive
          count,     \* the number of writes so far
          accepted   \* <<number, offset, length>> of the writes without error

vars == <<bits, data, last, count, accepted>>

Span(offset, len) == offset..(offset + len - 1)

\* GrowSliceIfNecessary: the new length of a slice of the given length.
GrownLen(len, index) ==
    IF index < len THEN len
    ELSE IF 1 + 2 * len <= index THEN index + 1 ELSE 1 + 2 * len

-----------------------------------------------------------------------------
\* Mutant: the words between the first and the last are left out.
SegmentsWithoutMiddle(offset, len) ==
    LET start == offset \div BitsPerElement
        end   == (offset + len - 1) \div BitsPerElement
        first == BitsPerElement - (offset - start * BitsPerElement)
    IN  IF start = end THEN <<Span(offset, len)>>
        ELSE <<Span(offset, first),
               Span(end * BitsPerElement, ((len - first - 1) % BitsPerElement) + 1)>>

\* The pieces, one per word, in which Bitmap.Set tests and sets len > 0 bits:
\* the rest of the first word, whole words while more than one word remains, and
\* the start of the last word.
Segments(offset, len) ==
    LET start     == offset \div BitsPerElement
        end       == (offset + len - 1) \div BitsPerElement
        first     == BitsPerElement - (offset - start * BitsPerElement)
        remaining == len - first
        middle    == (remaining - 1) \div BitsPerElement
    IN  IF start = end THEN <<Span(offset, len)>>
        ELSE <<Span(offset, first)>>
               \o [k \in 1..middle |->
                     Span((start + k) * BitsPerElement, BitsPerElement)]
               \o <<Span(end * BitsPerElement, remaining - middle * BitsPerElement)>>

\* Bitmap.Set gives up at the first piece with a bit that is already set; the
\* pieces before it stay set.
Set(offset, len) ==
    LET segs    == Segments(offset, len)
        blocked == SelectInSeq(segs, LAMBDA s : s \cap bits # {})
        done    == IF blocked = 0 THEN Len(segs) ELSE blocked - 1
    IN  [ok   |-> blocked = 0,
         bits |-> bits \cup UNION {segs[k] : k \in 1..done}]

\* The state after a write that Set accepted, in an array grown to top bytes.
Store(offset, len, top) ==
    /\ data' = [p \in 0..(top - 1) |->
                  IF p \in Span(offset, len) THEN count + 1
                  ELSE IF p \in DOMAIN data THEN data[p] ELSE 0]
    /\ last' = IF offset + len > last THEN offset + len ELSE last
    /\ accepted' = accepted \cup {<<count + 1, offset, len>>}

\* Mutant: the result of the bitmap is ignored.
WriteUnchecked(offset, len) ==
    /\ count < MaxWrites
    /\ count' = count + 1
    /\ len > 0
    /\ bits' = Set(offset, len).bits
    /\ Store(offset, len, GrownLen(Cardinality(DOMAIN data), offset + len))

\* An empty write returns at once; an overlapping one returns an error.
Write(offset, len) ==
    /\ count < MaxWrites
    /\ count' = count + 1
    /\ IF len = 0 THEN UNCHANGED <<bits, data, last, accepted>>
       ELSE /\ bits' = Set(offset, len).bits
            /\ IF Set(offset, len).ok
               THEN Store(offset, len, GrownLen(Cardinality(DOMAIN data), offset + len))
               ELSE UNCHANGED <<data, last, accepted>>

Init ==
    /\ bits = {}
    /\ data = [p \in {} |-> 0]
    /\ last = 0
    /\ count = 0
    /\ accepted = {}

Next ==
    \/ \E offset \in 0..MaxOffset, len \in 0..MaxLen : Write(offset, len)
    \/ count = MaxWrites /\ UNCHANGED vars

Spec == Init /\ [][Next]_vars

GetData == [p \in 0..(last - 1) |-> data[p]]

-----------------------------------------------------------------------------
Covers(w, p) == p \in Span(w[2], w[3])

\* What GetData promises, "all data written so far. Any gaps between writes will
\* be filled with zeroes": every byte of a write that was not refused is found
\* at its place, whatever was written before and after and in whatever order the
\* array grew, and the data ends where the last write ends.
DataIsWhatWasWritten ==
    /\ last = Max({0} \cup {w[2] + w[3] : w \in accepted})
    /\ \A p \in 0..(last - 1) :
          /\ p \in DOMAIN data
          /\ \A w \in accepted : Covers(w, p) => data[p] = w[1]
          /\ (\A w \in accepted : ~Covers(w, p)) => data[p] = 0

\* A write is accepted exactly when none of its bits was set, and then exactly its
\* bits are added, for every position of its ends within the words; one that is
\* refused adds no bit outside its range.
SetIsExact ==
    \A offset \in 0..MaxOffset, len \in 1..MaxLen :
        LET result == Set(offset, len)
            range  == Span(offset, len)
        IN  /\ result.ok <=> range \cap bits = {}
            /\ result.ok => result.bits = bits \cup range
            /\ result.bits \subseteq bits \cup range
=============================================================================
