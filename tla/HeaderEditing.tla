--------------------------- MODULE HeaderEditing ---------------------------
(***************************************************************************)
(* A parsed signature header under an arbitrary sequence of the two        *)
(* editing calls of its API, SetOrAddIndexEntry and                        *)
(* DeleteIndexEntryIfExists (src/common/rpmparser.go).                     *)
(***************************************************************************)
EXTENDS RpmHeader

CONSTANTS Files,        \* the headers that parsing can yield
          SetTags,      \* tags given to SetOrAddIndexEntry (format BINARY)
          DeleteTags,   \* tags given to DeleteIndexEntryIfExists
          Lens,         \* lengths of new payloads
          NewContents,  \* contents of new payloads
          Contents      \* contents of all payloads

-----------------------------------------------------------------------------
\* Parsing yields a header that rpm accepts, with some data in every entry
\* (parseHeader panics on an empty one). The trailer is one that can be edited.
ASSUME FilesAssumption ==
    \A f \in Files : /\ f \in Header(Contents)
                     /\ IndexTable(f)
                     /\ DataStore(f)
                     /\ TrailerFits(f)
                     /\ \A i \in 1..Len(f.entries) : f.entries[i].len > 0

\* A caller never edits the region trailer or writes the reserved space.
ASSUME ArgumentsAssumption ==
    /\ SetTags \subseteq Nat \ {SigTagHeaderSignatures, SigTagReservedSpace}
    /\ DeleteTags \subseteq Nat \ {SigTagHeaderSignatures}
    /\ Lens \subseteq Nat \ {0}
    /\ NewContents \cup {Zeroes} \subseteq Contents

VARIABLES hdr,          \* the header
          lastOp        \* the last call, in the form HeaderMap records it

vars == <<hdr, lastOp>>

Init ==
    /\ hdr \in Files
    /\ lastOp = <<"none">>

SetOrAdd(t, l, v) ==
    /\ hdr' = SetOrAddIndexEntry(hdr, t, FORMAT_TYPE_BINARY, l, l, v)
    /\ lastOp' = <<"set", t, <<l, v>>>>

DeleteIfExists(t) ==
    /\ hdr' = DeleteIndexEntryIfExists(hdr, t)
    /\ lastOp' = <<"delete", t>>

Next ==
    \/ \E t \in SetTags, l \in Lens, v \in NewContents : SetOrAdd(t, l, v)
    \/ \E t \in DeleteTags : DeleteIfExists(t)

Spec == Init /\ [][Next]_vars

-----------------------------------------------------------------------------
\* The types of the state.
TypeOK == hdr \in Header(Contents)

\* No sequence of edits breaks the index table: tags stay sorted whatever is
\* inserted or deleted, the counts in the preamble and in the region trailer
\* follow, and the trailer is never lost.
IndexTableOK == IndexTable(hdr)

\* No sequence of edits breaks the data store: nothing overlaps (Write would
\* panic), everything is aligned, and the trailer stays at the end although it is
\* the first index entry.
DataStoreOK == DataStore(hdr)

\* The store size that the header declares is the number of bytes that Write
\* emits: the main header of the written file starts where readers look for it.
DeclaredSizeIsWritten == hdr.storeSize = WrittenStoreSize(hdr.entries)

\* No edit leaves an entry without data, in particular not the reserved space
\* at the moment it is used up to the last byte: parseHeader panics on one.
NoEmptyEntry == \A i \in 1..Len(hdr.entries) : hdr.entries[i].len > 0

\* allocateSpaceInDatastore calls itself after making room; the second call
\* always finds the room it needs, whatever size and format are asked for, so
\* the recursion ends after one step.
RecursionEnds ==
    \A l \in Lens, f \in FormatTypes : HasRoomFor(MakeRoomFor(hdr, l, f), l, f)

-----------------------------------------------------------------------------
\* The map a caller sees: every tag except the two that the operations manage
\* themselves.
VisibleTags ==
    {hdr.entries[i].tag : i \in 1..Len(hdr.entries)}
        \ {SigTagHeaderSignatures, SigTagReservedSpace}

Content ==
    [t \in VisibleTags |->
        LET e == hdr.entries[FindIndexEntry(hdr.entries, t)] IN <<e.len, e.val>>]

AllTags ==
    SetTags \cup DeleteTags
        \cup UNION {{f.entries[i].tag : i \in 1..Len(f.entries)} : f \in Files}

AllPayloads ==
    (Lens \X NewContents)
        \cup UNION {{<<f.entries[i].len, f.entries[i].val>> : i \in 1..Len(f.entries)}
                        : f \in Files}

Map == INSTANCE HeaderMap WITH Tags <- AllTags, Payloads <- AllPayloads,
                               content <- Content

\* The editing operations implement the map: a payload that SetOrAddIndexEntry
\* was called with is the one found afterwards, and no call disturbs the
\* payload of another tag.
ImplementsMap == Map!Spec
=============================================================================
