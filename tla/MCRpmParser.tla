---------------------------- MODULE MCRpmParser ----------------------------
(* Small packages for RpmParser: words of four bits. *)
EXTENDS RpmParser

Entry(offset, fmt, cnt) == [offset |-> offset, fmt |-> fmt, cnt |-> cnt]
Header(es, store, nuls) == [entries |-> es, store |-> store, nuls |-> nuls, magic |-> TRUE]

GoodSig  == Header(<<Entry(2, "string", 1), Entry(0, "bin", 2)>>, 4, {1, 3})
GoodMain == Header(<<Entry(0, "int16", 1)>>, 2, {})
Package(payload) ==
    [lead |-> [magic |-> TRUE, known |-> TRUE], sig |-> GoodSig, main |-> GoodMain, size |-> (HeaderLen(GoodMain) + payload) % Word,
     sizeFmt |-> "int32", payload |-> payload, length |-> 0, validate |-> FALSE]
Whole(p) == [p EXCEPT !.length = MainEnd(p) + p.payload]

\* Streams of every length, too short and too long ones, with a payload below and
\* above half a word, and one that makes the size wrap.
Streams ==
    UNION {{[Package(n) EXCEPT !.length = l, !.validate = v] :
               l \in 0..(MainEnd(Package(n)) + n + 1), v \in BOOLEAN} : n \in {0, 3, 9, 14}}

\* Every value of the size.
Sizes == {[Whole(Package(6)) EXCEPT !.size = s, !.validate = TRUE] : s \in 0..(Word - 1)}

\* Entries of every type, with counts that are zero, right, too large and wrap, at
\* every offset, before and behind others.
AnyEntry == {Entry(o, f, c) : o \in 0..4, c \in {0, 1, 2, 9},
                              f \in {"null", "char", "bin", "int16", "string", "array", "other"}}
Others   == {Entry(0, "bin", 2), Entry(2, "string", 1), Entry(1, "array", 2), Entry(3, "char", 3)}

OddHeaders == {[Whole([Package(0) EXCEPT !.sig.entries = es]) EXCEPT !.validate = FALSE] :
               es \in (AnyEntry \X Others) \cup (Others \X AnyEntry)}

\* Everything else that the parser checks.
Damaged ==
    LET p == Whole(Package(3))
    IN  {[p EXCEPT !.sizeFmt = "int64"], [p EXCEPT !.sizeFmt = "none"],
         [p EXCEPT !.lead.magic = FALSE], [p EXCEPT !.lead.known = FALSE],
         [p EXCEPT !.sig.magic = FALSE], [p EXCEPT !.main.magic = FALSE],
         [p EXCEPT !.main.entries = <<Entry(1, "int16", 1)>>]}

AllInputs == Streams \cup Sizes \cup OddHeaders \cup Damaged

\* The hypothesis of OutcomeIsInTheBytes holds of these packages.
ASSUME WalkAssumption == WalkIsRight
=============================================================================
