------------------------------ MODULE RpmParser ------------------------------
(***************************************************************************)
(* ParseRPM and parseHeader of src/common/rpmparser.go over a stream: what *)
(* is read in which order and through which digest readers, the walk over  *)
(* the entries of a header, the size of the payload in 32-bit arithmetic,  *)
(* and the check of the digests. RpmFile states the outcome for a whole    *)
(* file; this module is about how the parser gets there.                   *)
(*                                                                         *)
(* A header is a record of its index entries [offset, fmt, cnt] in the     *)
(* order of the file, the size of its store and the positions of the NUL   *)
(* bytes in it. Of the lead the parser checks the magic and, once the      *)
(* rest is read, the package type (known: binary or source).               *)
(***************************************************************************)
EXTENDS StreamReading, SequencesExt

CONSTANTS Inputs,       \* packages and how they are parsed
          LeadLen, IntroLen, EntryLen,   \* 96, 16 and 16 bytes
          Alignment,    \* of the main header, 8 bytes
          Word          \* 2^32

ASSUME ParserAssumption ==
    /\ {LeadLen, IntroLen, EntryLen, Alignment} \subseteq Nat \ {0}
    /\ Word \in Nat \ {0}
    /\ Alignment <= Chunk

\* "other" is any number that populatePayload does not know.
Formats ==
    {"null", "char", "bin", "int8", "int16", "int32", "int64", "string", "array", "other"}

\* Counts, offsets and sizes are words; payload is the length of the payload that rpm
\* took the digest of, whatever the size says.
Headers ==
    [entries: Seq([offset: Nat, fmt: Formats, cnt: Nat]), store: Nat, nuls: SUBSET Nat, magic: BOOLEAN]

ASSUME InputsAssumption ==
    \A p \in Inputs :
        /\ p.lead \in [magic: BOOLEAN, known: BOOLEAN]
        /\ {p.sig, p.main} \subseteq Headers
        /\ p.length \in Nat /\ p.payload \in Nat /\ p.size \in 0..(Word - 1)
        /\ p.validate \in BOOLEAN

VARIABLES
    rpm,        \* the package: an element of Inputs
    stage,      \* where ParseRPM is
    start,      \* mainHeader.headerStartOffset
    result      \* how it ended

vars == <<streamVars, rpm, stage, start, result>>

-----------------------------------------------------------------------------
ItemSize == [int8 |-> 1, bin |-> 1, int16 |-> 2, int32 |-> 4, int64 |-> 8]

\* The bytes of the n strings that start at offset from, -1 if there are not so many.
StringsLen(h, from, n) ==
    LET ends == {p \in h.nuls : p >= from /\ Cardinality({q \in h.nuls : from <= q /\ q <= p}) = n}
    IN  IF ends = {} THEN -1 ELSE (CHOOSE p \in ends : TRUE) + 1 - from

\* The bytes populatePayload asks for: uint32 arithmetic, and one byte for CHAR
\* whatever the count. Where the data of a string ends is up to the data. -1 is an
\* error: data that never ends, or a type that does not exist.
Wanted(h, e) ==
    CASE e.fmt = "other"  -> -1
      [] e.fmt = "null"   -> 0
      [] e.fmt = "char"   -> 1
      [] e.fmt = "string" -> StringsLen(h, e.offset, 1)
      [] e.fmt = "array"  -> IF e.cnt = 0 THEN 0 ELSE StringsLen(h, e.offset, e.cnt)
      [] OTHER            -> (e.cnt * ItemSize[e.fmt]) % Word

\* PayloadAsPrettyString, which the debug message calls whether it is printed or
\* not, panics unless the data has as many items as the entry says.
Printable(h, e, n) ==
    CASE e.fmt = "string" -> e.cnt = 1
      [] e.fmt \in {"int16", "int32", "int64"} -> e.cnt * ItemSize[e.fmt] <= n
      [] OTHER -> TRUE

\* The body of parseHeader's loop for one entry: where the walk is, or how it ended.
WalkEntry(h, w, e) ==
    LET n == Wanted(h, e)
    IN  IF w.outcome # "ok" THEN w
        ELSE IF w.at > e.offset THEN [w EXCEPT !.outcome = "panic"]
        ELSE IF e.offset > h.store \/ n < 0 \/ e.offset + n > h.store
             THEN [w EXCEPT !.outcome = "error"]
        ELSE IF n = 0 \/ ~Printable(h, e, n) THEN [w EXCEPT !.outcome = "panic"]
        ELSE [w EXCEPT !.at = e.offset + n]

Walk(h) ==
    FoldLeft(LAMBDA w, e : WalkEntry(h, w, e), [at |-> 0, outcome |-> "ok"],
             SortSeq(h.entries, LAMBDA a, b : a.offset < b.offset)).outcome

-----------------------------------------------------------------------------
Init ==
    /\ rpm \in Inputs
    /\ length = rpm.length
    /\ StreamInit
    /\ stage = "start"
    /\ start = 0
    /\ result = "none"

\* The next call of the parser, through the given digest readers.
Read(next, call, digests) ==
    /\ stage' = next
    /\ job' = call
    /\ active' = digests
    /\ UNCHANGED <<length, pos, fed, capturing, captured, fault, rpm, result>>

End(outcome) ==
    /\ stage' = "end"
    /\ result' = outcome
    /\ active' = {}
    /\ capturing' = FALSE
    /\ UNCHANGED <<length, pos, job, fed, captured, fault, rpm, start>>

At(s) == stage = s /\ job.kind = "ok"

ParseLead ==
    /\ At("start")
    /\ Read("lead", Fill(LeadLen), {})
    /\ UNCHANGED start

\* The lead's magic is right: magic, version, reserved bytes and the two counts.
ReadIntro ==
    \/ At("lead") /\ rpm.lead.magic /\ Read("sigIntro", Fill(IntroLen), {}) /\ UNCHANGED start
    \/ At("padding") /\ Read("mainIntro", Fill(IntroLen), Digests) /\ start' = pos

ReadIndex ==
    /\ \/ At("sigIntro") /\ rpm.sig.magic
          /\ Read("sigIndex", Fill(Len(rpm.sig.entries) * EntryLen), {})
       \/ At("mainIntro") /\ rpm.main.magic
          /\ Read("mainIndex", Fill(Len(rpm.main.entries) * EntryLen), Digests)
    /\ UNCHANGED start

ReadStore ==
    /\ \/ At("sigIndex") /\ Read("sigStore", Fill(rpm.sig.store), {})
       \/ At("mainIndex") /\ Read("mainStore", Fill(rpm.main.store), Digests)
    /\ UNCHANGED start

\* The signature header is walked, then advanceToNext8ByteBoundary.
SkipPadding ==
    /\ At("sigStore") /\ Walk(rpm.sig) = "ok"
    /\ Read("padding", Ahead((-pos) % Alignment), {})
    /\ UNCHANGED start

\* uint64(int32) sign-extends; the difference is truncated to 32 bits again.
Signed(x) == IF 2 * x >= Word THEN x - Word ELSE x
CompressedPayloadSize == (Signed(rpm.size) - (pos - start)) % (Word * Word)

PayloadToRead == CompressedPayloadSize % Word

\* Mutant: the payload is always read.
ReadPayloadAlways ==
    /\ At("mainStore") /\ Walk(rpm.main) = "ok"
    /\ rpm.sizeFmt = "int32"
    /\ Read("payload", Ahead(PayloadToRead), {"md5"})
    /\ UNCHANGED start

\* The main header is walked, the size found, and the payload read for the MD5
\* digest if that is to be checked.
ReadPayload ==
    /\ At("mainStore") /\ Walk(rpm.main) = "ok"
    /\ rpm.sizeFmt = "int32"
    /\ IF rpm.validate THEN Read("payload", Ahead(PayloadToRead), {"md5"})
                       ELSE Read("payload", Returned, {})
    /\ UNCHANGED start

HeaderLen(h) == IntroLen + Len(h.entries) * EntryLen + h.store

\* What rpm stored when it built the package.
Recorded(digest) ==
    Positions(start, IF digest = "md5" THEN HeaderLen(rpm.main) + rpm.payload ELSE HeaderLen(rpm.main))

DigestsMatch ==
    /\ rpm.validate => fed["md5"] = Recorded("md5")
    /\ fed["sha"] = Recorded("sha")

Validate ==
    /\ At("payload")
    /\ End(IF rpm.lead.known /\ DigestsMatch THEN "ok" ELSE "panic")

\* Early returns and panics: a failed read, a wrong magic, a header that cannot be
\* walked, no usable size.
GiveUp ==
    \/ /\ job.kind = "error"
       /\ stage # "end"
       /\ End(IF stage = "payload" THEN "panic" ELSE "error")
    \/ At("lead") /\ ~rpm.lead.magic /\ End("error")
    \/ At("sigIntro") /\ ~rpm.sig.magic /\ End("error")
    \/ At("mainIntro") /\ ~rpm.main.magic /\ End("error")
    \/ At("sigStore") /\ Walk(rpm.sig) # "ok" /\ End(Walk(rpm.sig))
    \/ At("mainStore") /\ Walk(rpm.main) # "ok" /\ End(Walk(rpm.main))
    \/ At("mainStore") /\ Walk(rpm.main) = "ok" /\ rpm.sizeFmt # "int32" /\ End("panic")

Proceed ==
    \/ (FillBuffer \/ ReadAhead) /\ UNCHANGED <<rpm, stage, start, result>>
    \/ ParseLead \/ ReadIntro \/ ReadIndex \/ ReadStore \/ SkipPadding \/ ReadPayload
    \/ Validate \/ GiveUp

Next ==
    \/ Proceed
    \/ ReadFails /\ UNCHANGED <<rpm, stage, start, result>>
    \/ stage = "end" /\ UNCHANGED vars

\* A file delivers its bytes, and the parser goes on. (Nothing bounds the time that
\* a connection may take.)
Spec == Init /\ [][Next]_vars /\ WF_vars(Proceed)

-----------------------------------------------------------------------------
\* The layout of a package.
SigEnd(p)    == LeadLen + HeaderLen(p.sig)
MainStart(p) == SigEnd(p) + ((-SigEnd(p)) % Alignment)
MainEnd(p)   == MainStart(p) + HeaderLen(p.main)

\* An entry of a sound header: the bytes from offset on are data of its type and
\* count, and the 32-bit product of count and size is the product.
SoundEntry(h, e, n) ==
    /\ e.cnt > 0 \/ e.fmt = "char"
    /\ e.offset + n <= h.store
    /\ CASE e.fmt = "char"  -> n = 1
         [] e.fmt \in {"string", "array"} ->
               /\ e.fmt = "string" => e.cnt = 1
               /\ e.offset + n - 1 \in h.nuls
               /\ Cardinality({p \in h.nuls : e.offset <= p /\ p < e.offset + n}) = e.cnt
         [] OTHER -> e.fmt \in DOMAIN ItemSize /\ n = e.cnt * ItemSize[e.fmt] /\ n < Word

\* The data of all entries fits into the store without overlap.
SoundHeader(h) ==
    \E lens \in [DOMAIN h.entries -> 1..h.store] :
        /\ \A i \in DOMAIN h.entries : SoundEntry(h, h.entries[i], lens[i])
        /\ \A i, j \in DOMAIN h.entries : i # j =>
              \/ h.entries[i].offset + lens[i] <= h.entries[j].offset
              \/ h.entries[j].offset + lens[j] <= h.entries[i].offset

\* The walk over the entries accepts exactly the headers that are sound.
WalkIsRight == \A p \in Inputs : \A h \in {p.sig, p.main} : Walk(h) = "ok" <=> SoundHeader(h)

\* What a package needs to be accepted, by its bytes alone.
Acceptable(p) ==
    /\ p.lead.magic /\ p.lead.known /\ p.sig.magic /\ p.main.magic
    /\ SoundHeader(p.sig) /\ SoundHeader(p.main)
    /\ p.sizeFmt = "int32"
    /\ p.length >= MainEnd(p)
    /\ p.validate => /\ p.length >= MainEnd(p) + p.payload
                     /\ p.payload < Word /\ p.size = (HeaderLen(p.main) + p.payload) % Word

\* Whether a package is accepted depends on its bytes and not on how the stream
\* delivers them: in which pieces, and where the end of the stream is reported.
\* Sizes above 2^31, which the parser takes for negative, and counts whose
\* product with the item size wraps are no exception.
OutcomeDependsOnBytesOnly ==
    stage = "end" /\ fault = "none" => (result = "ok" <=> Acceptable(rpm))

\* "the captured bytes are now exactly the RPM header and nothing more"
\* (client.go), and the reader "stopped right at the first payload byte".
StopsAtPayload ==
    result = "ok" /\ ~rpm.validate =>
        pos = MainEnd(rpm) /\ captured = Positions(0, MainEnd(rpm))

\* readAhead gives up on a short read, which a connection may return at any time.
\* Only the check of the payload is exposed to it: the padding between the headers
\* is read with FillBuffer. And it is never taken for success.
ShortReadsHarmOnlyValidation ==
    fault = "short" => rpm.validate /\ result \in {"none", "panic"}

\* The parser comes to an end on every stream that delivers its bytes or ends.
ParsingEnds == <>(stage = "end")
=============================================================================
