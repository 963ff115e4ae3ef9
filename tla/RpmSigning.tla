----------------------------- MODULE RpmSigning -----------------------------
(***************************************************************************)
(* An RPM file that is signed again and again, by different keys: every    *)
(* round parses the file, signs it in memory and writes the result, which  *)
(* the next round starts from (SignRpmAndWrite of src/common/signing.go    *)
(* after ParseRPMFromReader, the sequence of calls of the client and of    *)
(* the server's signRpmData).                                              *)
(***************************************************************************)
EXTENDS RpmFile

CONSTANTS Files,                \* the files to start from
          Keys,                 \* private keys
          KeyType,              \* GetKeyType, a function on Keys
          SigLen,               \* the length of a key's signature packets
          SignaturesPerParse    \* how often SignRpm is called on a parsed file

NotParsed == <<>>
NoKey     == "none"
NoPayload == "nothing"

ASSUME KeysAssumption ==
    /\ NoKey \notin Keys
    /\ KeyType \in [Keys -> {KEY_TYPE_RSA, KEY_TYPE_DSA, KEY_TYPE_OTHER}]
    /\ SigLen \in [Keys -> Nat \ {0}]
    /\ SignaturesPerParse \in Nat \ {0}

\* The contents of the signature headers of all files.
Contents == UNION {{f.sig.entries[i].val : i \in DOMAIN f.sig.entries} : f \in Files}

\* Whether or not the parser accepts a file, it is a package: rpm sorts the index
\* table, which the parser does not check.
ASSUME FilesAssumption ==
    \A f \in Files :
        /\ f = [format |-> f.format, sig |-> f.sig, main |-> f.main, payload |-> f.payload]
        /\ f.sig \in Header(Contents)
        /\ \A i, j \in 1..Len(f.sig.entries) :
              i < j => f.sig.entries[i].tag < f.sig.entries[j].tag

VARIABLES file,      \* the file on disk
          mem,       \* the parsed file, NotParsed between rounds
          unread,    \* what the reader of the file still delivers
          memKey,    \* the key of the last SignRpm call on mem that returned nil
          fileKey    \* the key that the file on disk was signed with

vars == <<file, mem, unread, memKey, fileKey>>

Init ==
    /\ file \in Files
    /\ mem = NotParsed
    /\ unread = NoPayload
    /\ memKey = NoKey
    /\ fileKey = NoKey

\* Mutant: the payload is read for validation, too.
ParseValidating ==
    /\ mem = NotParsed
    /\ ParseOutcome(file, TRUE) = "ok"
    /\ mem' = ParseRPM(file)
    /\ unread' = NoPayload
    /\ UNCHANGED <<file, memKey, fileKey>>

\* Both callers parse without validating the payload: the reader stops at the
\* first byte of the payload.
Parse ==
    /\ mem = NotParsed
    /\ ParseOutcome(file, FALSE) = "ok"
    /\ mem' = ParseRPM(file)
    /\ unread' = file.payload
    /\ UNCHANGED <<file, memKey, fileKey>>

\* An error or a panic of the parser: nothing is signed.
ParseFails ==
    /\ mem = NotParsed
    /\ ParseOutcome(file, FALSE) # "ok"
    /\ UNCHANGED vars

Sign(k) ==
    /\ mem # NotParsed
    /\ Len(mem.sha256) <= SignaturesPerParse
    /\ KeyType[k] # KEY_TYPE_OTHER
    /\ ~SignRpmPanics(mem, k, KeyType[k], SigLen[k])
    /\ mem' = SignRpm(mem, k, KeyType[k], SigLen[k])
    /\ memKey' = k
    /\ UNCHANGED <<file, unread, fileKey>>

\* A key that SignRpm does not support: the caller gives up.
SignFails(k) ==
    /\ mem # NotParsed
    /\ memKey = NoKey
    /\ KeyType[k] = KEY_TYPE_OTHER
    /\ mem' = NotParsed
    /\ unread' = NoPayload
    /\ UNCHANGED <<file, memKey, fileKey>>

\* A region trailer that cannot be updated: the client ends, and the server's
\* handler with the parsed file.
SignPanics(k) ==
    /\ mem # NotParsed
    /\ Len(mem.sha256) <= SignaturesPerParse
    /\ KeyType[k] # KEY_TYPE_OTHER
    /\ SignRpmPanics(mem, k, KeyType[k], SigLen[k])
    /\ mem' = NotParsed
    /\ unread' = NoPayload
    /\ memKey' = NoKey
    /\ UNCHANGED <<file, fileKey>>

Write ==
    /\ memKey # NoKey
    /\ Writable(mem)
    /\ file' = WriteRpm(mem, unread)
    /\ mem' = NotParsed
    /\ unread' = NoPayload
    /\ memKey' = NoKey
    /\ fileKey' = memKey

Next ==
    \/ Parse
    \/ ParseFails
    \/ \E k \in Keys : Sign(k) \/ SignFails(k) \/ SignPanics(k)
    \/ Write

Spec == Init /\ [][Next]_vars

-----------------------------------------------------------------------------
\* Whatever is signed, however often and by whom, the file written is accepted by
\* the parser, payload checksum included: edits never lose the last digest or
\* the size, and counts, offsets and region stay consistent (TestSignRpm's
\* "round-trip").
RoundTrips == fileKey # NoKey => ParseOutcome(file, TRUE) = "ok"

\* What SignRpm reported as signed can be written: after any number of deletions
\* and insertions in the header no data overlaps and all of it is aligned, so
\* that RpmFile.Write neither panics nor returns an error.
WriteGoesThrough == memKey # NoKey => Writable(mem)

\* A file that SignRpm reported as signed verifies, in every signature version
\* it claims to have, against exactly the keyrings with the key it was last
\* signed with: no signature of an earlier round survives and no new one is
\* invalid.
SignedFileVerifies ==
    fileKey # NoKey =>
        \A ring \in SUBSET Keys :
            VerifySignatures(file, ring, GetSignatureVersions(file.sig))
                <=> fileKey \in ring

SignatureTags ==
    {SigTagRSAHeader, SigTagDSAHeader, SigTagPGP, SigTagPGP5, SigTagGPG}

\* What a caller of the package relies on: everything but the signatures and the
\* spare room.
Package(f) ==
    LET es   == f.sig.entries
        kept == {i \in 1..Len(es) :
                    es[i].tag \notin SignatureTags \cup {SigTagReservedSpace}}
    IN  [format |-> f.format, main |-> f.main, payload |-> f.payload,
         entries |-> {<<es[i].tag, es[i].fmt, es[i].cnt, es[i].val>> : i \in kept}]

\* Signing changes signatures only: headers, payload, digests, sizes and unknown
\* tags of the package are the same after any number of rounds.
OnlySignaturesChange == [][Package(file') = Package(file)]_vars
=============================================================================
