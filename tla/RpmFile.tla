------------------------------- MODULE RpmFile -------------------------------
(***************************************************************************)
(* A whole RPM file: what ParseRPM makes of the bytes, what SignRpm does   *)
(* to the parsed file, what RpmFile.Write makes of it, and what the three  *)
(* signature verifiers say (src/common/rpmparser.go, signing.go).          *)
(*                                                                         *)
(* A file on disk is a record                                              *)
(*     format    the major version GetFileFormatVersion reports            *)
(*     sig       the signature header (see RpmHeader)                      *)
(*     main      the main header, payload the compressed payload           *)
(* A parsed file has the hash state behind MainHeader.Sha256Digest in      *)
(* place of the payload: the sequence of what was written into it.         *)
(* Digests are injective: Digest(d) is the pair of the data and a marker.  *)
(* A signature records its key and the data that was hashed.               *)
(***************************************************************************)
EXTENDS RpmHeader

SigTagSigSize == 257
SigTagSigMD5  == 261
SigTagOpenPGP == 278

KEY_TYPE_RSA   == "RSA"
KEY_TYPE_DSA   == "DSA"
KEY_TYPE_OTHER == "other"

Digest(data)   == <<"digest", data>>
Sig(key, data) == <<"signature", key, data>>

\* The data a V4 signature covers and the data MD5 and a V3 signature cover.
HeaderData(f)  == <<f.main>>
WholeData(f)   == <<f.main, f.payload>>

Has(h, tag) == FindIndexEntry(h.entries, tag) # 0
Value(h, tag) == h.entries[FindIndexEntry(h.entries, tag)].val

-----------------------------------------------------------------------------
\* parseHeader reads as many entries as the preamble declares, walks them in
\* the order of their offsets, and finds the main header at the next multiple of
\* eight behind the declared store size; Write aligned it behind the bytes that
\* it really wrote.
HeaderReadable(h) ==
    /\ h.indexEntryCount = Len(h.entries)
    /\ \A i \in 1..Len(h.entries) : EndOffset(h.entries[i]) <= h.storeSize
    /\ Aligned(h.storeSize, FORMAT_TYPE_INT64)
         = Aligned(WrittenStoreSize(h.entries), FORMAT_TYPE_INT64)

\* The two panics in the loop of parseHeader: data that starts before the end
\* of the data already read, and an entry without data.
HeaderWellFormed(h) ==
    LET es == h.entries
    IN  /\ \A i \in 1..Len(es) : es[i].len > 0
        /\ \A i, j \in 1..Len(es) :
              i # j => EndOffset(es[i]) <= es[j].offset \/ EndOffset(es[j]) <= es[i].offset

\* And a third one: a region trailer that ends before its last word.
TrailerReadable(h) ==
    LET k == RegionTrailerEntry(h.entries)
    IN  k # 0 => h.entries[k].len >= TrailerLen

Md5Tag(h) == IF Has(h, SigTagMD5) THEN SigTagMD5 ELSE SigTagSigMD5

ValidateDigests(f, payloadRead) ==
    LET h == f.sig
    IN  /\ Has(h, SigTagHeaderSignatures)
        /\ f.format <= 4
        /\ h.regionCount = Len(h.entries)
        /\ (Has(h, Md5Tag(h)) /\ payloadRead) =>
              Value(h, Md5Tag(h)) = Digest(WholeData(f))
        /\ \A t \in {SigTagSHA1Header, SigTagSHA256Header} :
              Has(h, t) => Value(h, t) = Digest(HeaderData(f))
        /\ \/ Has(h, Md5Tag(h))
           \/ Has(h, SigTagSHA1Header)
           \/ Has(h, SigTagSHA256Header)

\* "ok", an "error" returned, or a "panic".
ParseOutcome(f, validatePayload) ==
    IF ~HeaderReadable(f.sig) THEN "error"
    ELSE IF /\ HeaderWellFormed(f.sig) /\ TrailerReadable(f.sig)
            /\ Has(f.sig, SigTagSigSize) \/ Has(f.sig, SigTagSize)
            /\ ValidateDigests(f, validatePayload)
         THEN "ok" ELSE "panic"

ParseRPM(f) ==
    [format |-> f.format, main |-> f.main, sha256 |-> HeaderData(f),
     sig |-> [f.sig EXCEPT !.cap = ParsedCapacity(Len(f.sig.entries))]]

\* Write panics where the data of two entries overlaps (DynamicArray.Write) and
\* returns an error where data is not aligned.
Writable(r) ==
    /\ \A i \in 1..Len(r.sig.entries) :
          r.sig.entries[i].offset % GetRequiredAlignment(r.sig.entries[i].fmt) = 0
    /\ HeaderWellFormed(r.sig)

\* payload is what the payload reader still delivers.
WriteRpm(r, payload) ==
    [format |-> r.format, sig |-> r.sig, main |-> r.main, payload |-> payload]

-----------------------------------------------------------------------------
\* Signature.Sign of the OpenPGP library finishes the hash it is given: it
\* appends the signature's own trailer to it before it takes the sum.
SignDigest(sha256, key) ==
    [packet |-> Sig(key, sha256), sha256 |-> Append(sha256, key)]

\* "make sure to delete any legacy RPM V3 signatures before signing"
DeleteV3Signatures(h) ==
    LET h1 == DeleteIndexEntryIfExists(h, SigTagPGP)
        h2 == DeleteIndexEntryIfExists(h1, SigTagPGP5)
    IN  DeleteIndexEntryIfExists(h2, SigTagGPG)

\* Mutant: the tag of the other key type stays.
SignRpmKeepsOtherType(r, key, type, len) ==
    LET signed == SignDigest(r.sha256, key)
        newTag == IF type = KEY_TYPE_RSA THEN SigTagRSAHeader ELSE SigTagDSAHeader
        h      == DeleteV3Signatures(r.sig)
    IN  [r EXCEPT !.sha256 = signed.sha256,
                  !.sig = SetOrAddIndexEntry(h, newTag, FORMAT_TYPE_BINARY,
                                             len, len, signed.packet)]

\* Mutant: MD5 is taken for a V3 signature, too.
SignRpmDropsDigests(r, key, type, len) ==
    LET signed == SignDigest(r.sha256, key)
        newTag == IF type = KEY_TYPE_RSA THEN SigTagRSAHeader ELSE SigTagDSAHeader
        other  == IF type = KEY_TYPE_RSA THEN SigTagDSAHeader ELSE SigTagRSAHeader
        h1     == DeleteIndexEntryIfExists(r.sig, other)
        h      == DeleteIndexEntryIfExists(DeleteV3Signatures(h1), SigTagMD5)
    IN  [r EXCEPT !.sha256 = signed.sha256,
                  !.sig = SetOrAddIndexEntry(h, newTag, FORMAT_TYPE_BINARY,
                                             len, len, signed.packet)]

\* For a key of type RSA or DSA; SignRpm returns an error for any other before
\* it changes anything (SignDigest checks the type first).
SignRpm(r, key, type, len) ==
    LET signed == SignDigest(r.sha256, key)
        newTag == IF type = KEY_TYPE_RSA THEN SigTagRSAHeader ELSE SigTagDSAHeader
        other  == IF type = KEY_TYPE_RSA THEN SigTagDSAHeader ELSE SigTagRSAHeader
        h      == DeleteV3Signatures(DeleteIndexEntryIfExists(r.sig, other))
    IN  [r EXCEPT !.sha256 = signed.sha256,
                  !.sig = SetOrAddIndexEntry(h, newTag, FORMAT_TYPE_BINARY,
                                             len, len, signed.packet)]

\* The parser accepts a longer trailer; the first entry that SignRpm inserts or
\* deletes makes updateSignedRegionTrailer panic on it. No tag is both deleted and
\* inserted, so that the set of tags tells whether there is such an entry.
Tags(h) == {h.entries[i].tag : i \in 1..Len(h.entries)}

SignRpmPanics(r, key, type, len) ==
    ~TrailerFits(r.sig) /\ Tags(SignRpm(r, key, type, len).sig) # Tags(r.sig)

-----------------------------------------------------------------------------
HasV3(h) == Has(h, SigTagPGP) \/ Has(h, SigTagGPG)
HasV4(h) == Has(h, SigTagRSAHeader) \/ Has(h, SigTagDSAHeader)
HasV6(h) == Has(h, SigTagOpenPGP)

GetSignatureVersions(h) ==
    {v \in {"V3", "V4", "V6"} : CASE v = "V3" -> HasV3(h)
                                  [] v = "V4" -> HasV4(h)
                                  [] v = "V6" -> HasV6(h)}

VerifySignature(ring, data, packet) == \E k \in ring : packet = Sig(k, data)

VerifyV3Signature(f, ring) ==
    /\ HasV3(f.sig)
    /\ Has(f.sig, SigTagMD5)
    /\ Value(f.sig, SigTagMD5) = Digest(WholeData(f))
    /\ \A t \in {SigTagPGP, SigTagGPG} :
          Has(f.sig, t) => VerifySignature(ring, WholeData(f), Value(f.sig, t))

VerifyV4Signature(f, ring) ==
    /\ HasV4(f.sig)
    /\ \A t \in {SigTagRSAHeader, SigTagDSAHeader} :
          Has(f.sig, t) => VerifySignature(ring, HeaderData(f), Value(f.sig, t))

\* Not implemented: the code returns an error for every file.
VerifyV6Signature(f, ring) == FALSE

Verifies(f, ring, version) ==
    CASE version = "V3" -> VerifyV3Signature(f, ring)
      [] version = "V4" -> VerifyV4Signature(f, ring)
      [] version = "V6" -> VerifyV6Signature(f, ring)

VerifySignatures(f, ring, toVerify) ==
    /\ toVerify # {}
    /\ \A v \in toVerify : Verifies(f, ring, v)
=============================================================================
