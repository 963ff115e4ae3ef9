--------------------------- MODULE RpmSigningProofs ---------------------------
(***************************************************************************)
(* The properties of RpmSigning, for every set of packages and keys, any   *)
(* length of a signature and any number of rounds.                         *)
(***************************************************************************)
EXTENDS RpmSigning, RpmHeaderProofs

(* What the hash of a main header may have been fed with, and the contents of the *)
(* signature headers that come of it.                                             *)
Hashable == Keys \cup {f.main : f \in Files}
Vals     == Contents \cup {Zeroes} \cup {Sig(k, s) : k \in Keys, s \in Seq(Hashable)}

Changing == SignatureTags \cup {SigTagReservedSpace}

(* No entry has one of the tags. *)
Without(es, T) == \A i \in 1..Len(es) : es[i].tag \notin T

(* A package, whether the parser accepts it or not. *)
OnDisk(f) ==
    /\ f = [format |-> f.format, sig |-> f.sig, main |-> f.main, payload |-> f.payload]
    /\ f.sig \in Header(Vals)
    /\ \A i, j \in 1..Len(f.sig.entries) :
          i < j => f.sig.entries[i].tag < f.sig.entries[j].tag
    /\ f.main \in Hashable

(* What is on the disk is a package, and the parser accepts what was signed. *)
Disk ==
    /\ OnDisk(file)
    /\ fileKey \in Keys \cup {NoKey}
    /\ fileKey # NoKey => ParseOutcome(file, FALSE) = "ok"

(* What is in memory is the accepted file, but for its signatures. *)
Memory ==
    mem # NotParsed =>
        /\ mem = [format |-> file.format, main |-> file.main,
                  sha256 |-> mem.sha256, sig |-> mem.sig]
        /\ mem.sha256 \in Seq(Hashable)
        /\ unread = file.payload
        /\ ParseOutcome(file, FALSE) = "ok"
        /\ Table(Vals, mem.sig)
        /\ SameBut(file.sig.entries, mem.sig.entries, Changing)

(* What was signed is laid out. *)
Laid ==
    /\ memKey \in Keys \cup {NoKey}
    /\ memKey # NoKey => mem # NotParsed /\ DataStore(mem.sig)

IInv == Disk /\ Memory /\ Laid

-----------------------------------------------------------------------------
(* Tables that agree on all tags but some agree on all tags but more. *)
LEMMA SameButWithin ==
    ASSUME NEW es, NEW fs, NEW gs, NEW S, NEW T, S \subseteq T,
           SameBut(es, fs, T), SameBut(fs, gs, S)
    PROVE  SameBut(es, gs, T)
<1>1. SameBut(es, gs, T \cup S)
  BY SameButTrans
<1>2. T \cup S = T
  OBVIOUS
<1> QED
  BY <1>1, <1>2

(* A tag that two tables agree on is found in both or in none, with the same value. *)
LEMMA SameFind ==
    ASSUME NEW V, NEW g, NEW h, Table(V, g), Table(V, h), NEW T, NEW t, t \notin T,
           SameBut(g.entries, h.entries, T)
    PROVE  /\ Has(g, t) <=> Has(h, t)
           /\ Has(g, t) => Value(g, t) = Value(h, t)
<1>1. ASSUME NEW a, NEW b, Table(V, a), Table(V, b), Carried(a.entries, b.entries, T), Has(a, t)
      PROVE  Has(b, t) /\ Value(a, t) = Value(b, t)
  <2> DEFINE i == FindIndexEntry(a.entries, t)
  <2>1. a.entries \in Seq(Entry(V)) /\ Len(b.entries) \in Nat
    BY <1>1 DEF Table, Header
  <2>2. i \in 1..Len(a.entries) /\ a.entries[i].tag = t
    BY <1>1, <2>1, FindIndexEntryFinds DEF Has
  <2>3. PICK j \in 1..Len(b.entries) : Same(a.entries[i], b.entries[j])
    BY <1>1, <2>2 DEF Carried
  <2>4. FindIndexEntry(b.entries, b.entries[j].tag) = j
    BY <1>1, FindUnique
  <2>5. FindIndexEntry(b.entries, t) = j
    BY <2>2, <2>3, <2>4 DEF Same
  <2> QED
    BY <2>2, <2>3, <2>5 DEF Has, Value, Same
<1>2. Has(g, t) => Has(h, t) /\ Value(g, t) = Value(h, t)
  BY <1>1 DEF SameBut
<1>3. Has(h, t) => Has(g, t)
  BY <1>1 DEF SameBut
<1> QED
  BY <1>2, <1>3

(* An entry of a table is what is found under its tag. *)
LEMMA Found ==
    ASSUME NEW V, NEW h, Table(V, h), NEW j \in 1..Len(h.entries)
    PROVE  Has(h, h.entries[j].tag) /\ Value(h, h.entries[j].tag) = h.entries[j].val
<1>1. FindIndexEntry(h.entries, h.entries[j].tag) = j
  BY FindUnique
<1> QED
  BY <1>1 DEF Has, Value

(* And nothing is found under a tag that no entry has. *)
LEMMA NotFound ==
    ASSUME NEW V, NEW h, Table(V, h), NEW T, Without(h.entries, T), NEW t \in T
    PROVE  ~Has(h, t)
<1>1. h.entries \in Seq(Entry(V))
  BY DEF Table, Header
<1> QED
  BY <1>1, FindIndexEntryFinds DEF Has, Without

LEMMA FoundOrNot ==
    ASSUME NEW V, NEW h, Table(V, h), NEW t, ~Has(h, t)
    PROVE  Without(h.entries, {t})
<1>1. h.entries \in Seq(Entry(V)) /\ Len(h.entries) \in Nat
  BY DEF Table, Header
<1> QED
  BY <1>1, FindIndexEntryFinds DEF Has, Without

(* One deletion of SignRpm: the others' entries stay, and what is gone stays away. *)
LEMMA DeleteWithin ==
    ASSUME NEW V, NEW h, Table(V, h), NEW t, t # SigTagHeaderSignatures,
           NEW S, Without(h.entries, S), NEW T, t \in T, NEW es, SameBut(es, h.entries, T)
    PROVE  LET n == DeleteIndexEntryIfExists(h, t)
           IN  Table(V, n) /\ SameBut(es, n.entries, T) /\ Without(n.entries, S \cup {t})
<1> DEFINE n == DeleteIndexEntryIfExists(h, t)
<1>1. Table(V, n)
  BY DeleteKeepsTable
<1>2. SameBut(h.entries, n.entries, {t}) /\ \A j \in 1..Len(n.entries) : n.entries[j].tag # t
  BY DeleteSame
<1> HIDE DEF n
<1>3. SameBut(es, n.entries, T)
  BY <1>2, SameButWithin
<1>4. Without(n.entries, S \cup {t})
  BY <1>2 DEF SameBut, Carried, Same, Without
<1> QED
  BY <1>1, <1>3, <1>4 DEF n

-----------------------------------------------------------------------------
(* The signature header of an accepted file can be edited. *)
LEMMA ParsedTable ==
    ASSUME NEW f, OnDisk(f), NEW v, ParseOutcome(f, v) = "ok"
    PROVE  /\ Table(Vals, ParseRPM(f).sig)
           /\ ParseRPM(f).sig.entries = f.sig.entries
<1> DEFINE h == f.sig
           c == ParsedCapacity(Len(h.entries))
           g == [h EXCEPT !.cap = c]
<1>1. h \in Header(Vals) /\ h.entries \in Seq(Entry(Vals)) /\ Len(h.entries) \in Nat
  BY DEF OnDisk, Header
<1>2. c \in Nat /\ Len(h.entries) <= c
  BY <1>1, CapacityIsEnough
<1>3. ParseRPM(f).sig = g
  BY DEF ParseRPM
<1>4. HeaderReadable(h) /\ HeaderWellFormed(h) /\ ValidateDigests(f, v)
  BY DEF ParseOutcome
<1>5. /\ h.indexEntryCount = Len(h.entries) /\ h.regionCount = Len(h.entries)
      /\ RegionTrailerEntry(h.entries) # 0
      /\ \A i \in 1..Len(h.entries) : h.entries[i].len > 0
  BY <1>4 DEF HeaderReadable, HeaderWellFormed, ValidateDigests, Has, RegionTrailerEntry
<1>6. \A i, j \in 1..Len(h.entries) : i < j => h.entries[i].tag < h.entries[j].tag
  BY DEF OnDisk
<1> HIDE DEF c, h
<1>7. /\ g \in Header(Vals) /\ g.entries = h.entries /\ g.cap = c
      /\ g.indexEntryCount = h.indexEntryCount /\ g.regionCount = h.regionCount
  BY <1>1, <1>2 DEF Header
<1> HIDE DEF g
<1>8. Table(Vals, g)
  BY <1>2, <1>5, <1>6, <1>7 DEF Table, IndexTable
<1> QED
  BY <1>3, <1>7, <1>8 DEF h

-----------------------------------------------------------------------------
TagOf(k)   == IF KeyType[k] = KEY_TYPE_RSA THEN SigTagRSAHeader ELSE SigTagDSAHeader
OtherOf(k) == IF KeyType[k] = KEY_TYPE_RSA THEN SigTagDSAHeader ELSE SigTagRSAHeader

(* The only signature is the one of key k, which covers the data. *)
SignedBy(h, data, k) ==
    /\ Has(h, TagOf(k)) /\ Value(h, TagOf(k)) = Sig(k, data)
    /\ \A t \in SignatureTags \ {TagOf(k)} : ~Has(h, t)

(* A new signature finds room without moving the slice that it is written to. *)
Reserving(h) == Has(h, SigTagReservedSpace) \/ ~HasV4(h)

(* What SignRpm deletes before it signs. *)
Cleared(h, k) == DeleteV3Signatures(DeleteIndexEntryIfExists(h, OtherOf(k)))

LEMMA ClearedTable ==
    ASSUME NEW h, Table(Vals, h), NEW k \in Keys, NEW es, SameBut(es, h.entries, Changing)
    PROVE  LET n == Cleared(h, k)
           IN  /\ Table(Vals, n) /\ SameBut(es, n.entries, Changing)
               /\ Without(n.entries, SignatureTags \ {TagOf(k)})
               /\ SameBut(h.entries, n.entries, SignatureTags \ {TagOf(k)})
<1> DEFINE o  == OtherOf(k)
           T  == SignatureTags \ {TagOf(k)}
           h1 == DeleteIndexEntryIfExists(h, o)
           h2 == DeleteIndexEntryIfExists(h1, SigTagPGP)
           h3 == DeleteIndexEntryIfExists(h2, SigTagPGP5)
           h4 == DeleteIndexEntryIfExists(h3, SigTagGPG)
<1>1. /\ o # SigTagHeaderSignatures /\ SigTagPGP # SigTagHeaderSignatures
      /\ SigTagPGP5 # SigTagHeaderSignatures /\ SigTagGPG # SigTagHeaderSignatures
  BY DEF OtherOf, SigTagHeaderSignatures, SigTagRSAHeader, SigTagDSAHeader,
         SigTagPGP, SigTagPGP5, SigTagGPG
<1>2. T = {o, SigTagPGP, SigTagPGP5, SigTagGPG}
  BY DEF OtherOf, TagOf, SignatureTags, SigTagRSAHeader, SigTagDSAHeader,
         SigTagPGP, SigTagPGP5, SigTagGPG
<1>3. o \in T /\ SigTagPGP \in T /\ SigTagPGP5 \in T /\ SigTagGPG \in T /\ T \subseteq Changing
  BY <1>2 DEF Changing
<1>4. Without(h.entries, {}) /\ SameBut(h.entries, h.entries, T)
  BY DEF Without, SameBut, Carried, Same
<1> HIDE DEF o, T
<1>5. Table(Vals, h1) /\ SameBut(h.entries, h1.entries, T) /\ Without(h1.entries, {} \cup {o})
  BY <1>1, <1>3, <1>4, DeleteWithin
<1> HIDE DEF h1
<1>6. /\ Table(Vals, h2) /\ SameBut(h.entries, h2.entries, T)
      /\ Without(h2.entries, ({} \cup {o}) \cup {SigTagPGP})
  BY <1>1, <1>3, <1>5, DeleteWithin
<1> HIDE DEF h2
<1>7. /\ Table(Vals, h3) /\ SameBut(h.entries, h3.entries, T)
      /\ Without(h3.entries, (({} \cup {o}) \cup {SigTagPGP}) \cup {SigTagPGP5})
  BY <1>1, <1>3, <1>6, DeleteWithin
<1> HIDE DEF h3
<1>8. /\ Table(Vals, h4) /\ SameBut(h.entries, h4.entries, T)
      /\ Without(h4.entries, ((({} \cup {o}) \cup {SigTagPGP}) \cup {SigTagPGP5}) \cup {SigTagGPG})
  BY <1>1, <1>3, <1>7, DeleteWithin
<1>9. Cleared(h, k) = h4
  BY DEF Cleared, DeleteV3Signatures, h1, h2, h3, o
<1> HIDE DEF h4
<1>10. ((({} \cup {o}) \cup {SigTagPGP}) \cup {SigTagPGP5}) \cup {SigTagGPG} = T
  BY <1>2
<1>11. SameBut(es, h4.entries, Changing)
  BY <1>3, <1>8, SameButWithin
<1>12. Without(h4.entries, T)
  BY <1>8, <1>10
<1> QED
  BY <1>8, <1>9, <1>11, <1>12 DEF T

(* What SignRpm does to a parsed file: whatever it was, all but the signatures and *)
(* the reserved space stays and the store is laid out.                             *)
LEMMA SignKeeps ==
    ASSUME NEW r, r = [format |-> r.format, main |-> r.main, sha256 |-> r.sha256, sig |-> r.sig],
           Table(Vals, r.sig), r.sha256 \in Seq(Hashable),
           NEW k \in Keys, NEW es, SameBut(es, r.sig.entries, Changing),
           NEW n, n = SignRpm(r, k, KeyType[k], SigLen[k])
    PROVE  /\ n = [format |-> r.format, main |-> r.main, sha256 |-> Append(r.sha256, k), sig |-> n.sig]
           /\ n.sig = SetOrAddIndexEntry(Cleared(r.sig, k), TagOf(k), FORMAT_TYPE_BINARY,
                                         SigLen[k], SigLen[k], Sig(k, r.sha256))
           /\ Append(r.sha256, k) \in Seq(Hashable)
           /\ Table(Vals, n.sig) /\ DataStore(n.sig)
           /\ SameBut(es, n.sig.entries, Changing)
<1> DEFINE t == TagOf(k)
           c == Cleared(r.sig, k)
           l == SigLen[k]
           p == Sig(k, r.sha256)
           m == SetOrAddIndexEntry(c, t, FORMAT_TYPE_BINARY, l, l, p)
<1>1. n = [r EXCEPT !.sha256 = Append(r.sha256, k), !.sig = m]
  BY DEF SignRpm, SignDigest, Cleared, TagOf, OtherOf
<1>2. Table(Vals, c) /\ SameBut(es, c.entries, Changing)
  BY ClearedTable
<1>3. /\ t \in Nat /\ t < SigTagReservedSpace /\ t # SigTagReservedSpace
      /\ t \in Changing /\ SigTagReservedSpace \in Changing
  BY DEF TagOf, SigTagRSAHeader, SigTagDSAHeader, SigTagReservedSpace, Changing, SignatureTags
<1>4. FORMAT_TYPE_BINARY \in FormatTypes
  BY DEF FORMAT_TYPE_BINARY, FormatTypes
<1>5. l \in Nat /\ l > 0
  BY KeysAssumption
<1>6. p \in Vals /\ Zeroes \in Vals
  BY DEF Vals
<1>7. k \in Hashable /\ Append(r.sha256, k) \in Seq(Hashable)
  BY DEF Hashable
<1> HIDE DEF t, c, l, p
<1>8. Table(Vals, m) /\ DataStore(m)
  BY <1>2, <1>3, <1>4, <1>5, <1>6, SetOrAddKeepsTable
<1>9. SameBut(c.entries, m.entries, {t, SigTagReservedSpace})
  BY <1>2, <1>3, <1>4, <1>5, <1>6, SetOrAddSame
<1> HIDE DEF m
<1>10. SameBut(es, m.entries, Changing)
  <2>1. {t, SigTagReservedSpace} \subseteq Changing
    BY <1>3
  <2> QED
    BY <2>1, <1>2, <1>9, SameButWithin
<1>11. /\ n = [format |-> r.format, main |-> r.main, sha256 |-> Append(r.sha256, k), sig |-> m]
  BY <1>1
<1>12. n.sig = m
  BY <1>11
<1> QED
  BY <1>7, <1>8, <1>10, <1>11, <1>12 DEF m, c, t, l, p

(* Where there is room, the new signature is stored, it covers what was hashed, it is *)
(* the only one, and there is room again.                                             *)
LEMMA SignStores ==
    ASSUME NEW r, r = [format |-> r.format, main |-> r.main, sha256 |-> r.sha256, sig |-> r.sig],
           Table(Vals, r.sig), r.sha256 \in Seq(Hashable),
           NEW k \in Keys, Reserving(r.sig),
           NEW n, n = SignRpm(r, k, KeyType[k], SigLen[k])
    PROVE  /\ SignedBy(n.sig, r.sha256, k)
           /\ Has(n.sig, SigTagReservedSpace)
<1> DEFINE t == TagOf(k)
           R == SigTagReservedSpace
           c == Cleared(r.sig, k)
           l == SigLen[k]
           p == Sig(k, r.sha256)
           m == SetOrAddIndexEntry(c, t, FORMAT_TYPE_BINARY, l, l, p)
           T == SignatureTags \ {t}
<1>1. SameBut(r.sig.entries, r.sig.entries, Changing)
  BY DEF SameBut, Carried, Same
<1>2. n.sig = m /\ Table(Vals, m)
  BY <1>1, SignKeeps
<1>3. /\ Table(Vals, c) /\ Without(c.entries, T)
      /\ SameBut(r.sig.entries, c.entries, T)
  BY <1>1, ClearedTable
<1>4. t \in Nat /\ t # R /\ t \notin T /\ R \notin T
  BY DEF TagOf, SigTagRSAHeader, SigTagDSAHeader, SigTagReservedSpace, SignatureTags,
         SigTagPGP, SigTagPGP5, SigTagGPG
<1>5. FORMAT_TYPE_BINARY \in FormatTypes
  BY DEF FORMAT_TYPE_BINARY, FormatTypes
<1>6. l \in Nat /\ l > 0 /\ p \in Vals /\ Zeroes \in Vals
  BY KeysAssumption DEF Vals
<1>7. HasV4(r.sig) \/ ~Has(r.sig, t)
  BY DEF HasV4, TagOf
<1> HIDE DEF t, R, c, l, p, T
<1>8. (Has(r.sig, t) <=> Has(c, t)) /\ (Has(r.sig, R) <=> Has(c, R))
  BY <1>3, <1>4, SameFind
<1>9. FindIndexEntry(c.entries, t) = 0 \/ FindIndexEntry(c.entries, R) # 0
  BY <1>7, <1>8 DEF Reserving, Has, R
<1> DEFINE F == IF FindIndexEntry(c.entries, t) = 0 THEN FORMAT_TYPE_BINARY
                ELSE c.entries[FindIndexEntry(c.entries, t)].fmt
<1>10. /\ SameBut(c.entries, m.entries, {t, R})
       /\ Stored(m.entries, t, F, l, l, p)
       /\ FindIndexEntry(m.entries, R) # 0
  BY <1>3, <1>4, <1>5, <1>6, <1>9, SetOrAddStores DEF R
<1> HIDE DEF m, F
<1>11. Has(m, t) /\ Value(m, t) = p
  <2>1. PICK j \in 1..Len(m.entries) : m.entries[j].tag = t /\ m.entries[j].val = p
    BY <1>10 DEF Stored
  <2> QED
    BY <1>2, <2>1, Found
<1>12. ASSUME NEW u \in T PROVE ~Has(m, u)
  <2>1. u \notin {t, R}
    BY <1>4
  <2>2. ~Has(c, u)
    BY <1>3, NotFound
  <2> QED
    BY <1>2, <1>3, <1>10, <2>1, <2>2, SameFind
<1> QED
  BY <1>2, <1>10, <1>11, <1>12 DEF SignedBy, Has, t, R, T, p

-----------------------------------------------------------------------------
(* A header that was laid out is one that Write can write. *)
LEMMA LaidIsWellFormed ==
    ASSUME NEW h, Table(Vals, h), DataStore(h)
    PROVE  /\ HeaderReadable(h) /\ HeaderWellFormed(h)
           /\ \A i \in 1..Len(h.entries) :
                 h.entries[i].offset % GetRequiredAlignment(h.entries[i].fmt) = 0
<1>1. /\ WrittenStoreSize(h.entries) = h.storeSize
      /\ \A i \in 1..Len(h.entries) : EndOffset(h.entries[i]) <= h.storeSize
  BY StoreSize
<1>2. h.indexEntryCount = Len(h.entries) /\ \A i \in 1..Len(h.entries) : h.entries[i].len > 0
  BY DEF Table, IndexTable
<1>3. HeaderReadable(h)
  BY <1>1, <1>2 DEF HeaderReadable
<1>4. HeaderWellFormed(h)
  BY <1>2, NoOverlap DEF HeaderWellFormed
<1> QED
  BY <1>3, <1>4 DEF DataStore

(* The digests and sizes that the parser looks for are found as before. *)
LEMMA SameDigests ==
    ASSUME NEW f, NEW g, g = [format |-> f.format, sig |-> g.sig, main |-> f.main,
                              payload |-> f.payload],
           Table(Vals, g.sig), NEW h, Table(Vals, h), h.entries = f.sig.entries,
           SameBut(f.sig.entries, g.sig.entries, Changing), NEW v, ParseOutcome(f, v) = "ok"
    PROVE  /\ Has(g.sig, SigTagSigSize) \/ Has(g.sig, SigTagSize)
           /\ ValidateDigests(g, v)
<1> DEFINE D == {SigTagHeaderSignatures, SigTagSigSize, SigTagSize, SigTagMD5, SigTagSigMD5,
                 SigTagSHA1Header, SigTagSHA256Header}
<1>1. \A t \in D : t \notin Changing
  BY DEF SigTagHeaderSignatures, SigTagSigSize, SigTagSize, SigTagMD5, SigTagSigMD5,
         SigTagSHA1Header, SigTagSHA256Header, Changing, SignatureTags, SigTagRSAHeader,
         SigTagDSAHeader, SigTagPGP, SigTagPGP5, SigTagGPG, SigTagReservedSpace
<1>2. \A t : (Has(h, t) <=> Has(f.sig, t)) /\ Value(h, t) = Value(f.sig, t)
  BY DEF Has, Value
<1>3. SameBut(h.entries, g.sig.entries, Changing)
  OBVIOUS
<1>4. ASSUME NEW t \in D
      PROVE  /\ Has(f.sig, t) <=> Has(g.sig, t)
             /\ Has(f.sig, t) => Value(f.sig, t) = Value(g.sig, t)
  <2>1. t \notin Changing
    BY <1>1
  <2>2. (Has(h, t) <=> Has(g.sig, t)) /\ (Has(h, t) => Value(h, t) = Value(g.sig, t))
    BY <1>3, <2>1, SameFind
  <2> QED
    BY <1>2, <2>2
<1>5. Md5Tag(f.sig) \in D /\ Md5Tag(g.sig) = Md5Tag(f.sig)
  BY <1>4 DEF Md5Tag
<1>6. /\ ValidateDigests(f, v) /\ (Has(f.sig, SigTagSigSize) \/ Has(f.sig, SigTagSize))
  BY DEF ParseOutcome
<1>7. g.sig.regionCount = Len(g.sig.entries)
  BY DEF Table, IndexTable
<1>8. g.format = f.format /\ WholeData(g) = WholeData(f) /\ HeaderData(g) = HeaderData(f)
  BY DEF WholeData, HeaderData
<1>9. ValidateDigests(g, v)
  <2>1. Has(g.sig, SigTagHeaderSignatures) /\ g.format <= 4
    BY <1>4, <1>6, <1>8 DEF ValidateDigests
  <2>2. (Has(g.sig, Md5Tag(g.sig)) /\ v) => Value(g.sig, Md5Tag(g.sig)) = Digest(WholeData(g))
    BY <1>4, <1>5, <1>6, <1>8 DEF ValidateDigests
  <2>3. \A t \in {SigTagSHA1Header, SigTagSHA256Header} :
           Has(g.sig, t) => Value(g.sig, t) = Digest(HeaderData(g))
    BY <1>4, <1>6, <1>8 DEF ValidateDigests
  <2>4. Has(g.sig, Md5Tag(g.sig)) \/ Has(g.sig, SigTagSHA1Header) \/ Has(g.sig, SigTagSHA256Header)
    BY <1>4, <1>5, <1>6 DEF ValidateDigests
  <2> QED
    BY <1>7, <2>1, <2>2, <2>3, <2>4 DEF ValidateDigests
<1> QED
  BY <1>4, <1>6, <1>9

(* And so is the region trailer, with its length. *)
LEMMA SameTrailer ==
    ASSUME NEW V, NEW g, NEW h, Table(V, g), Table(V, h), TrailerReadable(g),
           SameBut(g.entries, h.entries, Changing)
    PROVE  TrailerReadable(h)
<1> DEFINE S == SigTagHeaderSignatures
           i == FindIndexEntry(g.entries, S)
<1>1. g.entries \in Seq(Entry(V)) /\ i # 0
  BY DEF Table, Header, IndexTable, RegionTrailerEntry
<1>2. i \in 1..Len(g.entries) /\ g.entries[i].tag = S
  BY <1>1, FindIndexEntryFinds
<1>3. S \notin Changing
  BY DEF SigTagHeaderSignatures, Changing, SignatureTags, SigTagRSAHeader,
         SigTagDSAHeader, SigTagPGP, SigTagPGP5, SigTagGPG, SigTagReservedSpace
<1>4. PICK j \in 1..Len(h.entries) : Same(g.entries[i], h.entries[j])
  BY <1>2, <1>3 DEF SameBut, Carried
<1>5. FindIndexEntry(h.entries, h.entries[j].tag) = j
  BY FindUnique
<1>6. FindIndexEntry(h.entries, S) = j /\ h.entries[j].len = g.entries[i].len
  BY <1>2, <1>4, <1>5 DEF Same
<1>7. g.entries[i].len >= TrailerLen
  BY <1>1 DEF TrailerReadable, RegionTrailerEntry
<1> QED
  BY <1>6, <1>7 DEF TrailerReadable, RegionTrailerEntry

(* What is written parses as what was read, with and without the payload. *)
LEMMA WrittenParses ==
    ASSUME NEW f, OnDisk(f), NEW g,
           g = [format |-> f.format, sig |-> g.sig, main |-> f.main, payload |-> f.payload],
           Table(Vals, g.sig), DataStore(g.sig),
           SameBut(f.sig.entries, g.sig.entries, Changing), NEW v, ParseOutcome(f, v) = "ok"
    PROVE  ParseOutcome(g, v) = "ok"
<1>1. /\ Table(Vals, ParseRPM(f).sig)
      /\ ParseRPM(f).sig.entries = f.sig.entries
  BY ParsedTable
<1>2. /\ Has(g.sig, SigTagSigSize) \/ Has(g.sig, SigTagSize)
      /\ ValidateDigests(g, v)
  BY <1>1, SameDigests
<1>3. HeaderReadable(g.sig) /\ HeaderWellFormed(g.sig)
  BY LaidIsWellFormed
<1> DEFINE h == ParseRPM(f).sig
<1>4. Table(Vals, h) /\ h.entries = f.sig.entries
  BY <1>1
<1> HIDE DEF h
<1>5. TrailerReadable(h)
  BY <1>4 DEF TrailerReadable, ParseOutcome
<1>6. TrailerReadable(g.sig)
  BY <1>4, <1>5, SameTrailer
<1> QED
  BY <1>2, <1>3, <1>6 DEF ParseOutcome

-----------------------------------------------------------------------------
(* A record of a parsed file is not the empty sequence. *)
LEMMA IsParsed ==
    ASSUME NEW r, NEW a, NEW b, NEW c, NEW d,
           r = [format |-> a, main |-> b, sha256 |-> c, sig |-> d]
    PROVE  r # NotParsed
<1>1. "sig" \in DOMAIN r
  OBVIOUS
<1>2. DOMAIN NotParsed = {}
  BY DEF NotParsed
<1> QED
  BY <1>1, <1>2

(* The files to start from are packages. *)
LEMMA FilesOnDisk ==
    ASSUME NEW f \in Files
    PROVE  OnDisk(f)
<1>1. f.sig \in Header(Contents)
  BY FilesAssumption
<1>2. Entry(Contents) \subseteq Entry(Vals)
  BY DEF Entry, Vals
<1>3. f.sig \in Header(Vals)
  <2>1. f.sig.entries \in Seq(Entry(Contents))
    BY <1>1 DEF Header
  <2>2. f.sig.entries \in Seq(Entry(Vals))
    BY <1>2, <2>1
  <2> QED
    BY <1>1, <2>2 DEF Header
<1>4. f.main \in Hashable
  BY DEF Hashable
<1> QED
  BY <1>3, <1>4, FilesAssumption DEF OnDisk

LEMMA InitIInv == Init => IInv
<1> SUFFICES ASSUME Init PROVE IInv
  OBVIOUS
<1>1. OnDisk(file)
  BY FilesOnDisk DEF Init
<1> QED
  BY <1>1 DEF Init, IInv, Disk, Memory, Laid

LEMMA ParseIInv ==
    ASSUME IInv, Parse
    PROVE  IInv'
<1> USE DEF IInv, Parse
<1>1. Disk' /\ Laid'
  BY DEF Disk, Laid
<1>2. /\ Table(Vals, ParseRPM(file).sig)
      /\ ParseRPM(file).sig.entries = file.sig.entries
  BY ParsedTable DEF Disk
<1>3. <<file.main>> \in Seq(Hashable)
  BY DEF Disk, OnDisk
<1>4. SameBut(file.sig.entries, file.sig.entries, Changing)
  BY DEF SameBut, Carried, Same
<1> DEFINE g == ParseRPM(file).sig
<1>5. mem' = [format |-> file.format, main |-> file.main, sha256 |-> <<file.main>>, sig |-> g]
  BY DEF ParseRPM, HeaderData
<1> HIDE DEF g
<1>6. mem'.sig = g /\ mem'.sha256 = <<file.main>>
  BY <1>5
<1>7. Memory'
  BY <1>2, <1>3, <1>4, <1>5, <1>6 DEF Memory, g
<1> HIDE DEF Parse
<1> QED
  BY <1>1, <1>7

LEMMA SignIInv ==
    ASSUME IInv, NEW k \in Keys, Sign(k)
    PROVE  IInv'
<1> DEFINE n == SignRpm(mem, k, KeyType[k], SigLen[k])
<1>1. /\ mem = [format |-> file.format, main |-> file.main, sha256 |-> mem.sha256, sig |-> mem.sig]
      /\ mem.sha256 \in Seq(Hashable) /\ Table(Vals, mem.sig)
      /\ SameBut(file.sig.entries, mem.sig.entries, Changing)
  BY DEF IInv, Memory, Sign
<1>2. mem.format = file.format /\ mem.main = file.main
  BY <1>1
<1>3. mem = [format |-> mem.format, main |-> mem.main, sha256 |-> mem.sha256, sig |-> mem.sig]
  BY <1>1, <1>2
<1>4. /\ n = [format |-> mem.format, main |-> mem.main, sha256 |-> Append(mem.sha256, k), sig |-> n.sig]
      /\ Append(mem.sha256, k) \in Seq(Hashable)
      /\ Table(Vals, n.sig) /\ DataStore(n.sig)
      /\ SameBut(file.sig.entries, n.sig.entries, Changing)
  BY <1>1, <1>3, SignKeeps
<1>5. mem' = n
  BY DEF Sign
<1> HIDE DEF n
<1>6. n.sha256 = Append(mem.sha256, k) /\ n # NotParsed
  BY <1>4, IsParsed
<1>7. Disk' /\ Memory' /\ Laid'
  BY <1>2, <1>4, <1>5, <1>6 DEF IInv, Sign, Disk, Memory, Laid
<1> QED
  BY <1>7 DEF IInv

(* Write goes through and what it writes is the package with other signatures. *)
LEMMA WriteEffect ==
    ASSUME IInv, memKey # NoKey
    PROVE  LET g == WriteRpm(mem, unread)
           IN  /\ g = [format |-> file.format, sig |-> g.sig, main |-> file.main,
                       payload |-> file.payload]
               /\ g.sig = mem.sig
               /\ Table(Vals, g.sig) /\ DataStore(g.sig)
               /\ SameBut(file.sig.entries, g.sig.entries, Changing)
               /\ ParseOutcome(file, FALSE) = "ok"
<1>1. mem # NotParsed /\ DataStore(mem.sig)
  BY DEF IInv, Laid
<1>2. /\ mem = [format |-> file.format, main |-> file.main, sha256 |-> mem.sha256, sig |-> mem.sig]
      /\ Table(Vals, mem.sig) /\ SameBut(file.sig.entries, mem.sig.entries, Changing)
      /\ unread = file.payload /\ ParseOutcome(file, FALSE) = "ok"
  BY <1>1 DEF IInv, Memory
<1>3. mem.format = file.format /\ mem.main = file.main
  BY <1>2
<1> DEFINE g == WriteRpm(mem, unread)
<1>4. g = [format |-> file.format, sig |-> mem.sig, main |-> file.main, payload |-> file.payload]
  BY <1>2, <1>3 DEF WriteRpm
<1> HIDE DEF g
<1>5. g.sig = mem.sig
  BY <1>4
<1> QED
  BY <1>1, <1>2, <1>4, <1>5 DEF g

LEMMA WriteIInv ==
    ASSUME IInv, Write
    PROVE  IInv'
<1> DEFINE g == WriteRpm(mem, unread)
<1>1. /\ g = [format |-> file.format, sig |-> g.sig, main |-> file.main, payload |-> file.payload]
      /\ Table(Vals, g.sig) /\ DataStore(g.sig)
      /\ SameBut(file.sig.entries, g.sig.entries, Changing)
      /\ ParseOutcome(file, FALSE) = "ok"
  BY WriteEffect DEF Write
<1>2. file' = g /\ mem' = NotParsed /\ memKey' = NoKey /\ fileKey' = memKey
  BY DEF Write
<1> HIDE DEF g
<1>3. ParseOutcome(g, FALSE) = "ok"
  BY <1>1, WrittenParses DEF IInv, Disk
<1>4. OnDisk(g)
  <2>1. g.format = file.format /\ g.main = file.main /\ g.payload = file.payload
    BY <1>1
  <2>2. g.sig \in Header(Vals)
    BY <1>1 DEF Table
  <2>3. \A i, j \in 1..Len(g.sig.entries) :
           i < j => g.sig.entries[i].tag < g.sig.entries[j].tag
    BY <1>1 DEF Table, IndexTable
  <2>4. file.main \in Hashable
    BY DEF IInv, Disk, OnDisk
  <2> QED
    BY <1>1, <2>1, <2>2, <2>3, <2>4 DEF OnDisk
<1>5. memKey \in Keys
  BY DEF Write, IInv, Laid
<1>6. Disk' /\ Memory' /\ Laid'
  BY <1>2, <1>3, <1>4, <1>5 DEF Disk, Memory, Laid
<1> QED
  BY <1>6 DEF IInv

(* Every step keeps the invariant. *)
LEMMA NextIInv == IInv /\ [Next]_vars => IInv'
<1> SUFFICES ASSUME IInv, [Next]_vars PROVE IInv'
  OBVIOUS
<1>1. CASE Parse
  BY <1>1, ParseIInv
<1>2. CASE ParseFails \/ UNCHANGED vars
  BY <1>2 DEF ParseFails, vars, IInv, Disk, Memory, Laid
<1>3. ASSUME NEW k \in Keys, Sign(k) PROVE IInv'
  BY <1>3, SignIInv
<1>4. ASSUME NEW k \in Keys, SignFails(k) PROVE IInv'
  BY <1>4 DEF SignFails, IInv, Disk, Memory, Laid
<1>5. ASSUME NEW k \in Keys, SignPanics(k) PROVE IInv'
  BY <1>5 DEF SignPanics, IInv, Disk, Memory, Laid
<1>6. CASE Write
  BY <1>6, WriteIInv
<1> QED
  BY <1>1, <1>2, <1>3, <1>4, <1>5, <1>6 DEF Next

(* Whatever the packages are and however often they are signed, what is in memory *)
(* is the package on the disk but for its signatures, it is laid out once it is   *)
(* signed, and the parser accepts every file that was signed.                     *)
THEOREM Invariance == Spec => []IInv
<1> QED
  BY InitIInv, NextIInv, PTL DEF Spec

-----------------------------------------------------------------------------
(* What SignRpm reported as signed can be written, for every package and any *)
(* sequence of signatures: RpmFile.Write neither panics nor returns an error. *)
THEOREM WriteNeverFails == Spec => []WriteGoesThrough
<1>1. IInv => WriteGoesThrough
  <2> SUFFICES ASSUME IInv, memKey # NoKey PROVE Writable(mem)
    BY DEF WriteGoesThrough
  <2>1. Table(Vals, mem.sig) /\ DataStore(mem.sig)
    BY DEF IInv, Laid, Memory
  <2> QED
    BY <2>1, LaidIsWellFormed DEF Writable
<1> QED
  BY <1>1, Invariance, PTL

(* The same package on the disk and in memory is the same to its users. *)
LEMMA SamePackage ==
    ASSUME NEW f, NEW g,
           g = [format |-> f.format, sig |-> g.sig, main |-> f.main, payload |-> f.payload],
           SameBut(f.sig.entries, g.sig.entries, Changing)
    PROVE  Package(g) = Package(f)
<1> DEFINE Kept(es) == {i \in 1..Len(es) : es[i].tag \notin Changing}
           Seen(es) == {<<es[i].tag, es[i].fmt, es[i].cnt, es[i].val>> : i \in Kept(es)}
<1>1. ASSUME NEW es, NEW fs, Carried(es, fs, Changing)
      PROVE  Seen(es) \subseteq Seen(fs)
  <2> SUFFICES ASSUME NEW i \in Kept(es)
               PROVE  <<es[i].tag, es[i].fmt, es[i].cnt, es[i].val>> \in Seen(fs)
    OBVIOUS
  <2>1. PICK j \in 1..Len(fs) : Same(es[i], fs[j])
    BY <1>1 DEF Carried
  <2>2. j \in Kept(fs)
    BY <2>1 DEF Same
  <2>3. <<es[i].tag, es[i].fmt, es[i].cnt, es[i].val>>
           = <<fs[j].tag, fs[j].fmt, fs[j].cnt, fs[j].val>>
    BY <2>1 DEF Same
  <2> QED
    BY <2>2, <2>3
<1>2. \A x : Package(x) = [format |-> x.format, main |-> x.main, payload |-> x.payload,
                           entries |-> Seen(x.sig.entries)]
  BY DEF Package, Changing
<1> HIDE DEF Seen
<1>3. Seen(f.sig.entries) = Seen(g.sig.entries)
  <2>1. Carried(f.sig.entries, g.sig.entries, Changing) /\ Carried(g.sig.entries, f.sig.entries, Changing)
    BY DEF SameBut
  <2>2. Seen(f.sig.entries) \subseteq Seen(g.sig.entries)
    BY <1>1, <2>1
  <2>3. Seen(g.sig.entries) \subseteq Seen(f.sig.entries)
    BY <1>1, <2>1
  <2> QED
    BY <2>2, <2>3
<1>4. g.format = f.format /\ g.main = f.main /\ g.payload = f.payload
  OBVIOUS
<1> QED
  BY <1>2, <1>3, <1>4

(* No step changes anything of the package but its signatures and spare room: *)
(* headers, payload, digests, sizes and tags that the code does not know stay, *)
(* for every package, also where a payload is lost for want of reserved space. *)
THEOREM PackageStays == Spec => OnlySignaturesChange
<1>1. IInv /\ [Next]_vars => [Package(file') = Package(file)]_vars
  <2> SUFFICES ASSUME IInv, [Next]_vars PROVE [Package(file') = Package(file)]_vars
    OBVIOUS
  <2>1. CASE Write
    <3> DEFINE g == WriteRpm(mem, unread)
    <3>1. /\ g = [format |-> file.format, sig |-> g.sig, main |-> file.main, payload |-> file.payload]
          /\ SameBut(file.sig.entries, g.sig.entries, Changing)
      BY <2>1, WriteEffect DEF Write
    <3>2. file' = g
      BY <2>1 DEF Write
    <3> HIDE DEF g
    <3> QED
      BY <3>1, <3>2, SamePackage
  <2>2. CASE file' = file
    BY <2>2
  <2> QED
    BY <2>1, <2>2 DEF Next, Parse, ParseFails, Sign, SignFails, SignPanics, vars
<1> QED
  BY <1>1, Invariance, PTL DEF Spec, OnlySignaturesChange

-----------------------------------------------------------------------------
(* The callers do not validate the payload: a damaged one is copied as it is. *)
IntactPayloads == \A f \in Files : ParseOutcome(f, FALSE) = "ok" => ParseOutcome(f, TRUE) = "ok"

Whole == ParseOutcome(file, FALSE) = "ok" => ParseOutcome(file, TRUE) = "ok"

(* Every file written parses again, payload checksum included, if the payloads *)
(* that were read are intact: for every set of packages, keys of any length of *)
(* signature, and any number of signatures per parse.                          *)
THEOREM SignedFilesRoundTrip ==
    ASSUME IntactPayloads
    PROVE  Spec => []RoundTrips
<1>1. Init => Whole
  BY DEF Init, Whole, IntactPayloads
<1>2. IInv /\ Whole /\ [Next]_vars => Whole'
  <2> SUFFICES ASSUME IInv, Whole, [Next]_vars PROVE Whole'
    OBVIOUS
  <2>1. CASE Write
    <3> DEFINE g == WriteRpm(mem, unread)
    <3>1. /\ g = [format |-> file.format, sig |-> g.sig, main |-> file.main, payload |-> file.payload]
          /\ Table(Vals, g.sig) /\ DataStore(g.sig)
          /\ SameBut(file.sig.entries, g.sig.entries, Changing)
          /\ ParseOutcome(file, FALSE) = "ok"
      BY <2>1, WriteEffect DEF Write
    <3>2. file' = g
      BY <2>1 DEF Write
    <3> HIDE DEF g
    <3>3. OnDisk(file) /\ ParseOutcome(file, TRUE) = "ok"
      BY <3>1 DEF IInv, Disk, Whole
    <3>4. ParseOutcome(g, TRUE) = "ok"
      BY <3>1, <3>3, WrittenParses
    <3> QED
      BY <3>2, <3>4 DEF Whole
  <2>2. CASE file' = file
    BY <2>2 DEF Whole
  <2> QED
    BY <2>1, <2>2 DEF Next, Parse, ParseFails, Sign, SignFails, SignPanics, vars
<1>3. IInv /\ Whole => RoundTrips
  BY DEF IInv, Disk, Whole, RoundTrips
<1> QED
  BY <1>1, <1>2, <1>3, Invariance, PTL DEF Spec

-----------------------------------------------------------------------------
(* A key makes the packet of another only if it is the same key. *)
LEMMA SigInjective ==
    ASSUME NEW k, NEW l, NEW d, Sig(k, d) = Sig(l, d)
    PROVE  k = l
BY DEF Sig

(* The only signature version of a file with one V4 signature and no V6 one. *)
LEMMA OnlyV4 ==
    ASSUME NEW h, HasV4(h), ~HasV3(h), ~HasV6(h)
    PROVE  GetSignatureVersions(h) = {"V4"}
<1> DEFINE Claims(v) == CASE v = "V3" -> HasV3(h) [] v = "V4" -> HasV4(h) [] v = "V6" -> HasV6(h)
<1>1. ~Claims("V3") /\ Claims("V4") /\ ~Claims("V6")
  <2>1. "V3" # "V4" /\ "V3" # "V6" /\ "V4" # "V6"
    OBVIOUS
  <2> QED
    BY <2>1
<1>2. GetSignatureVersions(h) = {v \in {"V3", "V4", "V6"} : Claims(v)}
  BY DEF GetSignatureVersions
<1> HIDE DEF Claims
<1> QED
  BY <1>1, <1>2

(* A file that one key has signed verifies against the keyrings with that key. *)
LEMMA SignedVerifies ==
    ASSUME NEW f, NEW k \in Keys, SignedBy(f.sig, <<f.main>>, k), ~HasV6(f.sig),
           NEW ring \in SUBSET Keys
    PROVE  VerifySignatures(f, ring, GetSignatureVersions(f.sig)) <=> k \in ring
<1> DEFINE t == TagOf(k)
           o == OtherOf(k)
<1>1. /\ {SigTagRSAHeader, SigTagDSAHeader} = {t, o}
      /\ o \in SignatureTags \ {t}
      /\ SigTagPGP \in SignatureTags \ {t} /\ SigTagGPG \in SignatureTags \ {t}
  BY DEF TagOf, OtherOf, SignatureTags, SigTagRSAHeader, SigTagDSAHeader,
         SigTagPGP, SigTagPGP5, SigTagGPG
<1>2. HasV4(f.sig) <=> Has(f.sig, t) \/ Has(f.sig, o)
  BY DEF HasV4, TagOf, OtherOf
<1>3. VerifyV4Signature(f, ring) <=>
        /\ HasV4(f.sig)
        /\ \A u \in {t, o} : Has(f.sig, u) => VerifySignature(ring, HeaderData(f), Value(f.sig, u))
  BY <1>1 DEF VerifyV4Signature
<1> HIDE DEF t, o
<1>4. Has(f.sig, t) /\ Value(f.sig, t) = Sig(k, <<f.main>>) /\ ~Has(f.sig, o)
  BY <1>1 DEF SignedBy, t
<1>5. HasV4(f.sig) /\ ~HasV3(f.sig)
  BY <1>1, <1>2, <1>4 DEF SignedBy, HasV3, t
<1>6. GetSignatureVersions(f.sig) = {"V4"}
  BY <1>5, OnlyV4
<1>7. VerifyV4Signature(f, ring) <=> VerifySignature(ring, <<f.main>>, Sig(k, <<f.main>>))
  BY <1>3, <1>4, <1>5 DEF HeaderData
<1>8. VerifySignature(ring, <<f.main>>, Sig(k, <<f.main>>)) <=> k \in ring
  BY SigInjective DEF VerifySignature
<1>9. Verifies(f, ring, "V4") <=> VerifyV4Signature(f, ring)
  BY DEF Verifies
<1> QED
  BY <1>6, <1>7, <1>8, <1>9 DEF VerifySignatures

(* The packages that the parser accepts have room for a signature, or no header *)
(* signature to replace, and no signature of version 6.                         *)
Signable(h)   == Reserving(h) /\ ~HasV6(h)
SignableFiles == \A f \in Files : ParseOutcome(f, FALSE) = "ok" => Signable(f.sig)

(* The hash has seen the main header, and then the trailer of one signature. *)
SInv ==
    /\ ParseOutcome(file, FALSE) = "ok" => Signable(file.sig)
    /\ mem # NotParsed => Signable(mem.sig)
    /\ (mem # NotParsed /\ memKey = NoKey) => mem.sha256 = <<file.main>>
    /\ memKey # NoKey => Len(mem.sha256) = 2 /\ SignedBy(mem.sig, <<file.main>>, memKey)
    /\ fileKey # NoKey => SignedBy(file.sig, <<file.main>>, fileKey)

LEMMA ParseSInv ==
    ASSUME IInv, SInv, Parse
    PROVE  SInv'
<1> DEFINE g == ParseRPM(file)
<1>1. g.sig.entries = file.sig.entries /\ g.sha256 = <<file.main>>
  BY ParsedTable DEF ParseRPM, HeaderData, IInv, Disk, Parse
<1>2. Signable(g.sig)
  BY <1>1 DEF SInv, Parse, Signable, Reserving, HasV4, HasV6, Has
<1>3. mem' = g
  BY DEF Parse
<1> HIDE DEF g
<1>4. memKey = NoKey
  BY DEF IInv, Laid, Parse
<1> QED
  BY <1>1, <1>2, <1>3, <1>4 DEF SInv, Parse

LEMMA SignSInv ==
    ASSUME SignaturesPerParse = 1, IInv, SInv, NEW k \in Keys, Sign(k)
    PROVE  SInv'
<1> DEFINE n == SignRpm(mem, k, KeyType[k], SigLen[k])
<1>1. /\ mem = [format |-> file.format, main |-> file.main, sha256 |-> mem.sha256, sig |-> mem.sig]
      /\ mem.sha256 \in Seq(Hashable) /\ Table(Vals, mem.sig)
  BY DEF IInv, Memory, Sign
<1>2. memKey = NoKey /\ mem.sha256 = <<file.main>> /\ Signable(mem.sig)
  <2>1. mem # NotParsed /\ Len(mem.sha256) <= 1
    BY DEF Sign
  <2>2. memKey # NoKey => Len(mem.sha256) = 2
    BY DEF SInv
  <2>3. memKey = NoKey
    BY <2>1, <2>2
  <2> QED
    BY <2>1, <2>3 DEF SInv
<1>3. mem.format = file.format /\ mem.main = file.main
  BY <1>1
<1>4. mem = [format |-> mem.format, main |-> mem.main, sha256 |-> mem.sha256, sig |-> mem.sig]
  BY <1>1, <1>3
<1>5. SignedBy(n.sig, mem.sha256, k) /\ Has(n.sig, SigTagReservedSpace)
  BY <1>1, <1>2, <1>4, SignStores DEF Signable
<1>6. SameBut(mem.sig.entries, mem.sig.entries, Changing)
  BY DEF SameBut, Carried, Same
<1>7. /\ n = [format |-> mem.format, main |-> mem.main, sha256 |-> Append(mem.sha256, k), sig |-> n.sig]
      /\ Table(Vals, n.sig) /\ SameBut(mem.sig.entries, n.sig.entries, Changing)
  BY <1>1, <1>4, <1>6, SignKeeps
<1>8. mem' = n /\ memKey' = k /\ UNCHANGED <<file, fileKey>> /\ k # NoKey
  BY KeysAssumption DEF Sign
<1> HIDE DEF n
<1>9. n.sha256 = Append(<<file.main>>, k)
  BY <1>2, <1>7
<1>10. Len(n.sha256) = 2
  BY <1>9
<1>11. SigTagOpenPGP \notin Changing
  BY DEF SigTagOpenPGP, Changing, SignatureTags, SigTagRSAHeader, SigTagDSAHeader,
         SigTagPGP, SigTagPGP5, SigTagGPG, SigTagReservedSpace
<1>12. ~HasV6(n.sig)
  BY <1>1, <1>2, <1>7, <1>11, SameFind DEF Signable, HasV6
<1>13. Signable(n.sig)
  BY <1>5, <1>12 DEF Signable, Reserving
<1> QED
  BY <1>2, <1>5, <1>8, <1>10, <1>13 DEF SInv

LEMMA WriteSInv ==
    ASSUME IInv, SInv, Write
    PROVE  SInv'
<1> DEFINE g == WriteRpm(mem, unread)
<1>1. g.sig = mem.sig /\ g = [format |-> file.format, sig |-> g.sig, main |-> file.main,
                              payload |-> file.payload]
  BY WriteEffect DEF Write
<1>2. /\ file' = g /\ mem' = NotParsed /\ memKey' = NoKey /\ fileKey' = memKey
      /\ mem # NotParsed /\ memKey # NoKey
  BY DEF Write, IInv, Laid
<1> HIDE DEF g
<1>3. g.main = file.main
  BY <1>1
<1>4. Signable(g.sig) /\ SignedBy(g.sig, <<g.main>>, memKey)
  BY <1>1, <1>2, <1>3 DEF SInv
<1> QED
  BY <1>2, <1>4 DEF SInv

(* With one SignRpm call for every parse, as in the client and the server, every  *)
(* file that was signed verifies in every signature version that it claims to     *)
(* have, against exactly the keyrings with the key it was last signed with: no    *)
(* signature of an earlier round survives, whatever keys and packages. The        *)
(* packages are those that an edit does not lose a payload of and that have no    *)
(* V6 signature, which VerifyV6Signature rejects.                                 *)
THEOREM SignedFilesVerify ==
    ASSUME SignaturesPerParse = 1, SignableFiles
    PROVE  Spec => []SignedFileVerifies
<1>1. Init => SInv
  BY DEF Init, SInv, SignableFiles
<1>2. IInv /\ SInv /\ [Next]_vars => SInv'
  <2> SUFFICES ASSUME IInv, SInv, [Next]_vars PROVE SInv'
    OBVIOUS
  <2>1. CASE Parse
    BY <2>1, ParseSInv
  <2>2. CASE ParseFails \/ UNCHANGED vars
    BY <2>2 DEF ParseFails, vars, SInv
  <2>3. ASSUME NEW k \in Keys, Sign(k) PROVE SInv'
    BY <2>3, SignSInv
  <2>4. ASSUME NEW k \in Keys, SignFails(k) PROVE SInv'
    BY <2>4 DEF SignFails, SInv
  <2>5. ASSUME NEW k \in Keys, SignPanics(k) PROVE SInv'
    BY <2>5 DEF SignPanics, SInv
  <2>6. CASE Write
    BY <2>6, WriteSInv
  <2> QED
    BY <2>1, <2>2, <2>3, <2>4, <2>5, <2>6 DEF Next
<1>3. IInv /\ SInv => SignedFileVerifies
  <2> SUFFICES ASSUME IInv, SInv, fileKey # NoKey, NEW ring \in SUBSET Keys
               PROVE  VerifySignatures(file, ring, GetSignatureVersions(file.sig))
                          <=> fileKey \in ring
    BY DEF SignedFileVerifies
  <2>1. fileKey \in Keys /\ SignedBy(file.sig, <<file.main>>, fileKey) /\ ~HasV6(file.sig)
    BY DEF IInv, Disk, SInv, Signable
  <2> QED
    BY <2>1, SignedVerifies
<1> QED
  BY <1>1, <1>2, <1>3, Invariance, PTL DEF Spec
===============================================================================
