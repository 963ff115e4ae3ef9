---------------------------- MODULE MCRpmSigning ----------------------------
(* Small RPM files and keys for RpmSigning. *)
EXTENDS RpmSigning, SampleHeaders

MainHeader == "main"
Payload    == "payload"
Foreign    == "foreign"      \* a key outside Keys

With(e, val) == [e EXCEPT !.val = val]

\* The entries with what rpm stores in them.
Digests(es) ==
    [i \in DOMAIN es |->
        CASE es[i].tag \in {SigTagSHA1Header, SigTagSHA256Header} ->
                With(es[i], Digest(<<MainHeader>>))
          [] es[i].tag = SigTagMD5 -> With(es[i], Digest(<<MainHeader, Payload>>))
          [] es[i].tag \in {SigTagRSAHeader, SigTagDSAHeader} ->
                With(es[i], Sig(Foreign, <<MainHeader>>))
          [] es[i].tag \in {SigTagPGP, SigTagGPG} ->
                With(es[i], Sig(Foreign, <<MainHeader, Payload>>))
          [] OTHER -> With(es[i], <<Old>>)]

Rpm(es) == [format |-> 4, sig |-> Packed(Digests(es)), main |-> MainHeader,
            payload |-> Payload]

\* Unsigned, V4 signed and V3 signed packages with reserved space, unsigned ones
\* without, and one with a region trailer that is too long to be updated.
GoodFiles ==
    {Rpm(es) : es \in
        {<<Trailer, Sha1, Sha256, Size, Md5, Spare(n)>> : n \in {1, 5, 12}} \cup
        {<<Trailer, Rsa, Sha256, Size, Pgp, Md5, Gpg, Spare(n)>> : n \in {3, 12}} \cup
        {<<Trailer, Dsa, Sha1, Size, Md5, Spare(2), Behind>>,
         <<Trailer, Size, Md5, Spare(4)>>,
         <<Trailer, Sha256, Size>>,
         <<Trailer, Sha1, Size, Md5>>,
         <<LongTrailer, Rsa, Sha256, Size, Md5, Spare(4)>>}}

\* Files that the parser rejects, one for each of its checks.
BadFiles ==
    LET good == Rpm(<<Trailer, Sha256, Size, Md5>>)
    IN  {Rpm(<<Trailer, Size, Spare(4)>>),
         Rpm(<<Trailer, Sha256, Md5>>),
         Rpm(<<Sha256, Size, Md5>>),
         Rpm(<<ShortTrailer, Sha256, Size, Md5>>),
         [good EXCEPT !.format = 6],
         [good EXCEPT !.main = "damaged"],
         [good EXCEPT !.sig.regionCount = 3],
         [good EXCEPT !.sig.storeSize = 20]}

AllFiles == GoodFiles \cup BadFiles

MCKeys    == {"rsa1", "rsa2", "dsa", "ed"}
MCKeyType == [k \in MCKeys |-> CASE k \in {"rsa1", "rsa2"} -> KEY_TYPE_RSA
                                 [] k = "dsa" -> KEY_TYPE_DSA
                                 [] k = "ed"  -> KEY_TYPE_OTHER]
MCSigLen  == [k \in MCKeys |-> CASE k = "rsa1" -> 3 [] k = "rsa2" -> 6 [] OTHER -> 2]
=============================================================================
