---------------------------- MODULE SampleHeaders ----------------------------
(* Small signature headers as rpm packs them, for the model-checking modules. *)
EXTENDS RpmHeader

Old == "old"

\* An entry as rpm writes it; the offset is assigned by Packed.
E(tag, fmt, len) == NewEntry(tag, fmt, 0, len, len, Old)

\* A header as rpm packs it, parsed: sorted entries, no holes.
Packed(es) ==
    SyncDataStoreLayout([entries |-> es, cap |-> ParsedCapacity(Len(es)),
                         indexEntryCount |-> Len(es), storeSize |-> 0,
                         regionCount |-> Len(es)])

Trailer == E(SigTagHeaderSignatures, FORMAT_TYPE_BINARY, 16)
LongTrailer  == [Trailer EXCEPT !.cnt = 20, !.len = 20]
ShortTrailer == [Trailer EXCEPT !.cnt = 12, !.len = 12]
Rsa     == E(SigTagRSAHeader, FORMAT_TYPE_BINARY, 3)
Dsa     == E(SigTagDSAHeader, FORMAT_TYPE_BINARY, 2)
Sha1    == E(SigTagSHA1Header, FORMAT_TYPE_STRING, 5)
Sha256  == E(SigTagSHA256Header, FORMAT_TYPE_STRING, 5)
LongSize == E(SigTagLongSigSize, FORMAT_TYPE_INT64, 8)
Size    == E(SigTagSize, FORMAT_TYPE_INT32, 4)
Pgp     == E(SigTagPGP, FORMAT_TYPE_BINARY, 3)
Md5     == E(SigTagMD5, FORMAT_TYPE_BINARY, 4)
Gpg     == E(SigTagGPG, FORMAT_TYPE_BINARY, 2)
Spare(n) == E(SigTagReservedSpace, FORMAT_TYPE_BINARY, n)
\* A tag behind the reserved space: it is then not the end of the data store.
Behind  == E(1012, FORMAT_TYPE_BINARY, 2)
=============================================================================
