--------------------------- MODULE MCHeaderEditing ---------------------------
(* Small signature headers for HeaderEditing. *)
EXTENDS HeaderEditing, SampleHeaders

\* Headers with reserved space: unsigned, V4 and V3 signed, and with an entry
\* behind the reserved space; small, just large enough, and ample.
FilesWithReservedSpace ==
    {Packed(es) : es \in
        {<<Trailer, Sha1, Size, Spare(n)>> : n \in {1, 3, 5, 12}} \cup
        {<<Trailer, Rsa, Sha1, LongSize, Size, Pgp, Gpg, Spare(n)>> : n \in {1, 3, 12}} \cup
        {<<Trailer, Dsa, Size, Spare(n), Behind>> : n \in {1, 12}}}

\* Headers without: three entries in a slice of four, four in a slice of four.
FilesWithoutReservedSpace ==
    {Packed(<<Trailer, Rsa, Size>>),
     Packed(<<Trailer, Rsa, Sha1, Size>>),
     Packed(<<Trailer, Dsa, Rsa, Size, Pgp>>),
     Packed(<<Trailer, Sha1, LongSize, Size, Behind>>)}

AllFiles == FilesWithReservedSpace \cup FilesWithoutReservedSpace

SignatureTags == {SigTagRSAHeader, SigTagDSAHeader}
DeletedTags   == {SigTagDSAHeader, SigTagRSAHeader, SigTagPGP, SigTagPGP5, SigTagGPG}
DeletedTagsAndReserve == DeletedTags \cup {SigTagReservedSpace}
=============================================================================
