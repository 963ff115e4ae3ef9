---------------------------- MODULE MCOutputFile ----------------------------
(***************************************************************************)
(* Command lines for TLC: every way to sign, with and without -f, under    *)
(* both spellings; both signing modes; and the ones that are refused, in   *)
(* the option loop, in the checks behind it and in the late checks.        *)
(* Three of them download the package, and one only prints the version.    *)
(***************************************************************************)
EXTENDS OutputFile

ToFile == <<"-o", "out", "package">>

Signing == {
    <<"--sign", "--priv-key", "key">> \o ToFile,
    <<"http://package", "-f", "-s", "--output-file", "out", "--priv-key", "key">>,
    <<"--sign", "--sign-server", "url">> \o ToFile,
    <<"package", "--overwrite", "-s", "--sign-server", "url", "--sign-server-token", "t", "-o", "out">>,
    <<"--sign-generic", "--priv-key", "key", "--priv-key-password", "p">> \o ToFile,
    <<"-f", "--sign", "--sign-generic", "--priv-key", "key">> \o ToFile}

Inspecting == {<<"--verify", "--pub-key", "k1", "--pub-key", "k2", "http://package">>,
               <<"--sign", "--version", "-o">>}

Refused == {
    <<"--sign-generic", "--sign-server", "url", "--priv-key", "key">> \o ToFile,
    <<"--sign", "--sign-server", "url", "--priv-key", "key">> \o ToFile,
    <<"--verify", "http://package">>,
    <<"package", "--sign", "--priv-key", "key", "-o">>,
    <<"--sign", "--priv-key", "key", "package">>,
    <<"--sign">> \o ToFile,
    <<"--sign", "--sign-server", "url", "--output-file", "out2">> \o ToFile}

PackageUrls == {"http://package"}

AllCommandLines == Signing \cup Inspecting \cup Refused

OverwritingCommandLines == {l \in Signing : ToSet(l) \cap {"-f", "--overwrite"} # {}}
=============================================================================
