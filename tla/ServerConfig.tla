---------------------------- MODULE ServerConfig ----------------------------
(***************************************************************************)
(* How the server comes to its configuration: loadAppConfig and            *)
(* loadAppConfigFromReader of src/server/server.go.                        *)
(*                                                                         *)
(* A launch is a record of env (the value of RPM_SIGN_CONFIG) and args. A  *)
(* line of a configuration file is a record of a trimmed key and value;    *)
(* "#" is the key of comments and blank lines, None that of a line that is *)
(* not <key>=<value>.                                                      *)
(***************************************************************************)
EXTENDS Integers, Sequences, FiniteSets

CONSTANTS ConfigFiles,  \* path -> sequence of lines
          Files         \* path -> what the file is: keys, client binaries

None == ""

Occurrences(seq, S) == {i \in DOMAIN seq : seq[i] \in S}

ConfigOption == {"-c", "--config"}
ServerFlags  == {"-d", "--debug", "-v", "--verbose"}

\* No option comes twice under the same spelling, and -c has a value. The loop looks
\* at that value as an argument, too.
ArgsOK(args) ==
    /\ \A opt \in ConfigOption \cup ServerFlags : Cardinality(Occurrences(args, {opt})) <= 1
    /\ Len(args) \notin Occurrences(args, ConfigOption)

\* RPM_SIGN_CONFIG goes before -c, the first -c before a second one.
ConfigPath(launch) ==
    LET given == {i \in Occurrences(launch.args, ConfigOption) \ {Len(launch.args)} :
                      launch.args[i + 1] # None}
    IN  IF launch.env # None THEN launch.env
        ELSE IF given = {} THEN None
        ELSE launch.args[1 + CHOOSE i \in given : \A j \in given : i <= j]

Settings(lines) == SelectSeq(lines, LAMBDA l : l.key # "#")

Setting(lines, key) ==
    IF \E i \in DOMAIN lines : lines[i].key = key
    THEN lines[CHOOSE i \in DOMAIN lines : lines[i].key = key].value ELSE None

LineOK(line) ==
    CASE line.key \in {"verbose", "debug"} ->
             line.value \in {"1", "on", "true", "0", "off", "false"}
      [] line.key \in {"gpg_public_key", "gpg_private_key"} ->
             line.value \in DOMAIN Files
      [] line.key \in {"rpm_sign_client_binary", "rpm_sign_arm64_client_binary"} ->
             line.value = None \/ line.value \in DOMAIN Files
      [] OTHER ->
             line.key \in {"access_log", "gpg_private_key_password", "api_signing_token",
                           "listen_address"}

HasKind(path, kinds) == path \in DOMAIN Files /\ Files[path] \in kinds

LinesOK(lines) ==
    /\ \A i \in DOMAIN lines : LineOK(lines[i])
    /\ \A i, j \in DOMAIN lines : lines[i].key = lines[j].key => i = j

\* Mutant: the token may be blank or missing.
ConfigOKWithoutToken(lines) ==
    /\ LinesOK(lines)
    /\ HasKind(Setting(lines, "gpg_public_key"), {"public key", "private key"})
    /\ HasKind(Setting(lines, "gpg_private_key"), {"private key"})

\* All lines are fine, the token is not blank, and both keys can be loaded: the key
\* ring of LoadPublicKey may be a public or a private key block.
ConfigOK(lines) ==
    /\ LinesOK(lines)
    /\ Setting(lines, "api_signing_token") # None
    /\ HasKind(Setting(lines, "gpg_public_key"), {"public key", "private key"})
    /\ HasKind(Setting(lines, "gpg_private_key"), {"private key"})

Lines(launch) == Settings(ConfigFiles[ConfigPath(launch)])

\* What the handlers use of the configuration, read once.
HandlerSettings == {"api_signing_token", "access_log", "rpm_sign_client_binary",
                    "rpm_sign_arm64_client_binary"}
NoConfig          == [key \in HandlerSettings |-> None]
AppConfig(launch) == [key \in HandlerSettings |-> Setting(Lines(launch), key)]

\* main prints the version and exits with 0 before it looks at anything else.
PrintsVersion(launch) == Occurrences(launch.args, {"--version"}) # {}

\* Otherwise it gets as far as startHttpServer, or exits with 1.
Starts(launch) ==
    /\ ArgsOK(launch.args)
    /\ ConfigPath(launch) \in DOMAIN ConfigFiles
    /\ ConfigOK(Lines(launch))
=============================================================================
