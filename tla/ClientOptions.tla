---------------------------- MODULE ClientOptions ----------------------------
(***************************************************************************)
(* The command line of the client: the option loop and the checks behind   *)
(* it in main of src/client/client.go. A command line is a sequence of     *)
(* arguments; None stands for the empty string.                            *)
(***************************************************************************)
EXTENDS Integers, Sequences, SequencesExt, FiniteSets

None == ""

Help       == {"-h", "-help", "--help", "--version"}
OutputOpts == {"-o", "--output-file"}
WithValue  == OutputOpts \cup {"--priv-key", "--priv-key-password", "--sign-server",
                               "--sign-server-token", "--pub-key"}
Flags      == {"-f", "--overwrite", "-i", "--info", "-v", "--verbose", "-d", "--debug", "--dump",
               "--dump-sig-hdr", "--dump-main-hdr", "--verify", "-s", "--sign", "--sign-generic"}
Repeatable == {"--pub-key", "--priv-key-password"}

\* The arguments the loop looks at: it skips the value of the option before.
Turns(args) ==
    LET turn[i \in DOMAIN args] == i = 1 \/ args[i - 1] \notin WithValue \/ ~turn[i - 1]
    IN  {i \in DOMAIN args : turn[i]}

Uses(args, opts) == {i \in Turns(args) : args[i] \in opts}
Seen(args, opt)  == Uses(args, {opt}) # {}
LastOf(S)        == CHOOSE i \in S : \A j \in S : j <= i

\* The value of an option, the last one if it is given twice.
ValueOf(args, opts) ==
    LET given == {i \in Uses(args, opts) \ {Len(args)} : args[i + 1] # None}
    IN  IF given = {} THEN None ELSE args[LastOf(given) + 1]

Output(args)    == ValueOf(args, OutputOpts)
Key(args)       == ValueOf(args, {"--priv-key"})
Server(args)    == ValueOf(args, {"--sign-server"})
Overwrite(args) == Uses(args, {"-f", "--overwrite"}) # {}

\* What is no option and no value of one: remainingArgs.
Remaining(args) == Turns(args) \ Uses(args, WithValue \cup Flags)

\* Of two signing modes the last one counts.
SigningMode(args) ==
    LET modes == Uses(args, {"-s", "--sign", "--sign-generic"})
    IN  IF modes = {} THEN "notSet"
        ELSE IF args[LastOf(modes)] = "--sign-generic" THEN "generic" ELSE "rpm"

\* The loop ends without an error: every option has its value, none comes twice
\* under the same spelling, and there is one output file at most.
LoopEnds(args) ==
    /\ Uses(args, Help) = {}
    /\ Len(args) \notin Uses(args, WithValue)
    /\ \A opt \in (WithValue \cup Flags) \ Repeatable : Cardinality(Uses(args, {opt})) <= 1
    /\ \A i, j \in Uses(args, OutputOpts) : i < j => args[i + 1] = None

\* The loop prints the version and exits with 0 where it meets --version, unless
\* it has ended before.
PrintsVersion(args) ==
    \E i \in Uses(args, {"--version"}) : LoopEnds(SubSeq(args, 1, i - 1))

\* Mutant: a key and a server may be given together.
AcceptedWithKeyAndServer(args) ==
    /\ LoopEnds(args)
    /\ Cardinality(Remaining(args)) = 1
    /\ SigningMode(args) = "generic" => Key(args) # None /\ Output(args) # None
    /\ Seen(args, "--sign-server-token") => Server(args) # None
    /\ Server(args) # None => SigningMode(args) # "notSet"

\* "Commandline arguments sanity checking".
Accepted(args) ==
    /\ LoopEnds(args)
    /\ Cardinality(Remaining(args)) = 1
    /\ SigningMode(args) = "generic" => Key(args) # None /\ Output(args) # None
    /\ Seen(args, "--sign-server-token") => Server(args) # None
    /\ Server(args) # None => /\ SigningMode(args) # "notSet"
                              /\ Key(args) = None
                              /\ ~Seen(args, "--priv-key-password")

\* What main is going to do.
Plan(args) ==
    IF PrintsVersion(args) THEN "version"
    ELSE CASE SigningMode(args) = "generic" -> "generic"
           [] SigningMode(args) = "rpm"     -> IF Server(args) # None THEN "remote" ELSE "local"
           [] OTHER                         -> "inspect"
=============================================================================
