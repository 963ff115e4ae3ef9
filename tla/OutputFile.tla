----------------------------- MODULE OutputFile -----------------------------
(***************************************************************************)
(* A run of the client from its command line to its result                 *)
(* (src/client/client.go, remotesign.go, src/common/signing.go, utils.go): *)
(* a file system, clients that run at the same time and write to the same  *)
(* path, and everything that can fail on the way, a crash included.        *)
(*                                                                         *)
(* A file is a sequence of cells. A package is a header (HeaderLen cells)  *)
(* and a payload; signing makes the header Growth cells longer. A detached *)
(* signature is a single cell. All clients process the same package.       *)
(***************************************************************************)
EXTENDS ClientOptions

CONSTANTS Clients,
          CommandLines, \* what the clients may be started with
          Urls,         \* package arguments that OpenFileOrUrl downloads
          InputSigned,  \* whether the package carries a signature already
          InPlace,      \* whether the output path is the path of the input
          HeaderLen, PayloadLen, Growth,
          DiskSize      \* the longest file that fits on the disk

ASSUME SizesAssumption ==
    /\ {HeaderLen, PayloadLen} \subseteq Nat \ {0}
    /\ Growth \in Nat
    /\ DiskSize \in Nat /\ DiskSize >= HeaderLen + Growth + PayloadLen
    /\ {InPlace, InputSigned} \subseteq BOOLEAN
    /\ IsFiniteSet(Clients) /\ Clients \cap {"absent", "input", "other"} = {}

ASSUME CommandLinesAssumption == CommandLines \subseteq Seq(STRING)

Absent == "absent"

Cells(kind, n) == [i \in 1..n |-> <<kind, i>>]
Package     == Cells("header", HeaderLen) \o Cells("payload", PayloadLen)
OtherFile   == <<<<"other", 1>>>>
Signed(c)   == [i \in 1..(HeaderLen + Growth) |-> <<"signed", c>>]
Detached(c) == <<<<"detached", c>>>>

VARIABLES
    dest,       \* the inode at the output path, or Absent
    inode,      \* the content of each inode; a client's own inode has its name
    args,       \* the command line of each client
    mode, overwrite,      \* what the option loop made of it
    pc,
    out,        \* the inode a client has open for writing
    wpos,       \* cells written through it
    rpos,       \* cells read from the input
    clobbered,  \* <<c, i>>: client c, without overwrite, destroyed inode i
    uncleaned   \* clients whose os.Remove or final Close failed

vars == <<dest, inode, args, mode, overwrite, pc, out, wpos, rpos, clobbered, uncleaned>>
config == <<args, mode, overwrite>>

Init ==
    /\ dest \in IF InPlace THEN {"input"} ELSE {Absent, "other"}
    /\ inode = [i \in Clients \cup {"input", "other"} |->
                    CASE i = "input" -> Package
                      [] i = "other" -> OtherFile
                      [] OTHER -> <<>>]
    /\ args \in [Clients -> CommandLines]
    /\ mode = [c \in Clients |-> "unknown"]
    /\ overwrite = [c \in Clients |-> FALSE]
    /\ pc = [c \in Clients |-> "options"]
    /\ out = [c \in Clients |-> Absent]
    /\ wpos = [c \in Clients |-> 0]
    /\ rpos = [c \in Clients |-> 0]
    /\ clobbered = {} /\ uncleaned = {}

Goto(c, from, to) == pc[c] = from /\ pc' = [pc EXCEPT ![c] = to]

\* A write of one cell at the position of the client's descriptor.
Put(c, cell) ==
    LET i == out[c]
        p == wpos[c] + 1
    IN  /\ p <= DiskSize
        /\ inode' = [inode EXCEPT ![i] =
               [k \in 1..(IF p > Len(@) THEN p ELSE Len(@)) |->
                   IF k = p THEN cell
                   ELSE IF k <= Len(@) THEN @[k] ELSE <<"hole", 0>>]]
        /\ wpos' = [wpos EXCEPT ![c] = p]

-----------------------------------------------------------------------------
\* The option loop and the checks behind it. --version ends the run with 0.
CheckOptions(c) ==
    /\ Goto(c, "options", IF PrintsVersion(args[c]) THEN "ok"
                          ELSE IF Accepted(args[c]) THEN "read" ELSE "error")
    /\ mode' = [mode EXCEPT ![c] = Plan(args[c])]
    /\ overwrite' = [overwrite EXCEPT ![c] = Overwrite(args[c])]
    /\ UNCHANGED <<dest, inode, args, out, wpos, rpos, clobbered, uncleaned>>

\* OpenFileOrUrl: a download brings the package as it is on its server, a file is
\* what the other clients have made of it.
FromUrl(c) == \E i \in Remaining(args[c]) : args[c][i] \in Urls
Source(c)  == IF FromUrl(c) THEN Package ELSE inode["input"]

Parseable(c) == Len(Source(c)) >= HeaderLen /\ \A i \in 1..HeaderLen : Source(c)[i] = Package[i]

\* Mutant: the payload is read together with the header.
ReadPayloadToo(c) ==
    /\ Goto(c, "read", IF mode[c] = "generic" THEN "stat" ELSE "checks")
    /\ mode[c] # "generic" => Parseable(c)
    /\ rpos' = [rpos EXCEPT ![c] = Len(Source(c))]
    /\ UNCHANGED <<dest, inode, config, out, wpos, clobbered, uncleaned>>

\* The client opens and parses the package, or loads its key and hashes all of it,
\* whatever it is. In place, what another client has made of it may not parse.
Read(c) ==
    /\ Goto(c, "read", IF mode[c] = "generic" THEN "stat" ELSE "checks")
    /\ mode[c] # "generic" => Parseable(c)
    /\ rpos' = [rpos EXCEPT ![c] =
                   IF mode[c] = "generic" THEN Len(Source(c)) ELSE HeaderLen]
    /\ UNCHANGED <<dest, inode, config, out, wpos, clobbered, uncleaned>>

ReadFails(c) ==
    /\ Goto(c, "read", "error")
    /\ UNCHANGED <<dest, inode, config, out, wpos, rpos, clobbered, uncleaned>>

Verifies(c) == InputSigned /\ Seen(args[c], "--verify")

\* --info, --dump and --verify, whose verdict is only logged; then the options that
\* are looked at this late.
LateChecks(c) ==
    /\ Goto(c, "checks",
            IF Verifies(c) /\ ~Seen(args[c], "--pub-key") THEN "error"
            ELSE IF mode[c] = "inspect" THEN "ok"
            ELSE IF Output(args[c]) = None THEN "error"
            ELSE IF mode[c] = "remote" THEN "post"
            ELSE IF mode[c] = "local" /\ Key(args[c]) = None THEN "error"
            ELSE "stat")
    /\ UNCHANGED <<dest, inode, config, out, wpos, rpos, clobbered, uncleaned>>

\* A key cannot be loaded, or the package not opened a second time to verify it.
LoadKeyFails(c) ==
    /\ Verifies(c) \/ mode[c] = "local"
    /\ Goto(c, "checks", "error")
    /\ UNCHANGED <<dest, inode, config, out, wpos, rpos, clobbered, uncleaned>>

\* The POST of signRpmRemotely, answered with 200 or not at all or otherwise.
Post(c) ==
    /\ \E to \in {"stat", "error"} : Goto(c, "post", to)
    /\ UNCHANGED <<dest, inode, config, out, wpos, rpos, clobbered, uncleaned>>

\* Mutant: the client waits until the path is free.
StatRetries(c) ==
    /\ Goto(c, "stat", IF dest # Absent /\ ~overwrite[c] THEN "stat" ELSE "create")
    /\ UNCHANGED <<dest, inode, config, out, wpos, rpos, clobbered, uncleaned>>

\* Mutant: the check is left out.
StatSkipped(c) ==
    /\ Goto(c, "stat", "create")
    /\ UNCHANGED <<dest, inode, config, out, wpos, rpos, clobbered, uncleaned>>

\* os.Stat in CreateDestinationFile, FileExists in WriteFileAtomically.
Stat(c) ==
    /\ Goto(c, "stat", IF dest # Absent /\ ~overwrite[c] THEN "error" ELSE "create")
    /\ UNCHANGED <<dest, inode, config, out, wpos, rpos, clobbered, uncleaned>>

Clobbers(c) == IF dest # Absent /\ ~overwrite[c] THEN clobbered \cup {<<c, dest>>} ELSE clobbered

\* os.Create: truncates the file at the path, or makes a new one.
Create(c) ==
    /\ mode[c] # "generic"
    /\ Goto(c, "create", "header")
    /\ LET i == IF dest = Absent THEN c ELSE dest
       IN  /\ dest' = i
           /\ out' = [out EXCEPT ![c] = i]
           /\ inode' = [inode EXCEPT ![i] = <<>>]
    /\ clobbered' = Clobbers(c)
    /\ UNCHANGED <<config, wpos, rpos, uncleaned>>

\* os.CreateTemp.
CreateTemp(c) ==
    /\ mode[c] = "generic"
    /\ Goto(c, "create", "temp")
    /\ out' = [out EXCEPT ![c] = c]
    /\ UNCHANGED <<dest, inode, config, wpos, rpos, clobbered, uncleaned>>

\* os.Stat, os.Create or os.CreateTemp fails.
CreateFails(c) ==
    /\ pc[c] \in {"stat", "create"}
    /\ pc' = [pc EXCEPT ![c] = "error"]
    /\ UNCHANGED <<dest, inode, config, out, wpos, rpos, clobbered, uncleaned>>

\* A cell of the signed header, from SignRpm or from the server's response.
WriteHeader(c) ==
    /\ Goto(c, "header", IF wpos[c] + 1 = HeaderLen + Growth THEN "payload" ELSE "header")
    /\ Put(c, <<"signed", c>>)
    /\ UNCHANGED <<dest, config, out, rpos, clobbered, uncleaned>>

\* io.Copy takes the payload from the download or the input file as it is now.
CopyPayload(c) ==
    /\ pc[c] = "payload"
    /\ rpos[c] < Len(Source(c))
    /\ Put(c, Source(c)[rpos[c] + 1])
    /\ rpos' = [rpos EXCEPT ![c] = @ + 1]
    /\ UNCHANGED <<dest, config, pc, out, clobbered, uncleaned>>

CloseFile(c) ==
    /\ rpos[c] >= Len(Source(c))
    /\ Goto(c, "payload", "ok")
    /\ UNCHANGED <<dest, inode, config, out, wpos, rpos, clobbered, uncleaned>>

\* An error of the final Close is returned, the file stays; its last cell may not
\* have reached the disk.
CloseFails(c) ==
    /\ rpos[c] >= Len(Source(c))
    /\ Goto(c, "payload", "error")
    /\ inode' \in {inode, [inode EXCEPT ![out[c]] = Front(@)]}
    /\ uncleaned' = uncleaned \cup {c}
    /\ UNCHANGED <<dest, config, out, wpos, rpos, clobbered>>

\* Mutant: a failure leaves the file behind.
WriteFailsWithoutRemove(c) ==
    /\ pc[c] \in {"header", "payload"}
    /\ pc' = [pc EXCEPT ![c] = "error"]
    /\ UNCHANGED <<dest, inode, config, out, wpos, rpos, clobbered, uncleaned>>

\* Signing fails, the response ends early, the payload cannot be read or the disk
\* is full: the code removes whatever is at the output path.
WriteFails(c) ==
    /\ pc[c] \in {"header", "payload"}
    /\ pc' = [pc EXCEPT ![c] = "error"]
    /\ dest' = Absent
    /\ UNCHANGED <<inode, config, out, wpos, rpos, clobbered, uncleaned>>

\* The same, but the file cannot be removed, which nobody is told.
RemoveFails(c) ==
    /\ pc[c] \in {"header", "payload"}
    /\ pc' = [pc EXCEPT ![c] = "error"]
    /\ uncleaned' = uncleaned \cup {c}
    /\ UNCHANGED <<dest, inode, config, out, wpos, rpos, clobbered>>

\* Mutant: the temporary file is written after it is renamed.
RenameFirst(c) ==
    /\ wpos[c] = 0
    /\ Goto(c, "temp", "header")
    /\ dest' = c
    /\ clobbered' = Clobbers(c)
    /\ UNCHANGED <<inode, config, out, wpos, rpos, uncleaned>>

\* WriteFileAtomically: write, sync and close the temporary file, then rename it.
WriteTemp(c) ==
    /\ pc[c] = "temp"
    /\ wpos[c] = 0
    /\ Put(c, Detached(c)[1])
    /\ UNCHANGED <<dest, config, pc, out, rpos, clobbered, uncleaned>>

Rename(c) ==
    /\ wpos[c] = 1
    /\ Goto(c, "temp", "ok")
    /\ dest' = c
    /\ clobbered' = Clobbers(c)
    /\ UNCHANGED <<inode, config, out, wpos, rpos, uncleaned>>

\* Mutant: the file at the output path is removed.
TempFailsRemovesOutput(c) ==
    /\ Goto(c, "temp", "error")
    /\ dest' = Absent
    /\ UNCHANGED <<inode, config, out, wpos, rpos, clobbered, uncleaned>>

\* Any of its steps fails: the temporary file is removed.
TempFails(c) ==
    /\ Goto(c, "temp", "error")
    /\ UNCHANGED <<dest, inode, config, out, wpos, rpos, clobbered, uncleaned>>

Running(c) == pc[c] \notin {"ok", "error", "crashed"}

Crash(c) ==
    /\ Running(c)
    /\ pc' = [pc EXCEPT ![c] = "crashed"]
    /\ UNCHANGED <<dest, inode, config, out, wpos, rpos, clobbered, uncleaned>>

Work(c) ==
    \/ CheckOptions(c) \/ Read(c) \/ LateChecks(c)
    \/ Stat(c) \/ Create(c) \/ CreateTemp(c)
    \/ WriteHeader(c) \/ CopyPayload(c) \/ CloseFile(c)
    \/ WriteTemp(c) \/ Rename(c)

Fail(c) ==
    \/ ReadFails(c) \/ LoadKeyFails(c) \/ CreateFails(c)
    \/ WriteFails(c) \/ RemoveFails(c) \/ CloseFails(c) \/ TempFails(c)

Next ==
    \/ \E c \in Clients : Work(c) \/ Fail(c) \/ Post(c) \/ Crash(c)
    \/ (\A c \in Clients : ~Running(c)) /\ UNCHANGED vars

\* Where a run reads from a peer: the answer of the sign server, its status or its
\* body, and a package it downloads, to parse it, to verify it or to copy its payload.
\* Neither http.DefaultClient nor http.Get has a timeout.
WaitsForPeer(c) ==
    \/ pc[c] = "post"
    \/ pc[c] = "header" /\ mode[c] = "remote"
    \/ pc[c] \in {"read", "payload"} /\ FromUrl(c)
    \/ pc[c] = "checks" /\ Verifies(c) /\ FromUrl(c)

\* A process that does not wait for a peer goes on if it can, and it fails where it
\* cannot: on a package that does not parse and on a full disk. No other failure has
\* to happen.
Fairness ==
    \A c \in Clients :
        /\ WF_vars(~WaitsForPeer(c) /\ Work(c))
        /\ WF_vars(~WaitsForPeer(c) /\ ReadFails(c) /\ mode[c] # "generic" /\ ~Parseable(c))
        /\ WF_vars(~WaitsForPeer(c) /\ wpos[c] = DiskSize /\ (WriteFails(c) \/ RemoveFails(c)))

Spec == Init /\ [][Next]_vars /\ Fairness

-----------------------------------------------------------------------------
\* The kinds of signature the command line asks for; with --version it asks for none.
Asked(c) ==
    {k \in {"package", "detached"} :
        /\ ~PrintsVersion(args[c])
        /\ Uses(args[c], IF k = "package" THEN {"-s", "--sign"} ELSE {"--sign-generic"}) # {}}

\* The finished output of client c, for each kind.
Result(c, k) ==
    IF k = "detached" THEN Detached(c) ELSE Signed(c) \o Cells("payload", PayloadLen)

Writers(i) == {c \in Clients : out[c] = i}

\* Success means what signRpmRemotely's comment says: the output is the signed
\* header, "immediately followed by the RPM's unchanged compressed payload", or the
\* signature that was asked for, as long as no other run writes to the same file.
\* A run that was not asked to sign writes nothing.
SuccessIsComplete ==
    \A c \in Clients : pc[c] = "ok" =>
        IF Asked(c) = {} THEN out[c] = Absent
        ELSE /\ out[c] # Absent
             /\ Writers(out[c]) = {c} => \E k \in Asked(c) : inode[out[c]] = Result(c, k)

\* A run that names a sign server and succeeds had its package signed there and not
\* with a key of its own ("--sign-server is mutually exclusive with --priv-key"), and
\* one that names a key needs no server. A run that only prints its version is left out.
SignedWhereAsked ==
    \A c \in Clients : pc[c] = "ok" /\ mode[c] # "version" =>
        /\ Server(args[c]) # None => mode[c] = "remote"
        /\ Key(args[c]) # None => mode[c] # "remote"

\* CreateDestinationFile is "refusing to clobber an already existing file unless
\* overwriteDestinationFile is true", and so is WriteFileAtomically: without -f
\* a run never destroys a file that is at the output path.
NoClobber == clobbered = {}

\* What is left of it when runs race: a file that was there before all of them is
\* never destroyed by a run without -f, only the output of another run can be.
OldFilesKept == \A x \in clobbered : x[2] \in Clients

Complete(content) ==
    content \in {OtherFile, Package} \cup {Result(c, k) : c \in Clients, k \in {"package", "detached"}}

\* After all runs have ended by themselves, successfully or with an error, the output
\* path holds no file or a complete one. Two exceptions: two runs wrote to the same
\* file, or the run that wrote it has reported an error and could not clean up, because
\* os.Remove failed (the error is dropped) or because what failed was the final Close,
\* after which SignRpmAndWriteToFile and signRpmRemotely remove nothing.
NoPartialFileAtTheEnd ==
    (\A c \in Clients : pc[c] \in {"ok", "error"}) /\ dest # Absent =>
        \/ Complete(inode[dest])
        \/ Cardinality(Writers(dest)) > 1
        \/ \E c \in Writers(dest) : pc[c] = "error" /\ c \in uncleaned

\* After a run has reported success there is a file at its output path, its own or a
\* later one. The exception: a package-signing run that shares the path has failed and
\* removed whatever was there. Neither a crash nor WriteFileAtomically, which removes
\* its temporary file only, ever takes the file away.
OutputIsThere ==
    (\E c \in Clients : pc[c] = "ok" /\ out[c] # Absent) /\ dest = Absent =>
        \E d \in Clients : /\ pc[d] = "error" /\ out[d] # Absent
                           /\ mode[d] # "generic" /\ d \notin uncleaned

\* WriteFileAtomically: whatever fails, crashes included, and whoever runs at the
\* same time, a file at the output path is complete, as long as only detached
\* signatures are written.
OutputIsAtomic ==
    (\A c \in Clients : out[c] # Absent => mode[c] = "generic") /\ dest # Absent
        => Complete(inode[dest])

\* A run comes to its end, whatever fails and whatever the other runs do to the
\* files, or it waits for a peer: for the sign server or for a download.
EveryRunEnds == \A c \in Clients : []<>(~Running(c) \/ WaitsForPeer(c))
=============================================================================
