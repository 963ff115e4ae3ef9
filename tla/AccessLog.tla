------------------------------ MODULE AccessLog ------------------------------
(***************************************************************************)
(* writeAccessLog of src/server/server.go: every request handler calls it  *)
(* from its own goroutine when the request is done, and it works on two    *)
(* package variables, accessLog and attemptedAccessLogOpen, without any    *)
(* lock. Each read or write of them and each system call is a step.        *)
(*                                                                         *)
(* A line of the log is the request it is about. A file descriptor is      *)
(* named after the request that called os.Create, and keeps its own        *)
(* position: the file is not opened for appending.                         *)
(***************************************************************************)
EXTENDS Integers, FiniteSets, Functions

CONSTANTS Requests,     \* the requests the server gets
          HasPath       \* whether access_log is set in the configuration

ASSUME RequestsAssumption == "nil" \notin Requests /\ IsFiniteSet(Requests) /\ HasPath \in BOOLEAN

Nil == "nil"

VARIABLES
    accessLog,    \* package variable: a descriptor or Nil
    attempted,    \* package variable attemptedAccessLogOpen
    content,      \* the file: a function from positions to lines
    pos,          \* the position of each descriptor
    closed,       \* the descriptors that were closed
    pc,           \* where each request is in writeAccessLog
    fd,           \* the descriptor a request read from accessLog
    created,      \* the requests whose os.Create truncated the file
    fallback,     \* the lines that went to the default logger
    openFailed,   \* the lines lost with "Failed to open access log file"
    writeFailed,  \* the lines lost with "Failed to write to access log"
    late          \* the lines written after "no more access log will be written!"

logVars == <<accessLog, attempted, content, pos, closed, pc, fd, created,
             fallback, openFailed, writeFailed, late>>

Empty == <<>>

LogInit ==
    /\ accessLog = Nil
    /\ attempted = FALSE
    /\ content = Empty
    /\ pos = [r \in Requests |-> 0]
    /\ closed = {}
    /\ pc = [r \in Requests |-> "handling"]
    /\ fd = [r \in Requests |-> Nil]
    /\ created = {}
    /\ fallback = {}
    /\ openFailed = {}
    /\ writeFailed = {}
    /\ late = {}

Goto(r, from, to) == pc[r] = from /\ pc' = [pc EXCEPT ![r] = to]

-----------------------------------------------------------------------------
\* if accessLog == nil
CheckOpen(r) ==
    /\ Goto(r, "log", IF accessLog = Nil THEN "checkAttempted" ELSE "load")
    /\ UNCHANGED <<accessLog, attempted, content, pos, closed, fd, created,
                   fallback, openFailed, writeFailed, late>>

\* Mutant: a second attempt to open the file is not prevented.
CheckAttemptedForgets(r) ==
    /\ Goto(r, "checkAttempted", IF ~HasPath THEN "done" ELSE "create")
    /\ fallback' = IF ~HasPath THEN fallback \cup {r} ELSE fallback
    /\ UNCHANGED <<accessLog, attempted, content, pos, closed, fd, created,
                   openFailed, writeFailed, late>>

\* No path or an earlier attempt: the line goes to the default logger.
CheckAttempted(r) ==
    /\ Goto(r, "checkAttempted", IF ~HasPath \/ attempted THEN "done" ELSE "create")
    /\ fallback' = IF ~HasPath \/ attempted THEN fallback \cup {r} ELSE fallback
    /\ UNCHANGED <<accessLog, attempted, content, pos, closed, fd, created,
                   openFailed, writeFailed, late>>

\* os.Create truncates the file if it exists.
Create(r) ==
    /\ Goto(r, "create", "assign")
    /\ content' = Empty
    /\ created' = created \cup {r}
    /\ fd' = [fd EXCEPT ![r] = r]
    /\ UNCHANGED <<accessLog, attempted, pos, closed, fallback, openFailed, writeFailed, late>>

CreateFails(r) ==
    /\ Goto(r, "create", "assign")
    /\ fd' = [fd EXCEPT ![r] = Nil]
    /\ UNCHANGED <<accessLog, attempted, content, pos, closed, created, fallback,
                   openFailed, writeFailed, late>>

Assign(r) ==
    /\ Goto(r, "assign", "mark")
    /\ accessLog' = fd[r]
    /\ UNCHANGED <<attempted, content, pos, closed, fd, created, fallback,
                   openFailed, writeFailed, late>>

\* Mutant: a failed open is not reported.
MarkSilently(r) ==
    /\ Goto(r, "mark", IF fd[r] = Nil THEN "done" ELSE "load")
    /\ attempted' = TRUE
    /\ UNCHANGED <<accessLog, content, pos, closed, fd, created, fallback,
                   openFailed, writeFailed, late>>

\* attemptedAccessLogOpen = true, and the end if os.Create failed.
Mark(r) ==
    /\ Goto(r, "mark", IF fd[r] = Nil THEN "done" ELSE "load")
    /\ attempted' = TRUE
    /\ openFailed' = IF fd[r] = Nil THEN openFailed \cup {r} ELSE openFailed
    /\ UNCHANGED <<accessLog, content, pos, closed, fd, created, fallback, writeFailed, late>>

\* The receiver of accessLog.Write is read before the system call.
Load(r) ==
    /\ Goto(r, "load", "write")
    /\ fd' = [fd EXCEPT ![r] = accessLog]
    /\ UNCHANGED <<accessLog, attempted, content, pos, closed, created, fallback,
                   openFailed, writeFailed, late>>

\* A request has failed to write its line and has closed and forgotten the log.
GivenUp == \E w \in writeFailed : pc[w] = "done"

\* Mutant: a line is written again although the first write went through.
WriteLineTwice(r) ==
    /\ fd[r] \notin closed \cup {Nil}
    /\ Goto(r, "write", "done")
    /\ LET p == pos[fd[r]]
       IN  /\ content' = [q \in DOMAIN content \cup {p, p + 1} |->
                             IF q \in {p, p + 1} THEN r ELSE content[q]]
           /\ pos' = [pos EXCEPT ![fd[r]] = p + 2]
    /\ late' = IF GivenUp THEN late \cup {r} ELSE late
    /\ UNCHANGED <<accessLog, attempted, closed, fd, created, fallback,
                   openFailed, writeFailed>>

WriteLine(r) ==
    /\ fd[r] \notin closed \cup {Nil}
    /\ Goto(r, "write", "done")
    /\ content' = [p \in DOMAIN content \cup {pos[fd[r]]} |->
                      IF p = pos[fd[r]] THEN r ELSE content[p]]
    /\ pos' = [pos EXCEPT ![fd[r]] = @ + 1]
    /\ late' = IF GivenUp THEN late \cup {r} ELSE late
    /\ UNCHANGED <<accessLog, attempted, closed, fd, created, fallback, openFailed, writeFailed>>

\* The write fails: always on nil (os.ErrInvalid) and on a closed descriptor,
\* otherwise when the disk says so.
WriteFails(r) ==
    /\ Goto(r, "write", "close")
    /\ writeFailed' = writeFailed \cup {r}
    /\ UNCHANGED <<accessLog, attempted, content, pos, closed, fd, created,
                   fallback, openFailed, late>>

\* Mutant: the log is forgotten and not closed.
CloseLogSkipped(r) ==
    /\ Goto(r, "close", "forget")
    /\ UNCHANGED <<accessLog, attempted, content, pos, closed, fd, created, fallback,
                   openFailed, writeFailed, late>>

\* accessLog.Close() closes what the variable holds now.
CloseLog(r) ==
    /\ Goto(r, "close", "forget")
    /\ closed' = closed \cup ({accessLog} \ {Nil})
    /\ UNCHANGED <<accessLog, attempted, content, pos, fd, created, fallback,
                   openFailed, writeFailed, late>>

Forget(r) ==
    /\ Goto(r, "forget", "done")
    /\ accessLog' = Nil
    /\ UNCHANGED <<attempted, content, pos, closed, fd, created, fallback,
                   openFailed, writeFailed, late>>

WriteAccessLog(r) ==
    \/ CheckOpen(r) \/ CheckAttempted(r) \/ Create(r) \/ CreateFails(r)
    \/ Assign(r) \/ Mark(r) \/ Load(r) \/ WriteLine(r) \/ WriteFails(r)
    \/ CloseLog(r) \/ Forget(r)

-----------------------------------------------------------------------------
\* The handler returned: AccessLogMiddleware formats the line and logs it.
HandlerReturns(r) ==
    /\ Goto(r, "handling", "log")
    /\ UNCHANGED <<accessLog, attempted, content, pos, closed, fd, created,
                   fallback, openFailed, writeFailed, late>>

\* A handler that panics takes the middleware with it: no line is logged.
HandlerPanics(r) ==
    /\ Goto(r, "handling", "panicked")
    /\ UNCHANGED <<accessLog, attempted, content, pos, closed, fd, created,
                   fallback, openFailed, writeFailed, late>>

Finished == \A r \in Requests : pc[r] \in {"done", "panicked"}

Next ==
    \/ \E r \in Requests : HandlerReturns(r) \/ HandlerPanics(r) \/ WriteAccessLog(r)
    \/ Finished /\ UNCHANGED logVars

Spec == LogInit /\ [][Next]_logVars

-----------------------------------------------------------------------------
\* The types of the state: in particular, positions and lines never exceed the
\* number of requests, so writeAccessLog writes a line at most once.
TypeOK ==
    /\ accessLog \in Requests \cup {Nil}
    /\ attempted \in BOOLEAN
    /\ DOMAIN content \subseteq 0..Cardinality(Requests)
    /\ Range(content) \subseteq Requests
    /\ pos \in [Requests -> 0..Cardinality(Requests)]
    /\ closed \subseteq Requests
    /\ pc \in [Requests -> {"handling", "panicked", "log", "checkAttempted", "create",
                            "assign", "mark", "load", "write", "close", "forget", "done"}]
    /\ fd \in [Requests -> Requests \cup {Nil}]
    /\ created \cup fallback \cup openFailed \cup writeFailed \cup late \subseteq Requests

\* While only one request ever opened the file, no line is lost silently: the
\* line of every request that is done is in the file, in the default log, or
\* an error was reported in its place. (Two opens at the start of the server
\* truncate the file under a line already written; a handler that panicked has
\* no line.)
LinesAccountedFor ==
    Cardinality(created) <= 1 =>
        \A r \in Requests :
            pc[r] = "done" => r \in Range(content) \cup fallback \cup openFailed \cup writeFailed

\* The attempt to open was recorded, nobody is still on the way to open, nobody
\* holds a descriptor that the others do not use, and nobody is about to forget
\* one that is not closed.
Settled ==
    /\ attempted
    /\ \A r \in Requests :
          /\ pc[r] \notin {"create", "assign", "mark"}
          /\ pc[r] = "write" => fd[r] \in {accessLog, Nil} \cup closed
          /\ pc[r] = "forget" => accessLog \in {Nil} \cup closed

Kept(old, new) ==
    \A p \in DOMAIN old : p \in DOMAIN new /\ new[p] = old[p]

\* Once settled the log stays so, whatever fails: the file is never opened and
\* truncated a second time, nothing is added after a failed write, and no line
\* is overwritten unless the file had been opened twice before.
SettledForGood ==
    [][Settled => /\ Settled'
                  /\ DOMAIN content \subseteq DOMAIN content'
                  /\ accessLog = Nil => content' = content
                  /\ Cardinality(created) = 1 => Kept(content, content')]_logVars

\* The requests that tried to open the file.
Openers == created \cup openFailed
           \cup {r \in Requests : pc[r] \in {"create", "assign", "mark"}}

\* What the error message says when a write fails, "no more access log will be
\* written!", holds unless two requests tried to open the file, even if only one
\* of them succeeded: then somebody may hold a descriptor that nobody closes.
NoLineAfterGivingUp == Cardinality(Openers) <= 1 => late = {}

\* Where the line of a request is, for LineLog.
LineOf(r) ==
    IF r \in Range(content) THEN "file"
    ELSE IF r \in fallback THEN "logger"
    ELSE IF r \in openFailed \cup writeFailed THEN "reported"
    ELSE IF pc[r] = "done" THEN "gone" ELSE "none"

LL == INSTANCE LineLog WITH line <- [r \in Requests |-> LineOf(r)],
                            opens <- Cardinality(created)

\* writeAccessLog, run by any number of handlers at once and whatever fails, does
\* to the lines what LineLog says: a line is placed once, and only a second
\* opening of the file makes one vanish.
ImplementsLineLog == LL!LineSpec
=============================================================================
