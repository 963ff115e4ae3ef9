---------------------------- MODULE StreamReading ----------------------------
(***************************************************************************)
(* How the parser gets its bytes: FillBuffer (src/common/utils.go) and     *)
(* readAhead (serializer.go) call Read until they have what they need, and *)
(* every Read goes through a stack of readers: digest readers,             *)
(* IOReaderWithOffset, the client's headerCapturingReader, and at the      *)
(* bottom a file or a connection, which delivers as many bytes per call as *)
(* it likes, and reports the end of the stream with the last bytes or      *)
(* after them.                                                             *)
(*                                                                         *)
(* A byte is its position in the stream: 1, 2, ...                         *)
(***************************************************************************)
EXTENDS Integers, Sequences

CONSTANT Chunk      \* the size of readAhead's buffer, 100 KiB in the code

ASSUME ChunkAssumption == Chunk \in Nat \ {0}

VARIABLES
    length,     \* the bytes the stream has
    pos,        \* the bytes delivered: IOReaderWithOffset.currentOffset
    job,        \* the call in progress: [kind, left]
    active,     \* the digest readers in front of the source
    fed,        \* what each digest was fed
    capturing, captured,    \* the headerCapturingReader
    fault       \* "short": readAhead took a short read for the end of the stream;
                \* "failed": the source returned an error

streamVars == <<length, pos, job, active, fed, capturing, captured, fault>>

Digests == {"md5", "sha"}

\* Calls in progress, and calls that have returned nil or an error.
Returned == [kind |-> "ok", left |-> 0]
Failed   == [kind |-> "error", left |-> 0]
Fill(n)  == IF n = 0 THEN Returned ELSE [kind |-> "fill", left |-> n]

\* Mutant: small amounts are skipped with the loop, too.
AheadByChunks(n) == IF n = 0 THEN Returned ELSE [kind |-> "ahead", left |-> n]

\* readAhead leaves small amounts to FillBuffer.
Ahead(n) == IF n <= Chunk THEN Fill(n) ELSE [kind |-> "ahead", left |-> n]

Positions(from, n) == [i \in 1..n |-> from + i]

Smaller(a, b) == IF a < b THEN a ELSE b

StreamInit ==
    /\ pos = 0
    /\ job = Returned
    /\ active = {}
    /\ fed = [d \in Digests |-> <<>>]
    /\ capturing = TRUE
    /\ captured = <<>>
    /\ fault = "none"

\* A Read that returns k bytes, seen by every reader of the stack.
Deliver(k) ==
    /\ pos' = pos + k
    /\ fed' = [d \in Digests |-> IF d \in active THEN fed[d] \o Positions(pos, k) ELSE fed[d]]
    /\ captured' = IF capturing THEN captured \o Positions(pos, k) ELSE captured
    /\ UNCHANGED <<length, active, capturing>>

\* What a source may return for a buffer of the given size: bytes without or with
\* io.EOF, or none and io.EOF.
Reads(size) ==
    {r \in (0..Smaller(size, length - pos)) \X BOOLEAN :
        IF r[1] = 0 THEN r[2] /\ pos = length ELSE r[2] => pos + r[1] = length}

\* Mutant: the bytes that come with io.EOF are not counted.
FillBufferDropsLast ==
    /\ job.kind = "fill"
    /\ \E r \in Reads(job.left) :
          LET left == job.left - r[1]
          IN  /\ Deliver(r[1])
              /\ job' = IF r[2] THEN Failed
                        ELSE IF left = 0 THEN Returned ELSE Fill(left)
    /\ UNCHANGED fault

\* Mutant: io.EOF is no reason to stop.
FillBufferIgnoresEof ==
    /\ job.kind = "fill"
    /\ \E r \in Reads(job.left) :
          /\ Deliver(r[1])
          /\ job' = Fill(job.left - r[1])
    /\ UNCHANGED fault

\* One turn of FillBuffer's loop. Every read asks for all that is missing.
FillBuffer ==
    /\ job.kind = "fill"
    /\ \E r \in Reads(job.left) :
          LET left == job.left - r[1]
          IN  /\ Deliver(r[1])
              /\ job' = IF left = 0 THEN Returned
                        ELSE IF r[2] THEN Failed ELSE Fill(left)
    /\ UNCHANGED fault

\* One turn of readAhead's loop: a read that does not fill the buffer ends it.
ReadAhead ==
    /\ job.kind = "ahead"
    /\ LET size == Smaller(Chunk, job.left)
       IN  \E r \in Reads(size) :
              LET left == job.left - r[1]
              IN  /\ Deliver(r[1])
                  /\ job' = IF r[1] < size THEN Failed
                            ELSE IF left = 0 THEN Returned ELSE [job EXCEPT !.left = left]
                  /\ fault' = IF r[1] < size /\ pos + r[1] < length THEN "short" ELSE fault

\* Any other error of the source.
ReadFails ==
    /\ job.kind \in {"fill", "ahead"}
    /\ job' = Failed
    /\ fault' = "failed"
    /\ UNCHANGED <<length, pos, active, fed, capturing, captured>>
=============================================================================
