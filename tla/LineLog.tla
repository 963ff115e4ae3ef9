------------------------------- MODULE LineLog -------------------------------
(***************************************************************************)
(* What the access log of src/server/server.go promises, seen from the     *)
(* handlers: the line of a request ends in the file, in the default log or *)
(* in an error message; opening the file again loses the lines that were   *)
(* in it, and from then on a write may hit a line of another descriptor.   *)
(* Module AccessLog implements it; module SignServer builds on it.         *)
(***************************************************************************)
EXTENDS Integers

CONSTANT Requests

VARIABLES line,    \* where the line of each request is
          opens    \* how often the file was created

lineVars == <<line, opens>>

Places == {"none", "file", "logger", "reported", "gone"}

LineInit ==
    /\ line = [r \in Requests |-> "none"]
    /\ opens = 0

InFile == {q \in Requests : line[q] = "file"}

\* line[r] goes to a place, and the lines of lost are no longer in the file.
Place(r, place, lost) ==
    line' = [q \in Requests |-> IF q = r THEN place
                                ELSE IF q \in lost THEN "gone" ELSE line[q]]

OpenFile ==
    /\ opens' = opens + 1
    /\ line' = [q \in Requests |-> IF q \in InFile THEN "gone" ELSE line[q]]

WriteLine(r) ==
    /\ line[r] = "none" /\ opens > 0
    /\ \E lost \in SUBSET InFile :
          /\ lost # {} => opens > 1
          /\ Place(r, "file", lost)
    /\ UNCHANGED opens

DivertLine(r) ==
    /\ line[r] = "none"
    /\ \E place \in {"logger", "reported"} : Place(r, place, {})
    /\ UNCHANGED opens

LogStep(r) == OpenFile \/ WriteLine(r) \/ DivertLine(r)

LineSpec == LineInit /\ [][\E r \in Requests : LogStep(r)]_lineVars
=============================================================================
