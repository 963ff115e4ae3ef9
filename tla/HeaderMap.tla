------------------------------ MODULE HeaderMap ------------------------------
(***************************************************************************)
(* What the editing operations of a signature header promise their caller: *)
(* the header is a map from tags to payloads, setting a tag stores exactly *)
(* that payload under it, deleting a tag removes it, and neither touches   *)
(* any other tag. Layout, counters, reserved space and the region trailer  *)
(* are not visible.                                                        *)
(***************************************************************************)
CONSTANTS Tags,        \* the tags a caller can see
          Payloads

VARIABLES content,     \* the map: a function from a subset of Tags
          lastOp       \* the last call

vars == <<content, lastOp>>

NoCall == <<"none">>

TypeOK ==
    /\ DOMAIN content \subseteq Tags
    /\ \A t \in DOMAIN content : content[t] \in Payloads

Init ==
    /\ TypeOK
    /\ lastOp = NoCall

SetOrAdd(t, p) ==
    /\ lastOp' = <<"set", t, p>>
    /\ content' = [u \in DOMAIN content \cup {t} |-> IF u = t THEN p ELSE content[u]]

DeleteIfExists(t) ==
    /\ lastOp' = <<"delete", t>>
    /\ content' = [u \in DOMAIN content \ {t} |-> content[u]]

Next ==
    \/ \E t \in Tags, p \in Payloads : SetOrAdd(t, p)
    \/ \E t \in Tags : DeleteIfExists(t)

Spec == Init /\ [][Next]_vars
=============================================================================
