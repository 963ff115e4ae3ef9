--------------------------- MODULE OutputFileProofs ---------------------------
(***************************************************************************)
(* The safety properties of OutputFile, for any number of clients, every   *)
(* set of command lines, and packages and disks of any size.               *)
(***************************************************************************)
EXTENDS OutputFile, FiniteSetTheorems, SequenceTheorems, WellFoundedInduction, TLAPS

(* A function on 1..n is a sequence of length n. *)
LEMMA SequenceOf ==
    ASSUME NEW S, NEW n \in Nat, NEW f \in [1..n -> S]
    PROVE  f \in Seq(S) /\ Len(f) = n
<1>1. f \in Seq(S)
  BY SeqDef
<1>2. Len(f) \in Nat /\ DOMAIN f = 1..Len(f) /\ DOMAIN f = 1..n
  BY <1>1, LenProperties
<1> QED
  BY <1>1, <1>2

(* A bounded nonempty set of natural numbers has a greatest element. *)
LEMMA GreatestNat ==
    ASSUME NEW N \in Nat, NEW T \in SUBSET (0..N), T # {}
    PROVE  \E n \in T : \A m \in T : m <= n
<1> DEFINE R == {ss \in Nat \X Nat : ss[1] < ss[2]}
           D == {N - m : m \in T}
<1>1. \A m, n \in Nat : m < n => <<m, n>> \in R
  OBVIOUS
<1>2. IsWellFoundedOn(R, Nat)
  BY NatLessThanWellFounded, Zenon DEF OpToRel
<1>3. D \subseteq Nat /\ D # {}
  <2>1. ASSUME NEW m \in T PROVE N - m \in Nat
    OBVIOUS
  <2> QED
    BY <2>1
<1> HIDE DEF R
<1>4. PICK d \in D : \A e \in D : ~ (<<e, d>> \in R)
  <2> HIDE DEF D
  <2> QED
    BY <1>2, <1>3, WFMin
<1>5. PICK n \in T : d = N - n
  OBVIOUS
<1>6. ASSUME NEW m \in T PROVE m <= n
  <2>1. N - m \in D /\ N - m \in Nat /\ d \in Nat
    BY <1>3
  <2>2. ~(N - m < d)
    BY <1>1, <1>4, <2>1
  <2> QED
    BY <1>5, <2>1, <2>2
<1> QED
  BY <1>6

(* The elements of a finite set of not more than one are the same. *)
LEMMA NotTwo ==
    ASSUME NEW S, IsFiniteSet(S), ~(Cardinality(S) > 1)
    PROVE  \A x, y \in S : x = y
<1> SUFFICES ASSUME NEW x \in S, NEW y \in S, x # y PROVE FALSE
  OBVIOUS
<1>1. IsFiniteSet({x}) /\ Cardinality({x}) = 1
  BY FS_Singleton
<1>2. Cardinality({x} \cup {y}) = 2
  BY <1>1, FS_AddElement
<1>3. {x} \cup {y} \subseteq S
  OBVIOUS
<1>4. Cardinality({x} \cup {y}) <= Cardinality(S) /\ Cardinality(S) \in Nat
  BY <1>3, FS_Subset, FS_CardinalityType
<1> QED
  BY <1>2, <1>4

-----------------------------------------------------------------------------

Inodes == Clients \cup {"input", "other"}
Modes  == {"unknown", "generic", "remote", "local", "inspect", "version"}

(* Where a run has not opened its output yet, and where it is writing it. *)
Before  == {"options", "read", "checks", "post", "stat", "create"}
Writing == {"header", "payload", "temp"}
Ended   == {"ok", "error", "crashed"}

(* The types of the variables. What is in an inode is left to the parts below. *)
Shape ==
    /\ dest \in Inodes \cup {Absent}
    /\ inode = [i \in Inodes |-> inode[i]]
    /\ args \in [Clients -> CommandLines]
    /\ mode \in [Clients -> Modes]
    /\ overwrite \in [Clients -> BOOLEAN]
    /\ pc \in [Clients -> Before \cup Writing \cup Ended]
    /\ out \in [Clients -> Inodes \cup {Absent}]
    /\ wpos \in [Clients -> Nat]
    /\ rpos = [c \in Clients |-> rpos[c]]
    /\ uncleaned \subseteq Clients

(* A run follows the plan main made of its command line. *)
Planned ==
    \A c \in Clients :
        /\ pc[c] \notin {"options", "crashed"} => mode[c] = Plan(args[c])
        /\ pc[c] \notin {"options", "crashed", "error"} => Accepted(args[c]) \/ mode[c] = "version"
        /\ pc[c] \in {"read", "checks"} => mode[c] # "version"
        /\ pc[c] \in {"checks", "post", "header", "payload"} => mode[c] # "generic"
        /\ pc[c] \in {"post", "stat", "create", "header", "payload", "temp"} =>
              mode[c] \notin {"inspect", "version", "unknown"}
        /\ pc[c] = "ok" => (out[c] = Absent <=> mode[c] \in {"inspect", "version"})
        /\ out[c] # Absent => mode[c] # "unknown"

(* When a run opens its output, and whose inode that is. *)
Opened ==
    \A c \in Clients :
        /\ pc[c] \in Before => out[c] = Absent /\ wpos[c] = 0
        /\ pc[c] \in Writing => out[c] # Absent
        /\ c \in uncleaned => pc[c] = "error" /\ out[c] # Absent /\ mode[c] # "generic"
        /\ pc[c] = "temp" => mode[c] = "generic" /\ wpos[c] \in {0, 1}
        /\ pc[c] = "ok" /\ mode[c] = "generic" => wpos[c] = 1
        /\ out[c] # Absent /\ mode[c] = "generic" => out[c] = c /\ wpos[c] \in {0, 1}
        /\ out[c] \in Clients => out[out[c]] = out[c]

(* What is at the output path. A temporary file is not, and what a failed run has *)
(* written is not there any more if it was able to remove it.                     *)
AtPath ==
    /\ dest \in Clients => out[dest] = dest
    /\ \A c \in Clients :
          /\ pc[c] = "temp" => dest # c /\ \A d \in Clients \ {c} : out[d] # c
          /\ pc[c] = "error" /\ out[c] # Absent /\ c \notin uncleaned => dest # out[c]

(* A run that has failed and removed what was at the path. *)
Removed(d) == pc[d] = "error" /\ out[d] # Absent /\ mode[d] # "generic" /\ d \notin uncleaned

(* The output path is empty after a run has put a file there only if a run has *)
(* removed it.                                                                 *)
Present ==
    \A c \in Clients :
        out[c] # Absent /\ (mode[c] # "generic" \/ pc[c] = "ok") =>
            dest # Absent \/ \E d \in Clients : Removed(d)

(* A run without -f got past Stat when no file of before was at the path, and such *)
(* a file never comes back.                                                        *)
Kept ==
    /\ OldFilesKept
    /\ \A c \in Clients :
          pc[c] \in {"create", "temp"} /\ ~overwrite[c] => dest \in Clients \cup {Absent}

(* While only detached signatures are written, nobody writes to another's inode. *)
OnlyDetached == \A c \in Clients : out[c] # Absent => mode[c] = "generic"

Detaching ==
    OnlyDetached =>
        /\ inode["input"] = Package /\ inode["other"] = OtherFile
        /\ \A c \in Clients : inode[c] = IF wpos[c] = 1 THEN Detached(c) ELSE <<>>
        /\ dest \in Clients => wpos[dest] = 1

(* The input is not the output, it stays as it is, and an inode is empty until its *)
(* client opens it.                                                               *)
Sources ==
    ~InPlace =>
        /\ dest # "input" /\ inode["input"] = Package
        /\ (\A d \in Clients : out[d] # "other") => inode["other"] = OtherFile
        /\ \A c \in Clients : out[c] # "input" /\ (pc[c] \in Before => inode[c] = <<>>)

(* How far a run has come with reading and writing. *)
Counters ==
    ~InPlace =>
        \A c \in Clients :
            /\ pc[c] \in {"checks", "post", "stat", "create", "header"} /\ mode[c] # "generic" =>
                  rpos[c] = HeaderLen
            /\ pc[c] = "header" => wpos[c] < HeaderLen + Growth
            /\ pc[c] = "payload" => /\ rpos[c] \in HeaderLen..(HeaderLen + PayloadLen)
                                    /\ wpos[c] = Growth + rpos[c]
            /\ pc[c] = "ok" /\ mode[c] \notin {"generic", "inspect", "version"} =>
                  wpos[c] = HeaderLen + Growth + PayloadLen

(* The cells of the signed package, and what the only writer of an inode has *)
(* written into it so far.                                                   *)
Cell(c, k) == IF k <= HeaderLen + Growth THEN <<"signed", c>> ELSE <<"payload", k - HeaderLen - Growth>>
NextCell(c, k) == IF mode[c] = "generic" THEN <<"detached", c>> ELSE Cell(c, k)
Written(c) == [k \in 1..wpos[c] |-> NextCell(c, k)]

Alone(c) == out[c] # Absent /\ \A d \in Clients : out[d] = out[c] => d = c

Contents ==
    ~InPlace =>
        \A c \in Clients : Alone(c) /\ c \notin uncleaned => inode[out[c]] = Written(c)

IInv == /\ Shape /\ Planned /\ Opened /\ AtPath /\ Present /\ Kept
        /\ Detaching /\ Sources /\ Counters /\ Contents

-----------------------------------------------------------------------------
(* The names that are not clients. *)
LEMMA Names == Clients \cap {"absent", "input", "other"} = {}
BY SizesAssumption

(* main always has a plan. *)
LEMMA PlanIsMode == \A a : Plan(a) \in Modes \ {"unknown"}
<1> SUFFICES ASSUME NEW a PROVE Plan(a) \in Modes \ {"unknown"}
  OBVIOUS
<1>1. Plan(a) \in {"generic", "remote", "local", "inspect", "version"}
  BY DEF Plan
<1> QED
  BY <1>1 DEF Modes

(* With --version the plan is to print it. *)
LEMMA PlanOfVersion == \A a : PrintsVersion(a) <=> Plan(a) = "version"
<1> SUFFICES ASSUME NEW a, ~PrintsVersion(a) PROVE Plan(a) # "version"
  BY DEF Plan
<1>1. Plan(a) \in {"generic", "remote", "local", "inspect"}
  BY DEF Plan
<1> QED
  BY <1>1

(* The three ends of the option loop and the checks behind it. *)
LEMMA OptionsStep ==
    ASSUME NEW c \in Clients, CheckOptions(c)
    PROVE  /\ pc[c] = "options" /\ mode' = [mode EXCEPT ![c] = Plan(args[c])]
           /\ UNCHANGED <<dest, inode, args, out, wpos, rpos, clobbered, uncleaned>>
           /\ \/ pc' = [pc EXCEPT ![c] = "ok"] /\ Plan(args[c]) = "version"
              \/ pc' = [pc EXCEPT ![c] = "read"] /\ Plan(args[c]) # "version" /\ Accepted(args[c])
              \/ pc' = [pc EXCEPT ![c] = "error"]
BY PlanOfVersion DEF CheckOptions, Goto

(* Success this early is --version. *)
LEMMA OptionsEnd ==
    ASSUME Shape, NEW c \in Clients, CheckOptions(c)
    PROVE  pc'[c] \in {"read", "error"} \/ (pc'[c] = "ok" /\ mode'[c] = "version")
<1>1. c \in DOMAIN pc /\ c \in DOMAIN mode
  BY DEF Shape
<1>2. mode'[c] = Plan(args[c])
  BY <1>1, OptionsStep
<1>3. CASE pc' = [pc EXCEPT ![c] = "ok"] /\ Plan(args[c]) = "version"
  BY <1>1, <1>2, <1>3
<1>4. CASE pc' = [pc EXCEPT ![c] = "read"] \/ pc' = [pc EXCEPT ![c] = "error"]
  BY <1>1, <1>4
<1> QED
  BY <1>3, <1>4, OptionsStep

Extended(s, n, cell) == [k \in 1..n |-> IF k = n THEN cell ELSE s[k]]

(* A write changes one inode, and appends to it where the file ends at the *)
(* position of the descriptor.                                             *)
LEMMA PutEffect ==
    ASSUME Shape, NEW c \in Clients, out[c] # Absent, NEW cell, Put(c, cell)
    PROVE  /\ out[c] \in Inodes
           /\ wpos' = [wpos EXCEPT ![c] = wpos[c] + 1]
           /\ inode' = [i \in Inodes |-> inode'[i]]
           /\ \A i \in Inodes \ {out[c]} : inode'[i] = inode[i]
           /\ Len(inode[out[c]]) = wpos[c] =>
                 inode'[out[c]] = Extended(inode[out[c]], wpos[c] + 1, cell)
<1>1. out[c] \in Inodes /\ wpos[c] \in Nat
  BY DEF Shape
<1> DEFINE p == wpos[c] + 1
           s == inode[out[c]]
           new == [k \in 1..(IF p > Len(s) THEN p ELSE Len(s)) |->
                      IF k = p THEN cell ELSE IF k <= Len(s) THEN s[k] ELSE <<"hole", 0>>]
<1>2. inode' = [inode EXCEPT ![out[c]] = new] /\ wpos' = [wpos EXCEPT ![c] = p]
  BY DEF Put
<1>3. /\ inode' = [i \in Inodes |-> IF i = out[c] THEN new ELSE inode[i]]
      /\ inode' = [i \in Inodes |-> inode'[i]]
  <2> HIDE DEF new
  <2> QED
    BY <1>1, <1>2 DEF Shape
<1>4. ASSUME Len(s) = wpos[c] PROVE new = Extended(s, p, cell)
  BY <1>1, <1>4 DEF Extended
<1> QED
  BY <1>1, <1>2, <1>3, <1>4

-----------------------------------------------------------------------------
(* The three actions that write, apart from what they write. *)
LEMMA WriteSteps ==
    ASSUME Shape, Opened, NEW c \in Clients, WriteHeader(c) \/ CopyPayload(c) \/ WriteTemp(c)
    PROVE  /\ out[c] \in Inodes
           /\ wpos' = [wpos EXCEPT ![c] = wpos[c] + 1] /\ wpos' \in [Clients -> Nat]
           /\ inode' = [i \in Inodes |-> inode'[i]]
           /\ \A i \in Inodes \ {out[c]} : inode'[i] = inode[i]
<1>1. out[c] # Absent
  BY DEF Opened, Writing, WriteHeader, CopyPayload, WriteTemp, Goto
<1>2. \E cell : Put(c, cell)
  BY DEF WriteHeader, CopyPayload, WriteTemp
<1>3. wpos[c] + 1 \in Nat
  BY DEF Shape
<1>4. wpos' = [wpos EXCEPT ![c] = wpos[c] + 1]
  BY <1>1, <1>2, PutEffect
<1>5. wpos' \in [Clients -> Nat]
  BY <1>3, <1>4 DEF Shape
<1> QED
  BY <1>1, <1>2, <1>4, <1>5, PutEffect

-----------------------------------------------------------------------------

(* Every step keeps the types. *)
LEMMA NextShape == Shape /\ Opened /\ [Next]_vars => Shape'
<1> SUFFICES ASSUME Shape, Opened, [Next]_vars PROVE Shape'
  OBVIOUS
<1> USE DEF Goto, config, Shape, Inodes, Before, Writing, Ended
<1>1. ASSUME NEW c \in Clients, CheckOptions(c) PROVE Shape'
  BY <1>1, PlanIsMode DEF CheckOptions, Overwrite
<1>2. ASSUME NEW c \in Clients, Read(c) PROVE Shape'
  BY <1>2 DEF Read
<1>3. ASSUME NEW c \in Clients, ReadFails(c) PROVE Shape'
  BY <1>3 DEF ReadFails
<1>4. ASSUME NEW c \in Clients, LateChecks(c) PROVE Shape'
  BY <1>4 DEF LateChecks
<1>5. ASSUME NEW c \in Clients, LoadKeyFails(c) PROVE Shape'
  BY <1>5 DEF LoadKeyFails
<1>6. ASSUME NEW c \in Clients, Post(c) PROVE Shape'
  BY <1>6 DEF Post
<1>7. ASSUME NEW c \in Clients, Stat(c) PROVE Shape'
  BY <1>7 DEF Stat
<1>8. ASSUME NEW c \in Clients, Create(c) PROVE Shape'
  BY <1>8 DEF Create
<1>9. ASSUME NEW c \in Clients, CreateTemp(c) PROVE Shape'
  BY <1>9 DEF CreateTemp
<1>10. ASSUME NEW c \in Clients, CreateFails(c) PROVE Shape'
  BY <1>10 DEF CreateFails
<1>11. ASSUME NEW c \in Clients, WriteHeader(c) PROVE Shape'
  <2>1. inode' = [i \in Inodes |-> inode'[i]] /\ wpos' \in [Clients -> Nat]
    BY <1>11, WriteSteps
  <2> QED
    BY <1>11, <2>1 DEF WriteHeader
<1>12. ASSUME NEW c \in Clients, CopyPayload(c) PROVE Shape'
  <2>1. inode' = [i \in Inodes |-> inode'[i]] /\ wpos' \in [Clients -> Nat]
    BY <1>12, WriteSteps
  <2> QED
    BY <1>12, <2>1 DEF CopyPayload
<1>13. ASSUME NEW c \in Clients, CloseFile(c) PROVE Shape'
  BY <1>13 DEF CloseFile
<1>14. ASSUME NEW c \in Clients, CloseFails(c) PROVE Shape'
  BY <1>14 DEF CloseFails
<1>15. ASSUME NEW c \in Clients, WriteFails(c) PROVE Shape'
  BY <1>15 DEF WriteFails
<1>16. ASSUME NEW c \in Clients, WriteTemp(c) PROVE Shape'
  <2>1. inode' = [i \in Inodes |-> inode'[i]] /\ wpos' \in [Clients -> Nat]
    BY <1>16, WriteSteps
  <2> QED
    BY <1>16, <2>1 DEF WriteTemp
<1>17. ASSUME NEW c \in Clients, Rename(c) PROVE Shape'
  BY <1>17 DEF Rename
<1>18. ASSUME NEW c \in Clients, TempFails(c) PROVE Shape'
  BY <1>18 DEF TempFails
<1>19. ASSUME NEW c \in Clients, Crash(c) PROVE Shape'
  BY <1>19 DEF Crash
<1>21. ASSUME NEW c \in Clients, RemoveFails(c) PROVE Shape'
  BY <1>21 DEF RemoveFails
<1>20. CASE UNCHANGED vars
  BY <1>20 DEF vars
<1> QED
  BY <1>1, <1>2, <1>3, <1>4, <1>5, <1>6, <1>7, <1>8, <1>9, <1>10, <1>11, <1>12, <1>13, <1>14, <1>15, <1>16, <1>17, <1>18, <1>19, <1>20, <1>21 DEF Next, Work, Fail

(* Every run keeps to its plan. *)
LEMMA NextPlanned == Shape /\ Opened /\ Planned /\ [Next]_vars => Planned'
<1> SUFFICES ASSUME Shape, Opened, Planned, [Next]_vars PROVE Planned'
  OBVIOUS
<1> USE Names DEF Goto, config, Shape, Opened, Planned, Before, Writing, Ended
<1>1. ASSUME NEW c \in Clients, CheckOptions(c) PROVE Planned'
  BY <1>1, PlanIsMode, OptionsStep
<1>2. ASSUME NEW c \in Clients, Read(c) PROVE Planned'
  BY <1>2 DEF Read
<1>3. ASSUME NEW c \in Clients, ReadFails(c) PROVE Planned'
  BY <1>3 DEF ReadFails
<1>4. ASSUME NEW c \in Clients, LateChecks(c) PROVE Planned'
  <2>1. pc[c] = "checks" /\ UNCHANGED <<args, mode, out>>
    BY <1>4 DEF LateChecks
  <2>2. \/ pc' = [pc EXCEPT ![c] = "error"]
        \/ pc' = [pc EXCEPT ![c] = "ok"] /\ mode[c] = "inspect"
        \/ (pc' = [pc EXCEPT ![c] = "post"] \/ pc' = [pc EXCEPT ![c] = "stat"]) /\ mode[c] # "inspect"
    BY <1>4 DEF LateChecks
  <2>3. mode[c] # "unknown" /\ out[c] = Absent
    BY <2>1, PlanIsMode
  <2> QED
    BY <2>1, <2>2, <2>3
<1>5. ASSUME NEW c \in Clients, LoadKeyFails(c) PROVE Planned'
  BY <1>5 DEF LoadKeyFails
<1>6. ASSUME NEW c \in Clients, Post(c) PROVE Planned'
  BY <1>6 DEF Post
<1>7. ASSUME NEW c \in Clients, Stat(c) PROVE Planned'
  BY <1>7 DEF Stat
<1>8. ASSUME NEW c \in Clients, Create(c) PROVE Planned'
  BY <1>8 DEF Create
<1>9. ASSUME NEW c \in Clients, CreateTemp(c) PROVE Planned'
  BY <1>9 DEF CreateTemp
<1>10. ASSUME NEW c \in Clients, CreateFails(c) PROVE Planned'
  BY <1>10 DEF CreateFails
<1>11. ASSUME NEW c \in Clients, WriteHeader(c) PROVE Planned'
  BY <1>11 DEF WriteHeader
<1>12. ASSUME NEW c \in Clients, CopyPayload(c) PROVE Planned'
  BY <1>12 DEF CopyPayload
<1>13. ASSUME NEW c \in Clients, CloseFile(c) PROVE Planned'
  BY <1>13 DEF CloseFile
<1>14. ASSUME NEW c \in Clients, CloseFails(c) PROVE Planned'
  BY <1>14 DEF CloseFails
<1>15. ASSUME NEW c \in Clients, WriteFails(c) PROVE Planned'
  BY <1>15 DEF WriteFails
<1>16. ASSUME NEW c \in Clients, WriteTemp(c) PROVE Planned'
  BY <1>16 DEF WriteTemp
<1>17. ASSUME NEW c \in Clients, Rename(c) PROVE Planned'
  BY <1>17 DEF Rename
<1>18. ASSUME NEW c \in Clients, TempFails(c) PROVE Planned'
  BY <1>18 DEF TempFails
<1>19. ASSUME NEW c \in Clients, Crash(c) PROVE Planned'
  BY <1>19 DEF Crash
<1>21. ASSUME NEW c \in Clients, RemoveFails(c) PROVE Planned'
  BY <1>21 DEF RemoveFails
<1>20. CASE UNCHANGED vars
  BY <1>20 DEF vars
<1> QED
  BY <1>1, <1>2, <1>3, <1>4, <1>5, <1>6, <1>7, <1>8, <1>9, <1>10, <1>11, <1>12, <1>13, <1>14, <1>15, <1>16, <1>17, <1>18, <1>19, <1>20, <1>21 DEF Next, Work, Fail

(* Every run opens one inode at most, its own or the one at the path. *)
LEMMA NextOpened == Shape /\ Planned /\ Opened /\ AtPath /\ [Next]_vars => Opened'
<1> SUFFICES ASSUME Shape, Planned, Opened, AtPath, [Next]_vars PROVE Opened'
  OBVIOUS
<1> USE Names DEF Goto, config, Shape, Planned, Opened, AtPath, Before, Writing, Ended, Inodes, Absent
<1>1. ASSUME NEW c \in Clients, CheckOptions(c) PROVE Opened'
  BY <1>1, OptionsStep
<1>2. ASSUME NEW c \in Clients, Read(c) PROVE Opened'
  BY <1>2 DEF Read
<1>3. ASSUME NEW c \in Clients, ReadFails(c) PROVE Opened'
  BY <1>3 DEF ReadFails
<1>4. ASSUME NEW c \in Clients, LateChecks(c) PROVE Opened'
  BY <1>4 DEF LateChecks
<1>5. ASSUME NEW c \in Clients, LoadKeyFails(c) PROVE Opened'
  BY <1>5 DEF LoadKeyFails
<1>6. ASSUME NEW c \in Clients, Post(c) PROVE Opened'
  BY <1>6 DEF Post
<1>7. ASSUME NEW c \in Clients, Stat(c) PROVE Opened'
  BY <1>7 DEF Stat
<1>8. ASSUME NEW c \in Clients, Create(c) PROVE Opened'
  BY <1>8 DEF Create
<1>9. ASSUME NEW c \in Clients, CreateTemp(c) PROVE Opened'
  BY <1>9 DEF CreateTemp
<1>10. ASSUME NEW c \in Clients, CreateFails(c) PROVE Opened'
  BY <1>10 DEF CreateFails
<1>11. ASSUME NEW c \in Clients, WriteHeader(c) PROVE Opened'
  BY <1>11 DEF WriteHeader, Put
<1>12. ASSUME NEW c \in Clients, CopyPayload(c) PROVE Opened'
  BY <1>12 DEF CopyPayload, Put
<1>13. ASSUME NEW c \in Clients, CloseFile(c) PROVE Opened'
  BY <1>13 DEF CloseFile
<1>14. ASSUME NEW c \in Clients, CloseFails(c) PROVE Opened'
  BY <1>14 DEF CloseFails
<1>15. ASSUME NEW c \in Clients, WriteFails(c) PROVE Opened'
  BY <1>15 DEF WriteFails
<1>16. ASSUME NEW c \in Clients, WriteTemp(c) PROVE Opened'
  <2>1. wpos' = [wpos EXCEPT ![c] = 1]
    BY <1>16, WriteSteps DEF WriteTemp
  <2> QED
    BY <1>16, <2>1 DEF WriteTemp
<1>17. ASSUME NEW c \in Clients, Rename(c) PROVE Opened'
  BY <1>17 DEF Rename
<1>18. ASSUME NEW c \in Clients, TempFails(c) PROVE Opened'
  BY <1>18 DEF TempFails
<1>19. ASSUME NEW c \in Clients, Crash(c) PROVE Opened'
  <2>1. /\ pc[c] # "error" /\ pc' = [pc EXCEPT ![c] = "crashed"]
        /\ UNCHANGED <<mode, out, wpos, uncleaned>>
    BY <1>19 DEF Crash, Running
  <2> QED
    BY <2>1
<1>21. ASSUME NEW c \in Clients, RemoveFails(c) PROVE Opened'
  BY <1>21 DEF RemoveFails
<1>20. CASE UNCHANGED vars
  BY <1>20 DEF vars
<1> QED
  BY <1>1, <1>2, <1>3, <1>4, <1>5, <1>6, <1>7, <1>8, <1>9, <1>10, <1>11, <1>12, <1>13, <1>14, <1>15, <1>16, <1>17, <1>18, <1>19, <1>20, <1>21 DEF Next, Work, Fail

(* Nobody's partial output comes to the path a second time. *)
LEMMA NextAtPath == Shape /\ Planned /\ Opened /\ AtPath /\ [Next]_vars => AtPath'
<1> SUFFICES ASSUME Shape, Planned, Opened, AtPath, [Next]_vars PROVE AtPath'
  OBVIOUS
<1> USE Names DEF Goto, config, Shape, Planned, Opened, AtPath, Before, Writing, Ended, Inodes, Absent
<1>1. ASSUME NEW c \in Clients, CheckOptions(c) PROVE AtPath'
  BY <1>1 DEF CheckOptions
<1>2. ASSUME NEW c \in Clients, Read(c) PROVE AtPath'
  BY <1>2 DEF Read
<1>3. ASSUME NEW c \in Clients, ReadFails(c) PROVE AtPath'
  BY <1>3 DEF ReadFails
<1>4. ASSUME NEW c \in Clients, LateChecks(c) PROVE AtPath'
  BY <1>4 DEF LateChecks
<1>5. ASSUME NEW c \in Clients, LoadKeyFails(c) PROVE AtPath'
  BY <1>5 DEF LoadKeyFails
<1>6. ASSUME NEW c \in Clients, Post(c) PROVE AtPath'
  BY <1>6 DEF Post
<1>7. ASSUME NEW c \in Clients, Stat(c) PROVE AtPath'
  BY <1>7 DEF Stat
<1>8. ASSUME NEW c \in Clients, Create(c) PROVE AtPath'
  BY <1>8 DEF Create
<1>9. ASSUME NEW c \in Clients, CreateTemp(c) PROVE AtPath'
  BY <1>9 DEF CreateTemp
<1>10. ASSUME NEW c \in Clients, CreateFails(c) PROVE AtPath'
  BY <1>10 DEF CreateFails
<1>11. ASSUME NEW c \in Clients, WriteHeader(c) PROVE AtPath'
  BY <1>11 DEF WriteHeader
<1>12. ASSUME NEW c \in Clients, CopyPayload(c) PROVE AtPath'
  BY <1>12 DEF CopyPayload
<1>13. ASSUME NEW c \in Clients, CloseFile(c) PROVE AtPath'
  BY <1>13 DEF CloseFile
<1>14. ASSUME NEW c \in Clients, CloseFails(c) PROVE AtPath'
  BY <1>14 DEF CloseFails
<1>15. ASSUME NEW c \in Clients, WriteFails(c) PROVE AtPath'
  BY <1>15 DEF WriteFails
<1>16. ASSUME NEW c \in Clients, WriteTemp(c) PROVE AtPath'
  BY <1>16 DEF WriteTemp
<1>17. ASSUME NEW c \in Clients, Rename(c) PROVE AtPath'
  BY <1>17 DEF Rename
<1>18. ASSUME NEW c \in Clients, TempFails(c) PROVE AtPath'
  BY <1>18 DEF TempFails
<1>19. ASSUME NEW c \in Clients, Crash(c) PROVE AtPath'
  BY <1>19 DEF Crash
<1>21. ASSUME NEW c \in Clients, RemoveFails(c) PROVE AtPath'
  BY <1>21 DEF RemoveFails
<1>20. CASE UNCHANGED vars
  BY <1>20 DEF vars
<1> QED
  BY <1>1, <1>2, <1>3, <1>4, <1>5, <1>6, <1>7, <1>8, <1>9, <1>10, <1>11, <1>12, <1>13, <1>14, <1>15, <1>16, <1>17, <1>18, <1>19, <1>20, <1>21 DEF Next, Work, Fail

(* Only a run that fails while it signs a package empties the output path. *)
LEMMA NextPresent == Shape /\ Planned /\ Opened /\ Present /\ [Next]_vars => Present'
<1> SUFFICES ASSUME Shape, Planned, Opened, Present, [Next]_vars, NEW c \in Clients,
                    out'[c] # Absent, mode'[c] # "generic" \/ pc'[c] = "ok"
             PROVE  dest' # Absent \/ \E d \in Clients : Removed(d)'
  BY DEF Present
<1> USE Names DEF Goto, config, Shape, Opened, Before, Writing, Ended, Absent
<1>1. ASSUME NEW d \in Clients, Removed(d) PROVE Removed(d)'
  <2>1. pc[d] = "error" /\ d \notin uncleaned
    BY <1>1 DEF Removed
  <2>2. ASSUME NEW b \in Clients, Work(b) \/ Fail(b) \/ Post(b) \/ Crash(b)
        PROVE  /\ pc[b] # "error"
               /\ pc' = pc \/ \E to : pc' = [pc EXCEPT ![b] = to]
               /\ out' = out \/ \E i : out' = [out EXCEPT ![b] = i]
               /\ mode' = mode \/ \E m : mode' = [mode EXCEPT ![b] = m]
               /\ uncleaned' \subseteq uncleaned \cup {b}
    <3>1. CASE Work(b)
      BY <3>1 DEF Work, CheckOptions, Read, LateChecks, Stat, Create, CreateTemp, WriteHeader,
                  CopyPayload, CloseFile, WriteTemp, Rename
    <3>2. CASE Fail(b)
      BY <3>2 DEF Fail, ReadFails, LoadKeyFails, CreateFails, WriteFails, RemoveFails, CloseFails, TempFails
    <3>3. CASE Post(b) \/ Crash(b)
      BY <3>3 DEF Post, Crash, Running
    <3> QED
      BY <2>2, <3>1, <3>2, <3>3
  <2>3. UNCHANGED vars \/ \E b \in Clients : Work(b) \/ Fail(b) \/ Post(b) \/ Crash(b)
    BY DEF Next
  <2>4. CASE UNCHANGED vars
    BY <1>1, <2>4 DEF vars, Removed
  <2>5. ASSUME NEW b \in Clients, Work(b) \/ Fail(b) \/ Post(b) \/ Crash(b) PROVE Removed(d)'
    <3>1. b # d
      BY <2>1, <2>2, <2>5
    <3>2. pc'[d] = pc[d] /\ out'[d] = out[d] /\ mode'[d] = mode[d] /\ d \notin uncleaned'
      BY <2>1, <2>2, <2>5, <3>1
    <3> QED
      BY <1>1, <3>2 DEF Removed
  <2> QED
    BY <2>3, <2>4, <2>5
<1>2. CASE out[c] # Absent /\ (mode[c] # "generic" \/ pc[c] = "ok") /\ UNCHANGED dest
  BY <1>1, <1>2 DEF Present
<1>3. ASSUME NEW b \in Clients, WriteFails(b) PROVE Removed(b)'
  BY <1>3 DEF WriteFails, Planned, Removed
<1>4. ASSUME NEW b \in Clients, Create(b) \/ Rename(b) PROVE dest' # Absent
  BY <1>4 DEF Create, Rename, Inodes
<1>5. ASSUME NEW b \in Clients,
             \/ CheckOptions(b) \/ Read(b) \/ ReadFails(b) \/ LateChecks(b) \/ LoadKeyFails(b) \/ Post(b)
             \/ Stat(b) \/ CreateTemp(b) \/ CreateFails(b) \/ WriteHeader(b) \/ CopyPayload(b)
             \/ CloseFile(b) \/ CloseFails(b) \/ RemoveFails(b) \/ WriteTemp(b) \/ TempFails(b) \/ Crash(b)
      PROVE  out[c] # Absent /\ (mode[c] # "generic" \/ pc[c] = "ok") /\ UNCHANGED dest
  BY <1>5 DEF Planned, CheckOptions, Read, ReadFails, LateChecks, LoadKeyFails, Post, Stat, CreateTemp,
              CreateFails, WriteHeader, CopyPayload, CloseFile, CloseFails, RemoveFails, WriteTemp,
              TempFails, Crash
<1>6. CASE UNCHANGED vars
  BY <1>2, <1>6 DEF vars
<1> QED
  BY <1>2, <1>3, <1>4, <1>5, <1>6 DEF Next, Work, Fail

(* Files of before are not destroyed without -f. *)
LEMMA NextKept == Shape /\ Opened /\ AtPath /\ Kept /\ [Next]_vars => Kept'
<1> SUFFICES ASSUME Shape, Opened, AtPath, Kept, [Next]_vars PROVE Kept'
  OBVIOUS
<1> USE Names DEF Goto, config, Shape, Opened, AtPath, Kept, OldFilesKept, Clobbers, Before, Writing, Ended, Inodes, Absent
<1>1. ASSUME NEW c \in Clients, CheckOptions(c) PROVE Kept'
  BY <1>1 DEF CheckOptions
<1>2. ASSUME NEW c \in Clients, Read(c) PROVE Kept'
  BY <1>2 DEF Read
<1>3. ASSUME NEW c \in Clients, ReadFails(c) PROVE Kept'
  BY <1>3 DEF ReadFails
<1>4. ASSUME NEW c \in Clients, LateChecks(c) PROVE Kept'
  BY <1>4 DEF LateChecks
<1>5. ASSUME NEW c \in Clients, LoadKeyFails(c) PROVE Kept'
  BY <1>5 DEF LoadKeyFails
<1>6. ASSUME NEW c \in Clients, Post(c) PROVE Kept'
  BY <1>6 DEF Post
<1>7. ASSUME NEW c \in Clients, Stat(c) PROVE Kept'
  BY <1>7 DEF Stat
<1>8. ASSUME NEW c \in Clients, Create(c) PROVE Kept'
  BY <1>8 DEF Create
<1>9. ASSUME NEW c \in Clients, CreateTemp(c) PROVE Kept'
  BY <1>9 DEF CreateTemp
<1>10. ASSUME NEW c \in Clients, CreateFails(c) PROVE Kept'
  BY <1>10 DEF CreateFails
<1>11. ASSUME NEW c \in Clients, WriteHeader(c) PROVE Kept'
  BY <1>11 DEF WriteHeader
<1>12. ASSUME NEW c \in Clients, CopyPayload(c) PROVE Kept'
  BY <1>12 DEF CopyPayload
<1>13. ASSUME NEW c \in Clients, CloseFile(c) PROVE Kept'
  BY <1>13 DEF CloseFile
<1>14. ASSUME NEW c \in Clients, CloseFails(c) PROVE Kept'
  BY <1>14 DEF CloseFails
<1>15. ASSUME NEW c \in Clients, WriteFails(c) PROVE Kept'
  BY <1>15 DEF WriteFails
<1>16. ASSUME NEW c \in Clients, WriteTemp(c) PROVE Kept'
  BY <1>16 DEF WriteTemp
<1>17. ASSUME NEW c \in Clients, Rename(c) PROVE Kept'
  BY <1>17 DEF Rename
<1>18. ASSUME NEW c \in Clients, TempFails(c) PROVE Kept'
  BY <1>18 DEF TempFails
<1>19. ASSUME NEW c \in Clients, Crash(c) PROVE Kept'
  BY <1>19 DEF Crash
<1>21. ASSUME NEW c \in Clients, RemoveFails(c) PROVE Kept'
  BY <1>21 DEF RemoveFails
<1>20. CASE UNCHANGED vars
  BY <1>20 DEF vars
<1> QED
  BY <1>1, <1>2, <1>3, <1>4, <1>5, <1>6, <1>7, <1>8, <1>9, <1>10, <1>11, <1>12, <1>13, <1>14, <1>15, <1>16, <1>17, <1>18, <1>19, <1>20, <1>21 DEF Next, Work, Fail

(* A detached signature is written into the inode of its client. *)
LEMMA TempStep ==
    ASSUME Shape, Opened, NEW c \in Clients, WriteTemp(c), inode[c] = <<>>
    PROVE  /\ out[c] = c /\ wpos[c] = 0
           /\ wpos' = [wpos EXCEPT ![c] = 1]
           /\ inode'[c] = Detached(c)
           /\ \A i \in Inodes \ {c} : inode'[i] = inode[i]
<1>1. out[c] = c /\ c # Absent /\ wpos[c] = 0
  BY Names DEF Opened, Writing, WriteTemp, Absent
<1>2. Put(c, <<"detached", c>>)
  BY DEF WriteTemp, Detached
<1>3. Len(inode[out[c]]) = wpos[c]
  BY <1>1
<1>4. inode'[out[c]] = Extended(inode[out[c]], wpos[c] + 1, <<"detached", c>>)
  BY <1>1, <1>2, <1>3, PutEffect
<1>5. inode'[c] = [k \in 1..1 |-> <<"detached", c>>]
  BY <1>1, <1>4 DEF Extended
<1>6. inode'[c] = Detached(c)
  BY <1>5 DEF Detached
<1> QED
  BY <1>1, <1>6, WriteSteps

(* Detached signatures are written side by side. *)
LEMMA NextDetaching == Shape /\ Planned /\ Opened /\ Detaching /\ [Next]_vars => Detaching'
<1> SUFFICES ASSUME Shape, Planned, Opened, Detaching, [Next]_vars PROVE Detaching'
  OBVIOUS
<1> USE Names DEF Goto, config, Shape, Planned, Opened, Detaching, OnlyDetached, Before, Writing, Ended, Inodes, Absent
<1>1. ASSUME NEW c \in Clients, CheckOptions(c) PROVE Detaching'
  BY <1>1 DEF CheckOptions
<1>2. ASSUME NEW c \in Clients, Read(c) PROVE Detaching'
  BY <1>2 DEF Read
<1>3. ASSUME NEW c \in Clients, ReadFails(c) PROVE Detaching'
  BY <1>3 DEF ReadFails
<1>4. ASSUME NEW c \in Clients, LateChecks(c) PROVE Detaching'
  BY <1>4 DEF LateChecks
<1>5. ASSUME NEW c \in Clients, LoadKeyFails(c) PROVE Detaching'
  BY <1>5 DEF LoadKeyFails
<1>6. ASSUME NEW c \in Clients, Post(c) PROVE Detaching'
  BY <1>6 DEF Post
<1>7. ASSUME NEW c \in Clients, Stat(c) PROVE Detaching'
  BY <1>7 DEF Stat
<1>8. ASSUME NEW c \in Clients, Create(c) PROVE Detaching'
  BY <1>8 DEF Create
<1>9. ASSUME NEW c \in Clients, CreateTemp(c) PROVE Detaching'
  BY <1>9 DEF CreateTemp
<1>10. ASSUME NEW c \in Clients, CreateFails(c) PROVE Detaching'
  BY <1>10 DEF CreateFails
<1>11. ASSUME NEW c \in Clients, WriteHeader(c) PROVE Detaching'
  <2>1. out[c] # Absent /\ mode[c] # "generic"
    BY <1>11 DEF Planned, Opened, Writing, WriteHeader, Goto
  <2>2. UNCHANGED <<out, mode>>
    BY <1>11 DEF WriteHeader, config
  <2> QED
    BY <2>1, <2>2 DEF Detaching, OnlyDetached
<1>12. ASSUME NEW c \in Clients, CopyPayload(c) PROVE Detaching'
  <2>1. out[c] # Absent /\ mode[c] # "generic"
    BY <1>12 DEF Planned, Opened, Writing, CopyPayload, Goto
  <2>2. UNCHANGED <<out, mode>>
    BY <1>12 DEF CopyPayload, config
  <2> QED
    BY <2>1, <2>2 DEF Detaching, OnlyDetached
<1>13. ASSUME NEW c \in Clients, CloseFile(c) PROVE Detaching'
  BY <1>13 DEF CloseFile
<1>14. ASSUME NEW c \in Clients, CloseFails(c) PROVE Detaching'
  <2>1. out[c] # Absent /\ mode[c] # "generic"
    BY <1>14 DEF Planned, Opened, Writing, CloseFails, Goto
  <2>2. UNCHANGED <<out, mode>>
    BY <1>14 DEF CloseFails, config
  <2> QED
    BY <2>1, <2>2 DEF Detaching, OnlyDetached
<1>15. ASSUME NEW c \in Clients, WriteFails(c) PROVE Detaching'
  BY <1>15 DEF WriteFails
<1>16. ASSUME NEW c \in Clients, WriteTemp(c) PROVE Detaching'
  <2> SUFFICES ASSUME OnlyDetached' PROVE Detaching'
    BY DEF Detaching
  <2>1. OnlyDetached /\ out[c] = c /\ wpos[c] = 0 /\ UNCHANGED <<dest, out, mode>>
    BY <1>16 DEF WriteTemp
  <2>2. /\ inode[c] = <<>> /\ inode["input"] = Package /\ inode["other"] = OtherFile
        /\ \A d \in Clients : inode[d] = IF wpos[d] = 1 THEN Detached(d) ELSE <<>>
    BY <2>1
  <2>3. /\ inode'[c] = Detached(c) /\ wpos' = [wpos EXCEPT ![c] = 1]
        /\ \A i \in Inodes \ {c} : inode'[i] = inode[i]
    BY <1>16, <2>2, TempStep
  <2>4. inode'["input"] = Package /\ inode'["other"] = OtherFile
    BY <2>2, <2>3
  <2>5. ASSUME NEW d \in Clients PROVE inode'[d] = IF wpos'[d] = 1 THEN Detached(d) ELSE <<>>
    <3>1. CASE d = c
      BY <2>3, <3>1
    <3>2. CASE d # c
      <4>1. d \in Inodes \ {c} /\ wpos'[d] = wpos[d]
        BY <2>3, <3>2 DEF Inodes
      <4>2. inode'[d] = inode[d]
        BY <2>3, <4>1
      <4> QED
        BY <2>2, <4>1, <4>2
    <3> QED
      BY <3>1, <3>2
  <2>6. dest' \in Clients => wpos'[dest'] = 1
    BY <2>1, <2>3
  <2> QED
    BY <2>4, <2>5, <2>6
<1>17. ASSUME NEW c \in Clients, Rename(c) PROVE Detaching'
  BY <1>17 DEF Rename
<1>18. ASSUME NEW c \in Clients, TempFails(c) PROVE Detaching'
  BY <1>18 DEF TempFails
<1>19. ASSUME NEW c \in Clients, Crash(c) PROVE Detaching'
  BY <1>19 DEF Crash
<1>21. ASSUME NEW c \in Clients, RemoveFails(c) PROVE Detaching'
  BY <1>21 DEF RemoveFails
<1>20. CASE UNCHANGED vars
  BY <1>20 DEF vars
<1> QED
  BY <1>1, <1>2, <1>3, <1>4, <1>5, <1>6, <1>7, <1>8, <1>9, <1>10, <1>11, <1>12, <1>13, <1>14, <1>15, <1>16, <1>17, <1>18, <1>19, <1>20, <1>21 DEF Next, Work, Fail

(* The package: its header, then its payload. *)
LEMMA PackageCells ==
    /\ HeaderLen \in Nat /\ PayloadLen \in Nat /\ Growth \in Nat /\ HeaderLen > 0
    /\ Len(Package) = HeaderLen + PayloadLen
    /\ \A k \in (HeaderLen + 1)..(HeaderLen + PayloadLen) : Package[k] = <<"payload", k - HeaderLen>>
<1>1. HeaderLen \in Nat /\ PayloadLen \in Nat /\ Growth \in Nat /\ HeaderLen > 0
  BY SizesAssumption
<1> DEFINE h == Cells("header", HeaderLen)
           p == Cells("payload", PayloadLen)
           C == {<<"header", k>> : k \in 1..HeaderLen} \cup {<<"payload", k>> : k \in 1..PayloadLen}
<1>2. h \in Seq(C) /\ Len(h) = HeaderLen
  <2>1. h \in [1..HeaderLen -> C]
    BY <1>1 DEF Cells
  <2> HIDE DEF h, C
  <2> QED
    BY <1>1, <2>1, SequenceOf
<1>3. p \in Seq(C) /\ Len(p) = PayloadLen /\ \A k \in 1..PayloadLen : p[k] = <<"payload", k>>
  <2>1. p \in [1..PayloadLen -> C] /\ \A k \in 1..PayloadLen : p[k] = <<"payload", k>>
    BY <1>1 DEF Cells
  <2> HIDE DEF p, C
  <2> QED
    BY <1>1, <2>1, SequenceOf
<1>4. Package = h \o p
  BY DEF Package
<1> HIDE DEF h, p, C
<1>5. Len(Package) = HeaderLen + PayloadLen
  BY <1>2, <1>3, <1>4, ConcatProperties
<1>6. ASSUME NEW k \in (HeaderLen + 1)..(HeaderLen + PayloadLen)
      PROVE  Package[k] = <<"payload", k - HeaderLen>>
  <2>1. Package[k] = p[k - HeaderLen] /\ k - HeaderLen \in 1..PayloadLen
    <3>1. k \in 1..(Len(h) + Len(p)) /\ ~(k <= Len(h))
      BY <1>1, <1>2, <1>3
    <3>2. Package[k] = p[k - Len(h)]
      BY <1>2, <1>3, <1>4, <3>1, ConcatProperties
    <3> QED
      BY <1>1, <1>2, <3>2
  <2> QED
    BY <1>3, <2>1
<1> QED
  BY <1>1, <1>5, <1>6

(* The result of signing, cell by cell. *)
LEMMA ResultCells ==
    ASSUME NEW c \in Clients
    PROVE  Result(c, "package") = [k \in 1..(HeaderLen + Growth + PayloadLen) |-> Cell(c, k)]
<1> DEFINE h == Signed(c)
           p == Cells("payload", PayloadLen)
           n == HeaderLen + Growth
           C == {<<"signed", c>>} \cup {<<"payload", k>> : k \in 1..PayloadLen}
<1>1. n \in Nat /\ PayloadLen \in Nat
  BY PackageCells
<1>2. h \in Seq(C) /\ Len(h) = n /\ \A k \in 1..n : h[k] = <<"signed", c>>
  <2>1. h \in [1..n -> C] /\ \A k \in 1..n : h[k] = <<"signed", c>>
    BY <1>1 DEF Signed
  <2> HIDE DEF h, C, n
  <2> QED
    BY <1>1, <2>1, SequenceOf
<1>3. p \in Seq(C) /\ Len(p) = PayloadLen /\ \A k \in 1..PayloadLen : p[k] = <<"payload", k>>
  <2>1. p \in [1..PayloadLen -> C] /\ \A k \in 1..PayloadLen : p[k] = <<"payload", k>>
    BY <1>1 DEF Cells
  <2> HIDE DEF p, C
  <2> QED
    BY <1>1, <2>1, SequenceOf
<1>4. Result(c, "package") = h \o p
  BY DEF Result
<1> DEFINE r == h \o p
<1>5. /\ r \in [1..(n + PayloadLen) -> C]
      /\ \A k \in 1..(n + PayloadLen) : r[k] = IF k <= n THEN h[k] ELSE p[k - n]
  <2> HIDE DEF h, p, C, n
  <2>1. /\ r \in Seq(C) /\ Len(r) = n + PayloadLen
        /\ \A k \in 1..(n + PayloadLen) : r[k] = IF k <= n THEN h[k] ELSE p[k - n]
    BY <1>2, <1>3, ConcatProperties
  <2> HIDE DEF r
  <2> QED
    BY <2>1, LenProperties
<1>6. \A k \in 1..(n + PayloadLen) : r[k] = Cell(c, k)
  <2> SUFFICES ASSUME NEW k \in 1..(n + PayloadLen) PROVE r[k] = Cell(c, k)
    OBVIOUS
  <2>1. CASE k <= n
    <3>1. r[k] = h[k] /\ k \in 1..n
      <4> HIDE DEF r, h, p, C, n
      <4> QED
        BY <1>1, <1>5, <2>1
    <3> QED
      BY <1>2, <2>1, <3>1 DEF Cell
  <2>2. CASE k > n
    <3>1. r[k] = p[k - n] /\ k - n \in 1..PayloadLen
      <4> HIDE DEF r, h, p, C, n
      <4> QED
        BY <1>1, <1>5, <2>2
    <3>2. k - n = k - HeaderLen - Growth /\ ~(k <= HeaderLen + Growth)
      BY <1>1, <2>2, PackageCells
    <3> QED
      BY <1>3, <3>1, <3>2 DEF Cell
  <2> HIDE DEF r, h, p, n
  <2> QED
    BY <1>1, <2>1, <2>2
<1>7. r = [k \in 1..(n + PayloadLen) |-> Cell(c, k)]
  <2> HIDE DEF r, h, p, C, n
  <2> QED
    BY <1>5, <1>6
<1> QED
  BY <1>4, <1>7

(* The input is not touched when the output is another file. *)
LEMMA NextSources == Shape /\ Opened /\ Sources /\ [Next]_vars => Sources'
<1> SUFFICES ASSUME Shape, Opened, Sources, [Next]_vars PROVE Sources'
  OBVIOUS
<1> USE Names DEF Goto, config, Shape, Opened, Sources, Before, Writing, Ended, Inodes, Absent
<1>1. ASSUME NEW c \in Clients, CheckOptions(c) PROVE Sources'
  BY <1>1 DEF CheckOptions
<1>2. ASSUME NEW c \in Clients, Read(c) PROVE Sources'
  BY <1>2 DEF Read
<1>3. ASSUME NEW c \in Clients, ReadFails(c) PROVE Sources'
  BY <1>3 DEF ReadFails
<1>4. ASSUME NEW c \in Clients, LateChecks(c) PROVE Sources'
  BY <1>4 DEF LateChecks
<1>5. ASSUME NEW c \in Clients, LoadKeyFails(c) PROVE Sources'
  BY <1>5 DEF LoadKeyFails
<1>6. ASSUME NEW c \in Clients, Post(c) PROVE Sources'
  BY <1>6 DEF Post
<1>7. ASSUME NEW c \in Clients, Stat(c) PROVE Sources'
  BY <1>7 DEF Stat
<1>8. ASSUME NEW c \in Clients, Create(c) PROVE Sources'
  BY <1>8 DEF Create
<1>9. ASSUME NEW c \in Clients, CreateTemp(c) PROVE Sources'
  BY <1>9 DEF CreateTemp
<1>10. ASSUME NEW c \in Clients, CreateFails(c) PROVE Sources'
  BY <1>10 DEF CreateFails
<1>11. ASSUME NEW c \in Clients, WriteHeader(c) PROVE Sources'
  <2> SUFFICES ASSUME ~InPlace PROVE Sources'
    OBVIOUS
  <2>1. /\ inode["input"] = Package /\ out[c] \in Inodes \ {"input"}
        /\ \A i \in Inodes \ {out[c]} : inode'[i] = inode[i]
    BY <1>11, WriteSteps
  <2>2. UNCHANGED <<dest, out>> /\ \A d \in Clients : pc'[d] \in Before => pc[d] \in Before
    BY <1>11 DEF WriteHeader
  <2>3. inode'["input"] = Package
    BY <2>1
  <2>4. (\A d \in Clients : out[d] # "other") => inode'["other"] = inode["other"]
    BY <2>1
  <2>5. ASSUME NEW d \in Clients, pc[d] \in Before PROVE inode'[d] = <<>>
    <3>1. out[d] = Absent /\ d # Absent /\ inode[d] = <<>>
      BY <2>5
    <3>2. out[c] # d
      BY <3>1
    <3> QED
      BY <2>1, <3>1, <3>2
  <2> QED
    BY <2>2, <2>3, <2>4, <2>5
<1>12. ASSUME NEW c \in Clients, CopyPayload(c) PROVE Sources'
  <2> SUFFICES ASSUME ~InPlace PROVE Sources'
    OBVIOUS
  <2>1. /\ inode["input"] = Package /\ out[c] \in Inodes \ {"input"}
        /\ \A i \in Inodes \ {out[c]} : inode'[i] = inode[i]
    BY <1>12, WriteSteps
  <2>2. UNCHANGED <<dest, out>> /\ \A d \in Clients : pc'[d] \in Before => pc[d] \in Before
    BY <1>12 DEF CopyPayload
  <2>3. inode'["input"] = Package
    BY <2>1
  <2>4. (\A d \in Clients : out[d] # "other") => inode'["other"] = inode["other"]
    BY <2>1
  <2>5. ASSUME NEW d \in Clients, pc[d] \in Before PROVE inode'[d] = <<>>
    <3>1. out[d] = Absent /\ d # Absent /\ inode[d] = <<>>
      BY <2>5
    <3>2. out[c] # d
      BY <3>1
    <3> QED
      BY <2>1, <3>1, <3>2
  <2> QED
    BY <2>2, <2>3, <2>4, <2>5
<1>13. ASSUME NEW c \in Clients, CloseFile(c) PROVE Sources'
  BY <1>13 DEF CloseFile
<1>14. ASSUME NEW c \in Clients, CloseFails(c) PROVE Sources'
  BY <1>14 DEF CloseFails
<1>15. ASSUME NEW c \in Clients, WriteFails(c) PROVE Sources'
  BY <1>15 DEF WriteFails
<1>16. ASSUME NEW c \in Clients, WriteTemp(c) PROVE Sources'
  <2> SUFFICES ASSUME ~InPlace PROVE Sources'
    OBVIOUS
  <2>1. /\ inode["input"] = Package /\ out[c] \in Inodes \ {"input"}
        /\ \A i \in Inodes \ {out[c]} : inode'[i] = inode[i]
    BY <1>16, WriteSteps
  <2>2. UNCHANGED <<dest, out>> /\ \A d \in Clients : pc'[d] \in Before => pc[d] \in Before
    BY <1>16 DEF WriteTemp
  <2>3. inode'["input"] = Package
    BY <2>1
  <2>4. (\A d \in Clients : out[d] # "other") => inode'["other"] = inode["other"]
    BY <2>1
  <2>5. ASSUME NEW d \in Clients, pc[d] \in Before PROVE inode'[d] = <<>>
    <3>1. out[d] = Absent /\ d # Absent /\ inode[d] = <<>>
      BY <2>5
    <3>2. out[c] # d
      BY <3>1
    <3> QED
      BY <2>1, <3>1, <3>2
  <2> QED
    BY <2>2, <2>3, <2>4, <2>5
<1>17. ASSUME NEW c \in Clients, Rename(c) PROVE Sources'
  BY <1>17 DEF Rename
<1>18. ASSUME NEW c \in Clients, TempFails(c) PROVE Sources'
  BY <1>18 DEF TempFails
<1>19. ASSUME NEW c \in Clients, Crash(c) PROVE Sources'
  BY <1>19 DEF Crash
<1>21. ASSUME NEW c \in Clients, RemoveFails(c) PROVE Sources'
  BY <1>21 DEF RemoveFails
<1>20. CASE UNCHANGED vars
  BY <1>20 DEF vars
<1> QED
  BY <1>1, <1>2, <1>3, <1>4, <1>5, <1>6, <1>7, <1>8, <1>9, <1>10, <1>11, <1>12, <1>13, <1>14, <1>15, <1>16, <1>17, <1>18, <1>19, <1>20, <1>21 DEF Next, Work, Fail

(* Both kinds of input are the package, as long as nobody writes to the input file. *)
LEMMA SourceIsPackage == Sources /\ ~InPlace => \A c \in Clients : Source(c) = Package
BY DEF Sources, Source

(* A run reads and writes in step. *)
LEMMA NextCounters == Shape /\ Planned /\ Opened /\ Sources /\ Counters /\ [Next]_vars => Counters'
<1> SUFFICES ASSUME Shape, Planned, Opened, Sources, Counters, [Next]_vars PROVE Counters'
  OBVIOUS
<1> USE PackageCells DEF Goto, config, Shape, Planned, Opened, Sources, Counters, Before, Writing, Ended, Absent
<1>1. ASSUME NEW c \in Clients, CheckOptions(c) PROVE Counters'
  <2>1. \A d \in Clients \ {c} : pc'[d] = pc[d] /\ mode'[d] = mode[d]
    BY <1>1, OptionsStep
  <2>2. UNCHANGED <<wpos, rpos>>
    BY <1>1 DEF CheckOptions
  <2>3. pc'[c] \in {"read", "error"} \/ (pc'[c] = "ok" /\ mode'[c] = "version")
    <3> HIDE DEF Shape
    <3> QED
      BY <1>1, OptionsEnd
  <2> QED
    BY <2>1, <2>2, <2>3
<1>2. ASSUME NEW c \in Clients, Read(c) PROVE Counters'
  BY <1>2 DEF Read
<1>3. ASSUME NEW c \in Clients, ReadFails(c) PROVE Counters'
  BY <1>3 DEF ReadFails
<1>4. ASSUME NEW c \in Clients, LateChecks(c) PROVE Counters'
  BY <1>4 DEF LateChecks
<1>5. ASSUME NEW c \in Clients, LoadKeyFails(c) PROVE Counters'
  BY <1>5 DEF LoadKeyFails
<1>6. ASSUME NEW c \in Clients, Post(c) PROVE Counters'
  BY <1>6 DEF Post
<1>7. ASSUME NEW c \in Clients, Stat(c) PROVE Counters'
  BY <1>7 DEF Stat
<1>8. ASSUME NEW c \in Clients, Create(c) PROVE Counters'
  BY <1>8 DEF Create
<1>9. ASSUME NEW c \in Clients, CreateTemp(c) PROVE Counters'
  BY <1>9 DEF CreateTemp
<1>10. ASSUME NEW c \in Clients, CreateFails(c) PROVE Counters'
  BY <1>10 DEF CreateFails
<1>11. ASSUME NEW c \in Clients, WriteHeader(c) PROVE Counters'
  <2> SUFFICES ASSUME ~InPlace PROVE Counters'
    OBVIOUS
  <2>1. wpos' = [wpos EXCEPT ![c] = wpos[c] + 1]
    BY <1>11, WriteSteps
  <2>2. /\ pc[c] = "header" /\ UNCHANGED <<rpos, mode>>
        /\ \/ pc' = [pc EXCEPT ![c] = "payload"] /\ wpos[c] + 1 = HeaderLen + Growth
           \/ pc' = [pc EXCEPT ![c] = "header"] /\ wpos[c] + 1 # HeaderLen + Growth
    BY <1>11 DEF WriteHeader
  <2>3. wpos[c] < HeaderLen + Growth /\ rpos[c] = HeaderLen /\ wpos[c] \in Nat
    BY <2>2, Planned
  <2>4. CASE pc' = [pc EXCEPT ![c] = "payload"] /\ wpos[c] + 1 = HeaderLen + Growth
    BY <2>1, <2>2, <2>3, <2>4
  <2>5. CASE pc' = [pc EXCEPT ![c] = "header"] /\ wpos[c] + 1 # HeaderLen + Growth
    <3>1. wpos[c] + 1 < HeaderLen + Growth
      BY <2>3, <2>5
    <3> QED
      BY <2>1, <2>2, <2>3, <2>5, <3>1
  <2> QED
    BY <2>2, <2>4, <2>5
<1>12. ASSUME NEW c \in Clients, CopyPayload(c) PROVE Counters'
  <2> SUFFICES ASSUME ~InPlace PROVE Counters'
    OBVIOUS
  <2>1. wpos' = [wpos EXCEPT ![c] = wpos[c] + 1]
    BY <1>12, WriteSteps
  <2>2. /\ rpos' = [rpos EXCEPT ![c] = rpos[c] + 1] /\ UNCHANGED <<pc, mode>>
        /\ pc[c] = "payload" /\ rpos[c] < Len(Package)
    BY <1>12, SourceIsPackage DEF CopyPayload
  <2>3. /\ rpos[c] \in HeaderLen..(HeaderLen + PayloadLen) /\ rpos[c] < HeaderLen + PayloadLen
        /\ wpos[c] = Growth + rpos[c]
    BY <2>2
  <2> QED
    BY <2>1, <2>2, <2>3
<1>13. ASSUME NEW c \in Clients, CloseFile(c) PROVE Counters'
  BY <1>13, SourceIsPackage DEF CloseFile
<1>14. ASSUME NEW c \in Clients, CloseFails(c) PROVE Counters'
  BY <1>14 DEF CloseFails
<1>15. ASSUME NEW c \in Clients, WriteFails(c) PROVE Counters'
  BY <1>15 DEF WriteFails
<1>16. ASSUME NEW c \in Clients, WriteTemp(c) PROVE Counters'
  BY <1>16, WriteSteps DEF WriteTemp
<1>17. ASSUME NEW c \in Clients, Rename(c) PROVE Counters'
  BY <1>17 DEF Rename
<1>18. ASSUME NEW c \in Clients, TempFails(c) PROVE Counters'
  BY <1>18 DEF TempFails
<1>19. ASSUME NEW c \in Clients, Crash(c) PROVE Counters'
  BY <1>19 DEF Crash
<1>21. ASSUME NEW c \in Clients, RemoveFails(c) PROVE Counters'
  BY <1>21 DEF RemoveFails
<1>20. CASE UNCHANGED vars
  BY <1>20 DEF vars
<1> QED
  BY <1>1, <1>2, <1>3, <1>4, <1>5, <1>6, <1>7, <1>8, <1>9, <1>10, <1>11, <1>12, <1>13, <1>14, <1>15, <1>16, <1>17, <1>18, <1>19, <1>20, <1>21 DEF Next, Work, Fail

(* What has been written does not change with the steps of others. *)
LEMMA WrittenSame ==
    ASSUME NEW c \in Clients, mode'[c] = mode[c], wpos'[c] = wpos[c]
    PROVE  Written(c)' = Written(c)
BY DEF Written, NextCell, Cell

LEMMA WrittenStart == \A c \in Clients : wpos[c] = 0 => Written(c) = <<>>
BY DEF Written

(* One more cell. *)
LEMMA WrittenNext ==
    ASSUME NEW c \in Clients, wpos[c] \in Nat, mode'[c] = mode[c], wpos'[c] = wpos[c] + 1
    PROVE  /\ Len(Written(c)) = wpos[c]
           /\ Extended(Written(c), wpos[c] + 1, NextCell(c, wpos[c] + 1)) = Written(c)'
<1>1. \A k : NextCell(c, k)' = NextCell(c, k)
  BY DEF NextCell, Cell
<1>2. Written(c)' = [k \in 1..(wpos[c] + 1) |-> NextCell(c, k)]
  BY <1>1 DEF Written
<1>3. Len(Written(c)) = wpos[c]
  <2> DEFINE S == {NextCell(c, k) : k \in 1..wpos[c]}
  <2>1. Written(c) \in [1..wpos[c] -> S]
    BY DEF Written
  <2> HIDE DEF S
  <2> QED
    BY <2>1, SequenceOf
<1>4. Extended(Written(c), wpos[c] + 1, NextCell(c, wpos[c] + 1)) =
          [k \in 1..(wpos[c] + 1) |-> NextCell(c, k)]
  <2>1. \A k \in 1..(wpos[c] + 1) : k # wpos[c] + 1 => k \in 1..wpos[c]
    OBVIOUS
  <2>2. \A k \in 1..wpos[c] : Written(c)[k] = NextCell(c, k)
    BY DEF Written
  <2> QED
    BY <2>1, <2>2 DEF Extended
<1> QED
  BY <1>2, <1>3, <1>4

(* Each of the three actions that write adds the cell that is due. *)
LEMMA CellIsDue ==
    ASSUME Shape, Planned, Opened, Sources, Counters, ~InPlace, NEW c \in Clients,
           WriteHeader(c) \/ CopyPayload(c) \/ WriteTemp(c)
    PROVE  Put(c, NextCell(c, wpos[c] + 1))
<1>1. CASE WriteHeader(c)
  <2>1. pc[c] = "header" /\ Put(c, <<"signed", c>>)
    BY <1>1 DEF WriteHeader, Goto
  <2>2. mode[c] # "generic" /\ wpos[c] < HeaderLen + Growth /\ wpos[c] \in Nat
    BY <2>1 DEF Planned, Counters, Shape
  <2>3. wpos[c] + 1 <= HeaderLen + Growth
    BY <2>2, PackageCells
  <2> QED
    BY <2>1, <2>2, <2>3 DEF NextCell, Cell
<1>2. CASE CopyPayload(c)
  <2>1. pc[c] = "payload" /\ rpos[c] < Len(Package) /\ Put(c, Package[rpos[c] + 1])
    BY <1>2, SourceIsPackage DEF CopyPayload
  <2>2. mode[c] # "generic" /\ rpos[c] \in HeaderLen..(HeaderLen + PayloadLen) /\ wpos[c] = Growth + rpos[c]
    BY <2>1 DEF Planned, Counters
  <2>3. rpos[c] + 1 \in (HeaderLen + 1)..(HeaderLen + PayloadLen)
    BY <2>1, <2>2, PackageCells
  <2>4. Package[rpos[c] + 1] = <<"payload", rpos[c] + 1 - HeaderLen>>
    <3> DEFINE k == rpos[c] + 1
    <3> HIDE DEF k
    <3>1. k \in (HeaderLen + 1)..(HeaderLen + PayloadLen)
      BY <2>3 DEF k
    <3>2. Package[k] = <<"payload", k - HeaderLen>>
      BY <3>1, PackageCells
    <3> QED
      BY <2>2, <3>2, PackageCells DEF k
  <2>5. ~(wpos[c] + 1 <= HeaderLen + Growth) /\ wpos[c] + 1 - HeaderLen - Growth = rpos[c] + 1 - HeaderLen
    BY <2>2, PackageCells
  <2>6. NextCell(c, wpos[c] + 1) = <<"payload", rpos[c] + 1 - HeaderLen>>
    <3>1. NextCell(c, wpos[c] + 1) = <<"payload", wpos[c] + 1 - HeaderLen - Growth>>
      BY <2>2, <2>5, PackageCells DEF NextCell, Cell
    <3> QED
      BY <2>5, <3>1, Zenon
  <2> QED
    BY <2>1, <2>4, <2>6
<1>3. CASE WriteTemp(c)
  BY <1>3 DEF WriteTemp, Opened, NextCell, Detached
<1> QED
  BY <1>1, <1>2, <1>3

(* The only writer of an inode finds there what it has written. *)
LEMMA NextContents ==
    Shape /\ Planned /\ Opened /\ Sources /\ Counters /\ Contents /\ [Next]_vars => Contents'
<1> SUFFICES ASSUME Shape, Planned, Opened, Sources, Counters, Contents, [Next]_vars, ~InPlace,
                    NEW d \in Clients, Alone(d)', d \notin uncleaned'
             PROVE  inode'[out'[d]] = Written(d)'
  BY DEF Contents
<1>1. ASSUME UNCHANGED out PROVE Alone(d)
  BY <1>1 DEF Alone
<1>2. ASSUME UNCHANGED <<inode, out, wpos>>, mode'[d] = mode[d], d \notin uncleaned
      PROVE  inode'[out'[d]] = Written(d)'
  <2>1. inode[out[d]] = Written(d)
    BY <1>1, <1>2 DEF Contents
  <2> QED
    BY <1>2, <2>1, WrittenSame
<1>3. ASSUME NEW c \in Clients,
             \/ Read(c) \/ ReadFails(c) \/ LateChecks(c) \/ LoadKeyFails(c) \/ Post(c) \/ Stat(c)
             \/ CreateFails(c) \/ CloseFile(c) \/ WriteFails(c) \/ Rename(c) \/ TempFails(c) \/ Crash(c)
      PROVE  inode'[out'[d]] = Written(d)'
  <2>1. UNCHANGED <<inode, out, wpos, mode>>
    BY <1>3 DEF config, Read, ReadFails, LateChecks, LoadKeyFails, Post, Stat, CreateFails, CloseFile,
                WriteFails, Rename, TempFails, Crash
  <2>2. uncleaned' = uncleaned
    BY <1>3 DEF Read, ReadFails, LateChecks, LoadKeyFails, Post, Stat, CreateFails, CloseFile,
                WriteFails, Rename, TempFails, Crash
  <2> QED
    BY <1>2, <2>1, <2>2
<1>4. ASSUME NEW c \in Clients, CheckOptions(c) PROVE inode'[out'[d]] = Written(d)'
  <2>1. /\ pc[c] = "options"
        /\ UNCHANGED <<inode, out, wpos, uncleaned>> /\ mode' = [mode EXCEPT ![c] = Plan(args[c])]
    BY <1>4 DEF CheckOptions, Goto
  <2>2. c # d
    BY <1>1, <2>1 DEF Alone, Opened, Before
  <2>3. mode'[d] = mode[d] /\ d \notin uncleaned
    BY <2>1, <2>2 DEF Shape
  <2> QED
    BY <1>2, <2>1, <2>3
<1>5. ASSUME NEW c \in Clients, Create(c) PROVE inode'[out'[d]] = Written(d)'
  <2> DEFINE i == IF dest = Absent THEN c ELSE dest
  <2>1. /\ pc[c] = "create" /\ pc' = [pc EXCEPT ![c] = "header"]
        /\ out' = [out EXCEPT ![c] = i] /\ inode' = [inode EXCEPT ![i] = <<>>]
        /\ UNCHANGED <<mode, wpos, uncleaned>>
    BY <1>5 DEF Create, Goto, config
  <2>2. i \in Inodes
    BY DEF Shape, Inodes
  <2> HIDE DEF i
  <2>3. CASE d = c
    <3>1. out'[d] = i /\ inode'[i] = <<>> /\ wpos'[d] = 0 /\ wpos[d] = 0 /\ mode'[d] = mode[d]
      BY <2>1, <2>2, <2>3 DEF Shape, Opened, Before
    <3>2. Written(d)' = <<>>
      BY <3>1, WrittenSame, WrittenStart
    <3> QED
      BY <3>1, <3>2
  <2>4. CASE d # c
    <3>1. /\ out'[d] = out[d] /\ out'[c] = i /\ wpos'[d] = wpos[d] /\ mode'[d] = mode[d]
          /\ d \notin uncleaned
      BY <2>1, <2>4 DEF Shape
    <3>2. out[d] # i
      BY <2>4, <3>1 DEF Alone
    <3>3. Alone(d)
      BY <3>1, <2>1, <2>4 DEF Alone, Shape, Opened, Before
    <3>4. inode'[out[d]] = inode[out[d]]
      BY <2>1, <3>2, <3>3 DEF Shape, Alone
    <3> QED
      BY <3>1, <3>3, <3>4, WrittenSame DEF Contents
  <2> QED
    BY <2>3, <2>4
<1>6. ASSUME NEW c \in Clients, CreateTemp(c) PROVE inode'[out'[d]] = Written(d)'
  <2>1. /\ pc[c] = "create" /\ pc' = [pc EXCEPT ![c] = "temp"]
        /\ out' = [out EXCEPT ![c] = c] /\ UNCHANGED <<inode, mode, wpos, uncleaned>>
    BY <1>6 DEF CreateTemp, Goto, config
  <2>2. CASE d = c
    <3>1. out'[d] = d /\ inode[d] = <<>> /\ wpos[d] = 0
      BY <2>1, <2>2 DEF Shape, Opened, Before, Sources
    <3>2. Written(d)' = <<>>
      BY <2>1, <3>1, WrittenSame, WrittenStart
    <3> QED
      BY <2>1, <3>1, <3>2
  <2>3. CASE d # c
    <3>1. out'[d] = out[d] /\ d \notin uncleaned
      BY <2>1, <2>3 DEF Shape
    <3>2. Alone(d)
      BY <3>1, <2>1, <2>3 DEF Alone, Shape, Opened, Before
    <3> QED
      BY <2>1, <3>1, <3>2, WrittenSame DEF Contents
  <2> QED
    BY <2>2, <2>3
<1>7. ASSUME NEW c \in Clients, WriteHeader(c) \/ CopyPayload(c) \/ WriteTemp(c)
      PROVE  inode'[out'[d]] = Written(d)'
  <2>1. /\ out[c] \in Inodes /\ out[c] # Absent /\ wpos' = [wpos EXCEPT ![c] = wpos[c] + 1]
        /\ \A i \in Inodes \ {out[c]} : inode'[i] = inode[i]
    <3>1. out[c] \in Inodes /\ "absent" \notin Inodes
      BY <1>7, WriteSteps, Names DEF Inodes
    <3> QED
      BY <1>7, <3>1, WriteSteps DEF Absent
  <2>2. UNCHANGED <<out, mode, uncleaned>>
    BY <1>7 DEF WriteHeader, CopyPayload, WriteTemp, Goto, config
  <2>3. Alone(d) /\ d \notin uncleaned
    BY <1>1, <2>2
  <2>4. inode[out[d]] = Written(d)
    BY <2>3 DEF Contents
  <2>5. CASE d = c
    <3>1. wpos[c] \in Nat /\ wpos'[c] = wpos[c] + 1 /\ mode'[c] = mode[c]
      BY <2>1, <2>2 DEF Shape
    <3>2. Len(inode[out[c]]) = wpos[c]
      BY <2>4, <2>5, <3>1, WrittenNext
    <3>3. inode'[out[c]] = Extended(inode[out[c]], wpos[c] + 1, NextCell(c, wpos[c] + 1))
      BY <1>7, <2>1, <3>2, CellIsDue, PutEffect
    <3>4. inode'[out[c]] = Written(c)'
      BY <2>4, <2>5, <3>1, <3>3, WrittenNext
    <3> QED
      BY <2>2, <2>5, <3>4
  <2>6. CASE d # c
    <3>1. out[d] # out[c] /\ out[d] \in Inodes
      BY <2>3, <2>6 DEF Alone, Shape
    <3>2. wpos'[d] = wpos[d]
      BY <2>1, <2>6 DEF Shape
    <3> QED
      BY <2>1, <2>2, <2>4, <3>1, <3>2, WrittenSame
  <2> QED
    BY <2>5, <2>6
<1>8. ASSUME NEW c \in Clients, CloseFails(c) PROVE inode'[out'[d]] = Written(d)'
  <2>1. /\ UNCHANGED <<out, mode, wpos>> /\ uncleaned' = uncleaned \cup {c}
        /\ inode' \in {inode, [inode EXCEPT ![out[c]] = Front(@)]}
    BY <1>8 DEF CloseFails, Goto, config
  <2>2. d # c
    BY <2>1
  <2>3. Alone(d) /\ d \notin uncleaned /\ out[d] # out[c]
    BY <1>1, <2>1, <2>2 DEF Shape, Alone
  <2>4. inode'[out[d]] = inode[out[d]]
    <3>1. out[d] \in Inodes
      BY <2>3 DEF Shape, Alone
    <3>2. PICK f : inode' = inode \/ inode' = [inode EXCEPT ![out[c]] = f]
      BY <2>1
    <3> QED
      BY <2>3, <3>1, <3>2 DEF Shape
  <2> QED
    BY <2>1, <2>3, <2>4, WrittenSame DEF Contents
<1>9. CASE UNCHANGED vars
  BY <1>2, <1>9 DEF vars
<1>10. ASSUME NEW c \in Clients, RemoveFails(c) PROVE inode'[out'[d]] = Written(d)'
  <2>1. UNCHANGED <<inode, out, wpos, mode>> /\ d \notin uncleaned
    BY <1>10 DEF RemoveFails, config
  <2> QED
    BY <1>2, <2>1
<1> QED
  BY <1>3, <1>4, <1>5, <1>6, <1>7, <1>8, <1>9, <1>10 DEF Next, Work, Fail

-----------------------------------------------------------------------------
(* The files before the first step. *)
LEMMA InitInode ==
    ASSUME Init
    PROVE  /\ inode = [i \in Inodes |-> inode[i]]
           /\ inode["input"] = Package /\ inode["other"] = OtherFile
           /\ \A c \in Clients : inode[c] = <<>>
<1> DEFINE f(i) == CASE i = "input" -> Package [] i = "other" -> OtherFile [] OTHER -> <<>>
<1>1. inode = [i \in Inodes |-> f(i)]
  BY DEF Init, Inodes
<1>2. f("input") = Package /\ f("other") = OtherFile
  OBVIOUS
<1>3. ASSUME NEW c \in Clients PROVE f(c) = <<>>
  <2>1. c # "input" /\ c # "other"
    BY Names
  <2> QED
    BY <2>1, Zenon
<1> HIDE DEF f
<1> QED
  BY <1>1, <1>2, <1>3 DEF Inodes

LEMMA InitIInv == Init => IInv
<1> SUFFICES ASSUME Init PROVE IInv
  OBVIOUS
<1>1. /\ inode = [i \in Inodes |-> inode[i]]
      /\ inode["input"] = Package /\ inode["other"] = OtherFile
      /\ \A c \in Clients : inode[c] = <<>>
  BY InitInode
<1>2. /\ dest \in {"input", "other", Absent} /\ (~InPlace => dest # "input")
      /\ args \in [Clients -> CommandLines]
      /\ mode = [c \in Clients |-> "unknown"]
      /\ overwrite = [c \in Clients |-> FALSE]
      /\ pc = [c \in Clients |-> "options"]
      /\ out = [c \in Clients |-> Absent]
      /\ wpos = [c \in Clients |-> 0]
      /\ rpos = [c \in Clients |-> 0]
      /\ clobbered = {} /\ uncleaned = {}
  BY DEF Init, Absent
<1>3. dest \notin Clients /\ \A c \in Clients : out[c] = Absent
  BY <1>2, Names DEF Absent
<1>4. Shape
  BY <1>1, <1>2 DEF Shape, Inodes, Modes, Before
<1>5. Planned /\ Opened
  BY <1>2, <1>3, Names DEF Planned, Opened, Before, Writing, Absent
<1>6. AtPath /\ Present /\ Kept
  BY <1>2, <1>3 DEF AtPath, Present, Kept, OldFilesKept
<1>7. Detaching /\ Sources
  BY <1>1, <1>2, <1>3 DEF Detaching, Sources, Absent
<1>8. Counters
  BY <1>2 DEF Counters
<1>9. Contents
  BY <1>3 DEF Contents, Alone
<1> QED
  BY <1>4, <1>5, <1>6, <1>7, <1>8, <1>9 DEF IInv

(* The inductive invariant holds throughout every behaviour. *)
THEOREM Invariance == Spec => []IInv
<1>1. IInv /\ [Next]_vars => IInv'
  BY NextShape, NextPlanned, NextOpened, NextAtPath, NextPresent, NextKept, NextDetaching, NextSources,
     NextCounters, NextContents DEF IInv
<1> QED
  BY InitIInv, <1>1, PTL DEF Spec

-----------------------------------------------------------------------------
(* A file that was at the output path before all runs is never destroyed by a run *)
(* without -f, although Stat and Create are two steps and other runs come between. *)
THEOREM OldFilesAreKept == Spec => []OldFilesKept
<1>1. IInv => OldFilesKept
  BY DEF IInv, Kept
<1> QED
  BY <1>1, Invariance, PTL

(* WriteFileAtomically: at every moment, crashes included, a file at the output *)
(* path is complete, as long as only detached signatures are written.          *)
THEOREM DetachedOutputIsAtomic == Spec => []OutputIsAtomic
<1>1. IInv => OutputIsAtomic
  <2> SUFFICES ASSUME IInv, OnlyDetached, dest # Absent PROVE Complete(inode[dest])
    BY DEF OutputIsAtomic, OnlyDetached
  <2>1. dest \in Inodes
    BY DEF IInv, Shape
  <2>2. CASE dest \in Clients
    <3>1. inode[dest] = Detached(dest)
      BY <2>2 DEF IInv, Detaching
    <3>2. Detached(dest) = Result(dest, "detached")
      BY DEF Result
    <3> QED
      BY <2>2, <3>1, <3>2 DEF Complete
  <2>3. CASE dest \in {"input", "other"}
    BY <2>3 DEF IInv, Detaching, Complete
  <2> QED
    BY <2>1, <2>2, <2>3 DEF Inodes
<1> QED
  BY <1>1, Invariance, PTL

-----------------------------------------------------------------------------
(* The plan by the signing mode, where --version does not come first. *)
LEMMA PlanOfMode ==
    \A a : ~PrintsVersion(a) =>
           /\ SigningMode(a) = "generic" => Plan(a) = "generic"
           /\ SigningMode(a) = "rpm" => Plan(a) = IF Server(a) # None THEN "remote" ELSE "local"
           /\ SigningMode(a) \notin {"generic", "rpm"} => Plan(a) = "inspect"
<1> SUFFICES ASSUME NEW a, ~PrintsVersion(a)
             PROVE /\ SigningMode(a) = "generic" => Plan(a) = "generic"
                   /\ SigningMode(a) = "rpm" => Plan(a) = IF Server(a) # None THEN "remote" ELSE "local"
                   /\ SigningMode(a) \notin {"generic", "rpm"} => Plan(a) = "inspect"
  OBVIOUS
<1> DEFINE plan == CASE SigningMode(a) = "generic" -> "generic"
                     [] SigningMode(a) = "rpm"     -> IF Server(a) # None THEN "remote" ELSE "local"
                     [] OTHER                      -> "inspect"
<1>0. Plan(a) = plan
  BY DEF Plan
<1>1. "rpm" # "generic"
  OBVIOUS
<1>2. ASSUME SigningMode(a) = "generic" PROVE Plan(a) = "generic"
  <2>1. SigningMode(a) # "rpm"
    BY <1>1, <1>2
  <2> QED
    BY <1>2, <2>1, <1>0, Zenon
<1>3. ASSUME SigningMode(a) = "rpm" PROVE Plan(a) = IF Server(a) # None THEN "remote" ELSE "local"
  <2>1. SigningMode(a) # "generic"
    BY <1>1, <1>3
  <2> QED
    BY <1>3, <2>1, <1>0, Zenon
<1>4. ASSUME SigningMode(a) \notin {"generic", "rpm"} PROVE Plan(a) = "inspect"
  <2>1. SigningMode(a) # "generic" /\ SigningMode(a) # "rpm"
    BY <1>4
  <2> QED
    BY <2>1, <1>0, Zenon
<1> QED
  BY <1>2, <1>3, <1>4

LEMMA SigningModes == \A a : SigningMode(a) \in {"notSet", "generic", "rpm"}
BY DEF SigningMode

(* A successful run that names a sign server was signed there, and one that names *)
(* a key was not.                                                                 *)
THEOREM SigningIsWhereAsked == Spec => []SignedWhereAsked
<1>1. IInv => SignedWhereAsked
  <2> SUFFICES ASSUME IInv, NEW c \in Clients, pc[c] = "ok", mode[c] # "version"
               PROVE  /\ Server(args[c]) # None => mode[c] = "remote"
                      /\ Key(args[c]) # None => mode[c] # "remote"
    BY DEF SignedWhereAsked
  <2>1. mode[c] = Plan(args[c]) /\ Accepted(args[c])
    BY DEF IInv, Planned
  <2>2. /\ SigningMode(args[c]) = "generic" => Key(args[c]) # None
        /\ Server(args[c]) # None => SigningMode(args[c]) # "notSet" /\ Key(args[c]) = None
    BY <2>1 DEF Accepted
  <2>3. /\ SigningMode(args[c]) = "generic" => mode[c] = "generic"
        /\ SigningMode(args[c]) = "rpm" => mode[c] = IF Server(args[c]) # None THEN "remote" ELSE "local"
        /\ SigningMode(args[c]) = "notSet" => mode[c] = "inspect"
    BY <2>1, PlanOfMode, PlanOfVersion
  <2> QED
    BY <2>2, <2>3, SigningModes
<1> QED
  BY <1>1, Invariance, PTL

-----------------------------------------------------------------------------
LEMMA TurnsInDomain == \A a : Turns(a) \subseteq DOMAIN a
BY Zenon DEF Turns

(* Of the signing modes of a command line the last one is among them. *)
LEMMA LastMode ==
    ASSUME NEW a \in Seq(STRING), NEW opts, Uses(a, opts) # {}
    PROVE  LastOf(Uses(a, opts)) \in Uses(a, opts)
<1> DEFINE S == Uses(a, opts)
<1>1. Len(a) \in Nat /\ DOMAIN a = 1..Len(a)
  BY LenProperties
<1>2. S \subseteq Turns(a)
  BY DEF Uses
<1>3. S \in SUBSET (0..Len(a))
  BY <1>1, <1>2, TurnsInDomain
<1> HIDE DEF S
<1>4. S # {}
  BY DEF S
<1>5. \E n \in S : \A m \in S : m <= n
  BY <1>1, <1>3, <1>4, GreatestNat
<1>6. LastOf(S) \in S
  BY <1>5 DEF LastOf
<1> QED
  BY <1>6 DEF S

(* What a run is asked for, and what it does. *)
LEMMA AskedIsPlanned ==
    ASSUME IInv, NEW c \in Clients, pc[c] = "ok"
    PROVE  /\ Asked(c) = {} <=> mode[c] \in {"inspect", "version"}
           /\ mode[c] = "generic" => "detached" \in Asked(c)
           /\ mode[c] \notin {"generic", "inspect", "version"} => "package" \in Asked(c)
<1> DEFINE a == args[c]
           modes == Uses(a, {"-s", "--sign", "--sign-generic"})
<1>1. a \in Seq(STRING) /\ mode[c] = Plan(a)
  BY CommandLinesAssumption DEF IInv, Shape, Planned
<1>0. CASE PrintsVersion(a)
  <2>1. Asked(c) = {} /\ mode[c] = "version"
    BY <1>0, <1>1, PlanOfVersion DEF Asked
  <2> QED
    BY <2>1
<1> SUFFICES ASSUME ~PrintsVersion(a)
             PROVE  /\ Asked(c) = {} <=> mode[c] \in {"inspect", "version"}
                    /\ mode[c] = "generic" => "detached" \in Asked(c)
                    /\ mode[c] \notin {"generic", "inspect", "version"} => "package" \in Asked(c)
  BY <1>0
<1>2. /\ "package" \in Asked(c) <=> Uses(a, {"-s", "--sign"}) # {}
      /\ "detached" \in Asked(c) <=> Uses(a, {"--sign-generic"}) # {}
      /\ Asked(c) \subseteq {"package", "detached"}
  BY DEF Asked
<1> HIDE DEF a
<1>3. CASE modes = {}
  <2>1. Asked(c) = {}
    BY <1>2, <1>3 DEF Uses
  <2>2. SigningMode(a) = "notSet"
    BY <1>3 DEF SigningMode
  <2> QED
    BY <1>1, <2>1, <2>2, PlanOfMode
<1>4. CASE modes # {}
  <2>1. LastOf(modes) \in modes
    BY <1>1, <1>4, LastMode
  <2> DEFINE i == LastOf(modes)
  <2>2. /\ SigningMode(a) = IF a[i] = "--sign-generic" THEN "generic" ELSE "rpm"
    BY <1>4 DEF SigningMode
  <2>3. i \in Turns(a) /\ a[i] \in {"-s", "--sign", "--sign-generic"}
    BY <2>1 DEF Uses
  <2> HIDE DEF i, modes
  <2>4. CASE a[i] = "--sign-generic"
    <3>1. "detached" \in Asked(c)
      BY <1>2, <2>3, <2>4 DEF Uses
    <3>2. mode[c] = "generic"
      BY <1>1, <2>2, <2>4, PlanOfMode
    <3> QED
      BY <3>1, <3>2
  <2>5. CASE a[i] # "--sign-generic"
    <3>1. "package" \in Asked(c)
      BY <1>2, <2>3, <2>5 DEF Uses
    <3>2. mode[c] \in {"remote", "local"}
      BY <1>1, <2>2, <2>5, PlanOfMode
    <3> QED
      BY <3>1, <3>2
  <2> QED
    BY <2>4, <2>5
<1> QED
  BY <1>3, <1>4

(* The only writer of a file has left its finished output there when it succeeds. *)
LEMMA OkIsComplete ==
    ASSUME IInv, ~InPlace, NEW c \in Clients, pc[c] = "ok", Alone(c)
    PROVE  /\ mode[c] = "generic" => inode[out[c]] = Result(c, "detached")
           /\ mode[c] # "generic" => inode[out[c]] = Result(c, "package")
<1>1. inode[out[c]] = Written(c)
  BY DEF IInv, Contents, Opened
<1>2. CASE mode[c] = "generic"
  <2>1. wpos[c] = 1
    BY <1>2 DEF IInv, Opened
  <2>2. Written(c) = [k \in 1..1 |-> <<"detached", c>>]
    BY <1>2, <2>1 DEF Written, NextCell
  <2>3. Written(c) = Detached(c)
    BY <2>2 DEF Detached
  <2> QED
    BY <1>1, <1>2, <2>3 DEF Result
<1>3. CASE mode[c] # "generic"
  <2>1. mode[c] \notin {"inspect", "version"}
    BY DEF IInv, Planned, Alone
  <2>2. wpos[c] = HeaderLen + Growth + PayloadLen
    BY <1>3, <2>1 DEF IInv, Counters
  <2>3. Written(c) = [k \in 1..(HeaderLen + Growth + PayloadLen) |-> Cell(c, k)]
    BY <1>3, <2>2 DEF Written, NextCell
  <2> QED
    BY <1>1, <1>3, <2>3, ResultCells
<1> QED
  BY <1>2, <1>3

(* A run that succeeds has written the signed header and the unchanged payload, or *)
(* the signature, whichever it was asked for, if the output is not the input and   *)
(* no other run writes to the same file.                                          *)
THEOREM SuccessMeansComplete == ASSUME ~InPlace PROVE Spec => []SuccessIsComplete
<1>1. IInv => SuccessIsComplete
  <2> SUFFICES ASSUME IInv, NEW c \in Clients, pc[c] = "ok"
               PROVE  IF Asked(c) = {} THEN out[c] = Absent
                      ELSE /\ out[c] # Absent
                           /\ Writers(out[c]) = {c} => \E k \in Asked(c) : inode[out[c]] = Result(c, k)
    BY DEF SuccessIsComplete
  <2>1. out[c] = Absent <=> mode[c] \in {"inspect", "version"}
    BY DEF IInv, Planned
  <2>2. ASSUME Asked(c) # {}, Writers(out[c]) = {c} PROVE \E k \in Asked(c) : inode[out[c]] = Result(c, k)
    <3>1. Alone(c)
      BY <2>1, <2>2, AskedIsPlanned DEF Alone, Writers
    <3> QED
      BY <2>2, <3>1, OkIsComplete, AskedIsPlanned
  <2> QED
    BY <2>1, <2>2, AskedIsPlanned
<1> QED
  BY <1>1, Invariance, PTL

(* When all runs have ended by themselves and the output is not the input, the file *)
(* at the output path is complete, unless two runs wrote to it, or the one that did *)
(* has reported an error and its os.Remove or its final Close failed.               *)
THEOREM NothingPartialIsLeft == ASSUME ~InPlace PROVE Spec => []NoPartialFileAtTheEnd
<1>1. IInv => NoPartialFileAtTheEnd
  <2> SUFFICES ASSUME IInv, \A c \in Clients : pc[c] \in {"ok", "error"}, dest # Absent,
                      ~(Cardinality(Writers(dest)) > 1),
                      ~\E c \in Writers(dest) : pc[c] = "error" /\ c \in uncleaned
               PROVE  Complete(inode[dest])
    BY DEF NoPartialFileAtTheEnd
  <2>1. Writers(dest) \subseteq Clients
    BY DEF Writers
  <2>2. IsFiniteSet(Writers(dest)) /\ Cardinality(Writers(dest)) \in Nat
    BY <2>1, SizesAssumption, FS_Subset, FS_CardinalityType
  <2>3. \A c, d \in Writers(dest) : c = d
    BY <2>2, NotTwo
  <2>4. dest \in Inodes \ {"input"}
    BY DEF IInv, Shape, Sources
  <2>5. CASE Writers(dest) = {}
    <3>1. dest \notin Clients
      BY <2>5 DEF IInv, AtPath, Writers
    <3>2. dest = "other"
      BY <2>4, <3>1 DEF Inodes
    <3>3. inode[dest] = OtherFile
      BY <2>5, <3>2 DEF IInv, Sources, Writers
    <3> QED
      BY <3>3 DEF Complete
  <2>6. CASE Writers(dest) # {}
    <3>1. PICK c \in Clients : out[c] = dest
      BY <2>6 DEF Writers
    <3>2. Alone(c)
      BY <2>3, <3>1 DEF Alone, Writers
    <3>3. pc[c] = "ok"
      BY <3>1 DEF IInv, AtPath, Writers
    <3> QED
      BY <3>1, <3>2, <3>3, OkIsComplete DEF Complete
  <2> QED
    BY <2>5, <2>6
<1> QED
  BY <1>1, Invariance, PTL

(* After a success there is a file at the output path, unless a run that signs a  *)
(* package into the same path has failed and removed what was there: a crash, a   *)
(* failed WriteFileAtomically and the steps of a run that succeeds leave it there. *)
THEOREM OutputStays == Spec => []OutputIsThere
<1>1. IInv => OutputIsThere
  BY DEF IInv, Present, Removed, OutputIsThere
<1> QED
  BY <1>1, Invariance, PTL
===============================================================================
