--------------------------- MODULE AccessLogProofs ---------------------------
(***************************************************************************)
(* The properties of AccessLog, for any number of requests: its            *)
(* invariants, what a step may never do to the file, and that it           *)
(* implements LineLog.                                                     *)
(***************************************************************************)
EXTENDS AccessLog, FiniteSetTheorems, SequenceTheorems, TLAPS

AtMostOne(S) == \A x, y \in S : x = y

(* A finite set has one element at most when no two of its elements differ. *)
LEMMA AtMostOneElement ==
    ASSUME NEW S, IsFiniteSet(S)
    PROVE  Cardinality(S) <= 1 <=> AtMostOne(S)
<1>1. ASSUME Cardinality(S) <= 1, NEW x \in S, NEW y \in S, x # y PROVE FALSE
  <2>1. IsFiniteSet({x}) /\ Cardinality({x}) = 1
    BY FS_Singleton
  <2>2. Cardinality({x} \cup {y}) = 2
    BY <1>1, <2>1, FS_AddElement
  <2>3. {x} \cup {y} \subseteq S
    BY <1>1
  <2>4. Cardinality({x} \cup {y}) <= Cardinality(S)
    BY <2>3, FS_Subset
  <2>5. Cardinality(S) \in Nat
    BY FS_CardinalityType
  <2> QED
    BY <1>1, <2>2, <2>4, <2>5
<1>2. ASSUME AtMostOne(S) PROVE Cardinality(S) <= 1
  <2>1. CASE S = {}
    BY <2>1, FS_EmptySet
  <2>2. CASE S # {}
    <3>1. PICK x \in S : TRUE
      BY <2>2
    <3>2. S = {x}
      BY <1>2, <3>1 DEF AtMostOne
    <3> QED
      BY <3>2, FS_Singleton
  <2> QED
    BY <2>1, <2>2
<1> QED
  BY <1>1, <1>2 DEF AtMostOne

Places == {"handling", "panicked", "log", "checkAttempted", "create", "assign", "mark",
           "load", "write", "close", "forget", "done"}

(* The types, without the bounds on positions. *)
Shape ==
    /\ accessLog \in Requests \cup {Nil}
    /\ attempted \in BOOLEAN
    /\ DOMAIN content \subseteq Nat
    /\ Range(content) \subseteq Requests
    /\ pos \in [Requests -> Nat]
    /\ closed \subseteq Requests
    /\ pc \in [Requests -> Places]
    /\ fd \in [Requests -> Requests \cup {Nil}]
    /\ created \cup fallback \cup openFailed \cup writeFailed \cup late \subseteq Requests

(* A descriptor is one that os.Create returned, to a request that has got that far. *)
Descriptors ==
    /\ accessLog \in created \cup {Nil}
    /\ \A r \in Requests : fd[r] \in created \cup {Nil}
    /\ \A r \in Requests : pc[r] \in {"assign", "mark"} => fd[r] \in {r, Nil}
    /\ \A r \in created : pc[r] \notin {"handling", "panicked", "log", "checkAttempted", "create"}
    /\ accessLog # Nil => pc[accessLog] # "assign"

(* The requests that went through a descriptor, written or not, bound its position; *)
(* a line is in front of the position of some descriptor.                           *)
Through(d) == {r \in Requests : pc[r] = "done" /\ fd[r] = d}

Positions ==
    /\ \A d \in Requests : pos[d] <= Cardinality(Through(d))
    /\ \A d \in Requests \ created : pos[d] = 0
    /\ \A p \in DOMAIN content : \E d \in created : p < pos[d]

(* Where a line may be, by the progress of its request. *)
Progress ==
    /\ \A r \in Range(content) :
          /\ pc[r] = "done"
          /\ r \notin fallback \cup openFailed \cup writeFailed
    /\ \A r \in fallback \cup openFailed : pc[r] = "done"
    /\ \A r \in writeFailed : pc[r] \in {"close", "forget", "done"}
    /\ \A r \in Requests : pc[r] \in {"close", "forget"} => r \in writeFailed
    /\ fallback \cap (openFailed \cup writeFailed) = {}

(* With one descriptor a line is never lost. *)
Accounted ==
    AtMostOne(created) =>
        \A r \in Requests :
            pc[r] = "done" => r \in Range(content) \cup fallback \cup openFailed \cup writeFailed

(* The request has seen an open log, and may have failed to write to it. *)
Past(r) ==
    \/ pc[r] \in {"load", "write", "close", "forget"}
    \/ pc[r] = "mark" /\ fd[r] # Nil
    \/ pc[r] = "done" /\ r \in writeFailed

(* With one opener: nobody opens the file after somebody has seen it open, and the *)
(* log is forgotten only after it is closed.                                       *)
OneOpener ==
    /\ \A r \in Requests : Past(r) => created # {}
    /\ AtMostOne(Openers) =>
          /\ \A r, q \in Requests : Past(r) => pc[q] \notin {"create", "assign"}
          /\ \A r \in Requests : pc[r] = "forget" => accessLog \in closed \cup {Nil}
          /\ \A r \in Requests : Past(r) /\ accessLog = Nil => created \subseteq closed
          /\ GivenUp => created \subseteq closed
          /\ late = {}

IInv == Shape /\ Descriptors /\ Positions /\ Progress /\ Accounted /\ OneOpener

-----------------------------------------------------------------------------
(* Nothing is in an empty file. *)
LEMMA EmptyFile == DOMAIN Empty = {} /\ Range(Empty) = {}
BY DEF Empty, Range

(* What a write does to the file: it adds the line of r, and loses another one *)
(* only where its position is taken.                                           *)
LEMMA WriteEffect ==
    ASSUME Shape, NEW r \in Requests, WriteLine(r)
    PROVE  /\ fd[r] \in Requests /\ fd[r] \notin closed /\ pos[fd[r]] \in Nat
           /\ DOMAIN content' = DOMAIN content \cup {pos[fd[r]]}
           /\ Range(content') \subseteq Range(content) \cup {r}
           /\ r \in Range(content')
           /\ pos[fd[r]] \notin DOMAIN content =>
                 Range(content) \subseteq Range(content') /\ Kept(content, content')
<1> DEFINE p == pos[fd[r]]
<1>1. fd[r] \in Requests /\ fd[r] \notin closed /\ p \in Nat
  BY DEF WriteLine, Shape
<1>2. content' = [q \in DOMAIN content \cup {p} |-> IF q = p THEN r ELSE content[q]]
  BY DEF WriteLine
<1> HIDE DEF p
<1>3. DOMAIN content' = DOMAIN content \cup {p} /\ content'[p] = r
  BY <1>2
<1>4. \A q \in DOMAIN content : q # p => content'[q] = content[q]
  BY <1>2
<1>5. Range(content') \subseteq Range(content) \cup {r} /\ r \in Range(content')
  BY <1>3, <1>4 DEF Range
<1>6. p \notin DOMAIN content => Range(content) \subseteq Range(content') /\ Kept(content, content')
  BY <1>3, <1>4 DEF Range, Kept
<1> QED
  BY <1>1, <1>3, <1>5, <1>6 DEF p

(* The requests of a run are finitely many, and so are the sets of them. *)
LEMMA SubsetsAreFinite ==
    ASSUME NEW S, S \subseteq Requests
    PROVE  IsFiniteSet(S) /\ Cardinality(S) \in Nat /\ Cardinality(S) <= Cardinality(Requests)
BY RequestsAssumption, FS_Subset, FS_CardinalityType

-----------------------------------------------------------------------------
(* The initial state. *)
LEMMA InitIInv == LogInit => IInv
<1> SUFFICES ASSUME LogInit PROVE IInv
  OBVIOUS
<1> USE DEF LogInit
<1>1. Shape
  BY EmptyFile DEF Shape, Places
<1>2. Descriptors /\ Progress
  BY EmptyFile DEF Descriptors, Progress
<1>3. Positions
  <2>1. \A d \in Requests : Through(d) = {}
    BY DEF Through
  <2> QED
    <3>1. \A d \in Requests : pos[d] = 0 /\ Cardinality(Through(d)) = 0
      BY <2>1, FS_EmptySet
    <3> QED
      BY <3>1, EmptyFile DEF Positions
<1>4. Accounted /\ OneOpener
  BY DEF Accounted, OneOpener, Past, GivenUp
<1> QED
  BY <1>1, <1>2, <1>3, <1>4 DEF IInv

(* Every step keeps the types. *)
LEMMA NextShape == Shape /\ [Next]_logVars => Shape'
<1> SUFFICES ASSUME Shape, [Next]_logVars PROVE Shape'
  OBVIOUS
<1> USE DEF Goto, Shape, Places
<1>1. ASSUME NEW r \in Requests, HandlerReturns(r) PROVE Shape'
  BY <1>1 DEF HandlerReturns
<1>2. ASSUME NEW r \in Requests, HandlerPanics(r) PROVE Shape'
  BY <1>2 DEF HandlerPanics
<1>3. ASSUME NEW r \in Requests, CheckOpen(r) PROVE Shape'
  BY <1>3 DEF CheckOpen
<1>4. ASSUME NEW r \in Requests, CheckAttempted(r) PROVE Shape'
  BY <1>4 DEF CheckAttempted
<1>5. ASSUME NEW r \in Requests, Create(r) PROVE Shape'
  BY <1>5, EmptyFile DEF Create
<1>6. ASSUME NEW r \in Requests, CreateFails(r) PROVE Shape'
  BY <1>6 DEF CreateFails
<1>7. ASSUME NEW r \in Requests, Assign(r) PROVE Shape'
  BY <1>7 DEF Assign
<1>8. ASSUME NEW r \in Requests, Mark(r) PROVE Shape'
  BY <1>8 DEF Mark
<1>9. ASSUME NEW r \in Requests, Load(r) PROVE Shape'
  BY <1>9 DEF Load
<1>10. ASSUME NEW r \in Requests, WriteLine(r) PROVE Shape'
  <2>1. /\ DOMAIN content' \subseteq Nat /\ Range(content') \subseteq Requests
        /\ fd[r] \in Requests /\ pos[fd[r]] \in Nat
    BY <1>10, WriteEffect
  <2>2. pos' = [pos EXCEPT ![fd[r]] = @ + 1] /\ pos' \in [Requests -> Nat]
    BY <1>10, <2>1 DEF WriteLine
  <2> QED
    BY <1>10, <2>1, <2>2 DEF WriteLine
<1>11. ASSUME NEW r \in Requests, WriteFails(r) PROVE Shape'
  BY <1>11 DEF WriteFails
<1>12. ASSUME NEW r \in Requests, CloseLog(r) PROVE Shape'
  BY <1>12 DEF CloseLog
<1>13. ASSUME NEW r \in Requests, Forget(r) PROVE Shape'
  BY <1>13 DEF Forget
<1>14. CASE UNCHANGED logVars
  BY <1>14 DEF logVars
<1> QED
  BY <1>1, <1>2, <1>3, <1>4, <1>5, <1>6, <1>7, <1>8, <1>9, <1>10, <1>11, <1>12, <1>13, <1>14 DEF Next, WriteAccessLog

(* The descriptors stay those of os.Create. *)
LEMMA NextDescriptors == Shape /\ Descriptors /\ [Next]_logVars => Descriptors'
<1> SUFFICES ASSUME Shape, Descriptors, [Next]_logVars PROVE Descriptors'
  OBVIOUS
<1> USE DEF Goto, Shape, Descriptors, Places
<1>1. ASSUME NEW r \in Requests, HandlerReturns(r) PROVE Descriptors'
  BY <1>1 DEF HandlerReturns
<1>2. ASSUME NEW r \in Requests, HandlerPanics(r) PROVE Descriptors'
  BY <1>2 DEF HandlerPanics
<1>3. ASSUME NEW r \in Requests, CheckOpen(r) PROVE Descriptors'
  BY <1>3 DEF CheckOpen
<1>4. ASSUME NEW r \in Requests, CheckAttempted(r) PROVE Descriptors'
  BY <1>4 DEF CheckAttempted
<1>5. ASSUME NEW r \in Requests, Create(r) PROVE Descriptors'
  BY <1>5 DEF Create
<1>6. ASSUME NEW r \in Requests, CreateFails(r) PROVE Descriptors'
  BY <1>6 DEF CreateFails
<1>7. ASSUME NEW r \in Requests, Assign(r) PROVE Descriptors'
  BY <1>7 DEF Assign
<1>8. ASSUME NEW r \in Requests, Mark(r) PROVE Descriptors'
  BY <1>8 DEF Mark
<1>9. ASSUME NEW r \in Requests, Load(r) PROVE Descriptors'
  BY <1>9 DEF Load
<1>10. ASSUME NEW r \in Requests, WriteLine(r) PROVE Descriptors'
  BY <1>10 DEF WriteLine
<1>11. ASSUME NEW r \in Requests, WriteFails(r) PROVE Descriptors'
  BY <1>11 DEF WriteFails
<1>12. ASSUME NEW r \in Requests, CloseLog(r) PROVE Descriptors'
  BY <1>12 DEF CloseLog
<1>13. ASSUME NEW r \in Requests, Forget(r) PROVE Descriptors'
  BY <1>13 DEF Forget
<1>14. CASE UNCHANGED logVars
  BY <1>14 DEF logVars
<1> QED
  BY <1>1, <1>2, <1>3, <1>4, <1>5, <1>6, <1>7, <1>8, <1>9, <1>10, <1>11, <1>12, <1>13, <1>14 DEF Next, WriteAccessLog

(* Lines are where their requests left them. *)
LEMMA NextProgress == Shape /\ Progress /\ [Next]_logVars => Progress'
<1> SUFFICES ASSUME Shape, Progress, [Next]_logVars PROVE Progress'
  OBVIOUS
<1> USE DEF Goto, Shape, Progress, Places
<1>1. ASSUME NEW r \in Requests, HandlerReturns(r) PROVE Progress'
  BY <1>1 DEF HandlerReturns
<1>2. ASSUME NEW r \in Requests, HandlerPanics(r) PROVE Progress'
  BY <1>2 DEF HandlerPanics
<1>3. ASSUME NEW r \in Requests, CheckOpen(r) PROVE Progress'
  BY <1>3 DEF CheckOpen
<1>4. ASSUME NEW r \in Requests, CheckAttempted(r) PROVE Progress'
  BY <1>4 DEF CheckAttempted
<1>5. ASSUME NEW r \in Requests, Create(r) PROVE Progress'
  BY <1>5, EmptyFile DEF Create
<1>6. ASSUME NEW r \in Requests, CreateFails(r) PROVE Progress'
  BY <1>6 DEF CreateFails
<1>7. ASSUME NEW r \in Requests, Assign(r) PROVE Progress'
  BY <1>7 DEF Assign
<1>8. ASSUME NEW r \in Requests, Mark(r) PROVE Progress'
  BY <1>8 DEF Mark
<1>9. ASSUME NEW r \in Requests, Load(r) PROVE Progress'
  BY <1>9 DEF Load
<1>10. ASSUME NEW r \in Requests, WriteLine(r) PROVE Progress'
  <2>1. Range(content') \subseteq Range(content) \cup {r}
    BY <1>10, WriteEffect
  <2> QED
    BY <1>10, <2>1 DEF WriteLine
<1>11. ASSUME NEW r \in Requests, WriteFails(r) PROVE Progress'
  BY <1>11 DEF WriteFails
<1>12. ASSUME NEW r \in Requests, CloseLog(r) PROVE Progress'
  BY <1>12 DEF CloseLog
<1>13. ASSUME NEW r \in Requests, Forget(r) PROVE Progress'
  BY <1>13 DEF Forget
<1>14. CASE UNCHANGED logVars
  BY <1>14 DEF logVars
<1> QED
  BY <1>1, <1>2, <1>3, <1>4, <1>5, <1>6, <1>7, <1>8, <1>9, <1>10, <1>11, <1>12, <1>13, <1>14 DEF Next, WriteAccessLog

(* A step moves one request, which is not done, and leaves the place and the *)
(* descriptor of the others. Only the last steps of opening leave it.        *)
Moved(r) ==
    /\ pc[r] # "done"
    /\ \A x \in Requests \ {r} : pc'[x] = pc[x] /\ fd'[x] = fd[x]
    /\ pc[r] \in {"create", "assign"} => pc'[r] \in {"assign", "mark"}
    /\ pc[r] = "mark" /\ fd[r] = Nil => r \in openFailed'
    /\ created \subseteq created' /\ openFailed \subseteq openFailed'

(* Every step is of this kind. *)
LEMMA OneMoves ==
    ASSUME Shape, [Next]_logVars
    PROVE  (\E r \in Requests : Moved(r)) \/ UNCHANGED logVars
<1> USE DEF Shape, Goto, Moved
<1>1. ASSUME NEW r \in Requests, HandlerReturns(r) PROVE Moved(r)
  BY <1>1 DEF HandlerReturns
<1>2. ASSUME NEW r \in Requests, HandlerPanics(r) PROVE Moved(r)
  BY <1>2 DEF HandlerPanics
<1>3. ASSUME NEW r \in Requests, CheckOpen(r) PROVE Moved(r)
  BY <1>3 DEF CheckOpen
<1>4. ASSUME NEW r \in Requests, CheckAttempted(r) PROVE Moved(r)
  BY <1>4 DEF CheckAttempted
<1>5. ASSUME NEW r \in Requests, Create(r) PROVE Moved(r)
  BY <1>5 DEF Create
<1>6. ASSUME NEW r \in Requests, CreateFails(r) PROVE Moved(r)
  BY <1>6 DEF CreateFails
<1>7. ASSUME NEW r \in Requests, Assign(r) PROVE Moved(r)
  BY <1>7 DEF Assign
<1>8. ASSUME NEW r \in Requests, Mark(r) PROVE Moved(r)
  BY <1>8 DEF Mark
<1>9. ASSUME NEW r \in Requests, Load(r) PROVE Moved(r)
  BY <1>9 DEF Load
<1>10. ASSUME NEW r \in Requests, WriteLine(r) PROVE Moved(r)
  BY <1>10 DEF WriteLine
<1>11. ASSUME NEW r \in Requests, WriteFails(r) PROVE Moved(r)
  BY <1>11 DEF WriteFails
<1>12. ASSUME NEW r \in Requests, CloseLog(r) PROVE Moved(r)
  BY <1>12 DEF CloseLog
<1>13. ASSUME NEW r \in Requests, Forget(r) PROVE Moved(r)
  BY <1>13 DEF Forget
<1> HIDE DEF Shape, Goto, Moved
<1> QED
  BY <1>1, <1>2, <1>3, <1>4, <1>5, <1>6, <1>7, <1>8, <1>9, <1>10, <1>11, <1>12, <1>13 DEF Next, WriteAccessLog

(* A request that is done stays so and keeps its descriptor. *)
LEMMA DoneIsFinal ==
    ASSUME Shape, [Next]_logVars
    PROVE  \A r \in Requests : pc[r] = "done" => pc'[r] = "done" /\ fd'[r] = fd[r]
<1>1. ASSUME NEW q \in Requests, Moved(q) PROVE \A r \in Requests : pc[r] = "done" => pc'[r] = "done" /\ fd'[r] = fd[r]
  BY <1>1 DEF Moved
<1>2. CASE UNCHANGED logVars
  BY <1>2 DEF logVars
<1> QED
  BY <1>1, <1>2, OneMoves

(* So the requests that went through a descriptor only become more. *)
LEMMA ThroughGrows ==
    ASSUME Shape, [Next]_logVars, NEW d
    PROVE  Cardinality(Through(d)) \in Nat /\ Cardinality(Through(d)') \in Nat
           /\ Cardinality(Through(d)) <= Cardinality(Through(d)')
<1>1. Through(d) \subseteq Through(d)' /\ Through(d)' \subseteq Requests
  BY DoneIsFinal DEF Through
<1>2. IsFiniteSet(Through(d)')
  BY <1>1, SubsetsAreFinite
<1> QED
  BY <1>1, <1>2, SubsetsAreFinite, FS_Subset

(* Descriptors do not run ahead of the requests that use them. *)
LEMMA NextPositions == Shape /\ Descriptors /\ Positions /\ [Next]_logVars => Positions'
<1> SUFFICES ASSUME Shape, Descriptors, Positions, [Next]_logVars PROVE Positions'
  OBVIOUS
<1>1. CASE UNCHANGED <<pos, content, created>>
  BY <1>1, ThroughGrows DEF Positions, Shape
<1>2. ASSUME NEW r \in Requests, Create(r) PROVE Positions'
  BY <1>2, ThroughGrows, EmptyFile DEF Positions, Shape, Create
<1>3. ASSUME NEW r \in Requests, WriteLine(r) PROVE Positions'
  <2>0. PICK d \in Requests : d = fd[r]
    BY <1>3, WriteEffect
  <2>1. /\ d \in Requests /\ pos[d] \in Nat
        /\ DOMAIN content' = DOMAIN content \cup {pos[d]}
    BY <1>3, <2>0, WriteEffect
  <2>2. d \in created /\ created' = created /\ pos' = [pos EXCEPT ![d] = @ + 1]
    BY <1>3, <2>0, RequestsAssumption DEF Descriptors, WriteLine, Nil
  <2>3. \A e \in Requests : pos'[e] = IF e = d THEN pos[e] + 1 ELSE pos[e]
    BY <2>1, <2>2 DEF Shape
  <2>4. pos'[d] <= Cardinality(Through(d)')
    <3>1. r \notin Through(d) /\ Through(d)' = Through(d) \cup {r}
      BY <1>3, <2>0 DEF Through, WriteLine, Goto, Shape
    <3>2. Through(d) \subseteq Requests
      BY DEF Through
    <3>3. IsFiniteSet(Through(d)) /\ Cardinality(Through(d)) \in Nat
      BY <3>2, SubsetsAreFinite
    <3>4. Cardinality(Through(d)') = Cardinality(Through(d)) + 1
      BY <3>1, <3>3, FS_AddElement
    <3>5. pos[d] <= Cardinality(Through(d))
      BY <2>1 DEF Positions
    <3> QED
      BY <2>1, <2>3, <3>3, <3>4, <3>5
  <2>5. \A e \in Requests : pos'[e] <= Cardinality(Through(e)')
    <3> SUFFICES ASSUME NEW e \in Requests, e # d PROVE pos'[e] <= Cardinality(Through(e)')
      BY <2>4
    <3>1. pos'[e] = pos[e] /\ pos[e] \in Nat /\ pos[e] <= Cardinality(Through(e))
      BY <2>3 DEF Positions, Shape
    <3> QED
      BY <3>1, ThroughGrows
  <2>6. \A e \in Requests \ created' : pos'[e] = 0
    BY <2>2, <2>3 DEF Positions
  <2>7. \A p \in DOMAIN content' : \E e \in created' : p < pos'[e]
    <3> SUFFICES ASSUME NEW p \in DOMAIN content' PROVE \E e \in created : p < pos'[e]
      BY <2>2
    <3>1. CASE p = pos[d]
      BY <2>1, <2>2, <2>3, <3>1
    <3>2. CASE p \in DOMAIN content
      <4>1. PICK e \in created : p < pos[e]
        BY <3>2 DEF Positions
      <4>2. e \in Requests /\ pos[e] \in Nat /\ p \in Nat
        BY <3>2 DEF Shape
      <4> QED
        BY <2>3, <4>1, <4>2
    <3> QED
      BY <2>1, <3>1, <3>2
  <2> QED
    BY <2>5, <2>6, <2>7 DEF Positions
<1> QED
  BY <1>1, <1>2, <1>3 DEF Next, WriteAccessLog, logVars, HandlerReturns, HandlerPanics, CheckOpen,
     CheckAttempted, CreateFails, Assign, Mark, Load, WriteFails, CloseLog, Forget

(* With one descriptor a write never hits a line. *)
LEMMA OneWriter ==
    ASSUME Shape, Descriptors, Positions, AtMostOne(created), NEW r \in Requests, WriteLine(r)
    PROVE  pos[fd[r]] \notin DOMAIN content
<1>1. fd[r] \in created /\ pos[fd[r]] \in Nat
  <2>1. fd[r] \in Requests /\ pos[fd[r]] \in Nat
    BY WriteEffect
  <2>2. fd[r] # Nil
    BY <2>1, RequestsAssumption DEF Nil
  <2> QED
    BY <2>1, <2>2 DEF Descriptors
<1>2. ASSUME pos[fd[r]] \in DOMAIN content PROVE FALSE
  <2>1. PICK d \in created : pos[fd[r]] < pos[d]
    BY <1>2 DEF Positions
  <2>2. d = fd[r]
    BY <1>1 DEF AtMostOne
  <2> QED
    BY <1>1, <2>1, <2>2
<1> QED
  BY <1>2

(* While there is one descriptor, every line is accounted for. *)
LEMMA NextAccounted == Shape /\ Descriptors /\ Positions /\ Progress /\ Accounted /\ [Next]_logVars => Accounted'
<1> SUFFICES ASSUME Shape, Descriptors, Positions, Progress, Accounted, [Next]_logVars PROVE Accounted'
  OBVIOUS
<1> USE DEF Goto, Accounted, Shape, Progress, Places, AtMostOne
<1>1. ASSUME NEW r \in Requests, HandlerReturns(r) PROVE Accounted'
  BY <1>1 DEF HandlerReturns
<1>2. ASSUME NEW r \in Requests, HandlerPanics(r) PROVE Accounted'
  BY <1>2 DEF HandlerPanics
<1>3. ASSUME NEW r \in Requests, CheckOpen(r) PROVE Accounted'
  BY <1>3 DEF CheckOpen
<1>4. ASSUME NEW r \in Requests, CheckAttempted(r) PROVE Accounted'
  BY <1>4 DEF CheckAttempted
<1>5. ASSUME NEW r \in Requests, Create(r) PROVE Accounted'
  <2> SUFFICES ASSUME AtMostOne(created)' PROVE Accounted'
    BY DEF Accounted
  <2>1. created' = created \cup {r} /\ r \notin created
    BY <1>5 DEF Create, Descriptors
  <2>2. created = {}
    BY <2>1
  <2>3. DOMAIN content = {}
    BY <2>2 DEF Positions
  <2>4. Range(content) = {} /\ AtMostOne(created)
    BY <2>2, <2>3 DEF Range
  <2> QED
    BY <1>5, <2>4 DEF Create
<1>6. ASSUME NEW r \in Requests, CreateFails(r) PROVE Accounted'
  BY <1>6 DEF CreateFails
<1>7. ASSUME NEW r \in Requests, Assign(r) PROVE Accounted'
  BY <1>7 DEF Assign
<1>8. ASSUME NEW r \in Requests, Mark(r) PROVE Accounted'
  BY <1>8 DEF Mark
<1>9. ASSUME NEW r \in Requests, Load(r) PROVE Accounted'
  BY <1>9 DEF Load
<1>10. ASSUME NEW r \in Requests, WriteLine(r) PROVE Accounted'
  <2> SUFFICES ASSUME AtMostOne(created) PROVE Accounted'
    BY <1>10 DEF Accounted, WriteLine
  <2>1. r \in Range(content') /\ Range(content) \subseteq Range(content')
    BY <1>10, WriteEffect, OneWriter
  <2> QED
    BY <1>10, <2>1 DEF WriteLine
<1>11. ASSUME NEW r \in Requests, WriteFails(r) PROVE Accounted'
  BY <1>11 DEF WriteFails
<1>12. ASSUME NEW r \in Requests, CloseLog(r) PROVE Accounted'
  BY <1>12 DEF CloseLog
<1>13. ASSUME NEW r \in Requests, Forget(r) PROVE Accounted'
  BY <1>13 DEF Forget
<1>14. CASE UNCHANGED logVars
  BY <1>14 DEF logVars
<1> QED
  BY <1>1, <1>2, <1>3, <1>4, <1>5, <1>6, <1>7, <1>8, <1>9, <1>10, <1>11, <1>12, <1>13, <1>14 DEF Next, WriteAccessLog

(* A request that tried to open the file counts as an opener for good. *)
LEMMA OpenersGrow ==
    ASSUME Shape, Descriptors, Progress, [Next]_logVars
    PROVE  Openers \subseteq Openers' /\ Openers' \subseteq Requests
           /\ (AtMostOne(Openers)' => AtMostOne(Openers))
<1>1. Openers \subseteq Openers'
  <2>1. created \subseteq created' /\ openFailed \subseteq openFailed'
    BY OneMoves DEF Moved, logVars
  <2>2. ASSUME NEW x \in Requests, pc[x] \in {"create", "assign"}
        PROVE  pc'[x] \in {"create", "assign", "mark"}
    BY <2>2, OneMoves DEF Moved, logVars
  <2>3. ASSUME NEW x \in Requests, pc[x] = "mark"
        PROVE  x \in created \cup openFailed' \/ pc'[x] = "mark"
    <3>1. fd[x] = Nil \/ x \in created
      BY <2>3 DEF Descriptors
    <3>2. fd[x] = Nil => x \in openFailed' \/ pc'[x] = "mark"
      BY <2>3, OneMoves DEF Moved, logVars
    <3> QED
      BY <3>1, <3>2
  <2> QED
    BY <2>1, <2>2, <2>3 DEF Openers
<1>2. Openers' \subseteq Requests
  BY NextShape DEF Shape, Openers
<1> QED
  BY <1>1, <1>2 DEF AtMostOne

(* With one opener, giving up the log is for good. *)
LEMMA NextOneOpener == Shape /\ Descriptors /\ Progress /\ OneOpener /\ [Next]_logVars => OneOpener'
<1> SUFFICES ASSUME Shape, Descriptors, Progress, OneOpener, [Next]_logVars PROVE OneOpener'
  OBVIOUS
<1> USE DEF Goto, OneOpener, Shape, Progress, Descriptors, Places, Past, GivenUp
<1>1. ASSUME NEW r \in Requests, HandlerReturns(r) PROVE OneOpener'
  BY <1>1, OpenersGrow DEF HandlerReturns
<1>2. ASSUME NEW r \in Requests, HandlerPanics(r) PROVE OneOpener'
  BY <1>2, OpenersGrow DEF HandlerPanics
<1>3. ASSUME NEW r \in Requests, CheckOpen(r) PROVE OneOpener'
  <2>1. CASE accessLog = Nil
    BY <1>3, <2>1, OpenersGrow DEF CheckOpen
  <2>2. CASE accessLog # Nil
    <3>1. AtMostOne(Openers) => \A q \in Requests : pc[q] \notin {"create", "assign"}
      BY <2>2 DEF AtMostOne, Openers
    <3>2. accessLog \in created
      BY <2>2
    <3>3. /\ pc[r] = "log" /\ pc' = [pc EXCEPT ![r] = "load"]
          /\ UNCHANGED <<accessLog, closed, fd, created, writeFailed, late>>
      BY <1>3, <2>2 DEF CheckOpen
    <3>4. \A q \in Requests : Past(q)' => Past(q) \/ q = r
      BY <3>3
    <3>5. GivenUp' => GivenUp
      BY <3>3
    <3>6. \A q \in Requests : pc'[q] \in {"create", "assign", "forget"} => pc[q] = pc'[q]
      BY <3>3
    <3> QED
      BY <2>2, <3>1, <3>2, <3>3, <3>4, <3>5, <3>6, OpenersGrow
  <2> QED
    BY <2>1, <2>2
<1>4. ASSUME NEW r \in Requests, CheckAttempted(r) PROVE OneOpener'
  <2>1. ASSUME pc'[r] = "create", AtMostOne(Openers)' PROVE created = {}
    <3>1. r \notin created /\ r \in Openers' /\ created \subseteq Openers'
      BY <1>4, <2>1 DEF CheckAttempted, Openers
    <3> QED
      BY <2>1, <3>1 DEF AtMostOne
  <2>2. /\ pc[r] = "checkAttempted" /\ pc'[r] \in {"done", "create"} /\ pc' = [pc EXCEPT ![r] = pc'[r]]
        /\ UNCHANGED <<accessLog, closed, fd, created, writeFailed, late>>
    BY <1>4 DEF CheckAttempted
  <2> QED
    BY <2>1, <2>2, OpenersGrow
<1>5. ASSUME NEW r \in Requests, Create(r) PROVE OneOpener'
  BY <1>5, OpenersGrow DEF Create
<1>6. ASSUME NEW r \in Requests, CreateFails(r) PROVE OneOpener'
  BY <1>6, OpenersGrow DEF CreateFails
<1>7. ASSUME NEW r \in Requests, Assign(r) PROVE OneOpener'
  <2>1. /\ pc[r] = "assign" /\ pc' = [pc EXCEPT ![r] = "mark"] /\ accessLog' = fd[r]
        /\ UNCHANGED <<closed, fd, created, writeFailed, late>>
    BY <1>7 DEF Assign
  <2>2. AtMostOne(Openers) => \A q \in Requests : pc[q] \in {"create", "assign"} => q = r
    BY <2>1 DEF AtMostOne, Openers
  <2>3. AtMostOne(Openers) => \A q \in Requests : ~Past(q)
    BY <2>1
  <2> QED
    BY <2>1, <2>2, <2>3, OpenersGrow
<1>8. ASSUME NEW r \in Requests, Mark(r) PROVE OneOpener'
  BY <1>8, OpenersGrow DEF Mark
<1>9. ASSUME NEW r \in Requests, Load(r) PROVE OneOpener'
  BY <1>9, OpenersGrow DEF Load
<1>10. ASSUME NEW r \in Requests, WriteLine(r) PROVE OneOpener'
  BY <1>10, OpenersGrow DEF WriteLine
<1>11. ASSUME NEW r \in Requests, WriteFails(r) PROVE OneOpener'
  BY <1>11, OpenersGrow DEF WriteFails
<1>12. ASSUME NEW r \in Requests, CloseLog(r) PROVE OneOpener'
  BY <1>12, OpenersGrow DEF CloseLog
<1>13. ASSUME NEW r \in Requests, Forget(r) PROVE OneOpener'
  <2>1. /\ pc[r] = "forget" /\ pc' = [pc EXCEPT ![r] = "done"] /\ accessLog' = Nil
        /\ UNCHANGED <<closed, fd, created, writeFailed, late>>
    BY <1>13 DEF Forget
  <2>2. AtMostOne(Openers) => created \subseteq closed
    <3>1. CASE accessLog = Nil
      BY <2>1, <3>1
    <3>2. CASE accessLog # Nil
      BY <2>1, <3>2 DEF AtMostOne, Openers
    <3> QED
      BY <3>1, <3>2
  <2>3. \A q \in Requests : Past(q)' => Past(q)
    BY <2>1
  <2> QED
    BY <2>1, <2>2, <2>3, OpenersGrow
<1>14. CASE UNCHANGED logVars
  BY <1>14, OpenersGrow DEF logVars
<1> QED
  BY <1>1, <1>2, <1>3, <1>4, <1>5, <1>6, <1>7, <1>8, <1>9, <1>10, <1>11, <1>12, <1>13, <1>14 DEF Next, WriteAccessLog

(* Every reachable state satisfies the inductive invariant. *)
THEOREM Invariance == Spec => []IInv
<1>1. IInv /\ [Next]_logVars => IInv'
  BY NextShape, NextDescriptors, NextPositions, NextProgress, NextAccounted, NextOneOpener DEF IInv
<1> QED
  BY <1>1, InitIInv, PTL DEF Spec

(* Descriptors and file are bounded by the number of requests: a request writes *)
(* its line at most once.                                                       *)
THEOREM TypeCorrect == Spec => []TypeOK
<1>1. IInv => TypeOK
  <2> SUFFICES ASSUME IInv PROVE TypeOK
    OBVIOUS
  <2>1. \A d \in Requests : pos[d] \in 0..Cardinality(Requests)
    <3> SUFFICES ASSUME NEW d \in Requests PROVE pos[d] \in 0..Cardinality(Requests)
      OBVIOUS
    <3>1. Through(d) \subseteq Requests
      BY DEF Through
    <3>2. /\ Cardinality(Through(d)) \in Nat /\ Cardinality(Requests) \in Nat
          /\ Cardinality(Through(d)) <= Cardinality(Requests)
      BY <3>1, SubsetsAreFinite
    <3>3. pos[d] \in Nat /\ pos[d] <= Cardinality(Through(d))
      BY DEF IInv, Shape, Positions
    <3> QED
      BY <3>2, <3>3
  <2>2. pos \in [Requests -> 0..Cardinality(Requests)]
    BY <2>1 DEF IInv, Shape
  <2>3. DOMAIN content \subseteq 0..Cardinality(Requests)
    <3> SUFFICES ASSUME NEW p \in DOMAIN content PROVE p \in 0..Cardinality(Requests)
      OBVIOUS
    <3>1. PICK d \in created : p < pos[d]
      BY DEF IInv, Positions
    <3>2. p \in Nat /\ d \in Requests
      BY DEF IInv, Shape
    <3>3. Cardinality(Requests) \in Nat
      BY SubsetsAreFinite
    <3> QED
      BY <2>1, <3>1, <3>2, <3>3
  <2> QED
    BY <2>2, <2>3 DEF IInv, Shape, Places, TypeOK
<1> QED
  BY <1>1, Invariance, PTL

(* No line is lost silently while one os.Create has succeeded: its writes are the *)
(* only ones, and every one of them finds its position free.                     *)
THEOREM EveryLineAccountedFor == Spec => []LinesAccountedFor
<1>1. IInv => LinesAccountedFor
  BY SubsetsAreFinite, AtMostOneElement DEF IInv, Shape, Accounted, LinesAccountedFor
<1> QED
  BY <1>1, Invariance, PTL

(* "no more access log will be written!" is true when one request tried to open *)
(* the file: it is closed before it is forgotten.                               *)
THEOREM GivingUpIsFinal == Spec => []NoLineAfterGivingUp
<1>1. IInv => NoLineAfterGivingUp
  <2>1. IInv => Openers \subseteq Requests
    BY DEF IInv, Shape, Openers
  <2> QED
    BY <2>1, SubsetsAreFinite, AtMostOneElement DEF IInv, OneOpener, NoLineAfterGivingUp
<1> QED
  BY <1>1, Invariance, PTL

(* A step of a settled log: nobody opens, so attemptedAccessLogOpen does what it is *)
(* for, and a descriptor is closed before the variable that holds it is cleared.    *)
LEMMA SettledStep == Shape /\ Settled /\ [Next]_logVars => Settled'
<1> SUFFICES ASSUME Shape, Settled, [Next]_logVars PROVE Settled'
  OBVIOUS
<1> USE DEF Goto, Settled, Shape
<1>1. ASSUME NEW r \in Requests, CheckOpen(r) \/ CheckAttempted(r) PROVE Settled'
  <2>1. CASE CheckOpen(r)
    BY <2>1 DEF CheckOpen
  <2>2. CASE CheckAttempted(r)
    BY <2>2 DEF CheckAttempted
  <2> QED
    BY <1>1, <2>1, <2>2
<1>2. ASSUME NEW r \in Requests, Load(r) PROVE Settled'
  BY <1>2 DEF Load
<1>3. ASSUME NEW r \in Requests, WriteLine(r) \/ WriteFails(r) PROVE Settled'
  <2>1. /\ \E to \in {"done", "close"} : pc' = [pc EXCEPT ![r] = to]
        /\ UNCHANGED <<attempted, accessLog, closed, fd>>
    BY <1>3 DEF WriteLine, WriteFails
  <2> QED
    BY <2>1
<1>4. ASSUME NEW r \in Requests, CloseLog(r) PROVE Settled'
  BY <1>4 DEF CloseLog
<1>5. ASSUME NEW r \in Requests, Forget(r) PROVE Settled'
  BY <1>5 DEF Forget
<1>6. ASSUME NEW r \in Requests, HandlerReturns(r) \/ HandlerPanics(r) PROVE Settled'
  BY <1>6 DEF HandlerReturns, HandlerPanics
<1>7. ASSUME NEW r \in Requests, Create(r) \/ CreateFails(r) \/ Assign(r) \/ Mark(r) PROVE Settled'
  BY <1>7 DEF Create, CreateFails, Assign, Mark
<1>8. CASE UNCHANGED logVars
  BY <1>8 DEF logVars
<1> QED
  BY <1>1, <1>2, <1>3, <1>4, <1>5, <1>6, <1>7, <1>8 DEF Next, WriteAccessLog

(* Once the attempt to open is behind everybody, the file only grows, and only *)
(* while the log is open.                                                      *)
THEOREM SettlesForGood == Spec => SettledForGood
<1> DEFINE Grows == /\ DOMAIN content \subseteq DOMAIN content'
                    /\ accessLog = Nil => content' = content
                    /\ Cardinality(created) = 1 => Kept(content, content')
<1>1. ASSUME IInv, Settled, [Next]_logVars PROVE Grows
  <2>1. CASE UNCHANGED content
    BY <2>1 DEF Kept
  <2>2. ASSUME NEW r \in Requests, WriteLine(r) PROVE Grows
    <3>1. DOMAIN content \subseteq DOMAIN content'
      BY <1>1, <2>2, WriteEffect DEF IInv
    <3>2. accessLog # Nil
      BY <1>1, <2>2 DEF Settled, WriteLine, Goto
    <3>3. ASSUME Cardinality(created) = 1 PROVE Kept(content, content')
      <4>1. AtMostOne(created)
        BY <1>1, <3>3, SubsetsAreFinite, AtMostOneElement DEF IInv, Shape
      <4> QED
        BY <1>1, <2>2, <4>1, OneWriter, WriteEffect DEF IInv
    <3> QED
      BY <3>1, <3>2, <3>3
  <2>3. ASSUME NEW r \in Requests PROVE ~Create(r)
    BY <1>1 DEF Settled, Create, Goto
  <2> QED
    BY <1>1, <2>1, <2>2, <2>3 DEF Next, WriteAccessLog, logVars, HandlerReturns, HandlerPanics, CheckOpen,
       CheckAttempted, CreateFails, Assign, Mark, Load, WriteFails, CloseLog, Forget
<1>2. IInv /\ [Next]_logVars => [Settled => Settled' /\ Grows]_logVars
  BY <1>1, SettledStep DEF IInv
<1> QED
  BY <1>2, Invariance, PTL DEF Spec, SettledForGood

-----------------------------------------------------------------------------
(* LineOf, by cases. *)
Reported == openFailed \cup writeFailed

LineCases(r) ==
    /\ r \in Range(content) => LineOf(r) = "file"
    /\ r \notin Range(content) /\ r \in fallback => LineOf(r) = "logger"
    /\ r \notin Range(content) \cup fallback /\ r \in Reported => LineOf(r) = "reported"
    /\ r \notin Range(content) \cup fallback \cup Reported /\ pc[r] = "done" => LineOf(r) = "gone"
    /\ r \notin Range(content) \cup fallback \cup Reported /\ pc[r] # "done" => LineOf(r) = "none"

LEMMA LineOfCases == \A r \in Requests : LineCases(r)
BY DEF LineCases, LineOf, Reported

(* The same of the next state. *)
LEMMA LineOfCasesNext == (\A r \in Requests : LineCases(r))'
BY LineOfCases, PTL

(* The mapped state changes where the lines are, or nowhere. *)
LEMMA SameLines ==
    ASSUME \A q \in Requests : LineOf(q)' = LineOf(q), UNCHANGED created
    PROVE  UNCHANGED LL!lineVars
BY DEF LL!lineVars

(* Opening the file is LineLog's OpenFile. *)
LEMMA CreateIsOpen ==
    ASSUME IInv, NEW r \in Requests, Create(r)
    PROVE  LL!OpenFile
<1>1. /\ r \notin created /\ created' = created \cup {r} /\ Range(content') = {}
      /\ pc[r] = "create" /\ pc' = [pc EXCEPT ![r] = "assign"]
      /\ UNCHANGED <<fallback, openFailed, writeFailed>>
  BY EmptyFile DEF IInv, Descriptors, Create, Goto
<1>2. Cardinality(created') = Cardinality(created) + 1
  BY <1>1, SubsetsAreFinite, FS_AddElement DEF IInv, Shape
<1>3. ASSUME NEW q \in Requests
      PROVE  LineOf(q)' = IF LineOf(q) = "file" THEN "gone" ELSE LineOf(q)
  BY <1>1, LineOfCases, LineOfCasesNext DEF LineCases, Reported, IInv, Shape, Progress
<1> QED
  BY <1>2, <1>3 DEF LL!OpenFile, LL!InFile

(* A write of a line is LineLog's WriteLine; what it overwrites was written *)
(* through another descriptor.                                              *)
LEMMA WriteIsWrite ==
    ASSUME IInv, NEW r \in Requests, WriteLine(r)
    PROVE  LL!WriteLine(r)
<1> DEFINE lost == {q \in Requests : q \in Range(content) /\ q \notin Range(content')}
<1>1. /\ pc[r] = "write" /\ pc' = [pc EXCEPT ![r] = "done"]
      /\ UNCHANGED <<created, fallback, openFailed, writeFailed>>
  BY DEF WriteLine, Goto
<1>2. Range(content') \subseteq Range(content) \cup {r} /\ r \in Range(content') /\ fd[r] \in created
  <2>1. /\ Range(content') \subseteq Range(content) \cup {r} /\ r \in Range(content')
        /\ fd[r] \in Requests
    BY WriteEffect DEF IInv
  <2>2. fd[r] # Nil
    BY <2>1, RequestsAssumption DEF Nil
  <2> QED
    BY <2>1, <2>2 DEF IInv, Descriptors
<1>3. LineOf(r) = "none"
  BY <1>1, LineOfCases DEF LineCases, Reported, IInv, Progress
<1>4. ASSUME NEW q \in Requests
      PROVE  LineOf(q)' = IF q = r THEN "file" ELSE IF q \in lost THEN "gone" ELSE LineOf(q)
  BY <1>1, <1>2, LineOfCases, LineOfCasesNext DEF LineCases, Reported, IInv, Shape, Progress
<1>5. \A q \in lost : LineOf(q) = "file"
  BY LineOfCases DEF LineCases
<1>6. IsFiniteSet(created) /\ Cardinality(created) \in Nat
  BY SubsetsAreFinite DEF IInv, Shape
<1>7. Cardinality(created) > 0
  BY <1>2, <1>6, FS_EmptySet
<1>8. lost # {} => Cardinality(created) > 1
  <2>1. AtMostOne(created) => lost = {}
    BY OneWriter, WriteEffect DEF IInv
  <2> QED
    BY <1>6, <2>1, AtMostOneElement
<1> HIDE DEF lost
<1>9. lost \in SUBSET LL!InFile
  BY <1>5 DEF LL!InFile, lost
<1>10. LL!Place(r, "file", lost)
  BY <1>4 DEF LL!Place
<1> QED
  BY <1>1, <1>3, <1>7, <1>8, <1>9, <1>10 DEF LL!WriteLine

(* A line that does not get to the file is diverted. *)
LEMMA OtherLinesStay ==
    ASSUME NEW r \in Requests, LineOf(r) = "none", LineOf(r)' \in {"logger", "reported"},
           \A q \in Requests \ {r} : LineOf(q)' = LineOf(q), UNCHANGED created
    PROVE  LL!DivertLine(r)
<1>1. LL!Place(r, LineOf(r)', {})
  BY DEF LL!Place
<1> QED
  BY <1>1 DEF LL!DivertLine

(* The initial state of the access log is that of LineLog. *)
LEMMA InitLines == LogInit => LL!LineInit
<1> SUFFICES ASSUME LogInit PROVE LL!LineInit
  OBVIOUS
<1>1. \A r \in Requests : LineOf(r) = "none"
  BY LineOfCases, EmptyFile DEF LineCases, LogInit, Reported
<1>2. Cardinality(created) = 0
  BY FS_EmptySet DEF LogInit
<1> QED
  BY <1>1, <1>2 DEF LL!LineInit

(* Every step moves the lines as LineLog says, or not at all. *)
LEMMA StepLines == IInv /\ [Next]_logVars => [\E r \in Requests : LL!LogStep(r)]_(LL!lineVars)
<1> SUFFICES ASSUME IInv, [Next]_logVars
             PROVE  (\E r \in Requests : LL!LogStep(r)) \/ UNCHANGED LL!lineVars
  OBVIOUS
<1> USE LineOfCases, LineOfCasesNext DEF LineCases, Reported, IInv, Shape, Progress, Goto
<1>1. ASSUME NEW r \in Requests, Create(r) PROVE \E q \in Requests : LL!LogStep(q)
  BY <1>1, CreateIsOpen DEF LL!LogStep
<1>2. ASSUME NEW r \in Requests, WriteLine(r) PROVE \E q \in Requests : LL!LogStep(q)
  BY <1>2, WriteIsWrite DEF LL!LogStep
<1>3. ASSUME NEW r \in Requests, CheckAttempted(r), ~HasPath \/ attempted
      PROVE  LL!DivertLine(r)
  <2>1. LineOf(r) = "none" /\ LineOf(r)' = "logger"
    BY <1>3 DEF CheckAttempted
  <2>2. \A q \in Requests \ {r} : LineOf(q)' = LineOf(q)
    BY <1>3 DEF CheckAttempted
  <2> QED
    BY <1>3, <2>1, <2>2, OtherLinesStay DEF CheckAttempted
<1>4. ASSUME NEW r \in Requests, Mark(r), fd[r] = Nil
      PROVE  LL!DivertLine(r)
  <2>1. LineOf(r) = "none" /\ LineOf(r)' = "reported"
    BY <1>4 DEF Mark
  <2>2. \A q \in Requests \ {r} : LineOf(q)' = LineOf(q)
    BY <1>4 DEF Mark
  <2> QED
    BY <1>4, <2>1, <2>2, OtherLinesStay DEF Mark
<1>5. ASSUME NEW r \in Requests, WriteFails(r)
      PROVE  LL!DivertLine(r)
  <2>1. LineOf(r) = "none" /\ LineOf(r)' = "reported"
    BY <1>5 DEF WriteFails
  <2>2. \A q \in Requests \ {r} : LineOf(q)' = LineOf(q)
    BY <1>5 DEF WriteFails
  <2> QED
    BY <1>5, <2>1, <2>2, OtherLinesStay DEF WriteFails
<1>6. ASSUME NEW r \in Requests,
             \/ HandlerReturns(r) \/ HandlerPanics(r) \/ CheckOpen(r) \/ CreateFails(r) \/ Assign(r)
             \/ Load(r) \/ CloseLog(r) \/ Forget(r)
             \/ CheckAttempted(r) /\ HasPath /\ ~attempted
             \/ Mark(r) /\ fd[r] # Nil
      PROVE  UNCHANGED LL!lineVars
  <2>1. /\ UNCHANGED <<content, created, fallback, openFailed, writeFailed>>
        /\ \A q \in Requests \ writeFailed : pc'[q] = "done" <=> pc[q] = "done"
    BY <1>6 DEF HandlerReturns, HandlerPanics, CheckOpen, CreateFails, Assign, Load, CloseLog, Forget,
               CheckAttempted, Mark
  <2>2. \A q \in Requests : LineOf(q)' = LineOf(q)
    BY <2>1
  <2> QED
    BY <2>1, <2>2, SameLines
<1>7. CASE UNCHANGED logVars
  <2>1. \A q \in Requests : LineOf(q)' = LineOf(q)
    BY <1>7 DEF logVars
  <2> QED
    BY <1>7, <2>1, SameLines DEF logVars
<1>8. HasPath \in BOOLEAN
  BY RequestsAssumption
<1> QED
  BY <1>1, <1>2, <1>3, <1>4, <1>5, <1>6, <1>7, <1>8 DEF Next, WriteAccessLog, LL!LogStep

(* writeAccessLog implements LineLog, on which the server is specified. *)
THEOREM Refinement == Spec => ImplementsLineLog
BY InitLines, StepLines, Invariance, PTL DEF Spec, ImplementsLineLog, LL!LineSpec

===============================================================================
