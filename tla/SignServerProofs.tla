--------------------------- MODULE SignServerProofs ---------------------------
(***************************************************************************)
(* The safety properties of SignServer, for any number of requests, any    *)
(* mix of routes, every set of configuration files and launches, and any   *)
(* number of key replacements.                                             *)
(***************************************************************************)
EXTENDS SignServer, TLAPS

StageNames == {"none", "connected", "closed", "token", "parse", "register", "store", "key", "sign", "arch", "file",
               "mux", "respond", "log", "done", "panicked"}
Statuses == {200, 400, 403, 404, 500}
Ends == {"printed", "refused", "listenFailed", "stopped", "timedOut", "aborted"}

(* The types of the variables; config is left to ConfigInv. *)
TypeOK ==
    /\ line \in [Requests -> Places] /\ opens \in Nat
    /\ call \in [Requests -> Calls]
    /\ at \in [Requests -> StageNames]
    /\ body \in [Requests -> BOOLEAN]
    /\ todo \in [Requests -> Seq(Tag)]
    /\ tags \subseteq Tag
    /\ key \in Nat
    /\ used \in [Requests -> Nat] /\ oldest \in [Requests -> Nat]
    /\ sent \in [Requests -> Statuses \cup {0}]
    /\ full \in [Requests -> BOOLEAN]
    /\ status \in [Requests -> Statuses]
    /\ server \in {"starting", "up", "stopping"} \cup Ends

(* The stages belong to the routes, and a tag is registered for a lookup that *)
(* is not over.                                                               *)
RouteInv ==
    \A r \in Requests :
        /\ at[r] \in {"token", "key", "sign"} => Signing(r)
        /\ at[r] \in {"parse", "register", "store"} => call[r].endpoint = "signRpmHeader"
        /\ at[r] = "arch" => call[r].endpoint = "clientDownload"
        /\ at[r] = "file" => call[r].endpoint \in {"publicKey", "clientDownload"}
        /\ at[r] \in {"register", "store"} => todo[r] # <<>>

(* Nothing is accepted before the configuration is there, and it has a token. *)
ConfigInv ==
    /\ server \in {"starting", "printed", "refused"} => \A r \in Requests : at[r] = "none"
    /\ server \notin {"starting", "printed", "refused"} => config["api_signing_token"] # None

(* A request has a status exactly when its handler is through. *)
AnswerInv ==
    \A r \in Requests :
        /\ (sent[r] # 0) <=> (at[r] \in {"log", "done"})
        /\ at[r] \notin {"log", "done"} => ~full[r]

(* What the stages behind the token and the key rely on. *)
BehindToken(r) == at[r] \in {"parse", "register", "store", "key", "sign", "respond"} \/ sent[r] = 200
BehindKey(r)   == at[r] \in {"sign", "respond"} \/ sent[r] = 200

TokenInv == \A r \in Requests : Signing(r) /\ BehindToken(r) => TokenMatches(r)

KeyInv ==
    \A r \in Requests :
        /\ oldest[r] <= key
        /\ Signing(r) /\ BehindKey(r) => oldest[r] <= used[r] /\ used[r] <= key

(* A request that is done has got rid of its line; a line is in the file only *)
(* after the file was opened, and out of it only after it was opened again.   *)
LineInv ==
    \A r \in Requests :
        /\ at[r] = "done" => line[r] # "none"
        /\ line[r] = "file" => opens > 0
        /\ line[r] = "gone" => opens > 1

(* Shutdown has returned nil: no handler is running. *)
StoppedInv == server = "stopped" => \A r \in Requests : ~Busy(r)

IInv ==
    /\ TypeOK /\ RouteInv /\ ConfigInv /\ AnswerInv
    /\ TokenInv /\ KeyInv /\ LogShowsStatusSent /\ LineInv /\ StoppedInv

-----------------------------------------------------------------------------
(* The stages of the five routes, one after the other. *)
LEMMA StageOrder ==
    /\ After("signRpmHeader", "token") = "parse" /\ After("signDetached", "token") = "key"
    /\ After("signRpmHeader", "parse") = "key"
    /\ After("signRpmHeader", "key") = "sign" /\ After("signDetached", "key") = "sign"
    /\ After("clientDownload", "arch") = "file"
    /\ After("clientDownload", "file") = "respond" /\ After("publicKey", "file") = "respond"
<1>1. /\ Stages("signRpmHeader") = <<"token", "parse", "key", "sign", "respond">>
      /\ Stages("signDetached") = <<"token", "key", "sign", "respond">>
      /\ Stages("publicKey") = <<"file", "respond">>
      /\ Stages("clientDownload") = <<"arch", "file", "respond">>
  BY DEF Stages
<1> QED
  BY <1>1 DEF After

(* The mux hands a request to the first stage of its route. *)
LEMMA FirstStage ==
    ASSUME NEW e \in STRING
    PROVE  LET s == Stages(e)[1]
           IN  /\ s \in {"token", "arch", "file", "respond", "mux"}
               /\ s = "token" <=> e \in {"signRpmHeader", "signDetached"}
               /\ s = "arch" => e = "clientDownload"
               /\ s = "file" => e = "publicKey"
               /\ s = "respond" => e = "info"
BY DEF Stages

(* Every error has a status of its own, and none of them is 200. *)
LEMMA ErrorStatus == \A stage : ErrorOf(stage) \in Statuses \ {200}
BY DEF ErrorOf, Statuses

(* A step of the log keeps what the places of the lines say about the file. *)
LEMMA LogStepLines ==
    ASSUME NEW r \in Requests, line \in [Requests -> Places], opens \in Nat, LineInv, LogStep(r)
    PROVE  /\ line' \in [Requests -> Places] /\ opens' \in Nat
           /\ \A q \in Requests : /\ line'[q] = "file" => opens' > 0
                                  /\ line'[q] = "gone" => opens' > 1
                                  /\ line[q] # "none" => line'[q] # "none"
<1>1. CASE OpenFile
  BY <1>1 DEF OpenFile, InFile, Places, LineInv
<1>2. CASE WriteLine(r)
  BY <1>2 DEF WriteLine, Place, InFile, Places, LineInv
<1>3. CASE DivertLine(r)
  BY <1>3 DEF DivertLine, Place, Places, LineInv
<1> QED
  BY <1>1, <1>2, <1>3 DEF LogStep

(* A server that starts has a token. *)
LEMMA StartNeedsToken ==
    ASSUME NEW l, Starts(l)
    PROVE  AppConfig(l)["api_signing_token"] # None
BY DEF Starts, ConfigOK, AppConfig, HandlerSettings

-----------------------------------------------------------------------------
(* The initial states satisfy the invariant. *)
LEMMA InitIInv == Init => IInv
BY LoadsAssumption
   DEF Init, LineInit, Places, Calls, StageNames, Statuses, Ends, Signing, BehindToken, BehindKey,
       Busy, LogShowsStatusSent, IInv, TypeOK, RouteInv, ConfigInv, AnswerInv, TokenInv, KeyInv,
       LineInv, StoppedInv

(* Every step of the server, of a client and of the administrator keeps it. *)
LEMMA NextIInv == IInv /\ [Next]_vars => IInv'
<1> SUFFICES ASSUME IInv, [Next]_vars PROVE IInv'
  OBVIOUS
<1> USE DEF IInv, TypeOK, RouteInv, ConfigInv, AnswerInv, TokenInv, KeyInv, LogShowsStatusSent,
            LineInv, StoppedInv, BehindToken, BehindKey, TokenMatches, Signing, Busy, Alive,
            Move, Answer, lineVars, StageNames, Statuses, Ends, Calls
<1>1. ASSUME NEW r \in Requests, Arrive(r) PROVE IInv'
  <2> DEFINE first == Stages(call[r].endpoint)[1]
  <2>1. /\ first \in {"token", "arch", "file", "respond", "mux"}
        /\ first = "token" <=> Signing(r)
        /\ first = "arch" => call[r].endpoint = "clientDownload"
        /\ first = "file" => call[r].endpoint = "publicKey"
    <3>1. call[r].endpoint \in STRING
      OBVIOUS
    <3> HIDE DEF IInv
    <3> QED
      BY <3>1, FirstStage
  <2>2. at[r] = "connected" /\ at' = [at EXCEPT ![r] = first]
    BY <1>1 DEF Arrive
  <2> HIDE DEF first
  <2>3. TypeOK' /\ RouteInv'
    BY <1>1, <2>1, <2>2 DEF Arrive
  <2>4. ConfigInv' /\ AnswerInv'
    BY <1>1, <2>1, <2>2 DEF Arrive
  <2>5. TokenInv'
    BY <1>1, <2>1, <2>2 DEF Arrive
  <2>6. KeyInv'
    <3>1. oldest' = [oldest EXCEPT ![r] = key] /\ UNCHANGED <<call, sent, used, key>>
      BY <1>1 DEF Arrive
    <3>2. sent[r] = 0
      <4>1. at[r] \notin {"log", "done"}
        BY <2>2
      <4> QED
        BY <4>1
    <3>3. Signing(r) => first = "token"
      BY <2>1
    <3> QED
      BY <2>2, <3>1, <3>2, <3>3
  <2>7. LogShowsStatusSent' /\ LineInv' /\ StoppedInv'
    BY <1>1, <2>1, <2>2 DEF Arrive
  <2> QED
    BY <2>3, <2>4, <2>5, <2>6, <2>7
<1>2. ASSUME NEW r \in Requests, SendBody(r) PROVE IInv'
  BY <1>2 DEF SendBody
<1>3. ASSUME NEW r \in Requests, CheckToken(r) PROVE IInv'
  <2> DEFINE next == After(call[r].endpoint, "token")
  <2>1. \/ next = "parse" /\ call[r].endpoint = "signRpmHeader"
        \/ next = "key" /\ Signing(r)
    BY <1>3, StageOrder DEF CheckToken
  <2>2. at[r] = "token" /\ TokenMatches(r) /\ at' = [at EXCEPT ![r] = next]
    BY <1>3 DEF CheckToken
  <2> HIDE DEF next
  <2>3. TypeOK' /\ RouteInv'
    <3>1. UNCHANGED <<lineVars, config, call, body, todo, tags, key, used, oldest, sent, full, status, server>>
      BY <1>3 DEF CheckToken
    <3>2. TypeOK'
      BY <2>1, <2>2, <3>1
    <3>3. RouteInv'
      BY <2>1, <2>2, <3>1
    <3> HIDE DEF TypeOK, RouteInv
    <3> QED
      BY <3>2, <3>3
  <2>4. ConfigInv' /\ AnswerInv'
    BY <1>3, <2>1, <2>2 DEF CheckToken
  <2>5. TokenInv'
    BY <1>3, <2>1, <2>2 DEF CheckToken
  <2>6. KeyInv'
    BY <1>3, <2>1, <2>2 DEF CheckToken
  <2>7. LogShowsStatusSent' /\ LineInv' /\ StoppedInv'
    BY <1>3, <2>1, <2>2 DEF CheckToken
  <2> QED
    BY <2>3, <2>4, <2>5, <2>6, <2>7
<1>4. ASSUME NEW r \in Requests, Reject(r) PROVE IInv'
  <2> DEFINE code == ErrorOf(at[r])
  <2>1. code \in Statuses \ {200}
    BY ErrorStatus
  <2>2. Answer(r, code) /\ at[r] \notin {"none", "connected", "closed", "log", "done"} /\ Alive
    BY <1>4 DEF Reject
  <2> HIDE DEF code
  <2>3. TypeOK'
    BY <2>1, <2>2
  <2>4. RouteInv' /\ ConfigInv' /\ AnswerInv'
    BY <2>1, <2>2
  <2>5. TokenInv' /\ KeyInv'
    BY <2>1, <2>2
  <2>6. LogShowsStatusSent' /\ LineInv' /\ StoppedInv'
    BY <2>1, <2>2
  <2> QED
    BY <2>3, <2>4, <2>5, <2>6
<1>5. ASSUME NEW r \in Requests, FatalError(r) PROVE IInv'
  BY <1>5 DEF FatalError
<1>6. ASSUME NEW r \in Requests, LookupTag(r) PROVE IInv'
  <2>1. todo[r] # <<>> /\ todo[r] \in Seq(Tag) /\ at[r] = "parse"
    BY <1>6 DEF LookupTag
  <2>2. Tail(todo[r]) \in Seq(Tag)
    BY <2>1
  <2>3. \/ todo' = [todo EXCEPT ![r] = Tail(@)] /\ UNCHANGED at
        \/ at' = [at EXCEPT ![r] = "register"] /\ UNCHANGED todo
    BY <1>6 DEF LookupTag
  <2>4. UNCHANGED <<lineVars, config, call, body, tags, key, used, oldest, sent, full, status, server>>
    BY <1>6 DEF LookupTag
  <2>5. TypeOK' /\ RouteInv'
    <3>1. CASE todo' = [todo EXCEPT ![r] = Tail(@)] /\ UNCHANGED at
      BY <2>1, <2>2, <2>4, <3>1
    <3>2. CASE at' = [at EXCEPT ![r] = "register"] /\ UNCHANGED todo
      BY <2>1, <2>4, <3>2
    <3> HIDE DEF TypeOK, RouteInv
    <3> QED
      BY <2>3, <3>1, <3>2
  <2>6. ConfigInv' /\ AnswerInv'
    BY <2>1, <2>2, <2>3, <2>4
  <2>7. TokenInv'
    BY <2>1, <2>2, <2>3, <2>4
  <2>8. KeyInv'
    BY <2>1, <2>2, <2>3, <2>4
  <2>9. LogShowsStatusSent' /\ LineInv' /\ StoppedInv'
    <3>1. LogShowsStatusSent'
      BY <2>1, <2>3, <2>4
    <3>2. LineInv'
      BY <2>1, <2>3, <2>4
    <3>3. StoppedInv'
      <4>1. server \in {"up", "stopping"} /\ server' = server
        BY <1>6 DEF LookupTag
      <4> QED
        BY <4>1
    <3> QED
      BY <3>1, <3>2, <3>3
  <2> QED
    BY <2>5, <2>6, <2>7, <2>8, <2>9
<1>7. ASSUME NEW r \in Requests, StartStore(r) PROVE IInv'
  BY <1>7 DEF StartStore
<1>8. ASSUME NEW r \in Requests, StoreTag(r) PROVE IInv'
  BY <1>8 DEF StoreTag
<1>9. ASSUME NEW r \in Requests, ParseDone(r) PROVE IInv'
  <2>1. After(call[r].endpoint, "parse") = "key"
    BY <1>9, StageOrder DEF ParseDone
  <2>2. TypeOK' /\ RouteInv'
    BY <1>9, <2>1 DEF ParseDone
  <2>3. ConfigInv' /\ AnswerInv'
    BY <1>9, <2>1 DEF ParseDone
  <2>4. TokenInv'
    BY <1>9, <2>1 DEF ParseDone
  <2>5. KeyInv'
    BY <1>9, <2>1 DEF ParseDone
  <2>6. LogShowsStatusSent' /\ LineInv' /\ StoppedInv'
    BY <1>9, <2>1 DEF ParseDone
  <2> QED
    BY <2>2, <2>3, <2>4, <2>5, <2>6
<1>10. ASSUME NEW r \in Requests, LoadKey(r) PROVE IInv'
  <2>1. After(call[r].endpoint, "key") = "sign"
    <3>1. Signing(r)
      BY <1>10 DEF LoadKey
    <3> QED
      BY <3>1, StageOrder
  <2> QED
    BY <1>10, <2>1 DEF LoadKey
<1>11. ASSUME NEW r \in Requests, Sign(r) PROVE IInv'
  BY <1>11 DEF Sign
<1>12. ASSUME NEW r \in Requests, Find(r) PROVE IInv'
  BY <1>12, StageOrder DEF Find
<1>13. ASSUME NEW r \in Requests, Respond(r) PROVE IInv'
  BY <1>13 DEF Respond
<1>14. ASSUME NEW r \in Requests, RespondFails(r) PROVE IInv'
  BY <1>14 DEF RespondFails
<1>15. ASSUME NEW r \in Requests, Panic(r) PROVE IInv'
  BY <1>15 DEF Panic
<1>16. ASSUME NEW r \in Requests, Log(r) PROVE IInv'
  <2>1. TypeOK' /\ LineInv'
    <3>1. /\ line' \in [Requests -> Places] /\ opens' \in Nat
          /\ \A q \in Requests : /\ line'[q] = "file" => opens' > 0
                                 /\ line'[q] = "gone" => opens' > 1
                                 /\ line[q] # "none" => line'[q] # "none"
      <4>1. LogStep(r) /\ line \in [Requests -> Places] /\ opens \in Nat /\ LineInv
        BY <1>16 DEF Log
      <4> HIDE DEF IInv, LineInv
      <4> QED
        BY <4>1, LogStepLines
    <3>2. /\ at' = [at EXCEPT ![r] = IF line'[r] = "none" THEN "log" ELSE "done"]
          /\ UNCHANGED <<config, call, body, todo, tags, key, used, oldest, sent, full, status, server>>
      BY <1>16 DEF Log
    <3>3. TypeOK'
      BY <3>1, <3>2
    <3>4. LineInv'
      BY <3>1, <3>2
    <3> HIDE DEF TypeOK, LineInv
    <3> QED
      BY <3>3, <3>4
  <2>2. /\ at[r] = "log" /\ Alive
        /\ at' = [at EXCEPT ![r] = IF line'[r] = "none" THEN "log" ELSE "done"]
        /\ UNCHANGED <<config, call, body, todo, tags, key, used, oldest, sent, full, status, server>>
    BY <1>16 DEF Log
  <2>3. RouteInv'
    BY <2>1, <2>2
  <2>4. ConfigInv' /\ AnswerInv'
    BY <2>1, <2>2
  <2>5. TokenInv'
    BY <2>1, <2>2
  <2>6. KeyInv'
    BY <2>1, <2>2
  <2>7. LogShowsStatusSent' /\ StoppedInv'
    BY <2>1, <2>2
  <2> QED
    BY <2>1, <2>3, <2>4, <2>5, <2>6, <2>7
<1>17. CASE Start
  <2>1. PICK l \in Launches :
           \/ Starts(l) /\ server' = "up" /\ config' = AppConfig(l)
           \/ server' \in {"printed", "refused"} /\ UNCHANGED config
    BY <1>17 DEF Start
  <2>2. CASE Starts(l) /\ server' = "up" /\ config' = AppConfig(l)
    <3>1. config'["api_signing_token"] # None
      BY <2>2, StartNeedsToken
    <3>2. \A q \in Requests : at[q] = "none" /\ sent[q] = 0
      <4>1. \A q \in Requests : at[q] = "none"
        BY <1>17 DEF Start
      <4>2. AnswerInv
        OBVIOUS
      <4> HIDE DEF IInv
      <4> QED
        BY <4>1, <4>2
    <3>3. /\ server' = "up"
          /\ UNCHANGED <<lineVars, call, at, body, todo, tags, key, used, oldest, sent, full, status>>
      BY <1>17, <2>2 DEF Start
    <3> QED
      BY <3>1, <3>2, <3>3
  <2>3. CASE server' \in {"printed", "refused"} /\ UNCHANGED config
    BY <1>17, <2>3 DEF Start
  <2> HIDE DEF IInv
  <2> QED
    BY <2>1, <2>2, <2>3
<1>18. CASE ReplaceKey
  BY <1>18 DEF ReplaceKey
<1>19. CASE ListenFails
  BY <1>19 DEF ListenFails, End
<1>20. CASE Signal
  BY <1>20 DEF Signal, End
<1>21. CASE ShutdownReturns
  BY <1>21 DEF ShutdownReturns, End
<1>22. CASE ShutdownTimesOut
  BY <1>22 DEF ShutdownTimesOut, End
<1>23. ASSUME NEW r \in Requests, Connect(r) PROVE IInv'
  BY <1>23 DEF Connect
<1>24. ASSUME NEW r \in Requests, Drop(r) PROVE IInv'
  BY <1>24 DEF Drop
<1>25. CASE UNCHANGED vars
  BY <1>25 DEF vars, serverVars
<1> HIDE DEF IInv, TypeOK, RouteInv, ConfigInv, AnswerInv, TokenInv, KeyInv, LogShowsStatusSent,
             LineInv, StoppedInv
<1> QED
  BY <1>1, <1>2, <1>3, <1>4, <1>5, <1>6, <1>7, <1>8, <1>9, <1>10, <1>11, <1>12, <1>13, <1>14,
     <1>15, <1>16, <1>17, <1>18, <1>19, <1>20, <1>21, <1>22, <1>23, <1>24, <1>25 DEF Next, Handle

(* Every reachable state satisfies the inductive invariant. *)
THEOREM Invariance == Spec => []IInv
BY InitIInv, NextIInv, PTL DEF Spec

(* However the server is configured, a signature is only sent to a request that *)
(* came with the configured token, and the token is not blank: CheckToken stands *)
(* before every stage that leads to a response.                                 *)
THEOREM TokenIsRequired == Spec => []TokenRequired
<1>1. IInv => TokenRequired
  <2> SUFFICES ASSUME IInv, NEW r \in Requests, sent[r] = 200, Signing(r)
               PROVE  call[r].token # None /\ call[r].token = config["api_signing_token"]
    BY DEF TokenRequired
  <2>1. at[r] # "none"
    BY DEF IInv, AnswerInv
  <2> QED
    BY <2>1 DEF IInv, ConfigInv, TokenInv, BehindToken, TokenMatches
<1> QED
  BY <1>1, Invariance, PTL

(* LoadGpgPrivateKey runs for every request: the key is not older than the request. *)
THEOREM SignatureKeyIsCurrent == Spec => []SignsWithCurrentKey
<1>1. IInv => SignsWithCurrentKey
  BY DEF IInv, TypeOK, KeyInv, BehindKey, SignsWithCurrentKey
<1> QED
  BY <1>1, Invariance, PTL

(* responseWriterWrapper notes the status that was sent, but for the http.Error *)
(* that handlePublicKey calls after its Write has failed.                       *)
THEOREM LoggedStatusIsSent == Spec => []LogShowsStatusSent
BY Invariance, PTL DEF IInv

(* Exit code 0 after a signal: every request that reached a handler got a response  *)
(* and its line was written or reported as lost, unless the handler panicked or the *)
(* line went with a log file that was opened twice.                                 *)
THEOREM StopIsGraceful == Spec => []GracefulStop
<1>1. IInv => GracefulStop
  BY DEF IInv, TypeOK, Places, StageNames, AnswerInv, LineInv, StoppedInv, Busy, GracefulStop
<1> QED
  BY <1>1, Invariance, PTL

(* A fatal error needs a goroutine that writes to one of the maps, and once all *)
(* tags are registered nobody writes.                                           *)
THEOREM FatalErrorNeedsNewTag == Spec => AbortNeedsNewTag
<1>1. ASSUME IInv, Warm, Next, vars' # vars
      PROVE  Warm' /\ server' # "aborted"
  <2> USE DEF Warm, Move, Answer, Alive
  <2>1. ASSUME NEW r \in Requests, Arrive(r) PROVE Warm' /\ server' # "aborted"
    <3>1. Stages(call[r].endpoint)[1] \in {"token", "arch", "file", "respond", "mux"}
      BY <1>1, FirstStage DEF IInv, TypeOK, Calls
    <3> QED
      BY <1>1, <2>1, <3>1 DEF Arrive, IInv, TypeOK
  <2>2. ASSUME NEW r \in Requests, LookupTag(r) PROVE Warm' /\ server' # "aborted"
    <3>1. todo[r] # <<>> /\ todo[r] \in Seq(Tag) /\ Head(todo[r]) \in tags
      BY <1>1, <2>2 DEF LookupTag, IInv, TypeOK
    <3>2. /\ todo' = [todo EXCEPT ![r] = Tail(@)] /\ UNCHANGED <<at, tags>>
          /\ server \in {"up", "stopping"} /\ server' = server
      BY <1>1, <2>2, <3>1 DEF LookupTag
    <3>3. \A i \in DOMAIN Tail(todo[r]) : i + 1 \in DOMAIN todo[r] /\ Tail(todo[r])[i] = todo[r][i + 1]
      BY <3>1
    <3> QED
      BY <1>1, <3>2, <3>3 DEF IInv, TypeOK
  <2>3. ASSUME NEW r \in Requests, Connect(r) \/ Drop(r) \/ SendBody(r) \/ Reject(r) \/ FatalError(r) \/ StartStore(r)
                                    \/ StoreTag(r) \/ Sign(r) \/ Respond(r) \/ RespondFails(r)
                                    \/ Panic(r) \/ Log(r)
        PROVE  Warm' /\ server' # "aborted"
    BY <1>1, <2>3 DEF Connect, Drop, SendBody, Reject, FatalError, BeingWritten, StartStore, StoreTag, Sign,
                      Respond, RespondFails, Panic, Log, IInv, TypeOK
  <2>4. ASSUME NEW r \in Requests, CheckToken(r) \/ ParseDone(r) \/ LoadKey(r) \/ Find(r)
        PROVE  Warm' /\ server' # "aborted"
    BY <1>1, <2>4, StageOrder DEF CheckToken, ParseDone, LoadKey, Find, IInv, TypeOK, RouteInv, Signing
  <2>5. CASE Start \/ ReplaceKey \/ ListenFails \/ Signal \/ ShutdownReturns \/ ShutdownTimesOut
    BY <1>1, <2>5 DEF Start, ReplaceKey, ListenFails, Signal, ShutdownReturns, ShutdownTimesOut, End
  <2> QED
    BY <1>1, <2>1, <2>2, <2>3, <2>4, <2>5 DEF Next, Handle
<1>2. IInv /\ [Next]_vars => [Warm => Warm' /\ server' # "aborted"]_vars
  BY <1>1
<1> QED
  BY <1>2, Invariance, PTL DEF Spec, AbortNeedsNewTag

===============================================================================
