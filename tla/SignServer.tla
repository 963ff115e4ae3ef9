------------------------------ MODULE SignServer ------------------------------
(***************************************************************************)
(* The sign server, src/server/server.go: its start with a configuration   *)
(* (module ServerConfig), the routes of its mux, what each                 *)
(* handler does in its goroutine, the access log behind them (through its  *)
(* specification LineLog, which module AccessLog implements), and the end  *)
(* of the process: a signal and the Shutdown that waits ten seconds, or    *)
(* the Go runtime's fatal error.                                           *)
(*                                                                         *)
(* Parsing a header looks every tag up in one of two package maps          *)
(* (src/common/signatureheadertags.go, mainheadertags.go). The lookup of a *)
(* tag the map lacks writes to the map. Nothing is locked, and a map       *)
(* operation that meets another goroutine's write is a fatal error that    *)
(* ends the process, if the runtime notices it.                            *)
(***************************************************************************)
EXTENDS LineLog, ServerConfig

CONSTANTS Loads,       \* what the requests ask for: functions from Requests to
                       \* records [endpoint, token, arch, tags]
          Launches,    \* how the process may be started
          KnownTags,   \* the tags init() puts into the maps
          MaxKey       \* how often the private key is replaced, plus one

ASSUME KeysAssumption == MaxKey \in Nat \ {0}

\* A tag is a pair: the map it is looked up in and its number.
Tag == {"sig", "main"} \X Nat
MapOf(tag) == tag[1]

\* A client without a token sends None; a query without arch differs from one with
\* an empty arch.
NoArch == "(absent)"

Calls == [endpoint : STRING, token : STRING, arch : STRING, tags : Seq(Tag)]

ASSUME LoadsAssumption == Loads \subseteq [Requests -> Calls] /\ KnownTags \subseteq Tag

VARIABLES
    config,     \* appConfig, of which every handler gets a copy
    call,       \* what each request asks for
    at,         \* the stage its handler is in
    body,       \* whether the client has sent the request's body
    todo,       \* the tags of the header that are still to be looked up
    tags,       \* the keys of signatureTagsByID and tagsById
    key,        \* the private key that is on the disk
    used,       \* the key a request loaded, 0 before
    oldest,     \* the key on the disk when the request came
    sent,       \* the status on the wire, 0 before
    full,       \* whether the whole response body was sent
    status,     \* responseWriterWrapper.statusCode
    server      \* what the process is doing, or how it ended

serverVars == <<config, call, at, body, todo, tags, key, used, oldest, sent, full, status, server>>
vars == <<lineVars, serverVars>>

\* The stages of a handler. Anything that is not a route of the mux ends in it.
Stages(endpoint) ==
    CASE endpoint = "signRpmHeader"  -> <<"token", "parse", "key", "sign", "respond">>
      [] endpoint = "signDetached"   -> <<"token", "key", "sign", "respond">>
      [] endpoint = "publicKey"      -> <<"file", "respond">>
      [] endpoint = "clientDownload" -> <<"arch", "file", "respond">>
      [] endpoint = "info"           -> <<"respond">>
      [] OTHER                       -> <<"mux">>

\* The status of the error a stage answers with.
ErrorOf(stage) ==
    CASE stage = "token" -> 403
      [] stage = "file"  -> 500
      [] stage = "mux"   -> 404
      [] OTHER           -> 400

After(endpoint, stage) ==
    LET s == Stages(endpoint)
    IN  s[1 + CHOOSE i \in DOMAIN s : s[i] = stage]

\* The architecture is compared in lower case.
BinaryFor(arch) ==
    CASE arch \in {NoArch, "x86", "X86"} -> "rpm_sign_client_binary"
      [] arch \in {"arm64", "Arm64", "aRm64", "arM64", "ARm64", "ArM64", "aRM64", "ARM64"} ->
             "rpm_sign_arm64_client_binary"
      [] OTHER -> None

HasBinary(arch) == BinaryFor(arch) # None /\ config[BinaryFor(arch)] # None

Signing(r) == call[r].endpoint \in {"signRpmHeader", "signDetached"}

Init ==
    /\ LineInit
    /\ config = NoConfig
    /\ call \in Loads
    /\ at = [r \in Requests |-> "none"]
    /\ body = [r \in Requests |-> ~Signing(r)]
    /\ todo = [r \in Requests |-> call[r].tags]
    /\ tags = KnownTags
    /\ key = 1
    /\ used = [r \in Requests |-> 0]
    /\ oldest = [r \in Requests |-> 0]
    /\ sent = [r \in Requests |-> 0]
    /\ full = [r \in Requests |-> FALSE]
    /\ status = [r \in Requests |-> 200]
    /\ server = "starting"

Alive == server \in {"up", "stopping"}
Over  == server \notin {"starting", "up", "stopping"}

Move(r, from, to) == at[r] = from /\ at' = [at EXCEPT ![r] = to]

-----------------------------------------------------------------------------
\* A connection is accepted until Shutdown closes the listener.
Connect(r) ==
    /\ server = "up"
    /\ Move(r, "none", "connected")
    /\ UNCHANGED <<lineVars, config, call, body, todo, tags, key, used, oldest, sent, full, status, server>>

\* The client goes away before it has sent a request, or Shutdown closes a connection
\* that has been waiting for one for five seconds.
Drop(r) ==
    /\ Alive
    /\ Move(r, "connected", "closed")
    /\ UNCHANGED <<lineVars, config, call, body, todo, tags, key, used, oldest, sent, full, status, server>>

\* The request line and the header have come, perhaps after the signal: the mux hands
\* the request to the first stage of its route.
Arrive(r) ==
    /\ Alive
    /\ Move(r, "connected", Stages(call[r].endpoint)[1])
    /\ oldest' = [oldest EXCEPT ![r] = key]
    /\ UNCHANGED <<lineVars, config, call, body, todo, tags, key, used, sent, full, status, server>>

\* The client has sent the body, or what it sends of it before it goes away. The
\* server sets no time limit.
SendBody(r) ==
    /\ Alive
    /\ at[r] \in {"parse", "sign"} /\ ~body[r]
    /\ body' = [body EXCEPT ![r] = TRUE]
    /\ UNCHANGED <<lineVars, config, call, at, todo, tags, key, used, oldest, sent, full, status, server>>

\* Mutant: the error is written to the connection and not to the wrapper.
AnswerBehindWrapper(r, code) ==
    /\ sent' = [sent EXCEPT ![r] = code]
    /\ full' = [full EXCEPT ![r] = TRUE]
    /\ at' = [at EXCEPT ![r] = "log"]
    /\ UNCHANGED <<lineVars, config, call, body, todo, tags, key, used, oldest, status, server>>

\* The handler returns after it has answered with an error. The wrapper and the
\* connection both see WriteHeader.
Answer(r, code) ==
    /\ sent' = [sent EXCEPT ![r] = code]
    /\ full' = [full EXCEPT ![r] = TRUE]
    /\ status' = [status EXCEPT ![r] = code]
    /\ at' = [at EXCEPT ![r] = "log"]
    /\ UNCHANGED <<lineVars, config, call, body, todo, tags, key, used, oldest, server>>

\* ConstantTimeCompare of the token. A client without a token sends a blank one.
TokenMatches(r) == call[r].token = config["api_signing_token"]

CheckToken(r) ==
    /\ Alive
    /\ at[r] = "token" /\ TokenMatches(r)
    /\ Move(r, "token", After(call[r].endpoint, "token"))
    /\ UNCHANGED <<lineVars, config, call, body, todo, tags, key, used, oldest, sent, full, status, server>>

\* Mutant: nothing answers a request with a wrong token.
RejectForgetsToken(r) ==
    /\ Alive
    /\ at[r] \in {"parse", "key", "sign", "arch", "file", "mux"}
    /\ at[r] \in {"parse", "sign"} => body[r]
    /\ Answer(r, ErrorOf(at[r]))

\* The stages that may fail do so for a reason of their own: the body does not
\* parse or ends early, the public or the private key is not there, a file cannot
\* be read. The token and the architecture depend on the configuration.
Reject(r) ==
    /\ Alive
    /\ at[r] \in {"token", "parse", "key", "sign", "arch", "file", "mux"}
    /\ at[r] = "token" => ~TokenMatches(r)
    /\ at[r] = "arch" => ~HasBinary(call[r].arch)
    /\ at[r] \in {"parse", "sign"} => body[r]
    /\ Answer(r, ErrorOf(at[r]))

\* A goroutine is between the start and the end of a write to the map of the tag.
BeingWritten(r, tag) ==
    \E q \in Requests \ {r} :
        at[q] = "store" /\ MapOf(Head(todo[q])) = MapOf(tag)

\* "fatal error: concurrent map read and map write", in the middle of a lookup or
\* at the start of a write.
FatalError(r) ==
    /\ Alive
    /\ at[r] \in {"parse", "register"}
    /\ todo[r] # <<>> /\ body[r]
    /\ BeingWritten(r, Head(todo[r]))
    /\ server' = "aborted"
    /\ UNCHANGED <<lineVars, config, call, at, body, todo, tags, key, used, oldest, sent, full, status>>

\* Mutant: every tag is taken for an unknown one.
LookupTagInverted(r) ==
    /\ Alive
    /\ body[r] /\ todo[r] # <<>>
    /\ Move(r, "parse", "register")
    /\ UNCHANGED <<lineVars, config, call, body, todo, tags, key, used, oldest, sent, full, status, server>>

\* LookupSignatureTag, LookupMainTag: the tag is found, or is to be written. A
\* read that meets a write of the same tag unnoticed may see it or not.
LookupTag(r) ==
    /\ Alive
    /\ body[r] /\ todo[r] # <<>>
    /\ LET tag == Head(todo[r])
       IN  \/ /\ \/ tag \in tags
                 \/ BeingWritten(r, tag) /\ \E q \in Requests : at[q] = "store" /\ Head(todo[q]) = tag
              /\ at[r] = "parse"
              /\ todo' = [todo EXCEPT ![r] = Tail(@)]
              /\ UNCHANGED at
           \/ /\ tag \notin tags
              /\ Move(r, "parse", "register")
              /\ UNCHANGED todo
    /\ UNCHANGED <<lineVars, config, call, body, tags, key, used, oldest, sent, full, status, server>>

StartStore(r) ==
    /\ Alive
    /\ Move(r, "register", "store")
    /\ UNCHANGED <<lineVars, config, call, body, todo, tags, key, used, oldest, sent, full, status, server>>

StoreTag(r) ==
    /\ Alive
    /\ Move(r, "store", "parse")
    /\ tags' = tags \cup {Head(todo[r])}
    /\ todo' = [todo EXCEPT ![r] = Tail(@)]
    /\ UNCHANGED <<lineVars, config, call, body, key, used, oldest, sent, full, status, server>>

\* The header is parsed; what a stage needs is there.
ParseDone(r) ==
    /\ Alive
    /\ body[r] /\ todo[r] = <<>>
    /\ Move(r, "parse", After(call[r].endpoint, "parse"))
    /\ UNCHANGED <<lineVars, config, call, body, todo, tags, key, used, oldest, sent, full, status, server>>

\* Mutant: the key that was there when the server started.
LoadKeyOnce(r) ==
    /\ Alive
    /\ Move(r, "key", After(call[r].endpoint, "key"))
    /\ used' = [used EXCEPT ![r] = 1]
    /\ UNCHANGED <<lineVars, config, call, body, todo, tags, key, oldest, sent, full, status, server>>

\* LoadGpgPrivateKey reads the file for every request.
LoadKey(r) ==
    /\ Alive
    /\ Move(r, "key", After(call[r].endpoint, "key"))
    /\ used' = [used EXCEPT ![r] = key]
    /\ UNCHANGED <<lineVars, config, call, body, todo, tags, key, oldest, sent, full, status, server>>

\* SignRpmAndWrite into a buffer, SignGeneric: both read the body to its end.
Sign(r) ==
    /\ Alive /\ body[r]
    /\ Move(r, "sign", "respond")
    /\ UNCHANGED <<lineVars, config, call, body, todo, tags, key, used, oldest, sent, full, status, server>>

\* handleClientDownload finds the configured path; the file is there.
Find(r) ==
    /\ Alive
    /\ at[r] = "arch" => HasBinary(call[r].arch)
    /\ \E stage \in {"arch", "file"} : Move(r, stage, After(call[r].endpoint, stage))
    /\ UNCHANGED <<lineVars, config, call, body, todo, tags, key, used, oldest, sent, full, status, server>>

\* The first Write sends 200.
Respond(r) ==
    /\ Alive /\ at[r] = "respond"
    /\ Answer(r, 200)

\* The client is gone. handlePublicKey then calls http.Error: too late for the
\* connection, but the wrapper notes its status.
RespondFails(r) ==
    /\ Alive /\ at[r] = "respond"
    /\ sent' = [sent EXCEPT ![r] = 200]
    /\ status' = [status EXCEPT ![r] = IF call[r].endpoint = "publicKey" THEN 400 ELSE 200]
    /\ at' = [at EXCEPT ![r] = "log"]
    /\ UNCHANGED <<lineVars, config, call, body, todo, tags, key, used, oldest, full, server>>

\* The parser panics on a header it cannot print, the signer on an index it
\* cannot edit: net/http closes the connection and the process goes on.
Panic(r) ==
    /\ Alive /\ at[r] \in {"parse", "sign"} /\ body[r]
    /\ call[r].endpoint = "signRpmHeader"
    /\ at' = [at EXCEPT ![r] = "panicked"]
    /\ UNCHANGED <<lineVars, config, call, body, todo, tags, key, used, oldest, sent, full, status, server>>

\* AccessLogMiddleware calls writeAccessLog after the handler. A request opens the
\* file at most once, and without an access_log setting not at all.
Log(r) ==
    /\ Alive /\ at[r] = "log"
    /\ LogStep(r)
    /\ config["access_log"] = None => line'[r] = "logger"
    /\ opens' <= Cardinality(Requests)
    /\ at' = [at EXCEPT ![r] = IF line'[r] = "none" THEN "log" ELSE "done"]
    /\ UNCHANGED <<config, call, body, todo, tags, key, used, oldest, sent, full, status, server>>

-----------------------------------------------------------------------------
\* The administrator replaces the key.
ReplaceKey ==
    /\ Alive /\ key < MaxKey
    /\ key' = key + 1
    /\ UNCHANGED <<lineVars, config, call, at, body, todo, tags, used, oldest, sent, full, status, server>>

End(state) ==
    /\ server' = state
    /\ UNCHANGED <<lineVars, config, call, at, body, todo, tags, key, used, oldest, sent, full, status>>

\* --version, or loadAppConfig; main exits with 0 after the one ("printed") and with 1
\* when the other fails ("refused").
Start ==
    /\ server = "starting"
    /\ \E l \in Launches :
          \/ PrintsVersion(l) /\ server' = "printed" /\ UNCHANGED config
          \/ ~PrintsVersion(l) /\ Starts(l) /\ server' = "up" /\ config' = AppConfig(l)
          \/ ~PrintsVersion(l) /\ ~Starts(l) /\ server' = "refused" /\ UNCHANGED config
    /\ UNCHANGED <<lineVars, call, at, body, todo, tags, key, used, oldest, sent, full, status>>

\* ListenAndServe cannot listen, or returns an error of Accept later: main exits with
\* 1, and the requests that are running end with it.
ListenFails ==
    /\ server = "up"
    /\ End("listenFailed")

\* SIGINT or SIGTERM: Shutdown closes the listener.
Signal ==
    /\ server = "up"
    /\ End("stopping")

Busy(r) == at[r] \notin {"none", "closed", "done", "panicked"}

\* Mutant: Shutdown returns once the responses are sent.
ShutdownAfterResponses ==
    /\ server = "stopping"
    /\ \A r \in Requests : at[r] \in {"none", "closed", "log", "done", "panicked"}
    /\ End("stopped")

\* Shutdown returns nil when no connection is active; main ends with 0.
ShutdownReturns ==
    /\ server = "stopping"
    /\ \A r \in Requests : ~Busy(r)
    /\ End("stopped")

\* Mutant: no time limit.
ShutdownWaits == FALSE

\* The ten seconds are over before Shutdown has seen all connections idle: main
\* reports "Failed to start HTTP server" and exits with 1, and the requests that are
\* still running end with it.
ShutdownTimesOut ==
    /\ server = "stopping"
    /\ \E r \in Requests : at[r] # "none"
    /\ End("timedOut")

\* What the goroutine of a request does, except to write its response.
Handle(r) ==
    \/ CheckToken(r) \/ Reject(r) \/ FatalError(r) \/ LookupTag(r) \/ StartStore(r)
    \/ StoreTag(r) \/ ParseDone(r) \/ LoadKey(r) \/ Sign(r) \/ Find(r)
    \/ Panic(r) \/ Log(r)

Next ==
    \/ \E r \in Requests :
          \/ Connect(r) \/ Drop(r) \/ Arrive(r) \/ SendBody(r)
          \/ Handle(r) \/ Respond(r) \/ RespondFails(r)
    \/ Start \/ ReplaceKey \/ ListenFails \/ Signal \/ ShutdownReturns \/ ShutdownTimesOut
    \/ Over /\ UNCHANGED vars

\* The scheduler runs every goroutine, and the ten seconds pass. Nothing makes a
\* client send its request or take the response: http.Server is used without a read
\* or write timeout. Nobody has to send a signal.
Fairness ==
    /\ \A r \in Requests : WF_vars(Handle(r))
    /\ WF_vars(ShutdownReturns \/ ShutdownTimesOut)

Spec == Init /\ [][Next]_vars /\ Fairness

-----------------------------------------------------------------------------
Ended(r) == at[r] \in {"done", "panicked", "closed"}

\* When the server ends with exit code 0 after a signal, every request that reached a
\* handler, those that came while Shutdown was waiting included, got a response, and
\* its line is in the access log, in the default log or reported as lost. Two
\* exceptions: a handler that panicked has sent nothing and written no line, and a
\* line that was in the file is gone without a word if the file was opened twice.
GracefulStop ==
    server = "stopped" =>
        \A r \in Requests : at[r] \notin {"none", "closed", "panicked"} =>
            /\ sent[r] # 0
            /\ \/ line[r] \in {"file", "logger", "reported"}
               \/ line[r] = "gone" /\ opens > 1

\* However the server was started and whatever its configuration file says, only a
\* request with the configured token gets a signature, and a request without one
\* never does ("configuration file needs to contain a non-blank 'api_signing_token'").
TokenRequired ==
    \A r \in Requests :
        sent[r] = 200 /\ Signing(r) =>
            call[r].token # None /\ call[r].token = config["api_signing_token"]

\* A signature is made with a key that was on the disk while the request was
\* running: replacing the key takes effect for every request that comes later,
\* without a restart.
SignsWithCurrentKey ==
    \A r \in Requests :
        sent[r] = 200 /\ Signing(r) =>
            used[r] \in oldest[r]..key

\* The access log shows the status the client got; only for a public key that
\* could not be sent to the end it shows 400 where the client saw 200.
LogShowsStatusSent ==
    \A r \in Requests :
        at[r] \in {"log", "done"} /\ status[r] # sent[r] =>
            call[r].endpoint = "publicKey" /\ ~full[r]

\* Every tag that is still to be looked up is in its map and nobody writes.
Warm ==
    \A r \in Requests :
        /\ at[r] \notin {"register", "store"}
        /\ \A i \in DOMAIN todo[r] : todo[r][i] \in tags

\* The runtime's fatal error, which ends all requests at once, needs a tag that no
\* header had before: once the tags are registered it cannot happen any more.
AbortNeedsNewTag == [][Warm => Warm' /\ server' # "aborted"]_vars

\* After a signal the process ends, even if a client never sends its request.
StopsAfterSignal == server = "stopping" ~> ~Alive

\* The server waits for the client: for its request, for the body of it, or until it
\* takes the response.
WaitsForClient(r) ==
    \/ at[r] \in {"connected", "respond"}
    \/ at[r] \in {"parse", "sign"} /\ ~body[r]

\* A request that does not wait for its client is answered and logged, or comes to
\* wait for it, or the process ends: no goroutine hangs on another one.
EveryRequestEnds ==
    \A r \in Requests :
        at[r] # "none" /\ ~WaitsForClient(r) ~> Ended(r) \/ WaitsForClient(r) \/ ~Alive
=============================================================================
