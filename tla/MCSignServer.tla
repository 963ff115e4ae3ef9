---------------------------- MODULE MCSignServer ----------------------------
(* Requests for every route, and launches with good and bad configurations. *)
EXTENDS SignServer

Known   == {<<"sig", 268>>, <<"main", 1000>>}

Request(endpoint, token, ts) ==
    [endpoint |-> endpoint, token |-> token, arch |-> NoArch, tags |-> ts]
Get(endpoint)  == Request(endpoint, None, <<>>)
Download(arch) == [Get("clientDownload") EXCEPT !.arch = arch]

Package == Request("signRpmHeader", "secret", <<<<"sig", 268>>, <<"main", 1000>>>>)
PackageWithNewTag == [Package EXCEPT !.tags[1] = <<"sig", 9>>]
NoToken  == Request("signRpmHeader", None, <<>>)
Metadata == Request("signDetached", "secret", <<>>)

\* Pairs of requests that run at the same time; every route occurs.
Pairs ==
    {<<PackageWithNewTag, PackageWithNewTag>>, <<PackageWithNewTag, Package>>,
     <<Package, Metadata>>, <<NoToken, Get("publicKey")>>, <<Download("ARM64"), Get("info")>>,
     <<Download(NoArch), Download(None)>>, <<Get("favicon"), Metadata>>}

PairLoads == {[r \in Requests |-> IF r = CHOOSE q \in Requests : TRUE THEN p[1] ELSE p[2]] : p \in Pairs}

Set(k, v) == [key |-> k, value |-> v]

KeyFiles == <<Set("#", None), Set("gpg_public_key", "pub"), Set("gpg_private_key", "priv")>>
Full     == KeyFiles \o <<Set("api_signing_token", "secret"), Set("access_log", "log"),
                          Set("rpm_sign_client_binary", "client"), Set("debug", "off")>>

Configs ==
    [full      |-> Full,
     nolog     |-> KeyFiles \o <<Set("api_signing_token", "secret"), Set("access_log", None)>>,
     notoken   |-> KeyFiles \o <<Set("api_signing_token", None)>>,
     malformed |-> Append(Full, Set(None, None)),
     unknown   |-> Append(Full, Set("log_level", "1")),
     twice     |-> Append(Full, Set("debug", "on")),
     nokey     |-> Tail(Tail(Full)),
     wrongkey  |-> [Full EXCEPT ![3].value = "pub"],
     onekey    |-> [Full EXCEPT ![2].value = "priv"],
     nofile    |-> [Full EXCEPT ![6].value = "gone"]]

KeysAndBinaries == [pub |-> "public key", priv |-> "private key", client |-> "binary"]

Launch(env, args) == [env |-> env, args |-> args]

SomeLaunches ==
    {Launch(None, <<"-c", "full", "--config", "notoken">>), Launch("nolog", <<"-v", "-c", "full">>),
     Launch(None, <<>>), Launch(None, <<"-c">>), Launch(None, <<"-d", "-d", "-c", "full">>),
     Launch(None, <<"-c", "full", "--version">>), Launch(None, <<"-c", "missing">>)}
    \cup {Launch(c, <<>>) : c \in DOMAIN Configs \ {"full", "nolog"}}
=============================================================================
