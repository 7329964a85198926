--------------------------- MODULE SuperTokensBoot ---------------------------
(***************************************************************************)
(* What a boot demands of its environment and of the SuperTokens core      *)
(* before it serves logins through it, and the questions it shares with    *)
(* the preflight.                                                          *)
(*                                                                         *)
(* An environment is the set of the variables that are set; a callback URL *)
(* is in it only when it parses, and "loopback" when the connection URI    *)
(* names this host.  A core is a record of its health, the endpoint it     *)
(* implements, the API keys it was given and the protocol versions it      *)
(* offers.                                                                 *)
(***************************************************************************)
EXTENDS Naturals

CONSTANTS
    CdiSupported,  \* the protocol versions of the SDK
    None           \* no name, no session, no answer, no running process

Modes == {"passport", "dual", "supertokens"}
IsSuperTokensEnabled(m) == m \in {"dual", "supertokens"}
IsPassportEnabled(m) == m \in {"passport", "dual"}

\* A provider with half its credentials is not configured.
Credentials == [github |-> {"GITHUB_CLIENT_ID", "GITHUB_CLIENT_SECRET"},
                discord |-> {"DISCORD_CLIENT_ID", "DISCORD_CLIENT_SECRET"}]
BuildProviders(env) == {p \in DOMAIN Credentials : Credentials[p] \subseteq env}

ResolvePublicOrigin(env) ==
    env \cap {"PUBLIC_ORIGIN", "GITHUB_CALLBACK_URL", "DISCORD_CALLBACK_URL"} # {}

IsLoopback(env) == "loopback" \in env

\* The key a process sends: there is one, or there is none.
ApiKey(env) == IF "SUPERTOKENS_API_KEY" \in env THEN "ours" ELSE None

-----------------------------------------------------------------------------

\* The endpoints behind the core's API key, newest first.
AuthedEndpoints == <<"/public/users/count", "/recipe/users/count">>

\* What a core that is not down answers on a path behind its keys.
Answer(core, path, key) ==
    CASE core.health = "sick" -> 500
      [] core.health = "up" /\ path # core.path -> 404
      [] core.health = "up" /\ path = core.path ->
             IF core.keys = {} \/ key \in core.keys THEN 200 ELSE 401

\* The first endpoint that is not a 404 answers for the core; None when all are.
ProbeAuthedEndpoint(core, key) ==
    LET known == {i \in DOMAIN AuthedEndpoints : Answer(core, AuthedEndpoints[i], key) # 404}
        first == CHOOSE i \in known : \A j \in known : i <= j
    IN  IF known = {} THEN None ELSE Answer(core, AuthedEndpoints[first], key)

IsRefused(status) == status \in {401, 403}

Offered(core) == IF core.health = "up" THEN core.versions ELSE {}

\* Only an endpoint that serves an unkeyed caller is evidence of an open core.
AssertCoreRejectsAnonymous(core) ==
    core.health # "down" => ProbeAuthedEndpoint(core, None) # 200

AssertCoreSpeaksOurProtocol(core) ==
    Offered(core) = {} \/ Offered(core) \cap CdiSupported # {}

\* initSuperTokens: dormant in passport mode; otherwise the boot throws unless
\* the configuration is whole and the core is not known to be unfit.
InitSuperTokens(m, env, core) ==
    \/ ~ IsSuperTokensEnabled(m)
    \/ /\ "SUPERTOKENS_CONNECTION_URI" \in env
       /\ ResolvePublicOrigin(env)
       /\ BuildProviders(env) # {}
       /\ "SUPERTOKENS_API_KEY" \in env \/ IsLoopback(env)
       /\ AssertCoreRejectsAnonymous(core)
       /\ AssertCoreSpeaksOurProtocol(core)

=============================================================================
