--------------------------- MODULE SessionRefresh ---------------------------
(***************************************************************************)
(* The SuperTokens half of the client: signing in through the provider's   *)
(* redirect (game/auth.js, App.jsx), and keeping the session alive over    *)
(* expired access tokens (the first part of game/api.js), in several tabs  *)
(* of one browser, which share its cookies.                                *)
(*                                                                         *)
(* A token is its number; it stands for an access token and the refresh    *)
(* token that came with it.  A refresh token is good for one refresh: the  *)
(* core takes a second one for theft and ends the session (api.js:57-67).  *)
(***************************************************************************)
EXTENDS Naturals, Sequences

CONSTANTS
    Tabs, Requests, TabOf,
    Codes,        \* authorisation codes the provider may give out
    MaxExpiries,  \* bound: times the access tokens in use expire
    MaxFaults,    \* bound: exchanges that break off, lookups that fail, reloads,
                  \* closed tabs, logouts and restored databases
    MaxTokens,    \* bound, never reached: tokens the core gives out
    None

ASSUME TabAssumption ==
    /\ TabOf \in [Requests -> Tabs]
    /\ None \notin Requests
    /\ Codes \cap {"plain", "denied"} = {}
ASSUME BoundAssumption == {MaxExpiries, MaxFaults, MaxTokens} \subseteq Nat

VARIABLES
    family,   \* the core: the session each token was given to
    live,     \* the core: the sessions that have not ended
    fresh,    \* the access tokens that have not expired
    known,    \* users has the row the session names
    jar,      \* the browser's token; 0 without one
    page,     \* of each tab: what it shows or waits for
    url,      \* of each tab: "plain", "denied", or an authorisation code
    enabled,  \* of each tab: refreshEnabled
    inFlightRefresh,  \* of each tab; named by the call that started it
    refresh,  \* the refreshes under way, by the call that started each
    hasLocks, \* the browser has navigator.locks
    lock,     \* the refresh that holds the lock REFRESH_LOCK_NAME
    request,  \* the calls of api.js under way
    given, spent,   \* the provider: codes it has given out, and taken back
    posted,   \* history: codes a tab has posted
    left,     \* history: codes whose tab was left in the middle of its exchange
    reposted, \* history: codes posted again
    expiries, faults,
    theft,    \* history: the core has ended a session as stolen
    cut,      \* history: a refresh was broken off before its answer was read
    clash,    \* history: two tabs had a refresh on its way at once
    ended,    \* history: the player has logged out
    blind     \* history: the calls whose last answer is the 401 of a failed lookup

coreVars == <<family, live, fresh, known>>
tabVars == <<page, url, enabled>>
refreshVars == <<inFlightRefresh, refresh, hasLocks, lock>>
provider == <<given, spent>>
counters == <<expiries, faults>>
histories == <<posted, left, reposted, theft, cut, clash, ended, blind>>
vars == <<coreVars, jar, tabVars, refreshVars, request, provider, counters, histories>>

NoRefresh == [at |-> "none", token |-> 0]
NoRequest == [at |-> "idle", token |-> 0, again |-> FALSE, on |-> None]

Init ==
    /\ family = <<>> /\ live = {} /\ fresh = {}
    /\ known = TRUE
    /\ jar = 0
    /\ page = [t \in Tabs |-> "boot"]
    /\ url = [t \in Tabs |-> "plain"]
    /\ enabled = [t \in Tabs |-> FALSE]
    /\ inFlightRefresh = [t \in Tabs |-> None]
    /\ refresh = [r \in Requests |-> NoRefresh]
    /\ hasLocks \in BOOLEAN /\ lock = None
    /\ request = [r \in Requests |-> NoRequest]
    /\ given = {} /\ spent = {} /\ posted = {} /\ left = {} /\ reposted = {}
    /\ expiries = 0 /\ faults = 0
    /\ theft = FALSE /\ cut = FALSE /\ clash = FALSE /\ ended = FALSE /\ blind = {}

-----------------------------------------------------------------------------

(***************************************************************************)
(* The core, as the comments of api.js and the server's use of it say.     *)
(***************************************************************************)

\* requireAuth: an access token is believed until it expires.
Authenticates(token) == token \in fresh /\ known

Issued == 1..Len(family)
Newest(token) == \A other \in Issued : family[other] = family[token] => other <= token

\* A new token for the session f; its number is the answer.
Give(f) ==
    /\ Len(family) < MaxTokens
    /\ family' = Append(family, f)
    /\ fresh' = fresh \cup {Len(family) + 1}

Knows(token) == token \in Issued /\ family[token] \in live

\* POST /auth/session/refresh: a new token, 0 for a refusal.
Rotated(token) == IF Knows(token) /\ Newest(token) THEN Len(family) + 1 ELSE 0

Rotate(token) ==
    IF ~ Knows(token) THEN UNCHANGED <<family, live, fresh, theft>>
    ELSE IF Newest(token) THEN Give(family[token]) /\ UNCHANGED <<live, theft>>
    ELSE /\ live' = live \ {family[token]}
         /\ theft' = TRUE
         /\ UNCHANGED <<family, fresh>>

Fault == faults < MaxFaults /\ faults' = faults + 1

Expire ==
    /\ expiries < MaxExpiries /\ fresh # {}
    /\ expiries' = expiries + 1
    /\ fresh' = {}
    /\ UNCHANGED <<family, live, known, jar, tabVars, refreshVars, request,
                   provider, faults, histories>>

\* The operator restores a database that is older than the player.
Restore ==
    /\ known /\ Fault
    /\ known' = FALSE
    /\ UNCHANGED <<family, live, fresh, jar, tabVars, refreshVars, request, provider,
                   expiries, histories>>

-----------------------------------------------------------------------------

(***************************************************************************)
(* Booting a tab (App.jsx), and signing in.                                *)
(***************************************************************************)
Show(t, what) == page' = [page EXCEPT ![t] = what]
Replace(t) == url' = [url EXCEPT ![t] = "plain"]
IsCallback(u) == u # "plain"

\* completeSuperTokensLogin up to its POST; a sign-in the provider refused is
\* not posted.
Exchange(t) ==
    \/ url[t] = "denied" /\ Show(t, "failed") /\ Replace(t) /\ UNCHANGED <<posted, reposted>>
    \/ /\ url[t] \in Codes
       /\ Show(t, "exchange")
       /\ posted' = posted \cup {url[t]}
       /\ reposted' = reposted \cup ({url[t]} \cap posted)
       /\ UNCHANGED url

\* A callback path is dealt with before anything is asked of /api/me.
Boot(t) ==
    /\ page[t] = "boot"
    /\ IF IsCallback(url[t]) THEN Exchange(t)
       ELSE Show(t, "info") /\ UNCHANGED <<url, posted, reposted>>
    /\ UNCHANGED <<coreVars, jar, enabled, refreshVars, request, provider,
                   counters, left, theft, cut, clash, ended, blind>>

\* POST /auth/signinup at the server: a code is good for one session.
SignInUp(code) ==
    IF code \in spent
    THEN UNCHANGED <<family, live, fresh, spent>>
    ELSE LET session == Len(family) + 1
         IN  /\ Give(session)
             /\ live' = live \cup {session}
             /\ spent' = spent \cup {code}

\* The exchange is answered: with the cookies of a session, or without.
CompleteSuperTokensLogin(t) ==
    /\ page[t] = "exchange"
    /\ SignInUp(url[t])
    /\ \/ /\ url[t] \notin spent
          /\ jar' = Len(family) + 1
          /\ Show(t, "accepted")
          /\ UNCHANGED faults
       \/ /\ url[t] \in spent \/ faults < MaxFaults
          /\ faults' = IF url[t] \in spent THEN faults ELSE faults + 1
          /\ Show(t, "rejected")
          /\ UNCHANGED jar
    /\ UNCHANGED <<known, url, enabled, refreshVars, request, given, expiries, histories>>

AfterExchange(t) == IF page[t] = "accepted" THEN "info" ELSE "failed"

\* Mutant. The spent code stays in the address bar.
KeepCode(t) ==
    /\ page[t] \in {"accepted", "rejected"}
    /\ Show(t, AfterExchange(t))
    /\ UNCHANGED <<coreVars, jar, url, enabled, refreshVars, request, provider, counters, histories>>

\* The page reads the answer: history.replaceState, whatever it says.
ReplaceState(t) ==
    /\ page[t] \in {"accepted", "rejected"}
    /\ Show(t, AfterExchange(t))
    /\ Replace(t)
    /\ UNCHANGED <<coreVars, jar, enabled, refreshVars, request, provider, counters, histories>>

ConfigureAuthRefresh(t, flow) == enabled' = [enabled EXCEPT ![t] = flow = "supertokens"]

\* GET /api/auth-info; without an answer the tab drives passport.
AuthInfo(t) ==
    /\ page[t] \in {"info", "failed"}
    /\ \/ ConfigureAuthRefresh(t, "supertokens") /\ UNCHANGED faults
       \/ ConfigureAuthRefresh(t, "passport") /\ Fault
    /\ Show(t, IF page[t] = "info" THEN "me" ELSE "anon")
    /\ UNCHANGED <<coreVars, jar, url, refreshVars, request, provider, expiries, histories>>

\* GET /api/me is a plain fetch: nothing is refreshed here, and no answer, or the
\* 401 of a failed lookup, shows the login screen.
FetchMe(t) ==
    /\ page[t] = "me"
    /\ \/ Show(t, IF Authenticates(jar) THEN "authed" ELSE "anon") /\ UNCHANGED faults
       \/ Show(t, "anon") /\ Fault
    /\ UNCHANGED <<coreVars, jar, url, enabled, refreshVars, request, provider, expiries, histories>>

\* The sign-in button: away to the provider, unless the server cannot be asked.
StartSuperTokensLogin(t) ==
    /\ page[t] = "anon" /\ enabled[t]
    /\ given # Codes
    /\ Show(t, "away")
    /\ UNCHANGED <<coreVars, jar, url, enabled, refreshVars, request, provider,
                   counters, histories>>

\* The provider sends the player back, with a code or without.
ProviderRedirects(t) ==
    /\ page[t] = "away"
    /\ Show(t, "boot")
    /\ \/ url' = [url EXCEPT ![t] = "denied"] /\ UNCHANGED given
       \/ \E code \in Codes \ given :
             /\ url' = [url EXCEPT ![t] = code]
             /\ given' = given \cup {code}
    /\ UNCHANGED <<coreVars, jar, enabled, refreshVars, request, spent, counters, histories>>

-----------------------------------------------------------------------------

(***************************************************************************)
(* The calls of api.js, and the refresh they share.                        *)
(***************************************************************************)
Put(r, value) == request' = [request EXCEPT ![r] = value]
Becomes(q, there, on) == [q EXCEPT !.at = there, !.on = on]

\* fetchWithRefresh, first attempt: the cookies are those of this moment.
Fetch(r) ==
    /\ page[TabOf[r]] = "authed"
    /\ request[r].at = "idle"
    /\ Put(r, [at |-> "sent", token |-> jar, again |-> FALSE, on |-> None])
    /\ UNCHANGED <<coreVars, jar, tabVars, refreshVars, provider, counters, histories>>

\* requireAuth, and whatever the route does.
Serve(r) ==
    /\ request[r].at = "sent"
    /\ Put(r, Becomes(request[r], IF Authenticates(request[r].token) THEN "ok" ELSE "401", None))
    /\ blind' = blind \ {r}
    /\ UNCHANGED <<coreVars, jar, tabVars, refreshVars, provider, counters,
                   posted, left, reposted, theft, cut, clash, ended>>

\* userFromSuperTokens answers null, which is 401, also when the recipe is not
\* loaded or a lookup throws: the session's in the core, or the player's row.
LookupFails(r) ==
    /\ request[r].at = "sent"
    /\ Fault
    /\ Put(r, Becomes(request[r], "401", None))
    /\ blind' = blind \cup {r}
    /\ UNCHANGED <<coreVars, jar, tabVars, refreshVars, provider, expiries,
                   posted, left, reposted, theft, cut, clash, ended>>

\* The network breaks under a call: { status: 0 }.
NetworkError(r) ==
    /\ request[r].at \in {"sent", "401"}
    /\ Fault
    /\ Put(r, Becomes(request[r], "error", None))
    /\ UNCHANGED <<coreVars, jar, tabVars, refreshVars, provider, expiries, histories>>

\* One refresh and one retry.
MayRefresh(r) == enabled[TabOf[r]] /\ ~ request[r].again

\* Mutant. A 401 that finds a refresh under way does not wait for it.
RefreshSessionOnce(r) ==
    IF inFlightRefresh[TabOf[r]] # None
    THEN /\ Put(r, Becomes(request[r], "refused", None))
         /\ UNCHANGED <<refresh, inFlightRefresh>>
    ELSE /\ Put(r, Becomes(request[r], "waiting", r))
         /\ refresh' = [refresh EXCEPT ![r] = [at |-> "lock", token |-> 0]]
         /\ inFlightRefresh' = [inFlightRefresh EXCEPT ![TabOf[r]] = r]

\* The refresh in flight is waited for, or one is started.
RefreshSession(r) ==
    IF inFlightRefresh[TabOf[r]] # None
    THEN /\ Put(r, Becomes(request[r], "waiting", inFlightRefresh[TabOf[r]]))
         /\ UNCHANGED <<refresh, inFlightRefresh>>
    ELSE /\ Put(r, Becomes(request[r], "waiting", r))
         /\ refresh' = [refresh EXCEPT ![r] = [at |-> "lock", token |-> 0]]
         /\ inFlightRefresh' = [inFlightRefresh EXCEPT ![TabOf[r]] = r]

\* A 401 is read: a reason to refresh, or the answer.
Unauthorized(r) ==
    /\ request[r].at = "401"
    /\ IF MayRefresh(r) THEN RefreshSession(r)
       ELSE Put(r, Becomes(request[r], "refused", None)) /\ UNCHANGED <<refresh, inFlightRefresh>>
    /\ UNCHANGED <<coreVars, jar, tabVars, hasLocks, lock, provider, counters, histories>>

OnItsWay(r) == refresh[r].at \in {"sent", "answered"}

\* Mutant. The tabs do not wait for one another.
LockIgnored(r) == TRUE

\* Web Locks grants to one tab at a time, where the browser has it.
LockFree(r) == hasLocks => lock = None

\* withRefreshLock runs doRefreshRequest, which presents the token of this moment.
WithRefreshLock(r) ==
    /\ refresh[r].at = "lock"
    /\ LockFree(r)
    /\ lock' = IF hasLocks THEN r ELSE None
    /\ refresh' = [refresh EXCEPT ![r] = [at |-> "sent", token |-> jar]]
    /\ clash' = (clash \/ \E q \in Requests : TabOf[q] # TabOf[r] /\ OnItsWay(q))
    /\ UNCHANGED <<coreVars, jar, tabVars, inFlightRefresh, hasLocks, request, provider, counters,
                   posted, left, reposted, theft, cut, ended, blind>>

\* POST /auth/session/refresh at the server.
Refresh(r) ==
    /\ refresh[r].at = "sent"
    /\ Rotate(refresh[r].token)
    /\ refresh' = [refresh EXCEPT ![r] = [at |-> "answered", token |-> Rotated(refresh[r].token)]]
    /\ UNCHANGED <<known, jar, tabVars, inFlightRefresh, hasLocks, lock, request, provider,
                   counters, posted, left, reposted, cut, clash, ended, blind>>

\* inFlightRefresh is cleared, the lock is released, and the callers go on:
\* with a retry, under the cookies that came, or with their 401.
Settle(r, token) ==
    /\ refresh' = [refresh EXCEPT ![r] = NoRefresh]
    /\ inFlightRefresh' = [inFlightRefresh EXCEPT ![TabOf[r]] = None]
    /\ lock' = IF lock = r THEN None ELSE lock
    /\ request' = [q \in Requests |->
          IF request[q].at # "waiting" \/ request[q].on # r THEN request[q]
          ELSE IF token # 0 THEN [at |-> "sent", token |-> token, again |-> TRUE, on |-> None]
          ELSE Becomes(request[q], "refused", None)]
    /\ UNCHANGED <<coreVars, tabVars, hasLocks, provider, expiries,
                   posted, left, reposted, theft, clash, ended, blind>>

\* The answer of the refresh: its cookies come with it.
Refreshed(r) ==
    /\ refresh[r].at = "answered"
    /\ jar' = IF refresh[r].token = 0 THEN jar ELSE refresh[r].token
    /\ Settle(r, refresh[r].token)
    /\ UNCHANGED <<faults, cut>>

\* doRefreshRequest catches a network error.
RefreshBreaksOff(r) ==
    /\ OnItsWay(r)
    /\ Fault
    /\ cut' = TRUE
    /\ Settle(r, 0)
    /\ UNCHANGED jar

-----------------------------------------------------------------------------

\* Mutant. The lock is kept by a document that is gone.
LeaveHolding(t, there) ==
    LET own == {r \in Requests : TabOf[r] = t} IN
    /\ Show(t, there)
    /\ request' = [r \in Requests |-> IF r \in own THEN NoRequest ELSE request[r]]
    /\ refresh' = [r \in Requests |-> IF r \in own THEN NoRefresh ELSE refresh[r]]
    /\ inFlightRefresh' = [inFlightRefresh EXCEPT ![t] = None]
    /\ cut' = (cut \/ \E r \in own : OnItsWay(r))
    /\ UNCHANGED <<known, hasLocks, lock, posted, reposted, clash, blind>>

\* The document goes away, and its calls, its refresh and its lock with it.
Leave(t, there) ==
    LET own == {r \in Requests : TabOf[r] = t} IN
    /\ Show(t, there)
    /\ request' = [r \in Requests |-> IF r \in own THEN NoRequest ELSE request[r]]
    /\ refresh' = [r \in Requests |-> IF r \in own THEN NoRefresh ELSE refresh[r]]
    /\ inFlightRefresh' = [inFlightRefresh EXCEPT ![t] = None]
    /\ lock' = IF lock \in own THEN None ELSE lock
    /\ cut' = (cut \/ \E r \in own : OnItsWay(r))
    /\ UNCHANGED <<known, hasLocks, posted, reposted, clash, blind>>

\* The code is posted, and still in the address bar.
InExchange(t) == page[t] \in {"exchange", "accepted", "rejected"}

\* A tab is closed, or reloaded: by the player, or by the page after a 401
\* (handleQueueError).  An exchange under way may have reached the server.
Reload(t, there) ==
    /\ page[t] \notin {"away", "closed"}
    /\ Fault
    /\ Leave(t, there)
    /\ left' = IF InExchange(t) THEN left \cup {url[t]} ELSE left
    /\ \/ page[t] = "exchange" /\ SignInUp(url[t])
       \/ UNCHANGED <<family, live, fresh, spent>>
    /\ UNCHANGED <<jar, url, enabled, given, expiries, theft, ended>>

\* POST /auth/logout, then a reload.  A session whose access token has expired
\* cannot be read, and stays.
Logout(t) ==
    /\ page[t] = "authed"
    /\ ~ ended /\ ended' = TRUE
    /\ Fault
    /\ Leave(t, "boot")
    /\ IF jar \in fresh THEN live' = live \ {family[jar]} /\ jar' = 0
       ELSE UNCHANGED <<live, jar>>
    /\ UNCHANGED <<family, fresh, url, enabled, provider, expiries, theft, left>>

-----------------------------------------------------------------------------

\* What the tabs, the network and the server carry on with by themselves.
BootStep(t) ==
    Boot(t) \/ CompleteSuperTokensLogin(t) \/ ReplaceState(t) \/ AuthInfo(t) \/ FetchMe(t)
CallStep(r) == Serve(r) \/ Unauthorized(r)
RefreshStep(r) == WithRefreshLock(r) \/ Refresh(r) \/ Refreshed(r)

Next ==
    \/ \E t \in Tabs : BootStep(t) \/ StartSuperTokensLogin(t) \/ ProviderRedirects(t) \/ Logout(t)
    \/ \E t \in Tabs, there \in {"boot", "closed"} : Reload(t, there)
    \/ \E r \in Requests : Fetch(r) \/ CallStep(r) \/ LookupFails(r) \/ NetworkError(r)
    \/ \E r \in Requests : RefreshStep(r) \/ RefreshBreaksOff(r)
    \/ Expire \/ Restore

\* A call, a boot or a refresh that is under way goes on; a lock that was asked
\* for is granted in turn.  Nothing makes the player come back or log in.
Spec ==
    /\ Init /\ [][Next]_vars
    /\ \A t \in Tabs : WF_vars(BootStep(t))
    /\ \A r \in Requests : WF_vars(CallStep(r)) /\ WF_vars(RefreshStep(r))

-----------------------------------------------------------------------------

RefreshState == [at : {"none", "lock", "sent", "answered"}, token : Nat]
RequestState == [at : {"idle", "sent", "ok", "401", "waiting", "refused", "error"}, token : Nat,
                 again : BOOLEAN, on : Requests \cup {None}]

\* Type invariant: the core's tokens, and what the browser holds.
CoreOK ==
    /\ family \in Seq(Nat)
    /\ live \subseteq Issued /\ fresh \subseteq Issued /\ jar \in 0..Len(family)

BrowserOK ==
    /\ page \in [Tabs -> {"boot", "exchange", "accepted", "rejected", "info", "failed", "me", "anon", "away", "authed", "closed"}]
    /\ url \in [Tabs -> {"plain", "denied"} \cup Codes]
    /\ enabled \in [Tabs -> BOOLEAN]
    /\ inFlightRefresh \in [Tabs -> Requests \cup {None}] /\ lock \in Requests \cup {None}
    /\ refresh \in [Requests -> RefreshState]
    /\ request \in [Requests -> RequestState]

HistoryOK ==
    /\ known \in BOOLEAN /\ hasLocks \in BOOLEAN
    /\ theft \in BOOLEAN /\ cut \in BOOLEAN /\ clash \in BOOLEAN
    /\ ended \in BOOLEAN /\ blind \subseteq Requests
    /\ {given, spent, posted, left, reposted} \subseteq SUBSET Codes
    /\ expiries \in Nat /\ faults \in Nat

TypeOK == CoreOK /\ BrowserOK /\ HistoryOK

\* A refresh token is never presented twice, by the calls of one tab or by
\* several tabs, so the core never ends the session as stolen: only where a
\* refresh was broken off before its answer, or the browser has no locks and
\* two tabs refreshed at once (api.js: "turning a routine renewal into a forced
\* logout, and only ever under concurrency").
SessionSurvives == theft => cut \/ (~ hasLocks /\ clash)

\* An access token that expires is not noticed by any caller: a 401 is handed
\* out only when the session is over for another reason, the tab drives
\* passport, or the retry, under the token that a refresh had brought, was
\* refused as well, because that token expired again or the server could not
\* look up the session or its player (server/auth.js:182 makes any error a 401).
ExpiryGoesUnnoticed ==
    \A r \in Requests : request[r].at = "refused" =>
        \/ ~ enabled[TabOf[r]] \/ ~ known \/ theft \/ cut \/ ended
        \/ request[r].again /\ (request[r].token \notin fresh \/ r \in blind)

\* A code is not posted again by a reload (App.jsx: "which fails and bounces a
\* logged-in player back to the login screen"), unless the tab was left between
\* the post and replaceState.
CodeExchangedOnce == reposted \subseteq left

\* A call ends, whatever the server and the network answer: one retry, no loop,
\* and nobody is left waiting for a refresh or a lock that is gone.
CallsEnd == \A r \in Requests : request[r].at = "sent" ~> request[r].at \notin {"sent", "401", "waiting"}
=============================================================================
