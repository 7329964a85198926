------------------------ MODULE SessionRefreshProofs ------------------------
(***************************************************************************)
(* For any number of tabs, calls, codes and tokens: a code is not posted   *)
(* twice, the session is not ended as stolen, and no caller sees an access *)
(* token expire, but for the reasons the properties name.  Then, for any   *)
(* number of clicks, losses and retries of the page's action queue: what   *)
(* the player did stays on the screen, a round is finished once, and only  *)
(* a beacon overtakes.                                                     *)
(***************************************************************************)
EXTENDS SessionRefresh, ActionQueue, FiniteSetTheorems, WellFoundedInduction, TLAPS

\* The states of a call, by name: the provers would split the set.
CallStates == {"idle", "sent", "ok", "401", "waiting", "refused", "error"}

LEMMA BecomesFields ==
    ASSUME NEW q \in RequestState, NEW on \in Requests \cup {None},
           NEW there \in CallStates
    PROVE  LET new == Becomes(q, there, on)
           IN  new \in RequestState /\ new.at = there /\ new.token = q.token
               /\ new.again = q.again /\ new.on = on
<1> DEFINE moved == [q EXCEPT !.at = there]
<1>1. /\ moved \in RequestState /\ moved.at = there /\ moved.token = q.token /\ moved.again = q.again
  BY Zenon DEF RequestState, CallStates
<1> HIDE DEF moved
<1>2. LET new == [moved EXCEPT !.on = on]
      IN  new \in RequestState /\ new.at = moved.at /\ new.token = moved.token
          /\ new.again = moved.again /\ new.on = on
  BY <1>1, Zenon DEF RequestState
<1>. QED
  BY <1>1, <1>2, Zenon DEF Becomes, moved

\* The core gives out a token: the next number, for the session it is told.
LEMMA Given ==
    ASSUME family \in Seq(Nat), NEW f \in Nat, family' = Append(family, f)
    PROVE  /\ family' \in Seq(Nat)
           /\ Len(family) \in Nat /\ Len(family') = Len(family) + 1
           /\ family'[Len(family) + 1] = f
           /\ \A i \in Issued : family'[i] = family[i]
           /\ Issued' = Issued \cup {Len(family) + 1}
           /\ Len(family) + 1 \notin Issued
<1>1. /\ family' \in Seq(Nat) /\ Len(family) \in Nat /\ Len(family') = Len(family) + 1
      /\ family'[Len(family) + 1] = f
      /\ \A i \in 1..Len(family) : family'[i] = family[i]
  OBVIOUS
<1>. QED
  BY <1>1 DEF Issued

LEMMA IssuedNumbers ==
    ASSUME family \in Seq(Nat)
    PROVE  /\ Len(family) \in Nat /\ Issued \subseteq Nat \ {0}
           /\ \A i \in Issued : family[i] \in Nat
BY DEF Issued

-----------------------------------------------------------------------------

(***************************************************************************)
(* Types.                                                                  *)
(***************************************************************************)
\* A tab in the middle of an exchange has a code to exchange.
Exchanging == \A t \in Tabs : InExchange(t) => url[t] \in Codes

\* What a refresh presents, or brings back, was given out.
Presented == \A r \in Requests : refresh[r].token \in 0..Len(family)

Typed == TypeOK /\ Exchanging /\ Presented

LEMMA TypeInit == Init => Typed
<1> SUFFICES ASSUME Init PROVE Typed
  OBVIOUS
<1>1. CoreOK /\ Len(family) = 0
  BY DEF Init, CoreOK, Issued
<1>2. BrowserOK
  BY TabAssumption DEF Init, BrowserOK, NoRefresh, NoRequest, RefreshState, RequestState
<1>3. HistoryOK /\ Exchanging
  BY DEF Init, HistoryOK, Exchanging, InExchange
<1>4. Presented
  BY <1>1 DEF Init, Presented, NoRefresh
<1>. QED
  BY <1>1, <1>2, <1>3, <1>4 DEF Typed, TypeOK

\* Sessions and tokens are only added, or sessions end.
LEMMA CoreGrows ==
    ASSUME CoreOK, jar' = jar \/ jar' \in 0..Len(family'),
           \/ family' = family
           \/ \E f \in Nat : family' = Append(family, f),
           live' \subseteq live \cup {Len(family')}, fresh' \subseteq fresh \cup {Len(family')},
           family' = family => live' \subseteq live /\ fresh' \subseteq fresh
    PROVE  CoreOK'
<1>1. CASE family' = family
  BY <1>1 DEF CoreOK, Issued
<1>2. ASSUME NEW f \in Nat, family' = Append(family, f) PROVE CoreOK'
  <2>1. /\ family' \in Seq(Nat) /\ Len(family) \in Nat /\ Len(family') = Len(family) + 1
        /\ Issued' = Issued \cup {Len(family) + 1}
    BY <1>2, Given DEF CoreOK
  <2>. QED
    BY <2>1 DEF CoreOK
<1>. QED
  BY <1>1, <1>2

\* What SignInUp and Rotate do to the core.
LEMMA SignInUpTypes ==
    ASSUME CoreOK, NEW code \in Codes, SignInUp(code), spent \subseteq Codes
    PROVE  /\ spent' \subseteq Codes
           /\ \/ /\ code \in spent /\ UNCHANGED <<family, live, fresh, spent>>
              \/ /\ code \notin spent
                 /\ family' = Append(family, Len(family) + 1) /\ Len(family) + 1 \in Nat
                 /\ Len(family') = Len(family) + 1
                 /\ live' = live \cup {Len(family')} /\ fresh' = fresh \cup {Len(family')}
<1>1. CASE code \in spent
  BY <1>1 DEF SignInUp
<1>2. CASE code \notin spent
  <2>1. Len(family) \in Nat
    BY DEF CoreOK
  <2>2. /\ family' = Append(family, Len(family) + 1)
        /\ live' = live \cup {Len(family) + 1} /\ fresh' = fresh \cup {Len(family) + 1}
        /\ spent' = spent \cup {code}
    BY <1>2 DEF SignInUp, Give
  <2>3. Len(family') = Len(family) + 1
    BY <2>1, <2>2, Given DEF CoreOK
  <2>. QED
    BY <1>2, <2>1, <2>2, <2>3
<1>. QED
  BY <1>1, <1>2

LEMMA RotateTypes ==
    ASSUME CoreOK, NEW token \in Nat, Rotate(token)
    PROVE  \/ /\ ~ Knows(token) /\ Rotated(token) = 0
              /\ UNCHANGED <<family, live, fresh, theft>>
           \/ /\ Knows(token) /\ Newest(token) /\ Rotated(token) = Len(family')
              /\ Len(family') = Len(family) + 1
              /\ family[token] \in Nat /\ family' = Append(family, family[token])
              /\ fresh' = fresh \cup {Len(family')}
              /\ UNCHANGED <<live, theft>>
           \/ /\ Knows(token) /\ ~ Newest(token) /\ Rotated(token) = 0
              /\ theft' = TRUE /\ live' = live \ {family[token]}
              /\ UNCHANGED <<family, fresh>>
<1>1. CASE ~ Knows(token)
  BY <1>1 DEF Rotate, Rotated
<1>2. CASE Knows(token) /\ ~ Newest(token)
  BY <1>2 DEF Rotate, Rotated
<1>3. CASE Knows(token) /\ Newest(token)
  <2>1. family[token] \in Nat
    BY <1>3, IssuedNumbers DEF Knows, CoreOK
  <2>2. family' = Append(family, family[token]) /\ fresh' = fresh \cup {Len(family) + 1}
        /\ UNCHANGED <<live, theft>>
    BY <1>3 DEF Rotate, Give
  <2>3. Len(family') = Len(family) + 1
    BY <2>1, <2>2, Given DEF CoreOK
  <2>. QED
    BY <1>3, <2>1, <2>2, <2>3 DEF Rotated
<1>. QED
  BY <1>1, <1>2, <1>3

LEMMA CoreStays ==
    ASSUME CoreOK, UNCHANGED <<family, live, fresh, jar>>
    PROVE  CoreOK'
BY DEF CoreOK, Issued

\* What the core adds, a refresh may still present.
LEMMA PresentedStays ==
    ASSUME Typed, Len(family') \in Nat, Len(family) <= Len(family'),
           \A r \in Requests : refresh'[r].token \in {refresh[r].token, 0}
    PROVE  Presented'
BY IssuedNumbers DEF Typed, TypeOK, CoreOK, Presented

\* A document that leaves takes its calls with it.
LEMMA LeaveTypes ==
    ASSUME Typed, NEW t \in Tabs, NEW there \in {"boot", "closed"}, Leave(t, there)
    PROVE  /\ page' = [page EXCEPT ![t] = there]
           /\ refresh' \in [Requests -> RefreshState] /\ request' \in [Requests -> RequestState]
           /\ \A r \in Requests : refresh'[r].token \in {refresh[r].token, 0}
           /\ inFlightRefresh' \in [Tabs -> Requests \cup {None}] /\ lock' \in Requests \cup {None}
           /\ cut' \in BOOLEAN
           /\ UNCHANGED <<known, hasLocks, posted, reposted, clash, blind>>
BY DEF Leave, Show, Typed, TypeOK, BrowserOK, HistoryOK, NoRefresh, NoRequest, RefreshState, RequestState

\* The callers of a refresh that is over go on.
LEMMA SettleTypes ==
    ASSUME Typed, NEW r \in Requests, NEW token \in Nat, Settle(r, token)
    PROVE  /\ refresh' \in [Requests -> RefreshState] /\ request' \in [Requests -> RequestState]
           /\ \A q \in Requests : refresh'[q].token \in {refresh[q].token, 0}
           /\ inFlightRefresh' \in [Tabs -> Requests \cup {None}] /\ lock' \in Requests \cup {None}
           /\ UNCHANGED <<coreVars, tabVars, hasLocks, provider, expiries,
                          posted, left, reposted, theft, clash, ended, blind>>
<1> USE DEF Typed, TypeOK, BrowserOK, HistoryOK
<1>1. \A q \in Requests : Becomes(request[q], "refused", None) \in RequestState
  BY BecomesFields DEF CallStates
<1>. QED
  BY <1>1, TabAssumption DEF Settle, NoRefresh, RefreshState, RequestState

LEMMA TypeStep == Typed /\ [Next]_vars => Typed'
<1> SUFFICES ASSUME Typed, [Next]_vars PROVE Typed'
  OBVIOUS
<1> USE TabAssumption, BoundAssumption
    DEF Typed, TypeOK, BrowserOK, HistoryOK, Exchanging, InExchange, Show, Replace, IsCallback, Fault, Put,
        coreVars, tabVars, refreshVars, provider, counters, histories
<1>0. Len(family) \in Nat /\ jar \in Nat
  BY IssuedNumbers DEF CoreOK
\* A step that leaves the core, the jar and the refreshes alone.
<1>a. ASSUME UNCHANGED <<family, live, fresh, jar, refresh>> PROVE CoreOK' /\ Presented'
  BY <1>a, <1>0, CoreStays, PresentedStays
<1>1. ASSUME NEW t \in Tabs, Boot(t) PROVE Typed'
  BY <1>1, <1>a DEF Boot, Exchange
<1>2. ASSUME NEW t \in Tabs, CompleteSuperTokensLogin(t) PROVE Typed'
  <2>1. /\ url[t] \in Codes /\ SignInUp(url[t])
        /\ (url[t] \notin spent /\ jar' = Len(family) + 1) \/ jar' = jar
        /\ \E there \in {"accepted", "rejected"} : page' = [page EXCEPT ![t] = there]
        /\ faults' \in Nat
        /\ UNCHANGED <<known, url, enabled, refreshVars, request, given, expiries, histories>>
    BY <1>2 DEF CompleteSuperTokensLogin
  <2>2. CoreOK' /\ spent' \subseteq Codes
    BY <1>0, <2>1, SignInUpTypes, CoreGrows
  <2>3. BrowserOK' /\ HistoryOK' /\ Exchanging'
    BY <2>1, <2>2
  <2>4. Presented'
    BY <1>0, <2>1, SignInUpTypes, PresentedStays
  <2>. QED
    BY <2>2, <2>3, <2>4
<1>6. ASSUME NEW t \in Tabs, ReplaceState(t) PROVE Typed'
  <2>1. \E there \in {"info", "failed"} : page' = [page EXCEPT ![t] = there]
    BY <1>6 DEF ReplaceState, AfterExchange
  <2>. QED
    BY <1>6, <1>a, <2>1 DEF ReplaceState
<1>3. ASSUME NEW t \in Tabs, AuthInfo(t) PROVE Typed'
  <2>1. \E there \in {"me", "anon"} : page' = [page EXCEPT ![t] = there]
    BY <1>3 DEF AuthInfo
  <2>2. \E flow \in BOOLEAN : enabled' = [enabled EXCEPT ![t] = flow]
    BY <1>3 DEF AuthInfo, ConfigureAuthRefresh
  <2>. QED
    BY <1>3, <1>a, <2>1, <2>2 DEF AuthInfo
<1>4. ASSUME NEW t \in Tabs, FetchMe(t) PROVE Typed'
  <2>1. \E there \in {"authed", "anon"} : page' = [page EXCEPT ![t] = there]
    BY <1>4 DEF FetchMe
  <2>. QED
    BY <1>4, <1>a, <2>1 DEF FetchMe
<1>5. ASSUME NEW t \in Tabs, StartSuperTokensLogin(t) \/ ProviderRedirects(t) PROVE Typed'
  BY <1>5, <1>a DEF StartSuperTokensLogin, ProviderRedirects
<1>8. ASSUME NEW t \in Tabs, NEW there \in {"boot", "closed"}, Reload(t, there) PROVE Typed'
  <2>1. CoreOK' /\ spent' \subseteq Codes /\ Len(family') \in Nat /\ Len(family) <= Len(family')
    <3>1. CASE page[t] = "exchange" /\ SignInUp(url[t])
      BY <1>0, <1>8, <3>1, SignInUpTypes, CoreGrows DEF Reload
    <3>2. CASE UNCHANGED <<family, live, fresh, spent>>
      BY <1>0, <1>8, <3>2, CoreStays DEF Reload
    <3>. QED
      BY <1>8, <3>1, <3>2 DEF Reload
  <2>2. BrowserOK' /\ HistoryOK' /\ Exchanging'
    BY <1>8, LeaveTypes, <2>1 DEF Reload
  <2>3. Presented'
    BY <1>8, LeaveTypes, <2>1, PresentedStays DEF Reload
  <2>. QED
    BY <2>1, <2>2, <2>3
<1>9. ASSUME NEW t \in Tabs, Logout(t) PROVE Typed'
  <2>1. live' \subseteq live /\ (jar' = jar \/ jar' = 0) /\ UNCHANGED <<family, fresh>>
    BY <1>9 DEF Logout
  <2>2. CoreOK'
    BY <1>0, <2>1 DEF CoreOK, Issued
  <2>3. BrowserOK' /\ HistoryOK' /\ Exchanging'
    BY <1>9, LeaveTypes DEF Logout
  <2>4. Presented'
    BY <1>0, <1>9, <2>1, LeaveTypes, PresentedStays DEF Logout
  <2>. QED
    BY <2>2, <2>3, <2>4
<1>10. ASSUME NEW r \in Requests, Fetch(r) PROVE Typed'
  BY <1>0, <1>10, <1>a DEF Fetch, RequestState
<1>11. ASSUME NEW r \in Requests, Serve(r) \/ LookupFails(r) \/ NetworkError(r) PROVE Typed'
  <2>1. PICK there \in {"ok", "401", "error"} : request' = [request EXCEPT ![r] = Becomes(request[r], there, None)]
    BY <1>11 DEF Serve, LookupFails, NetworkError
  <2>2. Becomes(request[r], there, None) \in RequestState
    BY BecomesFields, ZenonT(60) DEF CallStates
  <2>3. /\ UNCHANGED <<coreVars, jar, tabVars, refreshVars, provider, expiries,
                       posted, left, reposted, theft, cut, clash, ended>>
        /\ faults' \in Nat /\ blind' \subseteq Requests
    BY <1>11 DEF Serve, LookupFails, NetworkError
  <2>. QED
    BY <1>a, <2>1, <2>2, <2>3
<1>12. ASSUME NEW r \in Requests, Unauthorized(r) PROVE Typed'
  <2>1. PICK there \in {"waiting", "refused"}, on \in Requests \cup {None} :
           request' = [request EXCEPT ![r] = Becomes(request[r], there, on)]
    BY <1>12 DEF Unauthorized, RefreshSession
  <2>2. Becomes(request[r], there, on) \in RequestState
    BY BecomesFields, ZenonT(60) DEF CallStates
  <2>3. /\ refresh' \in [Requests -> RefreshState]
        /\ inFlightRefresh' \in [Tabs -> Requests \cup {None}]
        /\ \A q \in Requests : refresh'[q].token \in {refresh[q].token, 0}
    <3>1. \/ UNCHANGED <<refresh, inFlightRefresh>>
          \/ /\ refresh' = [refresh EXCEPT ![r] = [at |-> "lock", token |-> 0]]
             /\ inFlightRefresh' = [inFlightRefresh EXCEPT ![TabOf[r]] = r]
      BY <1>12 DEF Unauthorized, RefreshSession
    <3>. QED
      BY <3>1, SMTT(30) DEF RefreshState
  <2>4. UNCHANGED <<coreVars, jar, tabVars, hasLocks, lock, provider, counters, histories>>
    BY <1>12 DEF Unauthorized
  <2>5. CoreOK' /\ Presented'
    BY <1>0, <2>3, <2>4, CoreStays, PresentedStays
  <2>. QED
    BY <2>1, <2>2, <2>3, <2>4, <2>5
<1>13. ASSUME NEW r \in Requests, WithRefreshLock(r) PROVE Typed'
  <2>1. refresh' \in [Requests -> RefreshState] /\ Presented'
    BY <1>0, <1>13 DEF WithRefreshLock, RefreshState, Presented, CoreOK
  <2>. QED
    BY <1>13, <2>1, CoreStays DEF WithRefreshLock
<1>14. ASSUME NEW r \in Requests, Refresh(r) PROVE Typed'
  <2>1. /\ refresh[r].token \in Nat /\ Rotate(refresh[r].token) /\ jar' = jar
        /\ refresh' = [refresh EXCEPT ![r] = [at |-> "answered", token |-> Rotated(refresh[r].token)]]
    BY <1>14 DEF Refresh, RefreshState
  <2>2. /\ CoreOK' /\ theft' \in BOOLEAN /\ Len(family) <= Len(family')
        /\ Rotated(refresh[r].token) \in 0..Len(family')
    <3> DEFINE token == refresh[r].token
    <3>1. \/ /\ Rotated(token) = 0 /\ UNCHANGED <<family, fresh>>
             /\ live' \subseteq live /\ theft' \in BOOLEAN
          \/ /\ Rotated(token) = Len(family') /\ Len(family') = Len(family) + 1
             /\ family[token] \in Nat /\ family' = Append(family, family[token])
             /\ fresh' = fresh \cup {Len(family')}
             /\ UNCHANGED <<live, theft>>
      BY <2>1, RotateTypes
    <3>. QED
      BY <1>0, <2>1, <3>1, CoreGrows
  <2>3. refresh' \in [Requests -> RefreshState] /\ Presented'
    BY <1>0, <2>1, <2>2 DEF RefreshState, Presented, CoreOK
  <2>. QED
    BY <1>14, <2>2, <2>3 DEF Refresh
<1>15. ASSUME NEW r \in Requests, Refreshed(r) PROVE Typed'
  <2>1. /\ jar' \in 0..Len(family) /\ refresh[r].token \in Nat
        /\ Settle(r, refresh[r].token) /\ UNCHANGED <<faults, cut>>
    BY <1>15 DEF Refreshed, CoreOK, Presented
  <2>2. /\ refresh' \in [Requests -> RefreshState] /\ request' \in [Requests -> RequestState]
        /\ \A q \in Requests : refresh'[q].token \in {refresh[q].token, 0}
        /\ inFlightRefresh' \in [Tabs -> Requests \cup {None}] /\ lock' \in Requests \cup {None}
        /\ UNCHANGED <<coreVars, tabVars, hasLocks, provider, expiries,
                       posted, left, reposted, theft, clash, ended, blind>>
    BY <2>1, SettleTypes
  <2>3. CoreOK' /\ Presented'
    BY <1>0, <2>1, <2>2, PresentedStays, SMTT(30) DEF CoreOK, Issued
  <2>. QED
    BY <2>1, <2>2, <2>3
<1>16. ASSUME NEW r \in Requests, RefreshBreaksOff(r) PROVE Typed'
  <2>1. Settle(r, 0) /\ jar' = jar /\ cut' = TRUE /\ faults' \in Nat
    BY <1>16 DEF RefreshBreaksOff
  <2>2. /\ refresh' \in [Requests -> RefreshState] /\ request' \in [Requests -> RequestState]
        /\ \A q \in Requests : refresh'[q].token \in {refresh[q].token, 0}
        /\ inFlightRefresh' \in [Tabs -> Requests \cup {None}] /\ lock' \in Requests \cup {None}
        /\ UNCHANGED <<coreVars, tabVars, hasLocks, provider, expiries,
                       posted, left, reposted, theft, clash, ended, blind>>
    BY <2>1, SettleTypes
  <2>3. CoreOK' /\ Presented'
    BY <1>0, <2>1, <2>2, CoreStays, PresentedStays
  <2>. QED
    BY <2>1, <2>2, <2>3
<1>17. CASE Expire
  <2>1. CoreOK' /\ Presented'
    BY <1>0, <1>17, PresentedStays DEF Expire, CoreOK, Issued
  <2>. QED
    BY <1>17, <2>1 DEF Expire
<1>18. CASE Restore
  <2>1. /\ known' = FALSE /\ faults' = faults + 1
        /\ UNCHANGED <<family, live, fresh, jar, tabVars, refreshVars, request, provider,
                       expiries, histories>>
    BY <1>18, Zenon DEF Restore
  <2>2. known' \in BOOLEAN
    BY <2>1, Zenon
  <2>3. CoreOK' /\ Presented' /\ BrowserOK' /\ Exchanging'
    BY <1>a, <2>1
  <2>4. HistoryOK'
    BY <2>1, <2>2
  <2>. QED
    BY <2>3, <2>4
<1>19. CASE UNCHANGED vars
  BY <1>19, <1>a DEF vars
<1>. QED
  BY <1>1, <1>2, <1>3, <1>4, <1>5, <1>6, <1>8, <1>9, <1>10, <1>11, <1>12, <1>13, <1>14, <1>15, <1>16,
     <1>17, <1>18, <1>19
     DEF Next, BootStep, CallStep, RefreshStep

\* Every variable keeps its type.
THEOREM TypeCorrect == Spec => []TypeOK
<1>1. Spec => []Typed
  BY TypeInit, TypeStep, PTL DEF Spec
<1>2. Typed => TypeOK
  BY DEF Typed
<1>. QED
  BY <1>1, <1>2, PTL

-----------------------------------------------------------------------------

(***************************************************************************)
(* A code is posted once, unless its tab is left in between.               *)
(***************************************************************************)

\* A code in an address bar was given to that tab; one that was posted is in the
\* middle of its exchange, or the tab was left there.
CodesOnce ==
    /\ posted \subseteq given
    /\ \A t \in Tabs : url[t] \in Codes =>
          url[t] \in given /\ (url[t] \in posted => InExchange(t) \/ url[t] \in left)
    /\ \A t, u \in Tabs : url[t] \in Codes /\ url[t] = url[u] => t = u
    /\ reposted \subseteq left

CodeInv == Typed /\ CodesOnce

LEMMA CodeStep == CodeInv /\ [Next]_vars => CodeInv'
<1> SUFFICES ASSUME CodeInv, [Next]_vars PROVE CodeInv'
  OBVIOUS
<1>1. Typed'
  BY TypeStep DEF CodeInv
<1> USE TabAssumption
    DEF CodeInv, CodesOnce, Typed, TypeOK, BrowserOK, HistoryOK, Exchanging, Show, Replace, IsCallback
<1>2. ASSUME UNCHANGED <<url, given, posted, left, reposted>>,
             \A t \in Tabs : InExchange(t) => InExchange(t)'
      PROVE  CodeInv'
  BY <1>1, <1>2
<1>3. ASSUME NEW t \in Tabs, Boot(t) PROVE CodeInv'
  <2>1. \/ /\ url' = url \/ url' = [url EXCEPT ![t] = "plain"]
           /\ UNCHANGED <<posted, reposted>>
        \/ /\ url[t] \in Codes /\ url' = url /\ page' = [page EXCEPT ![t] = "exchange"]
           /\ posted' = posted \cup {url[t]}
           /\ reposted' = reposted \cup ({url[t]} \cap posted)
    BY <1>3 DEF Boot, Exchange
  <2>2. /\ page[t] = "boot" /\ UNCHANGED <<given, left>>
        /\ \A u \in Tabs : u # t => page'[u] = page[u]
    BY <1>3 DEF Boot, Exchange, provider
  <2>3. url[t] \in Codes /\ url[t] \in posted => url[t] \in left
    BY <2>2 DEF InExchange
  <2>4. ~ InExchange(t) /\ \A u \in Tabs : u # t => (InExchange(u) <=> InExchange(u)')
    BY <2>2 DEF InExchange
  <2>5. CASE (url' = url \/ url' = [url EXCEPT ![t] = "plain"]) /\ UNCHANGED <<posted, reposted>>
    BY <1>1, <2>2, <2>4, <2>5
  <2>6. CASE /\ url[t] \in Codes /\ url' = url /\ page' = [page EXCEPT ![t] = "exchange"]
             /\ posted' = posted \cup {url[t]}
             /\ reposted' = reposted \cup ({url[t]} \cap posted)
    <3>1. InExchange(t)'
      BY <2>6 DEF InExchange
    <3>. QED
      BY <1>1, <2>2, <2>3, <2>4, <2>6, <3>1
  <2>. QED
    BY <2>1, <2>5, <2>6
<1>4. ASSUME NEW t \in Tabs, CompleteSuperTokensLogin(t) PROVE CodeInv'
  <2>1. /\ \E there \in {"accepted", "rejected"} : page' = [page EXCEPT ![t] = there]
        /\ UNCHANGED <<url, given, posted, left, reposted>>
    BY <1>4 DEF CompleteSuperTokensLogin, histories
  <2>. QED
    BY <1>2, <2>1 DEF InExchange
<1>12. ASSUME NEW t \in Tabs, ReplaceState(t) PROVE CodeInv'
  <2>1. /\ url' = [url EXCEPT ![t] = "plain"]
        /\ \A u \in Tabs : u # t => page'[u] = page[u]
        /\ UNCHANGED <<given, posted, left, reposted>>
    BY <1>12 DEF ReplaceState, provider, histories
  <2>2. url'[t] \notin Codes
    BY <2>1
  <2>. QED
    BY <1>1, <2>1, <2>2 DEF InExchange
<1>5. ASSUME NEW t \in Tabs, ProviderRedirects(t) PROVE CodeInv'
  <2>1. /\ \A u \in Tabs : u # t => page'[u] = page[u] /\ url'[u] = url[u]
        /\ UNCHANGED <<posted, left, reposted>>
        /\ \/ url'[t] = "denied" /\ given' = given
           \/ url'[t] \in Codes \ given /\ given' = given \cup {url'[t]}
    BY <1>5 DEF ProviderRedirects, histories
  <2>2. \A u \in Tabs : u # t => (InExchange(u) <=> InExchange(u)')
    BY <2>1 DEF InExchange
  <2>3. CASE url'[t] = "denied" /\ given' = given
    BY <1>1, <2>1, <2>2, <2>3
  <2>4. CASE url'[t] \in Codes \ given /\ given' = given \cup {url'[t]}
    <3>1. /\ url'[t] \notin posted'
          /\ \A u \in Tabs : u # t => url'[u] # url'[t]
      BY <2>1, <2>4
    <3>. QED
      BY <1>1, <2>1, <2>2, <2>4, <3>1
  <2>. QED
    BY <2>1, <2>3, <2>4
<1>6. ASSUME NEW t \in Tabs, AuthInfo(t) \/ FetchMe(t) \/ StartSuperTokensLogin(t) PROVE CodeInv'
  <2>1. /\ ~ InExchange(t) /\ \A u \in Tabs : u # t => page'[u] = page[u]
        /\ UNCHANGED <<url, given, posted, left, reposted>>
    BY <1>6 DEF AuthInfo, FetchMe, StartSuperTokensLogin, provider, histories, InExchange
  <2>. QED
    BY <1>2, <2>1 DEF InExchange
<1>7. ASSUME NEW t \in Tabs, Logout(t) \/ \E there \in {"boot", "closed"} : Reload(t, there) PROVE CodeInv'
  <2>1. /\ left' = IF InExchange(t) THEN left \cup {url[t]} ELSE left
        /\ \A u \in Tabs : u # t => page'[u] = page[u]
        /\ UNCHANGED <<url, given, posted, reposted>>
    BY <1>7 DEF Logout, Reload, Leave, provider, InExchange
  <2>. QED
    BY <1>1, <2>1 DEF InExchange
<1>8. ASSUME NEW r \in Requests, Fetch(r) \/ CallStep(r) \/ LookupFails(r) \/ NetworkError(r) PROVE CodeInv'
  BY <1>2, <1>8 DEF InExchange, Fetch, CallStep, Serve, LookupFails, Unauthorized, NetworkError, tabVars, provider, histories
<1>9. ASSUME NEW r \in Requests, RefreshStep(r) \/ RefreshBreaksOff(r) PROVE CodeInv'
  BY <1>2, <1>9
     DEF InExchange, RefreshStep, WithRefreshLock, Refresh, Refreshed, RefreshBreaksOff, Settle, tabVars, provider
<1>10. CASE Expire \/ Restore
  BY <1>2, <1>10 DEF InExchange, Expire, Restore, tabVars, provider, histories
<1>11. CASE UNCHANGED vars
  BY <1>2, <1>11 DEF InExchange, vars, tabVars, provider, histories
<1>. QED
  BY <1>3, <1>4, <1>5, <1>6, <1>7, <1>8, <1>9, <1>10, <1>11, <1>12 DEF Next, BootStep, CallStep

\* A code is not posted again, unless its tab was left between the post and
\* replaceState.
THEOREM CodesAreExchangedOnce == Spec => []CodeExchangedOnce
<1>1. Init => CodeInv
  BY TypeInit, TabAssumption DEF Init, CodeInv, CodesOnce
<1>2. CodeInv => CodeExchangedOnce
  BY Zenon DEF CodeInv, CodesOnce, CodeExchangedOnce
<1>3. Spec => []CodeInv
  BY <1>1, CodeStep, PTL DEF Spec
<1>. QED
  BY <1>2, <1>3, PTL

-----------------------------------------------------------------------------

(***************************************************************************)
(* The session survives.                                                   *)
(***************************************************************************)

\* A tab has at most the refresh it names, and the one on its way has the lock.
Named ==
    /\ \A r \in Requests : refresh[r].at # "none" => inFlightRefresh[TabOf[r]] = r
    /\ \A r \in Requests : hasLocks = TRUE /\ OnItsWay(r) => lock = r

\* A session bears the number of its first token.
Numbered == \A i \in Issued : family[i] \in 1..i

\* Nothing has happened yet that api.js does not guard against.
Guarded == cut = FALSE /\ (hasLocks = TRUE \/ clash = FALSE)

Alone == \A q, r \in Requests : OnItsWay(q) /\ OnItsWay(r) => q = r

\* A refresh presents, or brings, the newest token of its session.
UpToDate == \A r \in Requests : OnItsWay(r) /\ refresh[r].token # 0 => Newest(refresh[r].token)

\* So is the browser's, unless its successor is on its way.
JarUpToDate ==
    jar # 0 => \/ Newest(jar)
               \/ \E r \in Requests : /\ refresh[r].at = "answered" /\ refresh[r].token # 0
                                      /\ family[refresh[r].token] = family[jar]

Safe == theft = FALSE /\ Alone /\ UpToDate /\ JarUpToDate

SurviveInv == Typed /\ Named /\ Numbered /\ (Guarded => Safe)

LEMMA SurviveInit == Init => SurviveInv
BY TypeInit
   DEF Init, SurviveInv, Named, Numbered, Guarded, Safe, Alone, UpToDate, JarUpToDate, OnItsWay,
       NoRefresh, Issued

\* What a token of its own does to the others: nothing, unless it renews theirs.
LEMMA Renewals ==
    ASSUME CoreOK, Numbered, NEW f \in Nat, family' = Append(family, f),
           f \in 1..(Len(family) + 1)
    PROVE  /\ Numbered'
           /\ \A i \in Issued : family'[i] = family[i]
           /\ family'[Len(family) + 1] = f
           /\ \A i \in Issued : family[i] # f /\ Newest(i) => Newest(i)'
           /\ Newest(Len(family))'
           /\ \A i \in Issued : family[i] # Len(family) + 1
           /\ Len(family') = Len(family) + 1
<1>1. /\ Len(family) \in Nat /\ Len(family') = Len(family) + 1
      /\ family'[Len(family) + 1] = f
      /\ \A i \in Issued : family'[i] = family[i]
      /\ Issued' = Issued \cup {Len(family) + 1}
  BY Given DEF CoreOK
<1>2. Numbered'
  BY <1>1 DEF Numbered
<1>3. \A i \in Issued : family[i] # f /\ Newest(i) => Newest(i)'
  BY <1>1 DEF Newest
<1>4. Newest(Len(family))'
  BY <1>1 DEF Newest, Issued
<1>5. \A i \in Issued : family[i] # Len(family) + 1
  BY <1>1 DEF Numbered, Issued
<1>. QED
  BY <1>1, <1>2, <1>3, <1>4, <1>5

\* A step that renews nothing: what was newest stays so.
LEMMA Unrenewed ==
    ASSUME Typed, Numbered,
           UNCHANGED family \/ family' = Append(family, Len(family) + 1)
    PROVE  /\ Numbered'
           /\ \A i \in Issued : family'[i] = family[i]
           /\ \A i \in Issued : Newest(i) => Newest(i)'
           /\ family' # family => Newest(Len(family))' /\ Len(family') = Len(family) + 1
<1> USE DEF Typed, TypeOK
<1>1. CASE UNCHANGED family
  BY <1>1 DEF Numbered, Issued, Newest
<1>2. CASE family' = Append(family, Len(family) + 1)
  <2>1. Len(family) + 1 \in Nat /\ Len(family) + 1 \in 1..(Len(family) + 1)
    BY IssuedNumbers DEF CoreOK
  <2>. QED
    BY <1>2, <2>1, Renewals
<1>. QED
  BY <1>1, <1>2

\* A step that takes no refresh forward but may take some away.
LEMMA SafeStays ==
    ASSUME SurviveInv, Typed', Named',
           UNCHANGED family \/ family' = Append(family, Len(family) + 1),
           \/ jar' = jar \/ jar' = 0
           \/ family' # family /\ jar' = Len(family) + 1,
           Guarded' => /\ Guarded /\ theft' = theft
                       /\ \A r \in Requests : OnItsWay(r) => refresh'[r] = refresh[r],
           \A r \in Requests : OnItsWay(r)' => refresh'[r] = refresh[r]
    PROVE  SurviveInv'
<1> USE DEF SurviveInv
<1>1. /\ Numbered'
      /\ \A i \in Issued : family'[i] = family[i]
      /\ \A i \in Issued : Newest(i) => Newest(i)'
      /\ family' # family => Newest(Len(family))' /\ Len(family') = Len(family) + 1
  BY Unrenewed
<1>2. ASSUME Guarded' PROVE Safe'
  <2>1. theft' = FALSE /\ Alone' /\ Safe
    BY <1>2 DEF Safe, Alone, OnItsWay
  <2>2. \A r \in Requests : refresh[r].token # 0 => refresh[r].token \in Issued
    BY IssuedNumbers DEF Typed, TypeOK, CoreOK, Presented, Issued
  <2>3. UpToDate'
    <3> SUFFICES ASSUME NEW r \in Requests, OnItsWay(r)', refresh'[r].token # 0
                 PROVE  Newest(refresh[r].token)'
      BY DEF UpToDate
    <3>1. OnItsWay(r) /\ refresh'[r] = refresh[r]
      BY DEF OnItsWay
    <3>2. Newest(refresh[r].token)
      BY <2>1, <3>1 DEF Safe, UpToDate
    <3>. QED
      BY <1>1, <2>2, <3>1, <3>2 DEF Newest
  <2>4. JarUpToDate'
    <3>1. CASE jar' = jar /\ jar # 0
      <4>1. jar \in Issued
        BY <3>1 DEF Typed, TypeOK, CoreOK, Issued
      <4>2. CASE Newest(jar)
        BY <1>1, <3>1, <4>1, <4>2 DEF JarUpToDate, Newest
      <4>3. ASSUME NEW r \in Requests, refresh[r].at = "answered", refresh[r].token # 0,
                   family[refresh[r].token] = family[jar]
            PROVE  JarUpToDate'
        <5>1. refresh'[r] = refresh[r]
          BY <1>2, <4>3 DEF OnItsWay
        <5>. QED
          BY <1>1, <2>2, <3>1, <4>1, <4>3, <5>1 DEF JarUpToDate
      <4>. QED
        BY <2>1, <3>1, <4>2, <4>3 DEF Safe, JarUpToDate
    <3>2. CASE jar' = 0
      BY <3>2 DEF JarUpToDate
    <3>3. CASE family' # family /\ jar' = Len(family) + 1
      BY <1>1, <3>3 DEF JarUpToDate, Newest
    <3>. QED
      BY <3>1, <3>2, <3>3
  <2>. QED
    BY <2>1, <2>3, <2>4 DEF Safe
<1>. QED
  BY <1>1, <1>2

\* A step that leaves the refreshes alone, or begins to wait for one, is quiet.
LEMMA Quiet ==
    ASSUME SurviveInv, Typed',
           \/ family' = family /\ (jar' = jar \/ jar' = 0)
           \/ /\ family' = Append(family, Len(family) + 1)
              /\ jar' \in {jar, Len(family) + 1},
           UNCHANGED <<inFlightRefresh, refresh, lock, hasLocks, theft, cut, clash>>
    PROVE  SurviveInv'
<1>1. Named' /\ (Guarded' => Guarded)
  BY DEF SurviveInv, Named, Guarded, OnItsWay
<1>2. family' = Append(family, Len(family) + 1) => family' # family
  <2>1. Len(family) + 1 \in Nat
    BY IssuedNumbers DEF SurviveInv, Typed, TypeOK, CoreOK
  <2>2. family' = Append(family, Len(family) + 1) => Len(family') = Len(family) + 1
    BY <2>1, Given DEF SurviveInv, Typed, TypeOK, CoreOK
  <2>. QED
    BY <2>2, IssuedNumbers DEF SurviveInv, Typed, TypeOK, CoreOK
<1>. QED
  BY <1>1, <1>2, SafeStays DEF OnItsWay

\* A document that leaves loses its refresh; one on its way is broken off.
LEMMA Leaves ==
    ASSUME SurviveInv, Typed', NEW t \in Tabs, NEW there \in {"boot", "closed"}, Leave(t, there),
           theft' = theft, jar' = jar \/ jar' = 0,
           UNCHANGED family \/ family' = Append(family, Len(family) + 1)
    PROVE  SurviveInv'
<1> DEFINE own == {r \in Requests : TabOf[r] = t}
<1>1. /\ \A r \in Requests : refresh'[r] = IF r \in own THEN NoRefresh ELSE refresh[r]
      /\ \A u \in Tabs : u # t => inFlightRefresh'[u] = inFlightRefresh[u]
      /\ lock' = IF lock \in own THEN None ELSE lock
      /\ UNCHANGED <<hasLocks, clash>>
  BY DEF Leave, SurviveInv, Typed, TypeOK, BrowserOK
<1>2. cut' = FALSE => cut = FALSE /\ \A r \in own : ~ OnItsWay(r)
  <2>1. cut \in BOOLEAN
    BY DEF SurviveInv, Typed, TypeOK, HistoryOK
  <2>2. cut' = (cut \/ \E r \in own : OnItsWay(r))
    BY Zenon DEF Leave
  <2>. QED
    BY <2>1, <2>2, Zenon
<1>3. Named'
  BY <1>1, TabAssumption DEF SurviveInv, Named, OnItsWay, NoRefresh
<1>4. Guarded' => Guarded /\ \A r \in Requests : OnItsWay(r) => refresh'[r] = refresh[r]
  BY <1>1, <1>2 DEF Guarded
<1>5. \A r \in Requests : OnItsWay(r)' => refresh'[r] = refresh[r]
  BY <1>1 DEF OnItsWay, NoRefresh
<1>. QED
  BY <1>3, <1>4, <1>5, SafeStays

\* One refresh at a time gets the lock, and it presents the browser's token.
LEMMA LockGranted ==
    ASSUME SurviveInv, Typed', NEW r \in Requests, WithRefreshLock(r)
    PROVE  SurviveInv'
<1> USE TabAssumption DEF SurviveInv
<1>1. /\ refresh[r].at = "lock" /\ (hasLocks = TRUE => lock = None)
      /\ lock' = IF hasLocks THEN r ELSE None
      /\ refresh' = [refresh EXCEPT ![r] = [at |-> "sent", token |-> jar]]
      /\ UNCHANGED <<family, jar, inFlightRefresh, hasLocks, theft, cut>>
  BY DEF WithRefreshLock, LockFree, coreVars
<1>2. refresh'[r] = [at |-> "sent", token |-> jar] /\ \A q \in Requests \ {r} : refresh'[q] = refresh[q]
  BY <1>1 DEF Typed, TypeOK, BrowserOK
<1>3. clash' = FALSE => clash = FALSE /\ \A q \in Requests : TabOf[q] # TabOf[r] => ~ OnItsWay(q)
  <2>1. clash \in BOOLEAN
    BY DEF Typed, TypeOK, HistoryOK
  <2>2. clash' = (clash \/ \E q \in Requests : TabOf[q] # TabOf[r] /\ OnItsWay(q))
    BY Zenon DEF WithRefreshLock
  <2>. QED
    BY <2>1, <2>2, Zenon
<1>4. Named'
  BY <1>1, <1>2 DEF Named, OnItsWay
<1>5. Numbered'
  BY <1>1 DEF Numbered, Issued
<1>6. ASSUME Guarded' PROVE Safe'
  <2>1. Guarded
    BY <1>1, <1>3, <1>6 DEF Guarded
  <2>2. \A q \in Requests : ~ OnItsWay(q)
    <3> SUFFICES ASSUME NEW q \in Requests, OnItsWay(q) PROVE FALSE
      OBVIOUS
    <3>1. TabOf[q] # TabOf[r]
      BY <1>1 DEF Named, OnItsWay
    <3>2. hasLocks = TRUE
      BY <1>1, <1>3, <1>6, <3>1 DEF Guarded
    <3>. QED
      BY <1>1, <3>2 DEF Named
  <2>3. jar # 0 => Newest(jar)
    BY <2>1, <2>2 DEF Safe, JarUpToDate, OnItsWay
  <2>. QED
    BY <1>1, <1>2, <2>1, <2>2, <2>3 DEF Safe, Alone, UpToDate, JarUpToDate, OnItsWay, Newest, Issued
<1>. QED
  BY <1>4, <1>5, <1>6

\* The core answers: with a newer token of the same session, or not at all.
LEMMA Answered ==
    ASSUME SurviveInv, Typed', NEW r \in Requests, Refresh(r)
    PROVE  SurviveInv'
<1> USE TabAssumption DEF SurviveInv
<1> DEFINE token == refresh[r].token
           new == [at |-> "answered", token |-> Rotated(token)]
<1>1. /\ refresh[r].at = "sent" /\ Rotate(token)
      /\ refresh' = [refresh EXCEPT ![r] = new]
      /\ UNCHANGED <<jar, inFlightRefresh, hasLocks, lock, cut, clash>>
  BY DEF Refresh
<1>2. refresh'[r] = new /\ \A q \in Requests \ {r} : refresh'[q] = refresh[q]
  BY <1>1 DEF Typed, TypeOK, BrowserOK
<1>3. CoreOK /\ token \in Nat
  BY DEF Typed, TypeOK, BrowserOK, RefreshState
<1>4. Named'
  BY <1>1, <1>2 DEF Named, OnItsWay
<1>5. Guarded' => Guarded /\ Safe /\ ~ \E q \in Requests \ {r} : OnItsWay(q)
  BY <1>1 DEF Guarded, Safe, Alone, OnItsWay
<1>6. Guarded' => (jar # 0 => Newest(jar)) /\ (token # 0 => Newest(token))
  BY <1>1, <1>5 DEF Safe, UpToDate, JarUpToDate, OnItsWay
<1>7. Guarded' => Alone'
  BY <1>2, <1>5 DEF Alone, OnItsWay
<1>8. CASE family' = family
  <2>1. Numbered'
    BY <1>8 DEF Numbered, Issued
  <2>2. ASSUME Guarded' PROVE Safe'
    <3>1. Rotated(token) = 0 /\ theft' = theft
      <4>1. Len(family') # Len(family) + 1
        BY <1>3, <1>8, IssuedNumbers DEF CoreOK
      <4>2. Knows(token) => token # 0
        BY <1>3, IssuedNumbers DEF Knows, CoreOK
      <4>. QED
        BY <1>1, <1>3, <1>6, <2>2, <4>1, <4>2, RotateTypes
    <3>2. theft' = FALSE
      BY <1>5, <2>2, <3>1, Zenon DEF Safe
    <3>3. UpToDate'
      BY <1>2, <1>5, <2>2, <3>1 DEF UpToDate, OnItsWay
    <3>4. JarUpToDate'
      BY <1>1, <1>6, <1>8, <2>2 DEF JarUpToDate, Newest, Issued
    <3>. QED
      BY <1>7, <2>2, <3>2, <3>3, <3>4 DEF Safe
  <2>. QED
    BY <1>4, <2>1, <2>2
<1>9. CASE /\ Knows(token) /\ Rotated(token) = Len(family') /\ Len(family') = Len(family) + 1
           /\ family[token] \in Nat /\ family' = Append(family, family[token])
           /\ UNCHANGED theft
  <2>1. Len(family) \in Nat /\ token \in Issued /\ token <= Len(family) /\ family[token] \in 1..(Len(family) + 1)
    BY <1>3, <1>9, IssuedNumbers DEF Knows, Numbered, CoreOK, Issued
  <2>2. /\ Numbered'
        /\ \A i \in Issued : family'[i] = family[i]
        /\ family'[Len(family) + 1] = family[token]
        /\ \A i \in Issued : family[i] # family[token] /\ Newest(i) => Newest(i)'
        /\ Newest(Len(family))'
    BY <1>3, <1>9, <2>1, Renewals
  <2>3. ASSUME Guarded' PROVE Safe'
    <3>1. theft' = FALSE
      BY <1>5, <1>9, <2>3, Zenon DEF Safe
    <3>2. refresh'[r].at = "answered" /\ refresh'[r].token = Len(family')
      BY <1>2, <1>9
    <3>3. UpToDate'
      BY <1>2, <1>5, <2>2, <2>3, <3>2 DEF UpToDate, OnItsWay, Newest
    <3>4. JarUpToDate'
      <4> SUFFICES ASSUME jar # 0 PROVE JarUpToDate'
        BY <1>1 DEF JarUpToDate
      <4>1. jar \in Issued /\ Newest(jar)
        BY <1>3, <1>6, <2>3 DEF CoreOK, Issued
      <4>2. CASE family[jar] = family[token]
        <5>1. family'[refresh'[r].token] = family'[jar']
          BY <1>1, <1>9, <2>2, <3>2, <4>1, <4>2
        <5>2. refresh'[r].token # 0
          BY <1>9, <2>1, <3>2
        <5>. QED
          BY <3>2, <5>1, <5>2 DEF JarUpToDate
      <4>3. CASE family[jar] # family[token]
        BY <1>1, <2>2, <4>1, <4>3 DEF JarUpToDate, Newest
      <4>. QED
        BY <4>2, <4>3
    <3>. QED
      BY <1>7, <2>3, <3>1, <3>3, <3>4 DEF Safe
  <2>. QED
    BY <1>4, <2>2, <2>3
<1>. QED
  BY <1>1, <1>3, <1>8, <1>9, RotateTypes

\* The answer is read, or lost: the refresh is over for its tab.
LEMMA Settled ==
    ASSUME SurviveInv, NEW r \in Requests, NEW token \in Nat, OnItsWay(r),
           Settle(r, token)
    PROVE  /\ Named'
           /\ refresh'[r] = NoRefresh
           /\ \A q \in Requests \ {r} : refresh'[q] = refresh[q]
<1>1. /\ refresh' = [refresh EXCEPT ![r] = NoRefresh]
      /\ inFlightRefresh' = [inFlightRefresh EXCEPT ![TabOf[r]] = None]
      /\ lock' = IF lock = r THEN None ELSE lock
      /\ UNCHANGED hasLocks
  BY DEF Settle
<1>2. refresh'[r] = NoRefresh /\ \A q \in Requests \ {r} : refresh'[q] = refresh[q]
  BY <1>1 DEF SurviveInv, Typed, TypeOK, BrowserOK
<1>3. inFlightRefresh[TabOf[r]] = r
  BY DEF SurviveInv, Named, OnItsWay
<1>4. \A t \in Tabs : t # TabOf[r] => inFlightRefresh'[t] = inFlightRefresh[t]
  BY <1>1, TabAssumption DEF SurviveInv, Typed, TypeOK, BrowserOK
<1>. QED
  BY <1>1, <1>2, <1>3, <1>4, TabAssumption DEF SurviveInv, Named, OnItsWay, NoRefresh

\* The cookies of the answer are the newest there are.
LEMMA Renewed ==
    ASSUME SurviveInv, Typed', NEW r \in Requests, Refreshed(r)
    PROVE  SurviveInv'
<1> USE DEF SurviveInv
<1> DEFINE token == refresh[r].token
<1>1. /\ refresh[r].at = "answered" /\ OnItsWay(r) /\ token \in Nat
      /\ jar' = IF token = 0 THEN jar ELSE token
      /\ Settle(r, token)
      /\ UNCHANGED <<family, hasLocks, theft, clash, cut>>
  BY DEF Refreshed, OnItsWay, Settle, coreVars, Typed, TypeOK, BrowserOK, RefreshState
<1>2. /\ Named' /\ refresh'[r] = NoRefresh
      /\ \A q \in Requests \ {r} : refresh'[q] = refresh[q]
  BY <1>1, Settled
<1>3. Numbered'
  BY <1>1 DEF Numbered, Issued
<1>4. ASSUME Guarded' PROVE Safe'
  <2>1. Guarded /\ Safe
    BY <1>1, <1>4 DEF Guarded
  <2>2. \A q \in Requests \ {r} : ~ OnItsWay(q)
    BY <1>1, <2>1 DEF Safe, Alone
  <2>3. \A q \in Requests : ~ OnItsWay(q)'
    BY <1>2, <2>2 DEF OnItsWay, NoRefresh
  <2>4. jar' # 0 => Newest(jar')
    <3>1. CASE token # 0
      BY <1>1, <2>1, <3>1 DEF Safe, UpToDate
    <3>2. CASE token = 0
      BY <1>1, <2>1, <2>2, <3>2 DEF Safe, JarUpToDate, OnItsWay
    <3>. QED
      BY <3>1, <3>2
  <2>5. JarUpToDate'
    BY <1>1, <2>4 DEF JarUpToDate, Newest, Issued
  <2>6. theft' = FALSE
    BY <1>1, <2>1, Zenon DEF Safe
  <2>. QED
    BY <2>3, <2>5, <2>6 DEF Safe, Alone, UpToDate
<1>. QED
  BY <1>2, <1>3, <1>4

LEMMA SurviveStep == SurviveInv /\ [Next]_vars => SurviveInv'
<1> SUFFICES ASSUME SurviveInv, [Next]_vars PROVE SurviveInv'
  OBVIOUS
<1>0. Typed'
  BY TypeStep DEF SurviveInv
<1> USE TabAssumption DEF coreVars, tabVars, refreshVars, histories
<1>1. ASSUME NEW t \in Tabs,
             Boot(t) \/ ReplaceState(t) \/ AuthInfo(t) \/ FetchMe(t) \/ StartSuperTokensLogin(t) \/ ProviderRedirects(t)
      PROVE  SurviveInv'
  BY <1>0, <1>1, Quiet DEF Boot, ReplaceState, AuthInfo, FetchMe, StartSuperTokensLogin, ProviderRedirects
<1>2. ASSUME NEW t \in Tabs, CompleteSuperTokensLogin(t) PROVE SurviveInv'
  <2>1. /\ CoreOK /\ spent \subseteq Codes /\ url[t] \in Codes /\ SignInUp(url[t])
        /\ (url[t] \notin spent /\ jar' = Len(family) + 1) \/ jar' = jar
        /\ UNCHANGED <<inFlightRefresh, refresh, lock, hasLocks, theft, cut, clash>>
    BY <1>2 DEF CompleteSuperTokensLogin, SurviveInv, Typed, TypeOK, HistoryOK, Exchanging, InExchange
  <2>. QED
    BY <1>0, <2>1, SignInUpTypes, Quiet
<1>3. ASSUME NEW t \in Tabs, NEW there \in {"boot", "closed"}, Reload(t, there) PROVE SurviveInv'
  <2>1. /\ Leave(t, there) /\ UNCHANGED <<jar, theft>>
        /\ (page[t] = "exchange" /\ SignInUp(url[t])) \/ UNCHANGED family
    BY <1>3 DEF Reload
  <2>2. page[t] = "exchange" /\ SignInUp(url[t]) => family' = family \/ family' = Append(family, Len(family) + 1)
    BY SignInUpTypes DEF SurviveInv, Typed, TypeOK, HistoryOK, Exchanging, InExchange
  <2>. QED
    BY <1>0, <2>1, <2>2, Leaves
<1>4. ASSUME NEW t \in Tabs, Logout(t) PROVE SurviveInv'
  <2>1. Leave(t, "boot") /\ (jar' = jar \/ jar' = 0) /\ UNCHANGED <<family, theft>>
    BY <1>4 DEF Logout
  <2>. QED
    BY <1>0, <2>1, Leaves
<1>5. ASSUME NEW r \in Requests, Fetch(r) \/ Serve(r) \/ LookupFails(r) \/ NetworkError(r) PROVE SurviveInv'
  BY <1>0, <1>5, Quiet DEF Fetch, Serve, LookupFails, NetworkError
<1>6. ASSUME NEW r \in Requests, Unauthorized(r) PROVE SurviveInv'
  <2>1. UNCHANGED <<family, jar, lock, hasLocks, theft, cut, clash>>
    BY <1>6 DEF Unauthorized
  <2>2. CASE UNCHANGED <<refresh, inFlightRefresh>>
    BY <1>0, <2>1, <2>2, Quiet
  <2>3. CASE /\ inFlightRefresh[TabOf[r]] = None
             /\ refresh' = [refresh EXCEPT ![r] = [at |-> "lock", token |-> 0]]
             /\ inFlightRefresh' = [inFlightRefresh EXCEPT ![TabOf[r]] = r]
    <3>1. refresh[r].at = "none"
      BY <2>3 DEF SurviveInv, Named
    <3>2. refresh'[r].at = "lock" /\ \A q \in Requests \ {r} : refresh'[q] = refresh[q]
      BY <2>3 DEF SurviveInv, Typed, TypeOK, BrowserOK
    <3>3. Named'
      BY <2>1, <2>3, <3>2 DEF SurviveInv, Named, OnItsWay, Typed, TypeOK, BrowserOK
    <3>. QED
      BY <1>0, <2>1, <3>1, <3>2, <3>3, SafeStays DEF Guarded, OnItsWay
  <2>. QED
    BY <1>6, <2>2, <2>3 DEF Unauthorized, RefreshSession
<1>7. ASSUME NEW r \in Requests, RefreshBreaksOff(r) PROVE SurviveInv'
  <2>1. /\ OnItsWay(r) /\ Settle(r, 0) /\ cut' = TRUE /\ UNCHANGED <<family, jar>>
    BY <1>7 DEF RefreshBreaksOff, Settle
  <2>2. /\ Named' /\ refresh'[r] = NoRefresh
        /\ \A q \in Requests \ {r} : refresh'[q] = refresh[q]
    BY <2>1, Settled
  <2>3. ~ Guarded' /\ Numbered'
    BY <2>1 DEF Guarded, SurviveInv, Numbered, Issued
  <2>. QED
    BY <1>0, <2>2, <2>3 DEF SurviveInv
<1>8. CASE Expire \/ Restore
  BY <1>0, <1>8, Quiet DEF Expire, Restore
<1>9. CASE UNCHANGED vars
  BY <1>0, <1>9, Quiet DEF vars
<1>. QED
  BY <1>0, <1>1, <1>2, <1>3, <1>4, <1>5, <1>6, <1>7, <1>8, <1>9, LockGranted, Answered, Renewed
     DEF Next, BootStep, CallStep, RefreshStep

\* The core takes no refresh for theft, unless one was broken off before its
\* answer was read, or two tabs without locks refreshed at once.
THEOREM SessionIsKept == Spec => []SessionSurvives
<1>1. SurviveInv => SessionSurvives
  <2> SUFFICES ASSUME SurviveInv PROVE SessionSurvives
    OBVIOUS
  <2>1. Guarded => theft = FALSE
    BY Zenon DEF SurviveInv, Safe
  <2>2. /\ cut \in BOOLEAN /\ hasLocks \in BOOLEAN /\ clash \in BOOLEAN
    BY DEF SurviveInv, Typed, TypeOK, HistoryOK
  <2>. QED
    BY <2>1, <2>2, Zenon DEF Guarded, SessionSurvives
<1>2. Spec => []SurviveInv
  BY SurviveInit, SurviveStep, PTL DEF Spec
<1>. QED
  BY <1>1, <1>2, PTL

-----------------------------------------------------------------------------

(***************************************************************************)
(* Expiry goes unnoticed.                                                  *)
(***************************************************************************)
Over == theft = TRUE \/ ended = TRUE

\* A session ends as stolen or by logging out.
Lively == Over \/ \A i \in Issued : family[i] \in live

\* A page that has calls or refreshes under way has seen a session.
Shown(r) == request[r].at # "idle" \/ refresh[r].at # "none" => page[TabOf[r]] = "authed"

Signed(t) == page[t] = "authed" => jar # 0 \/ ended = TRUE

\* What a refresh presents without a token, or brings back, is a session's end.
RefreshOk(r) == OnItsWay(r) /\ refresh[r].token = 0 => Over

Expired(r) == request[r].token \notin fresh

Excused(r) ==
    \/ enabled[TabOf[r]] = FALSE \/ known = FALSE \/ cut = TRUE \/ Over
    \/ request[r].again = TRUE /\ (Expired(r) \/ r \in blind)

CallOk(r) ==
    /\ request[r].token \in 0..Len(family)
    /\ request[r].at = "401" => Expired(r) \/ known = FALSE \/ r \in blind
    /\ request[r].at = "refused" => Excused(r)

NoticeInv ==
    /\ Typed /\ Lively
    /\ \A t \in Tabs : Signed(t)
    /\ \A r \in Requests : Shown(r) /\ RefreshOk(r) /\ CallOk(r)

LEMMA NoticeInit == Init => NoticeInv
BY TypeInit
   DEF Init, NoticeInv, Lively, Over, Signed, Shown, RefreshOk, CallOk, OnItsWay, NoRefresh, NoRequest, Issued

\* No step makes a token fresh again that was given out before, finds the row
\* that a restored database lost, or takes back what has happened.
Onward ==
    /\ Len(family') \in Nat /\ Len(family) <= Len(family')
    /\ \A i \in 0..Len(family) : i \in fresh' => i \in fresh
    /\ known = FALSE => known' = FALSE
    /\ theft = TRUE => theft' = TRUE
    /\ cut = TRUE => cut' = TRUE
    /\ ended = TRUE => ended' = TRUE

\* What becomes of the core in a step that gives out no token, or a session's first.
LEMMA CoreOnward ==
    ASSUME NoticeInv,
           \/ UNCHANGED <<family, live>> /\ fresh' \subseteq fresh
           \/ /\ family' = Append(family, Len(family) + 1)
              /\ Len(family') = Len(family) + 1
              /\ live' = live \cup {Len(family')} /\ fresh' = fresh \cup {Len(family')},
           known' = known \/ known' = FALSE,
           UNCHANGED theft, cut' = cut \/ cut' = TRUE, ended' = ended \/ ended' = TRUE
    PROVE  Onward /\ Lively'
<1> USE DEF NoticeInv, Typed, TypeOK
<1>0. Len(family) \in Nat /\ Len(family) + 1 \in Nat
  BY IssuedNumbers DEF CoreOK
<1>1. CASE UNCHANGED <<family, live>> /\ fresh' \subseteq fresh
  BY <1>0, <1>1 DEF Onward, Lively, Over, Issued
<1>2. CASE /\ family' = Append(family, Len(family) + 1)
           /\ Len(family') = Len(family) + 1
           /\ live' = live \cup {Len(family')} /\ fresh' = fresh \cup {Len(family')}
  <2>1. Onward
    BY <1>0, <1>2 DEF Onward
  <2>2. /\ family'[Len(family) + 1] = Len(family) + 1
        /\ \A i \in Issued : family'[i] = family[i]
        /\ Issued' = Issued \cup {Len(family) + 1}
    BY <1>0, <1>2, Given DEF CoreOK
  <2>3. Lively'
    BY <1>2, <2>2 DEF Lively, Over
  <2>. QED
    BY <2>1, <2>3
<1>. QED
  BY <1>1, <1>2

\* A call that a step leaves alone stays excused.
LEMMA CallStays ==
    ASSUME NoticeInv, Onward, NEW r \in Requests, request'[r] = request[r],
           request[r].at # "idle" => enabled'[TabOf[r]] = enabled[TabOf[r]],
           r \in blind => r \in blind'
    PROVE  CallOk(r)'
<1>1. CallOk(r) /\ Len(family) \in Nat
  BY IssuedNumbers DEF NoticeInv, Typed, TypeOK, CoreOK
<1>2. Expired(r) => Expired(r)'
  BY <1>1 DEF CallOk, Expired, Onward
<1>3. request[r].at = "refused" => Excused(r)'
  BY <1>1, <1>2 DEF CallOk, Excused, Over, Onward
<1>. QED
  BY <1>1, <1>2, <1>3 DEF CallOk, Onward

LEMMA RefreshStays ==
    ASSUME NoticeInv, Onward, NEW r \in Requests, refresh'[r] = refresh[r]
    PROVE  RefreshOk(r)'
BY DEF NoticeInv, RefreshOk, OnItsWay, Over, Onward

\* A step of a tab that has no call under way, or of the core with it.
LEMMA TabStep ==
    ASSUME NoticeInv, Typed', Onward, Lively', NEW t \in Tabs,
           request' = request, refresh' = refresh, blind' = blind,
           page[t] # "authed",
           \A u \in Tabs : u # t => page'[u] = page[u] /\ enabled'[u] = enabled[u],
           jar' = jar \/ jar' # 0,
           page'[t] = "authed" => jar' # 0
    PROVE  NoticeInv'
<1> USE TabAssumption DEF Typed, TypeOK, BrowserOK
<1>2. ASSUME NEW u \in Tabs PROVE Signed(u)'
  BY DEF NoticeInv, Signed, Onward
<1>3. ASSUME NEW r \in Requests PROVE Shown(r)' /\ RefreshOk(r)' /\ CallOk(r)'
  <2>1. Shown(r)'
    BY DEF NoticeInv, Shown
  <2>2. request[r].at # "idle" => enabled'[TabOf[r]] = enabled[TabOf[r]]
    BY DEF NoticeInv, Shown
  <2>. QED
    BY <2>1, <2>2, CallStays, RefreshStays
<1>. QED
  BY <1>2, <1>3 DEF NoticeInv

\* A document that leaves takes its calls along; nobody is answered by it.
LEMMA Left ==
    ASSUME NoticeInv, Typed', Onward, Lively', NEW t \in Tabs, NEW there \in {"boot", "closed"},
           Leave(t, there), UNCHANGED enabled,
           jar' = jar \/ ended' = TRUE
    PROVE  NoticeInv'
<1> USE TabAssumption DEF Typed, TypeOK, BrowserOK
<1>1. /\ page' = [page EXCEPT ![t] = there]
      /\ \A r \in Requests :
            /\ request'[r] = IF TabOf[r] = t THEN NoRequest ELSE request[r]
            /\ refresh'[r] = IF TabOf[r] = t THEN NoRefresh ELSE refresh[r]
      /\ blind' = blind
  BY DEF Leave, Show, NoticeInv
<1>2. ASSUME NEW u \in Tabs PROVE Signed(u)'
  BY <1>1 DEF NoticeInv, Signed, Onward
<1>3. ASSUME NEW r \in Requests PROVE Shown(r)' /\ RefreshOk(r)' /\ CallOk(r)'
  <2>1. CASE TabOf[r] = t
    BY <1>1, <2>1 DEF NoRequest, NoRefresh, Shown, RefreshOk, OnItsWay, CallOk, Onward
  <2>2. CASE TabOf[r] # t
    <3>1. Shown(r)'
      BY <1>1, <2>2 DEF NoticeInv, Shown
    <3>. QED
      BY <1>1, <2>2, <3>1, CallStays, RefreshStays
  <2>. QED
    BY <2>1, <2>2
<1>. QED
  BY <1>2, <1>3 DEF NoticeInv

\* A step of the calls and refreshes under way, which stay on a page that has seen
\* a session.
LEMMA CallsGoOn ==
    ASSUME NoticeInv, Typed', Onward, Lively', UNCHANGED tabVars,
           jar' = jar \/ jar' # 0,
           \A r \in Requests :
              /\ (request'[r] = request[r] /\ (r \in blind => r \in blind')) \/ (page[TabOf[r]] = "authed" /\ CallOk(r)')
              /\ refresh'[r] = refresh[r] \/ (page[TabOf[r]] = "authed" /\ RefreshOk(r)')
    PROVE  NoticeInv'
<1>1. \A t \in Tabs : Signed(t)'
  BY DEF NoticeInv, Signed, Onward, tabVars
<1>2. ASSUME NEW r \in Requests PROVE Shown(r)' /\ RefreshOk(r)' /\ CallOk(r)'
  <2>1. Shown(r)'
    BY DEF NoticeInv, Shown, tabVars
  <2>2. RefreshOk(r)'
    BY RefreshStays
  <2>3. CallOk(r)'
    BY CallStays DEF tabVars
  <2>. QED
    BY <2>1, <2>2, <2>3
<1>. QED
  BY <1>1, <1>2 DEF NoticeInv

LEMMA MovedCall ==
    ASSUME Typed, NEW r \in Requests, NEW on \in Requests \cup {None},
           NEW there \in CallStates,
           request'[r] = Becomes(request[r], there, on)
    PROVE  /\ request'[r].at = there /\ request'[r].token = request[r].token
           /\ request'[r].again = request[r].again
<1>1. request[r] \in RequestState
  BY DEF Typed, TypeOK, BrowserOK
<1>2. LET new == Becomes(request[r], there, on)
      IN  new.at = there /\ new.token = request[r].token /\ new.again = request[r].again
  BY <1>1, BecomesFields, ZenonT(60)
<1>. QED
  BY <1>2, Zenon

\* The server answers: 401 for a token that has expired, for no row, or where
\* it cannot look.
LEMMA Served ==
    ASSUME NoticeInv, Typed', NEW r \in Requests, Serve(r) \/ LookupFails(r) \/ NetworkError(r)
    PROVE  NoticeInv'
<1> USE TabAssumption DEF coreVars, tabVars, refreshVars, histories
<1>1. PICK there \in CallStates :
         /\ request' = [request EXCEPT ![r] = Becomes(request[r], there, None)]
         /\ there \in {"ok", "401", "error"}
         /\ there = "401" => ~ Authenticates(request[r].token) \/ r \in blind'
  BY DEF Serve, LookupFails, NetworkError, Put, CallStates
<1>2. /\ UNCHANGED <<coreVars, jar, tabVars, refreshVars, theft, cut, ended>> /\ page[TabOf[r]] = "authed"
      /\ \A q \in Requests : q # r /\ q \in blind => q \in blind'
  BY DEF Serve, LookupFails, NetworkError, NoticeInv, Shown
<1>3. Onward /\ Lively'
  BY <1>2, CoreOnward
<1>4. request'[r].at = there /\ request'[r].token = request[r].token
  <2>1. Typed /\ request'[r] = Becomes(request[r], there, None)
    BY <1>1 DEF NoticeInv, Typed, TypeOK, BrowserOK
  <2>. QED
    BY <2>1, MovedCall
<1>5. there = "401" => Expired(r) \/ known = FALSE \/ r \in blind'
  <2>1. known \in BOOLEAN
    BY DEF NoticeInv, Typed, TypeOK, HistoryOK
  <2>. QED
    BY <1>1, <2>1, Zenon DEF Authenticates, Expired
<1>6. CallOk(r)'
  BY <1>1, <1>2, <1>4, <1>5 DEF NoticeInv, CallOk, Expired
<1>7. \A q \in Requests : q # r => request'[q] = request[q]
  BY <1>1 DEF NoticeInv, Typed, TypeOK, BrowserOK
<1>. QED
  BY <1>2, <1>3, <1>6, <1>7, CallsGoOn

\* A 401 becomes the answer only where there is nothing to refresh with, or twice.
LEMMA Read401 ==
    ASSUME NoticeInv, Typed', NEW r \in Requests, Unauthorized(r)
    PROVE  NoticeInv'
<1> USE TabAssumption DEF coreVars, tabVars, refreshVars, histories
<1>1. PICK there \in CallStates,
           on \in Requests \cup {None} :
         /\ request' = [request EXCEPT ![r] = Becomes(request[r], there, on)]
         /\ there \in {"waiting", "refused"}
         /\ there = "refused" => ~ MayRefresh(r)
  BY DEF Unauthorized, RefreshSession, Put, CallStates, NoticeInv, Typed, TypeOK, BrowserOK
<1>2. /\ UNCHANGED <<coreVars, jar, tabVars, histories>>
      /\ request[r].at = "401" /\ page[TabOf[r]] = "authed"
      /\ UNCHANGED refresh \/ refresh' = [refresh EXCEPT ![r] = [at |-> "lock", token |-> 0]]
  BY DEF Unauthorized, RefreshSession, NoticeInv, Shown
<1>3. Onward /\ Lively'
  BY <1>2, CoreOnward
<1>4. request'[r].at = there /\ request'[r].token = request[r].token /\ request'[r].again = request[r].again
  <2>1. Typed /\ request'[r] = Becomes(request[r], there, on)
    BY <1>1 DEF NoticeInv, Typed, TypeOK, BrowserOK
  <2>. QED
    BY <2>1, MovedCall
<1>5. there = "refused" => enabled[TabOf[r]] = FALSE \/ request[r].again = TRUE
  <2>1. request[r].again \in BOOLEAN /\ enabled[TabOf[r]] \in BOOLEAN
    BY DEF NoticeInv, Typed, TypeOK, BrowserOK, RequestState
  <2>. QED
    BY <1>1, <2>1, Zenon DEF MayRefresh
<1>6. CallOk(r)'
  BY <1>2, <1>4, <1>5 DEF NoticeInv, CallOk, Excused, Expired
<1>7. \A q \in Requests : q # r => request'[q] = request[q] /\ refresh'[q] = refresh[q]
  BY <1>1, <1>2 DEF NoticeInv, Typed, TypeOK, BrowserOK
<1>8. refresh'[r] = refresh[r] \/ RefreshOk(r)'
  BY <1>2 DEF RefreshOk, OnItsWay, NoticeInv, Typed, TypeOK, BrowserOK
<1>. QED
  BY <1>2, <1>3, <1>6, <1>7, <1>8, CallsGoOn

\* The callers of a refresh that is over are answered for a reason.
LEMMA AllSettled ==
    ASSUME NoticeInv, Typed', NEW r \in Requests, NEW token \in 0..Len(family), OnItsWay(r),
           Settle(r, token), jar' = jar \/ jar' # 0,
           cut' = cut \/ cut' = TRUE,
           token = 0 => Over \/ cut' = TRUE
    PROVE  NoticeInv'
<1> USE TabAssumption DEF coreVars, tabVars
<1>1. /\ refresh' = [refresh EXCEPT ![r] = NoRefresh]
      /\ request' = [q \in Requests |->
            IF request[q].at # "waiting" \/ request[q].on # r THEN request[q]
            ELSE IF token # 0 THEN [at |-> "sent", token |-> token, again |-> TRUE, on |-> None]
            ELSE Becomes(request[q], "refused", None)]
      /\ UNCHANGED <<coreVars, tabVars, theft, ended, blind>>
  BY DEF Settle
<1>2. Onward /\ Lively'
  BY <1>1, CoreOnward
<1>3. \A q \in Requests : refresh'[q] = IF q = r THEN NoRefresh ELSE refresh[q]
  BY <1>1 DEF NoticeInv, Typed, TypeOK, BrowserOK
<1>4. page[TabOf[r]] = "authed" /\ RefreshOk(r)'
  BY <1>3 DEF NoticeInv, Shown, OnItsWay, RefreshOk, NoRefresh
<1>5. ASSUME NEW q \in Requests
      PROVE  request'[q] = request[q] \/ (page[TabOf[q]] = "authed" /\ CallOk(q)')
  <2>1. CASE request[q].at # "waiting" \/ request[q].on # r
    BY <1>1, <2>1
  <2>2. CASE request[q].at = "waiting" /\ request[q].on = r /\ token # 0
    <3>1. request'[q] = [at |-> "sent", token |-> token, again |-> TRUE, on |-> None]
      BY <1>1, <2>2
    <3>. QED
      BY <1>1, <2>2, <3>1 DEF NoticeInv, Shown, CallOk
  <2>3. CASE request[q].at = "waiting" /\ request[q].on = r /\ token = 0
    <3>1. Typed /\ request'[q] = Becomes(request[q], "refused", None)
      BY <1>1, <2>3 DEF NoticeInv
    <3>2. request'[q].at = "refused" /\ request'[q].token = request[q].token
      BY <3>1, MovedCall DEF CallStates
    <3>3. Excused(q)'
      BY <1>1, <2>3 DEF Excused, Over
    <3>. QED
      BY <1>1, <2>3, <3>2, <3>3 DEF NoticeInv, Shown, CallOk
  <2>. QED
    BY <2>1, <2>2, <2>3
<1>. QED
  BY <1>1, <1>2, <1>3, <1>4, <1>5, CallsGoOn

\* The core refuses a refresh only at a session's end.
LEMMA CoreAnswers ==
    ASSUME NoticeInv, Typed', NEW r \in Requests, Refresh(r)
    PROVE  NoticeInv'
<1> USE TabAssumption DEF coreVars, tabVars
<1> DEFINE token == refresh[r].token
           new == [at |-> "answered", token |-> Rotated(token)]
<1>1. /\ refresh[r].at = "sent" /\ Rotate(token)
      /\ refresh' = [refresh EXCEPT ![r] = new]
      /\ UNCHANGED <<known, jar, tabVars, request, cut, ended, blind>>
  BY DEF Refresh
<1>2. /\ CoreOK /\ token \in 0..Len(family) /\ token \in Nat /\ Len(family) \in Nat
      /\ theft \in BOOLEAN
  BY IssuedNumbers
     DEF NoticeInv, Typed, TypeOK, BrowserOK, HistoryOK, CoreOK, RefreshState, Presented
<1>3. refresh'[r] = new /\ \A q \in Requests : q # r => refresh'[q] = refresh[q]
  BY <1>1 DEF NoticeInv, Typed, TypeOK, BrowserOK
<1>4. page[TabOf[r]] = "authed"
  BY <1>1 DEF NoticeInv, Shown
<1>5. CASE ~ Knows(token) /\ Rotated(token) = 0 /\ UNCHANGED <<family, live, fresh, theft>>
  <2>1. Onward /\ Lively'
    BY <1>1, <1>5, CoreOnward
  <2>2. Over
    BY <1>1, <1>2, <1>5 DEF NoticeInv, Lively, RefreshOk, OnItsWay, Knows, Issued
  <2>3. RefreshOk(r)'
    BY <1>1, <1>5, <2>2 DEF RefreshOk, Over
  <2>. QED
    BY <1>1, <1>3, <1>4, <2>1, <2>3, CallsGoOn
<1>6. CASE /\ Knows(token) /\ Rotated(token) = Len(family')
           /\ Len(family') = Len(family) + 1
           /\ family[token] \in Nat /\ family' = Append(family, family[token])
           /\ fresh' = fresh \cup {Len(family')}
           /\ UNCHANGED <<live, theft>>
  <2>1. /\ family'[Len(family) + 1] = family[token]
        /\ \A i \in Issued : family'[i] = family[i]
        /\ Issued' = Issued \cup {Len(family) + 1}
    BY <1>2, <1>6, Given DEF CoreOK
  <2>2. Onward
    BY <1>1, <1>2, <1>6 DEF Onward
  <2>3. Lively'
    BY <1>1, <1>6, <2>1 DEF NoticeInv, Lively, Over, Knows
  <2>4. RefreshOk(r)'
    BY <1>2, <1>3, <1>6 DEF RefreshOk
  <2>. QED
    BY <1>1, <1>3, <1>4, <2>2, <2>3, <2>4, CallsGoOn
<1>7. CASE theft' = TRUE /\ UNCHANGED <<family, fresh>>
  <2>1. Onward /\ Lively' /\ RefreshOk(r)'
    BY <1>1, <1>2, <1>7 DEF Onward, Lively, RefreshOk, Over
  <2>. QED
    BY <1>1, <1>3, <1>4, <2>1, CallsGoOn
<1>. QED
  BY <1>1, <1>2, <1>5, <1>6, <1>7, RotateTypes

LEMMA NoticeStep == NoticeInv /\ [Next]_vars => NoticeInv'
<1> SUFFICES ASSUME NoticeInv, [Next]_vars PROVE NoticeInv'
  OBVIOUS
<1>0. Typed'
  BY TypeStep DEF NoticeInv
<1> USE TabAssumption DEF coreVars, tabVars, refreshVars, histories
<1>1. ASSUME NEW t \in Tabs, Boot(t) \/ ReplaceState(t) \/ AuthInfo(t) \/ FetchMe(t) \/ StartSuperTokensLogin(t) \/ ProviderRedirects(t)
      PROVE  NoticeInv'
  <2>1. Onward /\ Lively'
    BY <1>1, CoreOnward DEF Boot, ReplaceState, AuthInfo, FetchMe, StartSuperTokensLogin, ProviderRedirects
  <2>2. /\ page[t] # "authed" /\ request' = request /\ refresh' = refresh /\ jar' = jar /\ blind' = blind
        /\ \A u \in Tabs : u # t => page'[u] = page[u] /\ enabled'[u] = enabled[u]
    BY <1>1
       DEF Boot, Exchange, ReplaceState, AfterExchange, AuthInfo, FetchMe, StartSuperTokensLogin, ProviderRedirects, Show,
           ConfigureAuthRefresh, NoticeInv, Typed, TypeOK, BrowserOK
  <2>3. page'[t] = "authed" => jar # 0
    <3>1. CASE FetchMe(t)
      <4>1. page'[t] = "authed" => Authenticates(jar)
        BY <3>1 DEF FetchMe, Show, NoticeInv, Typed, TypeOK, BrowserOK
      <4>2. Authenticates(jar) => jar \in Issued
        BY DEF Authenticates, NoticeInv, Typed, TypeOK, CoreOK
      <4>. QED
        BY <4>1, <4>2, IssuedNumbers DEF NoticeInv, Typed, TypeOK, CoreOK
    <3>2. CASE ~ FetchMe(t)
      BY <1>1, <3>2
         DEF Boot, Exchange, ReplaceState, AfterExchange, AuthInfo, StartSuperTokensLogin, ProviderRedirects, Show,
             NoticeInv, Typed, TypeOK, BrowserOK
    <3>. QED
      BY <3>1, <3>2
  <2>. QED
    BY <1>0, <2>1, <2>2, <2>3, TabStep
<1>2. ASSUME NEW t \in Tabs, CompleteSuperTokensLogin(t) PROVE NoticeInv'
  <2>1. /\ CoreOK /\ spent \subseteq Codes /\ url[t] \in Codes /\ SignInUp(url[t])
        /\ jar' = Len(family) + 1 \/ jar' = jar
        /\ page[t] = "exchange" /\ \E there \in {"accepted", "rejected"} : page' = [page EXCEPT ![t] = there]
        /\ request' = request /\ refresh' = refresh /\ enabled' = enabled
        /\ UNCHANGED <<known, theft, cut, ended, blind>>
    BY <1>2 DEF CompleteSuperTokensLogin, Show, NoticeInv, Typed, TypeOK, HistoryOK, Exchanging, InExchange
  <2>2. Onward /\ Lively'
    BY <2>1, SignInUpTypes, CoreOnward
  <2>3. jar' = jar \/ jar' # 0
    BY <2>1, IssuedNumbers DEF CoreOK
  <2>4. /\ page[t] # "authed" /\ page'[t] # "authed"
        /\ \A u \in Tabs : u # t => page'[u] = page[u]
    BY <2>1 DEF NoticeInv, Typed, TypeOK, BrowserOK
  <2>. QED
    BY <1>0, <2>1, <2>2, <2>3, <2>4, TabStep
<1>3. ASSUME NEW t \in Tabs, NEW there \in {"boot", "closed"}, Reload(t, there) PROVE NoticeInv'
  <2>1. /\ Leave(t, there) /\ UNCHANGED <<jar, enabled, theft, ended>>
        /\ (page[t] = "exchange" /\ SignInUp(url[t])) \/ UNCHANGED <<family, live, fresh>>
    BY <1>3 DEF Reload
  <2>2. known' = known /\ (cut' = cut \/ cut' = TRUE)
    <3>1. cut \in BOOLEAN
      BY DEF NoticeInv, Typed, TypeOK, HistoryOK
    <3>2. known' = known /\ cut' = (cut \/ \E r \in {q \in Requests : TabOf[q] = t} : OnItsWay(r))
      BY <2>1, Zenon DEF Leave
    <3>. QED
      BY <3>1, <3>2, Zenon
  <2>3. page[t] = "exchange" =>
           CoreOK /\ spent \subseteq Codes /\ url[t] \in Codes
    BY DEF NoticeInv, Typed, TypeOK, HistoryOK, Exchanging, InExchange
  <2>4. Onward /\ Lively'
    BY <2>1, <2>2, <2>3, SignInUpTypes, CoreOnward
  <2>. QED
    BY <1>0, <2>1, <2>4, Left
<1>4. ASSUME NEW t \in Tabs, Logout(t) PROVE NoticeInv'
  <2>1. /\ Leave(t, "boot") /\ ended' = TRUE
        /\ UNCHANGED <<family, fresh, enabled, theft>>
    BY <1>4 DEF Logout
  <2>2. known' = known /\ (cut' = cut \/ cut' = TRUE)
    <3>1. cut \in BOOLEAN
      BY DEF NoticeInv, Typed, TypeOK, HistoryOK
    <3>2. known' = known /\ cut' = (cut \/ \E r \in {q \in Requests : TabOf[q] = t} : OnItsWay(r))
      BY <2>1, Zenon DEF Leave
    <3>. QED
      BY <3>1, <3>2, Zenon
  <2>3. Onward /\ Lively'
    BY <2>1, <2>2, IssuedNumbers DEF NoticeInv, Typed, TypeOK, CoreOK, Onward, Lively, Over
  <2>. QED
    BY <1>0, <2>1, <2>3, Left
<1>5. ASSUME NEW r \in Requests, Fetch(r) PROVE NoticeInv'
  <2>1. /\ page[TabOf[r]] = "authed"
        /\ request' = [request EXCEPT ![r] = [at |-> "sent", token |-> jar, again |-> FALSE, on |-> None]]
        /\ UNCHANGED <<coreVars, jar, tabVars, refreshVars, histories>>
    BY <1>5 DEF Fetch, Put
  <2>2. Onward /\ Lively'
    BY <2>1, CoreOnward
  <2>3. \A q \in Requests :
           request'[q] = IF q = r THEN [at |-> "sent", token |-> jar, again |-> FALSE, on |-> None]
                         ELSE request[q]
    BY <2>1 DEF NoticeInv, Typed, TypeOK, BrowserOK
  <2>4. CallOk(r)'
    BY <2>1, <2>3 DEF CallOk, NoticeInv, Typed, TypeOK, CoreOK
  <2>. QED
    BY <1>0, <2>1, <2>2, <2>3, <2>4, CallsGoOn
<1>6. ASSUME NEW r \in Requests, WithRefreshLock(r) PROVE NoticeInv'
  <2>1. /\ refresh[r].at = "lock"
        /\ refresh' = [refresh EXCEPT ![r] = [at |-> "sent", token |-> jar]]
        /\ UNCHANGED <<coreVars, jar, tabVars, request, theft, cut, ended, blind>>
    BY <1>6 DEF WithRefreshLock
  <2>2. Onward /\ Lively' /\ page[TabOf[r]] = "authed"
    BY <2>1, CoreOnward DEF NoticeInv, Shown
  <2>3. \A q \in Requests :
           refresh'[q] = IF q = r THEN [at |-> "sent", token |-> jar] ELSE refresh[q]
    BY <2>1 DEF NoticeInv, Typed, TypeOK, BrowserOK
  <2>4. RefreshOk(r)'
    BY <2>1, <2>2, <2>3 DEF NoticeInv, Signed, RefreshOk, Over
  <2>. QED
    BY <1>0, <2>1, <2>2, <2>3, <2>4, CallsGoOn
<1>7. ASSUME NEW r \in Requests, Refreshed(r) PROVE NoticeInv'
  <2>1. /\ refresh[r].at = "answered" /\ OnItsWay(r)
        /\ Settle(r, refresh[r].token) /\ UNCHANGED cut
        /\ jar' = jar \/ (refresh[r].token # 0 /\ jar' = refresh[r].token)
    BY <1>7 DEF Refreshed, OnItsWay
  <2>2. refresh[r].token \in 0..Len(family)
    BY DEF NoticeInv, Typed, Presented
  <2>3. refresh[r].token = 0 => Over
    BY <2>1 DEF NoticeInv, RefreshOk
  <2>. QED
    BY <1>0, <2>1, <2>2, <2>3, AllSettled
<1>8. ASSUME NEW r \in Requests, RefreshBreaksOff(r) PROVE NoticeInv'
  <2>1. OnItsWay(r) /\ Settle(r, 0) /\ cut' = TRUE /\ jar' = jar /\ 0 \in 0..Len(family)
    BY <1>8, IssuedNumbers DEF RefreshBreaksOff, NoticeInv, Typed, TypeOK, CoreOK
  <2>. QED
    BY <1>0, <2>1, AllSettled
<1>9. CASE Expire \/ Restore \/ UNCHANGED vars
  <2>1. /\ UNCHANGED <<family, live, jar, tabVars, refresh, request, theft, cut, ended, blind>>
        /\ fresh' \subseteq fresh /\ (known' = known \/ known' = FALSE)
    BY <1>9 DEF Expire, Restore, vars
  <2>2. Onward /\ Lively'
    BY <2>1, CoreOnward
  <2>. QED
    BY <1>0, <2>1, <2>2, CallsGoOn
<1>. QED
  BY <1>0, <1>1, <1>2, <1>3, <1>4, <1>5, <1>6, <1>7, <1>8, <1>9, Served, Read401, CoreAnswers
     DEF Next, BootStep, CallStep, RefreshStep

\* No caller is handed a 401 because an access token expired: only because the
\* session is over for another reason, the tab drives passport, or the retry was
\* refused too, its token expired or its lookup failed.
THEOREM NobodyNotices == Spec => []ExpiryGoesUnnoticed
<1>1. NoticeInv => ExpiryGoesUnnoticed
  <2> SUFFICES ASSUME NoticeInv, NEW r \in Requests, request[r].at = "refused"
               PROVE  \/ ~ enabled[TabOf[r]] \/ ~ known \/ theft \/ cut \/ ended
                      \/ request[r].again /\ (request[r].token \notin fresh \/ r \in blind)
    BY Zenon DEF ExpiryGoesUnnoticed
  <2>1. Excused(r)
    BY DEF NoticeInv, CallOk
  <2>. QED
    BY <2>1, Zenon DEF Excused, Over, Expired
<1>2. Spec => []NoticeInv
  BY NoticeInit, NoticeStep, PTL DEF Spec
<1>. QED
  BY <1>1, <1>2, PTL

-----------------------------------------------------------------------------

(***************************************************************************)
(* ActionQueue.  What the queue, the network and the page hold.            *)
(***************************************************************************)

Ascending(q) == \A i, j \in 1..Len(q) : i < j => q[i] < q[j]

\* Before an action that no beacon carried, q or the log has all earlier ones
\* that none carried.
InOrder(carried, log, q) ==
    \A j \in 1..Len(q) : q[j] \notin carried =>
        \A a \in 1..(q[j] - 1) :
            a \in carried \union log \/ \E i \in 1..(j - 1) : q[i] = a

\* Neither on the replay list nor carried off: a 2xx has named it.
Acknowledged == Dispatched \ (pending \union beaconed)

QueueTyped ==
    /\ queue \in Seq(Ids) /\ batch \in Seq(Ids) /\ applied \in Seq(Ids)
    /\ nextId \in 1..(MaxActions + 1) /\ awaited \in Nat
    /\ ~ loaded => nextId = 1

\* The batch, then the queue, in the order of the clicks: the replay list.
Lined ==
    /\ Ascending(batch) /\ Ascending(queue)
    /\ \A a \in Range(batch), b \in Range(queue) : a < b
    /\ pending = Range(batch) \union Range(queue)
    /\ pending \union beaconed \subseteq Dispatched
    /\ pending \cap beaconed = {}
    /\ ~ inFlight => batch = <<>> /\ awaited = 0 /\ reply = NoReply

\* The requests still under way, one of which may be the awaited one.
Delivered ==
    /\ IsFiniteSet(transit)
    /\ \A m \in transit :
          /\ m.id \in Nat \ {0} /\ m.actions \in Seq(Ids)
          /\ Range(m.actions) \subseteq Dispatched
          /\ InOrder(beaconed, Range(applied), m.actions)
          /\ m.id = awaited => m.actions = batch
    /\ InOrder(beaconed, {}, applied)
    /\ Range(applied) \subseteq Dispatched
    /\ Acknowledged \subseteq Range(applied)

\* The answer on its way, and the screen, know what is settled.
OnScreen ==
    /\ reply # NoReply /\ reply.status = "ok" =>
          Acknowledged \union Range(batch) \subseteq reply.log /\ reply.log \subseteq Range(applied)
    /\ open => Acknowledged \subseteq base \union hidden

\* One finish at most is posted: by the heartbeat, or by the last tile's timer.
Rounds ==
    /\ posts \in Nat /\ posts <= 1
    /\ round = "playing" => posts = 0 /\ ~ completed
    /\ completed => posts = 0 /\ round = "none"

QueueInv == QueueTyped /\ Lined /\ Delivered /\ OnScreen /\ Rounds

-----------------------------------------------------------------------------

LEMMA InRange ==
    ASSUME NEW S, NEW q \in Seq(S)
    PROVE  /\ Range(q) \subseteq S
           /\ \A a : a \in Range(q) <=> \E i \in 1..Len(q) : q[i] = a
BY DEF Range

LEMMA EmptyQueue == Range(<<>>) = {} /\ Ascending(<<>>) /\ <<>> \in Seq(Ids)
BY DEF Range, Ascending

LEMMA Appended ==
    ASSUME NEW q \in Seq(Ids), NEW a \in Ids, Ascending(q), \A x \in Range(q) : x < a
    PROVE  /\ Append(q, a) \in Seq(Ids) /\ Append(q, a) # <<>>
           /\ Range(Append(q, a)) = Range(q) \union {a} /\ Ascending(Append(q, a))
<1>. DEFINE q2 == Append(q, a)
<1>1. /\ q2 \in Seq(Ids) /\ Len(q2) = Len(q) + 1 /\ Len(q) \in Nat
      /\ q2[Len(q) + 1] = a /\ \A i \in 1..Len(q) : q2[i] = q[i]
  OBVIOUS
<1>. HIDE DEF q2
<1>2. Range(q2) = Range(q) \union {a}
  BY <1>1, InRange
<1>3. Ascending(q2)
  <2>. SUFFICES ASSUME NEW i \in 1..Len(q2), NEW j \in 1..Len(q2), i < j PROVE q2[i] < q2[j]
    BY DEF Ascending
  <2>1. i \in 1..Len(q) /\ q2[i] = q[i] /\ q[i] \in Range(q)
    BY <1>1, InRange
  <2>2. CASE j = Len(q) + 1
    BY <1>1, <2>1, <2>2
  <2>3. CASE j # Len(q) + 1
    BY <1>1, <2>1, <2>3 DEF Ascending
  <2>. QED
    BY <2>2, <2>3
<1>4. q2 # <<>>
  BY <1>1
<1>. QED
  BY <1>1, <1>2, <1>3, <1>4 DEF q2

LEMMA ConcatIs ==
    ASSUME NEW S, NEW p \in Seq(S), NEW q \in Seq(S)
    PROVE  /\ p \o q \in Seq(S) /\ Len(p) \in Nat /\ Len(q) \in Nat
           /\ Len(p \o q) = Len(p) + Len(q)
           /\ \A i \in 1..Len(p) : (p \o q)[i] = p[i]
           /\ \A i \in 1..Len(q) : (p \o q)[Len(p) + i] = q[i]
           /\ \A i \in 1..Len(p \o q) : i \notin 1..Len(p) => i - Len(p) \in 1..Len(q)
           /\ Range(p \o q) = Range(p) \union Range(q)
<1>1. /\ p \o q \in Seq(S) /\ Len(p) \in Nat /\ Len(q) \in Nat
      /\ Len(p \o q) = Len(p) + Len(q)
      /\ \A i \in 1..Len(p) : (p \o q)[i] = p[i]
      /\ \A i \in 1..Len(q) : (p \o q)[Len(p) + i] = q[i]
  OBVIOUS
<1>2. \A i \in 1..Len(p \o q) : i \notin 1..Len(p) => i - Len(p) \in 1..Len(q)
  BY <1>1
<1>. DEFINE pq == p \o q
<1>. HIDE DEF pq
<1>3. \A i \in 1..Len(pq) :
         \/ i \in 1..Len(p) /\ pq[i] = p[i]
         \/ i - Len(p) \in 1..Len(q) /\ pq[i] = q[i - Len(p)]
  BY <1>1, <1>2 DEF pq
<1>4. (\A i \in 1..Len(p) : i \in 1..Len(pq)) /\ (\A i \in 1..Len(q) : Len(p) + i \in 1..Len(pq))
  BY <1>1 DEF pq
<1>5. Range(pq) = Range(p) \union Range(q)
  <2>1. \A a : a \in Range(pq) <=> \E i \in 1..Len(pq) : pq[i] = a
    BY <1>1, InRange DEF pq
  <2>2. /\ \A a : a \in Range(p) <=> \E i \in 1..Len(p) : p[i] = a
        /\ \A a : a \in Range(q) <=> \E i \in 1..Len(q) : q[i] = a
    BY InRange
  <2>3. Range(pq) \subseteq Range(p) \union Range(q)
    BY <1>3, <2>1, <2>2
  <2>4. \A a \in Range(p) : a \in Range(pq)
    BY <1>1, <1>4, <2>1, <2>2 DEF pq
  <2>5. \A a \in Range(q) : a \in Range(pq)
    BY <1>1, <1>4, <2>1, <2>2 DEF pq
  <2>. QED
    BY <2>3, <2>4, <2>5
<1>. QED
  BY <1>1, <1>2, <1>5 DEF pq

LEMMA AscendingConcat ==
    ASSUME NEW p \in Seq(Ids), NEW q \in Seq(Ids), Ascending(p), Ascending(q),
           \A a \in Range(p), b \in Range(q) : a < b
    PROVE  Ascending(p \o q)
<1>. DEFINE pq == p \o q
<1>1. /\ Len(p) \in Nat /\ Len(q) \in Nat /\ Len(pq) = Len(p) + Len(q)
      /\ \A i \in 1..Len(p) : pq[i] = p[i]
      /\ \A i \in 1..Len(q) : pq[Len(p) + i] = q[i]
  BY ConcatIs
<1>. HIDE DEF pq
<1>. SUFFICES ASSUME NEW i \in 1..Len(pq), NEW j \in 1..Len(pq), i < j PROVE pq[i] < pq[j]
  BY DEF Ascending, pq
<1>2. CASE j \in 1..Len(p)
  BY <1>1, <1>2 DEF Ascending
<1>3. CASE j \notin 1..Len(p)
  <2>1. j - Len(p) \in 1..Len(q) /\ pq[j] = q[j - Len(p)]
    BY <1>1, <1>3
  <2>2. CASE i \in 1..Len(p)
    <3>1. p[i] \in Range(p) /\ q[j - Len(p)] \in Range(q)
      BY <2>1, <2>2, InRange
    <3>. QED
      BY <1>1, <2>1, <2>2, <3>1
  <2>3. CASE i \notin 1..Len(p)
    <3>1. i - Len(p) \in 1..Len(q) /\ pq[i] = q[i - Len(p)] /\ i - Len(p) < j - Len(p)
      BY <1>1, <2>3
    <3>. QED
      BY <2>1, <3>1 DEF Ascending
  <2>. QED
    BY <2>2, <2>3
<1>. QED
  BY <1>2, <1>3

LEMMA InOrderMore ==
    ASSUME NEW carried, NEW carried2, carried \subseteq carried2,
           NEW log, NEW log2, log \subseteq log2, NEW q, InOrder(carried, log, q)
    PROVE  InOrder(carried2, log2, q)
BY DEF InOrder

\* The server runs a batch behind what it has run before.
LEMMA InOrderConcat ==
    ASSUME NEW carried, NEW p \in Seq(Ids), NEW q \in Seq(Ids),
           InOrder(carried, {}, p), InOrder(carried, Range(p), q)
    PROVE  InOrder(carried, {}, p \o q)
<1>. DEFINE pq == p \o q
<1>1. /\ Len(p) \in Nat /\ Len(q) \in Nat /\ Len(pq) = Len(p) + Len(q)
      /\ \A i \in 1..Len(p) : pq[i] = p[i]
      /\ \A i \in 1..Len(q) : pq[Len(p) + i] = q[i]
  BY ConcatIs
<1>. HIDE DEF pq
<1>. SUFFICES ASSUME NEW j \in 1..Len(pq), pq[j] \notin carried,
                     NEW a \in 1..(pq[j] - 1), a \notin carried
              PROVE  \E i \in 1..(j - 1) : pq[i] = a
  BY DEF InOrder, pq
<1>2. CASE j \in 1..Len(p)
  <2>1. PICK i \in 1..(j - 1) : p[i] = a
    BY <1>1, <1>2 DEF InOrder
  <2>2. j \in Nat /\ j <= Len(p) /\ i \in Nat /\ i >= 1 /\ i <= j - 1
    BY <1>1, <1>2, <2>1
  <2>3. i \in 1..Len(p)
    BY <1>1, <2>2
  <2>. QED
    BY <1>1, <2>1, <2>3
<1>3. CASE j \notin 1..Len(p)
  <2>1. j - Len(p) \in 1..Len(q) /\ pq[j] = q[j - Len(p)]
    BY <1>1, <1>3
  <2>2. CASE a \in Range(p)
    <3>1. PICK i \in 1..Len(p) : p[i] = a
      BY <2>2, InRange
    <3>2. i \in 1..(j - 1)
      BY <1>1, <1>3, <3>1
    <3>. QED
      BY <1>1, <3>1, <3>2
  <2>3. CASE a \notin Range(p)
    <3>1. PICK i \in 1..((j - Len(p)) - 1) : q[i] = a
      BY <2>1, <2>3 DEF InOrder
    <3>2. Len(p) + i \in 1..(j - 1) /\ i \in 1..Len(q)
      BY <1>1, <2>1, <3>1
    <3>. QED
      BY <1>1, <3>1, <3>2
  <2>. QED
    BY <2>2, <2>3
<1>. QED
  BY <1>2, <1>3

\* A batch that takes all that is neither carried off nor applied.
LEMMA WholeQueueInOrder ==
    ASSUME NEW n \in Nat, NEW carried, NEW log, NEW q \in Seq(Ids), Ascending(q),
           \A a \in Range(q) : a <= n,
           (1..n) \ (Range(q) \union carried) \subseteq log
    PROVE  InOrder(carried, log, q)
<1>. SUFFICES ASSUME NEW j \in 1..Len(q), NEW a \in 1..(q[j] - 1), a \notin carried \union log
              PROVE  \E i \in 1..(j - 1) : q[i] = a
  BY DEF InOrder
<1>1. q[j] \in Ids /\ q[j] <= n
  BY InRange
<1>2. a \in Range(q)
  BY <1>1 DEF Ids
<1>3. PICK i \in 1..Len(q) : q[i] = a
  BY <1>2, InRange
<1>4. ~ (j < i) /\ i # j
  BY <1>1, <1>3 DEF Ascending, Ids
<1>. QED
  BY <1>3, <1>4

LEMMA CarriedInOrder ==
    ASSUME NEW carried, NEW log, NEW q \in Seq(Ids), Range(q) \subseteq carried
    PROVE  InOrder(carried, log, q)
BY InRange DEF InOrder

LEMMA FreshMessageIsFresh ==
    ASSUME IsFiniteSet(transit), awaited \in Nat, \A m \in transit : m.id \in Nat \ {0}
    PROVE  /\ FreshMessage \in Nat \ {0} /\ FreshMessage # awaited
           /\ \A m \in transit : m.id # FreshMessage
<1>. DEFINE n == Cardinality(transit)
            ids == {m.id : m \in transit}
            used == ids \union {awaited}
            f == [m \in transit |-> m.id]
<1>1. n \in Nat
  BY FS_CardinalityType
<1>2. IsFiniteSet(ids) /\ Cardinality(ids) <= n
  <2>1. f \in Surjection(transit, ids)
    BY DEF Surjection
  <2>. QED
    BY <2>1, FS_Surjection
<1>3. Cardinality(ids) \in Nat
  BY <1>2, FS_CardinalityType
<1>. HIDE DEF ids, n
<1>4. IsFiniteSet(used) /\ Cardinality(used) \in Nat /\ Cardinality(used) <= n + 1
  <2>1. /\ IsFiniteSet(used)
        /\ Cardinality(used) = IF awaited \in ids THEN Cardinality(ids) ELSE Cardinality(ids) + 1
    BY <1>2, FS_AddElement
  <2>2. Cardinality(used) \in Nat
    BY <2>1, FS_CardinalityType
  <2>. DEFINE c == Cardinality(ids)  u == Cardinality(used)
  <2>3. u = c \/ u = c + 1
    BY <2>1
  <2>4. u \in Nat /\ c \in Nat /\ c <= n
    BY <1>2, <1>3, <2>2
  <2>. HIDE DEF c, u
  <2>5. u <= n + 1
    BY <1>1, <2>3, <2>4
  <2>. QED
    BY <2>1, <2>2, <2>5 DEF u
<1>5. \E i \in 1..(n + 2) : i \notin used
  <2>. SUFFICES ASSUME 1..(n + 2) \subseteq used PROVE FALSE
    OBVIOUS
  <2>. DEFINE k == n + 2
  <2>1. k \in Int /\ k >= 1 /\ 1 \in Int
    BY <1>1
  <2>. HIDE DEF k, used
  <2>2. Cardinality(1..k) = IF 1 > k THEN 0 ELSE k - 1 + 1
    BY <2>1, FS_Interval
  <2>3. Cardinality(1..k) = k
    BY <2>1, <2>2
  <2>4. Cardinality(1..k) <= Cardinality(used)
    BY <1>4, FS_Subset DEF k
  <2>. QED
    BY <1>1, <1>4, <2>3, <2>4 DEF k
<1>6. FreshMessage = CHOOSE i \in 1..(n + 2) : i \notin used
  BY DEF FreshMessage, n, ids
<1>7. FreshMessage \in 1..(n + 2) /\ FreshMessage \notin used
  BY <1>5, <1>6
<1>. QED
  BY <1>1, <1>7 DEF ids

-----------------------------------------------------------------------------

LEMMA ClicksAre ==
    ASSUME QueueTyped
    PROVE  /\ nextId \in Nat \ {0} /\ nextId - 1 \in Nat /\ Dispatched \subseteq Ids
           /\ \A a : a \in Dispatched <=> a \in Nat /\ 1 <= a /\ a < nextId
           /\ nextId <= MaxActions => nextId \in Ids
BY MaxActionsAssumption DEF QueueTyped, Dispatched, Ids

LEMMA BatchBeforeQueue ==
    ASSUME QueueTyped, Lined
    PROVE  Range(batch) \cap Range(queue) = {}
<1>1. queue \in Seq(Ids)
  BY DEF QueueTyped
<1>2. Range(queue) \subseteq Ids
  BY <1>1, InRange
<1>3. \A a \in Range(queue) : ~ (a < a)
  BY <1>2 DEF Ids
<1>. QED
  BY <1>3 DEF Lined

THEOREM QueueInitInv == QueueInit => QueueInv
<1>. SUFFICES ASSUME QueueInit PROVE QueueInv
  OBVIOUS
<1>1. QueueTyped
  BY EmptyQueue, MaxActionsAssumption DEF QueueInit, QueueTyped
<1>2. Dispatched = {} /\ Acknowledged = {}
  BY DEF QueueInit, Dispatched, Acknowledged
<1>3. Lined
  BY <1>2, EmptyQueue DEF QueueInit, Lined
<1>4. Delivered
  BY <1>2, EmptyQueue, FS_EmptySet DEF QueueInit, Delivered, InOrder
<1>. QED
  BY <1>1, <1>2, <1>3, <1>4 DEF QueueInit, QueueInv, OnScreen, Rounds

\* A click, and the post of the whole queue, by the click or by the interval.
LEMMA QueueGoesOut ==
    ASSUME QueueInv, NEW q \in Seq(Ids), MayFlush(q), Flush(q), QueueTyped',
           nextId' = nextId \/ nextId' = nextId + 1,
           Ascending(q), Range(q) = pending', pending' \subseteq Dispatched',
           pending \subseteq pending', Dispatched' \ Dispatched \subseteq pending',
           pending' \cap beaconed = {},
           UNCHANGED <<applied, beaconed, reply, open, base, hidden>>
    PROVE  Lined' /\ Delivered' /\ OnScreen'
<1>. DEFINE post == [id |-> FreshMessage, actions |-> q]
<1>1. /\ batch' = q /\ queue' = <<>> /\ inFlight' = TRUE /\ awaited' = FreshMessage
      /\ transit' = transit \union {post} /\ post.id = FreshMessage /\ post.actions = q
      /\ ~ inFlight
  BY DEF Flush, MayFlush
<1>2. reply = NoReply /\ reply' = NoReply
  BY <1>1 DEF QueueInv, Lined
<1>3. Dispatched \subseteq Dispatched' /\ Acknowledged' \subseteq Acknowledged
  <2>1. nextId \in Nat /\ Dispatched = 1..(nextId - 1) /\ Dispatched' = 1..(nextId' - 1)
    BY ClicksAre DEF QueueInv, Dispatched
  <2>2. Dispatched \subseteq Dispatched'
    BY <2>1
  <2>. QED
    BY <2>2 DEF Acknowledged
<1>4. Lined'
  BY <1>1, <1>3, EmptyQueue DEF QueueInv, Lined
<1>5. InOrder(beaconed, Range(applied), q)
  <2>. DEFINE n == nextId' - 1
  <2>1. n \in Nat /\ Dispatched' = 1..n /\ \A a \in Range(q) : a <= n
    <3>. DEFINE k == nextId'
    <3>1. k \in 1..(MaxActions + 1)
      BY DEF QueueTyped
    <3>2. Dispatched' = 1..(k - 1)
      BY DEF Dispatched
    <3>. HIDE DEF k
    <3>3. k - 1 \in Nat
      BY <3>1, MaxActionsAssumption
    <3>4. Range(q) \subseteq 1..(k - 1)
      BY <3>2
    <3>5. \A a \in Range(q) : a <= k - 1
      BY <3>3, <3>4
    <3>. QED
      BY <3>2, <3>3, <3>5 DEF k
  <2>2. (1..n) \ (Range(q) \union beaconed) \subseteq Range(applied)
    BY <1>3, <2>1 DEF QueueInv, Delivered, Acknowledged
  <2>. HIDE DEF n
  <2>. QED
    BY <2>1, <2>2, WholeQueueInOrder
<1>6. /\ FreshMessage \in Nat \ {0} /\ \A m \in transit : m.id # FreshMessage
  BY FreshMessageIsFresh DEF QueueInv, QueueTyped, Delivered
<1>7. IsFiniteSet(transit')
  BY <1>1, FS_AddElement DEF QueueInv, Delivered
<1>. HIDE DEF post
<1>8. Delivered'
  <2>1. \A m \in transit' :
          /\ m.id \in Nat \ {0} /\ m.actions \in Seq(Ids)
          /\ Range(m.actions) \subseteq Dispatched'
          /\ InOrder(beaconed, Range(applied), m.actions)
          /\ m.id = awaited' => m.actions = batch'
    BY <1>1, <1>3, <1>5, <1>6 DEF QueueInv, Delivered
  <2>. QED
    BY <1>3, <1>7, <2>1 DEF QueueInv, Delivered
<1>9. OnScreen'
  BY <1>2, <1>3 DEF QueueInv, OnScreen
<1>. QED
  BY <1>4, <1>8, <1>9

LEMMA DispatchKeeps ==
    ASSUME QueueInv, NEW immediate \in BOOLEAN, Dispatch(immediate)
    PROVE  QueueTyped' /\ Lined' /\ Delivered' /\ OnScreen'
<1>. DEFINE q == Append(queue, nextId)
<1>1. /\ nextId <= MaxActions /\ loaded /\ nextId' = nextId + 1
      /\ pending' = pending \union {nextId}
      /\ UNCHANGED <<loaded, applied, beaconed, reply, open, base, hidden>>
  BY DEF Dispatch, Enqueue, play
<1>2. nextId \in Ids /\ nextId \in Nat \ {0} /\ nextId' - 1 = nextId
  BY <1>1, ClicksAre DEF QueueInv
<1>3. Dispatched' = Dispatched \union {nextId} /\ nextId \notin Dispatched
  <2>1. Dispatched' = 1..(nextId' - 1) /\ Dispatched = 1..(nextId - 1)
    BY DEF Dispatched
  <2>2. Dispatched' = 1..nextId
    BY <1>2, <2>1
  <2>. QED
    BY <1>2, <2>1, <2>2
<1>4. \A a \in Dispatched : a < nextId
  BY <1>2 DEF Dispatched
<1>5. queue \in Seq(Ids) /\ Ascending(queue) /\ Range(queue) \subseteq Dispatched
  BY DEF QueueInv, QueueTyped, Lined
<1>6. /\ q \in Seq(Ids) /\ q # <<>> /\ Range(q) = Range(queue) \union {nextId} /\ Ascending(q)
  BY <1>2, <1>4, <1>5, Appended
<1>7. pending' \cap beaconed = {} /\ pending' \subseteq Dispatched'
  BY <1>1, <1>3 DEF QueueInv, Lined
<1>. HIDE DEF q
<1>8. nextId' \in 1..(MaxActions + 1)
  BY <1>1, <1>2, MaxActionsAssumption
<1>9. CASE immediate /\ MayFlush(q)
  <2>1. Flush(q) /\ batch = <<>> /\ ~ inFlight
    BY <1>9 DEF Dispatch, Enqueue, MayFlush, QueueInv, Lined, q
  <2>2. batch' = q /\ queue' = <<>> /\ awaited' = FreshMessage
    BY <1>9, <2>1 DEF Flush
  <2>3. FreshMessage \in Nat
    BY FreshMessageIsFresh DEF QueueInv, QueueTyped, Delivered
  <2>4. QueueTyped'
    BY <1>1, <1>6, <1>8, <2>2, <2>3, EmptyQueue DEF QueueInv, QueueTyped
  <2>5. Range(q) = pending'
    BY <1>1, <1>6, <2>1, EmptyQueue DEF QueueInv, Lined
  <2>. QED
    BY <1>1, <1>3, <1>6, <1>7, <1>9, <2>1, <2>4, <2>5, QueueGoesOut
<1>10. CASE ~ (immediate /\ MayFlush(q))
  <2>1. queue' = q /\ UNCHANGED <<batch, inFlight, awaited, transit>>
    BY <1>10 DEF Dispatch, Enqueue, Flush, q
  <2>2. QueueTyped'
    BY <1>1, <1>6, <1>8, <2>1 DEF QueueInv, QueueTyped
  <2>3. Acknowledged' = Acknowledged
    BY <1>1, <1>3 DEF Acknowledged
  <2>4. Lined'
    BY <1>1, <1>3, <1>4, <1>6, <1>7, <2>1 DEF QueueInv, Lined
  <2>5. Delivered'
    BY <1>1, <1>3, <2>1, <2>3 DEF QueueInv, Delivered
  <2>6. OnScreen'
    BY <1>1, <2>1, <2>3 DEF QueueInv, OnScreen
  <2>. QED
    BY <2>2, <2>4, <2>5, <2>6
<1>. QED
  BY <1>9, <1>10

LEMMA AutoFlushKeeps ==
    ASSUME QueueInv, AutoFlush
    PROVE  QueueTyped' /\ Lined' /\ Delivered' /\ OnScreen'
<1>1. /\ MayFlush(queue) /\ Flush(queue)
      /\ UNCHANGED <<loaded, applied, beaconed, reply, open, base, hidden, nextId, pending>>
  BY DEF AutoFlush, play
<1>2. batch' = queue /\ queue' = <<>> /\ awaited' = FreshMessage /\ ~ inFlight
  BY <1>1 DEF Flush, MayFlush
<1>3. FreshMessage \in Nat
  BY FreshMessageIsFresh DEF QueueInv, QueueTyped, Delivered
<1>4. QueueTyped'
  BY <1>1, <1>2, <1>3, EmptyQueue DEF QueueInv, QueueTyped
<1>5. /\ Range(queue) = pending' /\ pending' \subseteq Dispatched' /\ pending' \cap beaconed = {}
      /\ Dispatched' = Dispatched /\ Ascending(queue) /\ queue \in Seq(Ids)
  BY <1>1, <1>2, EmptyQueue DEF QueueInv, QueueTyped, Lined, Dispatched
<1>. QED
  BY <1>1, <1>4, <1>5, QueueGoesOut

\* A 2xx: the batch is settled, and the log that came with it is on the screen.
LEMMA ReconcileKeeps ==
    ASSUME QueueInv, Reconcile
    PROVE  QueueTyped' /\ Lined' /\ Delivered' /\ OnScreen'
<1>1. /\ open /\ awaited # 0 /\ reply # NoReply /\ reply.status = "ok"
      /\ inFlight' = FALSE /\ awaited' = 0 /\ reply' = NoReply /\ batch' = <<>>
      /\ pending' = pending \ Range(batch) /\ base' = reply.log /\ hidden' = {}
      /\ UNCHANGED <<loaded, queue, nextId, open, transit, applied, beaconed>>
  BY DEF Reconcile, PendingAfter, play
<1>2. Acknowledged \union Range(batch) \subseteq reply.log /\ reply.log \subseteq Range(applied)
  BY <1>1 DEF QueueInv, OnScreen
<1>3. Dispatched' = Dispatched /\ Acknowledged' \subseteq Acknowledged \union Range(batch)
  BY <1>1 DEF Dispatched, Acknowledged
<1>4. Range(queue) \cap Range(batch) = {}
  BY BatchBeforeQueue DEF QueueInv
<1>5. QueueTyped'
  BY <1>1, EmptyQueue DEF QueueInv, QueueTyped
<1>6. Lined'
  BY <1>1, <1>3, <1>4, EmptyQueue DEF QueueInv, Lined
<1>7. Delivered'
  BY <1>1, <1>2, <1>3 DEF QueueInv, Delivered
<1>8. OnScreen'
  BY <1>1, <1>2, <1>3 DEF QueueInv, OnScreen
<1>. QED
  BY <1>5, <1>6, <1>7, <1>8

\* A batch-level failure: the batch goes back to the head of the queue.
LEMMA FailKeeps ==
    ASSUME QueueInv, NEW status, Fail(status), UNCHANGED transit
    PROVE  QueueTyped' /\ Lined' /\ Delivered' /\ OnScreen'
<1>1. /\ inFlight' = FALSE /\ awaited' = 0 /\ reply' = NoReply
      /\ queue' = batch \o queue /\ batch' = <<>>
      /\ UNCHANGED <<loaded, nextId, pending, open, applied, beaconed, base, hidden>>
  BY DEF Fail, Requeued, play
<1>2. batch \in Seq(Ids) /\ queue \in Seq(Ids)
  BY DEF QueueInv, QueueTyped
<1>3. queue' \in Seq(Ids) /\ Range(queue') = Range(batch) \union Range(queue) /\ Ascending(queue')
  BY <1>1, <1>2, ConcatIs, AscendingConcat DEF QueueInv, Lined
<1>4. Dispatched' = Dispatched /\ Acknowledged' = Acknowledged
  BY <1>1 DEF Dispatched, Acknowledged
<1>5. QueueTyped'
  BY <1>1, <1>3, EmptyQueue DEF QueueInv, QueueTyped
<1>6. Lined'
  BY <1>1, <1>3, <1>4, EmptyQueue DEF QueueInv, Lined
<1>7. Delivered'
  BY <1>1, <1>4 DEF QueueInv, Delivered
<1>8. OnScreen'
  BY <1>1, <1>4 DEF QueueInv, OnScreen
<1>. QED
  BY <1>5, <1>6, <1>7, <1>8

\* A beacon carries the queue away.
LEMMA BeaconKeeps ==
    ASSUME QueueInv, Beacon,
           UNCHANGED <<loaded, nextId, batch, inFlight, applied, base, hidden>>,
           open' => open,
           (awaited' = awaited /\ reply' = reply) \/ (awaited' = 0 /\ reply' = NoReply)
    PROVE  QueueTyped' /\ Lined' /\ Delivered' /\ OnScreen'
<1>. DEFINE m == [id |-> FreshMessage, actions |-> queue]
<1>1. /\ transit' = transit \union {m} /\ m.id = FreshMessage /\ m.actions = queue
      /\ pending' = pending \ Range(queue) /\ queue' = <<>>
      /\ beaconed' = beaconed \union Range(queue)
  BY DEF Beacon, BeaconActions, PendingAfter
<1>2. Dispatched' = Dispatched /\ Range(queue) \subseteq Dispatched /\ Acknowledged' = Acknowledged
  BY <1>1 DEF QueueInv, Lined, Dispatched, Acknowledged
<1>3. Range(batch) \cap Range(queue) = {}
  BY BatchBeforeQueue DEF QueueInv
<1>4. QueueTyped'
  BY <1>1, EmptyQueue DEF QueueInv, QueueTyped
<1>5. Lined'
  BY <1>1, <1>2, <1>3, EmptyQueue DEF QueueInv, Lined
<1>6. FreshMessage \in Nat \ {0} /\ FreshMessage # awaited
  BY FreshMessageIsFresh DEF QueueInv, QueueTyped, Delivered
<1>7. IsFiniteSet(transit')
  BY <1>1, FS_AddElement DEF QueueInv, Delivered
<1>8. queue \in Seq(Ids) /\ InOrder(beaconed', Range(applied), queue)
  BY <1>1, CarriedInOrder DEF QueueInv, QueueTyped
<1>. HIDE DEF m
<1>9. \A x \in transit' :
        /\ x.id \in Nat \ {0} /\ x.actions \in Seq(Ids) /\ Range(x.actions) \subseteq Dispatched
        /\ InOrder(beaconed', Range(applied), x.actions)
        /\ x.id = awaited' => x.actions = batch
  <2>1. \A x \in transit : InOrder(beaconed', Range(applied), x.actions)
    BY <1>1, InOrderMore DEF QueueInv, Delivered
  <2>. QED
    BY <1>1, <1>2, <1>6, <1>8, <2>1 DEF QueueInv, Delivered
<1>10. InOrder(beaconed', {}, applied)
  BY <1>1, InOrderMore DEF QueueInv, Delivered
<1>11. Delivered'
  BY <1>2, <1>7, <1>9, <1>10 DEF QueueInv, Delivered
<1>12. OnScreen'
  BY <1>1, <1>2 DEF QueueInv, OnScreen
<1>. QED
  BY <1>4, <1>5, <1>11, <1>12

\* A request reaches the server or is lost, and applies its batch or nothing.
LEMMA AnswerKeeps ==
    ASSUME QueueInv, NEW m \in transit, NEW r, Answer(m, r),
           applied' = applied \/ applied' = applied \o m.actions,
           r # NoReply /\ r.status = "ok" =>
               applied' = applied \o m.actions /\ r.log = Range(applied'),
           UNCHANGED <<client, loaded, hidden, beaconed>>
    PROVE  QueueTyped' /\ Lined' /\ Delivered' /\ OnScreen'
<1>1. /\ transit' = transit \ {m} /\ reply' = IF m.id = awaited THEN r ELSE reply
      /\ UNCHANGED <<queue, batch, inFlight, awaited, pending, base, nextId, open, loaded,
                     hidden, beaconed>>
  BY DEF Answer, client
<1>2. /\ applied \in Seq(Ids) /\ m.actions \in Seq(Ids) /\ m.id \in Nat \ {0}
      /\ Range(m.actions) \subseteq Dispatched
      /\ InOrder(beaconed, Range(applied), m.actions) /\ InOrder(beaconed, {}, applied)
      /\ m.id = awaited => m.actions = batch
  BY DEF QueueInv, QueueTyped, Delivered
<1>3. applied' = applied \o m.actions => Range(applied') = Range(applied) \union Range(m.actions)
  BY <1>2, ConcatIs
<1>4. /\ applied' \in Seq(Ids) /\ Range(applied) \subseteq Range(applied')
      /\ Range(applied') \subseteq Range(applied) \union Range(m.actions)
      /\ InOrder(beaconed, {}, applied')
  <2>1. CASE applied' = applied
    BY <1>2, <2>1
  <2>2. CASE applied' = applied \o m.actions
    <3>. DEFINE log == applied \o m.actions
    <3>1. log \in Seq(Ids)
      BY <1>2, ConcatIs
    <3>2. InOrder(beaconed, {}, log)
      BY <1>2, InOrderConcat
    <3>. HIDE DEF log
    <3>. QED
      BY <1>3, <2>2, <3>1, <3>2 DEF log
  <2>. QED
    BY <2>1, <2>2
<1>5. Dispatched' = Dispatched /\ Acknowledged' = Acknowledged
  BY <1>1 DEF Dispatched, Acknowledged
<1>6. QueueTyped'
  BY <1>1, <1>4 DEF QueueInv, QueueTyped
<1>7. Lined'
  <2>1. ~ inFlight => awaited = 0 /\ reply' = NoReply
    BY <1>1, <1>2 DEF QueueInv, Lined
  <2>. QED
    BY <1>1, <1>5, <2>1 DEF QueueInv, Lined
<1>8. Delivered'
  <2>1. IsFiniteSet(transit')
    BY <1>1, FS_RemoveElement DEF QueueInv, Delivered
  <2>2. \A x \in transit' : InOrder(beaconed, Range(applied'), x.actions)
    BY <1>1, <1>4, InOrderMore DEF QueueInv, Delivered
  <2>. QED
    BY <1>1, <1>2, <1>4, <1>5, <2>1, <2>2 DEF QueueInv, Delivered
<1>9. OnScreen'
  <2>1. CASE m.id = awaited /\ r # NoReply /\ r.status = "ok"
    <3>1. /\ reply' = r /\ r.log = Range(applied') /\ Range(batch) \subseteq r.log
          /\ Acknowledged \subseteq Range(applied)
      BY <1>1, <1>2, <1>3, <2>1 DEF QueueInv, Delivered
    <3>. QED
      BY <1>1, <1>4, <1>5, <3>1 DEF QueueInv, OnScreen
  <2>2. CASE ~ (m.id = awaited /\ r # NoReply /\ r.status = "ok")
    BY <1>1, <1>4, <1>5, <2>2 DEF QueueInv, OnScreen
  <2>. QED
    BY <2>1, <2>2
<1>. QED
  BY <1>6, <1>7, <1>8, <1>9

\* A step that leaves queue, replay list and network alone, or gives up the
\* awaited answer, and takes nothing off the screen.
LEMMA RestKeeps ==
    ASSUME QueueInv,
           UNCHANGED <<queue, batch, inFlight, pending, nextId, transit, applied, beaconed>>,
           (awaited' = awaited /\ reply' = reply) \/ (awaited' = 0 /\ reply' = NoReply),
           loaded' = loaded \/ loaded' = TRUE, open' => open,
           \/ base' = base /\ hidden' = hidden
           \/ base \union hidden \subseteq base' \union hidden'
           \/ ~ loaded
    PROVE  QueueTyped' /\ Lined' /\ Delivered' /\ OnScreen'
<1>1. Dispatched' = Dispatched /\ Acknowledged' = Acknowledged
  BY DEF Dispatched, Acknowledged
<1>2. QueueTyped'
  BY DEF QueueInv, QueueTyped
<1>3. Lined'
  BY <1>1 DEF QueueInv, Lined
<1>4. Delivered'
  <2>1. \A m \in transit : m.id = awaited' => m.actions = batch
    BY DEF QueueInv, Delivered
  <2>. QED
    BY <1>1, <2>1 DEF QueueInv, Delivered
<1>5. ~ loaded => Acknowledged = {}
  <2>. SUFFICES ASSUME ~ loaded PROVE Dispatched = {}
    BY DEF Acknowledged
  <2>1. nextId = 1
    BY DEF QueueInv, QueueTyped
  <2>. QED
    BY <2>1 DEF Dispatched
<1>6. OnScreen'
  BY <1>1, <1>5 DEF QueueInv, OnScreen
<1>. QED
  BY <1>2, <1>3, <1>4, <1>6

LEMMA ServerKeeps ==
    ASSUME QueueInv, NEW m \in transit, Handle(m) \/ TurnAway(m) \/ Throw(m) \/ Drop(m)
    PROVE  QueueTyped' /\ Lined' /\ Delivered' /\ OnScreen'
<1>. \A s : s # "ok" => Failed(s).status # "ok"
  BY DEF Failed
<1>1. CASE Handle(m)
  <2>. PICK r : r = Ok(Range(applied'))
    OBVIOUS
  <2>1. r.log = Range(applied')
    BY DEF Ok
  <2>. QED
    BY <1>1, <2>1, AnswerKeeps DEF Handle, play
<1>2. CASE TurnAway(m)
  <2>. PICK r : r = Failed(IF session THEN "too_long" ELSE "unauthorized")
    OBVIOUS
  <2>1. r.status # "ok"
    BY DEF Failed
  <2>. QED
    BY <1>2, <2>1, AnswerKeeps DEF TurnAway, play
<1>3. CASE Throw(m)
  <2>. PICK r : r = Failed("server")
    OBVIOUS
  <2>. QED
    BY <1>3, AnswerKeeps DEF Throw, play
<1>4. CASE Drop(m)
  <2>. PICK r : r = Failed("network")
    OBVIOUS
  <2>. QED
    BY <1>4, AnswerKeeps DEF Drop, play
<1>. QED
  BY <1>1, <1>2, <1>3, <1>4

\* The round's own step: whoever finishes it has taken it off the page.
LEMMA RoundSteps ==
    ASSUME Rounds, [QueueNext]_queueVars
    PROVE  Rounds'
<1>1. CASE UNCHANGED play
  BY <1>1 DEF Rounds, play
<1>2. CASE Close
  BY <1>2 DEF Rounds, Close
<1>3. CASE BootGame
  BY <1>3 DEF Rounds, BootGame
<1>4. CASE StartRound
  BY <1>4 DEF Rounds, StartRound
<1>5. CASE Heartbeat
  BY <1>5 DEF Rounds, Heartbeat, FinishMinigameRound
<1>6. CASE TapLastTile
  BY <1>6 DEF Rounds, TapLastTile
<1>7. CASE FinishTimer
  BY <1>7 DEF Rounds, FinishTimer, FinishMinigameRound
<1>8. CASE CancelRound
  BY <1>8 DEF Rounds, CancelRound
<1>9. CASE AnswerFinish \/ ReceiveFinish
  BY <1>9 DEF Rounds, AnswerFinish, ReceiveFinish
<1>10. (\E immediate \in BOOLEAN : Dispatch(immediate)) => UNCHANGED play
  BY DEF Dispatch
<1>11. AutoFlush \/ Tick \/ Reconcile => UNCHANGED play
  BY DEF AutoFlush, Tick, Reconcile
<1>12. Refused \/ Disconnect \/ BodyTorn => UNCHANGED play
  BY DEF Refused, Disconnect, BodyTorn, Fail
<1>13. Hide \/ SessionEnds => UNCHANGED play
  BY DEF Hide, SessionEnds
<1>14. (\E m \in transit : Handle(m) \/ TurnAway(m) \/ Throw(m) \/ Drop(m)) => UNCHANGED play
  BY DEF Handle, TurnAway, Throw, Drop
<1>15. UNCHANGED queueVars => UNCHANGED play
  BY DEF queueVars
<1>. QED
  BY <1>1, <1>2, <1>3, <1>4, <1>5, <1>6, <1>7, <1>8, <1>9, <1>10, <1>11, <1>12, <1>13,
     <1>14, <1>15 DEF QueueNext, ServeActions

THEOREM QueueStepInv == QueueInv /\ [QueueNext]_queueVars => QueueInv'
<1>. SUFFICES ASSUME QueueInv, [QueueNext]_queueVars
              PROVE  QueueTyped' /\ Lined' /\ Delivered' /\ OnScreen'
  BY RoundSteps DEF QueueInv
<1>1. CASE \E immediate \in BOOLEAN : Dispatch(immediate)
  BY <1>1, DispatchKeeps
<1>2. CASE AutoFlush
  BY <1>2, AutoFlushKeeps
<1>3. CASE Tick
  BY <1>3, RestKeeps DEF Tick, play
<1>4. CASE Reconcile
  BY <1>4, ReconcileKeeps
<1>5. CASE Refused
  BY <1>5, FailKeeps DEF Refused
<1>6. CASE Disconnect
  BY <1>6, FailKeeps DEF Disconnect
<1>7. CASE BodyTorn
  BY <1>7, RestKeeps DEF BodyTorn, play
<1>8. CASE Hide
  BY <1>8, BeaconKeeps DEF Hide, play
<1>9. CASE Close
  <2>1. CASE queue = <<>>
    BY <1>9, <2>1, RestKeeps DEF Close
  <2>2. CASE queue # <<>>
    BY <1>9, <2>2, BeaconKeeps DEF Close
  <2>. QED
    BY <2>1, <2>2
<1>10. CASE BootGame
  BY <1>10, RestKeeps DEF BootGame
<1>11. CASE StartRound
  BY <1>11, RestKeeps DEF StartRound, client
<1>12. CASE Heartbeat
  BY <1>12, RestKeeps DEF Heartbeat, client
<1>13. CASE TapLastTile
  BY <1>13, RestKeeps DEF TapLastTile, client
<1>14. CASE FinishTimer
  BY <1>14, RestKeeps DEF FinishTimer, client
<1>15. CASE CancelRound
  BY <1>15, RestKeeps DEF CancelRound, client
<1>16. CASE AnswerFinish
  BY <1>16, RestKeeps DEF AnswerFinish, client
<1>17. CASE ReceiveFinish
  <2>1. /\ UNCHANGED <<queue, batch, inFlight, pending, nextId, transit, applied, beaconed,
                       awaited, reply, loaded, open>>
        /\ \/ base' = base /\ hidden' = hidden
           \/ base' = finish.log /\ hidden' = (hidden \union base) \ finish.log
    BY <1>17 DEF ReceiveFinish
  <2>2. (base' = base /\ hidden' = hidden) \/ base \union hidden \subseteq base' \union hidden'
    BY <2>1
  <2>. QED
    BY <2>1, <2>2, RestKeeps
<1>18. CASE \E m \in transit : Handle(m) \/ TurnAway(m) \/ Throw(m) \/ Drop(m)
  BY <1>18, ServerKeeps
<1>19. CASE SessionEnds
  BY <1>19, RestKeeps DEF SessionEnds, client, play
<1>20. CASE UNCHANGED queueVars
  BY <1>20, RestKeeps DEF queueVars, client, play
<1>. QED
  BY <1>1, <1>2, <1>3, <1>4, <1>5, <1>6, <1>7, <1>8, <1>9, <1>10, <1>11, <1>12, <1>13,
     <1>14, <1>15, <1>16, <1>17, <1>18, <1>19, <1>20 DEF QueueNext, ServeActions

THEOREM QueueInvariance == QueueSpec => []QueueInv
BY QueueInitInv, QueueStepInv, PTL DEF QueueSpec

-----------------------------------------------------------------------------

\* What the player did stays on the screen until a beacon carries it away,
\* whatever is lost, retried or late, but for what the late answer to a finish
\* takes off it.
THEOREM ScreenKeepsClicks == QueueSpec => []NothingFlickers
<1>1. QueueInv => NothingFlickers
  BY DEF QueueInv, OnScreen, Acknowledged, NothingFlickers
<1>. QED
  BY <1>1, QueueInvariance, PTL

\* The last tile and the heartbeat never both redeem a round.
THEOREM OneFinishPerRound == QueueSpec => []RoundFinishedOnce
<1>1. QueueInv => RoundFinishedOnce
  BY DEF QueueInv, Rounds, RoundFinishedOnce
<1>. QED
  BY <1>1, QueueInvariance, PTL

\* A smallest position.
LEMMA FirstOf ==
    ASSUME NEW S \in SUBSET Nat, S # {}
    PROVE  \E n \in S : \A k \in S : n <= k
<1>. DEFINE less == {ss \in Nat \X Nat : ss[1] < ss[2]}
<1>1. IsWellFoundedOn(less, Nat)
  BY NatLessThanWellFounded DEF OpToRel
<1>2. PICK n \in S : \A k \in S : <<k, n>> \notin less
  BY <1>1, WFMin
<1>3. \A k \in S : ~ (k < n)
  BY <1>2
<1>. QED
  BY <1>3

LEMMA FirstTimeIs ==
    ASSUME NEW q \in Seq(Ids), q = applied, NEW a \in Range(q)
    PROVE  /\ FirstTime(a) \in 1..Len(q) /\ q[FirstTime(a)] = a
           /\ \A j \in 1..(FirstTime(a) - 1) : q[j] # a
<1>. DEFINE S == {i \in 1..Len(q) : q[i] = a}
<1>1. S \in SUBSET Nat /\ S # {} /\ Len(q) \in Nat
  BY InRange
<1>2. PICK n \in S : \A k \in S : n <= k
  BY <1>1, FirstOf
<1>3. \A j \in 1..(n - 1) : q[j] # a
  <2>. SUFFICES ASSUME NEW j \in 1..(n - 1), q[j] = a PROVE FALSE
    OBVIOUS
  <2>1. n \in Nat /\ n <= Len(q) /\ n >= 1
    BY <1>1, <1>2
  <2>2. j \in 1..Len(q) /\ ~ (n <= j)
    BY <1>1, <2>1
  <2>. QED
    BY <1>2, <2>2
<1>. QED
  BY <1>2, <1>3 DEF FirstTime

\* Whatever is lost, retried or late, the server first applies a player's
\* actions in the order they were made, unless a beacon carried one of the two.
THEOREM OnlyABeaconOvertakes == QueueSpec => []OvertakenOnlyByBeacon
<1>1. QueueInv => OvertakenOnlyByBeacon
  <2>. SUFFICES ASSUME QueueInv, NEW a \in Range(applied), NEW b \in Range(applied), a < b,
                       FirstTime(b) < FirstTime(a), a \notin beaconed, b \notin beaconed
                PROVE  FALSE
    BY DEF OvertakenOnlyByBeacon
  <2>1. applied \in Seq(Ids) /\ InOrder(beaconed, {}, applied)
    BY DEF QueueInv, QueueTyped, Delivered
  <2>2. a \in Nat /\ a >= 1 /\ b \in Nat
    <3>1. a \in Ids /\ b \in Ids
      BY <2>1, InRange
    <3>. QED
      BY <3>1 DEF Ids
  <2>3. /\ FirstTime(b) \in 1..Len(applied) /\ applied[FirstTime(b)] = b
        /\ FirstTime(a) \in 1..Len(applied)
        /\ \A j \in 1..(FirstTime(a) - 1) : applied[j] # a
    BY <2>1, FirstTimeIs
  <2>4. a \in 1..(b - 1)
    BY <2>2
  <2>. DEFINE fa == FirstTime(a)  fb == FirstTime(b)
  <2>. HIDE DEF fa, fb
  <2>5. PICK i \in 1..(fb - 1) : applied[i] = a
    BY <2>1, <2>3, <2>4 DEF InOrder, fb
  <2>6. i \in 1..(fa - 1)
    BY <2>1, <2>3, <2>5 DEF fa, fb
  <2>. QED
    BY <2>3, <2>5, <2>6 DEF fa
<1>. QED
  BY <1>1, QueueInvariance, PTL

=============================================================================
