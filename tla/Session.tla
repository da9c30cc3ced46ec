-------------------------------- MODULE Session --------------------------------
(***************************************************************************)
(* A signed-in browser tab: the tokens in localStorage, the auth slice of  *)
(* the store, the axios interceptors that exchange the refresh token when  *)
(* a request is refused, sign-in and sign-out, the bootstrap after a page  *)
(* load, and a master admin's impersonation of tenants, whose answers may  *)
(* come late, in any order and after a sign-out.  On the other side, the   *)
(* server's refresh tokens: each exchange spends the token presented and   *)
(* issues its successor, and presenting a spent one revokes the family.    *)
(*                                                                         *)
(* Tokens are numbered in the order they are issued; the access token and  *)
(* the refresh token issued together have the same number.  The token that *)
(* impersonates a tenant is written as the tenant.                         *)
(***************************************************************************)
EXTENDS Naturals, FiniteSets

CONSTANTS Requests,    \* the requests pages make
          Tenants,     \* the tenants a master admin may sign in as
          MaxIssued,   \* bound: tokens the server issues
          MaxOpen      \* bound: calls the tab has open at once

ASSUME SessionConstants ==
    /\ MaxIssued \in Nat /\ MaxOpen \in Nat
    /\ {"me", "logout"} \cap (Requests \cup Tenants) = {}
    /\ Requests \cap Tenants = {}
    /\ Tenants \cap Nat = {}

None == 0
Tokens == 1..MaxIssued
Bearers == Tokens \cup Tenants     \* what a request may be authorized by

(* What is in flight at most once: bound, of the sign-ins as one tenant.   *)
Calls == Requests \cup Tenants \cup {"me", "logout"}

VARIABLES ls,           \* localStorage: token, refresh_token, impersonation_token
          auth,         \* authSlice
          reqs,         \* what became of each request
          refresh,      \* refreshInFlight, and how far the exchange has got
          srv,          \* the server's record of the tokens
          interrupted   \* ghost: a page went away while an exchange was open

vars == <<ls, auth, reqs, refresh, srv, interrupted>>

Idle == [st |-> "idle", cred |-> None, retried |-> FALSE, body |-> None]
NoRefresh == [st |-> "none", presented |-> None, got |-> None]
NoTokens == [token |-> None, refresh |-> None, imp |-> None]

(* Mutant: a page that finds a token counts as initialized.                *)
AuthOf_Ready(s) ==
    [user |-> FALSE, token |-> s.token, signedIn |-> s.token /= None,
     initialized |-> TRUE, impersonating |-> FALSE, tenant |-> None, original |-> None]

(* initialState of the slice, read from localStorage when a page loads.    *)
AuthOf(s) ==
    [user |-> FALSE, token |-> s.token, signedIn |-> s.token /= None,
     initialized |-> s.token = None, impersonating |-> FALSE, tenant |-> None,
     original |-> None]

(* The slice after logout.                                                 *)
SignedOut == [AuthOf(NoTokens) EXCEPT !.initialized = TRUE]

(* The types of the variables: localStorage, the slice, a request, the     *)
(* exchange and the server's tables.                                       *)
Storage == [token : Bearers \cup {None}, refresh : Tokens \cup {None},
            imp : Tenants \cup {None}]
Slice == [user : BOOLEAN, token : Bearers \cup {None}, signedIn : BOOLEAN,
          initialized : BOOLEAN, impersonating : BOOLEAN, tenant : Tenants \cup {None},
          original : Bearers \cup {None}]
Request == [st : {"idle", "sent", "waiting"}, cred : Bearers \cup {None},
            retried : BOOLEAN, body : Tokens \cup {None}]
Refreshing == [st : {"none", "sent", "answered", "refused"},
               presented : Tokens \cup {None}, got : Tokens \cup {None}]
Server == [issued : 0..MaxIssued, used : SUBSET Tokens, revoked : SUBSET Tokens,
           valid : SUBSET Bearers, family : [Tokens -> 0..MaxIssued],
           theft : BOOLEAN]

TypeOK ==
    /\ ls \in Storage
    /\ auth \in Slice
    /\ reqs \in [Calls -> Request]
    /\ refresh \in Refreshing
    /\ srv \in Server
    /\ interrupted \in BOOLEAN

(* A browser that has not signed in yet.                                   *)
Init ==
    /\ ls = NoTokens
    /\ auth = AuthOf(NoTokens)
    /\ reqs = [r \in Calls |-> Idle]
    /\ refresh = NoRefresh
    /\ srv = [issued |-> 0, used |-> {}, revoked |-> {}, valid |-> {},
              family |-> [t \in Tokens |-> 0], theft |-> FALSE]
    /\ interrupted = FALSE

(* ---- the server ---- *)

(* issue_session: a new pair in the given family.                          *)
Issue(s, fam) ==
    [s EXCEPT !.issued = @ + 1, !.valid = @ \cup {s.issued + 1},
              !.family[s.issued + 1] = fam]

(* rotate_refresh_token, and the commit of what it revokes.                *)
ServerRotate ==
    /\ refresh.st = "sent"
    /\ LET t == refresh.presented
           reuse == t \in srv.used
       IN  IF reuse \/ t \in srv.revoked
           THEN /\ srv' = IF reuse
                          THEN [srv EXCEPT !.theft = TRUE,
                                !.revoked = @ \cup {u \in 1..srv.issued :
                                                srv.family[u] = srv.family[t]}]
                          ELSE srv
                /\ refresh' = [NoRefresh EXCEPT !.st = "refused"]
           ELSE /\ srv.issued < MaxIssued
                /\ srv' = [Issue(srv, srv.family[t]) EXCEPT !.used = @ \cup {t}]
                /\ refresh' = [NoRefresh EXCEPT !.st = "answered", !.got = srv.issued + 1]
    /\ UNCHANGED <<ls, auth, reqs, interrupted>>

(* An access token, or an impersonation token, reaches its expiry.         *)
Expire(t) ==
    /\ t \in srv.valid
    /\ srv' = [srv EXCEPT !.valid = @ \ {t}]
    /\ UNCHANGED <<ls, auth, reqs, refresh, interrupted>>

(* revoke_all_for_user: a password change or a deactivation elsewhere.     *)
RevokeAll ==
    /\ srv.issued > 0
    /\ srv' = [srv EXCEPT !.revoked = 1..srv.issued]
    /\ srv' /= srv
    /\ UNCHANGED <<ls, auth, reqs, refresh, interrupted>>

(* ---- requests and the interceptors ---- *)

(* The request interceptor: the impersonation token takes precedence.      *)
Credential(s) == IF s.imp /= None THEN s.imp ELSE s.token

Sent(s, r) == [r EXCEPT !.st = "sent", !.cred = Credential(s)]

Room(r) == reqs[r].st = "idle" /\ Cardinality({c \in Calls : reqs[c].st /= "idle"}) < MaxOpen

(* A page asks for something.                                              *)
Ask(r) ==
    /\ r \in Requests
    /\ auth.signedIn /\ Room(r)
    /\ reqs' = [reqs EXCEPT ![r] = Sent(ls, @)]
    /\ UNCHANGED <<ls, auth, refresh, srv, interrupted>>

(* The page goes away: its requests, its slice and refreshInFlight with    *)
(* it; the new page starts from localStorage.                              *)
Unload(s) ==
    /\ auth' = AuthOf(s)
    /\ reqs' = [r \in Calls |-> Idle]
    /\ refresh' = NoRefresh
    /\ interrupted' = (interrupted \/ refresh.st /= "none")

(* endSession: forget everything and load /login.                          *)
EndSession == ls' = NoTokens /\ Unload(NoTokens) /\ UNCHANGED srv

(* The user reloads the page.                                              *)
Reload == ls' = ls /\ Unload(ls) /\ UNCHANGED srv

Accepted(r) == reqs[r].st = "sent" /\ reqs[r].cred \in srv.valid
Refused(r) == reqs[r].st = "sent" /\ reqs[r].cred \notin srv.valid

(* What the response interceptor lets pass to the exchange.                *)
CanRetry(r) == ~reqs[r].retried /\ ls.refresh /= None /\ ls.imp = None

Waiting(r) == [r EXCEPT !.st = "waiting", !.cred = None]

(* Mutant: every refused request starts an exchange of its own.            *)
Exchange_EachItsOwn(r) ==
    /\ Refused(r) /\ CanRetry(r)
    /\ reqs' = [reqs EXCEPT ![r] = Waiting(@)]
    /\ refresh' = [NoRefresh EXCEPT !.st = "sent", !.presented = ls.refresh]
    /\ UNCHANGED <<ls, auth, srv, interrupted>>

(* A refused request starts the exchange, or waits for the one in flight.  *)
Exchange(r) ==
    /\ Refused(r) /\ CanRetry(r)
    /\ reqs' = [reqs EXCEPT ![r] = Waiting(@)]
    /\ refresh' = IF refresh.st = "none"
                  THEN [NoRefresh EXCEPT !.st = "sent", !.presented = ls.refresh]
                  ELSE refresh
    /\ UNCHANGED <<ls, auth, srv, interrupted>>

(* A refused request that may not be retried ends the session, unless      *)
(* nobody is signed in; the caller is told either way.                     *)
GiveUp(r) ==
    /\ Refused(r) /\ ~CanRetry(r)
    /\ ls.token /= None
    /\ EndSession

(* Mutant: only the request that started the exchange is replayed.         *)
Refreshed_OneReplayed ==
    /\ refresh.st = "answered"
    /\ LET s == [ls EXCEPT !.token = refresh.got, !.refresh = refresh.got]
       IN  /\ ls' = s
           /\ \E r \in Calls :
                /\ reqs[r].st = "waiting"
                /\ reqs' = [reqs EXCEPT ![r] = [Sent(s, @) EXCEPT !.retried = TRUE]]
    /\ refresh' = NoRefresh
    /\ UNCHANGED <<auth, srv, interrupted>>

(* The exchange succeeded: store the pair, replay everything that waited.  *)
Refreshed ==
    /\ refresh.st = "answered"
    /\ LET s == [ls EXCEPT !.token = refresh.got, !.refresh = refresh.got]
       IN  /\ ls' = s
           /\ reqs' = [r \in Calls |->
                IF reqs[r].st = "waiting"
                THEN [Sent(s, reqs[r]) EXCEPT !.retried = TRUE] ELSE reqs[r]]
    /\ refresh' = NoRefresh
    /\ UNCHANGED <<auth, srv, interrupted>>

(* It was refused, or its answer was lost: those who waited end the        *)
(* session.                                                                *)
RefreshFailed ==
    /\ refresh.st \in {"refused", "answered", "sent"}
    /\ IF \E r \in Calls : reqs[r].st = "waiting" THEN EndSession
       ELSE /\ refresh' = NoRefresh
            /\ interrupted' = TRUE
            /\ UNCHANGED <<ls, auth, reqs, srv>>

(* An ordinary answer, or a failure that is not a refusal.                 *)
Answer(r) ==
    /\ r \in Requests
    /\ Accepted(r) \/ (Refused(r) /\ ~CanRetry(r) /\ ls.token = None)
    /\ reqs' = [reqs EXCEPT ![r] = Idle]
    /\ UNCHANGED <<ls, auth, refresh, srv, interrupted>>

(* ---- signing in and out ---- *)

(* setCredentials: the refresh token is stored only when there is one.     *)
SetCredentials(token, refreshToken) ==
    /\ auth' = [auth EXCEPT !.user = TRUE, !.token = token, !.signedIn = TRUE,
                            !.initialized = TRUE]
    /\ ls' = [ls EXCEPT !.token = token,
                        !.refresh = IF refreshToken = None THEN @ ELSE refreshToken]

(* The login form, accepted: a new family of tokens.  /login is routed for *)
(* a signed-in tab as for any other, and the banner stays as it is.        *)
Login ==
    /\ srv.issued < MaxIssued
    /\ srv' = Issue(srv, srv.issued + 1)
    /\ SetCredentials(srv.issued + 1, srv.issued + 1)
    /\ UNCHANGED <<reqs, refresh, interrupted>>

(* The login form, refused: never exchanged; it ends a session that is     *)
(* still in storage.                                                       *)
LoginRefused ==
    /\ ls.token /= None
    /\ EndSession

(* App: after a page load with a token, ask who the user is.               *)
Bootstrap ==
    /\ auth.signedIn /\ ~auth.user /\ auth.token /= None
    /\ Room("me")
    /\ reqs' = [reqs EXCEPT !["me"] = Sent(ls, @)]
    /\ UNCHANGED <<ls, auth, refresh, srv, interrupted>>

(* The effect's cleanup: an answer counts only while nothing it depends on *)
(* has changed.  setCredentials is given the token the effect read.        *)
BootstrapHeard == auth.signedIn /\ ~auth.user /\ auth.token /= None

BootstrapAnswered ==
    /\ Accepted("me")
    /\ IF BootstrapHeard THEN SetCredentials(auth.token, None) ELSE UNCHANGED <<ls, auth>>
    /\ reqs' = [reqs EXCEPT !["me"] = Idle]
    /\ UNCHANGED <<refresh, srv, interrupted>>

(* Mutant: the slice still shows the tenant that was impersonated.         *)
Forget_KeepsImpersonating ==
    /\ ls' = NoTokens
    /\ auth' = [SignedOut EXCEPT !.impersonating = auth.impersonating, !.tenant = auth.tenant]

(* logout of the slice: forget the tokens; the page is not loaded again.   *)
Forget == ls' = NoTokens /\ auth' = SignedOut

(* The user could not be read, for a reason other than a refusal that the  *)
(* interceptor deals with.                                                 *)
BootstrapFailed ==
    /\ reqs["me"].st = "sent"
    /\ Refused("me") => (~CanRetry("me") /\ ls.token = None)
    /\ IF BootstrapHeard THEN Forget ELSE UNCHANGED <<ls, auth>>
    /\ reqs' = [reqs EXCEPT !["me"] = Idle]
    /\ UNCHANGED <<refresh, srv, interrupted>>

(* AppLayout: revoke the refresh token first, then forget.  The account    *)
(* menu is there before the user is known.                                 *)
SignOut ==
    /\ auth.signedIn /\ (ls.refresh /= None => Room("logout"))
    /\ IF ls.refresh = None
       THEN Forget /\ UNCHANGED reqs
       ELSE /\ reqs' = [reqs EXCEPT !["logout"] = [Sent(ls, @) EXCEPT !.body = ls.refresh]]
            /\ UNCHANGED <<ls, auth>>
    /\ UNCHANGED <<refresh, srv, interrupted>>

(* The server revokes the token in the body, and only that one.            *)
SignOutAnswered ==
    /\ Accepted("logout")
    /\ srv' = [srv EXCEPT !.revoked = @ \cup {reqs["logout"].body}]
    /\ Forget
    /\ reqs' = [reqs EXCEPT !["logout"] = Idle]
    /\ UNCHANGED <<refresh, interrupted>>

(* Without the server's answer, forget all the same.                       *)
SignOutUnanswered ==
    /\ reqs["logout"].st = "sent"
    /\ Refused("logout") => (~CanRetry("logout") /\ ls.token = None)
    /\ Forget
    /\ reqs' = [reqs EXCEPT !["logout"] = Idle]
    /\ UNCHANGED <<refresh, srv, interrupted>>

(* ---- impersonation ---- *)

(* Sign In As, on the row of a tenant; never disabled, under the banner    *)
(* neither.                                                                *)
SignInAs(t) ==
    /\ auth.signedIn /\ auth.user /\ Room(t)
    /\ reqs' = [reqs EXCEPT ![t] = Sent(ls, @)]
    /\ UNCHANGED <<ls, auth, refresh, srv, interrupted>>

(* signInAsTenant is answered: enterImpersonation, whatever the tab has    *)
(* become.  The token in force is kept as the one to return to.            *)
EnterImpersonation(t) ==
    /\ Accepted(t)
    /\ srv' = [srv EXCEPT !.valid = @ \cup {t}]
    /\ auth' = [auth EXCEPT !.original = auth.token, !.token = t,
                            !.impersonating = TRUE, !.tenant = t]
    /\ ls' = [ls EXCEPT !.imp = t]
    /\ reqs' = [reqs EXCEPT ![t] = Idle]
    /\ UNCHANGED <<refresh, interrupted>>

(* It failed, for a reason the interceptor does not deal with.             *)
SignInAsFailed(t) ==
    /\ reqs[t].st = "sent"
    /\ Refused(t) => (~CanRetry(t) /\ ls.token = None)
    /\ reqs' = [reqs EXCEPT ![t] = Idle]
    /\ UNCHANGED <<ls, auth, refresh, srv, interrupted>>

(* The banner's Exit.                                                      *)
ExitImpersonation ==
    /\ auth.impersonating
    /\ auth' = [auth EXCEPT !.token = auth.original, !.impersonating = FALSE,
                            !.tenant = None, !.original = None]
    /\ ls' = [ls EXCEPT !.token = IF auth.original /= None THEN auth.original ELSE @,
                        !.imp = None]
    /\ UNCHANGED <<reqs, refresh, srv, interrupted>>

Next ==
    \/ ServerRotate \/ RevokeAll \/ Reload
    \/ \E t \in Bearers : Expire(t)
    \/ \E r \in Calls : Ask(r) \/ Exchange(r) \/ GiveUp(r) \/ Answer(r)
    \/ Refreshed \/ RefreshFailed
    \/ Login \/ LoginRefused \/ Bootstrap \/ BootstrapAnswered \/ BootstrapFailed
    \/ SignOut \/ SignOutAnswered \/ SignOutUnanswered
    \/ \E t \in Tenants : SignInAs(t) \/ EnterImpersonation(t) \/ SignInAsFailed(t)
    \/ ExitImpersonation

(* The server answers, or the connection fails, sooner or later.           *)
Fairness == WF_vars(Refreshed \/ RefreshFailed)

Spec == Init /\ [][Next]_vars /\ Fairness

(* ---- properties ---- *)

(* The client never makes the server believe a token was stolen: a spent   *)
(* refresh token is presented only when a page went away, or an answer was *)
(* lost, in the middle of an exchange.                                     *)
NeverTakenForTheft == srv.theft => interrupted

(* While the banner shows a tenant, whatever the tab sends carries that    *)
(* tenant's impersonation token: with several sign-ins answered in any     *)
(* order, and through refreshes, bootstraps, sign-ins over it and          *)
(* sign-outs, the banner never shows one tenant, or one that has been      *)
(* left, while the pages act as another identity.                          *)
BannerTellsTheTruth == auth.impersonating => Credential(ls) = auth.tenant

(* docs/admin-guide.md:90: "While impersonating, a sticky warning banner". *)
(* A reload keeps the token and drops the banner.                          *)
ActingMeansBanner == Credential(ls) \in Tenants => auth.impersonating

(* The banner: "Exit to return to your account".  A second Sign In As      *)
(* keeps the first tenant's token as the one to return to.                 *)
ExitReturnsToAccount == [][ExitImpersonation => Credential(ls') \notin Tenants]_vars

(* Nobody is shown a tenant's banner who is not signed in.  A Sign In As   *)
(* answered after a sign-out shows it.                                     *)
BannerNeedsSession == auth.impersonating => auth.signedIn

(* Nobody waits for ever on the shared exchange: again and again, all who  *)
(* waited have been let go.                                                *)
WaitersAreReleased == []<>(\A r \in Calls : reqs[r].st /= "waiting")

(* A route that checks a role waits for the user: once the auth state says *)
(* it is initialized, a signed-in tab has its user.                        *)
RoleCheckHasUser == (auth.signedIn /\ auth.initialized) => auth.user

(* AppLayout, of signing out: the token is revoked while it is still in    *)
(* storage, so that no session is left alive on the server.                *)
SignOutRevokes ==
    [][(auth.signedIn /\ ~auth'.signedIn /\ Accepted("logout")
            /\ reqs'["logout"].st = "idle" /\ srv' /= srv)
        => \A t \in 1..srv'.issued :
               srv'.family[t] = srv'.family[reqs["logout"].body] =>
                   t \in srv'.used \cup srv'.revoked]_vars
=============================================================================
