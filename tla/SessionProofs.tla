----------------------------- MODULE SessionProofs -----------------------------
(***************************************************************************)
(* Proofs about Session: what a tab guarantees for any number of requests  *)
(* and tokens, whatever expires, is revoked, answered late or lost.        *)
(*                                                                         *)
(* That the banner tells the truth needs only that it and the stored token *)
(* change together, whatever order their answers come in; that no token is *)
(* spent twice is not inductive, and rests on where the next one to be     *)
(* presented is kept at each stage of the exchange.                        *)
(***************************************************************************)
EXTENDS Session, TLAPS

\* The banner goes up with the token of the tenant it shows, and comes down with it.
BannerInv == auth.impersonating => auth.tenant \in Tenants /\ ls.imp = auth.tenant

\* Every refresh token in the client's hands was issued, only issued tokens are spent,
\* and a logout in flight carries the refresh token that was stored.
TokensWereIssued ==
    /\ ls.refresh <= srv.issued
    /\ refresh.presented <= srv.issued /\ refresh.got <= srv.issued
    /\ srv.used \subseteq 1..srv.issued
    /\ refresh.st = "sent" => refresh.presented # None
    /\ refresh.st = "answered" => refresh.got # None
    /\ reqs["logout"].st \in {"sent", "waiting"} => reqs["logout"].body # None

\* As long as no exchange was cut short, the token the client would present
\* next has not been spent.
NextTokenUnspent ==
    ~interrupted =>
        /\ refresh.st = "none" => ls.refresh \notin srv.used
        /\ refresh.st = "sent" => refresh.presented \notin srv.used
        /\ refresh.st = "answered" => refresh.got \notin srv.used

\* Nobody waits on an exchange that is not there.
WaitersHaveAnExchange ==
    \A r \in Calls : reqs[r].st = "waiting" => refresh.st # "none"

IInv ==
    TypeOK /\ RoleCheckHasUser /\ BannerInv /\ TokensWereIssued /\ NextTokenUnspent /\ NeverTakenForTheft
        /\ WaitersHaveAnExchange

-----------------------------------------------------------------------------
(* The records the actions build.                                          *)

\* Numbers of tokens; tenants, and so their tokens, are no numbers.
LEMMA TokenNumbers ==
    /\ Tokens \subseteq Nat /\ None \notin Tokens /\ None \notin Tenants
    /\ Tokens \subseteq Bearers /\ Tenants \subseteq Bearers
  BY SessionConstants DEF Tokens, Bearers, None

\* What the request interceptor attaches is a token or nothing.
LEMMA SentIsRequest ==
    ASSUME NEW s \in Storage, NEW r \in Request
    PROVE  /\ Sent(s, r) \in Request
           /\ Sent(s, r).st = "sent" /\ Sent(s, r).body = r.body
  <1>1. Credential(s) \in Bearers \cup {None}
    BY DEF Credential, Storage, Bearers
  <1> QED BY <1>1 DEF Sent, Request

\* A page that loads reads a slice from storage that impersonates nobody.
LEMMA LoadedSlice ==
    ASSUME NEW s \in Storage
    PROVE  /\ AuthOf(s) \in Slice
           /\ ~AuthOf(s).impersonating
           /\ AuthOf(s).signedIn => ~AuthOf(s).initialized
  BY DEF AuthOf, Storage, Slice

LEMMA NothingStored == NoTokens \in Storage /\ NoTokens.token = None /\ NoTokens.refresh = None
  BY DEF NoTokens, Storage

LEMMA IdleIsRequest == Idle \in Request /\ Idle.st = "idle" /\ Idle.body = None
  BY DEF Idle, Request, None

LEMMA SignedOutSlice ==
    /\ SignedOut \in Slice
    /\ ~SignedOut.signedIn /\ ~SignedOut.impersonating
  BY DEF SignedOut, AuthOf, NoTokens, Slice, None

LEMMA InitInv == Init => IInv
  <1> SUFFICES ASSUME Init PROVE IInv
    OBVIOUS
  <1> USE TokenNumbers, SessionConstants
  <1>1. TypeOK
    <2>1. ls \in Storage /\ auth \in Slice /\ reqs \in [Calls -> Request]
      BY LoadedSlice, NothingStored, IdleIsRequest DEF Init
    <2>2. refresh \in Refreshing
      BY DEF Init, NoRefresh, Refreshing
    <2>3. srv \in Server
      BY DEF Init, Server
    <2> QED BY <2>1, <2>2, <2>3 DEF TypeOK, Init
  <1>2. RoleCheckHasUser /\ BannerInv
    BY LoadedSlice, NothingStored DEF Init, RoleCheckHasUser, BannerInv, Slice
  <1>3. TokensWereIssued
    BY IdleIsRequest DEF Init, TokensWereIssued, NoTokens, NoRefresh, Calls, None
  <1>4. NextTokenUnspent /\ WaitersHaveAnExchange /\ NeverTakenForTheft
    BY IdleIsRequest DEF Init, NextTokenUnspent, WaitersHaveAnExchange, NeverTakenForTheft, NoRefresh
  <1> QED BY <1>1, <1>2, <1>3, <1>4 DEF IInv

-----------------------------------------------------------------------------
(* The steps.                                                              *)

\* The fields the steps compare and store, in their types.
LEMMA Fields ==
    ASSUME TypeOK
    PROVE  /\ ls.token \in Bearers \cup {None} /\ ls.refresh \in Tokens \cup {None}
           /\ ls.imp \in Tenants \cup {None}
           /\ auth.token \in Bearers \cup {None} /\ auth.original \in Bearers \cup {None}
           /\ refresh.presented \in Tokens \cup {None} /\ refresh.got \in Tokens \cup {None}
           /\ srv.issued \in Nat /\ srv.issued <= MaxIssued
           /\ srv.used \subseteq Tokens /\ srv.revoked \subseteq Tokens
           /\ srv.family \in [Tokens -> 0..MaxIssued]
           /\ MaxIssued \in Nat
  BY SessionConstants DEF TypeOK, Storage, Slice, Refreshing, Server

\* Token numbers compare as numbers.
LEMMA FieldNumbers ==
    ASSUME TypeOK
    PROVE  /\ ls.refresh \in Nat
           /\ refresh.presented \in Nat /\ refresh.got \in Nat
  <1>1. Tokens \cup {None} \subseteq Nat
    BY TokenNumbers DEF None
  <1> QED BY <1>1, Fields

\* A page load, by the user or by endSession: nothing is in flight any more,
\* and if an exchange was, that is remembered.
LEMMA UnloadStep ==
    ASSUME IInv, NEW s \in {ls, NoTokens}, ls' = s, Unload(s), UNCHANGED srv
    PROVE  IInv'
  <1>0. TypeOK /\ s \in Storage
    BY NothingStored DEF IInv, TypeOK
  <1>1. /\ auth' = AuthOf(s) /\ reqs' = [r \in Calls |-> Idle] /\ refresh' = NoRefresh
        /\ interrupted' = (interrupted \/ refresh.st # "none")
    BY DEF Unload
  <1>2. TypeOK'
    <2>1. ls' \in Storage /\ auth' \in Slice /\ reqs' \in [Calls -> Request]
      BY <1>0, <1>1, LoadedSlice, IdleIsRequest
    <2>2. refresh' \in Refreshing
      BY <1>1 DEF NoRefresh, Refreshing
    <2>3. interrupted' \in BOOLEAN
      BY <1>0, <1>1 DEF TypeOK
    <2> QED BY <1>0, <2>1, <2>2, <2>3 DEF TypeOK
  <1>3. RoleCheckHasUser' /\ BannerInv'
    BY <1>0, <1>1, LoadedSlice DEF RoleCheckHasUser, BannerInv
  <1>4. /\ ls'.refresh <= srv.issued
        /\ srv.used \subseteq 1..srv.issued
    BY <1>0, Fields, NothingStored DEF IInv, TokensWereIssued, None
  <1>5. TokensWereIssued'
    BY <1>0, <1>1, <1>4, Fields, IdleIsRequest DEF TokensWereIssued, NoRefresh, Calls, None
  <1>6. NextTokenUnspent'
    <2>1. ASSUME ~interrupted' PROVE ls'.refresh \notin srv.used
      <3>1. ls.refresh \notin srv.used
        BY <1>0, <1>1, <2>1 DEF IInv, NextTokenUnspent, TypeOK
      <3>2. None \notin srv.used
        BY <1>0, Fields, TokenNumbers
      <3> QED BY <3>1, <3>2, NothingStored
    <2> QED BY <1>1, <2>1 DEF NextTokenUnspent, NoRefresh
  <1>7. WaitersHaveAnExchange'
    BY <1>1, IdleIsRequest DEF WaitersHaveAnExchange
  <1>8. NeverTakenForTheft'
    BY <1>1 DEF IInv, NeverTakenForTheft
  <1> QED BY <1>2, <1>3, <1>5, <1>6, <1>7, <1>8 DEF IInv

\* A step that only files, moves or drops requests, in their types, and keeps
\* the body of a logout.
LEMMA RequestStep ==
    ASSUME IInv, UNCHANGED <<ls, auth, refresh, srv, interrupted>>,
           reqs' \in [Calls -> Request],
           reqs'["logout"].st \in {"sent", "waiting"} => reqs'["logout"].body # None,
           \A r \in Calls : reqs'[r].st = "waiting" => refresh.st # "none"
    PROVE  IInv'
  BY DEF IInv, TypeOK, RoleCheckHasUser, BannerInv, TokensWereIssued, NextTokenUnspent,
     WaitersHaveAnExchange, NeverTakenForTheft

\* rotate_refresh_token: a spent token is refused, which needs an interrupted
\* exchange; any other is spent and its successor was never seen before.
LEMMA RotateStep ==
    ASSUME IInv, ServerRotate PROVE IInv'
  <1> DEFINE t == refresh.presented
  <1>0. TypeOK /\ TokensWereIssued /\ NextTokenUnspent /\ NeverTakenForTheft
    BY DEF IInv
  <1>1. /\ refresh.st = "sent" /\ t \in Tokens /\ UNCHANGED <<ls, auth, reqs, interrupted>>
    BY <1>0, Fields DEF ServerRotate, TokensWereIssued
  <1>2. RoleCheckHasUser' /\ BannerInv'
    BY <1>1 DEF IInv, RoleCheckHasUser, BannerInv
  <1>3. CASE t \in srv.used \/ t \in srv.revoked
    <2>1. refresh' = [st |-> "refused", presented |-> None, got |-> None]
      BY <1>3 DEF ServerRotate, NoRefresh
    <2>2. /\ srv' \in Server /\ srv'.used = srv.used /\ srv'.issued = srv.issued
          /\ srv'.theft => srv.theft \/ t \in srv.used
      <3>1. CASE t \in srv.used
        <4> DEFINE R == srv.revoked \cup {u \in 1..srv.issued : srv.family[u] = srv.family[t]}
        <4>1. srv' = [srv EXCEPT !.theft = TRUE, !.revoked = R]
          BY <1>3, <3>1 DEF ServerRotate
        <4>2. R \subseteq Tokens
          BY <1>0, Fields DEF Tokens
        <4> HIDE DEF R
        <4> QED BY <1>0, <3>1, <4>1, <4>2 DEF TypeOK, Server
      <3>2. CASE t \notin srv.used
        BY <1>0, <1>3, <3>2 DEF ServerRotate, TypeOK
      <3> QED BY <3>1, <3>2
    <2>3. TypeOK'
      BY <1>0, <1>1, <2>1, <2>2 DEF TypeOK, Refreshing
    <2>4. TokensWereIssued'
      BY <1>0, <1>1, <2>1, <2>2, Fields DEF None, TokensWereIssued
    <2>5. NextTokenUnspent' /\ NeverTakenForTheft'
      BY <1>0, <1>1, <2>1, <2>2 DEF TypeOK, Refreshing, NextTokenUnspent, NeverTakenForTheft
    <2>6. WaitersHaveAnExchange'
      BY <1>0, <1>1, <2>1 DEF TypeOK, Refreshing, WaitersHaveAnExchange
    <2> QED BY <1>2, <2>3, <2>4, <2>5, <2>6 DEF IInv
  <1>4. CASE t \notin srv.used /\ t \notin srv.revoked
    <2> DEFINE n == srv.issued + 1
    <2>1. /\ srv.issued < MaxIssued
          /\ srv' = [Issue(srv, srv.family[t]) EXCEPT !.used = @ \cup {t}]
          /\ refresh' = [st |-> "answered", presented |-> None, got |-> n]
      BY <1>4 DEF ServerRotate, NoRefresh
    <2>2. n \in Tokens /\ n \notin srv.used /\ n # t
      <3>1. srv.issued \in Nat /\ MaxIssued \in Nat /\ t \in Nat
        BY <1>0, Fields, FieldNumbers
      <3>2. t <= srv.issued /\ srv.used \subseteq 1..srv.issued
        BY <1>0 DEF TokensWereIssued
      <3> QED BY <2>1, <3>1, <3>2 DEF Tokens
    <2>3. /\ srv' \in Server /\ srv'.used = srv.used \cup {t} /\ srv'.issued = n
          /\ srv'.theft = srv.theft
      <3> DEFINE fam == srv.family[t]
      <3>1. fam \in 0..MaxIssued /\ n \in 0..MaxIssued
        BY <1>0, <1>1, <2>1, Fields
      <3> HIDE DEF fam
      <3>2. [srv.family EXCEPT ![n] = fam] \in [Tokens -> 0..MaxIssued]
        BY <1>0, <3>1, Fields
      <3>3. srv' = [[srv EXCEPT !.issued = n, !.valid = srv.valid \cup {n},
                                !.family = [srv.family EXCEPT ![n] = fam]]
                        EXCEPT !.used = srv.used \cup {t}]
        BY <1>0, <2>1 DEF Issue, TypeOK, Server, fam
      <3> HIDE DEF n
      <3> QED BY <1>0, <1>1, <2>2, <3>1, <3>2, <3>3, TokenNumbers DEF TypeOK, Server
    <2>4. TypeOK'
      BY <1>0, <1>1, <2>1, <2>2, <2>3 DEF TypeOK, Refreshing
    <2>5. TokensWereIssued'
      <3>1. /\ srv.issued \in Nat /\ t \in Nat /\ t # None /\ t <= srv.issued
            /\ ls.refresh \in Nat /\ ls.refresh <= srv.issued
            /\ srv.used \subseteq 1..srv.issued
        BY <1>0, <1>1, Fields, FieldNumbers, TokenNumbers DEF TokensWereIssued
      <3>2. refresh'.st = "answered" /\ refresh'.got = n /\ refresh'.presented = None
        BY <1>0, <2>1 DEF TypeOK, Refreshing
      <3>3. srv'.used \subseteq 1..n
        BY <2>3, <3>1 DEF None
      <3>4. reqs'["logout"].st \in {"sent", "waiting"} => reqs'["logout"].body # None
        BY <1>0, <1>1 DEF TokensWereIssued
      <3> QED BY <1>1, <2>3, <3>1, <3>2, <3>3, <3>4 DEF TokensWereIssued, None
    <2>6. NextTokenUnspent' /\ NeverTakenForTheft'
      BY <1>0, <1>1, <2>1, <2>2, <2>3 DEF TypeOK, Refreshing, NextTokenUnspent, NeverTakenForTheft
    <2>7. WaitersHaveAnExchange'
      BY <1>0, <1>1, <2>1 DEF TypeOK, Refreshing, WaitersHaveAnExchange
    <2> QED BY <1>2, <2>4, <2>5, <2>6, <2>7 DEF IInv
  <1> QED BY <1>3, <1>4

\* Expiry and revocation touch no token's number and spend none.
LEMMA ServerStep ==
    ASSUME IInv, UNCHANGED <<ls, auth, reqs, refresh, interrupted>>, srv' \in Server,
           srv'.used = srv.used, srv'.issued = srv.issued, srv'.theft = srv.theft
    PROVE  IInv'
  BY DEF IInv, TypeOK, RoleCheckHasUser, BannerInv, TokensWereIssued, NextTokenUnspent,
     WaitersHaveAnExchange, NeverTakenForTheft

\* A refused request joins the exchange in flight or starts one with the token
\* in storage, which nobody has spent.
LEMMA ExchangeStep ==
    ASSUME IInv, NEW r \in Calls, Exchange(r) PROVE IInv'
  <1>0. TypeOK /\ TokensWereIssued /\ NextTokenUnspent
    BY DEF IInv
  <1>1. /\ reqs[r].st = "sent" /\ ls.refresh # None
        /\ reqs' = [reqs EXCEPT ![r] = Waiting(@)]
        /\ UNCHANGED <<ls, auth, srv, interrupted>>
    BY DEF Exchange, Refused, CanRetry
  <1>2. /\ reqs' \in [Calls -> Request]
        /\ reqs'["logout"].st \in {"sent", "waiting"} => reqs'["logout"].body # None
    <2> DEFINE q == Waiting(reqs[r])
    <2>1. q \in Request /\ q.body = reqs[r].body
      BY <1>0 DEF TypeOK, Request, Waiting
    <2>2. reqs' = [reqs EXCEPT ![r] = q]
      BY <1>0, <1>1 DEF TypeOK
    <2> HIDE DEF q
    <2> QED BY <1>0, <1>1, <2>1, <2>2 DEF TypeOK, Calls, TokensWereIssued
  <1>3. CASE refresh.st = "none"
    <2>1. refresh' = [st |-> "sent", presented |-> ls.refresh, got |-> None]
      BY <1>3 DEF Exchange, NoRefresh
    <2>2. TypeOK'
      BY <1>0, <1>1, <1>2, <2>1 DEF TypeOK, Storage, Refreshing
    <2>3. RoleCheckHasUser' /\ BannerInv' /\ NeverTakenForTheft'
      BY <1>1 DEF IInv, RoleCheckHasUser, BannerInv, NeverTakenForTheft
    <2>4. TokensWereIssued'
      BY <1>0, <1>1, <1>2, <2>1, Fields DEF TokensWereIssued, None
    <2>5. NextTokenUnspent' /\ WaitersHaveAnExchange'
      BY <1>0, <1>1, <1>3, <2>1 DEF NextTokenUnspent, WaitersHaveAnExchange
    <2> QED BY <2>2, <2>3, <2>4, <2>5 DEF IInv
  <1>4. CASE refresh.st # "none"
    <2>1. UNCHANGED refresh
      BY <1>4 DEF Exchange
    <2> QED BY <1>1, <1>2, <1>4, <2>1, RequestStep
  <1> QED BY <1>3, <1>4

\* The exchange succeeded: storage holds the new pair, nobody waits any more.
LEMMA RefreshedStep ==
    ASSUME IInv, Refreshed PROVE IInv'
  <1> DEFINE s == [ls EXCEPT !.token = refresh.got, !.refresh = refresh.got]
  <1>0. TypeOK /\ TokensWereIssued /\ NextTokenUnspent /\ BannerInv
    BY DEF IInv
  <1>1. /\ refresh.st = "answered" /\ ls' = s /\ refresh' = NoRefresh
        /\ reqs' = [r \in Calls |-> IF reqs[r].st = "waiting"
                                    THEN [Sent(s, reqs[r]) EXCEPT !.retried = TRUE] ELSE reqs[r]]
        /\ UNCHANGED <<auth, srv, interrupted>>
    BY DEF Refreshed
  <1>2. refresh.got \in Tokens /\ refresh.got <= srv.issued
    BY <1>0, <1>1, Fields DEF TokensWereIssued
  <1>3. s \in Storage /\ s.refresh = refresh.got /\ s.imp = ls.imp
    BY <1>0, <1>2, TokenNumbers DEF TypeOK, Storage
  <1> HIDE DEF s
  <1>4. ASSUME NEW r \in Calls
        PROVE  /\ reqs'[r] \in Request /\ reqs'[r].body = reqs[r].body
               /\ reqs'[r].st # "waiting"
               /\ reqs'[r].st = "sent" => reqs[r].st \in {"sent", "waiting"}
    <2>1. reqs[r] \in Request
      BY <1>0 DEF TypeOK
    <2>2. CASE reqs[r].st = "waiting"
      <3>1. reqs'[r] = [Sent(s, reqs[r]) EXCEPT !.retried = TRUE]
        BY <1>1, <2>2
      <3>2. /\ Sent(s, reqs[r]) \in Request
            /\ Sent(s, reqs[r]).st = "sent" /\ Sent(s, reqs[r]).body = reqs[r].body
        BY <1>3, <2>1, SentIsRequest
      <3> QED BY <2>2, <3>1, <3>2 DEF Request
    <2>3. CASE reqs[r].st # "waiting"
      BY <1>1, <2>1, <2>3
    <2> QED BY <2>2, <2>3
  <1>5. TypeOK'
    <2>1. reqs' \in [Calls -> Request]
      BY <1>1, <1>4
    <2>2. refresh' \in Refreshing
      BY <1>1 DEF NoRefresh, Refreshing
    <2> QED BY <1>0, <1>1, <1>3, <2>1, <2>2 DEF TypeOK
  <1>6. RoleCheckHasUser' /\ BannerInv' /\ NeverTakenForTheft'
    BY <1>1, <1>3 DEF IInv, RoleCheckHasUser, BannerInv, NeverTakenForTheft
  <1>7. TokensWereIssued'
    <2>1. reqs'["logout"].st \in {"sent", "waiting"} => reqs'["logout"].body # None
      <3>1. "logout" \in Calls
        BY DEF Calls
      <3> QED BY <1>0, <1>4, <3>1 DEF TokensWereIssued
    <2>2. refresh'.st = "none" /\ refresh'.presented = 0 /\ refresh'.got = 0 /\ srv.issued \in Nat
      BY <1>0, <1>1, Fields DEF NoRefresh, None
    <2>3. ls'.refresh <= srv'.issued /\ srv'.used \subseteq 1..srv'.issued
      BY <1>0, <1>1, <1>2, <1>3 DEF TokensWereIssued
    <2> QED BY <1>1, <2>1, <2>2, <2>3 DEF TokensWereIssued
  <1>8. NextTokenUnspent' /\ WaitersHaveAnExchange'
    BY <1>0, <1>1, <1>3, <1>4 DEF NextTokenUnspent, WaitersHaveAnExchange, NoRefresh
  <1> QED BY <1>5, <1>6, <1>7, <1>8 DEF IInv

\* It failed: the page ends the session, or there is nobody left to tell.
LEMMA RefreshFailedStep ==
    ASSUME IInv, RefreshFailed PROVE IInv'
  <1>1. CASE EndSession
    BY <1>1, UnloadStep DEF EndSession
  <1>2. CASE /\ ~ \E r \in Calls : reqs[r].st = "waiting"
             /\ refresh' = NoRefresh /\ interrupted' = TRUE /\ UNCHANGED <<ls, auth, reqs, srv>>
    <2>1. TypeOK'
      BY <1>2 DEF IInv, TypeOK, NoRefresh, Refreshing
    <2>2. RoleCheckHasUser' /\ BannerInv' /\ NeverTakenForTheft'
      BY <1>2 DEF IInv, RoleCheckHasUser, BannerInv, NeverTakenForTheft
    <2>3. TokensWereIssued'
      BY <1>2, Fields DEF IInv, TokensWereIssued, NoRefresh, None
    <2>4. NextTokenUnspent' /\ WaitersHaveAnExchange'
      BY <1>2 DEF NextTokenUnspent, WaitersHaveAnExchange
    <2> QED BY <2>1, <2>2, <2>3, <2>4 DEF IInv
  <1> QED BY <1>1, <1>2 DEF RefreshFailed

\* A step on the tab's tokens and slice that puts no spent token into storage
\* and starts no waiting.
LEMMA CredentialStep ==
    ASSUME IInv, UNCHANGED <<refresh, interrupted>>,
           ls' \in Storage, auth' \in Slice, srv' \in Server, reqs' \in [Calls -> Request],
           RoleCheckHasUser', BannerInv',
           srv'.used = srv.used, srv'.theft = srv.theft, srv'.issued >= srv.issued,
           ls'.refresh \in {ls.refresh, None} \/ ls'.refresh \in (srv.issued + 1)..srv'.issued,
           reqs'["logout"].st \in {"sent", "waiting"} => reqs'["logout"].body # None,
           \A r \in Calls : reqs'[r].st = "waiting" => reqs[r].st = "waiting"
    PROVE  IInv'
  <1>0. TypeOK /\ TokensWereIssued /\ NextTokenUnspent /\ WaitersHaveAnExchange
    BY DEF IInv
  <1>1. srv.issued \in Nat /\ srv'.issued \in Nat
    BY <1>0, Fields DEF Server
  <1>2. TypeOK'
    BY <1>0 DEF TypeOK
  <1>3. TokensWereIssued'
    <2>1. ls'.refresh <= srv'.issued
      BY <1>0, <1>1, FieldNumbers DEF TokensWereIssued, None
    <2>2. refresh'.presented <= srv'.issued /\ refresh'.got <= srv'.issued
      BY <1>0, <1>1, FieldNumbers DEF TokensWereIssued
    <2>3. srv'.used \subseteq 1..srv'.issued
      BY <1>0, <1>1 DEF TokensWereIssued
    <2> QED BY <1>0, <2>1, <2>2, <2>3 DEF TokensWereIssued
  <1>4. NextTokenUnspent'
    <2>1. ls.refresh \notin srv.used => ls'.refresh \notin srv.used
      <3>1. srv.used \subseteq 1..srv.issued
        BY <1>0 DEF TokensWereIssued
      <3> QED BY <1>1, <3>1 DEF None
    <2> QED BY <1>0, <2>1 DEF NextTokenUnspent
  <1>5. WaitersHaveAnExchange' /\ NeverTakenForTheft'
    BY <1>0 DEF IInv, WaitersHaveAnExchange, NeverTakenForTheft
  <1> QED BY <1>2, <1>3, <1>4, <1>5 DEF IInv

\* One request is replaced by another of its type; nobody starts to wait, and a
\* logout keeps a body.
LEMMA OneRequest ==
    ASSUME TypeOK, TokensWereIssued, NEW r \in Calls, NEW q \in Request, q.st # "waiting",
           r = "logout" /\ q.st = "sent" => q.body # None,
           reqs' = [reqs EXCEPT ![r] = q]
    PROVE  /\ reqs' \in [Calls -> Request]
           /\ reqs'["logout"].st \in {"sent", "waiting"} => reqs'["logout"].body # None
           /\ \A x \in Calls : reqs'[x].st = "waiting" => reqs[x].st = "waiting"
  BY DEF TypeOK, TokensWereIssued, Calls

\* Requests of the pages and of the bootstrap, and the asking and failing of a Sign In As.
LEMMA PageStep ==
    ASSUME IInv,
           \/ \E r \in Calls : Ask(r) \/ Answer(r)
           \/ \E t \in Tenants : SignInAs(t) \/ SignInAsFailed(t)
           \/ Bootstrap
    PROVE  IInv'
  <1>0. TypeOK /\ TokensWereIssued /\ WaitersHaveAnExchange
    BY DEF IInv
  <1>1. ASSUME NEW r \in Calls, NEW q \in Request, q.st # "waiting", r # "logout",
               reqs' = [reqs EXCEPT ![r] = q], UNCHANGED <<ls, auth, refresh, srv, interrupted>>
        PROVE  IInv'
    <2>1. /\ reqs' \in [Calls -> Request]
          /\ reqs'["logout"].st \in {"sent", "waiting"} => reqs'["logout"].body # None
          /\ \A x \in Calls : reqs'[x].st = "waiting" => reqs[x].st = "waiting"
      BY <1>0, <1>1, OneRequest
    <2>2. \A x \in Calls : reqs'[x].st = "waiting" => refresh.st # "none"
      BY <1>0, <2>1 DEF WaitersHaveAnExchange
    <2> QED BY <1>1, <2>1, <2>2, RequestStep
  <1>2. ASSUME NEW r \in Calls
        PROVE  Sent(ls, reqs[r]) \in Request /\ Sent(ls, reqs[r]).st = "sent"
    BY <1>0, SentIsRequest DEF TypeOK
  <1>3. ASSUME NEW r \in Calls, Ask(r) PROVE IInv'
    <2>1. r # "logout"
      BY <1>3, SessionConstants DEF Ask
    <2> QED BY <1>1, <1>2, <1>3, <2>1 DEF Ask
  <1>4. ASSUME NEW r \in Calls, Answer(r) PROVE IInv'
    <2>1. r # "logout"
      BY <1>4, SessionConstants DEF Answer
    <2> QED BY <1>1, <1>4, <2>1, IdleIsRequest DEF Answer
  <1>5. CASE Bootstrap
    <2>1. "me" \in Calls
      BY DEF Calls
    <2> QED BY <1>1, <1>2, <1>5, <2>1 DEF Bootstrap
  <1>6. ASSUME NEW t \in Tenants, SignInAs(t) \/ SignInAsFailed(t) PROVE IInv'
    <2>1. t \in Calls /\ t # "logout"
      BY SessionConstants DEF Calls
    <2>2. CASE SignInAs(t)
      BY <1>1, <1>2, <2>1, <2>2 DEF SignInAs
    <2>3. CASE SignInAsFailed(t)
      BY <1>1, <2>1, <2>3, IdleIsRequest DEF SignInAsFailed
    <2> QED BY <1>6, <2>2, <2>3
  <1> QED BY <1>3, <1>4, <1>5, <1>6

\* Signing in: the server issues the first token of a family.
LEMMA LoginStep ==
    ASSUME IInv, Login PROVE IInv'
  <1> DEFINE n == srv.issued + 1
  <1>0. TypeOK /\ BannerInv /\ TokensWereIssued
    BY DEF IInv
  <1>1. /\ srv.issued < MaxIssued /\ srv' = Issue(srv, n)
        /\ SetCredentials(n, n) /\ UNCHANGED <<reqs, refresh, interrupted>>
    BY DEF Login
  <1>2. n \in Tokens /\ n \in Bearers /\ n # None /\ n \in 0..MaxIssued /\ srv.issued \in Nat
    <2>1. srv.issued \in Nat /\ MaxIssued \in Nat
      BY <1>0, Fields
    <2> QED BY <1>1, <2>1 DEF Tokens, Bearers, None
  <1>3. /\ srv' \in Server /\ srv'.used = srv.used /\ srv'.theft = srv.theft /\ srv'.issued = n
    <2>1. [srv.family EXCEPT ![n] = n] \in [Tokens -> 0..MaxIssued]
      BY <1>0, <1>2, Fields
    <2>2. srv' = [srv EXCEPT !.issued = n, !.valid = srv.valid \cup {n},
                             !.family = [srv.family EXCEPT ![n] = n]]
      BY <1>0, <1>1 DEF Issue, TypeOK, Server
    <2> HIDE DEF n
    <2> QED BY <1>0, <1>2, <2>1, <2>2 DEF TypeOK, Server
  <1>4. /\ auth' = [auth EXCEPT !.user = TRUE, !.token = n, !.signedIn = TRUE, !.initialized = TRUE]
        /\ ls' = [ls EXCEPT !.token = n, !.refresh = n]
    BY <1>1, <1>2 DEF SetCredentials
  <1> HIDE DEF n
  <1>5. ls' \in Storage /\ auth' \in Slice /\ ls'.refresh = n
    BY <1>0, <1>2, <1>4 DEF TypeOK, Storage, Slice
  <1>6. RoleCheckHasUser' /\ BannerInv'
    BY <1>0, <1>1, <1>2, <1>4 DEF TypeOK, Slice, Storage, RoleCheckHasUser, BannerInv
  <1>7. ls'.refresh \in (srv.issued + 1)..srv'.issued /\ srv'.issued >= srv.issued
    BY <1>2, <1>3, <1>5 DEF n
  <1>8. /\ reqs' \in [Calls -> Request]
        /\ reqs'["logout"].st \in {"sent", "waiting"} => reqs'["logout"].body # None
        /\ \A r \in Calls : reqs'[r].st = "waiting" => reqs[r].st = "waiting"
    BY <1>0, <1>1 DEF TypeOK, TokensWereIssued
  <1> QED BY <1>1, <1>3, <1>5, <1>6, <1>7, <1>8, CredentialStep

\* logout of the slice, with at most one request ended.
LEMMA ForgetStep ==
    ASSUME IInv, Forget, UNCHANGED <<refresh, interrupted>>, srv' \in Server,
           srv'.used = srv.used, srv'.theft = srv.theft, srv'.issued = srv.issued,
           reqs' = reqs \/ \E r \in Calls : reqs' = [reqs EXCEPT ![r] = Idle]
    PROVE  IInv'
  <1>0. TypeOK /\ TokensWereIssued
    BY DEF IInv
  <1>1. ls' \in Storage /\ ls'.refresh = None /\ auth' \in Slice
    BY NothingStored, SignedOutSlice DEF Forget
  <1>2. RoleCheckHasUser' /\ BannerInv'
    BY SignedOutSlice, TokenNumbers DEF Forget, RoleCheckHasUser, BannerInv
  <1>3. /\ reqs' \in [Calls -> Request]
        /\ reqs'["logout"].st \in {"sent", "waiting"} => reqs'["logout"].body # None
        /\ \A r \in Calls : reqs'[r].st = "waiting" => reqs[r].st = "waiting"
    <2>1. CASE reqs' = reqs
      BY <1>0, <2>1 DEF TypeOK, TokensWereIssued
    <2>2. ASSUME NEW r \in Calls, reqs' = [reqs EXCEPT ![r] = Idle]
          PROVE  /\ reqs' \in [Calls -> Request]
                 /\ reqs'["logout"].st \in {"sent", "waiting"} => reqs'["logout"].body # None
                 /\ \A x \in Calls : reqs'[x].st = "waiting" => reqs[x].st = "waiting"
      BY <1>0, <2>2, OneRequest, IdleIsRequest
    <2> QED BY <2>1, <2>2
  <1>4. srv'.issued >= srv.issued
    BY <1>0, Fields
  <1> QED BY <1>1, <1>2, <1>3, <1>4, CredentialStep

\* The bootstrap's answer puts back the token the slice holds, and leaves the
\* banner and the token it goes with alone.
LEMMA BootstrapStep ==
    ASSUME IInv, BootstrapAnswered \/ BootstrapFailed PROVE IInv'
  <1>0. TypeOK /\ TokensWereIssued /\ BannerInv
    BY DEF IInv
  <1>1. /\ "me" \in Calls /\ reqs' = [reqs EXCEPT !["me"] = Idle]
        /\ UNCHANGED <<refresh, srv, interrupted>> /\ srv \in Server
    BY <1>0 DEF BootstrapAnswered, BootstrapFailed, Calls, TypeOK
  <1>2. /\ reqs' \in [Calls -> Request]
        /\ reqs'["logout"].st \in {"sent", "waiting"} => reqs'["logout"].body # None
        /\ \A x \in Calls : reqs'[x].st = "waiting" => reqs[x].st = "waiting"
    BY <1>0, <1>1, OneRequest, IdleIsRequest
  <1>3. srv'.issued >= srv.issued
    BY <1>0, <1>1, Fields
  <1>4. CASE UNCHANGED <<ls, auth>>
    <2>1. ls' \in Storage /\ auth' \in Slice /\ RoleCheckHasUser' /\ BannerInv'
      BY <1>4 DEF IInv, TypeOK, RoleCheckHasUser, BannerInv
    <2>2. ls'.refresh \in {ls.refresh, None}
      BY <1>4
    <2> QED BY <1>1, <1>2, <1>3, <2>1, <2>2, CredentialStep
  <1>5. CASE BootstrapHeard /\ SetCredentials(auth.token, None)
    <2>1. auth.token \in Bearers
      BY <1>0, <1>5, Fields DEF BootstrapHeard
    <2>2. /\ auth' = [auth EXCEPT !.user = TRUE, !.token = auth.token, !.signedIn = TRUE,
                                  !.initialized = TRUE]
          /\ ls' = [ls EXCEPT !.token = auth.token, !.refresh = ls.refresh]
      BY <1>0, <1>5 DEF SetCredentials, TypeOK, Storage
    <2>3. ls' \in Storage /\ auth' \in Slice /\ ls'.refresh = ls.refresh
      BY <1>0, <2>1, <2>2 DEF TypeOK, Storage, Slice
    <2>4. RoleCheckHasUser' /\ BannerInv'
      BY <1>0, <2>1, <2>2 DEF TypeOK, Slice, Storage, RoleCheckHasUser, BannerInv
    <2> QED BY <1>1, <1>2, <1>3, <2>3, <2>4, CredentialStep
  <1>6. CASE Forget
    BY <1>1, <1>6, ForgetStep
  <1> QED BY <1>4, <1>5, <1>6 DEF BootstrapAnswered, BootstrapFailed

\* Signing out: the logout request carries the refresh token that is stored;
\* whatever becomes of it, the tab forgets.
LEMMA SignOutStep ==
    ASSUME IInv, SignOut \/ SignOutAnswered \/ SignOutUnanswered PROVE IInv'
  <1>0. TypeOK /\ TokensWereIssued /\ WaitersHaveAnExchange /\ "logout" \in Calls /\ srv \in Server
    BY DEF IInv, Calls, TypeOK
  <1>1. CASE SignOut
    <2>1. CASE ls.refresh = None
      BY <1>0, <1>1, <2>1, ForgetStep DEF SignOut
    <2>2. CASE ls.refresh # None
      <3> DEFINE q == [Sent(ls, reqs["logout"]) EXCEPT !.body = ls.refresh]
      <3>1. reqs' = [reqs EXCEPT !["logout"] = q] /\ UNCHANGED <<ls, auth, refresh, srv, interrupted>>
        BY <1>0, <1>1, <2>2 DEF SignOut, TypeOK
      <3>2. q \in Request /\ q.st = "sent" /\ q.body # None
        <4>1. Sent(ls, reqs["logout"]) \in Request /\ Sent(ls, reqs["logout"]).st = "sent"
          BY <1>0, SentIsRequest DEF TypeOK
        <4>2. ls.refresh \in Tokens \cup {None}
          BY <1>0, Fields
        <4> QED BY <2>2, <4>1, <4>2 DEF Request
      <3> HIDE DEF q
      <3>3. /\ reqs' \in [Calls -> Request]
            /\ reqs'["logout"].st \in {"sent", "waiting"} => reqs'["logout"].body # None
            /\ \A x \in Calls : reqs'[x].st = "waiting" => reqs[x].st = "waiting"
        BY <1>0, <3>1, <3>2, OneRequest
      <3>4. \A x \in Calls : reqs'[x].st = "waiting" => refresh.st # "none"
        BY <1>0, <3>3 DEF WaitersHaveAnExchange
      <3> QED BY <3>1, <3>3, <3>4, RequestStep
    <2> QED BY <2>1, <2>2
  <1>2. CASE SignOutAnswered
    <2> DEFINE b == reqs["logout"].body
    <2>1. /\ srv' = [srv EXCEPT !.revoked = @ \cup {b}] /\ Forget
          /\ reqs' = [reqs EXCEPT !["logout"] = Idle] /\ UNCHANGED <<refresh, interrupted>>
      BY <1>2 DEF SignOutAnswered
    <2>2. b \in Tokens
      BY <1>0, <1>2 DEF SignOutAnswered, Accepted, TokensWereIssued, TypeOK, Request
    <2> HIDE DEF b
    <2>3. /\ srv' \in Server /\ srv'.used = srv.used /\ srv'.theft = srv.theft
          /\ srv'.issued = srv.issued
      BY <1>0, <2>1, <2>2 DEF Server
    <2> QED BY <1>0, <2>1, <2>3, ForgetStep
  <1>3. CASE SignOutUnanswered
    BY <1>0, <1>3, ForgetStep DEF SignOutUnanswered
  <1> QED BY <1>1, <1>2, <1>3

\* The banner goes up with the token of its tenant, over a signed-in tab or
\* not, and over the banner of another; it goes down with the token.
LEMMA ImpersonationStep ==
    ASSUME IInv, (\E t \in Tenants : EnterImpersonation(t)) \/ ExitImpersonation PROVE IInv'
  <1>0. TypeOK /\ TokensWereIssued /\ RoleCheckHasUser /\ srv \in Server
    BY DEF IInv, TypeOK
  <1>1. srv.issued >= srv.issued
    BY <1>0, Fields
  <1>2. ASSUME NEW t \in Tenants, EnterImpersonation(t) PROVE IInv'
    <2>1. /\ srv' = [srv EXCEPT !.valid = @ \cup {t}]
          /\ auth' = [auth EXCEPT !.original = auth.token, !.token = t,
                                  !.impersonating = TRUE, !.tenant = t]
          /\ ls' = [ls EXCEPT !.imp = t]
          /\ reqs' = [reqs EXCEPT ![t] = Idle]
          /\ UNCHANGED <<refresh, interrupted>>
      BY <1>2 DEF EnterImpersonation
    <2>2. /\ srv' \in Server /\ srv'.used = srv.used /\ srv'.theft = srv.theft
          /\ srv'.issued = srv.issued
      BY <1>0, <2>1, TokenNumbers DEF Server
    <2>3. ls' \in Storage /\ ls'.refresh = ls.refresh /\ auth' \in Slice
      BY <1>0, <2>1, TokenNumbers DEF TypeOK, Storage, Slice
    <2>4. RoleCheckHasUser' /\ BannerInv'
      BY <1>0, <2>1 DEF TypeOK, Storage, Slice, RoleCheckHasUser, BannerInv
    <2>5. /\ reqs' \in [Calls -> Request]
          /\ reqs'["logout"].st \in {"sent", "waiting"} => reqs'["logout"].body # None
          /\ \A x \in Calls : reqs'[x].st = "waiting" => reqs[x].st = "waiting"
      <3>1. t \in Calls
        BY DEF Calls
      <3> QED BY <1>0, <2>1, <3>1, OneRequest, IdleIsRequest
    <2> QED BY <1>1, <2>1, <2>2, <2>3, <2>4, <2>5, CredentialStep
  <1>3. CASE ExitImpersonation
    <2> DEFINE t == IF auth.original # None THEN auth.original ELSE ls.token
    <2>1. /\ auth.impersonating /\ UNCHANGED <<reqs, refresh, srv, interrupted>>
          /\ auth' = [auth EXCEPT !.token = auth.original, !.impersonating = FALSE,
                                  !.tenant = None, !.original = None]
          /\ ls' = [ls EXCEPT !.token = t, !.imp = None]
      BY <1>0, <1>3 DEF ExitImpersonation, TypeOK, Storage
    <2>2. t \in Bearers \cup {None}
      BY <1>0, Fields
    <2> HIDE DEF t
    <2>3. ls' \in Storage /\ ls'.refresh = ls.refresh /\ auth' \in Slice
      BY <1>0, <2>1, <2>2 DEF TypeOK, Storage, Slice
    <2>4. RoleCheckHasUser' /\ BannerInv'
      BY <1>0, <2>1 DEF TypeOK, Slice, RoleCheckHasUser, BannerInv
    <2>5. /\ reqs' \in [Calls -> Request]
          /\ reqs'["logout"].st \in {"sent", "waiting"} => reqs'["logout"].body # None
          /\ \A x \in Calls : reqs'[x].st = "waiting" => reqs[x].st = "waiting"
      BY <1>0, <2>1 DEF TypeOK, TokensWereIssued
    <2> QED BY <1>0, <1>1, <2>1, <2>3, <2>4, <2>5, CredentialStep
  <1> QED BY <1>2, <1>3

LEMMA NextInv == IInv /\ [Next]_vars => IInv'
  <1> SUFFICES ASSUME IInv, [Next]_vars PROVE IInv'
    OBVIOUS
  <1>0. srv \in Server /\ ls \in {ls, NoTokens} /\ NoTokens \in {ls, NoTokens}
    BY DEF IInv, TypeOK
  <1>1. CASE ServerRotate
    BY <1>1, RotateStep
  <1>2. CASE RevokeAll
    <2>1. 1..srv.issued \subseteq Tokens
      BY SessionConstants DEF IInv, TypeOK, Server, Tokens
    <2>2. srv' = [srv EXCEPT !.revoked = 1..srv.issued] /\ UNCHANGED <<ls, auth, reqs, refresh, interrupted>>
      BY <1>2 DEF RevokeAll
    <2>3. /\ srv' \in Server /\ srv'.used = srv.used /\ srv'.theft = srv.theft
          /\ srv'.issued = srv.issued
      BY <1>0, <2>1, <2>2 DEF Server
    <2> QED BY <2>2, <2>3, ServerStep
  <1>3. CASE \E t \in Bearers : Expire(t)
    <2>1. PICK t \in Bearers : Expire(t)
      BY <1>3
    <2>2. srv' = [srv EXCEPT !.valid = @ \ {t}] /\ UNCHANGED <<ls, auth, reqs, refresh, interrupted>>
      BY <2>1 DEF Expire
    <2>3. /\ srv' \in Server /\ srv'.used = srv.used /\ srv'.theft = srv.theft
          /\ srv'.issued = srv.issued
      BY <1>0, <2>2 DEF Server
    <2> QED BY <2>2, <2>3, ServerStep
  <1>4. CASE Reload
    BY <1>0, <1>4, UnloadStep DEF Reload
  <1>5. CASE EndSession
    BY <1>0, <1>5, UnloadStep DEF EndSession
  <1>6. ASSUME NEW r \in Calls, Exchange(r) PROVE IInv'
    BY <1>6, ExchangeStep
  <1>7. CASE \/ \E r \in Calls : Ask(r) \/ Answer(r)
             \/ \E t \in Tenants : SignInAs(t) \/ SignInAsFailed(t)
             \/ Bootstrap
    BY <1>7, PageStep
  <1>8. CASE Refreshed
    BY <1>8, RefreshedStep
  <1>9. CASE RefreshFailed
    BY <1>9, RefreshFailedStep
  <1>10. CASE Login
    BY <1>10, LoginStep
  <1>11. CASE BootstrapAnswered \/ BootstrapFailed
    BY <1>11, BootstrapStep
  <1>12. CASE SignOut \/ SignOutAnswered \/ SignOutUnanswered
    BY <1>12, SignOutStep
  <1>13. CASE (\E t \in Tenants : EnterImpersonation(t)) \/ ExitImpersonation
    BY <1>13, ImpersonationStep
  <1>14. CASE UNCHANGED vars
    BY <1>14 DEF vars, IInv, TypeOK, RoleCheckHasUser, BannerInv, TokensWereIssued,
       NextTokenUnspent, WaitersHaveAnExchange, NeverTakenForTheft
  <1> QED BY <1>1, <1>2, <1>3, <1>4, <1>5, <1>6, <1>7, <1>8, <1>9, <1>10, <1>11, <1>12, <1>13, <1>14
          DEF Next, GiveUp, LoginRefused

-----------------------------------------------------------------------------
(* The theorems.                                                           *)

LEMMA InvHolds == Spec => []IInv
  BY InitInv, NextInv, PTL DEF Spec

\* Storage, slice, requests, exchange and the server's tables keep their types.
THEOREM SessionTypes == Spec => []TypeOK
  <1>1. IInv => TypeOK BY DEF IInv
  <1> QED BY <1>1, InvHolds, PTL

\* However many requests are refused together and whatever is answered late,
\* the interceptor presents no refresh token twice unless a page went away or
\* an answer was lost in the middle of an exchange.
THEOREM NeverTakenForTheftHolds == Spec => []NeverTakenForTheft
  <1>1. IInv => NeverTakenForTheft BY DEF IInv
  <1> QED BY <1>1, InvHolds, PTL

\* While authSlice shows a tenant in the impersonation banner, the interceptor
\* attaches that tenant's token: of several sign-ins the one answered last
\* decides both, and no refresh, bootstrap, sign-in or sign-out parts them.
THEOREM BannerTellsTheTruthHolds == Spec => []BannerTellsTheTruth
  <1>1. IInv => BannerTellsTheTruth
    BY TokenNumbers DEF IInv, BannerInv, BannerTellsTheTruth, Credential
  <1> QED BY <1>1, InvHolds, PTL

\* A signed-in slice that says it is initialized has its user, so a route that
\* checks a role never checks an absent one.
THEOREM RoleCheckHasUserHolds == Spec => []RoleCheckHasUser
  <1>1. IInv => RoleCheckHasUser BY DEF IInv
  <1> QED BY <1>1, InvHolds, PTL

\* A request of the tab that waits has an exchange to wait for: refreshInFlight
\* is never cleared under its waiters.
THEOREM WaitersHaveAnExchangeHolds == Spec => []WaitersHaveAnExchange
  <1>1. IInv => WaitersHaveAnExchange BY DEF IInv
  <1> QED BY <1>1, InvHolds, PTL
=============================================================================
