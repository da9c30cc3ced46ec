------------------------- MODULE DecommissionRacing -------------------------
(***************************************************************************)
(* The decommission and booking handlers, run by concurrent requests.       *)
(*                                                                          *)
(* A request is one READ COMMITTED transaction (db/base.py get_db) that     *)
(* takes no lock when it reads, and no constraint of the database backs     *)
(* initiate's or assert_bookable's check.  A request reads and is accepted  *)
(* in one step and commits in a later one; what it writes is decided by     *)
(* what it read, except new ids.  An UPDATE names only the columns set, so  *)
(* commits on one row lose no column of each other.                         *)
(*                                                                          *)
(* create_booking and add_environment race as create_request does; of two   *)
(* equal signatures the unique key uq_decommission_step lets one through.   *)
(***************************************************************************)
EXTENDS Decommission

CONSTANT Clients        \* requests in flight at once

VARIABLE pending        \* pending[q]: what request q will write, or Idle

rvars == <<vars, pending>>

Idle == [kind |-> "idle"]

RacingInit == Init /\ pending = [q \in Clients |-> Idle]

\* q's checks passed on what is committed now.
Begin(q, op) == pending[q] = Idle /\ pending' = [pending EXCEPT ![q] = op] /\ UNCHANGED vars
Commits(q, kind) == pending[q].kind = kind /\ pending' = [pending EXCEPT ![q] = Idle]

BeginInitiate(q, e, at) ==
    AcceptsInitiate(e, at) /\ Begin(q, [kind |-> "initiate", env |-> e, at |-> at])
CommitInitiate(q, d) ==
    Commits(q, "initiate") /\ WritesInitiate(d, pending[q].env, pending[q].at)

BeginExtension(q, d, u) ==
    AcceptsExtensionRequest(d, u) /\ Begin(q, [kind |-> "extend", dec |-> d, at |-> u])
CommitExtension(q) ==
    Commits(q, "extend") /\ WritesExtensionRequest(pending[q].dec, pending[q].at)

BeginDecision(q, d, answer) ==
    /\ AcceptsDecision(d)
    /\ Begin(q, [kind |-> "decide", dec |-> d, answer |-> answer, at |-> until[d]])
CommitDecision(q) ==
    Commits(q, "decide") /\ WritesDecision(pending[q].dec, pending[q].answer, pending[q].at)

BeginTearDown(q, d) == AcceptsTearDown(d) /\ Begin(q, [kind |-> "tear_down", dec |-> d])
CommitTearDown(q) == Commits(q, "tear_down") /\ WritesTearDown(pending[q].dec)

BeginCancel(q, d) == AcceptsCancel(d) /\ Begin(q, [kind |-> "cancel", dec |-> d])
CommitCancel(q) == Commits(q, "cancel") /\ WritesCancel(pending[q].dec)

\* create_request.
BeginRequest(q, E, end) ==
    AcceptsRequest(E, end) /\ Begin(q, [kind |-> "book", envs |-> E, at |-> end])
CommitRequest(q, r, where) ==
    /\ Commits(q, "book")
    /\ ~Exists(r)
    /\ {where[b] : b \in DOMAIN where} = pending[q].envs
    /\ \A b, c \in DOMAIN where : where[b] = where[c] => b = c
    /\ WritesBookings(r, where, [b \in DOMAIN where |-> pending[q].at])

\* Both date edits; a booking that already has the end is not written.
BeginMove(q, B, end) ==
    /\ \A b \in B : bkEnv[b] # None /\ b \notin bkGone
    /\ AcceptsMove(B, end)
    /\ Begin(q, [kind |-> "move", bks |-> {b \in B : bkEnd[b] # end}, at |-> end])
CommitMove(q) == Commits(q, "move") /\ WritesMove(pending[q].bks, pending[q].at)

\* The request fails, or its client goes away: nothing is written.
Rollback(q) ==
    pending[q] # Idle /\ pending' = [pending EXCEPT ![q] = Idle] /\ UNCHANGED vars

RacingNext ==
    \/ \E q \in Clients :
        \/ \E e \in Envs, at \in Times : BeginInitiate(q, e, at)
        \/ \E d \in Decoms : CommitInitiate(q, d)
        \/ \E d \in Rows, u \in Times : BeginExtension(q, d, u)
        \/ CommitExtension(q)
        \/ \E d \in Rows, answer \in {"granted", "refused"} : BeginDecision(q, d, answer)
        \/ CommitDecision(q)
        \/ \E d \in Rows : BeginTearDown(q, d) \/ BeginCancel(q, d)
        \/ CommitTearDown(q) \/ CommitCancel(q)
        \/ \E E \in SUBSET Envs, end \in Times : BeginRequest(q, E, end)
        \/ \E r \in Requests, B \in SUBSET Bookings :
                \E where \in [B -> Envs] : CommitRequest(q, r, where)
        \/ \E r \in Requests, end \in Times : BeginMove(q, Children(r), end)
        \/ \E b \in Bookings, end \in Times : BeginMove(q, {b}, end)
        \/ CommitMove(q)
        \/ Rollback(q)
    \/ (RegisterNext \/ Tick) /\ UNCHANGED pending

RacingSpec == RacingInit /\ [][RacingNext]_rvars
=============================================================================
