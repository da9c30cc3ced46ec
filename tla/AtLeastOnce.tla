---------------------------- MODULE AtLeastOnce ----------------------------
(***************************************************************************)
(* What the outbox promises the rest of the system: an event reaches the    *)
(* stream only if the transaction that recorded it committed, and then it   *)
(* does reach it.  How often a consumer sees it is not promised.            *)
(***************************************************************************)
CONSTANT Events

VARIABLES txn,    \* txn[e]: the transaction that records e
          seen    \* events the stream has stored at least once

avars == <<txn, seen>>

AInit == txn = [e \in Events |-> "none"] /\ seen = {}

Record(e) == txn[e] = "none" /\ txn' = [txn EXCEPT ![e] = "open"] /\ UNCHANGED seen
Settle(e) ==
    /\ txn[e] = "open"
    /\ \E end \in {"committed", "rolled_back"} : txn' = [txn EXCEPT ![e] = end]
    /\ UNCHANGED seen
Deliver(e) == txn[e] = "committed" /\ e \notin seen /\ seen' = seen \cup {e} /\ UNCHANGED txn

ANext == \E e \in Events : Record(e) \/ Settle(e) \/ Deliver(e)

ASafety == AInit /\ [][ANext]_avars
ASpec == ASafety /\ \A e \in Events : WF_avars(Deliver(e))
=============================================================================
