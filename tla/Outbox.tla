------------------------------- MODULE Outbox -------------------------------
(***************************************************************************)
(* The transactional outbox.                                                *)
(*                                                                          *)
(*   core/events.py publish_event   adds an EventLog row to the caller's    *)
(*                                  transaction;                            *)
(*   workers/event_publisher.py     every replica of the server polls the   *)
(*                                  unpublished rows, sends them to NATS    *)
(*                                  JetStream and stamps published_at;      *)
(*   db/base.py get_db              commits or rolls back a request.        *)
(*                                                                          *)
(* Backoff times are left out: a worker that sleeps may take its next step  *)
(* at any later time.  NATS and PostgreSQL are external.                    *)
(***************************************************************************)
EXTENDS Integers, FiniteSets

CONSTANTS Events,     \* EventLog rows, at most one per request here
          Workers,    \* publishers: one per server process
          BatchSize,  \* _BATCH_SIZE
          MaxFaults   \* bound on outages, lost acks, database errors, crashes

ASSUME OutboxAssumption ==
    IsFiniteSet(Events) /\ BatchSize \in Nat \ {0} /\ MaxFaults \in Nat

VARIABLES
    txn,        \* txn[e]: "none", "open", "committed" or "rolled_back"
    born,       \* born[e]: rank of created_at, the start of e's transaction
    published,  \* committed rows whose published_at is set
    deliveries, \* deliveries[e]: 0, 1, or 2 for more than once
    natsUp,     \* JetStream answers
    pc,         \* pc[w]: where worker w is in run_event_publisher
    batch,      \* batch[w]: rows w holds FOR UPDATE
    sent,       \* sent[w]: rows of the batch whose publish returned
    faults      \* faults so far

vars == <<txn, born, published, deliveries, natsUp, pc, batch, sent, faults>>
requestVars == <<txn, born>>
workerVars == <<pc, batch, sent>>

PCs == {"disconnected", "polling", "publishing", "failed", "crashed"}

Init ==
    /\ txn = [e \in Events |-> "none"]
    /\ born = [e \in Events |-> 0]
    /\ published = {}
    /\ deliveries = [e \in Events |-> 0]
    /\ natsUp \in BOOLEAN
    /\ pc = [w \in Workers |-> "disconnected"]
    /\ batch = [w \in Workers |-> {}]
    /\ sent = [w \in Workers |-> {}]
    /\ faults = 0

-----------------------------------------------------------------------------
(* Requests: publish_event and the end of the transaction.                  *)

\* created_at defaults to now(), which PostgreSQL fixes at transaction start.
PublishEvent(e) ==
    /\ txn[e] = "none"
    /\ txn' = [txn EXCEPT ![e] = "open"]
    /\ born' = [born EXCEPT ![e] = 1 + Cardinality({x \in Events : txn[x] # "none"})]
    /\ UNCHANGED <<published, deliveries, natsUp, workerVars, faults>>

EndRequest(e, end) ==
    /\ txn[e] = "open"
    /\ txn' = [txn EXCEPT ![e] = end]
    /\ UNCHANGED <<born, published, deliveries, natsUp, workerVars, faults>>

-----------------------------------------------------------------------------
(* The worker.                                                              *)

\* (Re-)connect phase; a failed attempt sleeps and tries again.
Connect(w) ==
    /\ pc[w] = "disconnected"
    /\ natsUp
    /\ pc' = [pc EXCEPT ![w] = "polling"]
    /\ UNCHANGED <<requestVars, published, deliveries, natsUp, batch, sent, faults>>

Unpublished == {e \in Events : txn[e] = "committed" /\ e \notin published}
Locked == UNION {batch[w] : w \in Workers}

\* ORDER BY created_at LIMIT _BATCH_SIZE.
OldestFirst(B, S) ==
    /\ B \subseteq S
    /\ Cardinality(B) <= BatchSize
    /\ B # S => Cardinality(B) = BatchSize
    /\ \A x \in B, y \in S \ B : born[x] < born[y]

\* Mutant: FOR UPDATE is dropped, so two replicas read the same rows.
Poll_NoLock(w) ==
    /\ pc[w] = "polling"
    /\ \E B \in SUBSET Unpublished \ {{}} : OldestFirst(B, Unpublished) /\ batch' = [batch EXCEPT ![w] = B]
    /\ pc' = [pc EXCEPT ![w] = "publishing"]
    /\ UNCHANGED <<requestVars, published, deliveries, natsUp, sent, faults>>
\* Poll phase: FOR UPDATE SKIP LOCKED; with nothing to do the worker sleeps.
Poll(w) ==
    /\ pc[w] = "polling"
    /\ \E B \in SUBSET (Unpublished \ Locked) \ {{}} :
            OldestFirst(B, Unpublished \ Locked) /\ batch' = [batch EXCEPT ![w] = B]
    /\ pc' = [pc EXCEPT ![w] = "publishing"]
    /\ UNCHANGED <<requestVars, published, deliveries, natsUp, sent, faults>>

\* The next row _publish_batch sends: the oldest not yet sent.
NextToSend(w, e) ==
    /\ pc[w] = "publishing"
    /\ e \in batch[w] \ sent[w]
    /\ \A x \in batch[w] \ sent[w] : born[e] <= born[x]

Stored(e) == [deliveries EXCEPT ![e] = IF @ = 0 THEN 1 ELSE 2]

\* js.publish returned an ack; published_at is set in memory only.
SendOne(w, e) ==
    /\ NextToSend(w, e)
    /\ natsUp
    /\ deliveries' = Stored(e)
    /\ sent' = [sent EXCEPT ![w] = @ \cup {e}]
    /\ UNCHANGED <<requestVars, published, natsUp, pc, batch, faults>>

\* js.publish raised; the server may have stored the message all the same.
SendFails(w, e) ==
    /\ NextToSend(w, e)
    /\ \/ ~natsUp /\ UNCHANGED <<deliveries, faults>>
       \/ natsUp /\ faults < MaxFaults /\ faults' = faults + 1
                 /\ deliveries' \in {deliveries, Stored(e)}
    /\ pc' = [pc EXCEPT ![w] = "failed"]
    /\ UNCHANGED <<requestVars, published, natsUp, batch, sent>>

\* The session is closed, its locks and stamps are gone; js is None.
Release(w, where) ==
    /\ pc' = [pc EXCEPT ![w] = where]
    /\ batch' = [batch EXCEPT ![w] = {}]
    /\ sent' = [sent EXCEPT ![w] = {}]

\* Mutant: what was sent before the failure is stamped, and so is the rest.
Reconnect_StampsBatch(w) ==
    /\ pc[w] = "failed"
    /\ published' = published \cup batch[w]
    /\ Release(w, "disconnected")
    /\ UNCHANGED <<requestVars, deliveries, natsUp, faults>>
\* After the backoff, `continue` leaves the session without committing.
Reconnect(w) ==
    /\ pc[w] = "failed"
    /\ Release(w, "disconnected")
    /\ UNCHANGED <<requestVars, published, deliveries, natsUp, faults>>

\* Mutant: the loop ends without committing.
CommitBatch_Forgotten(w) ==
    /\ pc[w] = "publishing" /\ sent[w] = batch[w]
    /\ Release(w, "polling")
    /\ UNCHANGED <<requestVars, published, deliveries, natsUp, faults>>
CommitBatch(w) ==
    /\ pc[w] = "publishing" /\ sent[w] = batch[w]
    /\ published' = published \cup batch[w]
    /\ Release(w, "polling")
    /\ UNCHANGED <<requestVars, deliveries, natsUp, faults>>

\* The outer except: a database error rolls back, the connection is kept.
CommitFails(w) ==
    /\ pc[w] = "publishing" /\ sent[w] = batch[w]
    /\ faults < MaxFaults
    /\ faults' = faults + 1
    /\ Release(w, "polling")
    /\ UNCHANGED <<requestVars, published, deliveries, natsUp>>

\* An exception the loop does not catch, a cancellation, or the process dying.
Crash(w) ==
    /\ pc[w] # "crashed"
    /\ faults < MaxFaults
    /\ faults' = faults + 1
    /\ Release(w, "crashed")
    /\ UNCHANGED <<requestVars, published, deliveries, natsUp>>

\* Mutant: a bare create_task: nobody restarts the worker.
Restart_Never(w) == FALSE /\ UNCHANGED vars
\* supervise_event_publisher, or the next start of the process.
Restart(w) ==
    /\ pc[w] = "crashed"
    /\ Release(w, "disconnected")
    /\ UNCHANGED <<requestVars, published, deliveries, natsUp, faults>>

NatsFails ==
    /\ natsUp
    /\ faults < MaxFaults
    /\ faults' = faults + 1
    /\ natsUp' = FALSE
    /\ UNCHANGED <<requestVars, published, deliveries, workerVars>>

NatsRecovers ==
    /\ ~natsUp
    /\ natsUp' = TRUE
    /\ UNCHANGED <<requestVars, published, deliveries, workerVars, faults>>

WorkerStep(w) ==
    \/ Connect(w) \/ Poll(w) \/ Reconnect(w) \/ CommitBatch(w) \/ Restart(w)
    \/ \E e \in Events : SendOne(w, e) \/ SendFails(w, e)

Next ==
    \/ \E e \in Events : PublishEvent(e)
    \/ \E e \in Events, end \in {"committed", "rolled_back"} : EndRequest(e, end)
    \/ \E w \in Workers : WorkerStep(w)
    \/ \E w \in Workers : CommitFails(w) \/ Crash(w)
    \/ NatsFails
    \/ NatsRecovers

Spec == Init /\ [][Next]_vars

\* Each worker's loop keeps running and an outage ends; a request may hang.
FairSpec ==
    /\ Spec
    /\ \A w \in Workers : WF_vars(WorkerStep(w))
    /\ WF_vars(NatsRecovers)

-----------------------------------------------------------------------------
(* Properties.                                                              *)

\* Every variable holds a value of its type.
TypeOK ==
    /\ txn \in [Events -> {"none", "open", "committed", "rolled_back"}]
    /\ born \in [Events -> Nat]
    /\ published \subseteq Events
    /\ deliveries \in [Events -> 0 .. 2]
    /\ natsUp \in BOOLEAN
    /\ pc \in [Workers -> PCs]
    /\ batch \in [Workers -> SUBSET Events]
    /\ sent \in [Workers -> SUBSET Events]
    /\ faults \in 0 .. MaxFaults

\* published_at is never set on an event the stream has not stored: a crash,
\* a lost ack or a failed commit costs a duplicate, never an event.
PublishedWasDelivered == \A e \in published : deliveries[e] > 0

\* A rolled-back or unfinished request is never announced.
OnlyCommittedDelivered == \A e \in Events : deliveries[e] > 0 => txn[e] = "committed"

\* SKIP LOCKED keeps replicas apart: without a fault no event is sent twice.
DuplicatesNeedAFault == faults = 0 => \A e \in Events : deliveries[e] < 2

\* Two replicas never hold one row.
NoSharedRow == \A v, w \in Workers : v # w => batch[v] \cap batch[w] = {}

\* The outbox implements at-least-once delivery of committed events: every
\* committed event is eventually stored, whatever crashes on the way.
Promise == INSTANCE AtLeastOnce WITH seen <- {e \in Events : deliveries[e] > 0}
ImplementsAtLeastOnce == Promise!ASpec

\* The backlog drains: a committed event is eventually stamped as published,
\* so it stops being sent.
BacklogDrains == \A e \in Events : txn[e] = "committed" ~> e \in published
=============================================================================
