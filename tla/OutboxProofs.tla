---------------------------- MODULE OutboxProofs ----------------------------
(***************************************************************************)
(* The outbox loses nothing and announces nothing too early, for any number *)
(* of events, replicas, batch sizes and faults; and its safety part         *)
(* implements AtLeastOnce.                                                  *)
(***************************************************************************)
EXTENDS Outbox, FiniteSetTheorems, TLAPS

\* The initial state is well typed.
LEMMA Initially == Init => TypeOK
  BY OutboxAssumption DEF Init, TypeOK, PCs

\* created_at ranks are naturals because finitely many requests have begun.
LEMMA BornRank ==
    ASSUME NEW S \in SUBSET Events
    PROVE  1 + Cardinality(S) \in Nat
  <1>1. IsFiniteSet(S)
    BY OutboxAssumption, FS_Subset
  <1> QED
    BY <1>1, FS_CardinalityType

LEMMA TypePreserved == TypeOK /\ [Next]_vars => TypeOK'
  <1> SUFFICES ASSUME TypeOK, [Next]_vars PROVE TypeOK'
    OBVIOUS
  <1> USE OutboxAssumption DEF TypeOK, PCs, requestVars, workerVars
  <1>1. ASSUME NEW e \in Events, PublishEvent(e) PROVE TypeOK'
    <2> DEFINE S == {x \in Events : txn[x] # "none"}
    <2>1. 1 + Cardinality(S) \in Nat
      BY BornRank
    <2> HIDE DEF S
    <2>2. born' = [born EXCEPT ![e] = 1 + Cardinality(S)]
      BY <1>1 DEF PublishEvent, S
    <2> QED
      BY <1>1, <2>1, <2>2 DEF PublishEvent
  <1>2. ASSUME NEW e \in Events, NEW end \in {"committed", "rolled_back"}, EndRequest(e, end)
        PROVE  TypeOK'
    BY <1>2 DEF EndRequest
  <1>3. ASSUME NEW w \in Workers, WorkerStep(w) PROVE TypeOK'
    <2>1. CASE Connect(w)
      BY <2>1 DEF Connect
    <2>2. CASE Poll(w)
      BY <2>2 DEF Poll, Unpublished
    <2>3. CASE Reconnect(w)
      BY <2>3 DEF Reconnect, Release
    <2>4. CASE CommitBatch(w)
      BY <2>4 DEF CommitBatch, Release
    <2>5. CASE Restart(w)
      BY <2>5 DEF Restart, Release
    <2>6. ASSUME NEW e \in Events, SendOne(w, e) PROVE TypeOK'
      BY <2>6 DEF SendOne, NextToSend, Stored
    <2>7. ASSUME NEW e \in Events, SendFails(w, e) PROVE TypeOK'
      BY <2>7 DEF SendFails, NextToSend, Stored
    <2> QED
      BY <1>3, <2>1, <2>2, <2>3, <2>4, <2>5, <2>6, <2>7 DEF WorkerStep
  <1>4. ASSUME NEW w \in Workers, CommitFails(w) PROVE TypeOK'
    BY <1>4 DEF CommitFails, Release
  <1>5. ASSUME NEW w \in Workers, Crash(w) PROVE TypeOK'
    BY <1>5 DEF Crash, Release
  <1>6. CASE NatsFails
    <2>1. faults' \in 0 .. MaxFaults
      BY <1>6 DEF NatsFails
    <2>2. natsUp' \in BOOLEAN
      BY <1>6 DEF NatsFails
    <2> QED
      BY <1>6, <2>1, <2>2 DEF NatsFails
  <1>7. CASE NatsRecovers
    BY <1>7 DEF NatsRecovers
  <1>8. CASE UNCHANGED vars
    BY <1>8 DEF vars
  <1> QED
    BY <1>1, <1>2, <1>3, <1>4, <1>5, <1>6, <1>7, <1>8 DEF Next

\* Every variable of the outbox keeps its type.
THEOREM OutboxTypes == Spec => []TypeOK
  BY Initially, TypePreserved, PTL DEF Spec

-----------------------------------------------------------------------------
(* What a worker holds in memory is what makes the stamp safe.              *)

\* A worker counts as sent only rows the stream has stored.
SentWereDelivered == \A w \in Workers : \A e \in sent[w] : deliveries[e] > 0

\* A batch holds rows of committed requests, and sent rows are of the batch.
BatchesCommitted == \A w \in Workers : \A e \in batch[w] : txn[e] = "committed"
SentFromBatch == \A w \in Workers : sent[w] \subseteq batch[w]

\* Outside the publishing session a worker holds no rows.
IdleHoldsNothing ==
    \A w \in Workers : pc[w] \notin {"publishing", "failed"} => batch[w] = {}

OutboxInv ==
    /\ TypeOK
    /\ PublishedWasDelivered
    /\ OnlyCommittedDelivered
    /\ NoSharedRow
    /\ SentWereDelivered
    /\ BatchesCommitted
    /\ SentFromBatch
    /\ IdleHoldsNothing

LEMMA InvInitially == Init => OutboxInv
  BY Initially DEF Init, OutboxInv, PublishedWasDelivered, OnlyCommittedDelivered,
     NoSharedRow, SentWereDelivered, BatchesCommitted, SentFromBatch, IdleHoldsNothing

\* Storing a message adds to what was stored.
LEMMA StoredGrows ==
    ASSUME TypeOK, NEW e \in Events
    PROVE  /\ Stored(e) \in [Events -> 0 .. 2]
           /\ \A x \in Events : Stored(e)[x] > 0 <=> deliveries[x] > 0 \/ x = e
  BY DEF TypeOK, Stored

LEMMA InvPreserved == OutboxInv /\ [Next]_vars => OutboxInv'
  <1> SUFFICES ASSUME OutboxInv, [Next]_vars PROVE OutboxInv'
    OBVIOUS
  <1>0. TypeOK /\ TypeOK'
    BY TypePreserved DEF OutboxInv
  <1> USE DEF PublishedWasDelivered, OnlyCommittedDelivered, NoSharedRow,
          SentWereDelivered, BatchesCommitted, SentFromBatch, IdleHoldsNothing,
          requestVars, workerVars
  <1>1. ASSUME NEW e \in Events, PublishEvent(e) PROVE OutboxInv'
    BY <1>0, <1>1 DEF OutboxInv, PublishEvent, TypeOK
  <1>2. ASSUME NEW e \in Events, NEW end \in {"committed", "rolled_back"}, EndRequest(e, end)
        PROVE  OutboxInv'
    BY <1>0, <1>2 DEF OutboxInv, EndRequest, TypeOK
  <1>3. ASSUME NEW w \in Workers, NEW where \in PCs, Release(w, where),
               published' = published \/ (sent[w] = batch[w] /\ published' = published \cup batch[w]),
               UNCHANGED <<txn, deliveries>>
        PROVE  OutboxInv'
    <2>1. /\ batch' = [batch EXCEPT ![w] = {}]
          /\ sent' = [sent EXCEPT ![w] = {}]
          /\ pc' = [pc EXCEPT ![w] = where]
      BY <1>3 DEF Release
    <2>2. PublishedWasDelivered'
      BY <1>0, <1>3 DEF OutboxInv, TypeOK
    <2>3. OnlyCommittedDelivered'
      BY <1>3 DEF OutboxInv
    <2>4. NoSharedRow'
      BY <1>0, <2>1 DEF OutboxInv, TypeOK
    <2>5. SentWereDelivered' /\ BatchesCommitted' /\ SentFromBatch'
      BY <1>0, <1>3, <2>1 DEF OutboxInv, TypeOK
    <2>6. IdleHoldsNothing'
      BY <1>0, <2>1 DEF OutboxInv, TypeOK
    <2> QED
      BY <1>0, <2>2, <2>3, <2>4, <2>5, <2>6 DEF OutboxInv
  <1>4. ASSUME NEW w \in Workers, NEW e \in Events, NextToSend(w, e),
               deliveries' \in {deliveries, Stored(e)},
               \/ sent' = sent
               \/ deliveries' = Stored(e) /\ sent' = [sent EXCEPT ![w] = @ \cup {e}],
               pc' = pc \/ pc' = [pc EXCEPT ![w] = "failed"],
               UNCHANGED <<txn, published, batch>>
        PROVE  OutboxInv'
    <2>1. e \in batch[w] /\ txn[e] = "committed"
      BY <1>0, <1>4 DEF NextToSend, OutboxInv, TypeOK
    <2>2. \A x \in Events : deliveries'[x] > 0 => deliveries[x] > 0 \/ x = e
      BY <1>0, <1>4, StoredGrows
    <2>3. \A x \in Events : deliveries[x] > 0 => deliveries'[x] > 0
      BY <1>0, <1>4, StoredGrows
    <2>4. PublishedWasDelivered' /\ OnlyCommittedDelivered'
      BY <1>0, <1>4, <2>1, <2>2, <2>3 DEF OutboxInv, TypeOK
    <2>5. NoSharedRow' /\ BatchesCommitted'
      BY <1>4 DEF OutboxInv
    <2>6. SentWereDelivered'
      BY <1>0, <1>4, <2>3, StoredGrows DEF OutboxInv, TypeOK
    <2>7. SentFromBatch'
      BY <1>0, <1>4, <2>1 DEF OutboxInv, TypeOK
    <2>8. IdleHoldsNothing'
      BY <1>0, <1>4 DEF OutboxInv, TypeOK, NextToSend
    <2> QED
      BY <1>0, <2>4, <2>5, <2>6, <2>7, <2>8 DEF OutboxInv
  <1>5. ASSUME NEW w \in Workers, WorkerStep(w) PROVE OutboxInv'
    <2>1. CASE Connect(w)
      BY <1>0, <2>1 DEF Connect, OutboxInv, TypeOK
    <2>2. CASE Poll(w)
      <3>1. PICK B \in SUBSET (Unpublished \ Locked) : batch' = [batch EXCEPT ![w] = B]
        BY <2>2 DEF Poll
      <3>2. \A v \in Workers : v # w => B \cap batch[v] = {}
        BY <3>1 DEF Locked
      <3>3. NoSharedRow'
        BY <1>0, <3>1, <3>2 DEF OutboxInv, TypeOK
      <3>4. BatchesCommitted'
        BY <1>0, <2>2, <3>1 DEF OutboxInv, TypeOK, Unpublished, Poll
      <3>5. sent[w] = {}
        <4>1. batch[w] = {}
          BY <2>2 DEF Poll, OutboxInv
        <4> QED
          BY <4>1 DEF OutboxInv
      <3> QED
        BY <1>0, <2>2, <3>1, <3>3, <3>4, <3>5 DEF OutboxInv, Poll, TypeOK
    <2>3. CASE Reconnect(w)
      BY <1>3, <2>3 DEF Reconnect, PCs
    <2>4. CASE CommitBatch(w)
      BY <1>3, <2>4 DEF CommitBatch, PCs
    <2>5. CASE Restart(w)
      BY <1>3, <2>5 DEF Restart, PCs
    <2>6. ASSUME NEW e \in Events, SendOne(w, e) PROVE OutboxInv'
      BY <1>4, <2>6 DEF SendOne
    <2>7. ASSUME NEW e \in Events, SendFails(w, e) PROVE OutboxInv'
      BY <1>4, <2>7 DEF SendFails
    <2> QED
      BY <1>5, <2>1, <2>2, <2>3, <2>4, <2>5, <2>6, <2>7 DEF WorkerStep
  <1>6. ASSUME NEW w \in Workers, CommitFails(w) \/ Crash(w) PROVE OutboxInv'
    BY <1>3, <1>6 DEF CommitFails, Crash, PCs
  <1>7. CASE NatsFails \/ NatsRecovers \/ UNCHANGED vars
    BY <1>0, <1>7 DEF OutboxInv, NatsFails, NatsRecovers, vars
  <1> QED
    BY <1>1, <1>2, <1>5, <1>6, <1>7 DEF Next

\* No event is stamped as published without having reached the stream,
\* whatever fails between the send and the commit (run_event_publisher).
THEOREM PublishedWasDeliveredHolds == Spec => []PublishedWasDelivered
  <1>1. OutboxInv => PublishedWasDelivered
    BY DEF OutboxInv
  <1> QED
    BY <1>1, InvInitially, InvPreserved, PTL DEF Spec

\* Only the events of committed requests ever reach the stream (publish_event
\* writes to the caller's transaction).
THEOREM OnlyCommittedDeliveredHolds == Spec => []OnlyCommittedDelivered
  <1>1. OutboxInv => OnlyCommittedDelivered
    BY DEF OutboxInv
  <1> QED
    BY <1>1, InvInitially, InvPreserved, PTL DEF Spec

\* FOR UPDATE SKIP LOCKED: no row is in the hands of two replicas.
THEOREM NoSharedRowHolds == Spec => []NoSharedRow
  <1>1. OutboxInv => NoSharedRow
    BY DEF OutboxInv
  <1> QED
    BY <1>1, InvInitially, InvPreserved, PTL DEF Spec

-----------------------------------------------------------------------------
(* Without a fault nothing is sent twice.                                   *)

\* A row in a worker's hands is not stamped by another.
BatchesUnpublished == \A w \in Workers : batch[w] \cap published = {}

\* Until the first fault no worker fails or is cut off, and what was delivered
\* is stamped or is in the memory of the worker that will stamp it.
FaultFree ==
    /\ \A w \in Workers : pc[w] \notin {"failed", "crashed"}
    /\ \A w \in Workers : pc[w] # "disconnected" => natsUp
    /\ \A e \in Events : deliveries[e] > 0 =>
            e \in published \/ \E w \in Workers : e \in sent[w]

QuietInv == BatchesUnpublished /\ (faults = 0 => FaultFree)

LEMMA QuietInitially == Init => QuietInv
  BY DEF Init, QuietInv, BatchesUnpublished, FaultFree

LEMMA UnpublishedPreserved == OutboxInv /\ BatchesUnpublished /\ [Next]_vars => BatchesUnpublished'
  <1> SUFFICES ASSUME OutboxInv, BatchesUnpublished, [Next]_vars PROVE BatchesUnpublished'
    OBVIOUS
  <1>0. TypeOK /\ NoSharedRow
    BY DEF OutboxInv
  <1> USE DEF BatchesUnpublished
  <1>1. ASSUME NEW w \in Workers, NEW where, Release(w, where),
               published' = published \/ published' = published \cup batch[w]
        PROVE  BatchesUnpublished'
    BY <1>0, <1>1 DEF Release, TypeOK, NoSharedRow
  <1>2. ASSUME NEW w \in Workers, Poll(w) PROVE BatchesUnpublished'
    BY <1>0, <1>2 DEF Poll, Unpublished, TypeOK
  <1>3. CASE UNCHANGED <<batch, published>>
    BY <1>3
  <1> QED
    BY <1>1, <1>2, <1>3 DEF Next, PublishEvent, EndRequest, WorkerStep, Connect, Reconnect,
       CommitBatch, Restart, SendOne, SendFails, CommitFails, Crash, NatsFails, NatsRecovers,
       workerVars, vars

\* Faults are only ever counted up.
LEMMA FaultsGrow == [Next]_vars => faults' = faults \/ faults' = faults + 1
  BY DEF Next, PublishEvent, EndRequest, WorkerStep, Connect, Poll, Reconnect, CommitBatch,
     Restart, SendOne, SendFails, CommitFails, Crash, NatsFails, NatsRecovers, vars

\* While nothing fails, a worker only sends rows that were never delivered.
LEMMA QuietSendIsFirst ==
    ASSUME OutboxInv, BatchesUnpublished, FaultFree,
           NEW w \in Workers, NEW e \in Events, NextToSend(w, e)
    PROVE  deliveries[e] = 0
  <1>1. e \in batch[w] /\ e \notin sent[w] /\ e \notin published
    BY DEF NextToSend, BatchesUnpublished
  <1>2. \A v \in Workers : e \notin sent[v]
    BY <1>1 DEF OutboxInv, NoSharedRow, SentFromBatch
  <1> QED
    BY <1>1, <1>2 DEF FaultFree, OutboxInv, TypeOK

LEMMA QuietPreserved ==
    OutboxInv /\ QuietInv /\ [Next]_vars => QuietInv'
  <1> SUFFICES ASSUME OutboxInv, QuietInv, [Next]_vars, faults' = 0 PROVE FaultFree'
    BY UnpublishedPreserved DEF QuietInv
  <1>0. TypeOK /\ faults \in Nat
    BY OutboxAssumption DEF OutboxInv, TypeOK
  <1>a. faults = 0 /\ FaultFree /\ BatchesUnpublished
    BY <1>0, FaultsGrow DEF QuietInv
  <1>b. faults' # faults + 1
    BY <1>a
  <1> USE DEF requestVars, workerVars
  <1>1. ASSUME NEW w \in Workers, WorkerStep(w) PROVE FaultFree'
    <2>1. CASE Connect(w)
      BY <1>0, <1>a, <2>1 DEF Connect, FaultFree, TypeOK
    <2>2. CASE Poll(w)
      BY <1>0, <1>a, <2>2 DEF Poll, FaultFree, TypeOK
    <2>3. CASE Reconnect(w) \/ Restart(w)
      BY <1>a, <2>3 DEF Reconnect, Restart, FaultFree
    <2>4. CASE CommitBatch(w)
      <3>1. /\ pc' = [pc EXCEPT ![w] = "polling"]
            /\ sent' = [sent EXCEPT ![w] = {}]
            /\ published' = published \cup sent[w]
            /\ pc[w] = "publishing" /\ UNCHANGED <<natsUp, deliveries>>
        BY <2>4 DEF CommitBatch, Release
      <3> QED
        BY <1>0, <1>a, <3>1 DEF FaultFree, TypeOK
    <2>5. ASSUME NEW e \in Events, SendOne(w, e) PROVE FaultFree'
      <3>1. \A x \in Events : deliveries'[x] > 0 => deliveries[x] > 0 \/ x = e
        BY <1>0, <2>5, StoredGrows DEF SendOne
      <3> QED
        BY <1>0, <1>a, <2>5, <3>1 DEF SendOne, FaultFree, TypeOK
    <2>6. ASSUME NEW e \in Events, SendFails(w, e) PROVE FaultFree'
      BY <1>a, <1>b, <2>6 DEF SendFails, NextToSend, FaultFree
    <2> QED
      BY <1>1, <2>1, <2>2, <2>3, <2>4, <2>5, <2>6 DEF WorkerStep
  <1>2. CASE NatsRecovers
    BY <1>a, <1>2 DEF NatsRecovers, FaultFree
  <1>3. ASSUME \/ NatsFails
               \/ \E w \in Workers : CommitFails(w) \/ Crash(w)
        PROVE  FaultFree'
    BY <1>b, <1>3 DEF NatsFails, CommitFails, Crash
  <1>4. CASE \/ \E e \in Events : PublishEvent(e)
             \/ \E e \in Events, end \in {"committed", "rolled_back"} : EndRequest(e, end)
             \/ UNCHANGED vars
    <2>1. UNCHANGED <<published, deliveries, natsUp, pc, sent>>
      BY <1>4 DEF PublishEvent, EndRequest, vars
    <2> QED
      BY <1>a, <2>1 DEF FaultFree
  <1> QED
    BY <1>1, <1>2, <1>3, <1>4 DEF Next

\* SKIP LOCKED and the stamp in one transaction keep replicas apart: as long as
\* nothing fails, no event reaches the stream twice (run_event_publisher).
THEOREM DuplicatesNeedAFaultHolds == Spec => []DuplicatesNeedAFault
  <1>1. Init => DuplicatesNeedAFault
    BY DEF Init, DuplicatesNeedAFault
  <1>2. OutboxInv /\ QuietInv /\ DuplicatesNeedAFault /\ [Next]_vars => DuplicatesNeedAFault'
    <2> SUFFICES ASSUME OutboxInv, QuietInv, DuplicatesNeedAFault, [Next]_vars, faults' = 0
                 PROVE  \A e \in Events : deliveries'[e] < 2
      BY DEF DuplicatesNeedAFault
    <2>0. TypeOK /\ faults \in Nat
      BY OutboxAssumption DEF OutboxInv, TypeOK
    <2>1. faults = 0
      BY <2>0, FaultsGrow
    <2>2. BatchesUnpublished /\ FaultFree /\ \A e \in Events : deliveries[e] < 2
      BY <2>1 DEF QuietInv, DuplicatesNeedAFault
    <2>3. ASSUME NEW w \in Workers, NEW e \in Events, SendOne(w, e) \/ SendFails(w, e)
          PROVE  \A x \in Events : deliveries'[x] < 2
      <3>1. NextToSend(w, e) /\ deliveries' \in {deliveries, Stored(e)}
        BY <2>3 DEF SendOne, SendFails
      <3>2. deliveries[e] = 0
        BY <2>2, <3>1, QuietSendIsFirst
      <3> QED
        BY <2>0, <2>2, <3>1, <3>2 DEF Stored, TypeOK
    <2>4. CASE UNCHANGED deliveries
      BY <2>2, <2>4
    <2> QED
      BY <2>3, <2>4 DEF Next, PublishEvent, EndRequest, WorkerStep, Connect, Poll, Reconnect,
         CommitBatch, Restart, CommitFails, Crash, NatsFails, NatsRecovers, vars
  <1> QED
    BY <1>1, <1>2, InvInitially, InvPreserved, QuietInitially, QuietPreserved, PTL DEF Spec

-----------------------------------------------------------------------------
(* The safety part of the refinement.                                       *)

Seen == {e \in Events : deliveries[e] > 0}

LEMMA PromiseInitially == Init => Promise!AInit
  BY DEF Init, Promise!AInit

LEMMA PromiseStep == OutboxInv /\ [Next]_vars => [Promise!ANext]_<<txn, Seen>>
  <1> SUFFICES ASSUME OutboxInv, [Next]_vars PROVE [Promise!ANext]_<<txn, Seen>>
    OBVIOUS
  <1>0. TypeOK /\ TypeOK' /\ OutboxInv'
    BY TypePreserved, InvPreserved DEF OutboxInv
  <1> USE DEF requestVars, workerVars
  <1>1. ASSUME NEW e \in Events, PublishEvent(e) PROVE Promise!ANext
    BY <1>1 DEF PublishEvent, Promise!ANext, Promise!Record
  <1>2. ASSUME NEW e \in Events, NEW end \in {"committed", "rolled_back"}, EndRequest(e, end)
        PROVE  Promise!ANext
    BY <1>2 DEF EndRequest, Promise!ANext, Promise!Settle
  <1>3. ASSUME NEW w \in Workers, NEW e \in Events, NextToSend(w, e),
               deliveries' \in {deliveries, Stored(e)}, UNCHANGED txn
        PROVE  [Promise!ANext]_<<txn, Seen>>
    <2>1. txn[e] = "committed"
      BY <1>0, <1>3 DEF NextToSend, OutboxInv, BatchesCommitted, TypeOK
    <2>2. CASE Seen' = Seen
      BY <1>3, <2>2
    <2>3. CASE Seen' # Seen
      <3>1. deliveries' = Stored(e)
        BY <1>3, <2>3 DEF Seen
      <3>2. Seen' = Seen \cup {e}
        BY <1>0, <3>1, StoredGrows DEF Seen
      <3>3. Promise!Deliver(e)
        BY <1>3, <2>1, <2>3, <3>2 DEF Promise!Deliver, Seen
      <3> QED
        BY <3>3 DEF Promise!ANext
    <2> QED
      BY <2>2, <2>3
  <1>4. ASSUME UNCHANGED <<txn, deliveries>> PROVE UNCHANGED <<txn, Seen>>
    BY <1>4 DEF Seen
  <1>5. ASSUME NEW w \in Workers, WorkerStep(w) PROVE [Promise!ANext]_<<txn, Seen>>
    <2>1. CASE Connect(w) \/ Poll(w) \/ Reconnect(w) \/ CommitBatch(w) \/ Restart(w)
      BY <1>4, <2>1 DEF Connect, Poll, Reconnect, CommitBatch, Restart
    <2>2. ASSUME NEW e \in Events, SendOne(w, e) \/ SendFails(w, e)
          PROVE  [Promise!ANext]_<<txn, Seen>>
      BY <1>3, <2>2 DEF SendOne, SendFails
    <2> QED
      BY <1>5, <2>1, <2>2 DEF WorkerStep
  <1>6. ASSUME \/ \E w \in Workers : CommitFails(w) \/ Crash(w)
               \/ NatsFails \/ NatsRecovers \/ UNCHANGED vars
        PROVE  UNCHANGED <<txn, Seen>>
    BY <1>4, <1>6 DEF CommitFails, Crash, NatsFails, NatsRecovers, vars
  <1> QED
    BY <1>1, <1>2, <1>5, <1>6 DEF Next

\* The outbox implements the safety part of AtLeastOnce: an event becomes
\* visible in the stream once, after its transaction committed.
THEOREM ImplementsAtLeastOnceSafety == Spec => Promise!ASafety
  <1>1. [Promise!ANext]_<<txn, Seen>> => [Promise!ANext]_(Promise!avars)
    BY DEF Seen, Promise!avars
  <1> QED
    BY <1>1, InvInitially, InvPreserved, PromiseInitially, PromiseStep, PTL
       DEF Spec, Promise!ASafety
=============================================================================
