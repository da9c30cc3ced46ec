------------------------- MODULE DecommissionProofs -------------------------
(***************************************************************************)
(* Proofs about Decommission.                                               *)
(*                                                                          *)
(* None of the properties is inductive alone.  A grant writes the date that *)
(* was asked for, so that it moves the line out rests on what every open    *)
(* request already guarantees (RequestsMoveOut), and that a new row carries *)
(* no request and no answer (RowsStartBlank).                               *)
(***************************************************************************)
EXTENDS Decommission, TLAPS

\* An unanswered request asks for a later date than the row's.
RequestsMoveOut ==
    \A d \in Decoms : until[d] # 0 /\ decision[d] = "none" => until[d] > teardownAt[d]

\* No answer without a request, and neither on a row that is not there.
RowsStartBlank ==
    \A d \in Decoms :
        /\ decision[d] # "none" => until[d] # 0
        /\ until[d] # 0 => decEnv[d] # None

IInv == TypeOK /\ OneLiveDecommission /\ LateBookingsPredateTheWarning
            /\ GrantIsTheDate /\ RequestsMoveOut /\ RowsStartBlank

-----------------------------------------------------------------------------
\* The initial state satisfies the inductive invariant.
LEMMA InitInv == Init => IInv
  <1> USE DecommissionAssumption DEF Init, Times, Rows
  <1> SUFFICES ASSUME Init PROVE IInv
    OBVIOUS
  <1>1. TypeOK BY DEF TypeOK
  <1>2. OneLiveDecommission BY DEF OneLiveDecommission
  <1>3. LateBookingsPredateTheWarning BY DEF LateBookingsPredateTheWarning
  <1>4. GrantIsTheDate BY DEF GrantIsTheDate
  <1>5. RequestsMoveOut BY DEF RequestsMoveOut
  <1>6. RowsStartBlank BY DEF RowsStartBlank
  <1> QED BY <1>1, <1>2, <1>3, <1>4, <1>5, <1>6 DEF IInv

\* The workflow's steps keep the types.
LEMMA DecommissionTypesStep ==
    ASSUME TypeOK, DecommissionNext PROVE TypeOK'
  <1> USE DEF TypeOK, policyVars, envVars, decVars, bookingVars, Rows
  <1>1. ASSUME NEW d \in Decoms, NEW e \in Envs, NEW at \in Times, Initiate(d, e, at) PROVE TypeOK'
    <2> USE <1>1, DecommissionAssumption DEF Initiate, WritesInitiate
    <2>1. decEnv' \in [Decoms -> Envs \cup {None}] /\ teardownAt' \in [Decoms -> Times]
      OBVIOUS
    <2>2. endThen' \in [Decoms -> [Bookings -> Times]]
      <3>1. [b \in Bookings |-> IF bkEnv[b] = e /\ b \notin bkGone THEN bkEnd[b] ELSE 0]
                \in [Bookings -> Times]
        BY DEF Times
      <3> QED BY <3>1
    <2>3. tornDown' \subseteq Rows' /\ cancelled' \subseteq Rows'
      OBVIOUS
    <2> QED BY <2>1, <2>2, <2>3
  <1>2. ASSUME NEW d \in Rows, NEW u \in Times, RequestExtension(d, u) PROVE TypeOK'
    BY <1>2 DEF RequestExtension, WritesExtensionRequest
  <1>3. ASSUME NEW d \in Rows, NEW a \in {"granted", "refused"}, DecideExtension(d, a) PROVE TypeOK'
    <2> USE <1>3 DEF DecideExtension, WritesDecision
    <2>1. teardownAt' \in [Decoms -> Times] /\ decision' \in [Decoms -> {"none", "granted", "refused"}]
      OBVIOUS
    <2> QED BY <2>1
  <1>4. ASSUME NEW d \in Rows, NEW s \in Steps, SignAttestation(d, s) PROVE TypeOK'
    BY <1>4 DEF SignAttestation, WritesSignature
  <1>5. ASSUME NEW d \in Rows, TearDown(d) PROVE TypeOK'
    BY <1>5 DEF TearDown, WritesTearDown
  <1>6. ASSUME NEW d \in Rows, Cancel(d) PROVE TypeOK'
    BY <1>6 DEF Cancel, WritesCancel
  <1> QED BY <1>1, <1>2, <1>3, <1>4, <1>5, <1>6 DEF DecommissionNext

\* The rows a create writes keep the types.
LEMMA WritesBookingsTypes ==
    ASSUME TypeOK, NEW r \in Requests, NEW where, NEW ends, WritesBookings(r, where, ends),
           \A b \in DOMAIN where : where[b] \in Envs /\ ends[b] \in Times
    PROVE  TypeOK'
  <1> USE DEF TypeOK, WritesBookings, policyVars, envVars, decVars, Rows
  <1>1. bkEnv' \in [Bookings -> Envs \cup {None}] OBVIOUS
  <1>2. bkReq' \in [Bookings -> Requests \cup {None}] OBVIOUS
  <1>3. bkEnd' \in [Bookings -> Times] OBVIOUS
  <1> QED BY <1>1, <1>2, <1>3

\* The booking paths keep the types.
LEMMA BookingTypesStep ==
    ASSUME TypeOK, BookingNext PROVE TypeOK'
  <1>1. ASSUME NEW r \in Requests, NEW B \in SUBSET Bookings, NEW end \in Times,
               NEW where \in [B -> Envs], CreateRequest(r, where, end)
        PROVE  TypeOK'
    BY <1>1, WritesBookingsTypes DEF CreateRequest
  <1>2. ASSUME NEW r \in Requests, NEW B \in SUBSET Bookings, NEW e \in Envs,
               NEW ends \in [B -> Times], CreateBooking(r, e, ends)
        PROVE  TypeOK'
    BY <1>2, WritesBookingsTypes DEF CreateBooking
  <1>3. ASSUME NEW r \in Requests, NEW e \in Envs, NEW b \in Bookings, NEW end \in Times,
               AddEnvironment(r, e, b, end)
        PROVE  TypeOK'
    BY <1>3, WritesBookingsTypes DEF AddEnvironment
  <1>4. ASSUME NEW B, NEW end \in Times, WritesMove(B, end) PROVE TypeOK'
    BY <1>4 DEF WritesMove, TypeOK, policyVars, envVars, decVars, Rows
  <1>5. ASSUME NEW r \in Requests, NEW B \in SUBSET Bookings, DeleteBookings(r, B) PROVE TypeOK'
    BY <1>5 DEF DeleteBookings, TypeOK, policyVars, envVars, decVars, Rows
  <1> QED BY <1>1, <1>2, <1>3, <1>4, <1>5 DEF BookingNext, MoveBooking, MoveRequest

\* The register's and the policy's steps keep the types.
LEMMA RegisterTypesStep ==
    ASSUME TypeOK, RegisterNext \/ Tick PROVE TypeOK'
  <1> USE DecommissionAssumption DEF TypeOK, policyVars, envVars, decVars, bookingVars, Rows
  <1>1. ASSUME NEW e \in Envs, NEW status \in HandEdits, UpdateEnvironmentStatus(e, status)
        PROVE  TypeOK'
    BY <1>1 DEF UpdateEnvironmentStatus
  <1>2. ASSUME NEW e \in Envs, DeleteEnvironment(e) PROVE TypeOK'
    BY <1>2 DEF DeleteEnvironment
  <1>3. ASSUME NEW n \in Notices, UpsertPolicy(n) PROVE TypeOK'
    BY <1>3 DEF UpsertPolicy
  <1>4. ASSUME NEW s \in Steps, NEW gates \in BOOLEAN, CreateStep(s, gates) PROVE TypeOK'
    BY <1>4 DEF CreateStep
  <1>5. ASSUME NEW s \in Steps, NEW key \in Steps, NEW gates \in BOOLEAN, UpdateStep(s, key, gates)
        PROVE  TypeOK'
    BY <1>5 DEF UpdateStep
  <1>6. ASSUME NEW s \in Steps, DeleteStep(s) PROVE TypeOK'
    BY <1>6 DEF DeleteStep
  <1>7. ASSUME Tick PROVE TypeOK'
    BY <1>7 DEF Tick, Times
  <1> QED BY <1>1, <1>2, <1>3, <1>4, <1>5, <1>6, <1>7 DEF RegisterNext

\* Every step keeps the types.
LEMMA TypesStep ==
    ASSUME TypeOK, [Next]_vars PROVE TypeOK'
  <1>1. CASE UNCHANGED vars
    BY <1>1 DEF vars, TypeOK, policyVars, envVars, decVars, bookingVars, Rows
  <1> QED BY <1>1, DecommissionTypesStep, BookingTypesStep, RegisterTypesStep DEF Next

-----------------------------------------------------------------------------
\* A create puts no booking past a live teardown date: each new row ends no
\* later than an end its environment was checked for.
LEMMA CreatesStayInside ==
    ASSUME IInv, TypeOK', NEW r, NEW where, NEW ends, WritesBookings(r, where, ends),
           \A b \in DOMAIN where :
              where[b] \in Envs /\ \E end \in Times : ends[b] <= end /\ Bookable(where[b], end)
    PROVE  LateBookingsPredateTheWarning'
  <1> USE DEF WritesBookings, decVars, Rows, Live
  <1> SUFFICES ASSUME NEW d \in Rows, NEW b \in Bookings, Live(d),
                      bkEnv'[b] = decEnv[d], b \notin bkGone, bkEnd'[b] > teardownAt[d]
               PROVE  bkEnd'[b] <= endThen[d][b]
    BY DEF LateBookingsPredateTheWarning
  <1>1. CASE b \in DOMAIN where
    <2>1. bkEnv'[b] = where[b] /\ bkEnd'[b] = ends[b]
      BY <1>1
    <2>2. PICK end \in Times : ends[b] <= end /\ Bookable(where[b], end)
      BY <1>1
    <2>3. end <= teardownAt[d]
      BY <2>1, <2>2 DEF Bookable
    <2>4. ends[b] \in Times /\ teardownAt[d] \in Times
      BY <2>1 DEF IInv, TypeOK
    <2> QED BY <2>1, <2>2, <2>3, <2>4 DEF Times
  <1>2. CASE b \notin DOMAIN where
    BY <1>2 DEF IInv, LateBookingsPredateTheWarning
  <1> QED BY <1>1, <1>2

\* Nor does an edit of the dates.
LEMMA MovesStayInside ==
    ASSUME IInv, NEW B, NEW end \in Times, AcceptsMove(B, end), WritesMove(B, end)
    PROVE  LateBookingsPredateTheWarning'
  <1> USE DEF WritesMove, decVars, Rows, Live
  <1> SUFFICES ASSUME NEW d \in Rows, NEW b \in Bookings, Live(d),
                      bkEnv[b] = decEnv[d], b \notin bkGone, bkEnd'[b] > teardownAt[d]
               PROVE  bkEnd'[b] <= endThen[d][b]
    BY DEF LateBookingsPredateTheWarning
  <1>1. CASE b \in B
    <2>1. bkEnd'[b] = end /\ end <= teardownAt[d]
      BY <1>1 DEF AcceptsMove, Bookable
    <2>2. teardownAt[d] \in Times
      BY DEF IInv, TypeOK
    <2> QED BY <2>1, <2>2 DEF Times
  <1>2. CASE b \notin B
    BY <1>2 DEF IInv, LateBookingsPredateTheWarning
  <1> QED BY <1>1, <1>2

\* What only reads the decommission rows survives a step that leaves them.
LEMMA RowsUntouched ==
    ASSUME IInv, UNCHANGED decVars
    PROVE  OneLiveDecommission' /\ GrantIsTheDate' /\ RequestsMoveOut' /\ RowsStartBlank'
  BY DEF decVars, IInv, OneLiveDecommission, GrantIsTheDate, RequestsMoveOut, RowsStartBlank, Rows, Live

\* The booking paths keep the invariant.
LEMMA BookingStep ==
    ASSUME IInv, BookingNext PROVE IInv'
  <1>0. TypeOK'
    BY BookingTypesStep DEF IInv
  <1>1. UNCHANGED decVars
    BY DEF BookingNext, CreateRequest, CreateBooking, AddEnvironment, MoveBooking, MoveRequest,
           DeleteBookings, WritesBookings, WritesMove
  <1>2. LateBookingsPredateTheWarning'
    <2>1. ASSUME NEW r \in Requests, NEW B \in SUBSET Bookings, NEW end \in Times,
                 NEW where \in [B -> Envs], CreateRequest(r, where, end)
          PROVE  LateBookingsPredateTheWarning'
      <3>1. \A b \in B : end <= end /\ Bookable(where[b], end)
        BY <2>1 DEF CreateRequest, AcceptsRequest, Times
      <3> QED BY <2>1, <3>1, <1>0, CreatesStayInside DEF CreateRequest
    <2>2. ASSUME NEW r \in Requests, NEW B \in SUBSET Bookings, NEW e \in Envs,
                 NEW ends \in [B -> Times], CreateBooking(r, e, ends)
          PROVE  LateBookingsPredateTheWarning'
      <3>1. PICK last \in B : (\A b \in B : ends[b] <= ends[last]) /\ Bookable(e, ends[last])
        BY <2>2 DEF CreateBooking, AcceptsSeries
      <3>2. DOMAIN [b \in DOMAIN ends |-> e] = B /\ ends[last] \in Times
        OBVIOUS
      <3>3. \A b \in B : [x \in DOMAIN ends |-> e][b] = e
        OBVIOUS
      <3> QED BY <2>2, <3>1, <3>2, <3>3, <1>0, CreatesStayInside DEF CreateBooking
    <2>3. ASSUME NEW r \in Requests, NEW e \in Envs, NEW b \in Bookings, NEW end \in Times,
                 AddEnvironment(r, e, b, end)
          PROVE  LateBookingsPredateTheWarning'
      <3>1. end <= end /\ Bookable(e, end)
        BY <2>3 DEF AddEnvironment, AcceptsAddEnvironment, Times
      <3> QED BY <2>3, <3>1, <1>0, CreatesStayInside DEF AddEnvironment
    <2>4. ASSUME NEW b \in Bookings, NEW end \in Times, MoveBooking(b, end)
          PROVE  LateBookingsPredateTheWarning'
      BY <2>4, MovesStayInside DEF MoveBooking
    <2>5. ASSUME NEW r \in Requests, NEW end \in Times, MoveRequest(r, end)
          PROVE  LateBookingsPredateTheWarning'
      BY <2>5, MovesStayInside DEF MoveRequest
    <2>6. ASSUME NEW r \in Requests, NEW B \in SUBSET Bookings, DeleteBookings(r, B)
          PROVE  LateBookingsPredateTheWarning'
      BY <2>6 DEF DeleteBookings, LateBookingsPredateTheWarning, IInv, decVars, Rows, Live
    <2> QED BY <2>1, <2>2, <2>3, <2>4, <2>5, <2>6 DEF BookingNext
  <1> QED BY <1>0, <1>1, <1>2, RowsUntouched DEF IInv

\* A step of the register, the policy or the clock touches neither side.
LEMMA RegisterStep ==
    ASSUME IInv, RegisterNext \/ Tick PROVE IInv'
  <1>0. TypeOK'
    BY RegisterTypesStep DEF IInv
  <1>1. UNCHANGED decVars /\ UNCHANGED bookingVars
    BY DEF RegisterNext, UpdateEnvironmentStatus, DeleteEnvironment, UpsertPolicy, CreateStep,
           UpdateStep, DeleteStep, Tick
  <1>2. LateBookingsPredateTheWarning'
    BY <1>1 DEF LateBookingsPredateTheWarning, IInv, decVars, bookingVars, Rows, Live
  <1> QED BY <1>0, <1>1, <1>2, RowsUntouched DEF IInv

\* The workflow's steps keep the invariant.
LEMMA WorkflowStep ==
    ASSUME IInv, DecommissionNext PROVE IInv'
  <1>0. TypeOK'
    BY DecommissionTypesStep DEF IInv
  <1> USE DEF bookingVars, Rows, Live
  <1>1. ASSUME NEW d \in Decoms, NEW e \in Envs, NEW at \in Times, Initiate(d, e, at) PROVE IInv'
    <2> USE <1>1 DEF Initiate, WritesInitiate
    <2>1. /\ decEnv[d] = None /\ e # None
          /\ decEnv'[d] = e /\ teardownAt'[d] = at
          /\ \A c \in Decoms \ {d} : decEnv'[c] = decEnv[c] /\ teardownAt'[c] = teardownAt[c]
                                      /\ endThen'[c] = endThen[c]
          /\ \A b \in Bookings : bkEnv[b] = e /\ b \notin bkGone => endThen'[d][b] = bkEnd[b]
      BY DecommissionAssumption DEF IInv, TypeOK
    <2>2. until[d] = 0 /\ decision[d] = "none"
      BY <2>1 DEF IInv, RowsStartBlank
    <2>3. OneLiveDecommission'
      BY <2>1 DEF AcceptsInitiate, IInv, OneLiveDecommission
    <2>4. LateBookingsPredateTheWarning'
      <3> SUFFICES ASSUME NEW c \in Rows', NEW b \in Bookings, Live(c)', bkEnv[b] = decEnv'[c],
                          b \notin bkGone, bkEnd[b] > teardownAt'[c]
                   PROVE  bkEnd[b] <= endThen'[c][b]
        BY DEF LateBookingsPredateTheWarning
      <3>1. CASE c = d
        BY <2>1, <3>1 DEF IInv, TypeOK, Times
      <3>2. CASE c # d
        BY <2>1, <3>2 DEF IInv, LateBookingsPredateTheWarning
      <3> QED BY <3>1, <3>2
    <2>5. GrantIsTheDate'
      BY <2>1, <2>2 DEF IInv, GrantIsTheDate
    <2>6. RequestsMoveOut'
      BY <2>1, <2>2 DEF IInv, RequestsMoveOut
    <2>7. RowsStartBlank'
      BY <2>1, <2>2 DEF IInv, RowsStartBlank
    <2> QED BY <1>0, <2>3, <2>4, <2>5, <2>6, <2>7 DEF IInv
  <1>2. ASSUME NEW d \in Rows, NEW u \in Times, RequestExtension(d, u) PROVE IInv'
    <2> USE <1>2 DEF RequestExtension, WritesExtensionRequest, AcceptsExtensionRequest
    <2>1. until'[d] = u /\ u > teardownAt[d] /\ u # 0 /\ decision[d] = "none"
            /\ \A c \in Decoms \ {d} : until'[c] = until[c]
      BY DEF IInv, TypeOK, RowsStartBlank, Times
    <2>2. OneLiveDecommission' /\ LateBookingsPredateTheWarning'
      BY DEF IInv, OneLiveDecommission, LateBookingsPredateTheWarning
    <2>3. GrantIsTheDate' /\ RequestsMoveOut' /\ RowsStartBlank'
      BY <2>1 DEF IInv, GrantIsTheDate, RequestsMoveOut, RowsStartBlank
    <2> QED BY <1>0, <2>2, <2>3 DEF IInv
  <1>3. ASSUME NEW d \in Rows, NEW a \in {"granted", "refused"}, DecideExtension(d, a) PROVE IInv'
    <2> USE <1>3 DEF DecideExtension, WritesDecision, AcceptsDecision, ExtensionOpen
    <2>1. /\ decision'[d] = a /\ until[d] > teardownAt[d]
          /\ teardownAt'[d] = IF a = "granted" THEN until[d] ELSE teardownAt[d]
          /\ \A c \in Decoms \ {d} : decision'[c] = decision[c] /\ teardownAt'[c] = teardownAt[c]
      BY DEF IInv, TypeOK, RequestsMoveOut
    <2>2. OneLiveDecommission'
      BY DEF IInv, OneLiveDecommission
    <2>3. \A c \in Decoms : teardownAt'[c] >= teardownAt[c]
      BY <2>1 DEF IInv, TypeOK, Times
    <2>4. LateBookingsPredateTheWarning'
      <3> SUFFICES ASSUME NEW c \in Rows, NEW b \in Bookings, Live(c), bkEnv[b] = decEnv[c],
                          b \notin bkGone, bkEnd[b] > teardownAt'[c]
                   PROVE  bkEnd[b] <= endThen[c][b]
        BY DEF LateBookingsPredateTheWarning
      <3>1. bkEnd[b] > teardownAt[c]
        BY <1>0, <2>3 DEF IInv, TypeOK, Times
      <3> QED BY <3>1 DEF IInv, LateBookingsPredateTheWarning
    <2>5. GrantIsTheDate' /\ RequestsMoveOut' /\ RowsStartBlank'
      BY <2>1 DEF IInv, GrantIsTheDate, RequestsMoveOut, RowsStartBlank
    <2> QED BY <1>0, <2>2, <2>4, <2>5 DEF IInv
  <1>4. ASSUME NEW d \in Rows, NEW s \in Steps, SignAttestation(d, s) PROVE IInv'
    BY <1>0, <1>4 DEF SignAttestation, WritesSignature, IInv, OneLiveDecommission,
        LateBookingsPredateTheWarning, GrantIsTheDate, RequestsMoveOut, RowsStartBlank
  <1>5. ASSUME NEW d \in Rows, TearDown(d) PROVE IInv'
    BY <1>0, <1>5 DEF TearDown, WritesTearDown, IInv, OneLiveDecommission,
        LateBookingsPredateTheWarning, GrantIsTheDate, RequestsMoveOut, RowsStartBlank
  <1>6. ASSUME NEW d \in Rows, Cancel(d) PROVE IInv'
    BY <1>0, <1>6 DEF Cancel, WritesCancel, IInv, OneLiveDecommission,
        LateBookingsPredateTheWarning, GrantIsTheDate, RequestsMoveOut, RowsStartBlank
  <1> QED BY <1>1, <1>2, <1>3, <1>4, <1>5, <1>6 DEF DecommissionNext

\* Every step keeps the invariant.
LEMMA StepInv ==
    ASSUME IInv, [Next]_vars PROVE IInv'
  <1>1. CASE UNCHANGED vars
    BY <1>1 DEF vars, policyVars, envVars, decVars, bookingVars, IInv, TypeOK, OneLiveDecommission,
        LateBookingsPredateTheWarning, GrantIsTheDate, RequestsMoveOut, RowsStartBlank, Rows, Live
  <1> QED BY <1>1, WorkflowStep, BookingStep, RegisterStep DEF Next

\* The inductive invariant holds throughout.
LEMMA InvHolds == Spec => []IInv
  BY InitInv, StepInv, PTL DEF Spec

\* Every variable of the decommission model keeps its type.
THEOREM DecommissionTypes == Spec => []TypeOK
  <1>1. IInv => TypeOK BY DEF IInv
  <1> QED BY <1>1, InvHolds, PTL

\* initiate's 409 leaves an environment at most one live decommission, whatever
\* is cancelled, torn down, extended or edited in between.
THEOREM OneLiveDecommissionHolds == Spec => []OneLiveDecommission
  <1>1. IInv => OneLiveDecommission BY DEF IInv
  <1> QED BY <1>1, InvHolds, PTL

\* assert_bookable closes every create and edit path: a booking past a live
\* teardown date was that late when the decommission was initiated.
THEOREM LateBookingsPredateTheWarningHolds == Spec => []LateBookingsPredateTheWarning
  <1>1. IInv => LateBookingsPredateTheWarning BY DEF IInv
  <1> QED BY <1>1, InvHolds, PTL

\* decide_extension and request_extension keep the extension block true: a
\* granted row's teardown date is the date on its record.
THEOREM GrantIsTheDateHolds == Spec => []GrantIsTheDate
  <1>1. IInv => GrantIsTheDate BY DEF IInv
  <1> QED BY <1>1, InvHolds, PTL

\* No edit of the checklist freezes a live decommission: tear_down is open to
\* it, or a missing required step can be signed.
THEOREM ChecklistNeverFreezesHolds == Spec => []ChecklistNeverFreezes
  <1>1. IInv => ChecklistNeverFreezes
    BY DEF IInv, TypeOK, ChecklistNeverFreezes, AcceptsTearDown, AcceptsSignature, Rows
  <1> QED BY <1>1, InvHolds, PTL

\* The teardown date of a row moves only out, while it is live, by the grant of
\* its one extension.
THEOREM TeardownDateOnlyMovesOutHolds == Spec => TeardownDateOnlyMovesOut
  <1> DEFINE Moved == \A d \in Rows : teardownAt'[d] # teardownAt[d] =>
                        /\ teardownAt'[d] > teardownAt[d]
                        /\ Live(d)
                        /\ decision[d] = "none" /\ decision'[d] = "granted"
  <1>1. ASSUME IInv, Next PROVE Moved
    <2>1. CASE teardownAt' = teardownAt
      BY <2>1
    <2>2. ASSUME NEW d \in Decoms, NEW e \in Envs, NEW at \in Times, Initiate(d, e, at) PROVE Moved
      BY <1>1, <2>2 DEF Initiate, WritesInitiate, Rows, IInv, TypeOK
    <2>3. ASSUME NEW d \in Rows, NEW a \in {"granted", "refused"}, DecideExtension(d, a) PROVE Moved
      BY <1>1, <2>3 DEF DecideExtension, AcceptsDecision, WritesDecision, ExtensionOpen, Rows, IInv,
          TypeOK, RequestsMoveOut
    <2>4. CASE BookingNext
      BY <2>1, <2>4 DEF BookingNext, CreateRequest, CreateBooking, AddEnvironment, MoveBooking,
          MoveRequest, DeleteBookings, WritesBookings, WritesMove, decVars
    <2>5. CASE RegisterNext \/ Tick
      BY <2>1, <2>5 DEF RegisterNext, UpdateEnvironmentStatus, DeleteEnvironment, UpsertPolicy,
          CreateStep, UpdateStep, DeleteStep, Tick, decVars
    <2>6. CASE DecommissionNext
      BY <2>1, <2>2, <2>3, <2>6 DEF DecommissionNext, RequestExtension, WritesExtensionRequest,
          SignAttestation, WritesSignature, TearDown, WritesTearDown, Cancel, WritesCancel
    <2> QED BY <1>1, <2>4, <2>5, <2>6 DEF Next
  <1>2. IInv /\ [Next]_vars => [Moved]_vars
    BY <1>1
  <1> QED BY <1>2, InvHolds, PTL DEF Spec, TeardownDateOnlyMovesOut

\* state_predicate's SQL finds exactly the rows decommission_state shows.
THEOREM WorklistShowsTheStateHolds == Spec => []WorklistShowsTheState
  <1>1. ASSUME TypeOK, NEW d \in Rows, NEW s \in States
        PROVE  StatePredicate(s, d) <=> DecommissionState(d) = s
    <2> USE DEF StatePredicate, DecommissionState, ExtensionOpen
    <2>1. CASE s = "cancelled" BY <2>1
    <2>2. CASE s = "torn_down" BY <2>2
    <2>3. CASE s = "extension_requested" BY <2>3
    <2>4. CASE s = "warned" BY <2>4
    <2>5. CASE s = "due"
      <3>1. ExpiryBoundary \in Int /\ teardownAt[d] \in Int
        BY <1>1, DecommissionAssumption DEF ExpiryBoundary, TypeOK, Times, Rows
      <3>2. teardownAt[d] < ExpiryBoundary <=> ~(teardownAt[d] >= ExpiryBoundary)
        BY <3>1
      <3> QED BY <2>5, <3>2
    <2> QED BY <2>1, <2>2, <2>3, <2>4, <2>5 DEF States
  <1>2. TypeOK => WorklistShowsTheState
    BY <1>1 DEF WorklistShowsTheState
  <1> QED BY <1>2, DecommissionTypes, PTL

-----------------------------------------------------------------------------
(* The deadline is a day.                                                   *)

\* A later day starts at least a day later.
LEMMA WholeDays ==
    ASSUME NEW L \in Nat \ {0}, NEW a \in Nat, NEW b \in Nat, a < b
    PROVE  L * a + L <= L * b
  <1>1. PICK k \in Nat : b = a + 1 + k
    <2>1. b - a - 1 \in Nat /\ b = a + 1 + (b - a - 1)
      OBVIOUS
    <2> QED BY <2>1
  <1>2. L * b = L * a + L + L * k /\ L * k \in Nat /\ L * a \in Nat
    BY <1>1
  <1> QED BY <1>2

\* Days compare as their first instants do.
LEMMA DayOrder ==
    ASSUME NEW L \in Nat \ {0}, NEW t \in Nat, NEW n \in Nat
    PROVE  t < n - (n % L) <=> t \div L < n \div L
  <1> DEFINE a == t \div L  r == t % L  b == n \div L  s == n % L
  <1>1. /\ a \in Nat /\ r \in 0 .. (L - 1) /\ t = L * a + r
        /\ b \in Nat /\ s \in 0 .. (L - 1) /\ n = L * b + s
    OBVIOUS
  <1> HIDE DEF a, r, b, s
  <1>2. n - s = L * b
    BY <1>1
  <1>3. a < b => L * a + L <= L * b
    BY <1>1, WholeDays
  <1>4. b <= a => L * b <= L * a
    <2>1. b < a => L * b + L <= L * a
      BY <1>1, WholeDays
    <2> QED BY <1>1, <2>1
  <1>5. L * a \in Nat /\ L * b \in Nat
    BY <1>1
  <1>6. t < L * b <=> a < b
    BY <1>1, <1>3, <1>4, <1>5
  <1> QED BY <1>2, <1>6 DEF a, b, s

\* decommission_state says "due" exactly when the whole teardown day has gone
\* by, whatever the length of a day and the hour of the deadline.
THEOREM DeadlineIsADayHolds == Spec => []DeadlineIsADay
  <1>1. TypeOK => DeadlineIsADay
    <2> SUFFICES ASSUME TypeOK, NEW d \in Rows
                 PROVE  DecommissionState(d) = "due" <=>
                            /\ Live(d) /\ ~ExtensionOpen(d)
                            /\ teardownAt[d] \div DayLength < now \div DayLength
      BY DEF DeadlineIsADay
    <2>1. now \in Nat /\ teardownAt[d] \in Nat /\ DayLength \in Nat \ {0}
      BY DecommissionAssumption DEF TypeOK, Times, Rows
    <2>2. ExpiryBoundary \in Int
      BY <2>1 DEF ExpiryBoundary
    <2>3. ~(teardownAt[d] >= ExpiryBoundary) <=> teardownAt[d] \div DayLength < now \div DayLength
      <3>1. teardownAt[d] < ExpiryBoundary <=> teardownAt[d] \div DayLength < now \div DayLength
        BY <2>1, DayOrder DEF ExpiryBoundary
      <3> QED BY <2>1, <2>2, <3>1
    <2> QED BY <2>3 DEF DecommissionState, Live, Rows
  <1> QED BY <1>1, DecommissionTypes, PTL

\* The start of the day never moves back.
LEMMA BoundaryGrows ==
    ASSUME NEW L \in Nat \ {0}, NEW n \in Nat
    PROVE  n - (n % L) <= (n + 1) - ((n + 1) % L)
  <1> DEFINE b == n \div L  s == n % L  c == (n + 1) \div L  u == (n + 1) % L
  <1>1. /\ b \in Nat /\ s \in 0 .. (L - 1) /\ n = L * b + s
        /\ c \in Nat /\ u \in 0 .. (L - 1) /\ n + 1 = L * c + u
    OBVIOUS
  <1> HIDE DEF b, s, c, u
  <1>2. L * b \in Nat /\ L * c \in Nat
    BY <1>1
  <1>3. ~(c < b)
    <2>1. c < b => L * c + L <= L * b
      BY <1>1, WholeDays
    <2> QED BY <1>1, <1>2, <2>1
  <1>4. b < c => L * b + L <= L * c
    BY <1>1, WholeDays
  <1>5. L * b <= L * c
    BY <1>1, <1>2, <1>3, <1>4
  <1> QED BY <1>1, <1>2, <1>5 DEF s, u

\* What no step undoes: a closed row stays closed, the day goes on, and a date
\* moves only while its extension is open.
LEMMA ClosedStaysClosed ==
    ASSUME TypeOK, Next
    PROVE  /\ cancelled \subseteq cancelled' /\ tornDown \subseteq tornDown'
           /\ ExpiryBoundary <= ExpiryBoundary'
           /\ \A d \in Rows : teardownAt'[d] = teardownAt[d] \/ ExtensionOpen(d)
  <1>0. now \in Nat /\ DayLength \in Nat \ {0} /\ ExpiryBoundary <= ExpiryBoundary
    BY DecommissionAssumption DEF TypeOK, Times, ExpiryBoundary
  <1> USE DEF policyVars, envVars, decVars, bookingVars
  <1>1. CASE Tick
    <2>1. ExpiryBoundary <= ExpiryBoundary'
      BY <1>0, <1>1, BoundaryGrows DEF Tick, ExpiryBoundary
    <2> QED BY <1>1, <2>1 DEF Tick
  <1>2. CASE BookingNext \/ RegisterNext
    <2>1. UNCHANGED <<now, decVars>>
      BY <1>2 DEF BookingNext, CreateRequest, CreateBooking, AddEnvironment, WritesBookings,
         MoveBooking, MoveRequest, WritesMove, DeleteBookings, RegisterNext,
         UpdateEnvironmentStatus, DeleteEnvironment, UpsertPolicy, CreateStep, UpdateStep, DeleteStep
    <2> QED BY <1>0, <2>1 DEF ExpiryBoundary
  <1>3. CASE DecommissionNext
    <2>1. now' = now
      BY <1>3 DEF DecommissionNext, Initiate, WritesInitiate, RequestExtension,
         WritesExtensionRequest, DecideExtension, WritesDecision, SignAttestation,
         WritesSignature, TearDown, WritesTearDown, Cancel, WritesCancel
    <2>2. cancelled \subseteq cancelled' /\ tornDown \subseteq tornDown'
      BY <1>3 DEF DecommissionNext, Initiate, WritesInitiate, RequestExtension,
         WritesExtensionRequest, DecideExtension, WritesDecision, SignAttestation,
         WritesSignature, TearDown, WritesTearDown, Cancel, WritesCancel
    <2>3. ASSUME NEW c \in Decoms, NEW e \in Envs, NEW at \in Times, Initiate(c, e, at),
                 NEW d \in Rows
          PROVE  teardownAt'[d] = teardownAt[d]
      BY <2>3 DEF Initiate, WritesInitiate, Rows, TypeOK
    <2>4. ASSUME NEW c \in Rows, NEW answer \in {"granted", "refused"}, DecideExtension(c, answer),
                 NEW d \in Rows
          PROVE  teardownAt'[d] = teardownAt[d] \/ ExtensionOpen(d)
      BY <2>4 DEF DecideExtension, AcceptsDecision, WritesDecision, Rows, TypeOK
    <2>5. \A d \in Rows : teardownAt'[d] = teardownAt[d] \/ ExtensionOpen(d)
      BY <1>3, <2>3, <2>4 DEF DecommissionNext, RequestExtension, WritesExtensionRequest,
         SignAttestation, WritesSignature, TearDown, WritesTearDown, Cancel, WritesCancel
    <2> QED BY <1>0, <2>1, <2>2, <2>5 DEF ExpiryBoundary
  <1> QED BY <1>1, <1>2, <1>3 DEF Next

\* The computed state never reopens a closed row, and a due row is warned again
\* only through an extension: although nothing is stored, the state moves as a
\* workflow does.
THEOREM StateNeverReopensHolds == Spec => StateNeverReopens
  <1> DEFINE A == \A d \in Rows : <<DecommissionState(d), DecommissionState(d)'>> \in StateStep
  <1>1. ASSUME TypeOK, TypeOK', Next PROVE A
    <2> SUFFICES ASSUME NEW d \in Rows
                 PROVE  <<DecommissionState(d), DecommissionState(d)'>> \in StateStep
      OBVIOUS
    <2>1. /\ d \in cancelled => d \in cancelled'
          /\ d \in tornDown => d \in tornDown'
          /\ ExpiryBoundary <= ExpiryBoundary'
          /\ teardownAt'[d] = teardownAt[d] \/ ExtensionOpen(d)
      BY <1>1, ClosedStaysClosed
    <2>2. DecommissionState(d) \in States /\ DecommissionState(d)' \in States
      BY DEF DecommissionState, States
    <2>3. DecommissionState(d) = "cancelled" => DecommissionState(d)' = "cancelled"
      BY <2>1 DEF DecommissionState
    <2>4. DecommissionState(d) = "torn_down" => DecommissionState(d)' \in {"torn_down", "cancelled"}
      BY <2>1 DEF DecommissionState
    <2>5. DecommissionState(d) = "due" => DecommissionState(d)' # "warned"
      <3> SUFFICES ASSUME DecommissionState(d) = "due" PROVE DecommissionState(d)' # "warned"
        OBVIOUS
      <3>1. ~(teardownAt[d] >= ExpiryBoundary) /\ ~ExtensionOpen(d)
        BY DEF DecommissionState
      <3>2. /\ ExpiryBoundary \in Int /\ ExpiryBoundary' \in Int
            /\ teardownAt[d] \in Int /\ teardownAt'[d] = teardownAt[d]
        <4>1. now \in Nat /\ now' \in Nat /\ DayLength \in Nat \ {0} /\ teardownAt[d] \in Int
          BY <1>1, DecommissionAssumption DEF TypeOK, Times, Rows
        <4> QED BY <2>1, <3>1, <4>1 DEF ExpiryBoundary
      <3>3. ~(teardownAt'[d] >= ExpiryBoundary')
        BY <2>1, <3>1, <3>2
      <3> QED BY <3>3 DEF DecommissionState
    <2> QED BY <2>2, <2>3, <2>4, <2>5 DEF StateStep, States
  <1>2. TypeOK /\ TypeOK' /\ [Next]_vars => [A]_vars
    BY <1>1
  <1>3. Spec => [][A]_vars
    BY <1>2, DecommissionTypes, PTL DEF Spec
  <1> QED BY <1>3 DEF StateNeverReopens
=============================================================================
