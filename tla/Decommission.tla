---------------------------- MODULE Decommission ----------------------------
(***************************************************************************)
(* Retiring an environment while bookings keep arriving.                    *)
(*                                                                          *)
(*   services/environment_decommission_service.py   the decommission, its   *)
(*       computed state and the booking refusal (assert_bookable);          *)
(*   services/environment_lifecycle_policy_service.py   notice and steps;   *)
(*   services/booking_service.py, booking_request_service.py   every path   *)
(*       that creates a booking or moves its end;                           *)
(*   services/environment_service.py   status edits and deletion.           *)
(*                                                                          *)
(* A row stores facts; its state is computed from them and the clock.       *)
(* Each handler is split into what it checks (Accepts...) and what it       *)
(* writes (Writes...); here a request does both at once.                    *)
(*                                                                          *)
(* Left out: who may act, reasons, names, paging.  Bookings are shared and  *)
(* their starts do not matter here: the refusal only looks at the end.      *)
(***************************************************************************)
EXTENDS Integers, FiniteSets

CONSTANTS Envs,         \* environments of one tenant
          Decoms,       \* ids of decommission rows
          Bookings,     \* ids of booking rows
          Requests,     \* ids of booking requests
          Steps,        \* keys of checklist steps
          Notices,      \* values of decommission_notice_days
          DayLength,    \* instants per day
          MaxTime,      \* bound on every instant
          HandEdits,    \* statuses an edit of the environment may set
          None

ASSUME DecommissionAssumption ==
    /\ Notices \subseteq Nat /\ Notices # {}
    /\ DayLength \in Nat \ {0}
    /\ MaxTime \in Nat
    /\ HandEdits \subseteq {"active", "decommissioned"}
    /\ None \notin Envs /\ None \notin Requests

VARIABLES
    now,        \* the server clock
    notice,     \* decommission_notice_days of the tenant's policy
    known,      \* keys of the checklist steps that are not deleted
    required,   \* those that are active and required
    envStatus,  \* "decommissioned", or "active" for every other status
    envLive,    \* environments that are not soft-deleted
    decEnv,     \* decEnv[d]: environment_id, None while the row is not there
    teardownAt, \* teardownAt[d]: scheduled_teardown_at
    until,      \* until[d]: extension_until; 0 while none was requested
    decision,   \* decision[d]: extension_granted and extension_decided_at
    tornDown, cancelled,
    signed,     \* signed[d]: step keys with an attestation
    bkEnv,      \* bkEnv[b]: environment_id, None while the row is not there
    bkReq, bkEnd,
    bkGone,     \* soft-deleted bookings
    endThen     \* endThen[d][b]: b's end when d was initiated (history)

policyVars == <<notice, known, required>>
envVars == <<envStatus, envLive>>
decVars == <<decEnv, teardownAt, until, decision, tornDown, cancelled, signed, endThen>>
bookingVars == <<bkEnv, bkReq, bkEnd, bkGone>>
vars == <<now, policyVars, envVars, decVars, bookingVars>>

Times == 0 .. MaxTime

\* Each tenant is seeded with its steps; the clock starts at some instant.
Init ==
    /\ now = 0
    /\ notice \in Notices
    /\ known = Steps /\ required \in SUBSET Steps
    /\ envStatus = [e \in Envs |-> "active"] /\ envLive = Envs
    /\ decEnv = [d \in Decoms |-> None]
    /\ teardownAt = [d \in Decoms |-> 0]
    /\ until = [d \in Decoms |-> 0] /\ decision = [d \in Decoms |-> "none"]
    /\ tornDown = {} /\ cancelled = {}
    /\ signed = [d \in Decoms |-> {}]
    /\ bkEnv = [b \in Bookings |-> None] /\ bkReq = [b \in Bookings |-> None]
    /\ bkEnd = [b \in Bookings |-> 0] /\ bkGone = {}
    /\ endThen = [d \in Decoms |-> [b \in Bookings |-> 0]]

-----------------------------------------------------------------------------
(* The computed state.                                                      *)

Rows == {d \in Decoms : decEnv[d] # None}
Live(d) == decEnv[d] # None /\ d \notin cancelled /\ d \notin tornDown
ExtensionOpen(d) == until[d] # 0 /\ decision[d] = "none"

\* expiry_boundary: the start of the day the clock is in.
ExpiryBoundary == now - (now % DayLength)

\* Mutant: a deadline is an instant.
DecommissionState_Instant(d) ==
    IF d \in cancelled THEN "cancelled"
    ELSE IF d \in tornDown THEN "torn_down"
    ELSE IF ExtensionOpen(d) THEN "extension_requested"
    ELSE IF teardownAt[d] >= now THEN "warned" ELSE "due"
\* decommission_state: the branch order is the rule.
DecommissionState(d) ==
    IF d \in cancelled THEN "cancelled"
    ELSE IF d \in tornDown THEN "torn_down"
    ELSE IF ExtensionOpen(d) THEN "extension_requested"
    ELSE IF teardownAt[d] >= ExpiryBoundary THEN "warned" ELSE "due"

States == {"warned", "due", "extension_requested", "torn_down", "cancelled"}

\* Mutant: an open extension is not taken out of the clock's two states.
StatePredicate_ClockOnly(s, d) ==
    CASE s = "cancelled" -> d \in cancelled
      [] s = "torn_down" -> d \notin cancelled /\ d \in tornDown
      [] s = "extension_requested" -> d \notin cancelled \cup tornDown /\ ExtensionOpen(d)
      [] s = "warned" -> d \notin cancelled \cup tornDown /\ teardownAt[d] >= ExpiryBoundary
      [] s = "due" -> d \notin cancelled \cup tornDown /\ teardownAt[d] < ExpiryBoundary
\* state_predicate: the same question as SQL, for the worklist's filter.
StatePredicate(s, d) ==
    LET notTerminal == d \notin cancelled /\ d \notin tornDown
        noOpenExtension == until[d] = 0 \/ decision[d] # "none" IN
    CASE s = "cancelled" -> d \in cancelled
      [] s = "torn_down" -> d \notin cancelled /\ d \in tornDown
      [] s = "extension_requested" -> notTerminal /\ until[d] # 0 /\ decision[d] = "none"
      [] s = "warned" -> notTerminal /\ noOpenExtension /\ teardownAt[d] >= ExpiryBoundary
      [] s = "due" -> notTerminal /\ noOpenExtension /\ teardownAt[d] < ExpiryBoundary

-----------------------------------------------------------------------------
(* The workflow.                                                            *)

AcceptsInitiate(e, at) ==
    /\ e \in envLive
    /\ \A d \in Rows : decEnv[d] = e => ~Live(d)
    /\ at >= now + notice * DayLength

WritesInitiate(d, e, at) ==
    /\ decEnv[d] = None
    /\ decEnv' = [decEnv EXCEPT ![d] = e]
    /\ teardownAt' = [teardownAt EXCEPT ![d] = at]
    /\ endThen' = [endThen EXCEPT ![d] = [b \in Bookings |->
            IF bkEnv[b] = e /\ b \notin bkGone THEN bkEnd[b] ELSE 0]]
    /\ UNCHANGED <<now, policyVars, envVars, until, decision, tornDown, cancelled, signed, bookingVars>>

\* Mutant: an extension may pull the date in.
AcceptsExtensionRequest_AnyDate(d, u) ==
    decEnv[d] \in envLive /\ Live(d) /\ until[d] = 0 /\ u > 0
AcceptsExtensionRequest(d, u) ==
    /\ decEnv[d] \in envLive
    /\ Live(d)
    /\ until[d] = 0
    /\ u > teardownAt[d]

WritesExtensionRequest(d, u) ==
    /\ until' = [until EXCEPT ![d] = u]
    /\ UNCHANGED <<now, policyVars, envVars, decEnv, teardownAt, decision,
                   tornDown, cancelled, signed, endThen, bookingVars>>

AcceptsDecision(d) ==
    /\ decEnv[d] \in envLive
    /\ Live(d)
    /\ ExtensionOpen(d)

\* `to` is the extension_until the handler loaded.
WritesDecision(d, answer, to) ==
    /\ decision' = [decision EXCEPT ![d] = answer]
    /\ teardownAt' = IF answer = "granted" THEN [teardownAt EXCEPT ![d] = to] ELSE teardownAt
    /\ UNCHANGED <<now, policyVars, envVars, decEnv, until, tornDown, cancelled,
                   signed, endThen, bookingVars>>

\* A retired step can still be signed; a second signature is a 409.
AcceptsSignature(d, s) ==
    decEnv[d] \in envLive /\ Live(d) /\ s \in known /\ s \notin signed[d]

WritesSignature(d, s) ==
    /\ signed' = [signed EXCEPT ![d] = @ \cup {s}]
    /\ UNCHANGED <<now, policyVars, envVars, decEnv, teardownAt, until, decision,
                   tornDown, cancelled, endThen, bookingVars>>

\* missing_required_steps; neither the date nor an open extension is looked at.
AcceptsTearDown(d) ==
    decEnv[d] \in envLive /\ Live(d) /\ required \subseteq signed[d]

WritesTearDown(d) ==
    /\ tornDown' = tornDown \cup {d}
    /\ envStatus' = [envStatus EXCEPT ![decEnv[d]] = "decommissioned"]
    /\ UNCHANGED <<now, policyVars, envLive, decEnv, teardownAt, until, decision,
                   cancelled, signed, endThen, bookingVars>>

\* The escape hatch: a torn-down row can be cancelled too.
AcceptsCancel(d) == decEnv[d] \in envLive /\ d \notin cancelled

WritesCancel(d) ==
    /\ cancelled' = cancelled \cup {d}
    /\ UNCHANGED <<now, policyVars, envVars, decEnv, teardownAt, until, decision,
                   tornDown, signed, endThen, bookingVars>>

-----------------------------------------------------------------------------
(* Bookings.                                                                *)

\* assert_bookable, for one environment; every live row of it is joined.
Bookable(e, end) ==
    /\ envStatus[e] # "decommissioned"
    /\ \A d \in Rows : decEnv[d] = e /\ Live(d) => end <= teardownAt[d]

Children(r) == {b \in Bookings : bkReq[b] = r /\ b \notin bkGone}
Unused == {b \in Bookings : bkEnv[b] = None}
Exists(r) == \E b \in Bookings : bkReq[b] = r

\* The rows inserted for request r: where[b] and ends[b] for each new b.
WritesBookings(r, where, ends) ==
    /\ DOMAIN where \subseteq Unused
    /\ bkEnv' = [b \in Bookings |-> IF b \in DOMAIN where THEN where[b] ELSE bkEnv[b]]
    /\ bkReq' = [b \in Bookings |-> IF b \in DOMAIN where THEN r ELSE bkReq[b]]
    /\ bkEnd' = [b \in Bookings |-> IF b \in DOMAIN where THEN ends[b] ELSE bkEnd[b]]
    /\ UNCHANGED <<now, policyVars, envVars, decVars, bkGone>>

\* create_request: one row per environment, one window for all of them.
AcceptsRequest(E, end) == E # {} /\ \A e \in E : Bookable(e, end)

\* Mutant: only the first occurrence is checked.
AcceptsSeries_FirstOnly(e, ends) == \E b \in DOMAIN ends : Bookable(e, ends[b])
\* create_booking: a series on one environment, checked at its furthest end.
AcceptsSeries(e, ends) ==
    \E last \in DOMAIN ends :
        (\A b \in DOMAIN ends : ends[b] <= ends[last]) /\ Bookable(e, ends[last])

\* add_environment: a create in disguise.
AcceptsAddEnvironment(r, e, end) ==
    Exists(r) /\ (\A b \in Children(r) : bkEnv[b] # e) /\ Bookable(e, end)

\* The two date edits, of one booking and of a request's children.
AcceptsMove(B, end) == \A b \in B : Bookable(bkEnv[b], end)

WritesMove(B, end) ==
    /\ bkEnd' = [b \in Bookings |-> IF b \in B THEN end ELSE bkEnd[b]]
    /\ UNCHANGED <<now, policyVars, envVars, decVars, bkEnv, bkReq, bkGone>>

-----------------------------------------------------------------------------
(* One request at a time.                                                   *)

Initiate(d, e, at) == AcceptsInitiate(e, at) /\ WritesInitiate(d, e, at)
RequestExtension(d, u) == AcceptsExtensionRequest(d, u) /\ WritesExtensionRequest(d, u)
DecideExtension(d, answer) == AcceptsDecision(d) /\ WritesDecision(d, answer, until[d])
SignAttestation(d, s) == AcceptsSignature(d, s) /\ WritesSignature(d, s)
TearDown(d) == AcceptsTearDown(d) /\ WritesTearDown(d)
Cancel(d) == AcceptsCancel(d) /\ WritesCancel(d)

\* create_request: one new row for each environment named.
CreateRequest(r, where, end) ==
    /\ ~Exists(r)
    /\ \A b, c \in DOMAIN where : where[b] = where[c] => b = c
    /\ AcceptsRequest({where[b] : b \in DOMAIN where}, end)
    /\ WritesBookings(r, where, [b \in DOMAIN where |-> end])

CreateBooking(r, e, ends) ==
    /\ ~Exists(r)
    /\ AcceptsSeries(e, ends)
    /\ WritesBookings(r, [b \in DOMAIN ends |-> e], ends)

AddEnvironment(r, e, b, end) ==
    /\ AcceptsAddEnvironment(r, e, end)
    /\ WritesBookings(r, [x \in {b} |-> e], [x \in {b} |-> end])

MoveBooking(b, end) ==
    bkEnv[b] # None /\ b \notin bkGone /\ AcceptsMove({b}, end) /\ WritesMove({b}, end)

MoveRequest(r, end) ==
    Exists(r) /\ AcceptsMove(Children(r), end) /\ WritesMove(Children(r), end)

\* remove_environment and delete_occurrence take one booking, delete_series the
\* occurrences of one request.
DeleteBookings(r, B) ==
    /\ B # {} /\ \A b \in B : bkEnv[b] # None /\ bkReq[b] = r
    /\ bkGone' = bkGone \cup B
    /\ UNCHANGED <<now, policyVars, envVars, decVars, bkEnv, bkReq, bkEnd>>

-----------------------------------------------------------------------------
(* The register and the tenant's policy.                                    *)

UpdateEnvironmentStatus(e, status) ==
    /\ e \in envLive
    /\ envStatus' = [envStatus EXCEPT ![e] = status]
    /\ UNCHANGED <<now, policyVars, envLive, decVars, bookingVars>>

DeleteEnvironment(e) ==
    /\ e \in envLive
    /\ envLive' = envLive \ {e}
    /\ UNCHANGED <<now, policyVars, envStatus, decVars, bookingVars>>

UpsertPolicy(n) ==
    notice' = n /\ UNCHANGED <<now, known, required, envVars, decVars, bookingVars>>

CreateStep(s, gates) ==
    /\ s \notin known
    /\ known' = known \cup {s}
    /\ required' = IF gates THEN required \cup {s} ELSE required
    /\ UNCHANGED <<now, notice, envVars, decVars, bookingVars>>

\* The key itself may be edited, to one that is free.
UpdateStep(s, key, gates) ==
    /\ s \in known
    /\ key = s \/ key \notin known
    /\ known' = (known \ {s}) \cup {key}
    /\ required' = IF gates THEN (required \ {s}) \cup {key} ELSE required \ {s}
    /\ UNCHANGED <<now, notice, envVars, decVars, bookingVars>>

\* Mutant: a deleted step keeps gating.
DeleteStep_Gates(s) ==
    /\ s \in known
    /\ known' = known \ {s}
    /\ UNCHANGED <<now, notice, required, envVars, decVars, bookingVars>>
DeleteStep(s) ==
    /\ s \in known
    /\ known' = known \ {s} /\ required' = required \ {s}
    /\ UNCHANGED <<now, notice, envVars, decVars, bookingVars>>

Tick ==
    /\ now < MaxTime
    /\ now' = now + 1
    /\ UNCHANGED <<policyVars, envVars, decVars, bookingVars>>

DecommissionNext ==
    \/ \E d \in Decoms, e \in Envs, at \in Times : Initiate(d, e, at)
    \/ \E d \in Rows, u \in Times : RequestExtension(d, u)
    \/ \E d \in Rows, answer \in {"granted", "refused"} : DecideExtension(d, answer)
    \/ \E d \in Rows, s \in Steps : SignAttestation(d, s)
    \/ \E d \in Rows : TearDown(d)
    \/ \E d \in Rows : Cancel(d)

BookingNext ==
    \/ \E r \in Requests, B \in SUBSET Bookings, end \in Times :
            \E where \in [B -> Envs] : CreateRequest(r, where, end)
    \/ \E r \in Requests, B \in SUBSET Bookings, e \in Envs :
            \E ends \in [B -> Times] : CreateBooking(r, e, ends)
    \/ \E r \in Requests, e \in Envs, b \in Bookings, end \in Times : AddEnvironment(r, e, b, end)
    \/ \E b \in Bookings, end \in Times : MoveBooking(b, end)
    \/ \E r \in Requests, end \in Times : MoveRequest(r, end)
    \/ \E r \in Requests, B \in SUBSET Bookings : DeleteBookings(r, B)

RegisterNext ==
    \/ \E e \in Envs, status \in HandEdits : UpdateEnvironmentStatus(e, status)
    \/ \E e \in Envs : DeleteEnvironment(e)
    \/ \E n \in Notices : UpsertPolicy(n)
    \/ \E s \in Steps, gates \in BOOLEAN : CreateStep(s, gates)
    \/ \E s, key \in Steps, gates \in BOOLEAN : UpdateStep(s, key, gates)
    \/ \E s \in Steps : DeleteStep(s)

Next == DecommissionNext \/ BookingNext \/ RegisterNext \/ Tick

Spec == Init /\ [][Next]_vars

-----------------------------------------------------------------------------
(* Properties.                                                              *)

\* Every variable holds a value of its type.
TypeOK ==
    /\ now \in Times /\ notice \in Notices
    /\ known \subseteq Steps /\ required \subseteq known
    /\ envStatus \in [Envs -> {"active", "decommissioned"}] /\ envLive \subseteq Envs
    /\ decEnv \in [Decoms -> Envs \cup {None}]
    /\ teardownAt \in [Decoms -> Times] /\ until \in [Decoms -> Times]
    /\ decision \in [Decoms -> {"none", "granted", "refused"}]
    /\ tornDown \subseteq Rows /\ cancelled \subseteq Rows
    /\ signed \in [Decoms -> SUBSET Steps]
    /\ bkEnv \in [Bookings -> Envs \cup {None}]
    /\ bkReq \in [Bookings -> Requests \cup {None}]
    /\ bkEnd \in [Bookings -> Times] /\ bkGone \subseteq Bookings
    /\ endThen \in [Decoms -> [Bookings -> Times]]

\* get_live: at most one live decommission per environment.  The environment
\* list's scalar subquery fails when there are two.
OneLiveDecommission ==
    \A c, d \in Rows : Live(c) /\ Live(d) /\ decEnv[c] = decEnv[d] => c = d

\* A booking that runs past a live decommission's teardown was on the calendar,
\* with at least that end, when the decommission was initiated: every create
\* and edit path refuses the others, recurring and cascading ones too.
LateBookingsPredateTheWarning ==
    \A d \in Rows, b \in Bookings :
        Live(d) /\ bkEnv[b] = decEnv[d] /\ b \notin bkGone /\ bkEnd[b] > teardownAt[d]
            => bkEnd[b] <= endThen[d][b]

\* The worklist's SQL filter and the rendered state agree on every row: each
\* row is found under the state it shows, and under no other.
WorklistShowsTheState ==
    \A d \in Rows, s \in States : StatePredicate(s, d) <=> DecommissionState(d) = s

\* A deadline is a day: a row is due exactly when its whole teardown day is
\* over, nobody is owed an answer and it is still live.
DeadlineIsADay ==
    \A d \in Rows :
        DecommissionState(d) = "due" <=>
            Live(d) /\ ~ExtensionOpen(d) /\ teardownAt[d] \div DayLength < now \div DayLength

\* A checklist tidy-up never freezes a workflow: while its environment is in
\* the register, a live decommission can be torn down or signs one more of the
\* required steps it still misses, however steps were renamed and retired.
ChecklistNeverFreezes ==
    \A d \in Rows : Live(d) /\ decEnv[d] \in envLive =>
        AcceptsTearDown(d) \/ \E s \in required : AcceptsSignature(d, s)

\* The extension block stays the record of what was asked and decided: the date
\* of a row whose extension was granted is the date that was asked for.
GrantIsTheDate == \A d \in Rows : decision[d] = "granted" => teardownAt[d] = until[d]

\* The teardown date moves only out, only while the row is live, and only by
\* granting the one extension.
TeardownDateOnlyMovesOut ==
    [][\A d \in Rows : teardownAt'[d] # teardownAt[d] =>
            /\ teardownAt'[d] > teardownAt[d]
            /\ Live(d)
            /\ decision[d] = "none" /\ decision'[d] = "granted"]_vars

\* What the computed state may do: a closed row stays closed (a torn-down one
\* may be cancelled), and a due row is warned again only through an extension.
StateStep ==
    {<<"warned", s>> : s \in States} \cup {<<"extension_requested", s>> : s \in States}
        \cup ({"due"} \X (States \ {"warned"}))
        \cup {<<"torn_down", "torn_down">>, <<"torn_down", "cancelled">>, <<"cancelled", "cancelled">>}
StateNeverReopens ==
    [][\A d \in Rows : <<DecommissionState(d), DecommissionState(d)'>> \in StateStep]_vars

-----------------------------------------------------------------------------
(* Claims the code does not keep.                                           *)

\* decide_extension: on a grant the row falls through to `warned`.
GrantMeansWarned ==
    [][\A d \in Rows : decision[d] = "none" /\ decision'[d] = "granted"
            => DecommissionState(d)' = "warned"]_vars

\* "A cancelled decommission refuses nothing": when every decommission of an
\* environment was cancelled, it is no longer refused as decommissioned.
CancelledRefusesNothing ==
    \A e \in Envs : (\A d \in Rows : decEnv[d] = e => d \in cancelled)
        => envStatus[e] # "decommissioned"

\* "Cancel is always available to Admin": a live decommission can be cancelled.
EscapeHatchStaysOpen == \A d \in Rows : Live(d) => AcceptsCancel(d)
=============================================================================
