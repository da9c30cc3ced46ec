# A formal model of envmgr

envmgr is a multi-tenant planner for test environments and releases: who has
which environment when, what a release must pass before it goes out, how a
cutover is carried out, and how an environment is retired. It is a FastAPI and
SQLAlchemy server over PostgreSQL (`src/backend/app`), a React and Redux client
(`src/frontend/src`), and a worker that forwards domain events to NATS
JetStream.

This directory holds TLA+ models of its parts, TLC configurations that check
them on small instances, and TLAPS proofs that hold for every instance.
`PROJECT.json` is the index: components, runs, the source lines of every
definition (`map`), one mutant per checked property, hazards, theorems.

To run, from this directory:

    tlc -workers 2 -config Runbook.cfg MCRunbook
    tlapm RunbookProofs.tla

## 1. The system

### How a request runs

Every endpoint of `api/v1/` gets one database session from `db/base.py get_db`.
The handler reads and checks through the services, writes through the ORM, and
returns; `get_db` commits after the handler has returned and rolls back on any
exception. So one request is one transaction, and an error answer (403, 404,
409, 422) changes nothing.

The engine uses PostgreSQL's default isolation, READ COMMITTED, and apart from
the event publisher no query takes a row lock. Two requests that overlap both
read committed state, and each decides on what it read. Most rules of the system
("at most one live plan", "no cycles", "not past the teardown date") are a
SELECT and a refusal in Python; some are backed by a unique key, most are not.
That is the main source of behaviour a sequential test does not reach, and the
reason the models come in pairs: `X` runs each request alone, and `XRacing` runs
the same checks and the same writes as overlapping transactions.

Rows are soft-deleted (`deleted_at`), statuses that can be computed are not
stored (a decommission's state, a plan's state, a task's schedule), and the same
rule often exists twice: once in Python for one row and once as SQL for a list.

### How the client runs

The client is single-threaded; its concurrency is that of calls in flight. A
page dispatches a thunk or runs an effect, the user goes on typing, navigating
and clicking, and the answers come back in any order, or not at all, and run
their handlers against whatever the page has become. Four mechanisms answer for
the order of things, and each has its module: the Redux slices and the effects
that load into component state (`AsyncState`), the token exchange behind every
request (`Session`), the hook that drives fifteen list pages from the address
bar (`ServerGrid`), and the forms that send what the user typed (`Forms`).

The client is written by conventions repeated by hand: "return early when
`meta.aborted`", "compare the request id", "`let cancelled = false`", "disable
while submitting". A convention is right in one place and forgotten in another,
so the modules hold tables with one entry for each slice, effect, grid and form
of the client, and the properties are checked of every entry.

### The parts

| Part | State it keeps | Operations | Works with | Hard behaviour | Correct when |
|---|---|---|---|---|---|
| Cutover runbook (`runbook_service`, `runbook_execution_service`) | a plan per (release, environment), tasks with a team, status and actual times, dependency rows, an event history | create, revive, delete a plan; create, edit, delete a task; replace predecessors; report a status | releases, environments and teams that may be archived under it; the schedule | overlapping reports; cycles; back-dated reports; revival of a deleted slot; three copies of the ready rule | no task runs ahead of its predecessors; the graph stays acyclic; an unfinished cutover always has something to do; what is offered is what is accepted |
| Runbook schedule (`runbook_schedule_service`) | none: computed from the plan and the clock | `compute`, `topological_order` | called by the reads and by `set_predecessors` | topological order; zero durations; skips out of order; the clock passing every planned start | order is right or a cycle is named; critical means that a delay moves the end; forecast = plan before the anchor |
| Transactional outbox (`core/events`, `workers/event_publisher`) | `event_log` rows with `published_at` | `publish_event` in the caller's transaction; poll, send, stamp | every service that announces something; NATS | crashes, lost acks, two replicas, a failed commit | a committed event is delivered at least once, an uncommitted one never |
| Decommission (`environment_decommission_service`, `environment_lifecycle_policy_service`) | one row per attempt: teardown date, one extension request and its answer, signatures, teardown, cancellation; a policy and a checklist | initiate, request and decide an extension, sign, tear down, cancel; edit the policy and the steps | the environment's status; refuses bookings | the deadline is a day, in Python and in SQL; the checklist changes under a running workflow; bookings race the warning | one live attempt per environment; the date moves only out and only by a grant; no booking passes the line |
| Bookings (`booking_service`, `booking_request_service`, `booking_type_service`) | bookings with dates and a lifecycle state, requests over several environments, recurrence series, history | create one, a series, a request; add an environment; move; transition one or a group; delete | decommission refusal, conflicts, lifecycle templates | exclusive use is a SELECT; a series whose parent was deleted; overlapping transitions | no two exclusive bookings overlap; a group moves all or nothing; history is a chain |
| Conflicts and contention (`conflict_service`, `contention_service`, `contention_forecast_service`) | acknowledgements, verdicts, escalations on a pair of bookings | acknowledge, decide, escalate, close | bookings | both sides act at once; first writer wins through a unique key and a savepoint | both sides see one verdict; the first escalation stands |
| Environment register (`environment_service` and its neighbours) | environments, tiers, groups, hours, owners | create, edit, hand over, delete | bookings, decommissions, requests | deletion under live references | no live row without its environment |
| Environment requests (`environment_request_service`) | requests with a template state, routed to a group | submit, transition, fulfil | creates an environment | two fulfilments of one request | one request, at most one environment |
| Release gates (`release_gate_service`, `gate_criterion_service`, `gate_evidence_service`, `gate_waiver_service`) | gates, criteria, evidence, waivers | complete, fail, waive, decide; a gate passes by itself with its last criterion | readiness, go/no-go | the last two criteria completed at once | a gate passes exactly when its criteria are met or waived |
| Releases, scope, close-out, readiness, go/no-go, rollback governance | lifecycle state, scope windows, decisions, plans, rehearsals, authorisations | lifecycle moves, decisions, rehearsals | gates, change requests | which rehearsal counts for which version of the plan | a release moves only when the conditions hold |
| Enterprise membership (`enterprise_membership_service`) | invitations and memberships, `parent` of a project | invite, accept, reject, withdraw, leave | roll-up reports | accept races reject | the parent pointer agrees with the membership |
| Sessions and sign-in (`auth_session_service`; `services/api.ts`, `authSlice`, `App.tsx`) | refresh token families on the server; tokens in localStorage, the auth slice, one shared exchange in the tab | sign in and out, rotate, revoke, bootstrap, impersonate, reload | every request | a token presented twice is taken for theft; requests refused together; a reload between two steps | no token is spent twice; nobody waits for ever; the tenant in the banner is the one whose token goes out |
| Redux slices (`store/*Slice.ts`) and loading effects | the rows, the current item, loading flags and errors of each area | 39 slices' thunks and reducers; some fifty effects | pages, the API | late, overtaken, aborted and failed answers; shared flags and errors | the newest answer is shown; an abort is invisible; a failure stays visible; no spinner without a call |
| Server-driven grids (`hooks/useServerGrid.ts`) | the address, drafts of search boxes, their timers, the question in flight | type, filter, page, sort, navigate, refetch | the slices, the router | debounce timers against navigation; a stale total; effects that write what they read | once quiet, boxes, rows, page and controls agree with the address |
| Forms and dialogs | fields, a busy flag, an error | open, type, submit, dismiss | the slices, the pages that mount them | double submits; late answers; fields kept from another item; refusals nobody sees | one submission; sent for its own item; every refusal seen; never stuck |
| Incidents, reviews, RAID, change requests, deployments, builds, metrics, topology, imports, scanning, custom fields, users, groups, tenants, keys | records | create, edit, read, report | releases, environments | little ordering | mostly local validation |
| Routing, layout, charts, topology drawing, presentation switches (`uiSlice`) | what is shown | render | the stores | little | - |

Modelled are the first four parts and the client's slices, session, grids and
forms; of bookings, the environment register and the server's sessions, what the
modelled parts read. Section 8 says what comes next and what stays out.

## 2. The modules

| Module | What it is |
|---|---|
| `TaskGraph` | acyclicity of a task graph: every non-empty set of tasks has one with no predecessor in it |
| `Runbook` | plans, tasks, dependencies, execution; one action per request |
| `RunbookRacing` | the same handlers as overlapping transactions |
| `RunbookSchedule` | `compute` over a plan that is edited and carried out |
| `RunbookProofs` | theorems about `Runbook` and `RunbookRacing` |
| `RunbookScheduleProofs` | theorems about `RunbookSchedule` |
| `Outbox` | requests, publishers, NATS, faults |
| `AtLeastOnce` | what the outbox promises; `Outbox` implements it |
| `OutboxProofs` | theorems about `Outbox` |
| `Decommission` | the workflow, its policy and checklist, and every booking path it refuses |
| `DecommissionRacing` | the same handlers as overlapping transactions |
| `DecommissionProofs` | theorems about `Decommission` |
| `Effects` | the vocabulary of the store's tables: what one line of a reducer does to a field, a flag or an error |
| `StoreBookings`, `StoreEnvironments`, `StoreReleases`, `StoreCatalogue`, `StoreAdmin` | every slice with a server call, as tables: its operations and what their handlers do |
| `LocalLoads`, `OpenLoads` | effects that load into component state: those that ignore an overtaken answer, and those that do not |
| `AsyncState` | one slice or component of those tables with its calls in flight |
| `AsyncStateProofs` | theorems about `AsyncState` |
| `Session` | a tab's tokens and requests against the server's token families |
| `SessionProofs` | theorems about `Session` |
| `GridPages` | the options of the fifteen pages that use `useServerGrid` |
| `ServerGrid` | the hook itself, on any of those pages |
| `ServerGridProofs` | theorems about `ServerGrid` |
| `FormParts` | the vocabulary of the forms' tables |
| `FormsReleases`, `FormsEnvironments`, `FormsBookings`, `FormsCatalogue`, `FormsAdmin` | every form, dialog and command button of the client |
| `Forms` | one form of those tables, opened, typed into, submitted and answered |
| `FormsProofs` | what the tables say of every form, and the theorems about `Forms` that rest on it |
| `MC...` | instances for TLC: symmetry sets and team membership |

Conventions. An action is one accepted request, checks first and then all its
writes; a refusal rolls back, so it is the negation of the guard and takes no
step. `None` is SQL NULL. A row that is not inserted yet is an id whose foreign
key is `None`. `...Accepted` or `Accepts...` are a handler's checks and
`Writes...` its stores; the racing modules use the same operators at different
moments. `MaxTime` bounds every clock, `MaxRetired` the neighbours archived,
`MaxFaults` the faults of the outbox, `MaxIssued` the tokens the server issues,
`MaxOpen` the calls a tab has open at once,
`MaxCalls` the calls in flight or sent, `MaxInputs` what the user does to a grid,
`MaxRows` the rows the server has, `MaxOpenings` the openings of a form: these
are the only bounds, and each is a guard of the action it bounds, or the size of
the set it chooses from.

### Runbook

`slot`, `planLive` are `runbook_plan`; `taskPlan`, `taskLive`, `team`, `status`,
`startedAt`, `finishedAt` are `runbook_task`; `deps` is the dependency table
(pairs task, predecessor); `lastEvent` is the newest row of a task's history;
`retired` is the set of archived releases, environments and teams.

`CreatePlan` revives the oldest deleted row of the slot if there is one and
inserts otherwise. `DeletePlan` is refused once something has begun, and deletes
the tasks with the plan. `CreateTask`, `UpdateTask`, `DeleteTask` and
`SetPredecessors` are the task writes; the last is accepted only if the graph
with the new edges is acyclic and, once the task has begun, the new predecessors
are all done or skipped.
`Transition` is `runbook_execution_service.transition`: the table `EDGES`, who
may report, the reason a failure needs, the time checks, predecessors on a
start, successors on a reopen, the stamps and the history row.
`AllowedTransitions`, `ReadyClause` and `ReadyQueue` are the two other
copies of the ready rule: what a plan's page offers, and the SQL behind
"waiting on me".

`RunbookRacing` splits a request into `Read` (queries and checks on committed
state, one disjunct per handler, ending in what it decides to write; the ORM
then holds only the columns that changed), `Flush` (the statements, which wait
for rows another open transaction has written, and the re-read of the plan,
which fails on a cycle), and `Commit` or `Rollback`. All reads of a handler are
one step, and so are its writes, so the model has fewer interleavings than the
database but none the database does not have.

### RunbookSchedule

`Planned`, `Forecast`, `LatestFinish`, `Critical`, `Blocked`, `PlanState` and
`SlipMinutes` are the passes and flags of `compute`, in minutes. `Forecast`
takes an extra delay per task, zero in the code, so that "a delay moves the
end" can be asked of it. The actions are the edits of anchor, durations and
fixed starts, and `Runbook`'s own `Transition` and `Tick`. `topological_order` is
taken by its result: the passes are functions that recurse along the graph, and
"no order exists" is the negation of `TaskGraph!Acyclic`.

### Outbox

`txn[e]` is the transaction that wrote event `e`; `born[e]` ranks its
`created_at`, the transaction's start; `batch[w]` are the rows worker `w` holds
`FOR UPDATE SKIP LOCKED`; `sent[w]` those whose publish returned; `pc[w]` is
where `w` is in `run_event_publisher`. Faults: NATS goes down, a publish fails
after or before the message was stored, the commit fails, the process dies.
After a failed publish the rows stay locked until the reconnect, as in the code.
Backoff times are left out: a sleeping worker steps at any later moment.

### Decommission

`decEnv`, `teardownAt`, `until`, `decision`, `tornDown`, `cancelled`, `signed`
are the row and its attestations. `DecommissionState` is the state computed in
Python and `StatePredicate` the SQL filter of the worklist. `notice`, `known`,
`required` are the policy and the checklist; steps are created, renamed,
retired and deleted while signatures keep their keys. `bkEnv`, `bkReq`, `bkEnd`,
`bkGone` are bookings as far as `assert_bookable` reads them, and
`CreateRequest`, `CreateBooking` (single and series), `AddEnvironment`,
`MoveBooking` and `MoveRequest` are all the paths that create one or move its
end. `endThen` is a history variable: where each booking ended when the decommission
was started. Time is in instants, `DayLength` of them per day, because the
deadline is a day while the rows store instants.

### AsyncState

A slice is a table: for every thunk, what its argument is about and what its
pending, fulfilled and rejected cases do, each a set of effects of `Effects`
("raise this flag", "put the answer into this field", "merge it into the row
with its id", "only if the current item has this id"). Rows are abstracted to
the key they were read or written for, so that a field knows whose answer it
holds. A behaviour is about one slice and two operations of it that have a field
in common, every such pair being an initial state: a dispatch runs the pending
case, answers run theirs in any order, a list page's next question aborts the
one before, and the rejected case of the abort runs in the microtask after the
new pending case, as in Redux Toolkit. `LocalLoads` and `OpenLoads` use the same
tables for `useState` and `useEffect`.

### Session

`ls` is localStorage, `auth` the slice, `reqs` the requests of the tab with the
credential each was sent with, `refresh` the shared promise `refreshInFlight`,
`srv` the server's token families: which tokens were issued, spent and revoked.
Access and refresh token issued together have one number. `Exchange` joins the
exchange that is open or starts one; `Refreshed` and `RefreshFailed` settle it
for everybody who waits; `Unload` is the navigation of `endSession`, which drops
every request of the page. `interrupted` is a history variable: a page went
away while an exchange was open.

`SignInAs` sends the call of a *Sign In As* button, which is never disabled;
`EnterImpersonation` is what happens when it is answered, whatever the tab has
become by then: under another banner, signed out, signed in anew. The token of a
tenant is written as the tenant, so a token of one tenant is never mistaken for
that of another, and two tokens of one tenant are not told apart. `Login` needs
no signed-out tab, since `/login` is routed for everybody (`App.tsx:145`); it is
collapsed to its answer.

### ServerGrid

There are three addresses. `loc` is the router's location, `url` the address of
the last render, and `ref` is `searchParamsRef`, the address the next write
starts from: several timers may fire between two renders. A write (`Write`, the
hook's `patch`) sets `loc` and `ref`; a navigation by the user sets `loc` alone;
every render sets `ref` to what it renders. `Commit` is the render of a new
location and its effects in their order: reconcile the drafts, ask the server,
clamp the page. The user may act while a location is pending. BrowserRouter
renders a location as a transition, which gives way to every other update of the
page, so a render may still be of the old address: `Rerender` is the one an
answer causes, `Type` and `Refetch` cause their own, and `Render` is one for any
other reason (page state, a context, another part of the store). Each sets `ref`
back. The history variable `overtaken` records whether the page was rendered
while a location was pending, and whether the user went back to the rendered
address then, until the page is opened again. It separates what the hook gets
right by itself from what the router's order of renders does to it. `GridPages`
holds what the pages pass: the search boxes, the filters with what their control
shows and what is sent for it, and whether an overtaken question is aborted,
ignored or still applied. A page size is one or two rows, an answer's total is
any number up to `MaxRows`.

### Forms

A form is a record: what it is about, what seeds its fields, on which outcomes
they are emptied, where a refusal is shown, what removes an error, what closes
it, what disables its submit button, and whether it can be dismissed meanwhile.
`Forms` interprets it. Fields are abstracted to the item they were seeded from
and the items they were typed for. Two pages show nothing while the store holds
no record for them (`OffScreen`: `ProjectDetail`, `EnvironmentRequestDetail`).
Their slices clear `current` when a read starts, and the page reads again after
a save, so `record` is what the store holds and `reads` what the page is
reading; while `record` is blank nothing can be typed or sent. An answer is
stored whichever item it is for (`ReadAnswered`). A dialog that is unmounted
when it closes ('mount') starts with fresh fields, no error and no flag. The
tables are split by what the properties claim: in `...Held` the form cannot be
dismissed while its call is in flight, in `...Single` it cannot be submitted
twice, in `...Loose` neither is promised (a dialog that is mounted anew and can
be dismissed early is there). Where the code leaves a form out of a convention,
the form is named in an exception set beside the property (`CarriesOver`,
`NeverReports`, `KeepsErrors`, `Reseeds`) and in section 5.

## 3. The runs

| Run | Instance | States | Checks |
|---|---|---|---|
| `runbook` | 2 plans, 2 environments, 2 tasks, a team, a manager and a member, clock to 1, 1 archiving | 111,120 | predecessor invariant, acyclicity, never wedged, offered = accepted, queued = startable, a revived plan is empty |
| `race_start_reopen` | 2 overlapping requests | violation | finding 1 |
| `schedule_edits` | 2 tasks, moving anchor, durations, fixed starts | 43,568 | critical means that a delay moves the end; forecast = plan before the anchor; waiting never helps |
| `outbox` | 3 events, 2 replicas, batches of 2, 2 faults | 188,626 | safety, refinement of `AtLeastOnce`, the backlog drains |
| `decommission` | 1 environment, 1 decommission, 2 bookings, 1 request, 1 step, notices of 0 and 1, 2 instants a day, clock to 2 | 1,103,472 | state in Python = state in SQL, the deadline is a day, the date only moves out, the checklist never freezes, no path books past the line |
| `decom_race_booking` | 2 overlapping requests | violation | finding 2 |
| `store` | every pair of operations of every slice and effect that share a field, 2 keys, 3 calls | 356,146 | the newest answer is shown, aborts are silent, owners are kept apart, failures stay visible, writes open nothing, quiet means idle |
| `session` | 1 tab, 1 request besides `/auth/me` and `/auth/logout`, 2 tenants to sign in as, 2 tokens, 2 calls open at once | 829,271 | no token is spent twice, the waiters are released, role checks have a user, the banner's tenant is the one whose token goes out |
| `session_signout` | 1 tenant, 2 tokens | violation | finding 3 |
| `grid` | every kind of page, up to 2 rows, 2 inputs | 213,614 | once quiet, rows, page and controls agree with the address; so does a search box whose timer has run, unless something was rendered, or the user went back, while a location was pending; the page becomes quiet |
| `grid_deep_link` | 1 input | violation | finding 4 |
| `forms` | every form with every item it may be about, 2 items, 3 openings, 2 calls | 808,051 | one submission per item, answers meet their opening, sent for its own item, refusals seen, errors fresh, never stuck, typing survives |

Why the bounds are enough to be interesting. Two tasks make a direct back edge
and a start against a reopen possible; two plans an edge between plans and a
revival of the older one; two clock values a report at, before and after
another. A batch of two of three events leaves a remainder for the other
replica, and two faults allow a crash during the recovery of an outage. Two
instants a day give the deadline day a first and a last instant; two bookings
are what a request or a series needs to be refused because of one member. Two
overlapping requests suffice for every race listed. Two keys tell an item from
another, and three calls let one answer overtake another while a third shares
its flag. Two tokens are one before an exchange or a sign-in and one after;
two tenants tell a banner from another, and two calls open at once are two *Sign
In As* answered in either order, one that meets a sign-out, or a request that
joins an exchange. Two inputs to a grid are one whose effect
is pending and one that meets it; two rows on pages of one make a page that
disappears. Three openings are an item, another, and the first again.

Some cases need more than that, and were checked by widening the same cfg:
`Runbook` on three tasks without a clock, and `Decommission` with two
decommissions and one booking; the safety properties of `Grid` with three inputs
(3,314,681 states).

Tasks, decommissions, bookings, steps, clients and keys are interchangeable
where a cfg names a symmetry set. Runs that check liveness use none. Plans are
numbers, because the oldest row of a slot is the one revived.

Deadlock is checked in `race_start_reopen` and `schedule_edits`. Elsewhere it is
switched off because the bounds really end the behaviour: the clock has run out,
every id is used, everything is delivered, the user has used up the inputs.

Further properties are stated in the modules and hold on the same instances when
they are named in the cfg. They are plainer than the ones the runs list, and most
of them are theorems of section 6:

| cfg | Properties |
|---|---|
| `Runbook.cfg` | `TypeOK`, `EdgesStayInPlan`, `NoOrphanTask`, `OneRowPerSlot`, `ActualsMatchStatus`, `HistoryMatchesStatus`, `ReopenLeavesSuccessorsUntouched` |
| `ScheduleEdits.cfg` | `BlockedIffFailedAncestor`, `StateMatchesWork` |
| `OutboxDelivery.cfg` | `TypeOK`, `OnlyCommittedDelivered`, `NoSharedRow` |
| `Decommission.cfg` | `TypeOK`, `OneLiveDecommission`, `GrantIsTheDate`, `StateNeverReopens` |
| `RaceStartReopen.cfg` | `QueueAgreesUnderRaces` |

## 4. Fairness

`Outbox!FairSpec`: each worker's loop keeps taking steps (`WF` on its connect,
poll, send, reconnect, commit and restart), and an outage of NATS ends. The
first is what `supervise_event_publisher` is for: `run_event_publisher` catches
what publishing raises, reconnects with a backoff, and is started again if
anything else escapes. Nothing is assumed of requests (an open transaction may
stay open for ever) and nothing of faults except that there are finitely many in
a behaviour; with endless faults no outbox drains. `AtLeastOnce!ASpec` asks weak
fairness of `Deliver` for each event, which is exactly "a committed event is
eventually stored".

`Session`: the token exchange settles, by an answer or by an error
(`Refreshed \/ RefreshFailed`). It is one axios call, and a call to a server
that is gone ends in a network error.

`ServerGrid`: React renders after a change and runs its effects, timers fire,
calls settle (`System`). Nothing is assumed of the user.

The other specifications assume none, and check safety only.

## 5. Where the code and its documentation disagree

Four are runs that TLC must find violated:

1. `race_start_reopen`. "THE INVARIANT: no task is in_progress or done while any
   predecessor is anything other than done or skipped"
   (`runbook_execution_service.py:4-6`). A start reads that its predecessor is
   done; a reopen of the predecessor reads that its successor is not started;
   they write different rows and both commit.
2. `decom_race_booking`. `docs/user-guide.md:396`: a booking that would run past
   the scheduled teardown date is refused. A booking checked before an
   `initiate` commits, and inserted after it, is not.
3. `session_signout`. `AppLayout.tsx:126-128`: signing out revokes on the server
   first, because "clearing local state first would leave the session alive on
   the server". With an expired access token the logout is refused, the
   interceptor exchanges the refresh token, and the logout is sent again with
   the old refresh token in its body (`api.ts:78`): the new one is never revoked.
4. `grid_deep_link`. `useServerGrid.ts:84-86`: clamping against a stale total
   "would rewrite a legitimate deep link". At the render that opens the link the
   slice is not loading yet and its total is the previous view's, so the clamp
   (`:388`) rewrites the page.

The others are stated in the modules and are violated on the instance of a
listed run. To see one, replace the properties of the cfg by the one named.

| Property | cfg | The documentation says | What happens |
|---|---|---|---|
| `FinishNotBeforeStart` | `Runbook` | "a task cannot finish before its OWN recorded start" (`runbook_execution_service.py:121-122`) | the check runs only from `in_progress`; a failed task that is skipped with an earlier time gets a finish before its start |
| `LiveGraphAcyclic` | `RaceStartReopen`, `Kinds = {"create_plan", "create_task", "set_predecessors"}` | "Writes refuse cycles, so a cycle cannot reach `compute`" (cutover runbook design, 2026-09-28, line 249) | two predecessor edits overlap, each acyclic, together a cycle; every later read of the plan then fails |
| `OneLivePlanPerSlot` | `RaceStartReopen` | "At most one LIVE plan per (release, environment)" (`models/runbook.py:27-28`) | two creates overlap; no unique key backs the SELECT |
| `RevivedPlanStartsEmpty` | `RaceStartReopen`, `Kinds = {"create_plan", "create_task", "delete_plan"}` | "a revived plan starts empty" (`runbook_service.py:73-74`) | a task created while its plan is deleted survives it and returns with it |
| `CriticalIffDelayMovesEnd` | `ScheduleEdits` with three tasks, `MaxTime = 1`, `Durations = {0, 1}`, `Anchors = {0}`, no fixed start | a task is critical when a delay to it moves the end (same design, 239-240) | a task skipped ahead of its predecessors lets a successor start while an ancestor is open; the backward pass still counts that path |
| `GrantMeansWarned` | `Decommission` | on a grant the row falls through to `warned` (`environment_decommission_service.py:510-513`) | an answer that comes after the date asked for leaves the row `due` |
| `CancelledRefusesNothing` | `Decommission`, `HandEdits = {"active"}` | "A cancelled or torn-down decommission refuses nothing" (decommissioning design, 305-306) | cancelling a teardown leaves the environment's status `decommissioned`, which refuses every booking until somebody edits it |
| `EscapeHatchStaysOpen` | `Decommission` | cancel is always available to an Admin (`api/v1/decommissions.py:337`) | once the environment is deleted every handler of its decommission answers 404 |
| `OneLiveDecommission` | `DecomRaceBooking` | at most one live decommission (`environment_decommission_service.py:271-273`) | two initiates overlap |
| `TeardownDateOnlyMovesOut` | `DecomRaceBooking` | an extension is decided once (`:506-508`) | two decisions overlap; the refusal is overwritten by the grant |
| `BoxMatchesUrl` | `Grid` | the ref is written at once because otherwise a second write "would stomp the first one right back out" (`useServerGrid.ts:367-370`) | every render sets the ref to the rendered address (`:353`), and a keystroke (`:404`), an answer or any other update can render the page while the written location is pending; a second search box that comes due then, a filter or the clamp starts from the old address: the first text is no longer in it, and its box goes on showing it |
| `ActingMeansBanner` | `SessionTab` | "While impersonating, a sticky warning banner" (`docs/admin-guide.md:90`) | a reload keeps the token in storage and starts the slice without the banner (`authSlice.ts:24-33`) |
| `ExitReturnsToAccount` | `SessionTab` | "Exit to return to your account." (`ImpersonationBanner.tsx:22`) | a second *Sign In As* keeps the first tenant's token as the one to return to (`authSlice.ts:76`), and Exit makes it the ordinary token (`:83-86`) |
| `BannerNeedsSession` | `SessionTab` | "your session adopts the target tenant's `active_tenant_id`" (`docs/admin-guide.md:90`) | a *Sign In As* answered after a sign-out shows the banner, and stores its token, on a tab that is signed out (`adminSlice.ts:80-81`) |
| `RankEditSurvives` | `Forms` | the draft is "keyed on its id — not on `project`, whose identity changes on every refetch and would throw away an edit in progress" (`ProjectDetail.tsx:116-118`) | the read after a save (`:167`) clears `current` (`projectSlice.ts:247-249`), so the id goes to undefined and back: what is typed while the save is in flight is emptied and seeded again. `EnvironmentRequestDetail` does the same with its group (`environmentRequestSlice.ts:180-184`) |
| `LoadedIsShown` | `Forms` | "`current` is null until this project, specifically, loads" (`ProjectDetail.tsx:243`) | two routes in quick succession, and the first one's answer comes last; or a save answered after the route changed reads its own project again. The earlier project is then under this address, and Save sends its rank here |

Two more consequences are in the model without a property of their own. A
`/login` accepted under the banner replaces the token and leaves the banner and
the impersonation token in force; Exit then puts the previous account's token
back. A navigation by the user that is pending when a timer fires is lost, since
the timer writes the older address.

`BoxMatchesUrl` was found by a proof: an earlier model took `loc` for `ref`, and
`QuietBoxMatchesUrl` could not be shown to survive the render of an answer.

Tearing an environment down before its date is allowed by the code, its tests and
the admin guide, so it is not a disagreement. The order in which events reach
consumers is nowhere promised: `created_at` is the start of the transaction, and
a long request's event can follow a later one's.

In the client, a place that leaves a convention out is in the model, and the set
beside the property names it:

- A late answer still wins where the slice clears its current item on pending
  but compares no id: `projectSlice.ts:234-252`, `environmentRequestSlice.ts:172-186`.
  `decommissionSlice.ts:22-25` says that "a stale decommission must not render
  under a different environment's panel"; an answer that comes late is stored
  (`:306`) and shown without a comparison (`EnvironmentDetail.tsx:1024-1031`).
  The effects of `OpenLoads` have no guard either.
- A chip or a toggle that claims what is not asked of the server (`Misleading`):
  "Open only · clear" on `IncidentList.tsx:256-261` and `ReleaseList.tsx:291-296`,
  the kind toggle of `ScopeWindowsTable.tsx:211`.
- Forms that can send one item's fields to another (`CarriesOver`: edit mode of
  `SystemDetail` and `EnvironmentDetail` across a route change, the reasons of
  `DecommissionPanel`, a project's rank and a request's group when a read of an
  earlier one is answered last), that are filled again under the user's hands
  (`Reseeds`), that show an old error (`KeepsErrors`: `GateTypesPanel`
  and others), or never show a refusal (`NeverReports`: deleting a subsystem and
  others).

Hazards that were met and have no property: two tabs share one storage
(`api.ts:29`), so one may spend the token the other is about to send; a reload
during an exchange loses its answer, and the next use of the old token revokes
the family; an exchange answered after a sign-out stores its tokens again
(`api.ts:47`); an environment whose bookings could not be read is drawn as free
(`BookingScheduleGantt.tsx:129`); saves in two calls may do half
(`RunbookTaskDialog`, `TenantDetail`). On the server: overlapping booking
transitions, a series whose parent was deleted, accept against reject of a
membership, two escalations, two fulfilments of one request.

## 6. What is proved

The proofs are about requests that do not overlap (`Runbook`, `RunbookSchedule`,
`Decommission`) and, for two results, about requests that do (`RunbookRacing`),
about any interleaving of workers, faults and requests (`Outbox`), and about any
order of inputs, answers and renders (`AsyncState`, `Session`, `ServerGrid`,
`Forms`). They hold for any constants that satisfy the modules' assumptions: ids
of plans are naturals, managers are users, `None` is neither an id nor a status,
a day has an instant, the tasks of a schedule are finitely many, a duration is a
natural (`ge=0` in the API's schema) and times are integers, a batch has room,
the events are finitely many, the items of forms are not the markers for a new,
a closed or a blank one. Bounds on inputs, calls and openings are any naturals;
`AsyncStateProofs` assumes nothing of `Keys` or `MaxCalls`.

`RunbookProofs`. The predecessor invariant is not inductive: `failed ->
in_progress` looks at no predecessor, so the proof needs that a failed task's
predecessors rest too. `BegunTasksRest` says so of every task whose work has
begun, `in_progress`, `done` or `failed`; it survives a reopen because a reopen
requires that everything after it is untouched. `RowsStayInPlan` makes the
neighbours read within a plan the same as the neighbours in the table,
`NoOrphanTask` makes live tasks reachable, and `FreshRows` says that an id not
yet inserted carries no status. Together with the types they are `IInv`, which
gives `PredecessorInvariantHolds`, `EdgesStayInPlanHolds`, `NoOrphanTaskHolds`.
Then `LiveGraphAcyclicHolds`: acyclicity is stated over sets of tasks, so
removing tasks or edges keeps it (`AcyclicSubgraph`), so does adding a task that
waits on nothing (`AcyclicIsolated`), and a predecessor edit is checked.
`CutoverNeverWedgesHolds` applies acyclicity to the set of open tasks: one has
no open predecessor. The three copies of the ready rule agree on every reachable
table: `OfferedIffPerformableHolds` and `ReadyQueueIsStartableHolds` unfold both
sides and need `RowsStayInPlan`, because the SQL does not compare plans, and
`ActualsMatchStatusHolds`, because `transition` also compares the reported time
with the recorded one. `RevivedPlanStartsEmptyHolds` is `NoOrphanTask` seen from
a step that brings a plan back. `HistoryMatchesStatusHolds`,
`OneRowPerSlotHolds` and the action property
`ReopenLeavesSuccessorsUntouchedHolds` are inductive with the types.

Most of this fails when requests overlap (finding 1 and section 5). Two things
survive, for any number of overlapping requests of any kind:
`QueueAgreesUnderRacesHolds`, since the queue's SQL and the guard of `transition`
agree as long as no dependency row leads out of its plan, and
`HistoryMatchesStatusUnderRaces`. A request commits what it decided on an older
state, so `RacingInv` says of the writes in flight that they still fit
(`WritesFit`): an id to be inserted is new and drawn by this request alone, a
dependency row to be inserted joins rows of one plan, the status and its
history row are written for the same task and value. No handler rewrites the
plan of an inserted row, so a commit in between cannot undo the second.

`RunbookScheduleProofs`. The passes of `compute` are functions that recurse
along the graph, and the prover cannot use the library's induction theorems, nor
may it assume that such a function exists. `PassExists` proves that it does, for
any step along any grounded graph: take the sets of tasks closed under
predecessors on which the equations have a solution, note that two solutions
agree where both are defined (else look at a least task where they differ), and
that the union of all of them covers the graph (else add a least task outside).
`GroundedBothWays` turns the graph around for the backward pass. Every later
argument is about the first or the last task, in dependency order, at which a
claim fails (`FirstTask`, `LastTask`), with maxima and minima over finite sets.
`ScheduleInv` is `IInv`, an acyclic graph, the actual times matching the status,
and the types of anchor, durations and fixed starts. From it:

- `WaitingNeverHelpsHolds`: the forecast at a later clock is no earlier, row by row
  (`WaitingDelaysRows`).
- `OnPlanBeforeAnchorHolds`: with nothing begun before the anchor, planned rows
  satisfy the forecast's equations, so the two passes are one function (`PlanIsForecast`).
- `CriticalPathExactHolds`: everything after an open task is not started
  (`OpenHoldsBack`, from `BegunTasksRest` and the hypothesis that nothing was
  skipped ahead of its predecessors), so a row after it starts at the latest of its
  predecessors' finishes, its fixed start and now. Hence no float is negative, a minute on
  a task without float arrives at the end along the chain of tasks without
  float (`NoFloatMovesEnd`), and a minute on a task with float is absorbed:
  no delayed row passes its latest finish (`FloatAbsorbsDelay`).
- `StateMatchesWorkHolds`: for a plan that has tasks. One without tasks is
  `not_started` for ever and its forecast end is its anchor.
- `BlockedIffAfterFailure` and `BlockedTasksWait`: the flags are the least set
  of tasks that a failure reaches. "At any distance" is stated by closed sets
  (`AfterFailure`); the form with a transitive closure
  (`BlockedIffFailedAncestor`) is model-checked.

`OutboxProofs`. `OutboxInv` adds to the safety properties what a worker holds in
memory: what it counts as sent was stored, its batch is committed rows, sent
rows are of the batch, and it holds nothing outside the publishing session.
Without the first, a commit could stamp a row that never left. From it follow
`PublishedWasDeliveredHolds`, `OnlyCommittedDeliveredHolds`, `NoSharedRowHolds`,
and, step by step under the refinement mapping `seen <- {e : deliveries[e] > 0}`,
`ImplementsAtLeastOnceSafety`. `DuplicatesNeedAFaultHolds` adds that while no
fault has occurred a delivered event is stamped or still held, as sent, by the
one worker that sent it, so nobody can pick it up again.

`DecommissionProofs`. A grant writes the date asked for, so that it moves the
line out rests on `RequestsMoveOut` (an open request asks for a later date) and
`RowsStartBlank` (a new row carries no request). With `OneLiveDecommission`,
`GrantIsTheDate` and the booking invariant they form `IInv`. The booking
invariant is kept by every create and move through `assert_bookable`, by a grant
because the line only moves out, and by `Initiate` because the history variable
records the ends as they are then. `TeardownDateOnlyMovesOutHolds` is the action
property; `ChecklistNeverFreezesHolds`, `WorklistShowsTheStateHolds` and
`DeadlineIsADayHolds` need the types alone. `StateNeverReopensHolds` is an
action property of a computed state: it follows each write, and the clock, to
what `DecommissionState` makes of it.

`SessionProofs`. Three threads are kept apart. `BannerInv` says that a banner
names a tenant and that this tenant's token is the one in storage, which takes
precedence; it is kept by every answer of a *Sign In As*, in any order, and by a
`Login` that changes the token below it. `BannerTellsTheTruthHolds` claims that
direction only: the converse fails (`ActingMeansBanner`, section 5).
`TokensWereIssued` bounds every token in storage, in an exchange and in the body
of a logout by what the server has issued, so that a token the server hands out
is new. `NextTokenUnspent` says where the next token to be presented is at each
stage of an exchange (storage, the request, the answer) and that it is unspent;
it is what `NeverTakenForTheftHolds` needs, since a rotation spends one token
and puts another in its place in two steps. `WaitersHaveAnExchangeHolds` is the
safety half of "waiters are released".

`ServerGridProofs`. `QuietGridAnswersUrlHolds` and `PageExistsHolds` rest on one
invariant: rows on screen, or the question in flight, answer the rendered
address (`RowsAnswerUrl`); the loading flag means a question is in flight
(`FlagMeansAsked`); only pages without an abort have overtaken questions
(`OnlyBareIsLate`); a rendered address whose total is known is in range, or its
correction is pending (`SettledInRange`); and with nothing pending the ref is the
rendered address (`RefIsKnown`). The last two except a user who went back to the
rendered address before a pending one was rendered. `QuietBoxMatchesUrlHolds` needs
`overtaken = {} => DraftsHeadForUrl`: a draft without a timer is what the next
write starts from, which every input made over a pending location keeps. Without
the hypothesis `BoxMatchesUrl` is violated on `Grid.cfg`.
`ControlsTellTheTruthHolds` goes through the kinds of filter in
`GridPages` and every value an address can hold.

`FormsProofs`. A theorem about the forms has two halves. The first part of the
module evaluates the tables: every entry of every area keeps what its class
promises (`HeldOk`, `SingleOk`) and, unless an exception set of `Forms` names
it, reports its refusals, keeps to one item, clears its errors and is not filled
again by a background read (`Fit`). The second part shows that such an entry
behaves, by an invariant of its own for each property:

- `HeldInv`: while a call is in flight the flag is up, the call is the only one
  and the form is open as it was when it was sent; without the flag a dismissal
  could not be excluded. It gives `DisciplineSuffices`, for any form that keeps
  the discipline whatever else its handlers do, and `AnswersMeetTheirOpeningHolds`.
- `FlagInv`: the flag is up for exactly the items with a call in flight, one
  call each. One direction is `OneSubmitPerItemHolds`, the other `NeverStuckHolds`.
- `FailureIsSeenHolds` uses `HeldInv` at the moment of the refusal.
- `SentInv`: what is in the fields of an open form belongs to the item on
  screen, for one of four reasons: the form has one item only, its fields are
  filled when the id changes, or at every opening, or they are empty whenever it
  is closed. It gives `SentForItsItemHolds`.
- `ErrInv`: the error of an open form is of this opening, because opening clears
  it, because the form never closes, or because submitting and dismissing both
  clear it and `HeldInv` leaves no other way to close with an error. It gives
  `ErrorIsFreshHolds`.
- `TypingSurvivesHolds` is the action property: for a form outside `Reseeds` only
  opening, navigating, dismissing and a success that empties it (which is a new
  member of `Succeeded`) change what was typed.

`AsyncStateProofs`. Again two halves. The first goes through the store's tables,
one step per slice and per read or grid a property names, and shows that the
handlers keep a discipline: what is kept per owner is written only under the key
of the call (`OwnersTable`), only a read opens an item and a write replaces one
only by itself (`DetailTable`), nobody else writes what an ordered read shows
(`NewestTable`) or clears its error (`ErrorTable`), and nobody else lowers the
flag of a grid and only refused calls set its error (`GridTable`), and every
call that raises a flag lowers it whatever the answer (`EverySlice`). The second
is about any slice that keeps it:

- `CallsInv` describes the calls. Only grids abort, and a grid has at most one
  call in flight, its newest (`OneRunning`); without that an aborted call could
  still land after its successor.
- `PerOwner` and `Opened` are inductive with `CallsInv` and `DomainsInv`, and
  give `OwnersKeptApartHolds` and `WritesNeverOpenHolds`. `Opened` remembers
  that what is on screen was asked for by a read; the value alone does not say.
- `Shown` and `Visible` follow the newest call of the read: once it is answered
  the field holds its answer, once it has failed the error is its message. They
  give `NewestAnswerShownHolds` and `FailureStaysVisibleHolds`.
- `Spinning` and `Honest` say that a grid whose newest call is open has its flag
  up, and that an error on its page came from a refusal. They give
  `AbortsAreSilentHolds`.
- `IdleInv` says that a flag that is up waits for a call in flight whose answer
  will be heard, or for the return of the list page that was left. The second
  case is why `QuietMeansIdleHolds` is stated for a page that is on screen.

Only model-checked: liveness (`BacklogDrains`, the liveness half of
`ImplementsAtLeastOnce`, `WaitersAreReleased`, `SettlesDown`), which is outside
the prover's reach; `BlockedIffFailedAncestor` in its form with a transitive
closure; and, beyond the two results above, what overlapping requests do, where
the properties are violated or, like the decommission worklist, need only the
types.

## 7. What the models leave out

Names, descriptions, notes, kinds, sort orders and rendering. Who may
act, except in `Runbook`, where a team member and a manager differ. Tenants: every
query is filtered by tenant, and each model is one tenant. Custom fields. The
engine, its pool and its retries. In the racing modules, interleavings inside
the reads of one handler; series creation and `add_environment` race like
`create_request`. NATS JetStream and PostgreSQL appear only through what the
code relies on: a publish that returned was stored, `SKIP LOCKED` hands a row to
one session, a crash releases its locks.

In the client: what a field contains and whether it is valid, the words of an
error, the layout of a page, the charts and the topology drawing, routes and
their guards, `uiSlice`, the text of a query string beyond which parameters it
has. One tab. A handler that makes two calls in a row is one call that succeeds
or fails. A confirmation question is modelled from the moment it is confirmed.
The version-edit dialog of `EnvironmentDetail` is left out: nothing opens it
(`setEditVersionTarget` is only called with `null`).

The server's answer to the client is any answer: `AsyncState`, `ServerGrid` and
`Forms` do not compose with the server modules, and need not, because their
properties have to hold whatever comes back and in whatever order. `Session` does
contain the server's side of it, token families and their revocation; of *Sign In
As*, one call per tenant is open at a time.

A form that disappears because its page is left is not modelled: `Forms` follows
a page across its own routes and a dialog across its openings. The pages
filled by an effect on a record that stays in the store (`live`) are filled from the
item of their route: that a late answer can put another item there is
modelled in `AsyncState`. The overlap of requests on the server is in the racing
modules and their two runs; the sequential runs do not contain it, and the
properties it breaks are in section 5.

## 8. Plan

In order of what could go wrong and is not modelled yet:

1. `BookingCalendar`: exclusive use (an overlap check on the first occurrence of
   a series only), series edits and the deletion of a series whose parent is gone, group
   transitions that move all or nothing, the history chain, conflict
   acknowledgements; and a racing variant. It composes with `Decommission`
   through `Bookable`. Abstract specification: a calendar in which no two exclusive
   bookings of an environment overlap.
2. `ReleaseGates`: criteria, evidence, waivers, the automatic pass and its race,
   go/no-go conditions; then which rollback rehearsal counts.
3. `Contention`: verdicts and escalations on a pair of bookings, symmetric and
   first writer wins, with the unique key and the savepoint modelled.
4. `EnterpriseMembership`: the parent pointer against accept, reject, withdraw.
5. `EnvironmentRequests`: template moves, routing and fulfilment.

Theorems to add: the main invariant of each new module.

Not planned: reports, metrics and imports, which read or parse and decide
nothing; the topology catalogue; the scanners, whose work is parsing; user and
tenant administration on the server, whose rows the models read as parameters;
routing, layout and drawing in the client, which show what the modelled parts
hold.
