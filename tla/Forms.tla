-------------------------------- MODULE Forms --------------------------------
(***************************************************************************)
(* A form of the web client: its fields, its busy flag, the error it shows *)
(* and the calls it has sent.                                              *)
(*                                                                         *)
(* A behaviour is about one form of the tables, chosen in Init.  The user  *)
(* opens it on an item, types, submits and dismisses it in any order the   *)
(* controls allow; answers come late and in any order, and run the handler *)
(* of the form whatever it shows by then.  A handler that makes two calls  *)
(* in a row is one call here, which fails when either does.                *)
(***************************************************************************)
EXTENDS FormsReleases, FormsEnvironments, FormsBookings, FormsCatalogue,
        FormsAdmin, Sequences

CONSTANTS Items,         \* what the user may open a form on
          MaxOpenings,   \* bound: openings, or routes visited
          MaxCalls       \* bound: submissions

New       == "new"        \* an item that does not exist yet
TheRecord == "record"     \* the one record of a settings page
Closed    == "closed"
Blank     == "blank"      \* fields that were seeded from nothing

(* The entries of two tables.                                              *)
Both(f, g) == [x \in DOMAIN f \cup DOMAIN g |-> IF x \in DOMAIN f THEN f[x] ELSE g[x]]

(* Held: submit and every way to dismiss are disabled while a call is in   *)
(* flight.  Single: only submit is.  Loose: neither, or by a flag that     *)
(* other calls lower, or by one that a form mounted anew starts without.   *)
Held   == Both(ReleaseHeld, Both(EnvironmentHeld, Both(BookingHeld, Both(CatalogueHeld, AdminHeld))))
Single == Both(ReleaseSingle,
              Both(EnvironmentSingle, Both(BookingSingle, Both(CatalogueSingle, AdminSingle))))
Loose  == Both(ReleaseLoose,
              Both(EnvironmentLoose, Both(BookingLoose, Both(CatalogueLoose, AdminLoose))))
Table  == Both(Held, Both(Single, Loose))

ASSUME FormsConstants ==
    /\ MaxOpenings \in Nat \ {0} /\ MaxCalls \in Nat
    /\ Items \cap {New, TheRecord, Closed, Blank} = {}

VARIABLES form,      \* the form this behaviour is about
          shown,     \* the item it is open on, or Closed
          opening,   \* how often it was opened
          draft,     \* what its fields were seeded from, and the items typed for
          err,       \* the opening in which its error appeared, 0 for none
          flag,      \* the items its busy flag is up for
          calls,     \* what it sent, oldest first
          record,    \* what the store holds for a page that waits for it, or Blank
          reads      \* the items that page is reading

vars == <<form, shown, opening, draft, err, flag, calls, record, reads>>
page == <<record, reads>>

F == Table[form]
D == F.does

Targets(kind) == {i \in Items : kind \notin {"create", "settings"}}
                     \cup {i \in {New} : kind \in {"create", "both"}}
                     \cup {i \in {TheRecord} : kind = "settings"}
AllItems == Items \cup {New, TheRecord}
AlwaysOpen == D.kind \in {"page", "settings"}
Typed == D.kind \notin {"confirm", "command"}

(* A page that shows nothing while the store holds no record for it, and   *)
(* one whose fields are set by any answer: answers come in any order.      *)
WaitsForRecord == D.rereads /= {}
Hidden == WaitsForRecord /\ record = Blank
TakesAnyAnswer == WaitsForRecord \/ D.seed = "value"

Empty    == [of |-> Blank, typed |-> {}]
Fresh(i) == [of |-> i, typed |-> {}]

CallSet == [item : AllItems, opening : 0..MaxOpenings, of : AllItems \cup {Blank},
            typed : SUBSET AllItems, st : {"inflight", "ok", "failed"}, seen : BOOLEAN]
TypeOK ==
    /\ form \in DOMAIN Table
    /\ shown \in AllItems \cup {Closed}
    /\ opening \in 0..MaxOpenings
    /\ draft \in [of : AllItems \cup {Blank}, typed : SUBSET AllItems]
    /\ err \in 0..MaxOpenings
    /\ flag \subseteq AllItems
    /\ calls \in Seq(CallSet)
    /\ record \in AllItems \cup {Blank}
    /\ reads \subseteq AllItems

Init ==
    /\ form \in DOMAIN Table
    /\ IF AlwaysOpen
       THEN \E i \in Targets(D.kind) :
                /\ shown = i /\ opening = 1
                /\ draft = IF D.seed = "never" THEN Empty ELSE Fresh(i)
       ELSE shown = Closed /\ draft = Empty /\ opening = 0
    /\ err = 0
    /\ flag = {}
    /\ calls = <<>>
    /\ record = IF WaitsForRecord /\ AlwaysOpen THEN shown ELSE Blank
    /\ reads = {}

(* ---- what the user does ---- *)

Seeded(i) == IF \/ D.seed \in {"opener", "live", "mount"}
                \/ D.seed = "id" /\ draft.of /= i
             THEN Fresh(i) ELSE draft

(* A form that is mounted when it opens starts with a flag and an error of *)
(* its own.                                                                *)
Open(i) ==
    /\ shown = Closed
    /\ opening < MaxOpenings
    /\ shown' = i
    /\ opening' = opening + 1
    /\ draft' = Seeded(i)
    /\ err' = IF "open" \in D.resets \/ D.seed = "mount" THEN 0 ELSE err
    /\ flag' = IF D.seed = "mount" THEN {} ELSE flag
    /\ UNCHANGED <<form, calls, page>>

Type ==
    /\ shown /= Closed /\ ~Hidden
    /\ Typed
    /\ draft' = [draft EXCEPT !.typed = @ \cup {shown}]
    /\ UNCHANGED <<form, shown, opening, err, flag, calls, page>>

Disabled(i) == \/ F.busy \in {"own", "store"} /\ flag /= {}
               \/ F.busy \in {"row", "last"} /\ i \in flag
Raised(i) == IF F.busy = "none" THEN flag
             ELSE IF F.busy = "row" THEN flag \cup {i} ELSE {i}

Call == [item |-> shown, opening |-> opening, of |-> draft.of, typed |-> draft.typed,
         st |-> "inflight", seen |-> FALSE]

Submit ==
    /\ shown /= Closed /\ ~Hidden
    /\ ~Disabled(shown)
    /\ Len(calls) < MaxCalls
    /\ calls' = Append(calls, Call)
    /\ flag' = Raised(shown)
    /\ err' = IF "submit" \in D.resets THEN 0 ELSE err
    /\ shown' = IF D.closes = "atonce" THEN Closed ELSE shown
    /\ UNCHANGED <<form, opening, draft, page>>

Dismiss ==
    /\ ~AlwaysOpen
    /\ shown /= Closed
    /\ F.holds => flag = {}
    /\ shown' = Closed
    /\ draft' = IF "dismiss" \in D.clears THEN Empty ELSE draft
    /\ err' = IF "dismiss" \in D.resets THEN 0 ELSE err
    /\ UNCHANGED <<form, opening, flag, calls, page>>

(* The route of a page changes; what it reads for the new item is on its   *)
(* way.  Meanwhile the store's loading flag is up, or its record is gone   *)
(* and with it what an effect on the record had put into the form.         *)
Navigate(i) ==
    /\ D.kind = "page"
    /\ i /= shown
    /\ opening < MaxOpenings
    /\ shown' = i
    /\ opening' = opening + 1
    /\ draft' = IF D.seed = "id" THEN Fresh(i) ELSE IF D.seed = "read" THEN Empty ELSE draft
    /\ err' = IF D.seed \in {"id", "read"} /\ "open" \in D.resets THEN 0 ELSE err
    /\ flag' = IF F.busy = "store" THEN {i} ELSE flag
    /\ record' = Blank
    /\ reads' = IF TakesAnyAnswer THEN reads \cup {i} ELSE reads
    /\ UNCHANGED <<form, calls>>

(* ---- what arrives ---- *)

(* The item of the new route arrives and its effect fills the fields.      *)
Arrive ==
    /\ D.kind = "page"
    /\ D.seed = "live"
    /\ shown \notin {Closed, draft.of}
    /\ draft' = Fresh(shown)
    /\ err' = IF "open" \in D.resets THEN 0 ELSE err
    /\ flag' = IF F.busy = "store" THEN {} ELSE flag
    /\ UNCHANGED <<form, shown, opening, calls, page>>

(* A read is answered, for the item on screen or for an earlier one: the   *)
(* store takes what comes.                                                 *)
ReadAnswered(i) ==
    /\ i \in reads
    /\ reads' = reads \ {i}
    /\ record' = IF WaitsForRecord THEN i ELSE record
    /\ draft' = IF D.seed \in {"read", "value"} THEN Fresh(i) ELSE draft
    /\ err' = IF D.seed = "read" /\ "open" \in D.resets THEN 0 ELSE err
    /\ UNCHANGED <<form, shown, opening, flag, calls>>

ReadRefused(i) ==
    /\ i \in reads
    /\ reads' = reads \ {i}
    /\ UNCHANGED <<form, shown, opening, draft, err, flag, calls, record>>

(* Another form of the page makes it read its record again.                *)
ReadAgain ==
    /\ shown /= Closed
    /\ "other" \in D.rereads
    /\ reads' = reads \cup {shown}
    /\ record' = Blank
    /\ draft' = IF D.seed = "read" THEN Empty ELSE draft
    /\ UNCHANGED <<form, shown, opening, err, flag, calls>>

(* The item on screen is read again.                                       *)
Refresh ==
    /\ shown /= Closed
    /\ D.seed = "live"
    /\ draft' = Fresh(shown)
    /\ UNCHANGED <<form, shown, opening, err, flag, calls, page>>

(* Another call that shares the store's flag settles.                      *)
OtherSettles ==
    /\ F.busy = "store"
    /\ flag /= {}
    /\ flag' = {}
    /\ UNCHANGED <<form, shown, opening, draft, err, calls, page>>

(* The instance of the form that sent the call still exists.               *)
Mounted(c) == D.seed = "mount" => shown /= Closed /\ c.opening = opening

Lowered(c, outcome) ==
    IF ~Mounted(c) \/ outcome \notin D.frees \/ F.busy = "none" THEN flag
    ELSE IF F.busy = "row" THEN flag \ {c.item} ELSE {}

(* A page that reads its record again after a save reads that of the call, *)
(* whatever the route is by then.                                          *)
Succeed(k) ==
    LET c == calls[k]
    IN  /\ c.st = "inflight"
        /\ calls' = [calls EXCEPT ![k] = [c EXCEPT !.st = "ok"]]
        /\ shown' = IF D.closes \in {"ok", "always"} THEN Closed ELSE shown
        /\ draft' = IF ("ok" \in D.clears /\ Mounted(c)) \/ "own" \in D.rereads
                    THEN Empty ELSE draft
        /\ err' = IF "ok" \in D.resets /\ Mounted(c) THEN 0 ELSE err
        /\ flag' = Lowered(c, "ok")
        /\ record' = IF "own" \in D.rereads THEN Blank ELSE record
        /\ reads' = IF "own" \in D.rereads THEN reads \cup {c.item} ELSE reads
        /\ UNCHANGED <<form, opening>>

Seen(c) == /\ D.fails /= "silent"
           /\ D.fails = "inline" => shown /= Closed /\ ~Hidden /\ Mounted(c)

Fail(k) ==
    LET c == calls[k]
    IN  /\ c.st = "inflight"
        /\ calls' = [calls EXCEPT ![k] = [c EXCEPT !.st = "failed", !.seen = Seen(c)]]
        /\ shown' = IF D.closes = "always" THEN Closed ELSE shown
        /\ err' = IF D.fails = "inline" /\ Mounted(c) THEN opening ELSE err
        /\ flag' = Lowered(c, "failed")
        /\ UNCHANGED <<form, opening, draft, page>>

Next ==
    \/ \E i \in Targets(D.kind) : Open(i) \/ Navigate(i)
    \/ Type \/ Submit \/ Dismiss
    \/ Arrive \/ Refresh \/ OtherSettles \/ ReadAgain
    \/ \E i \in reads : ReadAnswered(i) \/ ReadRefused(i)
    \/ \E k \in DOMAIN calls : Succeed(k) \/ Fail(k)

Spec == Init /\ [][Next]_vars

(* ---- properties ---- *)

InFlight == {k \in DOMAIN calls : calls[k].st = "inflight"}
Guarded  == DOMAIN Held \cup DOMAIN Single

(* However the user dismisses, reopens and submits again, a form that      *)
(* disables its submit button with a flag of its own never has two calls   *)
(* in flight for one item: nothing is created or signed twice.             *)
OneSubmitPerItem ==
    form \in Guarded =>
        \A j, k \in InFlight : calls[j].item = calls[k].item => j = k

(* A form that cannot be dismissed while its call is in flight is still    *)
(* open, on the same item and in the same opening, when the answer comes:  *)
(* no answer closes, empties or reports on a later opening.                *)
StillOpenWhenAnswered == \A k \in InFlight : calls[k].opening = opening /\ shown /= Closed
AnswersMeetTheirOpening == form \in DOMAIN Held => StillOpenWhenAnswered

(* Forms that can send what was typed for one item to another: a page that *)
(* keeps its fields while the next route's item is read, or fills them     *)
(* with the late answer of an earlier read, and a dialog that keeps its    *)
(* fields when it is dismissed.                                            *)
CarriesOver ==
    {"systemEdit", "environmentEdit", "incident", "releaseTemplate", "pirSummary",
     "projectRank", "requestGroup", "operatingHours", "envGroupMembers",
     "userGroupMembers", "agreementAdd", "closeout", "linkChange",
     "decomExtend", "decomCancel", "decomInitiate"}

(* What any other form sends about an item was seeded from that item (or   *)
(* from nothing) and typed while the form was open on it.                  *)
SentForItsItem ==
    form \notin CarriesOver =>
        \A k \in DOMAIN calls : /\ calls[k].of \in {Blank, calls[k].item}
                                /\ calls[k].typed \subseteq {calls[k].item}

(* Handlers without a catch, or that do not look at the answer.            *)
NeverReports ==
    {"subSystemDelete", "systemDependencyDelete", "conflictAck", "customFieldDelete",
     "membership", "raidLinks", "admission", "userReactivate"}

(* Every refusal reaches the user, however late: in a toast, on the page   *)
(* or in the form that is still open.  A form that shows refusals inside   *)
(* itself and may be dismissed first cannot promise that.                  *)
FailureIsSeen ==
    (form \notin NeverReports /\ (D.fails = "inline" => form \in DOMAIN Held)) =>
        \A k \in DOMAIN calls : calls[k].st = "failed" => calls[k].seen

(* Forms that can open with the error of an earlier opening: their opener  *)
(* does not remove it, and dismissing does not, or comes before the        *)
(* refusal.                                                                *)
KeepsErrors ==
    {"bookingTypeCreate", "gateTypeCreate", "gateTypeDelete", "perspectiveCreate",
     "tierCreate", "tierDelete", "decomStepDelete", "infraComponentDelete",
     "userCreate", "tenantCreate", "tenantUserCreate", "systemEdit",
     "environmentEdit", "operatingHours", "requestGroup",
     "envGroupMembers", "userGroupMembers", "agreementAdd"}

(* An error on any other form appeared since it was opened.                *)
ErrorIsFresh ==
    (form \notin KeepsErrors /\ shown /= Closed) => err \in {0, opening}

(* Forms whose fields are filled again whenever their item is read again,  *)
(* or by the late answer of another read.                                  *)
Reseeds ==
    {"changeRequestEdit", "release", "handover", "systemEdit", "environmentEdit",
     "incident", "releaseTemplate", "pirSummary", "raidSettings", "scopeChangeRules",
     "tenantSettings", "namingPolicy", "lifecyclePolicy", "rollbackPolicy",
     "projectRank", "requestGroup", "operatingHours"}

Succeeded == {k \in DOMAIN calls : calls[k].st = "ok"}

(* In any other form, what the user typed is there until the form is       *)
(* dismissed, moved to another item or emptied by its own success: neither *)
(* a background read nor the answer to an earlier submit throws it away.   *)
TypingSurvives ==
    [][(/\ form \notin Reseeds
        /\ <<shown, opening>>' = <<shown, opening>>
        /\ ("ok" \in D.clears => Succeeded' = Succeeded))
          => draft.typed \subseteq draft'.typed]_vars

(* The source claims it for the project's rank as well: "keyed on its id - *)
(* not on `project`, whose identity changes on every refetch and would     *)
(* throw away an edit in progress" (ProjectDetail.tsx:116-118).  Violated: *)
(* the read after a save clears `current`, so what is typed while the save *)
(* is on its way is lost.                                                  *)
NotSent == draft.typed \ UNION {calls[k].typed : k \in DOMAIN calls}
RankEditSurvives ==
    [][(form = "projectRank" /\ <<shown, opening>>' = <<shown, opening>>)
          => NotSent \subseteq draft'.typed]_vars

(* "`current` is null until this project, specifically, loads"             *)
(* (ProjectDetail.tsx:243).  Violated: a read of an earlier project    *)
(* that is answered last, or a save answered after the route has changed,  *)
(* puts that project under this address, and Save sends its rank here.     *)
LoadedIsShown == form = "projectRank" => record \in {Blank, shown}

(* A form's own flag is up only while a call of it is in flight: no button *)
(* stays disabled for ever.  Creating a release from a template is the     *)
(* exception, its success leaves the page.                                 *)
NeverStuck ==
    (form \in Guarded \ {"templateInstantiate"} /\ flag /= {}) => InFlight /= {}
=============================================================================
