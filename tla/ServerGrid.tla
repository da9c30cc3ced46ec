------------------------------ MODULE ServerGrid ------------------------------
(***************************************************************************)
(* useServerGrid: a grid driven from the address bar.  The address is the  *)
(* truth; a keystroke in a search box is shown at once as a draft and is   *)
(* written to the address 300 ms later, one timer for each box.  Several   *)
(* timers may come due before React renders, and the user may navigate, so *)
(* the router's location, the address of the last render and the address   *)
(* the next write starts from are three variables.  Each render of a new   *)
(* location runs the hook's effects in their order: reconcile the drafts,  *)
(* ask the server, clamp the page.  Until that render, the page can be     *)
(* rendered any number of times for another reason, and used.              *)
(*                                                                         *)
(* A behaviour is about one page of GridPages, its search boxes and one of *)
(* its other filters, chosen in Init.                                      *)
(***************************************************************************)
EXTENDS GridPages, Integers, FiniteSets

CONSTANTS MaxRows,     \* bound: rows the server has for a question
          MaxInputs    \* bound: what the user does in one behaviour

ASSUME GridConstants == MaxRows \in Nat \ {0} /\ MaxInputs \in Nat

None == "none"
NoPage == -2           \* the address does not name a page
NoSize == 0            \* nor a page size
DefaultSize == 1       \* rows on a page, DEFAULT_PAGE_SIZE
OtherSize == 2         \* another of ALLOWED_PAGE_SIZES

VARIABLES page,      \* the page this behaviour is about
          ctl,       \* the filter besides the search boxes, at most one
          loc,       \* the router's location, rendered or not
          url,       \* searchParams of the last render
          ref,       \* searchParamsRef: the address the next write starts from
          patched,   \* patchedSearchRef: the address this hook last wrote
          drafts,    \* text not yet in the address, by search box
          timers,    \* text a timer will write, by search box
          asked,     \* the newest question, while in flight
          late,      \* overtaken questions that will still be applied
          shown,     \* the question the rows answer, and the total they came with
          loading,   \* totalPending
          overtaken, \* history: what came ahead of a pending location
          inputs     \* what the user has done so far

vars == <<page, ctl, loc, url, ref, patched, drafts, timers, asked, late, shown, loading,
          overtaken, inputs>>

Here == Pages[page]
Boxes == Here.text
Offered == UNION {{c.none, "v"} : c \in ctl}
Linked == {Absent} \cup UNION {{Cleared, c.none, "v"} : c \in ctl}
(* Pages that differ in nothing the hook can tell, for one filter.         *)
Alike(p, q, c) ==
    /\ Cardinality(Pages[p].text) = Cardinality(Pages[q].text)
    /\ Pages[p].answers = Pages[q].answers
    /\ c \subseteq {Pages[p].filters[f] : f \in DOMAIN Pages[p].filters}
    /\ (c = {}) = (Pages[p].filters = NoFilters)
Controls(p) == {Pages[p].filters[f] : f \in DOMAIN Pages[p].filters}

(* clampInt, clampPageSize and resolveSort: what cannot be trusted in the  *)
(* address falls back to a default.                                        *)
PageOf(u) == IF u.page >= 0 THEN u.page ELSE 0
SizeOf(u) == IF u.size \in {DefaultSize, OtherSize} THEN u.size ELSE DefaultSize
SortOf(u) == IF u.sort = "sortable" THEN "sortable" ELSE "default"

(* buildParams, and the translation the page's onFetch makes: "all" is no  *)
(* selection in a select and a search term in a search box.                *)
TextSent(v) == IF v \in {Absent, Cleared} THEN Unset ELSE v
FilterSent(c, v) ==
    LET kept == IF v \in {Absent, Cleared, "all"} THEN Unset ELSE v
    IN  CASE c.api = "asis" -> kept
          [] c.api = "known" -> IF kept = "v" THEN "v" ELSE Unset
          [] c.api = "window" -> IF kept = "any" THEN Unset ELSE "v"

Query(u) ==
    [page |-> PageOf(u), size |-> SizeOf(u), sort |-> SortOf(u),
     text |-> [k \in Boxes |-> TextSent(u.text[k])],
     sel |-> {FilterSent(c, u.sel) : c \in ctl}]

(* Addresses a link or the browser's history can open.                     *)
Blank == [page |-> NoPage, size |-> NoSize, sort |-> Absent,
          text |-> [k \in Boxes |-> Absent], sel |-> Absent]
Link(p, t, v) == [Blank EXCEPT !.page = p, !.text = [k \in Boxes |-> t], !.sel = v]
BadLink == [Blank EXCEPT !.page = -1, !.sort = "unknown"]
Links == {Link(p, t, v) : p \in {NoPage, MaxRows - 1}, t \in {Absent, "v"}, v \in Linked}
         \cup {BadLink}

NoText == [k \in Boxes |-> None]
NoRows == [q |-> {}, total |-> 0]

Sorts == {Absent, "sortable", "unknown"}
Texts == [Boxes -> {Absent, Cleared, "v", "all"}]
Address == [page : Int, size : Int, sort : Sorts, text : Texts, sel : Linked]
Typed == [Boxes -> {None, Cleared, "v", "all"}]

TypeOK ==
    /\ page \in DOMAIN Pages /\ ctl \subseteq Controls(page) /\ (\A c, d \in ctl : c = d)
    /\ loc \in Address /\ url \in Address /\ ref \in Address
    /\ drafts \in Typed /\ timers \in Typed
    /\ shown.total \in 0..MaxRows
    /\ loading \in BOOLEAN /\ overtaken \subseteq {"render", "return"}
    /\ inputs \in 0..MaxInputs

(* ---- asking the server ---- *)

(* Mutant: a question is not asked while another is in flight.             *)
Fetch_WhenFree(q) ==
    /\ asked' = IF asked = {} THEN {q} ELSE asked
    /\ late' = IF Here.answers = "bare" THEN late \cup asked ELSE late
    /\ loading' = TRUE

(* The fetch effect: abort the question in flight, then ask.  Without an   *)
(* abort or a generation the overtaken answer is applied when it comes.    *)
Fetch(q) ==
    /\ asked' = {q}
    /\ late' = IF Here.answers = "bare" THEN late \cup asked ELSE late
    /\ loading' = TRUE

(* patch: u is what ref was, with the changes made to it.                  *)
Write(u) == loc' = u /\ ref' = u /\ patched' = {u}

LastPage(total, size) == ((total + size - 1) \div size) - 1
(* Mutant: one page too many is allowed.                                   *)
Clamped_OffByOne(u, total, pending) ==
    IF ~pending /\ total > 0 /\ PageOf(u) > LastPage(total, SizeOf(u)) + 1
    THEN [u EXCEPT !.page = LastPage(total, SizeOf(u))] ELSE u
Clamped(u, total, pending) ==
    IF ~pending /\ total > 0 /\ PageOf(u) > LastPage(total, SizeOf(u))
    THEN [u EXCEPT !.page = LastPage(total, SizeOf(u))] ELSE u

(* The page is opened at an address: nothing is typed, the effects run,    *)
(* and rows kept in the store from an earlier visit are still there.       *)
Mounted(u, rows, busy) ==
    /\ url' = u
    /\ loc' = Clamped(u, rows.total, busy)
    /\ ref' = loc'
    /\ patched' = {loc'} \ {u}
    /\ drafts' = NoText
    /\ timers' = NoText
    /\ shown' = rows
    /\ asked' = {Query(u)}
    /\ late' = {}
    /\ loading' = TRUE
    /\ overtaken' = {}

Init ==
    /\ page \in DOMAIN Pages
    /\ IF Controls(page) = {} THEN ctl = {} ELSE \E c \in Controls(page) : ctl = {c}
    /\ page = CHOOSE p \in DOMAIN Pages : Alike(p, page, ctl)
    /\ url = Blank
    /\ loc = url
    /\ ref = url
    /\ patched = {}
    /\ drafts = NoText
    /\ timers = NoText
    /\ asked = {Query(url)}
    /\ late = {}
    /\ shown = NoRows
    /\ loading = TRUE
    /\ overtaken = {}
    /\ inputs = 0

(* React renders the new location and runs the effects.                    *)
Commit ==
    /\ loc /= url
    /\ url' = loc
    /\ LET self == patched = {loc}
       IN  /\ drafts' = [k \in Boxes |->
                IF self /\ drafts[k] /= loc.text[k] THEN drafts[k] ELSE None]
           /\ timers' = [k \in Boxes |->
                IF self \/ drafts[k] = None THEN timers[k] ELSE None]
    /\ LET next == Clamped(loc, shown.total, loading)
       IN  loc' = next /\ ref' = next /\ patched' = {next} \ {loc}
    /\ IF Query(loc) /= Query(url) THEN Fetch(Query(loc))
       ELSE UNCHANGED <<asked, late, loading>>
    /\ UNCHANGED <<page, ctl, overtaken, shown, inputs>>

(* The router renders a location as a transition, which gives way to every *)
(* other update of the page.  History: the page has been rendered while a  *)
(* location was pending.                                                   *)
Ahead == overtaken' = IF loc = url THEN overtaken ELSE overtaken \cup {"render"}

(* A render for any other reason: page state, a context, another part of   *)
(* the store.  It is of the address on screen, or an attempt at the        *)
(* pending one that is not finished; ref follows it, no effect runs.       *)
Render ==
    /\ ref' \in {url, loc}
    /\ Ahead
    /\ UNCHANGED <<page, ctl, loc, url, patched, drafts, timers, asked, late, shown, loading,
                   inputs>>

(* The render an answer causes.  The clamp effect runs again, on the total *)
(* the answer brings, and starts from the rendered address.                *)
Rerender(total) ==
    /\ Ahead
    /\ LET next == Clamped(url, total, FALSE)
       IN  IF next = url THEN ref' = url /\ UNCHANGED <<loc, patched>>
           ELSE Write(next)

(* An answer to the newest question, with the rows there are by then.      *)
Answer(total) ==
    /\ asked /= {}
    /\ shown' = [q |-> asked, total |-> total]
    /\ asked' = {}
    /\ loading' = FALSE
    /\ Rerender(total)
    /\ UNCHANGED <<page, ctl, url, drafts, timers, late, inputs>>

(* It fails: a store keeps the rows it had, a page's own state is emptied. *)
Fail ==
    /\ asked /= {}
    /\ shown' = [q |-> {}, total |-> IF Here.answers = "abort" THEN shown.total ELSE 0]
    /\ asked' = {}
    /\ loading' = FALSE
    /\ Rerender(shown'.total)
    /\ UNCHANGED <<page, ctl, url, drafts, timers, late, inputs>>

(* An overtaken question that nobody aborted is answered, and shown.       *)
AnswerLate(q, total) ==
    /\ q \in late
    /\ late' = late \ {q}
    /\ shown' = [q |-> {q}, total |-> total]
    /\ loading' = FALSE
    /\ Rerender(total)
    /\ UNCHANGED <<page, ctl, url, drafts, timers, asked, inputs>>

(* ---- the user ---- *)

(* The user acts on what has been rendered, a location pending or not.     *)
Acts == inputs < MaxInputs /\ inputs' = inputs + 1

(* setFilter of a search box: the draft at once, with a render of its own, *)
(* the address later.                                                      *)
Type(k, v) ==
    /\ Acts
    /\ k \in Boxes
    /\ drafts' = [drafts EXCEPT ![k] = v]
    /\ timers' = [timers EXCEPT ![k] = v]
    /\ ref' = url /\ Ahead
    /\ UNCHANGED <<page, ctl, loc, url, patched, asked, late, shown, loading>>

(* Mutant: the timer is armed again when it fires.                         *)
Due_Rearmed(k) ==
    /\ timers[k] /= None
    /\ Write([ref EXCEPT !.text[k] = timers[k], !.page = NoPage])
    /\ UNCHANGED <<page, ctl, overtaken, url, drafts, timers, asked, late, shown,
                   loading, inputs>>

(* Mutant: the text is written into the address of the last render.        *)
Due_Rendered(k) ==
    /\ timers[k] /= None
    /\ Write([url EXCEPT !.text[k] = timers[k], !.page = NoPage])
    /\ timers' = [timers EXCEPT ![k] = None]
    /\ UNCHANGED <<page, ctl, overtaken, url, drafts, asked, late, shown, loading, inputs>>

(* The timer of a search box: the newest address, with the text and        *)
(* without the page.                                                       *)
Due(k) ==
    /\ timers[k] /= None
    /\ Write([ref EXCEPT !.text[k] = timers[k], !.page = NoPage])
    /\ timers' = [timers EXCEPT ![k] = None]
    /\ UNCHANGED <<page, ctl, overtaken, url, drafts, asked, late, shown, loading, inputs>>

(* setFilter of any other filter.                                          *)
Select(v) ==
    /\ Acts
    /\ ctl /= {}
    /\ Write([ref EXCEPT !.sel = v, !.page = NoPage])
    /\ UNCHANGED <<page, ctl, overtaken, url, drafts, timers, asked, late, shown, loading>>

Paginate(p, size) ==
    /\ Acts
    /\ p <= LastPage(shown.total, size)
    /\ Write([ref EXCEPT !.page = p, !.size = size])
    /\ UNCHANGED <<page, ctl, overtaken, url, drafts, timers, asked, late, shown, loading>>

Sort ==
    /\ Acts
    /\ Write([ref EXCEPT !.sort = "sortable", !.page = NoPage])
    /\ UNCHANGED <<page, ctl, overtaken, url, drafts, timers, asked, late, shown, loading>>

(* refetch, after a create or a delete: a render, and its effect.          *)
Refetch ==
    /\ Acts
    /\ Fetch(Query(url))
    /\ ref' = url /\ Ahead
    /\ UNCHANGED <<page, ctl, loc, url, patched, drafts, timers, shown>>

(* Back, Forward or a link, while the page stays on screen; ref follows    *)
(* when it is rendered.  A return to the rendered address, ahead of a      *)
(* pending one, runs no effect.                                            *)
Navigate(u) ==
    /\ Acts
    /\ u /= loc
    /\ loc' = u
    /\ overtaken' = IF u = url THEN overtaken \cup {"return"} ELSE overtaken
    /\ UNCHANGED <<page, ctl, url, ref, patched, drafts, timers, asked, late, shown, loading>>

(* The page is left, and opened again: timers are cleared and the question *)
(* in flight aborted; an aborted call does not lower the store's flag.     *)
Reopen(u) ==
    /\ Acts
    /\ IF Here.answers = "abort" THEN Mounted(u, shown, loading) ELSE Mounted(u, NoRows, FALSE)
    /\ UNCHANGED <<page, ctl>>

Input ==
    \/ \E k \in Boxes, v \in {Cleared, "v", "all"} : Type(k, v)
    \/ \E v \in Offered : Select(v)
    \/ \E p \in 0..MaxRows, size \in {DefaultSize, OtherSize} : Paginate(p, size)
    \/ Sort \/ Refetch
    \/ \E u \in Links : Navigate(u) \/ Reopen(u)

System ==
    \/ Commit \/ Fail
    \/ \E k \in Boxes : Due(k)
    \/ \E total \in 0..MaxRows : Answer(total) \/ \E q \in late : AnswerLate(q, total)

Next == Input \/ Render \/ System

(* Timers come due, locations are rendered and calls settle.               *)
Spec == Init /\ [][Next]_vars /\ WF_vars(System)

(* ---- properties ---- *)

Quiet == loc = url /\ asked = {} /\ late = {} /\ \A k \in Boxes : timers[k] = None

(* Once the timers have run, a search box shows what the address says:     *)
(* text is neither lost when two boxes come due together nor left behind   *)
(* when the user navigates away, unless something has been rendered, or    *)
(* the user has gone back, between a write of the address and its render.  *)
BoxMatchesUrl ==
    (loc = url /\ \A k \in Boxes : timers[k] = None)
        => \A k \in Boxes : drafts[k] \in {None, url.text[k]}
QuietBoxMatchesUrl == overtaken = {} => BoxMatchesUrl

(* When everything has settled the rows answer the question the address    *)
(* asks, or the page says it could not load them.                          *)
QuietGridAnswersUrl ==
    (Quiet /\ Here.answers /= "bare") => shown.q \subseteq {Query(url)}

(* No empty page over rows that exist: once settled, the page is one the   *)
(* total has, unless the user has gone back to a page that does not exist  *)
(* before its correction was rendered.                                     *)
PageExists ==
    (Quiet /\ shown.total > 0 /\ "return" \notin overtaken) =>
        PageOf(url) <= LastPage(shown.total, SizeOf(url))

(* What a control shows, and what choosing it promises.                    *)
ShownBy(c, v) == IF v = Absent THEN c.silent ELSE IF v = Cleared THEN c.empty ELSE v
Promised(v) == IF v = "v" THEN "v" ELSE Unset

(* Controls that do not: the kind toggle of ScopeWindowsTable, and the     *)
(* "Open only" chips of the incident and the release lists.                *)
Misleading == {KindToggle, OpenChip}

(* What a filter control shows is what the server was asked: no two        *)
(* choices collapse into one question, none is shown while another is in   *)
(* force.                                                                  *)
ControlsTellTheTruth ==
    Quiet => \A c \in ctl \ Misleading : Query(url).sel = {Promised(ShownBy(c, url.sel))}

(* When the user stops, the grid settles: the effects that write the       *)
(* address do not chase each other.                                        *)
SettlesDown == (inputs = MaxInputs) ~> Quiet

(* Stated in UseServerGridOptions of totalPending: the page in a link is   *)
(* not rewritten before that page's own response arrives.                  *)
DeepLinkKept == [][url' /= url => loc'.page = url'.page]_vars
=============================================================================
