--------------------------- MODULE ServerGridProofs ---------------------------
(***************************************************************************)
(* What useServerGrid guarantees on every page, whatever the user does and *)
(* for any number of rows.                                                 *)
(***************************************************************************)
EXTENDS ServerGrid, TLAPS

(* ---- the clamp, and the shape of an address ---- *)

(* An address stays one when its parts are replaced.                       *)
LEMMA AddressParts ==
    ASSUME NEW S, NEW T, NEW V, NEW u \in [page : Int, size : Int, sort : S, text : T, sel : V]
    PROVE  /\ u.page \in Int /\ u.size \in Int /\ u.sort \in S /\ u.text \in T /\ u.sel \in V
           /\ \A p \in Int :
                /\ [u EXCEPT !.page = p] \in [page : Int, size : Int, sort : S, text : T, sel : V]
                /\ [u EXCEPT !.page = p].page = p
                /\ [u EXCEPT !.page = p].text = u.text
OBVIOUS

(* clampPageSize leaves one of the offered sizes, clampInt a page number   *)
(* that is not negative, and a set with a row has a last page.             *)
LEMMA PageNumbers ==
    ASSUME NEW u, u.page \in Int, NEW total \in Nat, total > 0
    PROVE  /\ PageOf(u) \in Nat
           /\ SizeOf(u) \in {1, 2}
           /\ LastPage(total, SizeOf(u)) \in Nat
           /\ LastPage(total, SizeOf(u)) <= total
<1>1. PageOf(u) \in Nat
    BY DEF PageOf
<1>2. SizeOf(u) = 1 \/ SizeOf(u) = 2
    BY DEF SizeOf, DefaultSize, OtherSize
<1>3. CASE SizeOf(u) = 1
    <2>1. LastPage(total, 1) = total - 1
        BY DEF LastPage
    <2> QED BY <1>1, <1>3, <2>1
<1>4. CASE SizeOf(u) = 2
    <2>1. LastPage(total, 2) = ((total + 1) \div 2) - 1
        BY DEF LastPage
    <2>2. (total + 1) \div 2 \in Nat /\ (total + 1) \div 2 >= 1 /\ (total + 1) \div 2 <= total
        OBVIOUS
    <2> QED BY <1>1, <1>4, <2>1, <2>2
<1> QED BY <1>2, <1>3, <1>4

(* What the clamp effect leaves is an address; unchanged, its page exists; *)
(* changed, it differs in its page.                                        *)
LEMMA ClampKeepsShape ==
    ASSUME NEW u \in Address, NEW total \in Nat, NEW pending \in BOOLEAN
    PROVE  /\ Clamped(u, total, pending) \in Address
           /\ Clamped(u, total, pending).text = u.text
           /\ (Clamped(u, total, pending) = u /\ ~pending /\ total > 0)
                => PageOf(u) <= LastPage(total, SizeOf(u))
<1>1. u.page \in Int
    BY DEF Address
<1>2. CASE ~pending /\ total > 0 /\ PageOf(u) > LastPage(total, SizeOf(u))
    <2> DEFINE last == LastPage(total, SizeOf(u))
    <2>1. last \in Nat /\ PageOf(u) \in Nat
        BY <1>1, <1>2, PageNumbers
    <2>2. u.page /= last
        BY <1>1, <1>2, <2>1 DEF PageOf
    <2>3. Clamped(u, total, pending) = [u EXCEPT !.page = last]
        BY <1>2 DEF Clamped
    <2> HIDE DEF last
    <2>4. [u EXCEPT !.page = last] \in Address
        BY <2>1, AddressParts DEF Address
    <2>5. [u EXCEPT !.page = last].text = u.text
        BY DEF Address
    <2>6. [u EXCEPT !.page = last].page = last
        BY DEF Address
    <2> QED BY <2>2, <2>3, <2>4, <2>5, <2>6
<1>3. CASE ~(~pending /\ total > 0 /\ PageOf(u) > LastPage(total, SizeOf(u)))
    <2>1. Clamped(u, total, pending) = u
        BY <1>3 DEF Clamped
    <2>2. ASSUME ~pending, total > 0
          PROVE  PageOf(u) <= LastPage(total, SizeOf(u))
        BY <1>1, <1>3, <2>2, PageNumbers
    <2> QED BY <2>1, <2>2
<1> QED BY <1>2, <1>3

(* ---- types ---- *)

(* A behaviour stays on its page, with its filter.                         *)
LEMMA PageStays == [Next]_vars => page' = page /\ ctl' = ctl
BY DEF Next, Input, Render, System, Type, Select, Paginate, Sort, Refetch, Navigate, Reopen,
       Commit, Fail, Due, Answer, AnswerLate, vars

(* So what a page determines stays too.                                    *)
LEMMA ShapesStay ==
    ASSUME page' = page, ctl' = ctl
    PROVE  /\ Here' = Here /\ Boxes' = Boxes /\ Linked' = Linked
           /\ Address' = Address /\ Typed' = Typed
<1>1. Here' = Here /\ Boxes' = Boxes
    BY DEF Here, Boxes
<1>2. Linked' = Linked
    BY DEF Linked
<1>3. Texts' = Texts /\ Typed' = Typed
    BY <1>1 DEF Texts, Typed
<1>4. Address' = Address
    BY <1>2, <1>3 DEF Address
<1> QED BY <1>1, <1>2, <1>3, <1>4

(* What a link or the history opens is an address.                         *)
LEMMA LinksAreAddresses == Blank \in Address /\ Links \subseteq Address
<1>1. /\ Absent \in Sorts /\ "unknown" \in Sorts /\ Absent \in Linked
      /\ NoPage \in Int /\ NoSize \in Int /\ -1 \in Int /\ MaxRows - 1 \in Int
    <2>1. Absent \in Sorts /\ "unknown" \in Sorts
        BY DEF Sorts
    <2>2. Absent \in Linked
        BY DEF Linked
    <2>3. NoPage \in Int /\ NoSize \in Int /\ -1 \in Int
        BY DEF NoPage, NoSize
    <2>4. MaxRows - 1 \in Int
        BY GridConstants
    <2> QED BY <2>1, <2>2, <2>3, <2>4
<1>2. [k \in Boxes |-> Absent] \in Texts /\ [k \in Boxes |-> "v"] \in Texts
    BY DEF Texts
<1>3. Blank \in Address
    BY <1>1, <1>2 DEF Blank, Address
<1>4. ASSUME NEW p \in {NoPage, MaxRows - 1}, NEW t \in {Absent, "v"}, NEW v \in Linked
      PROVE  Link(p, t, v) \in Address
    <2>1. [k \in Boxes |-> t] \in Texts
        BY DEF Texts
    <2> QED BY <1>1, <1>3, <2>1 DEF Address, Link
<1>5. BadLink \in Address
    BY <1>1, <1>3 DEF Address, BadLink
<1>6. Links \subseteq Address
    BY <1>4, <1>5 DEF Links
<1> QED BY <1>3, <1>6

LEMMA NoPageIsInt == NoPage \in Int
BY DEF NoPage

(* What each write of the hook makes of an address.                        *)
LEMMA TextWritten ==
    ASSUME NEW u \in Address, NEW k \in Boxes, NEW t \in {Cleared, "v", "all"}
    PROVE  LET w == [u EXCEPT !.text[k] = t, !.page = NoPage]
           IN  w \in Address /\ w.page = NoPage /\ w.text = [u.text EXCEPT ![k] = t]
<1>1. u.text \in Texts
    BY DEF Address
<1>2. [u.text EXCEPT ![k] = t] \in Texts
    BY <1>1 DEF Texts
<1>3. NoPage \in Int
    BY NoPageIsInt
<1> DEFINE x == [u.text EXCEPT ![k] = t]
<1>4. [u EXCEPT !.text[k] = t, !.page = NoPage] = [u EXCEPT !.text = x, !.page = NoPage]
    BY DEF Address
<1> HIDE DEF x
<1> QED BY <1>2, <1>3, <1>4 DEF Address, x

LEMMA OthersWritten ==
    ASSUME NEW u \in Address
    PROVE  /\ \A v \in Linked :
                LET w == [u EXCEPT !.sel = v, !.page = NoPage]
                IN  w \in Address /\ w.page = NoPage /\ w.text = u.text
           /\ LET w == [u EXCEPT !.sort = "sortable", !.page = NoPage]
              IN  w \in Address /\ w.page = NoPage /\ w.text = u.text
<1>1. NoPage \in Int /\ "sortable" \in Sorts
    BY DEF NoPage, Sorts
<1> QED BY <1>1 DEF Address

LEMMA PageWritten ==
    ASSUME NEW u \in Address, NEW p \in Int, NEW n \in Int
    PROVE  LET w == [u EXCEPT !.page = p, !.size = n]
           IN  w \in Address /\ w.page = p /\ w.size = n /\ w.text = u.text
BY DEF Address

(* The state the type invariant speaks of, after a step.                   *)
Settles ==
    /\ loc' \in Address /\ url' \in Address /\ ref' \in Address
    /\ drafts' \in Typed /\ timers' \in Typed
    /\ shown'.total \in 0..MaxRows
    /\ loading' \in BOOLEAN /\ overtaken' \subseteq {"render", "return"}
    /\ inputs' \in 0..MaxInputs

LEMMA ActsCounted == TypeOK /\ Acts => inputs' \in 0..MaxInputs
BY GridConstants DEF TypeOK, Acts

LEMMA AheadType == TypeOK /\ Ahead => overtaken' \subseteq {"render", "return"}
BY DEF TypeOK, Ahead

LEMMA InputTypes == TypeOK /\ Input => Settles
<1> SUFFICES ASSUME TypeOK, Input PROVE Settles
    OBVIOUS
<1>1. ASSUME NEW k \in Boxes, NEW v \in {Cleared, "v", "all"}, Type(k, v) PROVE Settles
    <2>1. [drafts EXCEPT ![k] = v] \in Typed /\ [timers EXCEPT ![k] = v] \in Typed
        BY DEF TypeOK, Typed
    <2> QED BY <1>1, <2>1, ActsCounted, AheadType DEF TypeOK, Type, Settles
<1>2. ASSUME NEW v \in Offered, Select(v) PROVE Settles
    <2>1. v \in Linked
      <3>1. PICK c \in ctl : v \in {c.none, "v"}
        BY DEF Offered
      <3>2. v \in {Cleared, c.none, "v"}
        BY <3>1
      <3> QED BY <3>2 DEF Linked
    <2>2. [ref EXCEPT !.sel = v, !.page = NoPage] \in Address
        BY <2>1, OthersWritten DEF TypeOK
    <2> QED BY <1>2, <2>2, ActsCounted DEF TypeOK, Select, Write, Settles
<1>3. ASSUME NEW p \in 0..MaxRows, NEW n \in {DefaultSize, OtherSize}, Paginate(p, n) PROVE Settles
    <2>1. p \in Int /\ n \in Int
        BY GridConstants DEF DefaultSize, OtherSize
    <2>2. [ref EXCEPT !.page = p, !.size = n] \in Address
        BY <2>1, PageWritten DEF TypeOK
    <2> QED BY <1>3, <2>2, ActsCounted DEF TypeOK, Paginate, Write, Settles
<1>4. ASSUME Sort PROVE Settles
    <2>1. [ref EXCEPT !.sort = "sortable", !.page = NoPage] \in Address
        BY OthersWritten DEF TypeOK
    <2> QED BY <1>4, <2>1, ActsCounted DEF TypeOK, Sort, Write, Settles
<1>5. ASSUME Refetch PROVE Settles
    BY <1>5, ActsCounted, AheadType DEF TypeOK, Refetch, Fetch, Settles
<1>6. ASSUME NEW u \in Links, Navigate(u) PROVE Settles
    BY <1>6, ActsCounted, LinksAreAddresses DEF TypeOK, Navigate, Settles
<1>7. ASSUME NEW u \in Links, Reopen(u) PROVE Settles
    <2>1. u \in Address /\ NoText \in Typed
        BY LinksAreAddresses DEF NoText, Typed
    <2>2. ASSUME NEW rows, rows.total \in 0..MaxRows, NEW busy \in BOOLEAN, Mounted(u, rows, busy)
          PROVE  Settles
        <3>1. rows.total \in Nat
            BY <2>2, GridConstants
        <3>2. Clamped(u, rows.total, busy) \in Address
            BY <2>1, <3>1, ClampKeepsShape
        <3>3. inputs' \in 0..MaxInputs
            BY <1>7, ActsCounted DEF Reopen
        <3> QED BY <2>1, <2>2, <3>2, <3>3 DEF Mounted, Settles
    <2>3. NoRows.total \in 0..MaxRows
        BY GridConstants DEF NoRows
    <2> QED BY <1>7, <2>2, <2>3 DEF Reopen, TypeOK
<1> QED BY <1>1, <1>2, <1>3, <1>4, <1>5, <1>6, <1>7 DEF Input

(* The page of u is one that a set of total rows has.                      *)
InRange(u, total) == total > 0 => PageOf(u) <= LastPage(total, SizeOf(u))

(* The render an answer causes keeps the rendered address, if its page     *)
(* exists, or else replaces the location by one that differs from it.      *)
LEMMA RerenderEffect ==
    ASSUME TypeOK, NEW total \in 0..MaxRows, Rerender(total)
    PROVE  /\ loc' \in Address /\ ref' \in Address /\ overtaken' \subseteq {"render", "return"}
           /\ \/ ref' = url /\ loc' = loc /\ patched' = patched /\ InRange(url, total)
              \/ ref' = loc' /\ patched' = {ref'} /\ ref' /= url /\ ref'.text = url.text
<1> DEFINE next == Clamped(url, total, FALSE)
<1>1. total \in Nat /\ url \in Address /\ loc \in Address
    BY GridConstants DEF TypeOK
<1>2. /\ next \in Address
      /\ next.text = url.text
      /\ next = url => InRange(url, total)
    BY <1>1, ClampKeepsShape DEF InRange
<1>3. IF next = url THEN ref' = url /\ UNCHANGED <<loc, patched>> ELSE Write(next)
    BY DEF Rerender
<1> HIDE DEF next
<1>4. overtaken' \subseteq {"render", "return"}
    BY AheadType DEF Rerender
<1> QED BY <1>1, <1>2, <1>3, <1>4 DEF Write

LEMMA SystemTypes == TypeOK /\ System => Settles
<1> SUFFICES ASSUME TypeOK, System PROVE Settles
    OBVIOUS
<1>1. ASSUME Commit PROVE Settles
    <2>1. shown.total \in Nat
        BY GridConstants DEF TypeOK
    <2>2. Clamped(loc, shown.total, loading) \in Address
        BY <2>1, ClampKeepsShape DEF TypeOK
    <2>3. loc' \in Address /\ ref' \in Address /\ url' \in Address
        BY <1>1, <2>2 DEF Commit, TypeOK
    <2>4. drafts' \in Typed /\ timers' \in Typed
        BY <1>1 DEF Commit, TypeOK, Typed
    <2>5. loading' \in BOOLEAN
        BY <1>1 DEF Commit, TypeOK, Fetch
    <2> QED BY <1>1, <2>3, <2>4, <2>5 DEF Commit, TypeOK, Settles
<1>2. ASSUME Fail PROVE Settles
    <2>1. shown'.total \in 0..MaxRows
        BY <1>2, GridConstants DEF Fail, TypeOK
    <2>2. loc' \in Address /\ ref' \in Address /\ overtaken' \subseteq {"render", "return"}
        BY <1>2, <2>1, RerenderEffect DEF Fail
    <2> QED BY <1>2, <2>1, <2>2 DEF Fail, TypeOK, Settles
<1>3. ASSUME NEW k \in Boxes, Due(k) PROVE Settles
    <2>1. timers[k] \in {Cleared, "v", "all"} /\ ref \in Address
        BY <1>3 DEF Due, TypeOK, Typed
    <2>2. [ref EXCEPT !.text[k] = timers[k], !.page = NoPage] \in Address
        BY <2>1, TextWritten
    <2>3. [timers EXCEPT ![k] = None] \in Typed
        BY DEF TypeOK, Typed
    <2> QED BY <1>3, <2>2, <2>3 DEF Due, Write, TypeOK, Settles
<1>4. ASSUME NEW total \in 0..MaxRows, Answer(total) PROVE Settles
    <2>1. loc' \in Address /\ ref' \in Address /\ overtaken' \subseteq {"render", "return"}
        BY <1>4, RerenderEffect DEF Answer
    <2> QED BY <1>4, <2>1 DEF Answer, TypeOK, Settles
<1>5. ASSUME NEW total \in 0..MaxRows, NEW q \in late, AnswerLate(q, total) PROVE Settles
    <2>1. loc' \in Address /\ ref' \in Address /\ overtaken' \subseteq {"render", "return"}
        BY <1>5, RerenderEffect DEF AnswerLate
    <2> QED BY <1>5, <2>1 DEF AnswerLate, TypeOK, Settles
<1> QED BY <1>1, <1>2, <1>3, <1>4, <1>5 DEF System

LEMMA RenderTypes == TypeOK /\ Render => Settles
BY AheadType DEF TypeOK, Render, Settles

LEMMA TypesInitially == Init => TypeOK
<1> SUFFICES ASSUME Init PROVE TypeOK
    OBVIOUS
<1>1. /\ page \in DOMAIN Pages
      /\ ctl \subseteq Controls(page) /\ (\A c, d \in ctl : c = d)
    BY DEF Init
<1>2. loc \in Address /\ url \in Address /\ ref \in Address
    BY LinksAreAddresses DEF Init
<1>3. drafts \in Typed /\ timers \in Typed
    BY DEF Init, NoText, Typed
<1>4. shown.total \in 0..MaxRows /\ inputs \in 0..MaxInputs
    BY GridConstants DEF Init, NoRows
<1>5. loading \in BOOLEAN /\ overtaken \subseteq {"render", "return"}
    BY DEF Init
<1> QED BY <1>1, <1>2, <1>3, <1>4, <1>5 DEF TypeOK

LEMMA TypesPreserved == TypeOK /\ [Next]_vars => TypeOK'
<1> SUFFICES ASSUME TypeOK, [Next]_vars PROVE TypeOK'
    OBVIOUS
<1>1. page' = page /\ ctl' = ctl
    BY PageStays
<1>2. Settles
    <2>1. CASE Next
        BY <2>1, InputTypes, RenderTypes, SystemTypes DEF Next
    <2>2. CASE UNCHANGED vars
        BY <2>2 DEF vars, TypeOK, Settles
    <2> QED BY <2>1, <2>2
<1>3. Address' = Address /\ Typed' = Typed
    BY <1>1, ShapesStay
<1>4. page' \in DOMAIN Pages /\ ctl' \subseteq Controls(page') /\ (\A c, d \in ctl' : c = d)
    BY <1>1 DEF TypeOK
<1> QED BY <1>2, <1>3, <1>4 DEF Settles, TypeOK

(* Type correctness of the grid hook's state.                              *)
THEOREM GridTypes == Spec => []TypeOK
<1>1. Init => TypeOK
    BY TypesInitially
<1>2. TypeOK /\ [Next]_vars => TypeOK'
    BY TypesPreserved
<1> QED BY <1>1, <1>2, PTL DEF Spec

(* ---- rows, questions and the page ---- *)

(* The question an address asks on page p with filter c.                   *)
QueryAt(p, c, u) ==
    [page |-> PageOf(u), size |-> SizeOf(u), sort |-> SortOf(u),
     text |-> [k \in Pages[p].text |-> TextSent(u.text[k])],
     sel |-> {FilterSent(x, u.sel) : x \in c}]

(* Only a page without abort or generation applies an overtaken answer.    *)
OnlyBareIsLate == Here.answers /= "bare" => late = {}

(* The pages' totalPending is up only while a question is in flight.       *)
FlagMeansAsked == loading => asked /= {}

(* The question in flight is the address's; with none in flight, the rows  *)
(* answer the address's question, or there are none.                       *)
RowsAnswerUrl ==
    /\ asked \subseteq {QueryAt(page, ctl, url)}
    /\ (Here.answers /= "bare" /\ asked = {}) => shown.q \subseteq {QueryAt(page, ctl, url)}

(* Once the location is rendered and nothing pending, its page exists.     *)
SettledInRange ==
    (loc = url /\ ~loading /\ "return" \notin overtaken) => InRange(url, shown.total)

(* With nothing pending, a write starts from the rendered address.         *)
RefIsKnown == (loc = url /\ "return" \notin overtaken) => ref = url

IInv == TypeOK /\ OnlyBareIsLate /\ FlagMeansAsked /\ RowsAnswerUrl /\ SettledInRange /\ RefIsKnown

LEMMA SameQuestion ==
    /\ \A u : Query(u) = QueryAt(page, ctl, u)
    /\ Query(url)' = QueryAt(page', ctl', url')
<1>1. \A u : Query(u) = QueryAt(page, ctl, u)
    BY DEF Query, QueryAt, Boxes, Here
<1>2. Query(url)' = QueryAt(page', ctl', url')
    BY DEF Query, QueryAt, Boxes, Here
<1> QED BY <1>1, <1>2

(* An address without a page shows the first one, which exists.            *)
LEMMA FirstPageExists ==
    ASSUME NEW u, u.page = NoPage, NEW total \in Nat
    PROVE  InRange(u, total)
<1>1. u.page \in Int /\ PageOf(u) = 0
    BY NoPageIsInt DEF PageOf, NoPage
<1> QED BY <1>1, PageNumbers DEF InRange

LEMMA GridInitially == Init => IInv
<1> SUFFICES ASSUME Init PROVE IInv
    OBVIOUS
<1>1. TypeOK
    BY TypesInitially
<1>2. asked = {QueryAt(page, ctl, url)}
    BY SameQuestion DEF Init
<1> QED BY <1>1, <1>2 DEF Init, IInv, OnlyBareIsLate, FlagMeansAsked, RowsAnswerUrl,
            SettledInRange, RefIsKnown, NoRows

(* What an input of the user leaves of the invariant.                      *)
LEMMA InputKeeps ==
    IInv /\ Input => OnlyBareIsLate' /\ FlagMeansAsked' /\ RowsAnswerUrl' /\ SettledInRange' /\ RefIsKnown'
<1> DEFINE Rest == OnlyBareIsLate /\ FlagMeansAsked /\ RowsAnswerUrl /\ SettledInRange /\ RefIsKnown
<1> SUFFICES ASSUME IInv, Input PROVE Rest'
    BY DEF IInv
<1>0. /\ TypeOK /\ Rest
      /\ page' = page /\ ctl' = ctl /\ Here' = Here
    BY PageStays, ShapesStay DEF IInv, Next
<1>t. shown.total \in Nat /\ ref \in Address
    BY <1>0, GridConstants DEF TypeOK
(* A write of the hook.                                                    *)
<1>w. ASSUME NEW w, Write(w), InRange(w, shown.total),
             UNCHANGED <<page, ctl, url, asked, late, shown, loading>>
      PROVE  Rest'
    BY <1>0, <1>w DEF Write, OnlyBareIsLate, FlagMeansAsked, RowsAnswerUrl, SettledInRange, RefIsKnown, InRange
<1>1. ASSUME NEW k \in Boxes, NEW v \in {Cleared, "v", "all"}, Type(k, v) PROVE Rest'
    BY <1>0, <1>1 DEF Type, Ahead, OnlyBareIsLate, FlagMeansAsked, RowsAnswerUrl, SettledInRange, RefIsKnown, InRange
<1>2. ASSUME NEW v \in Offered, Select(v) PROVE Rest'
    <2>1. v \in Linked
      <3>1. PICK c \in ctl : v \in {c.none, "v"}
        BY DEF Offered
      <3>2. v \in {Cleared, c.none, "v"}
        BY <3>1
      <3> QED BY <3>2 DEF Linked
    <2>2. [ref EXCEPT !.sel = v, !.page = NoPage].page = NoPage
        BY <1>t, <2>1, OthersWritten
    <2>3. InRange([ref EXCEPT !.sel = v, !.page = NoPage], shown.total)
        BY <1>t, <2>2, FirstPageExists
    <2> QED BY <1>2, <1>w, <2>3 DEF Select
<1>3. ASSUME NEW p \in 0..MaxRows, NEW n \in {DefaultSize, OtherSize}, Paginate(p, n) PROVE Rest'
    <2> DEFINE w == [ref EXCEPT !.page = p, !.size = n]
    <2>1. p \in Int /\ n \in Int /\ p >= 0
        BY GridConstants DEF DefaultSize, OtherSize
    <2>2. w.page = p /\ w.size = n
        BY <1>t DEF Address
    <2>3. PageOf(w) = p /\ SizeOf(w) = n
        BY <2>1, <2>2 DEF PageOf, SizeOf
    <2>4. InRange(w, shown.total)
        BY <1>3, <2>3 DEF InRange, Paginate
    <2> QED BY <1>3, <1>w, <2>4 DEF Paginate
<1>4. ASSUME Sort PROVE Rest'
    <2>1. [ref EXCEPT !.sort = "sortable", !.page = NoPage].page = NoPage
        BY <1>t, OthersWritten
    <2>2. InRange([ref EXCEPT !.sort = "sortable", !.page = NoPage], shown.total)
        BY <1>t, <2>1, FirstPageExists
    <2> QED BY <1>4, <1>w, <2>2 DEF Sort
<1>5. ASSUME Refetch PROVE Rest'
    <2>1. asked' = {QueryAt(page, ctl, url)} /\ loading'
        BY <1>5, SameQuestion DEF Refetch, Fetch
    <2> QED BY <1>0, <1>5, <2>1 DEF Refetch, Fetch, Ahead, OnlyBareIsLate, FlagMeansAsked, RowsAnswerUrl, SettledInRange, RefIsKnown
<1>6. ASSUME NEW u \in Links, Navigate(u) PROVE Rest'
    BY <1>0, <1>6 DEF Navigate, OnlyBareIsLate, FlagMeansAsked, RowsAnswerUrl, SettledInRange, RefIsKnown
<1>7. ASSUME NEW u \in Links, Reopen(u) PROVE Rest'
    <2>1. /\ url' = u /\ ref' = loc' /\ asked' = {Query(u)} /\ late' = {} /\ loading'
        BY <1>7 DEF Reopen, Mounted
    <2>2. asked' = {QueryAt(page, ctl, u)}
        BY <2>1, SameQuestion
    <2> QED BY <1>0, <2>1, <2>2 DEF OnlyBareIsLate, FlagMeansAsked, RowsAnswerUrl, SettledInRange, RefIsKnown
<1> QED BY <1>1, <1>2, <1>3, <1>4, <1>5, <1>6, <1>7 DEF Input

(* What the render, the timers and the answers leave of it.                *)
LEMMA SystemKeeps ==
    IInv /\ System => OnlyBareIsLate' /\ FlagMeansAsked' /\ RowsAnswerUrl' /\ SettledInRange' /\ RefIsKnown'
<1> DEFINE Rest == OnlyBareIsLate /\ FlagMeansAsked /\ RowsAnswerUrl /\ SettledInRange /\ RefIsKnown
<1> SUFFICES ASSUME IInv, System PROVE Rest'
    BY DEF IInv
<1>0. /\ TypeOK /\ Rest
      /\ page' = page /\ ctl' = ctl /\ Here' = Here
    BY PageStays, ShapesStay DEF IInv, Next
<1>t. shown.total \in Nat /\ ref \in Address /\ loc \in Address /\ loading \in BOOLEAN
    BY <1>0, GridConstants DEF TypeOK
<1>1. ASSUME Commit PROVE Rest'
    <2> DEFINE next == Clamped(loc, shown.total, loading)
    <2>1. url' = loc /\ loc' = next /\ ref' = next /\ shown' = shown
        BY <1>1 DEF Commit
    <2>2. next = loc /\ ~loading => InRange(loc, shown.total)
        BY <1>t, ClampKeepsShape DEF InRange
    <2>3. \/ /\ QueryAt(page, ctl, loc) /= QueryAt(page, ctl, url)
             /\ asked' = {QueryAt(page, ctl, loc)} /\ loading'
             /\ late' = IF Here.answers = "bare" THEN late \cup asked ELSE late
          \/ /\ QueryAt(page, ctl, loc) = QueryAt(page, ctl, url)
             /\ asked' = asked /\ late' = late /\ loading' = loading
        BY <1>1, SameQuestion DEF Commit, Fetch
    <2> HIDE DEF next
    <2>4. SettledInRange' /\ RefIsKnown'
        BY <2>1, <2>2, <2>3 DEF SettledInRange, RefIsKnown, InRange
    <2>5. OnlyBareIsLate' /\ FlagMeansAsked' /\ RowsAnswerUrl'
        BY <1>0, <2>1, <2>3 DEF OnlyBareIsLate, FlagMeansAsked, RowsAnswerUrl
    <2> QED BY <2>4, <2>5
(* The render of an answer that brings the given total.                    *)
<1>r. ASSUME NEW total \in 0..MaxRows, Rerender(total), shown'.total = total, url' = url
      PROVE  SettledInRange' /\ RefIsKnown'
    <2>1. \/ ref' = url /\ loc' = loc /\ InRange(url, total)
          \/ ref' = loc' /\ ref' /= url
        BY <1>0, <1>r, RerenderEffect
    <2> QED BY <1>r, <2>1 DEF SettledInRange, RefIsKnown, InRange
<1>2. ASSUME Fail PROVE Rest'
    <2>1. shown'.total \in 0..MaxRows
        BY <1>0, <1>2, GridConstants DEF Fail, TypeOK
    <2>2. SettledInRange' /\ RefIsKnown'
        BY <1>2, <1>r, <2>1 DEF Fail
    <2> QED BY <1>0, <1>2, <2>2 DEF Fail, OnlyBareIsLate, FlagMeansAsked, RowsAnswerUrl
<1>3. ASSUME NEW k \in Boxes, Due(k) PROVE Rest'
    <2> DEFINE w == [ref EXCEPT !.text[k] = timers[k], !.page = NoPage]
    <2>1. timers[k] \in {Cleared, "v", "all"}
        BY <1>0, <1>3 DEF Due, TypeOK, Typed
    <2>2. w.page = NoPage
        BY <1>t, <2>1, TextWritten
    <2>3. InRange(w, shown.total)
        BY <1>t, <2>2, FirstPageExists
    <2>4. loc' = w /\ ref' = w /\ UNCHANGED <<url, asked, late, shown, loading>>
        BY <1>3 DEF Due, Write
    <2> HIDE DEF w
    <2> QED BY <1>0, <2>3, <2>4 DEF OnlyBareIsLate, FlagMeansAsked, RowsAnswerUrl, SettledInRange, RefIsKnown, InRange
<1>4. ASSUME NEW total \in 0..MaxRows, Answer(total) PROVE Rest'
    <2>1. SettledInRange' /\ RefIsKnown'
        BY <1>4, <1>r DEF Answer
    <2> QED BY <1>0, <1>4, <2>1 DEF Answer, OnlyBareIsLate, FlagMeansAsked, RowsAnswerUrl
<1>5. ASSUME NEW total \in 0..MaxRows, NEW q \in late, AnswerLate(q, total) PROVE Rest'
    <2>1. SettledInRange' /\ RefIsKnown'
        BY <1>5, <1>r DEF AnswerLate
    <2> QED BY <1>0, <1>5, <2>1 DEF AnswerLate, OnlyBareIsLate, FlagMeansAsked, RowsAnswerUrl
<1> QED BY <1>1, <1>2, <1>3, <1>4, <1>5 DEF System

LEMMA RenderKeeps ==
    IInv /\ Render => OnlyBareIsLate' /\ FlagMeansAsked' /\ RowsAnswerUrl' /\ SettledInRange' /\ RefIsKnown'
<1> SUFFICES ASSUME IInv, Render
             PROVE  OnlyBareIsLate' /\ FlagMeansAsked' /\ RowsAnswerUrl' /\ SettledInRange' /\ RefIsKnown'
    OBVIOUS
<1>1. Here' = Here
    BY PageStays, ShapesStay DEF Next
<1> QED BY <1>1 DEF IInv, Render, Ahead, OnlyBareIsLate, FlagMeansAsked, RowsAnswerUrl, SettledInRange,
            RefIsKnown, InRange

LEMMA GridPreserved == IInv /\ [Next]_vars => IInv'
<1> SUFFICES ASSUME IInv, [Next]_vars PROVE IInv'
    OBVIOUS
<1>1. TypeOK'
    BY TypesPreserved DEF IInv
<1>2. CASE Next
    BY <1>1, <1>2, InputKeeps, RenderKeeps, SystemKeeps DEF Next, IInv
<1>3. CASE UNCHANGED vars
    <2>1. Here' = Here
        BY <1>3, ShapesStay DEF vars
    <2> QED BY <1>1, <1>3, <2>1 DEF vars, IInv, OnlyBareIsLate, FlagMeansAsked, RowsAnswerUrl,
                SettledInRange, RefIsKnown, InRange
<1> QED BY <1>2, <1>3

LEMMA GridAlways == Spec => []IInv
<1> QED BY GridInitially, GridPreserved, PTL DEF Spec

(* When everything has settled, the page in the address is one that the    *)
(* total has: whatever is rendered and written meanwhile, the clamp effect *)
(* leaves no empty page over rows but one the user went back to before its *)
(* correction was rendered.                                                *)
THEOREM PageExistsHolds == Spec => []PageExists
<1>1. IInv => PageExists
    BY DEF IInv, FlagMeansAsked, SettledInRange, InRange, PageExists, Quiet, TypeOK
<1> QED BY <1>1, GridAlways, PTL

(* When everything has settled, the rows answer the address's question, on *)
(* every page whose onFetch aborts or compares generations.                *)
THEOREM QuietGridAnswersUrlHolds == Spec => []QuietGridAnswersUrl
<1>1. IInv => QuietGridAnswersUrl
    BY SameQuestion DEF IInv, RowsAnswerUrl, QuietGridAnswersUrl, Quiet
<1> QED BY <1>1, GridAlways, PTL

(* ---- search boxes ---- *)

(* The address this hook wrote last is the one its next write starts from, *)
(* and a draft is either still to be written by its timer or is the text   *)
(* the next write starts from.                                             *)
DraftsHeadForUrl ==
    /\ patched \subseteq {ref}
    /\ \A k \in Boxes : drafts[k] /= None =>
          IF timers[k] = None THEN drafts[k] = ref.text[k] ELSE drafts[k] = timers[k]

(* It holds as long as nothing has come ahead of a pending location.       *)
BoxInv == overtaken = {} => DraftsHeadForUrl

LEMMA BoxesInitially == Init => BoxInv
BY DEF Init, BoxInv, DraftsHeadForUrl, NoText

(* A write that leaves the texts alone keeps the boxes heading for it.     *)
LEMMA BoxesKept ==
    ASSUME DraftsHeadForUrl, Boxes' = Boxes, UNCHANGED <<drafts, timers>>,
           ref'.text = ref.text, patched' \subseteq {ref'}
    PROVE  DraftsHeadForUrl'
BY DEF DraftsHeadForUrl

(* Opening the page again is what ends such a behaviour, with empty drafts. *)
LEMMA BoxesReset ==
    ASSUME IInv, [Next]_vars, overtaken /= {}, overtaken' = {}
    PROVE  DraftsHeadForUrl'
<1>1. PICK u \in Links : Reopen(u)
    BY DEF Next, Input, Render, System, Type, Select, Paginate, Sort, Refetch, Navigate, Commit,
           Due, Fail, Answer, AnswerLate, Rerender, Ahead, vars
<1>2. Boxes' = Boxes
    BY PageStays, ShapesStay
<1>3. drafts' = NoText /\ patched' = {loc'} \ {u} /\ ref' = loc'
    BY <1>1 DEF Reopen, Mounted
<1> QED BY <1>2, <1>3 DEF DraftsHeadForUrl, NoText

LEMMA BoxesPreserved == IInv /\ BoxInv /\ [Next]_vars => BoxInv'
<1> SUFFICES ASSUME IInv, DraftsHeadForUrl, [Next]_vars, overtaken = {}, overtaken' = {} PROVE DraftsHeadForUrl'
    BY BoxesReset DEF BoxInv
<1>0. /\ TypeOK /\ RefIsKnown /\ Boxes' = Boxes
      /\ ref \in Address /\ loc \in Address /\ drafts \in Typed /\ timers \in Typed
    BY PageStays, ShapesStay DEF IInv, TypeOK
(* A render of the rendered address finds nothing pending.                 *)
<1>a. ASSUME Ahead PROVE loc = url /\ ref = url
    BY <1>0, <1>a DEF Ahead, RefIsKnown
<1>1. ASSUME NEW k \in Boxes, NEW v \in {Cleared, "v", "all"}, Type(k, v) PROVE DraftsHeadForUrl'
    <2>1. v /= None
        BY DEF None, Cleared
    <2>2. \A j \in Boxes : drafts'[j] = (IF j = k THEN v ELSE drafts[j])
                          /\ timers'[j] = (IF j = k THEN v ELSE timers[j])
        BY <1>0, <1>1 DEF Type, Typed
    <2>3. ref' = ref /\ patched' = patched
        BY <1>1, <1>a DEF Type
    <2> QED BY <1>0, <2>1, <2>2, <2>3 DEF DraftsHeadForUrl
<1>2. ASSUME NEW v \in Offered, Select(v) PROVE DraftsHeadForUrl'
    <2>1. [ref EXCEPT !.sel = v, !.page = NoPage].text = ref.text
        BY <1>0 DEF Address
    <2> QED BY <1>0, <1>2, <2>1, BoxesKept DEF Select, Write
<1>3. ASSUME NEW p \in 0..MaxRows, NEW n \in {DefaultSize, OtherSize}, Paginate(p, n) PROVE DraftsHeadForUrl'
    <2>1. [ref EXCEPT !.page = p, !.size = n].text = ref.text
        BY <1>0 DEF Address
    <2> QED BY <1>0, <1>3, <2>1, BoxesKept DEF Paginate, Write
<1>4. ASSUME Sort PROVE DraftsHeadForUrl'
    <2>1. [ref EXCEPT !.sort = "sortable", !.page = NoPage].text = ref.text
        BY <1>0 DEF Address
    <2> QED BY <1>0, <1>4, <2>1, BoxesKept DEF Sort, Write
<1>5. ASSUME Refetch PROVE DraftsHeadForUrl'
    BY <1>0, <1>5, <1>a, BoxesKept DEF Refetch, DraftsHeadForUrl
<1>6. ASSUME NEW u \in Links, Navigate(u) PROVE DraftsHeadForUrl'
    BY <1>0, <1>6, BoxesKept DEF Navigate, DraftsHeadForUrl
<1>7. ASSUME NEW u \in Links, Reopen(u) PROVE DraftsHeadForUrl'
    <2>1. drafts' = NoText /\ patched' = {loc'} \ {u} /\ ref' = loc'
        BY <1>7 DEF Reopen, Mounted
    <2> QED BY <1>0, <2>1 DEF DraftsHeadForUrl, NoText
<1>8. ASSUME Commit PROVE DraftsHeadForUrl'
    <2> DEFINE next == Clamped(loc, shown.total, loading)
    <2>1. shown.total \in Nat /\ loading \in BOOLEAN
        BY <1>0, GridConstants DEF TypeOK
    <2>2. next.text = loc.text
        BY <1>0, <2>1, ClampKeepsShape
    <2>3. ref' = next /\ patched' = {next} \ {loc}
        BY <1>8 DEF Commit
    <2> HIDE DEF next
    <2>4. CASE patched = {loc}
        <3>1. ref = loc
            BY <2>4 DEF DraftsHeadForUrl
        <3>2. \A k \in Boxes : /\ drafts'[k] = (IF drafts[k] /= loc.text[k] THEN drafts[k] ELSE None)
                               /\ timers'[k] = timers[k]
            BY <1>8, <2>4 DEF Commit
        <3> QED BY <1>0, <2>2, <2>3, <3>1, <3>2 DEF DraftsHeadForUrl
    <2>5. CASE patched /= {loc}
        <3>1. \A k \in Boxes : drafts'[k] = None
            BY <1>8, <2>5 DEF Commit
        <3> QED BY <1>0, <2>3, <3>1 DEF DraftsHeadForUrl
    <2> QED BY <2>4, <2>5
(* The render of an answer, which is one of the newest location.           *)
<1>r. ASSUME NEW total \in 0..MaxRows, Rerender(total), UNCHANGED <<drafts, timers>>
      PROVE  DraftsHeadForUrl'
    <2>1. loc = url /\ ref = url
        BY <1>a, <1>r DEF Rerender
    <2>2. \/ ref' = url /\ patched' = patched
          \/ patched' = {ref'} /\ ref'.text = url.text
        BY <1>0, <1>r, RerenderEffect
    <2> QED BY <1>0, <1>r, <2>1, <2>2, BoxesKept DEF DraftsHeadForUrl
<1>9. ASSUME Fail PROVE DraftsHeadForUrl'
    <2>1. shown'.total \in 0..MaxRows
        BY <1>0, <1>9, GridConstants DEF Fail, TypeOK
    <2> QED BY <1>9, <1>r, <2>1 DEF Fail
<1>10. ASSUME NEW k \in Boxes, Due(k) PROVE DraftsHeadForUrl'
    <2>1. timers[k] \in {Cleared, "v", "all"}
        BY <1>0, <1>10 DEF Due, Typed
    <2>2. ref'.text = [ref.text EXCEPT ![k] = timers[k]]
        <3>1. [ref EXCEPT !.text[k] = timers[k], !.page = NoPage].text = [ref.text EXCEPT ![k] = timers[k]]
            BY <1>0, <2>1, TextWritten
        <3>2. ref' = [ref EXCEPT !.text[k] = timers[k], !.page = NoPage]
            BY <1>10 DEF Due, Write
        <3> QED BY <3>1, <3>2
    <2>3. ref.text \in Texts
        BY <1>0 DEF Address
    <2>4. \A j \in Boxes : ref'.text[j] = (IF j = k THEN timers[k] ELSE ref.text[j])
        BY <2>2, <2>3 DEF Texts
    <2>5. \A j \in Boxes : timers'[j] = (IF j = k THEN None ELSE timers[j])
        BY <1>0, <1>10 DEF Due, Typed
    <2>6. drafts' = drafts /\ patched' = {ref'} /\ timers[k] /= None
        BY <1>10 DEF Due, Write
    <2> QED BY <1>0, <2>4, <2>5, <2>6 DEF DraftsHeadForUrl
<1>11. ASSUME NEW total \in 0..MaxRows, Answer(total) PROVE DraftsHeadForUrl'
    BY <1>11, <1>r DEF Answer
<1>12. ASSUME NEW total \in 0..MaxRows, NEW q \in late, AnswerLate(q, total) PROVE DraftsHeadForUrl'
    BY <1>12, <1>r DEF AnswerLate
<1>13. ASSUME Render PROVE DraftsHeadForUrl'
    BY <1>0, <1>13, <1>a, BoxesKept DEF Render, DraftsHeadForUrl
<1>14. ASSUME UNCHANGED vars PROVE DraftsHeadForUrl'
    BY <1>0, <1>14, BoxesKept DEF vars, DraftsHeadForUrl
<1> QED BY <1>1, <1>2, <1>3, <1>4, <1>5, <1>6, <1>7, <1>8, <1>9, <1>10, <1>11, <1>12, <1>13, <1>14
        DEF Next, Input, System

(* As long as nothing has been rendered ahead of a pending location, a     *)
(* search box whose timer has run shows what the address says: no text is  *)
(* lost when two boxes come due together or a filter, a page or another    *)
(* address is chosen while a write is pending, and none is left behind by  *)
(* a navigation, however many inputs and boxes there are.                  *)
THEOREM QuietBoxMatchesUrlHolds == Spec => []QuietBoxMatchesUrl
<1>1. IInv /\ BoxInv => QuietBoxMatchesUrl
    BY DEF IInv, RefIsKnown, BoxInv, DraftsHeadForUrl, QuietBoxMatchesUrl, BoxMatchesUrl
<1> QED BY <1>1, GridAlways, BoxesInitially, BoxesPreserved, PTL DEF Spec

(* ---- filter controls ---- *)

(* The kinds of filter control the pages have.                             *)
Kinds == {Plain("all"), Plain(Cleared), Known("any"), Known(Cleared),
          WindowToggle, KindToggle, OpenChip}
OfAKind(c) == c \in Kinds

LEMMA KindsListed ==
    /\ OfAKind(Plain("all")) /\ OfAKind(Plain(Cleared))
    /\ OfAKind(Known("any")) /\ OfAKind(Known(Cleared))
    /\ OfAKind(WindowToggle) /\ OfAKind(KindToggle) /\ OfAKind(OpenChip)
BY DEF OfAKind, Kinds

(* Every filter of every page is one of them.                              *)
LEMMA FiltersAreOfAKind ==
    \A p \in DOMAIN Pages : \A c \in Controls(p) : OfAKind(c)
<1>1. \A f \in DOMAIN ScopeWindowsGrid.filters : OfAKind(ScopeWindowsGrid.filters[f])
    BY KindsListed DEF ScopeWindowsGrid, Grid
<1>2. \A f \in DOMAIN GoNoGoGrid.filters : OfAKind(GoNoGoGrid.filters[f])
    BY KindsListed DEF GoNoGoGrid, Grid, NoFilters
<1>3. \A f \in DOMAIN ChangeRequestGrid.filters : OfAKind(ChangeRequestGrid.filters[f])
    BY KindsListed DEF ChangeRequestGrid, Grid
<1>4. \A f \in DOMAIN BuildGrid.filters : OfAKind(BuildGrid.filters[f])
    BY KindsListed DEF BuildGrid, Grid
<1>5. \A f \in DOMAIN PirActionGrid.filters : OfAKind(PirActionGrid.filters[f])
    BY KindsListed DEF PirActionGrid, Grid
<1>6. \A f \in DOMAIN InfrastructureComponentGrid.filters : OfAKind(InfrastructureComponentGrid.filters[f])
    BY KindsListed DEF InfrastructureComponentGrid, Grid
<1>7. \A f \in DOMAIN IncidentGrid.filters : OfAKind(IncidentGrid.filters[f])
    BY KindsListed DEF IncidentGrid, Grid
<1>8. \A f \in DOMAIN ReleaseGrid.filters : OfAKind(ReleaseGrid.filters[f])
    BY KindsListed DEF ReleaseGrid, Grid
<1>9. \A f \in DOMAIN SystemGrid.filters : OfAKind(SystemGrid.filters[f])
    BY KindsListed DEF SystemGrid, Grid, NoFilters
<1>10. \A f \in DOMAIN EscalationGrid.filters : OfAKind(EscalationGrid.filters[f])
    BY KindsListed DEF EscalationGrid, Grid
<1>11. \A f \in DOMAIN BookingGrid.filters : OfAKind(BookingGrid.filters[f])
    BY KindsListed DEF BookingGrid, Grid
<1>12. \A f \in DOMAIN EnvironmentGrid.filters : OfAKind(EnvironmentGrid.filters[f])
    BY KindsListed DEF EnvironmentGrid, Grid
<1>13. \A f \in DOMAIN EnvironmentRequestGrid.filters : OfAKind(EnvironmentRequestGrid.filters[f])
    BY KindsListed DEF EnvironmentRequestGrid, Grid
<1>14. \A f \in DOMAIN DeploymentGrid.filters : OfAKind(DeploymentGrid.filters[f])
    BY KindsListed DEF DeploymentGrid, Grid
<1>15. \A f \in DOMAIN DecommissionGrid.filters : OfAKind(DecommissionGrid.filters[f])
    BY KindsListed DEF DecommissionGrid, Grid
<1>16. \A p \in DOMAIN Pages : \A f \in DOMAIN Pages[p].filters : OfAKind(Pages[p].filters[f])
    BY <1>1, <1>2, <1>3, <1>4, <1>5, <1>6, <1>7, <1>8, <1>9, <1>10, <1>11, <1>12, <1>13,
       <1>14, <1>15 DEF Pages
<1> QED BY <1>16 DEF Controls

(* What a control of an honest kind shows is what is sent.                 *)
LEMMA HonestKinds ==
    ASSUME NEW c, OfAKind(c), c \notin Misleading, NEW v \in {Absent, Cleared, c.none, "v"}
    PROVE  FilterSent(c, v) = Promised(ShownBy(c, v))
<1> USE DEF Promised, ShownBy, Absent, Cleared, Unset
<1>1. CASE c = Plain("all")
    BY <1>1 DEF FilterSent, Plain, Filter
<1>2. CASE c = Plain(Cleared)
    BY <1>2 DEF FilterSent, Plain, Filter
<1>3. CASE c = Known("any")
    BY <1>3 DEF FilterSent, Known, Filter
<1>4. CASE c = Known(Cleared)
    BY <1>4 DEF FilterSent, Known, Filter
<1>5. CASE c = WindowToggle
    BY <1>5 DEF FilterSent, WindowToggle
<1> QED BY <1>1, <1>2, <1>3, <1>4, <1>5 DEF OfAKind, Kinds, Misleading

(* On every page, and for every filter but the two kinds named, what the   *)
(* control shows is what the server was asked.                             *)
THEOREM ControlsTellTheTruthHolds == Spec => []ControlsTellTheTruth
<1>1. TypeOK => ControlsTellTheTruth
    <2> SUFFICES ASSUME TypeOK, NEW c \in ctl \ Misleading
                 PROVE  Query(url).sel = {Promised(ShownBy(c, url.sel))}
        BY DEF ControlsTellTheTruth
    <2>1. OfAKind(c)
        BY FiltersAreOfAKind DEF TypeOK
    <2>2. url.sel \in Linked
        BY DEF TypeOK, Address
    <2>3. url.sel \in {Absent, Cleared, c.none, "v"}
        <3>1. CASE url.sel /= Absent
            <4>1. PICK d \in ctl : url.sel \in {Cleared, d.none, "v"}
                BY <2>2, <3>1 DEF Linked
            <4>2. d = c
                BY DEF TypeOK
            <4> QED BY <4>1, <4>2
        <3> QED BY <3>1
    <2>4. FilterSent(c, url.sel) = Promised(ShownBy(c, url.sel))
        BY <2>1, <2>3, HonestKinds
    <2>5. Query(url).sel = {FilterSent(x, url.sel) : x \in ctl}
        BY DEF Query
    <2>6. \A x \in ctl : x = c
        BY DEF TypeOK
    <2> QED BY <2>4, <2>5, <2>6
<1> QED BY <1>1, GridTypes, PTL
=============================================================================
