------------------------------ MODULE FormParts ------------------------------
(***************************************************************************)
(* The vocabulary the tables of the web client's forms are written in.  A  *)
(* form is a dialog, a page or a button whose handler sends what the user  *)
(* typed to the server.  It is described by what its handlers do and by    *)
(* when its controls are disabled; the fields themselves, their validation *)
(* and the layout are left out.                                            *)
(***************************************************************************)
EXTENDS Naturals

(* What a form is about.                                                   *)
(*   create    a new item                                                  *)
(*   edit      an item the user picked                                     *)
(*   both      either                                                      *)
(*   confirm   a question about a picked item, nothing to type             *)
(*   command   a button that acts on an item at once, perhaps asking first *)
(*   page      the item of the route                                       *)
(*   settings  the one record of a settings page                           *)
FormKinds == {"create", "edit", "both", "confirm", "command", "page", "settings"}

(* What the fields start from.                                             *)
(*   opener  set by the handler, or by the effect, that opens the form     *)
(*   live    by an effect on the item, which every refetch replaces        *)
(*   read    by an effect on what the page read, which empties them while  *)
(*           it is read again                                              *)
(*   value   by the answer of a read, however late it comes                *)
(*   id      by an effect on the id asked for, or once per item            *)
(*   mount   the form is mounted when it opens                             *)
(*   never   fields keep what they hold                                    *)
FormSeeds == {"opener", "live", "read", "value", "id", "mount", "never"}

(* clears  outcomes on which the fields are emptied: "ok", "dismiss"       *)
(* fails   where a refusal is shown: in the form, in a toast, on the page  *)
(*         behind it, or nowhere                                           *)
(* resets  what removes an error shown in the form: "open", "submit",      *)
(*         "dismiss", "ok"                                                 *)
(* closes  "ok" on success, "always" on any answer, "atonce" before the    *)
(*         answer, "stays"                                                 *)
(* frees   outcomes on which the form's own busy flag is lowered           *)
(* rereads what makes the page read its record again and show nothing      *)
(*         until it has: success of the form's "own" call, or an "other"   *)
(*         form of the page; empty for a form that stays on the screen     *)
Handlers(kind, seed, clears, fails, resets, closes) ==
    [kind |-> kind, seed |-> seed, clears |-> clears, fails |-> fails,
     resets |-> resets, closes |-> closes, frees |-> {"ok", "failed"},
     rereads |-> {}]
OffScreen(handlers, rereads) == [handlers EXCEPT !.rereads = rereads]

FormFails  == {"inline", "toast", "page", "silent"}
FormResets == {"open", "submit", "dismiss", "ok"}
FormCloses == {"ok", "always", "atonce", "stays"}

(* busy   what disables the submit button: the form's "own" flag, one for  *)
(*        each "row", the "last" row only, a flag of the "store" that      *)
(*        other calls raise and lower too, or "none"                       *)
(* holds  the form cannot be dismissed (button, Escape, backdrop) while    *)
(*        its flag is up                                                   *)
Dialog(handlers, busy, holds) == [does |-> handlers, busy |-> busy, holds |-> holds]

Command(fails) ==
    Dialog(Handlers("command", "opener", {}, fails, {}, "atonce"), "none", FALSE)
(* A button that is disabled while its own call is in flight.              *)
BusyCommand(busy, fails) ==
    Dialog(Handlers("command", "opener", {}, fails, {}, "atonce"), busy, FALSE)
(* A settings page: seeded when the record arrives or changes.             *)
Settings(busy, fails, resets) ==
    Dialog(Handlers("settings", "live", {}, fails, resets, "stays"), busy, FALSE)
=============================================================================
