------------------------------- MODULE Effects -------------------------------
(***************************************************************************)
(* The vocabulary the tables of the web client's asynchronous state are    *)
(* written in.  A slice of the Redux store, or the local state of a        *)
(* component, is described by two records with one entry per asynchronous  *)
(* operation:                                                              *)
(*                                                                         *)
(*   calls   what the operation asks the server about;                     *)
(*   cases   what its pending, fulfilled and rejected handlers do to the   *)
(*           state.                                                        *)
(*                                                                         *)
(* What a handler does is a set of effects, at most one on each field.     *)
(* Data is abstracted to the key it answers for (the query, the id or the  *)
(* owner it was asked about) and to whose rows were added to it; flags are *)
(* Booleans; an error field holds the keys whose failure it reports.       *)
(* Messages, totals and the order of rows are left out.                    *)
(***************************************************************************)
EXTENDS Naturals

(* What a call is about.                                                   *)
ReadKinds  == {"all",      \* a whole collection, no argument
               "query",    \* a page of a collection: filters, sort, offset
               "id",       \* one item
               "of",       \* the rows that belong to one owner
               "ofOther"}  \* the rows of an owner of another sort
WriteKinds == {"new",      \* creates a top-level item
               "write"}    \* acts on one item, or under one owner
CallKinds  == ReadKinds \cup WriteKinds

Effect(op, f) == [op |-> op, f |-> f, on |-> f]

Up(f)     == Effect("up", f)        \* state.f = true
Down(f)   == Effect("down", f)      \* state.f = false
NoErr(f)  == Effect("noerr", f)     \* state.f = null
Err(f)    == Effect("err", f)       \* state.f = message
NoErrAt(f) == Effect("noerrat", f)  \* delete state.f[key]
ErrAt(f)  == Effect("errat", f)     \* state.f[key] = message
Wipe(f)   == Effect("wipe", f)      \* state.f = null, or []
Put(f)    == Effect("put", f)       \* state.f = payload
Add(f)    == Effect("add", f)       \* state.f.push(payload), whatever f lists
Merge(f)  == Effect("merge", f)     \* replace or drop the row with that id
Same(f)   == Effect("same", f)      \* if (state.f?.id === id) state.f = payload
Forget(f) == Effect("forget", f)    \* if (state.f?.id === id) state.f = null
PutWith(f, g) ==                    \* if (state.g?.id === id) state.f = payload
    [op |-> "same", f |-> f, on |-> g]
PutAt(f)  == Effect("putat", f)     \* state.f[key] = payload
AddAt(f)  == Effect("addat", f)     \* state.f[key] = [...(state.f[key] ?? []), payload]
MergeAt(f) == Effect("mergeat", f)  \* replace or drop a row of state.f[key], if loaded
CutAt(f)  == Effect("cutat", f)     \* delete state.f[key]

FlagOps == {"up", "down"}
ErrOps  == {"noerr", "err", "noerrat", "errat"}

(* The handlers of one operation.  guard: "aborted" when the rejected      *)
(* handler returns early for an aborted call, "latest" when fulfilled and  *)
(* rejected return early unless they answer the newest call.  then: the    *)
(* operation a refused call dispatches, if any.                            *)
Case(pending, fulfilled, rejected) ==
    [pending |-> pending, fulfilled |-> fulfilled, rejected |-> rejected,
     guard |-> "none", then |-> "none"]
Guarded(g, case)   == [case EXCEPT !.guard = g]
Rereading(t, case) == [case EXCEPT !.then = t]

(* The shape most handlers share: raise the flag and clear the error, then *)
(* lower the flag and keep the payload or the message.                     *)
Spins(flag, err, effects) ==
    Case({Up(flag), NoErr(err)}, {Down(flag)} \cup effects, {Down(flag), Err(err)})
(* No pending and no rejected handler.                                     *)
Settles(effects) == Case({}, effects, {})
(* No handler at all: the caller reads the promise.                        *)
Unseen == Settles({})
(* The state of a component whose effect ignores what an overtaken call    *)
(* answers (the cleanup sets `cancelled`).                                 *)
Cancelled(pending, fulfilled, rejected) ==
    Guarded("latest", Case(pending, fulfilled, rejected))
(* In a reducer: the effect ran its cleanup and asked nothing new.         *)
Drop(t) == Effect("drop", t)

NoReducers == [none |-> {}]

(* A slice whose operations are described in several parts.                *)
SliceOf(asks, cases, reducers) ==
    [calls |-> asks, cases |-> cases, reducers |-> reducers]
Slice(asks, cases, reducers) == SliceOf(<<asks>>, <<cases>>, reducers)
Entry(parts, t) == parts[CHOOSE i \in DOMAIN parts : t \in DOMAIN parts[i]][t]
Names(parts) == UNION {DOMAIN parts[i] : i \in DOMAIN parts}
=============================================================================
