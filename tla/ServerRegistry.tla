--------------------------- MODULE ServerRegistry ---------------------------
(***************************************************************************)
(* One collection of the server's registry as its pages are read:          *)
(* commitRegistryChange and paginate in src/src/McpServer.ts, and the      *)
(* memory cursor store in src/src/Pagination.ts.                           *)
(*                                                                         *)
(* The collection is longer than a page and not longer than two.  Its      *)
(* contents are versions: data counts all changes, view those that altered *)
(* the list of names (an entry replaced by one of its name does not).      *)
(***************************************************************************)
EXTENDS Naturals, Sequences

CONSTANTS
  Changes,    \* fibers that commit one change of the collection each
  Tokens      \* the cursors that can be issued

VARIABLES
  data,       \* version of the collection
  view,       \* version of its list of names
  revision,   \* paginationRevisions of the collection
  change,     \* progress of each commitRegistryChange, and the data it made
  channel,    \* list_changed notifications on their way to the client
  cursors     \* the cursor store: the live tokens, with what they were issued for

collection == <<data, view, revision>>
registryVars == <<data, view, revision, change, channel, cursors>>

\* What a handler reads when it starts to build a page.
Readings == [data : Nat, view : Nat, revision : Nat]
Reading == [data |-> data, view |-> view, revision |-> revision]

RegistryTypeOK ==
  /\ data \in Nat /\ view \in 0..data /\ revision \in Nat
  /\ change \in [Changes -> [at : {"idle", "invalidated", "bumped", "mutated", "exposed"},
                             data : Nat]]
  /\ channel \in Seq(Nat)
  /\ DOMAIN cursors \subseteq Tokens
  /\ \A t \in DOMAIN cursors : cursors[t] \in Readings

RegistryInit ==
  /\ data = 0 /\ view = 0 /\ revision = 0
  /\ change = [c \in Changes |-> [at |-> "idle", data |-> 0]]
  /\ channel = <<>>
  /\ cursors = [t \in {} |-> Reading]

-----------------------------------------------------------------------------
(* The cursor store.                                                       *)

Keep(ts) == [t \in ts |-> cursors[t]]

\* Expired cursors are dropped first, and beyond the capacity the oldest: any of
\* the live ones may be gone.
Issue(token, reading) ==
  \E ts \in SUBSET (DOMAIN cursors \ {token}) :
    cursors' = [t \in ts \cup {token} |->
                  IF t = token THEN reading ELSE cursors[t]]

Prune == \E ts \in SUBSET DOMAIN cursors : cursors' = Keep(ts)

\* The cursor lives, and was issued for what the handler has read.
AcceptsAnyRevision(token, reading) ==                                  \* mutant
  token \in DOMAIN cursors' /\ cursors'[token].view = reading.view
Accepts(token, reading) ==
  /\ token \in DOMAIN cursors'
  /\ cursors'[token].revision = reading.revision
  /\ cursors'[token].view = reading.view

-----------------------------------------------------------------------------
(* commitRegistryChange: invalidate, bump, mutate, expose.                 *)

InvalidateCursors(c) ==
  /\ change[c].at = "idle"
  /\ change' = [change EXCEPT ![c].at = "invalidated"]
  /\ cursors' = Keep({})
  /\ UNCHANGED <<collection, channel>>

BumpRevision(c) ==
  /\ change[c].at = "invalidated"
  /\ change' = [change EXCEPT ![c].at = "bumped"]
  /\ revision' = revision + 1
  /\ UNCHANGED <<data, view, channel, cursors>>

\* The entry is new, or replaces one of its name.
Mutate(c) ==
  /\ change[c].at = "bumped"
  /\ change' = [change EXCEPT ![c] = [at |-> "mutated", data |-> data + 1]]
  /\ data' = data + 1
  /\ view' \in {view, view + 1}
  /\ UNCHANGED <<revision, channel, cursors>>

Expose(c) ==
  /\ change[c].at = "mutated"
  /\ change' = [change EXCEPT ![c].at = "exposed"]
  /\ channel' = Append(channel, change[c].data)
  /\ UNCHANGED <<collection, cursors>>

CommitRegistryChange(c) ==
  InvalidateCursors(c) \/ BumpRevision(c) \/ Mutate(c) \/ Expose(c)
=============================================================================
