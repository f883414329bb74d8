----------------------------- MODULE ClientCache -----------------------------
(***************************************************************************)
(* One paged list, from the registry that serves it (ServerRegistry) to    *)
(* the client that caches its pages: the cache epochs, sendRequest and     *)
(* handleNotification in src/src/McpClient.ts, the least-recently-used     *)
(* store in src/src/McpCache.ts, and paginate in src/src/McpServer.ts,     *)
(* which answers the requests.                                             *)
(*                                                                         *)
(* A request asks for the first page or for the page a cursor names; one   *)
(* epoch and one selector cover both.  The cache is an injected service:   *)
(* its operations are atomic, and time passes around them.                 *)
(***************************************************************************)
EXTENDS ServerRegistry, OrderedMaps, SequencesExt

CONSTANTS
  Requests,   \* calls of sendRequest for the list
  First,      \* the key of the first page
  Capacity    \* capacity of the memory cache

\* A cursor is named by the call whose answer brought it.
ASSUME TokensAssumption == Tokens = Requests /\ First \notin Requests

ASSUME CapacityAssumption == Capacity \in Nat \ {0}

VARIABLES
  handler,    \* progress of handleNotification, and the data it announces
  told,       \* the newest data the application has been told of
  epoch,      \* cacheEpochs of the list
  cache,      \* the memory cache, least recently used first
  req         \* each call: progress, key, start epoch, the entry in hand, whether
              \* it stored late, and whether it began amid an invalidation

cacheVars == <<registryVars, handler, told, epoch, cache, req>>

notified == <<handler, told, epoch>>

\* An entry remembers which call stored it; the code's entries do not.
Keys == {First} \cup Requests
Entries == [key : Keys, reading : Readings, by : Requests]
InFlight == {"start", "got", "asking", "paging", "answered", "storing", "rechecking",
             "purging"}
Over == {"hit", "fetched", "interrupted"}

CacheTypeOK ==
  /\ RegistryTypeOK
  /\ handler \in [at : {"idle", "bumped", "purged"}, data : Nat]
  /\ told \in Nat /\ told <= data
  /\ epoch \in Nat
  /\ cache \in Seq(Entries) /\ Len(cache) <= Capacity
  /\ \A j, k \in DOMAIN cache : cache[j].key = cache[k].key => j = k
  /\ req \in [Requests -> [at : {"idle"} \cup InFlight \cup Over, key : Keys,
                           epoch : Nat, entry : Entries, late : BOOLEAN,
                           amid : BOOLEAN]]

CacheInit ==
  /\ RegistryInit
  /\ handler = [at |-> "idle", data |-> 0]
  /\ told = 0
  /\ epoch = 0
  /\ cache = <<>>
  /\ req = [r \in Requests |->
              [at |-> "idle", key |-> First, epoch |-> 0, late |-> FALSE, amid |-> FALSE,
               entry |-> [key |-> First, reading |-> Reading, by |-> r]]]

-----------------------------------------------------------------------------
(* McpCache.memory.                                                        *)

Found(k) == {e \in ToSet(cache) : e.key = k}
Without(k) == Kept(cache, Found(k))

\* The oldest entries beyond the capacity go.
Trimmed(q) == IF Len(q) > Capacity THEN Tail(q) ELSE q

\* A get moves the entry to the end, so does a set.
Touch(e) == cache' = Append(Without(e.key), e)
Set(e) == cache' = Trimmed(Append(Without(e.key), e))
InvalidateList == cache' = <<>>

-----------------------------------------------------------------------------
(* handleNotification: bump the epoch, invalidate, dispatch.               *)

UpdateEpochs ==
  /\ handler.at = "idle"
  /\ channel # <<>>
  /\ handler' = [at |-> "bumped", data |-> Head(channel)]
  /\ channel' = Tail(channel)
  /\ epoch' = epoch + 1
  /\ UNCHANGED <<collection, change, cursors, told, cache, req>>

InvalidateCache ==
  /\ handler.at = "bumped"
  /\ handler' = [handler EXCEPT !.at = "purged"]
  /\ InvalidateList
  /\ UNCHANGED <<registryVars, told, epoch, req>>

\* dispatcher.dispatch: the application learns of the change.
Dispatch ==
  /\ handler.at = "purged"
  /\ handler' = [handler EXCEPT !.at = "idle"]
  /\ told' = IF handler.data > told THEN handler.data ELSE told
  /\ UNCHANGED <<registryVars, epoch, cache, req>>

-----------------------------------------------------------------------------
(* sendRequest.                                                            *)

Goto(r, p) == req' = [req EXCEPT ![r].at = p]
Take(r, p, e) == req' = [req EXCEPT ![r].at = p, ![r].entry = e]
EpochMoved(r) == epoch # req[r].epoch

\* The cursors of the pages that calls have returned.
KnownCursors ==
  {req[r].entry.by :
     r \in {q \in Requests : req[q].at \in {"hit", "fetched"} /\ req[q].key = First}}

StartRequest(r) ==
  /\ req[r].at = "idle"
  /\ \E k \in {First} \cup KnownCursors :
       req' = [req EXCEPT ![r].at = "start", ![r].key = k, ![r].epoch = epoch,
                          ![r].amid = (handler.at = "bumped")]
  /\ UNCHANGED <<registryVars, notified, cache>>

\* A forced refresh does not look.
Refresh(r) ==
  /\ req[r].at = "start"
  /\ Goto(r, "asking")
  /\ UNCHANGED <<registryVars, notified, cache>>

LookUp(r) ==
  /\ req[r].at = "start"
  /\ \/ Found(req[r].key) = {} /\ Goto(r, "asking") /\ UNCHANGED cache
     \/ \E e \in Found(req[r].key) : Touch(e) /\ Take(r, "got", e)
  /\ UNCHANGED <<registryVars, notified>>

\* The entry has expired, or does not decode: the list is invalidated.
Corrupt(r) ==
  /\ req[r].at = "got"
  /\ InvalidateList
  /\ Goto(r, "asking")
  /\ UNCHANGED <<registryVars, notified>>

HitAlways(r) ==                                                        \* mutant
  /\ req[r].at = "got"
  /\ Goto(r, "hit")
  /\ UNCHANGED <<registryVars, notified, cache>>
\* An epoch that moved since the start turns the hit into a miss.
CheckHit(r) ==
  /\ req[r].at = "got"
  /\ Goto(r, IF EpochMoved(r) THEN "asking" ELSE "hit")
  /\ UNCHANGED <<registryVars, notified, cache>>

\* paginate starts: it reads the collection and its revision.
Read(r) ==
  /\ req[r].at = "asking"
  /\ Take(r, "paging", [key |-> req[r].key, reading |-> Reading, by |-> r])
  /\ UNCHANGED <<registryVars, notified, cache>>

\* The first page is answered with a cursor for the second.
IssueCursor(r) ==
  /\ req[r].at = "paging"
  /\ req[r].key = First
  /\ Issue(r, req[r].entry.reading)
  /\ Goto(r, "answered")
  /\ UNCHANGED <<collection, change, channel, notified, cache>>

\* The last page is answered if its cursor resolves to what was read; otherwise the
\* request fails.
ResolveCursor(r) ==
  /\ req[r].at = "paging"
  /\ req[r].key # First
  /\ Prune
  /\ Goto(r, IF Accepts(req[r].key, req[r].entry.reading) THEN "answered"
             ELSE "interrupted")
  /\ UNCHANGED <<collection, change, channel, notified, cache>>

\* The answer arrives; it may not be cacheable (no time to live, not complete).
Receive(r) ==
  /\ req[r].at = "answered"
  /\ \/ Goto(r, "fetched")
     \/ ~EpochMoved(r) /\ Goto(r, "storing")
  /\ UNCHANGED <<registryVars, notified, cache>>

Store(r) ==
  /\ req[r].at = "storing"
  /\ Set(req[r].entry)
  /\ req' = [req EXCEPT ![r].at = "rechecking", ![r].late = EpochMoved(r)]
  /\ UNCHANGED <<registryVars, notified>>

NoRecheck(r) ==                                                        \* mutant
  /\ req[r].at = "rechecking"
  /\ Goto(r, "fetched")
  /\ UNCHANGED <<registryVars, notified, cache>>
\* An epoch that moved under the write: the write is taken back.
Recheck(r) ==
  /\ req[r].at = "rechecking"
  /\ Goto(r, IF EpochMoved(r) THEN "purging" ELSE "fetched")
  /\ UNCHANGED <<registryVars, notified, cache>>

Purge(r) ==
  /\ req[r].at = "purging"
  /\ InvalidateList
  /\ Goto(r, "fetched")
  /\ UNCHANGED <<registryVars, notified>>

\* The caller is interrupted, or its request or a cache operation fails.
Interrupt(r) ==
  /\ req[r].at \in InFlight
  /\ Goto(r, "interrupted")
  /\ UNCHANGED <<registryVars, notified, cache>>

CacheNext ==
  \/ \E c \in Changes :
       CommitRegistryChange(c) /\ UNCHANGED <<notified, cache, req>>
  \/ UpdateEpochs \/ InvalidateCache \/ Dispatch
  \/ \E r \in Requests :
       \/ StartRequest(r) \/ Refresh(r) \/ LookUp(r) \/ Corrupt(r) \/ CheckHit(r)
       \/ Read(r) \/ IssueCursor(r) \/ ResolveCursor(r)
       \/ Receive(r) \/ Store(r) \/ Recheck(r) \/ Purge(r)
       \/ Interrupt(r)

CacheSpec == CacheInit /\ [][CacheNext]_cacheVars

-----------------------------------------------------------------------------
(* Properties.                                                             *)

\* The call that stored an entry wrote it although the epoch had moved since its
\* check, and has not taken it back: it is still to do so, or was interrupted.
LateWriter(r) ==
  req[r].late /\ req[r].at \in {"rechecking", "purging", "interrupted"}

\* Once the application has been told of a change, no older page stays in the
\* cache, however requests, changes and the handling of notifications interleave,
\* but for the one a late writer has put there.
StaleIsExplained ==
  \A e \in ToSet(cache) : e.reading.data < told => LateWriter(e.by)

\* No call is answered from the cache with less than the application knows at that
\* moment, again but for the entry of a late writer, and but for a call that began
\* between the bump of the epoch and the invalidation.
HitsAreCurrent ==
  [][\A r \in Requests :
       req[r].at # "hit" /\ req'[r].at = "hit" =>
         \/ req[r].entry.reading.data >= told
         \/ req[req[r].entry.by].late
         \/ req[r].amid]_cacheVars

\* The pages of a traversal agree, whether they come from the server or from the
\* cache: the second has the names of the first and is cut from the same version,
\* but for a first page read between a bump of the revision and its mutation.
PagesAgree ==
  \A r \in Requests :
    req[r].key # First /\ req[r].at \in {"hit", "fetched"} =>
      LET first == req[req[r].key].entry.reading
          second == req[r].entry.reading
      IN  /\ second.view = first.view
          /\ second.data = first.data \/ first.revision > first.data

=============================================================================
