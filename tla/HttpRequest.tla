---------------------------- MODULE HttpRequest ----------------------------
(***************************************************************************)
(* Requests of the Streamable HTTP client transport,                       *)
(* src/src/transport/StreamableHttpClientTransport.ts: one authorization   *)
(* retry, one version retry, and for a tool call refused for its headers   *)
(* one refresh of the tool catalog and one retry.  All requests share the  *)
(* catalog's header plans; each also keeps the plans it listed itself.     *)
(*                                                                         *)
(* One tool; its header plan is the version of the schema it was listed    *)
(* under, 0 if there is none.  The server's side is external: what it may  *)
(* answer to a post, and that it refuses before it runs the tool.          *)
(***************************************************************************)
EXTENDS Naturals, Sequences, Functions, TLC

CONSTANTS
  Requests,   \* requests of the client
  MaxSchema   \* bound: versions of the tool's schema

ASSUME SchemaAssumption == MaxSchema \in Nat \ {0}

VARIABLES
  schema,     \* the server's version of the tool
  notices,    \* tools/list_changed notifications on their way
  plans,      \* toolPlans of the transport: the shared plan of the tool
  delivered,  \* versions of listings that some request received to the end
  req         \* progress of each request

vars == <<schema, notices, plans, delivered, req>>

NoPlan == 0
Versions == NoPlan .. MaxSchema
Modes == {"json", "sse"}
Answers == {"denied", "version", "mismatch", "error", "success", "lost"}
Terminals == {"mismatch", "error", "success"}

\* staged: a listing that waits for the end of its stream.
Nothing == [held |-> FALSE, plan |-> NoPlan]

TypeOK ==
  /\ schema \in 1 .. MaxSchema
  /\ notices \in Nat
  /\ plans \in Versions
  /\ delivered \subseteq Versions
  /\ req \in [Requests ->
       [kind : {"call", "list"}, at : {"idle", "build", "sent", "answered", "ending", "over"},
        attempt : {"main", "refresh", "retry"}, authRetried : BOOLEAN,
        versionRetried : BOOLEAN, local : Versions, plan : Versions, answer : Answers,
        listing : Versions, mode : Modes, mainMode : Modes,
        staged : [held : BOOLEAN, plan : Versions],
        posts : Nat, runs : Nat, got : Seq(Terminals \cup {"failed"}),
        why : {"", "refresh failed", "retry failed"}]]

Fresh(kind) ==
  [kind |-> kind, at |-> "idle", attempt |-> "main", authRetried |-> FALSE,
   versionRetried |-> FALSE, local |-> NoPlan, plan |-> NoPlan, answer |-> "lost",
   listing |-> NoPlan, mode |-> "json", mainMode |-> "json", staged |-> Nothing,
   posts |-> 0, runs |-> 0, got |-> <<>>, why |-> ""]

Init ==
  /\ schema = 1
  /\ notices = 0
  /\ plans \in {NoPlan, 1}
  /\ delivered = {1}
  /\ req \in [Requests -> {Fresh("call"), Fresh("list")}]

At(r, here) == req[r].at = here
catalog == <<plans, delivered>>
server == <<schema, notices>>

\* The request on the wire: the call itself, or the listing of its recovery.
Lists(k) == k.kind = "list" \/ k.attempt = "refresh"

-----------------------------------------------------------------------------
(* Posting.                                                                *)

Begin(r) ==
  /\ At(r, "idle")
  /\ req' = [req EXCEPT ![r].at = "build"]
  /\ UNCHANGED <<server, catalog>>

SharedPlan(k) == plans                                                 \* mutant
\* The plan a call is built with: its own listing goes before the catalog.
PlanFor(k) == IF k.local # NoPlan THEN k.local ELSE plans

Post(r) ==
  LET k == req[r] IN
  /\ At(r, "build")
  /\ req' = [req EXCEPT ![r] = [k EXCEPT !.at = "sent", !.posts = @ + 1,
               !.plan = IF Lists(k) THEN NoPlan ELSE PlanFor(k)]]
  /\ UNCHANGED <<server, catalog>>

\* What the server makes of the post.  It runs the tool only for headers that
\* fit its schema, and after that the answer may still be lost.
Serve(r) ==
  LET k == req[r]
      Answer(a, m) == [k EXCEPT !.at = "answered", !.answer = a, !.mode = m] IN
  /\ At(r, "sent")
  /\ \E m \in Modes :
       \/ \E a \in {"denied", "version", "lost"} :
            m = "json" /\ req' = [req EXCEPT ![r] = Answer(a, m)]
       \/ /\ Lists(k)
          /\ \/ req' = [req EXCEPT ![r] = Answer("error", m)]
             \/ \E v \in {schema, NoPlan} :
                  req' = [req EXCEPT ![r] = [Answer("success", m) EXCEPT !.listing = v]]
       \/ /\ ~Lists(k) /\ k.plan # schema
          /\ req' = [req EXCEPT ![r] = Answer("mismatch", m)]
       \/ /\ ~Lists(k) /\ k.plan = schema
          /\ \E a \in {"success", "error", "lost"} :
               req' = [req EXCEPT ![r] = [Answer(a, m) EXCEPT !.runs = @ + 1]]
  /\ UNCHANGED <<server, catalog>>

-----------------------------------------------------------------------------
(* What the consumer gets.                                                 *)

Deliver(k, terminal) == [k EXCEPT !.got = Append(@, terminal)]

\* The end of the main attempt's own stream is still to come in SSE mode.
AfterMain(k) ==
  [k EXCEPT !.attempt = "main", !.mode = k.mainMode, !.staged = Nothing,
            !.at = IF k.mainMode = "sse" THEN "ending" ELSE "over"]

\* A recovery that came to nothing shows the mismatch it began with.
Original(k, reason) == AfterMain(Deliver([k EXCEPT !.why = reason], "mismatch"))

\* An attempt fails before its terminal: only the main one shows it.
Failed(k) ==
  CASE k.attempt = "main" -> [Deliver(k, "failed") EXCEPT !.at = "over"]
    [] k.attempt = "refresh" -> Original(k, "refresh failed")
    [] k.attempt = "retry" -> Original(k, "retry failed")

\* The refresh has ended well: retry with what it listed, if it lists the tool.
Recovered(k) ==
  IF k.local = NoPlan THEN Original(k, "refresh failed")
  ELSE [k EXCEPT !.attempt = "retry", !.at = "build", !.staged = Nothing]

\* After its terminal an attempt in SSE mode waits for the end of the stream.
Ended(k) ==
  CASE k.attempt = "main" -> [k EXCEPT !.at = "over"]
    [] k.attempt = "refresh" ->
         IF k.answer = "success" THEN Recovered(k) ELSE Original(k, "refresh failed")
    [] k.attempt = "retry" -> AfterMain(k)
Terminated(k) == IF k.mode = "sse" THEN [k EXCEPT !.at = "ending"] ELSE Ended(k)

-----------------------------------------------------------------------------
(* Answers.                                                                *)

\* respondToChallenge and one more post, once in a request's life.
Denied(r) ==
  LET k == req[r] IN
  /\ At(r, "answered") /\ k.answer = "denied"
  /\ \/ ~k.authRetried
        /\ req' = [req EXCEPT ![r] = [k EXCEPT !.authRetried = TRUE, !.at = "build"]]
     \/ req' = [req EXCEPT ![r] = Failed([k EXCEPT !.authRetried = TRUE])]
  /\ UNCHANGED <<server, catalog>>

\* A supported version was refused: post once more, else it is an error frame.
VersionRefused(r) ==
  LET k == req[r] IN
  /\ At(r, "answered") /\ k.answer = "version" /\ ~k.versionRetried
  /\ req' = [req EXCEPT ![r] = [k EXCEPT !.versionRetried = TRUE, !.at = "build"]]
  /\ UNCHANGED <<server, catalog>>

Lose(r) ==
  LET k == req[r] IN
  /\ At(r, "answered") /\ k.answer = "lost"
  /\ req' = [req EXCEPT ![r] = Failed(k)]
  /\ UNCHANGED <<server, catalog>>

CommitsAlways(k) == TRUE                                               \* mutant
\* A listing in one body is whole; one in a stream is staged to its end.
CommitsAtOnce(k) == k.mode = "json"

\* processFrame of a listing: the catalog, then the frame.
Listed(r) ==
  LET k == req[r]
      v == k.listing
      kept == IF CommitsAtOnce(k) THEN [k EXCEPT !.local = v]
              ELSE [k EXCEPT !.staged = [held |-> TRUE, plan |-> v]] IN
  /\ At(r, "answered") /\ k.answer = "success" /\ Lists(k)
  /\ plans' = IF CommitsAtOnce(k) THEN v ELSE plans
  /\ delivered' = IF k.mode = "json" THEN delivered \cup {v} ELSE delivered
  /\ req' = [req EXCEPT ![r] =
       Terminated(IF k.attempt = "main" THEN Deliver(kept, "success") ELSE kept)]
  /\ UNCHANGED server

RecoversErrors(k) ==                                                   \* mutant
  k.kind = "call" /\ k.attempt = "main" /\ k.answer \in {"mismatch", "error"}
\* allowRecovery, and the header mismatch of a tool call.
Recovers(k) == k.kind = "call" /\ k.attempt = "main" /\ k.answer = "mismatch"

\* invalidateToolPlan, then tools/list in the name of the call.
Recover(r) ==
  LET k == req[r] IN
  /\ At(r, "answered") /\ Recovers(k)
  /\ plans' = NoPlan
  /\ req' = [req EXCEPT ![r] = [k EXCEPT !.attempt = "refresh", !.mainMode = k.mode,
                                         !.at = "build"]]
  /\ UNCHANGED <<server, delivered>>

\* Any other terminal.  preserveOriginalRetryFailure keeps only the success of
\* a retry, and the refresh shows nothing of its own.
Frame(r) ==
  LET k == req[r]
      why == CASE k.answer = "mismatch" -> "" [] OTHER -> "retry failed" IN
  /\ At(r, "answered") /\ ~Recovers(k)
  /\ \/ k.answer \in {"mismatch", "error"}
     \/ k.answer = "version" /\ k.versionRetried
     \/ k.answer = "success" /\ ~Lists(k)
  /\ req' = [req EXCEPT ![r] = Terminated(
       CASE k.attempt = "refresh" -> k
         [] k.attempt = "retry" /\ k.answer # "success" ->
              Deliver([k EXCEPT !.why = why], "mismatch")
         [] OTHER -> Deliver(k, IF k.answer = "success" THEN "success" ELSE "error"))]
  /\ UNCHANGED <<server, catalog>>

-----------------------------------------------------------------------------
(* The end of a stream.                                                    *)

\* commitStagedCatalog at a clean end.
CleanEof(r) ==
  LET k == req[r]
      whole == IF k.staged.held THEN [k EXCEPT !.local = k.staged.plan] ELSE k IN
  /\ At(r, "ending")
  /\ IF k.staged.held
     THEN plans' = k.staged.plan /\ delivered' = delivered \cup {k.staged.plan}
     ELSE UNCHANGED catalog
  /\ req' = [req EXCEPT ![r] = Ended(whole)]
  /\ UNCHANGED server

RetryBrokeAfter(k) == Original(k, "retry failed")                       \* mutant
\* The retry's stream breaks after its terminal: nothing follows the original.
RetryBroke(k) ==
  IF "mismatch" \in Range(k.got) THEN AfterMain(k)
  ELSE [Deliver(k, "failed") EXCEPT !.at = "over"]

\* The stream breaks, or holds more after its terminal.
BrokenEof(r) ==
  LET k == req[r] IN
  /\ At(r, "ending")
  /\ req' = [req EXCEPT ![r] =
       CASE k.attempt = "refresh" -> Original(k, "refresh failed")
         [] k.attempt = "retry" -> RetryBroke(k)
         [] OTHER -> [Deliver(k, "failed") EXCEPT !.at = "over"]]
  /\ UNCHANGED <<server, catalog>>

-----------------------------------------------------------------------------
(* The server's schema, and a subscription that hears of its changes.      *)

ChangeSchema ==
  /\ schema < MaxSchema
  /\ schema' = schema + 1
  /\ notices' = notices + 1
  /\ UNCHANGED <<catalog, req>>

ListChanged ==
  /\ notices > 0
  /\ notices' = notices - 1
  /\ plans' = NoPlan
  /\ UNCHANGED <<schema, delivered, req>>

-----------------------------------------------------------------------------

Next ==
  \/ \E r \in Requests :
       \/ Begin(r) \/ Post(r) \/ Serve(r)
       \/ Denied(r) \/ VersionRefused(r) \/ Lose(r) \/ Listed(r) \/ Recover(r) \/ Frame(r)
       \/ CleanEof(r) \/ BrokenEof(r)
  \/ ChangeSchema \/ ListChanged

Spec == Init /\ [][Next]_vars

RequestSymmetry == Permutations(Requests)

-----------------------------------------------------------------------------
(* Properties.                                                             *)

\* However its retries combine, a tool call runs at most once on the server;
\* and a caller that sees the header mismatch may take it that the tool did not
\* run, unless the answer to the retry was an error or was lost.  Nor do the budgets
\* multiply: one authorization retry, one version retry, one recovery of two posts.
RunsAtMostOnce ==
  \A r \in Requests :
    /\ req[r].runs <= 1 /\ req[r].posts <= 5
    /\ "mismatch" \in Range(req[r].got) /\ req[r].runs > 0 => req[r].why = "retry failed"

\* A listing of which only a part was received never becomes the catalog.
CatalogIsWhole == plans \in delivered \cup {NoPlan}

\* A call that recovers uses what its own refresh listed, whatever the other
\* requests and notifications do to the shared catalog meanwhile: so a second
\* mismatch means that the tool changed again, or that the refresh failed.
MismatchIsExplained ==
  \A r \in Requests : "mismatch" \in Range(req[r].got) =>
    \/ req[r].why \in {"refresh failed", "retry failed"}
    \/ schema > req[r].listing

\* The consumer gets one terminal, and nothing after a failure.
OneTerminal ==
  \A r \in Requests :
    /\ Len(req[r].got) <= 2
    /\ \A i \in DOMAIN req[r].got \ {Len(req[r].got)} :
         req[r].got[i] # "failed" /\ req[r].got[i + 1] = "failed"
    /\ At(r, "over") => req[r].got # <<>>
=============================================================================
