-------------------------- MODULE HttpRequestProofs --------------------------
(***************************************************************************)
(* Proofs about HttpRequest, for any number of requests and any number of  *)
(* versions of the tool: a call runs once, is posted five times at most,   *)
(* shows one terminal and explains a mismatch that it shows.               *)
(***************************************************************************)
EXTENDS HttpRequest, SequenceTheorems, TLAPS

Shown == Terminals \cup {"failed"}

\* TypeOK's type of a request.
RequestType ==
  [kind : {"call", "list"}, at : {"idle", "build", "sent", "answered", "ending", "over"},
   attempt : {"main", "refresh", "retry"}, authRetried : BOOLEAN,
   versionRetried : BOOLEAN, local : Versions, plan : Versions, answer : Answers,
   listing : Versions, mode : Modes, mainMode : Modes,
   staged : [held : BOOLEAN, plan : Versions],
   posts : Nat, runs : Nat, got : Seq(Shown), why : {"", "refresh failed", "retry failed"}]

\* The posts a request may have made before its next one: the attempts behind it, and
\* one for each of its retries.
Budget(k) ==
  (IF k.attempt = "main" THEN 0 ELSE IF k.attempt = "refresh" THEN 1 ELSE 2)
  + (IF k.authRetried THEN 1 ELSE 0) + (IF k.versionRetried THEN 1 ELSE 0)

PostsInv(k) ==
  /\ k.posts <= 5 /\ (k.attempt # "main" => k.kind = "call")
  /\ k.at = "idle" => k.posts = 0 /\ k.attempt = "main"
  /\ k.at = "build" => k.posts <= Budget(k)
  /\ k.at \in {"sent", "answered"} \/ (k.at = "ending" /\ k.attempt = "refresh")
       => k.posts <= Budget(k) + 1

\* Nothing is shown before the end of the request is near; then there is one terminal,
\* and nothing but a failure may follow it.
GotInv(k) ==
  /\ k.at \in {"idle", "build", "sent", "answered"} \/ (k.at = "ending" /\ k.attempt = "refresh")
       => k.got = <<>>
  /\ k.at = "ending" /\ k.attempt # "refresh" => \E t \in Terminals : k.got = <<t>>
  /\ k.at = "over" => \/ \E t \in Shown : k.got = <<t>>
                      \/ \E t \in Terminals : k.got = <<t, "failed">>

\* Once a call has run nothing is posted for it any more.
RunsInv(k) ==
  /\ k.runs <= 1
  /\ k.runs > 0 =>
       /\ k.at \in {"answered", "ending", "over"}
       /\ k.at = "answered" => k.answer \in {"success", "error", "lost"}
       /\ k.at # "over" => k.attempt # "refresh"
  /\ "mismatch" \in Range(k.got) /\ k.runs > 0 => k.why = "retry failed"

\* A retry is posted with the plan its own refresh listed, and a server that finds this
\* one wrong has changed the tool since.
PlanInv(k, now) ==
  /\ k.listing <= now
  /\ k.attempt = "retry" /\ k.at \in {"build", "sent", "answered"} =>
       k.local = k.listing /\ k.local # NoPlan
  /\ k.attempt = "retry" /\ k.at \in {"sent", "answered"} => k.plan = k.listing
  /\ k.attempt = "retry" /\ k.at = "answered" /\ k.answer = "mismatch" => k.listing < now
  /\ k.attempt = "refresh" /\ k.at = "ending" /\ k.answer = "success" =>
       k.staged = [held |-> TRUE, plan |-> k.listing]
  /\ "mismatch" \in Range(k.got) =>
       k.why \in {"refresh failed", "retry failed"} \/ k.listing < now

RequestInv(k, now) ==
  /\ k \in RequestType
  /\ PostsInv(k) /\ GotInv(k) /\ RunsInv(k) /\ PlanInv(k, now)

Inv ==
  /\ TypeOK /\ CatalogIsWhole
  /\ \A r \in Requests : RequestInv(req[r], schema)

-----------------------------------------------------------------------------
(* What has been shown, as a set.                                          *)

LEMMA RangeOf ==
  ASSUME NEW t, NEW u
  PROVE  Range(<<>>) = {} /\ Range(<<t>>) = {t} /\ Range(<<t, u>>) = {t, u}
<1>1. DOMAIN <<>> = {} /\ DOMAIN <<t>> = {1} /\ DOMAIN <<t, u>> = {1, 2}
  OBVIOUS
<1>2. <<t>>[1] = t /\ <<t, u>>[1] = t /\ <<t, u>>[2] = u
  OBVIOUS
<1> QED
  BY <1>1, <1>2 DEF Range

LEMMA AppendOne ==
  ASSUME NEW t \in Shown, NEW u \in Shown
  PROVE  Append(<<>>, t) = <<t>> /\ Append(<<t>>, u) = <<t, u>>
<1>1. Append(<<>>, t) = <<t>>
  OBVIOUS
<1>2. /\ <<t>> \in Seq(Shown) /\ Len(<<t>>) = 1 /\ <<t>>[1] = t
      /\ <<t, u>> \in Seq(Shown) /\ Len(<<t, u>>) = 2
      /\ <<t, u>>[1] = t /\ <<t, u>>[2] = u
  OBVIOUS
<1>3. /\ Append(<<t>>, u) \in Seq(Shown) /\ Len(Append(<<t>>, u)) = 2
      /\ Append(<<t>>, u)[1] = t /\ Append(<<t>>, u)[2] = u
  BY <1>2
<1>4. \A i \in 1..Len(Append(<<t>>, u)) : Append(<<t>>, u)[i] = <<t, u>>[i]
  <2> TAKE i \in 1..Len(Append(<<t>>, u))
  <2>1. i = 1 \/ i = 2
    BY <1>3
  <2> QED
    BY <1>2, <1>3, <2>1
<1>5. Append(<<t>>, u) = <<t, u>>
  BY <1>2, <1>3, <1>4, SeqEqual
<1> QED
  BY <1>1, <1>5

-----------------------------------------------------------------------------
(* The operators that end an attempt.                                      *)

\* What holds of a request whatever becomes of it next.
MayEnd(k, now) ==
  /\ k \in RequestType /\ k.posts <= 5 /\ k.runs <= 1 /\ k.listing <= now
  /\ "mismatch" \in Range(k.got) =>
       /\ k.runs > 0 => k.why = "retry failed"
       /\ k.why \in {"refresh failed", "retry failed"} \/ k.listing < now

LEMMA InvMayEnd ==
  ASSUME NEW now, NEW k, RequestInv(k, now)
  PROVE  MayEnd(k, now)
BY DEF RequestInv, PostsInv, RunsInv, PlanInv, MayEnd

LEMMA Counts ==
  ASSUME NEW k \in RequestType
  PROVE  k.runs \in Nat /\ k.posts \in Nat /\ k.listing \in Versions /\ k.local \in Versions
BY DEF RequestType

LEMMA VersionsAre ==
  /\ Versions \subseteq Nat /\ NoPlan \in Versions /\ NoPlan = 0
  /\ 1..MaxSchema \subseteq Versions /\ 1..MaxSchema \subseteq Nat
BY SchemaAssumption DEF Versions, NoPlan

LEMMA AfterMainType ==
  ASSUME NEW k \in RequestType
  PROVE  /\ AfterMain(k) \in RequestType
         /\ AfterMain(k).attempt = "main"
         /\ AfterMain(k).at = IF k.mainMode = "sse" THEN "ending" ELSE "over"
         /\ AfterMain(k).got = k.got /\ AfterMain(k).why = k.why
         /\ AfterMain(k).runs = k.runs /\ AfterMain(k).posts = k.posts
         /\ AfterMain(k).listing = k.listing
<1>1. Nothing \in [held : BOOLEAN, plan : Versions]
  BY SchemaAssumption DEF Nothing, Versions, NoPlan
<1>2. k.mainMode \in Modes
  BY DEF RequestType
<1>3. AfterMain(k) = [k EXCEPT !.attempt = "main", !.mode = k.mainMode, !.staged = Nothing,
                              !.at = IF k.mainMode = "sse" THEN "ending" ELSE "over"]
  BY DEF AfterMain
<1>4. AfterMain(k) \in RequestType
  BY <1>1, <1>2, <1>3, ZenonT(60) DEF RequestType
<1> QED
  BY <1>3, <1>4 DEF RequestType

LEMMA AfterMainInv ==
  ASSUME NEW now, NEW k, MayEnd(k, now), NEW t \in Terminals, k.got = <<t>>
  PROVE  RequestInv(AfterMain(k), now)
<1> DEFINE e == AfterMain(k)
<1>1. /\ e \in RequestType /\ e.attempt = "main" /\ e.at \in {"ending", "over"}
      /\ e.got = <<t>> /\ e.why = k.why /\ e.runs = k.runs /\ e.posts = k.posts
      /\ e.listing = k.listing
  BY AfterMainType DEF MayEnd
<1> HIDE DEF e
<1>2. PostsInv(e)
  BY <1>1 DEF PostsInv, MayEnd
<1>3. GotInv(e)
  BY <1>1 DEF GotInv, Shown
<1>4. RunsInv(e) /\ PlanInv(e, now)
  BY <1>1 DEF RunsInv, PlanInv, MayEnd
<1> QED
  BY <1>1, <1>2, <1>3, <1>4 DEF RequestInv, e

LEMMA OverInv ==
  ASSUME NEW now, NEW k, MayEnd(k, now), k.at = "over",
         k.attempt # "main" => k.kind = "call",
         \/ \E t \in Shown : k.got = <<t>>
         \/ \E t \in Terminals : k.got = <<t, "failed">>
  PROVE  RequestInv(k, now)
<1>1. PostsInv(k)
  BY DEF PostsInv, MayEnd
<1>2. GotInv(k)
  BY DEF GotInv
<1>3. RunsInv(k) /\ PlanInv(k, now)
  BY DEF RunsInv, PlanInv, MayEnd
<1> QED
  BY <1>1, <1>2, <1>3 DEF RequestInv, MayEnd

LEMMA DeliverType ==
  ASSUME NEW k \in RequestType, NEW t \in Shown
  PROVE  /\ Deliver(k, t) \in RequestType
         /\ Deliver(k, t) = [k EXCEPT !.got = Append(k.got, t)]
<1>1. k.got \in Seq(Shown)
  BY DEF RequestType
<1>2. Append(k.got, t) \in Seq(Shown)
  BY <1>1
<1>3. Deliver(k, t) = [k EXCEPT !.got = Append(k.got, t)]
  BY DEF Deliver
<1> QED
  BY <1>2, <1>3, ZenonT(60) DEF RequestType

\* A failure comes last, alone or after one terminal.
LEMMA FailsInv ==
  ASSUME NEW now, NEW k, MayEnd(k, now), k.attempt # "main" => k.kind = "call",
         k.got = <<>> \/ \E t \in Terminals : k.got = <<t>>
  PROVE  RequestInv([Deliver(k, "failed") EXCEPT !.at = "over"], now)
<1> DEFINE d == Deliver(k, "failed")
           e == [d EXCEPT !.at = "over"]
<1>1. d \in RequestType /\ d = [k EXCEPT !.got = Append(k.got, "failed")]
  BY DeliverType DEF MayEnd, Shown
<1>2. /\ e \in RequestType /\ e.at = "over" /\ e.got = Append(k.got, "failed")
      /\ e.attempt = k.attempt /\ e.kind = k.kind /\ e.why = k.why /\ e.runs = k.runs
      /\ e.posts = k.posts /\ e.listing = k.listing
  BY <1>1 DEF MayEnd, RequestType
<1> HIDE DEF d, e
<1>3. /\ \/ \E t \in Shown : e.got = <<t>>
         \/ \E t \in Terminals : e.got = <<t, "failed">>
      /\ "mismatch" \in Range(e.got) => "mismatch" \in Range(k.got)
  <2>1. CASE k.got = <<>>
    <3>1. Append(<<>>, "failed") = <<"failed">>
      BY AppendOne DEF Shown
    <3>2. e.got = <<"failed">>
      BY <1>2, <2>1, <3>1
    <3>3. Range(<<"failed">>) = {"failed"} /\ "failed" \in Shown
      BY RangeOf DEF Shown
    <3> QED
      BY <3>2, <3>3
  <2>2. CASE \E t \in Terminals : k.got = <<t>>
    <3>1. PICK t \in Terminals : k.got = <<t>>
      BY <2>2
    <3>2. e.got = <<t, "failed">>
      BY <1>2, <3>1, AppendOne DEF Shown
    <3> QED
      BY <3>1, <3>2, RangeOf
  <2> QED
    BY <2>1, <2>2
<1>4. MayEnd(e, now)
  BY <1>2, <1>3 DEF MayEnd
<1>5. RequestInv(e, now)
  BY <1>2, <1>3, <1>4, OverInv
<1> QED
  BY <1>5 DEF d, e

LEMMA OriginalInv ==
  ASSUME NEW now, NEW k, MayEnd(k, now), k.got = <<>>,
         NEW reason \in {"refresh failed", "retry failed"},
         k.runs > 0 => reason = "retry failed"
  PROVE  RequestInv(Original(k, reason), now)
<1> DEFINE w == [k EXCEPT !.why = reason]
           d == Deliver(w, "mismatch")
<1>1. /\ w \in RequestType /\ w.why = reason /\ w.got = <<>>
      /\ w.runs = k.runs /\ w.posts = k.posts /\ w.listing = k.listing
  BY DEF MayEnd, RequestType
<1> HIDE DEF w
<1>2. d \in RequestType /\ d = [w EXCEPT !.got = Append(w.got, "mismatch")]
  BY <1>1, DeliverType DEF Shown, Terminals
<1>2a. Append(w.got, "mismatch") = <<"mismatch">>
  BY <1>1, AppendOne DEF Shown, Terminals
<1>3. /\ d.why = reason /\ d.got = <<"mismatch">>
      /\ d.runs = k.runs /\ d.posts = k.posts /\ d.listing = k.listing
  BY <1>1, <1>2, <1>2a, ZenonT(60) DEF RequestType
<1> HIDE DEF d
<1>4. MayEnd(d, now)
  BY <1>2, <1>3 DEF MayEnd
<1>5. RequestInv(AfterMain(d), now)
  BY <1>3, <1>4, AfterMainInv DEF Terminals
<1> QED
  BY <1>5 DEF Original, d, w

LEMMA FailedInv ==
  ASSUME NEW now, NEW k, MayEnd(k, now), k.attempt # "main" => k.kind = "call",
         k.got = <<>>, k.attempt = "refresh" => k.runs = 0
  PROVE  RequestInv(Failed(k), now)
<1>a. k.attempt = "refresh" => ~(k.runs > 0)
  OBVIOUS
<1>1. CASE k.attempt = "main"
  BY <1>1, FailsInv DEF Failed
<1>2. CASE k.attempt = "refresh"
  <2>1. RequestInv(Original(k, "refresh failed"), now)
    BY <1>a, <1>2, OriginalInv
  <2> QED
    BY <1>2, <2>1 DEF Failed
<1>3. CASE k.attempt = "retry"
  <2>1. RequestInv(Original(k, "retry failed"), now)
    BY <1>3, OriginalInv
  <2> QED
    BY <1>3, <2>1 DEF Failed
<1> QED
  BY <1>1, <1>2, <1>3 DEF MayEnd, RequestType

LEMMA RecoveredInv ==
  ASSUME NEW now, NEW k, MayEnd(k, now), k.attempt = "refresh", k.kind = "call",
         k.got = <<>>, k.runs = 0, k.posts <= Budget(k) + 1, k.local = k.listing
  PROVE  RequestInv(Recovered(k), now)
<1>a. ~(k.runs > 0)
  OBVIOUS
<1>b. k \in RequestType
  BY DEF MayEnd
<1>1. CASE k.local = NoPlan
  <2>1. RequestInv(Original(k, "refresh failed"), now)
    BY <1>a, OriginalInv
  <2> QED
    BY <1>1, <2>1 DEF Recovered
<1>2. CASE k.local # NoPlan
  <2> DEFINE e == [k EXCEPT !.attempt = "retry", !.at = "build", !.staged = Nothing]
  <2>1. Nothing \in [held : BOOLEAN, plan : Versions]
    BY SchemaAssumption DEF Nothing, Versions, NoPlan
  <2>2. /\ e \in RequestType /\ e.attempt = "retry" /\ e.at = "build" /\ e.kind = "call"
        /\ e.got = <<>> /\ e.why = k.why /\ e.runs = 0 /\ e.posts = k.posts
        /\ e.listing = k.listing /\ e.local = k.local
        /\ e.authRetried = k.authRetried /\ e.versionRetried = k.versionRetried
    BY <2>1 DEF MayEnd, RequestType
  <2> HIDE DEF e
  <2>3. PostsInv(e)
    <3>1. k.posts \in Nat /\ k.authRetried \in BOOLEAN /\ k.versionRetried \in BOOLEAN
      BY <1>b DEF RequestType
    <3>2. Budget(e) = Budget(k) + 1
      BY <2>2, <3>1 DEF Budget
    <3>3. e.posts <= 5 /\ e.posts <= Budget(e)
      BY <2>2, <3>2 DEF MayEnd
    <3> QED
      BY <2>2, <3>3 DEF PostsInv
  <2>4. GotInv(e) /\ RunsInv(e)
    BY <2>2, RangeOf DEF GotInv, RunsInv
  <2>5. PlanInv(e, now)
    BY <1>2, <2>2, RangeOf DEF PlanInv, MayEnd
  <2>6. RequestInv(e, now)
    BY <2>2, <2>3, <2>4, <2>5 DEF RequestInv
  <2> QED
    BY <1>2, <2>6 DEF Recovered, e
<1> QED
  BY <1>1, <1>2

\* The terminal of an attempt is known: what it may look like then.
AttemptDone(k, now) ==
  /\ MayEnd(k, now) /\ (k.attempt # "main" => k.kind = "call")
  /\ k.attempt # "refresh" => \E t \in Terminals : k.got = <<t>>
  /\ k.attempt = "refresh" => k.got = <<>> /\ k.runs = 0 /\ k.posts <= Budget(k) + 1

LEMMA EndedInv ==
  ASSUME NEW now, NEW k, AttemptDone(k, now),
         k.attempt = "refresh" /\ k.answer = "success" => k.local = k.listing
  PROVE  RequestInv(Ended(k), now)
<1>1. CASE k.attempt = "main"
  <2> DEFINE e == [k EXCEPT !.at = "over"]
  <2>1. /\ e \in RequestType /\ e.at = "over" /\ e.got = k.got
        /\ e.attempt = k.attempt /\ e.kind = k.kind /\ e.why = k.why /\ e.runs = k.runs
        /\ e.posts = k.posts /\ e.listing = k.listing
    BY DEF AttemptDone, MayEnd, RequestType
  <2> HIDE DEF e
  <2>2. MayEnd(e, now) /\ \E t \in Shown : e.got = <<t>>
    BY <1>1, <2>1 DEF AttemptDone, MayEnd, Shown
  <2>3. RequestInv(e, now)
    BY <1>1, <2>1, <2>2, OverInv
  <2> QED
    BY <1>1, <2>3 DEF Ended, e
<1>2. CASE k.attempt = "refresh" /\ k.answer = "success"
  <2>1. RequestInv(Recovered(k), now)
    BY <1>2, RecoveredInv DEF AttemptDone
  <2> QED
    BY <1>2, <2>1 DEF Ended
<1>3. CASE k.attempt = "refresh" /\ k.answer # "success"
  <2>1. RequestInv(Original(k, "refresh failed"), now)
    <3>1. ~(k.runs > 0)
      BY <1>3 DEF AttemptDone
    <3> QED
      BY <1>3, <3>1, OriginalInv DEF AttemptDone
  <2> QED
    BY <1>3, <2>1 DEF Ended
<1>4. CASE k.attempt = "retry"
  <2>1. RequestInv(AfterMain(k), now)
    BY <1>4, AfterMainInv DEF AttemptDone
  <2> QED
    BY <1>4, <2>1 DEF Ended
<1> QED
  BY <1>1, <1>2, <1>3, <1>4 DEF AttemptDone, MayEnd, RequestType

LEMMA TerminatedInv ==
  ASSUME NEW now, NEW k, AttemptDone(k, now),
         k.attempt = "refresh" /\ k.answer = "success" =>
           IF k.mode = "sse" THEN k.staged = [held |-> TRUE, plan |-> k.listing]
           ELSE k.local = k.listing,
         k.runs > 0 => k.attempt # "refresh"
  PROVE  RequestInv(Terminated(k), now)
<1>1. CASE k.mode = "sse"
  <2> DEFINE e == [k EXCEPT !.at = "ending"]
  <2>1. /\ e \in RequestType /\ e.at = "ending" /\ e.got = k.got
        /\ e.attempt = k.attempt /\ e.kind = k.kind /\ e.why = k.why /\ e.runs = k.runs
        /\ e.posts = k.posts /\ e.listing = k.listing /\ e.answer = k.answer
        /\ e.staged = k.staged
        /\ e.authRetried = k.authRetried /\ e.versionRetried = k.versionRetried
    BY DEF AttemptDone, MayEnd, RequestType
  <2> HIDE DEF e
  <2>2. PostsInv(e)
    BY <2>1 DEF PostsInv, AttemptDone, MayEnd, Budget
  <2>3. GotInv(e)
    BY <2>1 DEF GotInv, AttemptDone
  <2>4. RunsInv(e)
    BY <2>1 DEF RunsInv, AttemptDone, MayEnd
  <2>5. PlanInv(e, now)
    BY <1>1, <2>1 DEF PlanInv, AttemptDone, MayEnd
  <2>6. RequestInv(e, now)
    BY <2>1, <2>2, <2>3, <2>4, <2>5 DEF RequestInv
  <2> QED
    BY <1>1, <2>6 DEF Terminated, e
<1>2. CASE k.mode # "sse"
  <2>1. RequestInv(Ended(k), now)
    BY <1>2, EndedInv
  <2> QED
    BY <1>2, <2>1 DEF Terminated
<1> QED
  BY <1>1, <1>2

-----------------------------------------------------------------------------
(* The steps of a request.                                                 *)

\* The server's tool only moves on, so what a request knows stays true of it.
LEMMA LaterInv ==
  ASSUME NEW now \in Nat, NEW later \in Nat, now <= later, NEW k, RequestInv(k, now)
  PROVE  RequestInv(k, later)
<1>1. k \in RequestType /\ PlanInv(k, now)
  BY DEF RequestInv
<1>2. k.listing \in Nat
  BY <1>1, Counts, VersionsAre
<1>3. (k.listing <= now => k.listing <= later) /\ (k.listing < now => k.listing < later)
  BY <1>2
<1>4. PlanInv(k, later)
  BY Zenon, <1>1, <1>3 DEF PlanInv
<1> QED
  BY <1>4 DEF RequestInv

\* Requests are told apart: a step of one leaves the others alone.
LEMMA OneRequest ==
  ASSUME Inv, NEW r \in Requests, NEW e, RequestInv(e, schema),
         req' = [req EXCEPT ![r] = e], UNCHANGED schema
  PROVE  /\ req' \in [Requests -> RequestType]
         /\ \A q \in Requests : RequestInv(req'[q], schema')
<1>1. req \in [Requests -> RequestType] /\ e \in RequestType
  BY DEF Inv, TypeOK, RequestType, Shown, RequestInv
<1>2. \A q \in Requests : req'[q] = IF q = r THEN e ELSE req[q]
  BY <1>1
<1> QED
  BY <1>1, <1>2 DEF Inv

\* Before its terminal a request has shown nothing, and posted no more than it may.
LEMMA Going ==
  ASSUME NEW now, NEW k, RequestInv(k, now),
         k.at \in {"build", "sent", "answered"}
  PROVE  /\ MayEnd(k, now) /\ k.got = <<>>
         /\ k \in RequestType /\ k.posts \in Nat /\ k.runs \in Nat
         /\ k.attempt # "main" => k.kind = "call"
         /\ k.at = "build" => k.posts <= Budget(k)
         /\ k.at # "build" => k.posts <= Budget(k) + 1
         /\ k.at # "answered" => k.runs = 0
         /\ k.at = "answered" /\ k.answer \notin {"success", "error", "lost"} => k.runs = 0
         /\ k.attempt = "refresh" => k.runs = 0
<1>1. k \in RequestType /\ MayEnd(k, now)
  BY InvMayEnd DEF RequestInv
<1>2. k.posts \in Nat /\ k.runs \in Nat
  BY <1>1, Counts
<1>3. k.got = <<>> /\ (k.attempt # "main" => k.kind = "call")
  BY DEF RequestInv, GotInv, PostsInv
<1>4. /\ k.at = "build" => k.posts <= Budget(k)
      /\ k.at # "build" => k.posts <= Budget(k) + 1
  BY DEF RequestInv, PostsInv
<1>5. /\ k.at # "answered" => ~(k.runs > 0)
      /\ k.at = "answered" /\ k.answer \notin {"success", "error", "lost"} => ~(k.runs > 0)
      /\ k.attempt = "refresh" => ~(k.runs > 0)
  BY DEF RequestInv, RunsInv
<1> QED
  BY <1>1, <1>2, <1>3, <1>4, <1>5

LEMMA BudgetIs ==
  ASSUME NEW k \in RequestType
  PROVE  /\ Budget(k) \in 0..4
         /\ k.attempt = "main" => Budget(k) <= 2
         /\ k.attempt = "refresh" => Budget(k) <= 3
<1>1. k.authRetried \in BOOLEAN /\ k.versionRetried \in BOOLEAN
  BY DEF RequestType
<1> QED
  BY <1>1 DEF Budget

LEMMA BeginInv ==
  ASSUME NEW now, NEW k, RequestInv(k, now), k.at = "idle"
  PROVE  RequestInv([k EXCEPT !.at = "build"], now)
<1> DEFINE e == [k EXCEPT !.at = "build"]
<1>1. k \in RequestType /\ k.got = <<>> /\ k.posts = 0 /\ k.attempt = "main"
      /\ ~(k.runs > 0) /\ k.listing <= now
  BY DEF RequestInv, GotInv, PostsInv, RunsInv, PlanInv
<1>2. /\ e \in RequestType /\ e.at = "build" /\ e.got = <<>> /\ e.posts = 0
      /\ e.attempt = "main" /\ e.runs = k.runs /\ e.listing = k.listing
  BY <1>1 DEF RequestType
<1> HIDE DEF e
<1>3. PostsInv(e)
  BY <1>2, BudgetIs DEF PostsInv
<1>4. GotInv(e)
  BY <1>2 DEF GotInv
<1>5. RunsInv(e) /\ PlanInv(e, now)
  <2>1. Range(e.got) = {} /\ e.runs \in Nat /\ ~(e.runs > 0)
    BY <1>1, <1>2, RangeOf, Counts
  <2>2. e.runs <= 1 /\ e.listing <= now
    BY <1>1, <1>2, <2>1
  <2> QED
    BY Zenon, <1>2, <2>1, <2>2 DEF RunsInv, PlanInv
<1>6. RequestInv(e, now)
  BY <1>2, <1>3, <1>4, <1>5 DEF RequestInv
<1> QED
  BY <1>6 DEF e

LEMMA PostInv ==
  ASSUME TypeOK, NEW now, NEW k, RequestInv(k, now), k.at = "build"
  PROVE  RequestInv([k EXCEPT !.at = "sent", !.posts = @ + 1,
                       !.plan = IF Lists(k) THEN NoPlan ELSE PlanFor(k)], now)
<1> DEFINE p == IF Lists(k) THEN NoPlan ELSE PlanFor(k)
           e == [k EXCEPT !.at = "sent", !.posts = @ + 1, !.plan = p]
<1>1. /\ k \in RequestType /\ k.got = <<>> /\ k.posts \in Nat /\ k.posts <= Budget(k)
      /\ k.runs = 0 /\ (k.attempt # "main" => k.kind = "call") /\ MayEnd(k, now)
  BY Going
<1>2. p \in Versions
  BY <1>1, Counts, VersionsAre DEF PlanFor, TypeOK
<1>3. k.attempt = "retry" => p = k.listing
  <2>1. k.attempt = "retry" => k.local = k.listing /\ k.local # NoPlan
    BY DEF RequestInv, PlanInv
  <2> QED
    BY <1>1, <2>1 DEF Lists, PlanFor
<1> HIDE DEF p
<1>4. /\ e \in RequestType /\ e.at = "sent" /\ e.got = <<>> /\ e.posts = k.posts + 1
      /\ e.attempt = k.attempt /\ e.runs = 0 /\ e.listing = k.listing /\ e.kind = k.kind
      /\ e.local = k.local /\ e.plan = p
      /\ e.authRetried = k.authRetried /\ e.versionRetried = k.versionRetried
  <2>1. k.posts + 1 \in Nat /\ "sent" \in {"idle", "build", "sent", "answered", "ending", "over"}
    BY <1>1
  <2>2. e \in RequestType
    BY <1>1, <1>2, <2>1 DEF RequestType
  <2> QED
    BY <1>1, <2>2, ZenonT(60) DEF RequestType
<1> HIDE DEF e
<1>5. PostsInv(e)
  <2>1. Budget(e) = Budget(k) /\ Budget(k) \in 0..4
    BY <1>1, <1>4, BudgetIs DEF Budget
  <2> QED
    BY <1>1, <1>4, <2>1 DEF PostsInv
<1>6. GotInv(e)
  BY <1>4 DEF GotInv
<1>7. RunsInv(e)
  BY <1>4, RangeOf DEF RunsInv
<1>8. PlanInv(e, now)
  BY <1>3, <1>4, RangeOf DEF PlanInv, RequestInv
<1>9. RequestInv(e, now)
  BY <1>4, <1>5, <1>6, <1>7, <1>8 DEF RequestInv
<1> QED
  BY <1>9 DEF e, p

\* The server has answered: it ran the tool only for a call with the right plan, and
\* listed only for a listing.
LEMMA ServedInv ==
  ASSUME NEW now \in 1..MaxSchema, NEW k, RequestInv(k, now), k.at = "sent",
         NEW e \in RequestType, e.at = "answered",
         e.got = k.got, e.posts = k.posts, e.attempt = k.attempt, e.kind = k.kind,
         e.why = k.why, e.local = k.local, e.plan = k.plan,
         e.authRetried = k.authRetried, e.versionRetried = k.versionRetried,
         e.listing = k.listing \/ (Lists(k) /\ e.listing \in {now, NoPlan}),
         \/ e.runs = k.runs
         \/ e.runs = k.runs + 1 /\ ~Lists(k) /\ e.answer \in {"success", "error", "lost"},
         e.answer = "mismatch" => k.plan # now
  PROVE  RequestInv(e, now)
<1>1. /\ k.got = <<>> /\ k.posts \in Nat /\ k.posts <= Budget(k) + 1
      /\ k.runs = 0 /\ (k.attempt # "main" => k.kind = "call") /\ MayEnd(k, now)
      /\ k \in RequestType
  BY Going
<1>2. k.listing \in Nat /\ k.listing <= now /\ now \in Nat /\ NoPlan = 0
  <2>1. k.listing \in Nat
    BY <1>1, Counts, VersionsAre
  <2> QED
    BY <1>1, <2>1, VersionsAre DEF MayEnd
<1>2a. Range(e.got) = {}
  BY <1>1, RangeOf
<1>3. PostsInv(e)
  <2>1. Budget(e) = Budget(k)
    BY DEF Budget
  <2> QED
    BY <1>1, <2>1 DEF PostsInv, MayEnd
<1>4. GotInv(e)
  BY <1>1 DEF GotInv
<1>5. RunsInv(e)
  <2>1. e.runs <= 1 /\ (e.runs > 0 => e.runs # k.runs)
    BY <1>1
  <2> QED
    BY Zenon, <1>2a, <2>1 DEF RunsInv, Lists
<1>6. PlanInv(e, now)
  <2>1. k.attempt = "retry" => /\ k.local = k.listing /\ k.local # NoPlan
                               /\ k.plan = k.listing
    BY DEF RequestInv, PlanInv
  <2>2. k.attempt = "retry" => ~Lists(k)
    BY <1>1 DEF Lists
  <2>3. e.listing <= now
    BY <1>2
  <2>4. e.attempt = "retry" /\ e.answer = "mismatch" => e.listing < now
    BY <1>2, <2>1, <2>2
  <2> QED
    BY Zenon, <1>2a, <2>1, <2>2, <2>3, <2>4 DEF PlanInv
<1> QED
  BY <1>3, <1>4, <1>5, <1>6 DEF RequestInv

LEMMA ServeInv ==
  ASSUME TypeOK, NEW r \in Requests, RequestInv(req[r], schema), Serve(r),
         req \in [Requests -> RequestType]
  PROVE  \E e : req' = [req EXCEPT ![r] = e] /\ RequestInv(e, schema)
<1> DEFINE k == req[r]
           Answer(a, m) == [k EXCEPT !.at = "answered", !.answer = a, !.mode = m]
<1>1. k.at = "sent" /\ k \in RequestType /\ schema \in 1..MaxSchema /\ k.runs \in Nat
  BY Counts DEF Serve, At, TypeOK
<1>2. ASSUME NEW a \in Answers, NEW m \in Modes
      PROVE  /\ Answer(a, m) \in RequestType /\ Answer(a, m).at = "answered"
             /\ Answer(a, m).got = k.got /\ Answer(a, m).posts = k.posts
             /\ Answer(a, m).attempt = k.attempt /\ Answer(a, m).kind = k.kind
             /\ Answer(a, m).why = k.why /\ Answer(a, m).local = k.local
             /\ Answer(a, m).plan = k.plan /\ Answer(a, m).authRetried = k.authRetried
             /\ Answer(a, m).versionRetried = k.versionRetried
             /\ Answer(a, m).listing = k.listing /\ Answer(a, m).runs = k.runs
             /\ Answer(a, m).answer = a
  BY <1>1, <1>2 DEF RequestType
<1> HIDE DEF Answer
<1>3. ASSUME NEW a \in Answers, NEW m \in Modes, a = "mismatch" => k.plan # schema
      PROVE  RequestInv(Answer(a, m), schema)
  BY <1>1, <1>2, <1>3, ServedInv
<1>4. ASSUME NEW m \in Modes, NEW v \in {schema, NoPlan}, Lists(k)
      PROVE  RequestInv([Answer("success", m) EXCEPT !.listing = v], schema)
  <2> DEFINE b == Answer("success", m)
             e == [b EXCEPT !.listing = v]
  <2>1. "success" \in Answers
    BY DEF Answers
  <2>2. v \in Versions
    BY <1>1, VersionsAre
  <2>3. b \in RequestType
    BY <1>2, <2>1
  <2> HIDE DEF b
  <2>4. /\ e \in RequestType /\ e.at = b.at /\ e.got = b.got /\ e.posts = b.posts
        /\ e.attempt = b.attempt /\ e.kind = b.kind /\ e.why = b.why /\ e.local = b.local
        /\ e.plan = b.plan /\ e.authRetried = b.authRetried
        /\ e.versionRetried = b.versionRetried /\ e.listing = v /\ e.runs = b.runs
        /\ e.answer = b.answer
    BY <2>2, <2>3 DEF RequestType
  <2> HIDE DEF e
  <2>5. RequestInv(e, schema)
    BY <1>1, <1>2, <1>4, <2>1, <2>4, ServedInv DEF b
  <2> QED
    BY <2>5 DEF e, b
<1>5. ASSUME NEW a \in {"success", "error", "lost"}, NEW m \in Modes, ~Lists(k)
      PROVE  RequestInv([Answer(a, m) EXCEPT !.runs = @ + 1], schema)
  <2> DEFINE b == Answer(a, m)
             e == [b EXCEPT !.runs = @ + 1]
  <2>1. a \in Answers
    BY DEF Answers
  <2>2. b \in RequestType /\ b.runs = k.runs
    BY <1>2, <2>1
  <2> HIDE DEF b
  <2>3. b.runs + 1 \in Nat
    BY <1>1, <2>2
  <2>4. /\ e \in RequestType /\ e.at = b.at /\ e.got = b.got /\ e.posts = b.posts
        /\ e.attempt = b.attempt /\ e.kind = b.kind /\ e.why = b.why /\ e.local = b.local
        /\ e.plan = b.plan /\ e.authRetried = b.authRetried
        /\ e.versionRetried = b.versionRetried /\ e.listing = b.listing
        /\ e.runs = b.runs + 1 /\ e.answer = b.answer
    BY <2>2, <2>3 DEF RequestType
  <2> HIDE DEF e
  <2>5. RequestInv(e, schema)
    BY <1>1, <1>2, <1>5, <2>1, <2>4, ServedInv DEF b
  <2> QED
    BY <2>5 DEF e, b
<1>6. \E m \in Modes :
        \/ \E a \in Answers : /\ a = "mismatch" => k.plan # schema
                              /\ req' = [req EXCEPT ![r] = Answer(a, m)]
        \/ Lists(k) /\ \E v \in {schema, NoPlan} :
             req' = [req EXCEPT ![r] = [Answer("success", m) EXCEPT !.listing = v]]
        \/ ~Lists(k) /\ \E a \in {"success", "error", "lost"} :
             req' = [req EXCEPT ![r] = [Answer(a, m) EXCEPT !.runs = @ + 1]]
  BY DEF Serve, Answer, Answers
<1> QED
  BY <1>3, <1>4, <1>5, <1>6

\* An answer that only leads to another post: one retry is spent, or the recovery of a
\* refused call begins.
LEMMA AgainInv ==
  ASSUME NEW now, NEW k, RequestInv(k, now), k.at = "answered",
         k.answer \notin {"success", "error", "lost"},
         NEW e \in RequestType, e.at = "build",
         e.got = k.got, e.posts = k.posts, e.kind = k.kind, e.runs = k.runs,
         e.local = k.local, e.listing = k.listing,
         e.attempt # "main" => e.kind = "call",
         e.attempt = "retry" => k.attempt = "retry",
         Budget(e) = Budget(k) + 1
  PROVE  RequestInv(e, now)
<1>1. /\ k.got = <<>> /\ k.posts \in Nat /\ k.posts <= Budget(k) + 1
      /\ k.runs = 0 /\ MayEnd(k, now) /\ k \in RequestType
  BY Going
<1>2. Range(e.got) = {} /\ e.runs <= 1 /\ ~(e.runs > 0)
  <2>1. e.got = <<>> /\ e.runs = 0
    BY <1>1
  <2>2. Range(<<>>) = {}
    BY RangeOf
  <2> QED
    BY <2>1, <2>2
<1>3. PostsInv(e)
  <2>1. e.posts <= 5 /\ e.posts <= Budget(e)
    BY <1>1 DEF MayEnd
  <2> QED
    BY <2>1 DEF PostsInv
<1>4. GotInv(e)
  BY <1>1 DEF GotInv
<1>5. RunsInv(e)
  BY Zenon, <1>2 DEF RunsInv
<1>6. PlanInv(e, now)
  <2>1. e.listing <= now
    BY <1>1 DEF MayEnd
  <2>2. k.attempt = "retry" => k.local = k.listing /\ k.local # NoPlan
    BY DEF RequestInv, PlanInv
  <2> QED
    BY Zenon, <1>2, <2>1, <2>2 DEF PlanInv
<1> QED
  BY <1>3, <1>4, <1>5, <1>6 DEF RequestInv

LEMMA DeniedInv ==
  ASSUME NEW now, NEW k, RequestInv(k, now), k.at = "answered", k.answer = "denied"
  PROVE  /\ ~k.authRetried =>
              RequestInv([k EXCEPT !.authRetried = TRUE, !.at = "build"], now)
         /\ RequestInv(Failed([k EXCEPT !.authRetried = TRUE]), now)
<1>1. /\ k \in RequestType /\ MayEnd(k, now) /\ k.got = <<>>
      /\ (k.attempt # "main" => k.kind = "call")
      /\ k.runs = 0
  BY Going
<1>2. ASSUME ~k.authRetried
      PROVE  RequestInv([k EXCEPT !.authRetried = TRUE, !.at = "build"], now)
  <2> DEFINE e == [k EXCEPT !.authRetried = TRUE, !.at = "build"]
  <2>1. /\ e \in RequestType /\ e.at = "build" /\ e.got = k.got /\ e.posts = k.posts
        /\ e.kind = k.kind /\ e.runs = k.runs /\ e.local = k.local
        /\ e.listing = k.listing /\ e.attempt = k.attempt
        /\ e.authRetried = TRUE /\ e.versionRetried = k.versionRetried
    BY <1>1 DEF RequestType
  <2> HIDE DEF e
  <2>2. Budget(e) = Budget(k) + 1
    <3>1. k.versionRetried \in BOOLEAN
      BY <1>1 DEF RequestType
    <3> QED
      BY <1>2, <2>1, <3>1 DEF Budget
  <2>3. RequestInv(e, now)
    BY <1>1, <2>1, <2>2, AgainInv
  <2> QED
    BY <2>3 DEF e
<1>3. RequestInv(Failed([k EXCEPT !.authRetried = TRUE]), now)
  <2> DEFINE e == [k EXCEPT !.authRetried = TRUE]
  <2>1. /\ e \in RequestType /\ e.at = k.at /\ e.got = k.got /\ e.posts = k.posts
        /\ e.kind = k.kind /\ e.runs = k.runs /\ e.why = k.why
        /\ e.listing = k.listing /\ e.attempt = k.attempt
    BY <1>1 DEF RequestType
  <2> HIDE DEF e
  <2>2. MayEnd(e, now)
    BY <1>1, <2>1 DEF MayEnd
  <2>3. RequestInv(Failed(e), now)
    BY <1>1, <2>1, <2>2, FailedInv
  <2> QED
    BY <2>3 DEF e
<1> QED
  BY <1>2, <1>3

LEMMA VersionRefusedInv ==
  ASSUME NEW now, NEW k, RequestInv(k, now), k.at = "answered", k.answer = "version",
         ~k.versionRetried
  PROVE  RequestInv([k EXCEPT !.versionRetried = TRUE, !.at = "build"], now)
<1> DEFINE e == [k EXCEPT !.versionRetried = TRUE, !.at = "build"]
<1>1. k \in RequestType /\ (k.attempt # "main" => k.kind = "call")
  BY Going
<1>2. /\ e \in RequestType /\ e.at = "build" /\ e.got = k.got /\ e.posts = k.posts
      /\ e.kind = k.kind /\ e.runs = k.runs /\ e.local = k.local
      /\ e.listing = k.listing /\ e.attempt = k.attempt
      /\ e.versionRetried = TRUE /\ e.authRetried = k.authRetried
  BY <1>1 DEF RequestType
<1> HIDE DEF e
<1>3. Budget(e) = Budget(k) + 1
  <2>1. k.authRetried \in BOOLEAN
    BY <1>1 DEF RequestType
  <2> QED
    BY <1>2, <2>1 DEF Budget
<1>4. RequestInv(e, now)
  BY <1>1, <1>2, <1>3, AgainInv
<1> QED
  BY <1>4 DEF e

LEMMA RecoverInv ==
  ASSUME NEW now, NEW k, RequestInv(k, now), k.at = "answered", Recovers(k)
  PROVE  RequestInv([k EXCEPT !.attempt = "refresh", !.mainMode = k.mode, !.at = "build"],
                    now)
<1> DEFINE e == [k EXCEPT !.attempt = "refresh", !.mainMode = k.mode, !.at = "build"]
<1>1. k \in RequestType /\ k.kind = "call" /\ k.attempt = "main" /\ k.answer = "mismatch"
  BY Going DEF Recovers
<1>2. k.mode \in Modes
  BY <1>1 DEF RequestType
<1>3. /\ e \in RequestType /\ e.at = "build" /\ e.got = k.got /\ e.posts = k.posts
      /\ e.kind = k.kind /\ e.runs = k.runs /\ e.local = k.local
      /\ e.listing = k.listing /\ e.attempt = "refresh"
      /\ e.versionRetried = k.versionRetried /\ e.authRetried = k.authRetried
  BY <1>1, <1>2 DEF RequestType
<1> HIDE DEF e
<1>4. Budget(e) = Budget(k) + 1
  <2>1. k.authRetried \in BOOLEAN /\ k.versionRetried \in BOOLEAN
    BY <1>1 DEF RequestType
  <2> QED
    BY <1>1, <1>3, <2>1 DEF Budget
<1>5. RequestInv(e, now)
  BY <1>1, <1>3, <1>4, AgainInv
<1> QED
  BY <1>5 DEF e

LEMMA LoseInv ==
  ASSUME NEW now, NEW k, RequestInv(k, now), k.at = "answered"
  PROVE  RequestInv(Failed(k), now)
BY Going, FailedInv

LEMMA ListedInv ==
  ASSUME NEW now, NEW k, RequestInv(k, now), k.at = "answered", k.answer = "success",
         Lists(k)
  PROVE  LET v == k.listing
             kept == IF CommitsAtOnce(k) THEN [k EXCEPT !.local = v]
                     ELSE [k EXCEPT !.staged = [held |-> TRUE, plan |-> v]]
         IN  RequestInv(Terminated(IF k.attempt = "main" THEN Deliver(kept, "success")
                                   ELSE kept), now)
<1> DEFINE v == k.listing
           kept == IF CommitsAtOnce(k) THEN [k EXCEPT !.local = v]
                   ELSE [k EXCEPT !.staged = [held |-> TRUE, plan |-> v]]
           d == Deliver(kept, "success")
<1>1. /\ k \in RequestType /\ MayEnd(k, now) /\ k.got = <<>>
      /\ (k.attempt # "main" => k.kind = "call")
      /\ k.attempt = "refresh" => k.runs = 0 /\ k.posts <= Budget(k) + 1
  BY Going
<1>2. v \in Versions /\ [held |-> TRUE, plan |-> v] \in [held : BOOLEAN, plan : Versions]
  BY <1>1, Counts
<1>3. k.mode \in {"json", "sse"}
  BY <1>1 DEF RequestType, Modes
<1>4. /\ kept \in RequestType /\ kept.got = <<>> /\ kept.posts = k.posts
      /\ kept.kind = k.kind /\ kept.runs = k.runs /\ kept.why = k.why
      /\ kept.listing = v /\ kept.attempt = k.attempt /\ kept.mode = k.mode
      /\ kept.answer = k.answer
      /\ kept.versionRetried = k.versionRetried /\ kept.authRetried = k.authRetried
      /\ IF k.mode = "sse" THEN kept.staged = [held |-> TRUE, plan |-> v] ELSE kept.local = v
  <2>1. CASE k.mode = "json"
    <3>1. kept = [k EXCEPT !.local = v]
      BY <2>1 DEF CommitsAtOnce
    <3> HIDE DEF kept, v
    <3>2. v = k.listing
      BY DEF v
    <3> QED
      BY <1>1, <1>2, <2>1, <3>1, <3>2 DEF RequestType
  <2>2. CASE k.mode = "sse"
    <3>1. kept = [k EXCEPT !.staged = [held |-> TRUE, plan |-> v]]
      BY <2>2 DEF CommitsAtOnce
    <3> HIDE DEF kept, v
    <3>2. v = k.listing
      BY DEF v
    <3> QED
      BY <1>1, <1>2, <2>2, <3>1, <3>2 DEF RequestType
  <2> QED
    BY <1>3, <2>1, <2>2
<1> HIDE DEF kept, v
<1>5. CASE k.attempt = "main"
  <2>1. d \in RequestType /\ d = [kept EXCEPT !.got = Append(kept.got, "success")]
    BY <1>4, DeliverType DEF Shown, Terminals
  <2>2. Append(kept.got, "success") = <<"success">>
    BY <1>4, AppendOne DEF Shown, Terminals
  <2>3. /\ d.got = <<"success">> /\ d.posts = k.posts /\ d.kind = k.kind
        /\ d.runs = k.runs /\ d.why = k.why /\ d.listing = v /\ d.attempt = "main"
    BY <1>4, <1>5, <2>1, <2>2, ZenonT(60) DEF RequestType
  <2> HIDE DEF d
  <2>4. Range(d.got) = {"success"} /\ "success" \in Terminals
    BY <2>3, RangeOf DEF Terminals
  <2>5. MayEnd(d, now)
    BY <1>1, <2>1, <2>3, <2>4 DEF MayEnd, v
  <2>6. AttemptDone(d, now)
    BY Zenon, <2>3, <2>4, <2>5 DEF AttemptDone
  <2>7. RequestInv(Terminated(d), now)
    BY <2>3, <2>6, TerminatedInv
  <2> QED
    BY <1>5, <2>7 DEF d, kept, v
<1>6. CASE k.attempt # "main"
  <2>1. k.attempt = "refresh"
    BY <1>1, <1>6 DEF Lists
  <2>2. k.runs = 0 /\ k.posts <= Budget(k) + 1 /\ ~(kept.runs > 0)
    BY <1>1, <1>4, <2>1
  <2>3. Range(kept.got) = {}
    BY <1>4, RangeOf
  <2>4. MayEnd(kept, now)
    BY <1>1, <1>4, <2>3 DEF MayEnd, v
  <2>5. Budget(kept) = Budget(k)
    BY <1>4 DEF Budget
  <2>6. AttemptDone(kept, now)
    BY Zenon, <1>1, <1>4, <2>1, <2>2, <2>4, <2>5 DEF AttemptDone
  <2>7. RequestInv(Terminated(kept), now)
    BY <1>4, <2>2, <2>6, TerminatedInv
  <2> QED
    BY <1>6, <2>7 DEF kept, v
<1> QED
  BY <1>5, <1>6

\* A terminal is shown, with the reason a failed recovery gives for the mismatch.
LEMMA ShowsInv ==
  ASSUME NEW now, NEW k, RequestInv(k, now), k.at = "answered",
         NEW why \in {k.why, "", "retry failed"}, NEW t \in Terminals,
         k.attempt # "refresh",
         t = "mismatch" => /\ k.runs > 0 => why = "retry failed"
                           /\ why = "retry failed" \/ k.listing < now
  PROVE  RequestInv(Terminated(Deliver([k EXCEPT !.why = why], t)), now)
<1> DEFINE w == [k EXCEPT !.why = why]
           d == Deliver(w, t)
<1>1. /\ k \in RequestType /\ MayEnd(k, now) /\ k.got = <<>>
      /\ (k.attempt # "main" => k.kind = "call")
  BY Going
<1>2. why \in {"", "refresh failed", "retry failed"}
  BY <1>1 DEF RequestType
<1>3. w \in RequestType /\ w.why = why /\ w.got = <<>> /\ w.posts = k.posts /\ w.runs = k.runs
      /\ w.kind = k.kind /\ w.attempt = k.attempt /\ w.listing = k.listing
  BY <1>1, <1>2 DEF RequestType
<1> HIDE DEF w
<1>4. d \in RequestType /\ d = [w EXCEPT !.got = Append(w.got, t)]
  BY <1>3, DeliverType DEF Shown
<1>5. Append(w.got, t) = <<t>>
  BY <1>3, AppendOne DEF Shown
<1>6. d.why = why /\ d.got = <<t>> /\ d.posts = k.posts /\ d.runs = k.runs
      /\ d.kind = k.kind /\ d.attempt = k.attempt /\ d.listing = k.listing
  BY <1>3, <1>4, <1>5, ZenonT(60) DEF RequestType
<1> HIDE DEF d
<1>7. Range(d.got) = {t}
  BY <1>6, RangeOf
<1>8. MayEnd(d, now)
  BY Zenon, <1>1, <1>4, <1>6, <1>7 DEF MayEnd
<1>9. AttemptDone(d, now)
  BY Zenon, <1>1, <1>6, <1>8 DEF AttemptDone
<1>10. RequestInv(Terminated(d), now)
  BY <1>6, <1>9, TerminatedInv
<1> QED
  BY <1>10 DEF d, w

LEMMA FrameInv ==
  ASSUME NEW r \in Requests, RequestInv(req[r], schema), Frame(r), req \in [Requests -> RequestType]
  PROVE  \E e : req' = [req EXCEPT ![r] = e] /\ RequestInv(e, schema)
<1> DEFINE k == req[r]
           now == schema
           why == CASE k.answer = "mismatch" -> "" [] OTHER -> "retry failed"
           t == IF k.answer = "success" THEN "success" ELSE "error"
<1>1. k.at = "answered" /\ ~Recovers(k) /\ (k.answer = "success" => ~Lists(k))
  BY DEF Frame, At
<1>2. /\ k \in RequestType /\ MayEnd(k, now) /\ k.got = <<>>
      /\ (k.attempt # "main" => k.kind = "call")
      /\ k.attempt = "refresh" => k.runs = 0 /\ k.posts <= Budget(k) + 1
      /\ k.answer \notin {"success", "error", "lost"} => k.runs = 0
  BY <1>1, Going
<1>3. CASE k.attempt = "refresh"
  <2>1. req' = [req EXCEPT ![r] = Terminated(k)]
    BY <1>3 DEF Frame
  <2>2. k.runs = 0 /\ k.posts <= Budget(k) + 1 /\ ~(k.runs > 0)
    BY <1>2, <1>3
  <2>3. AttemptDone(k, now)
    BY Zenon, <1>2, <1>3, <2>2 DEF AttemptDone
  <2>4. RequestInv(Terminated(k), now)
    <3>1. k.answer # "success"
      BY <1>1, <1>3 DEF Lists
    <3> QED
      BY <2>2, <2>3, <3>1, TerminatedInv
  <2> QED
    BY <2>1, <2>4
<1>4. CASE k.attempt = "retry" /\ k.answer # "success"
  <2>1. req' = [req EXCEPT ![r] = Terminated(Deliver([k EXCEPT !.why = why], "mismatch"))]
    BY <1>4 DEF Frame
  <2>2. /\ k.runs > 0 => why = "retry failed"
        /\ why = "retry failed" \/ k.listing < now
    <3>1. CASE k.answer = "mismatch"
      <4>1. k.runs = 0
        BY <1>2, <3>1
      <4>2. k.listing < now
        BY <1>1, <1>4, <3>1 DEF RequestInv, PlanInv
      <4> QED
        BY <4>1, <4>2
    <3>2. CASE k.answer # "mismatch"
      BY <3>2
    <3> QED
      BY <3>1, <3>2
  <2>3. why \in {k.why, "", "retry failed"} /\ "mismatch" \in Terminals /\ k.attempt # "refresh"
    BY <1>4 DEF Terminals
  <2> HIDE DEF why
  <2>4. RequestInv(Terminated(Deliver([k EXCEPT !.why = why], "mismatch")), now)
    BY <1>1, <2>2, <2>3, ShowsInv
  <2> QED
    BY <2>1, <2>4
<1>5. CASE k.attempt # "refresh" /\ ~(k.attempt = "retry" /\ k.answer # "success")
  <2>1. req' = [req EXCEPT ![r] = Terminated(Deliver(k, t))]
    BY <1>5 DEF Frame
  <2>2. [k EXCEPT !.why = k.why] = k
    BY <1>2 DEF RequestType
  <2>3. k.why \in {k.why, "", "retry failed"} /\ t \in Terminals /\ t # "mismatch"
    BY DEF Terminals
  <2> HIDE DEF t
  <2>4. RequestInv(Terminated(Deliver([k EXCEPT !.why = k.why], t)), now)
    BY <1>1, <1>5, <2>3, ShowsInv
  <2> QED
    BY <2>1, <2>2, <2>4
<1> QED
  BY <1>3, <1>4, <1>5

\* What is known of a request whose stream is still to end.
LEMMA Ending ==
  ASSUME NEW now, NEW k, RequestInv(k, now), k.at = "ending"
  PROVE  /\ MayEnd(k, now) /\ AttemptDone(k, now) /\ k \in RequestType
         /\ k.attempt = "refresh" => k.runs = 0
         /\ k.attempt = "refresh" /\ k.answer = "success" =>
              k.staged = [held |-> TRUE, plan |-> k.listing]
<1>1. MayEnd(k, now) /\ k \in RequestType
  BY InvMayEnd DEF RequestInv
<1>2. k.attempt # "main" => k.kind = "call"
  BY DEF RequestInv, PostsInv
<1>3. k.attempt # "refresh" => \E t \in Terminals : k.got = <<t>>
  BY DEF RequestInv, GotInv
<1>4. k.attempt = "refresh" => k.got = <<>> /\ k.posts <= Budget(k) + 1 /\ ~(k.runs > 0)
  BY DEF RequestInv, GotInv, PostsInv, RunsInv
<1>5. k.attempt = "refresh" => k.runs = 0
  BY <1>1, <1>4, Counts
<1>6. k.attempt = "refresh" /\ k.answer = "success" =>
        k.staged = [held |-> TRUE, plan |-> k.listing]
  BY DEF RequestInv, PlanInv
<1> QED
  BY Zenon, <1>1, <1>2, <1>3, <1>4, <1>5, <1>6 DEF AttemptDone

LEMMA CleanEofInv ==
  ASSUME NEW now, NEW k, RequestInv(k, now), k.at = "ending"
  PROVE  RequestInv(Ended(IF k.staged.held THEN [k EXCEPT !.local = k.staged.plan] ELSE k), now)
<1>1. /\ MayEnd(k, now) /\ AttemptDone(k, now) /\ k \in RequestType
      /\ k.attempt = "refresh" /\ k.answer = "success" =>
           k.staged = [held |-> TRUE, plan |-> k.listing]
  BY Ending
<1>2. CASE k.staged.held
  <2> DEFINE e == [k EXCEPT !.local = k.staged.plan]
  <2>1. k.staged.plan \in Versions
    BY <1>1 DEF RequestType
  <2>2. /\ e \in RequestType /\ e.got = k.got /\ e.posts = k.posts
        /\ e.kind = k.kind /\ e.runs = k.runs /\ e.why = k.why /\ e.answer = k.answer
        /\ e.listing = k.listing /\ e.attempt = k.attempt /\ e.local = k.staged.plan
        /\ e.versionRetried = k.versionRetried /\ e.authRetried = k.authRetried
    BY <1>1, <2>1 DEF RequestType
  <2> HIDE DEF e
  <2>3. MayEnd(e, now) /\ Budget(e) = Budget(k)
    BY <1>1, <2>2 DEF MayEnd, Budget
  <2>4. AttemptDone(e, now)
    BY Zenon, <1>1, <2>2, <2>3 DEF AttemptDone
  <2>5. e.attempt = "refresh" /\ e.answer = "success" => e.local = e.listing
    BY <1>1, <2>2
  <2>6. RequestInv(Ended(e), now)
    BY <2>4, <2>5, EndedInv
  <2> QED
    BY <1>2, <2>6 DEF e
<1>3. CASE ~k.staged.held
  <2>1. ~(k.attempt = "refresh" /\ k.answer = "success")
    BY <1>1, <1>3
  <2>2. RequestInv(Ended(k), now)
    BY <1>1, <2>1, EndedInv
  <2> QED
    BY <1>3, <2>2
<1> QED
  BY <1>2, <1>3

LEMMA BrokenEofInv ==
  ASSUME NEW r \in Requests, RequestInv(req[r], schema), BrokenEof(r)
  PROVE  \E e : req' = [req EXCEPT ![r] = e] /\ RequestInv(e, schema)
<1> DEFINE k == req[r]
<1>1. /\ MayEnd(k, schema) /\ AttemptDone(k, schema) /\ k \in RequestType
      /\ k.attempt = "refresh" => k.runs = 0
  BY Ending DEF BrokenEof, At
<1>2. CASE k.attempt = "refresh"
  <2>1. k.got = <<>> /\ ~(k.runs > 0)
    BY <1>1, <1>2 DEF AttemptDone
  <2>2. RequestInv(Original(k, "refresh failed"), schema)
    BY <1>1, <2>1, OriginalInv
  <2> QED
    BY <1>2, <2>2 DEF BrokenEof
<1>3. CASE k.attempt # "refresh"
  <2>1. \E t \in Terminals : k.got = <<t>>
    BY <1>1, <1>3 DEF AttemptDone
  <2>2. RequestInv([Deliver(k, "failed") EXCEPT !.at = "over"], schema)
    BY <1>1, <2>1, FailsInv DEF AttemptDone
  <2>3. RequestInv(AfterMain(k), schema)
    BY <1>1, <2>1, AfterMainInv
  <2>4. RequestInv(RetryBroke(k), schema)
    BY <2>2, <2>3 DEF RetryBroke
  <2>5. \/ req' = [req EXCEPT ![r] = RetryBroke(k)]
        \/ req' = [req EXCEPT ![r] = [Deliver(k, "failed") EXCEPT !.at = "over"]]
    BY <1>3 DEF BrokenEof
  <2> QED
    BY <2>2, <2>4, <2>5
<1> QED
  BY <1>2, <1>3

-----------------------------------------------------------------------------
(* The steps of the transport.                                             *)

\* The step of a request, whichever it is, keeps what is known of it.
LEMMA RequestSteps ==
  ASSUME Inv, NEW r \in Requests,
         \/ Begin(r) \/ Post(r) \/ Serve(r)
         \/ Denied(r) \/ VersionRefused(r) \/ Lose(r) \/ Listed(r) \/ Recover(r)
         \/ Frame(r) \/ CleanEof(r) \/ BrokenEof(r)
  PROVE  \E e : req' = [req EXCEPT ![r] = e] /\ RequestInv(e, schema)
<1> DEFINE k == req[r]
<1>1. RequestInv(k, schema) /\ TypeOK /\ schema \in 1..MaxSchema
  BY DEF Inv, TypeOK
<1>2. req \in [Requests -> RequestType]
  BY <1>1 DEF TypeOK, RequestType, Shown
<1>3. CASE Begin(r)
  <2>1. RequestInv([k EXCEPT !.at = "build"], schema)
    BY <1>1, <1>3, BeginInv DEF Begin, At
  <2>2. req' = [req EXCEPT ![r] = [k EXCEPT !.at = "build"]]
    BY <1>3 DEF Begin
  <2> QED
    BY <2>1, <2>2
<1>4. CASE Post(r)
  <2> DEFINE e == [k EXCEPT !.at = "sent", !.posts = @ + 1,
                     !.plan = IF Lists(k) THEN NoPlan ELSE PlanFor(k)]
  <2>1. k.at = "build" /\ req' = [req EXCEPT ![r] = e]
    BY <1>4 DEF Post, At
  <2>2. RequestInv(e, schema)
    BY <1>1, <2>1, PostInv
  <2> QED
    BY <2>1, <2>2
<1>5. CASE Serve(r)
  BY <1>1, <1>2, <1>5, ServeInv
<1>6. CASE Denied(r)
  <2>1. k.at = "answered" /\ k.answer = "denied"
    BY <1>6 DEF Denied, At
  <2>2. \/ ~k.authRetried
           /\ req' = [req EXCEPT ![r] = [k EXCEPT !.authRetried = TRUE, !.at = "build"]]
        \/ req' = [req EXCEPT ![r] = Failed([k EXCEPT !.authRetried = TRUE])]
    BY <1>6 DEF Denied
  <2>3. /\ ~k.authRetried =>
             RequestInv([k EXCEPT !.authRetried = TRUE, !.at = "build"], schema)
        /\ RequestInv(Failed([k EXCEPT !.authRetried = TRUE]), schema)
    BY <1>1, <2>1, DeniedInv
  <2> QED
    BY <2>2, <2>3
<1>7. CASE VersionRefused(r)
  <2> DEFINE e == [k EXCEPT !.versionRetried = TRUE, !.at = "build"]
  <2>1. /\ k.at = "answered" /\ k.answer = "version" /\ ~k.versionRetried
        /\ req' = [req EXCEPT ![r] = e]
    BY <1>7 DEF VersionRefused, At
  <2>2. RequestInv(e, schema)
    BY <1>1, <2>1, VersionRefusedInv
  <2> QED
    BY <2>1, <2>2
<1>8. CASE Lose(r)
  <2>1. k.at = "answered" /\ req' = [req EXCEPT ![r] = Failed(k)]
    BY <1>8 DEF Lose, At
  <2>2. RequestInv(Failed(k), schema)
    BY <1>1, <2>1, LoseInv
  <2> QED
    BY <2>1, <2>2
<1>9. CASE Listed(r)
  <2> DEFINE v == k.listing
             kept == IF CommitsAtOnce(k) THEN [k EXCEPT !.local = v]
                     ELSE [k EXCEPT !.staged = [held |-> TRUE, plan |-> v]]
             e == Terminated(IF k.attempt = "main" THEN Deliver(kept, "success") ELSE kept)
  <2>1. k.at = "answered" /\ k.answer = "success" /\ Lists(k) /\ req' = [req EXCEPT ![r] = e]
    BY <1>9 DEF Listed, At
  <2>2. RequestInv(e, schema)
    BY <1>1, <2>1, ListedInv
  <2> QED
    BY <2>1, <2>2
<1>10. CASE Recover(r)
  <2> DEFINE e == [k EXCEPT !.attempt = "refresh", !.mainMode = k.mode, !.at = "build"]
  <2>1. k.at = "answered" /\ Recovers(k) /\ req' = [req EXCEPT ![r] = e]
    BY <1>10 DEF Recover, At
  <2>2. RequestInv(e, schema)
    BY <1>1, <2>1, RecoverInv
  <2> QED
    BY <2>1, <2>2
<1>11. CASE Frame(r)
  BY <1>1, <1>2, <1>11, FrameInv
<1>12. CASE CleanEof(r)
  <2> DEFINE e == Ended(IF k.staged.held THEN [k EXCEPT !.local = k.staged.plan] ELSE k)
  <2>1. k.at = "ending" /\ req' = [req EXCEPT ![r] = e]
    BY <1>12 DEF CleanEof, At
  <2>2. RequestInv(e, schema)
    BY <1>1, <2>1, CleanEofInv
  <2> QED
    BY <2>1, <2>2
<1>13. CASE BrokenEof(r)
  BY <1>1, <1>13, BrokenEofInv
<1> QED
  BY <1>3, <1>4, <1>5, <1>6, <1>7, <1>8, <1>9, <1>10, <1>11, <1>12, <1>13

\* What enters the catalog has been received whole, or is nothing.
LEMMA CatalogStep ==
  ASSUME Inv, NEW r \in Requests,
         \/ Begin(r) \/ Post(r) \/ Serve(r)
         \/ Denied(r) \/ VersionRefused(r) \/ Lose(r) \/ Listed(r) \/ Recover(r)
         \/ Frame(r) \/ CleanEof(r) \/ BrokenEof(r)
  PROVE  /\ plans' \in Versions /\ delivered' \subseteq Versions /\ CatalogIsWhole'
         /\ UNCHANGED <<schema, notices>>
<1>1. /\ plans \in Versions /\ delivered \subseteq Versions /\ CatalogIsWhole
      /\ req[r] \in RequestType
  BY DEF Inv, TypeOK, RequestInv
<1>2. /\ req[r].listing \in Versions /\ req[r].staged.plan \in Versions
      /\ req[r].mode \in {"json", "sse"}
  BY <1>1 DEF RequestType, Modes
<1>3. CASE \/ Begin(r) \/ Post(r) \/ Serve(r) \/ Denied(r) \/ VersionRefused(r) \/ Lose(r)
           \/ Frame(r) \/ BrokenEof(r)
  <2>1. UNCHANGED <<schema, notices, plans, delivered>>
    BY <1>3 DEF Begin, Post, Serve, Denied, VersionRefused, Lose, Frame, BrokenEof,
                catalog, server
  <2> QED
    BY <1>1, <2>1 DEF CatalogIsWhole
<1>4. CASE Listed(r)
  BY <1>1, <1>2, <1>4 DEF Listed, CommitsAtOnce, CatalogIsWhole, server
<1>5. CASE Recover(r)
  BY <1>1, <1>5, VersionsAre DEF Recover, CatalogIsWhole, server
<1>6. CASE CleanEof(r)
  BY <1>1, <1>2, <1>6 DEF CleanEof, CatalogIsWhole, server, catalog
<1> QED
  BY <1>3, <1>4, <1>5, <1>6

LEMMA InvStep == Inv /\ [Next]_vars => Inv'
<1> SUFFICES ASSUME Inv, [Next]_vars PROVE Inv'
  OBVIOUS
<1>1. /\ req \in [Requests -> RequestType] /\ schema \in 1..MaxSchema /\ notices \in Nat
      /\ \A r \in Requests : RequestInv(req[r], schema)
  BY DEF Inv, TypeOK, RequestType, Shown
<1>2. ASSUME req' \in [Requests -> RequestType], schema' \in 1..MaxSchema, notices' \in Nat,
             plans' \in Versions, delivered' \subseteq Versions, CatalogIsWhole',
             \A r \in Requests : RequestInv(req'[r], schema')
      PROVE  Inv'
  BY <1>2 DEF Inv, TypeOK, RequestType, Shown
<1>3. CASE UNCHANGED vars
  BY <1>3 DEF vars, Inv, TypeOK, CatalogIsWhole
<1>4. CASE \E r \in Requests :
             \/ Begin(r) \/ Post(r) \/ Serve(r)
             \/ Denied(r) \/ VersionRefused(r) \/ Lose(r) \/ Listed(r) \/ Recover(r)
             \/ Frame(r) \/ CleanEof(r) \/ BrokenEof(r)
  <2>1. PICK r \in Requests :
             \/ Begin(r) \/ Post(r) \/ Serve(r)
             \/ Denied(r) \/ VersionRefused(r) \/ Lose(r) \/ Listed(r) \/ Recover(r)
             \/ Frame(r) \/ CleanEof(r) \/ BrokenEof(r)
    BY <1>4
  <2>2. /\ plans' \in Versions /\ delivered' \subseteq Versions /\ CatalogIsWhole'
        /\ UNCHANGED <<schema, notices>>
    BY <2>1, CatalogStep
  <2>3. PICK e : req' = [req EXCEPT ![r] = e] /\ RequestInv(e, schema)
    BY <2>1, RequestSteps
  <2>4. /\ req' \in [Requests -> RequestType]
        /\ \A q \in Requests : RequestInv(req'[q], schema')
    BY <2>2, <2>3, OneRequest
  <2> QED
    BY <1>1, <1>2, <2>2, <2>4
<1>5. CASE ChangeSchema
  <2>1. /\ schema' = schema + 1 /\ schema < MaxSchema /\ notices' = notices + 1
        /\ UNCHANGED <<plans, delivered, req>>
    BY <1>5 DEF ChangeSchema, catalog
  <2>2. /\ schema \in Nat /\ schema' \in Nat /\ schema <= schema' /\ schema' \in 1..MaxSchema
        /\ notices' \in Nat
    BY <1>1, <2>1, SchemaAssumption
  <2>3. \A r \in Requests : RequestInv(req[r], schema')
    BY <1>1, <2>2, LaterInv
  <2>4. plans \in Versions /\ delivered \subseteq Versions /\ CatalogIsWhole
    BY DEF Inv, TypeOK
  <2> QED
    BY <1>1, <1>2, <2>1, <2>2, <2>3, <2>4 DEF CatalogIsWhole
<1>6. CASE ListChanged
  <2>1. notices' = notices - 1 /\ notices > 0 /\ plans' = NoPlan
        /\ UNCHANGED <<schema, delivered, req>>
    BY <1>6 DEF ListChanged
  <2>2. notices' \in Nat
    BY <1>1, <2>1
  <2>3. delivered \subseteq Versions
    BY DEF Inv, TypeOK
  <2> QED
    BY <1>1, <1>2, <2>1, <2>2, <2>3, VersionsAre DEF CatalogIsWhole
<1> QED
  BY <1>3, <1>4, <1>5, <1>6 DEF Next

LEMMA FreshInv ==
  ASSUME NEW kind \in {"call", "list"}
  PROVE  RequestInv(Fresh(kind), 1)
<1> DEFINE e == Fresh(kind)
<1>1. /\ NoPlan \in Versions /\ Nothing \in [held : BOOLEAN, plan : Versions]
      /\ "json" \in Modes /\ "lost" \in Answers
  BY VersionsAre DEF Nothing, Modes, Answers
<1>2. e \in RequestType
  BY <1>1 DEF Fresh, RequestType
<1>3. /\ e.at = "idle" /\ e.attempt = "main" /\ e.posts = 0 /\ e.runs = 0 /\ e.got = <<>>
      /\ e.listing = 0
  BY VersionsAre DEF Fresh
<1> HIDE DEF e
<1>4. Range(e.got) = {} /\ ~(e.runs > 0) /\ e.runs <= 1 /\ e.listing <= 1
  <2>1. Range(<<>>) = {}
    BY RangeOf
  <2> QED
    BY <1>3, <2>1
<1>5. PostsInv(e) /\ GotInv(e)
  BY <1>3 DEF PostsInv, GotInv
<1>6. RunsInv(e) /\ PlanInv(e, 1)
  BY Zenon, <1>3, <1>4 DEF RunsInv, PlanInv
<1> QED
  BY <1>2, <1>5, <1>6 DEF RequestInv, e

LEMMA InvInit == Init => Inv
<1> SUFFICES ASSUME Init PROVE Inv
  OBVIOUS
<1>1. /\ schema = 1 /\ notices = 0 /\ plans \in {NoPlan, 1} /\ delivered = {1}
      /\ req \in [Requests -> {Fresh("call"), Fresh("list")}]
  BY DEF Init
<1>2. RequestInv(Fresh("call"), 1) /\ RequestInv(Fresh("list"), 1)
  BY FreshInv
<1>3. /\ req \in [Requests -> RequestType]
      /\ \A r \in Requests : RequestInv(req[r], schema)
  <2>1. Fresh("call") \in RequestType /\ Fresh("list") \in RequestType
    BY <1>2 DEF RequestInv
  <2> QED
    BY <1>1, <1>2, <2>1
<1>4. 1 \in Versions /\ 1 \in 1..MaxSchema
  BY VersionsAre, SchemaAssumption
<1>5. TypeOK
  BY <1>1, <1>3, <1>4, VersionsAre DEF TypeOK, RequestType, Shown
<1> QED
  BY <1>1, <1>3, <1>5 DEF Inv, CatalogIsWhole

-----------------------------------------------------------------------------
(* The theorems.                                                           *)

\* The invariant of the transport's requests holds in every reachable state.
THEOREM Invariance == Spec => []Inv
BY InvInit, InvStep, PTL DEF Spec

\* Type correctness of the transport's requests and of its catalog.
THEOREM TypeCorrect == Spec => []TypeOK
<1>1. Inv => TypeOK
  BY DEF Inv
<1> QED
  BY <1>1, Invariance, PTL

\* A tool call runs once at most, is posted five times at most, and a mismatch it
\* shows after it ran is the failure of its retry.
THEOREM RunsOnce == Spec => []RunsAtMostOnce
<1>1. Inv => RunsAtMostOnce
  BY DEF Inv, RequestInv, RunsInv, PostsInv, RunsAtMostOnce
<1> QED
  BY <1>1, Invariance, PTL

\* Only listings received to their end are ever in the shared catalog.
THEOREM WholeCatalog == Spec => []CatalogIsWhole
<1>1. Inv => CatalogIsWhole
  BY DEF Inv
<1> QED
  BY <1>1, Invariance, PTL

\* A mismatch is shown only by a recovery that failed, or after the tool changed since
\* the call's own refresh.
THEOREM MismatchesExplained == Spec => []MismatchIsExplained
<1>1. Inv => MismatchIsExplained
  <2> SUFFICES ASSUME Inv, NEW r \in Requests, "mismatch" \in Range(req[r].got)
               PROVE  \/ req[r].why \in {"refresh failed", "retry failed"}
                      \/ schema > req[r].listing
    BY DEF MismatchIsExplained
  <2>1. PlanInv(req[r], schema) /\ req[r] \in RequestType /\ schema \in 1..MaxSchema
    BY DEF Inv, RequestInv, TypeOK
  <2>2. req[r].listing \in Nat /\ schema \in Nat
    BY <2>1, Counts, VersionsAre
  <2>3. req[r].why \in {"refresh failed", "retry failed"} \/ req[r].listing < schema
    BY <2>1 DEF PlanInv
  <2> QED
    BY <2>2, <2>3
<1> QED
  BY <1>1, Invariance, PTL

\* Every request shows one terminal before it is over, and after it a failure at most.
THEOREM TerminalsAreSingle == Spec => []OneTerminal
<1>1. ASSUME NEW k \in RequestType, GotInv(k)
      PROVE  /\ Len(k.got) <= 2
             /\ \A i \in DOMAIN k.got \ {Len(k.got)} :
                  k.got[i] # "failed" /\ k.got[i + 1] = "failed"
             /\ k.at = "over" => k.got # <<>>
  <2>1. CASE k.got = <<>>
    BY <1>1, <2>1 DEF GotInv
  <2>2. CASE \E t \in Shown : k.got = <<t>>
    BY <2>2
  <2>3. CASE \E t \in Terminals : k.got = <<t, "failed">>
    BY <2>3 DEF Terminals
  <2>4. k.at \in {"idle", "build", "sent", "answered", "ending", "over"}
    BY DEF RequestType
  <2> QED
    BY <1>1, <2>1, <2>2, <2>3, <2>4 DEF GotInv, Shown
<1>2. Inv => OneTerminal
  BY <1>1 DEF Inv, RequestInv, OneTerminal, At
<1> QED
  BY <1>2, Invariance, PTL
=============================================================================
