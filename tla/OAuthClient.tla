---------------------------- MODULE OAuthClient ----------------------------
(***************************************************************************)
(* One OAuth client shared by concurrent requests: currentGrant, acquire   *)
(* and respondToChallenge of src/src/auth/client/runtime.ts, with the      *)
(* credential, transaction and token steps they run, as the HTTP transport *)
(* drives them (currentGrant, post, at most one challenge, post again).    *)
(*                                                                         *)
(* Nothing serialises the calls: each waits for the store, the network or  *)
(* the user between two steps, holding what it read.  The issuer and the   *)
(* resource are fixed, clients are registered dynamically, and a scope set *)
(* is a level: a higher one contains the lower.                            *)
(***************************************************************************)
EXTENDS Naturals, Sequences, FiniteSetsExt, TLC

CONSTANTS
  Calls,      \* callers: requests of the transport, and direct calls of acquire
  Trouble     \* bound: how many grants expire or are revoked

ASSUME TroubleAssumption == Trouble \in Nat

VARIABLES
  clients,    \* registered client ids, 1..clients; a lookup finds the newest
  grants,     \* every grant ever saved, by handle
  stored,     \* handles the store still holds
  remembered, \* rememberedGrantHandle, 0 if none
  uri,        \* whether validatedResourceMetadataUri is remembered
  late,       \* handles remembered when the store no longer held them
  call        \* progress of each call

vars == <<clients, grants, stored, remembered, uri, late, call>>

None == 0
Levels == {1, 2}
Handles == 1 .. Len(grants)

Grant == [level : Levels, client : Nat, refreshable : BOOLEAN,
          expired : BOOLEAN, revoked : BOOLEAN,
          spent : BOOLEAN,    \* a call has taken its refresh token to present it
          left : BOOLEAN,     \* ... and was interrupted, or the store kept it
          saves : Nat]        \* how often the store put a later grant in its place
NewGrant(level, client, refreshable) ==
  [level |-> level, client |-> client, refreshable |-> refreshable,
   expired |-> FALSE, revoked |-> FALSE, spent |-> FALSE, left |-> FALSE, saves |-> 0]

Working == {"lookup", "recall", "read", "use", "refresh", "present", "save", "verify",
            "find", "send", "challenged", "validated", "authorize", "register",
            "interact", "callback", "exchange", "confirm", "adopt"}
\* A removal waits for the store, then forgets, then the call goes on.
Removing == {"remove", "forget"}

TypeOK ==
  /\ clients \in Nat
  /\ grants \in Seq(Grant)
  /\ stored \subseteq Handles /\ late \subseteq Handles
  /\ remembered \in Handles \cup {None}
  /\ uri \in BOOLEAN
  /\ call \in [Calls -> [at : {"idle", "over"} \cup Working \cup Removing,
       job : {"request", "acquire"}, want : Levels, need : Levels,
       client : Nat, hand : Nat, read : Nat, fresh : Nat, prior : Nat, searched : BOOLEAN,
       retried : BOOLEAN, status : {0, 401, 403}, victim : Nat,
       then : {"", "miss", "adopt", "authorize", "discard", "fail"}]]

Idle(job, want, need) ==
  [at |-> "idle", job |-> job, want |-> want, need |-> need, client |-> None,
   hand |-> None, read |-> 0, fresh |-> None, prior |-> None, searched |-> FALSE,
   retried |-> FALSE, status |-> 0, victim |-> None, then |-> ""]
Jobs == {Idle("request", 1, 1), Idle("request", 1, 2), Idle("acquire", 2, 2)}

\* A client nobody used yet, or one that already acquired and remembers a grant.
Init ==
  /\ call \in [Calls -> Jobs]
  /\ \/ clients = 0 /\ grants = <<>>
     \/ clients = 1 /\ \E r \in BOOLEAN : grants = <<NewGrant(1, 1, r)>>
  /\ stored = Handles
  /\ remembered = Len(grants)
  /\ uri = FALSE
  /\ late = {}

-----------------------------------------------------------------------------
(* Steps of one call.                                                      *)

store == <<grants, stored>>
memory == <<remembered, late, uri>>

At(c, here) == call[c].at = here
Goto(c, there) == call' = [call EXCEPT ![c].at = there]
\* A call that ends, with a grant, an error or interrupted, lets go of what it held.
Ended(k) == [Idle(k.job, k.want, k.need) EXCEPT !.at = "over"]
End(c) == call' = [call EXCEPT ![c] = Ended(@)]

\* currentGrant has ended for call k, with a handle in hand or with none.
Ready(k) ==
  IF k.job = "request" THEN [k EXCEPT !.at = "send"]
  ELSE IF k.hand = None THEN [k EXCEPT !.at = "authorize"] ELSE Ended(k)

Remember(h) ==
  /\ remembered' = h
  /\ late' = IF h \in stored THEN late ELSE late \cup {h}

\* The grant in hand will not do: search the store once, then go without.
Miss(k) == IF k.searched THEN Ready([k EXCEPT !.hand = None])
           ELSE [k EXCEPT !.hand = None, !.at = "find"]

\* removeGrant of h; the call goes on with `next`.
Removed(k, h, next) == [k EXCEPT !.at = "remove", !.victim = h, !.then = next]
Removal(c, h, next) == call' = [call EXCEPT ![c] = Removed(@, h, next)]

\* saveGrant: the store names a new handle, or puts the grant in the place of one
\* it has for the same client and scopes.
Same(h, g) == grants[h].level = g.level /\ grants[h].client = g.client
Save(c, g, next) ==
  \/ /\ grants' = Append(grants, g)
     /\ stored' = stored \cup {Len(grants) + 1}
     /\ call' = [call EXCEPT ![c].at = next, ![c].fresh = Len(grants) + 1]
  \/ \E h \in Handles :
       /\ Same(h, g)
       /\ grants' = [grants EXCEPT ![h] = [g EXCEPT !.saves = grants[h].saves + 1]]
       /\ stored' = stored \cup {h}
       /\ call' = [call EXCEPT ![c].at = next, ![c].fresh = h]

-----------------------------------------------------------------------------
(* currentGrant.                                                           *)

\* discoverProtectedResourceMetadata: the first candidate that is not a 404.
Discovery == {"found", "absent", "failed"}

\* Without metadata there is no grant to look for, unless a URI was validated.
Start(c) ==
  /\ At(c, "idle")
  /\ \E outcome \in Discovery :
       \/ outcome = "found" /\ Goto(c, "lookup")
       \/ outcome = "absent" /\ ~uri /\ call' = [call EXCEPT ![c] = Ready(call[c])]
       \/ outcome # "found" /\ (outcome = "absent" => uri) /\ End(c)
  /\ UNCHANGED <<clients, store, memory>>

FindCredential(c) ==
  /\ At(c, "lookup")
  /\ call' = [call EXCEPT ![c] =
       IF clients = 0 THEN Ready(call[c])
       ELSE [call[c] EXCEPT !.at = "recall", !.client = clients]]
  /\ UNCHANGED <<clients, store, memory>>

Recall(c) ==
  /\ At(c, "recall")
  /\ call' = [call EXCEPT ![c].hand = remembered,
                          ![c].at = IF remembered = None THEN "find" ELSE "read"]
  /\ UNCHANGED <<clients, store, memory>>

ReadGrant(c) ==
  LET h == call[c].hand IN
  /\ At(c, "read")
  /\ IF h \in stored
     THEN call' = [call EXCEPT ![c].at = "use", ![c].read = grants[h].saves]
     ELSE End(c)
  /\ UNCHANGED <<clients, store, memory>>

Covered(k) == IF grants[k.hand].level >= k.want THEN Ready(k) ELSE Miss(k)

\* What the call read of the grant in hand, unless another took its place since.
Seen(c) ==
  LET g == grants[call[c].hand] IN
  IF g.saves = call[c].read THEN {g}
  ELSE {[g EXCEPT !.expired = e, !.refreshable = r] : e, r \in BOOLEAN}

\* useGrant, up to its first suspension.
UseGrant(c) ==
  LET h == call[c].hand IN
  /\ At(c, "use")
  /\ \E g \in Seen(c) :
       \/ /\ g.client # call[c].client
          /\ End(c)
          /\ UNCHANGED memory
       \/ /\ g.client = call[c].client /\ ~g.expired
          /\ Remember(h) /\ UNCHANGED uri
          /\ call' = [call EXCEPT ![c] = Covered(call[c])]
       \/ /\ g.client = call[c].client /\ g.expired
          /\ IF g.refreshable THEN Goto(c, "refresh") ELSE Removal(c, h, "miss")
          /\ UNCHANGED memory
  /\ UNCHANGED <<clients, store>>

\* The call has the grant it saved in hand.
Holding(k, h) ==
  [k EXCEPT !.hand = h, !.read = 0, !.fresh = None, !.prior = None, !.status = 0,
            !.victim = None, !.then = ""]

\* findGrant, for exactly the scopes wanted.
Findable(c) ==
  {h \in stored : grants[h].level = call[c].want /\ grants[h].client = call[c].client}
FindGrant(c) ==
  LET k == [call[c] EXCEPT !.searched = TRUE] IN
  /\ At(c, "find")
  /\ \/ Findable(c) = {} /\ call' = [call EXCEPT ![c] = Miss(k)]
     \/ \E h \in Findable(c) :
          call' = [call EXCEPT ![c] = [k EXCEPT !.at = "read", !.hand = h]]
  /\ UNCHANGED <<clients, store, memory>>

-----------------------------------------------------------------------------
(* Refreshing an expired grant.  Whatever fails, tapError removes it.      *)

\* Discovery of the server, and the grant read again for its token.
Refresh(c) ==
  LET h == call[c].hand IN
  /\ At(c, "refresh")
  /\ \/ /\ h \in stored /\ grants[h].refreshable
        /\ Goto(c, "present")
        /\ grants' = [grants EXCEPT ![h].spent = TRUE]
     \/ Removal(c, h, "fail") /\ UNCHANGED grants
  /\ UNCHANGED <<clients, stored, memory>>

\* The token request: the server may spend the token and the answer be lost.
Present(c) ==
  /\ At(c, "present")
  /\ Goto(c, "save") \/ Removal(c, call[c].hand, "fail")
  /\ UNCHANGED <<clients, store, memory>>

SaveRefreshed(c) ==
  LET h == call[c].hand
      g == grants[h] IN
  /\ At(c, "save")
  /\ \/ Save(c, NewGrant(g.level, g.client, TRUE), "verify")
     \/ Removal(c, h, "fail") /\ UNCHANGED store
  /\ UNCHANGED <<clients, memory>>

KeepOld(c) ==                                                          \* mutant
  /\ At(c, "verify")
  /\ Remember(call[c].fresh) /\ UNCHANGED uri
  /\ call' = [call EXCEPT ![c] = Covered(Holding(call[c], call[c].fresh))]
  /\ UNCHANGED <<clients, store>>
\* The new grant is read back before the old one goes; it goes first if the store
\* gives back another, and stays if the store does not answer.
VerifyRefreshed(c) ==
  LET h == call[c].hand
      n == call[c].fresh IN
  /\ At(c, "verify")
  /\ \/ n \in stored /\ n # h /\ Removal(c, h, "adopt")
     \/ n \in stored /\ n = h /\ Goto(c, "adopt")
     \/ n # h /\ Removal(c, n, "discard")
     \/ Removal(c, h, "fail")
  /\ UNCHANGED <<clients, store, memory>>

-----------------------------------------------------------------------------
(* removeGrant: the store's removal, and the forgetting it ensures.        *)

Remove(c) ==
  /\ At(c, "remove")
  /\ stored' = stored \ {call[c].victim}
  /\ Goto(c, "forget")
  /\ UNCHANGED <<clients, grants, memory>>

ForgetNothing(h) == UNCHANGED <<remembered, late>>                     \* mutant
ForgetGrant(h) ==
  /\ remembered' = IF remembered = h THEN None ELSE remembered
  /\ UNCHANGED late

\* ensuring runs even for a caller that is interrupted.
Forget(c) ==
  LET k == call[c] IN
  /\ At(c, "forget")
  /\ IF k.then = "adopt" THEN Remember(k.fresh) ELSE ForgetGrant(k.victim)
  /\ UNCHANGED uri
  /\ call' = [call EXCEPT ![c] =
       CASE k.then = "adopt" -> Covered(Holding(k, k.fresh))
         [] k.then = "miss" -> Miss(k)
         [] k.then = "authorize" -> [k EXCEPT !.at = "authorize"]
         [] k.then = "discard" -> Removed(k, k.hand, "fail")
         [] k.then = "fail" -> Ended(k)]
  /\ UNCHANGED <<clients, store>>

\* The grant in hand is given up with its token taken.
Leave(c) ==
  LET h == call[c].hand IN
  grants' = IF h \in stored THEN [grants EXCEPT ![h].left = @ \/ grants[h].spent] ELSE grants

\* The store refuses, and may have removed the grant all the same.  A refresh then
\* goes on to remove the grant in hand, once more if that was it; a failure on
\* behalf of another is swallowed.
RemoveFails(c) ==
  LET k == call[c] IN
  /\ At(c, "remove")
  /\ stored' \in {stored, stored \ {k.victim}}
  /\ ForgetGrant(k.victim) /\ UNCHANGED uri
  /\ IF k.then \in {"adopt", "discard"}
     THEN Removal(c, k.hand, "fail") /\ UNCHANGED grants
     ELSE End(c) /\ Leave(c)
  /\ UNCHANGED clients

-----------------------------------------------------------------------------
(* The transport's post, and respondToChallenge.                           *)

Accepted(c, h) == ~grants[h].expired /\ ~grants[h].revoked

\* buildHeaders reads the grant again, then the server answers.
Send(c) ==
  LET h == call[c].hand
      Challenge(status) ==
        IF call[c].retried THEN End(c)
        ELSE call' = [call EXCEPT ![c] =
          [Idle(@.job, @.want, @.need) EXCEPT
             !.at = "challenged", !.retried = TRUE, !.status = status, !.prior = h,
             !.read = IF h = None THEN 0 ELSE grants[h].saves]] IN
  /\ At(c, "send")
  /\ \/ h = None /\ Challenge(401)
     \/ h # None /\ h \notin stored /\ End(c)
     \/ h \in stored /\ ~Accepted(c, h) /\ Challenge(401)
     \/ h \in stored /\ Accepted(c, h) /\ grants[h].level < call[c].need /\ Challenge(403)
     \/ h \in stored /\ Accepted(c, h) /\ grants[h].level >= call[c].need /\ End(c)
  /\ UNCHANGED <<clients, store, memory>>

\* The prior grant is read; then discovery again.
Challenged(c) ==
  LET h == call[c].prior IN
  /\ At(c, "challenged")
  /\ \/ h = None /\ Goto(c, "authorize")
     \/ h \in stored /\ Goto(c, "validated")
     \/ h # None /\ h \notin stored /\ End(c)
  /\ UNCHANGED <<clients, store, memory>>

RejectsAlways(c) == TRUE                                               \* mutant
\* Only an invalid token condemns the prior grant, too few scopes do not.
Rejects(c) == call[c].status = 401

ValidatePrior(c) ==
  LET h == call[c].prior IN
  /\ At(c, "validated")
  /\ \/ grants[h].client # clients /\ End(c)
     \/ grants[h].client = clients /\ Rejects(c) /\ Removal(c, h, "authorize")
     \/ grants[h].client = clients /\ ~Rejects(c) /\ Goto(c, "authorize")
  /\ UNCHANGED <<clients, store, memory>>

-----------------------------------------------------------------------------
(* authorize.                                                              *)

\* The credential is there, or the client registers a new one.
ResolveContext(c) ==
  /\ At(c, "authorize")
  /\ IF clients = 0 THEN Goto(c, "register")
     ELSE IF call[c].prior # None /\ grants[call[c].prior].client # clients
          THEN End(c)
          ELSE call' = [call EXCEPT ![c].at = "interact", ![c].client = clients]
  /\ UNCHANGED <<clients, store, memory>>

Register(c) ==
  /\ At(c, "register")
  /\ clients' = clients + 1
  /\ call' = [call EXCEPT ![c].at = "interact", ![c].client = clients + 1]
  /\ UNCHANGED <<store, memory>>

\* The transaction is saved and the user sent to the server ...
Interact(c) ==
  /\ At(c, "interact")
  /\ Goto(c, "callback")
  /\ UNCHANGED <<clients, store, memory>>

\* ... whose callback takes the transaction and matches it.
CompleteCallback(c) ==
  /\ At(c, "callback")
  /\ Goto(c, "exchange")
  /\ UNCHANGED <<clients, store, memory>>

\* The union of the prior scopes, the configured and the challenged ones.
Requested(k) ==
  Max({k.want} \cup (IF k.prior = None THEN {} ELSE {grants[k.prior].level})
               \cup (IF k.status = 403 THEN {k.need} ELSE {}))

ExchangeCode(c) ==
  /\ At(c, "exchange")
  /\ \E refreshable \in BOOLEAN :
       Save(c, NewGrant(Requested(call[c]), call[c].client, refreshable), "confirm")
  /\ UNCHANGED <<clients, memory>>

\* The grant is read back, then the credential; it goes again if either does not
\* come, or is not the one expected.
Confirm(c) ==
  /\ At(c, "confirm")
  /\ \/ call[c].fresh \in stored /\ Goto(c, "adopt")
     \/ Removal(c, call[c].fresh, "fail")
  /\ UNCHANGED <<clients, store, memory>>

\* The grant is remembered, and the metadata URI if the challenge named one.
Adopt(c) ==
  LET h == call[c].fresh IN
  /\ At(c, "adopt")
  /\ Remember(h)
  /\ uri' \in {uri, uri \/ call[c].status # 0}
  /\ call' = [call EXCEPT ![c] = Covered(Holding(call[c], h))]
  /\ UNCHANGED <<clients, store>>

-----------------------------------------------------------------------------
(* The network, the user, the caller, the clock and the server.            *)

\* Discovery, registration, the user, the token endpoint or the store says no.
Refuse(c) ==
  /\ call[c].at \in {"lookup", "read", "find", "send", "challenged", "validated",
                     "authorize", "register", "interact", "callback", "exchange"}
  /\ End(c)
  /\ UNCHANGED <<clients, store, memory>>

\* tapError does not run for an interruption: a spent grant may stay behind.
\* ensuring does: a grant being removed is forgotten.
Interrupt(c) ==
  /\ call[c].at \in Working \cup Removing
  /\ End(c)
  /\ IF call[c].at \in {"present", "save", "verify"} \cup Removing
     THEN Leave(c) ELSE UNCHANGED grants
  /\ IF call[c].at \in Removing THEN ForgetGrant(call[c].victim) /\ UNCHANGED uri
     ELSE UNCHANGED memory
  /\ UNCHANGED <<clients, stored>>

Troubles == Quantify(Handles, LAMBDA h : grants[h].expired \/ grants[h].revoked)

Expire(h) ==
  /\ Troubles < Trouble /\ ~grants[h].expired
  /\ grants' = [grants EXCEPT ![h].expired = TRUE]
  /\ UNCHANGED <<clients, stored, memory, call>>

Revoke(h) ==
  /\ Troubles < Trouble /\ ~grants[h].revoked
  /\ grants' = [grants EXCEPT ![h].revoked = TRUE]
  /\ UNCHANGED <<clients, stored, memory, call>>

-----------------------------------------------------------------------------

Step(c) ==
  \/ Start(c) \/ FindCredential(c) \/ Recall(c) \/ ReadGrant(c) \/ UseGrant(c)
  \/ FindGrant(c) \/ Refresh(c) \/ Present(c) \/ SaveRefreshed(c) \/ VerifyRefreshed(c)
  \/ Remove(c) \/ RemoveFails(c) \/ Forget(c) \/ Send(c) \/ Challenged(c) \/ ValidatePrior(c)
  \/ ResolveContext(c) \/ Register(c) \/ Interact(c) \/ CompleteCallback(c)
  \/ ExchangeCode(c) \/ Confirm(c) \/ Adopt(c)

Next ==
  \/ \E c \in Calls : Step(c) \/ Refuse(c) \/ Interrupt(c)
  \/ \E h \in Handles : Expire(h) \/ Revoke(h)

Spec == Init /\ [][Next]_vars

CallSymmetry == Permutations(Calls)

-----------------------------------------------------------------------------
(* Properties.                                                             *)

\* The grant the call was judging has another in its place since.
Superseded(c, h) == grants[h].saves > call[c].read
\* The call saved it and has not got it back from the store.
Unconfirmed(c, h) == call[c].fresh = h /\ call[c].then \in {"discard", "fail"}

\* However calls overlap, a call removes no grant that still works, but for the two
\* the code removes without knowing: one the store put in the place of the grant the
\* call had found wanting, and one the call saved itself and could not read back.
WorkingGrantsAreKept ==
  [][\A h \in stored \ stored' :
       \/ grants[h].expired \/ grants[h].revoked
       \/ \E c \in Calls : /\ At(c, "remove") /\ call[c].victim = h
                           /\ Superseded(c, h) \/ Unconfirmed(c, h)]_vars

\* A stored grant whose refresh token was taken is on its way out, by the call that
\* took it, unless that call was interrupted or the store refused the removal: then
\* the next call finds the grant and presents the same token again.
SpentGrantIsLeaving ==
  \A h \in stored : grants[h].spent =>
    \/ grants[h].left
    \/ \E c \in Calls : /\ call[c].hand = h
                        /\ call[c].at \in {"present", "save", "verify"} \cup Removing

\* The remembered handle names a stored grant, except until the call that
\* removed it forgets it, or when a call that had read it remembered it late.
DanglingIsLate ==
  remembered \notin stored \cup {None} =>
    \/ remembered \in late
    \/ \E c \in Calls : At(c, "forget") /\ call[c].victim = remembered

=============================================================================
