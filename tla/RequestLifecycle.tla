-------------------------- MODULE RequestLifecycle --------------------------
(***************************************************************************)
(* What the server dispatcher promises a peer, with no fibers, permits or  *)
(* queues: who holds each request id, and what each request may still say. *)
(*                                                                         *)
(*   unused     not received yet, or refused                               *)
(*   open       may send notifications and one terminal                    *)
(*   answered   its terminal has been handed over: says nothing more       *)
(*   winding    will never be answered; a notification may still be on     *)
(*              its way out                                                *)
(*   withdrawn  cancelled: says nothing more                               *)
(***************************************************************************)
EXTENDS Naturals

CONSTANTS Ids, Owners, NoOwner

VARIABLES idOf, holder, stage, spoken

vars == <<idOf, holder, stage, spoken>>

Stages == {"unused", "open", "answered", "winding", "withdrawn"}

Init ==
  /\ idOf \in [Owners -> Ids]
  /\ holder = [i \in Ids |-> NoOwner]
  /\ stage = [o \in Owners |-> "unused"]
  /\ spoken = [o \in Owners |-> 0]

\* A request is accepted only under an id nobody holds.
Accept(o) ==
  /\ stage[o] = "unused"
  /\ holder[idOf[o]] = NoOwner
  /\ holder' = [holder EXCEPT ![idOf[o]] = o]
  /\ stage' = [stage EXCEPT ![o] = "open"]
  /\ UNCHANGED <<idOf, spoken>>

Notify(o) ==
  /\ stage[o] \in {"open", "winding"}
  /\ spoken' = [spoken EXCEPT ![o] = @ + 1]
  /\ UNCHANGED <<idOf, holder, stage>>

\* The terminal: the id stays held until the write settles.
Answer(o) ==
  /\ stage[o] = "open"
  /\ holder[idOf[o]] = o
  /\ stage' = [stage EXCEPT ![o] = "answered"]
  /\ UNCHANGED <<idOf, holder, spoken>>

\* A cancellation wins the race for the terminal.
Claim(o) ==
  /\ stage[o] = "open"
  /\ stage' = [stage EXCEPT ![o] = "winding"]
  /\ UNCHANGED <<idOf, holder, spoken>>

\* The cancellation takes hold.
Withdraw(o) ==
  /\ stage[o] = "winding"
  /\ stage' = [stage EXCEPT ![o] = "withdrawn"]
  /\ UNCHANGED <<idOf, holder, spoken>>

\* Only the holder gives an id back; a request not answered by then never is.
Release(o) ==
  /\ holder[idOf[o]] = o
  /\ holder' = [holder EXCEPT ![idOf[o]] = NoOwner]
  /\ stage' = [stage EXCEPT ![o] = IF @ = "open" THEN "winding" ELSE @]
  /\ UNCHANGED <<idOf, spoken>>

\* The dispatcher closes: every id is given back at once.
Shutdown ==
  /\ holder' = [i \in Ids |-> NoOwner]
  /\ stage' = [o \in Owners |-> IF stage[o] = "open" THEN "winding" ELSE stage[o]]
  /\ UNCHANGED <<idOf, spoken>>

Next ==
  \/ \E o \in Owners : Accept(o) \/ Notify(o) \/ Answer(o) \/ Claim(o)
                       \/ Withdraw(o) \/ Release(o)
  \/ Shutdown

Spec == Init /\ [][Next]_vars
=============================================================================
