--------------------------- MODULE ResponseStream ---------------------------
(***************************************************************************)
(* What a streamed response promises, with no senders, locks or slots: one *)
(* stream of items, given to the client in order and without a gap.  It    *)
(* may be cut short: then a tail of it is lost, and nothing follows.       *)
(*                                                                         *)
(*   ack       acknowledges a subscription; first, if there is one         *)
(*   note      a notification, before the terminal                         *)
(*   terminal  the answer, or the completion of a subscription             *)
(*   end       closes the stream, right behind the terminal                *)
(*   fail      breaks it off                                               *)
(***************************************************************************)
EXTENDS Naturals, Sequences

VARIABLES
  listens,   \* the response is that of a subscription (never changes)
  flight,    \* sent and not yet given
  wire,      \* given
  cut,       \* nothing more is taken in
  confirmed  \* the server was told that its completion has arrived

vars == <<listens, flight, wire, cut, confirmed>>

Stream == wire \o flight
Holds(s, i) == \E k \in 1..Len(s) : s[k] = i

Init ==
  /\ listens \in BOOLEAN
  /\ flight = <<>> /\ wire = <<>>
  /\ cut = FALSE /\ confirmed = FALSE

\* Nothing but the end comes behind a terminal, and nothing behind an end or a failure.
MaySend(i) ==
  /\ ~Holds(Stream, "end") /\ ~Holds(Stream, "fail")
  /\ i = "end" <=> Holds(Stream, "terminal")
  /\ i = "ack" => listens /\ Stream = <<>>

Send(i) ==
  /\ ~cut /\ MaySend(i)
  /\ flight' = Append(flight, i)
  /\ UNCHANGED <<listens, wire, cut, confirmed>>

\* A subscription that was not acknowledged is given nothing.
Give ==
  /\ flight # <<>>
  /\ listens /\ wire = <<>> => Head(flight) = "ack"
  /\ wire' = Append(wire, Head(flight))
  /\ flight' = Tail(flight)
  /\ cut' = (cut \/ Head(flight) \in {"end", "fail"})
  /\ UNCHANGED <<listens, confirmed>>

\* The reader goes away, or the server closes the response.
Cut ==
  /\ \E n \in 0..Len(flight) : flight' = SubSeq(flight, 1, n)
  /\ cut' = TRUE
  /\ UNCHANGED <<listens, wire, confirmed>>

\* A completion is confirmed when the client has been given it.
Confirm ==
  /\ listens /\ Holds(wire, "terminal")
  /\ confirmed' = TRUE
  /\ UNCHANGED <<listens, flight, wire, cut>>

Next ==
  \/ \E i \in {"ack", "note", "terminal", "end", "fail"} : Send(i)
  \/ Give \/ Cut \/ Confirm

Spec == Init /\ [][Next]_vars
=============================================================================
