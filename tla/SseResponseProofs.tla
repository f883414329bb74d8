-------------------------- MODULE SseResponseProofs --------------------------
(***************************************************************************)
(* Proofs about SseResponse, for any number of notifying fibers and any    *)
(* number of frame slots: the slots add up, the stream is well formed, a   *)
(* completion is reported after its delivery, the response implements      *)
(* ResponseStream, and closing and answering go on and run out.            *)
(***************************************************************************)
EXTENDS SseResponse, SequenceTheorems, FiniteSetTheorems, TLAPS

Places == {"idle", "waiting", "awaiting"} \cup Locked \cup Over

\* Every item in the order of the wire: given, in the reader's hands, queued.
Order(w, r, q) == w \o Held(r) \o q

\* Nothing in e ends the stream; nothing in e is a control item; e is well formed.
Frames(e) == \A k \in 1..Len(e) : e[k] \in {"ack", "note"}
NoControl(e) == \A k \in 1..Len(e) : e[k] \in FrameItems
Ends(e) ==
  \A k \in 1..Len(e) :
    /\ e[k] = "terminal" => \A j \in (k + 1)..Len(e) : e[j] = "end"
    /\ e[k] \in ControlItems => k = Len(e)

\* A frame slot is free, in the queue or in the hands of the sender about to offer.
Taken(snd) == IF \E s \in Senders : snd[s] = "offer" THEN 1 ELSE 0
SumInv == scope \in {"open", "closing"} => slots + FramesIn(queue) + Taken(sender) = MaxPending

\* Who has one of these places was let in while the response was open, and holds the
\* lock since: nobody else has ended the stream.
Offering == {"encoding", "slot", "offer", "breaking"}

StreamInv ==
  /\ Ends(Emitted)
  /\ state = "Open" \/ (\E s \in Senders : sender[s] \in Offering) => Frames(Emitted)
  /\ sender[Answer] = "ending" => NoControl(Emitted)
  /\ \A s \in Senders :
       /\ sender[s] \in {"ending", "awaiting"} => s = Answer
       /\ sender[s] = "breaking" => state # "Open"
       /\ s = Answer /\ sender[s] \in {"slot", "offer", "ending"} => state # "Open"
  /\ scope = "shut" => queue = <<>>

\* The acknowledgement comes first: nobody but the opener sends before the subscription
\* is registered, and the opener keeps the lock from there to the acknowledgement.
AckIsFirst(e) == e # <<>> /\ e[1] = "ack"
AckInv ==
  /\ reader.at = "none" => wire = <<>>
  /\ sender[Opener] \in {"waiting"} \cup Locked => reader.at = "none"
  /\ ~listens => sender[Opener] = "idle"
  /\ listens /\ sender[Opener] \in {"idle", "waiting"} => registered = "no"
  /\ listens /\ registered = "no" =>
       /\ \A s \in Senders \ {Opener} : sender[s] = "idle"
       /\ sender[Opener] \notin Locked \cup {"done", "awaiting"}
  /\ listens /\ (registered = "no" \/ sender[Opener] \in Locked) => queue = <<>>
  /\ listens /\ wire # <<>> => wire[1] = "ack"
  /\ listens /\ (reader.at \in {"pulling", "delivering"}
                 \/ (reader.at = "none" /\ sender[Opener] = "done")) =>
       AckIsFirst(Emitted) \/ (scope = "shut" /\ Emitted = <<>>)

\* A completion is done when the terminal has been delivered.
DeliveryInv ==
  /\ delivered => \E k \in 1..Len(wire) : wire[k] = "terminal"
  /\ listens /\ sender[Answer] = "done" => delivered

Inv == TypeOK /\ SumInv /\ StreamInv /\ AckInv /\ DeliveryInv

-----------------------------------------------------------------------------
(* The stream as one sequence.                                             *)

ReaderType ==
  [at : {"none", "pulling", "ended"}, item : {"none"}] \cup [at : {"delivering"}, item : Items]

LEMMA HeldType ==
  ASSUME NEW r \in ReaderType
  PROVE  Held(r) \in Seq(Items)
<1>1. CASE r.at = "delivering"
  <2>1. r.item \in Items
    BY <1>1 DEF ReaderType
  <2> QED
    BY <1>1, <2>1 DEF Held
<1>2. CASE r.at # "delivering"
  BY <1>2, EmptySeq DEF Held
<1> QED
  BY <1>1, <1>2

LEMMA OrderIs ==
  ASSUME NEW w \in Seq(Items), NEW r \in ReaderType, NEW q \in Seq(Items)
  PROVE  /\ Order(w, r, q) \in Seq(Items)
         /\ Order(w, r, q) = w \o (Held(r) \o q)
<1>1. Held(r) \in Seq(Items)
  BY HeldType
<1>2. w \o Held(r) \in Seq(Items)
  BY <1>1, ConcatProperties
<1>3. (w \o Held(r)) \o q \in Seq(Items)
  BY <1>2, ConcatProperties
<1>4. (w \o Held(r)) \o q = w \o (Held(r) \o q)
  BY <1>1, ConcatAssociative
<1> QED
  BY <1>3, <1>4 DEF Order

\* What is put in the queue comes last.
LEMMA OrderPut ==
  ASSUME NEW w \in Seq(Items), NEW r \in ReaderType, NEW q \in Seq(Items), NEW i \in Items
  PROVE  Order(w, r, Append(q, i)) = Append(Order(w, r, q), i)
<1> DEFINE h == w \o Held(r)
<1>1. h \in Seq(Items)
  BY HeldType, ConcatProperties
<1>2. Append(q, i) \in Seq(Items) /\ Len(Append(q, i)) = Len(q) + 1
  OBVIOUS
<1> HIDE DEF h
<1>3. \A a \in Seq(Items) : Append(a, i) = a \o <<i>>
  BY AppendIsConcat
<1>4. <<i>> \in Seq(Items)
  OBVIOUS
<1>5. h \o (q \o <<i>>) = (h \o q) \o <<i>>
  BY <1>1, <1>4, ConcatAssociative
<1>6. h \o q \in Seq(Items)
  BY <1>1, ConcatProperties
<1>7. h \o Append(q, i) = Append(h \o q, i)
  BY <1>3, <1>5, <1>6
<1> QED
  BY <1>7 DEF Order, h

LEMMA ConcatItems ==
  ASSUME NEW a \in Seq(Items), NEW b \in Seq(Items)
  PROVE  /\ a \o b \in Seq(Items) /\ Len(a \o b) = Len(a) + Len(b)
         /\ \A i \in 1..(Len(a) + Len(b)) :
              (a \o b)[i] = IF i <= Len(a) THEN a[i] ELSE b[i - Len(a)]
BY ConcatProperties

LEMMA HeadThenTail ==
  ASSUME NEW q \in Seq(Items), q # <<>>
  PROVE  <<Head(q)>> \o Tail(q) = q
<1>1. /\ Head(q) \in Items /\ Tail(q) \in Seq(Items) /\ Len(Tail(q)) = Len(q) - 1
      /\ \A i \in 1..Len(Tail(q)) : Tail(q)[i] = q[i + 1]
  BY HeadTailProperties
<1>2. Len(q) \in Nat /\ Head(q) = q[1]
  OBVIOUS
<1> DEFINE h == <<Head(q)>>
<1>3. h \in Seq(Items) /\ Len(h) = 1 /\ h[1] = q[1]
  BY <1>1, <1>2
<1> HIDE DEF h
<1>4. /\ h \o Tail(q) \in Seq(Items) /\ Len(h \o Tail(q)) = Len(q)
      /\ \A i \in 1..Len(q) : (h \o Tail(q))[i] = IF i <= 1 THEN h[i] ELSE Tail(q)[i - 1]
  <2>1. Len(h) + Len(Tail(q)) = Len(q)
    BY <1>1, <1>2, <1>3
  <2>2. /\ h \o Tail(q) \in Seq(Items) /\ Len(h \o Tail(q)) = Len(h) + Len(Tail(q))
        /\ \A i \in 1..(Len(h) + Len(Tail(q))) : (h \o Tail(q))[i] =
             IF i <= Len(h) THEN h[i] ELSE Tail(q)[i - Len(h)]
    BY <1>1, <1>3, ConcatItems
  <2> QED
    BY <1>3, <2>1, <2>2
<1>5. \A i \in 1..Len(q) : (h \o Tail(q))[i] = q[i]
  <2> TAKE i \in 1..Len(q)
  <2>1. CASE i = 1
    BY <1>3, <1>4, <2>1
  <2>2. CASE i # 1
    <3>1. i - 1 \in 1..Len(Tail(q)) /\ ~(i <= 1) /\ (i - 1) + 1 = i
      BY <1>1, <1>2, <2>2
    <3>2. Tail(q)[i - 1] = q[(i - 1) + 1]
      BY <1>1, <3>1
    <3> QED
      BY <1>4, <3>1, <3>2
  <2> QED
    BY <2>1, <2>2
<1>6. h \o Tail(q) = q
  BY <1>4, <1>5, SeqEqual
<1> QED
  BY <1>6 DEF h

\* Taking an item from the queue and giving it to the body change nothing.
LEMMA OrderTake ==
  ASSUME NEW w \in Seq(Items), NEW r \in ReaderType, NEW q \in Seq(Items),
         NEW d \in ReaderType, q # <<>>, r.at # "delivering",
         d.at = "delivering", d.item = Head(q)
  PROVE  Order(w, d, Tail(q)) = Order(w, r, q)
<1>1. Tail(q) \in Seq(Items)
  BY HeadTailProperties
<1>2. <<Head(q)>> \o Tail(q) = q
  BY HeadThenTail
<1>3. Held(r) \o q = q
  BY ConcatEmptySeq DEF Held
<1>4. Held(d) \o Tail(q) = q
  BY <1>2 DEF Held
<1>5. Order(w, d, Tail(q)) = w \o (Held(d) \o Tail(q))
  BY <1>1, OrderIs
<1>6. Order(w, r, q) = w \o (Held(r) \o q)
  BY OrderIs
<1> QED
  BY <1>3, <1>4, <1>5, <1>6

LEMMA OrderGive ==
  ASSUME NEW w \in Seq(Items), NEW d \in ReaderType, NEW r \in ReaderType,
         NEW q \in Seq(Items), d.at = "delivering", r.at # "delivering"
  PROVE  /\ Append(w, d.item) \in Seq(Items)
         /\ Order(Append(w, d.item), r, q) = Order(w, d, q)
<1>1. d.item \in Items
  BY DEF ReaderType
<1>2. Append(w, d.item) = w \o <<d.item>> /\ Append(w, d.item) \in Seq(Items)
  BY <1>1, AppendIsConcat
<1>3. Append(w, d.item) \o <<>> = Append(w, d.item)
  BY <1>2, ConcatEmptySeq
<1> QED
  BY <1>2, <1>3 DEF Order, Held

\* What holds of a stream holds of what is left when items are dropped from it: d has
\* the items of e at the positions m, in their order.
Thins(m, d, e) ==
  /\ m \in [1..Len(d) -> 1..Len(e)]
  /\ \A k \in 1..Len(d) : d[k] = e[m[k]]
  /\ \A j, k \in 1..Len(d) : j < k => m[j] < m[k]

LEMMA Thinner ==
  ASSUME NEW d \in Seq(Items), NEW e \in Seq(Items), NEW m, Thins(m, d, e)
  PROVE  /\ Frames(e) => Frames(d)
         /\ NoControl(e) => NoControl(d)
         /\ Ends(e) => Ends(d)
<1>1. Frames(e) => Frames(d)
  BY DEF Thins, Frames
<1>2. NoControl(e) => NoControl(d)
  BY DEF Thins, NoControl
<1>3. ASSUME Ends(e), NEW k \in 1..Len(d)
      PROVE  /\ d[k] = "terminal" => \A j \in (k + 1)..Len(d) : d[j] = "end"
             /\ d[k] \in ControlItems => k = Len(d)
  <2>1. m[k] \in 1..Len(e) /\ d[k] = e[m[k]] /\ Len(d) \in Nat /\ Len(e) \in Nat
    BY DEF Thins
  <2>2. ASSUME NEW j \in (k + 1)..Len(d)
        PROVE  j \in 1..Len(d) /\ m[j] \in (m[k] + 1)..Len(e) /\ d[j] = e[m[j]]
    <3>1. j \in 1..Len(d) /\ k < j
      BY <2>1
    <3>2. m[j] \in 1..Len(e) /\ d[j] = e[m[j]] /\ m[k] < m[j]
      BY <3>1 DEF Thins
    <3> QED
      BY <2>1, <3>1, <3>2
  <2>3. d[k] = "terminal" => \A j \in (k + 1)..Len(d) : d[j] = "end"
    BY <1>3, <2>1, <2>2 DEF Ends
  <2>4. ASSUME d[k] \in ControlItems, k # Len(d)
        PROVE  FALSE
    <3>1. Len(d) \in (k + 1)..Len(d)
      BY <2>1, <2>4
    <3>2. m[k] = Len(e)
      BY <1>3, <2>1, <2>4 DEF Ends
    <3> QED
      BY <2>1, <2>2, <3>1, <3>2
  <2> QED
    BY <2>3, <2>4
<1> QED
  BY <1>1, <1>2, <1>3 DEF Ends

\* The reader drops the item in its hands.
LEMMA OrderDrop ==
  ASSUME NEW w \in Seq(Items), NEW d \in ReaderType, NEW r \in ReaderType,
         NEW q \in Seq(Items), r.at # "delivering"
  PROVE  \E m : Thins(m, Order(w, r, q), Order(w, d, q))
<1> DEFINE n == Len(Held(d))
           o == Order(w, d, q)
           t == Order(w, r, q)
           m == [k \in 1..Len(t) |-> IF k <= Len(w) THEN k ELSE k + n]
<1>1. /\ Held(d) \in Seq(Items) /\ n \in Nat /\ Len(w) \in Nat /\ Len(q) \in Nat
      /\ Held(r) = <<>>
  BY HeldType, LenProperties DEF Held
<1>2. t = w \o q
  <2>1. Held(r) \o q = q
    BY <1>1, ConcatEmptySeq
  <2>2. t = w \o (Held(r) \o q)
    BY OrderIs
  <2> QED
    BY <2>1, <2>2
<1>3. o = w \o (Held(d) \o q)
  BY OrderIs
<1>4. Len(t) = Len(w) + Len(q) /\ t \in Seq(Items)
  BY <1>2, ConcatProperties
<1>5. Held(d) \o q \in Seq(Items) /\ Len(Held(d) \o q) = n + Len(q)
  BY <1>1, ConcatProperties
<1>6. Len(o) = Len(w) + (n + Len(q)) /\ o \in Seq(Items)
  BY <1>3, <1>5, ConcatProperties
<1>7. ASSUME NEW k \in 1..Len(t), k <= Len(w)
      PROVE  t[k] = w[k] /\ o[k] = w[k] /\ k \in 1..Len(o)
  <2>1. k \in 1..(Len(w) + Len(q)) /\ k \in 1..(Len(w) + (n + Len(q)))
    BY <1>1, <1>4, <1>7
  <2>2. t[k] = w[k]
    BY <1>2, <1>7, <2>1, ConcatProperties
  <2>3. o[k] = w[k]
    BY <1>3, <1>5, <1>7, <2>1, ConcatProperties
  <2> QED
    BY <1>6, <2>1, <2>2, <2>3
<1>8. ASSUME NEW k \in 1..Len(t), ~(k <= Len(w))
      PROVE  t[k] = o[k + n] /\ k + n \in 1..Len(o)
  <2>1. /\ k \in 1..(Len(w) + Len(q)) /\ k + n \in 1..(Len(w) + (n + Len(q)))
        /\ ~(k + n <= Len(w)) /\ (k + n) - Len(w) \in 1..(n + Len(q))
        /\ ~((k + n) - Len(w) <= n) /\ ((k + n) - Len(w)) - n = k - Len(w)
    BY <1>1, <1>4, <1>8
  <2>2. t[k] = q[k - Len(w)]
    BY <1>2, <1>8, <2>1, ConcatProperties
  <2>3. o[k + n] = (Held(d) \o q)[(k + n) - Len(w)]
    BY <1>3, <1>5, <2>1, ConcatProperties
  <2>4. (Held(d) \o q)[(k + n) - Len(w)] = q[((k + n) - Len(w)) - n]
    BY <1>1, <2>1, ConcatProperties
  <2> QED
    BY <1>6, <2>1, <2>2, <2>3, <2>4
<1> HIDE DEF n, o, t
<1>9. m \in [1..Len(t) -> 1..Len(o)]
  BY <1>7, <1>8
<1>10. \A k \in 1..Len(t) : t[k] = o[m[k]]
  BY <1>7, <1>8
<1>11. \A j, k \in 1..Len(t) : j < k => m[j] < m[k]
  BY <1>1, <1>4
<1>12. Thins(m, t, o)
  BY <1>9, <1>10, <1>11 DEF Thins
<1> QED
  BY <1>12 DEF t, o

\* The queue is emptied.
LEMMA OrderCut ==
  ASSUME NEW w \in Seq(Items), NEW r \in ReaderType, NEW q \in Seq(Items)
  PROVE  /\ \E m : Thins(m, Order(w, r, <<>>), Order(w, r, q))
         /\ AckIsFirst(Order(w, r, q)) =>
              AckIsFirst(Order(w, r, <<>>)) \/ Order(w, r, <<>>) = <<>>
<1> DEFINE h == w \o Held(r)
           o == Order(w, r, q)
           m == [k \in 1..Len(h) |-> k]
<1>1. h \in Seq(Items) /\ Len(h) \in Nat /\ Len(q) \in Nat
  BY HeldType, ConcatProperties, LenProperties
<1>2. Order(w, r, <<>>) = h
  BY <1>1, ConcatEmptySeq DEF Order
<1>3. o = h \o q
  BY DEF Order
<1> HIDE DEF h, o
<1>4. Len(o) = Len(h) + Len(q) /\ \A k \in 1..Len(h) : o[k] = h[k]
  <2>1. /\ Len(o) = Len(h) + Len(q)
        /\ \A i \in 1..Len(h) + Len(q) :
             o[i] = IF i <= Len(h) THEN h[i] ELSE q[i - Len(h)]
    BY <1>1, <1>3, ConcatProperties
  <2> QED
    BY <1>1, <2>1
<1>5. Thins(m, h, o)
  <2>1. m \in [1..Len(h) -> 1..Len(o)]
    BY <1>1, <1>4
  <2> QED
    BY <1>4, <2>1 DEF Thins
<1>6. AckIsFirst(o) => AckIsFirst(h) \/ h = <<>>
  <2>1. CASE h # <<>>
    <3>1. 1 \in 1..Len(h)
      BY <1>1, <2>1, EmptySeq
    <3> QED
      BY <1>4, <2>1, <3>1 DEF AckIsFirst
  <2> QED
    BY <2>1
<1> QED
  BY <1>2, <1>5, <1>6 DEF o

LEMMA QueueIsLast ==
  ASSUME NEW w \in Seq(Items), NEW r \in ReaderType, NEW q \in Seq(Items),
         NoControl(Order(w, r, q))
  PROVE  NoControl(q)
<1> DEFINE h == w \o Held(r)
           n == Len(h)
<1>1. h \in Seq(Items) /\ n \in Nat /\ Len(q) \in Nat /\ Order(w, r, q) = h \o q
  BY HeldType, ConcatItems, LenProperties DEF Order
<1> HIDE DEF h, n
<1>2. ASSUME NEW k \in 1..Len(q)
      PROVE  q[k] \in FrameItems
  <2>1. n + k \in 1..(n + Len(q)) /\ ~(n + k <= n) /\ (n + k) - n = k
    BY <1>1
  <2>2. Len(h \o q) = n + Len(q) /\ (h \o q)[n + k] = q[(n + k) - n]
    BY <1>1, <2>1, ConcatItems DEF n
  <2> QED
    BY <1>1, <2>1, <2>2 DEF NoControl
<1> QED
  BY <1>2 DEF NoControl

\* What may be put behind a stream that is not at its end.
LEMMA PutBehind ==
  ASSUME NEW e \in Seq(Items), NEW i \in Items
  PROVE  /\ Frames(e) => Ends(e) /\ NoControl(e) /\ Ends(Append(e, i))
         /\ Frames(e) /\ i \in {"ack", "note"} => Frames(Append(e, i))
         /\ Frames(e) /\ i = "terminal" => NoControl(Append(e, i))
         /\ Ends(e) /\ NoControl(e) => Ends(Append(e, "end"))
         /\ AckIsFirst(e) => AckIsFirst(Append(e, i))
<1> DEFINE a(j) == Append(e, j)
<1>1. \A j \in Items : /\ Len(a(j)) = Len(e) + 1 /\ a(j)[Len(e) + 1] = j /\ a(j) # <<>>
                       /\ \A k \in 1..Len(e) : a(j)[k] = e[k]
  BY AppendProperties
<1>2. Len(e) \in Nat /\ "end" \in Items
  BY DEF Items, ControlItems
<1>3. \A k \in 1..(Len(e) + 1) : k = Len(e) + 1 \/ k \in 1..Len(e)
  BY <1>2
<1> HIDE DEF a
<1>4. Frames(e) => Ends(e) /\ NoControl(e)
  BY DEF Frames, Ends, NoControl, FrameItems, ControlItems
<1>5. Frames(e) => Ends(a(i))
  <2> SUFFICES ASSUME Frames(e), NEW k \in 1..(Len(e) + 1)
               PROVE  /\ a(i)[k] = "terminal" =>
                           \A j \in (k + 1)..(Len(e) + 1) : a(i)[j] = "end"
                      /\ a(i)[k] \in ControlItems => k = Len(e) + 1
    BY <1>1 DEF Ends
  <2>1. CASE k = Len(e) + 1
    BY <1>2, <2>1
  <2>2. CASE k \in 1..Len(e)
    <3>1. a(i)[k] \in {"ack", "note"}
      BY <1>1, <2>2 DEF Frames
    <3> QED
      BY <3>1 DEF ControlItems
  <2> QED
    BY <1>3, <2>1, <2>2
<1>6. Frames(e) /\ i \in {"ack", "note"} => Frames(a(i))
  BY <1>1, <1>3 DEF Frames
<1>7. Frames(e) /\ i = "terminal" => NoControl(a(i))
  BY <1>1, <1>3 DEF Frames, NoControl, FrameItems
<1>8. Ends(e) /\ NoControl(e) => Ends(a("end"))
  <2> SUFFICES ASSUME Ends(e), NoControl(e), NEW k \in 1..(Len(e) + 1)
               PROVE  /\ a("end")[k] = "terminal" =>
                           \A j \in (k + 1)..(Len(e) + 1) : a("end")[j] = "end"
                      /\ a("end")[k] \in ControlItems => k = Len(e) + 1
    BY <1>1, <1>2 DEF Ends
  <2>1. CASE k = Len(e) + 1
    BY <1>2, <2>1
  <2>2. CASE k \in 1..Len(e)
    <3>1. a("end")[k] = e[k] /\ e[k] \in FrameItems
      BY <1>1, <1>2, <2>2 DEF NoControl
    <3>2. ASSUME e[k] = "terminal", NEW j \in (k + 1)..(Len(e) + 1)
          PROVE  a("end")[j] = "end"
      <4>1. CASE j = Len(e) + 1
        BY <1>1, <1>2, <4>1
      <4>2. CASE j \in (k + 1)..Len(e)
        <5>1. j \in 1..Len(e)
          BY <1>2, <2>2, <4>2
        <5>2. e[j] = "end"
          BY <2>2, <3>2, <4>2 DEF Ends
        <5> QED
          BY <1>1, <1>2, <5>1, <5>2
      <4> QED
        BY <1>2, <2>2, <4>1, <4>2
    <3> QED
      BY <3>1, <3>2 DEF FrameItems, ControlItems
  <2> QED
    BY <1>3, <2>1, <2>2
<1>9. AckIsFirst(e) => AckIsFirst(a(i))
  <2>1. e # <<>> => 1 \in 1..Len(e)
    BY EmptySeq, <1>2
  <2> QED
    BY <1>1, <2>1 DEF AckIsFirst
<1> QED
  BY <1>4, <1>5, <1>6, <1>7, <1>8, <1>9 DEF a

-----------------------------------------------------------------------------
(* Frames in the queue.                                                    *)

FramesAt(q) == {k \in 1..Len(q) : IsFrame(q[k])}

LEMMA FramesCounted ==
  ASSUME NEW q \in Seq(Items)
  PROVE  /\ IsFiniteSet(FramesAt(q)) /\ FramesIn(q) = Cardinality(FramesAt(q))
         /\ FramesIn(q) \in Nat /\ FramesIn(q) <= Len(q)
         /\ NoControl(q) => FramesIn(q) = Len(q)
         /\ FramesIn(<<>>) = 0
<1>1. Len(q) \in Nat
  OBVIOUS
<1>2. IsFiniteSet(1..Len(q)) /\ Cardinality(1..Len(q)) = Len(q)
  BY <1>1, FS_Interval, SMTT(60)
<1>3. FramesAt(q) \in SUBSET (1..Len(q))
  BY DEF FramesAt
<1>4. IsFiniteSet(FramesAt(q)) /\ Cardinality(FramesAt(q)) <= Len(q)
  BY <1>2, <1>3, FS_Subset
<1>5. Cardinality(FramesAt(q)) \in Nat
  BY <1>4, FS_CardinalityType
<1>6. FramesIn(q) = Cardinality(FramesAt(q))
  BY DEF FramesIn, FramesAt
<1>7. ASSUME NoControl(q)
      PROVE  FramesAt(q) = 1..Len(q)
  BY <1>7 DEF NoControl, FramesAt, IsFrame
<1>8. FramesIn(<<>>) = 0
  <2>1. {k \in 1..Len(<<>>) : IsFrame(<<>>[k])} = {}
    OBVIOUS
  <2> QED
    BY <2>1, FS_EmptySet DEF FramesIn
<1> QED
  BY <1>2, <1>4, <1>5, <1>6, <1>7, <1>8

LEMMA FramesPut ==
  ASSUME NEW q \in Seq(Items), NEW i \in Items
  PROVE  FramesIn(Append(q, i)) = FramesIn(q) + (IF IsFrame(i) THEN 1 ELSE 0)
<1> DEFINE a == Append(q, i)
           n == Len(q) + 1
<1>1. /\ a \in Seq(Items) /\ Len(a) = n /\ a[n] = i /\ \A k \in 1..Len(q) : a[k] = q[k]
  BY AppendProperties
<1>2. Len(q) \in Nat
  OBVIOUS
<1> HIDE DEF a
<1>3. FramesAt(a) = FramesAt(q) \cup (IF IsFrame(i) THEN {n} ELSE {})
  <2>1. \A k : k \in 1..n <=> k \in 1..Len(q) \/ k = n
    BY <1>2
  <2> HIDE DEF n
  <2> QED
    BY <1>1, <2>1 DEF FramesAt
<1>4. n \notin FramesAt(q)
  BY <1>2 DEF FramesAt
<1>5. IsFiniteSet(FramesAt(q)) /\ FramesIn(q) = Cardinality(FramesAt(q)) /\ FramesIn(q) \in Nat
  BY FramesCounted
<1>6. FramesIn(a) = Cardinality(FramesAt(a))
  BY <1>1, FramesCounted
<1>7. CASE IsFrame(i)
  <2>1. FramesAt(a) = FramesAt(q) \cup {n}
    BY <1>3, <1>7
  <2>2. Cardinality(FramesAt(q) \cup {n}) = Cardinality(FramesAt(q)) + 1
    BY <1>4, <1>5, FS_AddElement
  <2> QED
    BY <1>5, <1>6, <1>7, <2>1, <2>2 DEF a
<1>8. CASE ~IsFrame(i)
  BY <1>3, <1>5, <1>6, <1>8 DEF a
<1> QED
  BY <1>7, <1>8

LEMMA FramesTake ==
  ASSUME NEW q \in Seq(Items), q # <<>>
  PROVE  FramesIn(q) = FramesIn(Tail(q)) + (IF IsFrame(Head(q)) THEN 1 ELSE 0)
<1> DEFINE t == Tail(q)
           T == FramesAt(t)
           S == FramesAt(q) \ {1}
           f == [k \in T |-> k + 1]
<1>1. /\ Head(q) = q[1] /\ t \in Seq(Items) /\ Len(q) \in Nat /\ Len(t) \in Nat
      /\ Len(t) = Len(q) - 1 /\ 1 \in 1..Len(q) /\ \A k \in 1..Len(t) : t[k] = q[k + 1]
  BY HeadTailProperties, EmptySeq
<1> HIDE DEF t
<1>2. \A k \in T : k \in Nat /\ k + 1 \in S
  BY <1>1 DEF FramesAt
<1>3. \A k \in S : k \in Nat /\ k - 1 \in T /\ (k - 1) + 1 = k
  <2> TAKE k \in S
  <2>1. k \in 1..Len(q) /\ k # 1 /\ IsFrame(q[k])
    BY DEF FramesAt
  <2>2. k \in Nat /\ k - 1 \in 1..Len(t) /\ (k - 1) + 1 = k
    BY <1>1, <2>1
  <2>3. t[k - 1] = q[k]
    BY <1>1, <2>2
  <2> QED
    BY <2>1, <2>2, <2>3 DEF FramesAt
<1>4. f \in [T -> S] /\ \A k \in T : f[k] = k + 1
  BY <1>2
<1>5. \A j, k \in T : f[j] = f[k] => j = k
  BY <1>2, <1>4
<1>6. \A k \in S : f[k - 1] = k /\ k - 1 \in T
  BY <1>3, <1>4
<1> HIDE DEF f, T, S
<1>7. f \in Bijection(T, S)
  BY <1>4, <1>5, <1>6 DEF Bijection, Injection, Surjection, IsInjective
<1>8. ExistsBijection(T, S)
  BY <1>7 DEF ExistsBijection
<1>9. IsFiniteSet(T) /\ FramesIn(t) = Cardinality(T) /\ FramesIn(t) \in Nat
  BY <1>1, FramesCounted DEF T
<1>10. Cardinality(S) = FramesIn(t)
  BY <1>8, <1>9, FS_Bijection
<1>11. /\ IsFiniteSet(FramesAt(q)) /\ FramesIn(q) = Cardinality(FramesAt(q))
       /\ FramesIn(q) \in Nat
  BY FramesCounted
<1>12. Cardinality(S) = IF 1 \in FramesAt(q) THEN FramesIn(q) - 1 ELSE FramesIn(q)
  BY <1>11, FS_RemoveElement DEF S
<1>13. 1 \in FramesAt(q) <=> IsFrame(Head(q))
  BY <1>1 DEF FramesAt
<1> QED
  BY <1>9, <1>10, <1>11, <1>12, <1>13 DEF t

\* The lock lets one sender at a time hold a slot it has not used yet.
LEMMA OneOffers ==
  ASSUME NEW snd \in [Senders -> Places], NEW l,
         \A s \in Senders : l = s <=> snd[s] \in Locked
  PROVE  /\ Cardinality({s \in Senders : snd[s] = "offer"}) = Taken(snd)
         /\ Taken(snd) \in {0, 1}
<1>1. CASE \E s \in Senders : snd[s] = "offer"
  <2>1. PICK s \in Senders : snd[s] = "offer"
    BY <1>1
  <2>2. {x \in Senders : snd[x] = "offer"} = {s}
    BY <2>1 DEF Locked
  <2> QED
    BY <1>1, <2>2, FS_Singleton DEF Taken
<1>2. CASE ~\E s \in Senders : snd[s] = "offer"
  <2>1. {x \in Senders : snd[x] = "offer"} = {}
    BY <1>2
  <2> QED
    BY <1>2, <2>1, FS_EmptySet DEF Taken
<1> QED
  BY <1>1, <1>2

-----------------------------------------------------------------------------
(* The type of the variables.                                              *)

LEMMA Fibers ==
  /\ Answer \in Senders /\ Opener \in Senders /\ Answer # Opener
  /\ Nobody \notin Senders /\ MaxPending \in Nat /\ MaxPending > 0
  /\ \A s \in Senders : FrameOf(s) \in FrameItems
  /\ FrameItems \subseteq Items /\ ControlItems \subseteq Items
BY SendersAssumption, PendingAssumption DEF Senders, FrameOf, FrameItems, ControlItems, Items

LEMMA TypeIs ==
  ASSUME TypeOK
  PROVE  /\ sender \in [Senders -> Places] /\ reader \in ReaderType
         /\ slots \in Nat /\ slots <= MaxPending
BY Fibers DEF TypeOK, Places, ReaderType

\* A sender that keeps its lock, and one that leaves it.
LEMMA LockKept ==
  ASSUME TypeOK, NEW s \in Senders, NEW p \in Places, Step(s, p), lock' = lock,
         sender[s] \in Locked <=> p \in Locked
  PROVE  /\ sender' \in [Senders -> Places]
         /\ \A x \in Senders : lock' = x <=> sender'[x] \in Locked
BY DEF TypeOK, Step, Places

LEMMA LockLeft ==
  ASSUME TypeOK, NEW s \in Senders, NEW p \in Places \ Locked, Step(s, p), lock' = Nobody,
         lock \in {s, Nobody}
  PROVE  /\ sender' \in [Senders -> Places]
         /\ \A x \in Senders : lock' = x <=> sender'[x] \in Locked
BY Fibers DEF TypeOK, Step, Places

LEMMA PutType ==
  ASSUME TypeOK, NEW i \in Items, Put(i)
  PROVE  queue' \in Seq(Items)
BY DEF TypeOK, Put

LEMMA InitType == Init => TypeOK
<1> SUFFICES ASSUME Init
             PROVE  TypeOK
  OBVIOUS
<1>1. \A s \in Senders : "idle" \notin Locked /\ Nobody # s
  BY Fibers DEF Locked
<1>2. reader \in [at : {"none", "pulling", "ended"}, item : {"none"}]
  BY DEF Init
<1>3. queue \in Seq(Items) /\ wire \in Seq(Items)
  BY EmptySeq DEF Init
<1>4. \A s \in Senders : lock = s <=> sender[s] \in Locked
  BY <1>1 DEF Init
<1>5. slots \in 0..MaxPending
  BY Fibers DEF Init
<1>6. sender \in [Senders -> {"idle", "waiting", "awaiting"} \cup Locked \cup Over]
  BY DEF Init
<1> QED
  BY <1>2, <1>3, <1>4, <1>5, <1>6 DEF Init, TypeOK

\* A sender's step changes the sender, the lock and what is left of the response.
LEMMA TypeOfParts ==
  ASSUME TypeOK, listens' = listens, reader' = reader, wire' = wire, delivered' = delivered,
         scope' = scope, registered' \in {"no", "yes", "removed"},
         state' \in {"Open", "Terminal", "Closed"}, slots' \in 0..MaxPending,
         queue' \in Seq(Items), lock' \in Senders \cup {Nobody},
         sender' \in [Senders -> Places],
         \A x \in Senders : lock' = x <=> sender'[x] \in Locked
  PROVE  TypeOK'
BY DEF TypeOK, Places

LEMMA SendType ==
  ASSUME TypeOK, NEW s \in Senders, StartSend(s) \/ SendStep(s) \/ Interrupt(s)
  PROVE  TypeOK'
<1> USE DEF reading
<1>1. /\ lock \in Senders \cup {Nobody} /\ (lock = s <=> sender[s] \in Locked)
      /\ registered \in {"no", "yes", "removed"} /\ state \in {"Open", "Terminal", "Closed"}
      /\ slots \in 0..MaxPending /\ queue \in Seq(Items)
  BY DEF TypeOK
<1>2. ASSUME NEW p \in Places, Step(s, p), lock' = lock, sender[s] \in Locked <=> p \in Locked
      PROVE  /\ sender' \in [Senders -> Places] /\ lock' \in Senders \cup {Nobody}
             /\ \A x \in Senders : lock' = x <=> sender'[x] \in Locked
  BY <1>1, <1>2, LockKept
<1>3. ASSUME NEW p \in Places \ Locked, Step(s, p), lock' = Nobody, lock \in {s, Nobody}
      PROVE  /\ sender' \in [Senders -> Places] /\ lock' \in Senders \cup {Nobody}
             /\ \A x \in Senders : lock' = x <=> sender'[x] \in Locked
  BY <1>1, <1>3, LockLeft
<1>4. CASE StartSend(s)
  BY <1>1, <1>2, <1>4, TypeOfParts DEF StartSend, Places, Locked, Over
<1>5. CASE Lock(s)
  <2>1. CASE state # "Open"
    <3>1. Step(s, "failed") /\ lock' = lock /\ sender[s] = "waiting"
      BY <1>5, <2>1 DEF Lock
    <3> QED
      BY <1>1, <1>2, <1>5, <2>1, <3>1, TypeOfParts DEF Lock, Places, Locked, Over
  <2>2. CASE state = "Open"
    <3>1. /\ lock = Nobody /\ lock' = s /\ Step(s, "encoding") /\ sender[s] = "waiting"
          /\ UNCHANGED <<listens, state, slots, queue, scope, reader, wire, delivered>>
          /\ registered' \in {"no", "yes", "removed"}
      BY <1>1, <1>5, <2>2 DEF Lock
    <3>2. sender \in [Senders -> Places] /\ "encoding" \in Places \cap Locked
      BY TypeIs DEF Places, Locked
    <3>3. sender' = [sender EXCEPT ![s] = "encoding"] /\ sender' \in [Senders -> Places]
      BY <3>1, <3>2 DEF Step
    <3>4. \A x \in Senders : lock = x <=> sender[x] \in Locked
      BY DEF TypeOK
    <3>5. \A x \in Senders : lock' = x <=> sender'[x] \in Locked
      BY <3>1, <3>2, <3>3, <3>4, Fibers
    <3> QED
      BY <1>1, <3>1, <3>3, <3>5, TypeOfParts
  <2> QED
    BY <2>1, <2>2
<1>6. CASE Encode(s)
  BY <1>1, <1>2, <1>6, TypeOfParts DEF Encode, Places, Locked
<1>7. CASE EncodeFails(s)
  BY <1>1, <1>2, <1>7, TypeOfParts DEF EncodeFails, Places, Locked
<1>8. CASE FailStream(s)
  <2>1. CASE state # "Open"
    BY <1>1, <1>3, <1>8, <2>1, TypeOfParts DEF FailStream, Leave, Places, Locked, Over
  <2>2. CASE state = "Open"
    BY <1>1, <1>2, <1>8, <2>2, TypeOfParts DEF FailStream, Places, Locked
  <2> QED
    BY <2>1, <2>2
<1>9. CASE TakeSlot(s)
  <2>1. slots' \in 0..MaxPending
    BY <1>1, <1>9, Fibers DEF TakeSlot
  <2> QED
    BY <1>1, <1>2, <1>9, <2>1, TypeOfParts DEF TakeSlot, Places, Locked
<1>10. CASE OfferFrame(s)
  <2>1. queue' \in Seq(Items)
    BY <1>10, Fibers, PutType DEF OfferFrame
  <2>2. CASE s = Answer
    BY <1>1, <1>2, <1>10, <2>1, <2>2, TypeOfParts DEF OfferFrame, Places, Locked
  <2>3. CASE s # Answer
    BY <1>1, <1>3, <1>10, <2>1, <2>3, TypeOfParts DEF OfferFrame, Leave, Places, Locked, Over
  <2> QED
    BY <2>2, <2>3
<1>11. CASE OfferEnd(s)
  <2>1. queue' \in Seq(Items)
    BY <1>11, PutType, Fibers DEF OfferEnd, ControlItems
  <2> DEFINE p == IF listens THEN "awaiting" ELSE "done"
  <2>2. p \in Places \ Locked
    BY DEF Places, Locked, Over
  <2>3. /\ Step(s, p) /\ lock' = Nobody /\ lock = s
        /\ UNCHANGED <<listens, registered, state, slots, scope, reader, wire, delivered>>
    BY <1>1, <1>11 DEF OfferEnd, Leave, Locked
  <2> HIDE DEF p
  <2> QED
    BY <1>1, <1>3, <2>1, <2>2, <2>3, TypeOfParts
<1>12. CASE OfferFailure(s)
  <2>1. queue' \in Seq(Items)
    BY <1>12, PutType, Fibers DEF OfferFailure, ControlItems
  <2> QED
    BY <1>1, <1>3, <1>12, <2>1, TypeOfParts DEF OfferFailure, Leave, Places, Locked, Over
<1>13. CASE Delivery(s)
  BY <1>1, <1>2, <1>13, TypeOfParts DEF Delivery, Places, Locked, Over
<1>14. CASE Interrupt(s)
  <2>1. slots' \in 0..MaxPending
    BY <1>1, <1>14, Fibers DEF Interrupt
  <2>2. CASE lock = s
    BY <1>1, <1>3, <1>14, <2>1, <2>2, TypeOfParts DEF Interrupt, Places, Locked, Over
  <2>3. CASE lock # s
    BY <1>1, <1>2, <1>14, <2>1, <2>3, TypeOfParts DEF Interrupt, Places, Locked, Over
  <2> QED
    BY <2>2, <2>3
<1> QED
  BY <1>4, <1>5, <1>6, <1>7, <1>8, <1>9, <1>10, <1>11, <1>12, <1>13, <1>14 DEF SendStep

\* The reader's steps and the scope's.
LEMMA Reads ==
  ASSUME NEW i \in Items
  PROVE  [at |-> "delivering", item |-> i] \in ReaderType
BY DEF ReaderType

LEMMA Rests ==
  ASSUME NEW p \in {"none", "pulling", "ended"}
  PROVE  [at |-> p, item |-> "none"] \in ReaderType
BY DEF ReaderType

LEMMA ReadType ==
  ASSUME TypeOK, Respond \/ RespondError \/ ReaderStep \/ Cancel \/ Dispose \/ Release \/ Shut
  PROVE  TypeOK'
<1> USE DEF reading, sending
<1>1. reader \in ReaderType /\ queue \in Seq(Items) /\ wire \in Seq(Items)
  BY TypeIs DEF TypeOK
<1>2. ASSUME reader' \in ReaderType, wire' \in Seq(Items), queue' \in Seq(Items),
             slots' \in 0..MaxPending, scope' \in {"open", "closing", "released", "shut"},
             registered' \in {"no", "yes", "removed"}, delivered' \in BOOLEAN,
             state' \in {"Open", "Terminal", "Closed"}, UNCHANGED <<listens, lock, sender>>
      PROVE  TypeOK'
  BY <1>2 DEF TypeOK, ReaderType
<1>3. /\ scope \in {"open", "closing", "released", "shut"} /\ delivered \in BOOLEAN
      /\ registered \in {"no", "yes", "removed"} /\ state \in {"Open", "Terminal", "Closed"}
      /\ slots \in 0..MaxPending
  BY DEF TypeOK
<1>4. CASE Respond
  BY <1>1, <1>2, <1>3, <1>4, Rests DEF Respond, ToReader
<1>5. CASE RespondError \/ Cancel \/ ReadShut
  <2>1. reader' = [at |-> "ended", item |-> "none"] /\ reader' \in ReaderType
    BY <1>5, Rests DEF RespondError, Cancel, ReadShut, ToReader
  <2> QED
    BY <1>1, <1>2, <1>3, <1>5, <2>1 DEF RespondError, Cancel, ReadShut
<1>6. CASE Dequeue
  <2>1. Head(queue) \in Items /\ Tail(queue) \in Seq(Items)
    BY <1>1, <1>6, HeadTailProperties DEF Dequeue
  <2>2. reader' \in ReaderType
    BY <1>6, <2>1, Reads DEF Dequeue, ToReader
  <2>3. slots' \in 0..MaxPending
    BY <1>3, <1>6, Fibers DEF Dequeue
  <2> QED
    BY <1>1, <1>2, <1>3, <1>6, <2>1, <2>2, <2>3 DEF Dequeue
<1>7. CASE Deliver
  <2>1. reader.at = "delivering" /\ reader.item \in Items /\ wire' = Append(wire, reader.item)
    BY <1>1, <1>7 DEF Deliver, DeliverFrame, DeliverEnd, ReaderType
  <2>2. wire' \in Seq(Items)
    BY <1>1, <2>1, AppendProperties
  <2>3. reader' \in ReaderType
    BY <1>7, Rests DEF Deliver, DeliverFrame, DeliverEnd, ToReader
  <2>4. delivered' \in BOOLEAN
    BY <1>3, <1>7 DEF Deliver, DeliverFrame, DeliverEnd
  <2> QED
    BY <1>1, <1>2, <1>3, <1>7, <2>2, <2>3, <2>4 DEF Deliver, DeliverFrame, DeliverEnd
<1>8. CASE Dispose
  BY <1>1, <1>2, <1>3, <1>8 DEF Dispose
<1>9. CASE Release
  <2>1. MaxPending \in 0..MaxPending
    BY Fibers
  <2> QED
    BY <1>1, <1>2, <1>3, <1>9, <2>1 DEF Release
<1>10. CASE Shut
  BY <1>1, <1>2, <1>3, <1>10, EmptySeq DEF Shut
<1> QED
  BY <1>4, <1>5, <1>6, <1>7, <1>8, <1>9, <1>10 DEF ReaderStep

LEMMA NextType ==
  ASSUME TypeOK, [Next]_vars
  PROVE  TypeOK'
<1>1. CASE Next
  BY <1>1, SendType, ReadType DEF Next
<1>2. CASE UNCHANGED vars
  BY <1>2 DEF vars, TypeOK
<1> QED
  BY <1>1, <1>2

-----------------------------------------------------------------------------
(* The slots.                                                              *)

LEMMA TakenStep ==
  ASSUME TypeOK, NEW s \in Senders, NEW p, Step(s, p)
  PROVE  /\ sender[s] # "offer" /\ p # "offer" => Taken(sender') = Taken(sender)
         /\ sender[s] = "slot" /\ p = "offer" => Taken(sender) = 0 /\ Taken(sender') = 1
         /\ sender[s] = "offer" /\ p # "offer" => Taken(sender) = 1 /\ Taken(sender') = 0
<1>1. \A x \in Senders : sender'[x] = IF x = s THEN p ELSE sender[x]
  BY TypeIs DEF Step
<1>2. \A x \in Senders : sender[s] \in Locked /\ x # s => sender[x] # "offer"
  BY DEF TypeOK, Locked
<1>3. "offer" \in Locked /\ "slot" \in Locked
  BY DEF Locked
<1>4. sender[s] # "offer" /\ p # "offer" => Taken(sender') = Taken(sender)
  BY <1>1 DEF Taken
<1>5. sender[s] = "slot" /\ p = "offer" => Taken(sender) = 0 /\ Taken(sender') = 1
  BY <1>1, <1>2, <1>3 DEF Taken
<1>6. sender[s] = "offer" /\ p # "offer" => Taken(sender) = 1 /\ Taken(sender') = 0
  BY <1>1, <1>2, <1>3 DEF Taken
<1> QED
  BY <1>4, <1>5, <1>6

LEMMA SendSum ==
  ASSUME TypeOK, SumInv, NEW s \in Senders, StartSend(s) \/ SendStep(s) \/ Interrupt(s)
  PROVE  SumInv'
<1> USE DEF reading
<1>1. /\ queue \in Seq(Items) /\ FramesIn(queue) \in Nat /\ slots \in Nat /\ MaxPending \in Nat
      /\ Taken(sender) \in Nat
  BY TypeIs, Fibers, FramesCounted DEF TypeOK, Taken
<1>2. ASSUME NEW p \in Places, Step(s, p), p # "offer", sender[s] # "offer",
             queue' = queue, slots' = slots, scope' = scope
      PROVE  SumInv'
  <2>1. Taken(sender') = Taken(sender)
    BY <1>2, TakenStep
  <2> QED
    BY <1>2, <2>1 DEF SumInv
<1>3. CASE StartSend(s)
  BY <1>2, <1>3 DEF StartSend, Places
<1>4. CASE Lock(s)
  <2>1. \E p \in {"failed", "encoding"} : Step(s, p)
    BY <1>4 DEF Lock
  <2> QED
    BY <1>2, <1>4, <2>1 DEF Lock, Places, Locked, Over
<1>5. CASE Encode(s) \/ EncodeFails(s)
  BY <1>2, <1>5 DEF Encode, EncodeFails, Places, Locked
<1>6. CASE FailStream(s)
  <2>1. \E p \in {"failed", "breaking"} : Step(s, p)
    BY <1>6 DEF FailStream, Leave
  <2> QED
    BY <1>2, <1>6, <2>1 DEF FailStream, Places, Locked, Over
<1>7. CASE TakeSlot(s)
  <2>1. /\ Taken(sender) = 0 /\ Taken(sender') = 1 /\ slots' = slots - 1 /\ slots > 0
        /\ queue' = queue /\ scope' = scope
    BY <1>7, TakenStep DEF TakeSlot
  <2> QED
    BY <1>1, <2>1 DEF SumInv
<1>8. CASE OfferFrame(s)
  <2>1. \E p \in {"ending", "done"} : Step(s, p)
    BY <1>8 DEF OfferFrame, Leave
  <2>2. Taken(sender) = 1 /\ Taken(sender') = 0
    BY <1>8, <2>1, TakenStep DEF OfferFrame
  <2>3. scope' = scope /\ slots' = slots /\ Put(FrameOf(s))
    BY <1>8 DEF OfferFrame
  <2>4. scope # "shut" => queue' = Append(queue, FrameOf(s))
    BY <2>3 DEF Put
  <2>5. FramesIn(Append(queue, FrameOf(s))) = FramesIn(queue) + 1
    BY <1>1, Fibers, FramesPut DEF IsFrame
  <2>6. scope \in {"open", "closing"} => FramesIn(queue') = FramesIn(queue) + 1
    BY <2>4, <2>5
  <2> QED
    BY <1>1, <2>2, <2>3, <2>6 DEF SumInv
<1>9. CASE OfferEnd(s) \/ OfferFailure(s)
  <2>1. \E p \in {"awaiting", "done", "failed"} : Step(s, p)
    BY <1>9 DEF OfferEnd, OfferFailure, Leave
  <2>2. Taken(sender') = Taken(sender)
    BY <1>9, <2>1, TakenStep DEF OfferEnd, OfferFailure
  <2>3. scope' = scope /\ slots' = slots /\ \E i \in ControlItems : Put(i)
    BY <1>9 DEF OfferEnd, OfferFailure, ControlItems
  <2>4. PICK i \in ControlItems : Put(i)
    BY <2>3
  <2>5. scope # "shut" => queue' = Append(queue, i)
    BY <2>4 DEF Put
  <2>6. FramesIn(Append(queue, i)) = FramesIn(queue)
    <3>1. i \in Items /\ ~IsFrame(i)
      BY <2>4 DEF ControlItems, FrameItems, Items, IsFrame
    <3> QED
      BY <1>1, <3>1, FramesPut
  <2>7. scope \in {"open", "closing"} => FramesIn(queue') = FramesIn(queue)
    BY <2>5, <2>6
  <2> QED
    BY <1>1, <2>2, <2>3, <2>7 DEF SumInv
<1>10. CASE Delivery(s)
  BY <1>2, <1>10 DEF Delivery, Places, Over
<1>11. CASE Interrupt(s)
  <2>1. Step(s, "interrupted") /\ queue' = queue /\ scope' = scope
    BY <1>11 DEF Interrupt
  <2>2. CASE sender[s] # "offer"
    BY <1>2, <1>11, <2>1, <2>2 DEF Interrupt, Places, Over
  <2>3. CASE sender[s] = "offer"
    <3>1. Taken(sender) = 1 /\ Taken(sender') = 0
      BY <2>1, <2>3, TakenStep
    <3>2. slots < MaxPending => slots' = slots + 1
      BY <1>11, <2>3 DEF Interrupt
    <3>3. scope \in {"open", "closing"} => slots < MaxPending
      BY <1>1, <3>1 DEF SumInv
    <3> QED
      BY <1>1, <2>1, <3>1, <3>2, <3>3 DEF SumInv
  <2> QED
    BY <2>2, <2>3
<1> QED
  BY <1>3, <1>4, <1>5, <1>6, <1>7, <1>8, <1>9, <1>10, <1>11 DEF SendStep

LEMMA ReadSum ==
  ASSUME TypeOK, SumInv,
         Respond \/ RespondError \/ ReaderStep \/ Cancel \/ Dispose \/ Release \/ Shut
  PROVE  SumInv'
<1> USE DEF reading, sending
<1>1. /\ queue \in Seq(Items) /\ slots \in Nat /\ MaxPending \in Nat
      /\ Taken(sender) \in Nat
  BY TypeIs, Fibers DEF TypeOK, Taken
<1>2. CASE Respond \/ RespondError \/ ReadShut \/ Cancel \/ Deliver \/ Dispose
  <2>1. /\ queue' = queue /\ slots' = slots /\ sender' = sender
        /\ scope' \in {"open", "closing"} => scope \in {"open", "closing"}
    BY <1>2 DEF Respond, RespondError, ReadShut, Cancel, Deliver, DeliverFrame, DeliverEnd,
       Dispose
  <2> QED
    BY <2>1 DEF SumInv
<1>3. CASE Dequeue
  <2>1. /\ queue # <<>> /\ queue' = Tail(queue) /\ scope' = scope /\ sender' = sender
        /\ slots' = IF IsFrame(Head(queue)) /\ slots < MaxPending THEN slots + 1 ELSE slots
    BY <1>3 DEF Dequeue
  <2>2. FramesIn(queue) = FramesIn(queue') + (IF IsFrame(Head(queue)) THEN 1 ELSE 0)
    BY <1>1, <2>1, FramesTake
  <2>3. FramesIn(queue') \in Nat
    BY <1>1, <2>1, HeadTailProperties, FramesCounted
  <2>4. CASE IsFrame(Head(queue))
    <3>1. FramesIn(queue) = FramesIn(queue') + 1
      BY <2>2, <2>4
    <3>2. scope \in {"open", "closing"} => slots < MaxPending
      BY <1>1, <2>3, <3>1 DEF SumInv
    <3> QED
      BY <1>1, <2>1, <2>3, <2>4, <3>1, <3>2 DEF SumInv
  <2>5. CASE ~IsFrame(Head(queue))
    BY <2>1, <2>2, <2>3, <2>5 DEF SumInv
  <2> QED
    BY <2>4, <2>5
<1>4. CASE Release \/ Shut
  BY <1>4 DEF Release, Shut, SumInv
<1> QED
  BY <1>2, <1>3, <1>4 DEF ReaderStep

-----------------------------------------------------------------------------
(* The stream.                                                             *)

LEMMA EmittedIs ==
  ASSUME TypeOK
  PROVE  /\ Emitted = Order(wire, reader, queue) /\ Emitted \in Seq(Items)
         /\ wire \in Seq(Items) /\ queue \in Seq(Items) /\ reader \in ReaderType
<1>1. wire \in Seq(Items) /\ queue \in Seq(Items) /\ reader \in ReaderType
  BY TypeIs DEF TypeOK
<1>2. Emitted = Order(wire, reader, queue)
  BY DEF Emitted, Order, Held
<1> QED
  BY <1>1, <1>2, OrderIs

\* A sender's step that puts nothing in the queue.
LEMMA StreamSame ==
  ASSUME TypeOK, StreamInv, NEW s \in Senders, NEW p, Step(s, p),
         UNCHANGED <<queue, wire, reader, scope>>, p \notin {"ending", "awaiting"},
         p \in Offering => sender[s] \in Offering \/ state = "Open",
         state' = "Open" => state = "Open",
         p = "breaking" \/ (s = Answer /\ p \in {"slot", "offer"}) => state' # "Open"
  PROVE  StreamInv'
<1>1. Emitted' = Emitted
  BY DEF Emitted
<1>2. \A x \in Senders : sender'[x] = IF x = s THEN p ELSE sender[x]
  BY TypeIs DEF Step
<1>3. state' = "Open" \/ (\E x \in Senders : sender'[x] \in Offering) => Frames(Emitted)
  BY <1>2 DEF StreamInv
<1>4. sender'[Answer] = "ending" => NoControl(Emitted)
  BY <1>2, Fibers DEF StreamInv
<1>5. \A x \in Senders :
        /\ sender'[x] \in {"ending", "awaiting"} => x = Answer
        /\ sender'[x] = "breaking" => state' # "Open"
        /\ x = Answer /\ sender'[x] \in {"slot", "offer", "ending"} => state' # "Open"
  BY <1>2 DEF StreamInv
<1> QED
  BY <1>1, <1>3, <1>4, <1>5 DEF StreamInv

\* Putting an item in the queue puts it behind the stream.
LEMMA PutStream ==
  ASSUME TypeOK, NEW i \in Items, Put(i), UNCHANGED <<wire, reader>>
  PROVE  /\ scope # "shut" => Emitted' = Append(Emitted, i)
         /\ scope = "shut" => Emitted' = Emitted /\ queue' = queue
<1>1. Emitted' = Order(wire, reader, queue')
  BY DEF Emitted, Order, Held
<1>2. scope # "shut" => queue' = Append(queue, i)
  BY DEF Put
<1>3. scope = "shut" => queue' = queue
  BY DEF Put
<1>4. /\ Emitted = Order(wire, reader, queue)
      /\ wire \in Seq(Items) /\ queue \in Seq(Items) /\ reader \in ReaderType
  BY EmittedIs
<1>5. Order(wire, reader, Append(queue, i)) = Append(Order(wire, reader, queue), i)
  BY <1>4, OrderPut
<1>6. CASE scope # "shut"
  BY <1>1, <1>2, <1>4, <1>5, <1>6
<1>7. CASE scope = "shut"
  BY <1>1, <1>3, <1>4, <1>7
<1> QED
  BY <1>6, <1>7

LEMMA SendStream ==
  ASSUME TypeOK, StreamInv, NEW s \in Senders, StartSend(s) \/ SendStep(s) \/ Interrupt(s)
  PROVE  StreamInv'
<1> USE DEF reading
<1>1. CASE StartSend(s)
  BY <1>1, StreamSame DEF StartSend, StreamInv, Offering
<1>2. CASE Lock(s)
  <2>1. CASE state # "Open"
    BY <1>2, <2>1, StreamSame DEF Lock, Offering
  <2>2. CASE state = "Open"
    BY <1>2, <2>2, StreamSame DEF Lock, Offering
  <2> QED
    BY <2>1, <2>2
<1>3. CASE Encode(s)
  BY <1>3, StreamSame DEF Encode, Offering
<1>4. CASE EncodeFails(s)
  BY <1>4, StreamSame DEF EncodeFails, Offering
<1>5. CASE FailStream(s)
  <2>1. CASE state # "Open"
    BY <1>5, <2>1, StreamSame DEF FailStream, Leave, Offering
  <2>2. CASE state = "Open"
    BY <1>5, <2>2, StreamSame DEF FailStream, Offering
  <2> QED
    BY <2>1, <2>2
<1>6. CASE TakeSlot(s)
  BY <1>6, StreamSame DEF TakeSlot, Offering, StreamInv
<1>7. CASE Delivery(s) \/ Interrupt(s)
  <2>1. \E p \in {"done", "interrupted"} : Step(s, p)
    BY <1>7 DEF Delivery, Interrupt
  <2>2. UNCHANGED <<queue, wire, reader, scope, state>>
    BY <1>7 DEF Delivery, Interrupt
  <2> QED
    BY <2>1, <2>2, StreamSame DEF Offering
<1>8. CASE OfferFrame(s) \/ OfferEnd(s) \/ OfferFailure(s)
  <2>1. sender[s] \in {"offer", "ending", "breaking"} /\ UNCHANGED <<wire, reader, scope, state>>
    BY <1>8 DEF OfferFrame, OfferEnd, OfferFailure
  <2>2. \A x \in Senders : x # s => sender[x] \notin Locked
    BY <2>1 DEF TypeOK, Locked
  <2>3. \A p : Step(s, p) => \A x \in Senders : sender'[x] = IF x = s THEN p ELSE sender[x]
    BY TypeIs DEF Step
  <2>4. Offering \subseteq Locked /\ "ending" \in Locked
    BY DEF Offering, Locked
  <2>5. ASSUME NEW p \in {"ending", "awaiting", "done", "failed"}, Step(s, p),
               Ends(Emitted'), scope = "shut" => queue' = <<>>,
               p = "ending" => s = Answer /\ NoControl(Emitted'),
               p = "awaiting" => s = Answer,
               state = "Open" => Frames(Emitted')
        PROVE  StreamInv'
    <3>1. \A x \in Senders : sender'[x] = IF x = s THEN p ELSE sender[x]
      BY <2>3, <2>5
    <3>2. \A x \in Senders : sender'[x] \notin Offering
      BY <2>2, <2>4, <2>5, <3>1 DEF Offering
    <3>3. sender'[Answer] = "ending" => NoControl(Emitted')
      BY <2>2, <2>4, <2>5, <3>1, Fibers
    <3>4. \A x \in Senders :
            /\ sender'[x] \in {"ending", "awaiting"} => x = Answer
            /\ sender'[x] = "breaking" => state # "Open"
            /\ x = Answer /\ sender'[x] \in {"slot", "offer", "ending"} => state # "Open"
      <4> TAKE x \in Senders
      <4>1. CASE x = s
        <5>1. s = Answer /\ p = "ending" => state # "Open"
          BY <1>8, <2>5 DEF OfferFrame, OfferEnd, OfferFailure, StreamInv
        <5> QED
          BY <2>5, <3>1, <4>1, <5>1
      <4>2. CASE x # s
        BY <3>1, <4>2 DEF StreamInv
      <4> QED
        BY <4>1, <4>2
    <3> QED
      BY <2>1, <2>5, <3>2, <3>3, <3>4 DEF StreamInv
  <2>6. Emitted \in Seq(Items)
    BY EmittedIs
  <2>7. CASE OfferFrame(s)
    <3>1. Frames(Emitted) /\ sender[s] = "offer" /\ (s = Answer => state # "Open")
      BY <2>7, <2>4 DEF OfferFrame, StreamInv, Offering
    <3>2. FrameOf(s) \in Items /\ Put(FrameOf(s))
      BY <2>7, Fibers DEF OfferFrame
    <3>3. Emitted' = Emitted \/ Emitted' = Append(Emitted, FrameOf(s))
      BY <2>1, <3>2, PutStream
    <3>4. /\ Ends(Emitted') /\ (s = Answer => NoControl(Emitted'))
          /\ s # Answer => Frames(Emitted')
      BY <2>6, <3>1, <3>2, <3>3, PutBehind DEF FrameOf
    <3>5. scope = "shut" => queue' = <<>>
      BY <3>2, <2>1, PutStream DEF StreamInv
    <3>6. CASE s = Answer
      BY <2>5, <2>7, <3>1, <3>4, <3>5, <3>6 DEF OfferFrame
    <3>7. CASE s # Answer
      BY <2>5, <2>7, <3>4, <3>5, <3>7 DEF OfferFrame, Leave
    <3> QED
      BY <3>6, <3>7
  <2>8. CASE OfferEnd(s)
    <3>1. s = Answer /\ NoControl(Emitted) /\ Ends(Emitted) /\ state # "Open"
      BY <2>8 DEF OfferEnd, StreamInv
    <3>2. Put("end") /\ "end" \in Items
      BY <2>8, Fibers DEF OfferEnd, ControlItems
    <3>3. Emitted' = Emitted \/ Emitted' = Append(Emitted, "end")
      BY <2>1, <3>2, PutStream
    <3>4. Ends(Emitted')
      BY <2>6, <3>1, <3>2, <3>3, PutBehind
    <3>5. scope = "shut" => queue' = <<>>
      BY <3>2, <2>1, PutStream DEF StreamInv
    <3>6. \E p \in {"awaiting", "done"} : Step(s, p)
      BY <2>8 DEF OfferEnd, Leave
    <3> QED
      BY <2>5, <3>1, <3>4, <3>5, <3>6
  <2>9. CASE OfferFailure(s)
    <3>1. Frames(Emitted) /\ state # "Open"
      BY <2>9 DEF OfferFailure, StreamInv, Offering
    <3>2. Put("fail") /\ "fail" \in Items
      BY <2>9, Fibers DEF OfferFailure, ControlItems
    <3>3. Emitted' = Emitted \/ Emitted' = Append(Emitted, "fail")
      BY <2>1, <3>2, PutStream
    <3>4. Ends(Emitted')
      BY <2>6, <3>1, <3>2, <3>3, PutBehind
    <3>5. scope = "shut" => queue' = <<>>
      BY <3>2, <2>1, PutStream DEF StreamInv
    <3> QED
      BY <2>5, <2>9, <3>1, <3>4, <3>5 DEF OfferFailure, Leave
  <2> QED
    BY <1>8, <2>7, <2>8, <2>9
<1> QED
  BY <1>1, <1>2, <1>3, <1>4, <1>5, <1>6, <1>7, <1>8 DEF SendStep

\* The reader's steps leave the stream as it is, but for what is dropped.
LEMMA ReadKeeps ==
  ASSUME TypeOK, Respond \/ RespondError \/ ReaderStep \/ Dispose \/ Release
  PROVE  Emitted' = Emitted
<1> USE DEF reading, sending
<1>1. /\ Emitted = Order(wire, reader, queue) /\ wire \in Seq(Items) /\ queue \in Seq(Items)
      /\ reader \in ReaderType
  BY EmittedIs
<1>2. Emitted' = Order(wire', reader', queue')
  BY DEF Emitted, Order, Held
<1>3. ASSUME reader.at # "delivering", reader'.at # "delivering", UNCHANGED <<wire, queue>>
      PROVE  Emitted' = Emitted
  BY <1>1, <1>2, <1>3 DEF Order, Held
<1>4. CASE Respond \/ RespondError \/ ReadShut
  <2>1. \E p \in {"pulling", "ended"} : reader' = [at |-> p, item |-> "none"]
    BY <1>4 DEF Respond, RespondError, ReadShut, ToReader
  <2> QED
    BY <1>3, <1>4, <2>1 DEF Respond, RespondError, ReadShut
<1>5. CASE Dequeue
  <2>1. /\ reader' = [at |-> "delivering", item |-> Head(queue)] /\ queue' = Tail(queue)
        /\ wire' = wire /\ queue # <<>> /\ reader.at # "delivering"
    BY <1>5 DEF Dequeue, ToReader
  <2>2. Head(queue) \in Items
    BY <1>1, <2>1, HeadTailProperties
  <2>3. reader' \in ReaderType /\ reader'.at = "delivering" /\ reader'.item = Head(queue)
    BY <2>1, <2>2, Reads
  <2> QED
    BY <1>1, <1>2, <2>1, <2>3, OrderTake
<1>6. CASE Deliver
  <2>1. /\ reader.at = "delivering" /\ wire' = Append(wire, reader.item) /\ queue' = queue
        /\ \E p \in {"pulling", "ended"} : reader' = [at |-> p, item |-> "none"]
    BY <1>6 DEF Deliver, DeliverFrame, DeliverEnd, ToReader
  <2>2. reader' \in ReaderType /\ reader'.at # "delivering"
    BY <2>1, Rests
  <2> QED
    BY <1>1, <1>2, <2>1, <2>2, OrderGive
<1>7. CASE Dispose \/ Release
  BY <1>7 DEF Dispose, Release, Emitted
<1> QED
  BY <1>4, <1>5, <1>6, <1>7 DEF ReaderStep

LEMMA CancelDrops ==
  ASSUME TypeOK, Cancel
  PROVE  (\E m : Thins(m, Emitted', Emitted)) /\ Emitted' \in Seq(Items)
<1>1. /\ Emitted = Order(wire, reader, queue) /\ wire \in Seq(Items) /\ queue \in Seq(Items)
      /\ reader \in ReaderType
  BY EmittedIs
<1>2. reader' = [at |-> "ended", item |-> "none"] /\ UNCHANGED <<wire, queue>>
  BY DEF Cancel, ToReader, sending
<1>3. reader' \in ReaderType /\ reader'.at # "delivering"
  BY <1>2, Rests
<1>4. Emitted' = Order(wire, reader', queue)
  BY <1>2 DEF Emitted, Order, Held
<1> QED
  BY <1>1, <1>3, <1>4, OrderDrop, OrderIs

LEMMA ShutCuts ==
  ASSUME TypeOK, Shut
  PROVE  /\ (\E m : Thins(m, Emitted', Emitted)) /\ Emitted' \in Seq(Items)
         /\ AckIsFirst(Emitted) => AckIsFirst(Emitted') \/ Emitted' = <<>>
<1>1. /\ Emitted = Order(wire, reader, queue) /\ wire \in Seq(Items) /\ queue \in Seq(Items)
      /\ reader \in ReaderType
  BY EmittedIs
<1>2. queue' = <<>> /\ UNCHANGED <<wire, reader>>
  BY DEF Shut, reading
<1>3. Emitted' = Order(wire, reader, <<>>)
  BY <1>2 DEF Emitted, Order, Held
<1>4. <<>> \in Seq(Items)
  BY EmptySeq
<1> QED
  BY <1>1, <1>3, <1>4, OrderCut, OrderIs

LEMMA ReadStream ==
  ASSUME TypeOK, StreamInv,
         Respond \/ RespondError \/ ReaderStep \/ Cancel \/ Dispose \/ Release \/ Shut
  PROVE  StreamInv'
<1> USE DEF reading, sending
<1>1. /\ Frames(Emitted) => Frames(Emitted')
      /\ NoControl(Emitted) => NoControl(Emitted')
      /\ Ends(Emitted) => Ends(Emitted')
  <2>1. Emitted \in Seq(Items)
    BY EmittedIs
  <2>2. CASE Cancel \/ Shut
    BY <2>1, <2>2, CancelDrops, ShutCuts, Thinner
  <2>3. CASE ~(Cancel \/ Shut)
    BY <2>3, ReadKeeps
  <2> QED
    BY <2>2, <2>3
<1>2. sender' = sender /\ state' \in {state, "Closed"}
  BY DEF Respond, RespondError, ReaderStep, Dequeue, Deliver, DeliverFrame, DeliverEnd,
         ReadShut, Cancel, Dispose, Release, Shut
<1>3. scope' = "shut" => queue' = <<>>
  BY DEF Respond, RespondError, ReaderStep, Dequeue, Deliver, DeliverFrame, DeliverEnd,
         ReadShut, Cancel, Dispose, Release, Shut, StreamInv
<1> QED
  BY <1>1, <1>2, <1>3 DEF StreamInv

-----------------------------------------------------------------------------
(* The acknowledgement.                                                    *)

\* What the steps of the senders have in common.
LEMMA SendPlaces ==
  ASSUME TypeOK, StreamInv, NEW s \in Senders, StartSend(s) \/ SendStep(s) \/ Interrupt(s)
  PROVE  /\ \A x \in Senders : x # s => sender'[x] = sender[x]
         /\ sender'[s] \in Locked => sender[s] \in Locked \cup {"waiting"}
         /\ sender'[s] = "waiting" => sender[s] = "idle" /\ (s = Opener => reader.at = "none")
         /\ sender[s] = "idle" => sender'[s] = "waiting"
         /\ sender'[s] # "idle"
         /\ UNCHANGED <<listens, reader, wire, delivered, scope>>
<1> USE DEF reading
<1>1. /\ sender \in [Senders -> Places] /\ \E p \in Places : Step(s, p)
      /\ UNCHANGED <<listens, reader, wire, delivered, scope>>
  BY TypeIs DEF StartSend, SendStep, Lock, Encode, EncodeFails, FailStream, TakeSlot, OfferFrame,
     OfferEnd, OfferFailure, Delivery, Interrupt, Leave, Places, Locked, Over
<1>2. PICK p \in Places : sender' = [sender EXCEPT ![s] = p]
  BY <1>1 DEF Step
<1>3. sender'[s] = p /\ \A x \in Senders : x # s => sender'[x] = sender[x]
  BY <1>1, <1>2
<1>4. CASE StartSend(s)
  <2>1. p = "waiting" /\ sender[s] = "idle" /\ (s = Opener => reader.at = "none")
    BY <1>1, <1>3, <1>4, SendersAssumption DEF StartSend, Step, MayStart, Senders
  <2> QED
    BY <1>1, <1>3, <2>1 DEF Locked
<1>5. CASE SendStep(s) \/ Interrupt(s)
  <2>1. p # "waiting" /\ p # "idle" /\ sender[s] # "idle"
    BY <1>1, <1>3, <1>5 DEF SendStep, Lock, Encode, EncodeFails, FailStream, TakeSlot, OfferFrame,
       OfferEnd, OfferFailure, Delivery, Interrupt, Leave, Step, Locked, Over
  <2>2. p \in Locked => sender[s] \in Locked \cup {"waiting"}
    BY <1>1, <1>3, <1>5 DEF SendStep, Lock, Encode, EncodeFails, FailStream, TakeSlot, OfferFrame,
       OfferEnd, OfferFailure, Delivery, Interrupt, Leave, Step, Locked, Over
  <2> QED
    BY <1>1, <1>3, <2>1, <2>2
<1> QED
  BY <1>4, <1>5

\* Only the opener, when it gets the lock, registers the subscription.
LEMMA SendRegisters ==
  ASSUME TypeOK, NEW s \in Senders, StartSend(s) \/ SendStep(s) \/ Interrupt(s)
  PROVE  /\ registered' = "no" => registered = "no"
         /\ registered = "no" /\ ~(Lock(s) /\ s = Opener) => registered' = "no"
         /\ Lock(s) /\ s = Opener /\ sender'[s] \in Locked => registered' = "yes"
         /\ sender[s] = "waiting" => Lock(s) \/ Interrupt(s)
<1> USE DEF reading
<1>1. CASE StartSend(s)
  BY <1>1, Fibers DEF StartSend, MayStart, Lock
<1>2. CASE Lock(s)
  <2>1. sender \in [Senders -> Places]
    BY TypeIs
  <2>2. state # "Open" => sender'[s] = "failed" /\ registered' = registered
    BY <1>2, <2>1 DEF Lock, Step
  <2>3. state = "Open" => registered' = IF s = Opener THEN "yes" ELSE registered
    BY <1>2 DEF Lock
  <2> QED
    BY <1>2, <2>2, <2>3 DEF Locked
<1>3. CASE FailStream(s)
  BY <1>3 DEF FailStream, Lock
<1>4. CASE Encode(s) \/ EncodeFails(s) \/ TakeSlot(s) \/ OfferFrame(s) \/ OfferEnd(s)
           \/ OfferFailure(s) \/ Delivery(s)
  BY <1>4 DEF Encode, EncodeFails, TakeSlot, OfferFrame, OfferEnd, OfferFailure, Delivery,
     Lock
<1>5. CASE Interrupt(s)
  <2>1. sender'[s] = "interrupted" /\ registered' = registered
    BY <1>5, TypeIs DEF Interrupt, Step
  <2> QED
    BY <1>5, <2>1 DEF Locked
<1> QED
  BY <1>1, <1>2, <1>3, <1>4, <1>5 DEF SendStep

\* Only the holder of the lock puts something in the queue.
LEMMA SendPuts ==
  ASSUME TypeOK, NEW s \in Senders, StartSend(s) \/ SendStep(s) \/ Interrupt(s)
  PROVE  \/ Emitted' = Emitted /\ queue' = queue
         \/ /\ sender[s] \in {"offer", "ending", "breaking"} /\ scope # "shut"
            /\ \E i \in Items : Emitted' = Append(Emitted, i)
<1> USE DEF reading
<1>1. CASE OfferFrame(s) \/ OfferEnd(s) \/ OfferFailure(s)
  <2>1. /\ sender[s] \in {"offer", "ending", "breaking"} /\ UNCHANGED <<wire, reader>>
        /\ \E i \in Items : Put(i)
    BY <1>1, Fibers DEF OfferFrame, OfferEnd, OfferFailure, ControlItems
  <2> QED
    BY <2>1, PutStream
<1>2. CASE ~(OfferFrame(s) \/ OfferEnd(s) \/ OfferFailure(s))
  <2>1. UNCHANGED <<wire, reader, queue>>
    BY <1>2 DEF StartSend, SendStep, Lock, Encode, EncodeFails, FailStream, TakeSlot, Delivery,
       Interrupt
  <2> QED
    BY <2>1 DEF Emitted
<1> QED
  BY <1>1, <1>2

\* The opener's send ends well when the acknowledgement is in the queue.
LEMMA OpenerDone ==
  ASSUME TypeOK, StreamInv, AckInv, NEW s \in Senders, s = Opener, listens,
         StartSend(s) \/ SendStep(s) \/ Interrupt(s), sender'[s] = "done"
  PROVE  AckIsFirst(Emitted') \/ (scope = "shut" /\ Emitted' = <<>>)
<1> USE DEF reading
<1>1. s # Answer /\ sender \in [Senders -> Places]
  BY Fibers, TypeIs
<1>2. sender[s] # "awaiting" /\ sender[s] # "ending"
  BY <1>1 DEF StreamInv
<1>3. OfferFrame(s)
  BY <1>1, <1>2 DEF StartSend, SendStep, Lock, Encode, EncodeFails, FailStream, TakeSlot,
     OfferEnd, OfferFailure, Delivery, Interrupt, Leave, Step
<1>4. sender[s] \in Locked /\ Put("ack") /\ "ack" \in Items /\ UNCHANGED <<wire, reader>>
  BY <1>1, <1>3, Fibers DEF OfferFrame, Locked, FrameOf, FrameItems
<1>5. queue = <<>> /\ wire = <<>> /\ reader.at = "none"
  BY <1>4 DEF AckInv
<1>6. Emitted = <<>>
  <2>1. Emitted = (<<>> \o <<>>) \o <<>>
    BY <1>5 DEF Emitted, Held
  <2>2. <<>> \in Seq(Items)
    BY EmptySeq
  <2> QED
    BY <2>1, <2>2, ConcatEmptySeq
<1>7. Append(<<>>, "ack") # <<>> /\ Append(<<>>, "ack")[1] = "ack"
  OBVIOUS
<1>8. scope # "shut" => Emitted' = Append(<<>>, "ack")
  BY <1>4, <1>6, PutStream
<1>9. scope = "shut" => Emitted' = <<>>
  BY <1>4, <1>6, PutStream
<1> QED
  BY <1>7, <1>8, <1>9 DEF AckIsFirst

LEMMA SendAck ==
  ASSUME TypeOK, StreamInv, AckInv, NEW s \in Senders,
         StartSend(s) \/ SendStep(s) \/ Interrupt(s)
  PROVE  AckInv'
<1>1. /\ \A x \in Senders : x # s => sender'[x] = sender[x]
      /\ sender'[s] \in Locked => sender[s] \in Locked \cup {"waiting"}
      /\ sender'[s] = "waiting" => sender[s] = "idle" /\ (s = Opener => reader.at = "none")
      /\ sender[s] = "idle" => sender'[s] = "waiting"
      /\ sender'[s] # "idle"
      /\ UNCHANGED <<listens, reader, wire, delivered, scope>>
  BY SendPlaces
<1>2. /\ registered' = "no" => registered = "no"
      /\ registered = "no" /\ ~(Lock(s) /\ s = Opener) => registered' = "no"
      /\ Lock(s) /\ s = Opener /\ sender'[s] \in Locked => registered' = "yes"
      /\ sender[s] = "waiting" => Lock(s) \/ Interrupt(s)
  BY SendRegisters
<1>3. listens /\ registered = "no" => s = Opener
  <2> SUFFICES ASSUME listens, registered = "no", s # Opener
               PROVE  FALSE
    OBVIOUS
  <2>1. sender[s] = "idle"
    BY DEF AckInv
  <2>2. ~StartSend(s)
    BY DEF StartSend, MayStart
  <2> QED
    BY <2>1, <2>2 DEF SendStep, Lock, Encode, EncodeFails, FailStream, TakeSlot, OfferFrame,
       OfferEnd, OfferFailure, Delivery, Interrupt, Locked
<1>4. sender'[Opener] \in {"waiting"} \cup Locked => reader.at = "none"
  BY <1>1, Fibers DEF AckInv
<1>5. listens /\ sender'[Opener] \in {"idle", "waiting"} => registered' = "no"
  <2>1. CASE s = Opener
    <3>1. Lock(s) => sender[s] = "waiting"
      BY DEF Lock
    <3> QED
      BY <1>1, <1>2, <2>1, <3>1 DEF AckInv
  <2>2. CASE s # Opener
    BY <1>1, <1>2, <2>2, Fibers DEF AckInv
  <2> QED
    BY <2>1, <2>2
<1>6. ASSUME listens, registered' = "no"
      PROVE  /\ \A x \in Senders \ {Opener} : sender'[x] = "idle"
             /\ sender'[Opener] \notin Locked \cup {"done", "awaiting"}
             /\ queue' = <<>>
  <2>1. s = Opener /\ registered = "no"
    BY <1>2, <1>3, <1>6
  <2>2. /\ \A x \in Senders \ {Opener} : sender[x] = "idle"
        /\ sender[Opener] \notin Locked \cup {"done", "awaiting"} /\ queue = <<>>
    BY <1>6, <2>1 DEF AckInv
  <2>3. sender'[Opener] \notin Locked
    <3> SUFFICES ASSUME sender'[Opener] \in Locked
                 PROVE  FALSE
      OBVIOUS
    <3>1. sender[s] = "waiting"
      BY <1>1, <2>1, <2>2
    <3>2. ~Lock(s)
      BY <1>2, <1>6, <2>1
    <3>3. Interrupt(s)
      BY <1>2, <3>1, <3>2
    <3>4. sender'[s] = "interrupted"
      BY <3>3, TypeIs DEF Interrupt, Step
    <3> QED
      BY <2>1, <3>4 DEF Locked
  <2>4. sender'[Opener] \notin {"done", "awaiting"} /\ queue' = queue
    <3>1. sender[s] \notin {"offer", "ending", "breaking", "awaiting"}
      BY <2>1, <2>2 DEF Locked
    <3>2. queue' = queue
      BY <3>1, SendPuts
    <3>3. sender'[s] \notin {"done", "awaiting"}
      BY <3>1, TypeIs DEF StartSend, SendStep, Lock, Encode, EncodeFails, FailStream, TakeSlot,
         OfferFrame, OfferEnd, OfferFailure, Delivery, Interrupt, Leave, Step
    <3> QED
      BY <2>1, <3>2, <3>3
  <2> QED
    BY <1>1, <2>1, <2>2, <2>3, <2>4
<1>7. ASSUME listens, sender'[Opener] \in Locked
      PROVE  queue' = <<>>
  <2>1. queue = <<>>
    BY <1>1, <1>7, Fibers DEF AckInv
  <2>2. CASE sender[s] \in {"offer", "ending", "breaking"}
    <3>1. s = Opener
      <4>1. sender[s] \in Locked
        BY <2>2 DEF Locked
      <4> QED
        BY <1>1, <1>7, <4>1, Fibers DEF TypeOK
    <3>2. sender'[s] \notin Locked
      BY <2>2, <3>1, Fibers, TypeIs DEF StartSend, SendStep, Lock, Encode, EncodeFails,
         FailStream, TakeSlot, OfferFrame, OfferEnd, OfferFailure, Delivery, Interrupt,
         Leave, Step, Locked
    <3> QED
      BY <1>7, <3>1, <3>2
  <2>3. CASE sender[s] \notin {"offer", "ending", "breaking"}
    BY <2>1, <2>3, SendPuts
  <2> QED
    BY <2>2, <2>3
<1>8. ASSUME listens, reader.at \in {"pulling", "delivering"}
                      \/ (reader.at = "none" /\ sender'[Opener] = "done")
      PROVE  AckIsFirst(Emitted') \/ (scope = "shut" /\ Emitted' = <<>>)
  <2>1. CASE s = Opener /\ sender'[s] = "done"
    BY <1>8, <2>1, OpenerDone
  <2>2. CASE ~(s = Opener /\ sender'[s] = "done")
    <3>1. AckIsFirst(Emitted) \/ (scope = "shut" /\ Emitted = <<>>)
      BY <1>1, <1>8, <2>2, Fibers DEF AckInv
    <3>2. Emitted \in Seq(Items)
      BY EmittedIs
    <3>3. CASE Emitted' = Emitted
      BY <3>1, <3>3
    <3>4. CASE scope # "shut" /\ \E i \in Items : Emitted' = Append(Emitted, i)
      BY <3>1, <3>2, <3>4, PutBehind
    <3> QED
      BY <3>3, <3>4, SendPuts
  <2> QED
    BY <2>1, <2>2
<1>9. /\ reader.at = "none" => wire = <<>>
      /\ listens /\ wire # <<>> => wire[1] = "ack"
  BY DEF AckInv
<1>10. ~listens => sender'[Opener] = "idle"
  <2> SUFFICES ASSUME ~listens, sender[Opener] = "idle"
               PROVE  sender'[Opener] = "idle"
    BY DEF AckInv
  <2>1. CASE s = Opener
    <3>1. ~StartSend(s)
      BY <2>1, SendersAssumption DEF StartSend, MayStart
    <3> QED
      BY <2>1, <3>1 DEF SendStep, Lock, Encode, EncodeFails, FailStream, TakeSlot, OfferFrame,
         OfferEnd, OfferFailure, Delivery, Interrupt, Locked
  <2>2. CASE s # Opener
    BY <1>1, <2>2, Fibers
  <2> QED
    BY <2>1, <2>2
<1> QED
  BY <1>1, <1>4, <1>5, <1>6, <1>7, <1>8, <1>9, <1>10 DEF AckInv

\* What has been given is the beginning of the stream.
LEMMA GivenFirst ==
  ASSUME NEW w \in Seq(Items), NEW r \in ReaderType, NEW q \in Seq(Items), w # <<>>
  PROVE  Order(w, r, q) # <<>> /\ Order(w, r, q)[1] = w[1]
<1> DEFINE b == Held(r) \o q
<1>1. b \in Seq(Items) /\ Order(w, r, q) = w \o b
  BY HeldType, ConcatItems, OrderIs
<1> HIDE DEF b
<1>2. Len(w) \in Nat /\ Len(w) >= 1 /\ Len(b) \in Nat
  BY <1>1, EmptySeq
<1>3. 1 \in 1..(Len(w) + Len(b)) /\ 1 <= Len(w)
  BY <1>2
<1>4. (w \o b)[1] = w[1] /\ Len(w \o b) = Len(w) + Len(b)
  BY <1>1, <1>3, ConcatItems
<1>5. Len(<<>>) = 0
  BY EmptySeq
<1> QED
  BY <1>1, <1>2, <1>4, <1>5

LEMMA ReadAck ==
  ASSUME TypeOK, StreamInv, AckInv,
         Respond \/ RespondError \/ ReaderStep \/ Cancel \/ Dispose \/ Release \/ Shut
  PROVE  AckInv'
<1> USE DEF reading, sending
<1>1. UNCHANGED <<listens, sender>>
  BY DEF Respond, RespondError, ReaderStep, Dequeue, Deliver, DeliverFrame, DeliverEnd,
         ReadShut, Cancel, Dispose, Release, Shut
<1>2. CASE Respond \/ Dispose \/ Release
  <2>1. /\ Emitted' = Emitted /\ UNCHANGED <<queue, wire>>
        /\ \/ reader' = reader
           \/ /\ reader.at = "none" /\ reader' = [at |-> "pulling", item |-> "none"]
              /\ listens => sender[Opener] = "done"
        /\ registered' = registered \/ (registered = "yes" /\ registered' = "removed")
        /\ scope' = "shut" <=> scope = "shut"
    BY <1>2, ReadKeeps DEF Respond, Dispose, Release, ToReader
  <2>2. sender'[Opener] \in {"waiting"} \cup Locked => reader'.at = "none"
    <3>1. CASE reader' = reader
      BY <1>1, <3>1 DEF AckInv
    <3>2. CASE Respond
      <4>1. CASE listens
        BY <1>1, <3>2, <4>1 DEF Respond, Locked
      <4>2. CASE ~listens
        BY <1>1, <3>2, <4>2 DEF AckInv, Locked
      <4> QED
        BY <4>1, <4>2
    <3> QED
      BY <1>2, <3>1, <3>2 DEF Dispose, Release
  <2>3. /\ listens /\ wire # <<>> => wire[1] = "ack"
        /\ reader'.at = "none" => wire = <<>>
    BY <2>1 DEF AckInv
  <2>4. listens /\ (reader'.at \in {"pulling", "delivering"}
                     \/ (reader'.at = "none" /\ sender[Opener] = "done")) =>
           AckIsFirst(Emitted) \/ (scope = "shut" /\ Emitted = <<>>)
    BY <2>1 DEF AckInv
  <2> QED
    BY <1>1, <2>1, <2>2, <2>3, <2>4 DEF AckInv
<1>3. CASE RespondError \/ Cancel \/ ReadShut
  <2>1. /\ reader' = [at |-> "ended", item |-> "none"] /\ UNCHANGED <<queue, wire, registered>>
        /\ sender[Opener] \notin {"waiting"} \cup Locked
    BY <1>3 DEF RespondError, Cancel, ReadShut, ToReader, AckInv
  <2> QED
    BY <1>1, <2>1 DEF AckInv
<1>4. CASE Dequeue
  <2>1. /\ Emitted' = Emitted /\ UNCHANGED <<wire, registered, scope>> /\ queue # <<>>
        /\ reader.at = "pulling" /\ reader'.at = "delivering"
    BY <1>4, ReadKeeps DEF Dequeue, ToReader, ReaderStep
  <2> QED
    BY <1>1, <2>1 DEF AckInv
<1>5. CASE Deliver
  <2>1. /\ Emitted' = Emitted /\ UNCHANGED <<queue, registered>>
        /\ reader.at = "delivering" /\ reader'.at \in {"pulling", "ended"}
        /\ reader'.at = "pulling" => scope' = scope
        /\ wire' = Append(wire, reader.item)
    BY <1>5, ReadKeeps DEF Deliver, DeliverFrame, DeliverEnd, ToReader, ReaderStep
  <2>2. TypeOK'
    BY <1>5, ReadType DEF ReaderStep
  <2>3. Emitted' = Order(wire', reader', queue') /\ wire' \in Seq(Items) /\ wire' # <<>>
    <3>1. wire \in Seq(Items) /\ reader.item \in Items
      BY <2>1, EmittedIs DEF ReaderType
    <3>2. wire' # <<>>
      BY <2>1, <3>1, AppendProperties
    <3> QED
      BY <2>2, <3>2 DEF Emitted, Order, Held, TypeOK
  <2>4. reader' \in ReaderType /\ queue' \in Seq(Items)
    BY <2>2 DEF TypeOK, ReaderType
  <2>5. Emitted' # <<>> /\ Emitted'[1] = wire'[1]
    BY <2>3, <2>4, GivenFirst
  <2>6. listens => AckIsFirst(Emitted)
    BY <2>1, <2>5 DEF AckInv
  <2>7. listens => wire'[1] = "ack"
    BY <2>1, <2>5, <2>6 DEF AckIsFirst
  <2> QED
    BY <1>1, <2>1, <2>6, <2>7 DEF AckInv
<1>6. CASE Shut
  <2>1. /\ queue' = <<>> /\ scope = "released" /\ scope' = "shut"
        /\ UNCHANGED <<registered, reader, wire>>
    BY <1>6 DEF Shut
  <2>2. AckIsFirst(Emitted) => AckIsFirst(Emitted') \/ Emitted' = <<>>
    BY <1>6, ShutCuts
  <2> QED
    BY <1>1, <2>1, <2>2 DEF AckInv
<1> QED
  BY <1>2, <1>3, <1>4, <1>5, <1>6 DEF ReaderStep

-----------------------------------------------------------------------------
(* The delivery.                                                           *)

LEMMA SendDelivery ==
  ASSUME TypeOK, StreamInv, DeliveryInv, NEW s \in Senders,
         StartSend(s) \/ SendStep(s) \/ Interrupt(s)
  PROVE  DeliveryInv'
<1> USE DEF reading
<1>1. UNCHANGED <<listens, wire, delivered>>
  BY DEF StartSend, SendStep, Lock, Encode, EncodeFails, FailStream, TakeSlot, OfferFrame,
     OfferEnd, OfferFailure, Delivery, Interrupt
<1>2. ASSUME listens, sender'[Answer] = "done"
      PROVE  delivered
  <2>1. CASE sender[Answer] = "done"
    BY <1>2, <2>1 DEF DeliveryInv
  <2>2. CASE sender[Answer] # "done"
    <3>1. s = Answer
      BY <1>2, <2>2, SendPlaces, Fibers
    <3>2. Delivery(s)
      BY <1>2, <3>1, TypeIs DEF StartSend, SendStep, Lock, Encode, EncodeFails, FailStream,
         TakeSlot, OfferFrame, OfferEnd, OfferFailure, Delivery, Interrupt, Leave, Step
    <3> QED
      BY <3>2 DEF Delivery
  <2> QED
    BY <2>1, <2>2
<1> QED
  BY <1>1, <1>2 DEF DeliveryInv

LEMMA ReadDelivery ==
  ASSUME TypeOK, DeliveryInv,
         Respond \/ RespondError \/ ReaderStep \/ Cancel \/ Dispose \/ Release \/ Shut
  PROVE  DeliveryInv'
<1> USE DEF reading, sending
<1>1. CASE Deliver
  <2>1. /\ wire \in Seq(Items) /\ reader.item \in Items /\ wire' = Append(wire, reader.item)
        /\ UNCHANGED <<listens, sender>>
    BY <1>1, EmittedIs DEF Deliver, DeliverFrame, DeliverEnd, ReaderType
  <2>2. /\ Len(wire) \in Nat /\ Len(wire') = Len(wire) + 1 /\ wire'[Len(wire) + 1] = reader.item
        /\ \A k \in 1..Len(wire) : wire'[k] = wire[k]
    BY <2>1, AppendProperties
  <2>3. 1..Len(wire) \subseteq 1..Len(wire') /\ Len(wire) + 1 \in 1..Len(wire')
    BY <2>2
  <2>4. delivered => \E k \in 1..Len(wire') : wire'[k] = "terminal"
    BY <2>2, <2>3 DEF DeliveryInv
  <2>5. delivered' => delivered \/ reader.item = "terminal"
    BY <1>1 DEF Deliver, DeliverFrame, DeliverEnd
  <2>6. delivered => delivered'
    BY <1>1 DEF Deliver, DeliverFrame, DeliverEnd
  <2> QED
    BY <2>1, <2>2, <2>3, <2>4, <2>5, <2>6 DEF DeliveryInv
<1>2. CASE Respond \/ RespondError \/ Dequeue \/ ReadShut \/ Cancel \/ Dispose \/ Release \/ Shut
  BY <1>2 DEF Respond, RespondError, Dequeue, ReadShut, Cancel, Dispose, Release, Shut,
     DeliveryInv
<1> QED
  BY <1>1, <1>2 DEF ReaderStep

-----------------------------------------------------------------------------
(* The theorems.                                                           *)

LEMMA Initially == Init => Inv
<1> SUFFICES ASSUME Init
             PROVE  Inv
  OBVIOUS
<1>1. TypeOK
  BY InitType
<1>2. Emitted = <<>> /\ Len(<<>>) = 0
  <2>1. <<>> \in Seq(Items)
    BY EmptySeq
  <2>2. Emitted = (<<>> \o <<>>) \o <<>>
    BY DEF Init, Emitted, Held
  <2> QED
    BY <2>1, <2>2, ConcatEmptySeq, EmptySeq
<1>3. SumInv
  <2>1. Taken(sender) = 0
    BY DEF Init, Taken
  <2>2. FramesIn(<<>>) = 0
    <3>1. <<>> \in Seq(Items)
      BY EmptySeq
    <3> QED
      BY <3>1, FramesCounted
  <2> QED
    BY <2>1, <2>2, Fibers DEF Init, SumInv
<1>4. StreamInv
  <2>1. Ends(<<>>) /\ Frames(<<>>)
    BY <1>2 DEF Ends, Frames
  <2> QED
    BY <1>2, <2>1, Fibers DEF Init, StreamInv
<1>5. AckInv /\ DeliveryInv
  BY <1>2, Fibers DEF Init, AckInv, DeliveryInv, Locked
<1> QED
  BY <1>1, <1>3, <1>4, <1>5 DEF Inv

\* The inductive invariant: the types and the lock, the sum of the slots, the stream
\* behind which nobody but the holder of the lock can put anything, the acknowledgement
\* that comes first and the completion that waits.
THEOREM Invariance == Spec => []Inv
<1>1. Init => Inv
  BY Initially
<1>2. Inv /\ [Next]_vars => Inv'
  <2> SUFFICES ASSUME Inv, [Next]_vars
               PROVE  Inv'
    OBVIOUS
  <2>1. TypeOK /\ SumInv /\ StreamInv /\ AckInv /\ DeliveryInv
    BY DEF Inv
  <2>2. TypeOK'
    BY <2>1, NextType
  <2>3. ASSUME NEW s \in Senders, StartSend(s) \/ SendStep(s) \/ Interrupt(s)
        PROVE  SumInv' /\ StreamInv' /\ AckInv' /\ DeliveryInv'
    BY <2>1, <2>3, SendSum, SendStream, SendAck, SendDelivery
  <2>4. CASE Respond \/ RespondError \/ ReaderStep \/ Cancel \/ Dispose \/ Release \/ Shut
    <3>1. SumInv' /\ StreamInv'
      BY <2>1, <2>4, ReadSum, ReadStream
    <3>2. AckInv' /\ DeliveryInv'
      BY <2>1, <2>4, ReadAck, ReadDelivery
    <3> QED
      BY <2>2, <3>1, <3>2 DEF Inv
  <2>5. CASE UNCHANGED vars
    <3>1. SumInv' /\ StreamInv'
      BY <2>1, <2>5 DEF vars, SumInv, StreamInv, Emitted
    <3>2. AckInv'
      BY <2>1, <2>5 DEF vars, AckInv, Emitted
    <3>3. DeliveryInv'
      BY <2>1, <2>5 DEF vars, DeliveryInv
    <3> QED
      BY <2>2, <3>1, <3>2, <3>3 DEF Inv
  <2> QED
    BY <2>2, <2>3, <2>4, <2>5 DEF Next, Inv
<1> QED
  BY <1>1, <1>2, PTL DEF Spec

\* The variables keep their types, and the lock is held by the one sender in a place
\* that needs it.
THEOREM TypeCorrect == Spec => []TypeOK
<1>1. Inv => TypeOK
  BY DEF Inv
<1> QED
  BY <1>1, Invariance, PTL

\* No frame slot leaks or is freed twice, for any number of them: whoever offers under
\* the lock finds room.
THEOREM SlotsAreKept == Spec => []SlotsAddUp
<1>1. Inv => SlotsAddUp
  <2> SUFFICES ASSUME Inv, scope \in {"open", "closing"}
               PROVE  /\ slots + FramesQueued
                           + Cardinality({s \in Senders : sender[s] = "offer"}) = MaxPending
                      /\ (\E s \in Senders : sender[s] \in {"offer", "ending", "breaking"})
                           => Len(queue) < QueueCapacity
    BY DEF SlotsAddUp
  <2>1. TypeOK /\ SumInv /\ StreamInv
    BY DEF Inv
  <2>2. \A s \in Senders : lock = s <=> sender[s] \in Locked
    BY <2>1 DEF TypeOK
  <2>3. sender \in [Senders -> Places] /\ slots \in Nat /\ MaxPending \in Nat
    BY <2>1, TypeIs, Fibers
  <2>4. /\ Cardinality({s \in Senders : sender[s] = "offer"}) = Taken(sender)
        /\ Taken(sender) \in {0, 1}
    BY <2>2, <2>3, OneOffers
  <2>5. slots + FramesIn(queue) + Taken(sender) = MaxPending
    BY <2>1 DEF SumInv
  <2>6. queue \in Seq(Items) /\ FramesIn(queue) \in Nat /\ Len(queue) \in Nat
    BY <2>1, FramesCounted DEF TypeOK
  <2>7. ASSUME NEW s \in Senders, sender[s] \in {"offer", "ending", "breaking"}
        PROVE  Len(queue) < QueueCapacity
    <3>1. NoControl(Emitted)
      <4>1. Emitted \in Seq(Items)
        BY <2>1, EmittedIs
      <4>2. Frames(Emitted) => NoControl(Emitted)
        BY <4>1, Fibers, PutBehind DEF FrameItems
      <4> QED
        BY <2>1, <2>7, <4>2 DEF StreamInv, Offering
    <3>2. NoControl(queue)
      BY <2>1, <3>1, EmittedIs, QueueIsLast
    <3>3. FramesIn(queue) = Len(queue)
      BY <2>6, <3>2, FramesCounted
    <3> QED
      BY <2>3, <2>4, <2>5, <2>6, <3>3 DEF QueueCapacity
  <2> QED
    BY <2>4, <2>5, <2>7 DEF FramesQueued
<1> QED
  BY <1>1, Invariance, PTL

\* For any number of notifications the stream is well formed: an acknowledgement first,
\* one terminal at most, and nothing behind an end or a failure.
THEOREM StreamWellFormed == Spec => []WellFormed
<1>1. Inv => WellFormed
  BY DEF Inv, StreamInv, AckInv, Ends, WellFormed
<1> QED
  BY <1>1, Invariance, PTL

\* A completion is reported only when the reader has been given the terminal.
THEOREM CompletionsAreDelivered == Spec => []CompletionIsDelivered
<1>1. Inv => CompletionIsDelivered
  BY DEF Inv, DeliveryInv, CompletionIsDelivered
<1> QED
  BY <1>1, Invariance, PTL

-----------------------------------------------------------------------------
(* Nobody is stuck.  ENABLED and fairness are out of the prover's reach;   *)
(* the steps FairSpec is fair to are described by their guards.            *)

Finished(s) == sender[s] \in Over \cup {"idle"}

\* Some step of a sender, of the reader's body or of the closing scope that does not
\* depend on anybody's reading can be taken.
CanGoOn ==
  \/ scope = "closing" /\ (~listens => \A s \in Senders : Finished(s))
  \/ scope = "released"
  \/ reader.at = "delivering" \/ (reader.at = "pulling" /\ scope = "shut")
  \/ \E s \in Senders :
       \/ sender[s] = "waiting" /\ lock = Nobody
       \/ sender[s] \in {"encoding", "failing"}
       \/ sender[s] = "slot" /\ slots > 0
       \/ /\ sender[s] \in {"offer", "ending", "breaking"}
          /\ scope = "shut" \/ Len(queue) < QueueCapacity
       \/ sender[s] = "awaiting" /\ delivered
       \/ /\ s = Answer \/ ~listens
          /\ MayInterrupt(s) /\ sender[s] \in {"waiting", "awaiting"} \cup Locked

\* Once the slots are released nobody is let in, and who still encodes or waits for a
\* slot finds all of them free: nobody else can take one meanwhile.
RoomInv ==
  scope \in {"released", "shut"} =>
    /\ state # "Open"
    /\ (\E s \in Senders : sender[s] \in {"encoding", "slot"}) => slots = MaxPending

\* An ordinary response that is no longer open has its end in the stream, or somebody
\* with the lock who is about to put it there.  It is left to the reader to take it.
EndInv ==
  ~listens =>
    /\ \A s \in Senders : sender[s] # "awaiting"
    /\ sender[Answer] \in Over /\ scope = "open" => state # "Open"
    /\ state # "Open" /\ scope = "open" /\ NoControl(Emitted) =>
         \/ reader.at = "ended"
         \/ \E s \in Senders : sender[s] = "breaking"
         \/ sender[Answer] \in {"slot", "offer", "ending"}
    /\ reader.at # "ended" => NoControl(wire)

LEMMA SendRoom ==
  ASSUME TypeOK, RoomInv, NEW s \in Senders, StartSend(s) \/ SendStep(s) \/ Interrupt(s)
  PROVE  RoomInv'
<1> USE DEF reading
<1>1. sender \in [Senders -> Places] /\ \A x \in Senders : lock = x <=> sender[x] \in Locked
  BY TypeIs DEF TypeOK
<1>2. state # "Open" => state' # "Open"
  BY DEF StartSend, SendStep, Lock, Encode, EncodeFails, FailStream, TakeSlot, OfferFrame,
     OfferEnd, OfferFailure, Delivery, Interrupt
<1>3. scope' = scope
  BY DEF StartSend, SendStep, Lock, Encode, EncodeFails, FailStream, TakeSlot, OfferFrame,
     OfferEnd, OfferFailure, Delivery, Interrupt
<1>4. ASSUME scope \in {"released", "shut"}, NEW x \in Senders,
             sender'[x] \in {"encoding", "slot"}
      PROVE  slots' = MaxPending
  <2>1. sender[x] \in {"encoding", "slot"}
    BY <1>1, <1>4 DEF RoomInv, StartSend, SendStep, Lock, Encode, EncodeFails, FailStream,
       TakeSlot, OfferFrame, OfferEnd, OfferFailure, Delivery, Interrupt, Leave, Step
  <2>2. slots = MaxPending
    BY <1>4, <2>1 DEF RoomInv
  <2>3. lock = x
    BY <1>1, <2>1 DEF Locked
  <2>4. CASE TakeSlot(s)
    <3>1. s = x /\ sender'[s] = "offer"
      BY <1>1, <2>3, <2>4 DEF TakeSlot, Step, Locked
    <3> QED
      BY <1>4, <3>1
  <2>5. CASE Interrupt(s)
    BY <2>2, <2>5, Fibers DEF Interrupt
  <2>6. CASE ~(TakeSlot(s) \/ Interrupt(s))
    BY <2>2, <2>6 DEF StartSend, SendStep, Lock, Encode, EncodeFails, FailStream, OfferFrame,
       OfferEnd, OfferFailure, Delivery
  <2> QED
    BY <2>4, <2>5, <2>6
<1> QED
  BY <1>2, <1>3, <1>4 DEF RoomInv

LEMMA ReadRoom ==
  ASSUME TypeOK, RoomInv,
         Respond \/ RespondError \/ ReaderStep \/ Cancel \/ Dispose \/ Release \/ Shut
  PROVE  RoomInv'
<1> USE DEF reading, sending
<1>1. CASE Release
  BY <1>1 DEF Release, RoomInv
<1>2. CASE ~Release
  <2>1. /\ scope' \in {"released", "shut"} => scope \in {"released", "shut"}
        /\ sender' = sender /\ state' = state
    BY <1>2 DEF Respond, RespondError, ReaderStep, Dequeue, Deliver, DeliverFrame, DeliverEnd,
       ReadShut, Cancel, Dispose, Shut
  <2>2. slots = MaxPending => slots' = MaxPending
    BY <1>2, Fibers DEF Respond, RespondError, ReaderStep, Dequeue, Deliver, DeliverFrame, DeliverEnd,
       ReadShut, Cancel, Dispose, Shut
  <2> QED
    BY <2>1, <2>2 DEF RoomInv
<1> QED
  BY <1>1, <1>2

LEMMA PutEnds ==
  ASSUME TypeOK, NEW i \in ControlItems, Put(i), UNCHANGED <<wire, reader>>, scope = "open"
  PROVE  ~NoControl(Emitted')
<1>1. i \in Items /\ i \notin FrameItems
  BY DEF Items, ControlItems, FrameItems
<1>2. Emitted' = Append(Emitted, i) /\ Emitted \in Seq(Items)
  BY <1>1, PutStream, EmittedIs
<1>3. /\ Len(Emitted') = Len(Emitted) + 1 /\ Len(Emitted) \in Nat
      /\ Emitted'[Len(Emitted) + 1] = i
  BY <1>1, <1>2, AppendProperties
<1>4. Len(Emitted) + 1 \in 1..Len(Emitted')
  BY <1>3
<1> QED
  BY <1>1, <1>3, <1>4 DEF NoControl

LEMMA SendEnd ==
  ASSUME TypeOK, StreamInv, AckInv, EndInv, NEW s \in Senders,
         StartSend(s) \/ SendStep(s) \/ Interrupt(s)
  PROVE  EndInv'
<1> USE DEF reading
<1>1. /\ sender \in [Senders -> Places] /\ UNCHANGED <<listens, reader, wire, scope>>
      /\ \A x \in Senders : x # s => sender'[x] = sender[x]
  BY TypeIs, SendPlaces
<1> SUFFICES ASSUME ~listens
             PROVE  EndInv'
  BY <1>1 DEF EndInv
<1>2. \A x \in Senders : sender'[x] # "awaiting"
  <2>1. sender'[s] # "awaiting"
    BY <1>1 DEF EndInv, StartSend, SendStep, Lock, Encode, EncodeFails, FailStream, TakeSlot,
       OfferFrame, OfferEnd, OfferFailure, Delivery, Interrupt, Leave, Step
  <2> QED
    BY <1>1, <2>1 DEF EndInv
<1>3. ASSUME scope = "open"
      PROVE  ~Interrupt(s)
  <2>1. s # Opener \/ sender[s] = "idle"
    BY DEF AckInv
  <2> QED
    BY <1>3, <2>1 DEF Interrupt, MayInterrupt, Locked
<1>4. ASSUME scope = "open", sender'[Answer] \in Over
      PROVE  state' # "Open"
  <2>1. CASE s = Answer
    <3>1. CASE Lock(s)
      BY <1>1, <1>4, <2>1, <3>1 DEF Lock, Step, Over
    <3>2. CASE FailStream(s)
      BY <1>1, <1>4, <2>1, <3>2 DEF FailStream, Step, Over
    <3>3. CASE OfferEnd(s) \/ OfferFailure(s)
      BY <2>1, <3>3 DEF OfferEnd, OfferFailure, StreamInv
    <3>4. CASE OfferFrame(s)
      BY <2>1, <3>4 DEF OfferFrame, StreamInv
    <3>5. CASE StartSend(s) \/ Encode(s) \/ EncodeFails(s) \/ TakeSlot(s) \/ Delivery(s)
      BY <1>1, <1>4, <2>1, <3>5 DEF StartSend, Encode, EncodeFails, TakeSlot, Delivery, Step,
         Over, EndInv
    <3> QED
      BY <1>3, <1>4, <3>1, <3>2, <3>3, <3>4, <3>5 DEF SendStep
  <2>2. CASE s # Answer
    <3>1. state # "Open"
      BY <1>1, <1>4, <2>2, Fibers DEF EndInv
    <3> QED
      BY <1>3, <1>4, <3>1 DEF StartSend, SendStep, Lock, Encode, EncodeFails, FailStream,
         TakeSlot, OfferFrame, OfferEnd, OfferFailure, Delivery
  <2> QED
    BY <2>1, <2>2
<1>5. ASSUME state' # "Open", scope = "open", NoControl(Emitted')
      PROVE  \/ reader.at = "ended"
             \/ \E x \in Senders : sender'[x] = "breaking"
             \/ sender'[Answer] \in {"slot", "offer", "ending"}
  <2>1. ~OfferEnd(s) /\ ~OfferFailure(s)
    <3>1. \A i \in ControlItems : ~(Put(i) /\ UNCHANGED <<wire, reader>>)
      BY <1>5, PutEnds
    <3> QED
      BY <3>1 DEF OfferEnd, OfferFailure, ControlItems
  <2>2. CASE Encode(s) /\ s = Answer
    BY <1>1, <2>2 DEF Encode, Step
  <2>3. CASE FailStream(s) /\ state = "Open"
    BY <1>1, <2>3 DEF FailStream, Step
  <2>4. CASE ~(Encode(s) /\ s = Answer) /\ ~(FailStream(s) /\ state = "Open")
    <3>1. state' = state
      BY <2>4 DEF StartSend, SendStep, Lock, Encode, EncodeFails, FailStream, TakeSlot,
         OfferFrame, OfferEnd, OfferFailure, Delivery, Interrupt
    <3>2. NoControl(Emitted)
      <4>1. CASE Emitted' = Emitted
        BY <1>5, <4>1
      <4>2. CASE Emitted' # Emitted
        <5>1. PICK i \in Items : Emitted' = Append(Emitted, i)
          BY <4>2, SendPuts
        <5>2. /\ Emitted \in Seq(Items) /\ Len(Emitted') = Len(Emitted) + 1
              /\ Len(Emitted) \in Nat /\ \A k \in 1..Len(Emitted) : Emitted'[k] = Emitted[k]
          BY <5>1, EmittedIs, AppendProperties
        <5>3. \A k \in 1..Len(Emitted) : k \in 1..Len(Emitted')
          BY <5>2
        <5> QED
          BY <1>5, <5>2, <5>3 DEF NoControl
      <4> QED
        BY <4>1, <4>2
    <3>3. \/ reader.at = "ended"
          \/ \E x \in Senders : sender[x] = "breaking"
          \/ sender[Answer] \in {"slot", "offer", "ending"}
      BY <1>5, <3>1, <3>2 DEF EndInv
    <3>4. sender[s] = "breaking" => FALSE
      BY <1>1, <1>3, <1>5, <2>1 DEF StartSend, SendStep, Lock, Encode, EncodeFails,
         FailStream, TakeSlot, OfferFrame, Delivery
    <3>5. s = Answer /\ sender[s] \in {"slot", "offer", "ending"} =>
            sender'[s] \in {"slot", "offer", "ending"}
      BY <1>1, <1>3, <1>5, <2>1 DEF StartSend, SendStep, Lock, Encode, EncodeFails,
         FailStream, TakeSlot, OfferFrame, Delivery, Step
    <3> QED
      BY <1>1, <3>3, <3>4, <3>5, Fibers
  <2> QED
    BY <2>2, <2>3, <2>4
<1> QED
  BY <1>1, <1>2, <1>4, <1>5 DEF EndInv

LEMMA ReadEnd ==
  ASSUME TypeOK, EndInv,
         Respond \/ RespondError \/ ReaderStep \/ Cancel \/ Dispose \/ Release \/ Shut
  PROVE  EndInv'
<1> USE DEF reading, sending
<1>1. /\ UNCHANGED <<listens, sender>>
      /\ scope' = "open" => scope = "open" /\ state' = state
      /\ reader.at = "ended" => reader'.at = "ended"
  BY DEF Respond, RespondError, ReaderStep, Dequeue, Deliver, DeliverFrame, DeliverEnd,
     ReadShut, Cancel, Dispose, Release, Shut, ToReader
<1>2. scope' = "open" => ~Cancel /\ ~Shut
  BY DEF Cancel, Shut
<1>3. scope' = "open" => Emitted' = Emitted
  <2>1. CASE Cancel \/ Shut
    BY <1>2, <2>1
  <2>2. CASE ~(Cancel \/ Shut)
    BY <2>2, ReadKeeps
  <2> QED
    BY <2>1, <2>2
<1>4. ASSUME reader.at # "ended" => NoControl(wire), reader'.at # "ended"
      PROVE  NoControl(wire')
  <2>1. NoControl(wire) /\ wire \in Seq(Items)
    BY <1>1, <1>4 DEF TypeOK
  <2>2. CASE DeliverFrame
    <3>1. wire' = Append(wire, reader.item) /\ reader.item \in FrameItems
      BY <2>2 DEF DeliverFrame, IsFrame
    <3>2. /\ Len(wire') = Len(wire) + 1 /\ Len(wire) \in Nat
          /\ wire'[Len(wire) + 1] = reader.item
          /\ \A k \in 1..Len(wire) : wire'[k] = wire[k]
      BY <2>1, <3>1, Fibers, AppendProperties
    <3>3. \A k \in 1..Len(wire') : k = Len(wire) + 1 \/ k \in 1..Len(wire)
      BY <3>2
    <3> QED
      BY <2>1, <3>1, <3>2, <3>3 DEF NoControl
  <2>3. CASE ~DeliverFrame
    <3>1. wire' = wire
      BY <1>4, <2>3 DEF Respond, RespondError, ReaderStep, Dequeue, Deliver, DeliverEnd,
         ReadShut, Cancel, Dispose, Release, Shut, ToReader
    <3> QED
      BY <2>1, <3>1
  <2> QED
    BY <2>2, <2>3
<1> QED
  BY <1>1, <1>3, <1>4 DEF EndInv

\* What the next two theorems need besides Inv: room behind a closed scope, and an end
\* in sight of every ordinary response that is no longer open.
THEOREM EndIsInSight == Spec => [](RoomInv /\ EndInv)
<1>1. Init => RoomInv /\ EndInv
  <2> SUFFICES ASSUME Init
               PROVE  RoomInv /\ EndInv
    OBVIOUS
  <2>1. NoControl(wire)
    BY EmptySeq DEF Init, NoControl
  <2> QED
    BY <2>1, Fibers DEF Init, RoomInv, EndInv, Over
<1>2. Inv /\ RoomInv /\ EndInv /\ [Next]_vars => (RoomInv /\ EndInv)'
  <2> SUFFICES ASSUME Inv, RoomInv, EndInv, [Next]_vars
               PROVE  RoomInv' /\ EndInv'
    OBVIOUS
  <2>1. TypeOK /\ StreamInv /\ AckInv
    BY DEF Inv
  <2>2. ASSUME NEW s \in Senders, StartSend(s) \/ SendStep(s) \/ Interrupt(s)
        PROVE  RoomInv' /\ EndInv'
    BY <2>1, <2>2, SendRoom, SendEnd
  <2>3. CASE Respond \/ RespondError \/ ReaderStep \/ Cancel \/ Dispose \/ Release \/ Shut
    BY <2>1, <2>3, ReadRoom, ReadEnd
  <2>4. CASE UNCHANGED vars
    BY <2>4 DEF vars, RoomInv, EndInv, Emitted
  <2> QED
    BY <2>2, <2>3, <2>4 DEF Next
<1> QED
  BY <1>1, <1>2, Invariance, PTL DEF Spec

\* Who cannot go on holds no lock, so nobody does, and nobody waits for it.
LEMMA NobodyWaits ==
  ASSUME Inv, ~CanGoOn,
         (\E s \in Senders : sender[s] = "slot") => slots > 0,
         (\E s \in Senders : sender[s] \in {"offer", "ending", "breaking"}) =>
           scope = "shut" \/ Len(queue) < QueueCapacity
  PROVE  \A s \in Senders : Finished(s) \/ sender[s] = "awaiting"
<1>1. TypeOK
  BY DEF Inv
<1>2. \A s \in Senders : sender[s] \notin Locked
  BY DEF CanGoOn, Locked
<1>3. lock = Nobody
  BY <1>1, <1>2 DEF TypeOK
<1>4. \A s \in Senders : sender[s] # "waiting"
  BY <1>3 DEF CanGoOn
<1>5. \A s \in Senders : sender[s] \in Places
  BY <1>1, TypeIs
<1> QED
  BY <1>2, <1>4, <1>5 DEF Finished, Places

\* The safety half of CloseUnblocks: once the scope is closing, it is closed, the body
\* has ended and every sender is done, or somebody can go on without a reader.
THEOREM ClosingGoesOn ==
  Spec => [](scope # "open" =>
               \/ CanGoOn
               \/ /\ scope = "shut" /\ reader.at \in {"none", "ended"}
                  /\ \A s \in Senders : Finished(s))
<1>1. ASSUME Inv, RoomInv, scope # "open", ~CanGoOn
      PROVE  /\ scope = "shut" /\ reader.at \in {"none", "ended"}
             /\ \A s \in Senders : Finished(s)
  <2>1. TypeOK /\ StreamInv /\ AckInv
    BY <1>1 DEF Inv
  <2>2. scope = "shut"
    <3>1. ASSUME scope = "closing" PROVE FALSE
      <4>1. PICK s \in Senders : ~listens /\ ~Finished(s)
        BY <1>1, <3>1 DEF CanGoOn
      <4>2. s # Opener
        BY <2>1, <4>1 DEF AckInv, Finished
      <4>3. MayInterrupt(s)
        BY <1>1, <4>1, <4>2 DEF MayInterrupt
      <4>4. sender[s] \in {"waiting", "awaiting"} \cup Locked
        BY <2>1, <4>1, TypeIs DEF Finished, Places
      <4> QED
        BY <1>1, <4>1, <4>3, <4>4 DEF CanGoOn
    <3>2. scope # "released"
      BY <1>1 DEF CanGoOn
    <3> QED
      BY <1>1, <2>1, <3>1, <3>2 DEF TypeOK
  <2>3. reader.at \in {"none", "ended"}
    BY <1>1, <2>1, <2>2 DEF CanGoOn, TypeOK
  <2>4. \A s \in Senders : Finished(s) \/ sender[s] = "awaiting"
    BY <1>1, <2>2, Fibers, NobodyWaits DEF RoomInv
  <2>5. ASSUME NEW s \in Senders, sender[s] = "awaiting"
        PROVE  FALSE
    <3>1. s = Answer /\ Answer # Opener /\ ~delivered
      BY <1>1, <2>1, <2>5, Fibers DEF StreamInv, CanGoOn
    <3>2. MayInterrupt(s)
      BY <1>1, <2>5, <3>1, <2>1 DEF MayInterrupt, Stuck, TypeOK
    <3> QED
      BY <1>1, <2>5, <3>1, <3>2 DEF CanGoOn
  <2> QED
    BY <2>2, <2>3, <2>4, <2>5
<1>2. Inv /\ RoomInv => (scope # "open" =>
               \/ CanGoOn
               \/ /\ scope = "shut" /\ reader.at \in {"none", "ended"}
                  /\ \A s \in Senders : Finished(s))
  BY <1>1
<1> QED
  BY <1>2, Invariance, EndIsInSight, PTL

\* The safety half of AnswerEndsStream: once an ordinary request answers, the response
\* ends, or somebody can go on, or it is the reader's turn to take the response or the
\* next item of the stream.
THEOREM AnswerGoesOn ==
  Spec => [](~listens /\ sender[Answer] # "idle" =>
               \/ CanGoOn
               \/ reader.at = "none" \/ (reader.at = "pulling" /\ queue # <<>>)
               \/ reader.at = "ended")
<1>1. ASSUME Inv, RoomInv, EndInv, ~listens, sender[Answer] # "idle", ~CanGoOn,
             reader.at \notin {"none", "ended"}
      PROVE  reader.at = "pulling" /\ queue # <<>>
  <2>1. TypeOK /\ SumInv /\ AckInv
    BY <1>1 DEF Inv
  <2>2. reader.at = "pulling" /\ scope # "shut" /\ scope # "released"
    BY <1>1, <2>1 DEF CanGoOn, TypeOK
  <2> SUFFICES ASSUME queue = <<>>
               PROVE  FALSE
    BY <2>2
  <2>3. /\ FramesIn(queue) = 0 /\ Len(queue) = 0 /\ slots \in Nat
        /\ Taken(sender) \in {0, 1}
    <3>1. queue \in Seq(Items)
      BY <2>1 DEF TypeOK
    <3> QED
      BY <2>1, <3>1, FramesCounted, TypeIs DEF Taken
  <2>4. ASSUME NEW s \in Senders, sender[s] = "slot"
        PROVE  slots > 0
    <3>1. \A x \in Senders : sender[x] # "offer"
      BY <2>1, <2>4 DEF TypeOK, Locked
    <3>2. Taken(sender) = 0
      BY <3>1 DEF Taken
    <3>3. slots + FramesIn(queue) + Taken(sender) = MaxPending
      BY <2>1, <2>2 DEF SumInv, TypeOK
    <3> QED
      BY <2>3, <3>2, <3>3, Fibers
  <2>5. Len(queue) < QueueCapacity
    BY <2>3, Fibers DEF QueueCapacity
  <2>6. \A s \in Senders : Finished(s)
    BY <1>1, <2>4, <2>5, NobodyWaits DEF EndInv
  <2>7. scope = "open"
    BY <1>1, <2>1, <2>2, <2>6 DEF CanGoOn, TypeOK
  <2>8. state # "Open"
    BY <1>1, <2>6, <2>7, Fibers DEF EndInv, Finished
  <2>9. NoControl(Emitted)
    <3>1. NoControl(wire) /\ wire \in Seq(Items)
      BY <1>1, <2>1 DEF EndInv, TypeOK
    <3>2. Emitted = (wire \o <<>>) \o <<>>
      BY <2>2 DEF Emitted, Held
    <3> QED
      BY <3>1, <3>2, ConcatEmptySeq
  <2>10. (\E s \in Senders : sender[s] = "breaking")
           \/ sender[Answer] \in {"slot", "offer", "ending"}
    BY <1>1, <2>7, <2>8, <2>9 DEF EndInv
  <2> QED
    BY <2>6, <2>10, Fibers DEF Finished, Over
<1>2. Inv /\ RoomInv /\ EndInv => (~listens /\ sender[Answer] # "idle" =>
               \/ CanGoOn
               \/ reader.at = "none" \/ (reader.at = "pulling" /\ queue # <<>>)
               \/ reader.at = "ended")
  BY <1>1
<1> QED
  BY <1>2, Invariance, EndIsInSight, PTL

-----------------------------------------------------------------------------
(* It cannot go on for ever either: what is left to do is a natural number *)
(* for each sender.                                                        *)

\* A sender still has its place in the lock, its frame and an end to pass on, and each
\* item it puts in the queue makes two steps of the reader.
SendWeight(p) ==
  CASE p = "idle" -> 24
    [] p = "waiting" -> 21
    [] p = "encoding" -> 18
    [] p \in {"failing", "slot"} -> 15
    [] p \in {"offer", "breaking"} -> 12
    [] p = "ending" -> 9
    [] p = "awaiting" -> 6
    [] OTHER -> 3

ReadWeight(p) ==
  CASE p = "none" -> 3 [] p = "delivering" -> 2 [] p = "pulling" -> 1 [] OTHER -> 0

ScopeWeight(p) ==
  CASE p = "open" -> 3 [] p = "closing" -> 2 [] p = "released" -> 1 [] OTHER -> 0

BodyWeight == 2 * Len(queue) + ReadWeight(reader.at) + ScopeWeight(scope)

Weight(s) == SendWeight(sender[s]) + BodyWeight

LEMMA BodyType ==
  TypeOK => /\ Len(queue) \in Nat /\ BodyWeight \in Nat
            /\ ReadWeight(reader.at) \in Nat /\ ScopeWeight(scope) \in Nat
<1> SUFFICES ASSUME TypeOK
             PROVE  /\ Len(queue) \in Nat /\ BodyWeight \in Nat
                    /\ ReadWeight(reader.at) \in Nat /\ ScopeWeight(scope) \in Nat
  OBVIOUS
<1>1. Len(queue) \in Nat
  BY LenProperties DEF TypeOK
<1>2. ReadWeight(reader.at) \in Nat
  BY DEF ReadWeight
<1>3. ScopeWeight(scope) \in Nat
  BY DEF ScopeWeight
<1> QED
  BY <1>1, <1>2, <1>3 DEF BodyWeight

LEMMA BodyLess ==
  ASSUME NEW l \in Nat, NEW r \in Nat, NEW c \in Nat,
         NEW m \in Nat, NEW t \in Nat, NEW d \in Nat
  PROVE  /\ m <= l /\ t <= r /\ d <= c /\ (t < r \/ d < c) =>
              2 * m + t + d < 2 * l + r + c
         /\ m <= l + 1 => 2 * m + r + c <= 2 * l + r + c + 2
OBVIOUS

LEMMA SendLowers ==
  ASSUME TypeOK, StreamInv, NEW s \in Senders, StartSend(s) \/ SendStep(s) \/ Interrupt(s)
  PROVE  Weight(s)' < Weight(s) /\ \A q \in Senders \ {s} : sender'[q] = sender[q]
<1> USE DEF reading
<1>1. /\ sender \in [Senders -> Places] /\ UNCHANGED <<reader, scope>>
      /\ \A x \in Senders : x # s => sender'[x] = sender[x]
  BY TypeIs, SendPlaces
<1>2. /\ Len(queue) \in Nat /\ BodyWeight \in Nat
      /\ ReadWeight(reader.at) \in Nat /\ ScopeWeight(scope) \in Nat
  BY BodyType
<1>3. Weight(s) = SendWeight(sender[s]) + BodyWeight
  BY DEF Weight
<1>4. Weight(s)' = SendWeight(sender'[s]) + (2 * Len(queue') + ReadWeight(reader.at)
                                                + ScopeWeight(scope))
  BY <1>1 DEF Weight, BodyWeight
<1>5. \A p \in Places : SendWeight(p) \in Nat
  BY DEF SendWeight
<1>6. CASE OfferFrame(s) \/ OfferEnd(s) \/ OfferFailure(s)
  <2>1. SendWeight(sender'[s]) + 3 <= SendWeight(sender[s])
    <3>1. CASE OfferFrame(s)
      <4>1. sender[s] = "offer" /\ sender'[s] \in {"ending", "done"}
        BY <1>1, <3>1 DEF OfferFrame, Leave, Step
      <4> QED
        BY <4>1 DEF SendWeight
    <3>2. CASE OfferEnd(s)
      <4>1. sender[s] = "ending" /\ sender'[s] \in {"awaiting", "done"}
        BY <1>1, <3>2 DEF OfferEnd, Leave, Step
      <4> QED
        BY <4>1 DEF SendWeight
    <3>3. CASE OfferFailure(s)
      <4>1. sender[s] = "breaking" /\ sender'[s] = "failed"
        BY <1>1, <3>3 DEF OfferFailure, Leave, Step
      <4> QED
        BY <4>1 DEF SendWeight
    <3> QED
      BY <1>6, <3>1, <3>2, <3>3
  <2>2. Len(queue') \in Nat /\ Len(queue') <= Len(queue) + 1
    <3>1. queue \in Seq(Items) /\ \E i \in Items : Put(i)
      BY <1>6, Fibers DEF TypeOK, OfferFrame, OfferEnd, OfferFailure, ControlItems
    <3>2. PICK i \in Items : Put(i)
      BY <3>1
    <3>3. queue' = queue \/ Len(queue') = Len(queue) + 1
      BY <3>1, <3>2, AppendProperties DEF Put
    <3> QED
      BY <1>2, <3>3
  <2>3. sender[s] \in Places /\ sender'[s] \in Places
    BY <1>1, <1>6 DEF OfferFrame, OfferEnd, OfferFailure, Leave, Step, Places, Locked, Over
  <2>4. SendWeight(sender[s]) \in Nat /\ SendWeight(sender'[s]) \in Nat
    BY <1>5, <2>3
  <2>5. BodyWeight = 2 * Len(queue) + ReadWeight(reader.at) + ScopeWeight(scope)
    BY DEF BodyWeight
  <2>6. 2 * Len(queue') + ReadWeight(reader.at) + ScopeWeight(scope) <= BodyWeight + 2
    BY <1>2, <2>2, <2>5, BodyLess
  <2>7. 2 * Len(queue') + ReadWeight(reader.at) + ScopeWeight(scope) \in Nat
    BY <1>2, <2>2
  <2>8. Weight(s)' < Weight(s)
    <3>1. PICK n \in Nat :
            n = 2 * Len(queue') + ReadWeight(reader.at) + ScopeWeight(scope)
      BY <2>7
    <3>2. n <= BodyWeight + 2 /\ Weight(s)' = SendWeight(sender'[s]) + n
      BY <1>4, <2>6, <3>1
    <3>3. \A a, b, c \in Nat : b + 3 <= a /\ n <= c + 2 => b + n < a + c
      OBVIOUS
    <3>4. SendWeight(sender'[s]) + n < SendWeight(sender[s]) + BodyWeight
      BY <1>2, <2>1, <2>4, <3>2, <3>3
    <3> QED
      BY <1>3, <3>2, <3>4
  <2> QED
    BY <1>1, <2>8
<1>7. CASE ~(OfferFrame(s) \/ OfferEnd(s) \/ OfferFailure(s))
  <2>1. queue' = queue
    BY <1>7 DEF StartSend, SendStep, Lock, Encode, EncodeFails, FailStream, TakeSlot, Delivery,
       Interrupt
  <2>2. \/ sender[s] = "idle" /\ sender'[s] = "waiting"
        \/ sender[s] = "waiting" /\ sender'[s] \in {"encoding", "failed"}
        \/ sender[s] = "encoding" /\ sender'[s] \in {"failing", "slot"}
        \/ sender[s] = "failing" /\ sender'[s] \in {"breaking", "failed"}
        \/ sender[s] = "slot" /\ sender'[s] = "offer"
        \/ sender[s] = "awaiting" /\ sender'[s] = "done"
        \/ sender[s] \in {"waiting", "awaiting"} \cup Locked /\ sender'[s] = "interrupted"
    BY <1>1, <1>7 DEF StartSend, SendStep, Lock, Encode, EncodeFails, FailStream, TakeSlot,
       Delivery, Interrupt, Leave, Step
  <2>3. /\ SendWeight(sender'[s]) \in Nat /\ SendWeight(sender[s]) \in Nat
        /\ SendWeight(sender'[s]) < SendWeight(sender[s])
    BY <2>2 DEF SendWeight, Locked
  <2>4. Weight(s)' = SendWeight(sender'[s]) + BodyWeight
    BY <1>4, <2>1 DEF BodyWeight
  <2> QED
    BY <1>1, <1>2, <1>3, <2>3, <2>4
<1> QED
  BY <1>6, <1>7

LEMMA ReadLowers ==
  ASSUME TypeOK, Respond \/ RespondError \/ ReaderStep \/ Cancel \/ Dispose \/ Release \/ Shut
  PROVE  BodyWeight' < BodyWeight /\ sender' = sender
<1> USE DEF reading, sending
<1>1. sender' = sender
  BY DEF Respond, RespondError, ReaderStep, Dequeue, Deliver, DeliverFrame, DeliverEnd,
     ReadShut, Cancel, Dispose, Release, Shut
<1>2. /\ Len(queue) \in Nat /\ ReadWeight(reader.at) \in Nat /\ ScopeWeight(scope) \in Nat
      /\ scope \in {"open", "closing", "released", "shut"}
  BY BodyType DEF TypeOK
<1>3. BodyWeight' = 2 * Len(queue') + ReadWeight(reader'.at) + ScopeWeight(scope')
  BY DEF BodyWeight
<1>4. BodyWeight = 2 * Len(queue) + ReadWeight(reader.at) + ScopeWeight(scope)
  BY DEF BodyWeight
<1>5. CASE Respond \/ RespondError \/ Cancel \/ ReadShut \/ Deliver
  <2>1. queue' = queue
    BY <1>5 DEF Respond, RespondError, Cancel, ReadShut, Deliver, DeliverFrame, DeliverEnd
  <2>2. \/ reader.at = "none" /\ reader'.at \in {"pulling", "ended"}
        \/ reader.at = "pulling" /\ reader'.at = "ended"
        \/ reader.at = "delivering" /\ reader'.at \in {"pulling", "ended"}
    BY <1>5 DEF Respond, RespondError, Cancel, ReadShut, Deliver, DeliverFrame, DeliverEnd,
       ToReader
  <2>3. ReadWeight(reader'.at) \in Nat /\ ReadWeight(reader'.at) < ReadWeight(reader.at)
    BY <2>2 DEF ReadWeight
  <2>4. scope' = scope \/ (scope = "open" /\ scope' = "closing")
    BY <1>5 DEF Respond, RespondError, Cancel, ReadShut, Deliver, DeliverFrame, DeliverEnd
  <2>5. ScopeWeight(scope') \in Nat /\ ScopeWeight(scope') <= ScopeWeight(scope)
    BY <1>2, <2>4 DEF ScopeWeight
  <2> QED
    BY <1>1, <1>2, <1>3, <1>4, <2>1, <2>3, <2>5, BodyLess
<1>6. CASE Dequeue
  <2>1. Len(queue') \in Nat /\ Len(queue) = Len(queue') + 1 /\ scope' = scope
    BY <1>2, <1>6, HeadTailProperties DEF Dequeue, TypeOK
  <2>2. ReadWeight(reader'.at) = 2 /\ ReadWeight(reader.at) = 1
    BY <1>6 DEF Dequeue, ToReader, ReadWeight
  <2> QED
    BY <1>1, <1>2, <1>3, <1>4, <2>1, <2>2
<1>7. CASE Dispose \/ Release \/ Shut
  <2>1. reader' = reader /\ (queue' = queue \/ queue' = <<>>)
    BY <1>7 DEF Dispose, Release, Shut
  <2>2. Len(queue') \in Nat /\ Len(queue') <= Len(queue)
    BY <1>2, <2>1
  <2>3. \/ scope = "open" /\ scope' = "closing"
        \/ scope = "closing" /\ scope' = "released"
        \/ scope = "released" /\ scope' = "shut"
    BY <1>7 DEF Dispose, Release, Shut
  <2>4. ScopeWeight(scope') \in Nat /\ ScopeWeight(scope') < ScopeWeight(scope)
    BY <2>3 DEF ScopeWeight
  <2>5. ReadWeight(reader'.at) = ReadWeight(reader.at)
    BY <2>1
  <2> QED
    BY <1>1, <1>2, <1>3, <1>4, <2>2, <2>4, <2>5, BodyLess
<1> QED
  BY <1>5, <1>6, <1>7 DEF ReaderStep

\* A response has an end whatever happens to it: every step lowers the weight of the
\* body, or that of one sender and what is left of the body together, and no other
\* sender's place.  With ClosingGoesOn and AnswerGoesOn this is why CloseUnblocks and
\* AnswerEndsStream hold under fairness for any finite number of notifications.
THEOREM ResponseRunsOut ==
  Spec => [][/\ BodyWeight' \in Nat /\ BodyWeight \in Nat
             /\ \/ BodyWeight' < BodyWeight /\ sender' = sender
                \/ \E s \in Senders : /\ Weight(s)' < Weight(s)
                                      /\ \A q \in Senders \ {s} : sender'[q] = sender[q]]_vars
<1>1. TypeOK' => (BodyWeight \in Nat)'
  BY BodyType, PTL
<1>2. ASSUME Inv, TypeOK', Next
      PROVE  /\ BodyWeight' \in Nat /\ BodyWeight \in Nat
             /\ \/ BodyWeight' < BodyWeight /\ sender' = sender
                \/ \E s \in Senders : /\ Weight(s)' < Weight(s)
                                      /\ \A q \in Senders \ {s} : sender'[q] = sender[q]
  <2>1. TypeOK /\ StreamInv
    BY <1>2 DEF Inv
  <2>2. BodyWeight' \in Nat /\ BodyWeight \in Nat
    BY <1>1, <1>2, <2>1, BodyType
  <2>3. CASE \E s \in Senders : StartSend(s) \/ SendStep(s) \/ Interrupt(s)
    <3>1. PICK s \in Senders : StartSend(s) \/ SendStep(s) \/ Interrupt(s)
      BY <2>3
    <3>2. Weight(s)' < Weight(s) /\ \A q \in Senders \ {s} : sender'[q] = sender[q]
      BY <2>1, <3>1, SendLowers
    <3> QED
      BY <2>2, <3>2
  <2>4. CASE Respond \/ RespondError \/ ReaderStep \/ Cancel \/ Dispose \/ Release \/ Shut
    BY <2>1, <2>2, <2>4, ReadLowers
  <2> QED
    BY <1>2, <2>3, <2>4 DEF Next
<1>3. Inv => TypeOK
  BY DEF Inv
<1>4. Inv /\ TypeOK' /\ [Next]_vars =>
        [/\ BodyWeight' \in Nat /\ BodyWeight \in Nat
         /\ \/ BodyWeight' < BodyWeight /\ sender' = sender
            \/ \E s \in Senders : /\ Weight(s)' < Weight(s)
                                  /\ \A q \in Senders \ {s} : sender'[q] = sender[q]]_vars
  BY <1>2
<1> QED
  BY <1>3, <1>4, Invariance, PTL DEF Spec

-----------------------------------------------------------------------------
(* The response implements ResponseStream, which it promises the client.    *)

\* The end of the stream is offered behind the terminal, unless both are lost.
TerminalInv ==
  sender[Answer] = "ending" /\ ~CutOff => Stream!Holds(Emitted, "terminal")

LEMMA HoldsBehind ==
  ASSUME NEW e \in Seq(Items), NEW i \in Items, NEW j
  PROVE  Stream!Holds(Append(e, i), j) <=> (Stream!Holds(e, j) \/ i = j)
<1> DEFINE a == Append(e, i)
<1>1. /\ Len(a) = Len(e) + 1 /\ a[Len(e) + 1] = i /\ Len(e) \in Nat
      /\ \A k \in 1..Len(e) : a[k] = e[k]
  BY AppendProperties
<1> HIDE DEF a
<1>2. \A k \in 1..Len(a) : k = Len(e) + 1 \/ k \in 1..Len(e)
  BY <1>1
<1>3. Len(e) + 1 \in 1..Len(a) /\ \A k \in 1..Len(e) : k \in 1..Len(a)
  BY <1>1
<1>4. Stream!Holds(a, j) <=> (Stream!Holds(e, j) \/ i = j)
  BY <1>1, <1>2, <1>3 DEF Stream!Holds
<1> QED
  BY <1>4 DEF a

\* What is held by a stream of frames.
LEMMA FramesHold ==
  ASSUME NEW e
  PROVE  /\ Frames(e) => /\ ~Stream!Holds(e, "end") /\ ~Stream!Holds(e, "fail")
                         /\ ~Stream!Holds(e, "terminal")
         /\ NoControl(e) => ~Stream!Holds(e, "end") /\ ~Stream!Holds(e, "fail")
BY DEF Frames, NoControl, FrameItems, Stream!Holds

LEMMA TerminalStep ==
  ASSUME TypeOK, StreamInv, TerminalInv, [Next]_vars
  PROVE  TerminalInv'
<1> USE DEF CutOff
<1>1. ASSUME NEW s \in Senders, StartSend(s) \/ SendStep(s) \/ Interrupt(s),
             sender'[Answer] = "ending", ~CutOff'
      PROVE  Stream!Holds(Emitted', "terminal")
  <2>1. /\ \A x \in Senders : x # s => sender'[x] = sender[x]
        /\ UNCHANGED <<reader, wire, scope>> /\ Emitted \in Seq(Items)
    BY <1>1, SendPlaces, EmittedIs
  <2>2. CASE sender[Answer] = "ending"
    <3>1. Stream!Holds(Emitted, "terminal")
      BY <1>1, <2>1, <2>2 DEF TerminalInv
    <3>2. Emitted' = Emitted \/ \E i \in Items : Emitted' = Append(Emitted, i)
      BY <1>1, SendPuts
    <3>3. ASSUME NEW i \in Items, Emitted' = Append(Emitted, i)
          PROVE  Stream!Holds(Emitted', "terminal")
      BY <2>1, <3>1, <3>3, HoldsBehind
    <3> QED
      BY <3>1, <3>2, <3>3
  <2>3. CASE sender[Answer] # "ending"
    <3>1. s = Answer /\ OfferFrame(s)
      BY <1>1, <2>1, <2>3, Fibers, TypeIs
         DEF StartSend, SendStep, Lock, Encode, EncodeFails, FailStream, TakeSlot, OfferFrame,
             OfferEnd, OfferFailure, Delivery, Interrupt, Leave, Step
    <3>2. Put("terminal") /\ "terminal" \in Items
      BY <3>1 DEF OfferFrame, FrameOf, Items, FrameItems
    <3>3. Emitted' = Append(Emitted, "terminal")
      BY <1>1, <2>1, <3>2, PutStream
    <3> QED
      BY <2>1, <3>2, <3>3, HoldsBehind
  <2> QED
    BY <2>2, <2>3
<1>2. CASE Respond \/ RespondError \/ ReaderStep \/ Cancel \/ Dispose \/ Release \/ Shut
  <2>1. CASE Cancel \/ Shut
    BY <2>1 DEF Cancel, Shut, ToReader, TerminalInv
  <2>2. CASE ~(Cancel \/ Shut)
    <3>1. Emitted' = Emitted
      BY <1>2, <2>2, ReadKeeps
    <3>2. sender' = sender /\ (~CutOff' => ~CutOff)
      BY <1>2, <2>2 DEF Respond, RespondError, ReaderStep, Dequeue, Deliver, DeliverFrame,
         DeliverEnd, ReadShut, Dispose, Release, ToReader, reading, sending
    <3> QED
      BY <3>1, <3>2 DEF TerminalInv
  <2> QED
    BY <2>1, <2>2
<1>3. CASE UNCHANGED vars
  BY <1>3 DEF vars, TerminalInv, Emitted
<1> QED
  BY <1>1, <1>2, <1>3 DEF Next, TerminalInv

\* While the reader has not gone the stream is what was emitted.
LEMMA StreamIsEmitted ==
  ASSUME TypeOK
  PROVE  /\ reader.at # "ended" => Stream!Stream = Emitted
         /\ Held(reader) \in Seq(Items) /\ Held(reader) \o queue \in Seq(Items)
<1>1. /\ Emitted = Order(wire, reader, queue) /\ wire \in Seq(Items) /\ queue \in Seq(Items)
      /\ reader \in ReaderType
  BY EmittedIs
<1>2. Held(reader) \in Seq(Items) /\ Held(reader) \o queue \in Seq(Items)
  BY <1>1, HeldType, ConcatProperties
<1>3. Emitted = wire \o (Held(reader) \o queue)
  BY <1>1, OrderIs
<1> QED
  BY <1>2, <1>3 DEF Stream!Stream, Flight

\* Whoever puts an item in the queue sends it, unless the stream is cut.
LEMMA PutSends ==
  ASSUME TypeOK, NEW i \in Items, Put(i), UNCHANGED <<listens, wire, reader, scope>>,
         Confirmed' = Confirmed, ~CutOff => Stream!MaySend(i)
  PROVE  Stream!Send(i) \/ UNCHANGED Stream!vars
<1>1. CutOff' = CutOff
  BY DEF CutOff
<1>2. CASE CutOff
  <2>1. Flight' = Flight
    BY <1>2 DEF CutOff, Flight, Put
  <2> QED
    BY <1>1, <2>1 DEF Stream!vars
<1>3. CASE ~CutOff
  <2>1. queue' = Append(queue, i) /\ reader.at # "ended"
    BY <1>3 DEF CutOff, Put
  <2>2. /\ Order(<<>>, reader, Append(queue, i)) = Append(Order(<<>>, reader, queue), i)
        /\ Order(<<>>, reader, queue) = Held(reader) \o queue
        /\ Order(<<>>, reader, Append(queue, i)) = Held(reader) \o Append(queue, i)
    <3>1. /\ queue \in Seq(Items) /\ reader \in ReaderType /\ <<>> \in Seq(Items)
          /\ Held(reader) \in Seq(Items)
      BY EmittedIs, EmptySeq, HeldType
    <3>2. <<>> \o Held(reader) = Held(reader)
      BY <3>1, ConcatEmptySeq
    <3> QED
      BY <3>1, <3>2, OrderPut DEF Order
  <2>3. Flight' = Append(Flight, i)
    BY <2>1, <2>2 DEF Flight, Held
  <2> QED
    BY <1>1, <1>3, <2>3 DEF Stream!Send
<1> QED
  BY <1>2, <1>3

\* A sender's step is a send, the confirmation, or nothing the client can see.
LEMMA SendRefines ==
  ASSUME Inv, TerminalInv, NEW s \in Senders, StartSend(s) \/ SendStep(s) \/ Interrupt(s)
  PROVE  [Stream!Next]_(Stream!vars)
<1>1. TypeOK /\ StreamInv /\ AckInv /\ DeliveryInv
  BY DEF Inv
<1>2. /\ \A x \in Senders : x # s => sender'[x] = sender[x]
      /\ UNCHANGED <<listens, wire, reader, scope>> /\ sender \in [Senders -> Places]
  BY <1>1, SendPlaces, TypeIs
<1>3. CutOff' = CutOff
  BY <1>2 DEF CutOff
<1>4. ~CutOff => Stream!Stream = Emitted
  BY <1>1, StreamIsEmitted DEF CutOff
<1>5. CASE OfferFrame(s)
  <2>1. sender[s] = "offer" /\ Put(FrameOf(s)) /\ FrameOf(s) \in Items
    BY <1>5, Fibers DEF OfferFrame
  <2>2. Frames(Emitted)
    BY <1>1, <2>1 DEF StreamInv, Offering
  <2>3. Confirmed' = Confirmed
    <3>1. s = Answer => sender'[s] = "ending"
      BY <1>2, <1>5 DEF OfferFrame, Step
    <3> QED
      BY <1>2, <2>1, <3>1, Fibers DEF Confirmed
  <2>4. ~CutOff => Stream!MaySend(FrameOf(s))
    <3>1. s = Opener => listens /\ Emitted = <<>>
      <4> SUFFICES ASSUME s = Opener
                   PROVE  listens /\ Emitted = <<>>
        OBVIOUS
      <4>1. listens /\ reader.at = "none" /\ wire = <<>> /\ queue = <<>>
        BY <1>1, <2>1 DEF AckInv, Locked
      <4>2. <<>> \in Seq(Items)
        BY EmptySeq
      <4> QED
        BY <4>1, <4>2, ConcatEmptySeq DEF Emitted, Held
    <3>2. FrameOf(s) # "end" /\ (FrameOf(s) = "ack" => s = Opener)
      BY DEF FrameOf
    <3> QED
      BY <1>4, <2>2, <3>1, <3>2, FramesHold DEF Stream!MaySend
  <2>5. Stream!Send(FrameOf(s)) \/ UNCHANGED Stream!vars
    BY <1>1, <1>2, <2>1, <2>3, <2>4, PutSends
  <2> QED
    BY <2>5 DEF Stream!Next, FrameOf
<1>6. CASE OfferEnd(s)
  <2>1. sender[s] = "ending" /\ Put("end") /\ "end" \in Items
    BY <1>6, Fibers DEF OfferEnd, ControlItems
  <2>2. s = Answer /\ NoControl(Emitted)
    BY <1>1, <2>1 DEF StreamInv
  <2>3. Confirmed' = Confirmed
    <3>1. listens => sender'[s] = "awaiting"
      BY <1>2, <1>6 DEF OfferEnd, Leave, Step
    <3> QED
      BY <1>2, <2>1, <2>2, <3>1 DEF Confirmed
  <2>4. ~CutOff => Stream!MaySend("end")
    BY <1>4, <2>1, <2>2, FramesHold DEF Stream!MaySend, TerminalInv
  <2>5. Stream!Send("end") \/ UNCHANGED Stream!vars
    BY <1>1, <1>2, <2>1, <2>3, <2>4, PutSends
  <2> QED
    BY <2>5 DEF Stream!Next
<1>7. CASE OfferFailure(s)
  <2>1. sender[s] = "breaking" /\ Put("fail") /\ "fail" \in Items
    BY <1>7, Fibers DEF OfferFailure, ControlItems
  <2>2. Frames(Emitted)
    BY <1>1, <2>1 DEF StreamInv, Offering
  <2>3. Confirmed' = Confirmed
    <3>1. sender'[s] = "failed"
      BY <1>2, <1>7 DEF OfferFailure, Leave, Step
    <3> QED
      BY <1>2, <2>1, <3>1, Fibers DEF Confirmed
  <2>4. ~CutOff => Stream!MaySend("fail")
    BY <1>4, <2>2, FramesHold DEF Stream!MaySend
  <2>5. Stream!Send("fail") \/ UNCHANGED Stream!vars
    BY <1>1, <1>2, <2>1, <2>3, <2>4, PutSends
  <2> QED
    BY <2>5 DEF Stream!Next
<1>8. CASE ~(OfferFrame(s) \/ OfferEnd(s) \/ OfferFailure(s))
  <2>1. queue' = queue
    BY <1>8 DEF StartSend, SendStep, Lock, Encode, EncodeFails, FailStream, TakeSlot, Delivery,
       Interrupt
  <2>2. Flight' = Flight
    BY <1>2, <2>1 DEF Flight, Held
  <2>3. CASE Delivery(s)
    <3>1. s = Answer /\ delivered /\ sender'[s] = "done" /\ sender[s] = "awaiting"
      BY <1>1, <1>2, <2>3 DEF Delivery, Step, StreamInv
    <3>2. Stream!Holds(wire, "terminal")
      BY <1>1, <3>1 DEF DeliveryInv, Stream!Holds
    <3>3. CASE listens
      <4>1. Stream!Confirm
        BY <1>2, <1>3, <2>2, <3>1, <3>2, <3>3 DEF Stream!Confirm, Confirmed
      <4> QED
        BY <4>1 DEF Stream!Next
    <3>4. CASE ~listens
      BY <1>2, <1>3, <2>2, <3>4 DEF Stream!vars, Confirmed
    <3> QED
      BY <3>3, <3>4
  <2>4. CASE ~Delivery(s)
    <3>1. sender[s] # "done" /\ sender'[s] # "done"
      BY <1>2, <1>8, <2>4 DEF StartSend, SendStep, Lock, Encode, EncodeFails, FailStream,
         TakeSlot, Interrupt, Leave, Step, Locked
    <3>2. Confirmed' = Confirmed
      BY <1>2, <3>1, Fibers DEF Confirmed
    <3> QED
      BY <1>2, <1>3, <2>2, <3>2 DEF Stream!vars
  <2> QED
    BY <2>3, <2>4
<1> QED
  BY <1>5, <1>6, <1>7, <1>8

\* A sequence that begins with an item, and one that is cut behind its beginning.
LEMMA FirstOf ==
  ASSUME NEW i \in Items, NEW q \in Seq(Items)
  PROVE  /\ <<i>> \o q # <<>> /\ Head(<<i>> \o q) = i /\ Tail(<<i>> \o q) = q
         /\ Len(<<i>> \o q) = Len(q) + 1
<1> DEFINE h == <<i>>
           f == h \o q
<1>1. h \in Seq(Items) /\ Len(h) = 1 /\ h[1] = i /\ Len(q) \in Nat
  OBVIOUS
<1> HIDE DEF h
<1>2. /\ f \in Seq(Items) /\ Len(f) = Len(h) + Len(q)
      /\ \A k \in 1..(Len(h) + Len(q)) : f[k] = IF k <= Len(h) THEN h[k] ELSE q[k - Len(h)]
  BY <1>1, ConcatItems
<1> HIDE DEF f
<1>3. /\ Len(f) = Len(q) + 1
      /\ \A k \in 1..(Len(q) + 1) : f[k] = IF k <= 1 THEN i ELSE q[k - 1]
  BY <1>1, <1>2
<1>4. f # <<>> /\ f[1] = i /\ Head(f) = f[1]
  BY <1>1, <1>2, <1>3, EmptySeq
<1>5. /\ Tail(f) \in Seq(Items) /\ Len(Tail(f)) = Len(q)
      /\ \A k \in 1..Len(q) : Tail(f)[k] = f[k + 1]
  BY <1>1, <1>2, <1>3, <1>4, HeadTailProperties
<1>6. \A k \in 1..Len(q) : Tail(f)[k] = q[k]
  <2> TAKE k \in 1..Len(q)
  <2>1. k + 1 \in 1..(Len(q) + 1) /\ ~(k + 1 <= 1) /\ (k + 1) - 1 = k
    BY <1>1
  <2> QED
    BY <1>3, <1>5, <2>1
<1>7. Tail(f) = q
  BY <1>5, <1>6, SeqEqual
<1> QED
  BY <1>3, <1>4, <1>7 DEF f, h

LEMMA BeginningOf ==
  ASSUME NEW a \in Seq(Items), NEW b \in Seq(Items)
  PROVE  \E n \in 0..Len(a \o b) : a = SubSeq(a \o b, 1, n)
<1> DEFINE c == a \o b
           p == SubSeq(c, 1, Len(a))
<1>1. /\ c \in Seq(Items) /\ Len(c) = Len(a) + Len(b) /\ Len(a) \in Nat /\ Len(b) \in Nat
      /\ \A k \in 1..(Len(a) + Len(b)) : c[k] = IF k <= Len(a) THEN a[k] ELSE b[k - Len(a)]
  BY ConcatItems, LenProperties
<1> HIDE DEF c
<1>2. Len(a) \in 0..Len(c) /\ Len(a) \in Int /\ 1 \in Int
  BY <1>1
<1>3. \A k \in 1..Len(a) : c[k] = a[k] /\ a[k] \in Items
  BY <1>1
<1>4. \A k \in 1..Len(a) : c[k] \in Items
  BY <1>3
<1>5. /\ p \in Seq(Items) /\ Len(p) = IF 1 <= Len(a) THEN Len(a) - 1 + 1 ELSE 0
      /\ \A k \in 1..(Len(a) - 1 + 1) : p[k] = c[1 + k - 1]
  BY <1>2, <1>4, SubSeqProperties
<1> HIDE DEF p
<1>6. Len(p) = Len(a) /\ \A k \in 1..Len(a) : p[k] = a[k]
  <2>1. Len(p) = Len(a) /\ Len(a) - 1 + 1 = Len(a)
    BY <1>1, <1>5
  <2>2. ASSUME NEW k \in 1..Len(a)
        PROVE  p[k] = a[k]
    <3>1. 1 + k - 1 = k /\ k \in 1..(Len(a) - 1 + 1)
      BY <1>1
    <3> QED
      BY <1>3, <1>5, <3>1
  <2> QED
    BY <2>1, <2>2
<1>7. p = a
  BY <1>5, <1>6, SeqEqual
<1>8. \E n \in 0..Len(c) : a = SubSeq(c, 1, n)
  BY <1>2, <1>7 DEF p
<1> QED
  BY <1>8, Zenon DEF c

\* The item in the reader's hands is the next of the stream, and one that ends it the last.
LEMMA GivenNext ==
  ASSUME TypeOK, StreamInv, AckInv, reader.at = "delivering"
  PROVE  /\ reader.item \in Items /\ Flight # <<>> /\ Head(Flight) = reader.item
         /\ Tail(Flight) = queue /\ queue \in Seq(Items)
         /\ ~IsFrame(reader.item) => queue = <<>>
         /\ listens /\ wire = <<>> => reader.item = "ack"
<1>1. /\ reader.item \in Items /\ queue \in Seq(Items) /\ wire \in Seq(Items)
      /\ Held(reader) = <<reader.item>> /\ Flight = <<reader.item>> \o queue
  BY EmittedIs DEF ReaderType, Held, Flight
<1>2. /\ Flight # <<>> /\ Head(Flight) = reader.item /\ Tail(Flight) = queue
      /\ Len(Flight) = Len(queue) + 1
  BY <1>1, FirstOf
<1>3. Flight \in Seq(Items) /\ Flight[1] = reader.item
  BY <1>1, <1>2, StreamIsEmitted
<1>4. Emitted = wire \o Flight
  BY StreamIsEmitted DEF Stream!Stream
<1>5. /\ Len(Emitted) = Len(wire) + Len(Flight) /\ Len(wire) \in Nat /\ Len(queue) \in Nat
      /\ \A k \in 1..(Len(wire) + Len(Flight)) :
           Emitted[k] = IF k <= Len(wire) THEN wire[k] ELSE Flight[k - Len(wire)]
  BY <1>1, <1>3, <1>4, ConcatItems, LenProperties
<1>6. /\ Len(wire) + 1 \in 1..(Len(wire) + Len(Flight)) /\ ~(Len(wire) + 1 <= Len(wire))
      /\ (Len(wire) + 1) - Len(wire) = 1 /\ Len(Emitted) = Len(wire) + 1 + Len(queue)
  BY <1>2, <1>5
<1>7. Emitted[Len(wire) + 1] = reader.item
  BY <1>3, <1>5, <1>6
<1>8. ~IsFrame(reader.item) => queue = <<>>
  <2> SUFFICES ASSUME ~IsFrame(reader.item)
               PROVE  queue = <<>>
    OBVIOUS
  <2>1. reader.item \in ControlItems
    BY <1>1 DEF IsFrame, Items
  <2>2. Len(wire) + 1 = Len(Emitted)
    BY <1>5, <1>6, <1>7, <2>1 DEF StreamInv, Ends
  <2>3. Len(queue) = 0
    BY <1>5, <1>6, <2>2
  <2> QED
    BY <1>1, <2>3, EmptySeq
<1>9. listens /\ wire = <<>> => reader.item = "ack"
  <2> SUFFICES ASSUME listens, wire = <<>>
               PROVE  reader.item = "ack"
    OBVIOUS
  <2>1. Len(wire) = 0
    BY EmptySeq
  <2>2. Emitted[1] = reader.item /\ Len(Emitted) > 0
    BY <1>5, <1>6, <1>7, <2>1
  <2>3. AckIsFirst(Emitted)
    BY <2>2, EmptySeq DEF AckInv
  <2> QED
    BY <2>2, <2>3 DEF AckIsFirst
<1> QED
  BY <1>1, <1>2, <1>8, <1>9

LEMMA ReadRefines ==
  ASSUME Inv, Respond \/ RespondError \/ ReaderStep \/ Cancel \/ Dispose \/ Release \/ Shut
  PROVE  [Stream!Next]_(Stream!vars)
<1> USE DEF reading, sending
<1>1. /\ TypeOK /\ StreamInv /\ AckInv /\ queue \in Seq(Items) /\ <<>> \in Seq(Items)
      /\ <<>> \o queue = queue
  <2>1. TypeOK /\ StreamInv /\ AckInv
    BY DEF Inv
  <2>2. queue \in Seq(Items)
    BY <2>1, EmittedIs
  <2> QED
    BY <2>1, <2>2, EmptySeq, ConcatEmptySeq
<1>2. UNCHANGED <<listens, sender>> /\ Confirmed' = Confirmed
  BY DEF Confirmed, Respond, RespondError, ReaderStep, Dequeue, Deliver, DeliverFrame,
     DeliverEnd, ReadShut, Cancel, Dispose, Release, Shut
<1>3. CASE Respond \/ Dispose \/ Release
  <2>1. /\ UNCHANGED <<wire, queue>> /\ Flight' = Flight
    BY <1>3 DEF Respond, Dispose, Release, ToReader, Flight, Held
  <2>2. CutOff' = CutOff
    BY <1>3 DEF Respond, Dispose, Release, ToReader, CutOff
  <2> QED
    BY <1>2, <2>1, <2>2 DEF Stream!vars
<1>4. CASE RespondError \/ Cancel
  <2>1. wire' = wire /\ Flight' = <<>> /\ CutOff' = TRUE
    BY <1>4 DEF RespondError, Cancel, ToReader, Flight, CutOff
  <2>2. \E n \in 0..Len(Flight) : Flight' = SubSeq(Flight, 1, n)
    <3>1. Flight \in Seq(Items)
      BY <1>1, StreamIsEmitted DEF Flight
    <3>2. 0 \in 0..Len(Flight) /\ SubSeq(Flight, 1, 0) = <<>>
      BY <3>1, LenProperties, SubSeqEmpty
    <3> QED
      BY <2>1, <3>2
  <2>3. Stream!Cut
    BY <1>2, <2>1, <2>2 DEF Stream!Cut
  <2> QED
    BY <2>3 DEF Stream!Next
<1>5. CASE ReadShut
  <2>1. /\ wire' = wire /\ Flight' = <<>> /\ CutOff' = TRUE /\ CutOff = TRUE
        /\ queue = <<>> /\ reader.at = "pulling"
    BY <1>1, <1>5 DEF ReadShut, ToReader, Flight, CutOff, StreamInv
  <2>2. Flight = <<>>
    BY <1>1, <2>1 DEF Flight, Held
  <2> QED
    BY <1>2, <2>1, <2>2 DEF Stream!vars
<1>6. CASE Dequeue
  <2>1. /\ wire' = wire /\ queue # <<>> /\ queue' = Tail(queue) /\ scope' = scope
        /\ reader.at = "pulling" /\ reader' = [at |-> "delivering", item |-> Head(queue)]
    BY <1>6 DEF Dequeue, ToReader
  <2>2. Flight = queue
    BY <1>1, <2>1 DEF Flight, Held
  <2>3. Flight' = <<Head(queue)>> \o Tail(queue)
    BY <2>1 DEF Flight, Held
  <2>4. Flight' = Flight /\ CutOff' = CutOff
    BY <1>1, <2>1, <2>2, <2>3, HeadThenTail DEF CutOff
  <2> QED
    BY <1>2, <2>1, <2>4 DEF Stream!vars
<1>7. CASE Deliver
  <2>1. /\ reader.at = "delivering" /\ wire' = Append(wire, reader.item) /\ queue' = queue
        /\ IsFrame(reader.item) => reader'.at = "pulling" /\ scope' = scope
        /\ ~IsFrame(reader.item) => reader'.at = "ended"
    BY <1>7 DEF Deliver, DeliverFrame, DeliverEnd, ToReader
  <2>2. /\ reader.item \in Items /\ Flight # <<>> /\ Head(Flight) = reader.item
        /\ Tail(Flight) = queue /\ (~IsFrame(reader.item) => queue = <<>>)
        /\ listens /\ wire = <<>> => reader.item = "ack"
    BY <1>1, <2>1, GivenNext
  <2>3. Flight' = queue
    <3>1. CASE IsFrame(reader.item)
      <4>1. reader'.at = "pulling"
        BY <2>1, <3>1
      <4>2. Flight' = <<>> \o queue
        BY <2>1, <4>1 DEF Flight, Held
      <4> QED
        BY <1>1, <4>2
    <3>2. CASE ~IsFrame(reader.item)
      <4>1. reader'.at = "ended" /\ queue = <<>>
        BY <2>1, <2>2, <3>2
      <4> QED
        BY <4>1 DEF Flight
    <3> QED
      BY <3>1, <3>2
  <2>4. CutOff' = (CutOff \/ reader.item \in {"end", "fail"})
    BY <2>1, <2>2 DEF CutOff, IsFrame, Items, FrameItems, ControlItems
  <2>5. Stream!Give
    BY <1>2, <2>1, <2>2, <2>3, <2>4 DEF Stream!Give
  <2> QED
    BY <2>5 DEF Stream!Next
<1>8. CASE Shut
  <2>1. UNCHANGED <<wire, reader>> /\ queue' = <<>> /\ CutOff' = TRUE
    BY <1>8 DEF Shut, CutOff
  <2>2. \E n \in 0..Len(Flight) : Flight' = SubSeq(Flight, 1, n)
    <3>1. Held(reader) \in Seq(Items)
      BY <1>1, StreamIsEmitted
    <3>2. CASE reader.at # "ended"
      <4>1. Flight = Held(reader) \o queue /\ Flight' = Held(reader) \o <<>>
        BY <2>1, <3>2 DEF Flight, Held
      <4>2. Flight' = Held(reader)
        BY <3>1, <4>1, ConcatEmptySeq
      <4> QED
        BY <1>1, <3>1, <4>1, <4>2, BeginningOf
    <3>3. CASE reader.at = "ended"
      <4>1. Flight = <<>> /\ Flight' = <<>>
        BY <2>1, <3>3 DEF Flight
      <4>2. 0 \in 0..Len(Flight) /\ SubSeq(Flight, 1, 0) = <<>>
        BY <4>1, EmptySeq, SubSeqEmpty
      <4> QED
        BY <4>1, <4>2
    <3> QED
      BY <3>2, <3>3
  <2>3. Stream!Cut
    BY <1>2, <2>1, <2>2 DEF Stream!Cut
  <2> QED
    BY <2>3 DEF Stream!Next
<1> QED
  BY <1>3, <1>4, <1>5, <1>6, <1>7, <1>8 DEF ReaderStep

LEMMA StreamInit == Init => Stream!Init /\ TerminalInv
<1> SUFFICES ASSUME Init
             PROVE  Stream!Init /\ TerminalInv
  OBVIOUS
<1>1. <<>> \o <<>> = <<>>
  BY EmptySeq, ConcatEmptySeq
<1>2. Flight = <<>>
  BY <1>1 DEF Init, Flight, Held
<1> QED
  BY <1>2, Fibers DEF Init, Stream!Init, CutOff, Confirmed, TerminalInv

\* dispatchSseRequest implements the stream it promises the client, for any number of
\* senders and slots: initial states map to initial states, and every step is a send, a
\* delivery, a cut, the confirmation, or nothing the client can see.
THEOREM Refinement == Spec => ImplementsStream
<1>1. Init => Stream!Init /\ TerminalInv
  BY StreamInit
<1>2. Inv /\ TerminalInv /\ [Next]_vars => TerminalInv'
  BY TerminalStep DEF Inv
<1>3. Inv /\ TerminalInv /\ [Next]_vars => [Stream!Next]_(Stream!vars)
  <2> SUFFICES ASSUME Inv, TerminalInv, [Next]_vars
               PROVE  [Stream!Next]_(Stream!vars)
    OBVIOUS
  <2>1. CASE UNCHANGED vars
    BY <2>1 DEF vars, Stream!vars, Flight, Held, CutOff, Confirmed
  <2> QED
    BY <2>1, SendRefines, ReadRefines DEF Next
<1> QED
  BY <1>1, <1>2, <1>3, Invariance, PTL DEF Spec, ImplementsStream, Stream!Spec
=============================================================================
