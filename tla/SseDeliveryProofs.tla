-------------------------- MODULE SseDeliveryProofs --------------------------
(***************************************************************************)
(* Proofs about SseDelivery, for any limits of the queues and of the       *)
(* channel and any number of sends, reconnects and losses of the session.  *)
(***************************************************************************)
EXTENDS SseDelivery, FiniteSetTheorems, SequenceTheorems, TLAPS

(* The invariant. *)

Elems(q) == {q[i] : i \in 1..Len(q)}

Below(q, id) == \A e \in Elems(q) : e.id < id

\* Numbered upwards, but for events of these uids.
Ordered(q, X) == \A i, j \in 1..Len(q) : i < j => q[i].id < q[j].id \/ q[j].uid \in X

\* The client has an id of the session as it now is.
Known == fresh /\ last # None

\* A reconnect now would be one without a usable id.
Blind == sess.reopened \/ last = None \/ last >= sess.next

\* An event of the session as it now is: its id tells which send it was.
Own(e) == e.id < sess.next /\ e.uid = e.id + (sent + 1 - sess.next)

\* A send of the session as it now is, and one that nothing has overtaken.
Current(f) == sess.on /\ f.era = losses
Newest(f) == Current(f) /\ f.at = conn.id /\ f.event.id + 1 = sess.next

SessionStates ==
    [on : BOOLEAN, next : Nat, pending : Seq(Events), replay : Seq(Events),
     stream : Nat, reopened : BOOLEAN]
Streams ==
    [id : Nat, buf : Seq(Events), open : BOOLEAN, here : BOOLEAN, primed : BOOLEAN,
     stale : BOOLEAN]
Sends == [event : Events, failed : Nat, at : Nat, era : Nat]

Shapes ==
    /\ sess \in SessionStates /\ conn \in Streams
    /\ fresh \in BOOLEAN /\ mixed \in BOOLEAN
    /\ last \in Int /\ sent \in Nat /\ losses \in Nat
    /\ flight \subseteq Sends

Bounds ==
    /\ sess.next >= 1 /\ sess.next <= sent + 1 /\ sent <= MaxSends
    /\ Len(sess.pending) <= PendingLimit /\ Len(sess.replay) <= ReplayLimit
    /\ sess.stream <= conn.id /\ conn.id <= MaxConnects
    /\ Len(conn.buf) <= ChanCap
    /\ -1 <= last /\ last <= MaxSends
    /\ losses <= MaxLosses
    /\ \A f \in flight : f.failed <= conn.id /\ f.at <= conn.id /\ f.era <= losses
    /\ \A f \in flight : f.event.uid <= sent
    /\ \A e \in Elems(sess.replay) \cup Elems(sess.pending) \cup Elems(conn.buf) : e.uid <= sent
    /\ asked \subseteq 1..sent /\ got \subseteq 1..sent
    /\ raced \subseteq 1..sent /\ excused \subseteq 1..sent

NumInv ==
    /\ \A e \in Elems(sess.replay) \cup Elems(sess.pending) : Own(e)
    /\ ~conn.stale => \A e \in Elems(conn.buf) : Own(e)
    /\ \A f \in flight : Current(f) => Own(f.event)
    /\ Known => last < sess.next

LostInv ==
    /\ ~sess.on => /\ conn.stale /\ 1..sent \subseteq excused /\ Elems(sess.pending) = {}
                   /\ \A f \in flight : f.era < losses
    /\ sess.on /\ conn.stale => sess.reopened
    /\ sess.reopened => conn.stale
    /\ conn.stale => ~fresh /\ sess.stream = 0 /\ Uids(conn.buf) \subseteq excused
    /\ conn.open \/ conn.here => conn.id > 0
    /\ conn.primed /\ ~conn.stale => Known

FlightInv ==
    /\ \A f, g \in flight : f.event.uid = g.event.uid => f = g
    /\ \A f \in flight : Current(f) /\ f.at = conn.id => sess.stream \in {0, f.failed}
    /\ \A f \in flight : Newest(f) =>
          /\ f.event \in Elems(sess.replay)
          /\ Known => last < f.event.id
          /\ ~conn.stale => Below(conn.buf, f.event.id)
          /\ Below(sess.pending, f.event.id)

\* A pending event whose send was not overtaken.
Waits(e) ==
    /\ sess.stream = 0
    /\ Known => last < e.id
    /\ ~conn.stale => Below(conn.buf, e.id)
    /\ \/ e \in Elems(sess.replay)
       \/ /\ e.uid \in excused
          /\ \E d \in Elems(sess.replay) : d.id > e.id /\ d.uid \notin asked

QueueInv ==
    /\ Ordered(sess.replay, {})
    /\ Blind => Ordered(sess.pending, raced)
    /\ \A e \in Elems(sess.pending) : e.uid \in raced \/ Waits(e)

BufInv ==
    ~conn.stale =>
       /\ Ordered(conn.buf, raced)
       /\ \A e \in Elems(conn.buf) :
             /\ e.uid \in raced \cup excused \/ e \in Elems(sess.replay)
             /\ Known => e.uid \in raced \/ e.id > last

Safe(u) ==
    \/ u \in got \cup raced \cup excused
    \/ \E f \in flight : f.event.uid = u
    \/ u \in Uids(sess.pending)
    \/ conn.here /\ u \in Uids(conn.buf)

Replayable(u) ==
    /\ Known
    /\ \E e \in Elems(sess.replay) :
          e.uid = u /\ e.id > last /\ (conn.here => Below(conn.buf, e.id))

MainInv ==
    /\ \A u \in 1..sent : Safe(u) \/ Replayable(u)
    /\ sess.stream = conn.id /\ conn.here => \A u \in 1..sent : Safe(u)

Core == NumInv /\ LostInv /\ FlightInv /\ QueueInv /\ BufInv /\ MainInv

DeliveryInv == Shapes /\ Bounds /\ (~mixed => Core)

-----------------------------------------------------------------------------
(* Sequences: what the operators on queues keep. *)

LEMMA ElemsType == ASSUME NEW E, NEW q \in Seq(E) PROVE Elems(q) \subseteq E
  BY DEF Elems

LEMMA ElemsEmpty == Elems(<<>>) = {} /\ Uids(<<>>) = {} /\ \A X : Ordered(<<>>, X)
  BY DEF Elems, Uids, Ordered

LEMMA UidsElems == ASSUME NEW q PROVE Uids(q) = {e.uid : e \in Elems(q)}
  BY DEF Uids, Elems

LEMMA Position ==
  ASSUME NEW q, NEW i \in 1..Len(q) PROVE q[i] \in Elems(q)
  BY DEF Elems

LEMMA AppendFacts ==
  ASSUME NEW E, NEW q \in Seq(E), NEW e \in E
  PROVE  /\ Append(q, e) \in Seq(E) /\ Len(Append(q, e)) = Len(q) + 1
         /\ Elems(Append(q, e)) = Elems(q) \cup {e}
<1>1. /\ Append(q, e) \in Seq(E) /\ Len(Append(q, e)) = Len(q) + 1 /\ Len(q) \in Nat
      /\ \A i \in 1..Len(q) : Append(q, e)[i] = q[i]
      /\ Append(q, e)[Len(q) + 1] = e
  OBVIOUS
<1>2. 1..(Len(q) + 1) = 1..Len(q) \cup {Len(q) + 1}
  BY <1>1
<1>. QED
  BY <1>1, <1>2 DEF Elems

LEMMA AppendOrdered ==
  ASSUME NEW E, NEW q \in Seq(E), NEW e \in E, NEW X, Ordered(q, X),
         e.uid \in X \/ Below(q, e.id)
  PROVE  Ordered(Append(q, e), X)
<1>1. /\ Len(Append(q, e)) = Len(q) + 1 /\ Len(q) \in Nat
      /\ \A i \in 1..Len(q) : Append(q, e)[i] = q[i]
      /\ Append(q, e)[Len(q) + 1] = e
  OBVIOUS
<1>2. ASSUME NEW i \in 1..Len(q) PROVE e.uid \in X \/ q[i].id < e.id
  BY Position DEF Below
<1>3. ASSUME NEW i \in 1..(Len(q) + 1), NEW j \in 1..(Len(q) + 1), i < j
      PROVE  Append(q, e)[i].id < Append(q, e)[j].id \/ Append(q, e)[j].uid \in X
  <2>1. CASE j = Len(q) + 1
    BY <1>1, <1>2, <1>3, <2>1
  <2>2. CASE j # Len(q) + 1
    BY <1>1, <1>3, <2>2 DEF Ordered
  <2>. QED
    BY <2>1, <2>2
<1>. QED
  BY <1>1, <1>3 DEF Ordered

LEMMA TailFacts ==
  ASSUME NEW E, NEW q \in Seq(E), Len(q) > 0
  PROVE  /\ Tail(q) \in Seq(E) /\ Len(Tail(q)) = Len(q) - 1
         /\ q[1] = Head(q) /\ Head(q) \in E
         /\ Elems(q) = Elems(Tail(q)) \cup {q[1]}
         /\ \A X : Ordered(q, X) => /\ Ordered(Tail(q), X)
                                    /\ \A e \in Elems(Tail(q)) : q[1].id < e.id \/ e.uid \in X
<1>1. /\ Tail(q) \in Seq(E) /\ Len(Tail(q)) = Len(q) - 1 /\ Len(q) \in Nat
      /\ \A i \in 1..(Len(q) - 1) : Tail(q)[i] = q[i + 1]
      /\ q[1] = Head(q) /\ Head(q) \in E
  OBVIOUS
<1>2. Elems(q) = Elems(Tail(q)) \cup {q[1]}
  <2>1. \A i \in 1..Len(q) : i = 1 \/ (i - 1 \in 1..(Len(q) - 1) /\ q[i] = Tail(q)[i - 1])
    BY <1>1
  <2>2. \A i \in 1..(Len(q) - 1) : i + 1 \in 1..Len(q)
    BY <1>1
  <2>3. ASSUME NEW d \in Elems(q) PROVE d \in Elems(Tail(q)) \cup {q[1]}
    <3>1. PICK i \in 1..Len(q) : q[i] = d
      BY DEF Elems
    <3>2. i # 1 => i - 1 \in 1..Len(Tail(q)) /\ Tail(q)[i - 1] = d
      BY <1>1, <2>1, <3>1
    <3>. QED
      BY <3>1, <3>2, Position
  <2>4. ASSUME NEW d \in Elems(Tail(q)) PROVE d \in Elems(q)
    <3>1. PICK i \in 1..Len(Tail(q)) : Tail(q)[i] = d
      BY DEF Elems
    <3>2. i + 1 \in 1..Len(q) /\ q[i + 1] = d
      BY <1>1, <2>2, <3>1
    <3>. QED
      BY <3>2, Position
  <2>5. q[1] \in Elems(q)
    BY <1>1, Position
  <2>. QED
    BY <2>3, <2>4, <2>5
<1>3. ASSUME NEW X, Ordered(q, X)
      PROVE  /\ Ordered(Tail(q), X)
             /\ \A e \in Elems(Tail(q)) : q[1].id < e.id \/ e.uid \in X
  <2>1. \A i \in 1..(Len(q) - 1) : i + 1 \in 1..Len(q) /\ 1 \in 1..Len(q) /\ 1 < i + 1
    BY <1>1
  <2>2. Ordered(Tail(q), X)
    BY <1>1, <1>3, <2>1 DEF Ordered
  <2>3. \A i \in 1..(Len(q) - 1) : q[1].id < q[i + 1].id \/ q[i + 1].uid \in X
    BY <1>3, <2>1 DEF Ordered
  <2>. QED
    BY <1>1, <2>2, <2>3 DEF Elems
<1>. QED
  BY <1>1, <1>2, <1>3

LEMMA PushedFacts ==
  ASSUME NEW E, NEW q \in Seq(E), NEW e \in E, NEW limit \in Nat \ {0}, Len(q) <= limit
  PROVE  /\ Pushed(q, limit, e) \in Seq(E) /\ Len(Pushed(q, limit, e)) <= limit
         /\ Elems(Pushed(q, limit, e)) \subseteq Elems(q) \cup {e}
         /\ e \in Elems(Pushed(q, limit, e))
         /\ \A d \in Elems(q) : d \in Elems(Pushed(q, limit, e)) \/ d.uid \in Dropped(q, limit)
         /\ Dropped(q, limit) \subseteq Uids(q)
         /\ \A X : Ordered(q, X) /\ (e.uid \in X \/ Below(q, e.id)) =>
                      Ordered(Pushed(q, limit, e), X)
<1>1. CASE Len(q) >= limit
  <2>1. Len(q) > 0 /\ Len(q) \in Nat
    BY <1>1
  <2>2. Pushed(q, limit, e) = Append(Tail(q), e) /\ Dropped(q, limit) = {q[1].uid}
    BY <1>1 DEF Pushed, Dropped
  <2>3. /\ Pushed(q, limit, e) \in Seq(E) /\ Len(Pushed(q, limit, e)) <= limit
        /\ Elems(Pushed(q, limit, e)) = Elems(Tail(q)) \cup {e}
    <3>1. Tail(q) \in Seq(E) /\ Len(Tail(q)) = Len(q) - 1
      BY <2>1, TailFacts
    <3>2. PICK t : t = Tail(q)
      OBVIOUS
    <3>3. /\ Append(t, e) \in Seq(E) /\ Len(Append(t, e)) = Len(t) + 1
          /\ Elems(Append(t, e)) = Elems(t) \cup {e}
      BY <3>1, <3>2, AppendFacts
    <3>4. PICK p : p = Append(t, e)
      OBVIOUS
    <3>5. Pushed(q, limit, e) = p
      BY <2>2, <3>2, <3>4
    <3>. QED
      BY <2>1, <3>1, <3>2, <3>3, <3>4, <3>5
  <2>4. Dropped(q, limit) \subseteq Uids(q)
    BY <2>1, <2>2 DEF Uids
  <2>5. ASSUME NEW X, Ordered(q, X), e.uid \in X \/ Below(q, e.id)
        PROVE  Ordered(Pushed(q, limit, e), X)
    <3>1. /\ Tail(q) \in Seq(E) /\ Elems(Tail(q)) \subseteq Elems(q) /\ Ordered(Tail(q), X)
      BY <2>1, <2>5, TailFacts
    <3>2. e.uid \in X \/ Below(Tail(q), e.id)
      BY <2>5, <3>1 DEF Below
    <3>. QED
      BY <2>2, <3>1, <3>2, AppendOrdered
  <2>. QED
    BY <2>1, <2>2, <2>3, <2>4, <2>5, TailFacts
<1>2. CASE ~(Len(q) >= limit)
  <2>1. Pushed(q, limit, e) = Append(q, e) /\ Dropped(q, limit) = {}
    BY <1>2 DEF Pushed, Dropped
  <2>2. Len(q) + 1 <= limit
    BY <1>2
  <2>. QED
    BY <2>1, <2>2, AppendFacts, AppendOrdered
<1>. QED
  BY <1>1, <1>2

LEMMA SplitFacts ==
  ASSUME NEW E, NEW q \in Seq(E), NEW r \in 0..Len(q)
  PROVE  /\ SubSeq(q, 1, r) \in Seq(E) /\ Len(SubSeq(q, 1, r)) = r
         /\ SubSeq(q, r + 1, Len(q)) \in Seq(E) /\ Len(SubSeq(q, r + 1, Len(q))) = Len(q) - r
         /\ Elems(q) = Elems(SubSeq(q, 1, r)) \cup Elems(SubSeq(q, r + 1, Len(q)))
         /\ \A X : Ordered(q, X) =>
              /\ Ordered(SubSeq(q, 1, r), X) /\ Ordered(SubSeq(q, r + 1, Len(q)), X)
              /\ \A d \in Elems(SubSeq(q, 1, r)), e \in Elems(SubSeq(q, r + 1, Len(q))) :
                    d.id < e.id \/ e.uid \in X
<1>1. /\ Len(q) \in Nat /\ SubSeq(q, 1, r) \in Seq(E) /\ Len(SubSeq(q, 1, r)) = r
      /\ \A i \in 1..r : SubSeq(q, 1, r)[i] = q[i]
  OBVIOUS
<1>2. /\ SubSeq(q, r + 1, Len(q)) \in Seq(E) /\ Len(SubSeq(q, r + 1, Len(q))) = Len(q) - r
      /\ \A i \in 1..(Len(q) - r) : SubSeq(q, r + 1, Len(q))[i] = q[r + i]
  OBVIOUS
<1>3. /\ Elems(SubSeq(q, 1, r)) = {q[i] : i \in 1..r}
  BY <1>1 DEF Elems
<1>4. Elems(SubSeq(q, r + 1, Len(q))) = {q[i] : i \in (r + 1)..Len(q)}
  <2>1. \A i \in (r + 1)..Len(q) : i - r \in 1..(Len(q) - r) /\ r + (i - r) = i
    BY <1>1
  <2>2. \A i \in 1..(Len(q) - r) : r + i \in (r + 1)..Len(q)
    BY <1>1
  <2>3. ASSUME NEW i \in (r + 1)..Len(q) PROVE q[i] \in Elems(SubSeq(q, r + 1, Len(q)))
    <3>1. i - r \in 1..Len(SubSeq(q, r + 1, Len(q))) /\ SubSeq(q, r + 1, Len(q))[i - r] = q[i]
      BY <1>2, <2>1
    <3>. QED
      BY <3>1, Position
  <2>4. ASSUME NEW d \in Elems(SubSeq(q, r + 1, Len(q)))
        PROVE  \E i \in (r + 1)..Len(q) : d = q[i]
    <3>1. PICK i \in 1..Len(SubSeq(q, r + 1, Len(q))) : SubSeq(q, r + 1, Len(q))[i] = d
      BY DEF Elems
    <3>. QED
      BY <1>2, <2>2, <3>1
  <2>. QED
    BY <2>3, <2>4
<1>5. 1..Len(q) = 1..r \cup (r + 1)..Len(q)
  BY <1>1
<1>6. Elems(q) = Elems(SubSeq(q, 1, r)) \cup Elems(SubSeq(q, r + 1, Len(q)))
  BY <1>3, <1>4, <1>5 DEF Elems
<1>7. ASSUME NEW X, Ordered(q, X)
      PROVE  /\ Ordered(SubSeq(q, 1, r), X) /\ Ordered(SubSeq(q, r + 1, Len(q)), X)
             /\ \A d \in Elems(SubSeq(q, 1, r)), e \in Elems(SubSeq(q, r + 1, Len(q))) :
                   d.id < e.id \/ e.uid \in X
  <2>1. Ordered(SubSeq(q, 1, r), X)
    BY <1>1, <1>5, <1>7 DEF Ordered
  <2>2. Ordered(SubSeq(q, r + 1, Len(q)), X)
    <3>1. \A i, j \in 1..(Len(q) - r) :
             r + i \in 1..Len(q) /\ r + j \in 1..Len(q) /\ (i < j => r + i < r + j)
      BY <1>1
    <3>. QED
      BY <1>2, <1>7, <3>1 DEF Ordered
  <2>3. \A i \in 1..r, j \in (r + 1)..Len(q) : q[i].id < q[j].id \/ q[j].uid \in X
    <3>1. \A i \in 1..r, j \in (r + 1)..Len(q) : i \in 1..Len(q) /\ j \in 1..Len(q) /\ i < j
      BY <1>1
    <3>. QED
      BY <1>7, <3>1 DEF Ordered
  <2>. QED
    BY <1>3, <1>4, <2>1, <2>2, <2>3
<1>. QED
  BY <1>1, <1>2, <1>6, <1>7

\* The n-th of the chosen positions: counting the ones up to a position is a bijection.
Rank(S, i) == Cardinality({k \in S : k <= i})

LEMMA Ranks ==
  ASSUME NEW n \in Nat, NEW S \in SUBSET (1..n)
  PROVE  /\ Cardinality(S) \in Nat /\ Cardinality(S) <= n
         /\ \A i \in S : Rank(S, i) \in 1..Cardinality(S)
         /\ \A i, j \in S : i < j => Rank(S, i) < Rank(S, j)
         /\ \A m \in 1..Cardinality(S) : \E i \in S : Rank(S, i) = m
<1>. DEFINE upTo(i) == {k \in S : k <= i}
<1>1. /\ IsFiniteSet(S) /\ Cardinality(S) \in Nat /\ Cardinality(S) <= n
  <2>1. IsFiniteSet(1..n) /\ Cardinality(1..n) = n
    BY FS_Interval
  <2>. QED
    BY <2>1, FS_Subset, FS_CardinalityType
<1>2. ASSUME NEW i \in S
      PROVE  /\ IsFiniteSet(upTo(i)) /\ Cardinality(upTo(i)) \in 1..Cardinality(S)
  <2>1. upTo(i) \in SUBSET S /\ i \in upTo(i)
    OBVIOUS
  <2>2. IsFiniteSet(upTo(i)) /\ Cardinality(upTo(i)) <= Cardinality(S)
    BY <1>1, <2>1, FS_Subset
  <2>3. Cardinality(upTo(i)) \in Nat /\ Cardinality(upTo(i)) # 0
    BY <2>1, <2>2, FS_CardinalityType, FS_EmptySet
  <2>. QED
    BY <1>1, <2>2, <2>3
<1>3. ASSUME NEW i \in S, NEW j \in S, i < j
      PROVE  Cardinality(upTo(i)) < Cardinality(upTo(j))
  <2>0. \A k \in S : k \in Int
    OBVIOUS
  <2>1. upTo(i) \in SUBSET upTo(j) /\ j \in upTo(j) /\ j \notin upTo(i)
    <3>1. ASSUME NEW k \in upTo(i) PROVE k \in upTo(j)
      <4>1. k \in S /\ k <= i /\ k \in Int /\ i \in Int /\ j \in Int
        BY <2>0
      <4>. QED
        BY <1>3, <4>1
    <3>2. j \in Int /\ i \in Int
      BY <2>0
    <3>3. j \in upTo(j)
      BY <3>2
    <3>4. j \notin upTo(i)
      BY <1>3, <3>2
    <3>. QED
      BY <3>1, <3>3, <3>4
  <2>2. Cardinality(upTo(i)) <= Cardinality(upTo(j)) /\ Cardinality(upTo(i)) # Cardinality(upTo(j))
    BY <1>2, <2>1, FS_Subset
  <2>3. Cardinality(upTo(i)) \in Nat /\ Cardinality(upTo(j)) \in Nat
    BY <1>2, FS_CardinalityType
  <2>. QED
    BY <2>2, <2>3
<1>4. ASSUME NEW m \in 1..Cardinality(S)
      PROVE  \E i \in S : Cardinality(upTo(i)) = m
  <2>. DEFINE T == 1..Cardinality(S)
              f == [i \in S |-> Cardinality(upTo(i))]
  <2>1. IsFiniteSet(T) /\ Cardinality(T) = Cardinality(S)
    BY <1>1, FS_Interval
  <2>2. f \in [S -> T]
    BY <1>2
  <2>3. ASSUME NEW i \in S, NEW j \in S, f[i] = f[j] PROVE i = j
    <3>1. Cardinality(upTo(i)) = Cardinality(upTo(j))
      BY <2>3
    <3>2. i < j \/ j < i \/ i = j
      OBVIOUS
    <3>3. Cardinality(upTo(i)) \in Int /\ Cardinality(upTo(j)) \in Int
      BY <1>1, <1>2
    <3>. HIDE DEF upTo
    <3>. QED
      BY <1>3, <3>1, <3>2, <3>3
  <2>. HIDE DEF f, T
  <2>4. f \in Injection(S, T)
    BY <2>2, <2>3 DEF Injection, IsInjective
  <2>5. f \in Surjection(S, T)
    BY <2>1, <2>4, FS_Injection
  <2>6. PICK i \in S : f[i] = m
    BY <2>5 DEF Surjection, T
  <2>. QED
    BY <2>6 DEF f
<1>. QED
  BY <1>1, <1>2, <1>3, <1>4 DEF Rank

LEMMA PickedFacts ==
  ASSUME NEW E, NEW q \in Seq(E), NEW S \in SUBSET (1..Len(q))
  PROVE  /\ Picked(q, S) \in Seq(E) /\ Len(Picked(q, S)) <= Len(q)
         /\ Elems(Picked(q, S)) = {q[i] : i \in S}
         /\ \A X : Ordered(q, X) => Ordered(Picked(q, S), X)
<1>. DEFINE rank(i) == Rank(S, i)
            nth(m) == CHOOSE i \in S : rank(i) = m
            c == Cardinality(S)
<1>1. /\ Len(q) \in Nat /\ c \in Nat /\ c <= Len(q)
      /\ \A i \in S : rank(i) \in 1..c
      /\ \A i, j \in S : i < j => rank(i) < rank(j)
      /\ \A m \in 1..c : \E i \in S : rank(i) = m
  BY Ranks
<1>2. Picked(q, S) = [m \in 1..c |-> q[nth(m)]]
  BY DEF Picked, Rank
<1>. HIDE DEF rank, c
<1>3. \A m \in 1..c : nth(m) \in S /\ rank(nth(m)) = m
  BY <1>1
<1>4. \A m, l \in 1..c : m < l => nth(m) < nth(l)
  <2>. SUFFICES ASSUME NEW m \in 1..c, NEW l \in 1..c, m < l PROVE nth(m) < nth(l)
    OBVIOUS
  <2>1. nth(m) \in S /\ nth(l) \in S /\ rank(nth(m)) = m /\ rank(nth(l)) = l
    BY <1>3
  <2>2. PICK i, j : i = nth(m) /\ j = nth(l)
    OBVIOUS
  <2>3. i \in S /\ j \in S /\ rank(i) = m /\ rank(j) = l
    BY <2>1, <2>2
  <2>4. i < j
    BY <1>1, <2>3
  <2>. QED
    BY <2>2, <2>4
<1>5. \A i \in S : \E m \in 1..c : nth(m) = i
  <2>. SUFFICES ASSUME NEW i \in S PROVE \E m \in 1..c : nth(m) = i
    OBVIOUS
  <2>1. PICK m : m = rank(i)
    OBVIOUS
  <2>2. m \in 1..c
    BY <1>1, <2>1
  <2>3. PICK j : j = nth(m)
    OBVIOUS
  <2>4. j \in S /\ rank(j) = m
    BY <1>3, <2>2, <2>3
  <2>5. j = i
    BY <1>1, <2>1, <2>4
  <2>. QED
    BY <2>2, <2>3, <2>5
<1>. HIDE DEF nth
<1>6. \A m \in 1..c : nth(m) \in 1..Len(q) /\ q[nth(m)] \in E
  <2>1. \A i \in S : i \in 1..Len(q) /\ q[i] \in E
    OBVIOUS
  <2>. QED
    BY <1>3, <2>1
<1>7. PICK p : p = Picked(q, S)
  OBVIOUS
<1>8. p \in [1..c -> E] /\ \A m \in 1..c : p[m] = q[nth(m)]
  BY <1>2, <1>6, <1>7
<1>9. p \in Seq(E) /\ Len(p) = c
  BY <1>1, <1>8
<1>10. Elems(p) = {q[i] : i \in S}
  <2>1. ASSUME NEW d \in Elems(p) PROVE \E i \in S : d = q[i]
    BY <1>3, <1>8, <1>9 DEF Elems
  <2>2. ASSUME NEW i \in S PROVE q[i] \in Elems(p)
    BY <1>5, <1>8, <1>9 DEF Elems
  <2>. QED
    BY <2>1, <2>2
<1>11. ASSUME NEW X, Ordered(q, X) PROVE Ordered(p, X)
  <2>. SUFFICES ASSUME NEW i \in 1..c, NEW j \in 1..c, i < j
                PROVE  p[i].id < p[j].id \/ p[j].uid \in X
    BY <1>9 DEF Ordered
  <2>1. nth(i) \in 1..Len(q) /\ nth(j) \in 1..Len(q) /\ nth(i) < nth(j)
    BY <1>4, <1>6
  <2>2. q[nth(i)].id < q[nth(j)].id \/ q[nth(j)].uid \in X
    BY <1>11, <2>1 DEF Ordered
  <2>. QED
    BY <1>8, <2>2
<1>. QED
  BY <1>1, <1>7, <1>9, <1>10, <1>11

LEMMA LaterFacts ==
  ASSUME NEW E, NEW q \in Seq(E), NEW id
  PROVE  /\ Later(q, id) \in Seq(E) /\ Len(Later(q, id)) <= Len(q)
         /\ Elems(Later(q, id)) = {e \in Elems(q) : e.id > id}
         /\ \A X : Ordered(q, X) => Ordered(Later(q, id), X)
<1>. DEFINE S == {i \in 1..Len(q) : q[i].id > id}
<1>1. {q[i] : i \in S} = {e \in Elems(q) : e.id > id}
  BY DEF Elems
<1>2. S \in SUBSET (1..Len(q)) /\ Later(q, id) = Picked(q, S)
  BY DEF Later
<1>. HIDE DEF S
<1>3. /\ Picked(q, S) \in Seq(E) /\ Len(Picked(q, S)) <= Len(q)
      /\ Elems(Picked(q, S)) = {q[i] : i \in S}
  BY <1>2, PickedFacts
<1>4. \A X : Ordered(q, X) => Ordered(Picked(q, S), X)
  BY <1>2, PickedFacts
<1>. QED
  BY <1>1, <1>2, <1>3, <1>4, Zenon

-----------------------------------------------------------------------------
(* What the operators on the state return. *)

LEMMA Limits ==
    /\ PendingLimit \in Nat \ {0} /\ ReplayLimit \in Nat \ {0} /\ ChanCap \in Nat \ {0}
    /\ MaxSends \in Nat /\ MaxConnects \in Nat /\ MaxLosses \in Nat
  BY LimitsAssumption

LEMMA EventFields ==
  ASSUME NEW e \in Events
  PROVE  e.id \in 1..MaxSends /\ e.uid \in 1..MaxSends /\ e.id \in Nat /\ e.uid \in Nat
  BY Limits DEF Events

LEMMA StateFields ==
  ASSUME Shapes
  PROVE  /\ sess.next \in Nat /\ sess.stream \in Nat
         /\ sess.pending \in Seq(Events) /\ sess.replay \in Seq(Events)
         /\ conn.id \in Nat /\ conn.buf \in Seq(Events)
         /\ last \in Int /\ sent \in Nat /\ losses \in Nat
         /\ \A f \in flight : f \in Sends /\ f.event \in Events /\ f.failed \in Nat
                              /\ f.at \in Nat /\ f.era \in Nat
         /\ Elems(sess.pending) \subseteq Events /\ Elems(sess.replay) \subseteq Events
         /\ Elems(conn.buf) \subseteq Events
<1>1. /\ sess.next \in Nat /\ sess.stream \in Nat
      /\ sess.pending \in Seq(Events) /\ sess.replay \in Seq(Events)
      /\ conn.id \in Nat /\ conn.buf \in Seq(Events)
  BY DEF Shapes, SessionStates, Streams
<1>. QED
  BY <1>1, ElemsType DEF Shapes, Sends

LEMMA NumberedFacts ==
  ASSUME Shapes, Bounds, sent < MaxSends
  PROVE  /\ NewEvent \in Events /\ NewEvent.id = sess.next /\ NewEvent.uid = sent + 1
         /\ Numbered \in SessionStates
         /\ Numbered.next = sess.next + 1
         /\ Numbered.replay = Pushed(sess.replay, ReplayLimit, NewEvent)
         /\ Numbered.on = sess.on /\ Numbered.reopened = sess.reopened
         /\ Numbered.pending = sess.pending /\ Numbered.stream = sess.stream
<1>1. NewEvent \in Events /\ NewEvent.id = sess.next /\ NewEvent.uid = sent + 1
  BY StateFields, Limits DEF NewEvent, Events, Bounds
<1>2. PICK r : r = Pushed(sess.replay, ReplayLimit, NewEvent)
  OBVIOUS
<1>3. r \in Seq(Events)
  BY <1>1, <1>2, StateFields, Limits, PushedFacts DEF Bounds
<1>4. Numbered = [sess EXCEPT !.next = sess.next + 1, !.replay = r]
  BY <1>2 DEF Numbered
<1>5. PICK n : n = sess.next + 1
  OBVIOUS
<1>6. sess \in SessionStates /\ n \in Nat /\ Numbered = [sess EXCEPT !.next = n, !.replay = r]
  BY <1>4, <1>5, StateFields DEF Shapes
<1>7. /\ Numbered \in SessionStates /\ Numbered.next = n /\ Numbered.replay = r
      /\ Numbered.on = sess.on /\ Numbered.reopened = sess.reopened
      /\ Numbered.pending = sess.pending /\ Numbered.stream = sess.stream
  <2>1. PICK s, t : s = sess /\ t = Numbered
    OBVIOUS
  <2>2. s \in SessionStates /\ t = [s EXCEPT !.next = n, !.replay = r]
    BY <1>6, <2>1, Zenon
  <2>3. /\ t \in SessionStates /\ t.next = n /\ t.replay = r /\ t.on = s.on
        /\ t.reopened = s.reopened /\ t.pending = s.pending /\ t.stream = s.stream
    <3>1. n \in Nat
      BY <1>6
    <3>. QED
      BY <1>3, <2>2, <3>1 DEF SessionStates
  <2>. QED
    BY <2>1, <2>3, Zenon
<1>. QED
  BY <1>1, <1>2, <1>5, <1>7

LEMMA Buffered ==
  ASSUME NEW c \in Streams, NEW b \in Seq(Events)
  PROVE  /\ [c EXCEPT !.buf = b] \in Streams /\ [c EXCEPT !.buf = b].buf = b
         /\ [c EXCEPT !.buf = b].id = c.id /\ [c EXCEPT !.buf = b].open = c.open
         /\ [c EXCEPT !.buf = b].here = c.here /\ [c EXCEPT !.buf = b].primed = c.primed
         /\ [c EXCEPT !.buf = b].stale = c.stale
  BY DEF Streams

\* What a step that numbers a new event does to the session.
Numbers ==
    /\ sess'.next = sess.next + 1 /\ sent' = sent + 1
    /\ sess'.replay = Pushed(sess.replay, ReplayLimit, NewEvent)
    /\ sess'.on = sess.on /\ sess'.reopened = sess.reopened
    /\ NewEvent \in Events /\ NewEvent.id = sess.next /\ NewEvent.uid = sent + 1
    /\ Dropped(sess.replay, ReplayLimit) \subseteq excused'

SameConn ==
    /\ conn'.id = conn.id /\ conn'.open = conn.open /\ conn'.here = conn.here
    /\ conn'.primed = conn.primed /\ conn'.stale = conn.stale

\* The event goes into the stream, or nothing of the stream changes.
LEMMA AppendedFacts ==
  ASSUME Shapes, NEW e \in Events, conn' = [conn EXCEPT !.buf = Append(@, e)]
  PROVE  conn' \in Streams /\ conn'.buf = Append(conn.buf, e) /\ SameConn
<1>1. PICK b, c : b = Append(conn.buf, e) /\ c = conn
  OBVIOUS
<1>2. b \in Seq(Events) /\ c \in Streams
  BY <1>1, StateFields, AppendFacts DEF Shapes
<1>3. conn' = [c EXCEPT !.buf = b]
  BY <1>1, Zenon
<1>4. PICK d : d = [c EXCEPT !.buf = b]
  OBVIOUS
<1>5. /\ d \in Streams /\ d.buf = b /\ d.id = c.id /\ d.open = c.open /\ d.here = c.here
      /\ d.primed = c.primed /\ d.stale = c.stale
  BY <1>2, <1>4, Buffered, Zenon
<1>. QED
  BY <1>1, <1>3, <1>4, <1>5, Zenon DEF SameConn

NewSend == [event |-> NewEvent, failed |-> sess.stream, at |-> conn.id, era |-> losses]

TargetedEffect ==
    /\ Shapes' /\ Numbers /\ SameConn /\ sess.on /\ sent < MaxSends
    /\ sess'.pending = sess.pending /\ sess'.stream = sess.stream
    /\ UNCHANGED <<last, fresh, losses, got, raced, mixed>>
    /\ excused' = excused \cup Dropped(sess.replay, ReplayLimit) \cup Unseen(NewEvent)
    /\ asked' = asked \/ (asked' = asked \cup {sent + 1} /\ sess.stream # 0)
    /\ \/ Takes /\ conn'.buf = Append(conn.buf, NewEvent) /\ flight' = flight
       \/ ~Takes /\ conn' = conn /\ flight' = flight \cup {NewSend}

LEMMA TargetedEffects ==
  ASSUME Shapes, Bounds, NEW request \in BOOLEAN, SendTargeted(request)
  PROVE  TargetedEffect
<1>1. /\ sess.on /\ sent < MaxSends /\ sess' = Numbered /\ sent' = sent + 1
      /\ UNCHANGED <<last, fresh, losses, got, raced, mixed>>
      /\ excused' = excused \cup Dropped(sess.replay, ReplayLimit) \cup Unseen(NewEvent)
  BY DEF SendTargeted
<1>2. asked' = asked \/ (asked' = asked \cup {sent + 1} /\ sess.stream # 0)
  BY DEF SendTargeted
<1>3. /\ sess' \in SessionStates
      /\ sess'.pending = sess.pending /\ sess'.stream = sess.stream
  BY <1>1, NumberedFacts, Zenon
<1>4. Numbers
  BY <1>1, NumberedFacts, Zenon DEF Numbers
<1>5. /\ fresh' \in BOOLEAN /\ mixed' \in BOOLEAN
      /\ last' \in Int /\ sent' \in Nat /\ losses' \in Nat
  BY <1>1 DEF Shapes
<1>6. NewSend \in Sends
  BY StateFields, <1>4 DEF NewSend, Sends, Numbers
<1>7. CASE Takes
  <2>1. conn' = [conn EXCEPT !.buf = Append(@, NewEvent)] /\ flight' = flight
    BY <1>7, Zenon DEF SendTargeted
  <2>2. conn' \in Streams /\ conn'.buf = Append(conn.buf, NewEvent) /\ SameConn
    BY <2>1, <1>4, AppendedFacts DEF Numbers
  <2>. QED
    BY <1>1, <1>2, <1>3, <1>4, <1>5, <1>7, <2>1, <2>2, Zenon DEF Shapes, TargetedEffect
<1>8. CASE ~Takes
  <2>1. conn' = conn /\ flight' = flight \cup {NewSend}
    BY <1>8, Zenon DEF SendTargeted, NewSend
  <2>2. conn' \in Streams /\ SameConn
    BY <2>1, Zenon DEF Shapes, SameConn
  <2>3. flight' \subseteq Sends
    BY <2>1, <1>6 DEF Shapes
  <2>. QED
    BY <1>1, <1>2, <1>3, <1>4, <1>5, <1>8, <2>1, <2>2, <2>3, Zenon DEF Shapes, TargetedEffect
<1>. QED
  BY <1>7, <1>8

-----------------------------------------------------------------------------
(* Sending. *)

LEMMA NumbersFacts ==
  ASSUME Shapes, Bounds, Numbers
  PROVE  /\ sess'.replay \in Seq(Events) /\ Len(sess'.replay) <= ReplayLimit
         /\ Elems(sess'.replay) \subseteq Elems(sess.replay) \cup {NewEvent}
         /\ NewEvent \in Elems(sess'.replay)
         /\ \A d \in Elems(sess.replay) : d \in Elems(sess'.replay) \/ d.uid \in excused'
         /\ Dropped(sess.replay, ReplayLimit) \subseteq 1..sent
         /\ Ordered(sess.replay, {}) /\ Below(sess.replay, sess.next) => Ordered(sess'.replay, {})
         /\ \A e \in Events : Own(e) => e.id < NewEvent.id
         /\ \A e \in Events : Own(e) \/ e = NewEvent => Own(e)'
<1>1. /\ NewEvent \in Events /\ sess.replay \in Seq(Events) /\ ReplayLimit \in Nat \ {0}
      /\ Len(sess.replay) <= ReplayLimit /\ NewEvent.id = sess.next
      /\ sess'.replay = Pushed(sess.replay, ReplayLimit, NewEvent)
  BY StateFields, Limits DEF Numbers, Bounds
<1>2. /\ sess'.replay \in Seq(Events) /\ Len(sess'.replay) <= ReplayLimit
      /\ Elems(sess'.replay) \subseteq Elems(sess.replay) \cup {NewEvent}
      /\ NewEvent \in Elems(sess'.replay)
      /\ \A d \in Elems(sess.replay) :
            d \in Elems(sess'.replay) \/ d.uid \in Dropped(sess.replay, ReplayLimit)
      /\ Dropped(sess.replay, ReplayLimit) \subseteq Uids(sess.replay)
      /\ Ordered(sess.replay, {}) /\ Below(sess.replay, sess.next) => Ordered(sess'.replay, {})
  BY <1>1, PushedFacts
<1>3. \A d \in Elems(sess.replay) : d \in Elems(sess'.replay) \/ d.uid \in excused'
  BY <1>2 DEF Numbers
<1>4. Dropped(sess.replay, ReplayLimit) \subseteq 1..sent
  <2>1. \A e \in Elems(sess.replay) : e.uid \in 1..sent
    BY StateFields, EventFields DEF Bounds
  <2>. QED
    BY <1>2, <2>1, UidsElems
<1>5. \A e \in Events : Own(e) => e.id < NewEvent.id
  BY <1>1, StateFields, EventFields DEF Own
<1>6. \A e \in Events : Own(e) \/ e = NewEvent => Own(e)'
  <2>. SUFFICES ASSUME NEW e \in Events, Own(e) \/ e = NewEvent
                PROVE  e.id < sess'.next /\ e.uid = e.id + (sent' + 1 - sess'.next)
    BY DEF Own
  <2>1. e.id \in Nat /\ e.uid \in Nat /\ sess.next \in Nat /\ sent \in Nat
    BY StateFields, EventFields
  <2>2. e.id <= sess.next /\ e.uid = e.id + (sent + 1 - sess.next)
    BY <2>1 DEF Own, Numbers
  <2>. QED
    BY <2>1, <2>2 DEF Numbers
<1>. QED
  BY <1>2, <1>3, <1>4, <1>5, <1>6

LEMMA TakesFacts ==
  ASSUME Shapes, LostInv, Takes
  PROVE  sess.stream # 0 /\ ~conn.stale
  BY StateFields DEF Takes, LostInv

\* An event of the session goes into a stream that takes it.
LEMMA AppendedElems ==
  ASSUME Shapes, NEW e \in Events, conn'.buf = Append(conn.buf, e)
  PROVE  /\ Elems(conn'.buf) = Elems(conn.buf) \cup {e}
         /\ \A X : Ordered(conn.buf, X) /\ (e.uid \in X \/ Below(conn.buf, e.id)) =>
                      Ordered(conn'.buf, X)
  BY StateFields, AppendFacts, AppendOrdered

LEMMA TargetedBounds ==
  ASSUME Shapes, Bounds, TargetedEffect
  PROVE  Bounds'
<1>0. /\ NewEvent \in Events /\ NewEvent.uid = sent + 1 /\ sent \in Nat /\ sent' = sent + 1
      /\ conn'.id = conn.id
  BY StateFields DEF TargetedEffect, Numbers, SameConn
<1>1. /\ sess'.next >= 1 /\ sess'.next <= sent' + 1 /\ sent' <= MaxSends
      /\ Len(sess'.pending) <= PendingLimit
      /\ sess'.stream <= conn'.id /\ conn'.id <= MaxConnects
      /\ -1 <= last' /\ last' <= MaxSends /\ losses' <= MaxLosses
  BY StateFields, Limits DEF TargetedEffect, Numbers, SameConn, Bounds
<1>2. Len(conn'.buf) <= ChanCap
  <2>1. CASE Takes
    <3>1. conn'.buf = Append(conn.buf, NewEvent) /\ Len(conn.buf) < ChanCap
      BY <2>1 DEF Takes, TargetedEffect
    <3>2. Len(conn'.buf) = Len(conn.buf) + 1 /\ Len(conn.buf) \in Nat
      BY <3>1, <1>0, StateFields, AppendFacts
    <3>. QED
      BY <3>1, <3>2, Limits
  <2>2. CASE ~Takes
    BY <2>2 DEF Bounds, TargetedEffect
  <2>. QED
    BY <2>1, <2>2
<1>3. \A f \in flight' : /\ f.failed <= conn'.id /\ f.at <= conn'.id /\ f.era <= losses'
                         /\ f.event.uid <= sent'
  <2>1. ASSUME NEW f \in flight
        PROVE  /\ f.failed <= conn'.id /\ f.at <= conn'.id /\ f.era <= losses'
               /\ f.event.uid <= sent'
    BY <1>0, StateFields, EventFields DEF TargetedEffect, Bounds
  <2>2. /\ NewSend.failed <= conn'.id /\ NewSend.at <= conn'.id /\ NewSend.era <= losses'
        /\ NewSend.event.uid <= sent'
    BY <1>0, StateFields DEF NewSend, TargetedEffect, Bounds
  <2>. QED
    BY <2>1, <2>2 DEF TargetedEffect
<1>4. \A e \in Elems(sess'.replay) \cup Elems(sess'.pending) \cup Elems(conn'.buf) : e.uid <= sent'
  <2>1. Elems(conn'.buf) \subseteq Elems(conn.buf) \cup {NewEvent}
    BY <1>0, AppendedElems DEF TargetedEffect
  <2>2. \A e \in Elems(sess.replay) \cup Elems(sess.pending) \cup Elems(conn.buf) :
           e.uid <= sent /\ e.uid \in Nat
    BY StateFields, EventFields DEF Bounds
  <2>3. Elems(sess'.replay) \subseteq Elems(sess.replay) \cup {NewEvent}
    BY NumbersFacts DEF TargetedEffect
  <2>. QED
    BY <1>0, <2>1, <2>2, <2>3 DEF TargetedEffect
<1>5. /\ asked' \subseteq 1..sent' /\ got' \subseteq 1..sent'
      /\ raced' \subseteq 1..sent' /\ excused' \subseteq 1..sent'
  <2>1. Dropped(sess.replay, ReplayLimit) \subseteq 1..sent
    BY NumbersFacts DEF TargetedEffect
  <2>2. 1..sent \subseteq 1..sent' /\ sent + 1 \in 1..sent'
    BY <1>0
  <2>3. Unseen(NewEvent) \subseteq {sent + 1}
    BY <1>0 DEF Unseen
  <2>. QED
    BY <2>1, <2>2, <2>3 DEF TargetedEffect, Bounds
<1>6. Len(sess'.replay) <= ReplayLimit
  BY NumbersFacts DEF TargetedEffect
<1>. QED
  BY <1>1, <1>2, <1>3, <1>4, <1>5, <1>6 DEF Bounds

\* What the members of the queues of an unmixed session have in common.
LEMMA OwnFacts ==
  ASSUME Shapes, NumInv
  PROVE  /\ \A e \in Elems(sess.replay) \cup Elems(sess.pending) : Own(e) /\ e \in Events
         /\ ~conn.stale => \A e \in Elems(conn.buf) : Own(e) /\ e \in Events
         /\ Below(sess.replay, sess.next) /\ Below(sess.pending, sess.next)
         /\ ~conn.stale => Below(conn.buf, sess.next)
  BY StateFields DEF NumInv, Below, Own

LEMMA TargetedStep ==
  ASSUME Shapes, Bounds, Core, TargetedEffect
  PROVE  Core'
<1>. USE DEF Core
<1>0. /\ NewEvent \in Events /\ NewEvent.id = sess.next /\ NewEvent.uid = sent + 1
      /\ sent' = sent + 1 /\ sess'.next = sess.next + 1
      /\ sess'.on = sess.on /\ sess'.reopened = sess.reopened /\ sess.on
      /\ conn'.id = conn.id /\ conn'.open = conn.open /\ conn'.here = conn.here
      /\ conn'.primed = conn.primed /\ conn'.stale = conn.stale
      /\ sess'.pending = sess.pending /\ sess'.stream = sess.stream
      /\ last' = last /\ fresh' = fresh /\ losses' = losses /\ got' = got /\ raced' = raced
  BY DEF TargetedEffect, Numbers, SameConn
<1>1. /\ Elems(sess'.replay) \subseteq Elems(sess.replay) \cup {NewEvent}
      /\ NewEvent \in Elems(sess'.replay)
      /\ \A d \in Elems(sess.replay) : d \in Elems(sess'.replay) \/ d.uid \in excused'
      /\ \A e \in Events : Own(e) => e.id < NewEvent.id
      /\ \A e \in Events : Own(e) \/ e = NewEvent => Own(e)'
      /\ Ordered(sess'.replay, {})
  BY NumbersFacts, OwnFacts DEF TargetedEffect, QueueInv
<1>2. \/ Takes /\ conn'.buf = Append(conn.buf, NewEvent) /\ flight' = flight
      \/ ~Takes /\ conn'.buf = conn.buf /\ flight' = flight \cup {NewSend}
  BY DEF TargetedEffect
<1>3. Takes => sess.stream # 0 /\ ~conn.stale
  BY TakesFacts
<1>4. Elems(conn'.buf) = IF Takes THEN Elems(conn.buf) \cup {NewEvent} ELSE Elems(conn.buf)
  BY <1>0, <1>2, AppendedElems
<1>5. /\ NewSend.event = NewEvent /\ NewSend.failed = sess.stream /\ NewSend.at = conn.id
      /\ NewSend.era = losses
  BY DEF NewSend
<1>6. excused \subseteq excused'
  BY DEF TargetedEffect
<1>7. NumInv'
  <2>1. \A e \in Elems(sess'.replay) \cup Elems(sess'.pending) : Own(e)'
    BY <1>0, <1>1, OwnFacts
  <2>2. ~conn'.stale => \A e \in Elems(conn'.buf) : Own(e)'
    BY <1>0, <1>1, <1>4, OwnFacts
  <2>3. \A f \in flight' : Current(f)' => Own(f.event)'
    <3>1. ASSUME NEW f \in flight, Current(f)' PROVE Own(f.event)'
      <4>1. f.event \in Events /\ Own(f.event)
        BY <1>0, <3>1, StateFields DEF NumInv, Current
      <4>. QED
        BY <1>1, <4>1
    <3>2. \A f : f = NewSend => Own(f.event)'
      BY <1>0, <1>1, <1>5
    <3>. QED
      BY <1>2, <3>1, <3>2
  <2>4. Known' => last' < sess'.next
    BY <1>0, StateFields DEF NumInv, Known
  <2>. QED
    BY <2>1, <2>2, <2>3, <2>4 DEF NumInv
<1>8. LostInv'
  <2>1. conn.stale => Uids(conn'.buf) \subseteq excused'
    BY <1>2, <1>3, <1>6 DEF LostInv
  <2>. QED
    BY <1>0, <2>1 DEF LostInv, Known
<1>9. FlightInv'
  <2>1. ASSUME NEW f \in flight', NEW g \in flight', f.event.uid = g.event.uid PROVE f = g
    <3>1. \A h \in flight : h.event.uid <= sent /\ h.event.uid \in Nat
      BY StateFields, EventFields DEF Bounds
    <3>2. sent \in Nat
      BY StateFields
    <3>3. \A h \in flight : h.event.uid # NewSend.event.uid
      BY <3>1, <3>2, <1>0, <1>5
    <3>4. CASE f \in flight /\ g \in flight
      BY <2>1, <3>4 DEF FlightInv
    <3>. QED
      BY <1>2, <2>1, <3>3, <3>4
  <2>2. \A f \in flight' : Current(f)' /\ f.at = conn'.id => sess'.stream \in {0, f.failed}
    BY <1>0, <1>2, <1>5 DEF FlightInv, Current
  <2>3. ASSUME NEW f \in flight', Newest(f)' PROVE f = NewSend /\ ~Takes
    <3>1. f \in flight => f.event.id + 1 # sess'.next
      BY <1>0, <2>3, StateFields, EventFields DEF NumInv, Newest, Current, Own
    <3>2. f.event.id + 1 = sess'.next
      BY <2>3 DEF Newest
    <3>. QED
      BY <1>2, <3>1, <3>2
  <2>4. ~Takes => /\ Known' => last' < sess.next
                  /\ ~conn'.stale => Below(conn'.buf, sess.next)
                  /\ Below(sess'.pending, sess.next)
    BY <1>0, <1>2, OwnFacts DEF NumInv, Known
  <2>5. ASSUME NEW f \in flight', Newest(f)'
        PROVE  /\ f.event \in Elems(sess'.replay)
               /\ Known' => last' < f.event.id
               /\ ~conn'.stale => Below(conn'.buf, f.event.id)
               /\ Below(sess'.pending, f.event.id)
    <3>1. f.event = NewEvent /\ f.event.id = sess.next /\ ~Takes
      BY <1>0, <1>5, <2>3, <2>5
    <3>. QED
      BY <1>1, <2>4, <3>1
  <2>. QED
    BY <2>1, <2>2, <2>5 DEF FlightInv
<1>10. QueueInv'
  <2>1. Blind' => Ordered(sess'.pending, raced')
    BY <1>0, StateFields DEF QueueInv, Blind
  <2>2. ASSUME NEW e \in Elems(sess'.pending), e.uid \notin raced' PROVE Waits(e)'
    <3>1. e \in Elems(sess.pending) /\ Waits(e) /\ Own(e) /\ e \in Events
      BY <1>0, <2>2, OwnFacts DEF QueueInv
    <3>2. sess.stream = 0 /\ ~Takes /\ conn'.buf = conn.buf /\ asked' = asked
      BY <1>2, <1>3, <3>1 DEF Waits, TargetedEffect
    <3>3. NewEvent.id > e.id /\ NewEvent.uid \notin asked'
      BY <1>0, <1>1, <3>1, <3>2, StateFields, EventFields DEF Bounds
    <3>4. \/ e \in Elems(sess'.replay)
          \/ /\ e.uid \in excused'
             /\ \E d \in Elems(sess'.replay) : d.id > e.id /\ d.uid \notin asked'
      BY <1>1, <1>6, <3>1, <3>3 DEF Waits
    <3>. QED
      BY <1>0, <3>1, <3>2, <3>4 DEF Waits, Known
  <2>. QED
    BY <1>1, <2>1, <2>2 DEF QueueInv
<1>11. BufInv'
  <2>. SUFFICES ASSUME ~conn.stale
                PROVE  /\ Ordered(conn'.buf, raced')
                       /\ \A e \in Elems(conn'.buf) :
                             /\ e.uid \in raced' \cup excused' \/ e \in Elems(sess'.replay)
                             /\ Known' => e.uid \in raced' \/ e.id > last'
    BY <1>0 DEF BufInv
  <2>1. Below(conn.buf, NewEvent.id)
    BY <1>0, OwnFacts
  <2>2. Ordered(conn'.buf, raced')
    BY <1>0, <1>2, <2>1, AppendedElems DEF BufInv
  <2>3. ASSUME NEW e \in Elems(conn.buf)
        PROVE  /\ e.uid \in raced' \cup excused' \/ e \in Elems(sess'.replay)
               /\ Known' => e.uid \in raced' \/ e.id > last'
    BY <1>0, <1>1, <1>6 DEF BufInv, Known
  <2>4. /\ NewEvent \in Elems(sess'.replay)
        /\ Known' => NewEvent.id > last'
    BY <1>0, <1>1, StateFields DEF NumInv, Known
  <2>. QED
    BY <1>4, <2>2, <2>3, <2>4
<1>12. MainInv'
  <2>1. ASSUME NEW u \in 1..sent, Safe(u) PROVE Safe(u)'
    <3>1. u \in Uids(conn.buf) => u \in Uids(conn'.buf)
      BY <1>4, UidsElems
    <3>. QED
      BY <1>0, <1>2, <1>6, <2>1, <3>1 DEF Safe
  <2>2. ASSUME NEW u \in 1..sent, Replayable(u), ~(Takes /\ conn.here)
        PROVE  Safe(u)' \/ Replayable(u)'
    <3>1. PICK e \in Elems(sess.replay) :
             e.uid = u /\ e.id > last /\ (conn.here => Below(conn.buf, e.id))
      BY <2>2 DEF Replayable
    <3>2. conn'.here => Below(conn'.buf, e.id)
      BY <1>0, <1>2, <2>2, <3>1
    <3>3. CASE e \in Elems(sess'.replay)
      BY <1>0, <2>2, <3>1, <3>2, <3>3 DEF Replayable, Known
    <3>4. CASE e.uid \in excused'
      BY <3>1, <3>4 DEF Safe
    <3>. QED
      BY <1>1, <3>3, <3>4
  <2>3. CASE Takes /\ conn.here
    <3>1. \A u \in 1..sent : Safe(u)
      BY <2>3 DEF MainInv, Takes
    <3>2. sent + 1 \in Uids(conn'.buf)
      BY <1>0, <1>4, <2>3, UidsElems
    <3>3. \A u \in 1..(sent + 1) : Safe(u)'
      <4>1. \A u : u = sent + 1 => Safe(u)'
        BY <1>0, <2>3, <3>2 DEF Safe
      <4>2. \A u \in 1..(sent + 1) : u \in 1..sent \/ u = sent + 1
        BY StateFields
      <4>. QED
        BY <2>1, <3>1, <4>1, <4>2
    <3>. QED
      BY <1>0, <3>3 DEF MainInv
  <2>4. CASE ~(Takes /\ conn.here)
    <3>1. \A u \in 1..sent : Safe(u)' \/ Replayable(u)'
      BY <2>1, <2>2, <2>4 DEF MainInv
    <3>2. \A u : u = sent + 1 => Safe(u)' \/ Replayable(u)'
      <4>. SUFFICES ASSUME NEW u, u = sent + 1 PROVE Safe(u)' \/ Replayable(u)'
        OBVIOUS
      <4>1. CASE ~Takes
        <5>1. \E f \in flight' : f.event.uid = u
          BY <1>0, <1>2, <1>5, <4>1
        <5>. QED
          BY <5>1 DEF Safe
      <4>2. CASE Takes /\ ~conn.here /\ ~Known
        <5>1. u \in excused'
          BY <1>0, <4>2 DEF TargetedEffect, Unseen, Known
        <5>. QED
          BY <5>1 DEF Safe
      <4>3. CASE Takes /\ ~conn.here /\ Known
        <5>1. NewEvent.id > last' /\ NewEvent.uid = u /\ ~conn'.here /\ Known'
          BY <1>0, <4>3, StateFields DEF NumInv, Known
        <5>. QED
          BY <1>1, <5>1 DEF Replayable
      <4>. QED
        BY <2>4, <4>1, <4>2, <4>3
    <3>3. ASSUME sess'.stream = conn'.id, conn'.here PROVE \A u \in 1..(sent + 1) : Safe(u)'
      <4>1. \A u \in 1..sent : Safe(u)
        BY <1>0, <3>3 DEF MainInv
      <4>2. \A u : u = sent + 1 => Safe(u)'
        <5>1. \E f \in flight' : f.event.uid = sent + 1
          BY <1>0, <1>2, <1>5, <2>4, <3>3
        <5>. QED
          BY <5>1 DEF Safe
      <4>3. \A u \in 1..(sent + 1) : u \in 1..sent \/ u = sent + 1
        BY StateFields
      <4>. QED
        BY <2>1, <4>1, <4>2, <4>3
    <3>4. \A u \in 1..(sent + 1) : u \in 1..sent \/ u = sent + 1
      BY StateFields
    <3>5. \A u \in 1..(sent + 1) : Safe(u)' \/ Replayable(u)'
      BY <3>1, <3>2, <3>4
    <3>. QED
      BY <1>0, <3>3, <3>5 DEF MainInv
  <2>. QED
    BY <2>3, <2>4
<1>. QED
  BY <1>7, <1>8, <1>9, <1>10, <1>11, <1>12

\* A broadcast that no stream takes.
BroadcastEffect ==
    /\ Shapes' /\ Numbers /\ sess.on /\ sent < MaxSends /\ conn' = conn
    /\ sess'.pending = Pushed(sess.pending, PendingLimit, NewEvent) /\ sess'.stream = 0
    /\ UNCHANGED <<last, fresh, flight, losses, asked, got, raced, mixed>>
    /\ excused' = excused \cup Dropped(sess.replay, ReplayLimit)
                          \cup Dropped(sess.pending, PendingLimit)

LEMMA BroadcastEffects ==
  ASSUME Shapes, Bounds, Broadcast
  PROVE  TargetedEffect \/ BroadcastEffect
<1>1. /\ sess.on /\ sent < MaxSends /\ sent' = sent + 1
      /\ UNCHANGED <<last, fresh, flight, losses, asked, got, raced, mixed>>
  BY DEF Broadcast
<1>2. /\ fresh' \in BOOLEAN /\ mixed' \in BOOLEAN /\ flight' \subseteq Sends
      /\ last' \in Int /\ sent' \in Nat /\ losses' \in Nat
  BY <1>1 DEF Shapes
<1>3. CASE Takes
  <2>1. /\ sess' = Numbered /\ conn' = [conn EXCEPT !.buf = Append(@, NewEvent)]
        /\ excused' = excused \cup Dropped(sess.replay, ReplayLimit) \cup Unseen(NewEvent)
    BY <1>3, Zenon DEF Broadcast
  <2>2. /\ sess' \in SessionStates /\ NewEvent \in Events
        /\ sess'.pending = sess.pending /\ sess'.stream = sess.stream
    BY <1>1, <2>1, NumberedFacts, Zenon
  <2>3. Numbers
    BY <1>1, <2>1, NumberedFacts, Zenon DEF Numbers
  <2>4. conn' \in Streams /\ conn'.buf = Append(conn.buf, NewEvent) /\ SameConn
    BY <2>1, <2>2, AppendedFacts
  <2>. QED
    BY <1>1, <1>2, <1>3, <2>1, <2>2, <2>3, <2>4, Zenon DEF Shapes, TargetedEffect
<1>4. CASE ~Takes
  <2>1. PICK q, n : q = Pushed(sess.pending, PendingLimit, NewEvent) /\ n = Numbered
    OBVIOUS
  <2>2. /\ conn' = conn
        /\ sess' = [Numbered EXCEPT !.stream = 0,
                            !.pending = Pushed(@, PendingLimit, NewEvent)]
        /\ excused' = excused \cup Dropped(sess.replay, ReplayLimit)
                              \cup Dropped(sess.pending, PendingLimit)
    BY <1>4, Zenon DEF Broadcast
  <2>3. /\ n \in SessionStates /\ NewEvent \in Events /\ n.pending = sess.pending
        /\ n.next = sess.next + 1 /\ n.replay = Pushed(sess.replay, ReplayLimit, NewEvent)
        /\ n.on = sess.on /\ n.reopened = sess.reopened
        /\ NewEvent.id = sess.next /\ NewEvent.uid = sent + 1
    BY <1>1, <2>1, NumberedFacts, Zenon
  <2>4. q \in Seq(Events)
    BY <2>1, <2>3, StateFields, Limits, PushedFacts DEF Bounds
  <2>5. PICK s : s = [n EXCEPT !.stream = 0, !.pending = q]
    OBVIOUS
  <2>6. /\ s \in SessionStates /\ s.stream = 0 /\ s.pending = q /\ s.next = n.next
        /\ s.replay = n.replay /\ s.on = n.on /\ s.reopened = n.reopened
    <3>1. n \in SessionStates
      BY <2>3, Zenon
    <3>. QED
      BY <2>4, <2>5, <3>1 DEF SessionStates
  <2>7. sess' = [n EXCEPT !.stream = 0, !.pending = Pushed(@, PendingLimit, NewEvent)]
    BY <2>1, <2>2, Zenon
  <2>8. sess' = s
    <3>1. Pushed(n.pending, PendingLimit, NewEvent) = q
      BY <2>1, <2>3, Zenon
    <3>. QED
      BY <2>5, <2>7, <3>1, Zenon
  <2>9. Numbers
    BY <1>1, <2>2, <2>3, <2>6, <2>8 DEF Numbers
  <2>. QED
    BY <1>1, <1>2, <2>1, <2>2, <2>6, <2>8, <2>9, Zenon DEF Shapes, BroadcastEffect
<1>. QED
  BY <1>3, <1>4

\* An event joins what is pending.
LEMMA PendingPushed ==
  ASSUME Shapes, Bounds, NEW e \in Events,
         sess'.pending = Pushed(sess.pending, PendingLimit, e),
         Dropped(sess.pending, PendingLimit) \subseteq excused'
  PROVE  /\ Len(sess'.pending) <= PendingLimit
         /\ Elems(sess'.pending) \subseteq Elems(sess.pending) \cup {e}
         /\ e \in Elems(sess'.pending)
         /\ \A u \in Uids(sess.pending) : u \in Uids(sess'.pending) \cup excused'
         /\ e.uid \in Uids(sess'.pending)
         /\ Dropped(sess.pending, PendingLimit) \subseteq 1..sent
         /\ \A X : Ordered(sess.pending, X) /\ (e.uid \in X \/ Below(sess.pending, e.id)) =>
                      Ordered(sess'.pending, X)
<1>1. /\ sess.pending \in Seq(Events) /\ PendingLimit \in Nat \ {0}
      /\ Len(sess.pending) <= PendingLimit
  BY StateFields, Limits DEF Bounds
<1>2. /\ Len(sess'.pending) <= PendingLimit
      /\ Elems(sess'.pending) \subseteq Elems(sess.pending) \cup {e}
      /\ e \in Elems(sess'.pending)
      /\ \A d \in Elems(sess.pending) :
            d \in Elems(sess'.pending) \/ d.uid \in Dropped(sess.pending, PendingLimit)
      /\ Dropped(sess.pending, PendingLimit) \subseteq Uids(sess.pending)
      /\ \A X : Ordered(sess.pending, X) /\ (e.uid \in X \/ Below(sess.pending, e.id)) =>
                   Ordered(sess'.pending, X)
  BY <1>1, PushedFacts
<1>3. Uids(sess.pending) = {d.uid : d \in Elems(sess.pending)}
  BY UidsElems
<1>4. Uids(sess'.pending) = {d.uid : d \in Elems(sess'.pending)}
  BY UidsElems
<1>5. Uids(sess.pending) \subseteq 1..sent
  BY <1>3, StateFields, EventFields DEF Bounds
<1>. QED
  BY <1>2, <1>3, <1>4, <1>5

LEMMA BroadcastBounds ==
  ASSUME Shapes, Bounds, BroadcastEffect
  PROVE  Bounds'
<1>0. /\ NewEvent \in Events /\ NewEvent.uid = sent + 1 /\ sent \in Nat /\ sent' = sent + 1
      /\ conn' = conn /\ flight' = flight
  BY StateFields DEF BroadcastEffect, Numbers
<1>1. /\ sess'.next >= 1 /\ sess'.next <= sent' + 1 /\ sent' <= MaxSends
      /\ -1 <= last' /\ last' <= MaxSends /\ losses' <= MaxLosses
  <2>1. /\ sess'.next = sess.next + 1 /\ sent < MaxSends /\ last' = last /\ losses' = losses
    BY DEF BroadcastEffect, Numbers
  <2>2. /\ sess.next >= 1 /\ sess.next <= sent + 1 /\ -1 <= last /\ last <= MaxSends
        /\ losses <= MaxLosses
    BY DEF Bounds
  <2>. QED
    BY <1>0, <2>1, <2>2, StateFields, Limits
<1>7. /\ sess'.stream <= conn'.id /\ conn'.id <= MaxConnects
      /\ Len(conn'.buf) <= ChanCap
  <2>1. sess'.stream = 0 /\ conn.id \in Nat
    BY StateFields DEF BroadcastEffect
  <2>. QED
    BY <1>0, <2>1 DEF Bounds
<1>2. /\ Len(sess'.pending) <= PendingLimit
      /\ Elems(sess'.pending) \subseteq Elems(sess.pending) \cup {NewEvent}
      /\ Dropped(sess.pending, PendingLimit) \subseteq 1..sent
  BY <1>0, PendingPushed DEF BroadcastEffect
<1>3. \A f \in flight' : /\ f.failed <= conn'.id /\ f.at <= conn'.id /\ f.era <= losses'
                         /\ f.event.uid <= sent'
  BY <1>0, StateFields, EventFields DEF BroadcastEffect, Bounds
<1>4. \A e \in Elems(sess'.replay) \cup Elems(sess'.pending) \cup Elems(conn'.buf) : e.uid <= sent'
  <2>1. \A e \in Elems(sess.replay) \cup Elems(sess.pending) \cup Elems(conn.buf) :
           e.uid <= sent /\ e.uid \in Nat
    BY StateFields, EventFields DEF Bounds
  <2>2. Elems(sess'.replay) \subseteq Elems(sess.replay) \cup {NewEvent}
    BY NumbersFacts DEF BroadcastEffect
  <2>. QED
    BY <1>0, <1>2, <2>1, <2>2
<1>5. /\ asked' \subseteq 1..sent' /\ got' \subseteq 1..sent'
      /\ raced' \subseteq 1..sent' /\ excused' \subseteq 1..sent'
  <2>1. Dropped(sess.replay, ReplayLimit) \subseteq 1..sent
    BY NumbersFacts DEF BroadcastEffect
  <2>2. 1..sent \subseteq 1..sent'
    BY <1>0
  <2>. QED
    BY <1>2, <2>1, <2>2 DEF BroadcastEffect, Bounds
<1>6. Len(sess'.replay) <= ReplayLimit
  BY NumbersFacts DEF BroadcastEffect
<1>. QED
  BY <1>1, <1>2, <1>3, <1>4, <1>5, <1>6, <1>7 DEF Bounds

LEMMA BroadcastStep ==
  ASSUME Shapes, Bounds, Core, BroadcastEffect
  PROVE  Core'
<1>. USE DEF Core
<1>0. /\ NewEvent \in Events /\ NewEvent.id = sess.next /\ NewEvent.uid = sent + 1
      /\ sent' = sent + 1 /\ sess'.next = sess.next + 1
      /\ sess'.on = sess.on /\ sess'.reopened = sess.reopened /\ sess.on
      /\ conn' = conn /\ sess'.stream = 0 /\ flight' = flight /\ asked' = asked
      /\ last' = last /\ fresh' = fresh /\ losses' = losses /\ got' = got /\ raced' = raced
  BY DEF BroadcastEffect, Numbers
<1>1. /\ Elems(sess'.replay) \subseteq Elems(sess.replay) \cup {NewEvent}
      /\ NewEvent \in Elems(sess'.replay)
      /\ \A d \in Elems(sess.replay) : d \in Elems(sess'.replay) \/ d.uid \in excused'
      /\ \A e \in Events : Own(e) => e.id < NewEvent.id
      /\ \A e \in Events : Own(e) \/ e = NewEvent => Own(e)'
      /\ Ordered(sess'.replay, {})
  BY NumbersFacts, OwnFacts DEF BroadcastEffect, QueueInv
<1>2. /\ Elems(sess'.pending) \subseteq Elems(sess.pending) \cup {NewEvent}
      /\ \A u \in Uids(sess.pending) : u \in Uids(sess'.pending) \cup excused'
      /\ sent + 1 \in Uids(sess'.pending)
      /\ \A X : Ordered(sess.pending, X) => Ordered(sess'.pending, X)
  <2>1. Below(sess.pending, NewEvent.id)
    BY <1>0, OwnFacts
  <2>. QED
    BY <1>0, <2>1, PendingPushed DEF BroadcastEffect
<1>6. excused \subseteq excused'
  BY DEF BroadcastEffect
<1>7. NumInv'
  <2>1. \A e \in Elems(sess'.replay) \cup Elems(sess'.pending) : Own(e)'
    BY <1>0, <1>1, <1>2, OwnFacts
  <2>2. ~conn'.stale => \A e \in Elems(conn'.buf) : Own(e)'
    BY <1>0, <1>1, OwnFacts
  <2>3. \A f \in flight' : Current(f)' => Own(f.event)'
    BY <1>0, <1>1, StateFields DEF NumInv, Current
  <2>4. Known' => last' < sess'.next
    BY <1>0, StateFields DEF NumInv, Known
  <2>. QED
    BY <2>1, <2>2, <2>3, <2>4 DEF NumInv
<1>8. LostInv'
  BY <1>0, <1>6 DEF LostInv, Known
<1>9. FlightInv'
  <2>1. \A f, g \in flight' : f.event.uid = g.event.uid => f = g
    BY <1>0 DEF FlightInv
  <2>2. \A f \in flight' : sess'.stream \in {0, f.failed}
    BY <1>0
  <2>3. \A f \in flight' : ~Newest(f)'
    <3>. SUFFICES ASSUME NEW f \in flight', Newest(f)' PROVE FALSE
      OBVIOUS
    <3>0. f \in flight /\ Current(f) /\ f.event.id + 1 = sess.next + 1
      BY <1>0 DEF Newest, Current
    <3>1. f \in flight /\ Current(f) /\ f.event.id = sess.next
      BY <3>0, StateFields, EventFields
    <3>. QED
      BY <3>1, StateFields, EventFields DEF NumInv, Own
  <2>. QED
    BY <2>1, <2>2, <2>3 DEF FlightInv
<1>10. QueueInv'
  <2>1. Blind' => Ordered(sess'.pending, raced')
    BY <1>0, <1>2, StateFields DEF QueueInv, Blind
  <2>2. ASSUME NEW e \in Elems(sess.pending), e.uid \notin raced' PROVE Waits(e)'
    <3>1. Waits(e) /\ Own(e) /\ e \in Events
      BY <1>0, <2>2, OwnFacts DEF QueueInv
    <3>2. NewEvent.id > e.id /\ NewEvent.uid \notin asked'
      BY <1>0, <1>1, <3>1, StateFields, EventFields DEF Bounds
    <3>3. \/ e \in Elems(sess'.replay)
          \/ /\ e.uid \in excused'
             /\ \E d \in Elems(sess'.replay) : d.id > e.id /\ d.uid \notin asked'
      BY <1>1, <1>6, <3>1, <3>2 DEF Waits
    <3>. QED
      BY <1>0, <3>1, <3>3 DEF Waits, Known
  <2>3. \A e : e = NewEvent => Waits(e)'
    <3>1. /\ Known' => last' < NewEvent.id
          /\ ~conn'.stale => Below(conn'.buf, NewEvent.id)
      BY <1>0, OwnFacts, StateFields DEF NumInv, Known
    <3>. QED
      BY <1>0, <1>1, <3>1 DEF Waits
  <2>. QED
    BY <1>1, <1>2, <2>1, <2>2, <2>3 DEF QueueInv
<1>11. BufInv'
  BY <1>0, <1>1, <1>6 DEF BufInv, Known
<1>12. MainInv'
  <2>1. ASSUME NEW u \in 1..sent, Safe(u) PROVE Safe(u)'
    BY <1>0, <1>2, <1>6, <2>1 DEF Safe
  <2>2. ASSUME NEW u \in 1..sent, Replayable(u) PROVE Safe(u)' \/ Replayable(u)'
    <3>1. PICK e \in Elems(sess.replay) :
             e.uid = u /\ e.id > last /\ (conn.here => Below(conn.buf, e.id))
      BY <2>2 DEF Replayable
    <3>2. CASE e \in Elems(sess'.replay)
      BY <1>0, <2>2, <3>1, <3>2 DEF Replayable, Known
    <3>3. CASE e.uid \in excused'
      BY <3>1, <3>3 DEF Safe
    <3>. QED
      BY <1>1, <3>2, <3>3
  <2>3. \A u : u = sent + 1 => Safe(u)'
    BY <1>2 DEF Safe
  <2>4. \A u \in 1..(sent + 1) : u \in 1..sent \/ u = sent + 1
    BY StateFields
  <2>5. \A u \in 1..(sent + 1) : Safe(u)' \/ Replayable(u)'
    BY <2>1, <2>2, <2>3, <2>4 DEF MainInv
  <2>6. ~(sess'.stream = conn'.id /\ conn'.here)
    BY <1>0, StateFields DEF LostInv
  <2>. QED
    BY <1>0, <2>5, <2>6 DEF MainInv
<1>. QED
  BY <1>7, <1>8, <1>9, <1>10, <1>11, <1>12

LEMMA OrderedMono ==
  ASSUME NEW q, NEW X, NEW Y, X \subseteq Y, Ordered(q, X)
  PROVE  Ordered(q, Y)
  BY DEF Ordered

Overtaken(f) == sess.next # f.event.id + 1 \/ conn.id # f.at

\* The second half of a send: nobody is there to send to, the event is queued, or a
\* stream takes it after all.
AgainEffect(f) ==
    /\ Shapes' /\ flight' = flight \ {f} /\ SameConn
    /\ UNCHANGED <<last, fresh, sent, losses, asked, got>>
    /\ raced' = IF Overtaken(f) THEN raced \cup {f.event.uid} ELSE raced
    /\ sess.on /\ ~mixed' => f.era = losses
    /\ mixed => mixed'
    /\ sess'.next = sess.next /\ sess'.replay = sess.replay
    /\ sess'.on = sess.on /\ sess'.reopened = sess.reopened
    /\ \/ /\ ~sess.on /\ sess'.pending = sess.pending /\ sess'.stream = sess.stream
          /\ conn'.buf = conn.buf /\ excused' = excused
       \/ /\ sess.on /\ sess'.pending = Pushed(sess.pending, PendingLimit, f.event)
          /\ \/ sess'.stream = 0
             \/ sess'.stream = sess.stream /\ (f.failed = 0 \/ sess.stream # f.failed)
          /\ conn'.buf = conn.buf
          /\ excused' = excused \cup Dropped(sess.pending, PendingLimit)
       \/ /\ sess.on /\ Takes /\ (f.failed = 0 \/ sess.stream # f.failed)
          /\ sess'.pending = sess.pending /\ sess'.stream = sess.stream
          /\ conn'.buf = Append(conn.buf, f.event)
          /\ excused' = excused \cup Unseen(f.event)

LEMMA AgainEffects ==
  ASSUME Shapes, Bounds, NEW f \in flight, SendAgain(f)
  PROVE  AgainEffect(f)
<1>1. /\ flight' = flight \ {f} /\ UNCHANGED <<last, fresh, sent, losses, asked, got>>
      /\ raced' = IF Overtaken(f) THEN raced \cup {f.event.uid} ELSE raced
  BY DEF SendAgain, Overtaken
<1>2. /\ sess.on /\ ~mixed' => f.era = losses
      /\ mixed => mixed'
      /\ mixed' \in BOOLEAN
  BY Zenon DEF SendAgain
<1>3. /\ fresh' \in BOOLEAN /\ last' \in Int /\ sent' \in Nat /\ losses' \in Nat
      /\ flight' \subseteq Sends /\ f.event \in Events
  BY <1>1, StateFields DEF Shapes
<1>4. CASE UNCHANGED <<sess, conn, excused>> /\ ~sess.on
  <2>1. sess' \in SessionStates /\ conn' \in Streams /\ SameConn
    BY <1>4 DEF Shapes, SameConn
  <2>. QED
    BY <1>1, <1>2, <1>3, <1>4, <2>1, Zenon DEF AgainEffect, Shapes
<1>5. ASSUME NEW s \in SessionStates, NEW q \in Seq(Events)
      PROVE  /\ [s EXCEPT !.stream = 0, !.pending = q] \in SessionStates
             /\ [s EXCEPT !.stream = 0, !.pending = q].pending = q
             /\ [s EXCEPT !.stream = 0, !.pending = q].stream = 0
             /\ [s EXCEPT !.stream = 0, !.pending = q].next = s.next
             /\ [s EXCEPT !.stream = 0, !.pending = q].replay = s.replay
             /\ [s EXCEPT !.stream = 0, !.pending = q].on = s.on
             /\ [s EXCEPT !.stream = 0, !.pending = q].reopened = s.reopened
  BY <1>5 DEF SessionStates
<1>6. ASSUME NEW s \in SessionStates, NEW q \in Seq(Events)
      PROVE  /\ [s EXCEPT !.pending = q] \in SessionStates
             /\ [s EXCEPT !.pending = q].pending = q
             /\ [s EXCEPT !.pending = q].stream = s.stream
             /\ [s EXCEPT !.pending = q].next = s.next
             /\ [s EXCEPT !.pending = q].replay = s.replay
             /\ [s EXCEPT !.pending = q].on = s.on
             /\ [s EXCEPT !.pending = q].reopened = s.reopened
  BY <1>6 DEF SessionStates
<1>7. Pushed(sess.pending, PendingLimit, f.event) \in Seq(Events)
  BY <1>3, StateFields, Limits, PushedFacts DEF Bounds
<1>8. CASE /\ sess.on
           /\ sess' = [sess EXCEPT !.stream = 0, !.pending = Pushed(@, PendingLimit, f.event)]
           /\ excused' = excused \cup Dropped(sess.pending, PendingLimit)
           /\ conn' = conn
  <2>1. PICK s, q : s = sess /\ q = Pushed(sess.pending, PendingLimit, f.event)
    OBVIOUS
  <2>2. s \in SessionStates /\ q \in Seq(Events) /\ sess' = [s EXCEPT !.stream = 0, !.pending = q]
    BY <1>7, <1>8, <2>1, Zenon DEF Shapes
  <2>3. /\ sess' \in SessionStates /\ sess'.pending = q /\ sess'.stream = 0
        /\ sess'.next = s.next /\ sess'.replay = s.replay
        /\ sess'.on = s.on /\ sess'.reopened = s.reopened
    BY <1>5, <2>2, Zenon
  <2>4. conn' \in Streams /\ SameConn /\ conn'.buf = conn.buf
    BY <1>8, Zenon DEF Shapes, SameConn
  <2>. QED
    BY <1>1, <1>2, <1>3, <1>8, <2>1, <2>3, <2>4, Zenon DEF AgainEffect, Shapes
<1>9. CASE /\ sess.on /\ (f.failed = 0 \/ sess.stream # f.failed) /\ Takes
           /\ conn' = [conn EXCEPT !.buf = Append(@, f.event)]
           /\ excused' = excused \cup Unseen(f.event)
           /\ UNCHANGED sess
  <2>1. conn' \in Streams /\ conn'.buf = Append(conn.buf, f.event) /\ SameConn
    BY <1>3, <1>9, AppendedFacts
  <2>2. sess' \in SessionStates
    BY <1>9, Zenon DEF Shapes
  <2>. QED
    BY <1>1, <1>2, <1>3, <1>9, <2>1, <2>2, Zenon DEF AgainEffect, Shapes
<1>10. CASE /\ sess.on /\ (f.failed = 0 \/ sess.stream # f.failed)
            /\ Queued(f.event) /\ UNCHANGED conn
  <2>1. PICK s, q : s = sess /\ q = Pushed(sess.pending, PendingLimit, f.event)
    OBVIOUS
  <2>2. /\ s \in SessionStates /\ q \in Seq(Events) /\ sess' = [s EXCEPT !.pending = q]
        /\ excused' = excused \cup Dropped(sess.pending, PendingLimit)
    BY <1>7, <1>10, <2>1, Zenon DEF Shapes, Queued
  <2>3. /\ sess' \in SessionStates /\ sess'.pending = q /\ sess'.stream = s.stream
        /\ sess'.next = s.next /\ sess'.replay = s.replay
        /\ sess'.on = s.on /\ sess'.reopened = s.reopened
    BY <1>6, <2>2, Zenon
  <2>4. conn' \in Streams /\ SameConn /\ conn'.buf = conn.buf
    BY <1>10, Zenon DEF Shapes, SameConn
  <2>. QED
    BY <1>1, <1>2, <1>3, <1>10, <2>1, <2>2, <2>3, <2>4, Zenon DEF AgainEffect, Shapes
<1>. QED
  BY <1>4, <1>8, <1>9, <1>10, Zenon DEF SendAgain

LEMMA AgainBounds ==
  ASSUME Shapes, Bounds, NEW f \in flight, AgainEffect(f)
  PROVE  Bounds'
<1>0. /\ f.event \in Events /\ f.event.uid \in 1..sent
      /\ sent' = sent /\ losses' = losses /\ last' = last /\ conn'.id = conn.id
      /\ flight' \subseteq flight /\ sess'.next = sess.next /\ sess'.replay = sess.replay
      /\ asked' = asked /\ got' = got
  BY StateFields, EventFields DEF AgainEffect, Bounds, SameConn
<1>1. /\ Elems(sess'.pending) \subseteq Elems(sess.pending) \cup {f.event}
      /\ Len(sess'.pending) <= PendingLimit
  <2>1. CASE sess'.pending = sess.pending
    BY <2>1 DEF Bounds
  <2>2. CASE /\ sess'.pending = Pushed(sess.pending, PendingLimit, f.event)
             /\ Dropped(sess.pending, PendingLimit) \subseteq excused'
    BY <1>0, <2>2, PendingPushed
  <2>. QED
    BY <2>1, <2>2 DEF AgainEffect
<1>2. /\ Elems(conn'.buf) \subseteq Elems(conn.buf) \cup {f.event}
      /\ Len(conn'.buf) <= ChanCap
  <2>1. CASE conn'.buf = conn.buf
    BY <2>1 DEF Bounds
  <2>2. CASE conn'.buf = Append(conn.buf, f.event) /\ Takes
    <3>1. Len(conn'.buf) = Len(conn.buf) + 1 /\ Len(conn.buf) \in Nat /\ Len(conn.buf) < ChanCap
      BY <1>0, <2>2, StateFields, AppendFacts DEF Takes
    <3>. QED
      BY <1>0, <2>2, <3>1, AppendedElems, Limits
  <2>. QED
    BY <2>1, <2>2 DEF AgainEffect
<1>3. raced' \subseteq 1..sent /\ excused' \subseteq 1..sent
  <2>1. Dropped(sess.pending, PendingLimit) \subseteq 1..sent
    <3>1. /\ sess.pending \in Seq(Events) /\ PendingLimit \in Nat \ {0}
          /\ Len(sess.pending) <= PendingLimit
      BY StateFields, Limits DEF Bounds
    <3>2. Dropped(sess.pending, PendingLimit) \subseteq Uids(sess.pending)
      BY <1>0, <3>1, PushedFacts
    <3>. QED
      BY <3>2, UidsElems, StateFields, EventFields DEF Bounds
  <2>2. Unseen(f.event) \subseteq 1..sent
    BY <1>0 DEF Unseen
  <2>. QED
    BY <1>0, <2>1, <2>2 DEF AgainEffect, Bounds
<1>4. sess'.stream <= conn'.id
  BY <1>0, StateFields DEF AgainEffect, Bounds
<1>. QED
  BY <1>0, <1>1, <1>2, <1>3, <1>4 DEF Bounds

LEMMA AgainStep ==
  ASSUME Shapes, Bounds, Core, NEW f \in flight, AgainEffect(f), ~mixed'
  PROVE  Core'
<1>. USE DEF Core
<1>0. /\ flight' = flight \ {f} /\ sess'.next = sess.next /\ sess'.replay = sess.replay
      /\ sess'.on = sess.on /\ sess'.reopened = sess.reopened
      /\ conn'.id = conn.id /\ conn'.open = conn.open /\ conn'.here = conn.here
      /\ conn'.primed = conn.primed /\ conn'.stale = conn.stale
      /\ last' = last /\ fresh' = fresh /\ sent' = sent /\ losses' = losses
      /\ asked' = asked /\ got' = got
      /\ f.event \in Events /\ f.event.id \in Nat /\ f.event.uid \in Nat
  BY StateFields, EventFields DEF AgainEffect, SameConn
<1>1. raced \subseteq raced' /\ excused \subseteq excused'
  BY DEF AgainEffect
<1>2. sess.on => Current(f) /\ Own(f.event)
  BY DEF AgainEffect, Current, NumInv
<1>3. sess.on /\ f.event.uid \notin raced' => Newest(f)
  BY <1>2 DEF AgainEffect, Overtaken, Newest
<1>4. \A e : Own(e)' <=> Own(e)
  BY <1>0 DEF Own
<1>5. \A g : Current(g)' <=> Current(g)
  BY <1>0 DEF Current
<1>6. \A g : Newest(g)' <=> Newest(g)
  BY <1>0, <1>5 DEF Newest
<1>7. (Known' <=> Known) /\ (Blind' <=> Blind)
  BY <1>0 DEF Known, Blind
\* The event has gone into the stream only after another one.
<1>8. conn'.buf # conn.buf => /\ conn'.buf = Append(conn.buf, f.event)
                              /\ Takes /\ sess.on /\ sess.stream # 0 /\ ~conn.stale
                              /\ sess'.pending = sess.pending /\ sess'.stream = sess.stream
                              /\ f.event.uid \in raced'
  <2>. SUFFICES ASSUME conn'.buf # conn.buf
                PROVE  /\ conn'.buf = Append(conn.buf, f.event)
                       /\ Takes /\ sess.on /\ sess.stream # 0 /\ ~conn.stale
                       /\ sess'.pending = sess.pending /\ sess'.stream = sess.stream
                       /\ f.event.uid \in raced'
    OBVIOUS
  <2>1. /\ conn'.buf = Append(conn.buf, f.event) /\ Takes /\ sess.on
        /\ sess'.pending = sess.pending /\ sess'.stream = sess.stream
        /\ f.failed = 0 \/ sess.stream # f.failed
    BY DEF AgainEffect
  <2>2. sess.stream # 0 /\ ~conn.stale
    BY <2>1, TakesFacts
  <2>3. ~Newest(f)
    BY <2>1, <2>2 DEF FlightInv, Newest
  <2>. QED
    BY <1>3, <2>1, <2>2, <2>3
<1>9. /\ Elems(conn'.buf) \subseteq Elems(conn.buf) \cup {f.event}
      /\ Elems(conn.buf) \subseteq Elems(conn'.buf)
  BY <1>0, <1>8, AppendedElems
<1>10. sess'.stream \in {0, sess.stream}
  BY DEF AgainEffect
\* What is new among what is pending.
<1>11. /\ Elems(sess'.pending) \subseteq Elems(sess.pending) \cup {f.event}
       /\ \A u \in Uids(sess.pending) : u \in Uids(sess'.pending) \cup excused'
       /\ Ordered(sess.pending, raced) => Ordered(sess'.pending, raced')
  <2>1. CASE sess'.pending = sess.pending
    BY <1>1, <2>1, OrderedMono
  <2>2. CASE /\ sess'.pending = Pushed(sess.pending, PendingLimit, f.event) /\ sess.on
             /\ Dropped(sess.pending, PendingLimit) \subseteq excused'
    <3>1. f.event.uid \in raced' \/ Below(sess.pending, f.event.id)
      BY <1>3, <2>2 DEF FlightInv
    <3>2. Ordered(sess.pending, raced) => Ordered(sess.pending, raced')
      BY <1>1, OrderedMono
    <3>. QED
      BY <1>0, <2>2, <3>1, <3>2, PendingPushed
  <2>. QED
    BY <2>1, <2>2 DEF AgainEffect
<1>12. f.event \in Elems(sess'.pending) /\ sess'.pending # sess.pending => sess.on
  BY DEF AgainEffect
<1>13. sess.on => f.event.uid \in raced' \cup Uids(sess'.pending)
  <2>1. CASE sess'.pending = Pushed(sess.pending, PendingLimit, f.event)
             /\ Dropped(sess.pending, PendingLimit) \subseteq excused'
    BY <1>0, <2>1, PendingPushed
  <2>2. CASE conn'.buf = Append(conn.buf, f.event) /\ sess.on
    <3>1. conn'.buf # conn.buf
      <4>1. Len(conn'.buf) = Len(conn.buf) + 1 /\ Len(conn.buf) \in Nat
        BY <1>0, <2>2, StateFields, AppendFacts
      <4>. QED
        BY <4>1
    <3>. QED
      BY <1>8, <3>1
  <2>. QED
    BY <2>1, <2>2 DEF AgainEffect
<1>14. NumInv'
  <2>1. \A e \in Elems(sess'.pending) : Own(e)
    <3>1. sess'.pending # sess.pending => Own(f.event)
      BY <1>2 DEF AgainEffect
    <3>. QED
      BY <1>11, <3>1 DEF NumInv
  <2>2. ~conn.stale => \A e \in Elems(conn'.buf) : Own(e)
    BY <1>2, <1>8, <1>9 DEF NumInv
  <2>. QED
    BY <1>0, <1>4, <1>5, <1>7, <2>1, <2>2 DEF NumInv
<1>15. LostInv'
  <2>1. conn.stale => sess'.stream = 0 /\ Uids(conn'.buf) \subseteq excused'
    BY <1>1, <1>8, <1>10 DEF LostInv
  <2>2. ~sess.on => Elems(sess'.pending) = {}
    BY DEF AgainEffect, LostInv
  <2>. QED
    BY <1>0, <1>1, <1>7, <2>1, <2>2 DEF LostInv
<1>16. FlightInv'
  <2>1. \A g \in flight' : Current(g)' /\ g.at = conn'.id => sess'.stream \in {0, g.failed}
    BY <1>0, <1>5, <1>10 DEF FlightInv
  <2>2. ASSUME NEW g \in flight', Newest(g)'
        PROVE  /\ ~conn'.stale => Below(conn'.buf, g.event.id)
               /\ Below(sess'.pending, g.event.id)
    <3>1. /\ g \in flight /\ g # f /\ Newest(g) /\ Current(g) /\ sess.on /\ Own(g.event)
          /\ g.event.id \in Nat /\ g.event.uid \in Nat
      BY <1>0, <1>6, <2>2, StateFields, EventFields DEF Newest, Current, NumInv
    <3>2. g.event.uid # f.event.uid
      BY <3>1 DEF FlightInv
    <3>3. f.event.id < g.event.id
      <4>1. f.event.id < sess.next /\ f.event.uid = f.event.id + (sent + 1 - sess.next)
        BY <1>2, <3>1 DEF Own
      <4>2. g.event.id + 1 = sess.next /\ g.event.uid = g.event.id + (sent + 1 - sess.next)
        BY <3>1 DEF Own, Newest
      <4>3. sess.next \in Nat /\ sent \in Nat
        BY StateFields
      <4>4. f.event.id # g.event.id
        BY <3>2, <4>1, <4>2
      <4>5. \A a, b, c \in Nat : a < c /\ b + 1 = c /\ a # b => a < b
        OBVIOUS
      <4>6. f.event.id \in Nat /\ g.event.id \in Nat
        BY <1>0, <3>1
      <4>. QED
        BY <4>1, <4>2, <4>3, <4>4, <4>5, <4>6
    <3>. QED
      BY <1>0, <1>9, <1>11, <3>1, <3>3 DEF FlightInv, Below
  <2>. QED
    BY <1>0, <1>6, <1>7, <2>1, <2>2 DEF FlightInv
<1>17. QueueInv'
  <2>1. ASSUME NEW e \in Elems(sess.pending), e.uid \notin raced' PROVE Waits(e)'
    <3>1. Waits(e)
      BY <1>1, <2>1 DEF QueueInv
    <3>2. sess.stream = 0 /\ sess'.stream = 0 /\ conn'.buf = conn.buf
      BY <1>8, <1>10, <3>1 DEF Waits
    <3>. QED
      BY <1>0, <1>1, <1>7, <3>1, <3>2 DEF Waits
  <2>2. ASSUME f.event.uid \notin raced', sess'.pending # sess.pending
        PROVE  \A e : e = f.event => Waits(e)'
    <3>1. /\ sess.on
          /\ \/ sess'.stream = 0
             \/ sess'.stream = sess.stream /\ (f.failed = 0 \/ sess.stream # f.failed)
          /\ conn'.buf = conn.buf
      BY <2>2 DEF AgainEffect
    <3>2. Newest(f)
      BY <1>3, <2>2, <3>1
    <3>3. sess'.stream = 0
      BY <3>1, <3>2 DEF FlightInv, Newest
    <3>. QED
      BY <1>0, <1>7, <3>1, <3>2, <3>3 DEF Waits, FlightInv
  <2>3. ASSUME NEW e \in Elems(sess'.pending), e.uid \notin raced' PROVE Waits(e)'
    BY <1>11, <2>1, <2>2, <2>3
  <2>. QED
    BY <1>0, <1>7, <1>11, <2>3 DEF QueueInv
<1>18. BufInv'
  <2>1. ~conn.stale => Ordered(conn.buf, raced')
    BY <1>1, OrderedMono DEF BufInv
  <2>2. ~conn.stale => Ordered(conn'.buf, raced')
    BY <1>0, <1>8, <2>1, AppendedElems
  <2>3. \A e \in Elems(conn'.buf) : e \in Elems(conn.buf) \/ e.uid \in raced'
    BY <1>8, <1>9
  <2>. QED
    BY <1>0, <1>1, <1>7, <2>2, <2>3 DEF BufInv
<1>19. MainInv'
  <2>1. ASSUME NEW u \in 1..sent, Safe(u) PROVE Safe(u)'
    <3>1. CASE ~sess.on
      BY <1>1, <3>1 DEF LostInv, Safe
    <3>2. CASE sess.on
      <4>1. u \in Uids(conn.buf) => u \in Uids(conn'.buf)
        BY <1>9, UidsElems
      <4>2. CASE u = f.event.uid
        BY <1>13, <3>2, <4>2 DEF Safe
      <4>3. CASE u # f.event.uid
        BY <1>0, <1>1, <1>11, <2>1, <4>1, <4>3 DEF Safe
      <4>. QED
        BY <4>2, <4>3
    <3>. QED
      BY <3>1, <3>2
  <2>2. ASSUME NEW u \in 1..sent, Replayable(u), ~Safe(u) PROVE Replayable(u)'
    <3>1. conn.here => conn'.buf = conn.buf
      BY <1>8, <2>2 DEF MainInv, Takes
    <3>. QED
      BY <1>0, <1>7, <2>2, <3>1 DEF Replayable
  <2>3. sess'.stream = conn'.id /\ conn'.here => sess.stream = conn.id /\ conn.here
    BY <1>0, <1>10, StateFields DEF LostInv
  <2>. QED
    BY <1>0, <2>1, <2>2, <2>3 DEF MainInv
<1>. QED
  BY <1>14, <1>15, <1>16, <1>17, <1>18, <1>19

(* A request to the client that is withdrawn. *)

Others(q, u) == Picked(q, {i \in 1..Len(q) : q[i].uid # u})

LEMMA OthersFacts ==
  ASSUME NEW E, NEW q \in Seq(E), NEW u
  PROVE  /\ Others(q, u) \in Seq(E) /\ Len(Others(q, u)) <= Len(q)
         /\ Elems(Others(q, u)) = {e \in Elems(q) : e.uid # u}
         /\ \A X : Ordered(q, X) => Ordered(Others(q, u), X)
<1>. DEFINE S == {i \in 1..Len(q) : q[i].uid # u}
<1>1. {q[i] : i \in S} = {e \in Elems(q) : e.uid # u}
  BY DEF Elems
<1>2. S \in SUBSET (1..Len(q)) /\ Others(q, u) = Picked(q, S)
  BY DEF Others
<1>. HIDE DEF S
<1>3. /\ Picked(q, S) \in Seq(E) /\ Len(Picked(q, S)) <= Len(q)
      /\ Elems(Picked(q, S)) = {q[i] : i \in S}
  BY <1>2, PickedFacts
<1>4. \A X : Ordered(q, X) => Ordered(Picked(q, S), X)
  BY <1>2, PickedFacts
<1>. QED
  BY <1>1, <1>2, <1>3, <1>4, Zenon

WithdrawEffect(u) ==
    /\ Shapes' /\ u \in asked /\ \A f \in flight : f.event.uid # u
    /\ Elems(sess'.replay) = {e \in Elems(sess.replay) : e.uid # u}
    /\ Elems(sess'.pending) = {e \in Elems(sess.pending) : e.uid # u}
    /\ Len(sess'.replay) <= Len(sess.replay) /\ Len(sess'.pending) <= Len(sess.pending)
    /\ \A X : Ordered(sess.replay, X) => Ordered(sess'.replay, X)
    /\ \A X : Ordered(sess.pending, X) => Ordered(sess'.pending, X)
    /\ sess'.on = sess.on /\ sess'.next = sess.next /\ sess'.stream = sess.stream
    /\ sess'.reopened = sess.reopened
    /\ asked' = asked \ {u} /\ excused' = excused \cup {u}
    /\ UNCHANGED <<conn, last, fresh, flight, sent, losses, got, raced, mixed>>

LEMMA WithdrawEffects ==
  ASSUME Shapes, NEW u, Withdraw(u)
  PROVE  WithdrawEffect(u)
<1>1. PICK s, r, q : s = sess /\ r = Others(sess.replay, u) /\ q = Others(sess.pending, u)
  OBVIOUS
<1>2. /\ sess.pending \in Seq(Events) /\ sess.replay \in Seq(Events)
  BY StateFields
<1>3. /\ r \in Seq(Events) /\ Len(r) <= Len(sess.replay)
      /\ Elems(r) = {e \in Elems(sess.replay) : e.uid # u}
      /\ \A X : Ordered(sess.replay, X) => Ordered(r, X)
  BY <1>1, <1>2, OthersFacts
<1>4. /\ q \in Seq(Events) /\ Len(q) <= Len(sess.pending)
      /\ Elems(q) = {e \in Elems(sess.pending) : e.uid # u}
      /\ \A X : Ordered(sess.pending, X) => Ordered(q, X)
  BY <1>1, <1>2, OthersFacts
<1>5. /\ u \in asked /\ \A f \in flight : f.event.uid # u
      /\ asked' = asked \ {u} /\ excused' = excused \cup {u}
      /\ UNCHANGED <<conn, last, fresh, flight, sent, losses, got, raced, mixed>>
      /\ sess' = [s EXCEPT !.replay = r, !.pending = q]
  BY <1>1, Zenon DEF Withdraw, Others
<1>6. s \in SessionStates
  BY <1>1 DEF Shapes
<1>7. PICK t : t = [s EXCEPT !.replay = r, !.pending = q]
  OBVIOUS
<1>8. /\ t \in SessionStates /\ t.replay = r /\ t.pending = q
      /\ t.on = s.on /\ t.next = s.next /\ t.stream = s.stream /\ t.reopened = s.reopened
  BY <1>3, <1>4, <1>6, <1>7 DEF SessionStates
<1>9. /\ sess' \in SessionStates /\ sess'.replay = r /\ sess'.pending = q
      /\ sess'.on = sess.on /\ sess'.next = sess.next /\ sess'.stream = sess.stream
      /\ sess'.reopened = sess.reopened
  BY <1>1, <1>5, <1>7, <1>8, Zenon
<1>10. Shapes'
  BY <1>5, <1>9, Zenon DEF Shapes
<1>. QED
  BY <1>3, <1>4, <1>5, <1>9, <1>10, Zenon DEF WithdrawEffect

LEMMA WithdrawStep ==
  ASSUME Shapes, Bounds, NEW u, WithdrawEffect(u)
  PROVE  Bounds' /\ (Core => Core')
<1>0. /\ Elems(sess'.replay) = {e \in Elems(sess.replay) : e.uid # u}
      /\ Elems(sess'.pending) = {e \in Elems(sess.pending) : e.uid # u}
      /\ sess'.on = sess.on /\ sess'.next = sess.next /\ sess'.stream = sess.stream
      /\ sess'.reopened = sess.reopened
      /\ asked' = asked \ {u} /\ excused' = excused \cup {u}
      /\ u \in asked /\ \A f \in flight : f.event.uid # u
      /\ conn' = conn /\ last' = last /\ fresh' = fresh /\ flight' = flight /\ sent' = sent
      /\ losses' = losses /\ got' = got /\ raced' = raced
  BY DEF WithdrawEffect
<1>1. Bounds'
  <2>1. u \in 1..sent /\ excused' \subseteq 1..sent /\ asked' \subseteq 1..sent
    BY <1>0 DEF Bounds
  <2>2. Len(sess'.pending) <= PendingLimit /\ Len(sess'.replay) <= ReplayLimit
    <3>1. /\ sess'.pending \in Seq(Events) /\ sess'.replay \in Seq(Events)
      BY DEF WithdrawEffect, Shapes, SessionStates
    <3>2. /\ Len(sess'.pending) \in Nat /\ Len(sess'.replay) \in Nat
          /\ Len(sess.pending) \in Nat /\ Len(sess.replay) \in Nat
      BY <3>1, StateFields
    <3>. QED
      BY <3>2, Limits DEF WithdrawEffect, Bounds
  <2>. QED
    BY <1>0, <2>1, <2>2 DEF Bounds
<1>. SUFFICES ASSUME Core PROVE Core'
  BY <1>1
<1>. USE DEF Core
<1>4. \A e : Own(e)' <=> Own(e)
  BY <1>0 DEF Own
<1>5. \A g : (Current(g)' <=> Current(g)) /\ (Newest(g)' <=> Newest(g))
  BY <1>0 DEF Current, Newest
<1>7. (Known' <=> Known) /\ (Blind' <=> Blind)
  BY <1>0 DEF Known, Blind
<1>14. NumInv'
  BY <1>0, <1>4, <1>5, <1>7 DEF NumInv
<1>15. LostInv'
  BY <1>0, <1>7 DEF LostInv
<1>16. FlightInv'
  <2>1. \A f \in flight : Newest(f) =>
          /\ f.event \in Elems(sess'.replay)
          /\ Below(sess'.pending, f.event.id)
    BY <1>0 DEF FlightInv, Below
  <2>. QED
    BY <1>0, <1>5, <1>7, <2>1 DEF FlightInv
<1>17. QueueInv'
  <2>1. ASSUME NEW e \in Elems(sess'.pending), e.uid \notin raced' PROVE Waits(e)'
    <3>1. Waits(e) /\ e.uid # u
      BY <1>0, <2>1 DEF QueueInv
    <3>2. \/ e \in Elems(sess'.replay)
          \/ /\ e.uid \in excused'
             /\ \E d \in Elems(sess'.replay) : d.id > e.id /\ d.uid \notin asked'
      BY <1>0, <3>1 DEF Waits
    <3>. QED
      BY <1>0, <1>7, <3>1, <3>2 DEF Waits
  <2>2. Ordered(sess'.replay, {}) /\ (Blind => Ordered(sess'.pending, raced))
    BY DEF QueueInv, WithdrawEffect
  <2>. QED
    BY <1>0, <1>7, <2>1, <2>2 DEF QueueInv
<1>18. BufInv'
  BY <1>0, <1>7 DEF BufInv
<1>19. MainInv'
  <2>1. ASSUME NEW v \in 1..sent, Safe(v) PROVE Safe(v)'
    <3>1. v # u /\ v \in Uids(sess.pending) => v \in Uids(sess'.pending)
      BY <1>0, UidsElems
    <3>. QED
      BY <1>0, <2>1, <3>1 DEF Safe
  <2>2. ASSUME NEW v \in 1..sent, Replayable(v) PROVE Replayable(v)' \/ Safe(v)'
    <3>1. CASE v = u
      BY <1>0, <3>1 DEF Safe
    <3>2. CASE v # u
      BY <1>0, <1>7, <2>2, <3>2 DEF Replayable
    <3>. QED
      BY <3>1, <3>2
  <2>. QED
    BY <1>0, <2>1, <2>2 DEF MainInv
<1>. QED
  BY <1>14, <1>15, <1>16, <1>17, <1>18, <1>19

-----------------------------------------------------------------------------
(* The client. *)

\* A step of the client alone.
LEMMA SameSession ==
  ASSUME sess' = sess, sent' = sent, losses' = losses, conn'.id = conn.id
  PROVE  /\ \A e : Own(e)' <=> Own(e)
         /\ \A f : (Current(f)' <=> Current(f)) /\ (Newest(f)' <=> Newest(f))
  BY DEF Own, Current, Newest

ReadFirstEffect ==
    /\ Shapes' /\ conn.here /\ conn'.primed
    /\ conn'.id = conn.id /\ conn'.buf = conn.buf /\ conn'.open = conn.open
    /\ conn'.here = conn.here /\ conn'.stale = conn.stale
    /\ last' = 0 /\ fresh' = ~conn.stale
    /\ UNCHANGED <<sess, flight, sent, losses, asked, got, raced, mixed, excused>>

LEMMA ReadFirstEffects ==
  ASSUME Shapes, ReadFirst
  PROVE  ReadFirstEffect
<1>1. PICK c : c = conn
  OBVIOUS
<1>2. /\ conn.here /\ conn' = [c EXCEPT !.primed = TRUE] /\ last' = 0 /\ fresh' = ~conn.stale
      /\ UNCHANGED <<sess, flight, sent, losses, asked, got, raced, mixed, excused>>
  BY <1>1, Zenon DEF ReadFirst
<1>3. c \in Streams
  BY <1>1 DEF Shapes
<1>4. PICK d : d = [c EXCEPT !.primed = TRUE]
  OBVIOUS
<1>5. /\ d \in Streams /\ d.primed = TRUE /\ d.id = c.id /\ d.buf = c.buf /\ d.open = c.open
      /\ d.here = c.here /\ d.stale = c.stale
  BY <1>3, <1>4 DEF Streams
<1>6. /\ conn' \in Streams /\ conn'.primed = TRUE /\ conn'.id = conn.id /\ conn'.buf = conn.buf
      /\ conn'.open = conn.open /\ conn'.here = conn.here /\ conn'.stale = conn.stale
  BY <1>1, <1>2, <1>4, <1>5, Zenon
<1>7. last' \in Int /\ fresh' \in BOOLEAN
  BY <1>2
<1>8. Shapes'
  BY <1>2, <1>6, <1>7, Zenon DEF Shapes
<1>. QED
  BY <1>2, <1>6, <1>8, Zenon DEF ReadFirstEffect

LEMMA ReadFirstStep ==
  ASSUME Shapes, Bounds, ReadFirstEffect
  PROVE  Bounds' /\ (Core => Core')
<1>0. /\ conn'.id = conn.id /\ conn'.buf = conn.buf /\ conn'.open = conn.open
      /\ conn'.here = conn.here /\ conn'.stale = conn.stale /\ last' = 0
      /\ sess' = sess /\ flight' = flight /\ sent' = sent /\ losses' = losses
      /\ asked' = asked /\ got' = got /\ raced' = raced /\ excused' = excused
  BY DEF ReadFirstEffect
<1>1. Bounds'
  BY <1>0, Limits DEF Bounds
<1>. SUFFICES ASSUME Core PROVE Core'
  BY <1>1
<1>. USE DEF Core
<1>2. /\ \A e : Own(e)' <=> Own(e)
      /\ \A f : (Current(f)' <=> Current(f)) /\ (Newest(f)' <=> Newest(f))
  BY <1>0, SameSession
<1>3. /\ Known' <=> ~conn.stale
      /\ Blind' => Blind
      /\ Known => ~conn.stale
  <2>1. sess.next >= 1 /\ sess.next \in Nat
    BY StateFields DEF Bounds
  <2>2. Blind' => sess.reopened
    BY <1>0, <2>1 DEF Blind, None
  <2>3. fresh' <=> ~conn.stale
    BY DEF ReadFirstEffect
  <2>. QED
    BY <1>0, <2>2, <2>3 DEF Known, None, Blind, LostInv
<1>4. \A e \in Events : 0 < e.id
  BY EventFields
<1>5. \A e \in Elems(sess.replay) \cup Elems(sess.pending) \cup Elems(conn.buf) : 0 < e.id
  BY <1>4, StateFields
<1>14. NumInv'
  BY <1>0, <1>2, StateFields DEF NumInv, Bounds
<1>15. LostInv'
  <2>1. conn.stale => ~fresh'
    BY DEF ReadFirstEffect
  <2>. QED
    BY <1>0, <1>3, <2>1 DEF LostInv
<1>16. FlightInv'
  <2>1. \A f \in flight : 0 < f.event.id
    BY <1>4, StateFields
  <2>. QED
    BY <1>0, <1>2, <2>1 DEF FlightInv
<1>17. QueueInv'
  <2>1. \A e \in Elems(sess.pending) : Waits(e) => Waits(e)'
    BY <1>0, <1>5 DEF Waits
  <2>. QED
    BY <1>0, <1>3, <2>1 DEF QueueInv
<1>18. BufInv'
  BY <1>0, <1>5 DEF BufInv
<1>19. MainInv'
  <2>1. \A u : Safe(u)' <=> Safe(u)
    BY <1>0 DEF Safe
  <2>2. \A u : Replayable(u) => Replayable(u)'
    BY <1>0, <1>3, <1>5 DEF Replayable
  <2>. QED
    BY <1>0, <2>1, <2>2 DEF MainInv
<1>. QED
  BY <1>14, <1>15, <1>16, <1>17, <1>18, <1>19

ReadEffect ==
    /\ Shapes' /\ conn.here /\ conn.primed /\ Len(conn.buf) > 0
    /\ conn'.buf = Tail(conn.buf) /\ SameConn
    /\ last' = conn.buf[1].id /\ fresh' = ~conn.stale
    /\ got' = got \cup {conn.buf[1].uid}
    /\ UNCHANGED <<sess, flight, sent, losses, asked, raced, mixed, excused>>

LEMMA ReadEffects ==
  ASSUME Shapes, Read
  PROVE  ReadEffect
<1>1. PICK c, b : c = conn /\ b = Tail(conn.buf)
  OBVIOUS
<1>2. /\ conn.here /\ conn.primed /\ conn.buf # <<>>
      /\ conn' = [c EXCEPT !.buf = b] /\ last' = Head(conn.buf).id /\ fresh' = ~conn.stale
      /\ got' = got \cup {Head(conn.buf).uid}
      /\ UNCHANGED <<sess, flight, sent, losses, asked, raced, mixed, excused>>
  BY <1>1, Zenon DEF Read
<1>3. conn.buf \in Seq(Events) /\ Len(conn.buf) > 0 /\ c \in Streams
  <2>1. conn.buf \in Seq(Events) /\ c \in Streams
    BY <1>1, StateFields DEF Shapes
  <2>. QED
    BY <1>2, <2>1, EmptySeq
<1>4. b \in Seq(Events) /\ conn.buf[1] = Head(conn.buf) /\ Head(conn.buf) \in Events
  BY <1>1, <1>3, TailFacts
<1>5. PICK d : d = [c EXCEPT !.buf = b]
  OBVIOUS
<1>6. /\ d \in Streams /\ d.buf = b /\ d.id = c.id /\ d.open = c.open /\ d.here = c.here
      /\ d.primed = c.primed /\ d.stale = c.stale
  BY <1>3, <1>4, <1>5, Buffered, Zenon
<1>7. conn' \in Streams /\ conn'.buf = Tail(conn.buf) /\ SameConn
  BY <1>1, <1>2, <1>5, <1>6, Zenon DEF SameConn
<1>8. last' \in Int /\ fresh' \in BOOLEAN /\ last' = conn.buf[1].id
      /\ got' = got \cup {conn.buf[1].uid}
  BY <1>2, <1>4, EventFields
<1>9. Shapes'
  BY <1>2, <1>7, <1>8, Zenon DEF Shapes
<1>. QED
  BY <1>2, <1>3, <1>7, <1>8, <1>9, Zenon DEF ReadEffect

LEMMA ReadStep ==
  ASSUME Shapes, Bounds, ReadEffect
  PROVE  Bounds' /\ (Core => Core')
<1>. DEFINE e1 == conn.buf[1]
<1>0. /\ conn'.id = conn.id /\ conn'.open = conn.open /\ conn'.primed = conn.primed
      /\ conn'.here = conn.here /\ conn'.stale = conn.stale /\ last' = e1.id
      /\ got' = got \cup {e1.uid} /\ conn.here /\ conn.primed
      /\ sess' = sess /\ flight' = flight /\ sent' = sent /\ losses' = losses
      /\ asked' = asked /\ raced' = raced /\ excused' = excused
  BY DEF ReadEffect, SameConn
<1>1. /\ Elems(conn.buf) = Elems(conn'.buf) \cup {e1} /\ e1 \in Events
      /\ Len(conn'.buf) = Len(conn.buf) - 1
      /\ \A X : Ordered(conn.buf, X) => /\ Ordered(conn'.buf, X)
                                        /\ \A e \in Elems(conn'.buf) : e1.id < e.id \/ e.uid \in X
  BY StateFields, TailFacts DEF ReadEffect
<1>2. /\ e1.id \in Nat /\ e1.uid \in Nat /\ e1.id \in 1..MaxSends /\ e1.uid \in 1..sent
  BY <1>1, StateFields, EventFields DEF Bounds
<1>. HIDE DEF e1
<1>3. Bounds'
  <2>1. Len(conn'.buf) <= ChanCap
    <3>1. Len(conn.buf) \in Nat
      BY StateFields
    <3>. QED
      BY <1>1, <3>1, Limits DEF Bounds
  <2>2. -1 <= last' /\ last' <= MaxSends
    BY <1>0, <1>2, Limits
  <2>3. got' \subseteq 1..sent
    BY <1>0, <1>2 DEF Bounds
  <2>. QED
    BY <1>0, <1>1, <2>1, <2>2, <2>3 DEF Bounds
<1>. SUFFICES ASSUME Core PROVE Core'
  BY <1>3
<1>. USE DEF Core
<1>4. /\ \A e : Own(e)' <=> Own(e)
      /\ \A f : (Current(f)' <=> Current(f)) /\ (Newest(f)' <=> Newest(f))
  BY <1>0, SameSession
<1>5. fresh' <=> ~conn.stale
  BY DEF ReadEffect
<1>6. ~conn.stale => e1.id < sess.next
  BY <1>1 DEF NumInv, Own
<1>7. /\ Known' <=> ~conn.stale
      /\ Known => ~conn.stale
  BY <1>0, <1>2, <1>5 DEF Known, None, LostInv
<1>8. Blind' => Blind \/ Elems(sess.pending) = {}
  <2>1. CASE conn.stale
    BY <2>1 DEF LostInv, Blind
  <2>2. CASE ~conn.stale
    BY <1>0, <1>2, <1>6, <2>2, StateFields DEF Blind, None
  <2>. QED
    BY <2>1, <2>2
<1>14. NumInv'
  BY <1>0, <1>1, <1>4, <1>6, <1>7 DEF NumInv
<1>15. LostInv'
  <2>1. conn.stale => Uids(conn'.buf) \subseteq excused
    BY <1>1, UidsElems DEF LostInv
  <2>. QED
    BY <1>0, <1>5, <1>7, <2>1 DEF LostInv
<1>16. FlightInv'
  <2>1. \A f \in flight : Newest(f) /\ ~conn.stale =>
           e1.id < f.event.id /\ Below(conn'.buf, f.event.id)
    BY <1>1 DEF FlightInv, Below
  <2>. QED
    BY <1>0, <1>4, <1>7, <2>1 DEF FlightInv
<1>17. QueueInv'
  <2>1. \A e \in Elems(sess.pending) : Waits(e) => Waits(e)'
    BY <1>0, <1>1, <1>7 DEF Waits, Below
  <2>2. Elems(sess.pending) = {} => Ordered(sess.pending, raced)
    BY Position DEF Ordered
  <2>. QED
    BY <1>0, <1>8, <2>1, <2>2 DEF QueueInv
<1>18. BufInv'
  BY <1>0, <1>1, <1>7 DEF BufInv
<1>19. MainInv'
  <2>1. ASSUME NEW u, Safe(u) PROVE Safe(u)'
    <3>1. u \in Uids(conn.buf) => u \in Uids(conn'.buf) \/ u = e1.uid
      BY <1>1, UidsElems
    <3>. QED
      BY <1>0, <2>1, <3>1 DEF Safe
  <2>2. ASSUME NEW u, Replayable(u) PROVE Replayable(u)'
    <3>1. PICK e \in Elems(sess.replay) : e.uid = u /\ Below(conn.buf, e.id)
      BY <1>0, <2>2 DEF Replayable
    <3>2. e.id > e1.id /\ Below(conn'.buf, e.id)
      <4>1. e1.id < e.id
        BY <1>1, <3>1 DEF Below
      <4>2. e.id \in Nat
        BY StateFields, EventFields
      <4>. QED
        BY <1>1, <1>2, <3>1, <4>1, <4>2 DEF Below
    <3>3. Known'
      BY <1>7, <2>2 DEF Replayable
    <3>. QED
      BY <1>0, <3>1, <3>2, <3>3 DEF Replayable
  <2>. QED
    BY <1>0, <2>1, <2>2 DEF MainInv
<1>. QED
  BY <1>14, <1>15, <1>16, <1>17, <1>18, <1>19

\* The connection breaks, or the stream ends, or the server notices that it did.
LeaveEffect ==
    /\ Shapes' /\ conn'.id = conn.id /\ conn'.buf = conn.buf
    /\ conn'.primed = conn.primed /\ conn'.stale = conn.stale
    /\ conn'.open => conn.open
    /\ ~conn'.here
    /\ \/ excused' = excused /\ (conn.here => conn.buf = <<>>)
       \/ excused' = excused /\ (conn.primed \/ Known)
       \/ excused' = excused \cup Uids(conn.buf)
    /\ UNCHANGED <<sess, last, fresh, flight, sent, losses, asked, got, raced, mixed>>

LEMMA BreakEffects ==
  ASSUME Shapes, Break
  PROVE  LeaveEffect
<1>1. PICK c : c = conn
  OBVIOUS
<1>2. /\ conn' = [c EXCEPT !.here = FALSE]
      /\ UNCHANGED <<sess, last, fresh, flight, sent, losses, asked, got, raced, mixed>>
  BY <1>1, Zenon DEF Break
<1>3. \/ excused' = excused /\ (conn.primed \/ Known)
      \/ excused' = excused \cup Uids(conn.buf)
  BY Zenon DEF Break, Known
<1>4. PICK d : d = [c EXCEPT !.here = FALSE]
  OBVIOUS
<1>5. c \in Streams
  BY <1>1 DEF Shapes
<1>6. /\ d \in Streams /\ d.primed = c.primed /\ d.id = c.id /\ d.buf = c.buf /\ d.open = c.open
      /\ d.here = FALSE /\ d.stale = c.stale
  BY <1>4, <1>5 DEF Streams
<1>7. /\ conn' \in Streams /\ conn'.primed = conn.primed /\ conn'.id = conn.id
      /\ conn'.buf = conn.buf /\ conn'.open = conn.open /\ conn'.here = FALSE
      /\ conn'.stale = conn.stale
  BY <1>1, <1>2, <1>4, <1>6, Zenon
<1>8. Shapes'
  BY <1>2, <1>7, Zenon DEF Shapes
<1>. QED
  BY <1>2, <1>3, <1>7, <1>8, Zenon DEF LeaveEffect

LEMMA NoticeEffects ==
  ASSUME Shapes, Notice
  PROVE  LeaveEffect
<1>1. PICK c : c = conn
  OBVIOUS
<1>2. /\ conn' = [c EXCEPT !.open = FALSE] /\ ~conn.here
      /\ UNCHANGED <<sess, last, fresh, flight, sent, losses, asked, got, raced, mixed, excused>>
  BY <1>1, Zenon DEF Notice
<1>4. PICK d : d = [c EXCEPT !.open = FALSE]
  OBVIOUS
<1>5. c \in Streams
  BY <1>1 DEF Shapes
<1>6. /\ d \in Streams /\ d.primed = c.primed /\ d.id = c.id /\ d.buf = c.buf /\ d.open = FALSE
      /\ d.here = c.here /\ d.stale = c.stale
  BY <1>4, <1>5 DEF Streams
<1>7. /\ conn' \in Streams /\ conn'.primed = conn.primed /\ conn'.id = conn.id
      /\ conn'.buf = conn.buf /\ conn'.open = FALSE /\ conn'.here = conn.here
      /\ conn'.stale = conn.stale
  BY <1>1, <1>2, <1>4, <1>6, Zenon
<1>8. Shapes'
  BY <1>2, <1>7, Zenon DEF Shapes
<1>. QED
  BY <1>2, <1>7, <1>8, Zenon DEF LeaveEffect

LEMMA EndOfStreamEffects ==
  ASSUME Shapes, EndOfStream
  PROVE  LeaveEffect
<1>1. PICK c : c = conn
  OBVIOUS
<1>2. /\ conn' = [c EXCEPT !.here = FALSE, !.open = FALSE] /\ conn.buf = <<>>
      /\ UNCHANGED <<sess, last, fresh, flight, sent, losses, asked, got, raced, mixed, excused>>
  BY <1>1, Zenon DEF EndOfStream
<1>4. PICK d : d = [c EXCEPT !.here = FALSE, !.open = FALSE]
  OBVIOUS
<1>5. c \in Streams
  BY <1>1 DEF Shapes
<1>6. /\ d \in Streams /\ d.primed = c.primed /\ d.id = c.id /\ d.buf = c.buf /\ d.open = FALSE
      /\ d.here = FALSE /\ d.stale = c.stale
  BY <1>4, <1>5 DEF Streams
<1>7. /\ conn' \in Streams /\ conn'.primed = conn.primed /\ conn'.id = conn.id
      /\ conn'.buf = conn.buf /\ conn'.open = FALSE /\ conn'.here = FALSE
      /\ conn'.stale = conn.stale
  BY <1>1, <1>2, <1>4, <1>6, Zenon
<1>8. Shapes'
  BY <1>2, <1>7, Zenon DEF Shapes
<1>. QED
  BY <1>2, <1>7, <1>8, Zenon DEF LeaveEffect

LEMMA LeaveStep ==
  ASSUME Shapes, Bounds, LeaveEffect
  PROVE  Bounds' /\ (Core => Core')
<1>0. /\ conn'.id = conn.id /\ conn'.buf = conn.buf /\ conn'.primed = conn.primed
      /\ conn'.stale = conn.stale /\ ~conn'.here /\ (conn'.open => conn.open)
      /\ sess' = sess /\ flight' = flight /\ sent' = sent /\ losses' = losses
      /\ last' = last /\ fresh' = fresh /\ asked' = asked /\ got' = got /\ raced' = raced
  BY DEF LeaveEffect
<1>1. excused \subseteq excused' /\ excused' \subseteq excused \cup Uids(conn.buf)
  BY DEF LeaveEffect
<1>2. Bounds'
  <2>1. Uids(conn.buf) \subseteq 1..sent
    BY UidsElems, StateFields, EventFields DEF Bounds
  <2>2. excused' \subseteq 1..sent
    BY <1>1, <2>1 DEF Bounds
  <2>. QED
    BY <1>0, <2>2 DEF Bounds
<1>. SUFFICES ASSUME Core PROVE Core'
  BY <1>2
<1>. USE DEF Core
<1>4. /\ \A e : Own(e)' <=> Own(e)
      /\ \A f : (Current(f)' <=> Current(f)) /\ (Newest(f)' <=> Newest(f))
  BY <1>0, SameSession
<1>5. (Known' <=> Known) /\ (Blind' <=> Blind)
  BY <1>0 DEF Known, Blind
<1>14. NumInv'
  BY <1>0, <1>4, <1>5 DEF NumInv
<1>15. LostInv'
  BY <1>0, <1>1, <1>5 DEF LostInv
<1>16. FlightInv'
  BY <1>0, <1>4, <1>5 DEF FlightInv
<1>17. QueueInv'
  <2>1. \A e \in Elems(sess.pending) : Waits(e) => Waits(e)'
    BY <1>0, <1>1, <1>5 DEF Waits
  <2>. QED
    BY <1>0, <1>5, <2>1 DEF QueueInv
<1>18. BufInv'
  BY <1>0, <1>1, <1>5 DEF BufInv
<1>19. MainInv'
  <2>1. ASSUME NEW u, Replayable(u) PROVE Replayable(u)'
    BY <1>0, <1>5, <2>1 DEF Replayable
  <2>2. ASSUME NEW u, conn.here, u \in Uids(conn.buf) PROVE Safe(u)' \/ Replayable(u)'
    <3>1. CASE u \in excused'
      BY <3>1 DEF Safe
    <3>2. CASE excused' = excused /\ (conn.primed \/ Known) /\ u \notin excused
      <4>1. Known /\ ~conn.stale
        BY <2>2, <3>2 DEF LostInv, Known
      <4>2. PICK e \in Elems(conn.buf) : e.uid = u
        BY <2>2, UidsElems
      <4>3. u \in raced \/ (e \in Elems(sess.replay) /\ e.id > last)
        BY <3>2, <4>1, <4>2 DEF BufInv
      <4>4. u \in raced => Safe(u)'
        BY <1>0 DEF Safe
      <4>5. e \in Elems(sess.replay) /\ e.id > last => Replayable(u)'
        BY <1>0, <1>5, <4>1, <4>2 DEF Replayable
      <4>. QED
        BY <4>3, <4>4, <4>5
    <3>3. u \in excused' \/ (excused' = excused /\ (conn.primed \/ Known))
      BY <2>2, ElemsEmpty DEF LeaveEffect
    <3>. QED
      BY <3>1, <3>2, <3>3
  <2>3. ASSUME NEW u, Safe(u) PROVE Safe(u)' \/ Replayable(u)'
    <3>1. CASE u \in got \cup raced \cup excused \/ u \in Uids(sess.pending)
               \/ \E f \in flight : f.event.uid = u
      BY <1>0, <1>1, <3>1 DEF Safe
    <3>. QED
      BY <2>2, <2>3, <3>1 DEF Safe
  <2>. QED
    BY <1>0, <2>1, <2>3 DEF MainInv
<1>. QED
  BY <1>14, <1>15, <1>16, <1>17, <1>18, <1>19

-----------------------------------------------------------------------------
(* The session is lost and opened again. *)

LEMMA OpenedFacts ==
  ASSUME NEW b \in BOOLEAN
  PROVE  /\ Opened(b) \in SessionStates /\ Opened(b).on = TRUE /\ Opened(b).next = 1
         /\ Opened(b).pending = <<>> /\ Opened(b).replay = <<>> /\ Opened(b).stream = 0
         /\ Opened(b).reopened = b
<1>1. <<>> \in Seq(Events)
  OBVIOUS
<1>. QED
  BY <1>1 DEF Opened, SessionStates

LoseEffect ==
    /\ Shapes' /\ sess.on /\ losses < MaxLosses /\ losses' = losses + 1
    /\ ~sess'.on /\ sess'.next = 1 /\ sess'.pending = <<>> /\ sess'.replay = <<>>
    /\ sess'.stream = 0 /\ ~sess'.reopened
    /\ conn'.id = conn.id /\ conn'.buf = conn.buf /\ conn'.open = conn.open
    /\ conn'.here = conn.here /\ conn'.primed = conn.primed /\ conn'.stale
    /\ ~fresh' /\ excused' = 1..sent
    /\ UNCHANGED <<last, flight, sent, asked, got, raced, mixed>>

LEMMA LoseEffects ==
  ASSUME Shapes, Lose
  PROVE  LoseEffect
<1>1. PICK c : c = conn
  OBVIOUS
<1>2. /\ sess.on /\ losses < MaxLosses /\ losses' = losses + 1
      /\ sess' = [Opened(FALSE) EXCEPT !.on = FALSE] /\ conn' = [c EXCEPT !.stale = TRUE]
      /\ fresh' = FALSE /\ excused' = 1..sent
      /\ UNCHANGED <<last, flight, sent, asked, got, raced, mixed>>
  BY <1>1, Zenon DEF Lose
<1>3. PICK d, t : d = [c EXCEPT !.stale = TRUE] /\ t = [Opened(FALSE) EXCEPT !.on = FALSE]
  OBVIOUS
<1>4. c \in Streams
  BY <1>1 DEF Shapes
<1>5. /\ d \in Streams /\ d.primed = c.primed /\ d.id = c.id /\ d.buf = c.buf /\ d.open = c.open
      /\ d.here = c.here /\ d.stale = TRUE
  BY <1>3, <1>4 DEF Streams
<1>6. /\ t \in SessionStates /\ t.on = FALSE /\ t.next = 1 /\ t.pending = <<>>
      /\ t.replay = <<>> /\ t.stream = 0 /\ t.reopened = FALSE
  <2>1. PICK o : o = Opened(FALSE)
    OBVIOUS
  <2>2. /\ o \in SessionStates /\ o.on = TRUE /\ o.next = 1 /\ o.pending = <<>> /\ o.replay = <<>>
        /\ o.stream = 0 /\ o.reopened = FALSE
    BY <2>1, OpenedFacts
  <2>3. t = [o EXCEPT !.on = FALSE]
    BY <1>3, <2>1, Zenon
  <2>. QED
    BY <2>2, <2>3 DEF SessionStates
<1>7. /\ conn' \in Streams /\ conn'.primed = conn.primed /\ conn'.id = conn.id
      /\ conn'.buf = conn.buf /\ conn'.open = conn.open /\ conn'.here = conn.here
      /\ conn'.stale = TRUE
  BY <1>1, <1>2, <1>3, <1>5, Zenon
<1>8. /\ sess' \in SessionStates /\ sess'.on = FALSE /\ sess'.next = 1 /\ sess'.pending = <<>>
      /\ sess'.replay = <<>> /\ sess'.stream = 0 /\ sess'.reopened = FALSE
  BY <1>2, <1>3, <1>6, Zenon
<1>9. losses' \in Nat
  BY <1>2, StateFields
<1>10. Shapes'
  BY <1>2, <1>7, <1>8, <1>9, Zenon DEF Shapes
<1>. QED
  BY <1>2, <1>7, <1>8, <1>10, Zenon DEF LoseEffect

LEMMA LoseStep ==
  ASSUME Shapes, Bounds, LoseEffect
  PROVE  Bounds' /\ (Core => Core')
<1>0. /\ ~sess'.on /\ sess'.next = 1 /\ sess'.pending = <<>> /\ sess'.replay = <<>>
      /\ sess'.stream = 0 /\ ~sess'.reopened /\ losses' = losses + 1
      /\ conn'.id = conn.id /\ conn'.buf = conn.buf /\ conn'.open = conn.open
      /\ conn'.here = conn.here /\ conn'.stale /\ ~fresh' /\ excused' = 1..sent
      /\ last' = last /\ flight' = flight /\ sent' = sent /\ asked' = asked /\ got' = got
      /\ raced' = raced
  BY DEF LoseEffect
<1>1. /\ Elems(sess'.pending) = {} /\ Elems(sess'.replay) = {} /\ Uids(sess'.pending) = {}
      /\ Len(sess'.pending) = 0 /\ Len(sess'.replay) = 0
      /\ \A X : Ordered(sess'.pending, X) /\ Ordered(sess'.replay, X)
  BY <1>0, ElemsEmpty
<1>2. losses \in Nat /\ sent \in Nat /\ conn.id \in Nat
  BY StateFields
<1>3. \A f \in flight : f.era < losses + 1 /\ f.era <= losses + 1
  BY <1>2, StateFields DEF Bounds
<1>4. Bounds'
  <2>1. losses' <= MaxLosses
    BY <1>2, Limits DEF LoseEffect
  <2>2. sess'.next >= 1 /\ sess'.next <= sent + 1 /\ sess'.stream <= conn.id
    BY <1>0, <1>2
  <2>. QED
    BY <1>0, <1>1, <1>3, <2>1, <2>2, Limits DEF Bounds
<1>. SUFFICES ASSUME Core PROVE Core'
  BY <1>4
<1>. USE DEF Core
<1>5. \A f : ~Current(f)' /\ ~Newest(f)'
  BY <1>0 DEF Current, Newest
<1>6. ~Known'
  BY <1>0 DEF Known
<1>14. NumInv'
  BY <1>0, <1>1, <1>5, <1>6 DEF NumInv
<1>15. LostInv'
  <2>1. Uids(conn.buf) \subseteq 1..sent
    BY UidsElems, StateFields, EventFields DEF Bounds
  <2>. QED
    BY <1>0, <1>1, <1>3, <2>1 DEF LostInv
<1>16. FlightInv'
  BY <1>0, <1>5 DEF FlightInv
<1>17. QueueInv'
  BY <1>1 DEF QueueInv
<1>18. BufInv'
  BY <1>0 DEF BufInv
<1>19. MainInv'
  <2>1. \A u \in 1..sent : Safe(u)'
    BY <1>0 DEF Safe
  <2>. QED
    BY <1>0, <2>1 DEF MainInv
<1>. QED
  BY <1>14, <1>15, <1>16, <1>17, <1>18, <1>19

FirstEvent == [id |-> 1, uid |-> sent + 1]
FirstSend == [event |-> FirstEvent, failed |-> 0, at |-> conn.id, era |-> losses]

ReopenEffect ==
    /\ Shapes' /\ ~sess.on /\ sent < MaxSends /\ sent' = sent + 1
    /\ FirstEvent \in Events
    /\ sess'.on /\ sess'.next = 2 /\ sess'.pending = <<>> /\ sess'.replay = <<FirstEvent>>
    /\ sess'.stream = 0 /\ sess'.reopened
    /\ flight' = flight \cup {FirstSend}
    /\ UNCHANGED <<conn, last, fresh, losses, asked, got, raced, mixed, excused>>

LEMMA ReopenEffects ==
  ASSUME Shapes, Reopen
  PROVE  ReopenEffect
<1>1. PICK q : q = <<FirstEvent>>
  OBVIOUS
<1>2. /\ ~sess.on /\ sent < MaxSends /\ sent' = sent + 1
      /\ sess' = [Opened(TRUE) EXCEPT !.next = 2, !.replay = q]
      /\ flight' = flight \cup {FirstSend}
      /\ UNCHANGED <<conn, last, fresh, losses, asked, got, raced, mixed, excused>>
  BY <1>1, Zenon DEF Reopen, FirstEvent, FirstSend
<1>3. FirstEvent \in Events
  BY <1>2, StateFields, Limits DEF FirstEvent, Events
<1>4. FirstSend \in Sends
  BY <1>3, StateFields DEF FirstSend, Sends
<1>5. q \in Seq(Events)
  BY <1>1, <1>3
<1>6. PICK t : t = [Opened(TRUE) EXCEPT !.next = 2, !.replay = q]
  OBVIOUS
<1>7. /\ t \in SessionStates /\ t.on = TRUE /\ t.next = 2 /\ t.pending = <<>>
      /\ t.replay = q /\ t.stream = 0 /\ t.reopened = TRUE
  <2>1. PICK o : o = Opened(TRUE)
    OBVIOUS
  <2>2. /\ o \in SessionStates /\ o.on = TRUE /\ o.next = 1 /\ o.pending = <<>> /\ o.replay = <<>>
        /\ o.stream = 0 /\ o.reopened = TRUE
    BY <2>1, OpenedFacts
  <2>3. t = [o EXCEPT !.next = 2, !.replay = q]
    BY <1>6, <2>1, Zenon
  <2>. QED
    BY <1>5, <2>2, <2>3 DEF SessionStates
<1>8. /\ sess' \in SessionStates /\ sess'.on = TRUE /\ sess'.next = 2 /\ sess'.pending = <<>>
      /\ sess'.replay = <<FirstEvent>> /\ sess'.stream = 0 /\ sess'.reopened = TRUE
  BY <1>1, <1>2, <1>6, <1>7, Zenon
<1>9. sent' \in Nat /\ flight' \subseteq Sends
  BY <1>2, <1>4, StateFields DEF Shapes
<1>10. Shapes'
  BY <1>2, <1>8, <1>9, Zenon DEF Shapes
<1>. QED
  BY <1>2, <1>3, <1>8, <1>10, Zenon DEF ReopenEffect

LEMMA ReopenStep ==
  ASSUME Shapes, Bounds, ReopenEffect
  PROVE  Bounds' /\ (Core => Core')
<1>0. /\ ~sess.on /\ sent < MaxSends /\ sent' = sent + 1 /\ FirstEvent \in Events
      /\ sess'.on /\ sess'.next = 2 /\ sess'.pending = <<>> /\ sess'.replay = <<FirstEvent>>
      /\ sess'.stream = 0 /\ sess'.reopened
      /\ flight' = flight \cup {FirstSend}
      /\ conn' = conn /\ last' = last /\ fresh' = fresh /\ losses' = losses /\ asked' = asked
      /\ got' = got /\ raced' = raced /\ excused' = excused
  BY DEF ReopenEffect
<1>1. /\ Elems(sess'.pending) = {} /\ Uids(sess'.pending) = {} /\ Len(sess'.pending) = 0
      /\ \A X : Ordered(sess'.pending, X)
  BY <1>0, ElemsEmpty
<1>2. Elems(sess'.replay) = {FirstEvent} /\ Len(sess'.replay) = 1 /\ Ordered(sess'.replay, {})
  <2>1. PICK e : e = FirstEvent
    OBVIOUS
  <2>2. Elems(<<e>>) = {e} /\ Len(<<e>>) = 1 /\ Ordered(<<e>>, {})
    BY DEF Elems, Ordered
  <2>. QED
    BY <1>0, <2>1, <2>2
<1>3. losses \in Nat /\ sent \in Nat /\ conn.id \in Nat
  BY StateFields
<1>4. /\ FirstEvent.id = 1 /\ FirstEvent.uid = sent + 1 /\ FirstSend.event = FirstEvent
      /\ FirstSend.failed = 0 /\ FirstSend.at = conn.id /\ FirstSend.era = losses
  BY DEF FirstEvent, FirstSend
<1>5. \A f \in flight : f.event.uid <= sent /\ f.event.uid \in Nat
  BY StateFields, EventFields DEF Bounds
<1>6. Bounds'
  <2>1. /\ sess'.next >= 1 /\ sess'.next <= sent' + 1 /\ sent' <= MaxSends /\ sess'.stream <= conn.id
        /\ Len(sess'.pending) <= PendingLimit /\ Len(sess'.replay) <= ReplayLimit
    <3>1. sess'.next >= 1 /\ sent' <= MaxSends /\ sess'.stream <= conn.id
      BY <1>0, <1>3, Limits
    <3>2. Len(sess'.pending) <= PendingLimit /\ Len(sess'.replay) <= ReplayLimit
      BY <1>1, <1>2, Limits
    <3>3. sess'.next <= sent' + 1
      BY <1>0, <1>3
    <3>. QED
      BY <3>1, <3>2, <3>3
  <2>2. 1..sent \subseteq 1..sent'
    BY <1>0, <1>3
  <2>3. \A f \in flight' : /\ f.failed <= conn.id /\ f.at <= conn.id /\ f.era <= losses
                           /\ f.event.uid <= sent'
    <3>1. \A f \in flight : f.event.uid <= sent'
      BY <1>0, <1>3, <1>5
    <3>2. /\ FirstSend.failed <= conn.id /\ FirstSend.at <= conn.id /\ FirstSend.era <= losses
          /\ FirstSend.event.uid <= sent'
      BY <1>0, <1>3, <1>4
    <3>. QED
      BY <1>0, <3>1, <3>2 DEF Bounds
  <2>4. \A e \in Elems(sess'.replay) \cup Elems(sess'.pending) \cup Elems(conn.buf) : e.uid <= sent'
    <3>1. \A e \in Elems(conn.buf) : e.uid <= sent /\ e.uid \in Nat
      BY StateFields, EventFields DEF Bounds
    <3>. QED
      BY <1>0, <1>1, <1>2, <1>3, <1>4, <3>1
  <2>5. /\ asked' \subseteq 1..sent' /\ got' \subseteq 1..sent'
        /\ raced' \subseteq 1..sent' /\ excused' \subseteq 1..sent'
    BY <1>0, <2>2 DEF Bounds
  <2>. QED
    BY <1>0, <2>1, <2>3, <2>4, <2>5 DEF Bounds
<1>. SUFFICES ASSUME Core PROVE Core'
  BY <1>6
<1>. USE DEF Core
<1>7. conn.stale /\ ~fresh /\ 1..sent \subseteq excused
  BY <1>0 DEF LostInv
<1>8. \A f \in flight : ~Current(f)'
  <2>1. \A f \in flight : f.era < losses /\ f.era \in Nat
    BY <1>0, StateFields DEF LostInv
  <2>. QED
    BY <1>0, <1>3, <2>1 DEF Current
<1>9. ~Known'
  BY <1>0, <1>7 DEF Known
<1>10. \A e : e = FirstEvent => Own(e)'
  <2>1. 1 < 2 /\ sent + 1 = 1 + ((sent + 1) + 1 - 2)
    BY <1>3
  <2>. QED
    BY <1>0, <1>4, <2>1 DEF Own
<1>14. NumInv'
  <2>1. \A f \in flight' : Current(f)' => Own(f.event)'
    BY <1>0, <1>4, <1>8, <1>10
  <2>2. \A e \in Elems(sess'.replay) \cup Elems(sess'.pending) : Own(e)'
    BY <1>1, <1>2, <1>10
  <2>. QED
    BY <1>0, <1>7, <1>9, <2>1, <2>2 DEF NumInv
<1>15. LostInv'
  BY <1>0, <1>7 DEF LostInv
<1>16. FlightInv'
  <2>1. ASSUME NEW f \in flight', NEW g \in flight', f.event.uid = g.event.uid PROVE f = g
    <3>1. \A h \in flight : h.event.uid # FirstSend.event.uid
      BY <1>3, <1>4, <1>5
    <3>2. CASE f \in flight /\ g \in flight
      BY <2>1, <3>2 DEF FlightInv
    <3>. QED
      BY <1>0, <2>1, <3>1, <3>2
  <2>2. \A f \in flight' : Newest(f)' => f = FirstSend
    BY <1>0, <1>8 DEF Newest
  <2>3. FirstSend.event \in Elems(sess'.replay) /\ \A id : Below(sess'.pending, id)
    BY <1>1, <1>2, <1>4 DEF Below
  <2>. QED
    BY <1>0, <1>7, <1>9, <2>1, <2>2, <2>3 DEF FlightInv
<1>17. QueueInv'
  BY <1>1, <1>2 DEF QueueInv
<1>18. BufInv'
  BY <1>0, <1>7 DEF BufInv
<1>19. MainInv'
  <2>1. \A u \in 1..sent' : u \in 1..sent \/ u = sent + 1
    BY <1>0, <1>3
  <2>2. \E f \in flight' : f.event.uid = sent + 1
    BY <1>0, <1>4
  <2>3. \A u \in 1..sent' : Safe(u)'
    BY <1>0, <1>7, <2>1, <2>2 DEF Safe
  <2>. QED
    BY <2>3 DEF MainInv
<1>. QED
  BY <1>14, <1>15, <1>16, <1>17, <1>18, <1>19

-----------------------------------------------------------------------------
(* The client comes back. *)

LEMMA SplitAt ==
  ASSUME NEW q \in Seq(Events), NEW r \in 1..Len(q), NEW X, Ordered(q, X)
  PROVE  /\ q[r] \in Elems(SubSeq(q, 1, r))
         /\ \A e \in Elems(SubSeq(q, r + 1, Len(q))) : e.id > q[r].id \/ e.uid \in X
         /\ X = {} => \A e \in Elems(SubSeq(q, 1, r)) : e.id <= q[r].id
<1>1. /\ r \in 0..Len(q) /\ Len(q) \in Nat /\ r \in Nat /\ Len(SubSeq(q, 1, r)) = r
      /\ \A i \in 1..r : SubSeq(q, 1, r)[i] = q[i] /\ i \in 1..Len(q)
  OBVIOUS
<1>2. r \in 1..r
  OBVIOUS
<1>3. q[r] \in Elems(SubSeq(q, 1, r))
  BY <1>1, <1>2 DEF Elems
<1>4. \A e \in Elems(SubSeq(q, r + 1, Len(q))) : q[r].id < e.id \/ e.uid \in X
  BY <1>1, <1>3, SplitFacts
<1>5. \A e \in Elems(q) : e.id \in Nat
  BY ElemsType, EventFields
<1>6. \A e \in Elems(SubSeq(q, r + 1, Len(q))) : e \in Elems(q)
  BY <1>1, SplitFacts
<1>7. q[r] \in Elems(q)
  BY Position
<1>8. ASSUME X = {}, NEW e \in Elems(SubSeq(q, 1, r)) PROVE e.id <= q[r].id
  <2>1. PICK i \in 1..r : e = q[i]
    BY <1>1 DEF Elems
  <2>2. i < r => e.id < q[r].id
    BY <1>1, <1>8, <2>1 DEF Ordered
  <2>3. e.id \in Nat /\ q[r].id \in Nat
    BY <1>1, <1>5, <1>7, <2>1, Position
  <2>4. i < r \/ i = r
    BY <1>1
  <2>. QED
    BY <2>1, <2>2, <2>3, <2>4
<1>9. \A e \in Elems(SubSeq(q, r + 1, Len(q))) : e.id > q[r].id \/ e.uid \in X
  BY <1>4, <1>5, <1>6, <1>7
<1>. QED
  BY <1>3, <1>8, <1>9

\* What set_sse_sender works with: the events for the new stream, how many it takes,
\* those and the others, and what is queued.
Offered == IF KnownId = None THEN sess.pending ELSE After(KnownId)
Room == IF Len(Offered) < ChanCap THEN Len(Offered) ELSE ChanCap
Full == Room < Len(Offered)
Through == IF Room = 0 THEN KnownId ELSE Offered[Room].id
Taken == SubSeq(Offered, 1, Room)
Left == SubSeq(Offered, Room + 1, Len(Offered))
Rest ==
    IF KnownId = None
    THEN IF Full THEN Left ELSE <<>>
    ELSE IF Full THEN Pushed(sess.pending, PendingLimit, Offered[Room + 1])
    ELSE sess.pending

LEMMA OfferedFacts ==
  ASSUME Shapes, Bounds
  PROVE  /\ KnownId \in Int
         /\ Offered \in Seq(Events)
         /\ Elems(Offered) = IF KnownId = None THEN Elems(sess.pending)
                             ELSE {e \in Elems(sess.replay) : e.id > KnownId}
         /\ \A X : Ordered(IF KnownId = None THEN sess.pending ELSE sess.replay, X)
                      => Ordered(Offered, X)
         /\ Room \in 0..Len(Offered) /\ Room <= ChanCap /\ Len(Offered) \in Nat
         /\ Room = 0 => Len(Offered) = 0
<1>1. /\ sess.pending \in Seq(Events) /\ sess.replay \in Seq(Events) /\ last \in Int
  BY StateFields
<1>2. KnownId \in Int
  BY <1>1 DEF KnownId, None
<1>3. /\ Later(sess.replay, KnownId) \in Seq(Events)
      /\ Elems(Later(sess.replay, KnownId)) = {e \in Elems(sess.replay) : e.id > KnownId}
      /\ \A X : Ordered(sess.replay, X) => Ordered(Later(sess.replay, KnownId), X)
  BY <1>1, LaterFacts
<1>4. /\ Offered \in Seq(Events)
      /\ Elems(Offered) = IF KnownId = None THEN Elems(sess.pending)
                             ELSE {e \in Elems(sess.replay) : e.id > KnownId}
      /\ \A X : Ordered(IF KnownId = None THEN sess.pending ELSE sess.replay, X)
                      => Ordered(Offered, X)
  BY <1>1, <1>3 DEF Offered, After
<1>5. Len(Offered) \in Nat
  BY <1>4
<1>6. /\ Room \in 0..Len(Offered) /\ Room <= ChanCap
      /\ Room = 0 => Len(Offered) = 0
  BY <1>5, Limits DEF Room
<1>. QED
  BY <1>2, <1>4, <1>5, <1>6

LEMMA TakenFacts ==
  ASSUME Shapes, Bounds
  PROVE  /\ Taken \in Seq(Events) /\ Len(Taken) = Room /\ Left \in Seq(Events)
         /\ Elems(Offered) = Elems(Taken) \cup Elems(Left)
         /\ ~Full => Elems(Left) = {}
         /\ Full => Offered[Room + 1] \in Elems(Left)
         /\ Through \in Int
         /\ Room = 0 => Through = KnownId /\ Elems(Offered) = {} /\ ~Full
         /\ Room # 0 => Room \in 1..Len(Offered) /\ Through = Offered[Room].id
<1>1. /\ Offered \in Seq(Events) /\ Room \in 0..Len(Offered) /\ Len(Offered) \in Nat
      /\ Room = 0 => Len(Offered) = 0
  BY OfferedFacts
<1>2. /\ Taken \in Seq(Events) /\ Len(Taken) = Room /\ Left \in Seq(Events)
      /\ Len(Left) = Len(Offered) - Room
      /\ Elems(Offered) = Elems(Taken) \cup Elems(Left)
  BY <1>1, SplitFacts DEF Taken, Left
<1>3. ~Full => Elems(Left) = {}
  <2>1. ~Full => Len(Left) = 0
    BY <1>1, <1>2 DEF Full
  <2>. QED
    BY <2>1 DEF Elems
<1>4. ASSUME Full PROVE Offered[Room + 1] \in Elems(Left)
  <2>1. Len(Left) >= 1 /\ Room + 1 <= Len(Offered) /\ Len(Left) \in Nat /\ Room \in Nat
    BY <1>1, <1>2, <1>4 DEF Full
  <2>2. Left[1] = Offered[Room + 1]
    BY <1>1, <2>1 DEF Left
  <2>3. 1 \in 1..Len(Left)
    BY <2>1
  <2>. QED
    BY <2>2, <2>3, Position
<1>5. Room = 0 => Through = KnownId /\ Elems(Offered) = {} /\ ~Full
  BY <1>1 DEF Through, Full, Elems
<1>6. Room # 0 => Room \in 1..Len(Offered) /\ Through = Offered[Room].id
  BY <1>1 DEF Through
<1>7. Through \in Int
  <2>1. Room # 0 => Offered[Room] \in Events
    BY <1>1, <1>6
  <2>. QED
    BY <1>5, <1>6, <2>1, OfferedFacts, EventFields
<1>. QED
  BY <1>2, <1>3, <1>4, <1>5, <1>6, <1>7

LEMMA RestFacts ==
  ASSUME Shapes, Bounds
  PROVE  /\ Rest \in Seq(Events) /\ Len(Rest) <= PendingLimit
         /\ Elems(Rest) \subseteq Elems(sess.pending) \cup Elems(Left)
         /\ KnownId = None => /\ Elems(Rest) = Elems(Left)
                              /\ Ordered(Left, raced) => Ordered(Rest, raced)
         /\ KnownId # None /\ ~Full => Rest = sess.pending
         /\ KnownId # None /\ Full =>
               /\ Elems(Rest) \subseteq Elems(sess.pending) \cup {Offered[Room + 1]}
               /\ \A d \in Elems(sess.pending) :
                     d \in Elems(Rest) \/ d.uid \in Dropped(sess.pending, PendingLimit)
               /\ Dropped(sess.pending, PendingLimit) \subseteq Uids(sess.pending)
<1>1. /\ sess.pending \in Seq(Events) /\ Len(sess.pending) <= PendingLimit
      /\ PendingLimit \in Nat \ {0} /\ Len(sess.pending) \in Nat
  BY StateFields, Limits DEF Bounds
<1>2. CASE KnownId = None /\ Full
  <2>1. Rest = Left /\ Left \in Seq(Events)
    BY <1>2, TakenFacts DEF Rest
  <2>2. Len(Left) <= PendingLimit
    <3>1. Offered = sess.pending /\ Room \in 0..Len(Offered)
      BY <1>2, OfferedFacts DEF Offered
    <3>2. Len(Left) = Len(sess.pending) - Room
      BY <1>1, <3>1, SplitFacts DEF Left
    <3>. QED
      BY <1>1, <3>1, <3>2
  <2>. QED
    BY <1>2, <2>1, <2>2
<1>3. CASE KnownId = None /\ ~Full
  <2>1. Rest = <<>>
    BY <1>3 DEF Rest
  <2>2. /\ <<>> \in Seq(Events) /\ Len(<<>>) = 0 /\ Elems(<<>>) = {} /\ Ordered(<<>>, raced)
    BY ElemsEmpty
  <2>3. Elems(Left) = {}
    BY <1>3, TakenFacts
  <2>. QED
    BY <1>1, <1>3, <2>1, <2>2, <2>3
<1>4. CASE KnownId # None /\ ~Full
  BY <1>1, <1>4 DEF Rest
<1>5. CASE KnownId # None /\ Full
  <2>1. PICK x : x = Offered[Room + 1]
    OBVIOUS
  <2>2. x \in Elems(Left) /\ x \in Events
    BY <1>5, <2>1, TakenFacts, ElemsType
  <2>3. Rest = Pushed(sess.pending, PendingLimit, x)
    BY <1>5, <2>1 DEF Rest
  <2>4. /\ Rest \in Seq(Events) /\ Len(Rest) <= PendingLimit
        /\ Elems(Rest) \subseteq Elems(sess.pending) \cup {x}
        /\ \A d \in Elems(sess.pending) :
              d \in Elems(Rest) \/ d.uid \in Dropped(sess.pending, PendingLimit)
        /\ Dropped(sess.pending, PendingLimit) \subseteq Uids(sess.pending)
    BY <1>1, <2>2, <2>3, PushedFacts
  <2>. QED
    BY <1>5, <2>1, <2>2, <2>4
<1>. QED
  BY <1>2, <1>3, <1>4, <1>5

ConnectEffect ==
    /\ Shapes' /\ sess.on /\ ~conn.here /\ conn.id < MaxConnects
    /\ sess'.on = sess.on /\ sess'.next = sess.next /\ sess'.replay = sess.replay
    /\ ~sess'.reopened /\ sess'.stream = (IF Full THEN 0 ELSE conn.id + 1)
    /\ sess'.pending = Later(Rest, Through)
    /\ conn'.id = conn.id + 1 /\ conn'.buf = Taken
    /\ conn'.open /\ conn'.here /\ ~conn'.primed /\ ~conn'.stale
    /\ excused' = excused
           \cup (IF KnownId # None /\ Full THEN Dropped(sess.pending, PendingLimit) ELSE {})
           \cup (IF ~fresh /\ ~sess.reopened /\ KnownId # None THEN 1..sent ELSE {})
    /\ UNCHANGED <<last, fresh, flight, sent, losses, asked, got, raced, mixed>>

LEMMA ConnectEffects ==
  ASSUME Shapes, Bounds, Connect
  PROVE  ConnectEffect
<1>1. PICK s, p, b, n, m : /\ s = sess /\ p = Later(Rest, Through) /\ b = Taken
                           /\ n = conn.id + 1 /\ m = IF Full THEN 0 ELSE conn.id + 1
  OBVIOUS
<1>2. /\ sess.on /\ ~conn.here /\ conn.id < MaxConnects
      /\ sess' = [s EXCEPT !.reopened = FALSE, !.stream = m, !.pending = p]
      /\ conn' = [id |-> n, buf |-> b, open |-> TRUE, here |-> TRUE, primed |-> FALSE,
                  stale |-> FALSE]
      /\ excused' = excused
           \cup (IF KnownId # None /\ Full THEN Dropped(sess.pending, PendingLimit) ELSE {})
           \cup (IF ~fresh /\ ~sess.reopened /\ KnownId # None THEN 1..sent ELSE {})
      /\ UNCHANGED <<last, fresh, flight, sent, losses, asked, got, raced, mixed>>
  BY <1>1, Zenon DEF Connect, SetSseSender, Offered, Room, Full, Through, Taken, Left, Rest, Unsent
<1>3. /\ s \in SessionStates /\ p \in Seq(Events) /\ b \in Seq(Events) /\ n \in Nat /\ m \in Nat
  <2>1. p \in Seq(Events)
    BY <1>1, RestFacts, LaterFacts
  <2>2. b \in Seq(Events)
    BY <1>1, TakenFacts
  <2>. QED
    BY <1>1, <2>1, <2>2, StateFields DEF Shapes
<1>4. PICK t, d : /\ t = [s EXCEPT !.reopened = FALSE, !.stream = m, !.pending = p]
                  /\ d = [id |-> n, buf |-> b, open |-> TRUE, here |-> TRUE, primed |-> FALSE,
                          stale |-> FALSE]
  OBVIOUS
<1>5. /\ t \in SessionStates /\ t.on = s.on /\ t.next = s.next /\ t.replay = s.replay
      /\ t.reopened = FALSE /\ t.stream = m /\ t.pending = p
  BY <1>3, <1>4 DEF SessionStates
<1>6. /\ d \in Streams /\ d.id = n /\ d.buf = b /\ d.open = TRUE /\ d.here = TRUE
      /\ d.primed = FALSE /\ d.stale = FALSE
  BY <1>3, <1>4 DEF Streams
<1>7. /\ sess' \in SessionStates /\ sess'.on = sess.on /\ sess'.next = sess.next
      /\ sess'.replay = sess.replay /\ sess'.reopened = FALSE
      /\ sess'.stream = (IF Full THEN 0 ELSE conn.id + 1)
      /\ sess'.pending = Later(Rest, Through)
  BY <1>1, <1>2, <1>4, <1>5, Zenon
<1>8. /\ conn' \in Streams /\ conn'.id = conn.id + 1 /\ conn'.buf = Taken
      /\ conn'.open = TRUE /\ conn'.here = TRUE /\ conn'.primed = FALSE /\ conn'.stale = FALSE
  BY <1>1, <1>2, <1>4, <1>6, Zenon
<1>9. Shapes'
  BY <1>2, <1>7, <1>8, Zenon DEF Shapes
<1>. QED
  BY <1>2, <1>7, <1>8, <1>9, Zenon DEF ConnectEffect

LEMMA ConnectBounds ==
  ASSUME Shapes, Bounds, ConnectEffect
  PROVE  Bounds'
<1>0. /\ conn.id < MaxConnects /\ sess'.next = sess.next /\ sess'.replay = sess.replay
      /\ conn'.id = conn.id + 1 /\ conn'.buf = Taken /\ sess'.pending = Later(Rest, Through)
      /\ last' = last /\ flight' = flight /\ sent' = sent /\ losses' = losses
      /\ asked' = asked /\ got' = got /\ raced' = raced
  BY DEF ConnectEffect
<1>1. conn.id \in Nat /\ MaxConnects \in Nat /\ sent \in Nat
  BY StateFields, Limits
<1>2. /\ Elems(Offered) \subseteq Elems(sess.pending) \cup Elems(sess.replay)
      /\ Elems(Taken) \subseteq Elems(Offered) /\ Elems(Left) \subseteq Elems(Offered)
  BY OfferedFacts, TakenFacts
<1>3. /\ Len(sess'.pending) <= PendingLimit
      /\ Elems(sess'.pending) \subseteq Elems(sess.pending) \cup Elems(sess.replay)
  <2>1. /\ Rest \in Seq(Events) /\ Len(Rest) <= PendingLimit
        /\ Elems(Rest) \subseteq Elems(sess.pending) \cup Elems(sess.replay)
    BY <1>2, RestFacts
  <2>2. PICK p : p = Later(Rest, Through)
    OBVIOUS
  <2>3. p \in Seq(Events) /\ Len(p) <= Len(Rest) /\ Elems(p) \subseteq Elems(Rest)
    BY <2>1, <2>2, LaterFacts
  <2>4. Len(p) \in Nat /\ Len(Rest) \in Nat
    BY <2>1, <2>3
  <2>5. Len(p) <= PendingLimit
    BY <2>1, <2>3, <2>4, Limits
  <2>. QED
    BY <1>0, <2>1, <2>2, <2>3, <2>5
<1>4. Len(conn'.buf) <= ChanCap
  BY <1>0, TakenFacts, OfferedFacts
<1>5. sess'.stream <= conn'.id /\ conn'.id <= MaxConnects
  BY <1>0, <1>1 DEF ConnectEffect
<1>6. \A f \in flight : f.failed <= conn'.id /\ f.at <= conn'.id
  BY <1>0, <1>1, StateFields DEF Bounds
<1>7. excused' \subseteq 1..sent
  <2>1. KnownId # None /\ Full => Dropped(sess.pending, PendingLimit) \subseteq 1..sent
    BY RestFacts, UidsElems, StateFields, EventFields DEF Bounds
  <2>. QED
    BY <2>1 DEF ConnectEffect, Bounds
<1>. QED
  BY <1>0, <1>2, <1>3, <1>4, <1>5, <1>6, <1>7 DEF Bounds

\* With a usable id: the stream has taken exactly the events up to Through, and what
\* stays pending comes after it.
LEMMA KnownFacts ==
  ASSUME Shapes, Bounds, ConnectEffect, Ordered(sess.replay, {}), KnownId # None
  PROVE  /\ KnownId = last /\ last # None /\ ~sess.reopened /\ last < sess.next
         /\ Elems(conn'.buf) = {e \in Elems(sess.replay) : e.id > last /\ e.id <= Through}
         /\ last <= Through
         /\ ~Full => \A e \in Elems(sess.replay) : e.id <= Through
         /\ Full => Offered[Room + 1] \in Elems(sess.replay)
         /\ Ordered(conn'.buf, {})
         /\ Elems(sess'.pending) = {e \in Elems(Rest) : e.id > Through}
<1>1. KnownId = last /\ last # None /\ ~sess.reopened /\ last < sess.next
  BY StateFields DEF KnownId
<1>2. /\ Offered \in Seq(Events) /\ Ordered(Offered, {})
      /\ Elems(Offered) = {e \in Elems(sess.replay) : e.id > last}
      /\ Room \in 0..Len(Offered)
  BY <1>1, OfferedFacts
<1>3. \A e \in Elems(sess.replay) : e.id \in Nat
  BY StateFields, EventFields
<1>4. /\ Elems(Offered) = Elems(Taken) \cup Elems(Left) /\ Through \in Int /\ last \in Int
      /\ ~Full => Elems(Left) = {}
      /\ Full => Offered[Room + 1] \in Elems(Left)
      /\ Room = 0 => Through = last /\ Elems(Offered) = {} /\ ~Full
      /\ Room # 0 => Room \in 1..Len(Offered) /\ Through = Offered[Room].id
  BY <1>1, TakenFacts, StateFields
<1>5. conn'.buf = Taken /\ sess'.pending = Later(Rest, Through)
  BY DEF ConnectEffect
<1>6. ASSUME Room # 0
      PROVE  /\ Offered[Room] \in Elems(Taken)
             /\ \A e \in Elems(Left) : e.id > Through
             /\ \A e \in Elems(Taken) : e.id <= Through
  BY <1>2, <1>4, <1>6, SplitAt DEF Taken, Left
<1>7. last <= Through
  <2>1. CASE Room = 0
    BY <1>4, <2>1
  <2>2. CASE Room # 0
    <3>1. Offered[Room].id > last /\ Offered[Room].id \in Nat
      BY <1>2, <1>3, <1>4, <1>6, <2>2
    <3>. QED
      BY <1>4, <2>2, <3>1
  <2>. QED
    BY <2>1, <2>2
<1>8. Elems(Taken) = {e \in Elems(sess.replay) : e.id > last /\ e.id <= Through}
  <2>1. ASSUME NEW e \in Elems(Taken)
        PROVE  e \in Elems(sess.replay) /\ e.id > last /\ e.id <= Through
    <3>1. Room # 0
      BY <1>4
    <3>. QED
      BY <1>2, <1>4, <1>6, <3>1
  <2>2. ASSUME NEW e \in Elems(sess.replay), e.id > last, e.id <= Through PROVE e \in Elems(Taken)
    <3>1. e \in Elems(Offered)
      BY <1>2, <2>2
    <3>2. Room # 0
      BY <1>4, <3>1
    <3>3. e.id \in Nat
      BY <1>3
    <3>4. ~(e.id > Through)
      BY <1>4, <2>2, <3>3
    <3>. QED
      BY <1>4, <1>6, <3>1, <3>2, <3>4
  <2>. QED
    BY <2>1, <2>2
<1>9. ASSUME ~Full, NEW e \in Elems(sess.replay) PROVE e.id <= Through
  <2>1. CASE e.id > last
    <3>1. e \in Elems(Taken)
      BY <1>2, <1>4, <1>9, <2>1
    <3>. QED
      BY <1>8, <3>1
  <2>2. CASE ~(e.id > last)
    BY <1>3, <1>4, <1>7, <2>2
  <2>. QED
    BY <2>1, <2>2
<1>10. Full => Offered[Room + 1] \in Elems(sess.replay)
  BY <1>2, <1>4
<1>11. Ordered(Taken, {})
  BY <1>2, SplitFacts DEF Taken
<1>12. Elems(Later(Rest, Through)) = {e \in Elems(Rest) : e.id > Through}
  BY RestFacts, LaterFacts
<1>. QED
  BY <1>1, <1>5, <1>7, <1>8, <1>9, <1>10, <1>11, <1>12

\* Without one: the stream has taken the first of what was pending.
LEMMA BlindFacts ==
  ASSUME Shapes, Bounds, ConnectEffect, Ordered(sess.pending, raced), KnownId = None
  PROVE  /\ Elems(sess.pending) = Elems(conn'.buf) \cup Elems(Left)
         /\ Elems(sess'.pending) = {e \in Elems(Left) : e.id > Through}
         /\ ~Full => Elems(Left) = {}
         /\ \A e \in Elems(Left) : e.id > Through \/ e.uid \in raced
         /\ \A d \in Elems(conn'.buf), e \in Elems(Left) : d.id < e.id \/ e.uid \in raced
         /\ Ordered(conn'.buf, raced) /\ Ordered(sess'.pending, raced)
<1>1. /\ Offered \in Seq(Events) /\ Ordered(Offered, raced) /\ Offered = sess.pending
      /\ Room \in 0..Len(Offered)
  BY OfferedFacts DEF Offered
<1>2. /\ Elems(Offered) = Elems(Taken) \cup Elems(Left)
      /\ ~Full => Elems(Left) = {}
      /\ Room = 0 => Elems(Offered) = {}
      /\ Room # 0 => Room \in 1..Len(Offered) /\ Through = Offered[Room].id
  BY TakenFacts
<1>3. conn'.buf = Taken /\ sess'.pending = Later(Rest, Through)
  BY DEF ConnectEffect
<1>4. /\ Ordered(Taken, raced) /\ Ordered(Left, raced)
      /\ \A d \in Elems(Taken), e \in Elems(Left) : d.id < e.id \/ e.uid \in raced
  BY <1>1, SplitFacts DEF Taken, Left
<1>5. Room # 0 => \A e \in Elems(Left) : e.id > Through \/ e.uid \in raced
  BY <1>1, <1>2, SplitAt DEF Left
<1>6. /\ Elems(Later(Rest, Through)) = {e \in Elems(Left) : e.id > Through}
      /\ Ordered(Later(Rest, Through), raced)
  <2>1. Rest \in Seq(Events) /\ Elems(Rest) = Elems(Left) /\ Ordered(Rest, raced)
    BY <1>4, RestFacts
  <2>. QED
    BY <2>1, LaterFacts
<1>. QED
  BY <1>1, <1>2, <1>3, <1>4, <1>5, <1>6

\* What every reconnect does.
LEMMA ConnectCommon ==
  ASSUME Shapes, Bounds, Core, ConnectEffect,
         \A e \in Elems(sess'.pending) \cup Elems(conn'.buf) : Own(e)
  PROVE  NumInv' /\ LostInv' /\ FlightInv' /\ (Known' <=> Known)
<1>. USE DEF Core
<1>0. /\ sess'.on /\ sess.on /\ sess'.next = sess.next /\ sess'.replay = sess.replay
      /\ ~sess'.reopened /\ conn'.id = conn.id + 1 /\ ~conn'.primed /\ ~conn'.stale
      /\ last' = last /\ fresh' = fresh /\ flight' = flight /\ sent' = sent /\ losses' = losses
  BY DEF ConnectEffect
<1>1. \A e : Own(e)' <=> Own(e)
  BY <1>0 DEF Own
<1>2. \A f \in flight : f.at # conn'.id
  BY <1>0, StateFields DEF Bounds
<1>3. Known' <=> Known
  BY <1>0 DEF Known
<1>4. \A f : Current(f)' <=> Current(f)
  BY <1>0 DEF Current
<1>5. NumInv'
  BY <1>0, <1>1, <1>3, <1>4 DEF NumInv
<1>6. LostInv'
  <2>1. conn'.id > 0
    BY <1>0, StateFields
  <2>. QED
    BY <1>0, <2>1 DEF LostInv
<1>7. FlightInv'
  BY <1>0, <1>2 DEF FlightInv, Newest
<1>. QED
  BY <1>3, <1>5, <1>6, <1>7

LEMMA ConnectKnown ==
  ASSUME Shapes, Bounds, Core, ConnectEffect, KnownId # None
  PROVE  Core'
<1>. USE DEF Core
<1>0. /\ sess'.next = sess.next /\ sess'.replay = sess.replay /\ ~sess'.reopened
      /\ sess'.stream = (IF Full THEN 0 ELSE conn.id + 1)
      /\ conn'.id = conn.id + 1 /\ conn'.here /\ ~conn.here /\ sess.on
      /\ last' = last /\ fresh' = fresh /\ flight' = flight /\ sent' = sent /\ losses' = losses
      /\ asked' = asked /\ got' = got /\ raced' = raced
  BY DEF ConnectEffect
<1>1. /\ last # None /\ ~sess.reopened /\ last < sess.next /\ last <= Through
      /\ Elems(conn'.buf) = {e \in Elems(sess.replay) : e.id > last /\ e.id <= Through}
      /\ ~Full => \A e \in Elems(sess.replay) : e.id <= Through
      /\ Full => Offered[Room + 1] \in Elems(sess.replay)
      /\ Ordered(conn'.buf, {})
      /\ Elems(sess'.pending) = {e \in Elems(Rest) : e.id > Through}
  BY KnownFacts DEF QueueInv
<1>2. /\ excused \subseteq excused'
      /\ Full => Dropped(sess.pending, PendingLimit) \subseteq excused'
      /\ ~fresh => 1..sent \subseteq excused'
  BY <1>1 DEF ConnectEffect
<1>3. /\ ~Full => Elems(Rest) = Elems(sess.pending)
      /\ Full => /\ \A e \in Elems(Rest) : e \in Elems(sess.pending) \/ e \in Elems(sess.replay)
                 /\ \A d \in Elems(sess.pending) :
                       d \in Elems(Rest) \/ d.uid \in excused'
  BY <1>1, <1>2, RestFacts
<1>4. /\ \A e \in Elems(sess.replay) \cup Elems(sess.pending) : e.id \in Nat /\ Own(e)
      /\ Through \in Int /\ last \in Int /\ conn.id \in Nat
  BY StateFields, EventFields, OwnFacts, TakenFacts
<1>5. NumInv' /\ LostInv' /\ FlightInv' /\ (Known' <=> Known)
  <2>1. \A e \in Elems(sess'.pending) \cup Elems(conn'.buf) : Own(e)
    BY <1>1, <1>3, <1>4
  <2>. QED
    BY <2>1, ConnectCommon
\* What is still pending after the new stream took all there was had been overtaken.
<1>6. ASSUME NEW e \in Elems(sess'.pending), e.uid \notin raced
      PROVE  /\ Full /\ e.id > Through /\ e.id \in Nat
             /\ \/ e \in Elems(sess.replay)
                \/ /\ e.uid \in excused
                   /\ \E d \in Elems(sess.replay) : d.id > e.id /\ d.uid \notin asked
  <2>1. e \in Elems(Rest) /\ e.id > Through
    BY <1>1, <1>6
  <2>2. e \in Elems(sess.pending) \/ e \in Elems(sess.replay)
    BY <1>3, <2>1
  <2>3. \/ e \in Elems(sess.replay)
        \/ /\ e.uid \in excused
           /\ \E d \in Elems(sess.replay) : d.id > e.id /\ d.uid \notin asked
    BY <1>6, <2>2 DEF QueueInv, Waits
  <2>4. ASSUME ~Full PROVE FALSE
    <3>1. CASE e \in Elems(sess.replay)
      BY <1>1, <1>4, <2>1, <2>4, <3>1
    <3>2. CASE \E d \in Elems(sess.replay) : d.id > e.id
      <4>1. PICK d \in Elems(sess.replay) : d.id > e.id
        BY <3>2
      <4>2. d.id <= Through /\ d.id \in Nat /\ e.id \in Nat
        BY <1>1, <1>4, <2>2, <2>4
      <4>. QED
        BY <1>4, <2>1, <4>1, <4>2
    <3>. QED
      BY <2>3, <3>1, <3>2
  <2>. QED
    BY <1>4, <2>1, <2>2, <2>3, <2>4
<1>7. QueueInv'
  <2>1. ~Blind'
    BY <1>0, <1>1, <1>4, StateFields DEF Blind
  <2>2. ASSUME NEW e \in Elems(sess'.pending), e.uid \notin raced' PROVE Waits(e)'
    <3>1. /\ Full /\ e.id > Through /\ e.id \in Nat
          /\ \/ e \in Elems(sess.replay)
             \/ /\ e.uid \in excused
                /\ \E d \in Elems(sess.replay) : d.id > e.id /\ d.uid \notin asked
      BY <1>0, <1>6, <2>2
    <3>2. Below(conn'.buf, e.id)
      <4>1. ASSUME NEW d \in Elems(conn'.buf) PROVE d.id < e.id
        <5>1. d.id <= Through /\ d.id \in Nat
          BY <1>1, <1>4
        <5>. QED
          BY <1>4, <3>1, <5>1
      <4>. QED
        BY <4>1 DEF Below
    <3>3. last' < e.id
      BY <1>0, <1>1, <1>4, <3>1
    <3>. QED
      BY <1>0, <1>2, <3>1, <3>2, <3>3 DEF Waits
  <2>. QED
    BY <1>0, <2>1, <2>2 DEF QueueInv
<1>8. BufInv'
  <2>1. Ordered(conn'.buf, raced')
    BY <1>1, OrderedMono
  <2>. QED
    BY <1>0, <1>1, <2>1 DEF BufInv
<1>9. ASSUME NEW u \in 1..sent PROVE Safe(u)' \/ (Full /\ Replayable(u)')
  <2>1. CASE ~fresh
    BY <1>2, <2>1 DEF Safe
  <2>2. CASE fresh /\ u \in got \cup raced \cup excused
    BY <1>0, <1>2, <2>2 DEF Safe
  <2>3. CASE fresh /\ \E f \in flight : f.event.uid = u
    BY <1>0, <2>3 DEF Safe
  <2>4. CASE fresh /\ u \in Uids(sess.pending) /\ u \notin raced
    <3>1. PICK e \in Elems(sess.pending) : e.uid = u
      BY <2>4, UidsElems
    <3>2. Waits(e) /\ last < e.id
      BY <1>1, <2>4, <3>1 DEF QueueInv, Waits, Known
    <3>3. CASE e.id > Through
      <4>1. e \in Elems(Rest) \/ u \in excused'
        BY <1>3, <3>1
      <4>2. e \in Elems(Rest) => u \in Uids(sess'.pending)
        BY <1>1, <3>1, <3>3, UidsElems
      <4>. QED
        BY <4>1, <4>2 DEF Safe
    <3>4. CASE ~(e.id > Through)
      <4>1. e.id <= Through /\ e.id > last
        BY <1>4, <3>2, <3>4
      <4>2. CASE e \in Elems(sess.replay)
        <5>1. e \in Elems(conn'.buf)
          BY <1>1, <4>1, <4>2
        <5>2. u \in Uids(conn'.buf)
          BY <3>1, <5>1, UidsElems
        <5>. QED
          BY <1>0, <5>2 DEF Safe
      <4>3. CASE u \in excused
        BY <1>2, <4>3 DEF Safe
      <4>. QED
        BY <3>1, <3>2, <4>2, <4>3 DEF Waits
    <3>. QED
      BY <3>3, <3>4
  <2>5. CASE fresh /\ Replayable(u)
    <3>1. PICK e \in Elems(sess.replay) : e.uid = u /\ e.id > last
      BY <2>5 DEF Replayable
    <3>2. CASE e.id <= Through
      <4>1. u \in Uids(conn'.buf)
        BY <1>1, <3>1, <3>2, UidsElems
      <4>. QED
        BY <1>0, <4>1 DEF Safe
    <3>3. CASE ~(e.id <= Through)
      <4>1. Full
        BY <1>1, <3>3
      <4>2. Below(conn'.buf, e.id)
        <5>1. ASSUME NEW d \in Elems(conn'.buf) PROVE d.id < e.id
          <6>1. d.id <= Through /\ d.id \in Nat /\ e.id \in Nat
            BY <1>1, <1>4
          <6>. QED
            BY <1>4, <3>3, <6>1
        <5>. QED
          BY <5>1 DEF Below
      <4>3. Known'
        BY <1>5, <2>5 DEF Replayable
      <4>. QED
        BY <1>0, <3>1, <4>1, <4>2, <4>3 DEF Replayable
    <3>. QED
      BY <3>2, <3>3
  <2>6. Safe(u) \/ Replayable(u)
    BY DEF MainInv
  <2>. QED
    BY <1>0, <2>1, <2>2, <2>3, <2>4, <2>5, <2>6 DEF Safe
<1>10. MainInv'
  <2>1. sess'.stream = conn'.id => ~Full
    BY <1>0, <1>4
  <2>. QED
    BY <1>0, <1>9, <2>1 DEF MainInv
<1>. QED
  BY <1>5, <1>7, <1>8, <1>10

LEMMA ConnectBlind ==
  ASSUME Shapes, Bounds, Core, ConnectEffect, KnownId = None
  PROVE  Core'
<1>. USE DEF Core
<1>0. /\ sess'.next = sess.next /\ sess'.replay = sess.replay /\ ~sess'.reopened
      /\ sess'.stream = (IF Full THEN 0 ELSE conn.id + 1)
      /\ conn'.id = conn.id + 1 /\ conn'.here /\ ~conn.here /\ sess.on
      /\ last' = last /\ fresh' = fresh /\ flight' = flight /\ sent' = sent /\ losses' = losses
      /\ asked' = asked /\ got' = got /\ raced' = raced /\ excused \subseteq excused'
  BY DEF ConnectEffect
<1>1. Blind /\ ~Known
  <2>1. Blind
    BY DEF KnownId, Blind
  <2>2. ~Known
    BY <2>1, StateFields DEF Known, Blind, NumInv, LostInv
  <2>. QED
    BY <2>1, <2>2
<1>2. /\ Elems(sess.pending) = Elems(conn'.buf) \cup Elems(Left)
      /\ Elems(sess'.pending) = {e \in Elems(Left) : e.id > Through}
      /\ ~Full => Elems(Left) = {}
      /\ \A e \in Elems(Left) : e.id > Through \/ e.uid \in raced
      /\ \A d \in Elems(conn'.buf), e \in Elems(Left) : d.id < e.id \/ e.uid \in raced
      /\ Ordered(conn'.buf, raced) /\ Ordered(sess'.pending, raced)
  BY <1>1, BlindFacts DEF QueueInv
<1>3. NumInv' /\ LostInv' /\ FlightInv' /\ (Known' <=> Known)
  <2>1. \A e \in Elems(sess'.pending) \cup Elems(conn'.buf) : Own(e)
    BY <1>2, OwnFacts
  <2>. QED
    BY <2>1, ConnectCommon
<1>4. QueueInv'
  <2>1. ASSUME NEW e \in Elems(sess'.pending), e.uid \notin raced' PROVE Waits(e)'
    <3>1. e \in Elems(sess.pending) /\ e \in Elems(Left) /\ Waits(e) /\ Full
      BY <1>0, <1>2, <2>1 DEF QueueInv
    <3>2. Below(conn'.buf, e.id)
      BY <1>0, <1>2, <2>1, <3>1 DEF Below
    <3>. QED
      BY <1>0, <1>1, <1>3, <3>1, <3>2 DEF Waits
  <2>. QED
    BY <1>0, <1>2, <2>1 DEF QueueInv
<1>5. BufInv'
  <2>1. \A e \in Elems(conn'.buf) : e.uid \in raced \cup excused \/ e \in Elems(sess.replay)
    BY <1>2 DEF QueueInv, Waits
  <2>. QED
    BY <1>0, <1>1, <1>2, <1>3, <2>1 DEF BufInv
<1>6. ASSUME NEW u \in 1..sent PROVE Safe(u)'
  <2>1. Safe(u)
    BY <1>1 DEF MainInv, Replayable
  <2>2. CASE u \in Uids(sess.pending)
    <3>1. PICK e \in Elems(sess.pending) : e.uid = u
      BY <2>2, UidsElems
    <3>2. CASE e \in Elems(conn'.buf)
      <4>1. u \in Uids(conn'.buf)
        BY <3>1, <3>2, UidsElems
      <4>. QED
        BY <1>0, <4>1 DEF Safe
    <3>3. CASE e \in Elems(Left)
      <4>1. e \in Elems(sess'.pending) => u \in Uids(sess'.pending)
        BY <3>1, UidsElems
      <4>. QED
        BY <1>0, <1>2, <3>1, <3>3, <4>1 DEF Safe
    <3>. QED
      BY <1>2, <3>2, <3>3
  <2>3. CASE u \notin Uids(sess.pending)
    BY <1>0, <2>1, <2>3 DEF Safe
  <2>. QED
    BY <2>2, <2>3
<1>7. MainInv'
  BY <1>0, <1>6 DEF MainInv
<1>. QED
  BY <1>3, <1>4, <1>5, <1>7

-----------------------------------------------------------------------------
(* The theorems. *)

LEMMA DeliveryInit == Init => DeliveryInv
<1>. SUFFICES ASSUME Init PROVE DeliveryInv
  OBVIOUS
<1>1. PICK o : o = Opened(FALSE)
  OBVIOUS
<1>2. /\ o \in SessionStates /\ o.on = TRUE /\ o.next = 1 /\ o.pending = <<>> /\ o.replay = <<>>
      /\ o.stream = 0 /\ o.reopened = FALSE
  BY <1>1, OpenedFacts
<1>3. /\ sess \in SessionStates /\ sess.on = TRUE /\ sess.next = 1 /\ sess.pending = <<>>
      /\ sess.replay = <<>> /\ sess.stream = 0 /\ sess.reopened = FALSE
  BY <1>1, <1>2, Zenon DEF Init
<1>4. /\ conn \in Streams /\ conn.id = 0 /\ conn.buf = <<>> /\ ~conn.open /\ ~conn.here
      /\ ~conn.primed /\ ~conn.stale
  <2>1. <<>> \in Seq(Events)
    OBVIOUS
  <2>2. conn = [id |-> 0, buf |-> <<>>, open |-> FALSE, here |-> FALSE, primed |-> FALSE,
                stale |-> FALSE]
    BY DEF Init
  <2>. QED
    BY <2>1, <2>2 DEF Streams
<1>5. /\ last = -1 /\ fresh = TRUE /\ flight = {} /\ sent = 0 /\ losses = 0 /\ asked = {}
      /\ got = {} /\ raced = {} /\ excused = {} /\ mixed = FALSE
  BY DEF Init, None
<1>6. Elems(<<>>) = {} /\ Uids(<<>>) = {} /\ Len(<<>>) = 0 /\ \A X : Ordered(<<>>, X)
  BY ElemsEmpty
<1>7. Shapes
  <2>1. fresh \in BOOLEAN /\ mixed \in BOOLEAN
    BY <1>5, Zenon
  <2>2. last \in Int /\ sent \in Nat /\ losses \in Nat /\ flight \subseteq Sends
    BY <1>5
  <2>. QED
    BY <1>3, <1>4, <2>1, <2>2, Zenon DEF Shapes
<1>8. Bounds
  BY <1>3, <1>4, <1>5, <1>6, Limits DEF Bounds
<1>9. ~Known
  BY <1>5 DEF Known, None
<1>10. NumInv
  BY <1>3, <1>4, <1>5, <1>6, <1>9 DEF NumInv
<1>11. LostInv
  BY <1>3, <1>4, <1>5 DEF LostInv
<1>12. FlightInv
  BY <1>5 DEF FlightInv
<1>13. QueueInv
  BY <1>3, <1>6 DEF QueueInv
<1>14. BufInv
  BY <1>4, <1>6 DEF BufInv
<1>15. MainInv
  BY <1>5 DEF MainInv
<1>. QED
  BY <1>7, <1>8, <1>10, <1>11, <1>12, <1>13, <1>14, <1>15 DEF DeliveryInv, Core

LEMMA DeliveryStutter ==
  ASSUME DeliveryInv, UNCHANGED vars
  PROVE  DeliveryInv'
<1>. USE DEF vars
<1>1. Shapes'
  BY DEF DeliveryInv, Shapes
<1>2. Bounds'
  BY DEF DeliveryInv, Bounds
<1>3. ASSUME Core PROVE Core'
  <2>1. NumInv'
    BY <1>3 DEF Core, NumInv, Own, Current, Known
  <2>2. LostInv'
    BY <1>3 DEF Core, LostInv, Known
  <2>3. FlightInv'
    BY <1>3 DEF Core, FlightInv, Current, Newest, Known
  <2>4. QueueInv'
    BY <1>3 DEF Core, QueueInv, Blind, Waits, Known
  <2>5. BufInv'
    BY <1>3 DEF Core, BufInv, Known
  <2>6. MainInv'
    BY <1>3 DEF Core, MainInv, Safe, Replayable, Known
  <2>. QED
    BY <2>1, <2>2, <2>3, <2>4, <2>5, <2>6 DEF Core
<1>. QED
  BY <1>1, <1>2, <1>3 DEF DeliveryInv

LEMMA DeliveryNext ==
  ASSUME DeliveryInv, Next
  PROVE  DeliveryInv'
<1>. USE DEF DeliveryInv
<1>1. ASSUME TargetedEffect PROVE DeliveryInv'
  <2>1. Shapes' /\ mixed' = mixed
    BY <1>1 DEF TargetedEffect
  <2>. QED
    BY <1>1, <2>1, TargetedBounds, TargetedStep
<1>2. ASSUME BroadcastEffect PROVE DeliveryInv'
  <2>1. Shapes' /\ mixed' = mixed
    BY <1>2 DEF BroadcastEffect
  <2>. QED
    BY <1>2, <2>1, BroadcastBounds, BroadcastStep
<1>3. ASSUME NEW request \in BOOLEAN, SendTargeted(request) PROVE DeliveryInv'
  BY <1>1, <1>3, TargetedEffects
<1>4. CASE Broadcast
  BY <1>1, <1>2, <1>4, BroadcastEffects
<1>5. ASSUME NEW f \in flight, SendAgain(f) PROVE DeliveryInv'
  <2>1. AgainEffect(f)
    BY <1>5, AgainEffects
  <2>2. Shapes' /\ (mixed => mixed')
    BY <2>1 DEF AgainEffect
  <2>3. Bounds'
    BY <2>1, AgainBounds
  <2>4. ~mixed' => Core'
    BY <2>1, <2>2, AgainStep
  <2>. QED
    BY <2>2, <2>3, <2>4
<1>6. ASSUME NEW u \in asked, Withdraw(u) PROVE DeliveryInv'
  <2>1. WithdrawEffect(u)
    BY <1>6, WithdrawEffects
  <2>2. Shapes' /\ mixed' = mixed
    BY <2>1 DEF WithdrawEffect
  <2>. QED
    BY <2>1, <2>2, WithdrawStep
<1>7. CASE Connect
  <2>1. ConnectEffect
    BY <1>7, ConnectEffects
  <2>2. Shapes' /\ mixed' = mixed
    BY <2>1 DEF ConnectEffect
  <2>3. Bounds'
    BY <2>1, ConnectBounds
  <2>4. Core => Core'
    BY <2>1, ConnectKnown, ConnectBlind
  <2>. QED
    BY <2>2, <2>3, <2>4
<1>8. CASE ReadFirst
  <2>1. ReadFirstEffect
    BY <1>8, ReadFirstEffects
  <2>2. Shapes' /\ mixed' = mixed
    BY <2>1 DEF ReadFirstEffect
  <2>. QED
    BY <2>1, <2>2, ReadFirstStep
<1>9. CASE Read
  <2>1. ReadEffect
    BY <1>9, ReadEffects
  <2>2. Shapes' /\ mixed' = mixed
    BY <2>1 DEF ReadEffect
  <2>. QED
    BY <2>1, <2>2, ReadStep
<1>10. CASE Break \/ Notice \/ EndOfStream
  <2>1. LeaveEffect
    BY <1>10, BreakEffects, NoticeEffects, EndOfStreamEffects
  <2>2. Shapes' /\ mixed' = mixed
    BY <2>1 DEF LeaveEffect
  <2>. QED
    BY <2>1, <2>2, LeaveStep
<1>11. CASE Lose
  <2>1. LoseEffect
    BY <1>11, LoseEffects
  <2>2. Shapes' /\ mixed' = mixed
    BY <2>1 DEF LoseEffect
  <2>. QED
    BY <2>1, <2>2, LoseStep
<1>12. CASE Reopen
  <2>1. ReopenEffect
    BY <1>12, ReopenEffects
  <2>2. Shapes' /\ mixed' = mixed
    BY <2>1 DEF ReopenEffect
  <2>. QED
    BY <2>1, <2>2, ReopenStep
<1>. QED
  BY <1>3, <1>4, <1>5, <1>6, <1>7, <1>8, <1>9, <1>10, <1>11, <1>12 DEF Next

\* DeliveryInv is inductive: the numbers, the order of the queues, and where each
\* event that the client has not read yet can be found (try_send_to_session,
\* set_sse_sender, send_replay_events, broadcast_where).
THEOREM DeliveryInvariant == Spec => []DeliveryInv
<1>1. Init => DeliveryInv
  BY DeliveryInit
<1>2. DeliveryInv /\ [Next]_vars => DeliveryInv'
  BY DeliveryStutter, DeliveryNext
<1>. QED
  BY <1>1, <1>2, PTL DEF Spec

LEMMA DeliveryTypes == DeliveryInv => TypeOK
<1>. SUFFICES ASSUME Shapes, Bounds PROVE TypeOK
  BY DEF DeliveryInv
<1>1. /\ sess.on \in BOOLEAN /\ sess.reopened \in BOOLEAN
      /\ {conn.open, conn.here, conn.primed, conn.stale, fresh, mixed} \subseteq BOOLEAN
  BY DEF Shapes, SessionStates, Streams
<1>2. /\ sess.next \in 1..(MaxSends + 1) /\ sess.stream \in 0..conn.id
      /\ conn.id \in 0..MaxConnects /\ last \in -1..MaxSends
      /\ sent \in 0..MaxSends /\ losses \in 0..MaxLosses
  BY StateFields, Limits DEF Bounds
<1>3. flight \subseteq [event : Events, failed : 0..conn.id, at : 0..conn.id, era : 0..losses]
  <2>. SUFFICES ASSUME NEW f \in flight
                PROVE  f \in [event : Events, failed : 0..conn.id, at : 0..conn.id, era : 0..losses]
    OBVIOUS
  <2>1. /\ f \in Sends /\ f.failed \in 0..conn.id /\ f.at \in 0..conn.id /\ f.era \in 0..losses
    BY StateFields DEF Bounds
  <2>. QED
    BY <2>1 DEF Sends
<1>. QED
  BY <1>1, <1>2, <1>3, StateFields DEF TypeOK, Bounds

\* However streams break, fill up and are replaced, however the limits are chosen and
\* however often the client comes back, an event is lost only when its send was
\* overtaken between its two halves, or it was pushed out of a full queue or withdrawn,
\* or the client came back without a valid id (try_send_to_session, send_replay_events).
THEOREM LostInRace == Spec => []LostOnlyInRace
<1>1. DeliveryInv => LostOnlyInRace
  <2>. SUFFICES ASSUME DeliveryInv PROVE LostOnlyInRace
    OBVIOUS
  <2>1. ASSUME ~mixed, NEW u \in 1..sent
        PROVE  u \in got \cup raced \cup excused \/ OnItsWay(u)
    <3>1. Safe(u) \/ Replayable(u)
      BY <2>1 DEF DeliveryInv, Core, MainInv
    <3>2. CASE Safe(u)
      BY <3>2 DEF Safe, OnItsWay
    <3>3. CASE Replayable(u)
      <4>1. PICK e \in Elems(sess.replay) : e.uid = u /\ e.id > last
        BY <3>3 DEF Replayable
      <4>2. PICK i \in 1..Len(sess.replay) : sess.replay[i] = e
        BY DEF Elems
      <4>3. fresh /\ last # None
        BY <3>3 DEF Replayable, Known
      <4>. QED
        BY <4>1, <4>2, <4>3 DEF OnItsWay
    <3>. QED
      BY <3>1, <3>2, <3>3
  <2>. QED
    BY <2>1, DeliveryTypes DEF LostOnlyInRace
<1>. QED
  BY <1>1, DeliveryInvariant, PTL

\* While a stream is open nothing waits for the next reconnect, but for what a send that
\* was overtaken had to queue (clear_sender_if_matching, enqueue_or_deliver_racy).
THEOREM Unstranded == Spec => []NothingStranded
<1>1. DeliveryInv => NothingStranded
  BY UidsElems DEF DeliveryInv, Core, QueueInv, Waits, NothingStranded
<1>. QED
  BY <1>1, DeliveryInvariant, PTL

=============================================================================
