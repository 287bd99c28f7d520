--------------------------- MODULE DeliveryProofs ---------------------------
(***************************************************************************)
(* What a Track delivers: in which order, which samples not, and that it   *)
(* is woken up for those that wait.  The theorems rest on the invariant of *)
(* TrackProofs, which says who is where.                                   *)
(***************************************************************************)
EXTENDS TrackProofs, FiniteSetTheorems

(* Order: what was taken for a writer is what it has been given and what a   *)
(* thread holds for it, and comes before what still waits.                   *)

\* What a writer has been given, and is about to be, is what was taken for it.
Accounted == \A w \in Writers : expected[w] = delivered[w] \o InHand(w)

\* The samples of s come before those of t, each once.
Follows(s, t) ==
  /\ Increasing(s)
  /\ Increasing(t)
  /\ \A i \in 1..Len(s), j \in 1..Len(t) : s[i] < t[j]

TakenBeforeWaiting ==
  /\ Increasing(queue)
  /\ \A w \in Writers : Follows(expected[w], queue)

\* Samples are numbered as they arrive.
HaveArrived ==
  /\ \A i \in 1..Len(queue) : queue[i] <= received
  /\ \A w \in Writers : \A i \in 1..Len(expected[w]) : expected[w][i] <= received

OrderInv == Accounted /\ TakenBeforeWaiting /\ HaveArrived

LEMMA FollowsIsIncreasing ==
  ASSUME NEW s \in Seq(Nat), NEW t \in Seq(Nat), Follows(s, t)
  PROVE  Increasing(s \o t)
<1> SUFFICES ASSUME NEW i \in 1..Len(s \o t), NEW j \in 1..Len(s \o t), i < j
             PROVE  (s \o t)[i] < (s \o t)[j]
  BY DEF Increasing
<1>1. CASE j <= Len(s)
  BY <1>1 DEF Follows, Increasing
<1>2. CASE i <= Len(s) /\ j > Len(s)
  BY <1>2 DEF Follows, Increasing
<1>3. CASE i > Len(s)
  <2>1. i - Len(s) \in 1..Len(t) /\ j - Len(s) \in 1..Len(t)
    BY <1>3
  <2>2. (s \o t)[i] = t[i - Len(s)] /\ (s \o t)[j] = t[j - Len(s)]
    BY <1>3
  <2> QED
    BY <2>1, <2>2 DEF Follows, Increasing
<1> QED
  BY <1>1, <1>2, <1>3

\* There is one thread with a sample in hand at most.
LEMMA InHandOf ==
  ASSUME NEW k \in Pool, OneTransmitter, At(k, "tx_write"), NEW w \in Writers
  PROVE  InHand(w) = IF w \in todo[k] THEN <<item[k]>> ELSE <<>>
<1>1. \A l \in Pool : At(l, "tx_write") => l = k
  BY DEF OneTransmitter, At, Transmitting
<1>2. CASE w \in todo[k]
  <2>1. (CHOOSE l \in Pool : At(l, "tx_write") /\ w \in todo[l]) = k
    BY <1>1, <1>2
  <2> QED
    BY <1>2, <2>1 DEF InHand
<1>3. CASE w \notin todo[k]
  BY <1>1, <1>3 DEF InHand
<1> QED
  BY <1>2, <1>3

LEMMA InHandOfNext ==
  ASSUME NEW k \in Pool, OneTransmitter', At(k, "tx_write")', NEW w \in Writers
  PROVE  InHand(w)' = IF w \in todo'[k] THEN <<item'[k]>> ELSE <<>>
<1>1. \A l \in Pool : At(l, "tx_write")' => l = k
  BY DEF OneTransmitter, At, Transmitting
<1>2. CASE w \in todo'[k]
  <2>1. (CHOOSE l \in Pool : At(l, "tx_write")' /\ w \in todo'[l]) = k
    BY <1>1, <1>2
  <2> QED
    BY <1>2, <2>1 DEF InHand, At
<1>3. CASE w \notin todo'[k]
  BY <1>1, <1>3 DEF InHand, At
<1> QED
  BY <1>2, <1>3

\* A step that leaves the threads with a sample in hand alone leaves InHand alone.
LEMMA InHandKept ==
  ASSUME OneTransmitter, OneTransmitter',
         \A k \in Pool : At(k, "tx_write")' <=> At(k, "tx_write"),
         \A k \in Pool : At(k, "tx_write") => item'[k] = item[k] /\ todo'[k] = todo[k],
         NEW w \in Writers
  PROVE  InHand(w)' = InHand(w)
<1>1. CASE \E k \in Pool : At(k, "tx_write")
  <2> PICK k \in Pool : At(k, "tx_write")
    BY <1>1
  <2> QED
    BY InHandOf, InHandOfNext
<1>2. CASE ~\E k \in Pool : At(k, "tx_write")
  BY <1>2 DEF InHand
<1> QED
  BY <1>1, <1>2

LEMMA AppendIsConcat ==
  ASSUME NEW s \in Seq(Nat), NEW n \in Nat
  PROVE  Append(s, n) = s \o <<n>>
<1>1. Append(s, n) \in Seq(Nat) /\ s \o <<n>> \in Seq(Nat)
  OBVIOUS
<1>2. Len(Append(s, n)) = Len(s \o <<n>>)
  OBVIOUS
<1>3. \A i \in 1..Len(Append(s, n)) : Append(s, n)[i] = (s \o <<n>>)[i]
  OBVIOUS
<1> QED
  BY <1>1, <1>2, <1>3

LEMMA OrderStart == Init => OrderInv
<1> SUFFICES ASSUME Init PROVE OrderInv
  OBVIOUS
<1>1. \A k \in Pool : ~At(k, "tx_write")
  BY DEF Init, At, Threads
<1>2. \A w \in Writers : InHand(w) = <<>>
  BY <1>1 DEF InHand
<1> QED
  BY <1>2 DEF Init, OrderInv, Accounted, TakenBeforeWaiting, HaveArrived, Follows, Increasing

\* The steps that neither take a sample nor write nor receive one.
Elsewhere ==
  /\ UNCHANGED <<queue, received, historyVars>>
  /\ \A k \in Pool : At(k, "tx_write")' <=> At(k, "tx_write")
  /\ \A k \in Pool : At(k, "tx_write") => item'[k] = item[k] /\ todo'[k] = todo[k]

LEMMA OrderElsewhere ==
  ASSUME TrackInv, TrackInv', OrderInv, Elsewhere PROVE OrderInv'
<1>1. \A w \in Writers : InHand(w)' = InHand(w)
  BY InHandKept DEF Elsewhere, TrackInv
<1>2. UNCHANGED <<queue, received, expected, delivered>>
  BY DEF Elsewhere, historyVars
<1>3. Accounted'
  BY <1>1, <1>2 DEF OrderInv, Accounted
<1>4. TakenBeforeWaiting' /\ HaveArrived'
  BY <1>2 DEF OrderInv, TakenBeforeWaiting, HaveArrived, Follows, Increasing
<1> QED
  BY <1>3, <1>4 DEF OrderInv

LEMMA OrderArrive ==
  ASSUME TypeOK, TrackInv, TrackInv', OrderInv, NEW s \in Sources, Arrive(s)
  PROVE  OrderInv'
<1> USE DEF TypeOK, Goto, At, Threads, PoolSteps
<1>1. s \notin Pool
  BY TrackAssumption
<1>2. \A w \in Writers : InHand(w)' = InHand(w)
  BY <1>1, InHandKept DEF Arrive, TrackInv, localVars, Callback
<1>3. Accounted'
  BY <1>2 DEF OrderInv, Accounted, Arrive
<1>4. CASE ~Keeps
  <2>1. queue' = queue /\ received' = received + 1 /\ expected' = expected
    BY <1>4 DEF Arrive
  <2> QED
    BY <1>3, <2>1 DEF OrderInv, TakenBeforeWaiting, HaveArrived, Follows, Increasing
<1>5. CASE Keeps
  <2>1. queue' = Append(queue, received + 1) /\ received' = received + 1 /\ expected' = expected
    BY <1>5 DEF Arrive
  <2>2. /\ Len(queue') = Len(queue) + 1
        /\ queue'[Len(queue) + 1] = received + 1
        /\ \A i \in 1..Len(queue) : queue'[i] = queue[i]
    BY <2>1
  <2>3. \A i \in 1..Len(queue') : i \in 1..Len(queue) \/ i = Len(queue) + 1
    BY <2>2
  <2>4. HaveArrived'
    BY <2>1, <2>2, <2>3 DEF OrderInv, HaveArrived
  <2>5. Increasing(queue)'
    <3> SUFFICES ASSUME NEW i \in 1..Len(queue'), NEW j \in 1..Len(queue'), i < j
                 PROVE  queue'[i] < queue'[j]
      BY DEF Increasing
    <3>1. i \in 1..Len(queue)
      BY <2>2
    <3>2. CASE j \in 1..Len(queue)
      <4>1. Increasing(queue)
        BY DEF OrderInv, TakenBeforeWaiting
      <4> QED
        BY <2>2, <3>1, <3>2, <4>1 DEF Increasing
    <3>3. CASE j = Len(queue) + 1
      <4>1. queue[i] <= received /\ queue[i] \in Nat
        BY <3>1 DEF OrderInv, HaveArrived
      <4> QED
        BY <2>2, <3>1, <3>3, <4>1
    <3> QED
      BY <2>3, <3>2, <3>3
  <2>6. TakenBeforeWaiting'
    <3> SUFFICES ASSUME NEW w \in Writers PROVE Follows(expected[w], queue)'
      BY <2>5 DEF TakenBeforeWaiting
    <3>1. Increasing(expected[w])'
      BY <2>1 DEF OrderInv, TakenBeforeWaiting, Follows, Increasing
    <3>2. ASSUME NEW i \in 1..Len(expected[w]), NEW j \in 1..Len(queue')
          PROVE  expected[w][i] < queue'[j]
      <4>1. expected[w][i] \in Nat /\ expected[w][i] <= received
        BY DEF OrderInv, HaveArrived
      <4>2. CASE j = Len(queue) + 1
        BY <2>2, <4>1, <4>2
      <4>3. CASE j \in 1..Len(queue)
        <5>1. Follows(expected[w], queue)
          BY DEF OrderInv, TakenBeforeWaiting
        <5> QED
          BY <2>2, <4>3, <5>1 DEF Follows
      <4> QED
        BY <2>3, <4>2, <4>3
    <3> QED
      BY <2>1, <2>5, <3>1, <3>2 DEF Follows
  <2> QED
    BY <1>3, <2>4, <2>6 DEF OrderInv
<1> QED
  BY <1>4, <1>5

\* The first of what waits may be dropped, or added to what was taken.
LEMMA FollowsTaken ==
  ASSUME NEW s \in Seq(Nat), NEW t \in Seq(Nat), Follows(s, t), t # <<>>
  PROVE  /\ Follows(s, Tail(t))
         /\ Follows(Append(s, Head(t)), Tail(t))
<1>1. /\ Len(Tail(t)) = Len(t) - 1 /\ Len(t) > 0 /\ Head(t) = t[1]
      /\ \A i \in 1..Len(Tail(t)) : Tail(t)[i] = t[i + 1]
  OBVIOUS
<1>2. Follows(s, Tail(t))
  BY <1>1 DEF Follows, Increasing
<1>3. /\ Len(Append(s, Head(t))) = Len(s) + 1
      /\ Append(s, Head(t))[Len(s) + 1] = t[1]
      /\ \A i \in 1..Len(s) : Append(s, Head(t))[i] = s[i]
  BY <1>1
<1>4. Increasing(Append(s, Head(t)))
  <2> SUFFICES ASSUME NEW i \in 1..(Len(s) + 1), NEW j \in 1..(Len(s) + 1), i < j
               PROVE  Append(s, Head(t))[i] < Append(s, Head(t))[j]
    BY <1>3 DEF Increasing
  <2>1. CASE j = Len(s) + 1
    BY <1>1, <1>3, <2>1 DEF Follows
  <2>2. CASE j # Len(s) + 1
    <3>1. i \in 1..Len(s) /\ j \in 1..Len(s)
      <4>1. Len(s) \in Nat
        OBVIOUS
      <4> QED
        BY <2>2, <4>1
    <3> QED
      BY <1>3, <3>1 DEF Follows, Increasing
  <2> QED
    BY <2>1, <2>2
<1>5. ASSUME NEW i \in 1..(Len(s) + 1), NEW j \in 1..Len(Tail(t))
      PROVE  Append(s, Head(t))[i] < Tail(t)[j]
  <2>1. CASE i = Len(s) + 1
    BY <1>1, <1>3, <2>1 DEF Follows, Increasing
  <2>2. CASE i # Len(s) + 1
    BY <1>1, <1>3, <2>2 DEF Follows
  <2> QED
    BY <2>1, <2>2
<1> QED
  BY <1>2, <1>3, <1>4, <1>5 DEF Follows

LEMMA HaveArrivedTaken ==
  ASSUME NEW s \in Seq(Nat), NEW t \in Seq(Nat), NEW n \in Nat, t # <<>>,
         \A i \in 1..Len(s) : s[i] <= n, \A i \in 1..Len(t) : t[i] <= n
  PROVE  /\ \A i \in 1..Len(Tail(t)) : Tail(t)[i] <= n
         /\ \A i \in 1..Len(Append(s, Head(t))) : Append(s, Head(t))[i] <= n
<1>1. /\ Len(Tail(t)) = Len(t) - 1 /\ Len(t) > 0 /\ Head(t) = t[1]
      /\ \A i \in 1..Len(Tail(t)) : Tail(t)[i] = t[i + 1]
  OBVIOUS
<1>2. /\ Len(Append(s, Head(t))) = Len(s) + 1
      /\ Append(s, Head(t))[Len(s) + 1] = t[1]
      /\ \A i \in 1..Len(s) : Append(s, Head(t))[i] = s[i]
  BY <1>1
<1>3. \A i \in 1..Len(Append(s, Head(t))) : i \in 1..Len(s) \/ i = Len(s) + 1
  BY <1>2
<1> QED
  BY <1>1, <1>2, <1>3

LEMMA OrderCorrupt ==
  ASSUME TypeOK, TrackInv, TrackInv', OrderInv, NEW k \in Pool, TxTakeCorrupt(k)
  PROVE  OrderInv'
<1> USE DEF TypeOK, Goto, At, Threads, PoolSteps
<1>1. \A w \in Writers : InHand(w)' = InHand(w)
  BY InHandKept DEF TxTakeCorrupt, TrackInv, localVars
<1>2. Accounted'
  BY <1>1 DEF OrderInv, Accounted, TxTakeCorrupt, historyVars
<1>3. queue # <<>> /\ queue' = Tail(queue) /\ UNCHANGED <<expected, received>>
  BY DEF TxTakeCorrupt, historyVars
<1>4. TakenBeforeWaiting'
  <2>1. \A w \in Writers : Follows(expected[w], Tail(queue))
    BY <1>3, FollowsTaken DEF OrderInv, TakenBeforeWaiting
  <2>2. Increasing(Tail(queue))
    <3>1. Follows(<<>>, queue) /\ <<>> \in Seq(Nat)
      BY DEF OrderInv, TakenBeforeWaiting, Follows, Increasing
    <3> QED
      BY <1>3, <3>1, FollowsTaken DEF Follows
  <2> QED
    BY <1>3, <2>1, <2>2 DEF TakenBeforeWaiting
<1>5. HaveArrived'
  <2>1. \A i \in 1..Len(Tail(queue)) : Tail(queue)[i] <= received
    BY <1>3 DEF OrderInv, HaveArrived
  <2> QED
    BY <1>3, <2>1 DEF OrderInv, HaveArrived
<1> QED
  BY <1>2, <1>4, <1>5 DEF OrderInv

LEMMA OrderTake ==
  ASSUME TypeOK, TrackInv, TrackInv', OrderInv, NEW k \in Pool, TxTake(k)
  PROVE  OrderInv'
<1> USE DEF TypeOK, Goto, At, Threads, PoolSteps
<1>1. /\ queue # <<>> /\ queue' = Tail(queue) /\ UNCHANGED <<received, delivered, writers>>
      /\ item'[k] = Head(queue) /\ todo'[k] = writers /\ pc'[k] = "tx_write"
  BY DEF TxTake, endpointVars
<1>2. \A w \in Writers : expected'[w] = IF w \in writers THEN Append(expected[w], Head(queue))
                                        ELSE expected[w]
  BY DEF TxTake
<1>3. \A l \in Pool : ~At(l, "tx_write")
  BY DEF TxTake, TrackInv, OneTransmitter, Transmitting
<1>4. ASSUME NEW w \in Writers PROVE InHand(w) = <<>>
  BY <1>3 DEF InHand
<1>5. ASSUME NEW w \in Writers
      PROVE  InHand(w)' = IF w \in writers THEN <<Head(queue)>> ELSE <<>>
  BY <1>1, InHandOfNext DEF TrackInv
<1>6. ASSUME NEW w \in Writers PROVE expected'[w] = delivered'[w] \o InHand(w)'
  <2>1. expected[w] = delivered[w] /\ delivered[w] \in Seq(Nat)
    <3>1. delivered[w] \in Seq(Nat)
      OBVIOUS
    <3>2. delivered[w] \o <<>> = delivered[w]
      BY <3>1
    <3> QED
      BY <1>4, <3>1, <3>2 DEF OrderInv, Accounted
  <2>2. Head(queue) \in Nat
    BY <1>1
  <2>3. CASE w \in writers
    <3>1. Append(delivered[w], Head(queue)) = delivered[w] \o <<Head(queue)>>
      BY <2>1, <2>2, AppendIsConcat
    <3> QED
      BY <1>1, <1>2, <1>5, <2>1, <2>3, <3>1
  <2>4. CASE w \notin writers
    <3>1. delivered[w] = delivered[w] \o <<>>
      BY <2>1
    <3> QED
      BY <1>1, <1>2, <1>5, <2>1, <2>4, <3>1
  <2> QED
    BY <2>3, <2>4
<1>7. Accounted'
  BY <1>6 DEF Accounted
<1>8. TakenBeforeWaiting'
  <2>1. \A w \in Writers : Follows(expected'[w], Tail(queue))
    BY <1>1, <1>2, FollowsTaken DEF OrderInv, TakenBeforeWaiting
  <2>2. Increasing(Tail(queue))
    <3>1. Follows(<<>>, queue) /\ <<>> \in Seq(Nat)
      BY DEF OrderInv, TakenBeforeWaiting, Follows, Increasing
    <3> QED
      BY <1>1, <3>1, FollowsTaken DEF Follows
  <2> QED
    BY <1>1, <2>1, <2>2 DEF TakenBeforeWaiting
<1>9. HaveArrived'
  <2>1. \A i \in 1..Len(Tail(queue)) : Tail(queue)[i] <= received
    BY <1>1 DEF OrderInv, HaveArrived
  <2>2. \A w \in Writers : \A i \in 1..Len(expected'[w]) : expected'[w][i] <= received
    BY <1>1, <1>2, HaveArrivedTaken DEF OrderInv, HaveArrived
  <2> QED
    BY <1>1, <2>1, <2>2 DEF HaveArrived
<1> QED
  BY <1>7, <1>8, <1>9 DEF OrderInv

LEMMA OrderWrite ==
  ASSUME TypeOK, TrackInv, TrackInv', OrderInv, NEW k \in Pool, TxWrite(k)
  PROVE  OrderInv'
<1> USE DEF TypeOK, Goto, At, Threads, PoolSteps
<1>1. PICK w \in todo[k] :
        /\ delivered' = IF w \in writerOn
                        THEN [delivered EXCEPT ![w] = Append(@, item[k])]
                        ELSE delivered
        /\ todo' = [todo EXCEPT ![k] = @ \ {w}]
  BY DEF TxWrite
<1>2. w \in writerOn /\ w \in Writers
  BY DEF TxWrite, TrackInv, InHandInside, WritersAround
<1>3. At(k, "tx_write") /\ At(k, "tx_write")' /\ item' = item
  BY DEF TxWrite
<1>4. UNCHANGED <<queue, received, expected>>
  BY DEF TxWrite
<1>5. ASSUME NEW v \in Writers PROVE expected[v] = delivered'[v] \o InHand(v)'
  <2>1. expected[v] = delivered[v] \o InHand(v) /\ delivered[v] \in Seq(Nat) /\ item[k] \in Nat
    BY DEF OrderInv, Accounted
  <2>2. InHand(v) = IF v \in todo[k] THEN <<item[k]>> ELSE <<>>
    BY <1>3, InHandOf DEF TrackInv
  <2>3. InHand(v)' = IF v \in todo[k] \ {w} THEN <<item[k]>> ELSE <<>>
    <3>1. InHand(v)' = IF v \in todo'[k] THEN <<item'[k]>> ELSE <<>>
      BY <1>3, InHandOfNext DEF TrackInv
    <3>2. todo'[k] = todo[k] \ {w}
      BY <1>1
    <3> QED
      BY <1>3, <3>1, <3>2
  <2>4. CASE v = w
    <3>1. delivered'[v] = Append(delivered[v], item[k])
      BY <1>1, <1>2, <2>4
    <3>2. delivered'[v] = delivered[v] \o <<item[k]>> /\ delivered'[v] \in Seq(Nat)
      BY <2>1, <3>1, AppendIsConcat
    <3>3. delivered'[v] \o <<>> = delivered'[v]
      BY <3>2
    <3> QED
      BY <2>1, <2>2, <2>3, <2>4, <3>2, <3>3
  <2>5. CASE v # w
    <3>1. delivered'[v] = delivered[v]
      BY <1>1, <1>2, <2>5
    <3> QED
      BY <2>1, <2>2, <2>3, <2>5, <3>1
  <2> QED
    BY <2>4, <2>5
<1>6. Accounted'
  BY <1>4, <1>5 DEF Accounted
<1>7. TakenBeforeWaiting' /\ HaveArrived'
  BY <1>4 DEF OrderInv, TakenBeforeWaiting, HaveArrived, Follows, Increasing
<1> QED
  BY <1>6, <1>7 DEF OrderInv

LEMMA OrderWritten ==
  ASSUME TypeOK, TrackInv, TrackInv', OrderInv, NEW k \in Pool, TxWritten(k)
  PROVE  OrderInv'
<1> USE DEF TypeOK, Goto, At, Threads, PoolSteps
<1>1. ASSUME NEW w \in Writers PROVE InHand(w) = <<>>
  BY InHandOf DEF TxWritten, TrackInv
<1>2. \A l \in Pool : ~At(l, "tx_write")'
  BY DEF TxWritten, TrackInv, OneTransmitter, Transmitting
<1>3. ASSUME NEW w \in Writers PROVE InHand(w)' = <<>>
  BY <1>2 DEF InHand
<1>4. UNCHANGED <<queue, received, expected, delivered>>
  BY DEF TxWritten, historyVars
<1>5. Accounted'
  BY <1>1, <1>3, <1>4 DEF OrderInv, Accounted
<1>6. TakenBeforeWaiting' /\ HaveArrived'
  BY <1>4 DEF OrderInv, TakenBeforeWaiting, HaveArrived, Follows, Increasing
<1> QED
  BY <1>5, <1>6 DEF OrderInv

\* A sample is in hand only while the Track is enabled or disable() waits for it.
LEMMA NothingInHandOnceGone ==
  ASSUME TypeOK, TrackInv, Destroyed, NEW k \in Pool PROVE ~At(k, "tx_write")
BY DEF Destroyed, TrackInv, EnabledFirst, QuietWhenDisabled, OneController, At, Transmitting

\* Which steps these are.
LEMMA MostAreElsewhere ==
  ASSUME TypeOK, TrackInv, [Next]_vars,
         ~\E s \in Sources : Arrive(s),
         ~\E k \in Pool : TxTakeCorrupt(k) \/ TxTake(k) \/ TxWrite(k) \/ TxWritten(k)
  PROVE  Elsewhere
<1> USE TrackAssumption
    DEF TypeOK, Threads, ControllerSteps, SourceSteps, PoolSteps, Callback,
        localVars, historyVars, Goto, At, Elsewhere
<1>1. ASSUME NEW c \in Controllers, EnableStart(c) PROVE Elsewhere
  BY <1>1 DEF EnableStart
<1>2. ASSUME NEW c \in Controllers, EnableReset(c) PROVE Elsewhere
  BY <1>2 DEF EnableReset
<1>3. ASSUME NEW c \in Controllers, EnableWriter(c) PROVE Elsewhere
  BY <1>3 DEF EnableWriter
<1>4. ASSUME NEW c \in Controllers, EnableReader(c) PROVE Elsewhere
  BY <1>4 DEF EnableReader
<1>5. ASSUME NEW c \in Controllers, EnableDrain(c) PROVE Elsewhere
  BY <1>5 DEF EnableDrain
<1>6. ASSUME NEW c \in Controllers, DisableStart(c) PROVE Elsewhere
  BY <1>6 DEF DisableStart, Stop
<1>7. ASSUME NEW c \in Controllers, DisableWait(c) PROVE Elsewhere
  BY <1>7 DEF DisableWait
<1>8. ASSUME NEW c \in Controllers, DisableReader(c) PROVE Elsewhere
  BY <1>8 DEF DisableReader
<1>9. ASSUME NEW c \in Controllers, DisableWriter(c) PROVE Elsewhere
  BY <1>9 DEF DisableWriter
<1>10. ASSUME NEW c \in Controllers, DisableDone(c) PROVE Elsewhere
  BY <1>10 DEF DisableDone
<1>11. ASSUME NEW c \in Controllers, AddStart(c) PROVE Elsewhere
  BY <1>11 DEF AddStart
<1>12. ASSUME NEW c \in Controllers, AddFinish(c) PROVE Elsewhere
  BY <1>12 DEF AddFinish
<1>13. ASSUME NEW c \in Controllers, RemoveStart(c) PROVE Elsewhere
  BY <1>13 DEF RemoveStart
<1>14. ASSUME NEW c \in Controllers, RemoveFinish(c) PROVE Elsewhere
  BY <1>14 DEF RemoveFinish
<1>15. ASSUME NEW c \in Controllers, DestroyStart(c) PROVE Elsewhere
  BY <1>15 DEF DestroyStart, Stop
<1>16. ASSUME NEW c \in Controllers, DestroyUnset(c) PROVE Elsewhere
  BY <1>16 DEF DestroyUnset
<1>17. ASSUME NEW c \in Controllers, DestroyExit(c) PROVE Elsewhere
  BY <1>17 DEF DestroyExit
<1>18. ASSUME NEW t \in Controllers \cup Sources, CbCheck(t) PROVE Elsewhere
  BY <1>18 DEF CbCheck
<1>19. ASSUME NEW t \in Controllers \cup Sources, CbAdd(t) PROVE Elsewhere
  BY <1>19 DEF CbAdd
<1>20. ASSUME NEW t \in Controllers \cup Sources, CbEmit(t) PROVE Elsewhere
  BY <1>20 DEF CbEmit
<1>21. ASSUME NEW k \in Pool, RunTask(k) PROVE Elsewhere
  BY <1>21 DEF RunTask
<1>22. ASSUME NEW k \in Pool, TxLock(k) PROVE Elsewhere
  BY <1>22 DEF TxLock
<1>23. ASSUME NEW k \in Pool, TxCheck(k) PROVE Elsewhere
  BY <1>23 DEF TxCheck
<1>24. ASSUME NEW k \in Pool, TxMark(k) PROVE Elsewhere
  BY <1>24 DEF TxMark
<1>25. ASSUME NEW k \in Pool, TxTakeDisabled(k) PROVE Elsewhere
  BY <1>25 DEF TxTakeDisabled
<1>26. ASSUME NEW k \in Pool, TxTakeEmpty(k) PROVE Elsewhere
  BY <1>26 DEF TxTakeEmpty
<1>27. ASSUME NEW k \in Pool, TxSub(k) PROVE Elsewhere
  BY <1>27 DEF TxSub
<1>28. ASSUME NEW t \in Pool \cup Sources, TouchDestroyed(t) PROVE Elsewhere
  BY <1>28, NothingInHandOnceGone DEF TouchDestroyed, Transmitting
<1>29. CASE UNCHANGED vars
  BY <1>29 DEF vars
<1> QED
  BY <1>1, <1>2, <1>3, <1>4, <1>5, <1>6, <1>7, <1>8, <1>9, <1>10, <1>11, <1>12, <1>13,
     <1>14, <1>15, <1>16, <1>17, <1>18, <1>19, <1>20, <1>21, <1>22, <1>23, <1>24, <1>25,
     <1>26, <1>27, <1>28, <1>29
     DEF Next, Call, ControllerStep, CallbackStep, PoolStep

LEMMA OrderStep ==
  TypeOK /\ TrackInv /\ TrackInv' /\ OrderInv /\ [Next]_vars => OrderInv'
BY OrderArrive, OrderCorrupt, OrderTake, OrderWrite, OrderWritten, MostAreElsewhere,
     OrderElsewhere

LEMMA OrderHolds == Spec => [](TypeOK /\ TrackInv /\ OrderInv)
<1>1. TypeOK /\ TrackInv /\ TrackInv' /\ OrderInv /\ [Next]_vars => OrderInv'
  BY OrderStep
<1> QED
  BY InvariantHolds, OrderStart, <1>1, PTL DEF Spec

\* Every sample taken while a writer is in the Track is written to it, once and in the
\* order of arrival, whatever the interleaving of tasks, arrivals and changes of writers_.
THEOREM ForwardedCorrect == Spec => []ForwardedInOrder
<1>1. TypeOK /\ OrderInv => ForwardedInOrder
  BY FollowsIsIncreasing DEF TypeOK, OrderInv, Accounted, TakenBeforeWaiting, ForwardedInOrder
<1> QED
  BY OrderHolds, <1>1, PTL

-----------------------------------------------------------------------------
(* Late samples: an RTPS reader of a best-effort topic drops what arrives    *)
(* while it is disabled.                                                     *)

DropsLate == ReaderKind = "rtps" /\ ~Reliable

\* No sample that arrived late waits, or was ever taken.
NeverLate ==
  DropsLate =>
    /\ \A n \in late : n <= received
    /\ \A i \in 1..Len(queue) : queue[i] \notin late
    /\ \A w \in Writers : \A i \in 1..Len(expected[w]) : expected[w][i] \notin late

LEMMA LateArrive ==
  ASSUME TypeOK, OrderInv, NeverLate, NEW s \in Sources, Arrive(s) PROVE NeverLate'
<1> SUFFICES ASSUME DropsLate PROVE NeverLate'
  BY DEF NeverLate
<1>1. ReaderKind = "rtps" /\ ~Reliable
  BY DEF DropsLate
<1>2. received \in Nat /\ received' = received + 1 /\ expected' = expected
  BY DEF Arrive, TypeOK
<1>3. \A n \in late' : n <= received'
  BY <1>2 DEF Arrive, NeverLate, TypeOK
<1>4. ASSUME NEW w \in Writers, NEW i \in 1..Len(expected[w]) PROVE expected[w][i] \notin late'
  <2>1. expected[w][i] \in Nat /\ expected[w][i] <= received
    BY DEF OrderInv, HaveArrived, TypeOK
  <2> QED
    BY <1>2, <2>1 DEF Arrive, NeverLate
<1>5. ASSUME NEW i \in 1..Len(queue) PROVE queue[i] \notin late'
  <2>1. queue[i] \in Nat /\ queue[i] <= received
    BY DEF OrderInv, HaveArrived, TypeOK
  <2> QED
    BY <1>2, <2>1 DEF Arrive, NeverLate
<1>6. ASSUME NEW i \in 1..Len(queue') PROVE queue'[i] \notin late'
  <2>1. CASE readerOn
    <3>1. Keeps /\ late' = late /\ queue' = Append(queue, received + 1)
      BY <2>1 DEF Keeps, Arrive
    <3>2. received + 1 \notin late
      BY <1>2 DEF NeverLate, TypeOK
    <3>3. /\ queue'[Len(queue) + 1] = received + 1
          /\ \A j \in 1..Len(queue) : queue'[j] = queue[j]
          /\ i \in 1..Len(queue) \/ i = Len(queue) + 1
      BY <1>2, <3>1 DEF TypeOK
    <3> QED
      BY <1>5, <3>1, <3>2, <3>3
  <2>2. CASE ~readerOn
    <3>1. ~Keeps
      BY <1>1, <2>2 DEF Keeps
    <3> QED
      BY <1>5, <3>1 DEF Arrive
  <2> QED
    BY <2>1, <2>2
<1> QED
  BY <1>2, <1>3, <1>4, <1>6 DEF NeverLate

LEMMA LateTake ==
  ASSUME TypeOK, NeverLate, NEW k \in Pool, TxTake(k) \/ TxTakeCorrupt(k) PROVE NeverLate'
<1> SUFFICES ASSUME DropsLate PROVE NeverLate'
  BY DEF NeverLate
<1>1. queue # <<>> /\ queue \in Seq(Nat) /\ queue' = Tail(queue) /\ UNCHANGED <<late, received>>
  BY DEF TxTake, TxTakeCorrupt, TypeOK, historyVars
<1>2. /\ Len(queue') = Len(queue) - 1 /\ Len(queue) > 0 /\ Head(queue) = queue[1]
      /\ \A i \in 1..Len(queue') : queue'[i] = queue[i + 1]
  BY <1>1
<1>3. \A i \in 1..Len(queue') : queue'[i] \notin late'
  BY <1>1, <1>2 DEF NeverLate
<1>4. ASSUME NEW w \in Writers, NEW i \in 1..Len(expected'[w]) PROVE expected'[w][i] \notin late'
  <2>1. expected[w] \in Seq(Nat)
    BY DEF TypeOK
  <2>2. CASE expected'[w] = Append(expected[w], Head(queue))
    <3>1. /\ expected'[w][Len(expected[w]) + 1] = Head(queue)
          /\ \A j \in 1..Len(expected[w]) : expected'[w][j] = expected[w][j]
          /\ i \in 1..Len(expected[w]) \/ i = Len(expected[w]) + 1
      BY <1>1, <1>2, <2>1, <2>2
    <3>2. Head(queue) \notin late
      BY <1>2 DEF NeverLate
    <3> QED
      BY <1>1, <3>1, <3>2 DEF NeverLate
  <2>3. CASE expected'[w] = expected[w]
    BY <1>1, <2>3 DEF NeverLate
  <2> QED
    BY <2>2, <2>3 DEF TxTake, TxTakeCorrupt, historyVars
<1> QED
  BY <1>1, <1>3, <1>4 DEF NeverLate

LEMMA LateStep ==
  TypeOK /\ TrackInv /\ OrderInv /\ NeverLate /\ [Next]_vars => NeverLate'
<1> SUFFICES ASSUME TypeOK, TrackInv, OrderInv, NeverLate, [Next]_vars PROVE NeverLate'
  OBVIOUS
<1>1. ASSUME UNCHANGED <<queue, received, late, expected>> PROVE NeverLate'
  BY <1>1 DEF NeverLate
<1>2. ASSUME NEW k \in Pool, TxWrite(k) \/ TxWritten(k) PROVE NeverLate'
  BY <1>1, <1>2 DEF TxWrite, TxWritten, historyVars
<1>3. ASSUME Elsewhere PROVE NeverLate'
  BY <1>1, <1>3 DEF Elsewhere, historyVars
<1> QED
  BY <1>2, <1>3, LateArrive, LateTake, MostAreElsewhere

\* What reaches the RTPS reader of a best-effort topic while it is disabled is never
\* forwarded, however late the Track is enabled.  The other readers keep such samples.
THEOREM DiscardCorrect == Spec => []DiscardsWhileDisabled
<1>1. Init => NeverLate
  BY DEF Init, NeverLate
<1>2. TypeOK /\ TrackInv /\ OrderInv /\ NeverLate /\ [Next]_vars => NeverLate'
  BY LateStep
<1>3. TypeOK /\ OrderInv /\ NeverLate => DiscardsWhileDisabled
  <2> SUFFICES ASSUME TypeOK, OrderInv, NeverLate, DropsLate,
                      NEW w \in Writers, NEW i \in 1..Len(delivered[w])
               PROVE  delivered[w][i] \notin late
    BY DEF DiscardsWhileDisabled, DropsLate
  <2>1. expected[w] = delivered[w] \o InHand(w)
    BY DEF OrderInv, Accounted
  <2>2. delivered[w] \in Seq(Nat) /\ InHand(w) \in Seq(Nat)
    BY DEF TypeOK, InHand
  <2>3. i \in 1..Len(expected[w]) /\ expected[w][i] = delivered[w][i]
    BY <2>1, <2>2
  <2> QED
    BY <2>3 DEF NeverLate
<1> QED
  BY OrderHolds, <1>1, <1>2, <1>3, PTL DEF Spec

-----------------------------------------------------------------------------
(* Wake-ups.  data_available_status_ counts in twos what has been announced  *)
(* since a transmission set it to 1, so a task that finds it 1 at its end    *)
(* may go, unless it has wrapped around in between.                          *)

\* A reader that announces what it keeps, and a word that outlasts the samples.
CountsAll == (ReaderKind = "internal" \/ Reliable) /\ StatusModulus > 2 * MaxReceived + 2

\* The samples the status does not show yet.
Announcing == {s \in Sources : pc[s] \in {"cb_check", "cb_add"}}

\* enable() may still add to the status.
ToAnnounce ==
  \E c \in Controllers : pc[c] \in {"reset", "writers_on", "drain", "cb_check", "cb_add"}

\* A transmission has set the status and not yet taken its turn off it.
Counting == \E k \in Pool : pc[k] \in {"tx_take", "tx_write", "tx_sub"}

AnnouncedOnce ==
  /\ received <= MaxReceived
  /\ IsFiniteSet(Announcing)
  /\ Cardinality(Announcing) <= received
  /\ Counting => status + 2 * Cardinality(Announcing)
                   <= 2 * received + (IF ToAnnounce THEN 1 ELSE 3)

\* The reader is up and may call the Track between enable() and disable().
Listening ==
  /\ exiting => Destroyed
  /\ ~callbackSet => \E c \in Controllers : pc[c] \in {"exit", "gone"}
  /\ enabled /\ (\A c \in Controllers : pc[c] \notin {"reset", "writers_on"}) => readerOn
  /\ \A k \in Pool : At(k, "tx_sub") => readerOn

\* A task is queued or running, or about to be emitted.
Pending ==
  \/ tasks > 0
  \/ \E k \in Pool : pc[k] \in {"tx_lock"} \cup Transmitting
  \/ \E t \in Controllers \cup Sources : At(t, "cb_emit")

\* A status that tells the listener to emit nothing tells the truth.
RaisedIsPending ==
  enabled /\ (\A c \in Controllers : ~At(c, "reset")) /\ status # 0 => Pending

\* A task that is about to find nothing added leaves nothing behind.
EndsWithReason ==
  \A k \in Pool :
    At(k, "tx_sub") /\ enabled /\ status = 1 /\ queue # <<>>
      => \/ tasks > 0
         \/ \E l \in Pool : At(l, "tx_lock")
         \/ \E t \in Controllers \cup Sources : pc[t] \in Callback

WakeInv ==
  /\ AnnouncedOnce /\ Listening
  /\ RaisedIsPending /\ EndsWithReason
  /\ NoLostWakeup

\* Arithmetic of the status word.
LEMMA ModulusSame ==
  ASSUME NEW a \in Nat, a < StatusModulus PROVE a % StatusModulus = a
BY TrackAssumption

LEMMA ModulusLess == ASSUME NEW a \in Nat PROVE a % StatusModulus <= a
<1>1. CASE a < StatusModulus
  BY <1>1, ModulusSame
<1>2. CASE a >= StatusModulus
  BY <1>2, ModulusRange, TrackAssumption
<1> QED
  BY <1>1, <1>2, TrackAssumption

LEMMA ModulusZero == StatusModulus % StatusModulus = 0
BY TrackAssumption

\* There are finitely many such sources at any time.
LEMMA AnnouncingCount ==
  ASSUME IsFiniteSet(Announcing)
  PROVE  /\ Cardinality(Announcing) \in Nat
         /\ \A t : t \in Announcing => Cardinality(Announcing) >= 1
<1>1. Cardinality(Announcing) \in Nat
  BY FS_CardinalityType
<1>2. ASSUME NEW t, t \in Announcing PROVE Cardinality(Announcing) >= 1
  <2>1. Cardinality(Announcing) # 0
    BY <1>2, FS_EmptySet
  <2> QED
    BY <1>1, <2>1
<1> QED
  BY <1>1, <1>2

\* The reader is up from enable() to disable(), and calls until the Track is destroyed.
LEMMA ListeningStep == TypeOK /\ TrackInv /\ Listening /\ [Next]_vars => Listening'
<1> SUFFICES ASSUME TypeOK, TrackInv, Listening, [Next]_vars PROVE Listening'
  OBVIOUS
<1> USE TrackAssumption
    DEF TypeOK, Threads, ControllerSteps, SourceSteps, PoolSteps, Callback, Transmitting,
        controlVars, endpointVars, localVars, historyVars, Goto, At, TrackMutexFree,
        TxMutexFree, ReaderMutexFree, TrackInv, OneController, OneTransmitter,
        EnabledFirst, ReaderInside, QuietWhenDisabled, Listening, Destroyed
<1>1. ASSUME NEW c \in Controllers, EnableStart(c) PROVE Listening'
  BY <1>1 DEF EnableStart
<1>2. ASSUME NEW c \in Controllers, EnableReset(c) PROVE Listening'
  BY <1>2 DEF EnableReset
<1>3. ASSUME NEW c \in Controllers, EnableWriter(c) PROVE Listening'
  BY <1>3 DEF EnableWriter
<1>4. ASSUME NEW c \in Controllers, EnableReader(c) PROVE Listening'
  BY <1>4 DEF EnableReader
<1>5. ASSUME NEW c \in Controllers, EnableDrain(c) PROVE Listening'
  BY <1>5 DEF EnableDrain
<1>6. ASSUME NEW c \in Controllers, DisableStart(c) PROVE Listening'
  BY <1>6 DEF DisableStart, Stop
<1>7. ASSUME NEW c \in Controllers, DisableWait(c) PROVE Listening'
  BY <1>7 DEF DisableWait
<1>8. ASSUME NEW c \in Controllers, DisableReader(c) PROVE Listening'
  BY <1>8 DEF DisableReader
<1>9. ASSUME NEW c \in Controllers, DisableWriter(c) PROVE Listening'
  BY <1>9 DEF DisableWriter
<1>10. ASSUME NEW c \in Controllers, DisableDone(c) PROVE Listening'
  BY <1>10 DEF DisableDone
<1>11. ASSUME NEW c \in Controllers, AddStart(c) PROVE Listening'
  BY <1>11 DEF AddStart
<1>12. ASSUME NEW c \in Controllers, AddFinish(c) PROVE Listening'
  BY <1>12 DEF AddFinish
<1>13. ASSUME NEW c \in Controllers, RemoveStart(c) PROVE Listening'
  BY <1>13 DEF RemoveStart
<1>14. ASSUME NEW c \in Controllers, RemoveFinish(c) PROVE Listening'
  BY <1>14 DEF RemoveFinish
<1>15. ASSUME NEW c \in Controllers, DestroyStart(c) PROVE Listening'
  BY <1>15 DEF DestroyStart, Stop
<1>16. ASSUME NEW c \in Controllers, DestroyUnset(c) PROVE Listening'
  BY <1>16 DEF DestroyUnset
<1>17. ASSUME NEW c \in Controllers, DestroyExit(c) PROVE Listening'
  BY <1>17 DEF DestroyExit
<1>18. ASSUME NEW s \in Sources, Arrive(s) PROVE Listening'
  BY <1>18 DEF Arrive
<1>19. ASSUME NEW t \in Controllers \cup Sources, CbCheck(t) PROVE Listening'
  BY <1>19 DEF CbCheck
<1>20. ASSUME NEW t \in Controllers \cup Sources, CbAdd(t) PROVE Listening'
  BY <1>20 DEF CbAdd
<1>21. ASSUME NEW t \in Controllers \cup Sources, CbEmit(t) PROVE Listening'
  BY <1>21 DEF CbEmit
<1>22. ASSUME NEW k \in Pool, RunTask(k) PROVE Listening'
  BY <1>22 DEF RunTask
<1>23. ASSUME NEW k \in Pool, TxLock(k) PROVE Listening'
  BY <1>23 DEF TxLock
<1>24. ASSUME NEW k \in Pool, TxCheck(k) PROVE Listening'
  BY <1>24 DEF TxCheck, ShouldTransmit
<1>25. ASSUME NEW k \in Pool, TxMark(k) PROVE Listening'
  BY <1>25 DEF TxMark
<1>26. ASSUME NEW k \in Pool, TxTakeDisabled(k) PROVE Listening'
  BY <1>26 DEF TxTakeDisabled
<1>27. ASSUME NEW k \in Pool, TxTakeEmpty(k) PROVE Listening'
  BY <1>27 DEF TxTakeEmpty
<1>28. ASSUME NEW k \in Pool, TxTakeCorrupt(k) PROVE Listening'
  BY <1>28 DEF TxTakeCorrupt
<1>29. ASSUME NEW k \in Pool, TxTake(k) PROVE Listening'
  BY <1>29 DEF TxTake
<1>30. ASSUME NEW k \in Pool, TxWrite(k) PROVE Listening'
  BY <1>30 DEF TxWrite
<1>31. ASSUME NEW k \in Pool, TxWritten(k) PROVE Listening'
  BY <1>31 DEF TxWritten
<1>32. ASSUME NEW k \in Pool, TxSub(k) PROVE Listening'
  BY <1>32 DEF TxSub, OneLess, NothingAdded
<1>33. ASSUME NEW t \in Pool \cup Sources, TouchDestroyed(t) PROVE Listening'
  BY <1>33 DEF TouchDestroyed
<1>34. CASE UNCHANGED vars
  BY <1>34 DEF vars
<1> QED
  BY <1>1, <1>2, <1>3, <1>4, <1>5, <1>6, <1>7, <1>8, <1>9, <1>10, <1>11, <1>12, <1>13,
     <1>14, <1>15, <1>16, <1>17, <1>18, <1>19, <1>20, <1>21, <1>22, <1>23, <1>24, <1>25,
     <1>26, <1>27, <1>28, <1>29, <1>30, <1>31, <1>32, <1>33, <1>34
     DEF Next, Call, ControllerStep, CallbackStep, PoolStep

\* The status is 0 again when a task ends with nothing added, or enable() resets it.
LEMMA RaisedStep ==
  TypeOK /\ TrackInv /\ Listening /\ RaisedIsPending /\ [Next]_vars => RaisedIsPending'
<1> SUFFICES ASSUME TypeOK, TrackInv, Listening, RaisedIsPending, [Next]_vars
            PROVE RaisedIsPending'
  OBVIOUS
<1> USE TrackAssumption
    DEF TypeOK, Threads, ControllerSteps, SourceSteps, PoolSteps, Callback, Transmitting,
        controlVars, endpointVars, localVars, historyVars, Goto, At, TrackMutexFree,
        TxMutexFree, ReaderMutexFree, TrackInv, OneController, OneTransmitter,
        EnabledFirst, ReaderInside, QuietWhenDisabled, Listening, Destroyed,
        RaisedIsPending, Pending
<1>1. ASSUME NEW c \in Controllers, EnableStart(c) PROVE RaisedIsPending'
  BY <1>1 DEF EnableStart
<1>2. ASSUME NEW c \in Controllers, EnableReset(c) PROVE RaisedIsPending'
  BY <1>2 DEF EnableReset
<1>3. ASSUME NEW c \in Controllers, EnableWriter(c) PROVE RaisedIsPending'
  BY <1>3 DEF EnableWriter
<1>4. ASSUME NEW c \in Controllers, EnableReader(c) PROVE RaisedIsPending'
  BY <1>4 DEF EnableReader
<1>5. ASSUME NEW c \in Controllers, EnableDrain(c) PROVE RaisedIsPending'
  BY <1>5 DEF EnableDrain
<1>6. ASSUME NEW c \in Controllers, DisableStart(c) PROVE RaisedIsPending'
  BY <1>6 DEF DisableStart, Stop
<1>7. ASSUME NEW c \in Controllers, DisableWait(c) PROVE RaisedIsPending'
  BY <1>7 DEF DisableWait
<1>8. ASSUME NEW c \in Controllers, DisableReader(c) PROVE RaisedIsPending'
  BY <1>8 DEF DisableReader
<1>9. ASSUME NEW c \in Controllers, DisableWriter(c) PROVE RaisedIsPending'
  BY <1>9 DEF DisableWriter
<1>10. ASSUME NEW c \in Controllers, DisableDone(c) PROVE RaisedIsPending'
  BY <1>10 DEF DisableDone
<1>11. ASSUME NEW c \in Controllers, AddStart(c) PROVE RaisedIsPending'
  BY <1>11 DEF AddStart
<1>12. ASSUME NEW c \in Controllers, AddFinish(c) PROVE RaisedIsPending'
  BY <1>12 DEF AddFinish
<1>13. ASSUME NEW c \in Controllers, RemoveStart(c) PROVE RaisedIsPending'
  BY <1>13 DEF RemoveStart
<1>14. ASSUME NEW c \in Controllers, RemoveFinish(c) PROVE RaisedIsPending'
  BY <1>14 DEF RemoveFinish
<1>15. ASSUME NEW c \in Controllers, DestroyStart(c) PROVE RaisedIsPending'
  BY <1>15 DEF DestroyStart, Stop
<1>16. ASSUME NEW c \in Controllers, DestroyUnset(c) PROVE RaisedIsPending'
  BY <1>16 DEF DestroyUnset
<1>17. ASSUME NEW c \in Controllers, DestroyExit(c) PROVE RaisedIsPending'
  BY <1>17 DEF DestroyExit
<1>18. ASSUME NEW s \in Sources, Arrive(s) PROVE RaisedIsPending'
  BY <1>18 DEF Arrive
<1>19. ASSUME NEW t \in Controllers \cup Sources, CbCheck(t) PROVE RaisedIsPending'
  BY <1>19 DEF CbCheck
<1>20. ASSUME NEW t \in Controllers \cup Sources, CbAdd(t) PROVE RaisedIsPending'
  BY <1>20 DEF CbAdd
<1>21. ASSUME NEW t \in Controllers \cup Sources, CbEmit(t) PROVE RaisedIsPending'
  BY <1>21 DEF CbEmit
<1>22. ASSUME NEW k \in Pool, RunTask(k) PROVE RaisedIsPending'
  BY <1>22 DEF RunTask
<1>23. ASSUME NEW k \in Pool, TxLock(k) PROVE RaisedIsPending'
  BY <1>23 DEF TxLock
<1>24. ASSUME NEW k \in Pool, TxCheck(k) PROVE RaisedIsPending'
  BY <1>24 DEF TxCheck, ShouldTransmit
<1>25. ASSUME NEW k \in Pool, TxMark(k) PROVE RaisedIsPending'
  BY <1>25 DEF TxMark
<1>26. ASSUME NEW k \in Pool, TxTakeDisabled(k) PROVE RaisedIsPending'
  BY <1>26 DEF TxTakeDisabled
<1>27. ASSUME NEW k \in Pool, TxTakeEmpty(k) PROVE RaisedIsPending'
  BY <1>27 DEF TxTakeEmpty
<1>28. ASSUME NEW k \in Pool, TxTakeCorrupt(k) PROVE RaisedIsPending'
  BY <1>28 DEF TxTakeCorrupt
<1>29. ASSUME NEW k \in Pool, TxTake(k) PROVE RaisedIsPending'
  BY <1>29 DEF TxTake
<1>30. ASSUME NEW k \in Pool, TxWrite(k) PROVE RaisedIsPending'
  BY <1>30 DEF TxWrite
<1>31. ASSUME NEW k \in Pool, TxWritten(k) PROVE RaisedIsPending'
  BY <1>31 DEF TxWritten
<1>32. ASSUME NEW k \in Pool, TxSub(k) PROVE RaisedIsPending'
  <2>1. CASE status = 1
    <3>1. status' = StatusModulus % StatusModulus
      <4>1. status + StatusModulus - 1 = StatusModulus
        BY <2>1
      <4> QED
        BY <1>32, <4>1 DEF TxSub, OneLess
    <3> QED
      BY <3>1, ModulusZero
  <2>2. CASE status # 1
    BY <1>32, <2>2 DEF TxSub, NothingAdded
  <2> QED
    BY <2>1, <2>2
<1>33. ASSUME NEW t \in Pool \cup Sources, TouchDestroyed(t) PROVE RaisedIsPending'
  BY <1>33 DEF TouchDestroyed
<1>34. CASE UNCHANGED vars
  BY <1>34 DEF vars
<1> QED
  BY <1>1, <1>2, <1>3, <1>4, <1>5, <1>6, <1>7, <1>8, <1>9, <1>10, <1>11, <1>12, <1>13,
     <1>14, <1>15, <1>16, <1>17, <1>18, <1>19, <1>20, <1>21, <1>22, <1>23, <1>24, <1>25,
     <1>26, <1>27, <1>28, <1>29, <1>30, <1>31, <1>32, <1>33, <1>34
     DEF Next, Call, ControllerStep, CallbackStep, PoolStep

\* A step that announces nothing keeps the bound on the status.
LEMMA AnnouncedKept ==
  ASSUME TypeOK, TypeOK', AnnouncedOnce, Announcing' \subseteq Announcing, received' = received,
         Counting' => \/ status' <= 1
                      \/ Counting /\ status' = status /\ (ToAnnounce' => ToAnnounce)
  PROVE  AnnouncedOnce'
<1>1. IsFiniteSet(Announcing) /\ IsFiniteSet(Announcing')
  BY FS_Subset DEF AnnouncedOnce
<1>2. /\ Cardinality(Announcing) \in Nat
      /\ Cardinality(Announcing') \in Nat
      /\ Cardinality(Announcing') <= Cardinality(Announcing)
  BY <1>1, FS_CardinalityType, FS_Subset
<1>3. received \in Nat /\ status \in Nat /\ status' \in Nat
  BY TrackAssumption DEF TypeOK
<1>4. Cardinality(Announcing') <= received' /\ received' <= MaxReceived
  BY <1>2, <1>3 DEF AnnouncedOnce
<1>5. ASSUME Counting'
      PROVE  status' + 2 * Cardinality(Announcing')
               <= 2 * received' + (IF ToAnnounce' THEN 1 ELSE 3)
  <2>1. CASE status' <= 1
    BY <1>2, <1>3, <1>4, <2>1
  <2>2. CASE Counting /\ status' = status /\ (ToAnnounce' => ToAnnounce)
    BY <1>2, <1>3, <2>2 DEF AnnouncedOnce
  <2> QED
    BY <1>5, <2>1, <2>2
<1> QED
  BY <1>1, <1>4, <1>5 DEF AnnouncedOnce

\* A sample that arrives is one more to announce.
LEMMA AnnouncedArrive ==
  ASSUME TypeOK, TypeOK', AnnouncedOnce, NEW s \in Sources, Arrive(s) PROVE AnnouncedOnce'
<1> USE DEF TypeOK, Threads, Goto, At
<1>1. Announcing' \subseteq Announcing \cup {s}
  BY DEF Announcing, Arrive
<1>2. IsFiniteSet(Announcing) /\ Cardinality(Announcing) \in Nat
  BY FS_CardinalityType DEF AnnouncedOnce
<1>3. /\ IsFiniteSet(Announcing \cup {s})
      /\ Cardinality(Announcing \cup {s}) \in Nat
      /\ Cardinality(Announcing \cup {s}) <= Cardinality(Announcing) + 1
  <2>1. /\ IsFiniteSet(Announcing \cup {s})
        /\ \/ Cardinality(Announcing \cup {s}) = Cardinality(Announcing)
           \/ Cardinality(Announcing \cup {s}) = Cardinality(Announcing) + 1
    BY <1>2, FS_AddElement
  <2> QED
    BY <1>2, <2>1
<1>4. /\ IsFiniteSet(Announcing')
      /\ Cardinality(Announcing') \in Nat
      /\ Cardinality(Announcing') <= Cardinality(Announcing) + 1
  BY <1>1, <1>2, <1>3, FS_Subset, FS_CardinalityType
<1>5. /\ received < MaxReceived /\ received' = received + 1 /\ received \in Nat
      /\ status' = status /\ status \in Nat
  BY TrackAssumption DEF Arrive
<1>6. Counting' = Counting /\ ToAnnounce' = ToAnnounce
  BY TrackAssumption DEF Arrive, Counting, ToAnnounce, Callback
<1>7. received' <= MaxReceived /\ Cardinality(Announcing') <= received'
  BY <1>2, <1>4, <1>5, TrackAssumption DEF AnnouncedOnce
<1>8. ASSUME Counting'
      PROVE  status' + 2 * Cardinality(Announcing')
               <= 2 * received' + (IF ToAnnounce' THEN 1 ELSE 3)
  BY <1>2, <1>4, <1>5, <1>6, <1>8 DEF AnnouncedOnce
<1> QED
  BY <1>4, <1>7, <1>8 DEF AnnouncedOnce

\* What is added to the status is one less to announce.
LEMMA AnnouncedAdd ==
  ASSUME TypeOK, TypeOK', TrackInv, AnnouncedOnce,
         NEW t \in Controllers \cup Sources, CbAdd(t)
  PROVE  AnnouncedOnce'
<1> USE DEF TypeOK, Threads, Goto, At
<1>1. status \in Nat /\ status' \in Nat /\ status' <= status + 2 /\ received' = received
      /\ received \in Nat
  <2>1. status + 2 \in Nat
    BY TrackAssumption
  <2> QED
    BY <2>1, ModulusLess, TrackAssumption DEF CbAdd
<1>2. IsFiniteSet(Announcing) /\ Cardinality(Announcing) \in Nat
  BY FS_CardinalityType DEF AnnouncedOnce
<1>3. Counting' = Counting
  BY TrackAssumption DEF CbAdd, Counting
<1>4. CASE t \in Controllers
  <2>1. Announcing' = Announcing
    BY <1>4, TrackAssumption DEF CbAdd, Announcing
  <2>2. ToAnnounce
    BY <1>4 DEF CbAdd, ToAnnounce
  <2>3. ~ToAnnounce'
    BY <1>4 DEF CbAdd, ToAnnounce, TrackInv, OneController
  <2> QED
    BY <1>1, <1>2, <1>3, <2>1, <2>2, <2>3 DEF AnnouncedOnce
<1>5. CASE t \in Sources
  <2>1. t \in Announcing /\ Announcing' = Announcing \ {t}
    BY <1>5 DEF CbAdd, Announcing
  <2>2. IsFiniteSet(Announcing') /\ Cardinality(Announcing') = Cardinality(Announcing) - 1
    BY <1>2, <2>1, FS_RemoveElement
  <2>3. ToAnnounce' = ToAnnounce
    BY <1>5, TrackAssumption DEF CbAdd, ToAnnounce
  <2> QED
    BY <1>1, <1>2, <1>3, <2>2, <2>3 DEF AnnouncedOnce
<1> QED
  BY <1>4, <1>5

\* The steps that announce nothing.
Unannounced ==
  /\ Announcing' \subseteq Announcing
  /\ received' = received
  /\ Counting' => \/ status' <= 1
                  \/ Counting /\ status' = status /\ (ToAnnounce' => ToAnnounce)

LEMMA MostAreUnannounced ==
  ASSUME TypeOK, TrackInv, [Next]_vars,
         ~\E s \in Sources : Arrive(s),
         ~\E t \in Controllers \cup Sources : CbAdd(t)
  PROVE  Unannounced
<1> USE TrackAssumption
    DEF TypeOK, Threads, ControllerSteps, SourceSteps, PoolSteps, Callback, Transmitting,
        controlVars, endpointVars, localVars, historyVars, Goto, At, TrackMutexFree,
        TxMutexFree, ReaderMutexFree, TrackInv, OneController, OneTransmitter,
        EnabledFirst, ReaderInside, QuietWhenDisabled,
        Unannounced, Announcing, Counting, ToAnnounce
<1>1. ASSUME NEW c \in Controllers, EnableStart(c) PROVE Unannounced
  BY <1>1 DEF EnableStart
<1>2. ASSUME NEW c \in Controllers, EnableReset(c) PROVE Unannounced
  BY <1>2 DEF EnableReset
<1>3. ASSUME NEW c \in Controllers, EnableWriter(c) PROVE Unannounced
  BY <1>3 DEF EnableWriter
<1>4. ASSUME NEW c \in Controllers, EnableReader(c) PROVE Unannounced
  BY <1>4 DEF EnableReader
<1>5. ASSUME NEW c \in Controllers, EnableDrain(c) PROVE Unannounced
  BY <1>5 DEF EnableDrain
<1>6. ASSUME NEW c \in Controllers, DisableStart(c) PROVE Unannounced
  BY <1>6 DEF DisableStart, Stop
<1>7. ASSUME NEW c \in Controllers, DisableWait(c) PROVE Unannounced
  BY <1>7 DEF DisableWait
<1>8. ASSUME NEW c \in Controllers, DisableReader(c) PROVE Unannounced
  BY <1>8 DEF DisableReader
<1>9. ASSUME NEW c \in Controllers, DisableWriter(c) PROVE Unannounced
  BY <1>9 DEF DisableWriter
<1>10. ASSUME NEW c \in Controllers, DisableDone(c) PROVE Unannounced
  BY <1>10 DEF DisableDone
<1>11. ASSUME NEW c \in Controllers, AddStart(c) PROVE Unannounced
  BY <1>11 DEF AddStart
<1>12. ASSUME NEW c \in Controllers, AddFinish(c) PROVE Unannounced
  BY <1>12 DEF AddFinish
<1>13. ASSUME NEW c \in Controllers, RemoveStart(c) PROVE Unannounced
  BY <1>13 DEF RemoveStart
<1>14. ASSUME NEW c \in Controllers, RemoveFinish(c) PROVE Unannounced
  BY <1>14 DEF RemoveFinish
<1>15. ASSUME NEW c \in Controllers, DestroyStart(c) PROVE Unannounced
  BY <1>15 DEF DestroyStart, Stop
<1>16. ASSUME NEW c \in Controllers, DestroyUnset(c) PROVE Unannounced
  BY <1>16 DEF DestroyUnset
<1>17. ASSUME NEW c \in Controllers, DestroyExit(c) PROVE Unannounced
  BY <1>17 DEF DestroyExit
<1>18. ASSUME NEW t \in Controllers \cup Sources, CbCheck(t) PROVE Unannounced
  BY <1>18 DEF CbCheck
<1>19. ASSUME NEW t \in Controllers \cup Sources, CbEmit(t) PROVE Unannounced
  BY <1>19 DEF CbEmit
<1>20. ASSUME NEW k \in Pool, RunTask(k) PROVE Unannounced
  BY <1>20 DEF RunTask
<1>21. ASSUME NEW k \in Pool, TxLock(k) PROVE Unannounced
  BY <1>21 DEF TxLock
<1>22. ASSUME NEW k \in Pool, TxCheck(k) PROVE Unannounced
  BY <1>22 DEF TxCheck, ShouldTransmit
<1>23. ASSUME NEW k \in Pool, TxMark(k) PROVE Unannounced
  BY <1>23 DEF TxMark
<1>24. ASSUME NEW k \in Pool, TxTakeDisabled(k) PROVE Unannounced
  BY <1>24 DEF TxTakeDisabled
<1>25. ASSUME NEW k \in Pool, TxTakeEmpty(k) PROVE Unannounced
  BY <1>25 DEF TxTakeEmpty
<1>26. ASSUME NEW k \in Pool, TxTakeCorrupt(k) PROVE Unannounced
  BY <1>26 DEF TxTakeCorrupt
<1>27. ASSUME NEW k \in Pool, TxTake(k) PROVE Unannounced
  BY <1>27 DEF TxTake
<1>28. ASSUME NEW k \in Pool, TxWrite(k) PROVE Unannounced
  BY <1>28 DEF TxWrite
<1>29. ASSUME NEW k \in Pool, TxWritten(k) PROVE Unannounced
  BY <1>29 DEF TxWritten
<1>30. ASSUME NEW k \in Pool, TxSub(k) PROVE Unannounced
  BY <1>30 DEF TxSub, OneLess, NothingAdded
<1>31. ASSUME NEW t \in Pool \cup Sources, TouchDestroyed(t) PROVE Unannounced
  BY <1>31 DEF TouchDestroyed
<1>32. CASE UNCHANGED vars
  BY <1>32 DEF vars
<1> QED
  BY <1>1, <1>2, <1>3, <1>4, <1>5, <1>6, <1>7, <1>8, <1>9, <1>10, <1>11, <1>12, <1>13,
     <1>14, <1>15, <1>16, <1>17, <1>18, <1>19, <1>20, <1>21, <1>22, <1>23, <1>24, <1>25,
     <1>26, <1>27, <1>28, <1>29, <1>30, <1>31, <1>32
     DEF Next, Call, ControllerStep, CallbackStep, PoolStep

LEMMA AnnouncedStep ==
  TypeOK /\ TypeOK' /\ TrackInv /\ AnnouncedOnce /\ [Next]_vars => AnnouncedOnce'
BY AnnouncedKept, AnnouncedArrive, AnnouncedAdd, MostAreUnannounced DEF Unannounced

\* Whatever arrives after a reader was found empty is announced before the task ends.
LEMMA EndsStep ==
  CountsAll /\ TypeOK /\ TrackInv /\ Listening /\ AnnouncedOnce /\ EndsWithReason
    /\ [Next]_vars => EndsWithReason'
<1> SUFFICES ASSUME CountsAll, TypeOK, TrackInv, Listening, AnnouncedOnce, EndsWithReason,
             [Next]_vars
             PROVE  EndsWithReason'
  OBVIOUS
<1> USE TrackAssumption
    DEF TypeOK, Threads, ControllerSteps, SourceSteps, PoolSteps, Callback, Transmitting,
        controlVars, endpointVars, localVars, historyVars, Goto, At, TrackMutexFree,
        TxMutexFree, ReaderMutexFree, TrackInv, OneController, OneTransmitter,
        EnabledFirst, ReaderInside, QuietWhenDisabled, Listening, Destroyed, EndsWithReason
<1>1. ASSUME NEW c \in Controllers, EnableStart(c) PROVE EndsWithReason'
  BY <1>1 DEF EnableStart
<1>2. ASSUME NEW c \in Controllers, EnableReset(c) PROVE EndsWithReason'
  BY <1>2 DEF EnableReset
<1>3. ASSUME NEW c \in Controllers, EnableWriter(c) PROVE EndsWithReason'
  BY <1>3 DEF EnableWriter
<1>4. ASSUME NEW c \in Controllers, EnableReader(c) PROVE EndsWithReason'
  BY <1>4 DEF EnableReader
<1>5. ASSUME NEW c \in Controllers, EnableDrain(c) PROVE EndsWithReason'
  BY <1>5 DEF EnableDrain
<1>6. ASSUME NEW c \in Controllers, DisableStart(c) PROVE EndsWithReason'
  BY <1>6 DEF DisableStart, Stop
<1>7. ASSUME NEW c \in Controllers, DisableWait(c) PROVE EndsWithReason'
  BY <1>7 DEF DisableWait
<1>8. ASSUME NEW c \in Controllers, DisableReader(c) PROVE EndsWithReason'
  BY <1>8 DEF DisableReader
<1>9. ASSUME NEW c \in Controllers, DisableWriter(c) PROVE EndsWithReason'
  BY <1>9 DEF DisableWriter
<1>10. ASSUME NEW c \in Controllers, DisableDone(c) PROVE EndsWithReason'
  BY <1>10 DEF DisableDone
<1>11. ASSUME NEW c \in Controllers, AddStart(c) PROVE EndsWithReason'
  BY <1>11 DEF AddStart
<1>12. ASSUME NEW c \in Controllers, AddFinish(c) PROVE EndsWithReason'
  BY <1>12 DEF AddFinish
<1>13. ASSUME NEW c \in Controllers, RemoveStart(c) PROVE EndsWithReason'
  BY <1>13 DEF RemoveStart
<1>14. ASSUME NEW c \in Controllers, RemoveFinish(c) PROVE EndsWithReason'
  BY <1>14 DEF RemoveFinish
<1>15. ASSUME NEW c \in Controllers, DestroyStart(c) PROVE EndsWithReason'
  BY <1>15 DEF DestroyStart, Stop
<1>16. ASSUME NEW c \in Controllers, DestroyUnset(c) PROVE EndsWithReason'
  BY <1>16 DEF DestroyUnset
<1>17. ASSUME NEW c \in Controllers, DestroyExit(c) PROVE EndsWithReason'
  BY <1>17 DEF DestroyExit
<1>18. ASSUME NEW s \in Sources, Arrive(s) PROVE EndsWithReason'
  BY <1>18 DEF Arrive, Announces
<1>19. ASSUME NEW t \in Controllers \cup Sources, CbCheck(t) PROVE EndsWithReason'
  BY <1>19 DEF CbCheck
<1>20. ASSUME NEW t \in Controllers \cup Sources, CbAdd(t) PROVE EndsWithReason'
  <2> SUFFICES ASSUME NEW k \in Pool, At(k, "tx_sub"), status # 0 PROVE status' # 1
    BY <1>20 DEF CbAdd
  <2>1. status + 2 * Cardinality(Announcing) <= 2 * received + (IF ToAnnounce THEN 1 ELSE 3)
    BY DEF AnnouncedOnce, Counting
  <2>2. received <= MaxReceived /\ received \in Nat /\ Cardinality(Announcing) \in Nat
    BY AnnouncingCount DEF AnnouncedOnce
  <2>3. status < StatusModulus - 1
    <3>1. CASE t \in Controllers
      <4>1. ToAnnounce
        BY <1>20, <3>1 DEF CbAdd, ToAnnounce
      <4> QED
        BY <2>1, <2>2, <4>1 DEF CountsAll
    <3>2. CASE t \in Sources
      <4>1. Cardinality(Announcing) >= 1
        BY <1>20, <3>2, AnnouncingCount DEF CbAdd, Announcing, AnnouncedOnce
      <4> QED
        BY <2>1, <2>2, <4>1 DEF CountsAll
    <3> QED
      BY <3>1, <3>2
  <2>4. status' = (status + 2) % StatusModulus
    BY <1>20 DEF CbAdd
  <2>5. CASE status + 2 < StatusModulus
    <3>1. status' = status + 2
      BY <2>4, <2>5, ModulusSame
    <3> QED
      BY <3>1
  <2>6. CASE status + 2 = StatusModulus
    <3>1. status' = StatusModulus % StatusModulus
      BY <2>4, <2>6
    <3> QED
      BY <3>1, ModulusZero
  <2> QED
    BY <2>3, <2>5, <2>6
<1>21. ASSUME NEW t \in Controllers \cup Sources, CbEmit(t) PROVE EndsWithReason'
  BY <1>21 DEF CbEmit
<1>22. ASSUME NEW k \in Pool, RunTask(k) PROVE EndsWithReason'
  BY <1>22 DEF RunTask
<1>23. ASSUME NEW k \in Pool, TxLock(k) PROVE EndsWithReason'
  BY <1>23 DEF TxLock
<1>24. ASSUME NEW k \in Pool, TxCheck(k) PROVE EndsWithReason'
  BY <1>24 DEF TxCheck, ShouldTransmit
<1>25. ASSUME NEW k \in Pool, TxMark(k) PROVE EndsWithReason'
  BY <1>25 DEF TxMark
<1>26. ASSUME NEW k \in Pool, TxTakeDisabled(k) PROVE EndsWithReason'
  BY <1>26 DEF TxTakeDisabled
<1>27. ASSUME NEW k \in Pool, TxTakeEmpty(k) PROVE EndsWithReason'
  BY <1>27 DEF TxTakeEmpty
<1>28. ASSUME NEW k \in Pool, TxTakeCorrupt(k) PROVE EndsWithReason'
  BY <1>28 DEF TxTakeCorrupt
<1>29. ASSUME NEW k \in Pool, TxTake(k) PROVE EndsWithReason'
  BY <1>29 DEF TxTake
<1>30. ASSUME NEW k \in Pool, TxWrite(k) PROVE EndsWithReason'
  BY <1>30 DEF TxWrite
<1>31. ASSUME NEW k \in Pool, TxWritten(k) PROVE EndsWithReason'
  BY <1>31 DEF TxWritten
<1>32. ASSUME NEW k \in Pool, TxSub(k) PROVE EndsWithReason'
  BY <1>32 DEF TxSub, OneLess, NothingAdded
<1>33. ASSUME NEW t \in Pool \cup Sources, TouchDestroyed(t) PROVE EndsWithReason'
  BY <1>33 DEF TouchDestroyed
<1>34. CASE UNCHANGED vars
  BY <1>34 DEF vars
<1> QED
  BY <1>1, <1>2, <1>3, <1>4, <1>5, <1>6, <1>7, <1>8, <1>9, <1>10, <1>11, <1>12, <1>13,
     <1>14, <1>15, <1>16, <1>17, <1>18, <1>19, <1>20, <1>21, <1>22, <1>23, <1>24, <1>25,
     <1>26, <1>27, <1>28, <1>29, <1>30, <1>31, <1>32, <1>33, <1>34
     DEF Next, Call, ControllerStep, CallbackStep, PoolStep

\* The last task only ends when somebody else will look.
LEMMA WakeStep ==
  CountsAll /\ TypeOK /\ TrackInv /\ Listening /\ RaisedIsPending /\ EndsWithReason
    /\ NoLostWakeup /\ [Next]_vars => NoLostWakeup'
<1> SUFFICES ASSUME CountsAll, TypeOK, TrackInv, Listening, RaisedIsPending,
             EndsWithReason, NoLostWakeup, [Next]_vars
             PROVE  NoLostWakeup'
  OBVIOUS
<1> USE TrackAssumption
    DEF TypeOK, Threads, ControllerSteps, SourceSteps, PoolSteps, Callback, Transmitting,
        controlVars, endpointVars, localVars, historyVars, Goto, At, TrackMutexFree,
        TxMutexFree, ReaderMutexFree, TrackInv, OneController, OneTransmitter,
        EnabledFirst, ReaderInside, QuietWhenDisabled, Listening, Destroyed,
        RaisedIsPending, Pending, EndsWithReason, NoLostWakeup,
        Enabling, Awake
<1>1. ASSUME NEW c \in Controllers, EnableStart(c) PROVE NoLostWakeup'
  BY <1>1 DEF EnableStart
<1>2. ASSUME NEW c \in Controllers, EnableReset(c) PROVE NoLostWakeup'
  BY <1>2 DEF EnableReset
<1>3. ASSUME NEW c \in Controllers, EnableWriter(c) PROVE NoLostWakeup'
  BY <1>3 DEF EnableWriter
<1>4. ASSUME NEW c \in Controllers, EnableReader(c) PROVE NoLostWakeup'
  BY <1>4 DEF EnableReader
<1>5. ASSUME NEW c \in Controllers, EnableDrain(c) PROVE NoLostWakeup'
  BY <1>5 DEF EnableDrain, AnnouncesKept, CountsAll
<1>6. ASSUME NEW c \in Controllers, DisableStart(c) PROVE NoLostWakeup'
  BY <1>6 DEF DisableStart, Stop
<1>7. ASSUME NEW c \in Controllers, DisableWait(c) PROVE NoLostWakeup'
  BY <1>7 DEF DisableWait
<1>8. ASSUME NEW c \in Controllers, DisableReader(c) PROVE NoLostWakeup'
  BY <1>8 DEF DisableReader
<1>9. ASSUME NEW c \in Controllers, DisableWriter(c) PROVE NoLostWakeup'
  BY <1>9 DEF DisableWriter
<1>10. ASSUME NEW c \in Controllers, DisableDone(c) PROVE NoLostWakeup'
  BY <1>10 DEF DisableDone
<1>11. ASSUME NEW c \in Controllers, AddStart(c) PROVE NoLostWakeup'
  BY <1>11 DEF AddStart
<1>12. ASSUME NEW c \in Controllers, AddFinish(c) PROVE NoLostWakeup'
  BY <1>12 DEF AddFinish
<1>13. ASSUME NEW c \in Controllers, RemoveStart(c) PROVE NoLostWakeup'
  BY <1>13 DEF RemoveStart
<1>14. ASSUME NEW c \in Controllers, RemoveFinish(c) PROVE NoLostWakeup'
  BY <1>14 DEF RemoveFinish
<1>15. ASSUME NEW c \in Controllers, DestroyStart(c) PROVE NoLostWakeup'
  BY <1>15 DEF DestroyStart, Stop
<1>16. ASSUME NEW c \in Controllers, DestroyUnset(c) PROVE NoLostWakeup'
  BY <1>16 DEF DestroyUnset
<1>17. ASSUME NEW c \in Controllers, DestroyExit(c) PROVE NoLostWakeup'
  BY <1>17 DEF DestroyExit
<1>18. ASSUME NEW s \in Sources, Arrive(s) PROVE NoLostWakeup'
  BY <1>18 DEF Arrive, Announces
<1>19. ASSUME NEW t \in Controllers \cup Sources, CbCheck(t) PROVE NoLostWakeup'
  BY <1>19 DEF CbCheck
<1>20. ASSUME NEW t \in Controllers \cup Sources, CbAdd(t) PROVE NoLostWakeup'
  BY <1>20 DEF CbAdd
<1>21. ASSUME NEW t \in Controllers \cup Sources, CbEmit(t) PROVE NoLostWakeup'
  BY <1>21 DEF CbEmit
<1>22. ASSUME NEW k \in Pool, RunTask(k) PROVE NoLostWakeup'
  BY <1>22 DEF RunTask
<1>23. ASSUME NEW k \in Pool, TxLock(k) PROVE NoLostWakeup'
  BY <1>23 DEF TxLock
<1>24. ASSUME NEW k \in Pool, TxCheck(k) PROVE NoLostWakeup'
  BY <1>24 DEF TxCheck, ShouldTransmit
<1>25. ASSUME NEW k \in Pool, TxMark(k) PROVE NoLostWakeup'
  BY <1>25 DEF TxMark
<1>26. ASSUME NEW k \in Pool, TxTakeDisabled(k) PROVE NoLostWakeup'
  BY <1>26 DEF TxTakeDisabled
<1>27. ASSUME NEW k \in Pool, TxTakeEmpty(k) PROVE NoLostWakeup'
  BY <1>27 DEF TxTakeEmpty
<1>28. ASSUME NEW k \in Pool, TxTakeCorrupt(k) PROVE NoLostWakeup'
  BY <1>28 DEF TxTakeCorrupt
<1>29. ASSUME NEW k \in Pool, TxTake(k) PROVE NoLostWakeup'
  BY <1>29 DEF TxTake
<1>30. ASSUME NEW k \in Pool, TxWrite(k) PROVE NoLostWakeup'
  BY <1>30 DEF TxWrite
<1>31. ASSUME NEW k \in Pool, TxWritten(k) PROVE NoLostWakeup'
  BY <1>31 DEF TxWritten
<1>32. ASSUME NEW k \in Pool, TxSub(k) PROVE NoLostWakeup'
  BY <1>32 DEF TxSub, OneLess, NothingAdded
<1>33. ASSUME NEW t \in Pool \cup Sources, TouchDestroyed(t) PROVE NoLostWakeup'
  BY <1>33 DEF TouchDestroyed
<1>34. CASE UNCHANGED vars
  BY <1>34 DEF vars
<1> QED
  BY <1>1, <1>2, <1>3, <1>4, <1>5, <1>6, <1>7, <1>8, <1>9, <1>10, <1>11, <1>12, <1>13,
     <1>14, <1>15, <1>16, <1>17, <1>18, <1>19, <1>20, <1>21, <1>22, <1>23, <1>24, <1>25,
     <1>26, <1>27, <1>28, <1>29, <1>30, <1>31, <1>32, <1>33, <1>34
     DEF Next, Call, ControllerStep, CallbackStep, PoolStep

LEMMA WakeInvariant == Spec => [](TypeOK /\ TrackInv /\ (CountsAll => WakeInv))
<1>1. Init => (CountsAll => WakeInv)
  <2> SUFFICES ASSUME Init PROVE WakeInv
    OBVIOUS
  <2>1. \A t \in Threads : pc[t] = "idle"
    BY DEF Init
  <2>2. Announcing = {} /\ ~Counting
    BY <2>1 DEF Announcing, Counting, Threads
  <2>3. AnnouncedOnce
    BY <2>2, FS_EmptySet, TrackAssumption DEF Init, AnnouncedOnce
  <2> QED
    BY <2>1, <2>3
       DEF Init, WakeInv, Listening, RaisedIsPending, EndsWithReason, NoLostWakeup, Threads, At
<1>2. ASSUME TypeOK, TypeOK', TrackInv, CountsAll, WakeInv, [Next]_vars PROVE WakeInv'
  <2>1. AnnouncedOnce /\ Listening /\ RaisedIsPending /\ EndsWithReason /\ NoLostWakeup
    BY <1>2 DEF WakeInv
  <2>2. AnnouncedOnce'
    BY <1>2, <2>1, AnnouncedStep
  <2>3. Listening'
    BY <1>2, <2>1, ListeningStep
  <2>4. RaisedIsPending'
    BY <1>2, <2>1, RaisedStep
  <2>5. EndsWithReason'
    BY <1>2, <2>1, EndsStep
  <2>6. NoLostWakeup'
    BY <1>2, <2>1, WakeStep
  <2> QED
    BY <2>2, <2>3, <2>4, <2>5, <2>6 DEF WakeInv
<1>3. TypeOK /\ TypeOK' /\ TrackInv /\ (CountsAll => WakeInv) /\ [Next]_vars
        => (CountsAll => WakeInv)'
  BY <1>2 DEF CountsAll
<1> QED
  BY InvariantHolds, <1>1, <1>3, PTL DEF Spec

\* No wake-up is lost: while an enabled Track of a reliable reader holds samples, somebody
\* will look at them, for any number of sources, calls and tasks, as long as the samples
\* do not make data_available_status_ wrap around within one transmission.
THEOREM WakeupCorrect == Spec => [](CountsAll => NoLostWakeup)
<1>1. (CountsAll => WakeInv) => (CountsAll => NoLostWakeup)
  BY DEF WakeInv
<1> QED
  BY WakeInvariant, <1>1, PTL
=============================================================================
