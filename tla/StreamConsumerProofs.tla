------------------------- MODULE StreamConsumerProofs ------------------------
(***************************************************************************)
(* What each operation on a stream does to it, and what the loop of a      *)
(* consumer preserves: the lemmas shared by the proofs about the workers   *)
(* that consume a stream.                                                  *)
(***************************************************************************)
EXTENDS StreamConsumer, TLAPS

\* The entries delivered are the first last ones; the idle ones are pending.
WellFormed(s) ==
  /\ s.last <= Len(s.log)
  /\ s.pending \subseteq 1..s.last
  /\ s.idle \subseteq s.pending

\* The entries that were delivered and acknowledged.
Acked(s) == (1..s.last) \ s.pending

\* A fresh stream is a well-formed stream of any kind of entries.
LEMMA EmptyStreamFact ==
  ASSUME NEW Entry
  PROVE  EmptyStream \in StreamOf(Entry) /\ WellFormed(EmptyStream)
BY DEF EmptyStream, StreamOf, WellFormed

\* XADD keeps the entries there are and what is known of them.
LEMMA PublishFact ==
  ASSUME NEW Entry, NEW s \in StreamOf(Entry), WellFormed(s), NEW e \in Entry
  PROVE  /\ Publish(s, e) \in StreamOf(Entry)
         /\ WellFormed(Publish(s, e))
         /\ Publish(s, e).last = s.last
         /\ Publish(s, e).pending = s.pending
         /\ Publish(s, e).idle = s.idle
         /\ \A i \in 1..s.last : Publish(s, e).log[i] = s.log[i]
         /\ Acked(Publish(s, e)) = Acked(s)
<1>1. /\ Publish(s, e).log = Append(s.log, e)
      /\ Publish(s, e).last = s.last
      /\ Publish(s, e).pending = s.pending
      /\ Publish(s, e).idle = s.idle
  BY DEF Publish, StreamOf
<1>2. s.log \in Seq(Entry) /\ s.last \in Nat /\ Len(s.log) \in Nat
  BY DEF StreamOf
<1>3. /\ Append(s.log, e) \in Seq(Entry)
      /\ Len(Append(s.log, e)) = Len(s.log) + 1
      /\ \A i \in 1..Len(s.log) : Append(s.log, e)[i] = s.log[i]
  BY <1>2
<1>4. Publish(s, e) \in StreamOf(Entry)
  BY <1>3 DEF Publish, StreamOf
<1>5. QED
  BY <1>1, <1>2, <1>3, <1>4 DEF WellFormed, Acked

\* XREADGROUP delivers entries that were not delivered before, and every entry
\* it counts as delivered becomes pending.
LEMMA ReadGroupFact ==
  ASSUME NEW Entry, NEW s \in StreamOf(Entry), WellFormed(s), NEW n \in Nat
  PROVE  /\ ReadGroup(s, n) \in StreamOf(Entry)
         /\ WellFormed(ReadGroup(s, n))
         /\ ReadGroup(s, n).log = s.log
         /\ s.last <= ReadGroup(s, n).last
         /\ NewEntries(s, n) \subseteq 1..ReadGroup(s, n).last
         /\ Acked(ReadGroup(s, n)) = Acked(s)
<1> DEFINE t == ReadGroup(s, n)
<1>1. s.log \in Seq(Entry) /\ s.last \in Nat /\ Len(s.log) \in Nat
  BY DEF StreamOf
<1>2. /\ t.log = s.log
      /\ t.last = IF s.last + n < Len(s.log) THEN s.last + n ELSE Len(s.log)
      /\ t.pending = s.pending \cup NewEntries(s, n)
      /\ t.idle = s.idle
  BY DEF ReadGroup, StreamOf
<1>3. t.last \in Nat /\ s.last <= t.last /\ t.last <= Len(s.log)
  BY <1>1, <1>2 DEF WellFormed
<1>4. NewEntries(s, n) = (s.last + 1)..t.last
  BY <1>1, <1>2 DEF NewEntries, Entries, WellFormed
<1>5. t \in StreamOf(Entry)
  <2>1. NewEntries(s, n) \subseteq Nat
    BY <1>1 DEF NewEntries, Entries
  <2>2. ASSUME NEW l \in Nat PROVE [s EXCEPT !.last = l, !.pending = @ \cup NewEntries(s, n)] \in StreamOf(Entry)
    BY <2>1 DEF StreamOf
  <2> DEFINE l == IF s.last + n < Len(s.log) THEN s.last + n ELSE Len(s.log)
  <2>3. l \in Nat
    BY <1>1
  <2>4. [s EXCEPT !.last = l, !.pending = @ \cup NewEntries(s, n)] \in StreamOf(Entry)
    <3> HIDE DEF l
    <3> QED
      BY <2>2, <2>3
  <2>5. QED
    BY <2>4 DEF ReadGroup
<1>6. WellFormed(t)
  BY <1>1, <1>2, <1>3, <1>4 DEF WellFormed
<1>7. Acked(t) = Acked(s)
  BY <1>1, <1>2, <1>3, <1>4 DEF Acked
<1>8. QED
  BY <1>1, <1>2, <1>3, <1>4, <1>5, <1>6, <1>7

\* XAUTOCLAIM hands out entries that are pending, and leaves them pending.
LEMMA ClaimStaleFact ==
  ASSUME NEW Entry, NEW s \in StreamOf(Entry), WellFormed(s), NEW n \in Nat
  PROVE  /\ ClaimStale(s, n) \in StreamOf(Entry)
         /\ WellFormed(ClaimStale(s, n))
         /\ ClaimStale(s, n).log = s.log
         /\ ClaimStale(s, n).last = s.last
         /\ StaleEntries(s, n) \subseteq s.pending
         /\ Acked(ClaimStale(s, n)) = Acked(s)
<1>0. StaleEntries(s, n) \subseteq s.idle
  BY DEF StaleEntries
<1>1. /\ ClaimStale(s, n).log = s.log
      /\ ClaimStale(s, n).last = s.last
      /\ ClaimStale(s, n).pending = s.pending
      /\ ClaimStale(s, n).idle = s.idle \ StaleEntries(s, n)
  BY DEF ClaimStale, StreamOf
<1>2. ClaimStale(s, n) \in StreamOf(Entry)
  BY DEF ClaimStale, StreamOf, WellFormed
<1>3. QED
  BY <1>0, <1>1, <1>2 DEF StreamOf, WellFormed, Acked

\* XACK ends one entry, whoever has it, and no other.
LEMMA AckFact ==
  ASSUME NEW Entry, NEW s \in StreamOf(Entry), WellFormed(s), NEW i \in 1..s.last
  PROVE  /\ Ack(s, i) \in StreamOf(Entry)
         /\ WellFormed(Ack(s, i))
         /\ Ack(s, i).log = s.log
         /\ Ack(s, i).last = s.last
         /\ Acked(Ack(s, i)) = Acked(s) \cup {i}
<1>1. /\ Ack(s, i).log = s.log
      /\ Ack(s, i).last = s.last
      /\ Ack(s, i).pending = s.pending \ {i}
      /\ Ack(s, i).idle = s.idle \ {i}
  BY DEF Ack, StreamOf
<1>2. Ack(s, i) \in StreamOf(Entry)
  BY DEF Ack, StreamOf, WellFormed
<1>3. QED
  BY <1>1, <1>2 DEF StreamOf, WellFormed, Acked

\* Time makes pending entries idle and does nothing else.
LEMMA ExpireFact ==
  ASSUME NEW Entry, NEW s \in StreamOf(Entry), WellFormed(s), NEW i \in s.pending
  PROVE  /\ Expire(s, i) \in StreamOf(Entry)
         /\ WellFormed(Expire(s, i))
         /\ Expire(s, i).log = s.log
         /\ Expire(s, i).last = s.last
         /\ Acked(Expire(s, i)) = Acked(s)
<1>1. /\ Expire(s, i).log = s.log
      /\ Expire(s, i).last = s.last
      /\ Expire(s, i).pending = s.pending
      /\ Expire(s, i).idle = s.idle \cup {i}
  BY DEF Expire, StreamOf
<1>2. Expire(s, i) \in StreamOf(Entry)
  BY DEF Expire, StreamOf, WellFormed
<1>3. QED
  BY <1>1, <1>2 DEF StreamOf, WellFormed, Acked
-----------------------------------------------------------------------------
(* The loop of a consumer.                                                 *)

\* The batches hold entries that were delivered.
ConsumerInv(Entry) ==
  /\ stream \in StreamOf(Entry)
  /\ WellFormed(stream)
  /\ batch \in [Workers -> SUBSET Nat]
  /\ \A w \in Workers : batch[w] \subseteq 1..stream.last

\* The stream only grows, and the entries delivered stay as they are.
Grows ==
  /\ stream.last \in Nat /\ stream'.last \in Nat
  /\ stream.last <= stream'.last
  /\ \A i \in 1..stream.last : stream'.log[i] = stream.log[i]

\* A step of worker w does not touch the other workers.
OthersStay(w) ==
  \A v \in Workers \ {w} : pc'[v] = pc[v] /\ batch'[v] = batch[v]

\* A delivered entry is one of the log.
LEMMA DeliveredFact ==
  ASSUME NEW Entry, ConsumerInv(Entry), NEW i \in 1..stream.last
  PROVE  stream.log[i] \in Entry
<1>1. stream.log \in Seq(Entry) /\ stream.last \in Nat
  BY DEF ConsumerInv, StreamOf
<1>2. QED
  BY <1>1 DEF ConsumerInv, WellFormed

\* An unchanged stream has grown by nothing.
LEMMA SameStreamFact ==
  ASSUME NEW Entry, ConsumerInv(Entry), stream' = stream
  PROVE  Grows
BY DEF ConsumerInv, Grows, StreamOf

\* The loop takes delivered entries, acknowledges none and stays in the loop.
LEMMA LoopFact ==
  ASSUME NEW Entry, ConsumerInv(Entry), NEW Labels, LoopLabels \subseteq Labels,
         pc \in [Workers -> Labels], NEW w \in Workers, Loop(w)
  PROVE  /\ ConsumerInv(Entry)'
         /\ Grows
         /\ Acked(stream') = Acked(stream)
         /\ pc' \in [Workers -> Labels]
         /\ pc'[w] \in LoopLabels
         /\ OthersStay(w)
<1> USE BatchAssumption
<1>1. CASE ClaimIdle(w)
  <2>1. stream \in StreamOf(Entry) /\ WellFormed(stream) /\ stream' = ClaimStale(stream, BatchSize)
    BY <1>1 DEF ClaimIdle, ConsumerInv
  <2>2. StaleEntries(stream, BatchSize) \subseteq 1..stream.last
    BY <2>1, ClaimStaleFact DEF WellFormed
  <2>3. ConsumerInv(Entry)'
    BY <1>1, <2>1, <2>2, ClaimStaleFact DEF ClaimIdle, ConsumerInv, StreamOf
  <2>4. Grows /\ Acked(stream') = Acked(stream)
    BY <2>1, ClaimStaleFact DEF Grows, StreamOf
  <2>5. QED
    BY <1>1, <2>3, <2>4 DEF ClaimIdle, Goto, LoopLabels, OthersStay, ConsumerInv
<1>2. CASE ReadNew(w)
  <2>1. stream \in StreamOf(Entry) /\ WellFormed(stream) /\ stream' = ReadGroup(stream, BatchSize)
    BY <1>2 DEF ReadNew, ConsumerInv
  <2>2. stream.last \in Nat /\ stream'.last \in Nat /\ stream.last <= stream'.last
    BY <2>1, ReadGroupFact DEF StreamOf
  <2>3. NewEntries(stream, BatchSize) \subseteq 1..stream'.last
    BY <2>1, ReadGroupFact
  <2>4. ConsumerInv(Entry)'
    <3>1. batch' = [batch EXCEPT ![w] = NewEntries(stream, BatchSize)]
      BY <1>2 DEF ReadNew
    <3>2. \A v \in Workers : batch'[v] \subseteq 1..stream'.last
      BY <2>2, <2>3, <3>1 DEF ConsumerInv
    <3>3. batch' \in [Workers -> SUBSET Nat]
      BY <2>2, <2>3, <3>1 DEF ConsumerInv
    <3>4. QED
      BY <2>1, <3>2, <3>3, ReadGroupFact DEF ConsumerInv
  <2>5. Grows /\ Acked(stream') = Acked(stream)
    BY <2>1, <2>2, ReadGroupFact DEF Grows
  <2>6. QED
    BY <1>2, <2>4, <2>5 DEF ReadNew, Goto, LoopLabels, OthersStay, ConsumerInv
<1>3. CASE ClaimNothing(w) \/ ReadNothing(w) \/ Finish(w)
  <2>1. stream' = stream /\ batch' = batch
    BY <1>3 DEF ClaimNothing, ReadNothing, Finish
  <2>2. Grows
    BY <2>1, SameStreamFact
  <2>3. QED
    BY <1>3, <2>1, <2>2
       DEF ClaimNothing, ReadNothing, Finish, Goto, LoopLabels, OthersStay, ConsumerInv
<1>4. QED
  BY <1>1, <1>2, <1>3 DEF Loop

\* Leaving an entry keeps the batches among the delivered entries, and puts the
\* worker between two entries.
LEMMA LeaveFact ==
  ASSUME NEW Entry, ConsumerInv(Entry), NEW Labels, LoopLabels \subseteq Labels,
         pc \in [Workers -> Labels], NEW w \in Workers, NEW i \in batch[w], Leave(w, i),
         stream' = stream \/ stream' = Ack(stream, i)
  PROVE  /\ ConsumerInv(Entry)'
         /\ Grows
         /\ Acked(stream') \subseteq Acked(stream) \cup (IF stream' = stream THEN {} ELSE {i})
         /\ pc' \in [Workers -> Labels]
         /\ pc'[w] \in LoopLabels
         /\ OthersStay(w)
<1>1. /\ stream' \in StreamOf(Entry) /\ WellFormed(stream')
      /\ stream'.last = stream.last
      /\ stream'.log = stream.log
      /\ Acked(stream') \subseteq Acked(stream) \cup (IF stream' = stream THEN {} ELSE {i})
  <2>1. CASE stream' = stream
    BY <2>1 DEF ConsumerInv
  <2>2. CASE stream' # stream
    <3>1. i \in 1..stream.last
      BY DEF ConsumerInv
    <3>2. stream' = Ack(stream, i)
      BY <2>2
    <3>3. Acked(Ack(stream, i)) = Acked(stream) \cup {i}
      BY <3>1, AckFact DEF ConsumerInv
    <3>4. QED
      BY <2>2, <3>1, <3>2, <3>3, AckFact DEF ConsumerInv
  <2>3. QED
    BY <2>1, <2>2
<1>2. Grows
  BY <1>1 DEF Grows, ConsumerInv, StreamOf
<1>3. ConsumerInv(Entry)'
  BY <1>1 DEF Leave, ConsumerInv
<1>4. QED
  BY <1>1, <1>2, <1>3 DEF Leave, Goto, LoopLabels, OthersStay, ConsumerInv

\* A crash loses the batch and nothing of the stream.
LEMMA DieFact ==
  ASSUME NEW Entry, ConsumerInv(Entry), NEW Labels, LoopLabels \subseteq Labels,
         pc \in [Workers -> Labels], NEW w \in Workers, Die(w)
  PROVE  /\ ConsumerInv(Entry)'
         /\ Grows
         /\ Acked(stream') = Acked(stream)
         /\ pc' \in [Workers -> Labels]
         /\ pc'[w] \in LoopLabels
         /\ OthersStay(w)
<1>1. Grows
  BY SameStreamFact DEF Die
<1>2. QED
  BY <1>1 DEF Die, Goto, LoopLabels, OthersStay, ConsumerInv

\* Time touches neither the workers nor what is acknowledged.
LEMMA IdleFact ==
  ASSUME NEW Entry, ConsumerInv(Entry), NEW i \in stream.pending, BecomeIdle(i)
  PROVE  /\ ConsumerInv(Entry)'
         /\ Grows
         /\ Acked(stream') = Acked(stream)
<1>1. stream \in StreamOf(Entry) /\ WellFormed(stream) /\ stream' = Expire(stream, i)
  BY DEF BecomeIdle, ConsumerInv
<1>2. QED
  BY <1>1, ExpireFact DEF BecomeIdle, ConsumerInv, Grows, StreamOf

\* A new entry touches neither the workers nor what was delivered.
LEMMA EnqueueFact ==
  ASSUME NEW Entry, ConsumerInv(Entry), NEW e \in Entry,
         stream' = Publish(stream, e), batch' = batch
  PROVE  /\ ConsumerInv(Entry)'
         /\ Grows
         /\ Acked(stream') = Acked(stream)
<1>1. stream \in StreamOf(Entry) /\ WellFormed(stream) /\ stream.last \in Nat
  BY DEF ConsumerInv, StreamOf
<1>2. QED
  BY <1>1, PublishFact DEF ConsumerInv, Grows
=============================================================================
