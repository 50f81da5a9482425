---------------------------- MODULE OutboundProofs ----------------------------
(***************************************************************************)
(* The safety of the outbound workers for any number of workers, events    *)
(* and entries, any batch size and any bound on the counters.              *)
(***************************************************************************)
EXTENDS Outbound, StreamConsumerProofs, FiniteSetTheorems

Labels == LoopLabels \cup {"claim", "load", "send", "mark", "fail", "ack"}

\* What worker w knows of the entry it is at.
WorkerOk(w) ==
  \A i \in batch[w] : Current(w, i) =>
    /\ pc[w] \in {"claim", "load", "send", "mark", "fail"} => Valid(i)
    /\ pc[w] = "mark" => accepted[EventOf(i)] > 0
    /\ pc[w] = "ack" => ~Valid(i) \/ accepted[EventOf(i)] > 0

WorkerInv == \A w \in Workers : WorkerOk(w)

\* The workers whose attempt is recorded and may still send a message.
Sending(e) ==
  {w \in Workers : /\ pc[w] \in {"load", "send"}
                   /\ \E i \in batch[w] : Current(w, i) /\ EventOf(i) = e}

\* An attempt is either one that may still send or has sent at most once.
AccountOk(e) ==
  \/ delivery[e].attempt = MaxAttempts
  \/ accepted[e] + Cardinality(Sending(e)) <= delivery[e].attempt

AccountInv == \A e \in Events : AccountOk(e)

IInv ==
  /\ TypeOK
  /\ ConsumerInv(Entry)
  /\ AckedIsAccepted
  /\ SentIsAccepted
  /\ AccountInv
  /\ WorkerInv

-----------------------------------------------------------------------------
(* Frames.                                                                 *)

\* The messages that were accepted stay accepted.
Keeps == \A e \in Events : accepted[e] > 0 => accepted'[e] > 0

\* A delivered entry has an event, which does not change.
LEMMA EventFact ==
  ASSUME ConsumerInv(Entry), NEW i \in 1..stream.last
  PROVE  /\ EventOf(i) \in Events
         /\ Grows => EventOf(i)' = EventOf(i) /\ Valid(i)' = Valid(i)
<1>1. stream.log[i] \in Entry
  BY DeliveredFact
<1>2. EventOf(i) \in Events
  BY <1>1 DEF Entry, EventOf
<1>3. ASSUME Grows PROVE stream'.log[i] = stream.log[i]
  BY <1>3 DEF Grows
<1>4. QED
  BY <1>2, <1>3 DEF EventOf, Valid

Settled(i) == ~Valid(i) \/ accepted[EventOf(i)] > 0

\* A step that acknowledges settled entries only keeps all of them settled.
LEMMA StaySettledFact ==
  ASSUME ConsumerInv(Entry), AckedIsAccepted, Grows, Keeps,
         \A i \in Acked(stream') : i \in Acked(stream) \/ (i \in 1..stream.last /\ Settled(i))
  PROVE  AckedIsAccepted'
<1> SUFFICES ASSUME NEW i \in Acked(stream') PROVE Settled(i)'
  BY DEF AckedIsAccepted, Acked, Settled
<1>1. i \in 1..stream.last /\ Settled(i)
  BY DEF Acked, AckedIsAccepted, Settled
<1>2. EventOf(i) \in Events /\ EventOf(i)' = EventOf(i) /\ Valid(i)' = Valid(i)
  BY <1>1, EventFact
<1>3. QED
  BY <1>1, <1>2 DEF Settled, Keeps

\* A worker that does nothing is not disturbed by what the others do.
LEMMA FrameFact ==
  ASSUME ConsumerInv(Entry), NEW v \in Workers, WorkerOk(v), Grows, Keeps,
         batch'[v] = batch[v], pc'[v] = pc[v]
  PROVE  WorkerOk(v)'
<1> SUFFICES ASSUME NEW i \in batch[v], Current(v, i)
             PROVE  /\ pc[v] \in {"claim", "load", "send", "mark", "fail"} => Valid(i)'
                    /\ pc[v] = "mark" => accepted'[EventOf(i)'] > 0
                    /\ pc[v] = "ack" => ~Valid(i)' \/ accepted'[EventOf(i)'] > 0
  BY DEF WorkerOk, Current
<1>1. i \in 1..stream.last
  BY DEF ConsumerInv
<1>2. EventOf(i) \in Events /\ EventOf(i)' = EventOf(i) /\ Valid(i)' = Valid(i)
  BY <1>1, EventFact
<1>3. QED
  BY <1>2 DEF WorkerOk, Keeps

\* A worker between two entries has nothing to know.
LEMMA BetweenFact ==
  ASSUME NEW v \in Workers, pc'[v] \in LoopLabels
  PROVE  WorkerOk(v)'
BY DEF WorkerOk, LoopLabels

\* The other workers are sending what they were sending.
LEMMA OthersSendFact ==
  ASSUME ConsumerInv(Entry), Grows, NEW w, OthersStay(w), NEW e
  PROVE  Sending(e)' \ {w} = Sending(e) \ {w}
<1> SUFFICES ASSUME NEW v \in Workers \ {w}
             PROVE  v \in Sending(e)' <=> v \in Sending(e)
  BY DEF Sending
<1>1. pc'[v] = pc[v] /\ batch'[v] = batch[v]
  BY DEF OthersStay
<1>2. \A i \in batch[v] : EventOf(i)' = EventOf(i)
  BY EventFact DEF ConsumerInv
<1>3. QED
  BY <1>1, <1>2 DEF Sending, Current

\* Only the worker that is at an entry of the event may be sending it.
LEMMA CurrentSendFact ==
  ASSUME ConsumerInv(Entry), NEW w \in Workers, NEW i \in batch[w], Current(w, i), NEW e
  PROVE  w \in Sending(e) <=> pc[w] \in {"load", "send"} /\ EventOf(i) = e
<1>1. \A j \in batch[w] : Current(w, j) => j = i
  BY DEF Current, ConsumerInv
<1>2. QED
  BY <1>1 DEF Sending

\* Counting the workers that send.
LEMMA CountFact ==
  ASSUME NEW S \in SUBSET Workers, NEW T \in SUBSET Workers, NEW w, S \ {w} = T \ {w}
  PROVE  /\ Cardinality(S) \in Nat /\ Cardinality(T) \in Nat
         /\ Cardinality(T) <= Cardinality(S) + 1
         /\ w \notin T \/ w \in S => Cardinality(T) <= Cardinality(S)
         /\ w \notin T /\ w \in S => Cardinality(T) = Cardinality(S) - 1
<1>1. IsFiniteSet(S) /\ IsFiniteSet(T)
  BY WorkersAssumption, FS_Subset
<1>2. Cardinality(S) \in Nat /\ Cardinality(T) \in Nat
  BY <1>1, FS_CardinalityType
<1>3. /\ Cardinality(S \ {w}) = IF w \in S THEN Cardinality(S) - 1 ELSE Cardinality(S)
      /\ Cardinality(T \ {w}) = IF w \in T THEN Cardinality(T) - 1 ELSE Cardinality(T)
  BY <1>1, FS_RemoveElement
<1>4. QED
  BY <1>2, <1>3

\* Nothing happens to event e, except that workers may stop sending it.
LEMMA AccountFact ==
  ASSUME TypeOK, NEW e \in Events, AccountOk(e), NEW w,
         Sending(e)' \ {w} = Sending(e) \ {w}, w \notin Sending(e)' \/ w \in Sending(e),
         accepted'[e] = accepted[e], delivery'[e].attempt = delivery[e].attempt
  PROVE  AccountOk(e)'
<1>1. Sending(e) \in SUBSET Workers /\ Sending(e)' \in SUBSET Workers
  BY DEF Sending
<1>2. /\ Cardinality(Sending(e)) \in Nat /\ Cardinality(Sending(e)') \in Nat
      /\ Cardinality(Sending(e)') <= Cardinality(Sending(e))
  BY <1>1, CountFact
<1>3. accepted[e] \in Nat /\ delivery[e].attempt \in Nat
  BY BoundAssumption DEF TypeOK
<1>4. QED
  BY <1>2, <1>3 DEF AccountOk

\* No worker at all does anything for its entry.
LEMMA QuietFact ==
  ASSUME IInv, ConsumerInv(Entry)', Grows, pc' = pc, batch' = batch,
         delivery' = delivery, accepted' = accepted, Acked(stream') = Acked(stream)
  PROVE  AckedIsAccepted' /\ SentIsAccepted' /\ AccountInv' /\ WorkerInv'
<1> USE DEF IInv
<1>1. Keeps
  BY DEF Keeps
<1>2. AckedIsAccepted'
  BY <1>1, StaySettledFact
<1>3. SentIsAccepted'
  BY DEF SentIsAccepted
<1>4. WorkerInv'
  BY <1>1, FrameFact DEF WorkerInv
<1>5. \A e \in Events, w \in Workers : OthersStay(w) /\ (w \in Sending(e)' => w \in Sending(e))
  <2>1. \A v \in Workers : \A i \in batch[v] : EventOf(i)' = EventOf(i)
    BY EventFact DEF ConsumerInv
  <2>2. QED
    BY <2>1 DEF Sending, OthersStay, Current
<1>6. ASSUME NEW e \in Events PROVE AccountOk(e)'
  <2>1. CASE Workers = {}
    BY <2>1 DEF AccountOk, Sending, AccountInv
  <2>2. CASE Workers # {}
    <3>1. PICK w \in Workers : TRUE
      BY <2>2
    <3>2. QED
      BY <1>5, <3>1, OthersSendFact, AccountFact DEF AccountInv
  <2>3. QED
    BY <2>1, <2>2
<1>7. QED
  BY <1>2, <1>3, <1>4, <1>6 DEF AccountInv

\* Worker w moves to the loop and no delivery changes.
LEMMA LoopStepFact ==
  ASSUME IInv, NEW w \in Workers, ConsumerInv(Entry)', Grows, OthersStay(w),
         pc' \in [Workers -> Labels], pc'[w] \in LoopLabels,
         delivery' = delivery, accepted' = accepted,
         \A i \in Acked(stream') : i \in Acked(stream) \/ (i \in 1..stream.last /\ Settled(i)),
         active' = active
  PROVE  IInv'
<1> USE DEF IInv
<1>1. Keeps
  BY DEF Keeps
<1>2. TypeOK'
  BY DEF TypeOK, Labels, ConsumerInv
<1>3. AckedIsAccepted'
  BY <1>1, StaySettledFact
<1>4. SentIsAccepted'
  BY DEF SentIsAccepted
<1>5. WorkerInv'
  BY <1>1, FrameFact, BetweenFact DEF WorkerInv, OthersStay
<1>6. \A e \in Events : w \notin Sending(e)'
  BY DEF Sending, LoopLabels
<1>7. AccountInv'
  BY <1>6, OthersSendFact, AccountFact DEF AccountInv
<1>8. QED
  BY <1>2, <1>3, <1>4, <1>5, <1>7

\* Worker w goes on to the next step for its entry i.
LEMMA GotoFact ==
  ASSUME IInv, NEW w \in Workers, NEW i \in batch[w], Current(w, i), Keeps,
         NEW label \in Labels, Goto(w, label), stream' = stream, batch' = batch,
         label \in {"claim", "load", "send", "mark", "fail"} => Valid(i),
         label = "mark" => accepted'[EventOf(i)] > 0,
         label = "ack" => ~Valid(i) \/ accepted'[EventOf(i)] > 0
  PROVE  /\ ConsumerInv(Entry)' /\ Grows /\ OthersStay(w)
         /\ pc' \in [Workers -> Labels] /\ pc'[w] = label
         /\ AckedIsAccepted' /\ WorkerInv'
<1> USE DEF IInv
<1>1. ConsumerInv(Entry)' /\ Grows
  BY SameStreamFact DEF ConsumerInv
<1>2. OthersStay(w) /\ pc' \in [Workers -> Labels] /\ pc'[w] = label
  BY DEF Goto, OthersStay, TypeOK, Labels
<1>3. AckedIsAccepted'
  BY <1>1, StaySettledFact
<1>4. \A j \in batch[w] : Current(w, j) => j = i
  BY DEF Current, ConsumerInv
<1>5. EventOf(i)' = EventOf(i) /\ Valid(i)' = Valid(i)
  BY DEF EventOf, Valid
<1>6. WorkerOk(w)'
  BY <1>2, <1>4, <1>5 DEF WorkerOk, Current
<1>7. WorkerInv'
  BY <1>1, <1>2, <1>6, FrameFact DEF WorkerInv, OthersStay
<1>8. QED
  BY <1>1, <1>2, <1>3, <1>7

\* Worker w leaves its entry i without acknowledging it.
LEMMA LeaveUnackedFact ==
  ASSUME IInv, NEW w \in Workers, NEW i \in batch[w], Keeps, Leave(w, i), stream' = stream
  PROVE  /\ ConsumerInv(Entry)' /\ Grows /\ OthersStay(w)
         /\ pc' \in [Workers -> Labels] /\ pc'[w] \in LoopLabels
         /\ AckedIsAccepted' /\ WorkerInv'
<1> USE DEF IInv
<1>1. pc \in [Workers -> Labels] /\ LoopLabels \subseteq Labels
  BY DEF TypeOK, Labels
<1>2. /\ ConsumerInv(Entry)' /\ Grows /\ OthersStay(w)
      /\ pc' \in [Workers -> Labels] /\ pc'[w] \in LoopLabels
  BY <1>1, LeaveFact
<1>3. AckedIsAccepted'
  BY <1>2, StaySettledFact
<1>4. WorkerInv'
  BY <1>2, FrameFact, BetweenFact DEF WorkerInv, OthersStay
<1>5. QED
  BY <1>2, <1>3, <1>4

\* Worker w acknowledges its entry i, or leaves it to be claimed again.
LEMMA LeaveStepFact ==
  ASSUME IInv, NEW w \in Workers, NEW i \in batch[w], Leave(w, i),
         stream' = stream \/ (stream' = Ack(stream, i) /\ Settled(i)),
         UNCHANGED <<active, delivery, accepted>>
  PROVE  IInv'
<1>1. pc \in [Workers -> Labels] /\ LoopLabels \subseteq Labels
  BY DEF IInv, TypeOK, Labels
<1>2. /\ ConsumerInv(Entry)' /\ Grows /\ OthersStay(w)
      /\ Acked(stream') \subseteq Acked(stream) \cup (IF stream' = stream THEN {} ELSE {i})
      /\ pc' \in [Workers -> Labels] /\ pc'[w] \in LoopLabels
  BY <1>1, LeaveFact DEF IInv
<1>3. \A j \in Acked(stream') : j \in Acked(stream) \/ (j \in 1..stream.last /\ Settled(j))
  BY <1>2 DEF IInv, ConsumerInv
<1>4. QED
  BY <1>2, <1>3, LoopStepFact

-----------------------------------------------------------------------------
(* The steps.                                                              *)

\* Decoding an entry and loading its answer only choose the next step.
LEMMA DecodeFact ==
  ASSUME IInv, NEW w \in Workers, NEW i \in batch[w], Current(w, i),
         Decode(w, i) \/ LoadOutboundAnswer(w, i)
  PROVE  IInv'
<1> USE DEF IInv
<1>1. Keeps /\ UNCHANGED <<stream, batch, active, delivery, accepted>>
  BY DEF Decode, LoadOutboundAnswer, Keeps
<1>2. PICK label \in Labels :
        /\ Goto(w, label)
        /\ label \in {"claim", "load", "send", "mark", "fail"} => Valid(i)
        /\ label # "mark"
        /\ label = "ack" => ~Valid(i)
        /\ label \in {"load", "send"} => pc[w] \in {"load", "send"}
  BY DEF Decode, LoadOutboundAnswer, Labels, WorkerInv, WorkerOk
<1>3. /\ ConsumerInv(Entry)' /\ Grows /\ OthersStay(w)
      /\ pc' \in [Workers -> Labels] /\ pc'[w] = label
      /\ AckedIsAccepted' /\ WorkerInv'
  BY <1>1, <1>2, GotoFact
<1>4. TypeOK' /\ SentIsAccepted'
  BY <1>1, <1>3 DEF TypeOK, Labels, SentIsAccepted, ConsumerInv
<1>5. \A e \in Events : w \in Sending(e)' => w \in Sending(e)
  BY <1>1, <1>2, <1>3 DEF Sending, Current, EventOf
<1>6. AccountInv'
  BY <1>1, <1>3, <1>5, OthersSendFact, AccountFact DEF AccountInv
<1>7. QED
  BY <1>3, <1>4, <1>6

\* The attempt that begins is counted before its worker may send.
LEMMA StartFact ==
  ASSUME IInv, NEW w \in Workers, NEW e \in Events, StartAttempt(e),
         delivery[e].status # "SENT", accepted' = accepted,
         Grows, OthersStay(w), \A f \in Events \ {e} : w \notin Sending(f)'
  PROVE  /\ delivery' \in [Events -> [status : {"NONE", "SENDING", "SENT", "RETRYABLE_FAILED"},
                                      attempt : 0..MaxAttempts]]
         /\ SentIsAccepted'
         /\ AccountInv'
<1> USE BoundAssumption DEF IInv
<1>1. delivery[e] \in [status : {"NONE", "SENDING", "SENT", "RETRYABLE_FAILED"},
                       attempt : 0..MaxAttempts]
  BY DEF TypeOK
<1>2. Increment(delivery[e].attempt) \in 0..MaxAttempts
  BY <1>1 DEF Increment
<1>3. /\ \A f \in Events \ {e} : delivery'[f] = delivery[f]
      /\ delivery'[e] = [status |-> "SENDING", attempt |-> Increment(delivery[e].attempt)]
      /\ DOMAIN delivery' = Events
  BY DEF StartAttempt, TypeOK
<1>4. delivery' \in [Events -> [status : {"NONE", "SENDING", "SENT", "RETRYABLE_FAILED"},
                                attempt : 0..MaxAttempts]]
  BY <1>2 DEF StartAttempt, TypeOK
<1>5. SentIsAccepted'
  BY <1>3 DEF SentIsAccepted
<1>6. AccountOk(e)'
  <2>1. Sending(e)' \ {w} = Sending(e) \ {w}
    BY OthersSendFact
  <2>2. Sending(e) \in SUBSET Workers /\ Sending(e)' \in SUBSET Workers
    BY DEF Sending
  <2>3. /\ Cardinality(Sending(e)) \in Nat /\ Cardinality(Sending(e)') \in Nat
        /\ Cardinality(Sending(e)') <= Cardinality(Sending(e)) + 1
    BY <2>1, <2>2, CountFact
  <2>4. accepted[e] \in Nat /\ delivery[e].attempt \in 0..MaxAttempts
    BY <1>1 DEF TypeOK
  <2>5. delivery'[e].attempt = Increment(delivery[e].attempt)
    BY <1>3
  <2>6. QED
    BY <2>3, <2>4, <2>5 DEF AccountInv, AccountOk, Increment
<1>7. \A f \in Events \ {e} : AccountOk(f)'
  BY <1>3, OthersSendFact, AccountFact DEF AccountInv
<1>8. QED
  BY <1>4, <1>5, <1>6, <1>7 DEF AccountInv

\* Claiming a delivery records an attempt, or finds the answer SENT.
LEMMA ClaimFact ==
  ASSUME IInv, NEW w \in Workers, NEW i \in batch[w], Current(w, i), ClaimOutboundDelivery(w, i)
  PROVE  IInv'
<1> USE DEF IInv
<1>1. Keeps /\ UNCHANGED <<stream, active, accepted>> /\ pc[w] = "claim"
  BY DEF ClaimOutboundDelivery, Keeps
<1>2. EventOf(i) \in Events /\ Valid(i)
  BY <1>1, EventFact DEF ConsumerInv, WorkerInv, WorkerOk
<1>3. CASE delivery[EventOf(i)].status = "SENT" /\ Goto(w, "ack") /\ UNCHANGED <<batch, delivery>>
  <2>1. accepted'[EventOf(i)] > 0
    BY <1>1, <1>2, <1>3 DEF SentIsAccepted
  <2>2. /\ ConsumerInv(Entry)' /\ Grows /\ OthersStay(w)
        /\ pc' \in [Workers -> Labels] /\ pc'[w] = "ack"
        /\ AckedIsAccepted' /\ WorkerInv'
    BY <1>1, <1>3, <2>1, GotoFact DEF Labels
  <2>3. TypeOK' /\ SentIsAccepted'
    BY <1>1, <1>3, <2>2 DEF TypeOK, Labels, SentIsAccepted, ConsumerInv
  <2>4. \A e \in Events : w \notin Sending(e)'
    BY <2>2 DEF Sending
  <2>5. AccountInv'
    BY <1>1, <1>3, <2>2, <2>4, OthersSendFact, AccountFact DEF AccountInv
  <2>6. QED
    BY <2>2, <2>3, <2>5
<1>4. CASE /\ delivery[EventOf(i)].status # "SENT" /\ StartAttempt(EventOf(i))
           /\ Goto(w, "load") /\ UNCHANGED batch
  <2>1. /\ ConsumerInv(Entry)' /\ Grows /\ OthersStay(w)
        /\ pc' \in [Workers -> Labels] /\ pc'[w] = "load"
        /\ AckedIsAccepted' /\ WorkerInv'
    BY <1>1, <1>2, <1>4, GotoFact DEF Labels
  <2>2. \A j \in batch[w] : Current(w, j) => j = i
    BY DEF Current, ConsumerInv
  <2>3. \A f \in Events \ {EventOf(i)} : w \notin Sending(f)'
    BY <1>1, <1>4, <2>2 DEF Sending, Current, EventOf
  <2>4. /\ delivery' \in [Events -> [status : {"NONE", "SENDING", "SENT", "RETRYABLE_FAILED"},
                                     attempt : 0..MaxAttempts]]
        /\ SentIsAccepted' /\ AccountInv'
    BY <1>1, <1>2, <1>4, <2>1, <2>3, StartFact
  <2>5. TypeOK'
    BY <1>1, <2>1, <2>4 DEF TypeOK, Labels, ConsumerInv
  <2>6. QED
    BY <2>1, <2>4, <2>5
<1>5. CASE delivery[EventOf(i)].status # "SENT" /\ StartAttempt(EventOf(i)) /\ Leave(w, i)
  <2>1. /\ ConsumerInv(Entry)' /\ Grows /\ OthersStay(w)
        /\ pc' \in [Workers -> Labels] /\ pc'[w] \in LoopLabels
        /\ AckedIsAccepted' /\ WorkerInv'
    BY <1>1, <1>5, LeaveUnackedFact
  <2>2. \A f \in Events \ {EventOf(i)} : w \notin Sending(f)'
    BY <2>1 DEF Sending, LoopLabels
  <2>3. /\ delivery' \in [Events -> [status : {"NONE", "SENDING", "SENT", "RETRYABLE_FAILED"},
                                     attempt : 0..MaxAttempts]]
        /\ SentIsAccepted' /\ AccountInv'
    BY <1>1, <1>2, <1>5, <2>1, <2>2, StartFact
  <2>4. TypeOK'
    BY <1>1, <2>1, <2>3 DEF TypeOK, Labels, ConsumerInv
  <2>5. QED
    BY <2>1, <2>3, <2>4
<1>6. QED
  BY <1>3, <1>4, <1>5 DEF ClaimOutboundDelivery

\* A message that is accepted uses up the attempt of its worker.
LEMMA SendFact ==
  ASSUME IInv, NEW w \in Workers, NEW i \in batch[w], Current(w, i), SendText(w, i)
  PROVE  IInv'
<1> USE BoundAssumption DEF IInv
<1>1. UNCHANGED <<stream, batch, active, delivery>> /\ pc[w] = "send"
  BY DEF SendText
<1>2. PICK e \in Events : e = EventOf(i) /\ Valid(i)
  BY <1>1, EventFact DEF ConsumerInv, WorkerInv, WorkerOk
<1>3. accepted \in [Events -> 0..MaxAttempts] /\ delivery[e].attempt \in 0..MaxAttempts
  BY <1>2 DEF TypeOK
<1>4. PICK n \in {accepted[e], Increment(accepted[e])} : accepted' = [accepted EXCEPT ![e] = n]
  BY <1>2, <1>3 DEF SendText
<1>5. /\ accepted' \in [Events -> 0..MaxAttempts]
      /\ accepted'[e] <= accepted[e] + 1
      /\ \A f \in Events \ {e} : accepted'[f] = accepted[f]
      /\ Keeps
  BY <1>2, <1>3, <1>4 DEF Increment, Keeps
<1>6. PICK label \in {"mark", "fail"} :
        Goto(w, label) /\ (label = "mark" => accepted'[e] > 0)
  BY <1>2, <1>3 DEF SendText, Increment
<1>7. /\ ConsumerInv(Entry)' /\ Grows /\ OthersStay(w)
      /\ pc' \in [Workers -> Labels] /\ pc'[w] = label
      /\ AckedIsAccepted' /\ WorkerInv'
  BY <1>1, <1>2, <1>5, <1>6, GotoFact DEF Labels
<1>8. TypeOK' /\ SentIsAccepted'
  BY <1>1, <1>5, <1>7 DEF TypeOK, Labels, SentIsAccepted, ConsumerInv, Keeps
<1>9. \A f \in Events : w \notin Sending(f)'
  BY <1>6, <1>7 DEF Sending
<1>10. AccountOk(e)'
  <2>1. w \in Sending(e)
    BY <1>1, <1>2, CurrentSendFact
  <2>2. Sending(e)' \ {w} = Sending(e) \ {w}
    BY <1>7, OthersSendFact
  <2>3. Sending(e) \in SUBSET Workers /\ Sending(e)' \in SUBSET Workers
    BY DEF Sending
  <2>4. /\ Cardinality(Sending(e)) \in Nat /\ Cardinality(Sending(e)') \in Nat
        /\ Cardinality(Sending(e)') = Cardinality(Sending(e)) - 1
    BY <1>2, <1>9, <2>1, <2>2, <2>3, CountFact
  <2>5. QED
    BY <1>1, <1>2, <1>3, <1>5, <2>4 DEF AccountInv, AccountOk
<1>11. \A f \in Events \ {e} : AccountOk(f)'
  BY <1>1, <1>5, <1>7, <1>9, OthersSendFact, AccountFact DEF AccountInv
<1>12. QED
  BY <1>7, <1>8, <1>10, <1>11 DEF AccountInv

\* Recording the outcome, after which the worker sends no more.
LEMMA MarkFact ==
  ASSUME IInv, NEW w \in Workers, NEW i \in batch[w], Current(w, i),
         MarkOutboundSent(w, i) \/ MarkOutboundFailed(w, i)
  PROVE  IInv'
<1> USE DEF IInv
<1> DEFINE e == EventOf(i)
<1>1. UNCHANGED <<stream, active, accepted>> /\ Keeps /\ pc[w] \in {"mark", "fail"}
  BY DEF MarkOutboundSent, MarkOutboundFailed, Keeps
<1>2. e \in Events /\ Valid(i) /\ (pc[w] = "mark" => accepted[e] > 0)
  BY <1>1, EventFact DEF ConsumerInv, WorkerInv, WorkerOk
<1>3. PICK s \in {"SENT", "RETRYABLE_FAILED"} :
        /\ delivery' = [delivery EXCEPT ![e].status = s]
        /\ s = "SENT" => accepted[e] > 0
  BY <1>2 DEF MarkOutboundSent, MarkOutboundFailed
<1> HIDE DEF e
<1>4. /\ ConsumerInv(Entry)' /\ Grows /\ OthersStay(w)
      /\ pc' \in [Workers -> Labels] /\ pc'[w] \in LoopLabels \cup {"ack"}
      /\ AckedIsAccepted' /\ WorkerInv'
  <2>1. CASE Goto(w, "ack") /\ UNCHANGED batch /\ pc[w] = "mark"
    BY <1>1, <1>2, <2>1, GotoFact DEF Labels, e
  <2>2. CASE Leave(w, i)
    BY <1>1, <2>2, LeaveUnackedFact
  <2>3. QED
    BY <2>1, <2>2 DEF MarkOutboundSent, MarkOutboundFailed
<1>5. /\ delivery' \in [Events -> [status : {"NONE", "SENDING", "SENT", "RETRYABLE_FAILED"},
                                   attempt : 0..MaxAttempts]]
      /\ \A f \in Events : delivery'[f].attempt = delivery[f].attempt
      /\ \A f \in Events \ {e} : delivery'[f].status = delivery[f].status
      /\ delivery'[e].status = s
  BY <1>2, <1>3 DEF TypeOK
<1>6. TypeOK' /\ SentIsAccepted'
  BY <1>1, <1>2, <1>3, <1>4, <1>5 DEF TypeOK, Labels, SentIsAccepted, ConsumerInv
<1>7. \A f \in Events : w \notin Sending(f)'
  BY <1>4 DEF Sending, LoopLabels
<1>8. AccountInv'
  BY <1>1, <1>4, <1>5, <1>7, OthersSendFact, AccountFact DEF AccountInv
<1>9. QED
  BY <1>4, <1>6, <1>8

\* The invariant holds at first.
LEMMA InitIInv == Init => IInv
<1> SUFFICES ASSUME Init PROVE IInv
  OBVIOUS
<1>1. stream \in StreamOf(Entry) /\ WellFormed(stream) /\ stream.last = 0
  BY EmptyStreamFact DEF Init, EmptyStream
<1>2. TypeOK /\ ConsumerInv(Entry) /\ AckedIsAccepted /\ SentIsAccepted /\ WorkerInv
  BY <1>1, BoundAssumption
     DEF Init, TypeOK, ConsumerInv, AckedIsAccepted, SentIsAccepted, WorkerInv, WorkerOk, LoopLabels
<1>3. AccountInv
  <2>1. \A e \in Events : Sending(e) = {}
    BY DEF Init, Sending
  <2>2. QED
    BY <2>1, FS_EmptySet DEF Init, AccountInv, AccountOk
<1>4. QED
  BY <1>2, <1>3 DEF IInv

\* Every step keeps the invariant.
LEMMA NextIInv == IInv /\ [Next]_vars => IInv'
<1> SUFFICES ASSUME IInv, [Next]_vars PROVE IInv'
  OBVIOUS
<1> USE DEF IInv
<1>0. pc \in [Workers -> Labels] /\ LoopLabels \subseteq Labels
  BY DEF TypeOK, Labels
<1>1. ASSUME NEW w \in Workers, Loop(w), UNCHANGED <<active, delivery, accepted>> PROVE IInv'
  <2>1. /\ ConsumerInv(Entry)' /\ Grows /\ Acked(stream') = Acked(stream)
        /\ pc' \in [Workers -> Labels] /\ pc'[w] \in LoopLabels /\ OthersStay(w)
    BY <1>0, <1>1, LoopFact
  <2>2. QED
    BY <1>1, <2>1, LoopStepFact
<1>2. ASSUME NEW w \in Workers, NEW i \in batch[w], Current(w, i), ProcessOne(w, i) PROVE IInv'
  <2>1. CASE AckEntry(w, i)
    <3>1. Settled(i)
      BY <1>2, <2>1 DEF AckEntry, WorkerInv, WorkerOk, Settled
    <3>2. QED
      BY <1>2, <2>1, <3>1, LeaveStepFact DEF AckEntry
  <2>2. CASE DropEntry(w, i)
    BY <1>2, <2>2, LeaveStepFact DEF DropEntry
  <2>3. QED
    BY <1>2, <2>1, <2>2, DecodeFact, ClaimFact, SendFact, MarkFact DEF ProcessOne
<1>3. ASSUME NEW w \in Workers, Crash(w) PROVE IInv'
  <2>1. /\ ConsumerInv(Entry)' /\ Grows /\ Acked(stream') = Acked(stream)
        /\ pc' \in [Workers -> Labels] /\ pc'[w] \in LoopLabels /\ OthersStay(w)
    BY <1>0, <1>3, DieFact DEF Crash
  <2>2. QED
    BY <1>3, <2>1, LoopStepFact DEF Crash
<1>4. ASSUME NEW e \in Entry, Enqueue(e) PROVE IInv'
  <2>1. /\ ConsumerInv(Entry)' /\ Grows /\ Acked(stream') = Acked(stream)
        /\ UNCHANGED <<pc, batch, active, delivery, accepted>>
    BY <1>4, EnqueueFact DEF Enqueue
  <2>2. QED
    BY <2>1, QuietFact DEF TypeOK, ConsumerInv
<1>5. ASSUME NEW i \in stream.pending, Time(i) PROVE IInv'
  <2>1. /\ ConsumerInv(Entry)' /\ Grows /\ Acked(stream') = Acked(stream)
        /\ UNCHANGED <<pc, batch, active, delivery, accepted>>
    BY <1>5, IdleFact DEF Time, BecomeIdle
  <2>2. QED
    BY <2>1, QuietFact DEF TypeOK, ConsumerInv
<1>6. ASSUME UNCHANGED <<stream, pc, batch, delivery, accepted>>, active' \subseteq Events PROVE IInv'
  <2>1. ConsumerInv(Entry)' /\ Grows /\ Acked(stream') = Acked(stream)
    BY <1>6, SameStreamFact DEF ConsumerInv
  <2>2. QED
    BY <1>6, <2>1, QuietFact DEF TypeOK, ConsumerInv
<1>7. ASSUME NEW events \in SUBSET Events, SetActive(events) PROVE IInv'
  BY <1>6, <1>7 DEF SetActive
<1>8. CASE UNCHANGED vars
  BY <1>6, <1>8 DEF vars, TypeOK
<1>9. QED
  BY <1>1, <1>2, <1>3, <1>4, <1>5, <1>7, <1>8 DEF Next, Work

-----------------------------------------------------------------------------
(* The theorems.                                                           *)

\* The inductive invariant holds in every reachable state.
THEOREM Inductive == Spec => []IInv
BY InitIInv, NextIInv, PTL DEF Spec

\* Every variable keeps its type; the status is one the table allows.
THEOREM TypeCorrect == Spec => []TypeOK
BY Inductive, PTL DEF IInv

\* No answer is lost: an acknowledged entry was accepted by WeCom, for every
\* interleaving of claims, failures, crashes and repeated deliveries.
THEOREM NoAnswerLost == Spec => []AckedIsAccepted
BY Inductive, PTL DEF IInv

\* SENT in the table is true: WeCom accepted the message.
THEOREM SentIsTrue == Spec => []SentIsAccepted
BY Inductive, PTL DEF IInv

\* No message is sent without a recorded attempt of its own.
THEOREM AttemptsCover == Spec => []AttemptsCoverMessages
<1>1. IInv => AttemptsCoverMessages
  <2> SUFFICES ASSUME IInv, NEW e \in Events PROVE accepted[e] <= delivery[e].attempt
    BY DEF AttemptsCoverMessages
  <2>1. accepted[e] \in 0..MaxAttempts /\ delivery[e].attempt \in 0..MaxAttempts
    BY DEF IInv, TypeOK
  <2>2. Sending(e) \in SUBSET Workers
    BY DEF Sending
  <2>3. Cardinality(Sending(e)) \in Nat
    BY <2>2, CountFact
  <2>4. QED
    BY <2>1, <2>3, BoundAssumption DEF IInv, AccountInv, AccountOk
<1>2. QED
  BY <1>1, Inductive, PTL

\* A delivery that is SENT and not attempted any more is never sent again.
THEOREM DoneStays == Spec => DoneIsFinal
<1>1. ASSUME IInv, [Next]_vars, NEW e \in Events,
             delivery[e].status = "SENT", Attempting(e) = {}
      PROVE  delivery'[e].status = "SENT" /\ accepted'[e] = accepted[e]
  <2> USE <1>1 DEF IInv
  <2>1. CASE UNCHANGED <<delivery, accepted>>
    BY <2>1
  <2>2. ASSUME NEW w \in Workers, NEW i \in batch[w], Current(w, i), ProcessOne(w, i)
        PROVE  delivery'[e].status = "SENT" /\ accepted'[e] = accepted[e]
    <3>1. pc[w] \in {"load", "send", "mark", "fail"} => EventOf(i) # e
      BY <2>2 DEF Attempting
    <3>2. CASE EventOf(i) # e
      BY <2>2, <3>2
         DEF ProcessOne, Decode, ClaimOutboundDelivery, StartAttempt, LoadOutboundAnswer,
             SendText, MarkOutboundSent, MarkOutboundFailed, AckEntry, DropEntry, TypeOK
    <3>3. CASE EventOf(i) = e /\ pc[w] \notin {"load", "send", "mark", "fail"}
      BY <2>2, <3>3
         DEF ProcessOne, Decode, ClaimOutboundDelivery, LoadOutboundAnswer,
             SendText, MarkOutboundSent, MarkOutboundFailed, AckEntry, DropEntry
    <3>4. QED
      BY <3>1, <3>2, <3>3
  <2>3. QED
    BY <2>1, <2>2 DEF Next, Work, Crash, Enqueue, SetActive, Time, vars
<1>2. IInv /\ [Next]_vars =>
        [\A e \in Events :
           delivery[e].status = "SENT" /\ Attempting(e) = {} =>
             /\ delivery'[e].status = "SENT"
             /\ accepted'[e] = accepted[e]]_vars
  BY <1>1
<1>3. QED
  BY <1>2, Inductive, PTL DEF Spec, DoneIsFinal
=============================================================================
