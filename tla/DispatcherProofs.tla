--------------------------- MODULE DispatcherProofs ---------------------------
(***************************************************************************)
(* The safety of the dispatcher for any number of workers, requests and    *)
(* entries, and any batch size.                                            *)
(***************************************************************************)
EXTENDS Dispatcher, StreamConsumerProofs

Labels == LoopLabels \cup {"load", "poison", "call", "publish", "ack"}

\* What worker w knows of the entry it is at.
WorkerOk(w) ==
  \A i \in batch[w] : Current(w, i) =>
    /\ pc[w] = "load" => stream.log[i].kind # "malformed"
    /\ pc[w] = "poison" => ~Valid(i)
    /\ pc[w] \in {"call", "publish", "ack"} => Valid(i)
    /\ pc[w] = "publish" => /\ held[w] = answer[stream.log[i].request]
                            /\ held[w] # None
    /\ pc[w] = "ack" => CompletedRequest(stream.log[i].request)

WorkerInv == \A w \in Workers : WorkerOk(w)

IInv ==
  /\ TypeOK
  /\ ConsumerInv(Entry)
  /\ AckedIsSettled
  /\ PublishedAgrees
  /\ WorkerInv

Settled(i) == ~Valid(i) \/ CompletedRequest(stream.log[i].request)

\* AckedIsSettled, by the set of the acknowledged entries.
LEMMA SettledFact == AckedIsSettled <=> \A i \in Acked(stream) : Settled(i)
BY DEF AckedIsSettled, Acked, Settled

\* A step that acknowledges settled entries only keeps all of them settled.
LEMMA StaySettledFact ==
  ASSUME AckedIsSettled, Grows, published \subseteq published',
         \A i \in Acked(stream') : i \in Acked(stream) \/ (i \in 1..stream.last /\ Settled(i))
  PROVE  AckedIsSettled'
<1> SUFFICES ASSUME NEW i \in Acked(stream') PROVE Settled(i)'
  BY DEF AckedIsSettled, Acked, Settled
<1>1. i \in 1..stream.last /\ Settled(i)
  BY SettledFact DEF Acked
<1>2. stream'.log[i] = stream.log[i]
  BY <1>1 DEF Grows
<1>3. QED
  BY <1>1, <1>2 DEF Settled, Valid, CompletedRequest

\* Growing the stream leaves the events and their entries as they are.
LEMMA AgreesFact ==
  ASSUME PublishedAgrees, Grows, published' = published, answer' = answer
  PROVE  PublishedAgrees'
<1> SUFFICES ASSUME NEW p \in published
             PROVE  /\ answer[p.request] = p.answer
                    /\ \E i \in 1..stream'.last :
                         stream'.log[i].request = p.request /\ Valid(i)'
  BY DEF PublishedAgrees
<1>1. PICK i \in 1..stream.last : stream.log[i].request = p.request /\ Valid(i)
  BY DEF PublishedAgrees
<1>2. i \in 1..stream'.last /\ stream'.log[i] = stream.log[i]
  BY DEF Grows
<1>3. QED
  BY <1>1, <1>2 DEF PublishedAgrees, Valid

\* A worker that does nothing is not disturbed by what the others do.
LEMMA FrameFact ==
  ASSUME ConsumerInv(Entry), NEW v \in Workers, WorkerOk(v), Grows,
         published \subseteq published', answer' = answer,
         batch'[v] = batch[v], pc'[v] = pc[v], held'[v] = held[v]
  PROVE  WorkerOk(v)'
BY DEF ConsumerInv, WorkerOk, Grows, Current, Valid, CompletedRequest

\* A worker between two entries has nothing to know.
LEMMA BetweenFact ==
  ASSUME NEW v \in Workers, pc'[v] \in LoopLabels
  PROVE  WorkerOk(v)'
BY DEF WorkerOk, LoopLabels

\* If worker w ends up in the loop and the others are left alone, all is well.
LEMMA WorkersFact ==
  ASSUME ConsumerInv(Entry), WorkerInv, Grows, published \subseteq published', answer' = answer,
         NEW w \in Workers, OthersStay(w), pc'[w] \in LoopLabels,
         \A v \in Workers \ {w} : held'[v] = held[v]
  PROVE  WorkerInv'
BY FrameFact, BetweenFact DEF WorkerInv, OthersStay

\* A worker is at entries of known requests.
LEMMA RequestFact ==
  ASSUME ConsumerInv(Entry), NEW w \in Workers, NEW i \in batch[w]
  PROVE  i \in 1..stream.last /\ stream.log[i].request \in Requests
<1>1. i \in 1..stream.last
  BY DEF ConsumerInv
<1>2. stream.log[i] \in Entry
  BY <1>1, DeliveredFact
<1>3. QED
  BY <1>1, <1>2 DEF Entry

\* The invariant holds at first.
LEMMA InitIInv == Init => IInv
<1> SUFFICES ASSUME Init PROVE IInv
  OBVIOUS
<1>1. stream \in StreamOf(Entry) /\ WellFormed(stream) /\ stream.last = 0
  BY EmptyStreamFact DEF Init, EmptyStream
<1>2. QED
  BY <1>1 DEF Init, IInv, TypeOK, ConsumerInv, AckedIsSettled, PublishedAgrees,
              WorkerInv, WorkerOk, LoopLabels

\* A step of worker w within its entry i that changes no stream.
LEMMA StepFact ==
  ASSUME IInv, NEW w \in Workers, NEW i \in batch[w], Current(w, i),
         Decode(w, i) \/ LoadQuestion(w, i) \/ CallAgent(w, i)
  PROVE  IInv'
<1> USE NoneAssumption DEF IInv, Goto
<1>1. stream' = stream /\ batch' = batch /\ published' = published /\ answer' = answer
  BY DEF Decode, LoadQuestion, CallAgent
<1>2. Grows
  BY <1>1, SameStreamFact
<1>3. stream.log[i] \in Entry
  BY DeliveredFact DEF ConsumerInv
<1>4. TypeOK'
  BY <1>1, <1>3 DEF Decode, LoadQuestion, CallAgent, TypeOK, Entry
<1>5. ConsumerInv(Entry)'
  BY <1>1 DEF ConsumerInv
<1>6. AckedIsSettled' /\ PublishedAgrees'
  BY <1>1, <1>2, AgreesFact, StaySettledFact
<1>7. WorkerInv'
  BY <1>1, <1>3
     DEF Decode, LoadQuestion, CallAgent, WorkerInv, WorkerOk, Current, Valid,
         CompletedRequest, TypeOK, Entry
<1>8. QED
  BY <1>4, <1>5, <1>6, <1>7

\* A step with which worker w leaves its entry i.
LEMMA ReturnFact ==
  ASSUME IInv, NEW w \in Workers, NEW i \in batch[w], Return(w, i),
         stream' = stream \/ (stream' = Ack(stream, i) /\ Settled(i)),
         published' = published, answer' = answer
  PROVE  IInv'
<1> USE DEF IInv
<1>1. pc \in [Workers -> Labels] /\ LoopLabels \subseteq Labels
  BY DEF TypeOK, Labels
<1>2. Leave(w, i) /\ held' = [held EXCEPT ![w] = None]
  BY DEF Return
<1>3. /\ ConsumerInv(Entry)'
      /\ Grows
      /\ Acked(stream') \subseteq Acked(stream) \cup (IF stream' = stream THEN {} ELSE {i})
      /\ pc' \in [Workers -> Labels]
      /\ pc'[w] \in LoopLabels
      /\ OthersStay(w)
  BY <1>1, <1>2, LeaveFact
<1>4. TypeOK'
  BY <1>2, <1>3 DEF TypeOK, Labels, ConsumerInv
<1>5. AckedIsSettled'
  BY <1>3, StaySettledFact DEF ConsumerInv
<1>6. PublishedAgrees' /\ WorkerInv'
  BY <1>2, <1>3, AgreesFact, WorkersFact DEF TypeOK
<1>7. QED
  BY <1>3, <1>4, <1>5, <1>6

\* The event worker w publishes for its entry i.
Event(w, i) == [request |-> stream.log[i].request, answer |-> held[w]]

\* Publishing the event of entry i.
LEMMA PublishCompletedFact ==
  ASSUME IInv, NEW w \in Workers, NEW i \in batch[w], Current(w, i), PublishCompleted(w, i)
  PROVE  IInv'
<1> USE NoneAssumption DEF IInv, Goto
<1>1. /\ stream' = stream /\ answer' = answer
      /\ published' = published \cup {Event(w, i)}
      /\ pc[w] = "publish"
  BY DEF PublishCompleted, Event
<1>2. stream.log[i].request \in Requests /\ i \in 1..stream.last
  BY RequestFact
<1>3. held[w] = answer[stream.log[i].request] /\ held[w] \in Answers /\ Valid(i)
  BY <1>1 DEF WorkerInv, WorkerOk, TypeOK
<1>4. /\ Event(w, i) \in [request : Requests, answer : Answers]
      /\ Event(w, i).request = stream.log[i].request
      /\ Event(w, i).answer = held[w]
  BY <1>2, <1>3 DEF Event
<1>5. Grows
  BY <1>1, SameStreamFact
<1>6. PublishedAgrees'
  BY <1>1, <1>2, <1>3, <1>4 DEF PublishedAgrees, Valid
<1>7. AckedIsSettled'
  BY <1>1, <1>5, StaySettledFact
<1>8. CompletedRequest(stream.log[i].request)'
  BY <1>1, <1>4 DEF CompletedRequest
<1>9. CASE pc' = [pc EXCEPT ![w] = "ack"] /\ batch' = batch /\ held' = held
  <2>1. TypeOK' /\ ConsumerInv(Entry)'
    BY <1>1, <1>4, <1>9 DEF TypeOK, ConsumerInv
  <2>2. \A j \in batch[w] : Current(w, j) => j = i
    BY DEF Current, ConsumerInv
  <2>3. WorkerOk(w)'
    BY <1>1, <1>3, <1>8, <1>9, <2>2 DEF WorkerOk, Current, Valid, CompletedRequest, TypeOK
  <2>4. \A v \in Workers \ {w} : WorkerOk(v)'
    BY <1>1, <1>5, <1>9, FrameFact DEF WorkerInv, TypeOK
  <2>5. QED
    BY <1>6, <1>7, <2>1, <2>3, <2>4 DEF WorkerInv
<1>10. CASE Return(w, i)
  <2>1. pc \in [Workers -> Labels] /\ LoopLabels \subseteq Labels
    BY DEF TypeOK, Labels
  <2>2. /\ ConsumerInv(Entry)'
        /\ pc' \in [Workers -> Labels]
        /\ pc'[w] \in LoopLabels
        /\ OthersStay(w)
    BY <1>1, <1>10, <2>1, LeaveFact DEF Return
  <2>3. held' = [held EXCEPT ![w] = None]
    BY <1>10 DEF Return
  <2>4. TypeOK'
    BY <1>1, <1>4, <2>2, <2>3 DEF TypeOK, Labels, ConsumerInv
  <2>5. WorkerInv'
    BY <1>1, <1>5, <2>2, <2>3, WorkersFact DEF TypeOK
  <2>6. QED
    BY <1>6, <1>7, <2>2, <2>4, <2>5
<1>11. QED
  BY <1>9, <1>10 DEF PublishCompleted

\* Every step keeps the invariant.
LEMMA NextIInv == IInv /\ [Next]_vars => IInv'
<1> SUFFICES ASSUME IInv, [Next]_vars PROVE IInv'
  OBVIOUS
<1> USE NoneAssumption DEF IInv
<1>0. pc \in [Workers -> Labels] /\ LoopLabels \subseteq Labels
  BY DEF TypeOK, Labels
<1>1. ASSUME NEW w \in Workers, Loop(w), UNCHANGED <<published, answer, held>> PROVE IInv'
  <2>1. /\ ConsumerInv(Entry)' /\ Grows /\ Acked(stream') = Acked(stream)
        /\ pc' \in [Workers -> Labels] /\ pc'[w] \in LoopLabels /\ OthersStay(w)
    BY <1>0, <1>1, LoopFact
  <2>2. TypeOK'
    BY <1>1, <2>1 DEF TypeOK, Labels, ConsumerInv
  <2>3. AckedIsSettled' /\ PublishedAgrees' /\ WorkerInv'
    BY <1>1, <2>1, StaySettledFact, AgreesFact, WorkersFact
  <2>4. QED
    BY <2>1, <2>2, <2>3
<1>2. ASSUME NEW w \in Workers, NEW i \in batch[w], Current(w, i),
             Decode(w, i) \/ LoadQuestion(w, i) \/ CallAgent(w, i)
      PROVE  IInv'
  BY <1>2, StepFact
<1>3. ASSUME NEW w \in Workers, NEW i \in batch[w], Current(w, i), AckPoison(w, i) PROVE IInv'
  <2>1. Settled(i)
    BY <1>3 DEF AckPoison, WorkerInv, WorkerOk, Settled
  <2>2. QED
    BY <1>3, <2>1, ReturnFact DEF AckPoison
<1>4. ASSUME NEW w \in Workers, NEW i \in batch[w], Current(w, i), PublishCompleted(w, i)
      PROVE  IInv'
  BY <1>4, PublishCompletedFact
<1>5. ASSUME NEW w \in Workers, NEW i \in batch[w], Current(w, i), AckRequest(w, i) PROVE IInv'
  <2>1. Settled(i)
    BY <1>5 DEF AckRequest, WorkerInv, WorkerOk, Settled
  <2>2. QED
    BY <1>5, <2>1, ReturnFact DEF AckRequest
<1>6. ASSUME NEW w \in Workers, NEW i \in batch[w], DropEntry(w, i) PROVE IInv'
  BY <1>6, ReturnFact DEF DropEntry
<1>7. ASSUME NEW w \in Workers, NEW i \in batch[w], AgentAnswers(w, i) PROVE IInv'
  <2> DEFINE r == stream.log[i].request
  <2>1. PICK a \in Answers : answer' = [answer EXCEPT ![r] = a]
    BY <1>7 DEF AgentAnswers
  <2>2. answer[r] = None /\ UNCHANGED <<stream, published, pc, batch, held>>
    BY <1>7 DEF AgentAnswers
  <2>3. TypeOK' /\ ConsumerInv(Entry)'
    BY <2>1, <2>2 DEF TypeOK, ConsumerInv
  <2>4. AckedIsSettled'
    BY <2>2 DEF AckedIsSettled, Valid, CompletedRequest
  <2>5. \A q \in Requests : answer[q] # None => answer'[q] = answer[q]
    BY <2>1, <2>2 DEF TypeOK
  <2>6. PublishedAgrees'
    BY <2>2, <2>5 DEF PublishedAgrees, Valid, TypeOK
  <2>7. \A v \in Workers : \A j \in batch[v] : stream.log[j].request \in Requests
    BY RequestFact
  <2>8. WorkerInv'
    BY <2>2, <2>5, <2>7 DEF WorkerInv, WorkerOk, Current, Valid, CompletedRequest
  <2>9. QED
    BY <2>3, <2>4, <2>6, <2>8
<1>8. ASSUME NEW w \in Workers, Crash(w) PROVE IInv'
  <2>1. /\ ConsumerInv(Entry)' /\ Grows /\ Acked(stream') = Acked(stream)
        /\ pc' \in [Workers -> Labels] /\ pc'[w] \in LoopLabels /\ OthersStay(w)
    BY <1>0, <1>8, DieFact DEF Crash
  <2>2. TypeOK'
    BY <1>8, <2>1 DEF Crash, TypeOK, Labels, ConsumerInv
  <2>3. AckedIsSettled' /\ PublishedAgrees' /\ WorkerInv'
    BY <1>8, <2>1, StaySettledFact, AgreesFact, WorkersFact DEF Crash, TypeOK
  <2>4. QED
    BY <2>1, <2>2, <2>3
<1>9. ASSUME NEW e \in Entry, Enqueue(e) PROVE IInv'
  <2>1. /\ ConsumerInv(Entry)' /\ Grows /\ Acked(stream') = Acked(stream)
        /\ UNCHANGED <<published, answer, pc, batch, held>>
    BY <1>9, EnqueueFact DEF Enqueue
  <2>2. TypeOK'
    BY <2>1 DEF TypeOK, ConsumerInv
  <2>3. AckedIsSettled' /\ PublishedAgrees' /\ WorkerInv'
    BY <2>1, StaySettledFact, AgreesFact, FrameFact DEF WorkerInv
  <2>4. QED
    BY <2>1, <2>2, <2>3
<1>10. ASSUME NEW i \in stream.pending, Time(i) PROVE IInv'
  <2>1. /\ ConsumerInv(Entry)' /\ Grows /\ Acked(stream') = Acked(stream)
        /\ UNCHANGED <<published, answer, pc, batch, held>>
    BY <1>10, IdleFact DEF Time, BecomeIdle
  <2>2. TypeOK'
    BY <2>1 DEF TypeOK, ConsumerInv
  <2>3. AckedIsSettled' /\ PublishedAgrees' /\ WorkerInv'
    BY <2>1, StaySettledFact, AgreesFact, FrameFact DEF WorkerInv
  <2>4. QED
    BY <2>1, <2>2, <2>3
<1>11. CASE UNCHANGED vars
  BY <1>11 DEF vars, TypeOK, ConsumerInv, AckedIsSettled, PublishedAgrees, WorkerInv,
               WorkerOk, Current, Valid, CompletedRequest
<1>12. QED
  BY <1>1, <1>2, <1>3, <1>4, <1>5, <1>6, <1>7, <1>8, <1>9, <1>10, <1>11
     DEF Next, Work, ProcessOne

\* The inductive invariant holds in every reachable state.
THEOREM Inductive == Spec => []IInv
BY InitIInv, NextIInv, PTL DEF Spec

\* Every variable keeps its type: batches hold entries, an event has an answer.
THEOREM TypeCorrect == Spec => []TypeOK
BY Inductive, PTL DEF IInv

\* No question is lost between the streams: an acknowledged valid entry has its
\* completion published, for every interleaving of claims, crashes and failures.
THEOREM NoQuestionLost == Spec => []AckedIsSettled
BY Inductive, PTL DEF IInv

\* All completions of a request carry its one answer, and it was asked for.
THEOREM CompletionsAgree == Spec => []PublishedAgrees
BY Inductive, PTL DEF IInv
=============================================================================
