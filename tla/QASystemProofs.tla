---------------------------- MODULE QASystemProofs ----------------------------
(***************************************************************************)
(* Proofs about QASystem, for every number of messages, users and workers: *)
(* the composition keeps the specifications of its components, so that     *)
(* what is proved of the dispatcher and of the delivery holds of the parts *)
(* of the whole, and from it that no question is lost between the          *)
(* processes and that answers reach their askers.                          *)
(***************************************************************************)
EXTENDS QASystem, TLAPS

DP == INSTANCE DispatcherProofs WITH
        Workers <- Dispatchers, Doomed <- {}, MaxEntries <- MaxRequested,
        stream <- requested, pc <- dpc, batch <- dbatch, published <- Events
OP == INSTANCE OutboundProofs WITH
        Workers <- Senders, Events <- Requests, MaxEntries <- MaxCompleted,
        MaxAttempts <- MaxFaults + 2,
        stream <- completed, pc <- opc, batch <- obatch,
        active <- Deliverable, accepted <- sent

TypeOK ==
  /\ accepted \in [Messages -> Requests \cup {None}]
  /\ acked \subseteq Messages
  /\ question \in [Dispatchers -> Messages \cup {None}]
  /\ received \subseteq [user : Users, answer : Answers]
  /\ dfaults \in Nat /\ ofaults \in Nat /\ changes \in Nat

\* A request id belongs to one message.
OneMessage ==
  \A m, n \in Messages : accepted[m] # None /\ accepted[m] = accepted[n] => m = n

\* What the gateway published was asked by the user the event names.
RequestedOk ==
  \A i \in DOMAIN requested.log :
    /\ requested.log[i].kind = "valid"
    /\ \E m \in Messages :
         Asks(requested.log[i].request, m) /\ requested.log[i].user = Sender[m]

\* What was confirmed to WeCom was published.
AckedOk == \A m \in acked : accepted[m] \in RequestsIn(requested)

\* A dispatcher asks the agent the question of its entry.
LoadedOk ==
  \A w \in Dispatchers : \A i \in dbatch[w] :
    D!Current(w, i) /\ dpc[w] = "call" =>
      question[w] \in Messages /\ Asks(requested.log[i].request, question[w])

\* The answer stored for a request answers its question.
AnswerOk ==
  \A r \in Requests :
    answer[r] # None => answer[r].question \in Messages /\ Asks(r, answer[r].question)

\* What the dispatchers published is the stored answer, for the asker.
CompletedOk ==
  \A i \in DOMAIN completed.log :
    LET e == completed.log[i] IN
    /\ e.kind = "valid"
    /\ e.answer = answer[e.event]
    /\ e.user = Sender[e.answer.question]

PathInv ==
  /\ TypeOK /\ OneMessage /\ RequestedOk /\ AckedOk
  /\ LoadedOk /\ AnswerOk /\ CompletedOk /\ AnswerReachesAsker

IInv == DP!IInv /\ OP!IInv /\ PathInv
-----------------------------------------------------------------------------
(* The instances of the component's module and of its proofs agree.        *)

\* The operators on the stream qa:requested are the same.
LEMMA SameRequestStream ==
  ASSUME NEW s, NEW n
  PROVE  /\ D!StaleEntries(s, n) = DP!StaleEntries(s, n)
         /\ D!ClaimStale(s, n) = DP!ClaimStale(s, n)
         /\ D!NewEntries(s, n) = DP!NewEntries(s, n)
         /\ D!ReadGroup(s, n) = DP!ReadGroup(s, n)
<1>1. \A S : D!Cardinality(S) = DP!Cardinality(S)
  BY DEF D!Cardinality, DP!Cardinality
<1>2. D!StaleEntries(s, n) = DP!StaleEntries(s, n)
  BY <1>1 DEF D!StaleEntries, DP!StaleEntries
<1>3. D!NewEntries(s, n) = DP!NewEntries(s, n)
  BY DEF D!NewEntries, DP!NewEntries, D!Entries, DP!Entries
<1>4. QED
  BY <1>2, <1>3 DEF D!ClaimStale, DP!ClaimStale, D!ReadGroup, DP!ReadGroup

\* A step of the dispatcher is one of the module its proofs are about.
LEMMA SameDispatcher == [D!Next]_(D!vars) => [DP!Next]_(DP!vars)
<1>1. ASSUME NEW w, D!Loop(w) PROVE DP!Loop(w)
  BY <1>1, SameRequestStream
     DEF D!Loop, D!ClaimIdle, D!ClaimNothing, D!ReadNew, D!ReadNothing, D!Finish, D!Goto,
         DP!Loop, DP!ClaimIdle, DP!ClaimNothing, DP!ReadNew, DP!ReadNothing, DP!Finish, DP!Goto
<1>2. ASSUME NEW w, NEW i, D!ProcessOne(w, i) PROVE DP!ProcessOne(w, i)
  BY <1>2
     DEF D!ProcessOne, D!Decode, D!LoadQuestion, D!AckPoison, D!CallAgent, D!PublishCompleted,
         D!AckRequest, D!DropEntry, D!Return, D!Leave, D!Goto, D!Ack,
         DP!ProcessOne, DP!Decode, DP!LoadQuestion, DP!AckPoison, DP!CallAgent,
         DP!PublishCompleted, DP!AckRequest, DP!DropEntry, DP!Return, DP!Leave, DP!Goto, DP!Ack
<1>3. \A w, i : D!Current(w, i) <=> DP!Current(w, i)
  BY DEF D!Current, DP!Current
<1>4. ASSUME NEW w, NEW i, D!AgentAnswers(w, i) PROVE DP!AgentAnswers(w, i)
  BY <1>4 DEF D!AgentAnswers, DP!AgentAnswers
<1>5. ASSUME NEW w, D!Crash(w) PROVE DP!Crash(w)
  BY <1>5 DEF D!Crash, D!Die, D!Goto, DP!Crash, DP!Die, DP!Goto
<1>6. ASSUME NEW e, D!Enqueue(e) PROVE DP!Enqueue(e)
  BY <1>6 DEF D!Enqueue, D!Publish, DP!Enqueue, DP!Publish
<1>7. ASSUME NEW i, D!Time(i) PROVE DP!Time(i)
  BY <1>7 DEF D!Time, D!BecomeIdle, D!Expire, DP!Time, DP!BecomeIdle, DP!Expire
<1>8. D!Entry = DP!Entry
  BY DEF D!Entry, DP!Entry
<1>9. QED
  BY <1>1, <1>2, <1>3, <1>4, <1>5, <1>6, <1>7, <1>8
     DEF D!Next, D!Work, D!vars, DP!Next, DP!Work, DP!vars

\* The operators on the stream qa:completed are the same.
LEMMA SameCompletedStream ==
  ASSUME NEW s, NEW n
  PROVE  /\ O!StaleEntries(s, n) = OP!StaleEntries(s, n)
         /\ O!ClaimStale(s, n) = OP!ClaimStale(s, n)
         /\ O!NewEntries(s, n) = OP!NewEntries(s, n)
         /\ O!ReadGroup(s, n) = OP!ReadGroup(s, n)
<1>1. \A S : O!Cardinality(S) = OP!Cardinality(S)
  BY DEF O!Cardinality, OP!Cardinality
<1>2. O!StaleEntries(s, n) = OP!StaleEntries(s, n)
  BY <1>1 DEF O!StaleEntries, OP!StaleEntries
<1>3. O!NewEntries(s, n) = OP!NewEntries(s, n)
  BY DEF O!NewEntries, OP!NewEntries, O!Entries, OP!Entries
<1>4. QED
  BY <1>2, <1>3 DEF O!ClaimStale, OP!ClaimStale, O!ReadGroup, OP!ReadGroup

\* A step of the delivery is one of the module its proofs are about.
LEMMA SameOutbound == [O!Next]_(O!vars) => [OP!Next]_(OP!vars)
<1>1. ASSUME NEW w, O!Loop(w) PROVE OP!Loop(w)
  BY <1>1, SameCompletedStream
     DEF O!Loop, O!ClaimIdle, O!ClaimNothing, O!ReadNew, O!ReadNothing, O!Finish, O!Goto,
         OP!Loop, OP!ClaimIdle, OP!ClaimNothing, OP!ReadNew, OP!ReadNothing, OP!Finish, OP!Goto
<1>2. ASSUME NEW w, NEW i, O!ProcessOne(w, i) PROVE OP!ProcessOne(w, i)
  <2>1. \A n : O!Increment(n) = OP!Increment(n)
    BY DEF O!Increment, OP!Increment
  <2>2. QED
    BY <1>2, <2>1
       DEF O!ProcessOne, O!Decode, O!ClaimOutboundDelivery, O!StartAttempt, O!LoadOutboundAnswer,
           O!SendText, O!MarkOutboundSent, O!MarkOutboundFailed, O!AckEntry, O!DropEntry,
           O!Leave, O!Goto, O!Ack, O!EventOf, O!Valid,
           OP!ProcessOne, OP!Decode, OP!ClaimOutboundDelivery, OP!StartAttempt,
           OP!LoadOutboundAnswer, OP!SendText, OP!MarkOutboundSent, OP!MarkOutboundFailed,
           OP!AckEntry, OP!DropEntry, OP!Leave, OP!Goto, OP!Ack, OP!EventOf, OP!Valid
<1>3. \A w, i : O!Current(w, i) <=> OP!Current(w, i)
  BY DEF O!Current, OP!Current
<1>4. ASSUME NEW w, O!Crash(w) PROVE OP!Crash(w)
  BY <1>4 DEF O!Crash, O!Die, O!Goto, OP!Crash, OP!Die, OP!Goto
<1>5. ASSUME NEW e, O!Enqueue(e) PROVE OP!Enqueue(e)
  BY <1>5 DEF O!Enqueue, O!Publish, OP!Enqueue, OP!Publish
<1>6. ASSUME NEW i, O!Time(i) PROVE OP!Time(i)
  BY <1>6 DEF O!Time, O!BecomeIdle, O!Expire, OP!Time, OP!BecomeIdle, OP!Expire
<1>7. ASSUME NEW events, O!SetActive(events) PROVE OP!SetActive(events)
  BY <1>7 DEF O!SetActive, OP!SetActive
<1>8. O!Entry = OP!Entry
  BY DEF O!Entry, OP!Entry
<1>9. QED
  BY <1>1, <1>2, <1>3, <1>4, <1>5, <1>6, <1>7, <1>8
     DEF O!Next, O!Work, O!vars, OP!Next, OP!Work, OP!vars
-----------------------------------------------------------------------------
(* What a step may do to the two logs.                                     *)

\* Of the operations on a stream only XADD changes the log.
LEMMA RequestLogFact ==
  ASSUME NEW E, requested \in DP!StreamOf(E), NEW n, NEW i
  PROVE  /\ D!ClaimStale(requested, n).log = requested.log
         /\ D!ReadGroup(requested, n).log = requested.log
         /\ D!Ack(requested, i).log = requested.log
         /\ D!Expire(requested, i).log = requested.log
BY DEF DP!StreamOf, D!ClaimStale, D!ReadGroup, D!Ack, D!Expire

LEMMA CompletedLogFact ==
  ASSUME NEW E, completed \in OP!StreamOf(E), NEW n, NEW i
  PROVE  /\ O!ClaimStale(completed, n).log = completed.log
         /\ O!ReadGroup(completed, n).log = completed.log
         /\ O!Ack(completed, i).log = completed.log
         /\ O!Expire(completed, i).log = completed.log
BY DEF OP!StreamOf, O!ClaimStale, O!ReadGroup, O!Ack, O!Expire

\* The dispatchers and time leave the log of their stream alone.
LEMMA DispatcherLogFact ==
  ASSUME DP!IInv,
         \/ \E w \in Dispatchers : DWork(w) \/ DAgent(w) \/ DCrash(w)
         \/ \E i \in requested.pending : DTime(i)
  PROVE  requested'.log = requested.log
<1>1. requested \in DP!StreamOf(DP!Entry)
  BY DEF DP!IInv, DP!TypeOK
<1>2. ASSUME NEW w \in Dispatchers, D!Loop(w) PROVE requested'.log = requested.log
  BY <1>1, <1>2, RequestLogFact
     DEF D!Loop, D!ClaimIdle, D!ClaimNothing, D!ReadNew, D!ReadNothing, D!Finish
<1>3. ASSUME NEW w \in Dispatchers, NEW i, DStep(w, i) PROVE requested'.log = requested.log
  BY <1>1, <1>3, RequestLogFact
     DEF DStep, DLoad, DCall, DPublish, DFinish, D!Decode, D!LoadQuestion, D!CallAgent,
         D!PublishCompleted, D!AckRequest, D!DropEntry
<1>4. ASSUME NEW w \in Dispatchers, DAgent(w) \/ DCrash(w) PROVE requested'.log = requested.log
  BY <1>4 DEF DAgent, DAnswer, D!AgentAnswers, DCrash, D!Crash, D!Die
<1>5. ASSUME NEW i, DTime(i) PROVE requested'.log = requested.log
  BY <1>1, <1>5, RequestLogFact DEF DTime, D!Time, D!BecomeIdle
<1>6. QED
  BY <1>2, <1>3, <1>4, <1>5 DEF DWork, DLoop

\* The delivery and time leave the log of their stream alone.
LEMMA DeliveryLogFact ==
  ASSUME OP!IInv,
         \/ \E w \in Senders : OWork(w) \/ OCrash(w)
         \/ \E i \in completed.pending : OTime(i)
  PROVE  completed'.log = completed.log
<1>1. completed \in OP!StreamOf(OP!Entry)
  BY DEF OP!IInv, OP!TypeOK
<1>2. ASSUME NEW w \in Senders, O!Loop(w) PROVE completed'.log = completed.log
  BY <1>1, <1>2, CompletedLogFact
     DEF O!Loop, O!ClaimIdle, O!ClaimNothing, O!ReadNew, O!ReadNothing, O!Finish
<1>3. ASSUME NEW w \in Senders, NEW i, OStep(w, i) PROVE completed'.log = completed.log
  BY <1>1, <1>3, CompletedLogFact
     DEF OStep, OSend, O!Decode, O!ClaimOutboundDelivery, O!LoadOutboundAnswer, O!SendText,
         O!MarkOutboundSent, O!MarkOutboundFailed, O!AckEntry, O!DropEntry
<1>4. ASSUME NEW w \in Senders, OCrash(w) PROVE completed'.log = completed.log
  BY <1>4 DEF OCrash, O!Crash, O!Die
<1>5. ASSUME NEW i, OTime(i) PROVE completed'.log = completed.log
  BY <1>1, <1>5, CompletedLogFact DEF OTime, O!Time, O!BecomeIdle
<1>6. QED
  BY <1>2, <1>3, <1>4, <1>5 DEF OWork

-----------------------------------------------------------------------------
(* Every step of the whole is a step of each component, or none of it.     *)

\* The steps of the dispatchers, with what they leave to the others.
LEMMA DispatcherStepFact ==
  ASSUME NEW w \in Dispatchers, DWork(w) \/ DAgent(w) \/ DCrash(w)
  PROVE  [D!Next]_(D!vars)
<1>1. ASSUME DLoop(w) PROVE D!Work(w)
  BY <1>1 DEF DLoop, D!Work, Events
<1>2. ASSUME NEW i, DStep(w, i) PROVE D!ProcessOne(w, i)
  BY <1>2 DEF DStep, DLoad, DCall, DPublish, DFinish, D!ProcessOne
<1>3. ASSUME NEW i, DAnswer(w, i) PROVE D!AgentAnswers(w, i)
  BY <1>3 DEF DAnswer
<1>4. QED
  BY <1>1, <1>2, <1>3 DEF DWork, DAgent, DCrash, D!Next, D!Work

\* The gateway adds the entries of the dispatcher's stream.
LEMMA KeepsDispatcher == IInv /\ [Next]_vars => [D!Next]_(D!vars)
<1> SUFFICES ASSUME IInv, [Next]_vars PROVE [D!Next]_(D!vars)
  OBVIOUS
<1>1. ASSUME NEW m \in Messages, Accept(m) \/ Confirm(m) PROVE UNCHANGED D!vars
  BY <1>1 DEF Accept, Confirm, dispatchers, D!vars, Events
<1>2. ASSUME NEW m \in Messages, PublishRequested(m) PROVE D!Next
  <2> DEFINE e == [request |-> accepted[m], user |-> Sender[m], kind |-> "valid"]
  <2>1. e \in D!Entry
    BY <1>2, SenderAssumption DEF PublishRequested, IInv, PathInv, TypeOK, D!Entry
  <2>2. D!Enqueue(e)
    BY <1>2 DEF PublishRequested, D!Enqueue, Events
  <2>3. QED
    BY <2>1, <2>2 DEF D!Next
<1>3. ASSUME NEW i \in requested.pending, DTime(i) PROVE D!Next
  BY <1>3 DEF DTime, D!Next
<1>4. CASE \/ \E w \in Senders : OWork(w) \/ OCrash(w)
           \/ \E i \in completed.pending : OTime(i)
  <2>1. UNCHANGED <<requested, dpc, dbatch, held, answer>>
    BY <1>4 DEF OWork, OCrash, OTime, dispatchers
  <2>2. Events' = Events
    BY <1>4, DeliveryLogFact DEF IInv, Events
  <2>3. QED
    BY <2>1, <2>2 DEF D!vars
<1>5. ASSUME NEW u \in Users, SetUserStatus(u) PROVE UNCHANGED D!vars
  BY <1>5 DEF SetUserStatus, dispatchers, D!vars, Events
<1>6. CASE UNCHANGED vars
  BY <1>6 DEF vars, dispatchers, D!vars, Events
<1>7. QED
  BY <1>1, <1>2, <1>3, <1>4, <1>5, <1>6, DispatcherStepFact DEF Next, Gateway

\* A dispatcher that publishes does so for a delivered entry, with the answer.
LEMMA PublishFact ==
  ASSUME DP!IInv, NEW w \in Dispatchers, NEW i \in dbatch[w], D!Current(w, i),
         dpc[w] = "publish"
  PROVE  /\ i \in 1..requested.last
         /\ requested.log[i] \in D!Entry
         /\ held[w] \in Answers
         /\ held[w] = answer[requested.log[i].request]
<1>1. DP!ConsumerInv(DP!Entry) /\ DP!WorkerOk(w) /\ DP!TypeOK
  BY DEF DP!IInv, DP!WorkerInv
<1>2. i \in 1..requested.last
  BY <1>1 DEF DP!ConsumerInv
<1>3. requested.log[i] \in DP!Entry
  BY <1>1, <1>2 DEF DP!ConsumerInv, DP!WellFormed, DP!StreamOf
<1>4. held[w] = answer[requested.log[i].request] /\ held[w] # None
  BY <1>1 DEF DP!WorkerOk, DP!Current, D!Current
<1>5. held[w] \in Answers
  BY <1>1, <1>4 DEF DP!TypeOK
<1>6. QED
  BY <1>2, <1>3, <1>4, <1>5 DEF D!Entry, DP!Entry

\* What the dispatchers and the agent do adds an event, makes an answer
\* deliverable, or is not seen by the delivery.
LEMMA DeliveryStepFact ==
  ASSUME DP!IInv, NEW w \in Dispatchers, DWork(w) \/ DAgent(w) \/ DCrash(w)
  PROVE  [O!Next]_(O!vars)
<1>1. UNCHANGED <<opc, obatch, delivery, sent>>
  BY DEF DWork, DAgent, DCrash, delivering
<1>2. CASE completed' = completed
  <2>1. Deliverable' \in SUBSET Requests
    BY DEF Deliverable
  <2>2. O!SetActive(Deliverable')
    BY <1>1, <1>2 DEF O!SetActive
  <2>3. QED
    BY <2>1, <2>2 DEF O!Next
<1>3. ASSUME NEW i \in dbatch[w], D!Current(w, i), DPublish(w, i), DWork(w)
      PROVE  O!Next
  <2> DEFINE e == [event |-> requested.log[i].request, kind |-> "valid",
                   user |-> requested.log[i].user, answer |-> held[w]]
  <2>1. e \in O!Entry
    BY <1>3, PublishFact DEF DPublish, D!PublishCompleted, D!Entry, O!Entry
  <2>2. Deliverable' = Deliverable
    BY <1>3 DEF DPublish, D!PublishCompleted, DWork, Deliverable
  <2>3. O!Enqueue(e)
    BY <1>1, <1>3, <2>2 DEF DPublish, O!Enqueue
  <2>4. QED
    BY <2>1, <2>3 DEF O!Next
<1>4. completed' = completed \/
      (DWork(w) /\ \E i \in dbatch[w] : D!Current(w, i) /\ DPublish(w, i))
  BY DEF DWork, DAgent, DCrash, DLoop, DStep, DLoad, DCall, DFinish, DAnswer
<1>5. QED
  BY <1>2, <1>3, <1>4

\* The gateway and the users' status are seen by the delivery as what it can
\* deliver, the steps of the delivery are its own.
LEMMA KeepsOutbound == IInv /\ [Next]_vars => [O!Next]_(O!vars)
<1> SUFFICES ASSUME IInv, [Next]_vars PROVE [O!Next]_(O!vars)
  OBVIOUS
<1>1. CASE Gateway \/ (\E i \in requested.pending : DTime(i))
           \/ (\E u \in Users : SetUserStatus(u)) \/ UNCHANGED vars
  <2>1. UNCHANGED <<completed, opc, obatch, delivery, sent>>
    BY <1>1 DEF Gateway, Accept, PublishRequested, Confirm, DTime, SetUserStatus, vars,
                delivering
  <2>2. Deliverable' \in SUBSET Requests
    BY DEF Deliverable
  <2>3. O!SetActive(Deliverable')
    BY <2>1 DEF O!SetActive
  <2>4. QED
    BY <2>2, <2>3 DEF O!Next
<1>2. ASSUME NEW w \in Senders, OWork(w) PROVE O!Next
  <2>1. Deliverable' = Deliverable
    BY <1>2 DEF OWork, dispatchers, Deliverable
  <2>2. ASSUME O!Loop(w), UNCHANGED <<delivery, sent>> PROVE O!Work(w)
    BY <2>1, <2>2 DEF O!Work
  <2>3. ASSUME NEW i, OStep(w, i) PROVE O!ProcessOne(w, i)
    BY <2>3 DEF OStep, OSend, O!ProcessOne
  <2>4. QED
    BY <1>2, <2>2, <2>3 DEF OWork, O!Next, O!Work
<1>3. ASSUME NEW w \in Senders, OCrash(w) PROVE O!Next
  BY <1>3 DEF OCrash, O!Next
<1>4. ASSUME NEW i \in completed.pending, OTime(i) PROVE O!Next
  BY <1>4 DEF OTime, O!Next
<1>5. QED
  BY <1>1, <1>2, <1>3, <1>4, DeliveryStepFact DEF Next, IInv

\* The gateway's part is a step of Inbox, the rest does not touch it.
LEMMA KeepsInbox == IInv /\ [Next]_vars => [G!Next]_(G!vars)
<1> SUFFICES ASSUME IInv, [Next]_vars PROVE [G!Next]_(G!vars)
  OBVIOUS
<1>1. ASSUME NEW m \in Messages, Accept(m) PROVE G!Next
  <2>1. (CHOOSE r \in Unused : TRUE) \in Requests
    BY <1>1 DEF Accept, Unused
  <2>2. QED
    BY <1>1, <2>1 DEF Accept, G!Next
<1>2. ASSUME NEW m \in Messages, PublishRequested(m) \/ Confirm(m) PROVE G!Next
  BY <1>2 DEF PublishRequested, Confirm, G!Next
<1>3. ASSUME UNCHANGED gateway, requested'.log = requested.log PROVE UNCHANGED G!vars
  BY <1>3 DEF gateway, G!vars, RequestsIn
<1>4. CASE \/ \E w \in Dispatchers : DWork(w) \/ DAgent(w) \/ DCrash(w)
           \/ \E i \in requested.pending : DTime(i)
  <2>1. UNCHANGED gateway
    BY <1>4 DEF DWork, DAgent, DCrash, DTime
  <2>2. QED
    BY <1>3, <1>4, <2>1, DispatcherLogFact DEF IInv
<1>5. CASE \/ \E w \in Senders : OWork(w) \/ OCrash(w)
           \/ \E i \in completed.pending : OTime(i)
           \/ \E u \in Users : SetUserStatus(u)
           \/ UNCHANGED vars
  BY <1>3, <1>5 DEF OWork, OCrash, OTime, SetUserStatus, vars, dispatchers
<1>6. QED
  BY <1>1, <1>2, <1>4, <1>5 DEF Next, Gateway
-----------------------------------------------------------------------------
(* The path of a question: what the steps do to its invariant.             *)

\* What the streams hold.
LEMMA LogTypes ==
  ASSUME IInv
  PROVE  /\ requested.log \in Seq(D!Entry) /\ completed.log \in Seq(O!Entry)
         /\ \A i \in DOMAIN requested.log : requested.log[i] \in D!Entry
         /\ \A i \in DOMAIN completed.log : completed.log[i] \in O!Entry
         /\ answer \in [Requests -> Answers \cup {None}]
         /\ \A w \in Dispatchers : dbatch[w] \subseteq DOMAIN requested.log
         /\ \A w \in Senders : obatch[w] \subseteq DOMAIN completed.log
<1>1. requested.log \in Seq(D!Entry) /\ completed.log \in Seq(O!Entry)
  BY DEF IInv, DP!IInv, DP!TypeOK, DP!StreamOf, DP!Entry, D!Entry,
         OP!IInv, OP!TypeOK, OP!StreamOf, OP!Entry, O!Entry
<1>2. /\ \A i \in DOMAIN requested.log : requested.log[i] \in D!Entry
      /\ \A i \in DOMAIN completed.log : completed.log[i] \in O!Entry
  BY <1>1
<1>3. /\ answer \in [Requests -> Answers \cup {None}]
      /\ \A w \in Dispatchers : dbatch[w] \subseteq DOMAIN requested.log
      /\ \A w \in Senders : obatch[w] \subseteq DOMAIN completed.log
  BY DEF IInv, DP!IInv, DP!TypeOK, DP!ConsumerInv, DP!StreamOf, DP!WellFormed,
         OP!IInv, OP!TypeOK, OP!ConsumerInv, OP!StreamOf, OP!WellFormed
<1>4. QED
  BY <1>1, <1>2, <1>3

\* A dispatcher that is not about to call the agent has nothing to know of the
\* question it loaded.
LEMMA LoadedFact ==
  ASSUME IInv, NEW w \in Dispatchers, accepted' = accepted, requested'.log = requested.log,
         dpc'[w] # "call",
         \A v \in Dispatchers \ {w} :
           dpc'[v] = dpc[v] /\ dbatch'[v] = dbatch[v] /\ question'[v] = question[v]
  PROVE  LoadedOk'
BY DEF IInv, PathInv, LoadedOk, D!Current, Asks

\* A step that changes neither what was asked nor the logs nor an answer.
LEMMA PathFrame ==
  ASSUME IInv, UNCHANGED <<accepted, acked, answer, received>>,
         requested'.log = requested.log, completed'.log = completed.log, TypeOK', LoadedOk'
  PROVE  PathInv'
BY DEF IInv, PathInv, OneMessage, RequestedOk, AckedOk, AnswerOk, CompletedOk,
       AnswerReachesAsker, Asks, RequestsIn

\* The message is accepted under a request id no question has.
LEMMA AcceptPath ==
  ASSUME IInv, NEW m \in Messages, Accept(m)
  PROVE  PathInv'
<1> DEFINE r == CHOOSE q \in Unused : TRUE
<1> USE NoneAssumption
<1>1. /\ r \in Requests /\ \A n \in Messages : accepted[n] # r
      /\ accepted[m] = None /\ accepted' = [accepted EXCEPT ![m] = r]
      /\ UNCHANGED <<acked, requested, dpc, dbatch, question, answer, completed, received,
                     dfaults, ofaults, changes>>
  BY DEF Accept, Unused, Asks, G!Accept, dispatchers, delivering
<1> HIDE DEF r
<1>2. TypeOK /\ OneMessage /\ RequestedOk /\ AckedOk /\ LoadedOk /\ AnswerOk /\ CompletedOk
      /\ AnswerReachesAsker
  BY DEF IInv, PathInv
<1>3. \A n \in Messages : accepted[n] # None => accepted'[n] = accepted[n]
  BY <1>1, <1>2 DEF TypeOK
<1>4. \A q \in Requests, n \in Messages : Asks(q, n) => Asks(q, n)'
  BY <1>3 DEF Asks
<1>5. /\ \A i \in DOMAIN requested.log : requested.log[i].request \in Requests
      /\ \A w \in Dispatchers : dbatch[w] \subseteq DOMAIN requested.log
  <2>1. \A i \in DOMAIN requested.log : requested.log[i] \in D!Entry
    BY LogTypes
  <2>2. QED
    BY <2>1, LogTypes DEF D!Entry
<1>6. TypeOK' /\ OneMessage' /\ CompletedOk'
  BY <1>1, <1>2 DEF TypeOK, OneMessage, CompletedOk
<1>7. RequestedOk'
  BY <1>1, <1>2, <1>4, <1>5 DEF RequestedOk
<1>8. AckedOk'
  <2>1. None \notin RequestsIn(requested)
    BY <1>5 DEF RequestsIn
  <2>2. QED
    BY <1>1, <1>2, <1>3, <2>1 DEF AckedOk, RequestsIn, TypeOK
<1>9. LoadedOk'
  BY <1>1, <1>2, <1>4, <1>5 DEF LoadedOk, D!Current
<1>10. AnswerOk'
  BY <1>1, <1>2, <1>4 DEF AnswerOk
<1>11. AnswerReachesAsker'
  BY <1>1, <1>2, <1>3 DEF AnswerReachesAsker
<1>12. QED
  BY <1>6, <1>7, <1>8, <1>9, <1>10, <1>11 DEF PathInv

\* The event names the request and the sender of an accepted message.
LEMMA PublishPath ==
  ASSUME IInv, NEW m \in Messages, PublishRequested(m)
  PROVE  PathInv'
<1> DEFINE e == [request |-> accepted[m], user |-> Sender[m], kind |-> "valid"]
<1>1. /\ UNCHANGED <<accepted, acked, dpc, dbatch, question, answer, completed, received,
                     dfaults, ofaults, changes>>
      /\ requested' = D!Publish(requested, e)
  BY DEF PublishRequested, G!Publish, delivering
<1>2. TypeOK /\ OneMessage /\ RequestedOk /\ AckedOk /\ LoadedOk /\ AnswerOk /\ CompletedOk
      /\ AnswerReachesAsker
  BY DEF IInv, PathInv
<1>3. requested'.log = Append(requested.log, e)
  BY <1>1 DEF D!Publish, IInv, DP!IInv, DP!TypeOK, DP!StreamOf
<1>4. /\ e \in D!Entry
      /\ requested.log \in Seq(D!Entry)
      /\ \A w \in Dispatchers : dbatch[w] \subseteq DOMAIN requested.log
  BY <1>2, LogTypes, SenderAssumption DEF PublishRequested, TypeOK, D!Entry
<1>5. /\ DOMAIN requested'.log = DOMAIN requested.log \cup {Len(requested.log) + 1}
      /\ \A i \in DOMAIN requested.log : requested'.log[i] = requested.log[i]
      /\ requested'.log[Len(requested.log) + 1] = e
  BY <1>3, <1>4
<1>6. TypeOK' /\ OneMessage' /\ AnswerOk' /\ CompletedOk' /\ AnswerReachesAsker'
  BY <1>1, <1>2 DEF TypeOK, OneMessage, AnswerOk, CompletedOk, AnswerReachesAsker, Asks
<1>7. RequestedOk'
  BY <1>1, <1>2, <1>5 DEF RequestedOk, Asks
<1>8. AckedOk'
  BY <1>1, <1>2, <1>5 DEF AckedOk, RequestsIn
<1>9. LoadedOk'
  BY <1>1, <1>2, <1>4, <1>5 DEF LoadedOk, D!Current, Asks
<1>10. QED
  BY <1>6, <1>7, <1>8, <1>9 DEF PathInv

\* Only what was published is confirmed.
LEMMA ConfirmPath ==
  ASSUME IInv, NEW m \in Messages, Confirm(m)
  PROVE  PathInv'
BY DEF IInv, PathInv, Confirm, G!Acknowledge, dispatchers, delivering, TypeOK, OneMessage,
       RequestedOk, AckedOk, LoadedOk, AnswerOk, CompletedOk, AnswerReachesAsker, Asks,
       RequestsIn, D!Current

\* A dispatcher loads the question of its entry, and no other.
LEMMA LoadPath ==
  ASSUME IInv, NEW w \in Dispatchers, NEW i \in dbatch[w], D!Current(w, i), DLoad(w, i),
         UNCHANGED <<accepted, acked, received, ofaults, changes>>
  PROVE  PathInv'
<1>1. PICK m \in Messages :
        Asks(requested.log[i].request, m) /\ question' = [question EXCEPT ![w] = m]
  BY DEF DLoad
<1>2. UNCHANGED <<completed, dfaults, requested, answer, dbatch>>
  BY DEF DLoad, D!LoadQuestion
<1>3. TypeOK /\ LoadedOk /\ dpc \in [Dispatchers -> DP!Labels] /\ dbatch \in [Dispatchers -> SUBSET Nat]
  BY DEF IInv, PathInv, DP!IInv, DP!TypeOK, DP!Labels
<1>4. TypeOK'
  BY <1>1, <1>2, <1>3 DEF TypeOK
<1>5. \A v \in Dispatchers \ {w} : dpc'[v] = dpc[v] /\ question'[v] = question[v]
  BY <1>1, <1>3 DEF DLoad, D!LoadQuestion, D!Goto
<1>6. \A j \in dbatch[w] : D!Current(w, j) => j = i
  BY <1>3 DEF D!Current
<1>7. question'[w] = m
  BY <1>1, <1>3 DEF TypeOK
<1>8. LoadedOk'
  BY <1>1, <1>2, <1>3, <1>5, <1>6, <1>7 DEF LoadedOk, Asks, D!Current
<1>9. QED
  BY <1>2, <1>4, <1>8, PathFrame

\* The agent stores an answer to the question it was sent, once.
LEMMA AnswerPath ==
  ASSUME IInv, NEW w \in Dispatchers, NEW i \in dbatch[w], D!Current(w, i), DAnswer(w, i),
         UNCHANGED <<accepted, acked, received, ofaults, changes>>
  PROVE  PathInv'
<1> DEFINE r == requested.log[i].request
<1> USE NoneAssumption
<1>1. PICK a \in Answers : answer' = [answer EXCEPT ![r] = a]
  BY DEF DAnswer, D!AgentAnswers
<1>2. /\ UNCHANGED <<completed, dfaults, requested, dpc, dbatch, question>>
      /\ dpc[w] = "call" /\ answer[r] = None /\ answer'[r].question = question[w]
  BY DEF DAnswer, D!AgentAnswers
<1>3. TypeOK /\ OneMessage /\ RequestedOk /\ AckedOk /\ LoadedOk /\ AnswerOk /\ CompletedOk
      /\ AnswerReachesAsker
  BY DEF IInv, PathInv
<1>4. question[w] \in Messages /\ Asks(r, question[w])
  BY <1>2, <1>3 DEF LoadedOk
<1>5. answer \in [Requests -> Answers \cup {None}]
  BY LogTypes
<1> HIDE DEF r
<1>6. TypeOK' /\ OneMessage' /\ RequestedOk' /\ AckedOk' /\ LoadedOk'
  BY <1>2, <1>3 DEF TypeOK, OneMessage, RequestedOk, AckedOk, LoadedOk, D!Current, Asks,
                    RequestsIn
<1>7. AnswerOk'
  BY <1>1, <1>2, <1>3, <1>4, <1>5 DEF AnswerOk, Asks
<1>8. \A q \in Requests : answer[q] # None => answer'[q] = answer[q]
  BY <1>1, <1>2, <1>5
<1>9. CompletedOk'
  <2>1. \A j \in DOMAIN completed.log : completed.log[j].event \in Requests
                                       /\ completed.log[j].answer \in Answers
    <3>1. \A j \in DOMAIN completed.log : completed.log[j] \in O!Entry
      BY LogTypes
    <3>2. QED
      BY <3>1 DEF O!Entry
  <2>2. QED
    BY <1>2, <1>3, <1>8, <2>1 DEF CompletedOk
<1>10. AnswerReachesAsker'
  <2>1. \A x \in received : x.answer \in Answers
    BY <1>3 DEF TypeOK
  <2>2. \A m \in Messages : accepted[m] # None => accepted[m] \in Requests
    BY <1>3 DEF TypeOK
  <2>3. QED
    BY <1>3, <1>8, <2>1, <2>2 DEF AnswerReachesAsker
<1>11. QED
  BY <1>6, <1>7, <1>9, <1>10 DEF PathInv

\* The event that is published carries the stored answer and the asker.
LEMMA CompletePath ==
  ASSUME IInv, NEW w \in Dispatchers, NEW i \in dbatch[w], D!Current(w, i), DPublish(w, i),
         UNCHANGED <<accepted, acked, received, ofaults, changes>>, TypeOK', LoadedOk'
  PROVE  PathInv'
<1> DEFINE q == requested.log[i]
           e == [event |-> q.request, kind |-> "valid", user |-> q.user, answer |-> held[w]]
<1> USE NoneAssumption
<1>1. /\ completed' = O!Publish(completed, e) /\ dpc[w] = "publish"
      /\ UNCHANGED <<requested, answer>>
  BY DEF DPublish, D!PublishCompleted
<1>2. TypeOK /\ OneMessage /\ RequestedOk /\ AckedOk /\ AnswerOk /\ CompletedOk
      /\ AnswerReachesAsker
  BY DEF IInv, PathInv
<1>3. completed'.log = Append(completed.log, e)
  BY <1>1 DEF O!Publish, IInv, OP!IInv, OP!TypeOK, OP!StreamOf
<1>4. q \in D!Entry /\ held[w] \in Answers /\ held[w] = answer[q.request]
  BY <1>1, PublishFact DEF IInv
<1>5. PICK m \in Messages : Asks(q.request, m) /\ q.user = Sender[m]
  BY <1>2, LogTypes DEF RequestedOk
<1>6. held[w].question \in Messages /\ Asks(q.request, held[w].question)
  BY <1>2, <1>4 DEF AnswerOk, D!Entry
<1>7. held[w].question = m
  BY <1>2, <1>4, <1>5, <1>6 DEF OneMessage, Asks, D!Entry
<1>8. /\ completed.log \in Seq(O!Entry)
      /\ e \in O!Entry
  BY <1>4, LogTypes DEF O!Entry, D!Entry
<1>9. /\ DOMAIN completed'.log = DOMAIN completed.log \cup {Len(completed.log) + 1}
      /\ \A j \in DOMAIN completed.log : completed'.log[j] = completed.log[j]
      /\ completed'.log[Len(completed.log) + 1] = e
  BY <1>3, <1>8
<1>10. CompletedOk'
  <2>1. /\ e.kind = "valid" /\ e.answer = answer[e.event]
        /\ e.user = Sender[e.answer.question]
    BY <1>4, <1>5, <1>7
  <2> HIDE DEF e
  <2>2. QED
    BY <1>1, <1>2, <1>9, <2>1 DEF CompletedOk
<1>11. OneMessage' /\ RequestedOk' /\ AckedOk' /\ AnswerOk' /\ AnswerReachesAsker'
  BY <1>1, <1>2 DEF OneMessage, RequestedOk, AckedOk, AnswerOk, AnswerReachesAsker, Asks,
                    RequestsIn
<1>12. QED
  BY <1>10, <1>11 DEF PathInv

\* The other steps of a dispatcher only move it.
LEMMA DispatcherPath ==
  ASSUME IInv, NEW w \in Dispatchers, DWork(w) \/ DAgent(w) \/ DCrash(w)
  PROVE  PathInv'
<1>1. UNCHANGED <<accepted, acked, received, ofaults, changes>>
  BY DEF DWork, DAgent, DCrash, gateway, delivering
<1>2. requested'.log = requested.log
  BY DispatcherLogFact DEF IInv
<1>3. /\ TypeOK /\ dfaults \in Nat
      /\ dpc \in [Dispatchers -> DP!Labels] /\ dbatch \in [Dispatchers -> SUBSET Nat]
  BY DEF IInv, PathInv, DP!IInv, DP!TypeOK, DP!Labels, TypeOK
<1>4. \A fault : CountD(fault) => dfaults' \in Nat
  BY <1>3 DEF CountD
<1>5. CASE DLoop(w) \/ DCrash(w)
  <2>1. UNCHANGED <<answer, completed>> /\ (question' = question \/ question' = [question EXCEPT ![w] = None])
    BY <1>5 DEF DLoop, DCrash, D!Crash
  <2>2. TypeOK'
    <3>1. dfaults' \in Nat
      BY <1>4, <1>5 DEF DLoop, DCrash
    <3>2. QED
      BY <1>1, <1>3, <2>1, <3>1 DEF TypeOK
  <2>3. /\ dpc'[w] # "call"
        /\ \A v \in Dispatchers \ {w} :
             dpc'[v] = dpc[v] /\ dbatch'[v] = dbatch[v] /\ question'[v] = question[v]
    BY <1>3, <1>5, <2>1
       DEF TypeOK, DLoop, DCrash, D!Loop, D!ClaimIdle, D!ClaimNothing, D!ReadNew, D!ReadNothing,
           D!Finish, D!Crash, D!Die, D!Goto
  <2>4. QED
    BY <1>1, <1>2, <2>1, <2>2, <2>3, LoadedFact, PathFrame
<1>6. ASSUME NEW i \in dbatch[w], D!Current(w, i), DAnswer(w, i) PROVE PathInv'
  BY <1>1, <1>6, AnswerPath
<1>7. ASSUME NEW i \in dbatch[w], D!Current(w, i), DLoad(w, i) PROVE PathInv'
  BY <1>1, <1>7, LoadPath
<1>8. ASSUME NEW i \in dbatch[w], D!Current(w, i),
             \/ UNCHANGED <<question, completed, dfaults>> /\ D!Decode(w, i)
             \/ DCall(w, i) \/ DPublish(w, i) \/ DFinish(w, i)
      PROVE  PathInv'
  <2>1. /\ answer' = answer
        /\ question' = question \/ \E x \in {None, question[w]} : question' = [question EXCEPT ![w] = x]
        /\ dfaults' = dfaults \/ \E fault : CountD(fault)
    BY <1>8 DEF DCall, DPublish, DFinish, D!Decode, D!CallAgent, D!PublishCompleted,
                D!AckRequest, D!DropEntry
  <2>2. TypeOK'
    BY <1>1, <1>3, <1>4, <2>1 DEF TypeOK
  <2>3. /\ dpc'[w] # "call"
        /\ \A v \in Dispatchers \ {w} : dpc'[v] = dpc[v] /\ dbatch'[v] = dbatch[v]
    BY <1>3, <1>8
       DEF DCall, DPublish, DFinish, D!Decode, D!CallAgent, D!PublishCompleted, D!AckRequest,
           D!DropEntry, D!Return, D!Leave, D!Goto
  <2>4. \A v \in Dispatchers \ {w} : question'[v] = question[v]
    BY <1>3, <2>1 DEF TypeOK
  <2>5. LoadedOk'
    BY <1>1, <1>2, <2>3, <2>4, LoadedFact
  <2>6. CASE completed' = completed
    BY <1>1, <1>2, <2>1, <2>2, <2>5, <2>6, PathFrame
  <2>7. CASE DPublish(w, i)
    BY <1>1, <1>8, <2>2, <2>5, <2>7, CompletePath
  <2>8. QED
    BY <1>8, <2>6, <2>7 DEF DCall, DFinish
<1>9. QED
  BY <1>5, <1>6, <1>7, <1>8 DEF DWork, DStep, DAgent

\* What WeCom accepts is the answer of the event, sent to its recipient.
LEMMA DeliveryPath ==
  ASSUME IInv, NEW w \in Senders, OWork(w) \/ OCrash(w)
  PROVE  PathInv'
<1> USE NoneAssumption
<1>1. /\ UNCHANGED <<accepted, acked, requested, dpc, dbatch, question, answer, dfaults, changes>>
      /\ completed'.log = completed.log
  BY DeliveryLogFact DEF OWork, OCrash, gateway, dispatchers, IInv
<1>2. /\ TypeOK /\ OneMessage /\ RequestedOk /\ AckedOk /\ LoadedOk /\ AnswerOk /\ CompletedOk
      /\ AnswerReachesAsker
  BY DEF IInv, PathInv
<1>3. ofaults' \in Nat
  <2>1. \A fault : CountO(fault) => ofaults' \in Nat
    BY <1>2 DEF CountO, TypeOK
  <2>2. ofaults' = ofaults \/ \E fault : CountO(fault)
    BY DEF OWork, OCrash, OStep, OSend
  <2>3. QED
    BY <1>2, <2>1, <2>2 DEF TypeOK
<1>4. OneMessage' /\ RequestedOk' /\ AckedOk' /\ LoadedOk' /\ AnswerOk' /\ CompletedOk'
  BY <1>1, <1>2 DEF OneMessage, RequestedOk, AckedOk, LoadedOk, AnswerOk, CompletedOk, Asks,
                    D!Current, RequestsIn
<1>5. \/ received' = received
      \/ \E i \in obatch[w] : received' = received \cup {[user |-> completed.log[i].user,
                                                         answer |-> completed.log[i].answer]}
  BY DEF OWork, OCrash, OStep, OSend
<1>6. ASSUME NEW i \in obatch[w]
      PROVE  /\ [user |-> completed.log[i].user, answer |-> completed.log[i].answer]
                   \in [user : Users, answer : Answers]
             /\ \E m \in Messages :
                  /\ accepted[m] # None
                  /\ completed.log[i].answer = answer[accepted[m]]
                  /\ completed.log[i].answer.question = m
                  /\ completed.log[i].user = Sender[m]
  <2> DEFINE e == completed.log[i]
  <2>1. i \in DOMAIN completed.log
    BY LogTypes
  <2>2. e \in O!Entry
    BY <2>1, LogTypes
  <2>3. e.event \in Requests /\ e.answer \in Answers /\ e.user \in Users
    BY <2>2 DEF O!Entry
  <2>4. e.answer = answer[e.event] /\ e.user = Sender[e.answer.question]
    BY <1>2, <2>1 DEF CompletedOk
  <2>5. e.answer.question \in Messages /\ Asks(e.event, e.answer.question)
    BY <1>2, <2>3, <2>4 DEF AnswerOk
  <2>6. QED
    BY <2>3, <2>4, <2>5 DEF Asks
<1>7. received' \subseteq [user : Users, answer : Answers] /\ AnswerReachesAsker'
  <2>1. received \subseteq [user : Users, answer : Answers]
    BY <1>2 DEF TypeOK
  <2>2. CASE received' = received
    BY <1>1, <1>2, <2>1, <2>2 DEF AnswerReachesAsker
  <2>3. ASSUME NEW i \in obatch[w],
               received' = received \cup {[user |-> completed.log[i].user,
                                           answer |-> completed.log[i].answer]}
        PROVE  received' \subseteq [user : Users, answer : Answers] /\ AnswerReachesAsker'
    BY <1>1, <1>2, <1>6, <2>1, <2>3 DEF AnswerReachesAsker
  <2>4. QED
    BY <1>5, <2>2, <2>3
<1>8. TypeOK'
  BY <1>1, <1>2, <1>3, <1>7 DEF TypeOK
<1>9. QED
  BY <1>4, <1>7, <1>8 DEF PathInv

\* The path of a question is kept by every step.
LEMMA KeepsPath == IInv /\ [Next]_vars => PathInv'
<1> SUFFICES ASSUME IInv, [Next]_vars PROVE PathInv'
  OBVIOUS
<1>1. CASE \/ \E i \in requested.pending : DTime(i)
           \/ \E i \in completed.pending : OTime(i)
           \/ \E u \in Users : SetUserStatus(u)
           \/ UNCHANGED vars
  <2>1. /\ UNCHANGED <<accepted, acked, dpc, dbatch, question, answer, received, dfaults, ofaults>>
        /\ changes' = changes \/ changes' = changes + 1
    BY <1>1 DEF DTime, D!Time, D!BecomeIdle, OTime, SetUserStatus, vars, gateway, dispatchers,
                delivering
  <2>2. requested'.log = requested.log
    BY <1>1, DispatcherLogFact DEF IInv, OTime, SetUserStatus, vars, dispatchers
  <2>3. completed'.log = completed.log
    BY <1>1, DeliveryLogFact DEF IInv, DTime, SetUserStatus, vars
  <2>4. TypeOK' /\ LoadedOk'
    BY <2>1, <2>2 DEF IInv, PathInv, TypeOK, LoadedOk, D!Current, Asks
  <2>5. QED
    BY <2>1, <2>2, <2>3, <2>4, PathFrame
<1>2. QED
  BY <1>1, AcceptPath, PublishPath, ConfirmPath, DispatcherPath, DeliveryPath DEF Next, Gateway

\* The constants of the components are as their proofs assume.
LEMMA DispatcherConstants ==
  DP!BoundAssumption /\ DP!DoomedAssumption /\ DP!NoneAssumption /\ DP!BatchAssumption
BY BoundAssumption, NoneAssumption
   DEF DP!BoundAssumption, DP!DoomedAssumption, DP!NoneAssumption, DP!BatchAssumption

LEMMA OutboundConstants ==
  OP!BoundAssumption /\ OP!WorkersAssumption /\ OP!BatchAssumption
<1>1. OP!BoundAssumption /\ OP!BatchAssumption
  BY BoundAssumption DEF OP!BoundAssumption, OP!BatchAssumption, MaxCompleted
<1>2. OP!WorkersAssumption
  BY SendersAssumption DEF OP!WorkersAssumption, IsFiniteSet, OP!IsFiniteSet
<1>3. QED
  BY <1>1, <1>2

\* At first qa:completed holds nothing.
LEMMA NoEvents == Init => Events = {}
<1>1. O!EmptyStream.log = <<>>
  BY DEF O!EmptyStream
<1>2. QED
  BY <1>1 DEF Init, Events

\* The composition's invariant holds at first and is kept.
LEMMA InitIInv == Init => IInv
<1> SUFFICES ASSUME Init PROVE IInv
  OBVIOUS
<1>1. D!EmptyStream.log = <<>> /\ O!EmptyStream.log = <<>>
  BY DEF D!EmptyStream, O!EmptyStream
<1>2. Events = {}
  BY NoEvents
<1>3. DP!Init
  BY <1>2 DEF Init, DP!Init, D!EmptyStream, DP!EmptyStream
<1>4. OP!Init
  BY DEF Init, OP!Init, O!EmptyStream, OP!EmptyStream, Deliverable
<1>5. PathInv
  BY <1>1 DEF Init, PathInv, TypeOK, OneMessage, RequestedOk, AckedOk, LoadedOk, AnswerOk,
              CompletedOk, AnswerReachesAsker
<1>6. QED
  BY <1>3, <1>4, <1>5, DispatcherConstants, OutboundConstants, DP!InitIInv, OP!InitIInv DEF IInv

LEMMA NextIInv == IInv /\ [Next]_vars => IInv'
<1> SUFFICES ASSUME IInv, [Next]_vars PROVE IInv'
  OBVIOUS
<1>1. DP!IInv'
  BY KeepsDispatcher, SameDispatcher, DispatcherConstants, DP!NextIInv DEF IInv
<1>2. OP!IInv'
  BY KeepsOutbound, SameOutbound, OutboundConstants, OP!NextIInv DEF IInv
<1>3. QED
  BY <1>1, <1>2, KeepsPath DEF IInv

\* The invariant of the composition.
THEOREM Inductive == Spec => []IInv
BY InitIInv, NextIInv, PTL DEF Spec

\* Every variable of the composition keeps its type.
THEOREM TypeCorrect == Spec => []TypeOK
BY Inductive, PTL DEF IInv, PathInv

\* The dispatchers of the whole behave as the module Dispatcher says, so all
\* that is proved there holds here.
THEOREM ImplementsDispatcher == Spec => D!Spec
<1>1. Init => D!Init
  BY NoEvents DEF Init, D!Init
<1>2. QED
  BY <1>1, KeepsDispatcher, Inductive, PTL DEF Spec, D!Spec

\* The delivery workers behave as the module Outbound says; what the gateway,
\* the agent and the administrator do changes only what can be delivered.
THEOREM ImplementsOutbound == Spec => O!Spec
<1>1. Init => O!Init
  BY DEF Init, Deliverable, O!Init, O!EmptyStream
<1>2. QED
  BY <1>1, KeepsOutbound, Inductive, PTL DEF Spec, O!Spec

\* The gateway's part is the promise that the callbacks were shown to keep.
THEOREM ImplementsInbox == Spec => G!Spec
<1>1. Init => G!Init
  BY DEF Init, RequestsIn, G!Init, D!EmptyStream
<1>2. QED
  BY <1>1, KeepsInbox, Inductive, PTL DEF Spec, G!Spec

\* Each component keeps, among the others, to the specification of its own module:
\* whatever is shown of it among arbitrary neighbours holds of it here.
THEOREM ImplementsComponents == Spec => G!Spec /\ D!Spec /\ O!Spec
BY ImplementsInbox, ImplementsDispatcher, ImplementsOutbound, PTL

\* Whoever receives an answer asked its question.
THEOREM AnswersReachAskers == Spec => []AnswerReachesAsker
BY Inductive, PTL DEF IInv, PathInv

\* No confirmed question is lost: an entry of qa:requested that was handled has
\* its completion in qa:completed, and one that was handled there is answered.
THEOREM NoQuestionLost == Spec => []ConfirmedIsKept
<1>1. IInv => ConfirmedIsKept
  <2> SUFFICES ASSUME IInv, NEW m \in acked,
                      ~\E i \in DOMAIN requested.log :
                         requested.log[i].request = accepted[m] /\ InFlight(requested, i),
                      ~\E i \in DOMAIN completed.log :
                         completed.log[i].event = accepted[m] /\ InFlight(completed, i)
               PROVE  sent[accepted[m]] > 0
    BY DEF ConfirmedIsKept
  <2>1. PICK i \in DOMAIN requested.log : requested.log[i].request = accepted[m]
    BY DEF IInv, PathInv, AckedOk, RequestsIn
  <2>2. i \in 1..requested.last /\ i \notin requested.pending /\ requested.log[i].kind = "valid"
    <3>1. DOMAIN requested.log = 1..Len(requested.log) /\ Len(requested.log) \in Nat
          /\ requested.last \in Nat
      BY LogTypes DEF IInv, DP!IInv, DP!TypeOK, DP!StreamOf
    <3>2. QED
      BY <2>1, <3>1 DEF InFlight, IInv, PathInv, RequestedOk
  <2>3. PICK j \in DOMAIN completed.log : completed.log[j].event = accepted[m]
    BY <2>1, <2>2 DEF IInv, DP!IInv, DP!AckedIsSettled, DP!Valid, DP!CompletedRequest, Events
  <2>4. j \in 1..completed.last /\ j \notin completed.pending /\ completed.log[j].kind = "valid"
    <3>1. DOMAIN completed.log = 1..Len(completed.log) /\ Len(completed.log) \in Nat
          /\ completed.last \in Nat
      BY LogTypes DEF IInv, OP!IInv, OP!TypeOK, OP!StreamOf
    <3>2. QED
      BY <2>3, <3>1 DEF InFlight, IInv, PathInv, CompletedOk
  <2>5. QED
    BY <2>3, <2>4 DEF IInv, OP!IInv, OP!AckedIsAccepted, OP!Valid, OP!EventOf
<1>2. QED
  BY <1>1, Inductive, PTL

-----------------------------------------------------------------------------
(* One delivery worker: messages are counted by the faults of the worker.  *)

\* The worker is at an entry of request r, at one of the labels.
At(r, labels) ==
  \E w \in Senders : opc[w] \in labels /\
    \E i \in obatch[w] : O!Current(w, i) /\ completed.log[i].event = r

AttemptLabels == {"load", "send", "mark", "fail"}

\* While an attempt is under way the row says SENDING; all messages but the one
\* that is SENT, or is about to be marked so, were sent by attempts that failed.
RepeatOk(r) ==
  /\ At(r, AttemptLabels) => delivery[r].status = "SENDING"
  /\ sent[r] <= ofaults + IF delivery[r].status = "SENT" \/ At(r, {"mark"}) THEN 1 ELSE 0

RepeatInv == \A r \in Requests : RepeatOk(r)

\* The types that the counting needs.
LEMMA DeliveryTypes ==
  ASSUME IInv
  PROVE  /\ delivery \in [Requests -> [status : {"NONE", "SENDING", "SENT", "RETRYABLE_FAILED"},
                                       attempt : 0..(MaxFaults + 2)]]
         /\ sent \in [Requests -> Nat] /\ ofaults \in Nat
         /\ opc \in [Senders -> OP!Labels] /\ obatch \in [Senders -> SUBSET Nat]
<1>1. sent \in [Requests -> 0..(MaxFaults + 2)]
  BY DEF IInv, OP!IInv, OP!TypeOK
<1>2. 0..(MaxFaults + 2) \subseteq Nat
  BY BoundAssumption
<1>3. QED
  BY <1>1, <1>2 DEF IInv, OP!IInv, OP!TypeOK, OP!Labels, PathInv, TypeOK

\* Who neither sends nor records anything keeps the count.
LEMMA RepeatFrame ==
  ASSUME IInv, RepeatInv, UNCHANGED <<delivery, sent, opc, obatch, ofaults>>,
         \A w \in Senders : \A i \in obatch[w] : completed'.log[i] = completed.log[i]
  PROVE  RepeatInv'
<1>1. \A r, labels : At(r, labels)' <=> At(r, labels)
  BY DEF At, O!Current
<1>2. QED
  BY <1>1 DEF RepeatInv, RepeatOk

\* A worker that ends outside of an attempt, without sending or recording.
LEMMA RepeatOutside ==
  ASSUME IInv, RepeatInv, NEW w, Senders = {w}, opc'[w] \notin AttemptLabels,
         UNCHANGED <<delivery, sent>>, ofaults' \in Nat, ofaults <= ofaults',
         opc[w] = "mark" => ofaults < ofaults'
  PROVE  RepeatInv'
<1>1. \A r : ~At(r, AttemptLabels)' /\ ~At(r, {"mark"})'
  BY DEF At, AttemptLabels
<1>2. \A r : At(r, {"mark"}) => opc[w] = "mark"
  BY DEF At
<1>3. SUFFICES ASSUME NEW r \in Requests PROVE RepeatOk(r)'
  BY DEF RepeatInv
<1>4. sent[r] \in Nat /\ ofaults \in Nat /\ RepeatOk(r)
  BY DeliveryTypes DEF RepeatInv
<1>5. QED
  BY <1>1, <1>2, <1>4 DEF RepeatOk

\* A step of the sole worker at its entry.
LEMMA StepRepeat ==
  ASSUME IInv, RepeatInv, NEW w, Senders = {w}, NEW i \in obatch[w], O!Current(w, i), OStep(w, i),
         completed'.log = completed.log
  PROVE  RepeatInv'
<1> DEFINE r == completed.log[i].event
<1>1. r \in Requests
  <2>1. completed.log[i] \in O!Entry
    BY LogTypes
  <2>2. QED
    BY <2>1 DEF O!Entry
<1>2. /\ delivery \in [Requests -> [status : {"NONE", "SENDING", "SENT", "RETRYABLE_FAILED"},
                                    attempt : 0..(MaxFaults + 2)]]
      /\ sent \in [Requests -> Nat] /\ ofaults \in Nat
      /\ opc \in [Senders -> OP!Labels] /\ obatch \in [Senders -> SUBSET Nat]
  BY DeliveryTypes
<1>3. \A j \in obatch[w] : O!Current(w, j) => j = i
  BY <1>2 DEF O!Current
<1>4. \A q, labels : At(q, labels) <=> opc[w] \in labels /\ q = r
  BY <1>3 DEF At
<1>5. obatch' = obatch => \A q, labels : At(q, labels)' <=> opc'[w] \in labels /\ q = r
  BY <1>3 DEF At, O!Current
<1>6. \A q, labels : At(q, labels)' => opc'[w] \in labels
  BY DEF At
<1>7. \A fault : CountO(fault) => ofaults' = IF fault THEN ofaults + 1 ELSE ofaults
  BY DEF CountO
<1>8. \A q \in Requests : RepeatOk(q) /\ sent[q] \in Nat
  BY <1>2 DEF RepeatInv
<1> HIDE DEF r
\* What an action leaves to prove: the others are not touched, and r is counted.
<1>9. SUFFICES /\ \A q \in Requests \ {r} : sent'[q] = sent[q]
                                          /\ delivery'[q].status = delivery[q].status
               /\ ofaults' \in Nat /\ ofaults <= ofaults'
               /\ obatch' = obatch \/ opc'[w] \notin AttemptLabels
               /\ opc'[w] \in AttemptLabels => delivery'[r].status = "SENDING"
               /\ sent'[r] <= ofaults' + IF delivery'[r].status = "SENT" \/ opc'[w] = "mark"
                                           THEN 1 ELSE 0
  <2> SUFFICES ASSUME NEW q \in Requests PROVE RepeatOk(q)'
    BY DEF RepeatInv
  <2>1. "mark" \in AttemptLabels
    BY DEF AttemptLabels
  <2>2. CASE q = r
    BY <1>5, <1>6, <2>1, <2>2 DEF RepeatOk
  <2>3. CASE q # r
    <3>1. ~At(q, {"mark"})
      BY <1>4, <2>3
    <3>2. ~At(q, AttemptLabels)' /\ ~At(q, {"mark"})'
      BY <1>5, <1>6, <2>1, <2>3
    <3>3. sent[q] <= ofaults + IF delivery[q].status = "SENT" THEN 1 ELSE 0
      BY <1>8, <3>1 DEF RepeatOk
    <3>4. sent'[q] = sent[q] /\ delivery'[q].status = delivery[q].status
      BY <2>3
    <3>5. sent'[q] <= ofaults' + IF delivery'[q].status = "SENT" THEN 1 ELSE 0
      BY <1>2, <1>8, <3>3, <3>4
    <3>6. QED
      BY <3>2, <3>5 DEF RepeatOk
  <2>4. QED
    BY <2>2, <2>3
<1>10. /\ opc[w] \in AttemptLabels => delivery[r].status = "SENDING"
       /\ sent[r] <= ofaults + IF delivery[r].status = "SENT" \/ opc[w] = "mark" THEN 1 ELSE 0
  BY <1>1, <1>4, <1>8 DEF RepeatOk
<1> USE <1>1, <1>2, <1>8, <1>10 DEF O!Goto, O!EventOf, AttemptLabels, r
<1>11. CASE (O!Decode(w, i) \/ O!AckEntry(w, i)) /\ UNCHANGED ofaults
  BY <1>11 DEF O!Decode, O!AckEntry, O!Leave
<1>12. CASE O!ClaimOutboundDelivery(w, i) /\ CountO(opc'[w] = "next")
  BY <1>7, <1>12 DEF O!ClaimOutboundDelivery, O!StartAttempt, O!Leave
<1>13. CASE O!LoadOutboundAnswer(w, i)
              /\ CountO(opc'[w] = "fail" /\ completed.log[i].event \in Deliverable)
  BY <1>7, <1>13 DEF O!LoadOutboundAnswer
<1>14. CASE O!SendText(w, i) /\ CountO(opc'[w] = "fail")
  <2>1. \A n \in Nat : O!Increment(n) \in Nat /\ O!Increment(n) <= n + 1
    BY DEF O!Increment
  <2>2. /\ opc[w] = "send" /\ obatch' = obatch /\ delivery' = delivery
        /\ opc'[w] \in {"mark", "fail"}
        /\ ofaults' = IF opc'[w] = "fail" THEN ofaults + 1 ELSE ofaults
    BY <1>14 DEF O!SendText, CountO
  <2>3. \/ sent' = sent /\ opc'[w] = "fail"
        \/ sent' = [sent EXCEPT ![r] = O!Increment(@)]
    BY <1>14 DEF O!SendText
  <2>4. /\ \A q \in Requests \ {r} : sent'[q] = sent[q]
        /\ sent'[r] \in Nat /\ sent'[r] <= sent[r] + 1
        /\ opc'[w] = "mark" \/ sent'[r] <= sent[r] + 1
    BY <2>1, <2>3
  <2>5. sent[r] <= ofaults
    BY <2>2
  <2>6. QED
    BY <2>2, <2>4, <2>5
<1>15. CASE O!MarkOutboundSent(w, i) /\ CountO(opc'[w] = "next")
  BY <1>7, <1>15 DEF O!MarkOutboundSent, O!Leave
<1>16. CASE O!MarkOutboundFailed(w, i) /\ UNCHANGED ofaults
  BY <1>16 DEF O!MarkOutboundFailed, O!Leave
<1>17. CASE O!DropEntry(w, i) /\ CountO(TRUE)
  <2>1. UNCHANGED <<delivery, sent>> /\ opc'[w] = "next" /\ ofaults' = ofaults + 1
    BY <1>17 DEF O!DropEntry, O!Leave, CountO
  <2>2. QED
    BY <2>1
<1>18. QED
  BY <1>11, <1>12, <1>13, <1>14, <1>15, <1>16, <1>17 DEF OStep, OSend

\* The count is kept by every step of the whole, with one delivery worker.
LEMMA KeepsRepeat ==
  ASSUME IInv, RepeatInv, NEW w, Senders = {w}, [Next]_vars
  PROVE  RepeatInv'
<1>1. CASE OWork(w)
  <2>1. completed'.log = completed.log
    BY <1>1, DeliveryLogFact DEF IInv
  <2>2. CASE O!Loop(w) /\ UNCHANGED <<delivery, sent>> /\ CountO(O!LoopFault(w))
    <3>1. ofaults' \in Nat /\ ofaults <= ofaults'
      BY <2>2, DeliveryTypes DEF CountO
    <3>2. opc[w] # "mark" /\ opc'[w] \in {"poll", "read", "next"}
      BY <2>2, DeliveryTypes
         DEF O!Loop, O!ClaimIdle, O!ClaimNothing, O!ReadNew, O!ReadNothing, O!Finish, O!Goto
    <3>3. QED
      BY <2>2, <3>1, <3>2, RepeatOutside DEF AttemptLabels
  <2>3. QED
    BY <1>1, <2>1, <2>2, StepRepeat DEF OWork
<1>2. CASE OCrash(w)
  <2>1. UNCHANGED <<delivery, sent>> /\ opc'[w] = "poll" /\ ofaults' = ofaults + 1
    BY <1>2, DeliveryTypes DEF OCrash, O!Crash, O!Die, O!Goto, CountO
  <2>2. ofaults \in Nat /\ ofaults' \in Nat /\ ofaults < ofaults'
    BY <2>1, DeliveryTypes
  <2>3. QED
    BY <2>1, <2>2, RepeatOutside DEF AttemptLabels
<1>3. CASE \/ Gateway
           \/ \E v \in Dispatchers : DWork(v) \/ DAgent(v) \/ DCrash(v)
           \/ \E i \in requested.pending : DTime(i)
           \/ \E i \in completed.pending : OTime(i)
           \/ \E u \in Users : SetUserStatus(u)
           \/ UNCHANGED vars
  <2>1. UNCHANGED <<delivery, sent, opc, obatch, ofaults>>
    BY <1>3 DEF Gateway, Accept, PublishRequested, Confirm, DWork, DAgent, DCrash, DTime, OTime,
                O!Time, O!BecomeIdle, SetUserStatus, vars, delivering
  <2>2. \A i \in DOMAIN completed.log : completed'.log[i] = completed.log[i]
    <3>1. completed'.log = completed.log \/ \E e : completed' = O!Publish(completed, e)
      <4>1. CASE \E i \in completed.pending : OTime(i)
        BY <4>1, DeliveryLogFact DEF IInv
      <4>2. CASE ~\E i \in completed.pending : OTime(i)
        BY <1>3, <4>2 DEF Gateway, Accept, PublishRequested, Confirm, DWork, DAgent, DCrash,
             DTime, SetUserStatus, vars, DLoop, DStep, DLoad, DCall, DPublish, DFinish, DAnswer
      <4>3. QED
        BY <4>1, <4>2
    <3>2. ASSUME NEW e, completed' = O!Publish(completed, e)
          PROVE  completed'.log = Append(completed.log, e)
      BY <3>2 DEF O!Publish, IInv, OP!IInv, OP!TypeOK, OP!StreamOf
    <3>3. \A e : \A i \in DOMAIN completed.log : Append(completed.log, e)[i] = completed.log[i]
      BY LogTypes
    <3>4. QED
      BY <3>1, <3>2, <3>3
  <2>3. QED
    BY <2>1, <2>2, LogTypes, RepeatFrame
<1>4. QED
  BY <1>1, <1>2, <1>3 DEF Next

\* With one delivery worker nothing but its own faults repeats an answer.
THEOREM RepeatsAreCounted ==
  ASSUME NEW w, Senders = {w}
  PROVE  Spec => []RepeatsNeedFaults
<1>1. Init => RepeatInv
  BY DEF Init, RepeatInv, RepeatOk, At, AttemptLabels
<1>2. IInv /\ RepeatInv /\ [Next]_vars => RepeatInv'
  BY KeepsRepeat
<1>3. IInv /\ RepeatInv => RepeatsNeedFaults
  <2> SUFFICES ASSUME IInv, RepeatInv, NEW r \in Requests PROVE sent[r] <= 1 + ofaults
    BY DEF RepeatsNeedFaults
  <2>1. sent[r] \in Nat /\ ofaults \in Nat
    BY DeliveryTypes
  <2>2. QED
    BY <2>1 DEF RepeatInv, RepeatOk
<1>4. QED
  BY <1>1, <1>2, <1>3, Inductive, PTL DEF Spec
=============================================================================
