------------------------------ MODULE QASystem -------------------------------
(***************************************************************************)
(* The question-answering path as a whole: the gateway (its promise,       *)
(* module Inbox), the dispatchers (Dispatcher), the agent and the delivery *)
(* workers (Outbound), joined by the streams qa:requested and qa:completed *)
(* and by the tables they share.                                           *)
(*                                                                         *)
(* What the components leave open is fixed here: the entries the           *)
(* dispatcher reads are those the gateway published, the events the        *)
(* delivery reads are those the dispatcher published, the answer that is   *)
(* loaded for delivery is the one the agent stored, and whether a user is  *)
(* ACTIVE is one fact for the gateway, the agent and the delivery.         *)
(***************************************************************************)
EXTENDS Naturals, Sequences, FiniteSets

CONSTANTS
  Messages,     \* WeCom text messages
  Users,        \* WeCom senders
  Sender,       \* the sender of each message
  Requests,     \* request ids
  Texts,        \* what answers may say
  Dispatchers,  \* worker processes of cmd/dispatcher
  Senders,      \* worker processes of cmd/outbound
  BatchSize,
  MaxRequested, \* bound: entries the gateway adds to qa:requested
  MaxFaults,    \* bound: faults of the workers and changes of a user's status
  None

ASSUME SenderAssumption == Sender \in [Messages -> Users]
ASSUME BoundAssumption == MaxRequested \in Nat /\ MaxFaults \in Nat /\ BatchSize \in Nat \ {0}
ASSUME SendersAssumption == IsFiniteSet(Senders)

\* The answer to a question belongs to the asker, messages.user_id.
Answers == [question : Messages, text : Texts]

ASSUME NoneAssumption == None \notin Messages \cup Requests \cup Answers

VARIABLES
  accepted, acked,             \* the gateway's part of Inbox
  disabled,                    \* the users whose status is not ACTIVE
  requested, dpc, dbatch, held,\* qa:requested and the dispatchers
  question,                    \* the question a dispatcher has loaded
  answer,                      \* the answer the agent stored for a request
  completed, opc, obatch,      \* qa:completed and the delivery workers
  delivery, sent,              \* outbound_deliveries, messages by event
  received,                    \* the messages WeCom accepted: recipient, answer
  dfaults, ofaults, changes    \* faults and changes so far

gateway == <<accepted, acked>>
dispatchers == <<requested, dpc, dbatch, held, question, answer>>
delivering == <<opc, obatch, delivery, sent, received>>
vars == <<gateway, disabled, dispatchers, completed, delivering, dfaults, ofaults, changes>>

RequestsIn(stream) == {stream.log[i].request : i \in DOMAIN stream.log}
Events == {[request |-> completed.log[i].event, answer |-> completed.log[i].answer] :
             i \in DOMAIN completed.log}

\* The question with request id r.
Asks(r, m) == accepted[m] = r
Asker(r) == Sender[CHOOSE m \in Messages : Asks(r, m)]

\* The events LoadOutboundAnswer finds an answer of an ACTIVE recipient for.
Deliverable == {r \in Requests : answer[r] # None /\ Sender[answer[r].question] \notin disabled}

\* Bound: entries the dispatchers add to qa:completed.
MaxCompleted == MaxRequested + MaxFaults

G == INSTANCE Inbox WITH published <- RequestsIn(requested)
D == INSTANCE Dispatcher WITH
       Workers <- Dispatchers, Doomed <- {}, MaxEntries <- MaxRequested,
       stream <- requested, pc <- dpc, batch <- dbatch, published <- Events
O == INSTANCE Outbound WITH
       Workers <- Senders, Events <- Requests, MaxEntries <- MaxCompleted,
       MaxAttempts <- MaxFaults + 2,
       stream <- completed, pc <- opc, batch <- obatch,
       active <- Deliverable, accepted <- sent

Init ==
  /\ accepted = [m \in Messages |-> None]
  /\ acked = {}
  /\ disabled = {}
  /\ requested = D!EmptyStream
  /\ dpc = [w \in Dispatchers |-> "poll"]
  /\ dbatch = [w \in Dispatchers |-> {}]
  /\ held = [w \in Dispatchers |-> None]
  /\ question = [w \in Dispatchers |-> None]
  /\ answer = [r \in Requests |-> None]
  /\ completed = O!EmptyStream
  /\ opc = [w \in Senders |-> "poll"]
  /\ obatch = [w \in Senders |-> {}]
  /\ delivery = [r \in Requests |-> [status |-> "NONE", attempt |-> 0]]
  /\ sent = [r \in Requests |-> 0]
  /\ received = {}
  /\ dfaults = 0 /\ ofaults = 0 /\ changes = 0

-----------------------------------------------------------------------------
(* The gateway, as Inbox promises it.  A disabled sender is turned away.   *)

\* The request ids no question has.
Unused == {r \in Requests : \A m \in Messages : ~Asks(r, m)}

Accept(m) ==
  /\ Sender[m] \notin disabled
  /\ UNCHANGED <<disabled, dispatchers, completed, delivering, dfaults, ofaults, changes>>
  /\ Unused # {}
  /\ G!Accept(m, CHOOSE r \in Unused : TRUE)

\* A retry of WeCom may publish the request of a message again.
PublishRequested(m) ==
  /\ accepted[m] # None
  /\ Len(requested.log) < MaxRequested
  /\ requested' = D!Publish(requested,
       [request |-> accepted[m], user |-> Sender[m], kind |-> "valid"])
  /\ G!Publish(m)
  /\ UNCHANGED <<disabled, dpc, dbatch, held, question, answer, completed, delivering,
                 dfaults, ofaults, changes>>

Confirm(m) ==
  /\ UNCHANGED <<disabled, dispatchers, completed, delivering, dfaults, ofaults, changes>>
  /\ G!Acknowledge(m)

Gateway == \E m \in Messages : Accept(m) \/ PublishRequested(m) \/ Confirm(m)

-----------------------------------------------------------------------------
(* The dispatchers.                                                        *)

\* What the agent refuses to a disabled user is no fault of a worker.
Turned(w, i) == dpc[w] = "call" /\ Asker(requested.log[i].request) \in disabled

CountD(fault) ==
  /\ fault => dfaults + ofaults + changes < MaxFaults
  /\ dfaults' = IF fault THEN dfaults + 1 ELSE dfaults

DLoop(w) ==
  /\ UNCHANGED <<held, question, answer, completed>>
  /\ D!Loop(w)
  /\ CountD(D!LoopFault(w))

\* Mutant of DLoad: the question is not looked up by the request, nor compared with it.
DLoadAnyQuestion(w, i) ==
  /\ UNCHANGED <<completed, dfaults>>
  /\ D!LoadQuestion(w, i)
  /\ \E m \in Messages : accepted[m] # None /\ question' = [question EXCEPT ![w] = m]

\* LoadQuestion hands the question of the request to the call.
DLoad(w, i) ==
  /\ UNCHANGED <<completed, dfaults>>
  /\ D!LoadQuestion(w, i)
  /\ \E m \in Messages :
       /\ Asks(requested.log[i].request, m)
       /\ question' = [question EXCEPT ![w] = m]

\* AnswerQuestion of the agent: what it stores answers the question it was sent.
DAnswer(w, i) ==
  /\ ~Turned(w, i)
  /\ UNCHANGED <<question, completed, dfaults>>
  /\ D!AgentAnswers(w, i)
  /\ answer'[requested.log[i].request].question = question[w]

DCall(w, i) ==
  /\ ~Turned(w, i)
  /\ UNCHANGED <<question, completed, dfaults>>
  /\ D!CallAgent(w, i)

\* The event names the request, the recipient of the request event and the answer.
DPublish(w, i) ==
  LET e == requested.log[i] IN
  /\ Len(completed.log) < MaxCompleted
  /\ completed' = O!Publish(completed,
       [event |-> e.request, kind |-> "valid", user |-> e.user, answer |-> held[w]])
  /\ D!PublishCompleted(w, i)
  /\ question' = [question EXCEPT ![w] = IF dpc'[w] = "next" THEN None ELSE @]
  /\ CountD(dpc'[w] = "next")

\* Mutant of DFinish: a failed entry is acknowledged.
DFinishAlwaysAcks(w, i) ==
  /\ requested' = D!Ack(requested, i)
  /\ dpc[w] \in {"load", "call", "publish", "ack"}
  /\ D!Return(w, i)
  /\ question' = [question EXCEPT ![w] = None]
  /\ CountD(dpc[w] # "ack" /\ ~Turned(w, i))
  /\ UNCHANGED <<completed, answer>>

\* The acknowledgement, or the failure of a call.
DFinish(w, i) ==
  /\ UNCHANGED completed
  /\ \/ D!AckRequest(w, i) /\ UNCHANGED dfaults
     \/ D!DropEntry(w, i) /\ CountD(~Turned(w, i))
  /\ question' = [question EXCEPT ![w] = None]

DStep(w, i) ==
  \/ UNCHANGED <<question, completed, dfaults>> /\ D!Decode(w, i)
  \/ DLoad(w, i) \/ DCall(w, i) \/ DPublish(w, i) \/ DFinish(w, i)

DWork(w) ==
  /\ DLoop(w) \/ \E i \in dbatch[w] : D!Current(w, i) /\ DStep(w, i)
  /\ UNCHANGED <<gateway, disabled, delivering, ofaults, changes>>

DAgent(w) ==
  /\ \E i \in dbatch[w] : D!Current(w, i) /\ DAnswer(w, i)
  /\ UNCHANGED <<gateway, disabled, delivering, ofaults, changes>>

DCrash(w) ==
  /\ UNCHANGED <<gateway, disabled, completed, delivering, ofaults, changes>>
  /\ D!Crash(w)
  /\ question' = [question EXCEPT ![w] = None]
  /\ CountD(TRUE)

DTime(i) ==
  /\ UNCHANGED <<gateway, disabled, question, completed, delivering, dfaults, ofaults, changes>>
  /\ D!Time(i)

-----------------------------------------------------------------------------
(* The delivery.                                                           *)

CountO(fault) ==
  /\ fault => dfaults + ofaults + changes < MaxFaults
  /\ ofaults' = IF fault THEN ofaults + 1 ELSE ofaults

\* What WeCom accepts is sent to the recipient of the event, with the answer
\* the event names.
OSend(w, i) ==
  /\ O!SendText(w, i)
  /\ received' = IF sent' = sent THEN received
                   ELSE received \cup {[user |-> completed.log[i].user,
                                        answer |-> completed.log[i].answer]}
  /\ CountO(opc'[w] = "fail")

\* LoadOutboundAnswer fails for a disabled recipient, which is no fault.
OStep(w, i) ==
  \/ OSend(w, i)
  \/ /\ \/ O!Decode(w, i) /\ UNCHANGED ofaults
        \/ O!ClaimOutboundDelivery(w, i) /\ CountO(opc'[w] = "next")
        \/ O!LoadOutboundAnswer(w, i)
             /\ CountO(opc'[w] = "fail" /\ completed.log[i].event \in Deliverable)
        \/ O!MarkOutboundSent(w, i) /\ CountO(opc'[w] = "next")
        \/ O!MarkOutboundFailed(w, i) /\ UNCHANGED ofaults
        \/ O!AckEntry(w, i) /\ UNCHANGED ofaults
        \/ O!DropEntry(w, i) /\ CountO(TRUE)
     /\ UNCHANGED received

OWork(w) ==
  /\ UNCHANGED <<gateway, disabled, dispatchers, dfaults, changes>>
  /\ \/ /\ O!Loop(w)
        /\ UNCHANGED <<delivery, sent, received>>
        /\ CountO(O!LoopFault(w))
     \/ \E i \in obatch[w] : O!Current(w, i) /\ OStep(w, i)

OCrash(w) ==
  /\ UNCHANGED <<gateway, disabled, dispatchers, received, dfaults, changes>>
  /\ O!Crash(w)
  /\ CountO(TRUE)

OTime(i) ==
  /\ UNCHANGED <<gateway, disabled, dispatchers, received, dfaults, ofaults, changes>>
  /\ O!Time(i)

-----------------------------------------------------------------------------
\* An administrator disables or enables a user (SQL: no code does it).
SetUserStatus(u) ==
  /\ dfaults + ofaults + changes < MaxFaults
  /\ changes' = changes + 1
  /\ disabled' = IF u \in disabled THEN disabled \ {u} ELSE disabled \cup {u}
  /\ UNCHANGED <<gateway, dispatchers, completed, delivering, dfaults, ofaults>>

Next ==
  \/ Gateway
  \/ \E w \in Dispatchers : DWork(w) \/ DAgent(w) \/ DCrash(w)
  \/ \E i \in requested.pending : DTime(i)
  \/ \E w \in Senders : OWork(w) \/ OCrash(w)
  \/ \E i \in completed.pending : OTime(i)
  \/ \E u \in Users : SetUserStatus(u)

Spec == Init /\ [][Next]_vars

\* Time passes and the workers go on; a behaviour has finitely many faults.
Fairness ==
  /\ \A w \in Dispatchers : WF_vars(DWork(w)) /\ WF_vars(DAgent(w))
  /\ \A w \in Senders : WF_vars(OWork(w))
  /\ \A i \in 1..MaxRequested : WF_vars(DTime(i))
  /\ \A i \in 1..MaxCompleted : WF_vars(OTime(i))
FairSpec == Spec /\ Fairness

-----------------------------------------------------------------------------
(* Properties.                                                             *)

\* Whoever receives an answer asked the question it answers, and all answers to
\* a question are the one stored.
AnswerReachesAsker ==
  \A x \in received :
    \E m \in Messages :
      /\ accepted[m] # None
      /\ x.answer = answer[accepted[m]]
      /\ x.answer.question = m
      /\ x.user = Sender[m]

InFlight(stream, i) == i > stream.last \/ i \in stream.pending

\* A question that was confirmed to WeCom is, at every moment, in one of the
\* two streams or answered.
ConfirmedIsKept ==
  \A m \in acked :
    LET r == accepted[m] IN
    \/ \E i \in DOMAIN requested.log : requested.log[i].request = r /\ InFlight(requested, i)
    \/ \E i \in DOMAIN completed.log : completed.log[i].event = r /\ InFlight(completed, i)
    \/ sent[r] > 0

\* One delivery worker sends an answer again only for a fault of its own:
\* callbacks that WeCom repeats, and whatever fails in the dispatchers, repeat
\* no answer.
RepeatsNeedFaults == \A r \in Requests : sent[r] <= 1 + ofaults

\* A confirmed question of a user who is ACTIVE from some moment on is answered.
ConfirmedIsAnswered ==
  D!PollsFindNothing /\ O!PollsFindNothing => \A m \in Messages :
    <>[](m \in acked /\ Sender[m] \notin disabled)
      => <>(\E x \in received : x.answer.question = m)
=============================================================================
