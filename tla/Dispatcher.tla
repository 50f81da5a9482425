----------------------------- MODULE Dispatcher ------------------------------
(***************************************************************************)
(* cmd/dispatcher: workers that take the entries of qa:requested in        *)
(* batches, ask the agent, publish qa.completed and acknowledge the entry. *)
(*                                                                         *)
(* A worker handles its batch in order, one entry after the other; each    *)
(* call of Redis, the store or the agent is one step that may fail, and a  *)
(* worker may crash between two steps.                                     *)
(*                                                                         *)
(* The event id of qa.completed is a UUIDv5 of the request, so repeated    *)
(* events of a request are equal if their answers are: published is a set. *)
(***************************************************************************)
EXTENDS StreamConsumer

CONSTANTS
  Requests,
  Users,       \* senders of questions
  Answers,
  Doomed,      \* requests the agent refuses for good (their user is disabled)
  MaxEntries,  \* bound: entries ever added to qa:requested
  None

ASSUME BoundAssumption == MaxEntries \in Nat
ASSUME DoomedAssumption == Doomed \subseteq Requests
ASSUME NoneAssumption == None \notin Answers

\* A "malformed" entry cannot be decoded or validated, a "mismatch" names
\* another request or user than the stored question.  An "unknown" one names no
\* stored question: of its input_message_id is only asked that it is not empty.
Entry ==
  [request : Requests, user : Users, kind : {"valid", "malformed", "mismatch", "unknown"}]

\* The stream is qa:requested, its group agent-dispatcher.
VARIABLES
  published,  \* the events added to qa:completed
  answer,     \* the answers of the agent, given once (AnswerOnce)
  held        \* the answer a worker got from the agent

vars == <<stream, published, answer, pc, batch, held>>

TypeOK ==
  /\ stream \in StreamOf(Entry)
  /\ published \subseteq [request : Requests, answer : Answers]
  /\ answer \in [Requests -> Answers \cup {None}]
  /\ pc \in [Workers -> LoopLabels \cup {"load", "poison", "call", "publish", "ack"}]
  /\ batch \in [Workers -> SUBSET Nat]
  /\ held \in [Workers -> Answers \cup {None}]

Init ==
  /\ stream = EmptyStream
  /\ published = {}
  /\ answer = [r \in Requests |-> None]
  /\ pc = [w \in Workers |-> "poll"]
  /\ batch = [w \in Workers |-> {}]
  /\ held = [w \in Workers |-> None]

\* Worker w is done with entry i: processOne returns.
Return(w, i) ==
  /\ Leave(w, i)
  /\ held' = [held EXCEPT ![w] = None]

-----------------------------------------------------------------------------
(* processOne, for entry i of worker w.                                    *)

\* Mutant of Decode: an invalid entry is skipped without being acknowledged.
DecodeSkipsMalformed(w, i) ==
  /\ pc[w] = "next"
  /\ IF stream.log[i].kind = "malformed"
       THEN Return(w, i)
       ELSE Goto(w, "load") /\ UNCHANGED <<batch, held>>
  /\ UNCHANGED <<stream, published, answer>>

\* DecodeMessage and validateRequestedEvent.
Decode(w, i) ==
  /\ pc[w] = "next"
  /\ Goto(w, IF stream.log[i].kind = "malformed" THEN "poison" ELSE "load")
  /\ UNCHANGED <<stream, published, answer, batch, held>>

\* Mutant of LoadQuestion: the identity in the event is believed.
LoadWithoutCheck(w, i) ==
  /\ pc[w] = "load"
  /\ stream.log[i].kind # "unknown"
  /\ Goto(w, "call")
  /\ UNCHANGED <<stream, published, answer, batch, held>>

\* LoadQuestion finds the question, which is compared with the identity in the
\* event.  For an unknown one every call fails (DropEntry): no row, or no UUID.
LoadQuestion(w, i) ==
  /\ pc[w] = "load"
  /\ stream.log[i].kind # "unknown"
  /\ Goto(w, IF stream.log[i].kind = "mismatch" THEN "poison" ELSE "call")
  /\ UNCHANGED <<stream, published, answer, batch, held>>

\* ackPoison: an error of the acknowledgement is only logged.
AckPoison(w, i) ==
  /\ pc[w] = "poison"
  /\ stream' \in {stream, Ack(stream, i)}
  /\ Return(w, i)
  /\ UNCHANGED <<published, answer>>

\* The agent stores an answer for the call in progress (external: AgentQuery).
\* The call may still fail after that.
AgentAnswers(w, i) ==
  LET r == stream.log[i].request IN
  /\ pc[w] = "call"
  /\ r \notin Doomed
  /\ answer[r] = None
  /\ \E a \in Answers : answer' = [answer EXCEPT ![r] = a]
  /\ UNCHANGED <<stream, published, pc, batch, held>>

\* AnswerQuestion returns the stored answer.
CallAgent(w, i) ==
  LET r == stream.log[i].request IN
  /\ pc[w] = "call"
  /\ answer[r] # None
  /\ held' = [held EXCEPT ![w] = answer[r]]
  /\ Goto(w, "publish")
  /\ UNCHANGED <<stream, published, answer, batch>>

\* Mutant of PublishCompleted: the error of the append is only logged.
PublishIgnoresError(w, i) ==
  /\ pc[w] = "publish"
  /\ published' \in
       {published,
        published \cup {[request |-> stream.log[i].request, answer |-> held[w]]}}
  /\ Goto(w, "ack")
  /\ UNCHANGED <<stream, answer, batch, held>>

\* Publish of qa.completed; the reply may be lost after the append.
PublishCompleted(w, i) ==
  /\ pc[w] = "publish"
  /\ published' = published \cup {[request |-> stream.log[i].request, answer |-> held[w]]}
  /\ \/ Goto(w, "ack") /\ UNCHANGED <<batch, held>>
     \/ Return(w, i)
  /\ UNCHANGED <<stream, answer>>

\* Ack of the entry, the last step of processOne.
AckRequest(w, i) ==
  /\ pc[w] = "ack"
  /\ stream' = Ack(stream, i)
  /\ Return(w, i)
  /\ UNCHANGED <<published, answer>>

\* A call fails: processOne returns the error and the entry stays pending.
DropEntry(w, i) ==
  /\ pc[w] \in {"load", "call", "publish", "ack"}
  /\ Return(w, i)
  /\ UNCHANGED <<stream, published, answer>>

ProcessOne(w, i) ==
  \/ Decode(w, i) \/ LoadQuestion(w, i) \/ AckPoison(w, i) \/ CallAgent(w, i)
  \/ PublishCompleted(w, i) \/ AckRequest(w, i) \/ DropEntry(w, i)

-----------------------------------------------------------------------------
(* The environment.                                                        *)

\* The gateway adds an entry, possibly one more for the same request.
Enqueue(e) ==
  /\ Len(stream.log) < MaxEntries
  /\ stream' = Publish(stream, e)
  /\ UNCHANGED <<published, answer, pc, batch, held>>

\* Time passes without a delivery of entry i.
Time(i) == BecomeIdle(i) /\ UNCHANGED <<published, answer, held>>

Crash(w) ==
  /\ Die(w)
  /\ held' = [held EXCEPT ![w] = None]
  /\ UNCHANGED <<published, answer>>

Work(w) ==
  \/ Loop(w) /\ UNCHANGED <<published, answer, held>>
  \/ \E i \in batch[w] : Current(w, i) /\ ProcessOne(w, i)

Next ==
  \/ \E w \in Workers :
       \/ Work(w)
       \/ \E i \in batch[w] : Current(w, i) /\ AgentAnswers(w, i)
       \/ Crash(w)
  \/ \E e \in Entry : Enqueue(e)
  \/ \E i \in stream.pending : Time(i)

Spec == Init /\ [][Next]_vars

\* A step at which something goes wrong.  The agent's refusal of a doomed request
\* and the failing load of an unknown question are none: they do not stop.
Fault ==
  \E w \in Workers :
    \/ Crash(w) /\ batch[w] # {}
    \/ LoopFault(w)
    \/ \E i \in batch[w] :
         /\ Current(w, i)
         /\ \/ /\ DropEntry(w, i)
               /\ pc[w] = "load" => stream.log[i].kind # "unknown"
               /\ pc[w] = "call" => stream.log[i].request \notin Doomed
               /\ pc[w] = "ack" => i \in stream.pending
            \/ AckPoison(w, i) /\ UNCHANGED stream /\ i \in stream.pending
            \/ PublishCompleted(w, i) /\ pc'[w] = "next"

\* Time passes, workers and the agent go on, and the faults end some day.
Fairness ==
  /\ \A i \in 1..MaxEntries : WF_vars(Time(i))
  /\ \A w \in Workers :
       /\ WF_vars(Work(w))
       /\ WF_vars(\E i \in batch[w] : Current(w, i) /\ AgentAnswers(w, i))
  /\ <>[][~Fault]_vars
FairSpec == Spec /\ Fairness

-----------------------------------------------------------------------------
(* Properties.                                                             *)

Valid(i) == stream.log[i].kind = "valid"
CompletedRequest(r) == \E p \in published : p.request = r

\* An entry that was delivered and is no longer pending was invalid, or its
\* completion is published: no question is lost between the two streams, in
\* whatever order several workers handle, drop and acknowledge it.
AckedIsSettled ==
  \A i \in 1..stream.last :
    i \notin stream.pending => ~Valid(i) \/ CompletedRequest(stream.log[i].request)

\* Every qa.completed carries the one answer of its request, so repeated events
\* of a request are the same event; and the request was asked for.
PublishedAgrees ==
  \A p \in published :
    /\ answer[p.request] = p.answer
    /\ \E i \in 1..stream.last : stream.log[i].request = p.request /\ Valid(i)

\* The entries the code can bring to an end: malformed and mismatching ones, and
\* valid ones of requests the agent can answer.
Settleable(i) ==
  /\ stream.log[i].kind # "unknown"
  /\ Valid(i) => stream.log[i].request \notin Doomed

\* Every entry the code can bring to an end is acknowledged, whatever fails on the
\* way and whatever other entries can never be: a valid one as answered
\* (AckedIsSettled), a malformed or mismatching one as discarded.
EntriesSettle ==
  PollsFindNothing =>
    \A i \in 1..MaxEntries :
      (i \in Entries(stream) /\ Settleable(i))
        ~> (i <= stream.last /\ i \notin stream.pending)

\* docs/go-gateway-api-v1.0.md:1271: an entry that reached its maximal attempt
\* goes to the dead letters.  The code has no limit: an entry whose request the
\* agent refuses for good, or that names no stored question, is claimed for ever.
DoomedEntriesLeave ==
  PollsFindNothing =>
    \A i \in 1..MaxEntries :
      i \in stream.pending ~> i \notin stream.pending
=============================================================================
