------------------------------ MODULE Outbound -------------------------------
(***************************************************************************)
(* cmd/outbound: workers that take the entries of qa:completed, record the *)
(* delivery in the table outbound_deliveries (internal/store/postgres.go), *)
(* send the answer through the WeCom API (internal/wecom/client.go) and    *)
(* acknowledge the entry.                                                  *)
(*                                                                         *)
(* Entries with the same event share one delivery.  Each call of Redis,    *)
(* the store or WeCom is one step that may fail without effect, or take    *)
(* effect and report an error, and a worker may crash between two steps.   *)
(***************************************************************************)
EXTENDS StreamConsumer

CONSTANTS
  Events,      \* event ids of qa.completed
  Users,       \* recipients
  Answers,     \* answers the events name
  MaxEntries,  \* bound: entries ever added to qa:completed
  MaxAttempts  \* bound: attempts and messages are counted up to this number

ASSUME BoundAssumption == MaxEntries \in Nat /\ MaxAttempts \in Nat \ {0}
ASSUME WorkersAssumption == IsFiniteSet(Workers)

\* A "malformed" entry cannot be decoded or validated; an "other" one is for
\* another channel than WECOM.
Entry == [event : Events, kind : {"valid", "malformed", "other"}, user : Users, answer : Answers]

\* The stream is qa:completed, its group wecom-outbound.
VARIABLES
  active,    \* the events whose recipient is ACTIVE and whose answer is stored
  delivery,  \* outbound_deliveries: status ("NONE" without a row) and attempt
  accepted   \* how many messages WeCom accepted for each event

vars == <<stream, pc, batch, active, delivery, accepted>>

TypeOK ==
  /\ stream \in StreamOf(Entry)
  /\ pc \in [Workers -> LoopLabels \cup {"claim", "load", "send", "mark", "fail", "ack"}]
  /\ batch \in [Workers -> SUBSET Nat]
  /\ active \subseteq Events
  /\ delivery \in [Events -> [status : {"NONE", "SENDING", "SENT", "RETRYABLE_FAILED"},
                              attempt : 0..MaxAttempts]]
  /\ accepted \in [Events -> 0..MaxAttempts]

Init ==
  /\ stream = EmptyStream
  /\ pc = [w \in Workers |-> "poll"]
  /\ batch = [w \in Workers |-> {}]
  /\ active \in SUBSET Events
  /\ delivery = [e \in Events |-> [status |-> "NONE", attempt |-> 0]]
  /\ accepted = [e \in Events |-> 0]

Increment(n) == IF n < MaxAttempts THEN n + 1 ELSE n

EventOf(i) == stream.log[i].event
Valid(i) == stream.log[i].kind = "valid"

-----------------------------------------------------------------------------
(* processOne, for entry i of worker w.                                    *)

\* Mutant of Decode: another channel's entry is skipped, not acknowledged.
DecodeSkipsOther(w, i) ==
  /\ pc[w] = "next"
  /\ \/ stream.log[i].kind = "other" /\ Leave(w, i)
     \/ /\ stream.log[i].kind # "other"
        /\ Goto(w, IF Valid(i) THEN "claim" ELSE "ack")
        /\ UNCHANGED batch
  /\ UNCHANGED <<stream, active, delivery, accepted>>

\* DecodeMessage, validateCompletedEvent and the channel: an entry that cannot
\* be delivered is acknowledged at once.
Decode(w, i) ==
  /\ pc[w] = "next"
  /\ Goto(w, IF Valid(i) THEN "claim" ELSE "ack")
  /\ UNCHANGED <<stream, batch, active, delivery, accepted>>

\* The row is inserted if it is missing, and its attempt begins.
StartAttempt(e) ==
  delivery' = [delivery EXCEPT
    ![e] = [status |-> "SENDING", attempt |-> Increment(@.attempt)]]

\* Mutant of ClaimOutboundDelivery: a delivery that is SENT is sent again.
ClaimAnyDelivery(w, i) ==
  /\ pc[w] = "claim"
  /\ StartAttempt(EventOf(i))
  /\ Goto(w, "load")
  /\ UNCHANGED <<stream, batch, active, accepted>>

\* Mutant of ClaimOutboundDelivery: a delivery somebody began is left to him.
ClaimFreshDelivery(w, i) ==
  /\ pc[w] = "claim"
  /\ IF delivery[EventOf(i)].status # "NONE"
       THEN Goto(w, "ack") /\ UNCHANGED delivery
       ELSE Goto(w, "load") /\ StartAttempt(EventOf(i))
  /\ UNCHANGED <<stream, batch, active, accepted>>

\* The transaction takes any delivery that is not SENT, one that another worker
\* is SENDING included; the commit may take effect and report an error.
ClaimOutboundDelivery(w, i) ==
  /\ pc[w] = "claim"
  /\ \/ /\ delivery[EventOf(i)].status = "SENT"
        /\ Goto(w, "ack")
        /\ UNCHANGED <<batch, delivery>>
     \/ /\ delivery[EventOf(i)].status # "SENT"
        /\ StartAttempt(EventOf(i))
        /\ \/ Goto(w, "load") /\ UNCHANGED batch
           \/ Leave(w, i)
  /\ UNCHANGED <<stream, active, accepted>>

\* LoadOutboundAnswer finds the answer of an active recipient, or fails.
LoadOutboundAnswer(w, i) ==
  /\ pc[w] = "load"
  /\ \/ EventOf(i) \in active /\ Goto(w, "send")
     \/ Goto(w, "fail")
  /\ UNCHANGED <<stream, batch, active, delivery, accepted>>

\* Mutant of SendText: HTTP 200 is taken for success, whatever errcode says.
SendTextTrustsHTTP(w, i) ==
  /\ pc[w] = "send"
  /\ accepted' \in {accepted, [accepted EXCEPT ![EventOf(i)] = Increment(@)]}
  /\ Goto(w, "mark")
  /\ UNCHANGED <<stream, batch, active, delivery>>

\* SendText: WeCom accepts one message, which the reply confirms unless it is
\* lost; or none.  It sends a second time only if the first was refused for its
\* token (40014, 42001).
SendText(w, i) ==
  /\ pc[w] = "send"
  /\ \/ /\ accepted' = [accepted EXCEPT ![EventOf(i)] = Increment(@)]
        /\ \E label \in {"mark", "fail"} : Goto(w, label)
     \/ /\ Goto(w, "fail")
        /\ UNCHANGED accepted
  /\ UNCHANGED <<stream, batch, active, delivery>>

\* MarkOutboundSent; if it reports an error the failure is not recorded.
MarkOutboundSent(w, i) ==
  /\ pc[w] = "mark"
  /\ delivery' = [delivery EXCEPT ![EventOf(i)].status = "SENT"]
  /\ \/ Goto(w, "ack") /\ UNCHANGED batch
     \/ Leave(w, i)
  /\ UNCHANGED <<stream, active, accepted>>

\* recordFailure: the status is overwritten, whatever it is.
MarkOutboundFailed(w, i) ==
  /\ pc[w] = "fail"
  /\ delivery' = [delivery EXCEPT ![EventOf(i)].status = "RETRYABLE_FAILED"]
  /\ Leave(w, i)
  /\ UNCHANGED <<stream, active, accepted>>

\* Ack of a sent, an invalid or another channel's entry.
AckEntry(w, i) ==
  /\ pc[w] = "ack"
  /\ stream' = Ack(stream, i)
  /\ Leave(w, i)
  /\ UNCHANGED <<active, delivery, accepted>>

\* A call fails without effect and the entry stays pending.
DropEntry(w, i) ==
  /\ pc[w] \in {"claim", "mark", "fail", "ack"}
  /\ Leave(w, i)
  /\ UNCHANGED <<stream, active, delivery, accepted>>

ProcessOne(w, i) ==
  \/ Decode(w, i) \/ ClaimOutboundDelivery(w, i) \/ LoadOutboundAnswer(w, i)
  \/ SendText(w, i) \/ MarkOutboundSent(w, i) \/ MarkOutboundFailed(w, i)
  \/ AckEntry(w, i) \/ DropEntry(w, i)

-----------------------------------------------------------------------------
(* The environment.                                                        *)

\* The dispatcher adds an event, possibly again.
Enqueue(e) ==
  /\ Len(stream.log) < MaxEntries
  /\ stream' = Publish(stream, e)
  /\ UNCHANGED <<pc, batch, active, delivery, accepted>>

\* Answers are stored, and users are disabled or enabled, all events of a user at
\* once (SQL: no code does it).
SetActive(events) ==
  /\ active' = events
  /\ UNCHANGED <<stream, pc, batch, delivery, accepted>>

\* Time passes without a delivery of entry i.
Time(i) == BecomeIdle(i) /\ UNCHANGED <<active, delivery, accepted>>

Crash(w) == Die(w) /\ UNCHANGED <<active, delivery, accepted>>

Work(w) ==
  \/ Loop(w) /\ UNCHANGED <<active, delivery, accepted>>
  \/ \E i \in batch[w] : Current(w, i) /\ ProcessOne(w, i)

Next ==
  \/ \E w \in Workers : Work(w) \/ Crash(w)
  \/ \E e \in Entry : Enqueue(e)
  \/ \E events \in SUBSET Events : SetActive(events)
  \/ \E i \in stream.pending : Time(i)

Spec == Init /\ [][Next]_vars

\* A step at which something goes wrong.  That the answer for a disabled user
\* cannot be loaded is not one: it does not stop.
Fault ==
  \E w \in Workers :
    \/ Crash(w) /\ batch[w] # {}
    \/ LoopFault(w)
    \/ \E i \in batch[w] :
         /\ Current(w, i)
         /\ \/ /\ DropEntry(w, i)
               /\ pc[w] # "fail"
               /\ pc[w] = "ack" => i \in stream.pending
            \/ ClaimOutboundDelivery(w, i) /\ pc'[w] = "next"
            \/ LoadOutboundAnswer(w, i) /\ pc'[w] = "fail" /\ EventOf(i) \in active
            \/ SendText(w, i) /\ pc'[w] = "fail"
            \/ MarkOutboundSent(w, i) /\ pc'[w] = "next"

\* Time passes, workers go on, and the faults end some day.
Fairness ==
  /\ \A i \in 1..MaxEntries : WF_vars(Time(i))
  /\ \A w \in Workers : WF_vars(Work(w))
  /\ <>[][~Fault]_vars
FairSpec == Spec /\ Fairness

-----------------------------------------------------------------------------
(* Properties.                                                             *)

\* A delivered entry that is no longer pending was not to be delivered, or WeCom
\* accepted its answer: no answer is lost, whichever of several workers claims,
\* sends, marks and acknowledges it.
AckedIsAccepted ==
  \A i \in 1..stream.last :
    i \notin stream.pending => ~Valid(i) \/ accepted[EventOf(i)] > 0

\* A delivery recorded as SENT was accepted by WeCom, also when the worker that
\* marks it is not the one whose row it was.
SentIsAccepted ==
  \A e \in Events : delivery[e].status = "SENT" => accepted[e] > 0

\* Every message WeCom accepted is one of the recorded attempts of its event:
\* nothing is sent without a record, and repeated sending shows in attempt.
AttemptsCoverMessages ==
  \A e \in Events : accepted[e] <= delivery[e].attempt

\* The workers that claimed event e and have not finished their attempt.
Attempting(e) ==
  {w \in Workers : /\ pc[w] \in {"load", "send", "mark", "fail"}
                   /\ \E i \in batch[w] : Current(w, i) /\ EventOf(i) = e}

\* Once an event is SENT and no attempt is under way, it stays so for ever and
\* nothing is sent for it, however often its entries are delivered.  While
\* another attempt is under way, its failure overwrites SENT
\* (MarkOutboundFailed), and the answer is sent again.
DoneIsFinal ==
  [][\A e \in Events :
       delivery[e].status = "SENT" /\ Attempting(e) = {} =>
         /\ delivery'[e].status = "SENT"
         /\ accepted'[e] = accepted[e]]_vars

\* Every entry is acknowledged whose recipient is active from some moment on,
\* whatever fails on the way.
EntriesSettle ==
  PollsFindNothing =>
    \A i \in 1..MaxEntries :
      <>[](i \in Entries(stream) /\ (Valid(i) => EventOf(i) \in active))
        => <>(i <= stream.last /\ i \notin stream.pending)

\* docs/go-gateway-api-v1.0.md:1328: before sending, a conditional update takes
\* the PENDING or RETRYING state, so that one worker sends.  The update of the
\* code takes a delivery that another worker is SENDING as well.
OneSender ==
  \A w, v \in Workers :
    \A i \in batch[w] : \A j \in batch[v] :
      /\ Current(w, i) /\ pc[w] = "send"
      /\ Current(v, j) /\ pc[v] = "send"
      /\ EventOf(i) = EventOf(j)
      => w = v
=============================================================================
