-------------------------- MODULE AgentQueryProofs ---------------------------
(***************************************************************************)
(* The safety properties of AgentQuery hold for every number of calls,     *)
(* requests and answers and every pair of time limits, and the agent       *)
(* implements AnswerOnce; two calls never work on one request at the same  *)
(* time if the deadline of a call is shorter than the takeover time.       *)
(***************************************************************************)
EXTENDS AgentQuery, TLAPS

\* What the calls and the runs know of each other, which the properties do not
\* say: the input of a run is fixed by its first claim, and a call that has
\* claimed a run asks that input.
CallInv ==
  /\ \A r \in Requests : run[r].status = "NONE" <=> run[r].input = None
  /\ \A c \in Calls :
       /\ pc[c] # "idle" => req[c] \in Requests /\ input[c] \in Inputs /\ reply[c] = None
       /\ reply[c] # None => req[c] \in Requests
       /\ pc[c] \in Executing =>
            run[req[c]].status # "NONE" /\ run[req[c]].input = input[c] /\ req[c] \in asked
       /\ pc[c] = "persist" => draft[c] \in Answers

IInv == TypeOK /\ RepliesAgree /\ RunMatchesAnswer /\ CallInv

\* The invariant holds at first.
LEMMA InitIInv == Init => IInv
BY TimeAssumption, NoneAssumption
   DEF Init, IInv, TypeOK, RepliesAgree, RunMatchesAnswer, CallInv, Statuses, Completed, Executing

\* Every step keeps the invariant.
LEMMA NextIInv == IInv /\ [Next]_vars => IInv'
<1> SUFFICES ASSUME IInv, [Next]_vars PROVE IInv'
  OBVIOUS
<1> USE TimeAssumption, NoneAssumption
    DEF IInv, TypeOK, CallInv, Statuses, Completed, Executing, database, locals
<1>1. ASSUME NEW c \in Calls, NEW r \in Requests, NEW x \in Inputs, Begin(c, r, x) PROVE IInv'
  <2>1. TypeOK'
    BY <1>1 DEF Begin
  <2>2. RepliesAgree'
    BY <1>1 DEF Begin, RepliesAgree, RunMatchesAnswer
  <2>3. RunMatchesAnswer'
    BY <1>1 DEF Begin, RunMatchesAnswer
  <2>4. CallInv'
    BY <1>1 DEF Begin
  <2>5. QED
    BY <2>1, <2>2, <2>3, <2>4
<1>2. ASSUME NEW c \in Calls, ClaimRefused(c) PROVE IInv'
  <2>1. TypeOK'
    BY <1>2 DEF ClaimRefused, Return
  <2>2. RepliesAgree'
    BY <1>2 DEF ClaimRefused, Return, RepliesAgree, RunMatchesAnswer
  <2>3. RunMatchesAnswer'
    BY <1>2 DEF ClaimRefused, Return, RunMatchesAnswer
  <2>4. CallInv'
    BY <1>2 DEF ClaimRefused, Return
  <2>5. QED
    BY <2>1, <2>2, <2>3, <2>4
<1>3. ASSUME NEW c \in Calls, ClaimAnswered(c) PROVE IInv'
  <2>1. TypeOK'
    BY <1>3 DEF ClaimAnswered, Return, StatusOf, Refused, Answers
  <2>2. RepliesAgree'
    BY <1>3 DEF ClaimAnswered, Return, RepliesAgree, RunMatchesAnswer, StatusOf, Refused, Answers
  <2>3. RunMatchesAnswer'
    BY <1>3 DEF ClaimAnswered, Return, RunMatchesAnswer, StatusOf, Refused, Answers
  <2>4. CallInv'
    BY <1>3 DEF ClaimAnswered, Return, StatusOf, Refused, Answers
  <2>5. QED
    BY <2>1, <2>2, <2>3, <2>4
<1>4. ASSUME NEW c \in Calls, ClaimRetry(c) PROVE IInv'
  <2>1. TypeOK'
    BY <1>4 DEF ClaimRetry, TakeRun, Goto
  <2>2. RepliesAgree'
    BY <1>4 DEF ClaimRetry, TakeRun, Goto, RepliesAgree, RunMatchesAnswer
  <2>3. RunMatchesAnswer'
    BY <1>4 DEF ClaimRetry, TakeRun, Goto, RunMatchesAnswer
  <2>4. CallInv'
    BY <1>4 DEF ClaimRetry, TakeRun, Goto
  <2>5. QED
    BY <2>1, <2>2, <2>3, <2>4
<1>5. ASSUME NEW c \in Calls, ClaimMissing(c) PROVE IInv'
  <2>1. TypeOK'
    BY <1>5 DEF ClaimMissing, Goto
  <2>2. RepliesAgree'
    BY <1>5 DEF ClaimMissing, Goto, RepliesAgree, RunMatchesAnswer
  <2>3. RunMatchesAnswer'
    BY <1>5 DEF ClaimMissing, Goto, RunMatchesAnswer
  <2>4. CallInv'
    BY <1>5 DEF ClaimMissing, Goto
  <2>5. QED
    BY <2>1, <2>2, <2>3, <2>4
<1>6. ASSUME NEW c \in Calls, ClaimInsert(c) PROVE IInv'
  <2>1. CASE run[req[c]].status # "NONE"
    <3>1. Return(c, None) /\ UNCHANGED <<run, asked>>
      BY <1>6, <2>1 DEF ClaimInsert
    <3>2. QED
      BY <1>6, <3>1 DEF ClaimInsert, Return, RepliesAgree, RunMatchesAnswer
  <2>2. CASE run[req[c]].status = "NONE"
    <3>1. PICK a \in 0..Takeover :
            run' = [run EXCEPT ![req[c]] = [status |-> "IN_PROGRESS", input |-> input[c], age |-> a]]
      BY <1>6, <2>2 DEF ClaimInsert, TakeRun
    <3>2. /\ asked' = asked \cup {req[c]}
          /\ pc' = [pc EXCEPT ![c] = "retrieve"]
          /\ UNCHANGED <<elapsed, reply>>
      BY <1>6, <2>2 DEF ClaimInsert, Goto
    <3>3. TypeOK'
      BY <1>6, <3>1, <3>2 DEF ClaimInsert
    <3>4. RepliesAgree' /\ RunMatchesAnswer'
      BY <1>6, <2>2, <3>1, <3>2 DEF ClaimInsert, RepliesAgree, RunMatchesAnswer
    <3>5. CallInv'
      BY <1>6, <2>2, <3>1, <3>2 DEF ClaimInsert
    <3>6. QED
      BY <3>3, <3>4, <3>5
  <2>3. QED
    BY <2>1, <2>2
<1>7. ASSUME NEW c \in Calls, Retrieve(c) PROVE IInv'
  <2>1. TypeOK'
    BY <1>7 DEF Retrieve, Goto
  <2>2. RepliesAgree'
    BY <1>7 DEF Retrieve, Goto, RepliesAgree, RunMatchesAnswer
  <2>3. RunMatchesAnswer'
    BY <1>7 DEF Retrieve, Goto, RunMatchesAnswer
  <2>4. CallInv'
    BY <1>7 DEF Retrieve, Goto
  <2>5. QED
    BY <2>1, <2>2, <2>3, <2>4
<1>8. ASSUME NEW c \in Calls, Generate(c) PROVE IInv'
  <2>1. PICK a \in Answers : draft' = [draft EXCEPT ![c] = a]
    BY <1>8 DEF Generate, Drafts, Answers
  <2>2. TypeOK'
    BY <1>8, <2>1 DEF Generate, Goto
  <2>3. RepliesAgree' /\ RunMatchesAnswer'
    BY <1>8 DEF Generate, Goto, RepliesAgree, RunMatchesAnswer
  <2>4. CallInv'
    BY <1>8, <2>1 DEF Generate, Goto
  <2>5. QED
    BY <2>2, <2>3, <2>4
<1>9. ASSUME NEW c \in Calls, GenerateFails(c) PROVE IInv'
  <2>1. TypeOK'
    BY <1>9 DEF GenerateFails, Goto
  <2>2. RepliesAgree'
    BY <1>9 DEF GenerateFails, Goto, RepliesAgree, RunMatchesAnswer
  <2>3. RunMatchesAnswer'
    BY <1>9 DEF GenerateFails, Goto, RunMatchesAnswer
  <2>4. CallInv'
    BY <1>9 DEF GenerateFails, Goto
  <2>5. QED
    BY <2>1, <2>2, <2>3, <2>4
<1>10. ASSUME NEW c \in Calls, PersistAnswer(c) PROVE IInv'
  <2>1. CASE answer[req[c]] # None
    <3>1. Return(c, None) /\ UNCHANGED <<run, answer>>
      BY <1>10, <2>1 DEF PersistAnswer
    <3>2. QED
      BY <1>10, <3>1 DEF PersistAnswer, Return, RepliesAgree, RunMatchesAnswer
  <2>2. CASE answer[req[c]] = None
    <3>1. PICK a \in {draft[c], None} : Return(c, a)
      BY <1>10, <2>2 DEF PersistAnswer
    <3>2. StoreAnswer(c) /\ req[c] \in Requests /\ draft[c] \in Answers /\ pc[c] = "persist"
      BY <1>10, <2>2 DEF PersistAnswer
    <3>3. StatusOf(draft[c]) \in Completed
      BY DEF StatusOf
    <3>4. TypeOK'
      BY <1>10, <3>1, <3>2, <3>3 DEF PersistAnswer, StoreAnswer, Return
    <3>5. RepliesAgree'
      BY <1>10, <2>2, <3>1, <3>2 DEF PersistAnswer, StoreAnswer, Return, RepliesAgree
    <3>6. RunMatchesAnswer'
      BY <1>10, <2>2, <3>1, <3>2, <3>3
         DEF PersistAnswer, StoreAnswer, Return, RunMatchesAnswer, StatusOf, Refused
    <3>7. CallInv'
      BY <1>10, <2>2, <3>1, <3>2, <3>3 DEF PersistAnswer, StoreAnswer, Return
    <3>8. QED
      BY <3>4, <3>5, <3>6, <3>7
  <2>3. QED
    BY <2>1, <2>2
<1>11. ASSUME NEW c \in Calls, MarkRetryableFailure(c) PROVE IInv'
  <2>1. TypeOK'
    BY <1>11 DEF MarkRetryableFailure, Return
  <2>2. RepliesAgree'
    BY <1>11 DEF MarkRetryableFailure, Return, RepliesAgree, RunMatchesAnswer
  <2>3. RunMatchesAnswer'
    BY <1>11 DEF MarkRetryableFailure, Return, RunMatchesAnswer
  <2>4. CallInv'
    BY <1>11 DEF MarkRetryableFailure, Return
  <2>5. QED
    BY <2>1, <2>2, <2>3, <2>4
<1>12. ASSUME NEW c \in Calls, Cancel(c) PROVE IInv'
  <2>1. TypeOK'
    BY <1>12 DEF Cancel, Return
  <2>2. RepliesAgree'
    BY <1>12 DEF Cancel, Return, RepliesAgree, RunMatchesAnswer
  <2>3. RunMatchesAnswer'
    BY <1>12 DEF Cancel, Return, RunMatchesAnswer
  <2>4. CallInv'
    BY <1>12 DEF Cancel, Return
  <2>5. QED
    BY <2>1, <2>2, <2>3, <2>4
<1>13. CASE Tick
  BY <1>13 DEF Tick, InProgress, RepliesAgree, RunMatchesAnswer
<1>14. ASSUME NEW r \in Requests, SetPermitted(r) PROVE IInv'
  BY <1>14 DEF SetPermitted, RepliesAgree, RunMatchesAnswer
<1>15. CASE UNCHANGED vars
  BY <1>15 DEF vars, RepliesAgree, RunMatchesAnswer
<1>16. QED
  BY <1>1, <1>2, <1>3, <1>4, <1>5, <1>6, <1>7, <1>8, <1>9, <1>10, <1>11, <1>12, <1>13, <1>14, <1>15 DEF Next, Step

\* The invariant holds in every behaviour.
THEOREM Inductive == Spec => []IInv
<1>1. Init => IInv
  BY InitIInv
<1>2. IInv /\ [Next]_vars => IInv'
  BY NextIInv
<1>3. QED
  BY <1>1, <1>2, PTL DEF Spec

\* Every variable keeps its type.
THEOREM TypeCorrect == Spec => []TypeOK
<1>1. IInv => TypeOK
  BY DEF IInv
<1>2. QED
  BY <1>1, Inductive, PTL

\* Every caller of a request gets the stored answer, for the stored question,
\* with any number of concurrent calls and whatever the time limits are.
THEOREM AnswersAgree == Spec => [](RepliesAgree /\ RunMatchesAnswer)
<1>1. IInv => RepliesAgree /\ RunMatchesAnswer
  BY DEF IInv
<1>2. QED
  BY <1>1, Inductive, PTL

\* A completed run and its answer never change again.
THEOREM CompletedStays == Spec => CompletedIsFinal
<1>1. IInv /\ [Next]_vars =>
        [\A r \in Requests : run[r].status \in Completed =>
            run'[r].status = run[r].status /\ answer'[r] = answer[r]]_vars
  <2> SUFFICES ASSUME IInv, Next, NEW r \in Requests, run[r].status \in Completed
               PROVE  run'[r].status = run[r].status /\ answer'[r] = answer[r]
    BY DEF vars
  <2> USE DEF IInv, TypeOK, CallInv, Completed, database
  <2>1. ASSUME NEW c \in Calls, ClaimRetry(c) \/ ClaimInsert(c)
        PROVE  run'[r].status = run[r].status /\ answer'[r] = answer[r]
    BY <2>1 DEF ClaimRetry, ClaimInsert, TakeRun
  <2>2. ASSUME NEW c \in Calls, PersistAnswer(c) \/ MarkRetryableFailure(c)
        PROVE  run'[r].status = run[r].status /\ answer'[r] = answer[r]
    BY <2>2 DEF PersistAnswer, StoreAnswer, MarkRetryableFailure, RunMatchesAnswer
  <2>3. CASE Tick
    BY <2>3 DEF Tick
  <2>4. ASSUME UNCHANGED <<run, answer>>
        PROVE  run'[r].status = run[r].status /\ answer'[r] = answer[r]
    BY <2>4
  <2>5. QED
    BY <2>1, <2>2, <2>3, <2>4
       DEF Next, Step, Begin, ClaimRefused, ClaimAnswered, ClaimMissing, Retrieve,
           Generate, GenerateFails, Cancel, SetPermitted
<1>2. QED
  BY <1>1, Inductive, PTL DEF Spec, CompletedIsFinal

-----------------------------------------------------------------------------
(* Single flight.                                                          *)

\* A run is never older than the call that works on it, so as long as the call
\* lives the run is too young to be taken over.
FlightInv ==
  /\ SingleFlight
  /\ \A c \in Calls :
       pc[c] \in Executing =>
         run[req[c]].status = "IN_PROGRESS" /\ run[req[c]].age <= elapsed[c]

\* Every step keeps FlightInv.
LEMMA NextFlightInv ==
  ASSUME Deadline < Takeover, IInv, FlightInv, [Next]_vars
  PROVE  FlightInv'
<1> USE TimeAssumption DEF IInv, TypeOK, CallInv, FlightInv, SingleFlight, Executing, database
\* A call that claims run r finds no other call at work on it.
<1>1. ASSUME NEW c \in Calls, NEW r, r = req[c], r \in Requests, ~InProgress(r),
             NEW d \in Calls, pc[d] \in Executing
      PROVE  req[d] # r
  BY <1>1 DEF InProgress
<1>2. ASSUME NEW c \in Calls, TakeRun(c, input[c]), req[c] \in Requests, ~InProgress(req[c]),
             Goto(c, "retrieve"), UNCHANGED req
      PROVE  FlightInv'
  <2>1. PICK a \in 0..elapsed[c] :
          run' = [run EXCEPT ![req[c]] =
                    [status |-> "IN_PROGRESS", input |-> input[c], age |-> a]]
    <3>1. PICK a \in 0..elapsed[c] :
            run' = [run EXCEPT ![req[c]] =
                      [status |-> "IN_PROGRESS", input |-> input[c],
                       age |-> IF a < Takeover THEN a ELSE Takeover]]
      BY <1>2 DEF TakeRun
    <3>2. a < Takeover
      BY <3>1
    <3>3. QED
      BY <3>1, <3>2
  <2>2. \A d \in Calls : pc[d] \in Executing => req[d] # req[c]
    BY <1>1, <1>2
  <2>3. QED
    BY <1>2, <2>1, <2>2 DEF Goto
<1>3. ASSUME NEW c \in Calls, NEW r \in Requests, NEW x \in Inputs, Begin(c, r, x)
      PROVE  FlightInv'
  BY <1>3 DEF Begin
<1>4. ASSUME NEW c \in Calls, Return(c, None), UNCHANGED <<run, req>> PROVE FlightInv'
  BY <1>4 DEF Return
<1>5. ASSUME NEW c \in Calls, ClaimRefused(c) \/ Cancel(c) PROVE FlightInv'
  BY <1>4, <1>5 DEF ClaimRefused, Cancel
<1>6. ASSUME NEW c \in Calls, ClaimAnswered(c) PROVE FlightInv'
  BY <1>6 DEF ClaimAnswered, Return
<1>7. ASSUME NEW c \in Calls, ClaimRetry(c) PROVE FlightInv'
  BY <1>2, <1>7 DEF ClaimRetry
<1>8. ASSUME NEW c \in Calls, ClaimMissing(c) PROVE FlightInv'
  BY <1>8 DEF ClaimMissing, Goto
<1>9. ASSUME NEW c \in Calls, ClaimInsert(c) PROVE FlightInv'
  BY <1>2, <1>4, <1>9 DEF ClaimInsert, InProgress
<1>10. ASSUME NEW c \in Calls, Retrieve(c) PROVE FlightInv'
  <2>1. PICK label \in Executing : pc' = [pc EXCEPT ![c] = label]
    BY <1>10 DEF Retrieve, Goto
  <2>2. UNCHANGED <<run, req, elapsed>> /\ pc[c] \in Executing
    BY <1>10 DEF Retrieve, Goto
  <2>3. QED
    BY <2>1, <2>2
<1>11. ASSUME NEW c \in Calls, Generate(c) \/ GenerateFails(c) PROVE FlightInv'
  BY <1>11 DEF Generate, GenerateFails, Goto
<1>12. ASSUME NEW c \in Calls, PersistAnswer(c) PROVE FlightInv'
  <2>1. /\ pc[c] = "persist" /\ UNCHANGED req
        /\ pc' = [pc EXCEPT ![c] = "idle"]
        /\ elapsed' = [elapsed EXCEPT ![c] = 0]
    BY <1>12 DEF PersistAnswer, Return
  <2>2. \A r \in Requests : r # req[c] => run'[r] = run[r]
    BY <1>12 DEF PersistAnswer, StoreAnswer
  <2>3. \A d \in Calls : d # c /\ pc[d] \in Executing => req[d] # req[c]
    BY <2>1
  <2>4. QED
    BY <2>1, <2>2, <2>3
<1>13. ASSUME NEW c \in Calls, MarkRetryableFailure(c) PROVE FlightInv'
  BY <1>13 DEF MarkRetryableFailure, Return
<1>14. CASE Tick
  BY <1>14 DEF Tick, InProgress
<1>15. CASE (\E r \in Requests : SetPermitted(r)) \/ UNCHANGED vars
  BY <1>15 DEF SetPermitted, vars
<1>16. QED
  BY <1>3, <1>5, <1>6, <1>7, <1>8, <1>9, <1>10, <1>11, <1>12, <1>13, <1>14, <1>15
     DEF Next, Step

\* With a deadline below the takeover time, as configured (15 s and 30 s), at
\* most one call works on a request at any time: no model is paid twice at once.
THEOREM OneCallPerRequest ==
  ASSUME Deadline < Takeover
  PROVE  Spec => []SingleFlight
<1>1. Init => FlightInv
  BY DEF Init, FlightInv, SingleFlight, Executing
<1>2. IInv /\ FlightInv /\ [Next]_vars => FlightInv'
  BY NextFlightInv
<1>3. FlightInv => SingleFlight
  BY DEF FlightInv
<1>4. QED
  BY <1>1, <1>2, <1>3, Inductive, PTL DEF Spec

-----------------------------------------------------------------------------
(* The refinement of AnswerOnce.                                           *)

bound == [r \in Requests |-> run[r].input]
served == [c \in Calls |->
             IF reply[c] = None THEN None
             ELSE [request |-> req[c], input |-> input[c], answer |-> reply[c]]]

\* The first state is one of AnswerOnce.
LEMMA InitAnswerOnce == Init => A!Init
BY DEF Init, A!Init

\* Ending a call without an answer is invisible.
LEMMA QuietStep ==
  ASSUME IInv, NEW c \in Calls, pc[c] # "idle", UNCHANGED <<req, input, answer>>,
         bound' = bound, UNCHANGED reply \/ Return(c, None)
  PROVE  UNCHANGED A!vars
<1>1. UNCHANGED reply
  BY DEF IInv, TypeOK, CallInv, Return
<1>2. QED
  BY <1>1 DEF A!vars, bound

\* Serving any call is a step of AnswerOnce.
LEMMA ServeIsNext ==
  ASSUME NEW c \in Calls, NEW r \in Requests, NEW a \in Answers, A!Serve(c, r, a)
  PROVE  A!Next
BY DEF A!Next

\* Returning the stored answer of the request serves it.
LEMMA ServeStep ==
  ASSUME IInv, NEW c \in Calls, pc[c] # "idle", UNCHANGED <<req, input>>, bound' = bound,
         bound[req[c]] = input[c], NEW a \in Answers, answer[req[c]] \in {None, a},
         answer' = [answer EXCEPT ![req[c]] = a], Return(c, a) \/ Return(c, None)
  PROVE  A!Next
<1> USE DEF IInv, TypeOK
<1>1. req[c] \in Requests /\ input[c] # None /\ a # None
  BY NoneAssumption DEF CallInv
<1>2. CASE Return(c, a)
  <2>1. served' = [served EXCEPT ![c] = [request |-> req[c], input |-> bound[req[c]], answer |-> a]]
    BY <1>1, <1>2 DEF Return, served
  <2>2. A!Serve(c, req[c], a)
    BY <1>1, <2>1 DEF A!Serve, served, bound
  <2>3. QED
    BY <1>1, <2>2, ServeIsNext
<1>3. CASE Return(c, None)
  <2>1. UNCHANGED reply
    BY <1>3 DEF CallInv, Return
  <2>2. served' = served
    BY <2>1 DEF served
  <2>3. A!Serve(c, req[c], a)
    BY <1>1, <2>2 DEF A!Serve, served, bound
  <2>4. QED
    BY <1>1, <2>3, ServeIsNext
<1>4. QED
  BY <1>2, <1>3

\* Every step is a step of AnswerOnce or changes nothing there.
LEMMA AnswerOnceStep == IInv /\ [Next]_vars => [A!Next]_A!vars
<1> SUFFICES ASSUME IInv, [Next]_vars PROVE [A!Next]_A!vars
  OBVIOUS
<1> USE DEF IInv, TypeOK, database, locals
<1>1. ASSUME NEW c \in Calls, NEW r \in Requests, NEW x \in Inputs, Begin(c, r, x)
      PROVE  [A!Next]_A!vars
  <2>1. served' = [served EXCEPT ![c] = None] /\ bound' = bound /\ answer' = answer
    BY <1>1 DEF Begin, served, bound
  <2>2. A!Forget(c)
    BY <2>1 DEF A!Forget, served, bound
  <2>3. QED
    BY <2>2 DEF A!Next, A!Forget
<1>2. ASSUME NEW c \in Calls, ClaimRefused(c) \/ Cancel(c) \/ ClaimMissing(c) \/ GenerateFails(c)
      PROVE  [A!Next]_A!vars
  BY <1>2, QuietStep
     DEF ClaimRefused, Cancel, ClaimMissing, GenerateFails, Goto, bound
<1>3. ASSUME NEW c \in Calls, Retrieve(c) \/ Generate(c) PROVE [A!Next]_A!vars
  BY <1>3, QuietStep DEF Retrieve, Generate, Goto, bound
<1>4. ASSUME NEW c \in Calls, ClaimAnswered(c) PROVE [A!Next]_A!vars
  <2>1. /\ pc[c] # "idle" /\ UNCHANGED <<req, input, answer>>
        /\ req[c] \in Requests /\ Return(c, answer[req[c]])
        /\ bound' = bound /\ bound[req[c]] = input[c]
    BY <1>4 DEF ClaimAnswered, CallInv, bound
  <2>2. answer[req[c]] \in Answers
    BY <1>4, <2>1 DEF ClaimAnswered, RunMatchesAnswer
  <2>3. answer' = [answer EXCEPT ![req[c]] = answer[req[c]]]
    BY <2>1
  <2>4. QED
    BY <2>1, <2>2, <2>3, ServeStep
<1>5. ASSUME NEW c \in Calls, ClaimRetry(c) PROVE [A!Next]_A!vars
  <2>1. bound' = bound
    BY <1>5 DEF ClaimRetry, TakeRun, CallInv, bound
  <2>2. QED
    BY <1>5, <2>1, QuietStep DEF ClaimRetry, Goto
<1>6. ASSUME NEW c \in Calls, ClaimInsert(c), run[req[c]].status = "NONE"
      PROVE  [A!Next]_A!vars
  <2>1. req[c] \in Requests /\ input[c] \in Inputs /\ bound[req[c]] = None
    BY <1>6 DEF ClaimInsert, CallInv, bound
  <2>2. UNCHANGED <<answer, reply, req, input>>
    BY <1>6 DEF ClaimInsert, Goto
  <2>3. bound' = [bound EXCEPT ![req[c]] = input[c]]
    <3>1. \E n \in Nat : run' = [run EXCEPT ![req[c]] =
                                [status |-> "IN_PROGRESS", input |-> input[c], age |-> n]]
      BY <1>6, TimeAssumption DEF ClaimInsert, TakeRun
    <3>2. PICK n \in Nat : run' = [run EXCEPT ![req[c]] =
                             [status |-> "IN_PROGRESS", input |-> input[c], age |-> n]]
      BY <3>1
    <3>3. \A r \in Requests : run'[r].input = IF r = req[c] THEN input[c] ELSE run[r].input
      BY <2>1, <3>2
    <3>4. QED
      BY <2>1, <3>3 DEF bound
  <2>4. A!Bind(req[c], input[c])
    BY <2>1, <2>2, <2>3 DEF A!Bind, served, bound
  <2>5. QED
    BY <2>1, <2>4 DEF A!Next, A!Bind
<1>7. ASSUME NEW c \in Calls, ClaimInsert(c), run[req[c]].status # "NONE"
      PROVE  [A!Next]_A!vars
  BY <1>7, QuietStep DEF ClaimInsert, bound
<1>8. ASSUME NEW c \in Calls, PersistAnswer(c), answer[req[c]] = None
      PROVE  [A!Next]_A!vars
  <2>1. /\ pc[c] = "persist" /\ UNCHANGED <<req, input>>
        /\ req[c] \in Requests /\ draft[c] \in Answers
        /\ run[req[c]].input = input[c]
        /\ Return(c, draft[c]) \/ Return(c, None)
    BY <1>8 DEF PersistAnswer, CallInv, Executing
  <2>2. answer' = [answer EXCEPT ![req[c]] = draft[c]] /\ bound' = bound
    BY <1>8, <2>1 DEF PersistAnswer, StoreAnswer, bound
  <2>3. bound[req[c]] = input[c]
    BY <2>1 DEF bound
  <2>4. QED
    BY <1>8, <2>1, <2>2, <2>3, ServeStep
<1>9. ASSUME NEW c \in Calls, PersistAnswer(c), answer[req[c]] # None
      PROVE  [A!Next]_A!vars
  BY <1>9, QuietStep DEF PersistAnswer, bound
<1>10. ASSUME NEW c \in Calls, MarkRetryableFailure(c) PROVE [A!Next]_A!vars
  <2>1. bound' = bound
    BY <1>10 DEF MarkRetryableFailure, bound
  <2>2. QED
    BY <1>10, <2>1, QuietStep DEF MarkRetryableFailure
<1>11. CASE Tick
  <2>1. bound' = bound /\ served' = served /\ answer' = answer
    BY <1>11 DEF Tick, bound, served
  <2>2. QED
    BY <2>1 DEF A!vars, bound, served
<1>12. CASE (\E r \in Requests : SetPermitted(r)) \/ UNCHANGED vars
  <2>1. UNCHANGED <<run, answer, req, input, reply>>
    BY <1>12 DEF SetPermitted, vars
  <2>2. QED
    BY <2>1 DEF A!vars
<1>13. QED
  BY <1>1, <1>2, <1>3, <1>4, <1>5, <1>6, <1>7, <1>8, <1>9, <1>10, <1>11, <1>12 DEF Next, Step

\* The agent implements AnswerOnce: a request id is answered at most once, for
\* one input, and every caller that gets an answer gets that one.
THEOREM ImplementsAnswerOnce == Spec => AnswerOnceSpec
<1>1. Init => A!Init
  BY InitAnswerOnce
<1>2. IInv /\ [Next]_vars => [A!Next]_A!vars
  BY AnswerOnceStep
<1>3. QED
  BY <1>1, <1>2, Inductive, PTL DEF Spec, AnswerOnceSpec, A!Spec
=============================================================================
