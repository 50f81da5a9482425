----------------------------- MODULE AgentQuery ------------------------------
(***************************************************************************)
(* QueryService.answer of the agent (application/query.py) under the gRPC  *)
(* handler AnswerQuestion (api/grpc_service.py): concurrent calls, several *)
(* of them for one request id, over the tables query_runs and messages     *)
(* (adapters/repository.py).                                               *)
(*                                                                         *)
(* Each transaction and each await on a model is one step.  Between any    *)
(* two of them the call may be cancelled (the caller's deadline, a lost    *)
(* connection, a crash of the agent): CancelledError is not caught, so the *)
(* run stays as the last transaction left it.                              *)
(*                                                                         *)
(* Time is counted in ticks.  A call lasts Deadline ticks at most          *)
(* (agentclient/client.go: 15 s); a run that is IN_PROGRESS may be claimed *)
(* again Takeover ticks after updated_at (repository.py: 30 s).            *)
(***************************************************************************)
EXTENDS Naturals

CONSTANTS
  Calls,          \* call slots of the gRPC server, reused
  Requests,       \* request ids
  Inputs,         \* what _fingerprint tells apart
  ModelAnswers,   \* grounded answers the language model may give
  ModelRefusals,  \* refusals it may give
  NoEvidence,     \* the refusal given when retrieval finds nothing
  Extractive,     \* the answer quoted from the best candidate
  AllowFallback,  \* settings.allow_extractive_fallback
  LLMEnabled,     \* settings name a language model
  Deadline, Takeover,
  None

Answers == ModelAnswers \cup ModelRefusals \cup {NoEvidence, Extractive}
Refused(a) == a \in ModelRefusals \cup {NoEvidence}

ASSUME TimeAssumption == Deadline \in Nat /\ Takeover \in Nat \ {0}
ASSUME NoneAssumption == None \notin Answers \cup Inputs \cup Requests
ASSUME SwitchAssumption == AllowFallback \in BOOLEAN /\ LLMEnabled \in BOOLEAN

VARIABLES
  permitted,  \* the requester is ACTIVE and the conversation available
  run,        \* query_runs: status, fingerprint, ticks since updated_at
  asked,      \* the requests with a USER message
  answer,     \* the ASSISTANT message of a request, with its citations
  pc,         \* where each call is
  req, input, \* what each call asks
  elapsed,    \* ticks since the call began
  evidence,   \* whether retrieval found candidates
  draft,      \* the generated answer, before it is stored
  reply       \* the answer returned to the caller, None for an error

database == <<run, asked, answer>>
locals == <<evidence, draft>>
vars == <<permitted, database, pc, req, input, elapsed, locals, reply>>

Completed == {"COMPLETED", "COMPLETED_WITH_REFUSAL"}
Statuses == {"NONE", "IN_PROGRESS", "RETRYABLE_FAILED"} \cup Completed
Executing == {"retrieve", "generate", "persist", "fail"}

TypeOK ==
  /\ permitted \in [Requests -> BOOLEAN]
  /\ run \in [Requests -> [status : Statuses, input : Inputs \cup {None}, age : 0..Takeover]]
  /\ asked \in SUBSET Requests
  /\ answer \in [Requests -> Answers \cup {None}]
  /\ pc \in [Calls -> {"idle", "claim", "insert"} \cup Executing]
  /\ req \in [Calls -> Requests \cup {None}]
  /\ input \in [Calls -> Inputs \cup {None}]
  /\ elapsed \in [Calls -> 0..Deadline]
  /\ evidence \in [Calls -> BOOLEAN]
  /\ draft \in [Calls -> Answers \cup {None}]
  /\ reply \in [Calls -> Answers \cup {None}]

\* The gateway has stored the questions of some requests already.
Init ==
  /\ permitted \in [Requests -> BOOLEAN]
  /\ run = [r \in Requests |-> [status |-> "NONE", input |-> None, age |-> 0]]
  /\ asked \in SUBSET Requests
  /\ answer = [r \in Requests |-> None]
  /\ pc = [c \in Calls |-> "idle"]
  /\ req = [c \in Calls |-> None]
  /\ input = [c \in Calls |-> None]
  /\ elapsed = [c \in Calls |-> 0]
  /\ evidence = [c \in Calls |-> FALSE]
  /\ draft = [c \in Calls |-> None]
  /\ reply = [c \in Calls |-> None]

Goto(c, label) ==
  /\ pc' = [pc EXCEPT ![c] = label]
  /\ UNCHANGED <<elapsed, reply>>

\* The call ends with answer a, or with an error when a is None.
Return(c, a) ==
  /\ pc' = [pc EXCEPT ![c] = "idle"]
  /\ elapsed' = [elapsed EXCEPT ![c] = 0]
  /\ reply' = [reply EXCEPT ![c] = a]

-----------------------------------------------------------------------------
(* claim_query: one transaction that locks the run of the request.         *)

\* AnswerQuestion is called with a valid request.
Begin(c, r, x) ==
  /\ pc[c] = "idle"
  /\ pc' = [pc EXCEPT ![c] = "claim"]
  /\ req' = [req EXCEPT ![c] = r]
  /\ input' = [input EXCEPT ![c] = x]
  /\ reply' = [reply EXCEPT ![c] = None]
  /\ evidence' = [evidence EXCEPT ![c] = FALSE]
  /\ draft' = [draft EXCEPT ![c] = None]
  /\ UNCHANGED <<permitted, database, elapsed>>

\* Mutant of InProgress: an abandoned run is never taken over.
InProgressForEver(r) == run[r].status = "IN_PROGRESS"

\* Mutant of InProgress: a run is taken over one tick too early.
InProgressTooShort(r) == run[r].status = "IN_PROGRESS" /\ run[r].age + 1 < Takeover

\* The run is another call's: it is IN_PROGRESS and was updated recently.
InProgress(r) == run[r].status = "IN_PROGRESS" /\ run[r].age < Takeover

\* The call owns the run from here.  updated_at is the start of the
\* transaction, which lies between the start of the call and this step.
TakeRun(c, x) ==
  \E a \in 0..elapsed[c] :
    run' = [run EXCEPT ![req[c]] =
              [status |-> "IN_PROGRESS", input |-> x, age |-> IF a < Takeover THEN a ELSE Takeover]]

\* Refused: the user is disabled, the conversation is not available, or the
\* request id was used with another fingerprint, or another call is at it.
ClaimRefused(c) ==
  LET r == req[c] IN
  /\ pc[c] = "claim"
  /\ \/ ~permitted[r]
     \/ /\ run[r].status # "NONE"
        /\ run[r].input # input[c] \/ InProgress(r)
  /\ Return(c, None)
  /\ UNCHANGED <<permitted, database, req, input, locals>>

\* Mutant of ClaimAnswered: the fingerprint is not compared.
AnsweredWhateverAsked(c) ==
  /\ pc[c] = "claim"
  /\ permitted[req[c]]
  /\ run[req[c]].status \in Completed
  /\ Return(c, answer[req[c]])
  /\ UNCHANGED <<permitted, database, req, input, locals>>

\* The request is answered already: the stored answer is returned.
ClaimAnswered(c) ==
  LET r == req[c] IN
  /\ pc[c] = "claim"
  /\ permitted[r]
  /\ run[r].status \in Completed
  /\ run[r].input = input[c]
  /\ Return(c, answer[r])
  /\ UNCHANGED <<permitted, database, req, input, locals>>

\* Mutant of ClaimRetry: a completed run is started again.
RetryAnyRun(c) ==
  /\ pc[c] = "claim"
  /\ permitted[req[c]]
  /\ run[req[c]].status # "NONE"
  /\ run[req[c]].input = input[c]
  /\ ~InProgress(req[c])
  /\ TakeRun(c, input[c])
  /\ Goto(c, "retrieve")
  /\ UNCHANGED <<permitted, asked, answer, req, input, locals>>

\* The run failed or its call has gone silent: this call takes it over.
ClaimRetry(c) ==
  LET r == req[c] IN
  /\ pc[c] = "claim"
  /\ permitted[r]
  /\ run[r].status \in {"IN_PROGRESS", "RETRYABLE_FAILED"}
  /\ run[r].input = input[c]
  /\ ~InProgress(r)
  /\ TakeRun(c, input[c])
  /\ asked' = asked \cup {r}
  /\ Goto(c, "retrieve")
  /\ UNCHANGED <<permitted, answer, req, input, locals>>

\* The SELECT finds no run, so there is nothing to lock ...
ClaimMissing(c) ==
  /\ pc[c] = "claim"
  /\ permitted[req[c]]
  /\ run[req[c]].status = "NONE"
  /\ Goto(c, "insert")
  /\ UNCHANGED <<permitted, database, req, input, locals>>

\* ... and another call may insert the run first: the unique constraint on
\* (tenant_id, request_id) makes this one fail.
ClaimInsert(c) ==
  LET r == req[c] IN
  /\ pc[c] = "insert"
  /\ \/ /\ run[r].status = "NONE"
        /\ TakeRun(c, input[c])
        /\ asked' = asked \cup {r}
        /\ Goto(c, "retrieve")
     \/ /\ run[r].status # "NONE"
        /\ Return(c, None)
        /\ UNCHANGED <<run, asked>>
  /\ UNCHANGED <<permitted, answer, req, input, locals>>

-----------------------------------------------------------------------------
(* The pipeline, outside any transaction.                                  *)

\* Keyword and vector search, merged by _rrf.  An embedding service that is
\* down leaves the keyword candidates, if the fallback is allowed.
Retrieve(c) ==
  /\ pc[c] = "retrieve"
  /\ \/ /\ \E found \in BOOLEAN : evidence' = [evidence EXCEPT ![c] = found]
        /\ Goto(c, "generate")
     \/ /\ ~AllowFallback
        /\ Goto(c, "fail")
        /\ UNCHANGED evidence
  /\ UNCHANGED <<permitted, database, req, input, draft>>

\* The answers _generate and _validate_and_renumber may return.
Drafts(c) ==
  IF evidence[c]
    THEN (IF LLMEnabled THEN ModelAnswers \cup ModelRefusals ELSE {})
           \cup (IF AllowFallback THEN {Extractive} ELSE {})
    ELSE {NoEvidence}

Generate(c) ==
  /\ pc[c] = "generate"
  /\ \E a \in Drafts(c) : draft' = [draft EXCEPT ![c] = a]
  /\ Goto(c, "persist")
  /\ UNCHANGED <<permitted, database, req, input, evidence>>

\* The model is down and no fallback is allowed, or its citations are invalid.
GenerateFails(c) ==
  /\ pc[c] = "generate"
  /\ evidence[c]
  /\ Goto(c, "fail")
  /\ UNCHANGED <<permitted, database, req, input, locals>>

\* Mutant of StatusOf: a status that CHECK (status IN ...) does not allow.
StatusOutsideCheck(a) == IF Refused(a) THEN "REFUSED" ELSE "COMPLETED"

StatusOf(a) == IF Refused(a) THEN "COMPLETED_WITH_REFUSAL" ELSE "COMPLETED"

\* What persist_answer writes: the message and the status of the run.
StoreAnswer(c) ==
  /\ answer' = [answer EXCEPT ![req[c]] = draft[c]]
  /\ run' = [run EXCEPT ![req[c]].status = StatusOf(draft[c]), ![req[c]].age = 0]

\* persist_answer: the ASSISTANT message, its citations and the status of the
\* run in one transaction.  A second message for the request violates
\* UNIQUE (tenant_id, request_id, role), which aborts everything.  The reply
\* may be lost after the commit.
PersistAnswer(c) ==
  /\ pc[c] = "persist"
  /\ \/ /\ answer[req[c]] = None
        /\ StoreAnswer(c)
        /\ \E a \in {draft[c], None} : Return(c, a)
     \/ /\ answer[req[c]] # None
        /\ Return(c, None)
        /\ UNCHANGED <<run, answer>>
  /\ UNCHANGED <<permitted, asked, req, input, locals>>

\* mark_retryable_failure, in the handler of DependencyUnavailable.
MarkRetryableFailure(c) ==
  LET r == req[c] IN
  /\ pc[c] = "fail"
  /\ run' = IF run[r].status = "IN_PROGRESS"
              THEN [run EXCEPT ![r].status = "RETRYABLE_FAILED", ![r].age = 0]
              ELSE run
  /\ Return(c, None)
  /\ UNCHANGED <<permitted, asked, answer, req, input, locals>>

\* The call is cancelled, or fails with an exception nothing handles (a lost
\* database connection, a violated constraint): no status is written.
Cancel(c) ==
  /\ pc[c] # "idle"
  /\ Return(c, None)
  /\ UNCHANGED <<permitted, database, req, input, locals>>

-----------------------------------------------------------------------------
(* Time and the environment.                                               *)

\* A tick of the clock.  No call outlives its deadline.  Only the age of runs
\* that are IN_PROGRESS is read, up to Takeover.
Tick ==
  /\ \A c \in Calls : pc[c] # "idle" => elapsed[c] < Deadline
  /\ elapsed' = [c \in Calls |-> IF pc[c] = "idle" THEN 0 ELSE elapsed[c] + 1]
  /\ run' = [r \in Requests |->
               IF run[r].status = "IN_PROGRESS" /\ run[r].age < Takeover
                 THEN [run[r] EXCEPT !.age = @ + 1]
                 ELSE run[r]]
  /\ UNCHANGED <<permitted, asked, answer, pc, req, input, locals, reply>>

\* The user is disabled or enabled, the conversation closed or reopened (SQL).
SetPermitted(r) ==
  /\ permitted' = [permitted EXCEPT ![r] = ~@]
  /\ UNCHANGED <<database, pc, req, input, elapsed, locals, reply>>

Step(c) ==
  \/ ClaimRefused(c) \/ ClaimAnswered(c) \/ ClaimRetry(c) \/ ClaimMissing(c)
  \/ ClaimInsert(c) \/ Retrieve(c) \/ Generate(c) \/ GenerateFails(c)
  \/ PersistAnswer(c) \/ MarkRetryableFailure(c)

Next ==
  \/ \E c \in Calls :
       \/ \E r \in Requests, x \in Inputs : Begin(c, r, x)
       \/ Step(c)
       \/ Cancel(c)
  \/ Tick
  \/ \E r \in Requests : SetPermitted(r)

Spec == Init /\ [][Next]_vars

\* The dispatcher redelivers a request until it is answered, and not every
\* attempt is cut short or fails at the same step: what some call could do again
\* and again, some call does.
Fairness ==
  /\ WF_vars(Tick)
  /\ \A c \in Calls : WF_vars(Step(c))
  /\ \A r \in Requests, x \in Inputs : SF_vars(\E c \in Calls : Begin(c, r, x))
  /\ SF_vars(\E c \in Calls : ClaimRetry(c) \/ ClaimMissing(c))
  /\ SF_vars(\E c \in Calls : ClaimInsert(c))
  /\ SF_vars(\E c \in Calls : Retrieve(c) /\ pc'[c] = "generate")
  /\ SF_vars(\E c \in Calls : Generate(c))
  /\ SF_vars(\E c \in Calls : PersistAnswer(c))
FairSpec == Spec /\ Fairness

-----------------------------------------------------------------------------
(* Properties.                                                             *)

\* Whoever gets an answer for a request gets the one that is stored, and asked
\* what the request was first used for: retries and takeovers never show two
\* answers, and a reused request id never shows another question's answer.
RepliesAgree ==
  \A c \in Calls :
    reply[c] # None => /\ answer[req[c]] = reply[c]
                       /\ run[req[c]].input = input[c]

\* The run is completed exactly when its answer is stored, as a refusal exactly
\* when the answer is one; and an answer has its question.
RunMatchesAnswer ==
  \A r \in Requests :
    /\ run[r].status \in Completed <=> answer[r] # None
    /\ answer[r] # None => run[r].status = StatusOf(answer[r]) /\ r \in asked

\* Two calls never work on one request at the same time.  It holds because a
\* call dies at its deadline before its run may be taken over, that is if
\* Deadline < Takeover; no lock protects it.
SingleFlight ==
  \A c, d \in Calls :
    pc[c] \in Executing /\ pc[d] \in Executing /\ req[c] = req[d] => c = d

\* A failed attempt never disturbs a run that is completed, nor the answer.
CompletedIsFinal ==
  [][\A r \in Requests :
       run[r].status \in Completed =>
         run'[r].status = run[r].status /\ answer'[r] = answer[r]]_vars

A == INSTANCE AnswerOnce WITH
       bound <- [r \in Requests |-> run[r].input],
       reply <- [c \in Calls |->
                   IF reply[c] = None THEN None
                   ELSE [request |-> req[c], input |-> input[c], answer |-> reply[c]]]

\* The promise of the agent, module AnswerOnce: the calls implement it.
AnswerOnceSpec == A!Spec

\* A request that may be asked from some moment on is answered, whatever calls
\* were cancelled before: no run stays IN_PROGRESS for ever.
EventuallyAnswered ==
  \A r \in Requests : <>[]permitted[r] => <>(answer[r] # None)

\* docs/python-agent-api-v1.0.md:268: a cancelled call marks its run as
\* retryable.  The code leaves it IN_PROGRESS with no call at work.
CancelledRunIsRetryable ==
  \A r \in Requests :
    run[r].status = "IN_PROGRESS" => \E c \in Calls : pc[c] \in Executing /\ req[c] = r
=============================================================================
