----------------------------- MODULE Evaluation ------------------------------
(***************************************************************************)
(* The evaluation of retrieval (application/evaluation.py): the cases are  *)
(* asked one after the other through QueryService.answer, and the results  *)
(* are summed up.  A case whose question fails has a result too.           *)
(*                                                                         *)
(* Of a case only what is counted is kept: whether a refusal is expected   *)
(* and how many keywords and sources are.  Latencies are left out; a rate  *)
(* is a pair of numbers, None in the code if the second one is 0.          *)
(***************************************************************************)
EXTENDS Integers, Sequences, FiniteSets, SequencesExt

CONSTANTS
  MaxCases,    \* bound: number of cases
  MaxKeywords, \* bound: expected keywords of a case
  MaxSources   \* bound: expected sources of a case

Case == [expectRefusal : BOOLEAN, keywords : 0..MaxKeywords, sources : 0..MaxSources]

VARIABLES
  cases,    \* what is evaluated
  results,  \* of the cases asked so far
  pc

vars == <<cases, results, pc>>

Idle == cases = <<>> /\ results = <<>> /\ pc = "idle"

Init ==
  /\ cases \in BoundedSeq(Case, MaxCases)
  /\ results = <<>>
  /\ pc = "ask"

\* Mutant of ErrorResult: the matches of a failed case are left empty.
ErrorResultWithoutMatches(c) ==
  [expectRefusal |-> c.expectRefusal, passed |-> FALSE, cites |-> FALSE,
   refusalCorrect |-> FALSE, keywords |-> <<>>, sources |-> <<>>, error |-> TRUE]

\* _error_result: nothing that was expected is matched.
ErrorResult(c) ==
  [expectRefusal |-> c.expectRefusal, passed |-> FALSE, cites |-> FALSE,
   refusalCorrect |-> FALSE,
   keywords |-> [k \in 1..c.keywords |-> FALSE],
   sources |-> [k \in 1..c.sources |-> FALSE], error |-> TRUE]

AllTrue(matches) == \A k \in DOMAIN matches : matches[k]

\* The result of an answer.  A refusal has no citations, any other answer has
\* (persist_answer), so a refusal matches no source.
AnswerResult(c, refused, keywords, sources) ==
  [expectRefusal |-> c.expectRefusal,
   passed |-> /\ refused = c.expectRefusal
              /\ ~c.expectRefusal => AllTrue(keywords) /\ AllTrue(sources),
   cites |-> ~refused, refusalCorrect |-> refused = c.expectRefusal,
   keywords |-> keywords, sources |-> sources, error |-> FALSE]

AsksNext == pc = "ask" /\ Len(results) < Len(cases)
Record(result) == results' = Append(results, result) /\ UNCHANGED <<cases, pc>>

EvaluateCase ==
  LET c == cases[Len(results) + 1] IN
  /\ AsksNext
  /\ \E refused \in BOOLEAN, keywords \in [1..c.keywords -> BOOLEAN],
        sources \in [1..c.sources -> BOOLEAN] :
       /\ refused => \A k \in DOMAIN sources : ~sources[k]
       /\ Record(AnswerResult(c, refused, keywords, sources))

\* AgentError or any other exception.
CaseFails == AsksNext /\ Record(ErrorResult(cases[Len(results) + 1]))

\* _summarize is computed.
Summarize ==
  /\ pc = "ask" /\ Len(results) = Len(cases)
  /\ pc' = "done"
  /\ UNCHANGED <<cases, results>>

Next == EvaluateCase \/ CaseFails \/ Summarize

Spec == Init /\ [][Next]_vars

-----------------------------------------------------------------------------
(* _summarize.                                                             *)

\* The matches of all results together, some of them true.
Checks(matches) == UNION {{i} \X DOMAIN matches[i] : i \in DOMAIN matches}
Recall(matches) ==
  <<Cardinality({c \in Checks(matches) : matches[c[1]][c[2]]}), Cardinality(Checks(matches))>>

Summary(rs) ==
  LET expected == {i \in DOMAIN rs : ~rs[i].expectRefusal} IN
  [pass_rate |-> <<Cardinality({i \in DOMAIN rs : rs[i].passed}), Len(rs)>>,
   refusal_accuracy |-> <<Cardinality({i \in DOMAIN rs : rs[i].refusalCorrect}), Len(rs)>>,
   citation_rate |-> <<Cardinality({i \in expected : rs[i].cites}), Cardinality(expected)>>,
   keyword_recall |-> Recall([i \in DOMAIN rs |-> rs[i].keywords]),
   source_hit_rate |-> Recall([i \in DOMAIN rs |-> rs[i].sources])]

-----------------------------------------------------------------------------
(* Properties.                                                             *)

\* A rate that the code would report as None, or the number it reports.
NoBetter(p, q) == (p[2] = 0 <=> q[2] = 0) /\ p[1] * q[2] <= q[1] * p[2]

\* A case that fails is not left out of the reckoning: whatever its answer would
\* have been, no rate would have been worse with it, so an evaluation in which
\* the model was down never looks better than one in which it answered.
ErrorsNeverImprove ==
  pc = "done" =>
    \A i \in DOMAIN results :
      LET failed == Summary([results EXCEPT ![i] = ErrorResult(cases[i])])
          actual == Summary(results)
      IN \A rate \in DOMAIN actual : NoBetter(failed[rate], actual[rate])
=============================================================================
