---------------------------- MODULE MCAlgorithms -----------------------------
(***************************************************************************)
(* Four sequential parts of the system that share no state, checked in one *)
(* run: every initial state is the input of one of them, the others idle.  *)
(***************************************************************************)
EXTENDS SplitText

CONSTANTS
  Chunks, Content, TopK, TopFinal, QuoteLimit, MaxWords,
  WordBytes, MarkerBytes, EllipsisBytes, HeaderBytes, SourceBytes, Limit,
  MaxCases, MaxKeywords, MaxSources,
  Callers, MaxTokens

ASSUME TokensAssumption == MaxTokens \in Nat
ASSUME PassagesAssumption ==
  /\ Chunks \subseteq Nat /\ Content \in [Chunks -> Seq(Nat)] /\ SourceBytes \in [Chunks -> Nat]
  /\ TopK \in Nat /\ TopFinal \in Nat /\ QuoteLimit \in Nat /\ MaxWords \in Nat
ASSUME BytesAssumption ==
  /\ WordBytes \in Nat /\ MarkerBytes \in Nat
  /\ EllipsisBytes \in Nat /\ HeaderBytes \in Nat /\ Limit \in Nat
ASSUME CasesAssumption == MaxCases \in Nat /\ MaxKeywords \in Nat /\ MaxSources \in Nat

VARIABLES
  keyword, vector, candidates, generated, quoted, answer, citations, message, answerPc,
  cases, results, evaluationPc,
  valid, cache, timely, token, asked, accepted, callPc

A == INSTANCE AnswerText WITH pc <- answerPc
E == INSTANCE Evaluation WITH pc <- evaluationPc
W == INSTANCE WecomClient WITH pc <- callPc

\* The passages 2 and 3 contain markers, 1 does not; 0 is a word.
MCContent == <<<<0>>, <<0, 2>>, <<3, 0>>>>
MCSourceBytes == <<3, 10, 6>>

answerVars == <<keyword, vector, candidates, generated, quoted, answer, citations, message, answerPc>>
evaluationVars == <<cases, results, evaluationPc>>
clientVars == <<valid, cache, timely, token, asked, accepted, callPc>>

MCInit ==
  \/ Init /\ A!Idle /\ E!Idle /\ W!Idle
  \/ Idle /\ A!Init /\ E!Idle /\ W!Idle
  \/ Idle /\ A!Idle /\ E!Init /\ W!Idle
  \/ Idle /\ A!Idle /\ E!Idle /\ W!Init

MCNext ==
  \/ Next /\ UNCHANGED <<answerVars, evaluationVars, clientVars>>
  \/ A!Next /\ UNCHANGED <<vars, evaluationVars, clientVars>>
  \/ E!Next /\ UNCHANGED <<vars, answerVars, clientVars>>
  \/ W!Next /\ UNCHANGED <<vars, answerVars, evaluationVars>>

\* The loop of split_text goes on.
MCSpec == MCInit /\ [][MCNext]_<<vars, answerVars, evaluationVars, clientVars>> /\ WF_vars(Next)

\* The model is shown the best of what the two searches found (_rrf).
FusionRespectsRanks == A!FusionRespectsRanks

\* Markers, citations and sources of a sent answer belong together unless it is a
\* refusal, and the message fits.
SentAnswerIsSound == A!SentAnswerIsSound

\* The markers of every message are its citations, those of a refusal too.
MarkersMatchCitations == A!MarkersMatchCitations

\* The extractive answer cites the passage it quotes, unless that has markers.
QuoteCitesItsPassage == A!QuoteCitesItsPassage

\* A failed case of an evaluation improves no rate.
ErrorsNeverImprove == E!ErrorsNeverImprove

\* One call of SendText sends one message or none, and tells which.
SendTextIsOneStep == W!SendTextIsOneStep
=============================================================================
