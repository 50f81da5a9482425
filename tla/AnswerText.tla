----------------------------- MODULE AnswerText ------------------------------
(***************************************************************************)
(* What an answer says, from the ranked passages to the message the asker  *)
(* reads: the fusion of the two searches, the answer of the model or the   *)
(* quoted passage, and the renumbering of its citations                    *)
(* (application/query.py, adapters/models.py), the stored citations        *)
(* (adapters/repository.py) and the text sent to WeCom                     *)
(* (internal/outbound/format.go).                                          *)
(*                                                                         *)
(* A text is a sequence of words, all alike, and citation markers "[n]";   *)
(* the number n stands for the marker.                                     *)
(***************************************************************************)
EXTENDS Integers, Sequences, SequencesExt, FiniteSetsExt, Functions

CONSTANTS
  Chunks,      \* numbers of the chunks, in the order of their ids
  Content,     \* the text of each chunk
  TopK,        \* top_k_keyword and top_k_vector
  TopFinal,    \* top_k_final
  QuoteLimit,  \* how much of a passage is quoted (800 characters)
  MaxWords,    \* bound: length of what the model answers
  WordBytes, MarkerBytes, EllipsisBytes, HeaderBytes,
  SourceBytes, \* size of the line that names the source of each chunk
  Limit        \* maxWeComTextBytes

Word == 0
Markers == 1..(TopFinal + 1)   \* the last one is always out of range
Tokens == {Word} \cup Markers

VARIABLES
  keyword, vector,  \* what the searches return, best first
  candidates,       \* what is shown to the model
  generated,        \* GeneratedAnswer, before its citations are renumbered
  quoted,           \* whether it is the quotation of the best candidate
  answer,           \* messages: the text, and whether it is a refusal
  citations,        \* the chunk of each citation of the answer
  message,          \* what is sent
  pc

vars == <<keyword, vector, candidates, generated, quoted, answer, citations, message, pc>>

Distinct(S, n) == {s \in BoundedSeq(S, n) : IsInjective(s)}
Nothing == [answer |-> <<>>, indexes |-> <<>>, refused |-> FALSE]
NoMessage == [body |-> <<>>, sources |-> 0, bytes |-> 0]

Idle ==
  /\ keyword = <<>> /\ vector = <<>> /\ candidates = <<>>
  /\ generated = Nothing /\ quoted = FALSE
  /\ answer = [text |-> <<>>, refused |-> FALSE] /\ citations = <<>>
  /\ message = NoMessage /\ pc = "idle"

Init ==
  /\ keyword \in Distinct(Chunks, TopK)
  /\ vector \in Distinct(Chunks, TopK)
  /\ candidates = <<>>
  /\ generated = Nothing /\ quoted = FALSE
  /\ answer = [text |-> <<>>, refused |-> FALSE] /\ citations = <<>>
  /\ message = NoMessage /\ pc = "fuse"

Smaller(a, b) == IF a < b THEN a ELSE b

\* The first elements of a sequence, n at most.
Cut(s, n) == SubSeq(s, 1, Smaller(n, Len(s)))

\* The elements of a finite set, each related to those behind it.
Ordered(S, before) ==
  CHOOSE s \in [1..Cardinality(S) -> S] :
    \A i, j \in 1..Cardinality(S) : i < j => <<s[i], s[j]>> \in before

-----------------------------------------------------------------------------
(* Reciprocal rank fusion.                                                 *)

\* The position of a chunk, 0 if it was not found.
Rank(list, c) == SelectInSeq(list, LAMBDA d : d = c)

\* The score 1 / (60 + rank) of a list, as a fraction.
RrfK == 60
Share(list, c) == IF Rank(list, c) = 0 THEN <<0, 1>> ELSE <<1, RrfK + Rank(list, c)>>

\* Mutant of Score: the score of the vector search replaces the other.
ScoreOfLastList(c) == IF Rank(vector, c) = 0 THEN Share(keyword, c) ELSE Share(vector, c)

Score(c) ==
  LET p == Share(keyword, c)
      q == Share(vector, c)
  IN <<p[1] * q[2] + q[1] * p[2], p[2] * q[2]>>

Found == Range(keyword) \cup Range(vector)
Before(c, d) ==
  LET this == Score(c)[1] * Score(d)[2]
      that == Score(d)[1] * Score(c)[2]
  IN this > that \/ (this = that /\ c < d)

Ranking == {pair \in Found \X Found : Before(pair[1], pair[2])}

Rrf ==
  /\ pc = "fuse"
  /\ candidates' = Cut(Ordered(Found, Ranking), TopFinal)
  /\ pc' = "generate"
  /\ UNCHANGED <<keyword, vector, generated, quoted, answer, citations, message>>

-----------------------------------------------------------------------------
(* The answer.                                                             *)

\* The lists are not used any more.
Generated(g, quote, label) ==
  /\ generated' = g
  /\ quoted' = quote
  /\ pc' = label
  /\ keyword' = <<>> /\ vector' = <<>>
  /\ UNCHANGED <<candidates, answer, citations, message>>

\* Nothing was found: a refusal, which is not validated.
Refuse ==
  /\ pc = "generate"
  /\ candidates = <<>>
  /\ Generated([answer |-> <<Word>>, indexes |-> <<>>, refused |-> TRUE], FALSE, "validate")

\* What the adapter lets through: an answer that is not empty, with distinct
\* indexes of candidates, at least one unless it refuses.
ModelAnswers ==
  {g \in [answer : BoundedSeq(Tokens, MaxWords) \ {<<>>},
          indexes : Distinct(DOMAIN candidates, TopFinal),
          refused : BOOLEAN] :
     g.refused \/ g.indexes # <<>>}

Generate ==
  /\ pc = "generate"
  /\ candidates # <<>>
  /\ \E g \in ModelAnswers : Generated(g, FALSE, "validate")

\* Without a model the best candidate is quoted, with marker 1 behind it.
Quote ==
  /\ pc = "generate"
  /\ candidates # <<>>
  /\ Generated([answer |-> <<Word>> \o Cut(Content[candidates[1]], QuoteLimit) \o <<1>>,
                indexes |-> <<1>>, refused |-> FALSE], TRUE, "validate")

\* No model and no fallback: DependencyUnavailable.
GenerateFails ==
  /\ pc = "generate"
  /\ candidates # <<>>
  /\ Generated(Nothing, FALSE, "failed")

-----------------------------------------------------------------------------
(* _validate_and_renumber, and the citations persist_answer stores.        *)

\* The different markers of a text, in the order they first appear.
FirstMarkers(text) ==
  LET first == {i \in DOMAIN text : text[i] # Word /\ \A j \in 1..(i - 1) : text[j] # text[i]}
      places == Ordered(first, {pair \in first \X first : pair[1] < pair[2]})
  IN [k \in DOMAIN places |-> text[places[k]]]

\* Markers in the answer take precedence over the indexes listed.
Indexes(g) == IF FirstMarkers(g.answer) # <<>> THEN FirstMarkers(g.answer) ELSE g.indexes

\* An answer without a marker gets those of its indexes.
Marked(g) == IF FirstMarkers(g.answer) # <<>> THEN g.answer ELSE g.answer \o g.indexes

\* Mutant of InRange: off by one, the last candidate may not be cited.
InRangeButLast(g) == \A k \in Range(Indexes(g)) : k < Len(candidates)

InRange(g) == \A k \in Range(Indexes(g)) : k \in DOMAIN candidates

\* Mutant of Renumbered: the markers stay as the model wrote them.
RenumberedNot(g) == Marked(g)

\* Marker k becomes the position of k in the indexes.
Renumbered(g) ==
  [i \in DOMAIN Marked(g) |->
     IF Marked(g)[i] = Word THEN Word ELSE Rank(Indexes(g), Marked(g)[i])]

Validated(text, refused, cited) ==
  /\ pc = "validate"
  /\ answer' = [text |-> text, refused |-> refused]
  /\ citations' = cited
  /\ pc' = "send"
  /\ UNCHANGED <<keyword, vector, candidates, generated, quoted, message>>

\* A refusal keeps its text, markers included, and loses its citations.
AcceptRefusal ==
  /\ generated.refused
  /\ Validated(generated.answer, TRUE, <<>>)

AcceptAnswer ==
  /\ ~generated.refused
  /\ Indexes(generated) # <<>> /\ InRange(generated)
  /\ Validated(Renumbered(generated), FALSE,
               [k \in DOMAIN Indexes(generated) |-> candidates[Indexes(generated)[k]]])

\* "model returned invalid citations"
RejectAnswer ==
  /\ pc = "validate"
  /\ ~generated.refused
  /\ ~InRange(generated)
  /\ pc' = "failed"
  /\ UNCHANGED <<keyword, vector, candidates, generated, quoted, answer, citations, message>>

-----------------------------------------------------------------------------
(* FormatWeComText.                                                        *)

Bytes(text) ==
  LET words == {i \in DOMAIN text : text[i] = Word} IN
  WordBytes * Cardinality(words) + MarkerBytes * Cardinality(DOMAIN text \ words)

\* The bytes of the first n lines of the sources, and their number with the header.
SourceLines(n) == UNION {{k} \X (1..SourceBytes[citations[k]]) : k \in 1..n}
SuffixBytes(n) == IF n = 0 THEN 0 ELSE HeaderBytes + Cardinality(SourceLines(n))

\* truncateUTF8: how many of the n first parts of a text, which have size b(k)
\* together, fit whole.  The characters that follow may break a marker.
Fitting(n, b(_), limit) == Max({0} \cup {k \in 1..n : b(k) <= limit})

\* Mutant of TooManySources: the ellipsis is forgotten.
TooManySourcesToFit(suffix) == suffix >= Limit

\* The sources leave no room for the answer (Limit - 4).
TooManySources(suffix) == suffix >= Limit - EllipsisBytes - 1

Send ==
  LET text == answer.text
      body(k) == Bytes(Cut(text, k))
      all == Len(citations)
      suffix == SuffixBytes(all)
      room == Limit - suffix - EllipsisBytes
      after(k) == Bytes(text) + SuffixBytes(k)
  IN
  /\ pc = "send"
  /\ message' =
       IF Bytes(text) + suffix <= Limit
         THEN [body |-> text, sources |-> all, bytes |-> Bytes(text) + suffix]
       ELSE IF TooManySources(suffix)
         THEN [body |-> Cut(text, Fitting(Len(text), body, Limit)),
               sources |-> Fitting(all, after, Limit), bytes |-> Limit]
         ELSE [body |-> Cut(text, Fitting(Len(text), body, room)), sources |-> all,
               bytes |-> Smaller(Bytes(text), Max({room, 0})) + EllipsisBytes + suffix]
  /\ pc' = "sent"
  /\ UNCHANGED <<keyword, vector, candidates, generated, quoted, answer, citations>>

Next ==
  \/ Rrf \/ Refuse \/ Generate \/ Quote \/ GenerateFails
  \/ AcceptRefusal \/ AcceptAnswer \/ RejectAnswer \/ Send

Spec == Init /\ [][Next]_vars

-----------------------------------------------------------------------------
(* Properties.                                                             *)

\* No list ranks c behind d, and one ranks it before.
Dominates(c, d) ==
  LET worse(list) == Rank(list, c) = 0 \/ (Rank(list, d) # 0 /\ Rank(list, d) < Rank(list, c))
      same(list) == Rank(list, c) = Rank(list, d)
  IN /\ \A list \in {keyword, vector} : worse(list) => same(list)
     /\ \E list \in {keyword, vector} : ~same(list)

InBoth(c) == c \in Range(keyword) \cap Range(vector)

\* The model is shown the best of what was found: a passage that one search ranks
\* before another and none behind it, or that both searches found and the other
\* only one, comes first and is never cut in favour of it.  (Of searches that return
\* more than 61 passages the second part is not true: two last places add up to less
\* than a first one.)
FusionRespectsRanks ==
  pc = "generate" =>
    /\ IsInjective(candidates)
    /\ Len(candidates) = Smaller(TopFinal, Cardinality(Found))
    /\ \A c, d \in Found :
         /\ Dominates(c, d) \/ (TopK <= RrfK + 1 /\ InBoth(c) /\ ~InBoth(d))
         /\ Rank(candidates, d) # 0
         => Rank(candidates, c) \in 1..(Rank(candidates, d) - 1)

\* The markers of the text are the numbers of the stored citations.
MarkersMatch == Range(answer.text) \ {Word} = DOMAIN citations

\* An answer that is not a refusal is sent with the markers 1 to the number of its
\* citations; the message names for every marker it shows the passage the model
\* meant by it, although markers, indexes and stored citations are numbered anew,
\* and no passage else.  Any message names its sources whole unless they alone are
\* too long, and has no more than the bytes WeCom takes.  (Of the markers of a
\* refusal nothing is said here: see MarkersMatchCitations.)
SentAnswerIsSound ==
  pc = "sent" =>
    /\ message.bytes <= Limit
    /\ message.sources < Len(citations) => SuffixBytes(Len(citations)) + EllipsisBytes >= Limit - 1
    /\ ~answer.refused =>
         /\ MarkersMatch
         /\ \A i \in DOMAIN message.body :
              LET meant == Marked(generated)[i] IN
              meant # Word => /\ message.body[i] \in DOMAIN citations
                              /\ citations[message.body[i]] = candidates[meant]
         /\ Range(citations) = {candidates[k] : k \in Range(Marked(generated)) \ {Word}}

\* docs/python-agent-api-v1.0.md:212: the citations are numbered from 1 and agree
\* with the markers "[n]" of the answer; line 619: none is deleted silently.  The code
\* looks at no marker of a refusal and deletes its citations: one that quotes "[2]" is
\* stored and sent with a marker that stands for nothing.
MarkersMatchCitations == pc = "sent" => MarkersMatch

\* A quoted passage without a marker of its own is always sent, as the quotation
\* of that passage and no other.  (One with a marker may be refused each time, or
\* cite a passage it did not mean to.)
QuoteCitesItsPassage ==
  quoted /\ Range(Content[candidates[1]]) \subseteq {Word} =>
    /\ pc # "failed"
    /\ pc \in {"send", "sent"} => citations = <<candidates[1]>>
=============================================================================
