------------------------------ MODULE SplitText ------------------------------
(***************************************************************************)
(* split_text of the agent (application/ingestion.py): the normalised text *)
(* of a document is cut into chunks that overlap.  One step is one         *)
(* iteration of the loop.                                                  *)
(*                                                                         *)
(* Positions count from 0 as in the code.  A chunk is the interval of the  *)
(* text it was cut from; two intervals may hold the same characters.       *)
(***************************************************************************)
EXTENDS Integers, Sequences, FiniteSetsExt

CONSTANTS
  Letters,   \* characters that are neither blank nor a separator
  Stop,      \* a separator that is not blank: a full stop, a semicolon, ...
  Blank,     \* a space or a newline, separators too
  MaxLength, \* bound: length of the text
  MaxSize    \* bound: chunk_size

ASSUME CharacterAssumption == Stop # Blank /\ Stop \notin Letters /\ Blank \notin Letters
ASSUME BoundAssumption == MaxLength \in Nat /\ MaxSize \in Nat

VARIABLES
  length, text,   \* the normalised text
  size, overlap,  \* chunk_size and chunk_overlap
  start,          \* where the next chunk begins
  chunks,         \* the chunks so far
  pc              \* "idle" (nothing to split), "split" or "done"

vars == <<length, text, size, overlap, start, chunks, pc>>

Characters == Letters \cup {Stop, Blank}
Positions == 0..(length - 1)
Interval == [from : Nat, to : Nat]

TypeOK ==
  /\ length \in Nat
  /\ text \in [Positions -> Characters]
  /\ size \in Nat /\ overlap \in Nat /\ overlap < size
  /\ start \in Nat
  /\ chunks \in Seq(Interval)
  /\ pc \in {"idle", "split", "done"}

\* A normalised text begins and ends with no blank.
Normalised ==
  length > 0 => text[0] # Blank /\ text[length - 1] # Blank

Idle ==
  /\ length = 0 /\ text = <<>> /\ size = 1 /\ overlap = 0
  /\ start = 0 /\ chunks = <<>> /\ pc = "idle"

Init ==
  /\ length \in 0..MaxLength
  /\ text \in [Positions -> Characters]
  /\ Normalised
  /\ size \in 1..MaxSize
  /\ overlap \in 0..(size - 1)
  /\ start = 0
  /\ chunks = <<>>
  /\ pc = "split"

Smaller(a, b) == IF a < b THEN a ELSE b
Larger(a, b) == IF a < b THEN b ELSE a

\* The last separator from position s on and before position e, -1 if none.
LastSeparator(s, e) ==
  Max({i \in s..(e - 1) : text[i] \notin Letters} \cup {-1})

\* Where the chunk ends: behind the last separator of its second half.
End ==
  LET end == Smaller(start + size, length)
      boundary == LastSeparator(start + size \div 2, end)
  IN IF end < length /\ boundary > start THEN boundary + 1 ELSE end

\* The interval [from, to) without the blanks at its ends; it is not all blank.
Strip(from, to) ==
  LET ink == {i \in from..(to - 1) : text[i] # Blank}
  IN [from |-> Min(ink), to |-> Max(ink) + 1]
AllBlank(from, to) == \A i \in from..(to - 1) : text[i] = Blank

\* The intervals a and b hold the same characters.
SameText(a, b) ==
  /\ a.to - a.from = b.to - b.from
  /\ \A k \in 0..(a.to - a.from - 1) : text[a.from + k] = text[b.from + k]

\* A chunk that is blank or repeats the last one is not kept.
Kept(from, to) ==
  IF AllBlank(from, to) \/ (chunks # <<>> /\ SameText(Strip(from, to), chunks[Len(chunks)]))
    THEN chunks
    ELSE Append(chunks, Strip(from, to))

\* Mutant of NextStart: the chunk is taken to be as long as it may be.
NextStartAfterFullChunk == Larger(start + 1, start + size - overlap)

\* Mutant of NextStart: a chunk no longer than the overlap is cut for ever.
NextStartWithoutStep == Larger(start, End - overlap)

NextStart == Larger(start + 1, End - overlap)

Cut ==
  /\ pc = "split"
  /\ start < length
  /\ chunks' = Kept(start, End)
  /\ IF End >= length
       THEN pc' = "done" /\ UNCHANGED start
       ELSE start' = NextStart /\ UNCHANGED pc
  /\ UNCHANGED <<length, text, size, overlap>>

\* The loop is left, which happens here for an empty text only.
Leave ==
  /\ pc = "split"
  /\ start >= length
  /\ pc' = "done"
  /\ UNCHANGED <<length, text, size, overlap, start, chunks>>

Next == Cut \/ Leave

Spec == Init /\ [][Next]_vars
FairSpec == Spec /\ WF_vars(Next)

-----------------------------------------------------------------------------
(* Properties.                                                             *)

\* The characters p, ..., q - 1 stand in chunk c, possibly cut from elsewhere.
HeldBy(c, p, q) ==
  \E o \in c.from..(c.to - (q - p)) : \A k \in 0..(q - p - 1) : text[o + k] = text[p + k]

\* A passage is no longer than the overlap and half a chunk, by a character.
Passage(p, q) ==
  /\ text[p] # Blank /\ text[q - 1] # Blank
  /\ q - p <= Smaller(overlap, size \div 2) + 1

\* Nothing is lost at the seams: every short passage of the text stands whole in
\* some chunk, wherever chunks were cut and whichever repetitions were dropped.
PassagesKept ==
  pc = "done" =>
    \A p \in Positions : \A q \in (p + 1)..length :
      Passage(p, q) => \E k \in DOMAIN chunks : HeldBy(chunks[k], p, q)

\* The loop ends although it may step back by the overlap.
SplitEnds == pc = "split" ~> pc = "done"
=============================================================================
