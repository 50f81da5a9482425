--------------------------- MODULE AlgorithmsProofs ---------------------------
(***************************************************************************)
(* Proofs about the sequential parts, for all their inputs: no short       *)
(* passage is lost at the seams of split_text, a call of SendText sends    *)
(* one message or none, a failed case improves no rate of an evaluation,   *)
(* the model is shown the best of what was found, and what a sent message  *)
(* cites is what the model meant.                                          *)
(***************************************************************************)
EXTENDS MCAlgorithms, FiniteSetTheorems, WellFoundedInduction, TLAPS

-----------------------------------------------------------------------------
(* The least and the greatest element of a set.                            *)

\* A set of natural numbers has a least element, the one Min chooses.
LEMMA MinFact ==
  ASSUME NEW T \in SUBSET Nat, T # {}
  PROVE  Min(T) \in T /\ \A y \in T : Min(T) <= y
<1> DEFINE R == {ss \in Nat \X Nat : ss[1] < ss[2]}
<1>1. IsWellFoundedOn(R, Nat)
  BY NatLessThanWellFounded DEF OpToRel
<1> HIDE DEF R
<1>2. PICK x \in T : \A y \in T : <<y, x>> \notin R
  BY <1>1, WFMin
<1>3. ASSUME NEW y \in T PROVE x =< y
  <2> DEFINE pair == <<y, x>>
  <2>1. pair \in Nat \X Nat /\ pair[1] = y /\ pair[2] = x /\ pair \notin R
    BY <1>2
  <2> HIDE DEF pair
  <2>2. ~(y < x)
    BY <2>1 DEF R
  <2>3. QED
    BY <2>2
<1>4. QED
  BY <1>3 DEF Min

\* A set of numbers that has a bound has a greatest element, the one Max chooses.
LEMMA MaxFact ==
  ASSUME NEW n \in Nat, NEW T \in SUBSET Int, T # {}, \A y \in T : y <= n
  PROVE  Max(T) \in T /\ \A y \in T : y <= Max(T)
<1> DEFINE U == {n - y : y \in T}
<1>1. U \in SUBSET Nat /\ U # {}
  <2>1. \A y \in T : n - y \in Nat
    OBVIOUS
  <2>2. QED
    BY <2>1
<1>2. Min(U) \in U /\ \A z \in U : Min(U) <= z
  BY <1>1, MinFact
<1>3. PICK x \in T : Min(U) = n - x
  BY <1>2
<1>4. \A y \in T : x >= y
  BY <1>2, <1>3
<1>5. QED
  BY <1>4 DEF Max

-----------------------------------------------------------------------------
(* SendText.                                                               *)

\* What is known of call c at each of its steps.  A call that fetched a token
\* anew has the one that was valid then, which may be withdrawn since.
CallOk(c) ==
  /\ accepted[c] <= 1
  /\ callPc[c] = "sent" => accepted[c] = 1
  /\ callPc[c] \notin {"sent", "error"} => accepted[c] = 0
  /\ callPc[c] = "resend" => token[c] = asked[c] /\ asked[c] # W!NoToken
  /\ callPc[c] = "refused" => asked[c] # W!NoToken /\ asked[c] # valid
  /\ asked[c] <= valid

ClientInv ==
  /\ valid \in Nat \ {0}
  /\ token \in [Callers -> Nat] /\ asked \in [Callers -> Nat] /\ accepted \in [Callers -> Nat]
  /\ cache \in Nat
  /\ callPc \in [Callers -> {"idle", "token", "send", "refresh", "resend", "sent", "refused",
                            "error"}]
  /\ \A c \in Callers : CallOk(c)

\* A step of call c.
LEMMA CallStep ==
  ASSUME ClientInv, NEW c \in Callers, W!SendText(c)
  PROVE  ClientInv'
<1> USE DEF ClientInv, CallOk, W!Goto, W!NoToken
<1>1. CASE W!CachedToken(c)
  BY <1>1 DEF W!CachedToken
<1>2. CASE W!NewToken(c)
  BY <1>2 DEF W!NewToken, W!FetchToken
<1>3. CASE W!RefreshToken(c)
  BY <1>3 DEF W!RefreshToken, W!FetchToken
<1>4. CASE W!NoTokenGiven(c)
  BY <1>4 DEF W!NoTokenGiven
<1>5. CASE W!SendAccepted(c)
  BY <1>5 DEF W!SendAccepted
<1>6. CASE W!SendRefused(c)
  BY <1>6 DEF W!SendRefused
<1>7. CASE W!SendFails(c)
  BY <1>7 DEF W!SendFails
<1>8. QED
  BY <1>1, <1>2, <1>3, <1>4, <1>5, <1>6, <1>7 DEF W!SendText

\* One call of SendText sends one message or none and tells which, whatever the
\* other calls cache and WeCom withdraws meanwhile.
THEOREM SendTextSendsOnce == MCSpec => []SendTextIsOneStep
<1> USE DEF ClientInv, CallOk, W!NoToken
<1>1. MCInit => ClientInv
  <2>1. W!Idle => ClientInv
    BY DEF W!Idle
  <2>2. W!Init => ClientInv
    BY TokensAssumption DEF W!Init
  <2>3. QED
    BY <2>1, <2>2 DEF MCInit
<1>2. ClientInv /\ [MCNext]_<<vars, answerVars, evaluationVars, clientVars>> => ClientInv'
  <2> SUFFICES ASSUME ClientInv, [MCNext]_<<vars, answerVars, evaluationVars, clientVars>>
               PROVE  ClientInv'
    OBVIOUS
  <2>1. CASE W!Withdraw
    BY <2>1 DEF W!Withdraw
  <2>2. CASE W!Expire
    BY <2>2 DEF W!Expire
  <2>3. CASE UNCHANGED clientVars
    BY <2>3 DEF clientVars
  <2>4. QED
    BY <2>1, <2>2, <2>3, CallStep DEF MCNext, W!Next
<1>3. ClientInv => SendTextIsOneStep
  BY DEF SendTextIsOneStep, W!SendTextIsOneStep
<1>4. QED
  BY <1>1, <1>2, <1>3, PTL DEF MCSpec

-----------------------------------------------------------------------------
(* split_text.                                                             *)

SplitTypes ==
  /\ length \in Nat /\ start \in Nat
  /\ size \in Nat \ {0} /\ overlap \in Nat /\ overlap < size
  /\ chunks \in Seq(Interval)

\* The passages that begin before position limit are held by a chunk.
Covered(limit) ==
  \A p \in Positions : \A q \in (p + 1)..length :
    p < limit /\ Passage(p, q) => \E k \in DOMAIN chunks : HeldBy(chunks[k], p, q)

SplitInv ==
  /\ SplitTypes
  /\ pc = "split" => Covered(start)
  /\ pc = "done" => Covered(length)

\* A chunk ends behind its first half, or with the text.
LEMMA EndFact ==
  ASSUME SplitTypes, start < length
  PROVE  /\ End \in Nat /\ start < End /\ End <= length
         /\ End = length \/ start + size \div 2 + 1 <= End
<1> DEFINE half == start + size \div 2
           end == Smaller(start + size, length)
           S == {i \in half..(end - 1) : text[i] \notin Letters} \cup {-1}
           boundary == LastSeparator(half, end)
<1>1. /\ half \in Nat /\ half + 1 <= start + size /\ start <= half
      /\ end \in Nat /\ start < end /\ end <= length
      /\ end = length \/ half + 1 <= end
  <2>1. size \div 2 \in Nat /\ size \div 2 + 1 <= size
    BY DEF SplitTypes
  <2>2. QED
    BY <2>1 DEF SplitTypes, Smaller
<1>2. boundary = -1 \/ boundary \in half..(end - 1)
  <2>1. S \in SUBSET Int /\ S # {} /\ \A y \in S : y <= end
    BY <1>1
  <2>2. Max(S) \in S
    BY <1>1, <2>1, MaxFact
  <2>3. QED
    BY <2>2 DEF LastSeparator
<1>3. End = IF end < length /\ boundary > start THEN boundary + 1 ELSE end
  BY DEF End
<1> HIDE DEF half, end, boundary
<1>4. start \in Nat /\ length \in Nat
  BY DEF SplitTypes
<1>5. /\ End \in Nat /\ start < End /\ End <= length
      /\ End = length \/ half + 1 <= End
  BY <1>1, <1>2, <1>3, <1>4
<1>6. QED
  BY <1>5 DEF half

\* The stripped interval reaches from the first to the last character that is
\* not blank.
LEMMA StripFact ==
  ASSUME NEW from \in Nat, NEW to \in Nat, ~AllBlank(from, to)
  PROVE  /\ Strip(from, to) \in Interval
         /\ \A i \in from..(to - 1) :
              text[i] # Blank => Strip(from, to).from <= i /\ i < Strip(from, to).to
<1> DEFINE ink == {i \in from..(to - 1) : text[i] # Blank}
<1>1. ink \in SUBSET Nat /\ ink # {} /\ ink \in SUBSET Int /\ \A y \in ink : y <= to
  BY DEF AllBlank
<1>2. Min(ink) \in ink /\ \A y \in ink : Min(ink) <= y
  BY <1>1, MinFact
<1>3. Max(ink) \in ink /\ \A y \in ink : y <= Max(ink)
  BY <1>1, MaxFact
<1>4. Strip(from, to) = [from |-> Min(ink), to |-> Max(ink) + 1]
  BY DEF Strip
<1>5. \A i \in from..(to - 1) : text[i] # Blank => i \in ink
  OBVIOUS
<1> HIDE DEF ink
<1>6. Min(ink) \in Nat /\ Max(ink) \in Nat
  BY <1>1, <1>2, <1>3
<1>7. QED
  BY <1>2, <1>3, <1>4, <1>5, <1>6 DEF Interval

\* What stands in an interval stands in every one with the same characters.
LEMMA SameTextFact ==
  ASSUME NEW a \in Interval, NEW b \in Interval, SameText(a, b),
         NEW p \in Nat, NEW q \in Nat, p < q, HeldBy(a, p, q)
  PROVE  HeldBy(b, p, q)
<1>1. a.from \in Nat /\ a.to \in Nat /\ b.from \in Nat /\ b.to \in Nat
  BY DEF Interval
<1>2. PICK o \in a.from..(a.to - (q - p)) : \A k \in 0..(q - p - 1) : text[o + k] = text[p + k]
  BY DEF HeldBy
<1> DEFINE n == b.from + (o - a.from)
<1>3. n \in b.from..(b.to - (q - p))
  BY <1>1 DEF SameText
<1>4. ASSUME NEW k \in 0..(q - p - 1) PROVE text[n + k] = text[p + k]
  <2>1. (o - a.from) + k \in 0..(a.to - a.from - 1)
    BY <1>1
  <2>2. text[a.from + ((o - a.from) + k)] = text[b.from + ((o - a.from) + k)]
    BY <2>1 DEF SameText
  <2>3. a.from + ((o - a.from) + k) = o + k /\ b.from + ((o - a.from) + k) = n + k
    BY <1>1
  <2>4. QED
    BY <1>2, <2>2, <2>3
<1> HIDE DEF n
<1>5. QED
  BY <1>3, <1>4 DEF HeldBy

\* A passage of an interval is held by a chunk once the interval was cut: by its
\* own chunk, or by the last one if that is the same.
LEMMA KeptFact ==
  ASSUME SplitTypes, NEW from \in Nat, NEW to \in Nat
  PROVE  /\ Kept(from, to) \in Seq(Interval)
         /\ \A k \in DOMAIN chunks : k \in DOMAIN Kept(from, to) /\ Kept(from, to)[k] = chunks[k]
         /\ \A p \in from..(to - 1) : \A q \in (p + 1)..to :
              text[p] # Blank /\ text[q - 1] # Blank =>
                \E k \in DOMAIN Kept(from, to) : HeldBy(Kept(from, to)[k], p, q)
<1> DEFINE strip == Strip(from, to)
           repeats == chunks # <<>> /\ SameText(strip, chunks[Len(chunks)])
<1>1. chunks \in Seq(Interval)
  BY DEF SplitTypes
<1>2. CASE AllBlank(from, to)
  <2>1. Kept(from, to) = chunks
    BY <1>2 DEF Kept
  <2>2. QED
    BY <1>1, <1>2, <2>1 DEF AllBlank
<1>3. CASE ~AllBlank(from, to)
  <2>1. /\ strip \in Interval
        /\ \A i \in from..(to - 1) : text[i] # Blank => strip.from <= i /\ i < strip.to
    BY <1>3, StripFact
  <2>2. Kept(from, to) = IF repeats THEN chunks ELSE Append(chunks, strip)
    BY <1>3 DEF Kept
  <2> HIDE DEF strip
  <2>3. ASSUME NEW p \in from..(to - 1), NEW q \in (p + 1)..to,
               text[p] # Blank, text[q - 1] # Blank
        PROVE  HeldBy(strip, p, q)
    <3>1. strip.from <= p /\ q - 1 < strip.to /\ strip.from \in Nat /\ strip.to \in Nat
      <4>1. q - 1 \in from..(to - 1)
        OBVIOUS
      <4>2. QED
        BY <2>1, <2>3, <4>1 DEF Interval
    <3>2. p \in strip.from..(strip.to - (q - p))
      BY <3>1
    <3>3. QED
      BY <3>2 DEF HeldBy
  <2>4. CASE repeats
    <3>1. Len(chunks) \in DOMAIN chunks /\ chunks[Len(chunks)] \in Interval
      BY <1>1, <2>4
    <3>2. \A p \in from..(to - 1) : \A q \in (p + 1)..to :
            HeldBy(strip, p, q) => HeldBy(chunks[Len(chunks)], p, q)
      BY <2>1, <2>4, <3>1, SameTextFact
    <3>3. QED
      BY <1>1, <2>2, <2>3, <2>4, <3>1, <3>2
  <2>5. CASE ~repeats
    <3> DEFINE new == Append(chunks, strip)
    <3>1. /\ new \in Seq(Interval)
          /\ \A k \in DOMAIN chunks : k \in DOMAIN new /\ new[k] = chunks[k]
          /\ Len(chunks) + 1 \in DOMAIN new /\ new[Len(chunks) + 1] = strip
      BY <1>1, <2>1
    <3>2. Kept(from, to) = new
      BY <2>2, <2>5
    <3> HIDE DEF new
    <3>3. QED
      BY <2>3, <3>1, <3>2
  <2>6. QED
    BY <2>4, <2>5
<1>4. QED
  BY <1>2, <1>3

\* A short passage that begins before the next chunk ends within this one.
LEMMA SeamFact ==
  ASSUME SplitTypes, start < length, NEW p \in Nat, NEW q \in (p + 1)..length, Passage(p, q),
         p < NextStart \/ End >= length
  PROVE  q <= End
<1>1. /\ End \in Nat /\ start < End /\ End <= length
      /\ End = length \/ start + size \div 2 + 1 <= End
  BY EndFact
<1>2. size \div 2 \in Nat /\ length \in Nat /\ start \in Nat /\ overlap \in Nat
  BY DEF SplitTypes
<1>3. q - p <= overlap + 1 /\ q - p <= size \div 2 + 1
  BY <1>2 DEF Passage, Smaller
<1>4. CASE End = length
  BY <1>1, <1>2, <1>4
<1>5. CASE End # length
  <2>1. p <= start \/ p + overlap + 1 <= End
    BY <1>1, <1>2, <1>5 DEF NextStart, Larger
  <2>2. QED
    BY <1>1, <1>2, <1>3, <1>5, <2>1
<1>6. QED
  BY <1>4, <1>5

\* The next chunk begins further on.
LEMMA CutStep ==
  ASSUME SplitInv, Cut
  PROVE  SplitInv'
<1>1. /\ SplitTypes /\ Covered(start) /\ pc = "split" /\ start < length
      /\ chunks' = Kept(start, End) /\ UNCHANGED <<length, text, size, overlap>>
  BY DEF SplitInv, Cut
<1>2. length \in Nat /\ start \in Nat /\ End \in Nat /\ start < End /\ End <= length
  BY <1>1, EndFact DEF SplitTypes
<1>3. /\ Kept(start, End) \in Seq(Interval)
      /\ \A k \in DOMAIN chunks : k \in DOMAIN Kept(start, End) /\ Kept(start, End)[k] = chunks[k]
      /\ \A p \in start..(End - 1) : \A q \in (p + 1)..End :
           text[p] # Blank /\ text[q - 1] # Blank =>
             \E k \in DOMAIN Kept(start, End) : HeldBy(Kept(start, End)[k], p, q)
  BY <1>1, <1>2, KeptFact
<1>4. ASSUME NEW p \in Positions, NEW q \in (p + 1)..length, Passage(p, q),
             p < NextStart \/ End >= length
      PROVE  \E k \in DOMAIN chunks' : HeldBy(chunks'[k], p, q)
  <2>1. p \in Nat /\ q \in Nat /\ p < q
    BY <1>2 DEF Positions
  <2>2. CASE p < start
    <3>1. PICK k \in DOMAIN chunks : HeldBy(chunks[k], p, q)
      BY <1>1, <1>4, <2>2 DEF Covered
    <3>2. QED
      BY <1>1, <1>3, <3>1
  <2>3. CASE p >= start
    <3>1. q <= End
      BY <1>1, <1>4, <2>1, SeamFact
    <3>2. p \in start..(End - 1) /\ q \in (p + 1)..End
      BY <1>2, <2>1, <2>3, <3>1
    <3>3. QED
      BY <1>1, <1>3, <1>4, <3>2 DEF Passage
  <2>4. QED
    BY <1>2, <2>1, <2>2, <2>3
<1>5. \A c, p, q : HeldBy(c, p, q)' <=> HeldBy(c, p, q)
  BY <1>1 DEF HeldBy
<1>6. \A p, q : Passage(p, q)' <=> Passage(p, q)
  BY <1>1 DEF Passage, Smaller
<1>7. CASE End >= length
  <2>1. pc' = "done" /\ start' = start
    BY <1>7 DEF Cut
  <2>2. SplitTypes'
    BY <1>1, <1>3, <2>1 DEF SplitTypes
  <2>3. Covered(length)'
    BY <1>1, <1>4, <1>5, <1>6, <1>7 DEF Covered, Positions
  <2>4. QED
    BY <2>1, <2>2, <2>3 DEF SplitInv
<1>8. CASE ~(End >= length)
  <2>1. pc' = "split" /\ start' = NextStart
    BY <1>1, <1>8 DEF Cut
  <2>2. NextStart \in Nat
    BY <1>1, <1>2 DEF NextStart, Larger, SplitTypes
  <2>3. SplitTypes'
    BY <1>1, <1>3, <2>1, <2>2 DEF SplitTypes
  <2>4. Covered(start)'
    BY <1>1, <1>4, <1>5, <1>6, <2>1 DEF Covered, Positions
  <2>5. QED
    BY <2>1, <2>3, <2>4 DEF SplitInv
<1>9. QED
  BY <1>7, <1>8

\* Nothing is lost at the seams of split_text, for every text, chunk size and
\* overlap.
THEOREM SplitKeepsPassages == MCSpec => []PassagesKept
<1>1. MCInit => SplitInv
  <2>1. Init => SplitInv
    <3> SUFFICES ASSUME Init PROVE SplitInv
      OBVIOUS
    <3>1. SplitTypes
      BY BoundAssumption DEF Init, SplitTypes
    <3>2. Covered(start)
      BY DEF Init, Covered, Positions
    <3>3. QED
      BY <3>1, <3>2 DEF Init, SplitInv
  <2>2. Idle => SplitInv
    BY DEF Idle, SplitInv, SplitTypes
  <2>3. QED
    BY <2>1, <2>2 DEF MCInit
<1>2. SplitInv /\ [MCNext]_<<vars, answerVars, evaluationVars, clientVars>> => SplitInv'
  <2> SUFFICES ASSUME SplitInv, [MCNext]_<<vars, answerVars, evaluationVars, clientVars>>
               PROVE  SplitInv'
    OBVIOUS
  <2>1. CASE Leave
    <3>1. \A c, p, q : (HeldBy(c, p, q)' <=> HeldBy(c, p, q)) /\ (Passage(p, q)' <=> Passage(p, q))
      BY <2>1 DEF Leave, HeldBy, Passage, Smaller
    <3>2. Covered(length)
      BY <2>1 DEF Leave, SplitInv, SplitTypes, Covered, Positions
    <3>3. QED
      BY <2>1, <3>1, <3>2 DEF Leave, SplitInv, SplitTypes, Covered, Positions
  <2>2. CASE UNCHANGED vars
    <3>1. \A c, p, q : (HeldBy(c, p, q)' <=> HeldBy(c, p, q)) /\ (Passage(p, q)' <=> Passage(p, q))
      BY <2>2 DEF vars, HeldBy, Passage, Smaller
    <3>2. QED
      BY <2>2, <3>1 DEF vars, SplitInv, SplitTypes, Covered, Positions
  <2>3. QED
    BY <2>1, <2>2, CutStep DEF MCNext, Next
<1>3. SplitInv => PassagesKept
  BY DEF SplitInv, SplitTypes, Covered, PassagesKept, Positions
<1>4. QED
  BY <1>1, <1>2, <1>3, PTL DEF MCSpec

-----------------------------------------------------------------------------
(* Finite sets in order.                                                   *)

\* The elements of T one after the other, each related by R to those behind it.
Enumerates(s, n, T, R) ==
  /\ s \in [1..n -> T]
  /\ \A i, j \in 1..n : i < j => <<s[i], s[j]>> \in R
  /\ \A x \in T : \E i \in 1..n : s[i] = x

\* R orders the elements of S.
TotalOrder(R, S) ==
  /\ \A x \in S : <<x, x>> \notin R
  /\ \A x, y, z \in S : <<x, y>> \in R /\ <<y, z>> \in R => <<x, z>> \in R
  /\ \A x, y \in S : x # y => <<x, y>> \in R \/ <<y, x>> \in R

\* A set of n + 1 elements is enumerated if those of n elements are: the last
\* element of the order stands behind the others.
LEMMA EnumerateOneMore ==
  ASSUME NEW S, NEW R, TotalOrder(R, S), NEW T \in SUBSET S, IsFiniteSet(T), T # {},
         \A U \in SUBSET S : IsFiniteSet(U) /\ Cardinality(U) + 1 = Cardinality(T) =>
           \E s : Enumerates(s, Cardinality(U), U, R)
  PROVE  \E s : Enumerates(s, Cardinality(T), T, R)
<1>1. PICK n \in Nat : Cardinality(T) = n + 1
  <2>1. Cardinality(T) \in Nat /\ Cardinality(T) # 0
    BY FS_CardinalityType, FS_EmptySet
  <2>2. Cardinality(T) - 1 \in Nat /\ Cardinality(T) = (Cardinality(T) - 1) + 1
    BY <2>1
  <2>3. QED
    BY <2>2
<1>2. ASSUME NEW x \in T
      PROVE  \E s : Enumerates(s, n, T \ {x}, R)
  <2>1. IsFiniteSet(T \ {x}) /\ Cardinality(T \ {x}) = n
    BY <1>1, FS_RemoveElement
  <2>2. QED
    BY <1>1, <2>1
<1>3. \E m \in T : \A y \in T : y # m => <<y, m>> \in R
  <2>1. PICK x \in T : TRUE
    OBVIOUS
  <2>2. PICK s : Enumerates(s, n, T \ {x}, R)
    BY <1>2
  <2>4. CASE n = 0
    <3>1. \A y \in T : y = x
      BY <2>2, <2>4 DEF Enumerates
    <3>2. QED
      BY <3>1
  <2>5. CASE n # 0
    <3> DEFINE last == s[n]
    <3>1. last \in T /\ last # x
      BY <2>2, <2>5 DEF Enumerates
    <3>2. ASSUME NEW y \in T, y # x, y # last PROVE <<y, last>> \in R
      <4>1. PICK i \in 1..n : s[i] = y
        BY <2>2, <3>2 DEF Enumerates
      <4>2. i < n
        BY <3>2, <4>1
      <4>3. QED
        BY <2>2, <2>5, <4>1, <4>2 DEF Enumerates
    <3> HIDE DEF last
    <3>3. CASE <<last, x>> \in R
      <4>1. \A y \in T : y # x => <<y, x>> \in R
        BY <3>1, <3>2, <3>3 DEF TotalOrder
      <4>2. QED
        BY <4>1
    <3>4. CASE <<last, x>> \notin R
      <4>1. <<x, last>> \in R
        BY <3>1, <3>4 DEF TotalOrder
      <4>2. QED
        BY <3>1, <3>2, <4>1
    <3>5. QED
      BY <3>3, <3>4
  <2>6. QED
    BY <2>4, <2>5
<1>4. PICK m \in T : \A y \in T : y # m => <<y, m>> \in R
  BY <1>3
<1>5. PICK s : Enumerates(s, n, T \ {m}, R)
  BY <1>2
<1> DEFINE more == [i \in 1..(n + 1) |-> IF i = n + 1 THEN m ELSE s[i]]
<1>7. \A i \in 1..n : more[i] = s[i] /\ s[i] \in T /\ s[i] # m
  BY <1>5 DEF Enumerates
<1>8. more[n + 1] = m /\ more \in [1..(n + 1) -> T]
  <2>1. n + 1 \in 1..(n + 1) /\ \A i \in 1..(n + 1) : i = n + 1 \/ i \in 1..n
    OBVIOUS
  <2>2. \A i \in 1..(n + 1) : (IF i = n + 1 THEN m ELSE s[i]) \in T
    BY <1>7, <2>1
  <2>3. QED
    BY <2>1, <2>2
<1> HIDE DEF more
<1>9. ASSUME NEW i \in 1..(n + 1), NEW j \in 1..(n + 1), i < j PROVE <<more[i], more[j]>> \in R
  <2>1. i \in 1..n
    BY <1>9
  <2>2. CASE j \in 1..n
    BY <1>5, <1>7, <1>9, <2>1, <2>2 DEF Enumerates
  <2>3. CASE j = n + 1
    BY <1>4, <1>7, <1>8, <2>1, <2>3
  <2>4. QED
    BY <2>2, <2>3
<1>10. ASSUME NEW x \in T PROVE \E i \in 1..(n + 1) : more[i] = x
  <2>1. CASE x = m
    BY <1>8, <2>1
  <2>2. CASE x # m
    <3>1. PICK i \in 1..n : s[i] = x
      BY <1>5, <2>2 DEF Enumerates
    <3>2. i \in 1..(n + 1) /\ more[i] = x
      BY <1>7, <3>1
    <3>3. QED
      BY <3>2
  <2>3. QED
    BY <2>1, <2>2
<1>11. Enumerates(more, n + 1, T, R)
  BY <1>1, <1>8, <1>9, <1>10 DEF Enumerates
<1>12. QED
  BY <1>1, <1>11

\* Every finite set can be put in order.  A set that cannot would have a least
\* number of elements.
LEMMA OrderExists ==
  ASSUME NEW S, IsFiniteSet(S), NEW R, TotalOrder(R, S)
  PROVE  \E s : Enumerates(s, Cardinality(S), S, R)
<1> DEFINE bad == {n \in Nat : \E T \in SUBSET S :
                     IsFiniteSet(T) /\ Cardinality(T) = n
                       /\ ~\E s : Enumerates(s, Cardinality(T), T, R)}
<1>1. SUFFICES bad = {}
  <2>1. Cardinality(S) \in Nat
    BY FS_CardinalityType
  <2>2. QED
    BY <2>1
<1>2. SUFFICES ASSUME bad # {} PROVE FALSE
  OBVIOUS
<1>3. Min(bad) \in bad /\ \A n \in bad : Min(bad) <= n
  <2>1. bad \in SUBSET Nat
    OBVIOUS
  <2> HIDE DEF bad
  <2>2. QED
    BY <1>2, <2>1, MinFact
<1>4. PICK T \in SUBSET S :
        IsFiniteSet(T) /\ Cardinality(T) = Min(bad) /\ ~\E s : Enumerates(s, Cardinality(T), T, R)
  BY <1>3
<1>5. CASE T = {}
  <2>1. Cardinality(T) = 0
    BY <1>5, FS_EmptySet
  <2>2. Enumerates([i \in 1..0 |-> i], 0, T, R)
    BY <1>5, <2>1 DEF Enumerates
  <2>3. QED
    BY <1>4, <2>1, <2>2
<1>6. CASE T # {}
  <2>1. ASSUME NEW U \in SUBSET S, IsFiniteSet(U), Cardinality(U) + 1 = Cardinality(T)
        PROVE  \E s : Enumerates(s, Cardinality(U), U, R)
    <3>1. Cardinality(U) \in Nat /\ Cardinality(U) \notin bad
      <4> HIDE DEF bad
      <4>1. Cardinality(U) \in Nat
        BY <2>1, FS_CardinalityType
      <4>2. Min(bad) \in Nat /\ ~(Min(bad) <= Cardinality(U))
        BY <1>4, <2>1, <4>1
      <4>3. QED
        BY <1>3, <4>1, <4>2
    <3>2. QED
      BY <2>1, <3>1
  <2>2. QED
    BY <1>4, <1>6, <2>1, EnumerateOneMore
<1>7. QED
  BY <1>5, <1>6

\* What Ordered chooses is such an order.
LEMMA OrderedFact ==
  ASSUME NEW S, IsFiniteSet(S), NEW R, TotalOrder(R, S)
  PROVE  Enumerates(A!Ordered(S, R), Cardinality(S), S, R)
<1> DEFINE n == Cardinality(S)
           Fits(f) == /\ f \in [1..n -> S]
                      /\ \A i, j \in 1..n : i < j => <<f[i], f[j]>> \in R
           s == A!Ordered(S, R)
<1>1. n \in Nat
  BY FS_CardinalityType
<1>2. \E f : Fits(f)
  BY OrderExists DEF Enumerates
<1>3. A!Cardinality(S) = n
  BY DEF A!Cardinality, Cardinality
<1> HIDE DEF n
<1>4. s = CHOOSE f \in [1..n -> S] : \A i, j \in 1..n : i < j => <<f[i], f[j]>> \in R
  BY <1>3 DEF A!Ordered
<1>5. Fits(s)
  BY <1>2, <1>4
<1> HIDE DEF s
<1>6. s \in Surjection(1..n, S)
  <2>1. s \in Injection(1..n, S)
    <3>1. ASSUME NEW i \in 1..n, NEW j \in 1..n, s[i] = s[j] PROVE i = j
      <4>1. <<s[i], s[j]>> \notin R /\ <<s[j], s[i]>> \notin R
        BY <1>5, <3>1 DEF TotalOrder
      <4>2. ~(i < j) /\ ~(j < i)
        BY <1>5, <4>1
      <4>3. QED
        BY <1>1, <4>2
    <3>2. QED
      BY <1>5, <3>1 DEF Injection, IsInjective
  <2>2. IsFiniteSet(1..n) /\ Cardinality(1..n) = n
    BY <1>1, FS_Interval
  <2>3. QED
    BY <2>1, <2>2, FS_Injection DEF n
<1>7. Enumerates(s, n, S, R)
  BY <1>5, <1>6 DEF Surjection, Enumerates
<1>8. QED
  BY <1>7 DEF s, n

\* Positions in a sequence are ordered from left to right.
LEMMA PlacesFact ==
  ASSUME NEW n \in Nat, NEW T \in SUBSET (1..n)
  PROVE  LET R == {pair \in T \X T : pair[1] < pair[2]} IN
         /\ IsFiniteSet(T) /\ Cardinality(T) \in Nat
         /\ Enumerates(A!Ordered(T, R), Cardinality(T), T, R)
<1> DEFINE R == {pair \in T \X T : pair[1] < pair[2]}
<1>1. IsFiniteSet(T)
  <2>1. IsFiniteSet(1..n)
    BY FS_Interval
  <2>2. QED
    BY <2>1, FS_Subset
<1>2. TotalOrder(R, T)
  <2>1. \A x, y \in T : <<x, y>> \in R <=> x < y
    OBVIOUS
  <2>2. T \subseteq Int
    OBVIOUS
  <2> HIDE DEF R
  <2>3. QED
    BY <2>1, <2>2 DEF TotalOrder
<1> HIDE DEF R
<1>3. Enumerates(A!Ordered(T, R), Cardinality(T), T, R)
  BY <1>1, <1>2, OrderedFact
<1>4. QED
  BY <1>1, <1>3, FS_CardinalityType DEF R

-----------------------------------------------------------------------------
(* Evaluation.                                                             *)

\* What was found out about a case.
Result ==
  [expectRefusal : BOOLEAN, passed : BOOLEAN, cites : BOOLEAN, refusalCorrect : BOOLEAN,
   keywords : Seq(BOOLEAN), sources : Seq(BOOLEAN), error : BOOLEAN]

\* The result r is one of case c.
ResultOk(r, c) ==
  /\ r.expectRefusal = c.expectRefusal
  /\ DOMAIN r.keywords = 1..c.keywords
  /\ DOMAIN r.sources = 1..c.sources

\* Each result is one of the case at its place.
EvaluationInv ==
  /\ cases \in Seq(E!Case)
  /\ results \in Seq(Result)
  /\ Len(results) <= Len(cases)
  /\ \A i \in DOMAIN results : ResultOk(results[i], cases[i])

\* A part of a finite set has no more elements than the set.
LEMMA FewerOf ==
  ASSUME NEW S, IsFiniteSet(S), NEW T \in SUBSET S
  PROVE  /\ E!Cardinality(T) \in Nat /\ E!Cardinality(S) \in Nat
         /\ E!Cardinality(T) <= E!Cardinality(S)
<1>1. \A U : E!Cardinality(U) = Cardinality(U)
  BY DEF E!Cardinality, Cardinality
<1>2. QED
  BY <1>1, FS_Subset, FS_CardinalityType

\* With the same number of cases behind it, a rate of fewer hits is no better.
LEMMA FewerHits ==
  ASSUME NEW a \in Nat, NEW b \in Nat, NEW n \in Nat, a <= b
  PROVE  E!NoBetter(<<a, n>>, <<b, n>>)
<1>1. a * n <= b * n
  <2>1. b - a \in Nat /\ (b - a) * n \in Nat
    OBVIOUS
  <2>2. b * n = a * n + (b - a) * n
    OBVIOUS
  <2>3. QED
    BY <2>1, <2>2
<1>2. QED
  BY <1>1 DEF E!NoBetter

\* A failed case has a result.
LEMMA ErrorResultFact ==
  ASSUME NEW c \in E!Case
  PROVE  /\ E!ErrorResult(c) \in Result
         /\ ResultOk(E!ErrorResult(c), c)
<1>1. c.keywords \in Nat /\ c.sources \in Nat /\ c.expectRefusal \in BOOLEAN
  BY CasesAssumption DEF E!Case
<1>2. /\ [k \in 1..c.keywords |-> FALSE] \in Seq(BOOLEAN)
      /\ [k \in 1..c.sources |-> FALSE] \in Seq(BOOLEAN)
  <2>1. ASSUME NEW m \in Nat PROVE [k \in 1..m |-> FALSE] \in Seq(BOOLEAN)
    <3> DEFINE f == [k \in 1..m |-> FALSE]
    <3>1. f \in [1..m -> BOOLEAN]
      OBVIOUS
    <3> HIDE DEF f
    <3>2. f \in Seq(BOOLEAN)
      BY <3>1
    <3>3. QED
      BY <3>2 DEF f
  <2>2. QED
    BY <1>1, <2>1
<1>3. QED
  BY <1>1, <1>2 DEF E!ErrorResult, Result, ResultOk

\* So has a case that was answered.
LEMMA AnswerResultFact ==
  ASSUME NEW c \in E!Case, NEW refused \in BOOLEAN, NEW keywords \in [1..c.keywords -> BOOLEAN],
         NEW sources \in [1..c.sources -> BOOLEAN]
  PROVE  /\ E!AnswerResult(c, refused, keywords, sources) \in Result
         /\ ResultOk(E!AnswerResult(c, refused, keywords, sources), c)
<1>1. c.keywords \in Nat /\ c.sources \in Nat /\ c.expectRefusal \in BOOLEAN
  BY CasesAssumption DEF E!Case
<1>2. keywords \in Seq(BOOLEAN) /\ sources \in Seq(BOOLEAN)
  BY <1>1
<1>3. E!AllTrue(keywords) \in BOOLEAN /\ E!AllTrue(sources) \in BOOLEAN
  BY DEF E!AllTrue
<1>4. QED
  BY <1>1, <1>2, <1>3 DEF E!AnswerResult, Result, ResultOk

\* A result of the case that is asked may be recorded.
LEMMA RecordStep ==
  ASSUME EvaluationInv, E!AsksNext, NEW r \in Result, ResultOk(r, cases[Len(results) + 1]),
         E!Record(r)
  PROVE  EvaluationInv'
<1>1. /\ results' = Append(results, r) /\ cases' = cases /\ Len(results) < Len(cases)
  BY DEF E!Record, E!AsksNext
<1>2. /\ results' \in Seq(Result) /\ Len(results') = Len(results) + 1
      /\ \A i \in DOMAIN results : results'[i] = results[i]
      /\ results'[Len(results) + 1] = r
      /\ \A i \in DOMAIN results' : i \in DOMAIN results \/ i = Len(results) + 1
  BY <1>1 DEF EvaluationInv
<1>3. Len(results') <= Len(cases')
  BY <1>1, <1>2 DEF EvaluationInv
<1>4. \A i \in DOMAIN results' : ResultOk(results'[i], cases'[i])
  BY <1>1, <1>2 DEF EvaluationInv
<1>5. QED
  BY <1>1, <1>2, <1>3, <1>4 DEF EvaluationInv, ResultOk

\* Fewer matches of the same checks recall no more.
LEMMA FewerRecalled ==
  ASSUME NEW n \in Nat, NEW f, NEW g,
         DOMAIN f = 1..n, DOMAIN g = 1..n,
         \A i \in 1..n :
           f[i] \in Seq(BOOLEAN) /\ g[i] \in Seq(BOOLEAN) /\ DOMAIN f[i] = DOMAIN g[i],
         \A i \in 1..n : \A k \in DOMAIN f[i] : f[i][k] => g[i][k]
  PROVE  E!NoBetter(E!Recall(f), E!Recall(g))
<1> DEFINE C == E!Checks(f)
           F == {c \in C : f[c[1]][c[2]]}
           G == {c \in C : g[c[1]][c[2]]}
<1>1. E!Checks(g) = C
  BY DEF E!Checks
<1>2. IsFiniteSet(C)
  <2> DEFINE D(i) == {i} \X DOMAIN f[i]
             parts == {D(i) : i \in 1..n}
  <2>1. IsFiniteSet(parts)
    <3>1. IsFiniteSet(1..n)
      BY FS_Interval
    <3> DEFINE h == [i \in 1..n |-> D(i)]
    <3>2. h \in [1..n -> parts] /\ \A p \in parts : \E i \in 1..n : h[i] = p
      OBVIOUS
    <3> HIDE DEF h, parts
    <3>3. h \in Surjection(1..n, parts)
      BY <3>2 DEF Surjection
    <3>4. QED
      BY <3>1, <3>3, FS_Surjection
  <2>2. ASSUME NEW i \in 1..n PROVE IsFiniteSet(D(i))
    <3>1. IsFiniteSet({i}) /\ IsFiniteSet(DOMAIN f[i])
      <4>1. DOMAIN f[i] = 1..Len(f[i]) /\ Len(f[i]) \in Nat
        OBVIOUS
      <4>2. IsFiniteSet(1..Len(f[i]))
        BY <4>1, FS_Interval
      <4>3. QED
        BY <4>1, <4>2, FS_Singleton
    <3>2. QED
      BY <3>1, FS_Product
  <2>3. IsFiniteSet(UNION parts)
    BY <2>1, <2>2, FS_UNION
  <2>4. QED
    BY <2>3 DEF E!Checks
<1>3. F \subseteq G
  <2>1. ASSUME NEW c \in C, f[c[1]][c[2]] PROVE g[c[1]][c[2]]
    <3>1. c[1] \in 1..n /\ c[2] \in DOMAIN f[c[1]]
      BY <2>1 DEF E!Checks
    <3>2. QED
      BY <2>1, <3>1
  <2>2. QED
    BY <2>1
<1>4. IsFiniteSet(G) /\ G \in SUBSET C
  BY <1>2, FS_Subset
<1>5. E!Recall(f) = <<E!Cardinality(F), E!Cardinality(C)>>
  BY DEF E!Recall
<1>6. E!Recall(g) = <<E!Cardinality(G), E!Cardinality(C)>>
  BY <1>1 DEF E!Recall
<1> HIDE DEF C, F, G
<1>7. E!Cardinality(F) \in Nat /\ E!Cardinality(G) \in Nat /\ E!Cardinality(F) <= E!Cardinality(G)
  BY <1>3, <1>4, FewerOf
<1>8. E!Cardinality(C) \in Nat
  BY <1>2, FewerOf
<1>9. QED
  BY <1>5, <1>6, <1>7, <1>8, FewerHits

\* Replacing a result by that of a failed case improves no rate.
LEMMA FailureImprovesNothing ==
  ASSUME EvaluationInv, NEW i \in DOMAIN results,
         NEW rate \in DOMAIN E!Summary(results)
  PROVE  E!NoBetter(E!Summary([results EXCEPT ![i] = E!ErrorResult(cases[i])])[rate],
                    E!Summary(results)[rate])
<1> DEFINE n == Len(results)
           rs == [results EXCEPT ![i] = E!ErrorResult(cases[i])]
<1>1. n \in Nat /\ DOMAIN results = 1..n /\ i \in 1..n /\ results \in Seq(Result)
  BY DEF EvaluationInv
<1>2. cases[i] \in E!Case
  BY <1>1 DEF EvaluationInv
<1>3. E!ErrorResult(cases[i]) \in Result /\ ResultOk(E!ErrorResult(cases[i]), cases[i])
  BY <1>2, ErrorResultFact
<1>4. rs \in Seq(Result) /\ DOMAIN rs = 1..n /\ Len(rs) = n
  BY <1>1, <1>3
<1>5. ASSUME NEW j \in 1..n
      PROVE  /\ results[j] \in Result /\ rs[j] \in Result
             /\ rs[j].expectRefusal = results[j].expectRefusal
             /\ rs[j].passed => results[j].passed
             /\ rs[j].cites => results[j].cites
             /\ rs[j].refusalCorrect => results[j].refusalCorrect
             /\ DOMAIN rs[j].keywords = DOMAIN results[j].keywords
             /\ DOMAIN rs[j].sources = DOMAIN results[j].sources
             /\ \A k \in DOMAIN rs[j].keywords : rs[j].keywords[k] => results[j].keywords[k]
             /\ \A k \in DOMAIN rs[j].sources : rs[j].sources[k] => results[j].sources[k]
  <2>1. results[j] \in Result /\ ResultOk(results[j], cases[j])
    BY <1>1 DEF EvaluationInv
  <2>2. CASE j # i
    <3>1. rs[j] = results[j]
      BY <1>1, <2>2
    <3>2. QED
      BY <2>1, <3>1
  <2>3. CASE j = i
    <3>1. rs[j] = E!ErrorResult(cases[i])
      BY <1>1, <2>3
    <3>2. ResultOk(results[i], cases[i])
      BY <2>1, <2>3
    <3> HIDE DEF rs
    <3>3. /\ rs[j].expectRefusal = results[j].expectRefusal
          /\ DOMAIN rs[j].keywords = DOMAIN results[j].keywords
          /\ DOMAIN rs[j].sources = DOMAIN results[j].sources
      BY <1>3, <2>3, <3>1, <3>2 DEF ResultOk
    <3>4. /\ ~rs[j].passed /\ ~rs[j].cites /\ ~rs[j].refusalCorrect
          /\ \A k \in DOMAIN rs[j].keywords : ~rs[j].keywords[k]
          /\ \A k \in DOMAIN rs[j].sources : ~rs[j].sources[k]
      BY <3>1 DEF E!ErrorResult
    <3>5. QED
      BY <1>3, <2>1, <3>1, <3>3, <3>4
  <2>4. QED
    BY <2>2, <2>3
<1> HIDE DEF rs, n
<1> DEFINE expected(s) == {j \in DOMAIN s : ~s[j].expectRefusal}
<1>6. ASSUME NEW S, NEW T, S \subseteq T, T \subseteq 1..n
      PROVE  /\ E!Cardinality(S) \in Nat /\ E!Cardinality(T) \in Nat
             /\ E!Cardinality(S) <= E!Cardinality(T)
  <2>1. IsFiniteSet(T)
    <3>1. IsFiniteSet(1..n)
      BY <1>1, FS_Interval
    <3>2. QED
      BY <1>6, <3>1, FS_Subset
  <2>2. QED
    BY <1>6, <2>1, FewerOf
<1>7. CASE rate = "pass_rate"
  <2> DEFINE S == {j \in DOMAIN rs : rs[j].passed}
             T == {j \in DOMAIN results : results[j].passed}
  <2>1. S \subseteq T /\ T \subseteq 1..n
    BY <1>1, <1>4, <1>5
  <2>2. /\ E!Summary(rs)[rate] = <<E!Cardinality(S), n>>
        /\ E!Summary(results)[rate] = <<E!Cardinality(T), n>>
    BY <1>4, <1>7 DEF E!Summary, n
  <2> HIDE DEF S, T
  <2>3. QED
    BY <1>1, <1>6, <2>1, <2>2, FewerHits DEF rs
<1>8. CASE rate = "refusal_accuracy"
  <2> DEFINE S == {j \in DOMAIN rs : rs[j].refusalCorrect}
             T == {j \in DOMAIN results : results[j].refusalCorrect}
  <2>1. S \subseteq T /\ T \subseteq 1..n
    BY <1>1, <1>4, <1>5
  <2>2. /\ E!Summary(rs)[rate] = <<E!Cardinality(S), n>>
        /\ E!Summary(results)[rate] = <<E!Cardinality(T), n>>
    BY <1>4, <1>8 DEF E!Summary, n
  <2> HIDE DEF S, T
  <2>3. QED
    BY <1>1, <1>6, <2>1, <2>2, FewerHits DEF rs
<1>9. CASE rate = "citation_rate"
  <2> DEFINE S == {j \in expected(rs) : rs[j].cites}
             T == {j \in expected(results) : results[j].cites}
             X == expected(results)
  <2>1. S \subseteq T /\ T \subseteq 1..n /\ X \subseteq 1..n /\ expected(rs) = X
    BY <1>1, <1>4, <1>5
  <2>2. /\ E!Summary(rs)[rate] = <<E!Cardinality(S), E!Cardinality(expected(rs))>>
        /\ E!Summary(results)[rate] = <<E!Cardinality(T), E!Cardinality(X)>>
    BY <1>9 DEF E!Summary
  <2> HIDE DEF S, T, X
  <2>3. QED
    BY <1>6, <2>1, <2>2, FewerHits DEF rs
<1>10. CASE rate = "keyword_recall"
  <2> DEFINE f == [j \in DOMAIN rs |-> rs[j].keywords]
             g == [j \in DOMAIN results |-> results[j].keywords]
  <2>1. E!Summary(rs)[rate] = E!Recall(f) /\ E!Summary(results)[rate] = E!Recall(g)
    BY <1>10 DEF E!Summary
  <2>2. DOMAIN f = 1..n /\ DOMAIN g = 1..n
    BY <1>1, <1>4
  <2>3. ASSUME NEW j \in 1..n
        PROVE  /\ f[j] \in Seq(BOOLEAN) /\ g[j] \in Seq(BOOLEAN) /\ DOMAIN f[j] = DOMAIN g[j]
               /\ \A k \in DOMAIN f[j] : f[j][k] => g[j][k]
    <3>1. f[j] = rs[j].keywords /\ g[j] = results[j].keywords
      BY <2>2
    <3>2. QED
      BY <1>5, <3>1 DEF Result
  <2> HIDE DEF f, g
  <2>4. QED
    BY <1>1, <2>1, <2>2, <2>3, FewerRecalled DEF rs
<1>11. CASE rate = "source_hit_rate"
  <2> DEFINE f == [j \in DOMAIN rs |-> rs[j].sources]
             g == [j \in DOMAIN results |-> results[j].sources]
  <2>1. E!Summary(rs)[rate] = E!Recall(f) /\ E!Summary(results)[rate] = E!Recall(g)
    BY <1>11 DEF E!Summary
  <2>2. DOMAIN f = 1..n /\ DOMAIN g = 1..n
    BY <1>1, <1>4
  <2>3. ASSUME NEW j \in 1..n
        PROVE  /\ f[j] \in Seq(BOOLEAN) /\ g[j] \in Seq(BOOLEAN) /\ DOMAIN f[j] = DOMAIN g[j]
               /\ \A k \in DOMAIN f[j] : f[j][k] => g[j][k]
    <3>1. f[j] = rs[j].sources /\ g[j] = results[j].sources
      BY <2>2
    <3>2. QED
      BY <1>5, <3>1 DEF Result
  <2> HIDE DEF f, g
  <2>4. QED
    BY <1>1, <2>1, <2>2, <2>3, FewerRecalled DEF rs
<1>12. QED
  BY <1>7, <1>8, <1>9, <1>10, <1>11 DEF E!Summary

\* A failed case of an evaluation improves no rate, for every catalog of cases.
THEOREM FailuresCount == MCSpec => []ErrorsNeverImprove
<1>1. MCInit => EvaluationInv
  <2>1. E!Idle => EvaluationInv
    BY DEF E!Idle, EvaluationInv
  <2>2. E!Init => EvaluationInv
    <3>1. E!BoundedSeq(E!Case, MaxCases) \subseteq Seq(E!Case)
      BY CasesAssumption DEF E!BoundedSeq, E!SeqOf
    <3> HIDE DEF E!Case
    <3>2. QED
      BY <3>1 DEF E!Init, EvaluationInv
  <2>3. QED
    BY <2>1, <2>2 DEF MCInit
<1>2. EvaluationInv /\ [MCNext]_<<vars, answerVars, evaluationVars, clientVars>> => EvaluationInv'
  <2> SUFFICES ASSUME EvaluationInv, [MCNext]_<<vars, answerVars, evaluationVars, clientVars>>
               PROVE  EvaluationInv'
    OBVIOUS
  <2> DEFINE c == cases[Len(results) + 1]
  <2>1. E!AsksNext => c \in E!Case
    BY DEF E!AsksNext, EvaluationInv
  <2>2. CASE E!EvaluateCase
    <3>1. PICK refused \in BOOLEAN, keywords \in [1..c.keywords -> BOOLEAN],
               sources \in [1..c.sources -> BOOLEAN] :
                 E!AsksNext /\ E!Record(E!AnswerResult(c, refused, keywords, sources))
      BY <2>2 DEF E!EvaluateCase
    <3>2. QED
      BY <2>1, <3>1, AnswerResultFact, RecordStep
  <2>3. CASE E!CaseFails
    BY <2>1, <2>3, ErrorResultFact, RecordStep DEF E!CaseFails
  <2>4. CASE UNCHANGED <<cases, results>>
    BY <2>4 DEF EvaluationInv, ResultOk
  <2>5. QED
    BY <2>2, <2>3, <2>4 DEF MCNext, E!Next, E!Summarize, evaluationVars
<1>3. EvaluationInv => ErrorsNeverImprove
  BY FailureImprovesNothing DEF ErrorsNeverImprove, E!ErrorsNeverImprove
<1>4. QED
  BY <1>1, <1>2, <1>3, PTL DEF MCSpec

-----------------------------------------------------------------------------
(* Ranks, markers and the first elements of a sequence.                    *)

\* The rank of c is its first place in a list, or 0.
LEMMA RankFact ==
  ASSUME NEW S, NEW list \in Seq(S), NEW c
  PROVE  /\ A!Rank(list, c) \in Nat
         /\ A!Rank(list, c) # 0 <=> \E i \in DOMAIN list : list[i] = c
         /\ A!Rank(list, c) # 0 => A!Rank(list, c) \in DOMAIN list /\ list[A!Rank(list, c)] = c
         /\ \A i \in DOMAIN list : list[i] = c => A!Rank(list, c) <= i
<1> DEFINE I == {i \in 1..Len(list) : list[i] = c}
<1>1. DOMAIN list = 1..Len(list) /\ Len(list) \in Nat
  OBVIOUS
<1>2. A!Rank(list, c) = IF I # {} THEN Min(I) ELSE 0
  BY DEF A!Rank, A!SelectInSeq, A!Min, Min
<1>3. I \in SUBSET Nat
  BY <1>1
<1>4. I # {} => Min(I) \in I /\ \A i \in I : Min(I) <= i
  BY <1>3, MinFact
<1>5. \A i \in I : i \in DOMAIN list /\ list[i] = c /\ i \in Nat /\ i # 0
  BY <1>1
<1>6. \A i \in DOMAIN list : list[i] = c => i \in I
  BY <1>1
<1> HIDE DEF I
<1>7. CASE I = {}
  BY <1>2, <1>6, <1>7
<1>8. CASE I # {}
  BY <1>2, <1>4, <1>5, <1>6, <1>8
<1>9. QED
  BY <1>7, <1>8

\* Every element of a sequence is in one place.
Once(s) == \A k, l \in DOMAIN s : s[k] = s[l] => k = l

\* The markers of a text are its tokens other than words, each once.
LEMMA FirstMarkersFact ==
  ASSUME NEW t \in Seq(Nat)
  PROVE  /\ A!FirstMarkers(t) \in Seq(Nat \ {0})
         /\ Once(A!FirstMarkers(t))
         /\ \A i \in DOMAIN t :
              t[i] # 0 => \E k \in DOMAIN A!FirstMarkers(t) : A!FirstMarkers(t)[k] = t[i]
         /\ \A k \in DOMAIN A!FirstMarkers(t) :
              \E i \in DOMAIN t : A!FirstMarkers(t)[k] = t[i]
<1> DEFINE n == Len(t)
           first == {i \in DOMAIN t : t[i] # A!Word /\ \A j \in 1..(i - 1) : t[j] # t[i]}
           R == {pair \in first \X first : pair[1] < pair[2]}
           places == A!Ordered(first, R)
           m == A!FirstMarkers(t)
<1>1. n \in Nat /\ DOMAIN t = 1..n /\ first \in SUBSET (1..n)
  OBVIOUS
<1>2. m = [k \in DOMAIN places |-> t[places[k]]]
  BY DEF A!FirstMarkers
<1>3. /\ Cardinality(first) \in Nat
      /\ Enumerates(places, Cardinality(first), first, R)
  <2> HIDE DEF first
  <2>1. QED
    BY <1>1, PlacesFact
<1>4. ASSUME NEW i \in DOMAIN t, t[i] # 0 PROVE \E j \in first : t[j] = t[i]
  <2> DEFINE I == {j \in 1..n : t[j] = t[i]}
  <2>1. I \in SUBSET Nat /\ i \in I
    BY <1>1
  <2>2. Min(I) \in I /\ \A j \in I : Min(I) <= j
    BY <2>1, MinFact
  <2> DEFINE a == Min(I)
  <2>3. a \in 1..n /\ t[a] = t[i]
    BY <2>2
  <2>4. ASSUME NEW j \in 1..(a - 1) PROVE t[j] # t[a]
    <3>1. j \in 1..n /\ ~(a <= j)
      BY <1>1, <2>3
    <3>2. j \notin I
      BY <2>2, <3>1
    <3>3. QED
      BY <2>3, <3>1, <3>2
  <2> HIDE DEF a
  <2>5. a \in first
    BY <1>1, <1>4, <2>3, <2>4 DEF A!Word
  <2>6. QED
    BY <2>3, <2>5
<1>5. \A j \in first : j \in DOMAIN t /\ t[j] \in Nat \ {0}
  BY DEF A!Word
<1>11. ASSUME NEW i \in first, NEW j \in first, t[i] = t[j] PROVE i = j
  <2>1. i \in Nat \ {0} /\ j \in Nat \ {0}
    BY <1>1
  <2>2. i < j => i \in 1..(j - 1)
    BY <2>1
  <2>3. j < i => j \in 1..(i - 1)
    BY <2>1
  <2>4. QED
    BY <1>11, <2>1, <2>2, <2>3
<1>12. \A i, j \in first : <<i, j>> \in R => i < j /\ i # j
  BY <1>1
<1> HIDE DEF first, R, places, m
<1>6. DOMAIN places = 1..Cardinality(first) /\ \A k \in DOMAIN places : places[k] \in first
  BY <1>3 DEF Enumerates
<1>7. m \in [1..Cardinality(first) -> Nat \ {0}]
  BY <1>2, <1>5, <1>6
<1>8. m \in Seq(Nat \ {0}) /\ DOMAIN m = DOMAIN places /\ \A k \in DOMAIN m : m[k] = t[places[k]]
  <2>1. \A q \in Nat : \A f \in [1..q -> Nat \ {0}] : f \in Seq(Nat \ {0})
    OBVIOUS
  <2>2. m \in Seq(Nat \ {0})
    BY <1>3, <1>7, <2>1
  <2>3. QED
    BY <1>2, <2>2
<1>9. ASSUME NEW i \in DOMAIN t, t[i] # 0 PROVE \E k \in DOMAIN m : m[k] = t[i]
  <2>1. PICK j \in first : t[j] = t[i]
    BY <1>4, <1>9
  <2>2. PICK k \in 1..Cardinality(first) : places[k] = j
    BY <1>3 DEF Enumerates
  <2>3. QED
    BY <1>6, <1>8, <2>1, <2>2
<1>13. Once(m)
  <2> SUFFICES ASSUME NEW k \in DOMAIN m, NEW l \in DOMAIN m, m[k] = m[l] PROVE k = l
    BY DEF Once
  <2>1. k \in 1..Cardinality(first) /\ l \in 1..Cardinality(first)
    BY <1>6, <1>8
  <2>2. places[k] \in first /\ places[l] \in first /\ places[k] = places[l]
    BY <1>6, <1>8, <1>11
  <2>3. ~(k < l) /\ ~(l < k)
    BY <1>3, <1>12, <2>1, <2>2 DEF Enumerates
  <2>4. QED
    BY <1>3, <2>1, <2>3
<1>10. QED
  BY <1>5, <1>6, <1>8, <1>9, <1>13 DEF m

\* The elements of two sequences one behind the other.
LEMMA ConcatFact ==
  ASSUME NEW S, NEW a \in Seq(S), NEW x \in Seq(S)
  PROVE  /\ a \o x \in Seq(S)
         /\ \A i \in DOMAIN (a \o x) :
              (i \in DOMAIN a /\ (a \o x)[i] = a[i])
              \/ (i - Len(a) \in DOMAIN x /\ (a \o x)[i] = x[i - Len(a)])
         /\ \A i \in DOMAIN a : i \in DOMAIN (a \o x) /\ (a \o x)[i] = a[i]
         /\ \A k \in DOMAIN x : Len(a) + k \in DOMAIN (a \o x) /\ (a \o x)[Len(a) + k] = x[k]
<1>1. /\ Len(a) \in Nat /\ DOMAIN a = 1..Len(a) /\ Len(x) \in Nat /\ DOMAIN x = 1..Len(x)
      /\ DOMAIN (a \o x) = 1..(Len(a) + Len(x))
  OBVIOUS
<1>2. \A i \in 1..(Len(a) + Len(x)) :
        (a \o x)[i] = IF i <= Len(a) THEN a[i] ELSE x[i - Len(a)]
  OBVIOUS
<1>3. QED
  BY <1>1, <1>2

\* What a model answers.
Generations ==
  [answer : Seq(Nat), indexes : {s \in Seq(Nat \ {0}) : Once(s)}, refused : BOOLEAN]

\* A marker in the marked text is one of the indexes, and each index is there.
LEMMA MarkedFact ==
  ASSUME NEW g \in Generations
  PROVE  /\ A!Indexes(g) \in Seq(Nat \ {0}) /\ Once(A!Indexes(g))
         /\ A!Marked(g) \in Seq(Nat)
         /\ \A i \in DOMAIN A!Marked(g) :
              A!Marked(g)[i] # 0 => \E k \in DOMAIN A!Indexes(g) : A!Indexes(g)[k] = A!Marked(g)[i]
         /\ \A k \in DOMAIN A!Indexes(g) :
              \E i \in DOMAIN A!Marked(g) : A!Indexes(g)[k] = A!Marked(g)[i]
<1> DEFINE m == A!FirstMarkers(g.answer)
<1>1. g.answer \in Seq(Nat) /\ g.indexes \in Seq(Nat \ {0}) /\ Once(g.indexes)
  BY DEF Generations
<1>2. /\ m \in Seq(Nat \ {0}) /\ Once(m)
      /\ \A i \in DOMAIN g.answer : g.answer[i] # 0 => \E k \in DOMAIN m : m[k] = g.answer[i]
      /\ \A k \in DOMAIN m : \E i \in DOMAIN g.answer : m[k] = g.answer[i]
  BY <1>1, FirstMarkersFact
<1> HIDE DEF m
<1>3. CASE m # <<>>
  <2>1. A!Indexes(g) = m /\ A!Marked(g) = g.answer
    BY <1>3 DEF A!Indexes, A!Marked, m
  <2>2. QED
    BY <1>1, <1>2, <2>1
<1>4. CASE m = <<>>
  <2> DEFINE a == g.answer
             x == g.indexes
             both == a \o x
  <2>1. A!Indexes(g) = x /\ A!Marked(g) = both
    BY <1>4 DEF A!Indexes, A!Marked, m
  <2>2. \A i \in DOMAIN a : a[i] = 0
    BY <1>2, <1>4
  <2>3. a \in Seq(Nat) /\ x \in Seq(Nat) /\ x \in Seq(Nat \ {0}) /\ Once(x)
    BY <1>1
  <2> HIDE DEF a, x
  <2>4. /\ both \in Seq(Nat)
        /\ \A i \in DOMAIN both :
              (i \in DOMAIN a /\ both[i] = a[i])
              \/ (i - Len(a) \in DOMAIN x /\ both[i] = x[i - Len(a)])
        /\ \A k \in DOMAIN x : Len(a) + k \in DOMAIN both /\ both[Len(a) + k] = x[k]
    BY <2>3, ConcatFact
  <2> HIDE DEF both
  <2>5. \A i \in DOMAIN both : both[i] # 0 => \E k \in DOMAIN x : x[k] = both[i]
    BY <2>2, <2>4
  <2>6. \A k \in DOMAIN x : \E i \in DOMAIN both : x[k] = both[i]
    BY <2>4
  <2>7. QED
    BY <2>1, <2>3, <2>4, <2>5, <2>6
<1>5. QED
  BY <1>3, <1>4

\* The first n elements of a sequence.
LEMMA CutFact ==
  ASSUME NEW S, NEW s \in Seq(S), NEW n \in Nat
  PROVE  /\ A!Cut(s, n) \in Seq(S)
         /\ Len(A!Cut(s, n)) = A!Smaller(n, Len(s))
         /\ \A i \in DOMAIN A!Cut(s, n) : i \in DOMAIN s /\ i <= n /\ A!Cut(s, n)[i] = s[i]
<1>1. A!Smaller(n, Len(s)) \in 0..Len(s) /\ A!Smaller(n, Len(s)) <= n
  BY DEF A!Smaller
<1>2. QED
  BY <1>1 DEF A!Cut
-----------------------------------------------------------------------------
(* From the answer to the message.                                         *)

\* What is generated without a model.
Quotation(c) ==
  [answer |-> <<A!Word>> \o A!Cut(Content[c], QuoteLimit) \o <<1>>,
   indexes |-> <<1>>, refused |-> FALSE]

\* What was made of an answer that is about to be sent.
ValidatedOk ==
  IF generated.refused
    THEN answer.refused /\ answer.text = generated.answer /\ citations = <<>>
    ELSE /\ ~answer.refused /\ A!InRange(generated)
         /\ answer.text = A!Renumbered(generated)
         /\ citations = [k \in DOMAIN A!Indexes(generated) |->
                            candidates[A!Indexes(generated)[k]]]

\* What is known of an answer at each stage.
AnswerInv ==
  /\ keyword \in Seq(Chunks) /\ vector \in Seq(Chunks) /\ candidates \in Seq(Chunks)
  /\ generated \in Generations
  /\ quoted => /\ candidates # <<>> /\ generated = Quotation(candidates[1])
               /\ answerPc \notin {"fuse", "generate"}
  /\ answerPc \in {"send", "sent"} => ValidatedOk
  /\ SentAnswerIsSound /\ QuoteCitesItsPassage

\* Text and citations of an answer that may be sent belong together.
LEMMA CitedFact ==
  ASSUME NEW g \in Generations, NEW list \in Seq(Chunks),
         \A k \in DOMAIN A!Indexes(g) : A!Indexes(g)[k] \in DOMAIN list
  PROVE  LET cited == [k \in DOMAIN A!Indexes(g) |-> list[A!Indexes(g)[k]]] IN
         /\ cited \in Seq(Chunks)
         /\ A!Renumbered(g) \in Seq(Nat)
         /\ \A i \in DOMAIN A!Renumbered(g) :
              /\ i \in DOMAIN A!Marked(g)
              /\ A!Marked(g)[i] # 0 =>
                   /\ A!Renumbered(g)[i] \in DOMAIN cited
                   /\ cited[A!Renumbered(g)[i]] = list[A!Marked(g)[i]]
         /\ A!Range(cited) = {list[k] : k \in A!Range(A!Marked(g)) \ {0}}
         /\ A!Range(A!Renumbered(g)) \ {0} = DOMAIN cited
<1> DEFINE x == A!Indexes(g)
           m == A!Marked(g)
           r == A!Renumbered(g)
           cited == [k \in DOMAIN x |-> list[x[k]]]
<1>1. /\ x \in Seq(Nat \ {0}) /\ Once(x) /\ m \in Seq(Nat)
      /\ \A i \in DOMAIN m : m[i] # 0 => \E k \in DOMAIN x : x[k] = m[i]
      /\ \A k \in DOMAIN x : \E i \in DOMAIN m : x[k] = m[i]
  BY MarkedFact
<1>2. r = [i \in DOMAIN m |-> IF m[i] = 0 THEN 0 ELSE A!Rank(x, m[i])]
  BY DEF A!Renumbered, A!Word
<1>3. \A k \in DOMAIN x : x[k] \in DOMAIN list /\ x[k] # 0 /\ list[x[k]] \in Chunks
  <2>1. \A k \in DOMAIN x : x[k] \in Nat \ {0}
    BY <1>1
  <2>2. \A k \in DOMAIN list : list[k] \in Chunks
    OBVIOUS
  <2>3. QED
    BY <2>1, <2>2
<1> HIDE DEF x, m, r
<1>4. \A i \in DOMAIN m :
        /\ A!Rank(x, m[i]) \in Nat
        /\ m[i] # 0 => A!Rank(x, m[i]) \in DOMAIN x /\ x[A!Rank(x, m[i])] = m[i]
  BY <1>1, RankFact
<1>5. cited \in Seq(Chunks) /\ DOMAIN cited = DOMAIN x
  <2>1. Len(x) \in Nat /\ DOMAIN x = 1..Len(x)
    BY <1>1
  <2>2. cited \in [1..Len(x) -> Chunks]
    BY <1>3, <2>1
  <2>3. \A q \in Nat : \A f \in [1..q -> Chunks] : f \in Seq(Chunks)
    OBVIOUS
  <2> HIDE DEF cited
  <2>4. cited \in Seq(Chunks)
    BY <2>1, <2>2, <2>3
  <2>5. QED
    BY <2>4 DEF cited
<1>6. r \in Seq(Nat) /\ DOMAIN r = DOMAIN m
  <2>1. Len(m) \in Nat /\ DOMAIN m = 1..Len(m)
    BY <1>1
  <2> DEFINE value(i) == IF m[i] = 0 THEN 0 ELSE A!Rank(x, m[i])
  <2>2. \A i \in DOMAIN m : value(i) \in Nat
    BY <1>4
  <2>3. r = [i \in DOMAIN m |-> value(i)]
    BY <1>2
  <2> HIDE DEF value
  <2>4. r \in [1..Len(m) -> Nat]
    BY <2>1, <2>2, <2>3
  <2>5. \A q \in Nat : \A f \in [1..q -> Nat] : f \in Seq(Nat)
    OBVIOUS
  <2>6. QED
    BY <2>1, <2>3, <2>4, <2>5
<1>7. ASSUME NEW i \in DOMAIN m, m[i] # 0
      PROVE  r[i] \in DOMAIN cited /\ cited[r[i]] = list[m[i]]
  <2>1. r[i] = A!Rank(x, m[i])
    BY <1>2, <1>7
  <2>2. r[i] \in DOMAIN x /\ x[r[i]] = m[i]
    BY <1>4, <1>7, <2>1
  <2>3. QED
    BY <1>5, <2>2
<1>8. A!Range(cited) = {list[k] : k \in A!Range(m) \ {0}}
  <2>1. ASSUME NEW k \in DOMAIN x PROVE \E i \in DOMAIN m : m[i] # 0 /\ cited[k] = list[m[i]]
    <3>1. PICK i \in DOMAIN m : x[k] = m[i]
      BY <1>1
    <3>2. QED
      BY <1>3, <3>1
  <2>2. ASSUME NEW i \in DOMAIN m, m[i] # 0 PROVE \E k \in DOMAIN x : cited[k] = list[m[i]]
    BY <1>1, <2>2
  <2>3. A!Range(m) = {m[i] : i \in DOMAIN m} /\ A!Range(cited) = {cited[k] : k \in DOMAIN x}
    BY DEF A!Range
  <2> HIDE DEF cited
  <2>4. QED
    BY <2>1, <2>2, <2>3
<1>9. A!Range(r) \ {0} = DOMAIN cited
  <2>1. \A k \in DOMAIN x : k # 0
    BY <1>1
  <2>2. ASSUME NEW k \in DOMAIN x PROVE \E i \in DOMAIN r : r[i] = k
    <3>1. PICK i \in DOMAIN m : x[k] = m[i]
      BY <1>1
    <3>2. r[i] = A!Rank(x, m[i]) /\ r[i] \in DOMAIN x /\ x[r[i]] = m[i]
      BY <1>2, <1>3, <1>4, <3>1
    <3>3. QED
      BY <1>1, <1>6, <3>1, <3>2 DEF Once
  <2>3. ASSUME NEW i \in DOMAIN r, r[i] # 0 PROVE r[i] \in DOMAIN x
    BY <1>2, <1>4, <1>6, <2>3
  <2>4. A!Range(r) = {r[i] : i \in DOMAIN r}
    BY DEF A!Range
  <2> HIDE DEF cited
  <2>5. QED
    BY <1>5, <2>1, <2>2, <2>3, <2>4
<1>10. QED
  BY <1>5, <1>6, <1>7, <1>8, <1>9 DEF x, m, r

\* A quotation without a marker of its own cites the best candidate.
LEMMA QuotationFact ==
  ASSUME NEW c \in Chunks
  PROVE  /\ Quotation(c) \in Generations
         /\ A!Range(Content[c]) \subseteq {A!Word} => A!Indexes(Quotation(c)) = <<1>>
<1> DEFINE s == Content[c]
           p == A!Cut(s, QuoteLimit)
           t == <<0>> \o p \o <<1>>
<1>1. p \in Seq(Nat) /\ \A i \in DOMAIN p : \E j \in DOMAIN Content[c] : p[i] = Content[c][j]
  <2>1. Content[c] \in Seq(Nat) /\ QuoteLimit \in Nat
    BY PassagesAssumption
  <2>2. p \in Seq(Nat) /\ \A i \in DOMAIN p : i \in DOMAIN s /\ p[i] = s[i]
    <3>1. s \in Seq(Nat) /\ QuoteLimit \in Nat
      BY <2>1
    <3> HIDE DEF s
    <3>2. A!Cut(s, QuoteLimit) \in Seq(Nat)
      BY <3>1, CutFact
    <3>3. \A i \in DOMAIN A!Cut(s, QuoteLimit) :
            i \in DOMAIN s /\ A!Cut(s, QuoteLimit)[i] = s[i]
      BY <3>1, CutFact
    <3>4. QED
      BY <3>2, <3>3
  <2> HIDE DEF p
  <2>3. QED
    BY <2>2
<1> HIDE DEF p
<1>2. /\ t \in Seq(Nat) /\ DOMAIN t = 1..(Len(p) + 2) /\ Len(p) \in Nat
      /\ t[1] = 0 /\ t[Len(p) + 2] = 1
      /\ \A i \in 2..(Len(p) + 1) : i - 1 \in DOMAIN p /\ t[i] = p[i - 1]
  BY <1>1
<1>3. Quotation(c) = [answer |-> t, indexes |-> <<1>>, refused |-> FALSE]
  BY DEF Quotation, A!Word, p
<1> HIDE DEF t
<1>4. Quotation(c) \in Generations
  <2>1. <<1>> \in Seq(Nat \ {0}) /\ Once(<<1>>)
    BY DEF Once
  <2>2. QED
    BY <1>2, <1>3, <2>1 DEF Generations
<1>5. ASSUME A!Range(Content[c]) \subseteq {A!Word} PROVE A!FirstMarkers(t) = <<1>>
  <2> DEFINE n == Len(p) + 2
             first == {i \in DOMAIN t : t[i] # A!Word /\ \A j \in 1..(i - 1) : t[j] # t[i]}
             R == {pair \in first \X first : pair[1] < pair[2]}
             places == A!Ordered(first, R)
  <2>1. \A i \in DOMAIN t : t[i] = 0 \/ i = n
    <3>1. \A i \in DOMAIN p : p[i] = 0
      BY <1>1, <1>5 DEF A!Range, A!Word
    <3>2. QED
      BY <1>2, <3>1
  <2>2. first = {n}
    <3>1. n \in DOMAIN t /\ t[n] = 1 /\ DOMAIN t = 1..n /\ n \in Nat
      BY <1>2
    <3> HIDE DEF n
    <3>2. \A i \in DOMAIN t : i # n => t[i] = 0
      BY <2>1
    <3>3. \A j \in 1..(n - 1) : t[j] # t[n]
      BY <3>1, <3>2
    <3>4. n \in first
      BY <3>1, <3>3 DEF A!Word
    <3>5. \A i \in first : i = n
      BY <3>2 DEF A!Word
    <3> HIDE DEF first
    <3>6. QED
      BY <3>4, <3>5
  <2>3. A!FirstMarkers(t) = [k \in DOMAIN places |-> t[places[k]]]
    BY DEF A!FirstMarkers
  <2>4. Enumerates(places, Cardinality(first), first, R)
    <3>1. first \in SUBSET (1..n) /\ n \in Nat
      BY <1>2
    <3> HIDE DEF first, n
    <3>2. QED
      BY <3>1, PlacesFact
  <2>5. Cardinality(first) = 1
    BY <2>2, FS_Singleton
  <2> HIDE DEF places, first, R
  <2>6. DOMAIN places = 1..1 /\ places[1] = n
    <3>1. Enumerates(places, 1, {n}, R)
      BY <2>2, <2>4, <2>5
    <3> HIDE DEF n
    <3>2. QED
      BY <3>1 DEF Enumerates
  <2>7. A!FirstMarkers(t) = [k \in 1..1 |-> 1]
    <3>1. \A k \in 1..1 : t[places[k]] = 1
      BY <1>2, <2>6
    <3>2. QED
      BY <2>3, <2>6, <3>1
  <2>8. QED
    BY <2>7
<1>6. A!FirstMarkers(t) = <<1>> => A!Indexes(Quotation(c)) = <<1>>
  BY <1>3 DEF A!Indexes
<1>7. QED
  BY <1>4, <1>5, <1>6

\* The size of a text is a number of bytes.
LEMMA BytesFact ==
  ASSUME NEW t \in Seq(Nat)
  PROVE  A!Bytes(t) \in Nat
<1> DEFINE words == {i \in DOMAIN t : t[i] = A!Word}
           others == DOMAIN t \ words
<1>1. IsFiniteSet(words) /\ IsFiniteSet(others)
  <2>1. DOMAIN t = 1..Len(t) /\ Len(t) \in Nat
    OBVIOUS
  <2>2. IsFiniteSet(DOMAIN t)
    BY <2>1, FS_Interval
  <2>3. words \in SUBSET DOMAIN t /\ others \in SUBSET DOMAIN t
    OBVIOUS
  <2> HIDE DEF words, others
  <2>4. QED
    BY <2>2, <2>3, FS_Subset
<1>2. A!Bytes(t) = WordBytes * A!Cardinality(words) + MarkerBytes * A!Cardinality(others)
  BY DEF A!Bytes
<1> HIDE DEF words, others
<1>3. /\ A!Cardinality(words) = Cardinality(words)
      /\ A!Cardinality(others) = Cardinality(others)
  BY DEF A!Cardinality, Cardinality
<1>4. Cardinality(words) \in Nat /\ Cardinality(others) \in Nat
  BY <1>1, FS_CardinalityType
<1>5. \A a, b \in Nat : a * b \in Nat
  OBVIOUS
<1>6. WordBytes * Cardinality(words) \in Nat /\ MarkerBytes * Cardinality(others) \in Nat
  BY <1>4, <1>5, BytesAssumption
<1>7. QED
  BY <1>2, <1>3, <1>6

\* So is that of the names of the sources.
LEMMA SuffixFact ==
  ASSUME citations \in Seq(Chunks), NEW n \in 0..Len(citations)
  PROVE  A!SuffixBytes(n) \in Nat
<1> DEFINE D(k) == {k} \X (1..SourceBytes[citations[k]])
           parts == {D(k) : k \in 1..n}
<1>1. IsFiniteSet(parts)
  <2>1. IsFiniteSet(1..n)
    BY FS_Interval
  <2> DEFINE h == [k \in 1..n |-> D(k)]
  <2>2. h \in [1..n -> parts] /\ \A p \in parts : \E k \in 1..n : h[k] = p
    OBVIOUS
  <2> HIDE DEF h, parts
  <2>3. h \in Surjection(1..n, parts)
    BY <2>2 DEF Surjection
  <2>4. QED
    BY <2>1, <2>3, FS_Surjection
<1>2. ASSUME NEW k \in 1..n PROVE IsFiniteSet(D(k))
  <2>1. SourceBytes[citations[k]] \in Nat
    <3>1. citations[k] \in Chunks
      OBVIOUS
    <3>2. QED
      BY <3>1, PassagesAssumption
  <2>2. IsFiniteSet(1..SourceBytes[citations[k]])
    <3>1. \A b \in Nat : IsFiniteSet(1..b)
      BY FS_Interval
    <3>2. QED
      BY <2>1, <3>1
  <2>3. IsFiniteSet({k})
    BY FS_Singleton
  <2>4. QED
    BY <2>2, <2>3, FS_Product
<1>3. IsFiniteSet(UNION parts)
  BY <1>1, <1>2, FS_UNION
<1>4. A!SourceLines(n) = UNION parts
  BY DEF A!SourceLines
<1> HIDE DEF parts
<1>5. A!Cardinality(A!SourceLines(n)) \in Nat
  <2>1. Cardinality(UNION parts) \in Nat
    BY <1>3, FS_CardinalityType
  <2>2. QED
    BY <1>4, <2>1 DEF A!Cardinality, Cardinality
<1>6. QED
  BY <1>5, BytesAssumption DEF A!SuffixBytes

\* How many parts fit is one of the numbers from 0 to n.
LEMMA FittingFact ==
  ASSUME NEW n \in Nat, NEW T \in SUBSET (1..n)
  PROVE  A!Max({0} \cup T) \in 0..n
<1> DEFINE U == {0} \cup T
<1>1. U \in SUBSET Int /\ U # {} /\ \A y \in U : y \in 0..n
  OBVIOUS
<1> HIDE DEF U
<1>2. Max(U) \in U
  BY <1>1, MaxFact
<1>3. A!Max(U) = Max(U)
  BY DEF A!Max, Max
<1>4. QED
  BY <1>1, <1>2, <1>3 DEF U

\* An accepted answer, marked anew, cites what its markers meant.
LEMMA ValidatedFact ==
  ASSUME AnswerInv, ValidatedOk
  PROVE  /\ answer.text \in Seq(Nat) /\ citations \in Seq(Chunks)
         /\ answer.refused => citations = <<>>
         /\ ~answer.refused =>
              /\ \A i \in DOMAIN answer.text :
                   A!Marked(generated)[i] # 0 =>
                     /\ answer.text[i] \in DOMAIN citations
                     /\ citations[answer.text[i]] = candidates[A!Marked(generated)[i]]
              /\ A!Range(citations) =
                   {candidates[k] : k \in A!Range(A!Marked(generated)) \ {A!Word}}
              /\ A!MarkersMatch
<1>1. generated \in Generations /\ candidates \in Seq(Chunks)
  BY DEF AnswerInv
<1>2. CASE generated.refused
  <2>1. generated.answer \in Seq(Nat)
    BY <1>1 DEF Generations
  <2>2. answer.refused /\ answer.text = generated.answer /\ citations = <<>>
    BY <1>2 DEF ValidatedOk
  <2>3. QED
    BY <2>1, <2>2
<1>3. CASE ~generated.refused
  <2> DEFINE cited == [k \in DOMAIN A!Indexes(generated) |->
                         candidates[A!Indexes(generated)[k]]]
  <2>1. /\ ~answer.refused /\ A!InRange(generated)
        /\ answer.text = A!Renumbered(generated) /\ citations = cited
    BY <1>3 DEF ValidatedOk
  <2>2. \A k \in DOMAIN A!Indexes(generated) : A!Indexes(generated)[k] \in DOMAIN candidates
    BY <2>1 DEF A!InRange, A!Range
  <2>3. /\ cited \in Seq(Chunks)
        /\ A!Renumbered(generated) \in Seq(Nat)
        /\ \A i \in DOMAIN A!Renumbered(generated) :
             /\ i \in DOMAIN A!Marked(generated)
             /\ A!Marked(generated)[i] # 0 =>
                  /\ A!Renumbered(generated)[i] \in DOMAIN cited
                  /\ cited[A!Renumbered(generated)[i]] = candidates[A!Marked(generated)[i]]
        /\ A!Range(cited) = {candidates[k] : k \in A!Range(A!Marked(generated)) \ {0}}
        /\ A!Range(A!Renumbered(generated)) \ {0} = DOMAIN cited
    BY <1>1, <2>2, CitedFact
  <2> HIDE DEF cited
  <2>4. A!MarkersMatch
    BY <2>1, <2>3 DEF A!MarkersMatch, A!Word
  <2>5. QED
    BY <2>1, <2>3, <2>4 DEF A!Word
<1>4. QED
  BY <1>2, <1>3

\* The message that is sent.
LEMMA SendStep ==
  ASSUME AnswerInv, A!Send
  PROVE  SentAnswerIsSound'
<1> DEFINE t == answer.text
           all == Len(citations)
           suffix == A!SuffixBytes(all)
           whole == A!Bytes(t)
           room == Limit - suffix - EllipsisBytes
<1>1. /\ answerPc = "send" /\ answerPc' = "sent"
      /\ UNCHANGED <<candidates, generated, answer, citations>>
  BY DEF A!Send
<1>2. ValidatedOk
  BY <1>1 DEF AnswerInv
<1>3. /\ t \in Seq(Nat) /\ citations \in Seq(Chunks)
      /\ answer.refused => citations = <<>>
      /\ ~answer.refused =>
           /\ \A i \in DOMAIN t :
                A!Marked(generated)[i] # 0 =>
                  /\ t[i] \in DOMAIN citations
                  /\ citations[t[i]] = candidates[A!Marked(generated)[i]]
           /\ A!Range(citations) = {candidates[k] : k \in A!Range(A!Marked(generated)) \ {A!Word}}
           /\ A!MarkersMatch
  BY <1>2, ValidatedFact
<1>4. all \in Nat /\ suffix \in Nat /\ whole \in Nat /\ Limit \in Nat /\ EllipsisBytes \in Nat
  <2>1. all \in Nat /\ all \in 0..Len(citations)
    BY <1>3
  <2>2. suffix \in Nat
    BY <1>3, <2>1, SuffixFact
  <2>3. QED
    BY <1>3, <2>1, <2>2, BytesFact, BytesAssumption
<1> DEFINE Sound(m) ==
             /\ m.bytes <= Limit
             /\ \A i \in DOMAIN m.body : i \in DOMAIN t /\ m.body[i] = t[i]
             /\ m.sources < all => suffix + EllipsisBytes >= Limit - 1
<1>5. ASSUME NEW n \in Nat
      PROVE  \A i \in DOMAIN A!Cut(t, n) : i \in DOMAIN t /\ A!Cut(t, n)[i] = t[i]
  <2>1. t \in Seq(Nat)
    BY <1>3
  <2> HIDE DEF t
  <2>2. QED
    BY <2>1, CutFact
<1>6. Sound(message')
  <2>1. CASE whole + suffix <= Limit
    <3>1. message' = [body |-> t, sources |-> all, bytes |-> whole + suffix]
      BY <2>1 DEF A!Send
    <3>2. QED
      BY <1>4, <2>1, <3>1
  <2>2. CASE ~(whole + suffix <= Limit) /\ A!TooManySources(suffix)
    <3> DEFINE parts == {k \in 1..Len(t) : A!Bytes(A!Cut(t, k)) <= Limit}
               fits == A!Max({0} \cup parts)
    <3>1. PICK named : message' = [body |-> A!Cut(t, fits), sources |-> named, bytes |-> Limit]
      BY <2>2 DEF A!Send, A!Fitting
    <3>2. fits \in Nat
      <4>1. Len(t) \in Nat /\ parts \in SUBSET (1..Len(t))
        BY <1>3
      <4> HIDE DEF parts
      <4>2. A!Max({0} \cup parts) \in 0..Len(t)
        BY <4>1, FittingFact
      <4>3. QED
        BY <4>1, <4>2
    <3> HIDE DEF parts, fits
    <3>3. suffix + EllipsisBytes >= Limit - 1
      BY <1>4, <2>2 DEF A!TooManySources
    <3>4. QED
      BY <1>4, <1>5, <3>1, <3>2, <3>3
  <2>3. CASE ~(whole + suffix <= Limit) /\ ~A!TooManySources(suffix)
    <3> DEFINE parts == {k \in 1..Len(t) : A!Bytes(A!Cut(t, k)) <= room}
               fits == A!Max({0} \cup parts)
               bytes == A!Smaller(whole, A!Max({room, 0})) + EllipsisBytes + suffix
    <3>1. message' = [body |-> A!Cut(t, fits), sources |-> all, bytes |-> bytes]
      BY <2>3 DEF A!Send, A!Fitting
    <3>2. fits \in Nat
      <4>1. Len(t) \in Nat /\ parts \in SUBSET (1..Len(t))
        BY <1>3
      <4> HIDE DEF parts
      <4>2. A!Max({0} \cup parts) \in 0..Len(t)
        BY <4>1, FittingFact
      <4>3. QED
        BY <4>1, <4>2
    <3>3. bytes <= Limit
      <4>1. room \in Nat
        BY <1>4, <2>3 DEF A!TooManySources
      <4> DEFINE T == {room, 0}
      <4>2. T \in SUBSET Int /\ T # {} /\ \A y \in T : y <= room
        BY <4>1
      <4> HIDE DEF T
      <4>3. Max(T) \in T /\ \A y \in T : y <= Max(T)
        BY <4>1, <4>2, MaxFact
      <4>4. A!Max(T) = Max(T)
        BY DEF A!Max, Max
      <4>5. A!Max({room, 0}) = room
        BY <4>1, <4>3, <4>4 DEF T
      <4>6. QED
        BY <1>4, <4>5 DEF A!Smaller
    <3> HIDE DEF parts, fits, bytes
    <3>4. QED
      BY <1>4, <1>5, <3>1, <3>2, <3>3
  <2>4. QED
    BY <2>1, <2>2, <2>3
<1>7. suffix' = suffix /\ all' = all
  BY <1>1 DEF A!SuffixBytes, A!SourceLines
<1> HIDE DEF suffix, all, whole
<1>8. /\ message'.bytes <= Limit
      /\ \A i \in DOMAIN message'.body : i \in DOMAIN t /\ message'.body[i] = t[i]
      /\ message'.sources < all => suffix + EllipsisBytes >= Limit - 1
  BY <1>6
<1>9. ~answer.refused => \A i \in DOMAIN message'.body :
        A!Marked(generated)[i] # A!Word =>
          /\ message'.body[i] \in DOMAIN citations
          /\ citations[message'.body[i]] = candidates[A!Marked(generated)[i]]
  BY <1>3, <1>8 DEF A!Word
<1>10. A!MarkersMatch' <=> A!MarkersMatch
  BY <1>1 DEF A!MarkersMatch
<1>11. QED
  BY <1>1, <1>3, <1>7, <1>8, <1>9, <1>10 DEF SentAnswerIsSound, A!SentAnswerIsSound, suffix, all

-----------------------------------------------------------------------------
(* Reciprocal rank fusion.                                                 *)

\* A factor that is not 0 may be dropped from both sides.
LEMMA CancelFact ==
  ASSUME NEW x \in Int, NEW y \in Int, NEW q \in Nat \ {0}
  PROVE  /\ x * q >= y * q <=> x >= y
         /\ x * q > y * q <=> x > y
  OBVIOUS

\* Products of several factors, in the order needed.
LEMMA ProductFact ==
  ASSUME NEW x \in Int, NEW y \in Int, NEW z \in Int
  PROVE  /\ x * y \in Int
         /\ (x * y) * z = (x * z) * y
         /\ (x * y) * z = x * (y * z)
         /\ x * y = y * x
         /\ (x + y) * z = x * z + y * z
  OBVIOUS

\* Fractions <<a, p>>, <<b, q>> and <<c, r>>, each not less than the next.
LEMMA FractionOrder ==
  ASSUME NEW a \in Nat, NEW p \in Nat \ {0},
         NEW b \in Nat, NEW q \in Nat \ {0},
         NEW c \in Nat, NEW r \in Nat \ {0},
         a * q >= b * p, b * r >= c * q
  PROVE  /\ a * r >= c * p
         /\ (a * q > b * p \/ b * r > c * q) => a * r > c * p
<1>1. /\ a * q \in Int /\ b * p \in Int /\ b * r \in Int /\ c * q \in Int
      /\ a * r \in Int /\ c * p \in Int
  BY ProductFact
<1>2. (a * q) * r >= (b * p) * r /\ (a * q > b * p => (a * q) * r > (b * p) * r)
  BY <1>1, CancelFact
<1>3. (b * r) * p >= (c * q) * p /\ (b * r > c * q => (b * r) * p > (c * q) * p)
  BY <1>1, CancelFact
<1>4. (a * q) * r = (a * r) * q /\ (b * p) * r = (b * r) * p /\ (c * q) * p = (c * p) * q
  BY ProductFact
<1>5. /\ (a * q) * r \in Int /\ (b * p) * r \in Int /\ (c * q) * p \in Int
      /\ (a * r) * q \in Int /\ (b * r) * p \in Int /\ (c * p) * q \in Int
  BY <1>1, ProductFact
<1>6. /\ (a * r) * q >= (c * p) * q
      /\ (a * q > b * p \/ b * r > c * q) => (a * r) * q > (c * p) * q
  BY <1>2, <1>3, <1>4, <1>5
<1>7. QED
  BY <1>1, <1>6, CancelFact

\* The sum of two fractions grows with each of them.
LEMMA FractionSum ==
  ASSUME NEW a \in Nat, NEW p \in Nat \ {0}, NEW b \in Nat, NEW q \in Nat \ {0},
         NEW c \in Nat, NEW r \in Nat \ {0}, NEW d \in Nat, NEW s \in Nat \ {0},
         a * r >= c * p, b * s >= d * q, a * r > c * p \/ b * s > d * q
  PROVE  (a * q + b * p) * (r * s) > (c * s + d * r) * (p * q)
<1>1. a * r \in Int /\ c * p \in Int /\ b * s \in Int /\ d * q \in Int
  BY ProductFact
<1>2. q * s \in Nat \ {0} /\ p * r \in Nat \ {0}
  OBVIOUS
<1>3. /\ (a * r) * (q * s) >= (c * p) * (q * s)
      /\ a * r > c * p => (a * r) * (q * s) > (c * p) * (q * s)
  BY <1>1, <1>2, CancelFact
<1>4. /\ (b * s) * (p * r) >= (d * q) * (p * r)
      /\ b * s > d * q => (b * s) * (p * r) > (d * q) * (p * r)
  BY <1>1, <1>2, CancelFact
<1>5. (a * q + b * p) * (r * s) = (a * r) * (q * s) + (b * s) * (p * r)
  OBVIOUS
<1>6. (c * s + d * r) * (p * q) = (c * p) * (q * s) + (d * q) * (p * r)
  OBVIOUS
<1>7. /\ (a * r) * (q * s) \in Int /\ (c * p) * (q * s) \in Int
      /\ (b * s) * (p * r) \in Int /\ (d * q) * (p * r) \in Int
  BY <1>1, <1>2, ProductFact
<1>8. QED
  BY <1>3, <1>4, <1>5, <1>6, <1>7

\* Two shares of places up to 61 are more than one share.
LEMMA TwoShares ==
  ASSUME NEW p \in 61..121, NEW q \in 61..121, NEW r \in Nat, r >= 61
  PROVE  (q + p) * r > p * q
<1>1. 2 * (p * q) <= 121 * (p + q)
  <2>1. p * q <= 121 * q
    BY CancelFact
  <2>2. q * p <= 121 * p
    BY CancelFact
  <2>3. p * q = q * p /\ p * q \in Int
    BY ProductFact
  <2>4. QED
    BY <2>1, <2>2, <2>3
<1>2. (q + p) * r >= (q + p) * 61
  <2>1. r * (q + p) >= 61 * (q + p)
    <3>1. q + p \in Nat \ {0}
      OBVIOUS
    <3>2. QED
      BY <3>1, CancelFact
  <2>2. r * (q + p) = (q + p) * r
    OBVIOUS
  <2>3. QED
    BY <2>1, <2>2
<1>3. p * q \in Int /\ (q + p) * r \in Int
  BY ProductFact
<1>4. QED
  BY <1>1, <1>2, <1>3

\* What the two searches returned.
Lists == keyword \in Seq(Chunks) /\ vector \in Seq(Chunks)

\* The shares of a chunk are fractions.
LEMMA ShareFact ==
  ASSUME Lists, NEW list \in {keyword, vector}, NEW c
  PROVE  /\ A!Rank(list, c) \in 0..Len(list) /\ Len(list) \in Nat
         /\ A!Share(list, c) =
              IF A!Rank(list, c) = 0 THEN <<0, 1>> ELSE <<1, 60 + A!Rank(list, c)>>
         /\ A!Share(list, c)[1] \in Nat /\ A!Share(list, c)[2] \in Nat \ {0}
<1>1. list \in Seq(Chunks) /\ Len(list) \in Nat /\ DOMAIN list = 1..Len(list)
  BY DEF Lists
<1>2. A!Rank(list, c) \in Nat /\ (A!Rank(list, c) # 0 => A!Rank(list, c) \in DOMAIN list)
  BY <1>1, RankFact
<1>3. A!Share(list, c) = IF A!Rank(list, c) = 0 THEN <<0, 1>> ELSE <<1, 60 + A!Rank(list, c)>>
  BY DEF A!Share, A!RrfK
<1>4. QED
  BY <1>1, <1>2, <1>3

\* So is their sum.
LEMMA ScoreFact ==
  ASSUME Lists, NEW c
  PROVE  /\ A!Score(c)[1] = A!Share(keyword, c)[1] * A!Share(vector, c)[2]
                            + A!Share(vector, c)[1] * A!Share(keyword, c)[2]
         /\ A!Score(c)[2] = A!Share(keyword, c)[2] * A!Share(vector, c)[2]
         /\ A!Score(c)[1] \in Nat /\ A!Score(c)[2] \in Nat \ {0}
<1> DEFINE p == A!Share(keyword, c)
           q == A!Share(vector, c)
<1>1. p[1] \in Nat /\ p[2] \in Nat \ {0} /\ q[1] \in Nat /\ q[2] \in Nat \ {0}
  BY ShareFact
<1>2. A!Score(c) = <<p[1] * q[2] + q[1] * p[2], p[2] * q[2]>>
  BY DEF A!Score
<1> HIDE DEF p, q
<1>3. A!Score(c)[1] = p[1] * q[2] + q[1] * p[2] /\ A!Score(c)[2] = p[2] * q[2]
  BY <1>2
<1>4. \A x, y \in Nat : x * y \in Nat /\ (x # 0 /\ y # 0 => x * y # 0)
  OBVIOUS
<1>5. p[1] * q[2] \in Nat /\ q[1] * p[2] \in Nat /\ p[2] * q[2] \in Nat \ {0}
  BY <1>1, <1>4
<1>6. QED
  BY <1>3, <1>5 DEF p, q

\* What was found is finite, and ordered by the scores.
LEMMA RankingFact ==
  ASSUME Lists
  PROVE  /\ A!Found \in SUBSET Chunks /\ IsFiniteSet(A!Found) /\ Cardinality(A!Found) \in Nat
         /\ A!Cardinality(A!Found) = Cardinality(A!Found)
         /\ Enumerates(A!Ordered(A!Found, A!Ranking), Cardinality(A!Found), A!Found, A!Ranking)
<1> DEFINE F == A!Found
           R == A!Ranking
<1>1. ASSUME NEW list \in Seq(Chunks)
      PROVE  A!Range(list) \in SUBSET Chunks /\ IsFiniteSet(A!Range(list))
  <2>1. DOMAIN list = 1..Len(list) /\ Len(list) \in Nat /\ IsFiniteSet(1..Len(list))
    BY FS_Interval
  <2>2. list \in Surjection(1..Len(list), A!Range(list))
    <3>1. A!Range(list) = {list[i] : i \in DOMAIN list}
      BY DEF A!Range
    <3>2. list \in [1..Len(list) -> A!Range(list)]
      BY <2>1, <3>1
    <3>3. \A y \in A!Range(list) : \E i \in 1..Len(list) : list[i] = y
      BY <2>1, <3>1
    <3>4. QED
      BY <3>2, <3>3 DEF Surjection
  <2>3. IsFiniteSet(A!Range(list))
    BY <2>1, <2>2, FS_Surjection
  <2>4. QED
    BY <2>3 DEF A!Range
<1>2. F \in SUBSET Chunks /\ IsFiniteSet(F)
  <2>1. F = A!Range(keyword) \cup A!Range(vector)
    BY DEF A!Found
  <2>2. keyword \in Seq(Chunks) /\ vector \in Seq(Chunks)
    BY DEF Lists
  <2>3. QED
    BY <1>1, <2>1, <2>2, FS_Union
<1>3. R = {pair \in F \X F : A!Before(pair[1], pair[2])}
  BY DEF A!Ranking
<1>4. F \in SUBSET Nat
  BY <1>2, PassagesAssumption
<1> HIDE DEF F, R
<1>5. \A x, y : <<x, y>> \in R <=> x \in F /\ y \in F /\ A!Before(x, y)
  <2>1. ASSUME NEW x, NEW y PROVE <<x, y>> \in R <=> x \in F /\ y \in F /\ A!Before(x, y)
    BY <1>3
  <2>2. QED
    BY <2>1
<1> DEFINE n(x) == A!Score(x)[1]
           d(x) == A!Score(x)[2]
<1>6. \A x : n(x) \in Nat /\ d(x) \in Nat \ {0}
  BY ScoreFact
<1>7. \A x, y : A!Before(x, y) <=>
                  (n(x) * d(y) > n(y) * d(x) \/ (n(x) * d(y) = n(y) * d(x) /\ x < y))
  BY DEF A!Before
<1>8. \A x, y : n(x) * d(y) \in Int
  <2>1. \A a, b \in Nat : a * b \in Int
    OBVIOUS
  <2>2. QED
    BY <1>6, <2>1
<1>9. TotalOrder(R, F)
  <2>1. \A x \in F : <<x, x>> \notin R
    <3>1. \A x \in F : ~(n(x) * d(x) > n(x) * d(x)) /\ ~(x < x)
      BY <1>4, <1>8
    <3>2. QED
      BY <1>5, <1>7, <3>1
  <2>2. ASSUME NEW x \in F, NEW y \in F, NEW z \in F, <<x, y>> \in R, <<y, z>> \in R
        PROVE  <<x, z>> \in R
    <3>1. A!Before(x, y) /\ A!Before(y, z)
      BY <1>5, <2>2
    <3>2. /\ n(x) * d(y) \in Int /\ n(y) * d(x) \in Int /\ n(y) * d(z) \in Int
          /\ n(z) * d(y) \in Int /\ n(x) * d(z) \in Int /\ n(z) * d(x) \in Int
      BY <1>8
    <3>3. /\ n(x) * d(y) >= n(y) * d(x) /\ n(y) * d(z) >= n(z) * d(y)
          /\ n(x) * d(y) > n(y) * d(x) \/ n(y) * d(z) > n(z) * d(y) \/ (x < y /\ y < z)
      BY <1>7, <3>1, <3>2
    <3>4. /\ n(x) \in Nat /\ d(x) \in Nat \ {0} /\ n(y) \in Nat /\ d(y) \in Nat \ {0}
          /\ n(z) \in Nat /\ d(z) \in Nat \ {0}
      BY <1>6
    <3> HIDE DEF n, d
    <3>5. /\ n(x) * d(z) >= n(z) * d(x)
          /\ (n(x) * d(y) > n(y) * d(x) \/ n(y) * d(z) > n(z) * d(y)) =>
               n(x) * d(z) > n(z) * d(x)
      BY <3>3, <3>4, FractionOrder
    <3>6. x < y /\ y < z => x < z
      BY <1>4
    <3>7. n(x) * d(z) > n(z) * d(x) \/ (n(x) * d(z) = n(z) * d(x) /\ x < z)
      BY <3>2, <3>3, <3>5, <3>6
    <3>8. QED
      BY <1>5, <1>7, <3>7
  <2>3. ASSUME NEW x \in F, NEW y \in F, x # y PROVE <<x, y>> \in R \/ <<y, x>> \in R
    <3>1. n(x) * d(y) \in Int /\ n(y) * d(x) \in Int /\ (x < y \/ y < x)
      BY <1>4, <1>8, <2>3
    <3> HIDE DEF n, d
    <3>2. \/ n(x) * d(y) > n(y) * d(x) \/ (n(x) * d(y) = n(y) * d(x) /\ x < y)
          \/ n(y) * d(x) > n(x) * d(y) \/ (n(y) * d(x) = n(x) * d(y) /\ y < x)
      BY <3>1
    <3>3. QED
      BY <1>5, <1>7, <3>2
  <2>4. QED
    BY <2>1, <2>2, <2>3 DEF TotalOrder
<1>10. Enumerates(A!Ordered(F, R), Cardinality(F), F, R)
  BY <1>2, <1>9, OrderedFact
<1>11. A!Cardinality(F) = Cardinality(F) /\ Cardinality(F) \in Nat
  BY <1>2, FS_CardinalityType DEF A!Cardinality, Cardinality
<1>12. QED
  BY <1>2, <1>10, <1>11 DEF F, R

\* A passage that no search ranks behind another, and one before it, has the
\* higher score.
LEMMA DominatesFact ==
  ASSUME Lists, NEW c, NEW d, A!Dominates(c, d)
  PROVE  A!Before(c, d)
<1> DEFINE s(list, x) == A!Share(list, x)
           less(list) == s(list, d)[1] * s(list, c)[2]
           more(list) == s(list, c)[1] * s(list, d)[2]
<1>1. ASSUME NEW list \in {keyword, vector}
      PROVE  /\ s(list, c)[1] \in Nat /\ s(list, c)[2] \in Nat \ {0}
             /\ s(list, d)[1] \in Nat /\ s(list, d)[2] \in Nat \ {0}
             /\ more(list) >= less(list)
             /\ A!Rank(list, c) # A!Rank(list, d) => more(list) > less(list)
  <2> DEFINE x == A!Rank(list, c)
             y == A!Rank(list, d)
  <2>1. /\ x \in Nat /\ y \in Nat
        /\ s(list, c) = IF x = 0 THEN <<0, 1>> ELSE <<1, 60 + x>>
        /\ s(list, d) = IF y = 0 THEN <<0, 1>> ELSE <<1, 60 + y>>
    BY ShareFact
  <2>2. x = 0 \/ (y # 0 /\ y < x) => x = y
    BY DEF A!Dominates
  <2> HIDE DEF x, y
  <2>3. CASE x = y
    BY <2>1, <2>3 DEF x, y
  <2>4. CASE x # y /\ y = 0
    <3>1. s(list, c) = <<1, 60 + x>> /\ s(list, d) = <<0, 1>>
      BY <2>1, <2>2, <2>4
    <3>2. QED
      BY <2>1, <3>1
  <2>5. CASE x # y /\ y # 0
    <3>1. s(list, c) = <<1, 60 + x>> /\ s(list, d) = <<1, 60 + y>> /\ x < y
      BY <2>1, <2>2, <2>5
    <3>2. QED
      BY <2>1, <3>1
  <2>6. QED
    BY <2>3, <2>4, <2>5
<1>2. A!Rank(keyword, c) # A!Rank(keyword, d) \/ A!Rank(vector, c) # A!Rank(vector, d)
  BY DEF A!Dominates
<1>3. more(keyword) > less(keyword) \/ more(vector) > less(vector)
  BY <1>1, <1>2
<1>4. /\ A!Score(c)[1] = s(keyword, c)[1] * s(vector, c)[2] + s(vector, c)[1] * s(keyword, c)[2]
      /\ A!Score(c)[2] = s(keyword, c)[2] * s(vector, c)[2]
      /\ A!Score(d)[1] = s(keyword, d)[1] * s(vector, d)[2] + s(vector, d)[1] * s(keyword, d)[2]
      /\ A!Score(d)[2] = s(keyword, d)[2] * s(vector, d)[2]
  BY ScoreFact
<1>5. A!Score(c)[1] * A!Score(d)[2] > A!Score(d)[1] * A!Score(c)[2]
  <2>1. /\ s(keyword, c)[1] \in Nat /\ s(keyword, c)[2] \in Nat \ {0}
        /\ s(keyword, d)[1] \in Nat /\ s(keyword, d)[2] \in Nat \ {0}
        /\ more(keyword) >= less(keyword)
    BY <1>1
  <2>2. /\ s(vector, c)[1] \in Nat /\ s(vector, c)[2] \in Nat \ {0}
        /\ s(vector, d)[1] \in Nat /\ s(vector, d)[2] \in Nat \ {0}
        /\ more(vector) >= less(vector)
    BY <1>1
  <2> HIDE DEF s
  <2>3. (s(keyword, c)[1] * s(vector, c)[2] + s(vector, c)[1] * s(keyword, c)[2])
          * (s(keyword, d)[2] * s(vector, d)[2])
        > (s(keyword, d)[1] * s(vector, d)[2] + s(vector, d)[1] * s(keyword, d)[2])
          * (s(keyword, c)[2] * s(vector, c)[2])
    BY <1>3, <2>1, <2>2, FractionSum
  <2>4. QED
    BY <1>4, <2>3
<1>6. QED
  BY <1>5 DEF A!Before

\* A passage that both searches found has a higher score than one that only one
\* of them found, if they return no more than 61 passages each.
LEMMA BothFact ==
  ASSUME Lists, Len(keyword) <= 61, Len(vector) <= 61,
         NEW c, NEW d \in A!Found, A!InBoth(c), ~A!InBoth(d)
  PROVE  A!Before(c, d)
<1>1. ASSUME NEW list \in {keyword, vector}, NEW x
      PROVE  /\ A!Rank(list, x) \in 0..61
             /\ A!Rank(list, x) # 0 <=> x \in A!Range(list)
  <2>1. list \in Seq(Chunks)
    BY DEF Lists
  <2>2. /\ A!Rank(list, x) # 0 <=> \E i \in DOMAIN list : list[i] = x
    BY <2>1, RankFact
  <2>3. A!Rank(list, x) \in 0..Len(list) /\ Len(list) \in Nat /\ Len(list) <= 61
    BY ShareFact
  <2>4. A!Rank(list, x) \in 0..61
    <3> DEFINE n == Len(list)
               k == A!Rank(list, x)
    <3>1. k \in 0..n /\ n \in Nat /\ n <= 61
      BY <2>3
    <3> HIDE DEF n, k
    <3>2. k \in 0..61
      BY <3>1
    <3>3. QED
      BY <3>2 DEF k
  <2>5. x \in A!Range(list) <=> \E i \in DOMAIN list : list[i] = x
    BY DEF A!Range
  <2>6. QED
    BY <2>2, <2>4, <2>5
<1> DEFINE p == 60 + A!Rank(keyword, c)
           q == 60 + A!Rank(vector, c)
<1>2. A!Rank(keyword, c) # 0 /\ A!Rank(vector, c) # 0
  BY <1>1 DEF A!InBoth
<1>3. /\ p \in 61..121 /\ A!Share(keyword, c) = <<1, p>>
      /\ q \in 61..121 /\ A!Share(vector, c) = <<1, q>>
  <2>1. p \in 61..121 /\ q \in 61..121
    <3>1. A!Rank(keyword, c) \in 0..61 /\ A!Rank(vector, c) \in 0..61
      BY <1>1
    <3>2. \A k \in 0..61 : k # 0 => 60 + k \in 61..121
      OBVIOUS
    <3>3. QED
      BY <1>2, <3>1, <3>2
  <2>2. A!Share(keyword, c) = <<1, p>> /\ A!Share(vector, c) = <<1, q>>
    BY <1>2, ShareFact
  <2>3. QED
    BY <2>1, <2>2
<1> HIDE DEF p, q
<1>4. A!Score(c)[1] = q + p /\ A!Score(c)[2] = p * q
  BY <1>3, ScoreFact
<1>5. \/ A!Rank(keyword, d) = 0 /\ A!Rank(vector, d) # 0
      \/ A!Rank(keyword, d) # 0 /\ A!Rank(vector, d) = 0
  BY <1>1 DEF A!InBoth, A!Found
<1>6. PICK r \in Nat : r >= 61 /\ A!Score(d)[1] = 1 /\ A!Score(d)[2] = r
  <2>1. CASE A!Rank(keyword, d) = 0 /\ A!Rank(vector, d) # 0
    <3> DEFINE r == 60 + A!Rank(vector, d)
    <3>1. A!Share(keyword, d) = <<0, 1>> /\ A!Share(vector, d) = <<1, r>>
      BY <2>1, ShareFact
    <3>2. r \in Nat /\ r >= 61
      <4>1. A!Rank(vector, d) \in 0..61
        BY <1>1
      <4>2. \A k \in 0..61 : k # 0 => 60 + k \in Nat /\ 60 + k >= 61
        OBVIOUS
      <4>3. QED
        BY <2>1, <4>1, <4>2
    <3> HIDE DEF r
    <3>3. A!Score(d)[1] = 1 /\ A!Score(d)[2] = r
      BY <3>1, <3>2, ScoreFact
    <3>4. QED
      BY <3>2, <3>3
  <2>2. CASE A!Rank(keyword, d) # 0 /\ A!Rank(vector, d) = 0
    <3> DEFINE r == 60 + A!Rank(keyword, d)
    <3>1. A!Share(keyword, d) = <<1, r>> /\ A!Share(vector, d) = <<0, 1>>
      BY <2>2, ShareFact
    <3>2. r \in Nat /\ r >= 61
      <4>1. A!Rank(keyword, d) \in 0..61
        BY <1>1
      <4>2. \A k \in 0..61 : k # 0 => 60 + k \in Nat /\ 60 + k >= 61
        OBVIOUS
      <4>3. QED
        BY <2>2, <4>1, <4>2
    <3> HIDE DEF r
    <3>3. A!Score(d)[1] = 1 /\ A!Score(d)[2] = r
      BY <3>1, <3>2, ScoreFact
    <3>4. QED
      BY <3>2, <3>3
  <2>3. QED
    BY <1>5, <2>1, <2>2
<1>7. (q + p) * r > p * q
  BY <1>3, <1>6, TwoShares
<1>8. p * q \in Int /\ 1 * (p * q) = p * q
  BY <1>3
<1>9. A!Score(c)[1] * A!Score(d)[2] > A!Score(d)[1] * A!Score(c)[2]
  BY <1>4, <1>6, <1>7, <1>8
<1>10. QED
  BY <1>9 DEF A!Before

\* A bounded sequence is a sequence.
LEMMA BoundedFact ==
  ASSUME NEW S, NEW n \in Nat, NEW s \in A!BoundedSeq(S, n)
  PROVE  s \in Seq(S) /\ Len(s) <= n
<1>1. PICK m \in 0..n : s \in [1..m -> S]
  BY DEF A!BoundedSeq, A!SeqOf
<1>2. \A q \in Nat : \A f \in [1..q -> S] : f \in Seq(S) /\ Len(f) = q
  OBVIOUS
<1>3. QED
  BY <1>1, <1>2

\* The fusion of the two searches puts them in the order of their scores.
LEMMA RrfStep ==
  ASSUME Lists, A!Rrf
  PROVE  /\ candidates' \in Seq(Chunks)
         /\ A!IsInjective(candidates')
         /\ Len(candidates') = A!Smaller(TopFinal, A!Cardinality(A!Found))
         /\ \A c, d \in A!Found :
              A!Before(c, d) /\ A!Rank(candidates', d) # 0 =>
                A!Rank(candidates', c) \in 1..(A!Rank(candidates', d) - 1)
<1> DEFINE F == A!Found
           R == A!Ranking
           n == Cardinality(F)
           s == A!Ordered(F, R)
           list == A!Cut(s, TopFinal)
<1>1. /\ F \in SUBSET Chunks /\ n \in Nat /\ A!Cardinality(F) = n
      /\ s \in [1..n -> F]
      /\ \A i, j \in 1..n : i < j => <<s[i], s[j]>> \in R
      /\ \A x \in F : \E i \in 1..n : s[i] = x
  BY RankingFact DEF Enumerates
<1>2. candidates' = list
  BY DEF A!Rrf
<1>3. \A x, y : <<x, y>> \in R => A!Before(x, y)
  BY DEF A!Ranking
<1>4. \A x, y \in F : A!Before(x, y) => x # y /\ ~A!Before(y, x)
  <2> DEFINE p(x, y) == A!Score(x)[1] * A!Score(y)[2]
  <2>1. ASSUME NEW x \in F, NEW y \in F PROVE p(x, y) \in Int /\ x \in Nat
    <3>1. \A a, b \in Nat : a * b \in Int
      OBVIOUS
    <3>2. A!Score(x)[1] \in Nat /\ A!Score(y)[2] \in Nat
      BY ScoreFact
    <3>3. QED
      BY <1>1, <3>1, <3>2, PassagesAssumption
  <2>2. \A x, y : A!Before(x, y) <=> (p(x, y) > p(y, x) \/ (p(x, y) = p(y, x) /\ x < y))
    BY DEF A!Before
  <2> HIDE DEF p
  <2>3. QED
    BY <2>1, <2>2
<1> HIDE DEF F, R, n, s, list
<1>5. s \in Seq(F) /\ s \in Seq(Chunks) /\ Len(s) = n /\ DOMAIN s = 1..n
  <2>1. \A T : \A q \in Nat : \A f \in [1..q -> T] : f \in Seq(T) /\ Len(f) = q
    OBVIOUS
  <2>2. s \in [1..n -> Chunks]
    BY <1>1
  <2>3. QED
    BY <1>1, <2>1, <2>2
<1>6. /\ list \in Seq(Chunks) /\ Len(list) = A!Smaller(TopFinal, n)
      /\ \A i \in DOMAIN list : i \in 1..n /\ list[i] = s[i]
  <2>1. TopFinal \in Nat
    BY PassagesAssumption
  <2>2. QED
    BY <1>5, <2>1, CutFact DEF list
<1>7. Len(list) \in Nat /\ DOMAIN list = 1..Len(list)
  BY <1>6
<1>8. ASSUME NEW i \in 1..n, NEW j \in 1..n, s[i] = s[j] PROVE i = j
  <2>1. s[i] \in F /\ <<s[i], s[j]>> \notin R /\ <<s[j], s[i]>> \notin R
    BY <1>1, <1>3, <1>4, <1>8
  <2>2. ~(i < j) /\ ~(j < i)
    BY <1>1, <2>1
  <2>3. QED
    BY <1>1, <2>2
<1>9. A!IsInjective(list)
  BY <1>6, <1>8 DEF A!IsInjective
<1>10. ASSUME NEW c \in F, NEW d \in F, A!Before(c, d), A!Rank(list, d) # 0
       PROVE  A!Rank(list, c) \in 1..(A!Rank(list, d) - 1)
  <2> DEFINE k == A!Rank(list, d)
  <2>1. k \in DOMAIN list /\ list[k] = d
    BY <1>6, <1>10, RankFact
  <2>2. k \in 1..n /\ s[k] = d /\ k \in 1..Len(list)
    BY <1>6, <1>7, <2>1
  <2>3. PICK j \in 1..n : s[j] = c
    BY <1>1
  <2>4. j < k
    <3>1. j # k
      BY <1>4, <1>10, <2>2, <2>3
    <3>2. ~(k < j)
      <4>1. <<d, c>> \notin R
        BY <1>3, <1>4, <1>10
      <4>2. QED
        BY <1>1, <2>2, <2>3, <4>1
    <3>3. QED
      BY <1>1, <2>2, <3>1, <3>2
  <2>5. j \in DOMAIN list /\ list[j] = c
    <3>1. j \in DOMAIN list
      BY <1>1, <1>7, <2>2, <2>4
    <3>2. QED
      BY <1>6, <2>3, <3>1
  <2>6. A!Rank(list, c) \in Nat /\ A!Rank(list, c) # 0 /\ A!Rank(list, c) <= j
    BY <1>6, <2>5, RankFact
  <2> HIDE DEF k
  <2>7. A!Rank(list, c) \in 1..(k - 1)
    BY <1>1, <2>2, <2>4, <2>6
  <2>8. QED
    BY <2>7 DEF k
<1>11. QED
  BY <1>1, <1>2, <1>6, <1>9, <1>10 DEF F, list

\* The lists of the searches, and the list the model is shown, while they are used.
FusionInv ==
  /\ Lists
  /\ answerPc = "fuse" => Len(keyword) <= TopK /\ Len(vector) <= TopK
  /\ FusionRespectsRanks

\* The fusion respects the ranks of both searches.
LEMMA FusionStep ==
  ASSUME FusionInv, A!Rrf
  PROVE  FusionRespectsRanks'
<1>1. Lists /\ Len(keyword) \in Nat /\ Len(vector) \in Nat
  BY DEF FusionInv, Lists
<1>2. TopK <= A!RrfK + 1 => Len(keyword) <= 61 /\ Len(vector) <= 61
  BY <1>1, PassagesAssumption DEF FusionInv, A!Rrf, A!RrfK
<1>3. /\ A!IsInjective(candidates')
      /\ Len(candidates') = A!Smaller(TopFinal, A!Cardinality(A!Found))
      /\ \A c, d \in A!Found :
           A!Before(c, d) /\ A!Rank(candidates', d) # 0 =>
             A!Rank(candidates', c) \in 1..(A!Rank(candidates', d) - 1)
  BY <1>1, RrfStep
<1>4. \A c, d \in A!Found :
        A!Dominates(c, d) \/ (TopK <= A!RrfK + 1 /\ A!InBoth(c) /\ ~A!InBoth(d)) =>
          A!Before(c, d)
  BY <1>1, <1>2, DominatesFact, BothFact
<1>5. UNCHANGED <<keyword, vector>>
  BY DEF A!Rrf
<1>6. /\ A!Found' = A!Found
      /\ \A c, d : A!Dominates(c, d)' <=> A!Dominates(c, d)
      /\ \A c : A!InBoth(c)' <=> A!InBoth(c)
  BY <1>5 DEF A!Found, A!Dominates, A!InBoth
<1>7. QED
  BY <1>3, <1>4, <1>6 DEF FusionRespectsRanks, A!FusionRespectsRanks

\* What the searches return at first.
LEMMA StartFact ==
  ASSUME MCInit
  PROVE  /\ Lists /\ Len(keyword) <= TopK /\ Len(vector) <= TopK
         /\ candidates = <<>> /\ generated = A!Nothing /\ quoted = FALSE
         /\ answerPc \in {"idle", "fuse"}
<1>1. CASE A!Idle
  <2>1. /\ keyword = <<>> /\ vector = <<>> /\ candidates = <<>> /\ generated = A!Nothing
        /\ quoted = FALSE /\ answerPc = "idle"
    BY <1>1 DEF A!Idle
  <2>2. <<>> \in Seq(Chunks) /\ Len(<<>>) = 0
    OBVIOUS
  <2>3. QED
    BY <2>1, <2>2, PassagesAssumption DEF Lists
<1>2. CASE A!Init
  <2>1. /\ keyword \in A!BoundedSeq(Chunks, TopK) /\ vector \in A!BoundedSeq(Chunks, TopK)
        /\ candidates = <<>> /\ generated = A!Nothing /\ quoted = FALSE /\ answerPc = "fuse"
    BY <1>2 DEF A!Init, A!Distinct
  <2>2. TopK \in Nat
    BY PassagesAssumption
  <2>3. QED
    BY <2>1, <2>2, BoundedFact DEF Lists
<1>3. QED
  BY <1>1, <1>2 DEF MCInit

\* The model is shown the best of what was found, whatever the searches return and
\* however many passages are kept.
THEOREM FusionKeepsRanks == MCSpec => []FusionRespectsRanks
<1>1. MCInit => FusionInv
  BY StartFact DEF FusionInv, FusionRespectsRanks, A!FusionRespectsRanks
<1>2. FusionInv /\ [MCNext]_<<vars, answerVars, evaluationVars, clientVars>> => FusionInv'
  <2> SUFFICES ASSUME FusionInv, [MCNext]_<<vars, answerVars, evaluationVars, clientVars>>
               PROVE  FusionInv'
    OBVIOUS
  <2>1. CASE A!Rrf
    <3>1. UNCHANGED <<keyword, vector>> /\ answerPc' = "generate"
      BY <2>1 DEF A!Rrf
    <3>2. QED
      BY <2>1, <3>1, FusionStep DEF FusionInv, Lists
  <2>2. CASE /\ answerPc' \notin {"fuse", "generate"}
             /\ keyword' \in {keyword, <<>>} /\ vector' \in {vector, <<>>}
    <3>1. <<>> \in Seq(Chunks)
      OBVIOUS
    <3>2. QED
      BY <2>2, <3>1 DEF FusionInv, Lists, FusionRespectsRanks, A!FusionRespectsRanks
  <2>3. CASE UNCHANGED answerVars
    BY <2>3 DEF answerVars, FusionInv, Lists, FusionRespectsRanks, A!FusionRespectsRanks,
                A!Found, A!Dominates, A!InBoth
  <2>4. A!Next => A!Rrf \/ (/\ answerPc' \notin {"fuse", "generate"}
                            /\ keyword' \in {keyword, <<>>} /\ vector' \in {vector, <<>>})
    BY DEF A!Next, A!Refuse, A!Generate, A!Quote, A!GenerateFails, A!Generated,
           A!AcceptRefusal, A!AcceptAnswer, A!Validated, A!RejectAnswer, A!Send
  <2>5. QED
    BY <2>1, <2>2, <2>3, <2>4 DEF MCNext
<1>3. FusionInv => FusionRespectsRanks
  BY DEF FusionInv
<1>4. QED
  BY <1>1, <1>2, <1>3, PTL DEF MCSpec

\* What the model answers, or is quoted instead, is text and indexes.
LEMMA GenerateStep ==
  ASSUME AnswerInv, A!Refuse \/ A!Generate \/ A!Quote \/ A!GenerateFails
  PROVE  AnswerInv'
<1>1. /\ keyword' = <<>> /\ vector' = <<>> /\ UNCHANGED <<candidates, answer, citations, message>>
      /\ answerPc' \in {"validate", "failed"} /\ answerPc = "generate"
      /\ quoted' => answerPc' = "validate"
  BY DEF A!Refuse, A!Generate, A!Quote, A!GenerateFails, A!Generated
<1>2. <<>> \in Seq(Chunks) /\ candidates \in Seq(Chunks)
  BY DEF AnswerInv
<1>3. /\ generated' \in Generations
      /\ quoted' => candidates # <<>> /\ generated' = Quotation(candidates[1])
  <2>1. CASE A!Refuse
    <3>1. generated' = [answer |-> <<0>>, indexes |-> <<>>, refused |-> TRUE] /\ ~quoted'
      BY <2>1 DEF A!Refuse, A!Generated, A!Word
    <3>2. <<0>> \in Seq(Nat) /\ <<>> \in Seq(Nat \ {0}) /\ Once(<<>>)
      BY DEF Once
    <3>3. QED
      BY <3>1, <3>2 DEF Generations
  <2>2. CASE A!Generate
    <3>1. generated' \in A!ModelAnswers /\ ~quoted'
      BY <2>2 DEF A!Generate, A!Generated
    <3>2. /\ generated' \in [answer : A!BoundedSeq(A!Tokens, MaxWords) \ {<<>>},
                             indexes : A!Distinct(DOMAIN candidates, TopFinal), refused : BOOLEAN]
      BY <3>1 DEF A!ModelAnswers
    <3>3. A!BoundedSeq(A!Tokens, MaxWords) \subseteq Seq(Nat)
      <4>1. A!Tokens \subseteq Nat /\ MaxWords \in Nat
        BY PassagesAssumption DEF A!Tokens, A!Word, A!Markers
      <4>2. ASSUME NEW s \in A!BoundedSeq(A!Tokens, MaxWords) PROVE s \in Seq(Nat)
        <5>1. PICK q \in Nat : s \in [1..q -> A!Tokens]
          BY <4>1, <4>2 DEF A!BoundedSeq, A!SeqOf
        <5>2. s \in [1..q -> Nat]
          BY <4>1, <5>1
        <5>3. \A f \in [1..q -> Nat] : f \in Seq(Nat)
          OBVIOUS
        <5>4. QED
          BY <5>2, <5>3
      <4>3. QED
        BY <4>2
    <3>4. A!Distinct(DOMAIN candidates, TopFinal) \subseteq Seq(Nat \ {0})
      <4>1. DOMAIN candidates \subseteq Nat \ {0} /\ TopFinal \in Nat
        BY <1>2, PassagesAssumption
      <4>2. \A s \in Seq(DOMAIN candidates) : s \in Seq(Nat \ {0})
        BY <4>1
      <4>3. A!Distinct(DOMAIN candidates, TopFinal)
              \subseteq A!BoundedSeq(DOMAIN candidates, TopFinal)
        BY DEF A!Distinct
      <4>4. QED
        BY <4>1, <4>2, <4>3, BoundedFact
    <3>5. \A s \in A!Distinct(DOMAIN candidates, TopFinal) : Once(s)
      BY DEF A!Distinct, A!IsInjective, Once
    <3>6. QED
      BY <3>1, <3>2, <3>3, <3>4, <3>5 DEF Generations
  <2>3. CASE A!Quote
    <3>1. candidates # <<>> /\ generated' = Quotation(candidates[1])
      BY <2>3 DEF A!Quote, A!Generated, Quotation
    <3>2. candidates[1] \in Chunks
      BY <1>2, <3>1
    <3>3. QED
      BY <3>1, <3>2, QuotationFact
  <2>4. CASE A!GenerateFails
    <3>1. generated' = [answer |-> <<>>, indexes |-> <<>>, refused |-> FALSE] /\ ~quoted'
      BY <2>4 DEF A!GenerateFails, A!Generated, A!Nothing
    <3>2. <<>> \in Seq(Nat) /\ <<>> \in Seq(Nat \ {0}) /\ Once(<<>>)
      BY DEF Once
    <3>3. QED
      BY <3>1, <3>2 DEF Generations
  <2>5. QED
    BY <2>1, <2>2, <2>3, <2>4
<1>4. SentAnswerIsSound' /\ QuoteCitesItsPassage'
  BY <1>1 DEF SentAnswerIsSound, A!SentAnswerIsSound, QuoteCitesItsPassage,
              A!QuoteCitesItsPassage
<1>5. QED
  BY <1>1, <1>2, <1>3, <1>4 DEF AnswerInv

\* An answer that is validated stands for what was generated, and a quotation
\* without a marker of its own passes.
LEMMA ValidateStep ==
  ASSUME AnswerInv, A!AcceptRefusal \/ A!AcceptAnswer \/ A!RejectAnswer
  PROVE  AnswerInv'
<1>1. /\ UNCHANGED <<keyword, vector, candidates, generated, quoted, message>>
      /\ answerPc = "validate" /\ answerPc' \in {"send", "failed"}
      /\ answerPc' = "failed" => ~generated.refused /\ ~A!InRange(generated)
  BY DEF A!AcceptRefusal, A!AcceptAnswer, A!RejectAnswer, A!Validated
<1>2. answerPc' = "send" => ValidatedOk'
  <2>1. CASE A!AcceptRefusal
    <3>1. /\ generated.refused /\ answer' = [text |-> generated.answer, refused |-> TRUE]
          /\ citations' = <<>>
      BY <2>1 DEF A!AcceptRefusal, A!Validated
    <3>2. QED
      BY <1>1, <3>1 DEF ValidatedOk
  <2>2. CASE A!AcceptAnswer
    <3>1. /\ ~generated.refused /\ A!InRange(generated)
          /\ answer' = [text |-> A!Renumbered(generated), refused |-> FALSE]
          /\ citations' = [k \in DOMAIN A!Indexes(generated) |->
                             candidates[A!Indexes(generated)[k]]]
      BY <2>2 DEF A!AcceptAnswer, A!Validated
    <3>2. A!InRange(generated)'
      BY <1>1, <3>1 DEF A!InRange
    <3>3. QED
      BY <1>1, <3>1, <3>2 DEF ValidatedOk
  <2>3. CASE A!RejectAnswer
    BY <2>3 DEF A!RejectAnswer
  <2>4. QED
    BY <2>1, <2>2, <2>3
<1>3. ASSUME quoted, A!Range(Content[candidates[1]]) \subseteq {A!Word}
      PROVE  answerPc' = "send" /\ citations' = <<candidates[1]>>
  <2>1. candidates \in Seq(Chunks) /\ candidates # <<>> /\ generated = Quotation(candidates[1])
    BY <1>3 DEF AnswerInv
  <2>2. candidates[1] \in Chunks /\ 1 \in DOMAIN candidates
    BY <2>1
  <2>3. A!Indexes(generated) = <<1>> /\ ~generated.refused
    BY <1>3, <2>1, <2>2, QuotationFact DEF Quotation
  <2>4. A!InRange(generated)
    <3>1. A!Range(<<1>>) = {1}
      BY DEF A!Range
    <3>2. QED
      BY <2>2, <2>3, <3>1 DEF A!InRange
  <2>5. answerPc' = "send"
    BY <1>1, <2>4
  <2>6. citations' = [k \in DOMAIN <<1>> |-> candidates[<<1>>[k]]]
    BY <1>1, <1>2, <2>3, <2>5 DEF ValidatedOk
  <2>7. citations' = [k \in 1..1 |-> candidates[1]]
    BY <2>6
  <2>8. QED
    BY <2>5, <2>7
<1>4. QuoteCitesItsPassage'
  BY <1>1, <1>3 DEF QuoteCitesItsPassage, A!QuoteCitesItsPassage
<1>5. SentAnswerIsSound'
  BY <1>1 DEF SentAnswerIsSound, A!SentAnswerIsSound
<1>6. QED
  BY <1>1, <1>2, <1>4, <1>5 DEF AnswerInv

\* A step of the answer.
LEMMA AnswerStep ==
  ASSUME AnswerInv, [MCNext]_<<vars, answerVars, evaluationVars, clientVars>>
  PROVE  AnswerInv'
<1>1. CASE A!Rrf
  <2>1. /\ UNCHANGED <<keyword, vector, generated, quoted>>
        /\ answerPc = "fuse" /\ answerPc' = "generate"
    BY <1>1 DEF A!Rrf
  <2>2. candidates' \in Seq(Chunks)
    BY <1>1, RrfStep DEF AnswerInv, Lists
  <2>3. QED
    BY <2>1, <2>2 DEF AnswerInv, SentAnswerIsSound, A!SentAnswerIsSound,
                      QuoteCitesItsPassage, A!QuoteCitesItsPassage
<1>2. CASE A!Send
  <2>1. /\ UNCHANGED <<keyword, vector, candidates, generated, quoted, answer, citations>>
        /\ answerPc = "send" /\ answerPc' = "sent"
    BY <1>2 DEF A!Send
  <2>2. ValidatedOk /\ ValidatedOk'
    BY <2>1 DEF AnswerInv, ValidatedOk, A!InRange
  <2>3. QuoteCitesItsPassage'
    BY <2>1 DEF AnswerInv, QuoteCitesItsPassage, A!QuoteCitesItsPassage
  <2>4. QED
    BY <1>2, <2>1, <2>2, <2>3, SendStep DEF AnswerInv
<1>3. CASE UNCHANGED answerVars
  BY <1>3 DEF answerVars, AnswerInv, ValidatedOk, A!InRange, SentAnswerIsSound,
              A!SentAnswerIsSound, QuoteCitesItsPassage, A!QuoteCitesItsPassage,
              A!MarkersMatch, A!SuffixBytes, A!SourceLines
<1>4. QED
  BY <1>1, <1>2, <1>3, GenerateStep, ValidateStep DEF MCNext, A!Next

\* What is known of an answer at each stage holds throughout.
LEMMA AnswersAreKnown == MCSpec => []AnswerInv
<1>1. MCInit => AnswerInv
  <2>1. <<>> \in Seq(Chunks) /\ <<>> \in Seq(Nat) /\ <<>> \in Seq(Nat \ {0}) /\ Once(<<>>)
    BY DEF Once
  <2>2. A!Nothing \in Generations
    BY <2>1 DEF A!Nothing, Generations
  <2>3. QED
    BY <2>1, <2>2, StartFact DEF AnswerInv, Lists, SentAnswerIsSound, A!SentAnswerIsSound,
                                 QuoteCitesItsPassage, A!QuoteCitesItsPassage
<1>2. AnswerInv /\ [MCNext]_<<vars, answerVars, evaluationVars, clientVars>> => AnswerInv'
  BY AnswerStep
<1>3. QED
  BY <1>1, <1>2, PTL DEF MCSpec

\* An answer that is not a refusal is sent with the numbers of its citations for
\* markers, each of which names the passage the model meant; any message names its
\* sources whole unless they alone are too long, and fits, for every answer, every
\* passage and every limit.
THEOREM SentAnswersAreSound == MCSpec => []SentAnswerIsSound
<1>1. AnswerInv => SentAnswerIsSound
  BY DEF AnswerInv
<1>2. QED
  BY <1>1, AnswersAreKnown, PTL

\* A quoted passage without a marker of its own is never refused, and cited alone.
THEOREM QuotesCiteTheirPassage == MCSpec => []QuoteCitesItsPassage
<1>1. AnswerInv => QuoteCitesItsPassage
  BY DEF AnswerInv
<1>2. QED
  BY <1>1, AnswersAreKnown, PTL
=============================================================================
