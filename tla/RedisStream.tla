----------------------------- MODULE RedisStream -----------------------------
(***************************************************************************)
(* A Redis stream with one consumer group, as the operations of            *)
(* internal/queue/redis.go use it.  The entries are numbered from 1.       *)
(*                                                                         *)
(* The owner of a pending entry is not kept: no operation used here looks  *)
(* at it.  XREADGROUP reads after last, XAUTOCLAIM takes any entry that is *)
(* idle, whoever had it, and XACK removes an entry whoever sends it.       *)
(***************************************************************************)
EXTENDS Naturals, Sequences, FiniteSets

StreamOf(Entry) ==
  [log : Seq(Entry),       \* every entry ever added
   last : Nat,             \* the last entry delivered to the group
   pending : SUBSET Nat,   \* delivered and not acknowledged
   idle : SUBSET Nat]      \* pending, and not delivered or claimed for 30 s

EmptyStream == [log |-> <<>>, last |-> 0, pending |-> {}, idle |-> {}]

Entries(s) == 1..Len(s.log)

\* Publish: XADD.
Publish(s, e) == [s EXCEPT !.log = Append(@, e)]

\* ReadGroup: XREADGROUP with ">" delivers up to n entries never delivered.
NewEntries(s, n) == {i \in Entries(s) : s.last < i /\ i <= s.last + n}
ReadGroup(s, n) ==
  [s EXCEPT !.last = IF s.last + n < Len(s.log) THEN s.last + n ELSE Len(s.log),
            !.pending = @ \cup NewEntries(s, n)]

\* ClaimStale: XAUTOCLAIM from 0-0 takes the n oldest idle entries, which
\* starts their idle time again.
StaleEntries(s, n) == {i \in s.idle : Cardinality({j \in s.idle : j < i}) < n}
ClaimStale(s, n) == [s EXCEPT !.idle = @ \ StaleEntries(s, n)]

\* Ack: XACK.
Ack(s, i) == [s EXCEPT !.pending = @ \ {i}, !.idle = @ \ {i}]

\* Thirty seconds pass without a delivery of entry i.
Expire(s, i) == [s EXCEPT !.idle = @ \cup {i}]
=============================================================================
