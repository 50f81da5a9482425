---------------------------- MODULE StreamConsumer ---------------------------
(***************************************************************************)
(* The loop run() of a worker process that consumes a stream as a member   *)
(* of its group.  cmd/dispatcher and cmd/outbound have the same loop: take *)
(* a batch of entries that went idle or else of new ones, handle them in   *)
(* order, take the next batch.                                             *)
(*                                                                         *)
(* While a worker is busy with its batch the rest of it may pass the idle  *)
(* limit of 30 s and be claimed by another worker, so an entry may be in   *)
(* several hands.                                                          *)
(***************************************************************************)
EXTENDS RedisStream

CONSTANTS
  Workers,
  BatchSize  \* batchSize, 8 in the code

ASSUME BatchAssumption == BatchSize \in Nat \ {0}

VARIABLES
  stream,    \* the stream with its group
  pc,        \* the step of each worker
  batch      \* the entries of its batch it still has to handle

LoopLabels == {"poll", "read", "next"}

Goto(w, label) == pc' = [pc EXCEPT ![w] = label]

\* Entry i is the one worker w is at.
Current(w, i) == i \in batch[w] /\ \A j \in batch[w] : i <= j

\* ClaimStale comes first: whatever is idle is handled before new entries.
ClaimIdle(w) ==
  /\ pc[w] = "poll"
  /\ stream.idle # {}
  /\ batch' = [batch EXCEPT ![w] = StaleEntries(stream, BatchSize)]
  /\ stream' = ClaimStale(stream, BatchSize)
  /\ Goto(w, "next")

\* Nothing is idle, or the call failed, which is only logged.
ClaimNothing(w) ==
  /\ pc[w] = "poll"
  /\ Goto(w, "read")
  /\ UNCHANGED <<stream, batch>>

\* ReadGroup blocks for new entries.
ReadNew(w) ==
  /\ pc[w] = "read"
  /\ NewEntries(stream, BatchSize) # {}
  /\ batch' = [batch EXCEPT ![w] = NewEntries(stream, BatchSize)]
  /\ stream' = ReadGroup(stream, BatchSize)
  /\ Goto(w, "next")

\* ReadGroup gives up after a while without new entries, or fails.
ReadNothing(w) ==
  /\ pc[w] = "read"
  /\ Goto(w, "poll")
  /\ UNCHANGED <<stream, batch>>

\* The batch is finished.
Finish(w) ==
  /\ pc[w] = "next"
  /\ batch[w] = {}
  /\ Goto(w, "poll")
  /\ UNCHANGED <<stream, batch>>

Loop(w) == ClaimIdle(w) \/ ClaimNothing(w) \/ ReadNew(w) \/ ReadNothing(w) \/ Finish(w)

\* Worker w is done with entry i, in whatever way, and turns to the next one.
Leave(w, i) ==
  /\ batch' = [batch EXCEPT ![w] = @ \ {i}]
  /\ Goto(w, "next")

\* A worker dies and starts again; its entries stay pending.
Die(w) ==
  /\ pc[w] # "poll"
  /\ Goto(w, "poll")
  /\ batch' = [batch EXCEPT ![w] = {}]
  /\ UNCHANGED stream

\* Entry i has been pending for 30 s, in the hands of a worker or of none.
BecomeIdle(i) ==
  /\ i \in stream.pending \ stream.idle
  /\ stream' = Expire(stream, i)
  /\ UNCHANGED <<pc, batch>>

\* A poll or a read fails although there is something to take.
LoopFault(w) ==
  \/ ClaimNothing(w) /\ stream.idle # {}
  \/ ReadNothing(w) /\ NewEntries(stream, BatchSize) # {}

\* Some poll of every worker finds nothing idle, again and again: batches take
\* less than 30 s from time to time.  Without this, failing entries that are
\* slow are claimed again as soon as they were tried, and nothing else is read.
PollsFindNothing == \A w \in Workers : []<>(pc[w] = "read")
=============================================================================
