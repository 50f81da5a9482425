---------------------------- MODULE GatewayProofs ----------------------------
(***************************************************************************)
(* The invariants of Gateway hold for every set of callbacks and messages, *)
(* and the gateway implements Inbox.                                       *)
(***************************************************************************)
EXTENDS Gateway, TLAPS

\* What a callback knows at each of its steps: the inductive part that the
\* properties do not say themselves.
CallbackInv ==
  \A c \in Callbacks :
    /\ pc[c] # "idle" => msg[c] \in Messages
    /\ pc[c] = "idle" => \A e \in requested : e.event # c
    /\ pc[c] \in {"idle", "find", "persist"} => question[c] = Null
    /\ question[c] # Null => msg[c] = question[c]
    /\ pc[c] = "refind" => inbound[msg[c]].request # Null
    /\ pc[c] \in {"publish", "mark"} =>
         /\ ticket[c] \in Callbacks
         /\ inbound[msg[c]].request = ticket[c]
    /\ pc[c] = "mark" => \E e \in requested : e.request = ticket[c]

IInv ==
  /\ TypeOK
  /\ OneQuestionPerMessage
  /\ QueuedMeansPublished
  /\ SuccessMeansQueued
  /\ PublishedIsPersisted
  /\ CallbackInv

\* The invariant holds at first.
LEMMA InitIInv == Init => IInv
BY SenderAssumption, NullAssumption
   DEF Init, IInv, TypeOK, OneQuestionPerMessage, QueuedMeansPublished,
       SuccessMeansQueued, PublishedIsPersisted, CallbackInv, Running, Replies

\* Every step keeps the invariant.
LEMMA NextIInv == IInv /\ [Next]_vars => IInv'
<1> SUFFICES ASSUME IInv, [Next]_vars PROVE IInv'
  OBVIOUS
<1> USE SenderAssumption, NullAssumption DEF IInv, TypeOK, Running, Replies, Goto, rows
<1>1. ASSUME NEW c \in Callbacks, NEW m \in Messages, Receive(c, m) PROVE IInv'
  <2>1. TypeOK'
    BY <1>1 DEF Receive, CallbackInv
  <2>2. OneQuestionPerMessage'
    BY <1>1 DEF Receive, OneQuestionPerMessage, CallbackInv
  <2>3. QueuedMeansPublished'
    BY <1>1 DEF Receive, QueuedMeansPublished, CallbackInv
  <2>4. SuccessMeansQueued'
    BY <1>1 DEF Receive, SuccessMeansQueued, CallbackInv, QueuedMeansPublished
  <2>5. PublishedIsPersisted'
    BY <1>1 DEF Receive, PublishedIsPersisted, CallbackInv
  <2>6. CallbackInv'
    BY <1>1 DEF Receive, CallbackInv
  <2>7. QED
    BY <2>1, <2>2, <2>3, <2>4, <2>5, <2>6 DEF IInv
<1>2. ASSUME NEW c \in Callbacks, FindInbound(c) PROVE IInv'
  <2>1. TypeOK'
    <3>1. msg[c] \in Messages
      BY <1>2 DEF FindInbound, CallbackInv
    <3>2. pc' \in [Callbacks -> {"idle"} \cup Running \cup Replies]
      BY <1>2 DEF FindInbound, Resume
    <3>3. ticket' \in [Callbacks -> Callbacks \cup {Null}]
      BY <1>2, <3>1 DEF FindInbound, Resume
    <3>4. QED
      BY <1>2, <3>2, <3>3 DEF FindInbound
  <2>2. OneQuestionPerMessage'
    BY <1>2 DEF FindInbound, Resume, OneQuestionPerMessage, CallbackInv
  <2>3. QueuedMeansPublished'
    BY <1>2 DEF FindInbound, Resume, QueuedMeansPublished, CallbackInv
  <2>4. SuccessMeansQueued'
    BY <1>2 DEF FindInbound, Resume, SuccessMeansQueued, CallbackInv, QueuedMeansPublished
  <2>5. PublishedIsPersisted'
    BY <1>2 DEF FindInbound, Resume, PublishedIsPersisted, CallbackInv
  <2>6. CallbackInv'
    BY <1>2 DEF FindInbound, Resume, CallbackInv
  <2>7. QED
    BY <2>1, <2>2, <2>3, <2>4, <2>5, <2>6 DEF IInv
<1>3. ASSUME NEW c \in Callbacks, PersistInbound(c) PROVE IInv'
  <2>1. TypeOK'
    <3>1. msg[c] \in Messages /\ Sender[msg[c]] \in Users
      BY <1>3 DEF PersistInbound, CallbackInv
    <3>2. pc' \in [Callbacks -> {"idle"} \cup Running \cup Replies]
      BY <1>3 DEF PersistInbound
    <3>3. ticket' \in [Callbacks -> Callbacks \cup {Null}]
      BY <1>3 DEF PersistInbound
    <3>4. CASE InsertInbound(c)
      BY <1>3, <3>1, <3>2, <3>3, <3>4 DEF PersistInbound, InsertInbound
    <3>5. CASE UNCHANGED <<user, inbound, question>>
      BY <1>3, <3>2, <3>3, <3>5 DEF PersistInbound
    <3>6. QED
      BY <1>3, <3>4, <3>5 DEF PersistInbound
  <2>2. OneQuestionPerMessage'
    BY <1>3 DEF PersistInbound, InsertInbound, OneQuestionPerMessage, CallbackInv
  <2>3. QueuedMeansPublished'
    BY <1>3 DEF PersistInbound, InsertInbound, QueuedMeansPublished, CallbackInv, OneQuestionPerMessage
  <2>4. SuccessMeansQueued'
    BY <1>3 DEF PersistInbound, InsertInbound, SuccessMeansQueued, CallbackInv, OneQuestionPerMessage, QueuedMeansPublished
  <2>5. PublishedIsPersisted'
    BY <1>3 DEF PersistInbound, InsertInbound, PublishedIsPersisted, CallbackInv, OneQuestionPerMessage
  <2>6. CallbackInv'
    BY <1>3 DEF PersistInbound, InsertInbound, CallbackInv, OneQuestionPerMessage
  <2>7. QED
    BY <2>1, <2>2, <2>3, <2>4, <2>5, <2>6 DEF IInv
<1>4. ASSUME NEW c \in Callbacks, RefindInbound(c) PROVE IInv'
  <2>1. TypeOK'
    BY <1>4 DEF RefindInbound, Resume, CallbackInv
  <2>2. OneQuestionPerMessage'
    BY <1>4 DEF RefindInbound, Resume, OneQuestionPerMessage, CallbackInv
  <2>3. QueuedMeansPublished'
    BY <1>4 DEF RefindInbound, Resume, QueuedMeansPublished, CallbackInv
  <2>4. SuccessMeansQueued'
    BY <1>4 DEF RefindInbound, Resume, SuccessMeansQueued, CallbackInv, QueuedMeansPublished
  <2>5. PublishedIsPersisted'
    BY <1>4 DEF RefindInbound, Resume, PublishedIsPersisted, CallbackInv
  <2>6. CallbackInv'
    BY <1>4 DEF RefindInbound, Resume, CallbackInv
  <2>7. QED
    BY <2>1, <2>2, <2>3, <2>4, <2>5, <2>6 DEF IInv
<1>5. ASSUME NEW c \in Callbacks, PublishRequested(c) PROVE IInv'
  <2>1. TypeOK'
    BY <1>5 DEF PublishRequested, CallbackInv
  <2>2. OneQuestionPerMessage'
    BY <1>5 DEF PublishRequested, OneQuestionPerMessage, CallbackInv
  <2>3. QueuedMeansPublished'
    BY <1>5 DEF PublishRequested, QueuedMeansPublished, CallbackInv, OneQuestionPerMessage
  <2>4. SuccessMeansQueued'
    BY <1>5 DEF PublishRequested, SuccessMeansQueued, CallbackInv, OneQuestionPerMessage, QueuedMeansPublished
  <2>5. PublishedIsPersisted'
    BY <1>5 DEF PublishRequested, PublishedIsPersisted, CallbackInv, OneQuestionPerMessage
  <2>6. CallbackInv'
    <3>1. pc[c] = "publish" /\ pc'[c] # "idle"
      BY <1>5 DEF PublishRequested
    <3>2. ASSUME pc'[c] = "mark"
          PROVE  \E e \in requested' : e.request = ticket'[c]
      <4> DEFINE e == [event |-> c, request |-> ticket[c]]
      <4>1. e \in requested' /\ e.request = ticket'[c]
        BY <1>5 DEF PublishRequested
      <4>2. QED
        BY <4>1
    <3>3. QED
      BY <1>5, <3>1, <3>2 DEF PublishRequested, CallbackInv
  <2>7. QED
    BY <2>1, <2>2, <2>3, <2>4, <2>5, <2>6 DEF IInv
<1>6. ASSUME NEW c \in Callbacks, MarkInboundQueued(c) PROVE IInv'
  <2>1. TypeOK'
    <3>1. PICK m \in Messages : inbound' = [inbound EXCEPT ![m].queued = TRUE]
      BY <1>6 DEF MarkInboundQueued
    <3>2. inbound' \in [Messages -> [request : Callbacks \cup {Null}, queued : BOOLEAN]]
      BY <3>1
    <3>3. pc' \in [Callbacks -> {"idle"} \cup Running \cup Replies]
      BY <1>6 DEF MarkInboundQueued
    <3>4. QED
      BY <1>6, <3>2, <3>3 DEF MarkInboundQueued
  <2>2. OneQuestionPerMessage'
    BY <1>6 DEF MarkInboundQueued, OneQuestionPerMessage, CallbackInv
  <2>3. QueuedMeansPublished'
    BY <1>6 DEF MarkInboundQueued, QueuedMeansPublished, CallbackInv, OneQuestionPerMessage
  <2>4. SuccessMeansQueued'
    BY <1>6 DEF MarkInboundQueued, SuccessMeansQueued, CallbackInv, OneQuestionPerMessage, QueuedMeansPublished
  <2>5. PublishedIsPersisted'
    BY <1>6 DEF MarkInboundQueued, PublishedIsPersisted, CallbackInv, OneQuestionPerMessage
  <2>6. CallbackInv'
    BY <1>6 DEF MarkInboundQueued, CallbackInv, OneQuestionPerMessage
  <2>7. QED
    BY <2>1, <2>2, <2>3, <2>4, <2>5, <2>6 DEF IInv
<1>7. ASSUME NEW c \in Callbacks, CallFails(c) PROVE IInv'
  <2>1. TypeOK'
    BY <1>7 DEF CallFails, CallbackInv
  <2>2. OneQuestionPerMessage'
    BY <1>7 DEF CallFails, OneQuestionPerMessage, CallbackInv
  <2>3. QueuedMeansPublished'
    BY <1>7 DEF CallFails, QueuedMeansPublished, CallbackInv
  <2>4. SuccessMeansQueued'
    BY <1>7 DEF CallFails, SuccessMeansQueued, CallbackInv, QueuedMeansPublished
  <2>5. PublishedIsPersisted'
    BY <1>7 DEF CallFails, PublishedIsPersisted, CallbackInv
  <2>6. CallbackInv'
    BY <1>7 DEF CallFails, CallbackInv
  <2>7. QED
    BY <2>1, <2>2, <2>3, <2>4, <2>5, <2>6 DEF IInv
<1>8. ASSUME NEW c \in Callbacks, Abort(c) PROVE IInv'
  <2>1. TypeOK'
    BY <1>8 DEF Abort, CallbackInv
  <2>2. OneQuestionPerMessage'
    BY <1>8 DEF Abort, OneQuestionPerMessage, CallbackInv
  <2>3. QueuedMeansPublished'
    BY <1>8 DEF Abort, QueuedMeansPublished, CallbackInv
  <2>4. SuccessMeansQueued'
    BY <1>8 DEF Abort, SuccessMeansQueued, CallbackInv, QueuedMeansPublished
  <2>5. PublishedIsPersisted'
    BY <1>8 DEF Abort, PublishedIsPersisted, CallbackInv
  <2>6. CallbackInv'
    BY <1>8 DEF Abort, CallbackInv
  <2>7. QED
    BY <2>1, <2>2, <2>3, <2>4, <2>5, <2>6 DEF IInv
<1>9. ASSUME NEW u \in Users, SetUserStatus(u) PROVE IInv'
  BY <1>9 DEF SetUserStatus, OneQuestionPerMessage, QueuedMeansPublished,
     SuccessMeansQueued, PublishedIsPersisted, CallbackInv
<1>10. CASE UNCHANGED vars
  BY <1>10 DEF vars, OneQuestionPerMessage, QueuedMeansPublished,
     SuccessMeansQueued, PublishedIsPersisted, CallbackInv
<1>11. QED
  BY <1>1, <1>2, <1>3, <1>4, <1>5, <1>6, <1>7, <1>8, <1>9, <1>10 DEF Next, Handle

\* The inductive invariant holds in every reachable state.
THEOREM Inductive == Spec => []IInv
<1>1. Init => IInv
  BY InitIInv
<1>2. IInv /\ [Next]_vars => IInv'
  BY NextIInv
<1>3. QED
  BY <1>1, <1>2, PTL DEF Spec

\* Every variable keeps its type.
THEOREM TypeCorrect == Spec => []TypeOK
<1>1. IInv => TypeOK
  BY DEF IInv
<1>2. QED
  BY <1>1, Inductive, PTL

\* A message keeps one question, and a callback that reports success has it
\* stored, queued and published: no confirmed question is lost or doubled,
\* whatever the number of concurrent retries.
THEOREM ConfirmedIsQueued ==
  Spec => [](OneQuestionPerMessage /\ QueuedMeansPublished /\ SuccessMeansQueued)
<1>1. IInv => OneQuestionPerMessage /\ QueuedMeansPublished /\ SuccessMeansQueued
  BY DEF IInv
<1>2. QED
  BY <1>1, Inductive, PTL

\* A message has one stored question, whichever callback of it came first.
THEOREM OneQuestion == Spec => []OneQuestionPerMessage
<1>1. IInv => OneQuestionPerMessage
  BY DEF IInv
<1>2. QED
  BY <1>1, Inductive, PTL

\* The stream only holds requests that are committed in the database, published
\* by callbacks that carry the same message.
THEOREM StreamIsPersisted == Spec => []PublishedIsPersisted
<1>1. IInv => PublishedIsPersisted
  BY DEF IInv
<1>2. QED
  BY <1>1, Inductive, PTL

-----------------------------------------------------------------------------
(* The refinement of Inbox: each step of a callback is a step of the inbox *)
(* or leaves it unchanged.                                                 *)

accepted == [m \in Messages |-> inbound[m].request]
published == {e.request : e \in requested}
acked == {m \in Messages : \E c \in Callbacks : pc[c] = "success" /\ msg[c] = m}

\* The first state is one of Inbox.
LEMMA InitInbox == Init => I!Init
BY DEF Init, I!Init

\* The accept transaction is Accept of Inbox, or loses the race.
LEMMA AcceptStep ==
  ASSUME IInv, NEW c \in Callbacks, PersistInbound(c)
  PROVE  [I!Next]_I!vars
<1> USE DEF IInv, TypeOK
<1>1. msg[c] \in Messages /\ pc[c] = "persist"
  BY DEF PersistInbound, CallbackInv
<1>2. acked' = acked
  BY <1>1 DEF PersistInbound, Goto, acked
<1>3. published' = published
  BY DEF PersistInbound, published
<1>4. CASE UNCHANGED rows
  <2>1. accepted' = accepted
    BY <1>4 DEF rows, accepted
  <2>2. QED
    BY <1>2, <1>3, <2>1 DEF I!vars, accepted, acked, published
<1>5. CASE inbound[msg[c]].request = Null /\ InsertInbound(c)
  <2>1. accepted' = [accepted EXCEPT ![msg[c]] = c]
    BY <1>1, <1>5 DEF InsertInbound, accepted
  <2>2. \A n \in Messages : accepted[n] # c
    BY <1>1, NullAssumption DEF CallbackInv, OneQuestionPerMessage, accepted
  <2>3. I!Accept(msg[c], c)
    BY <1>1, <1>2, <1>3, <1>5, <2>1, <2>2 DEF I!Accept, accepted, acked, published
  <2>4. QED
    BY <1>1, <2>3 DEF I!Next
<1>6. QED
  BY <1>4, <1>5 DEF PersistInbound, rows

\* Publishing to the stream is Publish of Inbox, or fails.
LEMMA PublishStep ==
  ASSUME IInv, NEW c \in Callbacks, PublishRequested(c)
  PROVE  [I!Next]_I!vars
<1> USE DEF IInv, TypeOK
<1>1. msg[c] \in Messages /\ ticket[c] \in Callbacks /\ inbound[msg[c]].request = ticket[c]
  BY DEF PublishRequested, CallbackInv
<1>2. acked' = acked
  BY DEF PublishRequested, Goto, acked
<1>3. accepted' = accepted
  BY DEF PublishRequested, rows, accepted
<1>4. published' = published \cup {ticket[c]}
  <2> DEFINE new == [event |-> c, request |-> ticket[c]]
  <2>1. requested' = requested \cup {new} /\ new.request = ticket[c]
    BY DEF PublishRequested
  <2> HIDE DEF new
  <2>2. QED
    BY <2>1 DEF published
<1>5. accepted[msg[c]] = ticket[c] /\ ticket[c] # Null
  BY <1>1, NullAssumption DEF accepted
<1>6. I!Publish(msg[c])
  BY <1>2, <1>3, <1>4, <1>5 DEF I!Publish, accepted, acked, published
<1>7. QED
  BY <1>1, <1>6 DEF I!Next, I!Publish

\* A step that leaves the requests of the messages and the stream alone is an
\* acknowledgement of the callback's message, or invisible.
LEMMA QuietStep ==
  ASSUME TypeOK, NEW c \in Callbacks, msg[c] \in Messages,
         UNCHANGED msg, NEW label, Goto(c, label), pc[c] # "success",
         accepted' = accepted, published' = published,
         label = "success" => accepted[msg[c]] \in published
  PROVE  [I!Next]_I!vars
<1>1. CASE label = "success"
  <2>1. acked' = acked \cup {msg[c]}
    BY <1>1 DEF TypeOK, Goto, acked
  <2>2. I!Acknowledge(msg[c])
    BY <1>1, <2>1 DEF I!Acknowledge, accepted, acked, published
  <2>3. QED
    BY <2>2 DEF I!Next, I!Acknowledge
<1>2. CASE label # "success"
  <2>1. acked' = acked
    BY <1>2 DEF TypeOK, Goto, acked
  <2>2. QED
    BY <2>1 DEF I!vars, accepted, acked, published
<1>3. QED
  BY <1>1, <1>2

\* Every step is a step of Inbox or changes nothing there.
LEMMA InboxStep == IInv /\ [Next]_vars => [I!Next]_I!vars
<1> SUFFICES ASSUME IInv, [Next]_vars PROVE [I!Next]_I!vars
  OBVIOUS
<1> USE DEF IInv, TypeOK
<1>1. ASSUME NEW c \in Callbacks, NEW m \in Messages, Receive(c, m)
      PROVE  [I!Next]_I!vars
  <2>1. accepted' = accepted /\ published' = published
    BY <1>1 DEF Receive, rows, accepted, published
  <2>2. acked' = acked
    BY <1>1 DEF Receive, Goto, acked
  <2>3. QED
    BY <2>1, <2>2 DEF I!vars, accepted, acked, published
<1>2. ASSUME NEW c \in Callbacks, FindInbound(c) \/ RefindInbound(c)
      PROVE  [I!Next]_I!vars
  <2>1. accepted' = accepted /\ published' = published
    BY <1>2 DEF FindInbound, RefindInbound, rows, accepted, published
  <2>2. msg[c] \in Messages /\ UNCHANGED msg /\ pc[c] # "success"
    BY <1>2 DEF FindInbound, RefindInbound, CallbackInv
  <2>3. inbound[msg[c]].queued => accepted[msg[c]] \in published
    BY <2>2 DEF QueuedMeansPublished, accepted, published
  <2>4. \/ Goto(c, "success") /\ inbound[msg[c]].queued
        \/ Goto(c, "publish")
        \/ Goto(c, "persist")
    BY <1>2 DEF FindInbound, RefindInbound, Resume
  <2>5. QED
    BY <2>1, <2>2, <2>3, <2>4, QuietStep
<1>3. ASSUME NEW c \in Callbacks, MarkInboundQueued(c)
      PROVE  [I!Next]_I!vars
  <2>1. PICK m \in Messages : inbound' = [inbound EXCEPT ![m].queued = TRUE]
    BY <1>3 DEF MarkInboundQueued
  <2>2. accepted' = accepted
    BY <2>1 DEF accepted
  <2>3. published' = published
    BY <1>3 DEF MarkInboundQueued, published
  <2>4. msg[c] \in Messages /\ UNCHANGED msg /\ pc[c] # "success"
    BY <1>3 DEF MarkInboundQueued, CallbackInv
  <2>5. accepted[msg[c]] \in published
    BY <1>3, <2>4 DEF MarkInboundQueued, CallbackInv, accepted, published
  <2>6. Goto(c, "success") \/ Goto(c, "unavailable")
    BY <1>3 DEF MarkInboundQueued
  <2>7. QED
    BY <2>2, <2>3, <2>4, <2>5, <2>6, QuietStep
<1>4. ASSUME NEW c \in Callbacks, CallFails(c) \/ Abort(c)
      PROVE  [I!Next]_I!vars
  <2>1. accepted' = accepted /\ published' = published
    BY <1>4 DEF CallFails, Abort, rows, accepted, published
  <2>2. msg[c] \in Messages /\ UNCHANGED msg /\ pc[c] # "success"
    BY <1>4 DEF CallFails, Abort, CallbackInv, Running
  <2>3. Goto(c, "unavailable") \/ Goto(c, "aborted")
    BY <1>4 DEF CallFails, Abort
  <2>4. QED
    BY <2>1, <2>2, <2>3, QuietStep
<1>5. CASE (\E u \in Users : SetUserStatus(u)) \/ UNCHANGED vars
  <2>1. UNCHANGED <<inbound, requested, pc, msg>>
    BY <1>5 DEF SetUserStatus, vars
  <2>2. QED
    BY <2>1 DEF I!vars
<1>6. QED
  BY <1>1, <1>2, <1>3, <1>4, <1>5, AcceptStep, PublishStep DEF Next, Handle

\* The gateway implements the inbox: its concurrent callbacks accept a message
\* once, publish accepted requests only and acknowledge published ones only.
THEOREM ImplementsInbox == Spec => InboxSpec
<1>1. Init => I!Init
  BY InitInbox
<1>2. IInv /\ [Next]_vars => [I!Next]_I!vars
  BY InboxStep
<1>3. QED
  BY <1>1, <1>2, Inductive, PTL DEF Spec, InboxSpec, I!Spec
=============================================================================
