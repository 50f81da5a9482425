------------------------------- MODULE Gateway -------------------------------
(***************************************************************************)
(* The WeCom callback endpoint of cmd/gateway: concurrent executions of    *)
(* receiveWeComHandler (internal/httpapi/router.go) over the tables users, *)
(* inbound_messages and messages (internal/store/postgres.go) and the      *)
(* stream qa:requested (internal/queue/redis.go).                          *)
(*                                                                         *)
(* WeCom repeats a callback that is not answered in time, so several       *)
(* callbacks may carry the same MsgId and run at once.  Every database or  *)
(* Redis call is one step, which may fail without effect, or take effect   *)
(* and still report an error (a lost reply, a commit of unknown outcome).  *)
(*                                                                         *)
(* A callback draws a fresh UUID for the request it may create and one for *)
(* the event it may publish; both are named here by the callback itself.   *)
(***************************************************************************)
EXTENDS Naturals

CONSTANTS
  Callbacks,  \* executions of the callback handler, one HTTP request each
  Messages,   \* WeCom text messages, by MsgId
  Users,      \* WeCom senders
  Sender,     \* the sender of each message
  Null        \* no value (SQL NULL, a missing row)

ASSUME SenderAssumption == Sender \in [Messages -> Users]
ASSUME NullAssumption == Null \notin Callbacks \cup Messages

VARIABLES
  user,       \* users.status, "ABSENT" while there is no row
  inbound,    \* inbound_messages: the request of a message, and queued_at # NULL
  question,   \* messages with role USER: the message a request id stands for
  requested,  \* the events appended to qa:requested
  pc,         \* where each callback is, or the reply it gave
  msg,        \* the message a callback carries
  ticket      \* AcceptedMessage.RequestID held by a callback

rows == <<user, inbound, question>>
vars == <<user, inbound, question, requested, pc, msg, ticket>>

Running == {"find", "persist", "refind", "publish", "mark"}

\* "success": 200 after the queue; "ignored": 200 for a message that is not a
\* text; "dropped": 200 for a disabled user; "rejected": 4xx; "unavailable":
\* 503; "aborted": the process died or the connection was cut: no reply.
Replies == {"success", "ignored", "dropped", "rejected", "unavailable", "aborted"}

TypeOK ==
  /\ user \in [Users -> {"ABSENT", "ACTIVE", "DISABLED"}]
  /\ inbound \in [Messages -> [request : Callbacks \cup {Null}, queued : BOOLEAN]]
  /\ question \in [Callbacks -> Messages \cup {Null}]
  /\ requested \subseteq [event : Callbacks, request : Callbacks]
  /\ pc \in [Callbacks -> {"idle"} \cup Running \cup Replies]
  /\ msg \in [Callbacks -> Messages \cup {Null}]
  /\ ticket \in [Callbacks -> Callbacks \cup {Null}]

Init ==
  /\ user = [u \in Users |-> "ABSENT"]
  /\ inbound = [m \in Messages |-> [request |-> Null, queued |-> FALSE]]
  /\ question = [c \in Callbacks |-> Null]
  /\ requested = {}
  /\ pc = [c \in Callbacks |-> "idle"]
  /\ msg = [c \in Callbacks |-> Null]
  /\ ticket = [c \in Callbacks |-> Null]

Goto(c, label) == pc' = [pc EXCEPT ![c] = label]

-----------------------------------------------------------------------------
(* Steps of one callback c.                                                *)

\* A callback arrives.  The checks before the store is touched (timestamp,
\* body, signature, decryption, agent id, type, length) decide its fate.
Receive(c, m) ==
  /\ pc[c] = "idle"
  /\ \E label \in {"find", "ignored", "rejected"} : Goto(c, label)
  /\ msg' = [msg EXCEPT ![c] = m]
  /\ UNCHANGED <<rows, requested, ticket>>

\* Mutant of Resume: any known message is taken for a finished duplicate.
ResumeTrustsAnyDuplicate(c) ==
  /\ inbound[msg[c]].request # Null
  /\ ticket' = [ticket EXCEPT ![c] = inbound[msg[c]].request]
  /\ Goto(c, "success")

\* What findInbound tells the handler: a row that is queued ends the callback
\* with success, an unqueued one is published again under its own request id.
Resume(c) ==
  LET row == inbound[msg[c]] IN
  /\ row.request # Null
  /\ ticket' = [ticket EXCEPT ![c] = row.request]
  /\ Goto(c, IF row.queued THEN "success" ELSE "publish")

\* Mutant of FindInbound: an unknown message is published before it is stored.
FindPublishesUnknown(c) ==
  /\ pc[c] = "find"
  /\ \/ Resume(c)
     \/ /\ inbound[msg[c]].request = Null
        /\ Goto(c, "publish")
        /\ ticket' = [ticket EXCEPT ![c] = c]
  /\ UNCHANGED <<rows, requested, msg>>

\* The first findInbound of AcceptInboundText.
FindInbound(c) ==
  /\ pc[c] = "find"
  /\ \/ Resume(c)
     \/ /\ inbound[msg[c]].request = Null
        /\ Goto(c, "persist")
        /\ UNCHANGED ticket
  /\ UNCHANGED <<rows, requested, msg>>

\* The effect of the committed transaction: sender, question and inbound row.
InsertInbound(c) ==
  LET m == msg[c] IN
  /\ user' = [user EXCEPT ![Sender[m]] = "ACTIVE"]
  /\ question' = [question EXCEPT ![c] = m]
  /\ inbound' = [inbound EXCEPT ![m] = [request |-> c, queued |-> FALSE]]

\* Mutant of PersistInbound: the insert of the question is not rolled back when
\* the inbound row turns out to exist.
PersistKeepsLosersQuestion(c) ==
  /\ pc[c] = "persist"
  /\ \/ /\ inbound[msg[c]].request # Null
        /\ question' = [question EXCEPT ![c] = msg[c]]
        /\ Goto(c, "refind")
        /\ UNCHANGED <<user, inbound, ticket>>
     \/ /\ inbound[msg[c]].request = Null
        /\ InsertInbound(c)
        /\ Goto(c, "publish")
        /\ ticket' = [ticket EXCEPT ![c] = c]
  /\ UNCHANGED <<requested, msg>>

\* Mutant of PersistInbound: ON CONFLICT DO UPDATE instead of DO NOTHING.
PersistOverwrites(c) ==
  /\ pc[c] = "persist"
  /\ InsertInbound(c)
  /\ Goto(c, "publish")
  /\ ticket' = [ticket EXCEPT ![c] = c]
  /\ UNCHANGED <<requested, msg>>

\* The transaction of AcceptInboundText.  The upsert of the sender's row holds
\* its lock until the end, so transactions for one message are serialized, and
\* a disabled sender or a conflicting inbound row rolls everything back.
PersistInbound(c) ==
  LET m == msg[c] IN
  /\ pc[c] = "persist"
  /\ \/ /\ user[Sender[m]] = "DISABLED"
        /\ Goto(c, "dropped")
        /\ UNCHANGED <<rows, ticket>>
     \/ /\ user[Sender[m]] # "DISABLED"
        /\ inbound[m].request # Null
        /\ Goto(c, "refind")
        /\ UNCHANGED <<rows, ticket>>
     \/ /\ user[Sender[m]] # "DISABLED"
        /\ inbound[m].request = Null
        /\ InsertInbound(c)
        /\ \/ /\ Goto(c, "publish")
              /\ ticket' = [ticket EXCEPT ![c] = c]
           \/ /\ Goto(c, "unavailable")   \* committed, but the reply was lost
              /\ UNCHANGED ticket
  /\ UNCHANGED <<requested, msg>>

\* findInbound again, after the insert found the message already there.  No row
\* is ever deleted (RefindFinds), so the error "duplicate inbound message
\* disappeared" has no disjunct here.
RefindInbound(c) ==
  /\ pc[c] = "refind"
  /\ Resume(c)
  /\ UNCHANGED <<rows, requested, msg>>

\* XADD of qa.requested: on success the callback goes on to MarkInboundQueued.
PublishRequested(c) ==
  /\ pc[c] = "publish"
  /\ requested' = requested \cup {[event |-> c, request |-> ticket[c]]}
  /\ \E label \in {"mark", "unavailable"} : Goto(c, label)
  /\ UNCHANGED <<rows, msg, ticket>>

\* UPDATE inbound_messages SET queued_at = COALESCE(queued_at, now()) for the
\* row of the request, which must be exactly one.
MarkInboundQueued(c) ==
  /\ pc[c] = "mark"
  /\ \E m \in Messages :
       /\ inbound[m].request = ticket[c]
       /\ inbound' = [inbound EXCEPT ![m].queued = TRUE]
  /\ \E label \in {"success", "unavailable"} : Goto(c, label)
  /\ UNCHANGED <<user, question, requested, msg, ticket>>

\* Mutant of CallFails: the callback is left without a reply of its own.
CallFailsSilently(c) ==
  /\ pc[c] \in Running
  /\ Goto(c, "failed")
  /\ UNCHANGED <<rows, requested, msg, ticket>>

\* A call of the store or of Redis fails without effect: 503.
CallFails(c) ==
  /\ pc[c] \in Running
  /\ Goto(c, "unavailable")
  /\ UNCHANGED <<rows, requested, msg, ticket>>

\* The gateway process dies between two steps of the callback.
Abort(c) ==
  /\ pc[c] \in Running
  /\ Goto(c, "aborted")
  /\ UNCHANGED <<rows, requested, msg, ticket>>

\* An administrator changes users.status with SQL: no code does.
SetUserStatus(u) ==
  /\ user[u] # "ABSENT"
  /\ user' = [user EXCEPT ![u] = IF @ = "ACTIVE" THEN "DISABLED" ELSE "ACTIVE"]
  /\ UNCHANGED <<inbound, question, requested, pc, msg, ticket>>

Handle(c) ==
  \/ FindInbound(c) \/ PersistInbound(c) \/ RefindInbound(c)
  \/ PublishRequested(c) \/ MarkInboundQueued(c) \/ CallFails(c)

Next ==
  \/ \E c \in Callbacks :
       \/ \E m \in Messages : Receive(c, m)
       \/ Handle(c)
       \/ Abort(c)
  \/ \E u \in Users : SetUserStatus(u)

Spec == Init /\ [][Next]_vars

-----------------------------------------------------------------------------
(* Properties.                                                             *)

\* However many callbacks carry a message, one question is stored for it: the
\* one of the request its inbound row names.  A callback that loses the insert
\* leaves no question behind (the rollback in AcceptInboundText).
OneQuestionPerMessage ==
  \A c \in Callbacks, m \in Messages :
    question[c] = m <=> inbound[m].request = c

\* A message marked as queued has an event in the stream under its own request,
\* so a duplicate that is confirmed on the strength of queued_at loses nothing.
QueuedMeansPublished ==
  \A m \in Messages :
    inbound[m].queued => \E e \in requested : e.request = inbound[m].request

\* WeCom is told success for a question only when it is stored, in the stream
\* and marked as queued, possibly by another callback than the one that replies.
SuccessMeansQueued ==
  \A c \in Callbacks :
    pc[c] = "success" =>
      /\ inbound[msg[c]].queued
      /\ \E e \in requested : e.request = inbound[msg[c]].request

\* Every event in the stream names a committed request, and the callback that
\* published it carries the very message of that request: retries that resume
\* the request of another callback never mix up two messages.
PublishedIsPersisted ==
  \A e \in requested :
    /\ question[e.request] # Null
    /\ msg[e.event] = question[e.request]
    /\ inbound[question[e.request]].request = e.request

I == INSTANCE Inbox WITH
       Requests <- Callbacks, None <- Null,
       accepted <- [m \in Messages |-> inbound[m].request],
       published <- {e.request : e \in requested},
       acked <- {m \in Messages :
                   \E c \in Callbacks : pc[c] = "success" /\ msg[c] = m}

\* The promise of the gateway, module Inbox: the callbacks implement it.
InboxSpec == I!Spec
=============================================================================
