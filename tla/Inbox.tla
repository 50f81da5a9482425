-------------------------------- MODULE Inbox --------------------------------
(***************************************************************************)
(* What the gateway promises, without its callbacks: a message is accepted *)
(* under one request id, forever; only an accepted request is published;   *)
(* only a message whose request is published is acknowledged.              *)
(***************************************************************************)
CONSTANTS Messages, Requests, None

VARIABLES
  accepted,   \* the request id of each message, None before it is accepted
  published,  \* the requests that are in the stream qa:requested
  acked       \* the messages that were answered with success after queueing

vars == <<accepted, published, acked>>

Init ==
  /\ accepted = [m \in Messages |-> None]
  /\ published = {}
  /\ acked = {}

Accept(m, r) ==
  /\ accepted[m] = None
  /\ \A n \in Messages : accepted[n] # r
  /\ accepted' = [accepted EXCEPT ![m] = r]
  /\ UNCHANGED <<published, acked>>

Publish(m) ==
  /\ accepted[m] # None
  /\ published' = published \cup {accepted[m]}
  /\ UNCHANGED <<accepted, acked>>

Acknowledge(m) ==
  /\ accepted[m] \in published
  /\ acked' = acked \cup {m}
  /\ UNCHANGED <<accepted, published>>

Next ==
  \E m \in Messages :
    \/ \E r \in Requests : Accept(m, r)
    \/ Publish(m)
    \/ Acknowledge(m)

Spec == Init /\ [][Next]_vars
=============================================================================
