----------------------------- MODULE AnswerOnce ------------------------------
(***************************************************************************)
(* What the agent promises to its callers: a request id is bound to one    *)
(* input, is answered at most once, and every call that gets an answer     *)
(* gets that one, for that input.                                          *)
(***************************************************************************)
CONSTANTS Calls, Requests, Inputs, Answers, None

VARIABLES
  bound,    \* the input each request id stands for, None before its first use
  answer,   \* the answer of each request, None before it is given
  reply     \* the answer each call got: [request, input, answer], or None

vars == <<bound, answer, reply>>

Init ==
  /\ bound = [r \in Requests |-> None]
  /\ answer = [r \in Requests |-> None]
  /\ reply = [c \in Calls |-> None]

Bind(r, x) ==
  /\ bound[r] = None
  /\ bound' = [bound EXCEPT ![r] = x]
  /\ UNCHANGED <<answer, reply>>

\* The answer a is given to request r, or was given before; call c may get it.
Serve(c, r, a) ==
  /\ bound[r] # None
  /\ answer[r] \in {None, a}
  /\ answer' = [answer EXCEPT ![r] = a]
  /\ reply' \in {reply, [reply EXCEPT ![c] = [request |-> r, input |-> bound[r], answer |-> a]]}
  /\ UNCHANGED bound

\* Call c starts over.
Forget(c) ==
  /\ reply' = [reply EXCEPT ![c] = None]
  /\ UNCHANGED <<bound, answer>>

Next ==
  \/ \E r \in Requests, x \in Inputs : Bind(r, x)
  \/ \E c \in Calls, r \in Requests, a \in Answers : Serve(c, r, a)
  \/ \E c \in Calls : Forget(c)

Spec == Init /\ [][Next]_vars
=============================================================================
