----------------------------- MODULE MCEntrances -----------------------------
(***************************************************************************)
(* What enters the system: callbacks with questions at the gateway, and    *)
(* uploads of documents at the agent.  They share no state and are checked *)
(* in one run: every initial state belongs to one of them, the other idles.*)
(*                                                                         *)
(* Three callbacks, two of them at least for one message, of one sender;   *)
(* three uploads to two documents.                                         *)
(***************************************************************************)
EXTENDS Gateway, Ingestion, TLC

CONSTANTS s1, m1, m2, u1, u2, u3, d1, d2

VARIABLE part  \* "callbacks" or "uploads"

MCUsers == {s1}
MCMessages == {m1, m2}
MCSender == [m \in MCMessages |-> s1]
Symmetry == Permutations(Objects) \cup Permutations(Docs)

MCInit == part \in {"callbacks", "uploads"} /\ Init /\ InitUploads

MCNext ==
  /\ \/ part = "callbacks" /\ Next /\ UNCHANGED uploadVars
     \/ part = "uploads" /\ UploadNext /\ UNCHANGED vars
  /\ UNCHANGED part

MCSpec == MCInit /\ [][MCNext]_<<part, vars, uploadVars>>
=============================================================================
