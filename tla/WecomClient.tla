----------------------------- MODULE WecomClient -----------------------------
(***************************************************************************)
(* The client of the WeCom API (internal/wecom/client.go): calls of        *)
(* SendText share one cached access token.  WeCom may withdraw a token at  *)
(* any time, whatever expiry it told.                                      *)
(*                                                                         *)
(* Tokens are numbered; WeCom accepts the last one it gave out.  The mutex *)
(* is held from the look at the cache to its update, so accessToken is one *)
(* step.                                                                   *)
(***************************************************************************)
EXTENDS Naturals

CONSTANTS
  Callers,   \* concurrent calls of SendText
  MaxTokens  \* bound: tokens WeCom ever gives out

NoToken == 0

VARIABLES
  valid,    \* the token WeCom accepts
  cache,    \* APIClient.token
  timely,   \* now is before APIClient.expiresAt
  token,    \* the token a call has
  asked,    \* the token that was valid when a call fetched anew, NoToken before
  accepted, \* how many messages of a call WeCom accepted
  pc        \* where a call is, or how it ended: "sent", "refused" or "error"

vars == <<valid, cache, timely, token, asked, accepted, pc>>

Idle ==
  /\ valid = 1 /\ cache = NoToken /\ timely = FALSE
  /\ token = [c \in Callers |-> NoToken]
  /\ asked = [c \in Callers |-> NoToken]
  /\ accepted = [c \in Callers |-> 0]
  /\ pc = [c \in Callers |-> "idle"]

\* The client was used before: it has a token, which may be withdrawn or late.
Init ==
  /\ valid \in 1..MaxTokens
  /\ cache \in {NoToken, 1}
  /\ timely \in BOOLEAN
  /\ token = [c \in Callers |-> NoToken]
  /\ asked = [c \in Callers |-> NoToken]
  /\ accepted = [c \in Callers |-> 0]
  /\ pc = [c \in Callers |-> "token"]

Goto(c, label) == pc' = [pc EXCEPT ![c] = label]

-----------------------------------------------------------------------------
(* accessToken.                                                            *)

CachedToken(c) ==
  /\ pc[c] = "token"
  /\ cache # NoToken /\ timely
  /\ token' = [token EXCEPT ![c] = cache]
  /\ Goto(c, "send")
  /\ UNCHANGED <<valid, cache, timely, asked, accepted>>

\* gettoken; the expiry is told and shortened, possibly to nothing.
FetchToken(c) ==
  /\ cache' = valid
  /\ timely' \in BOOLEAN
  /\ token' = [token EXCEPT ![c] = valid]
  /\ UNCHANGED <<valid, accepted>>

NewToken(c) ==
  /\ pc[c] = "token"
  /\ cache = NoToken \/ ~timely
  /\ FetchToken(c)
  /\ Goto(c, "send")
  /\ UNCHANGED asked

\* Mutant of RefreshToken: the cache is looked at.
RefreshFromCache(c) ==
  /\ pc[c] = "refresh"
  /\ token' = [token EXCEPT ![c] = cache]
  /\ asked' = [asked EXCEPT ![c] = valid]
  /\ Goto(c, "resend")
  /\ UNCHANGED <<valid, cache, timely, accepted>>

\* forceRefresh.
RefreshToken(c) ==
  /\ pc[c] = "refresh"
  /\ FetchToken(c)
  /\ asked' = [asked EXCEPT ![c] = valid]
  /\ Goto(c, "resend")

\* gettoken fails; the cache stays.
NoTokenGiven(c) ==
  /\ pc[c] = "refresh" \/ (pc[c] = "token" /\ (cache = NoToken \/ ~timely))
  /\ Goto(c, "error")
  /\ UNCHANGED <<valid, cache, timely, token, asked, accepted>>

-----------------------------------------------------------------------------
(* sendText.                                                               *)

\* WeCom accepts the message; its reply may be lost.
SendAccepted(c) ==
  /\ pc[c] \in {"send", "resend"}
  /\ token[c] = valid
  /\ accepted' = [accepted EXCEPT ![c] = @ + 1]
  /\ Goto(c, "sent") \/ Goto(c, "error")
  /\ UNCHANGED <<valid, cache, timely, token, asked>>

\* Codes 40014 and 42001: one more attempt with a new token.
SendRefused(c) ==
  /\ pc[c] \in {"send", "resend"}
  /\ token[c] # valid
  /\ Goto(c, IF pc[c] = "send" THEN "refresh" ELSE "refused")
  /\ UNCHANGED <<valid, cache, timely, token, asked, accepted>>

\* Mutant of SendFails: any error is answered with a new token and one more message.
SendFailsAndRetries(c) ==
  /\ pc[c] \in {"send", "resend"}
  /\ \E n \in {0, 1} : accepted' = [accepted EXCEPT ![c] = @ + n]
  /\ Goto(c, IF pc[c] = "send" THEN "refresh" ELSE "error")
  /\ UNCHANGED <<valid, cache, timely, token, asked>>

\* No reply, or another error code: nothing was accepted.
SendFails(c) ==
  /\ pc[c] \in {"send", "resend"}
  /\ Goto(c, "error")
  /\ UNCHANGED <<valid, cache, timely, token, asked, accepted>>

SendText(c) ==
  \/ CachedToken(c) \/ NewToken(c) \/ RefreshToken(c) \/ NoTokenGiven(c)
  \/ SendAccepted(c) \/ SendRefused(c) \/ SendFails(c)

-----------------------------------------------------------------------------
\* WeCom withdraws its token and gives out another one from now on; it matters
\* while a call is at work.
Withdraw ==
  /\ valid < MaxTokens
  /\ valid' = valid + 1
  /\ \E c \in Callers : pc[c] \in {"token", "send", "refresh", "resend"}
  /\ UNCHANGED <<cache, timely, token, asked, accepted, pc>>

\* expiresAt passes.
Expire ==
  /\ timely
  /\ timely' = FALSE
  /\ \E c \in Callers : pc[c] = "token"
  /\ UNCHANGED <<valid, cache, token, asked, accepted, pc>>

Next == (\E c \in Callers : SendText(c)) \/ Withdraw \/ Expire

Spec == Init /\ [][Next]_vars

-----------------------------------------------------------------------------
(* Properties.                                                             *)

\* SendText is what the delivery takes it for, one step that sends one message
\* or none: it reports success only if WeCom accepted the message, it never
\* sends a second one after an acceptance, and whatever tokens other calls cache
\* meanwhile it fails for its token only if WeCom withdrew one during the call.
SendTextIsOneStep ==
  \A c \in Callers :
    /\ accepted[c] <= 1
    /\ pc[c] = "sent" => accepted[c] = 1
    /\ pc[c] = "refused" => accepted[c] = 0 /\ asked[c] # NoToken /\ asked[c] # valid
=============================================================================
