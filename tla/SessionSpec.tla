---------------------------- MODULE SessionSpec ----------------------------
(***************************************************************************)
(* What a TokenStore promises about one session (token_store.go): until it *)
(* is deleted it holds exactly one token set, which a refresh only ever    *)
(* replaces by one issued later and the application may replace by one of  *)
(* its own; a refresh is answered with the token set the session holds at  *)
(* that moment, or with an error; and a deleted session never answers      *)
(* again.                                                                  *)
(***************************************************************************)
EXTENDS Naturals

CONSTANTS Clients,   \* whoever asks for a refresh
          MaxToken   \* bound: token sets that can be issued

VARIABLES alive,     \* the session has not been deleted
          current,   \* the token set it holds
          asked,     \* an Update by the application is under way
          answer     \* per client: the token set it was answered with

specVars == <<alive, current, asked, answer>>

NoAnswer == 0

Init ==
  /\ alive = TRUE
  /\ current = 1
  /\ asked = FALSE
  /\ answer = [c \in Clients |-> NoAnswer]

\* The token set is replaced by a newer one.
Renew ==
  /\ alive
  /\ current' \in 1 .. MaxToken
  /\ current' > current
  /\ UNCHANGED <<alive, asked, answer>>

\* A client is answered, renewing the session or not.
Answer(c) ==
  /\ alive
  /\ current' \in 1 .. MaxToken
  /\ current' >= current
  /\ answer' = [answer EXCEPT ![c] = current']
  /\ UNCHANGED <<alive, asked>>

\* A client starts over, or its request ends with an error.
Forget(c) ==
  /\ answer' = [answer EXCEPT ![c] = NoAnswer]
  /\ UNCHANGED <<alive, current, asked>>

End ==
  /\ alive' = FALSE
  /\ UNCHANGED <<current, asked, answer>>

\* The application asks for a token set of its own, which replaces the
\* session's or is dropped.
Ask == ~asked /\ asked' = TRUE /\ UNCHANGED <<alive, current, answer>>

Replace ==
  /\ alive /\ asked
  /\ current' \in 1 .. MaxToken
  /\ asked' = FALSE
  /\ UNCHANGED <<alive, answer>>

Drop == asked /\ asked' = FALSE /\ UNCHANGED <<alive, current, answer>>

Next ==
  \/ Renew \/ End \/ Ask \/ Replace \/ Drop
  \/ \E c \in Clients : Answer(c) \/ Forget(c)

Spec == Init /\ [][Next]_specVars

=============================================================================
