---------------------------- MODULE QueryService ----------------------------
(***************************************************************************)
(* What the report handlers may rely on when they ask Prometheus: every    *)
(* question is answered, with a failure or with the result of a query that *)
(* was begun at most Bound ago.  Callers that ask the same may be answered *)
(* together; a caller that is answered at once is never given a failure.   *)
(***************************************************************************)
EXTENDS Naturals

CONSTANTS
  Client,    \* calls under way at the same time
  Query,     \* query URLs
  NoQuery,
  Bound      \* the age a result may have

VARIABLES
  asking,    \* the query each client waits for
  answer     \* each client's last answer

None == [kind |-> "none", age |-> 0]
Failure == [kind |-> "failure", age |-> 0]
Results == [kind : {"result"}, age : 0 .. Bound]

QInit ==
  /\ asking = [c \in Client |-> NoQuery]
  /\ answer = [c \in Client |-> None]

Ask(c) ==
  /\ asking[c] = NoQuery
  /\ \E q \in Query : asking' = [asking EXCEPT ![c] = q]
  /\ answer' = [answer EXCEPT ![c] = None]

AnswerAtOnce(c) ==
  /\ asking[c] = NoQuery
  /\ \E a \in Results : answer' = [answer EXCEPT ![c] = a]
  /\ UNCHANGED asking

\* Some of the clients that wait for q are given one outcome.
Answer(C, q) ==
  /\ \A c \in C : asking[c] = q
  /\ asking' = [c \in Client |-> IF c \in C THEN NoQuery ELSE asking[c]]
  /\ \E a \in Results \cup {Failure} :
       answer' = [c \in Client |-> IF c \in C THEN a ELSE answer[c]]

AnswerSome(c) == \E C \in SUBSET Client : c \in C /\ asking[c] \in Query /\ Answer(C, asking[c])

QNext == \E c \in Client : Ask(c) \/ AnswerAtOnce(c) \/ AnswerSome(c)

\* Every caller is answered.
QSpec ==
  /\ QInit /\ [][QNext]_<<asking, answer>>
  /\ \A c \in Client : WF_<<asking, answer>>(AnswerSome(c))
=============================================================================
