--------------------------- MODULE BaselineCounter ---------------------------
(***************************************************************************)
(* The agent's counters (agent/internal/metrics/baseline.go).  Prometheus  *)
(* cannot count the first sample of a series, so a new label set is        *)
(* created at 0 and what was added is held back until a reader has been    *)
(* given that 0.  Each method holds the vector's mutex and is one action   *)
(* here; the seven vectors of the agent never interact and are one.        *)
(*                                                                         *)
(* An epoch only ever answers one question: did this pending label set     *)
(* exist when that scrape or push began?  The answer is kept instead: a    *)
(* token is the set of label sets pending at its beginScrape, and it still *)
(* answers correctly later because an exposed label set is never pending   *)
(* again.  Likewise firstDelivered is kept as the time since, up to Hold.  *)
(***************************************************************************)
EXTENDS Integers, FiniteSets

CONSTANTS
  Series,      \* label sets
  Hold,        \* how long a delivered zero must stand, in clock units
  NoSample,    \* the vector has no child for the label set
  NotPending   \* "no entry" in pending

ASSUME BaselineAssumption ==
  /\ Hold \in Nat \ {0}
  /\ NoSample \notin Nat

VARIABLES
  value,    \* what a gather of the CounterVec reads
  exposed,  \* label sets whose additions go straight to the vector
  pending,  \* held additions, with the time since the first delivered zero
  added     \* history: the sum of the amounts added

counterVars == <<value, exposed, pending, added>>

Undelivered == -1
Held == [amount : Nat \ {0}, since : 0 .. Hold \cup {Undelivered}]

ASSUME NotPendingAssumption == NotPending \notin Held

CounterTypeOK ==
  /\ value \in [Series -> Nat \cup {NoSample}]
  /\ exposed \in SUBSET Series
  /\ pending \in [Series -> Held \cup {NotPending}]
  /\ added \in [Series -> Nat]

CounterInit ==
  /\ value = [l \in Series |-> NoSample]
  /\ exposed = {}
  /\ pending = [l \in Series |-> NotPending]
  /\ added = [l \in Series |-> 0]

Pending == {l \in Series : pending[l] # NotPending}

\* A second addition replaces the held amount.
AddOverwriting(l, v) ==
  /\ IF l \in exposed
     THEN value' = [value EXCEPT ![l] = @ + v] /\ UNCHANGED pending
     ELSE /\ value' = [value EXCEPT ![l] = 0]
          /\ pending' = [pending EXCEPT ![l] = [amount |-> v, since |-> Undelivered]]
  /\ added' = [added EXCEPT ![l] = @ + v]
  /\ UNCHANGED exposed

Add(l, v) ==
  /\ \/ /\ l \in exposed
        /\ value' = [value EXCEPT ![l] = @ + v]
        /\ UNCHANGED pending
     \/ /\ l \notin exposed /\ l \in Pending
        /\ pending' = [pending EXCEPT ![l].amount = @ + v]
        /\ UNCHANGED value
     \/ /\ l \notin exposed /\ l \notin Pending
        /\ value' = [value EXCEPT ![l] = 0]
        /\ pending' = [pending EXCEPT ![l] = [amount |-> v, since |-> Undelivered]]
  /\ added' = [added EXCEPT ![l] = @ + v]
  /\ UNCHANGED exposed

\* beginScrape and beginDelivery: the token.
BeginScrape == Pending

\* Label sets S go from held to exposed.
Expose(S) ==
  /\ value' = [l \in Series |-> IF l \in S THEN value[l] + pending[l].amount
                                           ELSE value[l]]
  /\ exposed' = exposed \cup S

\* After a local scrape.
Release(token) ==
  /\ Expose(token \cap Pending)
  /\ pending' = [l \in Series |-> IF l \in token THEN NotPending ELSE pending[l]]
  /\ UNCHANGED added

\* The first delivery of a zero releases it.
DueAtOnce(token) == {l \in token \cap Pending : TRUE}

\* The label sets a delivery releases: their zero was delivered Hold ago.
Due(token) == {l \in token \cap Pending : pending[l].since = Hold}

\* After an accepted push.
Delivered(token) ==
  /\ Expose(Due(token))
  /\ pending' = [l \in Series |->
       IF l \in Due(token) THEN NotPending
       ELSE IF l \in token \cap Pending /\ pending[l].since = Undelivered
            THEN [pending[l] EXCEPT !.since = 0]
            ELSE pending[l]]
  /\ UNCHANGED added

\* One clock unit passes.
Age ==
  /\ pending' = [l \in Series |->
       IF l \in Pending /\ pending[l].since \in 0 .. Hold - 1
       THEN [pending[l] EXCEPT !.since = @ + 1] ELSE pending[l]]
  /\ UNCHANGED <<value, exposed, added>>

\* The agent process starts again with empty counters.
ResetCounters ==
  /\ value' = [l \in Series |-> NoSample]
  /\ exposed' = {}
  /\ pending' = [l \in Series |-> NotPending]
  /\ added' = [l \in Series |-> 0]

-----------------------------------------------------------------------------
(* Properties.                                                             *)

\* What was added is in the vector or held, once: no interleaving of Add with
\* a delivery loses an amount or releases it twice, and a label set is held
\* back exactly while it reads 0.
HeldOrExposed ==
  \A l \in Series :
    IF l \in Pending
    THEN l \notin exposed /\ value[l] = 0 /\ pending[l].amount = added[l]
    ELSE IF l \in exposed THEN value[l] = added[l] /\ value[l] > 0
                          ELSE value[l] = NoSample /\ added[l] = 0
=============================================================================
