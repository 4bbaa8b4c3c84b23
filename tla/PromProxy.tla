------------------------------ MODULE PromProxy ------------------------------
(***************************************************************************)
(* The server's way to Prometheus (server/internal/api/router.go): report  *)
(* handlers call promClient, whose cachingTransport serves a result for    *)
(* ttl, lets callers of one URL share a call in flight, and passes what is *)
(* left to a transport that lets Limit requests through at a time.  A call *)
(* in flight has its own deadline, which also runs while it waits for its  *)
(* turn; its callers wait for it whatever becomes of their own requests.   *)
(*                                                                         *)
(* The lookup in the cache and singleflight's Do are separate steps: a     *)
(* call may end between them, and the caller then begins another.          *)
(***************************************************************************)
EXTENDS Naturals, FiniteSets

CONSTANTS
  Client, Query, NoQuery,
  Limit,      \* requests to Prometheus at a time
  TTL,        \* promCacheTTL, in clock units
  Timeout     \* promQueryTimeout, in clock units

ASSUME ProxyAssumption == Limit \in Nat \ {0} /\ TTL \in Nat \ {0} /\ Timeout \in Nat \ {0}

VARIABLES
  asking,     \* the URL each client's call to RoundTrip is for
  at,         \* where that call is
  flight,     \* singleflight's call of each query
  cache,      \* time to expiry, and the age of the result
  answer      \* what each client was last given

proxyVars == <<asking, at, flight, cache, answer>>

None == [kind |-> "none", age |-> 0]
Failure == [kind |-> "failure", age |-> 0]
Result(age) == [kind |-> "result", age |-> age]

NoFlight == [at |-> "none", age |-> 0]
NoEntry == [left |-> 0, age |-> 0]

ProxyInit ==
  /\ asking = [c \in Client |-> NoQuery]
  /\ at = [c \in Client |-> "idle"]
  /\ flight = [q \in Query |-> NoFlight]
  /\ cache = [q \in Query |-> NoEntry]
  /\ answer = [c \in Client |-> None]

InUpstream == {q \in Query : flight[q].at = "upstream"}
Waiting(q) == {c \in Client : asking[c] = q /\ at[c] = "waiting"}

\* An entry is served however old it is.
AnyEntry(q) == cache[q] # NoEntry

Fresh(q) == cache[q].left > 0

\* A caller looks in the cache.
LookUp(c, q) ==
  /\ at[c] = "idle"
  /\ IF Fresh(q)
     THEN answer' = [answer EXCEPT ![c] = Result(cache[q].age)] /\ UNCHANGED <<asking, at>>
     ELSE /\ asking' = [asking EXCEPT ![c] = q]
          /\ at' = [at EXCEPT ![c] = "missed"]
          /\ answer' = [answer EXCEPT ![c] = None]
  /\ UNCHANGED <<flight, cache>>

\* group.Do: join the call in flight, or be the one that makes it.
Do(c) ==
  /\ at[c] = "missed"
  /\ LET q == asking[c] IN
       flight' = IF flight[q] = NoFlight THEN [flight EXCEPT ![q].at = "queued"] ELSE flight
  /\ at' = [at EXCEPT ![c] = "waiting"]
  /\ UNCHANGED <<asking, cache, answer>>

\* A slot of the semaphore.
Acquire(q) ==
  /\ flight[q].at = "queued" /\ Cardinality(InUpstream) < Limit
  /\ flight' = [flight EXCEPT ![q].at = "upstream"]
  /\ UNCHANGED <<asking, at, cache, answer>>

\* Do returns to all who share the call.
Land(q, outcome) ==
  /\ flight' = [flight EXCEPT ![q] = NoFlight]
  /\ asking' = [c \in Client |-> IF c \in Waiting(q) THEN NoQuery ELSE asking[c]]
  /\ at' = [c \in Client |-> IF c \in Waiting(q) THEN "idle" ELSE at[c]]
  /\ answer' = [c \in Client |-> IF c \in Waiting(q) THEN outcome ELSE answer[c]]

\* A result that came in is kept; its query was begun when the call was made.
Respond(q) ==
  /\ flight[q].at = "upstream" /\ flight[q].age < Timeout
  /\ Land(q, Result(flight[q].age))
  /\ cache' = [cache EXCEPT ![q] = [left |-> TTL, age |-> flight[q].age]]

Overdue(q) == flight[q].age = Timeout

\* Prometheus refuses, breaks off or answers with another status, or the
\* deadline passes, in the queue too.  None of it is kept.
Fail(q) ==
  /\ flight[q].at = "upstream" \/ Overdue(q)
  /\ Land(q, Failure)
  /\ UNCHANGED cache

\* runJanitor: what has expired is removed.
Prune ==
  /\ \E q \in Query : cache[q] # NoEntry /\ ~Fresh(q)
  /\ cache' = [q \in Query |-> IF cache[q].left = 0 THEN NoEntry ELSE cache[q]]
  /\ UNCHANGED <<asking, at, flight, answer>>

\* A deadline that has passed is acted on first.
ProxyTick ==
  /\ \A q \in Query : ~Overdue(q)
  /\ flight' = [q \in Query |->
       IF flight[q] = NoFlight THEN NoFlight
       ELSE [flight[q] EXCEPT !.age = IF @ < Timeout THEN @ + 1 ELSE @]]
  /\ cache' = [q \in Query |->
       IF cache[q] = NoEntry THEN NoEntry
       ELSE [left |-> IF Fresh(q) THEN cache[q].left - 1 ELSE 0,
             age |-> IF cache[q].age > TTL + Timeout THEN cache[q].age ELSE cache[q].age + 1]]
  /\ UNCHANGED <<asking, at, answer>>

ProxyNext ==
  \/ \E c \in Client : Do(c) \/ \E q \in Query : LookUp(c, q)
  \/ \E q \in Query : Acquire(q) \/ Respond(q) \/ Fail(q)
  \/ Prune \/ ProxyTick

-----------------------------------------------------------------------------
(* Properties.                                                             *)

Service == INSTANCE QueryService WITH Bound <- TTL + Timeout

\* Through cache, coalescing, queue and deadline the report handlers see a
\* service that answers every call, never with a failure it had kept and never
\* with a result older than the time to live and the deadline together
\* (router.go: "Short enough that a report page never shows badly outdated
\* numbers").
ProxyIsService == Service!QSpec
=============================================================================
