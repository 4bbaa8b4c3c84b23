------------------------------- MODULE Settings -------------------------------
(***************************************************************************)
(* GET and PUT /settings (server/internal/api/settings.go) over the        *)
(* settings table (server/internal/store/postgres.go).  A PUT carries      *)
(* every setting; the idle threshold may be absent, and is then read       *)
(* before it is written back with the rest.  The store upserts one row per *)
(* key in one transaction, in the order of a Go map, which differs from    *)
(* call to call: two transactions can lock each other's rows, and          *)
(* PostgreSQL then aborts one.  Reads are one statement and see what is    *)
(* committed.                                                              *)
(***************************************************************************)
CONSTANTS
  Update,     \* PUT requests
  Key, Idle,  \* the settings; the idle threshold
  Initial,    \* the defaults, as their own author
  Nobody,     \* no row is wanted, nobody holds the row
  Failing     \* bound: the updates a database error may end

ASSUME SettingsAssumption == Idle \in Key /\ Failing \subseteq Update

VARIABLES
  current,   \* the committed rows, as the update that set each
  pending,   \* history: updates under way that are valid, as AtomicSettings has them
  since,     \* history: the idle thresholds committed since each began
  put,       \* where each update is
  idle,      \* the idle threshold each will write
  row        \* the rows each transaction has locked, and the one it waits for

dbVars == <<current, pending, since>>
putVars == <<put, idle, row>>
allSettingsVars == <<dbVars, putVars>>

NoRows == [held |-> {}, wants |-> Nobody]

SettingsInit ==
  /\ current = [k \in Key |-> Initial]
  /\ pending = {}
  /\ since = [u \in Update |-> {}]
  /\ put = [u \in Update |-> "unsent"]
  /\ idle = [u \in Update |-> Initial]
  /\ row = [u \in Update |-> NoRows]

\* decodeSettingsUpdate and validateSettings: a body that is invalid ends at
\* once; one that names the idle threshold goes straight to the store.
UpdateSettings(u) ==
  /\ put[u] = "unsent"
  /\ \/ put' = [put EXCEPT ![u] = "done"] /\ UNCHANGED <<dbVars, idle, row>>
     \/ \E named \in BOOLEAN :
          /\ put' = [put EXCEPT ![u] = IF named THEN "writing" ELSE "reading"]
          /\ idle' = [idle EXCEPT ![u] = u]
          /\ pending' = pending \cup {[update |-> u, named |-> named]}
          /\ since' = [since EXCEPT ![u] = {current[Idle]}]
          /\ UNCHANGED <<current, row>>

\* GetSettings: the stored value is kept.
KeepIdle(u) ==
  /\ put[u] = "reading"
  /\ put' = [put EXCEPT ![u] = "writing"]
  /\ idle' = [idle EXCEPT ![u] = current[Idle]]
  /\ UNCHANGED <<dbVars, row>>

\* range over the map: any row that is left.
NextRow(u) ==
  /\ put[u] = "writing" /\ row[u].wants = Nobody
  /\ \E k \in Key \ row[u].held : row' = [row EXCEPT ![u].wants = k]
  /\ UNCHANGED <<dbVars, put, idle>>

Holder(k) == {u \in Update : k \in row[u].held}

\* Each upsert is a transaction of its own.
LockRowCommitting(u) ==
  /\ row[u].wants # Nobody /\ Holder(row[u].wants) = {}
  /\ row' = [row EXCEPT ![u] = [held |-> @.held \cup {@.wants}, wants |-> Nobody]]
  /\ current' = [current EXCEPT ![row[u].wants] = IF row[u].wants = Idle THEN idle[u] ELSE u]
  /\ UNCHANGED <<pending, since, put, idle>>

\* The upsert locks its row until the transaction ends.
LockRow(u) ==
  /\ row[u].wants # Nobody /\ Holder(row[u].wants) = {}
  /\ row' = [row EXCEPT ![u] = [held |-> @.held \cup {@.wants}, wants |-> Nobody]]
  /\ UNCHANGED <<dbVars, put, idle>>

Ends(u) ==
  /\ put' = [put EXCEPT ![u] = "done"]
  /\ idle' = [idle EXCEPT ![u] = Initial]
  /\ row' = [row EXCEPT ![u] = NoRows]
  /\ pending' = {p \in pending : p.update # u}

Commit(u) ==
  /\ put[u] = "writing" /\ row[u].held = Key
  /\ current' = [k \in Key |-> IF k = Idle THEN idle[u] ELSE u]
  /\ since' = [v \in Update |-> IF v = u \/ since[v] = {} THEN {} ELSE since[v] \cup {idle[u]}]
  /\ Ends(u)

\* The deferred Rollback.
Rollback(u) ==
  /\ put[u] \in {"reading", "writing"}
  /\ Ends(u)
  /\ since' = [since EXCEPT ![u] = {}]
  /\ UNCHANGED current

\* Some transactions wait for each other's rows in a circle.
Deadlocked(u) ==
  \E S \in SUBSET Update :
    u \in S /\ \A v \in S : \E w \in S \ {v} : row[v].wants \in row[w].held

\* The database ends one of them.
DeadlockAbort(u) == Deadlocked(u) /\ Rollback(u)

DatabaseFails(u) == u \in Failing /\ Rollback(u)

SettingsNext ==
  \E u \in Update :
    \/ UpdateSettings(u) \/ KeepIdle(u) \/ NextRow(u) \/ LockRow(u) \/ Commit(u)
    \/ DeadlockAbort(u) \/ DatabaseFails(u)

-----------------------------------------------------------------------------
(* Properties.                                                             *)

Atomic == INSTANCE AtomicSettings

\* Concurrent updates neither mix (a maintenance window never has the start of
\* one update and the end of another) nor block each other for ever, and one
\* without an idle threshold keeps a value that was current while it ran
\* (decodeSettingsUpdate: "An absent field must keep its stored value").
UpdatesAreAtomic == Atomic!ASpec
=============================================================================
