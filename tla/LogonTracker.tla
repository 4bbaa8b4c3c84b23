---------------------------- MODULE LogonTracker ----------------------------
(***************************************************************************)
(* The agent's count of who is signed in (agent/internal/logon).  A poller *)
(* lists the sessions of the operating system, compares the list with the  *)
(* one before (Diff) and updates the occupants and their metrics (apply).  *)
(* The names of the accounts go through the user policy, which heartbeats  *)
(* replace at any time, also while sessions are open.                      *)
(*                                                                         *)
(* A session is identified as Diff identifies it, by its line and account, *)
(* so an account that signs out and in again on one line between two polls *)
(* is one session here too.  One poll resolves every name under one        *)
(* policy.  The duration gauge and the login time only it reads are left   *)
(* out; the counters are those of the agent, before BaselineCounter.       *)
(***************************************************************************)
EXTENDS Integers, FiniteSets

CONSTANTS
  Line,         \* session IDs
  Account,      \* raw user names
  Key,          \* the session keys there may be
  Person,       \* canonical names
  NoPerson,     \* the account is ignored; no entry in counted
  Policies,     \* the policies heartbeats may bring
  Vacant,       \* no entry in users
  Never,        \* a gauge without a value
  MaxGap,       \* maxAccrualGap, in clock units
  Naps,         \* how long the machine may sleep
  MaxTime,      \* bound: the clock stops here
  MaxSignIns,   \* bound: sign-ins in one run of the agent
  MaxChanges,   \* bound: policies brought
  MaxFailures   \* bound: failed or wrong enumerations, and restarts of the agent

ASSUME LogonAssumption ==
  /\ Key \subseteq Line \X Account /\ IsFiniteSet(Key)
  /\ NoPerson \notin Person
  /\ Policies \subseteq [Account -> Person \cup {NoPerson}] /\ Policies # {}
  /\ MaxGap \in Nat \ {0}
  /\ Naps \subseteq Nat
  /\ {MaxTime, MaxSignIns, MaxChanges, MaxFailures} \subseteq Nat

VARIABLES
  open,      \* the sessions the operating system has
  policy,    \* the policy of the Holder
  poll,      \* the poll under way
  seeded,    \* whether a poll has succeeded
  sessions,  \* the sessions of the last poll
  counted,   \* the name each session was counted under
  users,     \* the occupants
  active,    \* user_session_active
  logins,    \* user_session_logins_total
  seconds,   \* user_session_seconds_total
  now,
  awake,     \* history: time not slept since the agent's start
  dozed,     \* history: time slept since then, no longer than MaxGap at a time
  signIns,   \* history: sign-ins since the agent's start
  mislisted, \* history: sessions that lists since then lost or misnamed
  changes, failures

trackerVars == <<seeded, sessions, counted, users>>
metricVars  == <<active, logins, seconds>>
clockVars   == <<now, awake, dozed>>
vars == <<open, policy, poll, trackerVars, metricVars, clockVars, signIns,
          mislisted, changes, failures>>

User == [sessions : Nat \ {0}, accrued : Nat]
ASSUME VacantAssumption == Vacant \notin User /\ Never \notin {0, 1}

TypeOK ==
  /\ open \in SUBSET Key
  /\ policy \in Policies
  /\ poll \in [phase : {"idle", "listed"}, current : SUBSET Key]
  /\ seeded \in BOOLEAN
  /\ sessions \in SUBSET Key
  /\ counted \in [Key -> Person \cup {NoPerson}]
  /\ users \in [Person -> User \cup {Vacant}]
  /\ active \in [Person -> {0, 1, Never}]
  /\ logins \in Nat
  /\ seconds \in [Person -> Nat]
  /\ now \in Nat /\ awake \in Nat /\ dozed \in Nat
  /\ signIns \in Nat /\ mislisted \in Nat
  /\ changes \in Nat /\ failures \in Nat

IdlePoll == [phase |-> "idle", current |-> {}]

TrackerInit ==
  /\ poll = IdlePoll
  /\ seeded = FALSE /\ sessions = {}
  /\ counted = [k \in Key |-> NoPerson]
  /\ users = [p \in Person |-> Vacant]
  /\ active = [p \in Person |-> Never]
  /\ logins = 0
  /\ seconds = [p \in Person |-> 0]

\* A line has one account at a time.
OneAccountALine(S) == \A j, k \in S : j[1] = k[1] => j = k

Init ==
  /\ open \in SUBSET Key /\ OneAccountALine(open)
  /\ policy \in Policies
  /\ TrackerInit
  /\ now = 0 /\ awake = 0 /\ dozed = 0 /\ signIns = 0 /\ mislisted = 0
  /\ changes = 0 /\ failures = 0

-----------------------------------------------------------------------------
(* The machine, its users, and the server's policy.                        *)

SignIn(k) ==
  /\ k \notin open /\ OneAccountALine(open \cup {k})
  /\ signIns < MaxSignIns
  /\ open' = open \cup {k}
  /\ signIns' = signIns + 1
  /\ UNCHANGED <<policy, poll, trackerVars, metricVars, clockVars, mislisted, changes, failures>>

SignOut(k) ==
  /\ k \in open
  /\ open' = open \ {k}
  /\ UNCHANGED <<policy, poll, trackerVars, metricVars, clockVars, signIns,
                 mislisted, changes, failures>>

Tick ==
  /\ now < MaxTime
  /\ now' = now + 1 /\ awake' = awake + 1
  /\ UNCHANGED <<open, policy, poll, trackerVars, metricVars, dozed, signIns,
                 mislisted, changes, failures>>

\* The clock the tracker reads may run on while the machine sleeps; the gap of a
\* short sleep is like that of a few polls.
Sleep(nap) ==
  /\ now + nap <= MaxTime
  /\ now' = now + nap
  /\ dozed' = IF nap <= MaxGap THEN dozed + nap ELSE dozed
  /\ UNCHANGED <<open, policy, poll, trackerVars, metricVars, awake, signIns,
                 mislisted, changes, failures>>

\* Holder.Set.
SetPolicy(new) ==
  /\ changes < MaxChanges /\ new # policy
  /\ policy' = new
  /\ changes' = changes + 1
  /\ UNCHANGED <<open, poll, trackerVars, metricVars, clockVars, signIns, mislisted, failures>>

\* A new process has nothing of the tracker or its metrics.
AgentRestarts ==
  /\ failures < MaxFailures
  /\ failures' = failures + 1
  /\ poll' = IdlePoll
  /\ seeded' = FALSE /\ sessions' = {}
  /\ counted' = [k \in Key |-> NoPerson]
  /\ users' = [p \in Person |-> Vacant]
  /\ active' = [p \in Person |-> Never]
  /\ logins' = 0
  /\ seconds' = [p \in Person |-> 0]
  /\ awake' = 0 /\ dozed' = 0 /\ signIns' = 0 /\ mislisted' = 0
  /\ UNCHANGED <<open, policy, now, changes>>

-----------------------------------------------------------------------------
(* The poll.                                                               *)

Enumerate ==
  /\ poll.phase = "idle"
  /\ poll' = [phase |-> "listed", current |-> open]
  /\ UNCHANGED <<open, policy, trackerVars, metricVars, clockVars, signIns,
                 mislisted, changes, failures>>

EnumerateFails ==
  /\ poll.phase = "idle" /\ failures < MaxFailures
  /\ failures' = failures + 1
  /\ UNCHANGED <<open, policy, poll, trackerVars, metricVars, clockVars, signIns,
                 mislisted, changes>>

LinesOf(S) == {k[1] : k \in S}

\* Sessions the tracker had or would have adopted, and L does not have.
Lost(L) == IF seeded THEN (open \cap sessions) \ L ELSE open \ L

\* A list with sessions missing, or none, is no error to the enumerators: the
\* system gave no processes, or a session could not be queried.  A session whose
\* domain could not be has another account's name.
EnumerateWrongly(L) ==
  /\ poll.phase = "idle" /\ failures < MaxFailures
  /\ L # open /\ LinesOf(L) \subseteq LinesOf(open) /\ OneAccountALine(L)
  /\ failures' = failures + 1
  /\ poll' = [phase |-> "listed", current |-> L]
  /\ mislisted' = mislisted + Cardinality(Lost(L)) + Cardinality(L \ open)
  /\ UNCHANGED <<open, policy, trackerVars, metricVars, clockVars, signIns, changes>>

\* Diff.
Started == poll.current \ sessions
Ended   == sessions \ poll.current

Resolve(k) == policy[k[2]]

\* The name a session ends under is resolved anew.
ResolvedAtLogout(k) == Resolve(k)

\* The name a session ends under is the one it was counted under.
CountedAs(k) == counted[k]

Left(p)   == {k \in Ended : CountedAs(k) = p}
Joined(p) == {k \in Started : Resolve(k) = p}

\* A gap is credited whatever its length.
AnyGap(gap) == gap > 0

\* A gap longer than the cap was slept through.
Accrues(gap) == gap > 0 /\ gap <= MaxGap

\* accrueLocked.
Accrued(p) == IF users[p] # Vacant /\ Accrues(now - users[p].accrued)
              THEN now - users[p].accrued ELSE 0

\* An occupant without sessions is gone.
NobodyLeft(n) == n <= 0

\* The occupant after the ended sessions, and after the started ones.
Remaining(p) ==
  IF users[p] = Vacant THEN Vacant
  ELSE LET n == users[p].sessions - Cardinality(Left(p)) IN
       IF Left(p) # {} /\ NobodyLeft(n) THEN Vacant
       ELSE [sessions |-> n, accrued |-> now]

Occupant(p) ==
  IF Joined(p) = {} THEN Remaining(p)
  ELSE [ sessions |-> Cardinality(Joined(p))
                        + (IF Remaining(p) = Vacant THEN 0 ELSE Remaining(p).sessions),
         accrued  |-> now ]

\* Sessions are logins from the first poll on.
AlwaysSeeded == TRUE

\* Sessions the first poll finds are adopted.
CountsLogins == seeded

Apply ==
  /\ poll.phase = "listed"
  /\ users' = [p \in Person |-> Occupant(p)]
  /\ counted' = [k \in Key |->
       IF k \in Started THEN Resolve(k)
       ELSE IF k \in Ended THEN NoPerson ELSE counted[k]]
  /\ active' = [p \in Person |->
       IF Joined(p) # {} THEN 1
       ELSE IF users[p] # Vacant /\ Remaining(p) = Vacant THEN 0 ELSE active[p]]
  /\ logins' = IF CountsLogins
               THEN logins + Cardinality({k \in Started : Resolve(k) # NoPerson})
               ELSE logins
  /\ seconds' = [p \in Person |-> seconds[p] + Accrued(p)]
  /\ sessions' = poll.current
  /\ seeded' = TRUE
  /\ poll' = IdlePoll
  /\ UNCHANGED <<open, policy, clockVars, signIns, mislisted, changes, failures>>

Next ==
  \/ \E k \in Key : SignIn(k) \/ SignOut(k)
  \/ \E new \in Policies : SetPolicy(new)
  \/ Tick \/ AgentRestarts \/ \E nap \in Naps : Sleep(nap)
  \/ Enumerate \/ EnumerateFails \/ Apply
  \/ \E L \in SUBSET Key : EnumerateWrongly(L)

Spec == Init /\ [][Next]_vars

-----------------------------------------------------------------------------
(* Properties.                                                             *)

Counted(p) == {k \in Key : counted[k] = p}

\* A person is an occupant, and shown active, exactly while a session of the
\* last poll is counted under the name, however the policy changes while
\* sessions are open (tracker.go: "the user policy can change mid-session ...
\* and a fresh lookup would miss").
OccupancyAgrees ==
  \A p \in Person :
    /\ Counted(p) \subseteq sessions
    /\ IF users[p] = Vacant
       THEN Counted(p) = {} /\ active[p] # 1
       ELSE users[p].sessions = Cardinality(Counted(p)) /\ active[p] = 1

\* An agent counts no more logins than there were sign-ins since it started, for
\* any restart and any poll that ends in an error (tracker.go: counting the
\* sessions open at startup "would resurrect the restart-inflation bug") - and
\* one more for every session that a list it took for good had lost, and for
\* every one such a list had under another name.
LoginsNotInflated == logins <= signIns + mislisted

\* Nobody is credited more time than the machine was awake, though a person has
\* several sessions and polls fail (tracker.go: "a signed-in-but-asleep machine
\* is not occupied"), but for sleeps no longer than four polls: nothing of a
\* longer one is credited, with whatever time awake before or after it.
SecondsWithinAwake == \A p \in Person : seconds[p] <= awake + dozed
=============================================================================
