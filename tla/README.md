# OpenStats in TLA+

OpenStats counts who uses which computer and which application in a fleet of
lab machines. An *agent* on every machine (Windows or macOS) watches processes,
sign-ins and the foreground window and keeps Prometheus counters; a *server*
keeps the registry of agents, stores the counters the agents push, serves them
to Prometheus, rolls agent updates out, and answers reports.

This directory models the parts of that program where state, time and
concurrency meet, checks them with TLC on small instances, and proves the
safety properties that matter most with TLAPS for all values of the constants.
`PROJECT.json` lists the parts, the runs, the source lines every definition
stands for, the hazards and the theorems. Paths below are relative to `src/`.

## Inventory

### The agent

| part | state | operations | concurrency and failure |
|---|---|---|---|
| Process tracker, `agent/internal/monitor/tracker.go` | `groups`, `pidToGroup`, `familyGroups` under one mutex | `OnProcessStart`, `RegisterExistingProcess`, `OnProcessStop`, `Reconcile`, `CheckpointActive`, `IncrementForeground` | called by five goroutines |
| Windows pipeline, `monitor/wmi.go`, `procs_windows.go`, `cmd/agent/helpers.go`, `agent_windows.go` | the WMI subscription, its two event streams, the snapshot of a reconcile under way | startup scan, start loop, stop loop, checkpoint loop (clock, list, reconcile, checkpoint) | events overtake each other; a failing subscription loses what is queued |
| macOS pipeline, `monitor/proc_darwin.go`, `elevation.go`, `elevation_darwin.go` | `prevPIDs`, `elevatedSeen` | startup scan, seeding, `poll`, `currentSnapshot`, the ancestor walk | one goroutine beside the checkpoint loop; listings miss processes, pids are reused between polls |
| Baseline counters, `metrics/baseline.go` | `pending`, `exposed`, `epoch` under a mutex, the Prometheus vector | `Add`, `beginScrape`, `release`, `beginDelivery`, `delivered` | scrapes overlap; pushes fail and are late |
| Push loop, `enrollment/client.go` | none between ticks | `RunMetricsPush` every 30 s | answers are lost |
| Heartbeat and self-update, `enrollment/client.go`, `selfupdate*.go` | `updateInProgress`, the server's window, the local override marker | `RunHeartbeat`, `launchSelfUpdate` | installs fail, the process is replaced |
| Logon tracker, `logon/tracker.go`, `logon.go` | `sessions`, `counted`, `users`, `seeded` | `Poll`: `Enumerate`, `Diff`, `apply`, `accrueLocked` | the policy changes under it; polls fail; the machine sleeps |
| User policy, `userid/userid.go`, `holder.go` | the policy | `Set`, `Resolve` | replaced by every heartbeat |
| Session helpers, `session/*.go` | `states` under a mutex, `Hub.latest`, one goroutine per helper | `reconcile`, `start`, `watch`, `shutdown`; `Update`, `Remove`, `Fresh` | helpers exit, hang, cannot be started |
| Foreground poller, `monitor/foreground_poller.go`, `session/hub.go`, `cmd/agent/helpers.go` | the last tick, the idle threshold | `tick`, `Hub.Fresh`, `idleThreshold.Apply` | helpers hang with a sample left in the hub; the machine sleeps; the threshold changes |
| Windows elevation walk, normalizer, inventory, log rotation, configuration, service wrappers | small or none | | mostly pure or input and output |

### The server

| part | state | operations | concurrency and failure |
|---|---|---|---|
| Heartbeat handler and rollout, `server/internal/api/agents.go`, `rollout.go`, `internal/store/postgres.go` | `agents` rows: offer time, target, pending update | `RegisterAgent`, `decideRolloutUpdate`, `ClaimUpdateSlot`, `ReleaseUpdateSlot`, `TakeAgentPendingUpdate`, `ForceAgentUpdate` | one handler per agent, an advisory lock, agents that never hear the answer |
| Snapshot store, `api/metrics_store.go` | last body of each agent, in memory | `Set`, `GetAll`, pruning, staleness | lost when the server restarts |
| Fleet registry and labs, `api/agents.go`, `labs.go`, `cmd/server/main.go` | tables `agents`, `labs` | `UpsertAgent`, `CreateLab`, `UpdateLab`, `DeleteLab`, `AssignAgentToLab`, `DeleteAgent`, `MarkStaleAgents`, `DeleteStaleAgents` | a ticker beside the handlers; statements fail |
| Service discovery, `discovery/file_sd.go` | the target file, a mutex | `Refresh` | called by all of the above, and may fail |
| Pushes, `api/agents.go`, `metrics_ingest.go` | none | `PushAgentMetrics`: verify, parse, rewrite, insert, stamp, store | reads tables that change before it stores |
| Application mappings, `api/mappings.go` | table `software_mappings` | create, update, toggle, quick-ignore, delete, `BatchAutoInsertMappings` | look first, write later; pushes insert |
| User identity, `api/users.go`, `internal/userid/userid.go`, `internal/userid/promql.go` | table `user_mappings`, `user_strip_domain` | rule handlers, `Resolve`, `IgnoreMatcher`, `ListDiscoveredUsers` | agents learn the rules with heartbeats that are lost |
| Prometheus proxy, `api/router.go` | `promCache`, calls in flight, a semaphore | `RoundTrip` of two transports, the janitor | shared calls and results, deadlines |
| Reports, `api/reports.go` | none | the report handlers | each reads five tables and Prometheus one by one |
| Settings, `api/settings.go` | table `settings` | `GetSettings`, `UpdateSettings` | row locks in the order of a Go map |
| Installers and their mirror, `api/installers.go`, `internal/installersync/installersync.go` | a directory, `checksumCache` | `syncOnce`, `findLatestInstaller`, `installerChecksumForURL` | downloads and host copies beside heartbeats |
| `openstatsctl`, the web UI | none | REST calls | none of their own |

### How they interact

The pipelines, the poller and the stop, checkpoint and reconcile paths share the
tracker and credit the baseline counters. The counters are read by the push loop
(or by local scrapes) and travel through the server's snapshot store to
Prometheus, which keeps no state of the agent. Every heartbeat carries down the
user policy (read by all crediting paths), the maintenance window and perhaps
an update, which ends the agent process and with it all of its memory. The
helpers feed the poller through the hub.

On the server, heartbeats and the stale checker write the registry, and every
writer refreshes the one target file. A push passes the registry (who is it, in
which lab), the mappings (what its applications are called) and the snapshot
store. A report reads registry, rules, mappings and Prometheus, the last through
the proxy. Rules are applied twice: by the agent when it collects and by the
server when it reports.

### What makes each part correct

- Tracker and pipeline: the three maps agree; no running process is dropped; a
  process that exited unseen is dropped; time is credited once.
- Counters: what is added is shown exactly once; the first sample a reader gets
  of a series is 0; nothing is held for ever.
- Rollout: never more agents update at once than allowed; every agent gets its
  turn; pins and forced updates are honoured.
- Logon: occupants are those with sessions; logins are real sign-ins, but for
  what lists lost; time asleep does not count, but for short sleeps.
- Helpers: one per session, samples only of running ones, restarts are spaced
  and do not stop.
- macOS: a session belongs to the process its pid has now; an elevation counts
  once, whatever listings miss.
- Foreground: time with nobody at the keyboard earns nothing, also when a helper
  hangs.
- Fleet: one lab for a room; an assignment stands; targets, served series and
  their labels follow the tables.
- Proxy: callers are answered, never with a result older than its time to live
  and deadline allow.
- Settings: updates do not mix, and none waits for ever.
- Mappings: one row for an executable; what is served follows the table.
- Identity: both sides name a user alike; whoever is counted is listed.
- Reports: no row says what was never so; two ways to one number agree.
- Installers: what is offered is whole and the newest, with its own checksum.

The behaviours that are hard to test, each at its line, are the `hazards` of
`PROJECT.json`.

## Modules

| module | models | composed of |
|---|---|---|
| `ProcessTracker` | the tracker's state and methods | |
| `ProcessMonitor` | the Windows pipeline that drives them | extends `ProcessTracker` |
| `MacMonitor` | the macOS poll and its elevations | |
| `ForegroundPoller` | samples, hub, poller, idle cutoff | |
| `AgentMonitors` | what feeds an agent's usage counters | extends the three above |
| `BaselineCounter` | the counter vector's state and methods | |
| `MetricsPush` | push loop, snapshot store, Prometheus | extends `BaselineCounter` |
| `LocalScrape` | overlapping scrapes of an agent without a server | extends `BaselineCounter` |
| `Counters` | the agent's choice between the two | extends `MetricsPush`, `LocalScrape` |
| `UpdateRollout` | heartbeats, slots, installs | |
| `LogonTracker` | sign-ins, polls, policies | |
| `HelperSupervisor` | reconcile loop, helper goroutines, hub | |
| `Fleet` | registry, labs, stale checker, target file, pushes into the store | |
| `QueryService` | abstract: what reports may expect of Prometheus | |
| `PromProxy` | the two transports and the cache | implements `QueryService` |
| `AtomicSettings` | abstract: what an administrator may expect of an update | |
| `Settings` | PUT /settings over row locks | implements `AtomicSettings` |
| `Mappings` | the mappings table, its handlers and the rewriting of pushes | |
| `UserIdentity` | rules, policies, resolution on both sides, the matcher, the users page | |
| `Reports` | sixteen reports, read by read | |
| `Installers` | mirror, host copies, choice, checksums | |
| `ServerParts` | the server beside the registry | extends the six concrete modules above |
| `MC...` | values of the constants for TLC | extends the module |
| `...Proofs` | inductive invariants, lemmas, theorems | extends the module |

`AgentMonitors`, `Counters` and `ServerParts` put parts together that never
write each other's state. A behaviour is one of one part, with the others at
rest: interleaving them would multiply the states and add no behaviour of any
part. Each conjoins the part's action with `UNCHANGED` of the rest, so the
actions and properties of the parts are used as they are.

A method that holds a mutex from its first to its last access of shared state is
one action. A goroutine that reads something, lets go, and uses it later has an
action for each part, and a variable that holds what it read (`loop`, `request`,
`push`, `poll`, `rec`, `watch`, `ingest`, `edit`, `fetch`, `offering`). A statement
of SQL is one action, as is a transaction that locks all it reads. Definitions above another one that share its
parameters and are used nowhere (`AnyGap`, `NoWait`, ...) are plausible mistakes
in it; putting one in place of its successor makes TLC find the property it is
listed with in `PROJECT.json` violated.

### ProcessTracker and ProcessMonitor

`groups`, `pidToGroup` and `familyGroups` are the maps of `Tracker`; `since` is
`MemberPIDs` with its registration times. `OnProcessStart` joins the parent's
group (`ParentGroup`), else the group of the user's family (`FamilyGroup`), else
founds one. `OnProcessStop`, `Reconcile` and `CheckpointActive` are the methods
of the same name, with the sessions they return as sets (`EndedByStop`,
`EndedByReconcile`).

`ProcessMonitor` adds the operating system (`fate`, `proc`), the agent's start
(scan, adopt, up: a process that starts between the scan and the subscription is
never seen, as in the code), the two event queues as sets, so that a stop may be
handled before its start, subscription failures that empty both, and the
checkpoint loop in its four steps: read the clock, list, reconcile, checkpoint.

Abstractions: excluded processes do not appear; the mapping that gives families
is fixed; `AppLaunches` (incremented where usage is credited) and the Windows
elevation walk are left out; the crediting callback `onStop` is part of the step that
ends the session. A pid is handed out again only in the run that asks for it
(`Reuse`), and only after the events of its last owner were read; that is the
assumption under which the code's own claims hold, and `ProcessMonitor_reuse`
shows what happens without it.

### MacMonitor

`life` is what the system runs: a process is a pid and the second of its start,
so a pid that is handed out again is another process, and two in one second
cannot be told apart by anybody (`unsure`). `ScanMac`, `SeedPrevPIDs` and `Poll`
are `ScanExistingProcesses`, the seeding of `PollWatcher.Run` and `poll` with
`currentSnapshot`; the list of each of them may lack a process whose information
cannot be read, or be empty (`Listing`). `unscanned` is history: who came after
the scan or was missed by it, and has been in every list since. `Elevated` is the walk over the ancestors, hop by hop, with the
tables of setuid tools and of programs that stand between a user and the
elevated child. `due` is history: what a process may count at most. The tracker
is `ProcessTracker`'s business; here a session is a process, and reconciling one
step.

### ForegroundPoller

`latest` is `Hub.latest`; a sample has its idle time, its age, and whether the
idle time was measured. `Pass` is time, `PollTick` the whole `tick`: the check of
the gap, `Hub.Fresh`, then credit for each fresh sample, or the agent's own
lookup when there is none. `input` is the truth a sample may lag behind. Helpers
start, exit and hang at any moment; their processes are `HelperSupervisor`'s.

### BaselineCounter, MetricsPush and LocalScrape

`value` is what a gather reads, `exposed` and `pending` are the maps of the
vector, `added` is history. An epoch is replaced by the answer it is used for:
the set of label sets that were pending when the scrape or push began.
`firstDelivered` is the time since, up to the hold. The seven vectors of the
agent share no state and are one.

`MetricsPush` has the push in its steps (`BeginPush`, `Gather`,
`PushAgentMetrics`, then `PushDelivered` or a failure before or after the server
took it), the in-memory store with its staleness, scrapes in no fixed phase to
the pushes, stops of the server and restarts of the agent. Timers count down, so
behaviours are infinite and liveness is meaningful. Two HTTP timeouts of 10 s are
shorter than the period of 30 s, so pushes of one agent do not overlap.
`LocalScrape` has any number of readers in the three steps of `wrapScrape`.
`Counters` chooses between them once, as `runAgent` does, so that what the
vectors promise (`HeldOrExposed`) is one property of both modes.

### UpdateRollout

`row` has the rollout columns of an agent, with the offer time as an age;
`request` is the heartbeat under way, which goes through the handler statement
by statement (take the pending update, decide, claim, count under the lock,
stamp, answer). `NOW()` is the start of the transaction, so a claim that waited
for the lock stamps an older time (`wait`). The agent's side is its own window
and override, `updateInProgress`, an install that succeeds, fails, or ends with
the agent restarting. Versions are numbers and stand for their installers.

Abstractions: version, status and lab columns, deletion of rows, several
platforms and auto-update switched off are left out; the checksum is part of
`InstallFails`; how long an install takes is not bounded.

### LogonTracker

`open` is what the operating system has; `sessions`, `counted`, `users`,
`seeded` are the fields of `Tracker`; `active`, `logins`, `seconds` its metrics.
A poll is `Enumerate`, then `Apply` with whatever policy `Holder` has by then.
`Apply` is the whole method under its lock: accrual, ended sessions, started
sessions, in that order (`Remaining` is an occupant after the ended ones,
`Occupant` after both). A session that ends and begins again under the same key
between two polls is one session, here as in `Diff`. `EnumerateFails` is an
error; `EnumerateWrongly` is what the enumerators return without one: no sessions,
some of them, or one under an account without its domain. `mislisted` and `dozed`
are history: the sessions such lists lost or misnamed, and the time in sleeps no
longer than the cap. The duration gauge, the login time, how the two systems
enumerate, and a policy that changes in the middle of one `apply` are left out.

### HelperSupervisor

`states` and `latest` are `Supervisor.states` and `Hub.latest` (a sample is
known by the helper it came from). `rec` is the reconcile under way: `List`
(`desired`), `Sweep` (the loop under the lock that kills or forgets), then for
each session `Consider` (the check under the lock) and `Spawn`, `SpawnFails` or
`NotPrivileged` (`start`). `watch` is where the goroutine of each helper is:
reading, killing, waiting, removing its sample, recording the exit. Killing only
dooms a process; the system ends it later. Times are ages, capped where the
back-off stops telling them apart. A spawn comes some time after its reconcile
read the clock, and the state keeps the earlier time; `spawnAge` and `late` are
history of both. What samples say and how long they stay fresh
is `ForegroundPoller`'s.

### Fleet

`row` and `labs` are the tables, `targets` the file, `snapshot` the store with
ages. A heartbeat is `BeginHeartbeat`, `FindLab`, `CreateDerivedLab`, `Upsert`:
the statements of `UpsertAgent` with its derived lab id, each of which may fail.
A push is `VerifyPush`, `StampServerLabels`, `StorePush`. The administrator's
request is between two steps in `admin` (`checkLabCollision` then the write; the
row then the snapshot of a deletion). Every writer enters `waiting` and then
`BeginRefresh` (under the mutex: the query) and `WriteTargets`. `raced` and
`missed` are history for the two properties that exempt what the code cannot
help: a writer whose look was overtaken, and a refresh that failed.

Abstractions: hostnames are the agents; columns that nothing here reads are left
out; thresholds are counted in heartbeats missed. The derived id is any function
of the room: the code joins building and room with a dash (`postgres.go`), so
`A-B`, `C` and `A`, `B-C` share one, and the second room stays without a lab.

### PromProxy and QueryService

A client's call is in the cache lookup, then in `Do`, then waits. `flight` is the
call of each URL (queued, upstream) with its own age, `cache` the time left and
the age of the result. A deadline that has passed is acted on before the next
tick. `QueryService` knows only who asks what and the last answers; the
refinement mapping is the identity on these, with `Bound` the time to live plus
the deadline. It states safety (age, no cached failure) and liveness (every
caller is answered) at once.

### Settings and AtomicSettings

A value is the update that wrote it. A PUT reads the idle threshold when the body
has none (`KeepIdle`), then locks row after row in any order (`NextRow`,
`LockRow`) and commits; updates that wait in a circle are ended one at a time by
the database. `pending` and `since` are history that the abstract specification
needs and that the code's steps determine.

### Mappings

A row belongs to a spelling; everything but the unique key compares without case,
and of two rows of one executable the one that sorts last counts (`Rewrite`).
`ingest` is the push of each agent with the table it read, `edit` the request of
each administrator between look and write. `raced` records executables written by
a request whose look was out of date.

### UserIdentity

A name is a domain, an account and a suffix, and a pattern is a name whose
account may be the wildcard, which is as far as the code's own splitting goes.
`Resolve`, `Canonicalize`, `PolicyFromMappings` and `Outcome` are the two copies of
`userid.go`; `UserPolicy` is the server's policy, `held` each agent's.
`GlobToRegex` is what the regular expression of `IgnoreMatcher` matches. `fetch`
is the heartbeat that carries a policy down, in two reads. The structural
patterns are sets of parts of names: `Short`, `Underscored`, `Suffixed` and
`Reserved`. `Resolve` looks at how the whole name begins and ends and
`IgnoreMatcher` at its account; `Matchable` are the names for which that makes no
difference. Domains written with a slash are not distinguished, and patterns
with a wildcard elsewhere than at the end are not modelled.

### Reports

`report` is the one under way, which reads agents, labs, the option to strip
domains, rules, mappings and samples one after the other in the order of its
handler; in between, machines are assigned, enrolled and deleted, labs created,
renamed and deleted, the option and the rules changed, and reads fail. A machine
has the id of its lab, and a lab its name, as in the tables. Whom a name stands
for under an option and rules is a constant of the module, which the instance
takes from `UserIdentity`. A sample is its sums for the range. The sixteen kinds
are the operators `Report...` over what was read, and `reply` keeps the keys of the
rows. `ever` is history: which rules with which earlier options, and which names
of labs with which earlier members, there were since the report began. Hostnames
are the machines and names are compared without case.

### Installers

A file holds the asset, a part of it, a copy, or a part of that, and the time of
its last write, to which the checksum cache is keyed. `syncOnce` goes through the
release, downloading to a temporary file that is renamed. A heartbeat picks the
newest file, and, if the cache misses, hashes and caches in three steps.

## Runs

All of them finish in under four minutes on two cores.

| run | asks | bounds |
|---|---|---|
| `AgentMonitors` | Windows: maps agree, no running process dropped, reconcile leaves no group of dead processes, time credited once. macOS: sessions are of the running process, elevations once. Foreground: credit follows input | 2 pids, a user and the failed lookup, a family and a lone application, clock 2, 1 failure; 2 mac pids, 1 user and root, clock 1, 1 missed listing; 1 seat, freshness 3, cutoffs 0, 2 and 3, 1 change |
| `ProcessMonitor_liveness` | a process that exited unseen is dropped | the Windows bounds with one application and clock 1; its state graph is small enough for fairness |
| `ProcessMonitor_reuse` | *violated*: reconcile leaves a group of dead processes when a pid is handed out again | clock 3 |
| `Counters` | push: amounts are neither lost nor doubled, shown as 0 first unless the server stopped, counted in the end. Scrape: a zero is shown before the amount | hold 7, periods 3, pushes up to 2 late, staleness 9, 2 failures, 1 stop, 1 restart; 2 readers |
| `MetricsPush_restart` | *violated*: first sample is 0 if the server restarts once | real proportions in units of 5 s: period 6, hold 15, pushes up to 4 late |
| `UpdateRollout` | budget holds, rollout completes | 2 agents, 1 slot, 1 fault, 1 change, 2 versions |
| `UpdateRollout_forced` | *violated*: a forced update leaves the row with its answer | the same |
| `UpdateRollout_pin` | *violated*: with a pin, the answer is the pinned installer | the same |
| `LogonTracker` | occupants, logins and time | 2 lines, 3 accounts (one of them another without its domain), 2 people, 3 policies, 1 sign-in beside the sessions there were, clock 3, sleeps of 1 and 2 and a cap of 1, 1 failure, wrong list or restart |
| `HelperSupervisor` | one helper, fresh hub, spaced spawns, ends and restarts | 1 session, 2 helpers, 2 failures, 2 changes of the session, limit of 2 quick exits |
| `Fleet` | one lab for a room, assignments stand; targets, served series and labels follow | 2 rooms, 3 lab ids; four scenarios: two scraped agents of one room and 1 request; one agent, 2 requests and 1 failure; one that pushes and 1 request; one that pushes and 1 failure |
| `ServerParts` | the proxy and the settings implement their specifications; mappings, rules, reports and installers | 2 calls, 2 URLs, limit 1, time to live 2, deadline 2; 3 updates, 2 settings, 1 failure; 1 agent, an executable with 3 spellings and titles, 2 administrators, 2 edits, 1 failure; 1 station, 6 raw names of all structures, 3 patterns, 2 edits, 1 failure; 2 machines, labs, names, users and applications, 3 states of the rules, 2 changes in reports of logins, 1 in those of devices and of usage by lab, none in the other thirteen, 1 failed read; 2 files, 1 release, 1 copy, 2 overlapping heartbeats |

Why the bounds are enough: each is the smallest at which the case a property is
about happens. Two pids make a parent and child, a family with two members, and
a group that outlives its root. Two readers overlap in every way one can gain
from another. One slot and two agents make the budget bind. Two sessions, two
people and a merging policy make one occupant of two sessions, and one session
that is counted under a name the policy no longer gives. Two helpers are an
ending one and its successor; sessions share nothing in the supervisor but the
loop. Two agents of one room are enough to split it, and a request overlaps every
statement of a heartbeat; agents meet nowhere else in the registry. Two calls to
one URL share a flight, two to two URLs queue for the one turn. Three updates of
two rows can wait in a circle while a third reads the idle threshold. Two changes
between the reads of a report move a machine and rename the lab it was in, or
switch the option and change the rules, so that what was read never was; the report
of logins, of one lab or all, has both. The other
reports of users read and fold as that of logins does, no row property is about
the rest, and the theorem is for any number of changes in each. Two heartbeats and a copy put a checksum between two
writes. Every property has a mutant that the run's own bounds expose. Bounds on
time and faults are guards of the actions that use them up; deadlock is checked
except where clock, processes or edits run out: the `ProcessMonitor` runs,
`AgentMonitors` and `ServerParts`.

Two bounds were chosen by cost: with two seats `ForegroundPoller` alone has 9.3
million states (seats share only the choice between fresh samples and the
agent's own lookup), and two agents with requests and failures at once are more
than `Fleet` can be searched for with liveness; hence its scenarios.

Symmetry is used in `AgentMonitors` and `ProcessMonitor_reuse` (pids are
interchangeable), never with liveness.

### Fairness

Each liveness property is checked under weak fairness of what the code runs in
loops of its own: the checkpoint loop's steps, the push loop's, the requests of
readers that were begun, polls, the reconcile loop and helper goroutines (tickers
and goroutines, which Go schedules), the stale checker, the refreshes and pushes
in `Fleet`, the calls, transactions and fetches in `ServerParts`, the system
ending a process that was killed, Prometheus scraping, the server being started
again, and time passing. Failures, users, restarts, event delivery and edits have
no fairness: they may happen or not. In `Fleet` heartbeats have none either, since
an agent may be switched off. `UpdateRollout` takes heartbeats, `InstallSucceeds`
and `WindowOpens` as fair: an installer that fails for ever, or a window that
never opens, stops a rollout, and should. Properties of the form
`<>[]P => <>[]Q` (`TargetsFollow`, `LabelsFollow`, `MappingsFollow`, ...) say that
what is derived follows what it is derived from once that is left alone.

### Refinement

`ProxyIsService` and `UpdatesAreAtomic` are the specifications of `QueryService`
and `AtomicSettings` under a mapping, checked as properties of `ServerParts`:
every step maps to a step or a stutter, and the fairness of the code's own steps
gives the abstract fairness. Their safety part is proved for every value of the
constants as well (`ServerPartsProofs`); the fairness part is checked on the
instance only.

## Disagreements met while modelling

Four runs show the code doing something other than it says; `findings` in
`PROJECT.json` quotes the lines.

1. `ProcessMonitor_reuse`: when a pid is handed out again while the tracker
   still lists it, its old group keeps it for ever and `Reconcile` never empties
   that group.
2. `MetricsPush_restart`: the hold counts from the delivery of the zero, but the
   zero lives in the server's memory; one restart in between and the first
   sample Prometheus gets is not 0.
3. `UpdateRollout_forced`: `UPDATE ... RETURNING pending_update` returns the
   cleared column, so a forced update is never delivered.
4. `UpdateRollout_pin`: the target is the pin, the answer is the newest
   installer.

The models also show the following, which no doc contradicts clearly enough for a
run of its own, or whose fault lies outside the step that shows it. The
properties are worded to leave them out, so that what else could go wrong shows.

- Registry: a lab lookup that fails is taken for a room without a lab and can
  split the room (`raced`). An agent the administrator has just taken out of a
  lab can be put back by a heartbeat under way. A heartbeat fails when its lab is
  deleted between its statements. The stale checker refreshes the targets before it
  deletes (`main.go:156-165`), so that its deletions stay in the file until another
  refresh.
- macOS: an application that starts between the scan at startup and the watcher's
  first list, or that only the scan missed, gets no session although it runs
  (`proc_darwin.go` leaves "pre-existing processes" to the scan). A root process
  that the first list missed counts as an elevation, which the same lines say must
  not happen; a list that misses one and the next that has it count once more.
- Logon: a list that was lost whole or in part signs people out, and the next
  good one counts them as logins. A sleep of up to four polls is credited.
- Helpers: `lastStart` is the time at which the reconcile began, so two spawns may be
  closer than the interval by as long as the first took to come.
- Settings: a PUT without an idle threshold can revert one that was set between
  its read and its write.
- Mappings: an automatic insertion that overlaps an administrator's creation
  leaves a lowercase row beside it. Quick-ignoring a title that has no row makes
  one whose executable name matches nothing. Nothing fetches the configured
  mapping URL.
- Identity: aliases that form chains resolve differently in one and two passes.
  The matcher misses machine and one-character accounts with a suffix, which
  `Resolve` drops once it is stripped, and one-character accounts behind a domain;
  with stripping off it drops `corp\_x`, which `Resolve` keeps (`promql.go:12`,
  `userid.go:229`). With stripping off the matcher drops `jd@edu` for a rule on `jd`, and `Resolve` keeps
  it. A heartbeat reads rules and stripping in two statements.
- Reports: samples of deleted machines, and of machines in a lab whose name was
  set to nothing (`UpdateLab` takes it), count as unassigned in one of the two ways
  only. A row may be of a person nobody stood for at any one instant, or of a lab
  under a name it got after the machine had left. When the rules cannot be read the built-in ones are used; when the
  mappings cannot, every application is shown. A title that is changed leaves a
  zero row under its new name.
- Proxy: the server's write timeout of 60 s is shorter than two queries of 45 s
  one after the other.
- Usage: when groups of one person under two accounts end in one reconcile, both
  are credited; only the checkpoint counts a person once (`helpers.go`: "two process
  groups owned by the same person under different name forms must land on one key,
  not two").
- Foreground: as soon as one helper delivers, seats whose helper does not earn
  nothing. A gap of more than four intervals earns nothing at all.
- Installers: a body that exceeds the size cap is cut, renamed into place as if
  whole, and never fetched again, against `installersync`'s own comment. A crash
  leaves the temporary file for ever. A download renames over a host copy. The
  fallback may offer an installer of the other platform.
- Rollout: an agent whose override is off takes slots it does not use, again and
  again; `MaxConcurrent` of them stop the rollout.

## Proofs

Each theorem says of the module's specification that an invariant, an action
property or the safety part of an abstract specification holds, for all values of
the constants that satisfy the module's named assumptions. In each proofs module,
one invariant is inductive where the property alone is not:

| module | theorems | why the invariant is stronger |
|---|---|---|
| `ProcessMonitorProofs` | `TrackerConsistency`, `NoLiveProcessDropped`, `GhostsLeaveNoGroup`, `TypeCorrect`, `ForegroundBalances`, `UsageBounded` (all for `~Reuse`; the last also for `OneAccountEach`) | a known pid stays tracked only because a snapshot taken after the clock was read contains it or it was registered since (`SnapshotSound`), and because queued stops are of exited processes (`Lifecycle`). What was given, credited and dropped is balanced by what all pids' groups hold, a sum over a fixed set, so that ending several groups moves one part of it (`ForegroundInv`). A group of a family has nothing credited after its last checkpoint (`Unspent`), and it is the only one that earns its label (`OneGroupEarns`) |
| `CountersProofs` | `BaselineBeforeAmount`, `NothingLost`, `ZeroIsScrapedFirst`, `TypeCorrect` | the invariants of the two modes, each under its mode; in scrape mode, once a request's body is gathered, each label set a request may release reads 0 in that body unless another request has released it already (`TokenSound`). A series Prometheus has not stored yet shows 0 wherever a scrape could read it: the hold counts from a delivery, the zero delivered stays in the snapshot, and a scrape is due before the hold ends (`ZeroStands`); a push under way carries that zero or nothing of the series (`PushSound`) |
| `UpdateRolloutProofs` | `RolloutWithinBudget`, `TypeCorrect` | only one claim at a time is past its count, and the slots the other agents hold leave it room until it has stamped (`LockSound`), because no offer gets younger behind its back |
| `LogonTrackerProofs` | `OccupancyExact`, `NoInflatedLogins`, `NoTimeAsleep`, `TypeCorrect` | logins are counted a poll after the sign-in and time at the next poll, so what is still to come is bounded with what has been counted (`LoginsBound`, `AccrualBound`); cardinality lemmas connect session counts with the sets of keys |
| `HelperSupervisorProofs` | `AtMostOneHelper`, `HubHoldsRunningOnly`, `SpawnsAreSpaced`, `TypeCorrect` | a helper that lives or is watched is the one its session's state runs, and conversely (`HelperKnown`, `StateWatched`); a process that was waited for is gone (`WaitedFor`); so a state that may spawn has neither helper nor sample. A session without a state was last served a tick ago or more, because forgetting it took a reconcile of its own (`ForgottenLongAgo`), and a state has not forgotten a start (`StartsRemembered`), which it has as old as the spawn and its delay together |
| `FleetProofs` | `Invariance`, `TypeCorrect`, `RoomsStayWhole`, `FileUpToDate`, `LabsAreKept` | what a heartbeat or a request saw of a room's labs stays true until it writes, or the room counts as raced (`BeatsSound`, `RequestSound`); rows name labs that exist (`LabsExist`), without which labels are no rooms; and a change of the tables is followed by somebody who has not begun to refresh, by a deletion half done, or is `missed` (`FileSound`) |
| `AgentMonitorsProofs` | `MonitorsInvariant`, `NoManufacturedElevations`, `ListedHaveSessions`, `OnlyThePresentAreCredited` | a root process that was not looked at has been counted less than it may be (`MayCount`); an entry with the start of a running process is of that process (`ListsSound`); a user has not been away for longer than the last sample's age and idle time together (`SeatInv`) |
| `ServerPartsProofs` | `PartsInvariant`, `ChecksumsAreCurrent`, `OffersNeverGoBack`, `RowsStayUnique`, `RowsAreTrue`, `LabReportsAlwaysAgree`, `MatcherAlwaysAgrees`, `CountedUsersAlwaysShown`, `UpdatesImplementAtomic`, `ProxyImplementsService` | what a request has read and not yet used is bounded with what it read from: a heartbeat's hash with the time of the file, an editor's look with the rows (`LooksSound`), an update's idle threshold with those current since it began (`IdleSound`), the age of a cached result with the time it has left. The newest file exists because files are finitely many and ties go by name (`NewestExists`). What a report has read of option, rules, ids and names was so at some moment since it began, the former of each two before the latter (`ReportsInv`, `InOrder`). The two ways to a lab's machines, the matcher and the users page are facts of the operators in every state of the tables |

Type invariants are proved where a proof rests on them, and then no run repeats
them; the modules without proofs are untyped but for the sets their properties
range over.

Constants carry what the code fixes, and no more: a hold that outlasts a scrape
period and a staleness that outlasts a late push (`HoldAssumption`: 75 s, 30 s,
5 min), a reconcile period of at least a spawn interval (`SpawnAssumption`: both are
constants of `supervisor.go` and `backoff.go`), finitely many pids (`PidAssumption`:
32 bits), the empty part of a name among the structural patterns as the code has
it (`IdentityAssumption`). Sleeps are of any length (`LogonAssumption`).
`~Reuse` and `OneAccountEach` are hypotheses of theorems and not assumptions: the run
`ProcessMonitor_reuse` and the limits above show what happens without them.

The credits of `ProcessMonitor` are sums over sets of groups, defined in the
community modules by a recursion. That this recursion has a solution on every
finite set, and that the sum does not depend on the order in which the elements
are taken, is proved here from the least counterexample (`SumsToAll`,
`TotalTakes`), because the induction rules of the library are out of the prover's
reach.

Only model-checked: all liveness properties (`GhostsReaped`, `EventuallyCounted`,
`UnwantedHelpersEnd`, `SessionsServed`, `RolloutCompletes`, `TargetsFollow`,
`DeletedUnserved`, `LabelsFollow`, `SnapshotsComeToFollow`, `AgentsAgree`), since
fairness is beyond the prover here, and with them the fairness part of the two
refinements. Every safety property of a passing run is proved.

## Not modelled, and the plan

Not modelled for good: the web UI, `openstatsctl`, service wrappers and
configuration (no state of their own), generated API documentation, and parsing
of executables and registries (pure input). What is left, in this order:

1. Pure algorithms against reference definitions: the Windows elevation walk,
   maintenance windows over midnight, version comparison, merging and validation
   of metric families.
2. Log rotation, the enrollment override marker.
3. A run of the rollout with an agent that refuses every update, which the
   current run excludes (`Override` is "auto" for both agents) and the code does
   not bound.
