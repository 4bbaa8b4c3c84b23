------------------------------- MODULE Reports -------------------------------
(***************************************************************************)
(* The reports (server/internal/api/reports.go).  A handler reads what it  *)
(* needs one table at a time - agents, labs, user rules, mappings - asks   *)
(* Prometheus in between, and folds the answer into rows; other requests   *)
(* change the tables meanwhile.  Some reports find the machines of a lab   *)
(* by looking each sample's hostname up, others put the hostnames of the   *)
(* lab into the query.                                                     *)
(*                                                                         *)
(* Samples are the sums Prometheus has for the range of the report; a      *)
(* sample of a session names no app and one of an app may name any.  Whom  *)
(* a username stands for depends on two things that are read one after the *)
(* other, an option and the rules (module UserIdentity); a machine has the *)
(* id of its lab, and the labs have the names.  Rows with equal amounts    *)
(* are in any order.                                                       *)
(***************************************************************************)
EXTENDS Naturals, Sequences, FiniteSets, FiniteSetsExt

CONSTANTS
  Machine, Lab, LabName, RawUser, Person, Program,
  Sample,        \* records of host, user, app, and the amount of each metric
  Ruleset,       \* states of user_mappings
  NoRules,       \* its first state, no rows
  StandsFor,     \* whom each username stands for, by option and rules
  MinLogins,     \* minLoginsForAvgSession
  Kind,          \* the reports that are asked for
  Limits,        \* how many rows they ask for
  FirstLab,      \* where the machines are enrolled
  FirstName,     \* the names of the first labs
  MaxChanges     \* bound: changes by the time each report is answered

AllLabs == "all"
Unassigned == "unassigned"
Absent == "absent"         \* a machine that is not enrolled
NoLab == "noLab"          \* a lab that was deleted, or not yet created
Nameless == "nameless"      \* UpdateLab takes an empty name
NoPerson == "nobody"       \* whom an ignored account stands for
Metric == {"launches", "foreground", "usage", "elevations", "seconds", "logins"}

ASSUME ReportsAssumption ==
  /\ Sample \subseteq [host : Machine, user : RawUser, app : Program, amount : [Metric -> Nat]]
  /\ FirstLab \in [Machine -> Lab \cup {Unassigned}] /\ FirstName \in [Lab -> LabName]
  /\ NoRules \in Ruleset
  /\ StandsFor \in [BOOLEAN \X Ruleset -> [RawUser -> Person \cup {NoPerson}]]
  /\ Limits \subseteq Nat \ {0}
  /\ MinLogins \in Nat \ {0} /\ MaxChanges \in [Kind -> Nat]
  /\ {Unassigned, Absent} \cap Lab = {} /\ {AllLabs, Absent, NoLab, Nameless} \cap LabName = {}
  /\ NoPerson \notin Person

VARIABLES
  machines,    \* the lab of each agent, Unassigned, or Absent
  labs,        \* the names of the labs, or NoLab
  stripping,   \* user_strip_domain
  ruleset,     \* user_mappings
  programs,    \* software_mappings: "unmapped", "known" or "ignored"
  samples,     \* what Prometheus has
  report,      \* the report being made: its reads to come and what it has read
  reply,       \* the keys of its rows
  ever,        \* history: what was true at some time since it was asked for
  changed      \* changes so far

tables == <<machines, labs, stripping, ruleset, programs, samples>>
reportVars == <<tables, report, reply, ever, changed>>

-----------------------------------------------------------------------------
(* What a handler makes of the view v it has read.                         *)

\* A machine the map does not have, or not with a name, is in no lab.
ShownAs(name) == IF name \in {Absent, Nameless} THEN Unassigned ELSE name

LabOf(v, h) == ShownAs(v.hosts[h])

\* Policy.Resolve.
Whom(policy, u) == StandsFor[<<policy.strip, policy.rules>>][u]

\* Samples of every machine are taken.
AnyMachine(v, h, lab) == TRUE

HostnameMatchesLab(v, h, lab) == lab = AllLabs \/ LabOf(v, h) = lab

\* Only agents that have a lab.
HostsAssigned(v, lab) == {h \in Machine : v.hosts[h] = lab /\ lab \in LabName}

LabHostnames(v, lab) == {h \in Machine : v.hosts[h] = lab}

\* buildLabelFilters and buildUserSessionFilters.
Unignored(v, S) == {s \in S : Whom(v.filter, s.user) # NoPerson}

\* buildRollupLabelFilters.
OfLab(v, lab) ==
  {s \in Unignored(v, v.found) : lab = AllLabs \/ s.host \in LabHostnames(v, lab)}

\* sum by (...) (...) > 0.
TotalsBy(S, Key(_), metric) ==
  LET T == {s \in S : s.amount[metric] > 0} IN
  [k \in {Key(s) : s \in T} |-> MapThenSumSet(LAMBDA s : s.amount[metric], {s \in T : Key(s) = k})]

AllowedAppSet(v) ==
  LET known == {a \in Program : v.programs[a] = "known"} IN IF known = {} THEN Program ELSE known

SumByCanonicalUser(v, S, metric, lab) ==
  TotalsBy({s \in Unignored(v, S) :
              HostnameMatchesLab(v, s.host, lab) /\ Whom(v.policy, s.user) # NoPerson},
           LAMBDA s : Whom(v.policy, s.user), metric)

AppTotals(v, S, metric) == TotalsBy({s \in S : s.app \in AllowedAppSet(v)}, LAMBDA s : s.app, metric)

ReportTopUsersByLoginCount(v, lab)  == SumByCanonicalUser(v, v.found, "logins", lab)
ReportTopUsersByElevations(v, lab)  == SumByCanonicalUser(v, v.found, "elevations", lab)
ReportTopUsersBySessionTime(v, lab) == SumByCanonicalUser(v, v.found, "seconds", lab)

\* computeAvgSessionMinutes.
ReportAvgSessionTime(v, lab) ==
  LET seconds == SumByCanonicalUser(v, v.found, "seconds", lab)
      logins == SumByCanonicalUser(v, v.logins, "logins", lab)
  IN [p \in {q \in DOMAIN seconds \cap DOMAIN logins : logins[q] >= MinLogins} |->
        seconds[p] \div logins[p]]

\* rankHostnamesByValue.
ReportTopDevicesBySessionCount(v, lab) ==
  TotalsBy({s \in Unignored(v, v.found) : HostnameMatchesLab(v, s.host, lab)}, LAMBDA s : s.host, "logins")

ReportTopAppsByLaunches(v, lab)          == AppTotals(v, OfLab(v, lab), "launches")
ReportTopAppsByForegroundTime(v, lab)    == AppTotals(v, OfLab(v, lab), "foreground")
ReportTopAppsUsage(v, lab)               == AppTotals(v, OfLab(v, lab), "usage")
ReportTopAppsByElevations(v, lab)        == TotalsBy(OfLab(v, lab), LAMBDA s : s.app, "elevations")
ReportBottomAppsByLaunches(v, lab)       == AppTotals(v, OfLab(v, lab), "launches")
ReportBottomAppsByForegroundTime(v, lab) == AppTotals(v, OfLab(v, lab), "foreground")

\* mergeBottomAppsWithZeros: known apps that were never launched.
MergeBottomAppsWithZeros(v, lab) ==
  LET launched == AppTotals(v, OfLab(v, lab), "launches") IN
  IF lab # AllLabs /\ LabHostnames(v, lab) = {} THEN launched
  ELSE [a \in DOMAIN launched \cup {b \in Program : v.listed[b] = "known"} |->
          IF a \in DOMAIN launched THEN launched[a] ELSE 0]

ReportUsageByLab(v, lab) ==
  TotalsBy({s \in Unignored(v, v.found) :
              HostnameMatchesLab(v, s.host, lab) /\ s.app \in AllowedAppSet(v)},
           LAMBDA s : <<LabOf(v, s.host), s.app>>, "foreground")

\* One row for each person and machine.
ReportActiveUsers(v, lab) ==
  LET S == {s \in Unignored(v, v.found) : Whom(v.policy, s.user) # NoPerson} IN
  [k \in {<<Whom(v.policy, s.user), s.host>> : s \in S} |-> 1]

\* buildUtilizationData: the machines of each lab, and those in use.
MachinesPerLab(v, lab) ==
  [l \in {m \in {v.hosts[h] : h \in Machine} \ {Absent} : lab \in {AllLabs, m}} |->
     {h \in Machine : v.hosts[h] = l}]
InUse(v) ==
  {s.host : s \in {t \in Unignored(v, v.found) : t.amount["usage"] > 0 /\ t.app \in AllowedAppSet(v)}}

ReportUtilizationOverTime(v, lab) ==
  LET all == MachinesPerLab(v, lab) IN [l \in DOMAIN all |-> Cardinality(all[l] \cap InUse(v))]
ReportTopLabsByUtilization(v, lab) ==
  LET all == MachinesPerLab(v, AllLabs) IN
  [l \in DOMAIN all |-> (100 * Cardinality(all[l] \cap InUse(v))) \div Cardinality(all[l])]

Rows(kind, v, lab) ==
  CASE kind = "usersByLogins" -> ReportTopUsersByLoginCount(v, lab)
    [] kind = "usersByElevations" -> ReportTopUsersByElevations(v, lab)
    [] kind = "usersBySessionTime" -> ReportTopUsersBySessionTime(v, lab)
    [] kind = "averageSession" -> ReportAvgSessionTime(v, lab)
    [] kind = "devicesBySessions" -> ReportTopDevicesBySessionCount(v, lab)
    [] kind = "topAppsByLaunches" -> ReportTopAppsByLaunches(v, lab)
    [] kind = "topAppsByForeground" -> ReportTopAppsByForegroundTime(v, lab)
    [] kind = "topApps" -> ReportTopAppsUsage(v, lab)
    [] kind = "topAppsByElevations" -> ReportTopAppsByElevations(v, lab)
    [] kind = "bottomAppsByLaunches" -> ReportBottomAppsByLaunches(v, lab)
    [] kind = "bottomAppsByForeground" -> ReportBottomAppsByForegroundTime(v, lab)
    [] kind = "bottomAppsWithZeros" -> MergeBottomAppsWithZeros(v, lab)
    [] kind = "usageByLab" -> ReportUsageByLab(v, lab)
    [] kind = "activeUsers" -> ReportActiveUsers(v, lab)
    [] kind = "utilization" -> ReportUtilizationOverTime(v, lab)
    [] kind = "labsByUtilization" -> ReportTopLabsByUtilization(v, lab)

OfUsers == {"usersByLogins", "usersByElevations", "usersBySessionTime", "averageSession"}
Unfiltered == {"activeUsers", "labsByUtilization"}   \* not of one lab
OfApps == {"topAppsByLaunches", "topAppsByForeground", "topApps",
           "bottomAppsByLaunches", "bottomAppsByForeground"}
Ascending == {"bottomAppsByLaunches", "bottomAppsByForeground", "bottomAppsWithZeros"}
Unlimited == {"usageByLab", "activeUsers", "utilization"}

\* What each handler reads, in this order; userPolicy reads the option first,
\* buildHostnameLabMap the agents.
Reads(kind, lab) ==
  LET policy == <<"strip", "rules">>
      hosts == <<"agents", "labs">>
      filter == <<"filterStrip", "filterRules">>
      rollup == IF lab = AllLabs THEN <<>> ELSE hosts
      logins == IF kind = "averageSession" THEN <<"logins">> ELSE <<>>
  IN CASE kind \in OfUsers -> policy \o hosts \o filter \o <<"query">> \o logins
       [] kind = "devicesBySessions" -> hosts \o filter \o <<"query">>
       [] kind \in OfApps -> rollup \o filter \o <<"mappings", "query">>
       [] kind = "topAppsByElevations" -> rollup \o filter \o <<"query">>
       [] kind = "bottomAppsWithZeros" -> rollup \o filter \o <<"query", "listed", "mappings">>
       [] kind \in {"usageByLab", "utilization", "labsByUtilization"} ->
            hosts \o filter \o <<"query", "mappings">>
       [] kind = "activeUsers" -> policy \o filter \o <<"query">>

\* sort and limit: none left out has a better claim.
Best(rows, kind, limit) ==
  {S \in SUBSET DOMAIN rows :
     /\ IF kind \in Unlimited \/ limit >= Cardinality(DOMAIN rows)
        THEN S = DOMAIN rows ELSE Cardinality(S) = limit
     /\ \A k \in S, l \in DOMAIN rows \ S :
          IF kind \in Ascending THEN rows[k] <= rows[l] ELSE rows[k] >= rows[l]}

-----------------------------------------------------------------------------
(* A report and what changes under it.                                     *)

Uncatalogued == [a \in Program |-> "unmapped"]
NewUserPolicy == [strip |-> TRUE, rules |-> NoRules]
NoView == [labIDs |-> <<>>, hosts |-> <<>>, policy |-> NewUserPolicy, filter |-> NewUserPolicy,
           programs |-> Uncatalogued, listed |-> Uncatalogued, found |-> {}, logins |-> {}]
NoReport == [kind |-> "none", lab |-> AllLabs, limit |-> 0, todo |-> <<>>, view |-> NoView]
NoReply == [kind |-> "none", lab |-> AllLabs, keys |-> {}]
Nothing == [strips |-> {}, policies |-> {}, in |-> {}, shown |-> {}, failed |-> FALSE]

\* The name of the lab with this id, in the labs of a list.
NameIn(list, l) ==
  IF l \notin Lab THEN l ELSE IF list[l] = NoLab THEN Unassigned ELSE list[l]

\* The rules were read when they were, after the option was as it was at that
\* time or before; and so the names of labs, after the ids.
With(e, b, r, ids, list) ==
  LET strips == e.strips \cup {b}
      in == e.in \cup {<<h, ids[h]>> : h \in Machine}
  IN [strips |-> strips, policies |-> e.policies \cup {<<c, r>> : c \in strips},
      in |-> in, shown |-> e.shown \cup {<<x[1], ShownAs(NameIn(list, x[2]))>> : x \in in},
      failed |-> e.failed]

ReportsInit ==
  /\ machines = FirstLab
  /\ labs = FirstName
  /\ stripping = TRUE /\ ruleset = NoRules
  /\ programs = Uncatalogued
  /\ samples = Sample
  /\ report = NoReport /\ reply = NoReply
  /\ ever = Nothing
  /\ changed = 0

Begin(kind, lab, limit) ==
  /\ report = NoReport /\ changed <= MaxChanges[kind]
  /\ kind \in Unfiltered => lab = AllLabs
  /\ report' = [kind |-> kind, lab |-> lab, limit |-> limit, todo |-> Reads(kind, lab), view |-> NoView]
  /\ ever' = With(Nothing, stripping, ruleset, machines, labs)
  /\ reply' = NoReply
  /\ UNCHANGED <<tables, changed>>

NextRead == Head(report.todo)

Took(view) == report' = [report EXCEPT !.todo = Tail(@), !.view = view]

\* A machine of a lab that is not listed shows as unassigned.
Relabelled(labIDs) == [h \in Machine |-> NameIn(labs, labIDs[h])]

Read ==
  /\ report.todo # <<>>
  /\ \/ NextRead = "agents" /\ Took([report.view EXCEPT !.labIDs = machines])
     \/ NextRead = "labs" /\ Took([report.view EXCEPT !.hosts = Relabelled(report.view.labIDs)])
     \/ NextRead = "strip" /\ Took([report.view EXCEPT !.policy.strip = stripping])
     \/ NextRead = "rules" /\ Took([report.view EXCEPT !.policy.rules = ruleset])
     \/ NextRead = "filterStrip" /\ Took([report.view EXCEPT !.filter.strip = stripping])
     \/ NextRead = "filterRules" /\ Took([report.view EXCEPT !.filter.rules = ruleset])
     \/ NextRead = "mappings" /\ Took([report.view EXCEPT !.programs = programs])
     \/ NextRead = "listed" /\ Took([report.view EXCEPT !.listed = programs])
     \/ NextRead = "query" /\ Took([report.view EXCEPT !.found = samples])
     \/ NextRead = "logins" /\ Took([report.view EXCEPT !.logins = samples])
  /\ UNCHANGED <<tables, reply, ever, changed>>

SendRows ==
  /\ report # NoReport /\ report.todo = <<>>
  /\ \E keys \in Best(Rows(report.kind, report.view, report.lab), report.kind, report.limit) :
       reply' = [kind |-> report.kind, lab |-> report.lab, keys |-> keys]
  /\ report' = NoReport
  /\ UNCHANGED <<tables, ever, changed>>

\* A read fails, one in a report at most.  Without the option domains are
\* stripped, without rules the built-in ones apply and without mappings every
\* app is shown, as in NoView; without agents, labs or samples there is no
\* report, or an empty one.
ReadFails ==
  /\ report.todo # <<>> /\ ~ever.failed
  /\ IF NextRead \in {"agents", "labs", "query", "logins"}
     THEN report' = NoReport /\ ever' = Nothing
     ELSE ever' = [ever EXCEPT !.failed = TRUE] /\ Took(report.view)
  /\ UNCHANGED <<tables, reply, changed>>

Changes ==
  /\ \E kind \in Kind : report.kind \in {kind, "none"} /\ changed < MaxChanges[kind]
  /\ changed' = changed + 1
  /\ reply' = NoReply
  /\ ever' = IF report = NoReport THEN Nothing
             ELSE With(ever, stripping', ruleset', machines', labs')
  /\ UNCHANGED report

\* An agent is assigned, deleted or enrolled.
ChangeMachine(h, l) ==
  /\ l # machines[h] /\ l \in Lab => labs[l] # NoLab
  /\ machines' = [machines EXCEPT ![h] = l]
  /\ UNCHANGED <<labs, stripping, ruleset, programs, samples>>
  /\ Changes

\* UpdateLab, with any name, and CreateLab.
NameLab(l, name) ==
  /\ name # labs[l]
  /\ labs[l] = NoLab => name # Nameless
  /\ labs' = [labs EXCEPT ![l] = name]
  /\ UNCHANGED <<machines, stripping, ruleset, programs, samples>>
  /\ Changes

DropLab(l) ==
  /\ labs[l] # NoLab
  /\ labs' = [labs EXCEPT ![l] = NoLab]
  /\ machines' = [h \in Machine |-> IF machines[h] = l THEN Unassigned ELSE machines[h]]
  /\ UNCHANGED <<stripping, ruleset, programs, samples>>
  /\ Changes

ChangeStripping ==
  /\ stripping' = ~stripping
  /\ UNCHANGED <<machines, labs, ruleset, programs, samples>>
  /\ Changes

ChangeRules(r) ==
  /\ ruleset' = r /\ r # ruleset
  /\ UNCHANGED <<machines, labs, stripping, programs, samples>>
  /\ Changes

ChangeMapping(a, status) ==
  /\ status # programs[a]
  /\ programs' = [programs EXCEPT ![a] = status]
  /\ UNCHANGED <<machines, labs, stripping, ruleset, samples>>
  /\ Changes

\* The range of the report moves on.
MoveRange(s) ==
  /\ samples' = samples \ {s} /\ s \in samples
  /\ UNCHANGED <<machines, labs, stripping, ruleset, programs>>
  /\ Changes

ReportsNext ==
  \/ \E kind \in Kind, lab \in LabName \cup {AllLabs, Unassigned}, limit \in Limits :
       Begin(kind, lab, limit)
  \/ Read \/ SendRows \/ ReadFails
  \/ \E h \in Machine, l \in Lab \cup {Unassigned, Absent} : ChangeMachine(h, l)
  \/ \E l \in Lab : DropLab(l) \/ \E name \in LabName \cup {Nameless} : NameLab(l, name)
  \/ ChangeStripping
  \/ \E r \in Ruleset : ChangeRules(r)
  \/ \E a \in Program, status \in {"known", "ignored"} : ChangeMapping(a, status)
  \/ \E s \in Sample : MoveRange(s)

-----------------------------------------------------------------------------
(* Properties.                                                             *)

Current ==
  LET policy == [strip |-> stripping, rules |-> ruleset] IN
  [labIDs |-> machines, hosts |-> Relabelled(machines), policy |-> policy, filter |-> policy,
   programs |-> programs, listed |-> programs, found |-> samples, logins |-> samples]

AmountOf(rows, k) == IF k \in DOMAIN rows THEN rows[k] ELSE 0

\* The two ways to find the machines of a lab agree: what usage by lab says of
\* a lab and an app is what the apps of that lab say (labHostnames: "mirroring
\* hostnameMatchesLab / buildHostnameLabMap").  Not of machines that are in no
\* lab while samples of deleted ones remain, or a lab has no name: only the
\* first way counts those.
LabReportsAgree ==
  LET v == Current
      byLab == ReportUsageByLab(v, AllLabs)
  IN \A lab \in LabName \cup {Unassigned} :
       (lab = Unassigned => \A h \in Machine : v.hosts[h] \notin {Absent, Nameless}) =>
         LET apps == ReportTopAppsByForegroundTime(v, lab) IN
         \A a \in Program : AmountOf(byLab, <<lab, a>>) = AmountOf(apps, a)

\* The machine was in a lab while the report was made, and that lab had this
\* name then or later, or was deleted and shows as Unassigned.
WasShownIn(h, lab) == <<h, lab>> \in ever.shown

\* However tables change between the reads of a report, every person in a row
\* is whom one of the accounts counted stood for under rules there were
\* meanwhile, with domains stripped or not as they were by then, and every
\* machine counted for a lab was in one that had this name at that time or
\* later.  Not under rules, or in labs, of one instant: the handlers read two
\* tables for each (userPolicy, buildHostnameLabMap).
RowsWereTrue ==
  reply # NoReply /\ ~ever.failed =>
    LET Within(h) == reply.lab = AllLabs \/ WasShownIn(h, reply.lab) IN
    \A k \in reply.keys :
      /\ reply.kind \in OfUsers =>
           \E s \in Sample, q \in ever.policies : StandsFor[q][s.user] = k /\ Within(s.host)
      /\ reply.kind = "devicesBySessions" => Within(k)
      /\ reply.kind = "usageByLab" => \E s \in Sample : s.app = k[2] /\ WasShownIn(s.host, k[1])
=============================================================================
