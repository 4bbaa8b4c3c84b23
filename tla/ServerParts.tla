----------------------------- MODULE ServerParts -----------------------------
(***************************************************************************)
(* Parts of the server that meet in its database and its directory but     *)
(* change nothing of each other: the way to Prometheus (PromProxy), the    *)
(* settings (Settings), the software mappings (Mappings), the user rules   *)
(* (UserIdentity), the reports (Reports, with its own account of the       *)
(* tables it reads) and the installers (Installers).  A behaviour is one   *)
(* of one part, with the others at rest.                                   *)
(***************************************************************************)
EXTENDS PromProxy, Settings, Mappings, UserIdentity, Reports, Installers

VARIABLE part

partVars == <<proxyVars, allSettingsVars, mappingsVars, identityVars, reportVars,
              installerVars, part>>

Part == {"proxy", "settings", "mappings", "identity", "reports", "installers"}

PartsInit ==
  /\ ProxyInit /\ SettingsInit /\ MappingsInit /\ IdentityInit /\ ReportsInit /\ InstallersInit
  /\ part \in Part

Proxying(A) ==
  /\ part = "proxy" /\ A
  /\ UNCHANGED <<allSettingsVars, mappingsVars, identityVars, reportVars, installerVars, part>>
Setting(A) ==
  /\ part = "settings" /\ A
  /\ UNCHANGED <<proxyVars, mappingsVars, identityVars, reportVars, installerVars, part>>
Mapping(A) ==
  /\ part = "mappings" /\ A
  /\ UNCHANGED <<proxyVars, allSettingsVars, identityVars, reportVars, installerVars, part>>
Identifying(A) ==
  /\ part = "identity" /\ A
  /\ UNCHANGED <<proxyVars, allSettingsVars, mappingsVars, reportVars, installerVars, part>>
Reporting(A) ==
  /\ part = "reports" /\ A
  /\ UNCHANGED <<proxyVars, allSettingsVars, mappingsVars, identityVars, installerVars, part>>
Installing(A) ==
  /\ part = "installers" /\ A
  /\ UNCHANGED <<proxyVars, allSettingsVars, mappingsVars, identityVars, reportVars, part>>

PartsNext ==
  \/ Proxying(ProxyNext) \/ Setting(SettingsNext) \/ Mapping(MappingsNext)
  \/ Identifying(IdentityNext) \/ Reporting(ReportsNext) \/ Installing(InstallersNext)

PartsSafety == PartsInit /\ [][PartsNext]_partVars

\* Goroutines that can run do: calls under way go on, a deadline that has
\* passed is acted on, a transaction takes the lock that is free or is ended
\* when it waits in a circle, and agents push and fetch again and again.  What
\* administrators do, and failures, are never owed.
PartsFairness ==
  /\ WF_partVars(Proxying(ProxyTick))
  /\ \A c \in Client : WF_partVars(Proxying(Do(c)))
  /\ \A q \in Query : /\ WF_partVars(Proxying(Acquire(q)))
                      /\ WF_partVars(Proxying(Fail(q) /\ Overdue(q)))
  /\ \A u \in Update : /\ WF_partVars(Setting(KeepIdle(u))) /\ WF_partVars(Setting(NextRow(u)))
                       /\ WF_partVars(Setting(LockRow(u))) /\ WF_partVars(Setting(Commit(u)))
                       /\ WF_partVars(Setting(DeadlockAbort(u)))
  /\ \A a \in Pusher : /\ WF_partVars(Mapping(LoadMappings(a)))
                       /\ WF_partVars(Mapping(AutoInsert(a)))
                       /\ WF_partVars(Mapping(StoreRewritten(a)))
  /\ \A s \in Station : /\ WF_partVars(Identifying(ReadStripDomain(s)))
                        /\ WF_partVars(Identifying(ReadRules(s)))
                        /\ WF_partVars(Identifying(ApplyUserPolicy(s)))

PartsSpec == PartsSafety /\ PartsFairness

-----------------------------------------------------------------------------
(* Properties.                                                             *)

\* Agents that push to a server whose mappings administrators edit come to be
\* shown as the table has it (MappingsFollow).
SnapshotsComeToFollow == part = "mappings" => MappingsFollow
=============================================================================
