--------------------------- MODULE ServerPartsProofs --------------------------
(***************************************************************************)
(* For any updates, files, queries, agents and administrators: checksums   *)
(* are of the files they go with, the file offered never gets older, no    *)
(* executable gets two rows unless a writer's look was overtaken, reports  *)
(* say what was true while they were made, and, leaving the promise of an  *)
(* end aside, settings and the way to Prometheus do what AtomicSettings    *)
(* and QueryService say.  None of this is inductive alone: what a request  *)
(* has read and not yet used is bounded with what it read from.            *)
(***************************************************************************)
EXTENDS ServerParts, FiniteSetTheorems, WellFoundedInduction, TLAPS

-----------------------------------------------------------------------------
(* Settings.                                                               *)

Author == Update \cup {Initial}

SettingsTypeOK ==
  /\ current \in [Key -> Author]
  /\ pending \subseteq [update : Update, named : BOOLEAN]
  /\ since \in [Update -> SUBSET Author]
  /\ put \in [Update -> {"unsent", "reading", "writing", "done"}]
  /\ idle \in [Update -> Author]

\* What an update will write as the idle threshold: its own, or one that was
\* current while it ran.
IdleSound ==
  \A u \in Update :
    /\ put[u] = "reading" =>
         current[Idle] \in since[u] /\ \E p \in pending : p.update = u /\ ~p.named
    /\ put[u] = "writing" =>
         \E p \in pending : p.update = u /\ idle[u] \in IF p.named THEN {u} ELSE since[u]

SettingsInv == SettingsTypeOK /\ IdleSound

LEMMA SettingsInvInit == SettingsInit => SettingsInv
BY SettingsAssumption DEF SettingsInit, SettingsInv, SettingsTypeOK, IdleSound, Author

LEMMA SettingsInvStep == SettingsInv /\ [SettingsNext]_allSettingsVars => SettingsInv'
<1> SUFFICES ASSUME SettingsInv, SettingsNext PROVE SettingsInv'
  BY DEF SettingsInv, SettingsTypeOK, IdleSound, allSettingsVars, dbVars, putVars
<1> USE SettingsAssumption DEF SettingsInv, SettingsTypeOK, IdleSound, Author, dbVars
<1>1. ASSUME NEW u \in Update, UpdateSettings(u) PROVE SettingsInv'
  <2>1. CASE put' = [put EXCEPT ![u] = "done"] /\ UNCHANGED <<dbVars, idle, row>>
    BY <2>1
  <2>2. ASSUME NEW named \in BOOLEAN,
               put' = [put EXCEPT ![u] = IF named THEN "writing" ELSE "reading"],
               idle' = [idle EXCEPT ![u] = u],
               pending' = pending \cup {[update |-> u, named |-> named]},
               since' = [since EXCEPT ![u] = {current[Idle]}],
               UNCHANGED <<current, row>>
        PROVE  SettingsInv'
    <3>1. SettingsTypeOK'
      BY <2>2
    <3>2. [update |-> u, named |-> named] \in pending'
      BY <2>2
    <3>3. ASSUME NEW v \in Update, put'[v] = "reading"
          PROVE  current'[Idle] \in since'[v] /\ \E p \in pending' : p.update = v /\ ~p.named
      BY <2>2, <3>2, <3>3
    <3>4. ASSUME NEW v \in Update, put'[v] = "writing"
          PROVE  \E p \in pending' : p.update = v /\ idle'[v] \in IF p.named THEN {v} ELSE since'[v]
      <4>1. CASE v = u
        BY <2>2, <3>2, <3>4, <4>1
      <4>2. CASE v # u
        BY <2>2, <3>4, <4>2
      <4> QED
        BY <4>1, <4>2
    <3> QED
      BY <3>1, <3>3, <3>4
  <2> QED
    BY <1>1, <2>1, <2>2 DEF UpdateSettings
<1>2. ASSUME NEW u \in Update, KeepIdle(u) PROVE SettingsInv'
  BY <1>2 DEF KeepIdle
<1>3. ASSUME NEW u \in Update, NextRow(u) \/ LockRow(u) PROVE SettingsInv'
  BY <1>3 DEF NextRow, LockRow
<1>4. ASSUME NEW u \in Update, Commit(u) PROVE SettingsInv'
  BY <1>4 DEF Commit, Ends
<1>5. ASSUME NEW u \in Update, Rollback(u) PROVE SettingsInv'
  BY <1>5 DEF Rollback, Ends
<1> QED
  BY <1>1, <1>2, <1>3, <1>4, <1>5 DEF SettingsNext, DeadlockAbort, DatabaseFails

LEMMA SettingsStepIsAtomic ==
  SettingsInv /\ [SettingsNext]_allSettingsVars => [Atomic!ANext]_(Atomic!settingsVars)
<1> SUFFICES ASSUME SettingsInv, SettingsNext PROVE [Atomic!ANext]_(Atomic!settingsVars)
  BY DEF allSettingsVars, dbVars, putVars, Atomic!settingsVars
<1> USE SettingsAssumption DEF dbVars
<1>1. ASSUME NEW u \in Update, UpdateSettings(u) PROVE Atomic!Begin(u) \/ UNCHANGED dbVars
  BY <1>1 DEF UpdateSettings, Atomic!Begin
<1>2. ASSUME NEW u \in Update, KeepIdle(u) \/ NextRow(u) \/ LockRow(u) PROVE UNCHANGED dbVars
  BY <1>2 DEF KeepIdle, NextRow, LockRow
<1>3. ASSUME NEW u \in Update, Commit(u) PROVE Atomic!Apply(u)
  BY <1>3 DEF Commit, Ends, Atomic!Apply, Atomic!Underway, SettingsInv, IdleSound
<1>4. ASSUME NEW u \in Update, Rollback(u) PROVE Atomic!Refuse(u)
  BY <1>4 DEF Rollback, Ends, Atomic!Refuse, Atomic!Underway, SettingsInv, IdleSound
<1> QED
  BY <1>1, <1>2, <1>3, <1>4
     DEF SettingsNext, DeadlockAbort, DatabaseFails, Atomic!ANext, Atomic!settingsVars
-----------------------------------------------------------------------------
(* Installers.                                                             *)

LEMMA SmallestOf ==
  ASSUME NEW T, T \subseteq Nat, T # {}
  PROVE  \E n \in T : \A m \in T : n <= m
<1> DEFINE R == OpToRel(<, Nat)
<1>1. IsWellFoundedOn(R, Nat)
  BY NatLessThanWellFounded
<1>2. ASSUME NEW m \in Nat, NEW n \in Nat, ~(<<m, n>> \in R) PROVE n <= m
  BY <1>2 DEF OpToRel
<1> HIDE DEF R
<1>3. PICK n \in T : \A m \in T : ~(<<m, n>> \in R)
  BY <1>1, WFMin, Zenon
<1>4. n \in Nat /\ \A m \in T : m \in Nat
  OBVIOUS
<1> QED
  BY <1>2, <1>3, <1>4, Zenon

LEMMA NewestExists ==
  ASSUME NEW S, S \subseteq File, S # {}
  PROVE  \E f \in S : \A g \in S \ {f} : Newer(f, g)
<1> USE InstallerAssumption DEF Newer
<1> DEFINE Above(f) == {g \in S : Newer(g, f)}
           T == {Cardinality(Above(f)) : f \in S}
<1>1. \A f \in S : IsFiniteSet(Above(f)) /\ Cardinality(Above(f)) \in Nat
  <2>1. IsFiniteSet(S)
    BY FS_Subset
  <2> QED
    BY <2>1, FS_Subset, FS_CardinalityType
<1>2. PICK f \in S : \A g \in S : Cardinality(Above(f)) <= Cardinality(Above(g))
  <2> HIDE DEF Above
  <2>1. T \subseteq Nat /\ T # {}
    BY <1>1
  <2>2. PICK n \in T : \A m \in T : n <= m
    BY <2>1, SmallestOf
  <2> QED
    BY <2>2
<1>3. ASSUME NEW g \in S \ {f}, ~Newer(f, g) PROVE FALSE
  <2>1. g \in Above(f) /\ g \notin Above(g) /\ Above(g) \subseteq Above(f)
    BY <1>3
  <2> HIDE DEF Above
  <2>2. Cardinality(Above(g)) < Cardinality(Above(f))
    BY <1>1, <2>1, FS_Subset
  <2> QED
    BY <1>1, <1>2, <2>2
<1> QED
  BY <1>3

Candidates(dir, ext) == {f \in File : dir[f] # NoBody /\ f.ext = ext}

LEMMA LatestIsNewest ==
  ASSUME NEW dir, NEW ext, Latest(dir, ext) # NoFile
  PROVE  /\ Latest(dir, ext) \in Candidates(dir, ext)
         /\ \A g \in Candidates(dir, ext) \ {Latest(dir, ext)} : Newer(Latest(dir, ext), g)
<1> DEFINE S == Candidates(dir, ext)
<1>1. S \subseteq File /\ S # {} /\ Latest(dir, ext) = CHOOSE f \in S : \A g \in S \ {f} : Newer(f, g)
  BY DEF Latest, Candidates
<1> HIDE DEF S
<1>2. \E f \in S : \A g \in S \ {f} : Newer(f, g)
  BY <1>1, NewestExists
<1>3. Latest(dir, ext) \in S /\ \A g \in S \ {Latest(dir, ext)} : Newer(Latest(dir, ext), g)
  BY <1>1, <1>2
<1> QED
  BY <1>3 DEF S

\* What a file can hold: never a part of an asset.
Contents == {"none", "part of copy", "copy", "asset", "first 300 MB"}

Offer == [at : {"idle", "missed", "hashed"}, file : File \cup {NoFile},
          stat : Nat, body : Contents]

\* A file's time only grows, and a checksum belongs to the time it is kept by,
\* also while a heartbeat is still on its way to keeping it.
InstallersInv ==
  /\ directory \in [File -> [body : Contents, written : Nat]]
  /\ checksums \in [File -> [body : Contents, written : Nat]]
  /\ fetching \in File \cup {NoFile} /\ toFetch \subseteq File /\ release \subseteq File
  /\ offering \in [Offerer -> Offer]
  /\ \A f \in File :
       /\ directory[f].written = 0 => directory[f].body = "none"
       /\ checksums[f].written <= directory[f].written
       /\ checksums[f].written = directory[f].written => checksums[f].body = directory[f].body
  /\ \A o \in Offerer :
       offering[o].at # "idle" => LET f == offering[o].file IN
         /\ f \in File /\ offering[o].stat <= directory[f].written
         /\ offering[o].at = "hashed" /\ offering[o].stat = directory[f].written
              => offering[o].body = directory[f].body

LEMMA InstallersInvInit == InstallersInit => InstallersInv
BY DEF InstallersInit, InstallersInv, NoBody, NoOffer, Offer, Contents

LEMMA WrittenKeepsInv ==
  ASSUME InstallersInv, NEW f \in File, NEW body \in Contents,
         Written(f, body), UNCHANGED <<checksums, offering>>,
         fetching' \in File \cup {NoFile}, UNCHANGED <<release, toFetch>>
  PROVE  InstallersInv'
<1> USE DEF InstallersInv
<1>1. directory' \in [File -> [body : Contents, written : Nat]]
  BY DEF Written
<1>2. /\ directory'[f].written > directory[f].written
      /\ \A g \in File \ {f} : directory'[g] = directory[g]
  BY DEF Written
<1>3. \A g \in File : directory[g].written \in Nat /\ directory'[g].written \in Nat
  BY <1>1
<1>4. ASSUME NEW g \in File
      PROVE  /\ directory'[g].written = 0 => directory'[g].body = "none"
             /\ checksums'[g].written <= directory'[g].written
             /\ checksums'[g].written = directory'[g].written => checksums'[g].body = directory'[g].body
  <2>1. checksums'[g] = checksums[g] /\ checksums[g].written \in Nat
    OBVIOUS
  <2>2. CASE g = f
    BY <1>2, <1>3, <2>1, <2>2
  <2>3. CASE g # f
    BY <1>2, <2>1, <2>3
  <2> QED
    BY <2>2, <2>3
<1>5. ASSUME NEW o \in Offerer, offering'[o].at # "idle"
      PROVE  LET g == offering'[o].file IN
               /\ g \in File /\ offering'[o].stat <= directory'[g].written
               /\ offering'[o].at = "hashed" /\ offering'[o].stat = directory'[g].written
                    => offering'[o].body = directory'[g].body
  <2> DEFINE g == offering[o].file
  <2>1. offering'[o] = offering[o] /\ g \in File /\ offering[o].stat \in Nat
    BY <1>5 DEF Offer
  <2>2. CASE g = f
    BY <1>2, <1>3, <1>5, <2>1, <2>2
  <2>3. CASE g # f
    BY <1>2, <1>5, <2>1, <2>3
  <2> QED
    BY <2>2, <2>3
<1> QED
  BY <1>1, <1>4, <1>5

LEMMA InstallersInvStep == InstallersInv /\ [InstallersNext]_installerVars => InstallersInv'
<1> SUFFICES ASSUME InstallersInv, InstallersNext PROVE InstallersInv'
  BY DEF InstallersInv, installerVars
<1>1. ASSUME NEW f \in File, NEW body \in {"part of copy", "copy"}, HostCopy(f, body)
      PROVE  InstallersInv'
  <2>1. body \in Contents /\ fetching \in File \cup {NoFile}
    BY DEF Contents, InstallersInv
  <2> QED
    BY <1>1, <2>1, WrittenKeepsInv DEF HostCopy
<1>2. CASE FinishDownload
  <2>1. fetching \in File
    BY <1>2 DEF FinishDownload, InstallersInv
  <2>2. (IF fetching \in Oversized THEN "first 300 MB" ELSE "asset") \in Contents
    BY DEF Contents
  <2> HIDE DEF Contents
  <2> QED
    BY <1>2, <2>1, <2>2, WrittenKeepsInv DEF FinishDownload
<1>3. ASSUME NEW assets \in SUBSET File, Publish(assets) PROVE InstallersInv'
  BY <1>3 DEF Publish, InstallersInv
<1>4. ASSUME NEW f \in File, HaveIt(f) \/ BeginDownload(f) PROVE InstallersInv'
  BY <1>4 DEF HaveIt, BeginDownload, InstallersInv
<1>5. CASE BeginSync \/ DownloadFails
  BY <1>5 DEF BeginSync, DownloadFails, InstallersInv
<1>6. CASE ServerRestarts
  <2>1. /\ checksums' = [f \in File |-> NoBody] /\ offering' = [o \in Offerer |-> NoOffer]
        /\ UNCHANGED <<release, directory>> /\ toFetch' = {} /\ fetching' = NoFile
    BY <1>6 DEF ServerRestarts
  <2>2. NoBody \in [body : Contents, written : Nat] /\ NoBody.written = 0 /\ NoBody.body = "none"
    BY DEF NoBody, Contents
  <2>3. /\ NoOffer.at = "idle"
        /\ NoOffer \in Offer
    BY DEF NoOffer, Offer, Contents
  <2>4. \A f \in File : directory[f].written \in Nat
                         /\ (directory[f].written = 0 => directory[f].body = "none")
    BY DEF InstallersInv
  <2> QED
    BY <2>1, <2>2, <2>3, <2>4 DEF InstallersInv
<1>7. ASSUME NEW o \in Offerer, NEW ext \in {"msi", "pkg"}, OfferInstaller(o, ext)
      PROVE  InstallersInv'
  <2> DEFINE f == LatestInstaller(ext)
  <2>1. f \in File
    BY <1>7, LatestIsNewest DEF OfferInstaller, LatestInstaller, Candidates
  <2> HIDE DEF f
  <2>2. UNCHANGED <<release, directory, toFetch, fetching, checksums>>
    BY <1>7 DEF OfferInstaller
  <2>3. CASE UNCHANGED offering
    BY <2>2, <2>3 DEF InstallersInv
  <2>4. CASE offering' = [offering EXCEPT ![o] =
               [at |-> "missed", file |-> f, stat |-> directory[f].written, body |-> "none"]]
    <3>1. directory[f].written \in Nat /\ "none" \in Contents
      BY <2>1 DEF InstallersInv, Contents
    <3>2. offering' \in [Offerer -> Offer]
      BY <2>1, <2>4, <3>1 DEF InstallersInv, Offer
    <3> QED
      BY <2>1, <2>2, <2>4, <3>1, <3>2 DEF InstallersInv
  <2> QED
    BY <1>7, <2>3, <2>4 DEF OfferInstaller, f
<1>8. ASSUME NEW o \in Offerer, HashFile(o) PROVE InstallersInv'
  BY <1>8 DEF HashFile, InstallersInv, Offer
<1>9. ASSUME NEW o \in Offerer, CacheChecksum(o) PROVE InstallersInv'
  <2> DEFINE f == offering[o].file
             kept == [body |-> offering[o].body, written |-> offering[o].stat]
  <2>1. /\ offering[o].at = "hashed" /\ checksums' = [checksums EXCEPT ![f] = kept]
        /\ offering' = [offering EXCEPT ![o] = NoOffer]
        /\ UNCHANGED <<release, directory, toFetch, fetching>>
    BY <1>9 DEF CacheChecksum, StatBefore
  <2>2. /\ f \in File /\ offering[o].stat <= directory[f].written
        /\ offering[o].stat = directory[f].written => offering[o].body = directory[f].body
        /\ kept \in [body : Contents, written : Nat]
    BY <2>1 DEF InstallersInv, Offer
  <2>3. /\ NoOffer.at = "idle"
        /\ NoOffer \in Offer
    BY DEF NoOffer, Offer, Contents
  <2>4. offering' \in [Offerer -> Offer]
    BY <2>1, <2>3 DEF InstallersInv
  <2>5. ASSUME NEW p \in Offerer, offering'[p].at # "idle" PROVE offering'[p] = offering[p]
    BY <2>1, <2>3, <2>5 DEF InstallersInv
  <2>6. checksums' \in [File -> [body : Contents, written : Nat]]
    BY <2>1, <2>2 DEF InstallersInv
  <2>7. ASSUME NEW g \in File
        PROVE  /\ checksums'[g].written <= directory[g].written
               /\ checksums'[g].written = directory[g].written => checksums'[g].body = directory[g].body
    BY <2>1, <2>2 DEF InstallersInv
  <2> HIDE DEF f, kept
  <2> QED
    BY <2>1, <2>4, <2>5, <2>6, <2>7 DEF InstallersInv
<1> QED
  BY <1>1, <1>2, <1>3, <1>4, <1>5, <1>6, <1>7, <1>8, <1>9 DEF InstallersNext

\* No step takes a file away.
LEMMA FilesStay ==
  InstallersInv /\ [InstallersNext]_installerVars => \A f \in File : directory[f] # NoBody => directory'[f] # NoBody
<1> SUFFICES ASSUME InstallersInv, InstallersNext, NEW f \in File, directory[f] # NoBody
             PROVE  directory'[f] # NoBody
  BY DEF installerVars
<1>1. CASE UNCHANGED directory
  BY <1>1
<1>2. ASSUME NEW g \in File, NEW body \in Contents, Written(g, body) PROVE directory'[f] # NoBody
  BY <1>2 DEF Written, InstallersInv, NoBody
<1>3. FinishDownload => \E g \in File, body \in Contents : Written(g, body)
  BY DEF FinishDownload, InstallersInv, Contents
<1>4. ASSUME NEW g \in File, NEW body \in {"part of copy", "copy"}, HostCopy(g, body)
      PROVE  directory'[f] # NoBody
  BY <1>2, <1>4 DEF HostCopy, Contents
<1> QED
  BY <1>1, <1>2, <1>3, <1>4
     DEF InstallersNext, Publish, HaveIt, BeginDownload, BeginSync, DownloadFails,
         ServerRestarts, OfferInstaller, HashFile, CacheChecksum

LEMMA NewestStep ==
  InstallersInv /\ InstallersInv' /\ [InstallersNext]_installerVars =>
    /\ \A f \in File : directory'[f].body # "part of asset"
    /\ \A ext \in {"msi", "pkg"} :
         Latest(directory, ext) # NoFile =>
           Latest(directory', ext).version >= Latest(directory, ext).version
<1> SUFFICES ASSUME InstallersInv, InstallersInv', [InstallersNext]_installerVars,
                    NEW ext \in {"msi", "pkg"}, Latest(directory, ext) # NoFile
             PROVE  Latest(directory', ext).version >= Latest(directory, ext).version
  BY DEF InstallersInv, Contents
<1> DEFINE f == Latest(directory, ext)
           g == Latest(directory', ext)
<1>1. f \in Candidates(directory, ext)
  BY LatestIsNewest
<1>2. f \in Candidates(directory', ext)
  BY <1>1, FilesStay DEF Candidates
<1>3. g # NoFile
  <2> DEFINE S == Candidates(directory', ext)
  <2>1. S \subseteq File /\ S # {} /\ g = CHOOSE h \in S : \A k \in S \ {h} : Newer(h, k)
    BY <1>2 DEF Latest, Candidates
  <2> HIDE DEF S, g
  <2>2. \E h \in S : \A k \in S \ {h} : Newer(h, k)
    BY <2>1, NewestExists
  <2>3. g \in S
    BY <2>1, <2>2
  <2> QED
    BY <2>1, <2>3, InstallerAssumption
<1>4. g \in Candidates(directory', ext) /\ (g # f => Newer(g, f))
  BY <1>2, <1>3, LatestIsNewest
<1> QED
  BY <1>1, <1>4, InstallerAssumption DEF Newer, Candidates

-----------------------------------------------------------------------------
(* The way to Prometheus.                                                  *)

Answered == [kind : {"none", "failure", "result"}, age : Nat]

\* A result in the cache gets older by what its time to live gets shorter.
ProxyInv ==
  /\ asking \in [Client -> Query \cup {NoQuery}]
  /\ at \in [Client -> {"idle", "missed", "waiting"}]
  /\ flight \in [Query -> [at : {"none", "queued", "upstream"}, age : 0 .. Timeout]]
  /\ cache \in [Query -> [left : 0 .. TTL, age : Nat]]
  /\ answer \in [Client -> Answered]
  /\ \A c \in Client : IF at[c] = "idle" THEN asking[c] = NoQuery ELSE asking[c] \in Query
  /\ \A q \in Query : Fresh(q) => cache[q].age + cache[q].left <= TTL + Timeout

LEMMA ProxyInvInit == ProxyInit => ProxyInv
BY ProxyAssumption
   DEF ProxyInit, ProxyInv, Answered, None, NoFlight, NoEntry, Fresh

LEMMA LandKeepsCallers ==
  ASSUME ProxyInv, NEW q \in Query, NEW outcome \in Answered, Land(q, outcome)
  PROVE  /\ asking' \in [Client -> Query \cup {NoQuery}]
         /\ at' \in [Client -> {"idle", "missed", "waiting"}]
         /\ flight' \in [Query -> [at : {"none", "queued", "upstream"}, age : 0 .. Timeout]]
         /\ answer' \in [Client -> Answered]
         /\ \A c \in Client : IF at'[c] = "idle" THEN asking'[c] = NoQuery ELSE asking'[c] \in Query
BY ProxyAssumption DEF ProxyInv, Land, NoFlight, Waiting

LEMMA ProxyInvStep == ProxyInv /\ [ProxyNext]_proxyVars => ProxyInv'
<1> SUFFICES ASSUME ProxyInv, ProxyNext PROVE ProxyInv'
  BY DEF ProxyInv, proxyVars, Fresh
<1> USE ProxyAssumption DEF Fresh
<1>1. ASSUME NEW c \in Client, NEW q \in Query, LookUp(c, q) PROVE ProxyInv'
  <2>1. Result(cache[q].age) \in Answered /\ None \in Answered
    BY DEF Result, None, Answered, ProxyInv
  <2>2. CASE Fresh(q)
    BY <1>1, <2>1, <2>2 DEF LookUp, ProxyInv
  <2>3. CASE ~Fresh(q)
    BY <1>1, <2>1, <2>3 DEF LookUp, ProxyInv
  <2> QED
    BY <2>2, <2>3
<1>2. ASSUME NEW c \in Client, Do(c) PROVE ProxyInv'
  BY <1>2 DEF Do, ProxyInv
<1>3. ASSUME NEW q \in Query, Acquire(q) PROVE ProxyInv'
  BY <1>3 DEF Acquire, ProxyInv
<1>4. ASSUME NEW q \in Query, Respond(q) PROVE ProxyInv'
  <2>1. Result(flight[q].age) \in Answered
    BY DEF Result, Answered, ProxyInv
  <2>2. /\ cache' \in [Query -> [left : 0 .. TTL, age : Nat]]
        /\ \A p \in Query : cache'[p].left > 0 => cache'[p].age + cache'[p].left <= TTL + Timeout
    BY <1>4 DEF Respond, ProxyInv
  <2> QED
    BY <1>4, <2>1, <2>2, LandKeepsCallers DEF Respond, ProxyInv
<1>5. ASSUME NEW q \in Query, Fail(q) PROVE ProxyInv'
  <2>1. Failure \in Answered
    BY DEF Failure, Answered
  <2> QED
    BY <1>5, <2>1, LandKeepsCallers DEF Fail, ProxyInv
<1>6. CASE Prune
  BY <1>6 DEF Prune, ProxyInv, NoEntry
<1>7. CASE ProxyTick
  <2>1. flight' \in [Query -> [at : {"none", "queued", "upstream"}, age : 0 .. Timeout]]
    BY <1>7 DEF ProxyTick, ProxyInv, NoFlight
  <2>2. /\ cache' \in [Query -> [left : 0 .. TTL, age : Nat]]
        /\ \A q \in Query : cache'[q].left > 0 => cache'[q].age + cache'[q].left <= TTL + Timeout
    BY <1>7 DEF ProxyTick, ProxyInv, NoEntry
  <2> QED
    BY <1>7, <2>1, <2>2 DEF ProxyTick, ProxyInv
<1> QED
  BY <1>1, <1>2, <1>3, <1>4, <1>5, <1>6, <1>7 DEF ProxyNext

\* The outcome of a call goes to the callers that wait for it, if any.
LEMMA LandAnswers ==
  ASSUME ProxyInv, NEW q \in Query, NEW outcome \in Service!Results \cup {Service!Failure},
         Land(q, outcome)
  PROVE  Service!QNext \/ UNCHANGED <<asking, answer>>
<1>1. CASE Waiting(q) = {}
  <2>1. asking' = asking /\ answer' = answer
    BY <1>1 DEF Land, ProxyInv
  <2> QED
    BY <2>1
<1>2. ASSUME NEW c \in Waiting(q) PROVE Service!QNext
  <2>1. Waiting(q) \subseteq Client /\ asking[c] = q /\ \A d \in Waiting(q) : asking[d] = q
    BY DEF Waiting
  <2>2. Service!Answer(Waiting(q), q)
    BY <2>1 DEF Land, Service!Answer
  <2> QED
    BY <2>1, <2>2 DEF Service!QNext, Service!AnswerSome
<1> QED
  BY <1>1, <1>2

LEMMA ProxyStepServes ==
  ProxyInv /\ [ProxyNext]_proxyVars => [Service!QNext]_<<asking, answer>>
<1> SUFFICES ASSUME ProxyInv, ProxyNext PROVE Service!QNext \/ UNCHANGED <<asking, answer>>
  BY DEF proxyVars
<1> USE ProxyAssumption
<1>1. ASSUME NEW c \in Client, NEW q \in Query, LookUp(c, q) PROVE Service!QNext
  <2>1. CASE Fresh(q)
    <3>1. Result(cache[q].age) \in Service!Results
      BY <2>1 DEF ProxyInv, Fresh, Result, Service!Results
    <3> QED
      BY <1>1, <2>1, <3>1 DEF LookUp, ProxyInv, Service!QNext, Service!AnswerAtOnce
  <2>2. CASE ~Fresh(q)
    BY <1>1, <2>2 DEF LookUp, ProxyInv, Service!QNext, Service!Ask, None, Service!None
  <2> QED
    BY <2>1, <2>2
<1>2. ASSUME NEW q \in Query, Respond(q) PROVE Service!QNext \/ UNCHANGED <<asking, answer>>
  <2>1. Result(flight[q].age) \in Service!Results
    BY <1>2 DEF ProxyInv, Result, Service!Results
  <2> QED
    BY <1>2, <2>1, LandAnswers DEF Respond
<1>3. ASSUME NEW q \in Query, Fail(q) PROVE Service!QNext \/ UNCHANGED <<asking, answer>>
  <2>1. Failure = Service!Failure
    BY DEF Failure, Service!Failure
  <2> QED
    BY <1>3, <2>1, LandAnswers DEF Fail
<1> QED
  BY <1>1, <1>2, <1>3 DEF ProxyNext, Do, Acquire, Prune, ProxyTick

-----------------------------------------------------------------------------
(* Mappings.                                                               *)

Edit == [at : {"idle", "checked", "found"}, name : Name \cup {NoRow}, row : Row \cup {NoRow}]

Push == [at : {"idle", "loaded", "inserted"}, table : [Name -> Row \cup {NoRow}] \cup {Unknown}]

MappingsTypeOK ==
  /\ rows \in [Name -> Row \cup {NoRow}]
  /\ ingest \in [Pusher -> Push]
  /\ edit \in [Editor -> Edit]
  /\ \A e \in Editor :
       /\ edit[e].at = "checked" => edit[e].name \in Name /\ edit[e].row \in Row
       /\ edit[e].at = "found" => edit[e].name \in Name /\ rows[edit[e].name] # NoRow

\* Whoever looked before and is not out of date may still write: no other
\* spelling of the executable has got a row.
FreeFor(x, n) == x = NoExe \/ x \in raced \/ Mapped(rows, x) \subseteq {n}

LooksSound ==
  /\ \A e \in Editor \ stale :
       edit[e].at = "checked" => FreeFor(ExeOf[edit[e].name], edit[e].name)
  /\ \A a \in Pusher \ stale :
       ingest[a].at = "loaded" =>
         \A x \in Discovered(ingest[a].table) : x \in raced \/ Mapped(rows, x) = {}

AtMostOne(S) == \A m, n \in S : m = n

OneEach == \A x \in Exe \ raced : AtMostOne(Mapped(rows, x))

MappingsInv == MappingsTypeOK /\ LooksSound /\ OneEach

LEMMA MappingsInvInit == MappingsInit => MappingsInv
BY MappingsAssumption
   DEF MappingsInit, MappingsInv, MappingsTypeOK, LooksSound, OneEach, AtMostOne, Mapped,
       NoPush, NoEdit, Push, Edit

LEMMA FirstIsOne ==
  ASSUME NEW S, S \subseteq Name, S # {}
  PROVE  First(S) \in S
<1> DEFINE T == {Rank[n] : n \in S}
<1>1. T \subseteq Nat /\ T # {}
  BY MappingsAssumption
<1>2. PICK r \in T : \A q \in T : r <= q
  <2> HIDE DEF T
  <2> QED
    BY <1>1, SmallestOf
<1>3. \E n \in S : \A m \in S : Rank[n] <= Rank[m]
  BY <1>2
<1> QED
  BY <1>3 DEF First

LEMMA IgnoringKeepsType ==
  \A r \in Row : /\ [r EXCEPT !.ignored = TRUE] \in Row
                  /\ [r EXCEPT !.ignored = ~@] \in Row
<1> TAKE r \in Row
<1>1. r.ignored \in BOOLEAN
  BY DEF Row
<1>2. \A b \in BOOLEAN : [r EXCEPT !.ignored = b] \in Row
  BY DEF Row
<1> QED
  BY <1>1, <1>2

LEMMA MappingsTypeStep == MappingsInv /\ [MappingsNext]_mappingsVars => MappingsTypeOK'
<1> SUFFICES ASSUME MappingsTypeOK, MappingsNext PROVE MappingsTypeOK'
  BY DEF MappingsInv, MappingsTypeOK, mappingsVars
<1> USE MappingsAssumption DEF MappingsTypeOK
<1>1. ASSUME NEW a \in Pusher, LoadMappings(a) PROVE MappingsTypeOK'
  BY <1>1 DEF LoadMappings, Push
<1>2. ASSUME NEW a \in Pusher, AutoInsert(a) PROVE MappingsTypeOK'
  <2>1. ingest' \in [Pusher -> Push] /\ UNCHANGED edit
    BY <1>2 DEF AutoInsert, Push
  <2>2. rows' \in [Name -> Row \cup {NoRow}] /\ \A n \in Name : rows[n] # NoRow => rows'[n] # NoRow
    <3>1. CASE UNCHANGED rows
      BY <3>1
    <3>2. ASSUME NEW X \in SUBSET Exe,
                 rows' = [n \in Name |->
                   IF rows[n] = NoRow /\ \E x \in X : n = Lower[x] THEN AutoRow(ExeOf[n]) ELSE rows[n]]
          PROVE  rows' \in [Name -> Row \cup {NoRow}] /\ \A n \in Name : rows[n] # NoRow => rows'[n] # NoRow
      <4>1. \A x \in Exe : AutoRow(x) \in Row
        BY DEF AutoRow, Row
      <4>2. \A n \in Name : (\E x \in X : n = Lower[x]) => AutoRow(ExeOf[n]) \in Row
        BY <4>1
      <4> QED
        BY <3>2, <4>2
    <3>3. Discovered(ingest[a].table) \in SUBSET Exe
      BY DEF Discovered
    <3> HIDE DEF Discovered
    <3> QED
      BY <1>2, <3>1, <3>2, <3>3 DEF AutoInsert
  <2> QED
    BY <2>1, <2>2
<1>3. ASSUME NEW a \in Pusher, StoreRewritten(a) PROVE MappingsTypeOK'
  <2>1. NoPush \in Push
    BY DEF NoPush, Push
  <2> QED
    BY <1>3, <2>1 DEF StoreRewritten
<1>4. ASSUME NEW e \in Editor, NEW n \in Name, CheckMappingCaseCollision(e, n) PROVE MappingsTypeOK'
  <2>1. PICK t \in Title, ignored \in BOOLEAN :
          edit' = [edit EXCEPT ![e] = [at |-> "checked", name |-> n,
                    row |-> [title |-> t, source |-> "manual", ignored |-> ignored]]]
    BY <1>4 DEF CheckMappingCaseCollision
  <2>2. [title |-> t, source |-> "manual", ignored |-> ignored] \in Row
    BY DEF Row
  <2> QED
    BY <1>4, <2>1, <2>2 DEF CheckMappingCaseCollision, Edit
<1>5. ASSUME NEW e \in Editor, NEW t \in Title, QuickIgnoreApp(e, t) PROVE MappingsTypeOK'
  <2>1. CASE Called(t) # {}
    <3>1. First(Called(t)) \in Called(t)
      BY <2>1, FirstIsOne DEF Called
    <3>2. First(Called(t)) \in Name /\ rows[First(Called(t))] # NoRow
      BY <3>1 DEF Called
    <3> HIDE DEF Called, First
    <3> QED
      BY <1>5, <2>1, <3>2 DEF QuickIgnoreApp, Edit
  <2>2. CASE Called(t) = {}
    <3>1. [title |-> t, source |-> "user", ignored |-> TRUE] \in Row /\ NameFor[t] \in Name
      BY DEF Row
    <3> QED
      BY <1>5, <2>2, <3>1 DEF QuickIgnoreApp, Edit
  <2> QED
    BY <2>1, <2>2
<1>6. ASSUME NEW e \in Editor, UpsertMapping(e) PROVE MappingsTypeOK'
  <2>1. NoEdit \in Edit /\ NoEdit.at = "idle"
    BY DEF NoEdit, Edit
  <2> QED
    BY <1>6, <2>1 DEF UpsertMapping
<1>7. ASSUME NEW e \in Editor, SetMappingIgnored(e) PROVE MappingsTypeOK'
  <2>1. NoEdit \in Edit /\ NoEdit.at = "idle"
    BY DEF NoEdit, Edit
  <2>2. /\ edit[e].name \in Name /\ rows[edit[e].name] \in Row
        /\ [rows[edit[e].name] EXCEPT !.ignored = TRUE] \in Row
    BY <1>7, IgnoringKeepsType DEF SetMappingIgnored
  <2> QED
    BY <1>7, <2>1, <2>2 DEF SetMappingIgnored
<1>8. ASSUME NEW n \in Name, ToggleMappingIgnored(n) PROVE MappingsTypeOK'
  <2>1. rows[n] \in Row /\ [rows[n] EXCEPT !.ignored = ~@] \in Row
    BY <1>8, IgnoringKeepsType DEF ToggleMappingIgnored
  <2> QED
    BY <1>8, <2>1 DEF ToggleMappingIgnored
<1>9. ASSUME NEW n \in Name, DeleteMapping(n) PROVE MappingsTypeOK'
  <2>1. NoEdit \in Edit /\ NoEdit.at = "idle"
    BY DEF NoEdit, Edit
  <2> QED
    BY <1>9, <2>1 DEF DeleteMapping
<1> QED
  BY <1>1, <1>2, <1>3, <1>4, <1>5, <1>6, <1>7, <1>8, <1>9 DEF MappingsNext

\* A step that adds no row, and whose looks are those there were.
LEMMA NoNewRows ==
  ASSUME MappingsInv, raced \subseteq raced',
         \A x \in Exe : Mapped(rows', x) \subseteq Mapped(rows, x),
         \A e \in Editor : edit'[e].at = "checked" => edit'[e] = edit[e] /\ (e \in stale => e \in stale'),
         \A a \in Pusher : ingest'[a].at = "loaded" => ingest'[a] = ingest[a] /\ (a \in stale => a \in stale')
  PROVE  LooksSound' /\ OneEach'
<1> USE MappingsAssumption
<1>1. OneEach'
  BY DEF MappingsInv, OneEach, AtMostOne
<1>2. ASSUME NEW e \in Editor \ stale', edit'[e].at = "checked"
      PROVE  FreeFor(ExeOf[edit[e].name], edit[e].name)' /\ edit'[e] = edit[e]
  <2>1. edit'[e] = edit[e] /\ e \notin stale /\ edit[e].name \in Name
    BY <1>2 DEF MappingsInv, MappingsTypeOK
  <2>2. FreeFor(ExeOf[edit[e].name], edit[e].name)
    BY <1>2, <2>1 DEF MappingsInv, LooksSound
  <2>3. ExeOf[edit[e].name] \in Exe \cup {NoExe}
    BY <2>1
  <2> QED
    BY <2>1, <2>2, <2>3 DEF FreeFor
<1>3. ASSUME NEW a \in Pusher \ stale', ingest'[a].at = "loaded",
             NEW x \in Discovered(ingest'[a].table)
      PROVE  x \in raced' \/ Mapped(rows', x) = {}
  <2>1. ingest'[a] = ingest[a] /\ a \notin stale
    BY <1>3
  <2>2. x \in Exe /\ (x \in raced \/ Mapped(rows, x) = {})
    BY <1>3, <2>1 DEF MappingsInv, LooksSound, Discovered
  <2> QED
    BY <2>2
<1> QED
  BY <1>1, <1>2, <1>3 DEF LooksSound

\* A step that writes rows of the executables X: for each of them either its
\* writer was out of date, or no other spelling had a row.
LEMMA NoteKeepsOneEach ==
  ASSUME MappingsInv, NEW w \in Writer, NEW X \in SUBSET Exe, Note(w, X),
         \A x \in Exe \ X : Mapped(rows', x) \subseteq Mapped(rows, x),
         \A x \in X : w \in stale \/ x \in raced \/ AtMostOne(Mapped(rows', x)),
         \A e \in Editor : edit'[e].at = "checked" => edit'[e] = edit[e] /\ e # w,
         \A a \in Pusher : ingest'[a].at = "loaded" => ingest'[a] = ingest[a] /\ a # w
  PROVE  LooksSound' /\ OneEach'
<1>1. raced \subseteq raced' /\ (w \in stale => X \subseteq raced')
  BY DEF Note
<1>2. CASE rows' = rows
  <2>1. stale' = stale \ {w}
    BY <1>2 DEF Note
  <2> QED
    BY <1>1, <1>2, <2>1, NoNewRows
<1>3. CASE rows' # rows
  <2>1. OneEach'
    BY <1>1 DEF MappingsInv, OneEach, AtMostOne
  <2>2. \A e \in Editor : edit'[e].at = "checked" => e \in stale'
    BY <1>3, MappingsAssumption DEF Note, Writer
  <2>3. \A a \in Pusher : ingest'[a].at = "loaded" => a \in stale'
    BY <1>3 DEF Note, Writer
  <2> QED
    BY <2>1, <2>2, <2>3 DEF LooksSound
<1> QED
  BY <1>2, <1>3

LEMMA MappingsInvStep == MappingsInv /\ [MappingsNext]_mappingsVars => MappingsInv'
<1> SUFFICES ASSUME MappingsInv, MappingsNext PROVE LooksSound' /\ OneEach'
  <2>1. CASE UNCHANGED mappingsVars
    BY <2>1 DEF MappingsInv, MappingsTypeOK, LooksSound, OneEach, AtMostOne, Mapped, FreeFor,
                Discovered, mappingsVars
  <2> QED
    BY <2>1, MappingsTypeStep DEF MappingsInv
<1> USE MappingsAssumption
<1>1. ASSUME NEW a \in Pusher, LoadMappings(a) PROVE LooksSound' /\ OneEach'
  <2>1. OneEach'
    BY <1>1 DEF LoadMappings, MappingsInv, OneEach, AtMostOne, Mapped
  <2>2. ASSUME NEW e \in Editor \ stale', edit'[e].at = "checked"
        PROVE  FreeFor(ExeOf[edit[e].name], edit[e].name)' /\ edit'[e] = edit[e]
    <3>1. e \notin stale /\ UNCHANGED <<rows, edit, raced>>
      BY <1>1 DEF LoadMappings, Looked
    <3> QED
      BY <2>2, <3>1 DEF MappingsInv, LooksSound, FreeFor, Mapped
  <2>3. ASSUME NEW b \in Pusher \ stale', ingest'[b].at = "loaded",
               NEW x \in Discovered(ingest'[b].table)
        PROVE  x \in raced' \/ Mapped(rows', x) = {}
    <3>1. CASE b = a
      BY <1>1, <2>3, <3>1 DEF LoadMappings, Discovered, Mapped, MappingsInv, MappingsTypeOK
    <3>2. CASE b # a
      <4>1. b \notin stale /\ ingest'[b] = ingest[b] /\ UNCHANGED <<rows, raced>>
        BY <1>1, <2>3, <3>2 DEF LoadMappings, Looked, MappingsInv, MappingsTypeOK
      <4> QED
        BY <2>3, <4>1 DEF MappingsInv, LooksSound, Mapped
    <3> QED
      BY <3>1, <3>2
  <2> QED
    BY <2>1, <2>2, <2>3 DEF LooksSound
<1>2. ASSUME NEW a \in Pusher, AutoInsert(a) PROVE LooksSound' /\ OneEach'
  <2> DEFINE X == Discovered(ingest[a].table)
  <2>1. /\ ingest[a].at = "loaded" /\ X \subseteq Exe /\ UNCHANGED edit
        /\ \A b \in Pusher : ingest'[b].at = "loaded" => ingest'[b] = ingest[b] /\ b # a
    BY <1>2 DEF AutoInsert, Discovered, MappingsInv, MappingsTypeOK, Push
  <2> HIDE DEF X
  <2>2. CASE Looked(a) /\ UNCHANGED <<rows, raced>>
    <3>1. \A x \in Exe : Mapped(rows', x) \subseteq Mapped(rows, x)
      BY <2>2 DEF Mapped
    <3> QED
      BY <2>1, <2>2, <3>1, NoNewRows DEF Looked
  <2>3. CASE /\ rows' = [n \in Name |->
                   IF rows[n] = NoRow /\ \E x \in X : n = Lower[x] THEN AutoRow(ExeOf[n]) ELSE rows[n]]
             /\ Note(a, X)
    <3>1. \A x \in Exe \ X : Mapped(rows', x) \subseteq Mapped(rows, x)
      BY <2>1, <2>3 DEF Mapped
    <3>2. \A x \in Exe : Mapped(rows', x) \subseteq Mapped(rows, x) \cup {Lower[x]}
      BY <2>1, <2>3 DEF Mapped
    <3>3. \A x \in X : a \in stale \/ x \in raced \/ AtMostOne(Mapped(rows', x))
      BY <2>1, <3>2 DEF MappingsInv, LooksSound, AtMostOne, X
    <3>4. a \in Writer /\ \A e \in Editor : e # a
      BY DEF Writer
    <3> QED
      BY <2>1, <2>3, <3>1, <3>3, <3>4, NoteKeepsOneEach
  <2> QED
    BY <1>2, <2>2, <2>3 DEF AutoInsert, X
<1>3. ASSUME NEW a \in Pusher, StoreRewritten(a) PROVE LooksSound' /\ OneEach'
  <2>1. \A b \in Pusher : ingest'[b].at = "loaded" => ingest'[b] = ingest[b]
    BY <1>3 DEF StoreRewritten, NoPush, MappingsInv, MappingsTypeOK
  <2>2. \A x \in Exe : Mapped(rows', x) \subseteq Mapped(rows, x)
    BY <1>3 DEF StoreRewritten, Mapped
  <2> QED
    BY <1>3, <2>1, <2>2, NoNewRows DEF StoreRewritten
<1>4. ASSUME NEW e \in Editor, NEW n \in Name, CheckMappingCaseCollision(e, n)
      PROVE  LooksSound' /\ OneEach'
  <2>1. /\ UNCHANGED <<rows, ingest, raced>>
        /\ edit'[e].name = n /\ \A d \in Editor \ {e} : edit'[d] = edit[d]
        /\ (~Collides(n) /\ stale' = stale \ {e}) \/ stale' = stale \cup {e}
    BY <1>4 DEF CheckMappingCaseCollision, Looked, LookedInVain, MappingsInv, MappingsTypeOK
  <2>2. OneEach'
    BY <2>1 DEF MappingsInv, OneEach, AtMostOne, Mapped
  <2>3. ~Collides(n) => FreeFor(ExeOf[n], n)
    <3> SUFFICES ASSUME ~Collides(n), ExeOf[n] \in Exe \ raced, NEW m \in Mapped(rows, ExeOf[n])
                 PROVE  m = n
      BY DEF FreeFor
    <3>1. Mapped(rows, ExeOf[n]) = {m}
      BY DEF MappingsInv, OneEach, AtMostOne
    <3>2. Rank[m] <= Rank[m]
      BY DEF Mapped
    <3>3. Last({m}) = m
      BY <3>2 DEF Last
    <3> QED
      BY <3>1, <3>3 DEF Collides
  <2>4. ASSUME NEW d \in Editor \ stale', edit'[d].at = "checked"
        PROVE  FreeFor(ExeOf[edit'[d].name], edit'[d].name)
    BY <2>1, <2>3, <2>4 DEF MappingsInv, LooksSound
  <2>5. \A a \in Pusher \ stale' : a \notin stale
    BY <2>1
  <2> QED
    BY <2>1, <2>2, <2>4, <2>5 DEF MappingsInv, LooksSound, FreeFor, Mapped
<1>5. ASSUME NEW e \in Editor, NEW t \in Title, QuickIgnoreApp(e, t) PROVE LooksSound' /\ OneEach'
  <2>1. /\ UNCHANGED <<rows, ingest, raced>> /\ stale' = stale \ {e}
        /\ \A d \in Editor \ {e} : edit'[d] = edit[d]
        /\ edit'[e].at = "checked" => Called(t) = {} /\ edit'[e].name = NameFor[t]
    BY <1>5 DEF QuickIgnoreApp, Looked, MappingsInv, MappingsTypeOK
  <2>2. OneEach'
    BY <2>1 DEF MappingsInv, OneEach, AtMostOne, Mapped
  <2>3. Called(t) = {} => FreeFor(ExeOf[NameFor[t]], NameFor[t])
    BY DEF Called, FreeFor, Mapped
  <2>4. ASSUME NEW d \in Editor \ stale', edit'[d].at = "checked"
        PROVE  FreeFor(ExeOf[edit'[d].name], edit'[d].name)
    BY <2>1, <2>3, <2>4 DEF MappingsInv, LooksSound
  <2>5. \A a \in Pusher \ stale' : a \notin stale
    BY <2>1
  <2> QED
    BY <2>1, <2>2, <2>4, <2>5 DEF MappingsInv, LooksSound, FreeFor, Mapped
<1>6. ASSUME NEW e \in Editor, UpsertMapping(e) PROVE LooksSound' /\ OneEach'
  <2> DEFINE n == edit[e].name
             X == {ExeOf[n]} \ {NoExe}
  <2>1. /\ edit[e].at = "checked" /\ n \in Name /\ X \subseteq Exe /\ UNCHANGED ingest
        /\ rows' = [rows EXCEPT ![n] = edit[e].row] /\ Note(e, X)
        /\ \A d \in Editor : edit'[d].at = "checked" => edit'[d] = edit[d] /\ d # e
    BY <1>6 DEF UpsertMapping, MappingsInv, MappingsTypeOK, NoEdit
  <2>2. \A x \in Exe \ X : Mapped(rows', x) \subseteq Mapped(rows, x)
    BY <2>1 DEF Mapped, MappingsInv, MappingsTypeOK
  <2>3. \A x \in X : Mapped(rows', x) \subseteq Mapped(rows, x) \cup {n}
    BY <2>1 DEF Mapped, MappingsInv, MappingsTypeOK
  <2>4. \A x \in X : e \in stale \/ x \in raced \/ AtMostOne(Mapped(rows', x))
    <3> SUFFICES ASSUME NEW x \in X, e \notin stale, x \notin raced
                 PROVE  AtMostOne(Mapped(rows', x))
      OBVIOUS
    <3>1. x = ExeOf[n] /\ x \in Exe
      BY <2>1
    <3>2. FreeFor(ExeOf[n], n)
      BY <2>1 DEF MappingsInv, LooksSound
    <3>3. Mapped(rows, x) \subseteq {n}
      BY <3>1, <3>2 DEF FreeFor
    <3>4. Mapped(rows', x) \subseteq {n}
      BY <2>3, <3>3
    <3> QED
      BY <3>4 DEF AtMostOne
  <2>5. e \in Writer /\ \A a \in Pusher : a # e
    BY DEF Writer
  <2> HIDE DEF X
  <2> QED
    BY <2>1, <2>2, <2>4, <2>5, NoteKeepsOneEach
<1>7. ASSUME NEW e \in Editor, SetMappingIgnored(e) PROVE LooksSound' /\ OneEach'
  <2>1. /\ \A x \in Exe : Mapped(rows', x) \subseteq Mapped(rows, x)
        /\ \A d \in Editor : edit'[d].at = "checked" => edit'[d] = edit[d] /\ d # e
    BY <1>7 DEF SetMappingIgnored, Mapped, MappingsInv, MappingsTypeOK, NoEdit
  <2> QED
    BY <1>7, <2>1, NoNewRows DEF SetMappingIgnored, Looked
<1>8. ASSUME NEW n \in Name, ToggleMappingIgnored(n) \/ DeleteMapping(n)
      PROVE  LooksSound' /\ OneEach'
  <2>1. /\ \A x \in Exe : Mapped(rows', x) \subseteq Mapped(rows, x)
        /\ \A d \in Editor : edit'[d].at = "checked" => edit'[d] = edit[d]
        /\ UNCHANGED <<ingest, stale, raced>>
    BY <1>8 DEF ToggleMappingIgnored, DeleteMapping, Mapped, MappingsInv, MappingsTypeOK, NoEdit
  <2> QED
    BY <2>1, NoNewRows
<1> QED
  BY <1>1, <1>2, <1>3, <1>4, <1>5, <1>6, <1>7, <1>8 DEF MappingsNext

-----------------------------------------------------------------------------
(* User identity.                                                          *)

IsName(n) == n = [domain |-> n.domain, account |-> n.account, upn |-> n.upn]

Sound(policy) ==
  /\ policy.strip \in BOOLEAN
  /\ DOMAIN policy.aliases \subseteq Pattern
  /\ \A p \in DOMAIN policy.aliases : IsName(policy.aliases[p])

Rule == [canonical : Target \cup {Empty}, ignored : BOOLEAN]

\* Whatever rules an agent has come to hold, what it records is a name.
IdentityInv ==
  /\ rules \in [Pattern -> Rule \cup {NoRule}] /\ strip \in BOOLEAN
  /\ DOMAIN fetch = Station /\ DOMAIN held = Station
  /\ \A s \in Station : /\ Sound(held[s])
                        /\ Sound(fetch[s].policy) /\ fetch[s].strip \in BOOLEAN
  /\ \A n \in recorded : IsName(n) /\ n # Empty

LEMMA NamesOfNames ==
  ASSUME NEW n, IsName(n), NEW stripDomain \in BOOLEAN
  PROVE  IsName(Canonicalize(n, stripDomain))
<1> PICK d, a, u : n = [domain |-> d, account |-> a, upn |-> u]
  BY DEF IsName
<1> QED
  BY DEF Canonicalize, IsName

LEMMA ConstantsAreNames ==
  /\ \A n \in RawName \cup Target : IsName(n)
  /\ \A p \in Pattern \cup BuiltInIgnores : IsName(p) /\ p # Empty
  /\ IsName(Empty)
<1>1. ASSUME NEW n \in [domain : STRING, account : STRING, upn : STRING] PROVE IsName(n)
  BY DEF IsName
<1>2. RawName \cup Pattern \cup Target \cup BuiltInIgnores
        \subseteq [domain : STRING, account : STRING, upn : STRING]
  BY IdentityAssumption
<1>3. Empty \notin Pattern \cup BuiltInIgnores
  BY IdentityAssumption
<1>4. IsName(Empty)
  BY DEF IsName, Empty
<1> QED
  BY <1>1, <1>2, <1>3, <1>4, Zenon

LEMMA MostSpecificIsOne ==
  ASSUME NEW S, S \subseteq Pattern, S # {}
  PROVE  MostSpecific(S) \in S
<1> DEFINE exact == {p \in S : p.account # AnyAccount}
           best == IF exact # {} THEN exact ELSE S
           T == {Precedence[p] : p \in best}
<1>1. best # {} /\ best \subseteq S
  OBVIOUS
<1>2. \E p \in best : \A q \in best : Precedence[p] <= Precedence[q]
  <2>1. \A p \in Pattern : Precedence[p] \in Nat
    BY IdentityAssumption
  <2>2. T # {} /\ T \subseteq Nat
    BY <1>1, <2>1
  <2>3. PICK i \in T : \A j \in T : i <= j
    BY <2>2, SmallestOf
  <2> QED
    BY <2>3
<1>3. MostSpecific(S) = CHOOSE p \in best : \A q \in best : Precedence[p] <= Precedence[q]
  BY DEF MostSpecific
<1> QED
  BY <1>1, <1>2, <1>3

\* What Resolve counts a name under is a name.
LEMMA OutcomeIsName ==
  ASSUME NEW policy, Sound(policy), NEW raw, IsName(raw)
  PROVE  IsName(Outcome(policy, raw))
<1> DEFINE canonical == Canonicalize(raw, policy.strip)
           hits == {p \in DOMAIN policy.aliases : MatchesEither(p, raw, canonical)}
           alias == Canonicalize(policy.aliases[MostSpecific(hits)], policy.strip)
           r == Resolve(policy, raw)
<1>1. IsName(canonical)
  BY NamesOfNames DEF Sound
<1>2. ASSUME hits # {} PROVE IsName(alias)
  <2>1. MostSpecific(hits) \in DOMAIN policy.aliases
    BY <1>2, MostSpecificIsOne DEF Sound
  <2> QED
    BY <2>1, NamesOfNames DEF Sound
<1>3. r.name \in {canonical} \/ (hits # {} /\ r.name = alias)
  BY DEF Resolve
<1> HIDE DEF canonical, hits, alias, r
<1>4. IsName(r.name)
  BY <1>1, <1>2, <1>3
<1> QED
  BY <1>4, ConstantsAreNames DEF Outcome, r

LEMMA IdentityInvInit == IdentityInit => IdentityInv
<1> SUFFICES ASSUME IdentityInit PROVE IdentityInv
  OBVIOUS
<1>1. Sound(NewPolicy)
  BY DEF Sound, NewPolicy
<1> QED
  BY <1>1 DEF IdentityInit, IdentityInv, NoFetch

LEMMA BuiltPolicyIsSound ==
  ASSUME IdentityInv, NEW stripDomain \in BOOLEAN
  PROVE  Sound(BuildAgentUserPolicy(stripDomain, rules))
<1>2. ASSUME NEW p \in Aliases(rules) \ Inert(rules) PROVE p \in Pattern /\ rules[p].canonical \in Target
  BY <1>2 DEF Aliases, Inert, IdentityInv, Rule
<1> QED
  BY <1>2, ConstantsAreNames DEF Sound, BuildAgentUserPolicy

LEMMA IdentityInvStep == IdentityInv /\ [IdentityNext]_identityVars => IdentityInv'
<1> SUFFICES ASSUME IdentityInv, IdentityNext PROVE IdentityInv'
  BY DEF IdentityInv, identityVars
<1>1. Sound(NewPolicy) /\ Sound(NoFetch.policy) /\ NoFetch.strip \in BOOLEAN
  BY DEF Sound, NewPolicy, NoFetch
<1>2. ASSUME EditsRules, rules' \in [Pattern -> Rule \cup {NoRule}], strip' \in BOOLEAN
      PROVE  IdentityInv'
  BY <1>2 DEF EditsRules, IdentityInv
<1>3. ASSUME NEW p \in Pattern, NEW canonical \in Target \cup {Empty}, NEW ignored \in BOOLEAN,
             UpsertUserMapping(p, canonical, ignored)
      PROVE  IdentityInv'
  BY <1>2, <1>3 DEF UpsertUserMapping, IdentityInv, Rule
<1>4. ASSUME NEW p \in Pattern, NEW ignored \in BOOLEAN, SetUserMappingIgnored(p, ignored)
      PROVE  IdentityInv'
  BY <1>2, <1>4 DEF SetUserMappingIgnored, IdentityInv, Rule
<1>5. ASSUME NEW p \in Pattern, DeleteUserMapping(p) PROVE IdentityInv'
  BY <1>2, <1>5 DEF DeleteUserMapping, IdentityInv
<1>6. ASSUME NEW p \in Pattern, QuickIgnoreUser(p) PROVE IdentityInv'
  BY <1>2, <1>6 DEF QuickIgnoreUser, IdentityInv, Rule
<1>7. CASE UpdateUserPolicy
  BY <1>2, <1>7 DEF UpdateUserPolicy, IdentityInv
<1>8. ASSUME NEW s \in Station, ReadStripDomain(s) PROVE IdentityInv'
  BY <1>1, <1>8 DEF ReadStripDomain, IdentityInv, NoFetch
<1>9. ASSUME NEW s \in Station, ReadRules(s) PROVE IdentityInv'
  BY <1>9, BuiltPolicyIsSound DEF ReadRules, IdentityInv
<1>10. ASSUME NEW s \in Station, FetchFails(s) \/ ApplyUserPolicy(s) \/ RestartAgent(s)
       PROVE  IdentityInv'
  BY <1>1, <1>10 DEF FetchFails, ApplyUserPolicy, RestartAgent, IdentityInv
<1>11. ASSUME NEW s \in Station, NEW raw \in RawName, Collect(s, raw) PROVE IdentityInv'
  <2>1. IsName(ResolveUser(s, raw))
    BY OutcomeIsName, ConstantsAreNames DEF ResolveUser, IdentityInv
  <2> QED
    BY <1>11, <2>1 DEF Collect, IdentityInv
<1> QED
  BY <1>3, <1>4, <1>5, <1>6, <1>7, <1>8, <1>9, <1>10, <1>11 DEF IdentityNext

\* A pattern ignores a name in the query just when it does in the program.
LEMMA PatternsAgree ==
  ASSUME NEW n, IsName(n), n.upn = NoPart, NEW p, IsName(p), p # Empty, NEW stripDomain \in BOOLEAN
  PROVE  GlobToRegex(p, n) <=> MatchesEither(p, n, Canonicalize(n, stripDomain))
<1>0. PICK d, a : n = [domain |-> d, account |-> a, upn |-> NoPart]
  BY DEF IsName
<1>1. Canonicalize(n, TRUE) = Bare(n) /\ Canonicalize(n, FALSE) = n
  BY <1>0 DEF Canonicalize, Bare
<1>2. /\ Bare(n).domain = NoPart /\ Half(n).domain = NoPart
      /\ n.domain = NoPart => Bare(n) = n /\ Half(n) = Empty
  <2>2. /\ DOMAIN n = {"domain", "account", "upn"} /\ n = [f \in DOMAIN n |-> n[f]]
        /\ DOMAIN Empty = {"domain", "account", "upn"} /\ Empty = [f \in DOMAIN Empty |-> Empty[f]]
        /\ Empty.account = NoPart /\ Empty.domain = NoPart
    BY <1>0 DEF Empty
  <2>3. Bare(n).domain = NoPart /\ Half(n).domain = NoPart
    BY <2>2 DEF Bare, Half
  <2>4. n.domain = NoPart => Bare(n) = n
    BY <2>2 DEF Bare
  <2>5. n.domain = NoPart => Half(n) = Empty
    BY <2>2 DEF Half
  <2> QED
    BY <2>3, <2>4, <2>5
<1>3. CASE p.domain = NoPart
  <2>1. n.domain = NoPart => (MatchGlob(p, Half(n)) => MatchGlob(p, n))
    BY <1>2, <1>3 DEF MatchGlob
  <2> QED
    BY <1>1, <1>2, <1>3, <2>1 DEF GlobToRegex, MatchesEither
<1>4. CASE p.domain # NoPart
  <2>1. ~MatchGlob(p, Bare(n))
    BY <1>2, <1>4 DEF MatchGlob
  <2> QED
    BY <1>1, <1>4, <2>1 DEF GlobToRegex, MatchesEither
<1> QED
  BY <1>3, <1>4

LEMMA MatcherAgreesWithResolve ==
  ASSUME IdentityInv
  PROVE  MatcherAgrees
<1> SUFFICES ASSUME NEW n \in recorded \cup RawName, Matchable(UserPolicy, n)
             PROVE  IgnoreMatcher(UserPolicy, n) <=> Resolve(UserPolicy, n).ignored
  BY DEF MatcherAgrees
<1> DEFINE strips == UserPolicy.strip
           c == Canonicalize(n, strips)
           P == BuiltInIgnores \cup UserPolicy.ignored
           structural == \/ n.account \in Short
                         \/ n.account \in Suffixed \/ n.domain \in Reserved
                         \/ {n.domain, n.account} \cap Underscored # {}
<1>1. /\ IsName(n) /\ strips \in BOOLEAN
      /\ \A p \in P : IsName(p) /\ p # Empty
  BY ConstantsAreNames DEF IdentityInv, UserPolicy, PolicyFromMappings, Ignored
<1>2. PICK d, a : n = [domain |-> d, account |-> a, upn |-> NoPart]
  BY <1>1 DEF IsName, Matchable
<1>3. /\ a \notin Reserved
      /\ a \in Short => d = NoPart /\ a # NoPart
      /\ a \in Underscored => d = NoPart \/ strips
  BY <1>2 DEF Matchable
<1>4. NoPart \in Short /\ NoPart \notin Underscored \cup Suffixed \cup Reserved
  BY IdentityAssumption
<1>5. /\ c.account = a /\ c.upn = NoPart /\ c.domain = IF strips THEN NoPart ELSE d
      /\ c # Empty /\ n # Empty
  <2>1. a # NoPart
    BY <1>3, <1>4
  <2>2. n.account = a /\ n # Empty
    BY <1>2, <2>1 DEF Empty
  <2>3. c.account = a /\ c.upn = NoPart /\ c.domain = IF strips THEN NoPart ELSE d
    BY <1>1, <1>2 DEF Canonicalize
  <2>4. c # Empty
    BY <2>1, <2>3 DEF Empty
  <2> QED
    BY <2>2, <2>3, <2>4
<1>6. \A p \in P : GlobToRegex(p, n) <=> MatchesEither(p, n, c)
  BY <1>1, <1>2, PatternsAgree
<1>7. (~PlausibleUsername(c) \/ ~PlausibleUsername(n)) <=> structural
  <2>1. ~PlausibleUsername(n) <=>
          \/ a \in Short /\ d = NoPart
          \/ {d, a, NoPart} \cap Reserved # {} \/ a \in Suffixed
          \/ (IF d # NoPart THEN d ELSE a) \in Underscored
    BY <1>2 DEF PlausibleUsername, FirstPart, LastPart
  <2>2. ~PlausibleUsername(c) <=>
          \/ a \in Short /\ c.domain = NoPart
          \/ {c.domain, a, NoPart} \cap Reserved # {} \/ a \in Suffixed
          \/ (IF c.domain # NoPart THEN c.domain ELSE a) \in Underscored
    BY <1>5 DEF PlausibleUsername, FirstPart, LastPart
  <2>3. structural <=>
          a \in Short \/ a \in Suffixed \/ d \in Reserved \/ d \in Underscored \/ a \in Underscored
    BY <1>2
  <2> HIDE DEF c, structural
  <2> QED
    BY <1>1, <1>3, <1>4, <1>5, <2>1, <2>2, <2>3
<1>8. IgnoreMatcher(UserPolicy, n) <=> structural \/ \E p \in P : GlobToRegex(p, n)
  BY <1>2, <1>3 DEF IgnoreMatcher, LastPart
<1>9. Resolve(UserPolicy, n).ignored <=>
        \/ Empty \in {n, c} \/ ~PlausibleUsername(c) \/ ~PlausibleUsername(n)
        \/ \E p \in P : MatchesEither(p, n, c)
  BY DEF Resolve
<1> HIDE DEF c, P, structural
<1> QED
  BY <1>5, <1>6, <1>7, <1>8, <1>9

LEMMA CountedAreShown == CountedUsersShown
<1> SUFFICES ASSUME NEW n \in recorded, Outcome(UserPolicy, n) # Empty
             PROVE  \E u \in ListDiscoveredUsers :
                      u.canonicalUser = Outcome(UserPolicy, n) /\ ~u.ignored
  BY DEF CountedUsersShown
<1> DEFINE Names == recorded \cup {p \in Pattern : rules[p] # NoRule /\ p.account # AnyAccount}
           Forms(c) == {m \in Names : Resolve(UserPolicy, m).name = c}
           c == Outcome(UserPolicy, n)
           u == [canonicalUser |-> c, ignored |-> Hidden(Forms(c))]
<1>1. ~Resolve(UserPolicy, n).ignored /\ Resolve(UserPolicy, n).name = c /\ c # Empty
  BY DEF Outcome
<1>2. n \in Forms(c) /\ ~Hidden(Forms(c))
  BY <1>1 DEF Hidden
<1>3. u \in ListDiscoveredUsers
  BY <1>1 DEF ListDiscoveredUsers
<1> QED
  BY <1>2, <1>3

-----------------------------------------------------------------------------
(* Reports.                                                                *)

\* Reports whose rows name people, machines or labs.
OfPlaces == OfUsers \cup {"devicesBySessions", "usageByLab"}

Place == Lab \cup {Unassigned, Absent}

Reading == {"agents", "labs", "strip", "rules", "filterStrip", "filterRules", "mappings", "listed",
            "query", "logins"}

Mentions(s, x) == \E i \in 1..Len(s) : s[i] = x

Before(s, x, y) == \A i, j \in 1..Len(s) : s[i] = x /\ s[j] = y => i < j

\* Ids before names, the option before the rules.
InOrder(s) == Before(s, "agents", "labs") /\ Before(s, "strip", "rules")

\* A read the report has still to make.
Awaits(reading) == Mentions(report.todo, reading)

StripWas  == report.view.policy.strip \in ever.strips
RulesWere == <<report.view.policy.strip, report.view.policy.rules>> \in ever.policies

IDsWere    == \A h \in Machine : <<h, report.view.labIDs[h]>> \in ever.in
PlacesWere == \A h \in Machine : WasShownIn(h, LabOf(report.view, h))

\* The history has what the tables have.
Recorded ==
  /\ stripping \in ever.strips /\ \A b \in ever.strips : <<b, ruleset>> \in ever.policies
  /\ \A h \in Machine : <<h, machines[h]>> \in ever.in
  /\ \A x \in ever.in : <<x[1], ShownAs(NameIn(labs, x[2]))>> \in ever.shown

ReadsSound ==
  /\ report.todo \in Seq(Reading) /\ InOrder(report.todo)
  /\ Awaits("agents") \/ IDsWere
  /\ Awaits("labs") \/ PlacesWere
  /\ report.kind \in OfUsers =>
       /\ Awaits("strip") => Awaits("rules")
       /\ ever.failed \/ Awaits("strip") \/ StripWas
       /\ ever.failed \/ Awaits("rules") \/ RulesWere

ReportsInv ==
  /\ samples \subseteq Sample
  /\ DOMAIN report = DOMAIN NoReport /\ DOMAIN report.view = DOMAIN NoView
  /\ DOMAIN report.view.policy = DOMAIN NewUserPolicy
  /\ DOMAIN ever = DOMAIN Nothing
  /\ report.view.found \subseteq Sample
  /\ report # NoReport => reply = NoReply /\ Recorded
  /\ report.kind \in OfPlaces => ReadsSound
  /\ RowsWereTrue

\* A row of person p in a report of the machines of a lab has a sample behind it.
Behind(v, s, p, lab) == Whom(v.policy, s.user) = p /\ HostnameMatchesLab(v, s.host, lab)

LEMMA UserRows ==
  ASSUME NEW v, NEW S, NEW k, NEW lab, NEW metric, k \in DOMAIN SumByCanonicalUser(v, S, metric, lab)
  PROVE  \E s \in S : Behind(v, s, k, lab)
BY Zenon DEF Behind, SumByCanonicalUser, TotalsBy, Unignored

LEMMA ReportsOfUsers ==
  ASSUME NEW v, NEW kind \in OfUsers, NEW lab, NEW k, k \in DOMAIN Rows(kind, v, lab)
  PROVE  \E s \in v.found : Behind(v, s, k, lab)
<1>1. kind = "usersByLogins" => Rows(kind, v, lab) = SumByCanonicalUser(v, v.found, "logins", lab)
  BY Zenon DEF Rows, ReportTopUsersByLoginCount
<1>2. kind = "usersByElevations" =>
        Rows(kind, v, lab) = SumByCanonicalUser(v, v.found, "elevations", lab)
  BY Zenon DEF Rows, ReportTopUsersByElevations
<1>3. kind = "usersBySessionTime" =>
        Rows(kind, v, lab) = SumByCanonicalUser(v, v.found, "seconds", lab)
  BY Zenon DEF Rows, ReportTopUsersBySessionTime
<1>4. kind = "averageSession" => Rows(kind, v, lab) = ReportAvgSessionTime(v, lab)
  BY Zenon DEF Rows
<1>5. kind = "averageSession" => k \in DOMAIN SumByCanonicalUser(v, v.found, "seconds", lab)
  BY <1>4 DEF ReportAvgSessionTime
<1>6. \E metric : k \in DOMAIN SumByCanonicalUser(v, v.found, metric, lab)
  BY <1>1, <1>2, <1>3, <1>5 DEF OfUsers
<1> QED
  BY <1>6, UserRows, Zenon

LEMMA DeviceRows ==
  ASSUME NEW v, NEW lab, NEW k, k \in DOMAIN Rows("devicesBySessions", v, lab)
  PROVE  \E s \in v.found : s.host = k /\ HostnameMatchesLab(v, k, lab)
<1>1. k \in DOMAIN ReportTopDevicesBySessionCount(v, lab)
  BY DEF Rows
<1> QED
  BY <1>1, Zenon DEF ReportTopDevicesBySessionCount, TotalsBy, Unignored

LEMMA UsageRows ==
  ASSUME NEW v, NEW lab, NEW k, k \in DOMAIN Rows("usageByLab", v, lab)
  PROVE  \E s \in v.found : k = <<LabOf(v, s.host), s.app>>
<1>1. k \in DOMAIN ReportUsageByLab(v, lab)
  BY DEF Rows
<1> QED
  BY <1>1, Zenon DEF ReportUsageByLab, TotalsBy, Unignored

LEMMA Joined ==
  ASSUME NEW p \in Seq(Reading), NEW q \in Seq(Reading), NEW x
  PROVE p \o q \in Seq(Reading) /\ (Mentions(p \o q, x) <=> Mentions(p, x) \/ Mentions(q, x))
<1>1. /\ p \o q \in Seq(Reading) /\ Len(p \o q) = Len(p) + Len(q) 
      /\ Len(p) \in Nat /\ Len(q) \in Nat
      /\ \A i \in 1..Len(p) : (p \o q)[i] = p[i]
      /\ \A i \in 1..Len(q) : (p \o q)[Len(p) + i] = q[i]
  OBVIOUS
<1>2. ASSUME NEW i \in 1..Len(p \o q), (p \o q)[i] = x PROVE Mentions(p, x) \/ Mentions(q, x)
  <2>1. CASE i <= Len(p)
    BY <1>1, <1>2, <2>1 DEF Mentions
  <2>2. CASE ~(i <= Len(p))
    <3>1. i - Len(p) \in 1..Len(q) /\ i = Len(p) + (i - Len(p))
      BY <1>1, <2>2
    <3> QED
      BY <1>1, <1>2, <3>1 DEF Mentions
  <2> QED
    BY <2>1, <2>2
<1>3. ASSUME NEW i \in 1..Len(p), p[i] = x PROVE Mentions(p \o q, x)
  <2>1. i \in 1..Len(p \o q)
    BY <1>1
  <2> QED
    BY <1>1, <1>3, <2>1 DEF Mentions
<1>4. ASSUME NEW i \in 1..Len(q), q[i] = x PROVE Mentions(p \o q, x)
  <2>1. Len(p) + i \in 1..Len(p \o q)
    BY <1>1
  <2> QED
    BY <1>1, <1>4, <2>1 DEF Mentions
<1> QED
  BY <1>1, <1>2, <1>3, <1>4 DEF Mentions

LEMMA JoinedInOrder ==
  ASSUME NEW p \in Seq(Reading), NEW q \in Seq(Reading), NEW x, NEW y,
         Before(p, x, y), Before(q, x, y), ~Mentions(p, y) \/ ~Mentions(q, x)
  PROVE  Before(p \o q, x, y)
<1>1. /\ Len(p \o q) = Len(p) + Len(q) /\ Len(p) \in Nat /\ Len(q) \in Nat
      /\ \A i \in 1..Len(p) : (p \o q)[i] = p[i]
      /\ \A i \in 1..Len(q) : (p \o q)[Len(p) + i] = q[i]
  OBVIOUS
<1>2. ASSUME NEW i \in 1..Len(p \o q)
      PROVE  \/ i \in 1..Len(p) /\ (p \o q)[i] = p[i]
             \/ /\ i - Len(p) \in 1..Len(q) /\ i > Len(p)
                /\ (p \o q)[i] = q[i - Len(p)]
  <2>1. CASE i <= Len(p)
    BY <1>1, <2>1
  <2>2. CASE ~(i <= Len(p))
    <3>1. i - Len(p) \in 1..Len(q) /\ i = Len(p) + (i - Len(p)) /\ i > Len(p)
      BY <1>1, <2>2
    <3> QED
      BY <1>1, <3>1
  <2> QED
    BY <2>1, <2>2
<1> DEFINE r == p \o q
<1> SUFFICES ASSUME NEW i \in 1..Len(r), NEW j \in 1..Len(r), r[i] = x, r[j] = y PROVE i < j
  BY DEF Before
<1>3. i \in 1..Len(p) /\ j \in 1..Len(p) /\ r[i] = p[i] /\ r[j] = p[j] => i < j
  BY DEF Before
<1>4. ASSUME i - Len(p) \in 1..Len(q), j - Len(p) \in 1..Len(q),
             r[i] = q[i - Len(p)], r[j] = q[j - Len(p)]
      PROVE  i < j
  <2>1. i - Len(p) < j - Len(p)
    <3>1. q[i - Len(p)] = x /\ q[j - Len(p)] = y
      BY <1>4
    <3> HIDE DEF r
    <3> QED
      BY <1>4, <3>1 DEF Before
  <2> QED
    BY <1>1, <2>1
<1>5. ~(/\ i - Len(p) \in 1..Len(q) /\ r[i] = q[i - Len(p)]
        /\ j \in 1..Len(p) /\ r[j] = p[j])
  BY DEF Mentions
<1>6. i \in 1..Len(p) /\ j > Len(p) => i < j
  BY <1>1
<1> HIDE DEF r
<1> QED
  BY <1>2, <1>3, <1>4, <1>5, <1>6 DEF r

\* What names neither people nor places comes in any order.
Naming == {"agents", "labs", "strip", "rules"}
Plain(s) == s \in Seq(Reading) /\ \A x \in Naming : ~Mentions(s, x)

LEMMA PlainIsInOrder ==
  ASSUME NEW p \in Seq(Reading), InOrder(p), NEW q, Plain(q)
  PROVE  /\ p \o q \in Seq(Reading) /\ InOrder(p \o q)
         /\ \A x \in Naming : Mentions(p, x) => Mentions(p \o q, x)
<1>1. q \in Seq(Reading) /\ \A x \in Naming : ~Mentions(q, x)
  BY DEF Plain
<1>2. Before(q, "agents", "labs") /\ Before(q, "strip", "rules")
  BY <1>1 DEF Before, Mentions, Naming
<1>3. Before(p \o q, "agents", "labs") /\ Before(p \o q, "strip", "rules")
  BY <1>1, <1>2, JoinedInOrder DEF InOrder, Naming
<1> QED
  BY <1>1, <1>3, Joined DEF InOrder

\* What a report reads to name people and places.
LEMMA ReadsOfPlaces ==
  ASSUME NEW kind \in OfPlaces, NEW lab
  PROVE  /\ Reads(kind, lab) \in Seq(Reading) /\ InOrder(Reads(kind, lab))
         /\ Mentions(Reads(kind, lab), "agents") /\ Mentions(Reads(kind, lab), "labs")
         /\ kind \in OfUsers => /\ Mentions(Reads(kind, lab), "strip")
                               /\ Mentions(Reads(kind, lab), "rules")
<1> DEFINE policy == <<"strip", "rules">>
           hosts == <<"agents", "labs">>
           filter == <<"filterStrip", "filterRules">>
           query == <<"query">>
           mappings == <<"query", "mappings">>
<1>1. /\ policy \in Seq(Reading) /\ hosts \in Seq(Reading)
      /\ Mentions(hosts, "agents") /\ Mentions(hosts, "labs")
      /\ Mentions(policy, "strip") /\ Mentions(policy, "rules")
  BY DEF Reading, Mentions
<1>2. InOrder(hosts) /\ InOrder(policy)
  BY DEF InOrder, Before
<1>3. ~Mentions(policy, "agents") /\ ~Mentions(policy, "labs") /\ ~Mentions(hosts, "strip")
  BY DEF Mentions
<1>4. Plain(filter) /\ Plain(query) /\ Plain(mappings) /\ Plain(<<"logins">>) /\ Plain(<<>>)
  <2>1. Plain(filter)
    BY DEF Plain, Reading, Mentions, Naming
  <2>2. Plain(query)
    BY DEF Plain, Reading, Mentions, Naming
  <2>3. Plain(mappings)
    BY DEF Plain, Reading, Mentions, Naming
  <2>4. Plain(<<"logins">>)
    BY DEF Plain, Reading, Mentions, Naming
  <2>5. Plain(<<>>)
    BY DEF Plain, Reading, Mentions, Naming
  <2> QED
    BY <2>1, <2>2, <2>3, <2>4, <2>5
<1>5. CASE kind \in OfUsers
  <2> DEFINE logins == IF kind = "averageSession" THEN <<"logins">> ELSE <<>>
             start == policy \o hosts
             filtered == start \o filter
             asked == filtered \o query
  <2>1. /\ kind \in OfUsers /\ kind \notin OfApps
        /\ kind \notin {"usageByLab", "utilization", "labsByUtilization"}
        /\ kind # "devicesBySessions" /\ kind # "topAppsByElevations"
        /\ kind # "bottomAppsWithZeros" /\ kind # "activeUsers"
    BY <1>5 DEF OfUsers, OfApps
  <2>2. Reads(kind, lab) = asked \o logins
    BY <2>1, Zenon DEF Reads
  <2>3. Plain(logins)
    BY <1>4, Zenon
  <2> HIDE DEF hosts, query, policy, filter, logins, mappings
  <2>4. start \in Seq(Reading) /\ \A x \in Naming : Mentions(start, x)
    BY <1>1, Joined DEF Naming
  <2>5. InOrder(start)
    BY <1>1, <1>2, <1>3, JoinedInOrder DEF InOrder
  <2> HIDE DEF start
  <2>6. filtered \in Seq(Reading) /\ InOrder(filtered) /\ \A x \in Naming : Mentions(filtered, x)
    BY <1>4, <2>4, <2>5, PlainIsInOrder
  <2> HIDE DEF filtered
  <2>7. asked \in Seq(Reading) /\ InOrder(asked) /\ \A x \in Naming : Mentions(asked, x)
    BY <1>4, <2>6, PlainIsInOrder
  <2> HIDE DEF asked
  <2>8. /\ asked \o logins \in Seq(Reading) /\ InOrder(asked \o logins)
        /\ \A x \in Naming : Mentions(asked \o logins, x)
    BY <2>3, <2>7, PlainIsInOrder
  <2> QED
    BY <2>2, <2>8 DEF Naming
<1>6. CASE kind \in {"devicesBySessions", "usageByLab"}
  <2> DEFINE filtered == hosts \o filter
  <2>1. kind \notin OfUsers
    BY <1>6 DEF OfUsers
  <2>2. Reads("devicesBySessions", lab) = filtered \o query
    BY Zenon DEF Reads, OfUsers, OfApps
  <2>3. Reads("usageByLab", lab) = filtered \o mappings
    BY Zenon DEF Reads, OfUsers, OfApps
  <2> HIDE DEF hosts, query, filter, mappings
  <2>4. /\ filtered \in Seq(Reading) /\ InOrder(filtered)
        /\ Mentions(filtered, "agents") /\ Mentions(filtered, "labs")
    BY <1>1, <1>2, <1>4, PlainIsInOrder DEF Naming
  <2> HIDE DEF filtered
  <2>5. ASSUME NEW q, Plain(q)
        PROVE  /\ filtered \o q \in Seq(Reading) /\ InOrder(filtered \o q)
               /\ Mentions(filtered \o q, "agents") /\ Mentions(filtered \o q, "labs")
    BY <2>4, <2>5, PlainIsInOrder DEF Naming
  <2> QED
    BY <1>4, <1>6, <2>1, <2>2, <2>3, <2>5
<1> QED
  BY <1>5, <1>6 DEF OfPlaces

LEMMA ReportsInvInit == ReportsInit => ReportsInv
BY DEF ReportsInit, ReportsInv, NoReport, NoReply, NoView, NewUserPolicy, Nothing, OfPlaces, OfUsers,
       RowsWereTrue

\* The history grows, and then has what the tables have.
LEMMA WithGrows ==
  ASSUME NEW e, NEW b, NEW r, NEW ids, NEW list
  PROVE  LET w == With(e, b, r, ids, list) IN
         /\ DOMAIN w = DOMAIN Nothing /\ w.failed = e.failed
         /\ e.strips \subseteq w.strips /\ e.policies \subseteq w.policies
         /\ e.in \subseteq w.in /\ e.shown \subseteq w.shown
         /\ b \in w.strips /\ \A c \in w.strips : <<c, r>> \in w.policies
         /\ \A h \in Machine : <<h, ids[h]>> \in w.in
         /\ \A x \in w.in : <<x[1], ShownAs(NameIn(list, x[2]))>> \in w.shown
<1> DEFINE strips == e.strips \cup {b}
           in == e.in \cup {<<h, ids[h]>> : h \in Machine}
           policies == e.policies \cup {<<c, r>> : c \in strips}
           shown == e.shown \cup {<<x[1], ShownAs(NameIn(list, x[2]))>> : x \in in}
           w == With(e, b, r, ids, list)
<1>1. /\ w.strips = strips /\ w.policies = policies /\ w.in = in /\ w.shown = shown
      /\ w.failed = e.failed /\ DOMAIN w = {"strips", "policies", "in", "shown", "failed"}
  BY Zenon DEF With
<1>2. b \in strips /\ \A c \in strips : <<c, r>> \in policies
  OBVIOUS
<1>3. \A h \in Machine : <<h, ids[h]>> \in in
  OBVIOUS
<1>4. \A x \in in : <<x[1], ShownAs(NameIn(list, x[2]))>> \in shown
  BY Zenon
<1>5. DOMAIN Nothing = {"strips", "policies", "in", "shown", "failed"}
  BY DEF Nothing
<1>6. e.strips \subseteq strips /\ e.policies \subseteq policies /\ e.in \subseteq in /\ e.shown \subseteq shown
  OBVIOUS
<1> HIDE DEF strips, in, policies, shown, w
<1> QED
  BY <1>1, <1>2, <1>3, <1>4, <1>5, <1>6 DEF w

\* When the history takes in the tables as they are next.
LEMMA NextIsRecorded ==
  ASSUME NEW e, ever' = With(e, stripping', ruleset', machines', labs')
  PROVE  /\ DOMAIN ever' = DOMAIN Nothing /\ ever'.failed = e.failed /\ Recorded'
         /\ e.strips \subseteq ever'.strips /\ e.policies \subseteq ever'.policies
         /\ e.in \subseteq ever'.in /\ e.shown \subseteq ever'.shown
<1> DEFINE w == With(e, stripping', ruleset', machines', labs')
<1>1. /\ DOMAIN w = DOMAIN Nothing /\ w.failed = e.failed
      /\ e.strips \subseteq w.strips /\ e.policies \subseteq w.policies
      /\ e.in \subseteq w.in /\ e.shown \subseteq w.shown
      /\ stripping' \in w.strips /\ \A c \in w.strips : <<c, ruleset'>> \in w.policies
      /\ \A h \in Machine : <<h, machines'[h]>> \in w.in
      /\ \A x \in w.in : <<x[1], ShownAs(NameIn(labs', x[2]))>> \in w.shown
  BY WithGrows
<1>2. ever' = w
  OBVIOUS
<1> HIDE DEF w
<1>3. Recorded'
  BY <1>1, <1>2 DEF Recorded, NameIn, ShownAs
<1> QED
  BY <1>1, <1>2, <1>3

LEMMA BeginKeepsInv ==
  ASSUME ReportsInv, NEW kind \in Kind, NEW lab \in LabName \cup {AllLabs, Unassigned},
         NEW limit \in Limits, Begin(kind, lab, limit)
  PROVE  ReportsInv'
<1>1. /\ report'.kind = kind /\ report'.todo = Reads(kind, lab) /\ report'.view = NoView
      /\ reply' = NoReply /\ UNCHANGED tables
      /\ ever' = With(Nothing, stripping, ruleset, machines, labs)
  BY DEF Begin
<1>2. Recorded' /\ DOMAIN ever' = DOMAIN Nothing
  BY <1>1, NextIsRecorded DEF tables
<1>3. kind \in OfPlaces => ReadsSound'
  BY <1>1, ReadsOfPlaces DEF ReadsSound, Awaits
<1>4. RowsWereTrue'
  BY <1>1 DEF RowsWereTrue
<1>5. /\ NoView.found = {} /\ DOMAIN report' = DOMAIN NoReport
      /\ DOMAIN NoView.policy = DOMAIN NewUserPolicy
  BY DEF NoView, Begin, NoReport
<1> QED
  BY <1>1, <1>2, <1>3, <1>4, <1>5 DEF ReportsInv, tables

LEMMA TakenOnce ==
  ASSUME NEW todo \in Seq(Reading), todo # <<>>, NEW x, NEW y
  PROVE  /\ Tail(todo) \in Seq(Reading)
         /\ x # Head(todo) => (Mentions(todo, x) => Mentions(Tail(todo), x))
         /\ Before(todo, x, y) =>
              /\ Before(Tail(todo), x, y)
              /\ Head(todo) = y /\ x # y => ~Mentions(todo, x)
<1>1. /\ Tail(todo) \in Seq(Reading) /\ Head(todo) = todo[1] /\ Len(todo) \in Nat /\ Len(todo) > 0
      /\ Len(Tail(todo)) = Len(todo) - 1 /\ \A i \in 1..Len(Tail(todo)) : Tail(todo)[i] = todo[i + 1]
  OBVIOUS
<1>2. ASSUME NEW i \in 1..Len(todo), todo[i] = x, x # Head(todo)
      PROVE  i - 1 \in 1..Len(Tail(todo)) /\ Tail(todo)[i - 1] = x
  BY <1>1, <1>2
<1>3. ASSUME Before(todo, x, y), NEW i \in 1..Len(Tail(todo)), NEW j \in 1..Len(Tail(todo)),
             Tail(todo)[i] = x, Tail(todo)[j] = y
      PROVE  i < j
  <2>1. /\ i + 1 \in 1..Len(todo) /\ j + 1 \in 1..Len(todo)
        /\ todo[i + 1] = x /\ todo[j + 1] = y
    BY <1>1, <1>3
  <2>2. i + 1 < j + 1
    BY <1>3, <2>1 DEF Before
  <2> QED
    BY <2>2
<1>4. ASSUME Before(todo, x, y), todo[1] = y, NEW i \in 1..Len(todo), todo[i] = x
      PROVE  FALSE
  <2>1. 1 \in 1..Len(todo)
    BY <1>1
  <2>2. i < 1
    BY <1>4, <2>1 DEF Before
  <2> QED
    BY <2>2
<1> QED
  BY <1>1, <1>2, <1>3, <1>4 DEF Mentions, Before

\* A read takes its step off the list and changes the view.
LEMMA TookOne ==
  ASSUME ReportsInv, report.todo # <<>>, NEW view, Took(view)
  PROVE  /\ report # NoReport /\ reply = NoReply
         /\ DOMAIN report' = DOMAIN NoReport /\ report'.kind = report.kind /\ report'.view = view
         /\ report.kind \in OfPlaces =>
              /\ report'.todo \in Seq(Reading) /\ InOrder(report'.todo)
              /\ Awaits(NextRead)
              /\ \A reading \in Reading \ {NextRead} : Awaits(reading) <=> Awaits(reading)'
              /\ NextRead = "labs" => ~Awaits("agents")
              /\ NextRead = "rules" => ~Awaits("strip")
<1>1. report # NoReport /\ reply = NoReply
  BY DEF ReportsInv, NoReport
<1>2. /\ DOMAIN report' = DOMAIN NoReport /\ report'.kind = report.kind
      /\ report'.view = view /\ report'.todo = Tail(report.todo)
  BY DEF ReportsInv, Took, NoReport
<1>3. ASSUME report.kind \in OfPlaces
      PROVE  /\ report'.todo \in Seq(Reading) /\ InOrder(report'.todo)
             /\ Awaits(NextRead)
             /\ \A reading \in Reading \ {NextRead} : Awaits(reading) <=> Awaits(reading)'
             /\ NextRead = "labs" => ~Awaits("agents")
             /\ NextRead = "rules" => ~Awaits("strip")
  <2>1. report.todo \in Seq(Reading) /\ InOrder(report.todo)
    BY <1>3 DEF ReportsInv, ReadsSound
  <2>2. \A x, y : Before(report.todo, x, y) =>
          /\ Before(Tail(report.todo), x, y) /\ (NextRead = y /\ x # y => ~Mentions(report.todo, x))
    BY <2>1, TakenOnce DEF NextRead
  <2>3. /\ Len(report.todo) \in Nat /\ Len(report.todo) > 0 /\ NextRead = report.todo[1]
        /\ Len(Tail(report.todo)) = Len(report.todo) - 1
        /\ \A i \in 1..Len(Tail(report.todo)) : Tail(report.todo)[i] = report.todo[i + 1]
    BY <2>1 DEF NextRead
  <2>4. Awaits(NextRead) /\ \A reading : Mentions(Tail(report.todo), reading) => Mentions(report.todo, reading)
    BY <2>3 DEF Awaits, Mentions
  <2>5. \A reading \in Reading \ {NextRead} : Awaits(reading) <=> Awaits(reading)'
    BY <1>2, <2>1, <2>4, TakenOnce DEF Awaits, NextRead
  <2> QED
    BY <1>2, <2>1, <2>2, <2>4, <2>5, TakenOnce DEF InOrder, Awaits
<1> QED
  BY <1>1, <1>2, <1>3

LEMMA ReadKeepsInv ==
  ASSUME ReportsInv, Read
  PROVE  ReportsInv'
<1>1. /\ report.todo # <<>>
      /\ UNCHANGED <<machines, labs, stripping, ruleset, programs, samples, reply, ever>>
  BY DEF Read, tables
<1> DEFINE v == report.view
<1>3. ASSUME NEW view, Took(view), DOMAIN view = DOMAIN NoView, view.found \subseteq Sample,
             DOMAIN view.policy = DOMAIN NewUserPolicy,
             \/ view.labIDs = v.labIDs /\ NextRead # "agents"
             \/ view.labIDs = machines /\ NextRead = "agents",
             \/ view.hosts = v.hosts /\ NextRead # "labs"
             \/ view.hosts = Relabelled(v.labIDs) /\ NextRead = "labs",
             \/ view.policy.strip = v.policy.strip /\ NextRead # "strip"
             \/ view.policy.strip = stripping /\ NextRead = "strip",
             \/ view.policy.rules = v.policy.rules /\ NextRead # "rules"
             \/ view.policy.rules = ruleset /\ NextRead = "rules"
      PROVE  ReportsInv'
  <2>1. /\ report # NoReport /\ reply = NoReply /\ Recorded
        /\ DOMAIN report' = DOMAIN NoReport /\ report'.kind = report.kind /\ report'.view = view
    BY <1>1, <1>3, TookOne DEF ReportsInv
  <2>2. Recorded'
    BY <1>1, <2>1 DEF Recorded, NameIn, ShownAs
  <2>3. ASSUME report.kind \in OfPlaces PROVE ReadsSound'
    <3>1. /\ report'.todo \in Seq(Reading) /\ InOrder(report'.todo)
          /\ Awaits(NextRead)
          /\ \A reading \in Reading \ {NextRead} : Awaits(reading) <=> Awaits(reading)'
          /\ NextRead = "labs" => ~Awaits("agents")
          /\ NextRead = "rules" => ~Awaits("strip")
      BY <1>1, <1>3, <2>3, TookOne
    <3>2. ReadsSound
      BY <2>3 DEF ReportsInv
    <3>3. Awaits("agents")' \/ IDsWere'
      <4>1. CASE view.labIDs = v.labIDs /\ NextRead # "agents"
        BY <1>1, <2>1, <3>1, <3>2, <4>1 DEF ReadsSound, IDsWere, Reading
      <4>2. CASE view.labIDs = machines
        BY <1>1, <2>1, <4>2 DEF IDsWere, Recorded
      <4> QED
        BY <1>3, <4>1, <4>2
    <3>4. Awaits("labs")' \/ PlacesWere'
      <4>1. CASE view.hosts = v.hosts /\ NextRead # "labs"
        BY <1>1, <2>1, <3>1, <3>2, <4>1 DEF ReadsSound, PlacesWere, WasShownIn, LabOf, ShownAs, Reading
      <4>2. CASE view.hosts = Relabelled(v.labIDs) /\ NextRead = "labs"
        <5>1. IDsWere
          BY <3>1, <3>2, <4>2 DEF ReadsSound
        <5>2. \A h \in Machine : <<h, ShownAs(NameIn(labs, v.labIDs[h]))>> \in ever.shown
          BY <2>1, <5>1 DEF IDsWere, Recorded
        <5>3. \A h \in Machine : view.hosts[h] = NameIn(labs, v.labIDs[h])
          BY <4>2 DEF Relabelled
        <5>4. \A h \in Machine : <<h, ShownAs(view.hosts[h])>> \in ever.shown
          BY <5>2, <5>3
        <5> QED
          BY <1>1, <2>1, <5>4 DEF PlacesWere, WasShownIn, LabOf, ShownAs
      <4> QED
        BY <1>3, <4>1, <4>2
    <3>5. ASSUME report.kind \in OfUsers
          PROVE  /\ Awaits("strip")' => Awaits("rules")'
                 /\ ever'.failed \/ Awaits("strip")' \/ StripWas'
                 /\ ever'.failed \/ Awaits("rules")' \/ RulesWere'
      <4>1. /\ Awaits("strip") => Awaits("rules")
            /\ ever.failed \/ Awaits("strip") \/ StripWas
            /\ ever.failed \/ Awaits("rules") \/ RulesWere
        BY <3>2, <3>5 DEF ReadsSound
      <4>2. CASE NextRead = "strip"
        BY <1>1, <1>3, <2>1, <3>1, <4>1, <4>2 DEF Recorded, StripWas, Reading
      <4>3. CASE NextRead = "rules"
        <5>1. view.policy.strip = v.policy.strip /\ view.policy.rules = ruleset
          BY <1>3, <4>3
        <5>2. Awaits("strip")' <=> Awaits("strip")
          BY <3>1, <4>3 DEF Reading
        <5>3. ever.failed \/ StripWas
          BY <3>1, <4>1, <4>3
        <5>4. StripWas => StripWas' /\ RulesWere'
          BY <1>1, <2>1, <5>1 DEF StripWas, RulesWere, Recorded
        <5> QED
          BY <1>1, <3>1, <4>3, <5>2, <5>3, <5>4
      <4>4. CASE NextRead \notin {"strip", "rules"}
        <5>1. view.policy.strip = v.policy.strip /\ view.policy.rules = v.policy.rules
          BY <1>3, <4>4
        <5>2. (Awaits("strip")' <=> Awaits("strip")) /\ (Awaits("rules")' <=> Awaits("rules"))
          BY <3>1, <4>4 DEF Reading
        <5>3. (StripWas => StripWas') /\ (RulesWere => RulesWere')
          BY <1>1, <2>1, <5>1 DEF StripWas, RulesWere
        <5> QED
          BY <1>1, <4>1, <5>2, <5>3
      <4> QED
        BY <4>2, <4>3, <4>4
    <3> QED
      BY <2>1, <3>1, <3>3, <3>4, <3>5 DEF ReadsSound
  <2>4. RowsWereTrue'
    BY <1>1, <2>1 DEF RowsWereTrue
  <2> QED
    BY <1>1, <1>3, <2>1, <2>2, <2>3, <2>4 DEF ReportsInv
<1>4. /\ v.found \subseteq Sample /\ samples \subseteq Sample /\ DOMAIN v = DOMAIN NoView
      /\ DOMAIN v.policy = DOMAIN NewUserPolicy
  BY DEF ReportsInv
<1>5. CASE NextRead = "agents" /\ Took([v EXCEPT !.labIDs = machines])
  BY <1>3, <1>4, <1>5 DEF NoView
<1>6. CASE NextRead = "labs" /\ Took([v EXCEPT !.hosts = Relabelled(v.labIDs)])
  BY <1>3, <1>4, <1>6 DEF NoView
<1>7. CASE NextRead = "strip" /\ Took([v EXCEPT !.policy.strip = stripping])
  BY <1>3, <1>4, <1>7 DEF NoView, NewUserPolicy
<1>8. CASE NextRead = "rules" /\ Took([v EXCEPT !.policy.rules = ruleset])
  BY <1>3, <1>4, <1>8 DEF NoView, NewUserPolicy
<1>9. CASE NextRead = "filterStrip" /\ Took([v EXCEPT !.filter.strip = stripping])
  BY <1>3, <1>4, <1>9 DEF NoView
<1>10. CASE NextRead = "filterRules" /\ Took([v EXCEPT !.filter.rules = ruleset])
  BY <1>3, <1>4, <1>10 DEF NoView
<1>11. CASE NextRead = "mappings" /\ Took([v EXCEPT !.programs = programs])
  BY <1>3, <1>4, <1>11 DEF NoView
<1>12. CASE NextRead = "listed" /\ Took([v EXCEPT !.listed = programs])
  BY <1>3, <1>4, <1>12 DEF NoView
<1>13. CASE NextRead = "query" /\ Took([v EXCEPT !.found = samples])
  BY <1>3, <1>4, <1>13 DEF NoView
<1>14. CASE NextRead = "logins" /\ Took([v EXCEPT !.logins = samples])
  BY <1>3, <1>4, <1>14 DEF NoView
<1> QED
  BY <1>5, <1>6, <1>7, <1>8, <1>9, <1>10, <1>11, <1>12, <1>13, <1>14 DEF Read

LEMMA FailedReadKeepsInv ==
  ASSUME ReportsInv, ReadFails
  PROVE  ReportsInv'
<1>1. /\ report.todo # <<>>
      /\ UNCHANGED <<machines, labs, stripping, ruleset, programs, samples, reply>>
  BY DEF ReadFails, tables
<1>2. reply = NoReply
  BY <1>1 DEF ReportsInv, NoReport
<1>3. RowsWereTrue'
  BY <1>1, <1>2 DEF RowsWereTrue
<1>4. CASE report' = NoReport /\ ever' = Nothing
  BY <1>1, <1>3, <1>4 DEF ReportsInv, NoReport, NoView, OfPlaces, OfUsers
<1>5. CASE /\ NextRead \notin {"agents", "labs"} /\ Took(report.view)
           /\ ever' = [ever EXCEPT !.failed = TRUE]
  <2>1. /\ report # NoReport /\ DOMAIN report' = DOMAIN NoReport /\ Recorded
        /\ report'.kind = report.kind /\ report'.view = report.view
    BY <1>1, <1>5, TookOne DEF ReportsInv
  <2>2. /\ ever'.failed /\ ever'.strips = ever.strips /\ ever'.policies = ever.policies
        /\ ever'.in = ever.in /\ ever'.shown = ever.shown /\ DOMAIN ever' = DOMAIN Nothing
    BY <1>5 DEF ReportsInv, Nothing
  <2>3. Recorded'
    BY <1>1, <2>1, <2>2 DEF Recorded, NameIn, ShownAs
  <2>4. ASSUME report.kind \in OfPlaces PROVE ReadsSound'
    <3>1. /\ report'.todo \in Seq(Reading) /\ InOrder(report'.todo)
          /\ \A reading \in Reading \ {NextRead} : Awaits(reading) <=> Awaits(reading)'
          /\ NextRead = "rules" => ~Awaits("strip")
      BY <1>1, <1>5, <2>4, TookOne
    <3>2. ReadsSound
      BY <2>4 DEF ReportsInv
    <3>3. (IDsWere => IDsWere') /\ (PlacesWere => PlacesWere')
      BY <2>1, <2>2 DEF IDsWere, PlacesWere, WasShownIn, LabOf, ShownAs
    <3>4. (Awaits("agents")' \/ IDsWere') /\ (Awaits("labs")' \/ PlacesWere')
      BY <1>5, <3>1, <3>2, <3>3 DEF ReadsSound, Reading
    <3>5. report.kind \in OfUsers => (Awaits("strip")' => Awaits("rules")')
      <4>1. CASE NextRead = "rules"
        BY <3>1, <4>1 DEF Reading
      <4>2. CASE NextRead = "strip"
        BY <1>1, <1>5, <2>4, <3>1, <3>2, <4>2, TookOne DEF ReadsSound, Reading
      <4>3. CASE NextRead \notin {"strip", "rules"}
        BY <3>1, <3>2, <4>3 DEF ReadsSound, Reading
      <4> QED
        BY <4>1, <4>2, <4>3
    <3> QED
      BY <2>1, <2>2, <3>1, <3>4, <3>5 DEF ReadsSound
  <2> QED
    BY <1>1, <1>3, <2>1, <2>2, <2>3, <2>4 DEF ReportsInv
<1> QED
  BY <1>4, <1>5 DEF ReadFails

LEMMA SendKeepsInv ==
  ASSUME ReportsInv, SendRows
  PROVE  ReportsInv'
<1> DEFINE v == report.view
<1>1. /\ report # NoReport /\ report.todo = <<>> /\ report' = NoReport
      /\ UNCHANGED <<machines, labs, stripping, ruleset, programs, samples, ever>>
  BY DEF SendRows, tables
<1>2. PICK keys \in Best(Rows(report.kind, v, report.lab), report.kind, report.limit) :
        reply' = [kind |-> report.kind, lab |-> report.lab, keys |-> keys]
  BY DEF SendRows
<1>3. keys \subseteq DOMAIN Rows(report.kind, v, report.lab)
  BY <1>2 DEF Best
<1>4. /\ \A reading : ~Awaits(reading)
      /\ v.found \subseteq Sample /\ \A s \in Sample : s.host \in Machine /\ s.user \in RawUser
  BY <1>1, ReportsAssumption DEF Awaits, Mentions, ReportsInv
<1>5. ASSUME report.kind \in OfPlaces, NEW h \in Machine
      PROVE  WasShownIn(h, LabOf(v, h)) /\ (HostnameMatchesLab(v, h, report.lab) =>
                                               report.lab = AllLabs \/ WasShownIn(h, report.lab))
  BY <1>4, <1>5 DEF ReportsInv, ReadsSound, PlacesWere, HostnameMatchesLab
<1>6. ASSUME ~ever.failed, NEW k \in keys, report.kind \in OfUsers
      PROVE  \E s \in Sample, q \in ever.policies :
               StandsFor[q][s.user] = k /\ (report.lab = AllLabs \/ WasShownIn(s.host, report.lab))
  <2>1. PICK s \in v.found : Behind(v, s, k, report.lab)
    <3>1. k \in DOMAIN Rows(report.kind, v, report.lab)
      BY <1>3
    <3> QED
      BY <1>6, <3>1, ReportsOfUsers
  <2>2. s \in Sample /\ s.host \in Machine /\ s.user \in RawUser
    BY <1>4
  <2> DEFINE q == <<v.policy.strip, v.policy.rules>>
  <2>3. q \in ever.policies
    BY <1>4, <1>6 DEF ReportsInv, ReadsSound, RulesWere, OfPlaces
  <2>4. StandsFor[q][s.user] = k
    BY <2>1 DEF Behind, Whom
  <2> HIDE DEF q
  <2> QED
    BY <1>5, <1>6, <2>1, <2>2, <2>3, <2>4 DEF Behind, OfPlaces
<1>7. ASSUME NEW k \in keys, report.kind = "devicesBySessions"
      PROVE  report.lab = AllLabs \/ WasShownIn(k, report.lab)
  <2>1. PICK s \in v.found : s.host = k /\ HostnameMatchesLab(v, k, report.lab)
    BY <1>3, <1>7, DeviceRows
  <2> QED
    BY <1>4, <1>5, <1>7, <2>1 DEF OfPlaces
<1>8. ASSUME NEW k \in keys, report.kind = "usageByLab"
      PROVE  \E s \in Sample : s.app = k[2] /\ WasShownIn(s.host, k[1])
  <2>1. PICK s \in v.found : k = <<LabOf(v, s.host), s.app>>
    <3>1. k \in DOMAIN Rows("usageByLab", v, report.lab)
      BY <1>3, <1>8
    <3> QED
      BY <3>1, UsageRows, Zenon
  <2> QED
    BY <1>4, <1>5, <1>8, <2>1 DEF OfPlaces
<1>9. RowsWereTrue'
  BY <1>1, <1>2, <1>6, <1>7, <1>8 DEF RowsWereTrue, WasShownIn
<1> QED
  BY <1>1, <1>9 DEF ReportsInv, NoReport, NoView, OfPlaces, OfUsers

\* What the tables held stays in the record of what was true.
LEMMA ChangesKeepInv ==
  ASSUME ReportsInv, Changes, samples' \subseteq samples
  PROVE  ReportsInv'
<1>1. /\ report' = report /\ reply' = NoReply
      /\ ever' = IF report = NoReport THEN Nothing
                 ELSE With(ever, stripping', ruleset', machines', labs')
  BY DEF Changes
<1>2. RowsWereTrue'
  BY <1>1 DEF RowsWereTrue
<1>3. CASE report = NoReport
  BY <1>1, <1>2, <1>3 DEF ReportsInv, NoReport, NoView, OfPlaces, OfUsers
<1>4. CASE report # NoReport
  <2>1. /\ DOMAIN ever' = DOMAIN Nothing /\ ever'.failed = ever.failed /\ Recorded'
        /\ ever.strips \subseteq ever'.strips /\ ever.policies \subseteq ever'.policies
        /\ ever.in \subseteq ever'.in /\ ever.shown \subseteq ever'.shown
    BY <1>1, <1>4, NextIsRecorded
  <2>2. /\ StripWas => StripWas'
        /\ RulesWere => RulesWere'
        /\ IDsWere => IDsWere'
    BY <1>1, <2>1 DEF StripWas, RulesWere, IDsWere
  <2>3. PlacesWere => PlacesWere'
    BY <1>1, <2>1 DEF PlacesWere, WasShownIn, LabOf, ShownAs
  <2>4. \A reading : Awaits(reading)' = Awaits(reading)
    BY <1>1 DEF Awaits
  <2>5. ReadsSound => ReadsSound'
    BY <1>1, <2>1, <2>2, <2>3, <2>4 DEF ReadsSound
  <2> QED
    BY <1>1, <1>2, <1>4, <2>1, <2>5 DEF ReportsInv
<1> QED
  BY <1>3, <1>4

LEMMA ReportsInvStep == ReportsInv /\ [ReportsNext]_reportVars => ReportsInv'
<1>1. ASSUME ReportsInv, UNCHANGED reportVars PROVE ReportsInv'
  BY <1>1 DEF reportVars, tables, ReportsInv, ReadsSound, Recorded, Awaits, IDsWere, PlacesWere,
              StripWas, RulesWere, LabOf, NameIn, ShownAs, WasShownIn, RowsWereTrue
<1>2. ASSUME ReportsInv, Changes, samples' \subseteq samples PROVE ReportsInv'
  BY <1>2, ChangesKeepInv
<1>3. ASSUME NEW h, NEW l, ChangeMachine(h, l) PROVE Changes /\ samples' \subseteq samples
  BY <1>3 DEF ChangeMachine
<1>4. ASSUME NEW l, DropLab(l) PROVE Changes /\ samples' \subseteq samples
  BY <1>4 DEF DropLab
<1>5. ASSUME NEW l, NEW name, NameLab(l, name) PROVE Changes /\ samples' \subseteq samples
  BY <1>5 DEF NameLab
<1>6. ChangeStripping => Changes /\ samples' \subseteq samples
  BY DEF ChangeStripping
<1>7. ASSUME NEW r, ChangeRules(r) PROVE Changes /\ samples' \subseteq samples
  BY <1>7 DEF ChangeRules
<1>8. ASSUME NEW a, NEW status, ChangeMapping(a, status) PROVE Changes /\ samples' \subseteq samples
  BY <1>8 DEF ChangeMapping
<1>9. ASSUME NEW s, MoveRange(s) PROVE Changes /\ samples' \subseteq samples
  BY <1>9 DEF MoveRange
<1>10. ASSUME ReportsInv, ReportsNext PROVE ReportsInv'
  BY <1>10, BeginKeepsInv, ReadKeepsInv, SendKeepsInv, FailedReadKeepsInv,
     <1>2, <1>3, <1>4, <1>5, <1>6, <1>7, <1>8, <1>9
     DEF ReportsNext
<1> QED
  BY <1>1, <1>10

\* Wherever a machine is looked up, its lab is the same one.
LEMMA SameMachines ==
  ASSUME NEW lab \in LabName \cup {Unassigned},
         lab = Unassigned => \A h \in Machine : Current.hosts[h] \notin {Absent, Nameless},
         NEW h \in Machine
  PROVE  LabOf(Current, h) = lab <=> h \in LabHostnames(Current, lab)
<1>1. lab \notin {Absent, Nameless}
  BY ReportsAssumption DEF Unassigned, Absent, Nameless
<1> QED
  BY <1>1 DEF LabOf, ShownAs, LabHostnames

LEMMA LabsFoundEitherWay ==
  ASSUME samples \subseteq Sample
  PROVE  LabReportsAgree
<1> SUFFICES ASSUME NEW lab \in LabName \cup {Unassigned}, NEW a \in Program,
                    lab = Unassigned => \A h \in Machine : Current.hosts[h] \notin {Absent, Nameless}
             PROVE  AmountOf(ReportUsageByLab(Current, AllLabs), <<lab, a>>) =
                      AmountOf(ReportTopAppsByForegroundTime(Current, lab), a)
  BY DEF LabReportsAgree
<1> DEFINE S == {s \in Unignored(Current, Current.found) :
                   HostnameMatchesLab(Current, s.host, AllLabs) /\ s.app \in AllowedAppSet(Current)}
           T == {s \in OfLab(Current, lab) : s.app \in AllowedAppSet(Current)}
           S1 == {s \in S : s.amount["foreground"] > 0}
           T1 == {s \in T : s.amount["foreground"] > 0}
           SK == {s \in S1 : <<LabOf(Current, s.host), s.app>> = <<lab, a>>}
           TK == {s \in T1 : s.app = a}
           f == ReportUsageByLab(Current, AllLabs)
           g == ReportTopAppsByForegroundTime(Current, lab)
<1>1. lab # AllLabs /\ Current.found \subseteq Sample /\ \A s \in Sample : s.host \in Machine
  BY ReportsAssumption DEF Current, AllLabs, Unassigned
<1>2. SK = TK
  <2>1. \A h \in Machine : LabOf(Current, h) = lab <=> h \in LabHostnames(Current, lab)
    BY SameMachines
  <2> QED
    BY <1>1, <2>1 DEF OfLab, HostnameMatchesLab, Unignored
<1>3. f = [k \in {<<LabOf(Current, s.host), s.app>> : s \in S1} |->
             MapThenSumSet(LAMBDA s : s.amount["foreground"],
                           {s \in S1 : <<LabOf(Current, s.host), s.app>> = k})]
  BY Zenon DEF ReportUsageByLab, TotalsBy
<1>4. g = [k \in {s.app : s \in T1} |->
             MapThenSumSet(LAMBDA s : s.amount["foreground"], {s \in T1 : s.app = k})]
  BY Zenon DEF ReportTopAppsByForegroundTime, AppTotals, TotalsBy
<1>5. (<<lab, a>> \in {<<LabOf(Current, s.host), s.app>> : s \in S1}) <=> SK # {}
  OBVIOUS
<1>6. (a \in {s.app : s \in T1}) <=> TK # {}
  OBVIOUS
<1>7. CASE SK # {}
  <2>1. f[<<lab, a>>] = MapThenSumSet(LAMBDA s : s.amount["foreground"], SK) /\ <<lab, a>> \in DOMAIN f
    BY <1>3, <1>5, <1>7, Zenon
  <2>2. g[a] = MapThenSumSet(LAMBDA s : s.amount["foreground"], TK) /\ a \in DOMAIN g
    BY <1>2, <1>4, <1>6, <1>7, Zenon
  <2>3. f[<<lab, a>>] = g[a]
    BY <1>2, <2>1, <2>2, Zenon
  <2> QED
    BY <2>1, <2>2, <2>3, Zenon DEF AmountOf
<1>8. CASE SK = {}
  <2>1. <<lab, a>> \notin DOMAIN f
    BY <1>3, <1>5, <1>8, Zenon
  <2>2. a \notin DOMAIN g
    BY <1>2, <1>4, <1>6, <1>8, Zenon
  <2> QED
    BY <2>1, <2>2, Zenon DEF AmountOf
<1> QED
  BY <1>7, <1>8

-----------------------------------------------------------------------------
(* The parts together.                                                     *)

PartsInv ==
  SettingsInv /\ InstallersInv /\ ProxyInv /\ MappingsInv /\ IdentityInv /\ ReportsInv

\* A step is a step or a stutter of every part.
LEMMA StepOfEach ==
  [PartsNext]_partVars => /\ [SettingsNext]_allSettingsVars /\ [InstallersNext]_installerVars
                          /\ [ProxyNext]_proxyVars /\ [MappingsNext]_mappingsVars
                          /\ [IdentityNext]_identityVars /\ [ReportsNext]_reportVars
BY DEF PartsNext, Proxying, Setting, Mapping, Identifying, Reporting, Installing, partVars

\* What requests have read and not yet used agrees with the tables, the
\* directory and the cache they read, or is known to be out of date
\* (settings.go, installers.go, router.go, mappings.go, users.go, reports.go).
THEOREM PartsInvariant == PartsSpec => []PartsInv
<1>1. PartsInit => PartsInv
  BY SettingsInvInit, InstallersInvInit, ProxyInvInit, MappingsInvInit, IdentityInvInit, ReportsInvInit
     DEF PartsInit, PartsInv
<1>2. PartsInv /\ [PartsNext]_partVars => PartsInv'
  BY StepOfEach, SettingsInvStep, InstallersInvStep, ProxyInvStep, MappingsInvStep, IdentityInvStep,
     ReportsInvStep
     DEF PartsInv
<1> QED
  BY <1>1, <1>2, PTL DEF PartsSpec, PartsSafety

\* A checksum is of the file it is offered with, however downloads, copies and
\* heartbeats that hash the file interleave (installerChecksumForURL).
THEOREM ChecksumsAreCurrent == PartsSpec => []ChecksumsCurrent
<1>1. PartsInv => ChecksumsCurrent
  BY DEF PartsInv, InstallersInv, ChecksumsCurrent, Present
<1> QED
  BY <1>1, PartsInvariant, PTL

\* No part of an asset is ever put up, and what is offered to a platform never
\* gets older (syncOnce, findLatestInstaller).
THEOREM OffersNeverGoBack == PartsSpec => OffersWholeAndNewest
<1>1. PartsInv /\ PartsInv' /\ [PartsNext]_partVars =>
        [/\ \A f \in File : directory'[f].body # "part of asset"
         /\ \A ext \in {"msi", "pkg"} :
              Latest(directory, ext) # NoFile =>
                Latest(directory', ext).version >= Latest(directory, ext).version]_installerVars
  BY StepOfEach, NewestStep DEF PartsInv
<1> QED
  BY <1>1, PartsInvariant, PTL DEF PartsSpec, PartsSafety, OffersWholeAndNewest

\* Two rows of one executable come only from a writer whose look at the table
\* failed or was overtaken (checkMappingCaseCollision, BatchAutoInsertMappings).
THEOREM RowsStayUnique == PartsSpec => []OneRowPerExe
<1>1. PartsInv => OneRowPerExe
  <2> SUFFICES ASSUME PartsInv, NEW x \in Exe \ raced
               PROVE  Cardinality(Mapped(rows, x)) <= 1
    BY DEF OneRowPerExe
  <2>1. AtMostOne(Mapped(rows, x))
    BY DEF PartsInv, MappingsInv, OneEach
  <2>2. CASE Mapped(rows, x) = {}
    <3>1. Cardinality(Mapped(rows, x)) = 0
      BY <2>2, FS_EmptySet, Zenon
    <3> QED
      BY <3>1
  <2>3. ASSUME NEW n \in Mapped(rows, x)
        PROVE  Cardinality(Mapped(rows, x)) <= 1
    <3>1. Mapped(rows, x) = {n}
      BY <2>1 DEF AtMostOne
    <3>2. Cardinality(Mapped(rows, x)) = 1
      BY <3>1, FS_Singleton, Zenon
    <3> QED
      BY <3>2
  <2> QED
    BY <2>2, <2>3
<1> QED
  BY <1>1, PartsInvariant, PTL

\* Updates of the settings are applied as a whole or not at all, and one that
\* does not name the idle threshold keeps a value that was current while it ran
\* (UpdateSettings of settings.go and postgres.go).
THEOREM UpdatesImplementAtomic ==
  PartsSpec => Atomic!AInit /\ [][Atomic!ANext]_(Atomic!settingsVars)
<1>1. PartsInit => Atomic!AInit
  BY DEF PartsInit, SettingsInit, Atomic!AInit
<1>2. PartsInv /\ [PartsNext]_partVars => [Atomic!ANext]_(Atomic!settingsVars)
  BY StepOfEach, SettingsStepIsAtomic DEF PartsInv
<1> QED
  BY <1>1, <1>2, PartsInvariant, PTL DEF PartsSpec, PartsSafety

\* Callers are given no result older than the time to live and the deadline
\* together, and none that is a failure kept from before (cachingTransport.RoundTrip).
THEOREM ProxyImplementsService ==
  PartsSpec => Service!QInit /\ [][Service!QNext]_<<asking, answer>>
<1>1. PartsInit => Service!QInit
  BY DEF PartsInit, ProxyInit, Service!QInit, None, Service!None
<1>2. PartsInv /\ [PartsNext]_partVars => [Service!QNext]_<<asking, answer>>
  BY StepOfEach, ProxyStepServes DEF PartsInv
<1> QED
  BY <1>1, <1>2, PartsInvariant, PTL DEF PartsSpec, PartsSafety

\* Whatever changes between the reads of the tables, every person in a row is
\* whom an account counted stood for under rules there were meanwhile and an
\* option that was set by then, and every machine counted for a lab was in one
\* that had this name at that time or later (userPolicy, buildHostnameLabMap).
THEOREM RowsAreTrue == PartsSpec => []RowsWereTrue
<1>1. PartsInv => RowsWereTrue
  BY DEF PartsInv, ReportsInv
<1> QED
  BY <1>1, PartsInvariant, PTL

\* Reports that put the machines of a lab into the query and reports that look
\* every sample's machine up count the same samples for a lab (labHostnames,
\* hostnameMatchesLab).
THEOREM LabReportsAlwaysAgree == PartsSpec => []LabReportsAgree
<1>1. PartsInv => LabReportsAgree
  BY LabsFoundEitherWay DEF PartsInv, ReportsInv
<1> QED
  BY <1>1, PartsInvariant, PTL

\* For the Matchable names, whatever rules an agent held when it recorded them,
\* the regular expression leaves out what Resolve ignores (IgnoreMatcher,
\* globToRegex, matchesEither, plausibleUsername).
THEOREM MatcherAlwaysAgrees == PartsSpec => []MatcherAgrees
<1>1. PartsInv => MatcherAgrees
  BY MatcherAgreesWithResolve DEF PartsInv
<1> QED
  BY <1>1, PartsInvariant, PTL

\* Whoever reports count is on the users page and not shown as ignored
\* (ListDiscoveredUsers).
THEOREM CountedUsersAlwaysShown == PartsSpec => []CountedUsersShown
<1>1. CountedUsersShown
  BY CountedAreShown
<1> QED
  BY <1>1, PTL
===============================================================================
