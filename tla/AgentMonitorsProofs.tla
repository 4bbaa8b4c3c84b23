-------------------------- MODULE AgentMonitorsProofs -------------------------
(***************************************************************************)
(* For any pids, accounts, seats, cutoffs and bounds: a root process is    *)
(* counted as an elevation no more often than it may be, the watcher's     *)
(* list and the tracker's sessions agree, and a seat is credited only with *)
(* the time its user was there.  None is inductive: what a process may     *)
(* still be counted, which process an entry of the last list is, and the   *)
(* age of a sample are bounded with them.                                  *)
(***************************************************************************)
EXTENDS AgentMonitors, TLAPS

-----------------------------------------------------------------------------
(* The watcher on macOS.                                                   *)

MacProcess == [owner : Account \cup {Root}, start : 0 .. MaxSeconds, kind : AppKind,
               parent : MacPid \cup {Launchd}]
Listed == [owner : Account \cup {Root}, start : 0 .. MaxSeconds + 1]

MacTypeOK ==
  /\ life \in [MacPid -> MacProcess \cup {NoProcess}]
  /\ second \in 0 .. MaxSeconds
  /\ watch \in {"scanning", "seeding", "polling"}
  /\ prevPIDs \in [MacPid -> Listed] /\ sessions \in [MacPid -> Listed]
  /\ elevatedSeen \in [MacPid -> 0 .. MaxSeconds + 1]
  /\ elevations \in [MacPid -> Nat] /\ due \in [MacPid -> Nat]
  /\ unsure \in SUBSET MacPid /\ unscanned \in SUBSET MacPid

\* A root process that was not looked at may still be counted, and nothing is
\* counted before the first poll.
MayCount ==
  \A p \in MacPid :
    /\ elevations[p] <= due[p]
    /\ watch # "polling" => elevations[p] = 0 /\ elevatedSeen[p] = NotSeen
    /\ p \in Running /\ life[p].owner = Root /\ elevatedSeen[p] # life[p].start
         => elevations[p] < due[p]

\* What the scan or the last list says of a process is of that process.
ListsSound ==
  \A p \in Running \ unsure :
    /\ watch = "seeding" /\ ~IsExcluded(p) /\ p \notin unscanned => sessions[p] = Entry(p)
    /\ watch = "polling" /\ prevPIDs[p].start = life[p].start =>
         prevPIDs[p] = Entry(p) /\ (p \notin unscanned => sessions[p] = Entry(p))

MacInv == MacTypeOK /\ MayCount /\ ListsSound

LEMMA MacInvInit == MacInit => MacInv
<1> SUFFICES ASSUME MacInit PROVE MacInv
  OBVIOUS
<1>1. Running = {} /\ NotListed \in Listed
  BY MacAssumption DEF MacInit, Running, NotListed, Listed
<1> QED
  BY <1>1, MacAssumption DEF MacInit, MacInv, MacTypeOK, MayCount, ListsSound, NotSeen

\* The list of applications: entries of running processes.
LEMMA SnapshotTypes ==
  ASSUME MacTypeOK, NEW L \in SUBSET Running
  PROVE  /\ SnapshotOf(L) \in [MacPid -> Listed]
         /\ RootStarts(L) \in [MacPid -> 0 .. MaxSeconds + 1]
         /\ \A p \in MacPid :
              /\ SnapshotOf(L)[p] = IF p \in L /\ ~IsExcluded(p) THEN Entry(p) ELSE NotListed
              /\ p \in L /\ life[p].owner = Root => RootStarts(L)[p] = life[p].start
         /\ \A p \in Running : life[p].start # NotListed.start /\ Entry(p) # NotListed
<1>1. \A p \in Running : p \in MacPid /\ life[p] \in MacProcess
  BY DEF MacTypeOK, Running
<1>2. \A p \in Running : Entry(p) \in Listed /\ life[p].start \in 0 .. MaxSeconds
  BY <1>1, MacAssumption DEF MacProcess, Listed, Entry
<1>3. NotListed \in Listed /\ NotListed.start = MaxSeconds + 1
  BY MacAssumption DEF NotListed, Listed
<1>4. \A p \in Running : Entry(p) # NotListed
  BY <1>2, <1>3, MacAssumption DEF Entry
<1> QED
  BY <1>1, <1>2, <1>3, <1>4, MacAssumption DEF SnapshotOf, RootStarts, NotSeen

LEMMA MacInvStep == MacInv /\ [MacNext]_macVars => MacInv'
<1> SUFFICES ASSUME MacInv, MacNext PROVE MacInv'
  BY DEF MacInv, MacTypeOK, MayCount, ListsSound, Running, IsExcluded, Entry, macVars
<1>0. MacTypeOK /\ MayCount /\ ListsSound
  BY DEF MacInv
<1> USE <1>0, MacAssumption
<1>1. ASSUME NEW p \in MacPid, NEW owner \in Account \cup {Root}, NEW kind \in AppKind,
             NEW parent \in MacPid \cup {Launchd}, Launch(p, owner, kind, parent)
      PROVE  MacInv'
  <2> DEFINE new == [owner |-> owner, start |-> second, kind |-> kind, parent |-> parent]
  <2>1. new \in MacProcess /\ new # NoProcess
    BY DEF MacTypeOK, MacProcess, AppKind, NoProcess
  <2>2. /\ life' = [life EXCEPT ![p] = new] /\ life'[p] = new
        /\ \A q \in MacPid \ {p} : life'[q] = life[q]
    BY <1>1 DEF Launch, MacTypeOK
  <2>3. MacTypeOK'
    BY <1>1, <2>1, <2>2 DEF Launch, MacTypeOK
  <2>4. MayCount'
    BY <1>1, <2>2 DEF Launch, MayCount, Running, MacTypeOK
  <2>5. ListsSound'
    <3>1. \A q \in MacPid \ {p} : q \in Running' \ unsure' =>
            q \in Running \ unsure /\ (Entry(q))' = Entry(q) /\ (IsExcluded(q))' = IsExcluded(q)
      BY <1>1, <2>2 DEF Launch, Running, Entry, IsExcluded
    <3>2. /\ p \notin unsure' => prevPIDs[p].start # second
          /\ watch = "seeding" => p \in unscanned'
          /\ \A q \in MacPid \ {p} : q \in unscanned' <=> q \in unscanned
      BY <1>1 DEF Launch
    <3>3. UNCHANGED <<watch, prevPIDs, sessions>>
      BY <1>1 DEF Launch
    <3> QED
      BY <2>2, <3>1, <3>2, <3>3 DEF ListsSound, Running
  <2> QED
    BY <2>3, <2>4, <2>5 DEF MacInv
<1>2. ASSUME NEW p \in MacPid, Quit(p) PROVE MacInv'
  <2>1. ASSUME NEW q \in MacPid
        PROVE  /\ life'[q] \in MacProcess \cup {NoProcess}
               /\ q \in Running' => q \in Running /\ life'[q].owner = life[q].owner
                                    /\ life'[q].start = life[q].start /\ life'[q].kind = life[q].kind
    <3>1. CASE q = p \/ life[q] = NoProcess
      BY <1>2, <3>1 DEF Quit, Running, NoProcess
    <3>2. CASE q # p /\ life[q] \in MacProcess
      <4>1. life'[q] \in {life[q], [life[q] EXCEPT !.parent = Launchd]}
        BY <1>2, <3>2 DEF Quit
      <4>2. life'[q] \in MacProcess /\ life'[q].owner = life[q].owner
            /\ life'[q].start = life[q].start /\ life'[q].kind = life[q].kind
        BY <3>2, <4>1 DEF MacProcess
      <4>3. life[q].kind # "none"
        BY <3>2 DEF MacProcess, AppKind
      <4> QED
        BY <4>2, <4>3 DEF Running, NoProcess
    <3> QED
      BY <3>1, <3>2 DEF MacTypeOK
  <2>2. life' \in [MacPid -> MacProcess \cup {NoProcess}]
    BY <1>2, <2>1 DEF Quit
  <2>3. /\ UNCHANGED <<second, watch, prevPIDs, elevatedSeen, sessions, elevations, due, unsure,
                       unscanned>>
        /\ Running' \subseteq MacPid
    BY <1>2 DEF Quit, Running
  <2>4. MayCount'
    BY <2>1, <2>3 DEF MayCount
  <2>5. ListsSound'
    BY <2>1, <2>3 DEF ListsSound, Entry, IsExcluded
  <2> QED
    BY <2>2, <2>3, <2>4, <2>5 DEF MacInv, MacTypeOK
<1>3. CASE NextSecond
  BY <1>3 DEF NextSecond, MacInv, MacTypeOK, MayCount, ListsSound, Running, IsExcluded, Entry
<1>4. ASSUME NEW L \in SUBSET MacPid, ScanMac(L) PROVE MacInv'
  <2>1. sessions' = SnapshotOf(L) /\ L \in SUBSET Running /\ unscanned' = Running \ L
    BY <1>4 DEF ScanMac, Listing
  <2>2. UNCHANGED <<life, second, prevPIDs, elevatedSeen, elevations, due, unsure>>
        /\ watch = "scanning" /\ watch' = "seeding"
    BY <1>4 DEF ScanMac
  <2>3. Running' = Running /\ Running \subseteq MacPid
        /\ \A p \in MacPid : (Entry(p))' = Entry(p) /\ (IsExcluded(p))' = IsExcluded(p)
    BY <2>2 DEF Running, Entry, IsExcluded
  <2> QED
    BY <2>1, <2>2, <2>3, SnapshotTypes DEF MacInv, MacTypeOK, MayCount, ListsSound
<1>5. ASSUME NEW L \in SUBSET MacPid, SeedPrevPIDs(L) PROVE MacInv'
  <2>1. /\ UNCHANGED <<life, second, sessions, elevations, unsure>>
        /\ watch = "seeding" /\ watch' = "polling" /\ L \in SUBSET Running
        /\ prevPIDs' = SnapshotOf(L) /\ elevatedSeen' = RootStarts(L)
        /\ due' = [p \in MacPid |-> IF p \in L THEN 0 ELSE due[p]]
        /\ unscanned' = unscanned \cap L
    BY <1>5 DEF SeedPrevPIDs, Listing
  <2>2. Running' = Running /\ Running \subseteq MacPid
        /\ \A p \in MacPid : (Entry(p))' = Entry(p)
    BY <2>1 DEF Running, Entry
  <2>3. MacTypeOK'
    BY <2>1, SnapshotTypes DEF MacTypeOK
  <2>4. MayCount'
    <3>1. \A p \in MacPid : p \in L /\ life[p].owner = Root => elevatedSeen'[p] = life[p].start
      BY <2>1, SnapshotTypes
    <3>2. \A p \in MacPid \ L : p \in Running /\ life[p].owner = Root => elevations[p] < due[p]
      BY <2>1, SnapshotTypes DEF MayCount, NotSeen, NotListed
    <3> QED
      BY <2>1, <2>2, <3>1, <3>2 DEF MayCount, MacTypeOK
  <2>5. ListsSound'
    <3> SUFFICES ASSUME NEW p \in Running \ unsure, SnapshotOf(L)[p].start = life[p].start
                 PROVE  /\ SnapshotOf(L)[p] = Entry(p)
                        /\ p \notin unscanned' => sessions[p] = Entry(p)
      BY <2>1, <2>2 DEF ListsSound
    <3>1. p \in L /\ ~IsExcluded(p) /\ SnapshotOf(L)[p] = Entry(p)
      BY <2>1, <2>2, SnapshotTypes
    <3> QED
      BY <2>1, <2>2, <3>1 DEF ListsSound
  <2> QED
    BY <2>3, <2>4, <2>5 DEF MacInv
<1>6. ASSUME NEW L \in SUBSET MacPid, Poll(L) PROVE MacInv'
  <2> DEFINE S == SnapshotOf(L)
  <2>1. /\ UNCHANGED <<life, second, watch, unsure>> /\ watch = "polling" /\ L \in SUBSET Running
        /\ unscanned' = unscanned \cap L
        /\ prevPIDs' = S /\ elevatedSeen' = RootStarts(L)
        /\ sessions' = [p \in MacPid |->
             IF Changed(S, p) THEN S[p]
             ELSE IF S[p] = NotListed /\ prevPIDs[p] # NotListed THEN NotListed ELSE sessions[p]]
        /\ elevations' = [p \in MacPid |-> IF p \in L /\ Elevated(p) THEN elevations[p] + 1
                                           ELSE elevations[p]]
        /\ due' = [p \in MacPid |-> IF p \in Running \ L /\ elevatedSeen[p] = life[p].start
                                   THEN due[p] + 1 ELSE due[p]]
    BY <1>6 DEF Poll, Listing
  <2>2. Running' = Running /\ Running \subseteq MacPid
        /\ \A p \in MacPid : (Entry(p))' = Entry(p)
    BY <2>1 DEF Running, Entry
  <2>3. NotListed \in Listed
    BY DEF NotListed, Listed
  <2>4. /\ S \in [MacPid -> Listed] /\ RootStarts(L) \in [MacPid -> 0 .. MaxSeconds + 1]
        /\ \A p \in MacPid : S[p] = IF p \in L /\ ~IsExcluded(p) THEN Entry(p) ELSE NotListed
        /\ \A p \in L : life[p].owner = Root => RootStarts(L)[p] = life[p].start
        /\ \A p \in Running : life[p].start # NotListed.start /\ Entry(p) # NotListed
    BY <2>1, SnapshotTypes
  <2> HIDE DEF S
  <2>5. MacTypeOK'
    BY <2>1, <2>3, <2>4 DEF MacTypeOK
  <2>6. MayCount'
    <3>1. \A p \in L : Elevated(p) => life[p].owner = Root /\ elevatedSeen[p] # life[p].start
      BY DEF Elevated, NewRoot
    <3> QED
      BY <2>1, <2>2, <2>4, <3>1 DEF MayCount, MacTypeOK
  <2>7. ListsSound'
    <3> SUFFICES ASSUME NEW p \in Running \ unsure, S[p].start = life[p].start
                 PROVE  /\ S[p] = Entry(p)
                        /\ p \notin unscanned' => sessions'[p] = Entry(p)
      BY <2>1, <2>2 DEF ListsSound
    <3>1. S[p] = Entry(p) /\ S[p] # NotListed /\ p \in L
      BY <2>2, <2>4
    <3>2. CASE S[p].start # prevPIDs[p].start
      BY <2>1, <2>2, <3>1, <3>2 DEF Changed
    <3>3. CASE S[p].start = prevPIDs[p].start
      BY <2>1, <2>2, <3>1, <3>3 DEF Changed, ListsSound
    <3> QED
      BY <3>2, <3>3
  <2> QED
    BY <2>5, <2>6, <2>7 DEF MacInv
<1>7. CASE ReconcileMac
  <2>1. /\ UNCHANGED <<life, second, watch, prevPIDs, elevatedSeen, elevations, due, unsure,
                       unscanned>>
        /\ sessions' = [p \in MacPid |-> IF p \in Running THEN sessions[p] ELSE NotListed]
    BY <1>7 DEF ReconcileMac
  <2>2. NotListed \in Listed
    BY DEF NotListed, Listed
  <2> QED
    BY <2>1, <2>2 DEF MacInv, MacTypeOK, MayCount, ListsSound, Running, IsExcluded, Entry
<1> QED
  BY <1>1, <1>2, <1>3, <1>4, <1>5, <1>6, <1>7 DEF MacNext

-----------------------------------------------------------------------------
(* The poller.                                                             *)

\* Since a sample was taken its user has not been away for longer than its age
\* and what it said.
SeatInv ==
  /\ Longest \in Nat
  /\ input \in [Seat -> 0 .. Longest]
  /\ latest \in [Seat -> [window : BOOLEAN, idle : 0 .. Longest, age : 0 .. Longest,
                          measured : BOOLEAN]]
  /\ cutoff \in Cutoffs /\ front \in [Seat -> BOOLEAN]
  /\ \A s \in Seat : latest[s].measured => input[s] <= latest[s].idle + latest[s].age

LEMMA LongestIsNat == Longest \in Nat
<1> DEFINE c == CHOOSE c \in Cutoffs : \A d \in Cutoffs : d <= c
<1>1. c \in Cutoffs
  BY SeatAssumption
<1>2. c \in Nat
  BY <1>1, SeatAssumption
<1> HIDE DEF c
<1>3. FreshFor + 1 + c \in Nat
  BY <1>2, SeatAssumption
<1> QED
  BY <1>3 DEF Longest, c

LEMMA SeatInvInit == SeatInit => SeatInv
BY SeatAssumption, LongestIsNat DEF SeatInit, SeatInv, NoSample

LEMMA SeatInvStep == SeatInv /\ [SeatNext]_seatVars => SeatInv'
<1> SUFFICES ASSUME SeatInv, SeatNext PROVE SeatInv'
  BY DEF SeatInv, seatVars, Longest
<1> USE SeatAssumption, LongestIsNat DEF SeatInv
<1>0. Longest' = Longest
  BY DEF Longest
<1> HIDE DEF Longest
<1>1. CASE Pass
  <2>1. \A age \in 0 .. Longest :
          Older(age) \in 0 .. Longest /\ Older(age) = IF age = Longest THEN Longest ELSE age + 1
    BY DEF Older
  <2>2. ASSUME NEW s \in Seat
        PROVE  /\ input'[s] \in 0 .. Longest /\ input'[s] = Older(input[s])
               /\ latest'[s] \in [window : BOOLEAN, idle : 0 .. Longest, age : 0 .. Longest,
                                  measured : BOOLEAN]
               /\ latest'[s].measured =>
                    /\ latest[s].measured /\ latest'[s].idle = latest[s].idle
                    /\ latest'[s].age = Older(latest[s].age)
    <3>1. input'[s] = Older(input[s]) /\ latest'[s] =
            (IF latest[s] = NoSample THEN NoSample ELSE [latest[s] EXCEPT !.age = Older(@)])
      BY <1>1 DEF Pass
    <3>2. latest[s] \in [window : BOOLEAN, idle : 0 .. Longest, age : 0 .. Longest,
                         measured : BOOLEAN]
      OBVIOUS
    <3> QED
      BY <2>1, <3>1, <3>2 DEF NoSample
  <2>3. ASSUME NEW s \in Seat, latest'[s].measured
        PROVE  input'[s] <= latest'[s].idle + latest'[s].age
    BY <2>1, <2>2, <2>3
  <2> QED
    BY <1>0, <1>1, <2>2, <2>3 DEF Pass
<1>2. ASSUME NEW s \in Seat, Touch(s) PROVE SeatInv'
  BY <1>0, <1>2 DEF Touch
<1>3. ASSUME NEW s \in Seat, SwitchWindow(s) \/ HelperStarts(s) \/ HelperHangs(s) PROVE SeatInv'
  BY <1>0, <1>3 DEF SwitchWindow, HelperStarts, HelperHangs
<1>4. ASSUME NEW s \in Seat, HelperExits(s) PROVE SeatInv'
  BY <1>0, <1>4 DEF HelperExits, NoSample
<1>5. ASSUME NEW s \in Seat, NEW m \in BOOLEAN, Report(s, m) PROVE SeatInv'
  <2>1. PICK window \in BOOLEAN, idle \in 0 .. Longest :
          /\ m => idle = input[s]
          /\ latest' = [latest EXCEPT ![s] =
               [window |-> window, idle |-> idle, age |-> 0, measured |-> m]]
    <3>1. front[s] \in BOOLEAN /\ (IF m THEN input[s] ELSE 0) \in 0 .. Longest
      OBVIOUS
    <3>2. latest' = [latest EXCEPT ![s] =
            [window |-> front[s], idle |-> IF m THEN input[s] ELSE 0, age |-> 0, measured |-> m]]
      BY <1>5 DEF Report
    <3> QED
      BY <3>1, <3>2
  <2> QED
    BY <1>0, <1>5, <2>1 DEF Report
<1>6. ASSUME NEW c \in Cutoffs, ApplyCutoff(c) PROVE SeatInv'
  BY <1>0, <1>6 DEF ApplyCutoff
<1>7. CASE PollTick
  BY <1>0, <1>7 DEF PollTick
<1> QED
  BY <1>1, <1>2, <1>3, <1>4, <1>5, <1>6, <1>7 DEF SeatNext

-----------------------------------------------------------------------------
(* The monitors together.                                                  *)

MonitorsInv == MacInv /\ SeatInv

\* A step is a step or a stutter of the watcher and of the poller.
LEMMA StepOfEach ==
  [MonitorsNext]_monitorVars => [MacNext]_macVars /\ [SeatNext]_seatVars
BY DEF MonitorsNext, OnWindows, OnMac, AtSeats, monitorVars

\* What the watcher has seen and the poller was told agrees with the processes
\* and the users, or is known not to (PollWatcher, Hub, foregroundPoller).
THEOREM MonitorsInvariant == MonitorsSpec => []MonitorsInv
<1>1. MonitorsInit => MonitorsInv
  BY MacInvInit, SeatInvInit DEF MonitorsInit, MonitorsInv
<1>2. MonitorsInv /\ [MonitorsNext]_monitorVars => MonitorsInv'
  BY StepOfEach, MacInvStep, SeatInvStep DEF MonitorsInv
<1> QED
  BY <1>1, <1>2, PTL DEF MonitorsSpec

\* A root process is one elevation at most, and none if the first list had it,
\* but for one more for each list that lost it (PollWatcher.Run, poll).
THEOREM NoManufacturedElevations == MonitorsSpec => []ElevationsOnce
<1>1. MonitorsInv => ElevationsOnce
  BY DEF MonitorsInv, MacInv, MayCount, ElevationsOnce
<1> QED
  BY <1>1, MonitorsInvariant, PTL

\* An application in the last list that still runs has its session, for any
\* lists, unless its pid was reused within a second or only the scan missed it
\* (ScanExistingProcesses, PollWatcher.Run, poll, Tracker).
THEOREM ListedHaveSessions == MonitorsSpec => []SessionsOfListed
<1>1. MonitorsInv => SessionsOfListed
  BY DEF MonitorsInv, MacInv, ListsSound, SessionsOfListed, Entry
<1> QED
  BY <1>1, MonitorsInvariant, PTL

\* No seat earns foreground time when its user has been away for longer than the
\* cutoff and FreshFor together, whatever its helper does (tick, Hub.Fresh).
THEOREM OnlyThePresentAreCredited == MonitorsSpec => CreditFollowsInput
<1>1. MonitorsInv => [PollTick => \A s \in Seat :
        credit'[s] = "foreground" /\ latest[s].measured /\ cutoff > 0
          => input[s] < cutoff + FreshFor]_seatVars
  <2> SUFFICES ASSUME MonitorsInv, PollTick, NEW s \in Seat,
                      credit'[s] = "foreground", latest[s].measured, cutoff > 0
               PROVE  input[s] < cutoff + FreshFor
    OBVIOUS
  <2>1. SeatInv
    BY DEF MonitorsInv
  <2>2. s \in FreshSeats /\ ~IsIdle(s)
    BY DEF PollTick, Nothing, CreditOf, LegacyCredit
  <2>3. latest[s].age <= FreshFor /\ latest[s].idle < cutoff
    BY <2>1, <2>2, SeatAssumption DEF SeatInv, FreshSeats, IsIdle
  <2>4. /\ latest[s].age \in Nat /\ latest[s].idle \in Nat /\ input[s] \in Nat /\ cutoff \in Nat
        /\ input[s] <= latest[s].idle + latest[s].age
    BY <2>1, SeatAssumption DEF SeatInv
  <2> QED
    BY <2>3, <2>4, SeatAssumption
<1> QED
  BY <1>1, MonitorsInvariant, PTL DEF CreditFollowsInput
===============================================================================
