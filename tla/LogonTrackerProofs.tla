------------------------- MODULE LogonTrackerProofs -------------------------
(***************************************************************************)
(* For any lines, accounts, people and policies: an occupant has as many   *)
(* sessions as are counted under the name, logins never outnumber the      *)
(* sign-ins but by the sessions that lists lost or misnamed, and nobody is *)
(* credited time the machine slept but in short sleeps.  The last two are  *)
(* not inductive: a login is counted one poll after the sign-in, and time  *)
(* is credited at the next poll, so what is still to come is bounded with  *)
(* what has been counted.                                                  *)
(***************************************************************************)
EXTENDS LogonTracker, FiniteSetTheorems, TLAPS

\* The sessions the tracker has been or is about to be told of.
Told == IF poll.phase = "listed" THEN poll.current ELSE sessions

\* The logins the poll under way will count, at most.
Expected == IF poll.phase = "listed" /\ seeded THEN Cardinality(Started) ELSE 0

LoginsBound ==
  /\ ~seeded => logins = 0
  /\ seeded \/ poll.phase = "listed" =>
       logins + Expected + Cardinality(open \ Told) <= signIns + mislisted

\* The time since the last poll is time awake or dozed, or longer than the cap.
AccrualBound ==
  \A p \in Person :
    /\ seconds[p] <= awake + dozed
    /\ users[p] # Vacant =>
         /\ users[p].accrued <= now
         /\ now - users[p].accrued <= MaxGap =>
              seconds[p] + (now - users[p].accrued) <= awake + dozed

IndInv == TypeOK /\ OccupancyAgrees /\ LoginsBound /\ AccrualBound

-----------------------------------------------------------------------------
(* Cardinalities.                                                          *)

LEMMA KeysFinite == \A S \in SUBSET Key : IsFiniteSet(S) /\ Cardinality(S) \in Nat
BY LogonAssumption, FS_Subset, FS_CardinalityType

LEMMA Smaller == \A S, T \in SUBSET Key : S \subseteq T => Cardinality(S) <= Cardinality(T)
BY KeysFinite, FS_Subset

LEMMA OneMore ==
  ASSUME NEW S \in SUBSET Key, NEW k \in Key
  PROVE  Cardinality(S \cup {k}) <= Cardinality(S) + 1
<1>1. IsFiniteSet(S) /\ Cardinality(S) \in Nat
  BY KeysFinite
<1>2. Cardinality(S \cup {k}) = IF k \in S THEN Cardinality(S) ELSE Cardinality(S) + 1
  BY <1>1, FS_AddElement
<1> QED
  BY <1>1, <1>2

LEMMA Without ==
  ASSUME NEW S \in SUBSET Key, NEW T \in SUBSET S
  PROVE  Cardinality(S \ T) = Cardinality(S) - Cardinality(T)
<1>1. IsFiniteSet(S) /\ IsFiniteSet(T) /\ S \cap T = T
  BY KeysFinite
<1> QED
  BY <1>1, FS_Difference

LEMMA Together ==
  ASSUME NEW S \in SUBSET Key, NEW T \in SUBSET Key, S \cap T = {}
  PROVE  Cardinality(S \cup T) = Cardinality(S) + Cardinality(T)
<1>1. IsFiniteSet(S) /\ IsFiniteSet(T) /\ Cardinality(S) \in Nat /\ Cardinality(T) \in Nat
  BY KeysFinite
<1>2. Cardinality(S \cap T) = 0
  BY FS_EmptySet
<1>3. Cardinality(S \cup T) = Cardinality(S) + Cardinality(T) - Cardinality(S \cap T)
  BY <1>1, FS_Union
<1> QED
  BY <1>1, <1>2, <1>3

LEMMA AtMostBoth ==
  ASSUME NEW S \in SUBSET Key, NEW T \in SUBSET Key, NEW U \in SUBSET Key, U \subseteq S \cup T
  PROVE  Cardinality(U) <= Cardinality(S) + Cardinality(T)
<1>1. U = (U \cap S) \cup (U \ S) /\ (U \cap S) \cap (U \ S) = {} /\ U \ S \subseteq T
  OBVIOUS
<1>2. U \cap S \in SUBSET Key /\ U \ S \in SUBSET Key
  OBVIOUS
<1>3. Cardinality(U) = Cardinality(U \cap S) + Cardinality(U \ S)
  BY <1>1, <1>2, Together
<1>4. Cardinality(U \cap S) <= Cardinality(S) /\ Cardinality(U \ S) <= Cardinality(T)
  BY <1>1, <1>2, Smaller
<1> QED
  BY <1>2, <1>3, <1>4, KeysFinite

LEMMA NoneIsEmpty == \A S \in SUBSET Key : Cardinality(S) = 0 <=> S = {}
BY KeysFinite, FS_EmptySet

-----------------------------------------------------------------------------
(* One poll and one person.                                                *)

LEMMA RemainingSound ==
  ASSUME TypeOK, OccupancyAgrees, NEW p \in Person
  PROVE  /\ Left(p) \subseteq Counted(p)
         /\ Remaining(p) = Vacant <=> Counted(p) \ Left(p) = {}
         /\ Remaining(p) # Vacant =>
              Remaining(p) = [sessions |-> Cardinality(Counted(p) \ Left(p)),
                              accrued |-> now]
<1> DEFINE left == Cardinality(Left(p))
           n == users[p].sessions - left
<1>1. Left(p) \in SUBSET Counted(p) /\ Counted(p) \in SUBSET Key
  BY DEF Left, Counted, CountedAs, Ended, TypeOK
<1>2. Cardinality(Counted(p) \ Left(p)) = Cardinality(Counted(p)) - left
  BY <1>1, Without
<1>3. /\ left \in Nat /\ Cardinality(Counted(p)) \in Nat
      /\ Cardinality(Counted(p) \ Left(p)) \in Nat
      /\ Cardinality(Counted(p) \ Left(p)) = 0 <=> Counted(p) \ Left(p) = {}
      /\ left = 0 <=> Left(p) = {}
  BY <1>1, KeysFinite, NoneIsEmpty
<1>4. CASE users[p] = Vacant
  BY <1>1, <1>4 DEF OccupancyAgrees, Remaining
<1>5. CASE users[p] # Vacant
  <2>1. /\ users[p] \in User /\ users[p].sessions = Cardinality(Counted(p))
        /\ users[p].sessions \in Nat \ {0}
    BY <1>5 DEF OccupancyAgrees, TypeOK, User
  <2>2. n = Cardinality(Counted(p) \ Left(p))
    BY <1>2, <2>1
  <2>3. Remaining(p) = IF Left(p) # {} /\ n <= 0 THEN Vacant
                       ELSE [sessions |-> n, accrued |-> now]
    BY <1>5 DEF Remaining, NobodyLeft
  <2>4. CASE Left(p) # {} /\ n <= 0
    BY <1>1, <1>3, <2>2, <2>3, <2>4
  <2>5. CASE ~(Left(p) # {} /\ n <= 0)
    <3>1. n \in Nat \ {0}
      BY <1>3, <2>1, <2>2, <2>5
    <3>2. [sessions |-> n, accrued |-> now] # Vacant
      BY <3>1, VacantAssumption DEF User, TypeOK
    <3> QED
      BY <1>1, <1>3, <2>2, <2>3, <2>5, <3>1, <3>2
  <2> QED
    BY <2>4, <2>5
<1> QED
  BY <1>4, <1>5

LEMMA OccupantSound ==
  ASSUME IndInv, Apply, NEW p \in Person
  PROVE  /\ Counted(p)' \in SUBSET Key /\ Counted(p)' \subseteq sessions'
         /\ Occupant(p) = Vacant <=> Counted(p)' = {}
         /\ Occupant(p) # Vacant =>
              Occupant(p) = [sessions |-> Cardinality(Counted(p)'), accrued |-> now]
<1> DEFINE kept == Counted(p) \ Left(p)
<1>1. /\ TypeOK /\ OccupancyAgrees
      /\ Counted(p) \subseteq sessions /\ Counted(p) \in SUBSET Key
      /\ Joined(p) \in SUBSET Key /\ kept \in SUBSET Key
      /\ p # NoPerson
  BY LogonAssumption DEF IndInv, OccupancyAgrees, Counted, Joined, Started, TypeOK
<1>2. counted' = [k \in Key |->
         IF k \in Started THEN Resolve(k)
         ELSE IF k \in Ended THEN NoPerson ELSE counted[k]]
  BY DEF Apply
<1>3. Counted(p)' = kept \cup Joined(p)
  BY <1>1, <1>2 DEF Counted, Left, Joined, CountedAs, Started, Ended, TypeOK
<1>4. kept \cap Joined(p) = {}
  BY <1>1 DEF Joined, Started
<1>5. Cardinality(kept \cup Joined(p)) = Cardinality(kept) + Cardinality(Joined(p))
  BY <1>1, <1>4, Together
<1>6. /\ Cardinality(kept) \in Nat /\ Cardinality(Joined(p)) \in Nat
      /\ Cardinality(kept) = 0 <=> kept = {}
      /\ Cardinality(Joined(p)) = 0 <=> Joined(p) = {}
  BY <1>1, KeysFinite, NoneIsEmpty
<1>7. Counted(p)' \subseteq sessions'
  BY <1>1, <1>3 DEF Apply, Joined, Started, Left, Ended, CountedAs, Counted
<1>8. /\ Remaining(p) = Vacant <=> kept = {}
      /\ Remaining(p) # Vacant =>
           Remaining(p) = [sessions |-> Cardinality(kept), accrued |-> now]
  BY <1>1, RemainingSound
<1>9. CASE Joined(p) = {}
  BY <1>1, <1>3, <1>7, <1>8, <1>9 DEF Occupant
<1>10. CASE Joined(p) # {}
  <2> DEFINE m == IF Remaining(p) = Vacant THEN 0 ELSE Remaining(p).sessions
  <2>1. m = Cardinality(kept)
    BY <1>6, <1>8
  <2>2. Occupant(p) = [sessions |-> Cardinality(Joined(p)) + m, accrued |-> now]
    BY <1>10 DEF Occupant
  <2>3. Cardinality(Joined(p)) + m \in Nat \ {0}
    BY <1>6, <1>10, <2>1
  <2>4. Occupant(p) # Vacant
    BY <2>2, <2>3, <1>1, VacantAssumption DEF User, TypeOK
  <2>5. Cardinality(Joined(p)) + m = Cardinality(Counted(p)')
    BY <1>3, <1>5, <1>6, <2>1
  <2> QED
    BY <1>1, <1>3, <1>7, <1>10, <2>2, <2>4, <2>5
<1> QED
  BY <1>9, <1>10

-----------------------------------------------------------------------------
(* The poll keeps each part of the invariant.                              *)

LEMMA ApplyType == IndInv /\ Apply => TypeOK'
<1> SUFFICES ASSUME IndInv, Apply PROVE TypeOK'
  OBVIOUS
<1>1. TypeOK
  BY DEF IndInv
<1>2. users' \in [Person -> User \cup {Vacant}]
  <2>1. ASSUME NEW p \in Person PROVE Occupant(p) \in User \cup {Vacant}
    <3>1. Counted(p)' \in SUBSET Key /\ Occupant(p) = Vacant <=> Counted(p)' = {}
      BY OccupantSound
    <3>2. Cardinality(Counted(p)') \in Nat
      BY OccupantSound, KeysFinite
    <3>3. Counted(p)' # {} => Cardinality(Counted(p)') # 0
      BY OccupantSound, NoneIsEmpty
    <3> QED
      BY <1>1, <3>2, <3>3, OccupantSound DEF User, TypeOK
  <2> QED
    BY <2>1 DEF Apply
<1>3. counted' \in [Key -> Person \cup {NoPerson}]
  <2>1. \A k \in Key : Resolve(k) \in Person \cup {NoPerson}
    BY <1>1, LogonAssumption DEF Resolve, TypeOK
  <2> QED
    BY <1>1, <2>1 DEF Apply, TypeOK
<1>4. active' \in [Person -> {0, 1, Never}]
  BY <1>1 DEF Apply, TypeOK
<1>5. logins' \in Nat
  <2>1. Cardinality({k \in Started : Resolve(k) # NoPerson}) \in Nat
    BY <1>1, KeysFinite DEF Started, TypeOK
  <2> QED
    BY <1>1, <2>1 DEF Apply, TypeOK
<1>6. seconds' \in [Person -> Nat]
  <2>1. \A p \in Person : Accrued(p) \in Nat
    BY <1>1, LogonAssumption DEF Accrued, Accrues, TypeOK, User
  <2> QED
    BY <1>1, <2>1 DEF Apply, TypeOK
<1>7. sessions' \in SUBSET Key /\ seeded' \in BOOLEAN
      /\ poll' \in [phase : {"idle", "listed"}, current : SUBSET Key]
  BY <1>1 DEF Apply, TypeOK, IdlePoll
<1> QED
  BY <1>1, <1>2, <1>3, <1>4, <1>5, <1>6, <1>7 DEF Apply, clockVars, TypeOK

LEMMA ApplyOccupancy == IndInv /\ Apply => OccupancyAgrees'
<1> SUFFICES ASSUME IndInv, Apply, NEW p \in Person
             PROVE  /\ Counted(p)' \subseteq sessions'
                    /\ IF users'[p] = Vacant
                       THEN Counted(p)' = {} /\ active'[p] # 1
                       ELSE /\ users'[p].sessions = Cardinality(Counted(p)')
                            /\ active'[p] = 1
  BY DEF OccupancyAgrees
<1>1. TypeOK /\ OccupancyAgrees
  BY DEF IndInv
<1>2. users'[p] = Occupant(p)
  BY DEF Apply
<1>3. active'[p] = IF Joined(p) # {} THEN 1
                   ELSE IF users[p] # Vacant /\ Remaining(p) = Vacant THEN 0
                   ELSE active[p]
  BY DEF Apply
<1>4. /\ Counted(p)' \subseteq sessions'
      /\ Occupant(p) = Vacant <=> Counted(p)' = {}
      /\ Occupant(p) # Vacant => Occupant(p).sessions = Cardinality(Counted(p)')
  BY OccupantSound
<1>5. users[p] = Vacant => Remaining(p) = Vacant /\ active[p] # 1
  BY <1>1 DEF Remaining, OccupancyAgrees
<1>6. users[p] # Vacant => active[p] = 1
  BY <1>1 DEF OccupancyAgrees
<1>7. CASE Joined(p) = {}
  <2>1. Occupant(p) = Remaining(p)
    BY <1>7 DEF Occupant
  <2> QED
    BY <1>2, <1>3, <1>4, <1>5, <1>6, <1>7, <2>1
<1>8. CASE Joined(p) # {}
  <2>1. Occupant(p) # Vacant
    <3>1. Joined(p) \subseteq Counted(p)'
      BY <1>1 DEF Apply, Joined, Counted, Started, TypeOK
    <3> QED
      BY <1>4, <1>8, <3>1
  <2> QED
    BY <1>2, <1>3, <1>4, <1>8, <2>1
<1> QED
  BY <1>7, <1>8

LEMMA ApplyLogins == IndInv /\ Apply => LoginsBound'
<1> SUFFICES ASSUME IndInv, Apply PROVE LoginsBound'
  OBVIOUS
<1> DEFINE new == {k \in Started : Resolve(k) # NoPerson}
           unseen == Cardinality(open \ poll.current)
<1>1. TypeOK /\ LoginsBound /\ poll.phase = "listed"
  BY DEF IndInv, Apply
<1>2. Started \in SUBSET Key /\ new \in SUBSET Started /\ open \ poll.current \in SUBSET Key
  BY <1>1 DEF Started, TypeOK
<1>3. /\ Cardinality(new) \in Nat /\ Cardinality(Started) \in Nat /\ unseen \in Nat
      /\ Cardinality(new) <= Cardinality(Started)
  BY <1>2, KeysFinite, Smaller
<1>4. /\ ~seeded => logins = 0
      /\ logins + (IF seeded THEN Cardinality(Started) ELSE 0) + unseen <= signIns + mislisted
  BY <1>1 DEF LoginsBound, Expected, Told
<1>5. /\ logins' = IF seeded THEN logins + Cardinality(new) ELSE logins
      /\ seeded' = TRUE /\ poll'.phase = "idle"
      /\ sessions' = poll.current /\ open' = open /\ signIns' = signIns
      /\ mislisted' = mislisted
  BY DEF Apply, CountsLogins, IdlePoll
<1>6. Expected' = 0 /\ Cardinality(open \ Told)' = unseen
  BY <1>5 DEF Expected, Told
<1>7. logins' + 0 + unseen <= signIns + mislisted
  BY <1>1, <1>3, <1>4, <1>5 DEF TypeOK
<1> QED
  BY <1>5, <1>6, <1>7 DEF LoginsBound

LEMMA ApplyAccrual == IndInv /\ Apply => AccrualBound'
<1> SUFFICES ASSUME IndInv, Apply, NEW p \in Person
             PROVE  /\ seconds'[p] <= awake + dozed
                    /\ users'[p] # Vacant =>
                         /\ users'[p].accrued <= now
                         /\ now - users'[p].accrued <= MaxGap =>
                              seconds'[p] + (now - users'[p].accrued) <= awake + dozed
  BY DEF AccrualBound, Apply, clockVars
<1>1. /\ now \in Nat /\ awake \in Nat /\ dozed \in Nat /\ seconds[p] \in Nat /\ MaxGap \in Nat
      /\ users[p] \in User \cup {Vacant}
  BY LogonAssumption DEF IndInv, TypeOK
<1>2. seconds'[p] = seconds[p] + Accrued(p) /\ users'[p] = Occupant(p)
  BY DEF Apply, IndInv, TypeOK
<1>3. seconds'[p] <= awake + dozed
  BY <1>1, <1>2 DEF IndInv, AccrualBound, Accrued, Accrues, User
<1>4. seconds'[p] \in Nat
  BY <1>1, <1>2, LogonAssumption DEF Accrued, Accrues, User
<1>5. users'[p] # Vacant => users'[p].accrued = now
  BY <1>2, OccupantSound
<1> QED
  BY <1>1, <1>3, <1>4, <1>5

-----------------------------------------------------------------------------
(* The invariant.                                                          *)

LEMMA IndInvInit == Init => IndInv
<1> SUFFICES ASSUME Init PROVE IndInv
  OBVIOUS
<1>1. TypeOK
  BY LogonAssumption DEF Init, TrackerInit, IdlePoll, TypeOK
<1>2. OccupancyAgrees
  BY LogonAssumption, VacantAssumption DEF Init, TrackerInit, OccupancyAgrees, Counted
<1>3. LoginsBound /\ AccrualBound
  BY DEF Init, TrackerInit, IdlePoll, LoginsBound, AccrualBound
<1> QED
  BY <1>1, <1>2, <1>3 DEF IndInv

\* A step that moves nothing but the policy and the bounded counters.
LEMMA Framed ==
  ASSUME IndInv, TypeOK',
         UNCHANGED <<open, poll, seeded, sessions, counted, users, active, logins,
                     seconds, now, awake, dozed, signIns, mislisted>>
  PROVE  IndInv'
<1>1. OccupancyAgrees'
  BY DEF IndInv, OccupancyAgrees, Counted
<1>2. LoginsBound'
  BY DEF IndInv, LoginsBound, Expected, Told, Started
<1>3. AccrualBound'
  BY DEF IndInv, AccrualBound
<1> QED
  BY <1>1, <1>2, <1>3 DEF IndInv

LEMMA IndInvStep == IndInv /\ [Next]_vars => IndInv'
<1> SUFFICES ASSUME IndInv, [Next]_vars PROVE IndInv'
  OBVIOUS
<1> USE DEF IndInv, trackerVars, metricVars, clockVars
<1>0. /\ open \in SUBSET Key /\ Told \in SUBSET Key /\ Started \in SUBSET Key
      /\ Cardinality(open \ Told) \in Nat /\ Expected \in Nat
      /\ logins \in Nat /\ signIns \in Nat /\ now \in Nat /\ awake \in Nat
      /\ dozed \in Nat /\ mislisted \in Nat
  BY KeysFinite DEF TypeOK, Told, Started, Expected
<1>1. ASSUME NEW k \in Key, SignIn(k) PROVE IndInv'
  <2>1. TypeOK' /\ OccupancyAgrees' /\ AccrualBound'
    BY <1>1 DEF SignIn, TypeOK, OccupancyAgrees, Counted, AccrualBound
  <2>2. Told' = Told /\ Expected' = Expected
    BY <1>1 DEF SignIn, Told, Expected, Started
  <2>3. (open \ Told)' \subseteq (open \ Told) \cup {k}
    BY <1>1, <2>2 DEF SignIn
  <2>4. Cardinality((open \ Told) \cup {k}) <= Cardinality(open \ Told) + 1
    BY <1>0, OneMore
  <2>5. (open \ Told)' \in SUBSET Key /\ (open \ Told) \cup {k} \in SUBSET Key
    BY <1>0, <2>3
  <2>6. Cardinality((open \ Told)') <= Cardinality((open \ Told) \cup {k})
    BY <2>3, <2>5, Smaller
  <2>7. /\ Cardinality((open \ Told)') \in Nat
        /\ Cardinality((open \ Told) \cup {k}) \in Nat
    BY <2>5, KeysFinite
  <2>8. /\ signIns' = signIns + 1 /\ logins' = logins /\ mislisted' = mislisted
        /\ seeded' = seeded /\ poll' = poll
    BY <1>1 DEF SignIn
  <2>9. LoginsBound'
    BY <1>0, <2>2, <2>4, <2>6, <2>7, <2>8 DEF LoginsBound
  <2> QED
    BY <2>1, <2>9
<1>2. ASSUME NEW k \in Key, SignOut(k) PROVE IndInv'
  <2>1. TypeOK' /\ OccupancyAgrees' /\ AccrualBound'
    BY <1>2 DEF SignOut, TypeOK, OccupancyAgrees, Counted, AccrualBound
  <2>2. Told' = Told /\ Expected' = Expected
    BY <1>2 DEF SignOut, Told, Expected, Started
  <2>3. (open \ Told)' \subseteq open \ Told /\ open \ Told \in SUBSET Key
    BY <1>0, <1>2, <2>2 DEF SignOut
  <2>4. /\ Cardinality((open \ Told)') <= Cardinality(open \ Told)
        /\ Cardinality((open \ Told)') \in Nat
    BY <2>3, Smaller, KeysFinite
  <2>5. /\ signIns' = signIns /\ logins' = logins /\ mislisted' = mislisted
        /\ seeded' = seeded /\ poll' = poll
    BY <1>2 DEF SignOut
  <2>6. LoginsBound'
    BY <1>0, <2>2, <2>4, <2>5 DEF LoginsBound
  <2> QED
    BY <2>1, <2>6
<1>3. ASSUME NEW new \in Policies, SetPolicy(new) PROVE IndInv'
  <2>1. /\ policy' \in Policies /\ changes' \in Nat
        /\ UNCHANGED <<open, poll, seeded, sessions, counted, users, active, logins,
                       seconds, now, awake, dozed, signIns, mislisted, failures>>
    BY <1>3 DEF SetPolicy, TypeOK
  <2>2. TypeOK'
    BY <2>1 DEF TypeOK
  <2> QED
    BY <2>1, <2>2, Framed
<1>4. CASE Tick
  <2>1. TypeOK' /\ OccupancyAgrees' /\ LoginsBound'
    <3>1. /\ now' \in Nat /\ awake' \in Nat
          /\ UNCHANGED <<open, policy, poll, seeded, sessions, counted, users, active, logins,
                         seconds, dozed, signIns, mislisted, changes, failures>>
      BY <1>0, <1>4 DEF Tick
    <3>2. TypeOK'
      BY <3>1 DEF TypeOK
    <3>3. OccupancyAgrees'
      BY <3>1 DEF OccupancyAgrees, Counted
    <3>4. LoginsBound'
      BY <3>1 DEF LoginsBound, Expected, Told, Started
    <3> QED
      BY <3>2, <3>3, <3>4
  <2>2. \A p \in Person : seconds[p] \in Nat /\ users[p] \in User \cup {Vacant}
    BY DEF TypeOK
  <2>3. AccrualBound'
    BY <1>0, <1>4, <2>2, LogonAssumption DEF Tick, AccrualBound, User
  <2> QED
    BY <2>1, <2>3
<1>5. ASSUME NEW nap \in Naps, Sleep(nap) PROVE IndInv'
  <2>1. /\ nap \in Nat /\ now' = now + nap /\ now' \in Nat /\ dozed' \in Nat
        /\ dozed' = IF nap <= MaxGap THEN dozed + nap ELSE dozed
        /\ UNCHANGED <<open, policy, poll, seeded, sessions, counted, users, active,
                       logins, seconds, awake, signIns, mislisted, changes, failures>>
    BY <1>0, <1>5, LogonAssumption DEF Sleep
  <2>0. TypeOK' /\ OccupancyAgrees' /\ LoginsBound'
    <3>1. TypeOK'
      BY <2>1 DEF TypeOK
    <3>2. OccupancyAgrees'
      BY <2>1 DEF OccupancyAgrees, Counted
    <3>3. LoginsBound'
      BY <2>1 DEF LoginsBound, Expected, Told, Started
    <3> QED
      BY <3>1, <3>2, <3>3
  <2>2. \A p \in Person : seconds[p] \in Nat /\ users[p] \in User \cup {Vacant}
    BY DEF TypeOK
  <2>3. AccrualBound'
    BY <1>0, <2>1, <2>2, LogonAssumption DEF AccrualBound, User
  <2> QED
    BY <2>0, <2>3
<1>6. CASE AgentRestarts
  <2>1. TypeOK'
    <3>1. /\ poll' \in [phase : {"idle", "listed"}, current : SUBSET Key]
          /\ seeded' \in BOOLEAN /\ sessions' \in SUBSET Key
      BY <1>6 DEF AgentRestarts, IdlePoll
    <3>2. /\ counted' \in [Key -> Person \cup {NoPerson}]
          /\ users' \in [Person -> User \cup {Vacant}]
          /\ active' \in [Person -> {0, 1, Never}]
          /\ seconds' \in [Person -> Nat]
      BY <1>6 DEF AgentRestarts
    <3>3. /\ open' \in SUBSET Key /\ policy' \in Policies /\ logins' \in Nat
          /\ now' \in Nat /\ awake' \in Nat /\ dozed' \in Nat /\ signIns' \in Nat
          /\ mislisted' \in Nat
          /\ changes' \in Nat /\ failures' \in Nat
      BY <1>6 DEF AgentRestarts, TypeOK
    <3> QED
      BY <3>1, <3>2, <3>3 DEF TypeOK
  <2>2. OccupancyAgrees'
    BY <1>6, LogonAssumption, VacantAssumption
       DEF AgentRestarts, OccupancyAgrees, Counted
  <2>3. LoginsBound' /\ AccrualBound'
    BY <1>6 DEF AgentRestarts, IdlePoll, LoginsBound, AccrualBound
  <2> QED
    BY <2>1, <2>2, <2>3
<1>7. CASE Enumerate
  <2>1. TypeOK' /\ OccupancyAgrees' /\ AccrualBound'
    BY <1>7 DEF Enumerate, TypeOK, OccupancyAgrees, Counted, AccrualBound
  <2>2. /\ poll.phase = "idle" /\ poll'.phase = "listed" /\ poll'.current = open
        /\ UNCHANGED <<open, seeded, sessions, logins, signIns, mislisted>>
    BY <1>7 DEF Enumerate
  <2>3. (open \ Told)' = {} /\ Started' = open \ sessions /\ Told = sessions
    BY <2>2 DEF Told, Started
  <2>4. Cardinality((open \ Told)') = 0
    BY <2>3, FS_EmptySet
  <2>5. Expected' = IF seeded THEN Cardinality(open \ Told) ELSE 0
    BY <2>2, <2>3 DEF Expected
  <2>6. LoginsBound'
    BY <1>0, <2>2, <2>4, <2>5 DEF LoginsBound, Expected
  <2> QED
    BY <2>1, <2>6
<1>8. CASE EnumerateFails
  <2>1. /\ failures' \in Nat
        /\ UNCHANGED <<open, policy, poll, seeded, sessions, counted, users, active,
                       logins, seconds, now, awake, dozed, signIns, mislisted, changes>>
    BY <1>8 DEF EnumerateFails, TypeOK
  <2>2. TypeOK'
    BY <2>1 DEF TypeOK
  <2> QED
    BY <2>1, <2>2, Framed
<1>9. ASSUME NEW L \in SUBSET Key, EnumerateWrongly(L) PROVE IndInv'
  <2> DEFINE lost == Cardinality(Lost(L))
             alien == Cardinality(L \ open)
  <2>1. /\ {Lost(L), L \ open, L \ sessions, open \ L, open \ sessions, open} \subseteq SUBSET Key
        /\ {(open \ sessions) \cap L, (open \ sessions) \ L} \subseteq SUBSET Key
    BY <1>0 DEF Lost, TypeOK
  <2>2. /\ lost \in Nat /\ alien \in Nat /\ Cardinality(L \ sessions) \in Nat
        /\ Cardinality(open \ L) \in Nat /\ Cardinality(open \ sessions) \in Nat
        /\ Cardinality((open \ sessions) \cap L) \in Nat
        /\ Cardinality((open \ sessions) \ L) \in Nat
    BY <2>1, KeysFinite
  <2>3. /\ poll.phase = "idle" /\ poll' = [phase |-> "listed", current |-> L]
        /\ mislisted' = mislisted + lost + alien /\ failures' \in Nat
        /\ UNCHANGED <<open, policy, seeded, sessions, counted, users, active,
                       logins, seconds, now, awake, dozed, signIns, changes>>
    BY <1>9 DEF EnumerateWrongly, TypeOK
  <2>4. mislisted' \in Nat
    BY <1>0, <2>2, <2>3
  <2>5. TypeOK'
    BY <2>3, <2>4 DEF TypeOK
  <2>6. OccupancyAgrees' /\ AccrualBound'
    BY <2>3 DEF OccupancyAgrees, Counted, AccrualBound
  <2>7. /\ (open \ Told)' = open \ L /\ Told = sessions /\ Expected = 0
        /\ Expected' = IF seeded THEN Cardinality(L \ sessions) ELSE 0
    BY <2>3 DEF Told, Expected, Started
  <2>8. CASE seeded
    <3>1. Cardinality(L \ sessions) <= Cardinality((open \ sessions) \cap L) + alien
      <4>1. L \ sessions \subseteq ((open \ sessions) \cap L) \cup (L \ open)
        OBVIOUS
      <4> QED
        BY <2>1, <2>2, <4>1, AtMostBoth
    <3>2. Cardinality(open \ L) <= Cardinality((open \ sessions) \ L) + lost
      <4>1. open \ L \subseteq ((open \ sessions) \ L) \cup Lost(L)
        BY <2>8 DEF Lost
      <4> QED
        BY <2>1, <2>2, <4>1, AtMostBoth
    <3>3. Cardinality(open \ sessions)
            = Cardinality((open \ sessions) \cap L) + Cardinality((open \ sessions) \ L)
      <4>1. /\ ((open \ sessions) \cap L) \cap ((open \ sessions) \ L) = {}
            /\ ((open \ sessions) \cap L) \cup ((open \ sessions) \ L) = open \ sessions
        OBVIOUS
      <4> QED
        BY <2>1, <4>1, Together
    <3>4. logins + Cardinality(open \ sessions) <= signIns + mislisted
      BY <1>0, <2>2, <2>7, <2>8 DEF LoginsBound
    <3>5. logins + Cardinality(L \ sessions) + Cardinality(open \ L) <= signIns + mislisted'
      BY <1>0, <2>2, <2>3, <3>1, <3>2, <3>3, <3>4
    <3> QED
      BY <2>3, <2>5, <2>6, <2>7, <2>8, <3>5 DEF LoginsBound
  <2>9. CASE ~seeded
    <3>1. Cardinality(open \ L) = lost
      BY <2>9 DEF Lost
    <3>2. logins = 0
      BY <2>9 DEF LoginsBound
    <3>3. 0 + 0 + Cardinality(open \ L) <= signIns + mislisted'
      BY <1>0, <2>2, <2>3, <3>1
    <3> QED
      BY <2>3, <2>5, <2>6, <2>7, <2>9, <3>2, <3>3 DEF LoginsBound
  <2> QED
    BY <2>8, <2>9
<1>10. CASE Apply
  BY <1>10, ApplyType, ApplyOccupancy, ApplyLogins, ApplyAccrual
<1>11. CASE UNCHANGED vars
  <2>1. UNCHANGED <<open, policy, poll, seeded, sessions, counted, users, active, logins,
                    seconds, now, awake, dozed, signIns, mislisted, changes, failures>>
    BY <1>11 DEF vars
  <2>2. TypeOK'
    BY <2>1 DEF TypeOK
  <2> QED
    BY <2>1, <2>2, Framed
<1> QED
  BY <1>1, <1>2, <1>3, <1>4, <1>5, <1>6, <1>7, <1>8, <1>9, <1>10, <1>11 DEF Next

THEOREM Invariance == Spec => []IndInv
BY IndInvInit, IndInvStep, PTL DEF Spec

\* Occupants, their session counts and the active gauge agree with the
\* sessions counted, whatever policies come while sessions are open (apply in
\* logon/tracker.go).
THEOREM OccupancyExact == Spec => []OccupancyAgrees
<1>1. IndInv => OccupancyAgrees
  BY DEF IndInv
<1> QED
  BY <1>1, Invariance, PTL

\* A run of the agent counts no more logins than there were sign-ins in it and
\* sessions that lists lost or misnamed (apply's seeded flag, Enumerator).
THEOREM NoInflatedLogins == Spec => []LoginsNotInflated
<1>1. IndInv => LoginsNotInflated
  <2> SUFFICES ASSUME IndInv PROVE logins <= signIns + mislisted
    BY DEF LoginsNotInflated
  <2>1. /\ Cardinality(open \ Told) \in Nat /\ Expected \in Nat
        /\ logins \in Nat /\ signIns \in Nat /\ mislisted \in Nat
    BY KeysFinite DEF IndInv, TypeOK, Told, Started, Expected
  <2> QED
    BY <2>1 DEF IndInv, LoginsBound
<1> QED
  BY <1>1, Invariance, PTL

\* Nobody is credited more than the time the machine was awake or slept for no
\* longer than the cap at a time (accrueLocked).
THEOREM NoTimeAsleep == Spec => []SecondsWithinAwake
<1>1. IndInv => SecondsWithinAwake
  BY DEF IndInv, AccrualBound, SecondsWithinAwake
<1> QED
  BY <1>1, Invariance, PTL

\* The variables of the tracker and of its poller keep their types.
THEOREM TypeCorrect == Spec => []TypeOK
<1>1. IndInv => TypeOK
  BY DEF IndInv
<1> QED
  BY <1>1, Invariance, PTL
=============================================================================
