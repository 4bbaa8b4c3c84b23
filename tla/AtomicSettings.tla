---------------------------- MODULE AtomicSettings ----------------------------
(***************************************************************************)
(* What an administrator may expect of PUT /settings: each update is       *)
(* applied as a whole at one instant or not at all, every update ends, and *)
(* one that does not name the idle threshold leaves it at a value that was *)
(* current at some time while the update was under way.                    *)
(***************************************************************************)
CONSTANTS Update, Key, Idle, Initial

VARIABLES
  current,   \* who last set each key
  pending,   \* updates under way, and whether each names the idle threshold
  since      \* the idle thresholds that were current since each began

settingsVars == <<current, pending, since>>

AInit ==
  /\ current = [k \in Key |-> Initial]
  /\ pending = {}
  /\ since = [u \in Update |-> {}]

Begin(u) ==
  /\ \E named \in BOOLEAN : pending' = pending \cup {[update |-> u, named |-> named]}
  /\ since' = [since EXCEPT ![u] = {current[Idle]}]
  /\ UNCHANGED current

Underway(u) == {p \in pending : p.update = u}

Apply(u) ==
  /\ \E p \in Underway(u) : \E idle \in IF p.named THEN {u} ELSE since[u] :
       /\ current' = [k \in Key |-> IF k = Idle THEN idle ELSE u]
       /\ since' = [v \in Update |-> IF v = u \/ since[v] = {} THEN {} ELSE since[v] \cup {idle}]
  /\ pending' = pending \ Underway(u)

Refuse(u) ==
  /\ Underway(u) # {}
  /\ pending' = pending \ Underway(u)
  /\ since' = [since EXCEPT ![u] = {}]
  /\ UNCHANGED current

ANext == \E u \in Update : Begin(u) \/ Apply(u) \/ Refuse(u)

ASpec ==
  /\ AInit /\ [][ANext]_settingsVars
  /\ \A u \in Update : WF_settingsVars(Apply(u) \/ Refuse(u))
=============================================================================
