----------------------------- MODULE UserIdentity -----------------------------
(***************************************************************************)
(* Who a username stands for: the rules administrators keep                *)
(* (server/internal/api/users.go, the user_mappings table), the policy     *)
(* both programs build from them (the two copies of internal/userid), its  *)
(* way to the agents with the heartbeats, and the labels in Prometheus.    *)
(* An agent resolves a name before it labels a sample; every report        *)
(* resolves the label again, and reports that lose the label leave ignored *)
(* accounts out with a regular expression instead (promql.go).             *)
(*                                                                         *)
(* A name is what its text says: DOMAIN\account@suffix, without case.  A   *)
(* pattern is a name too, whose account may be the wildcard.               *)
(***************************************************************************)
EXTENDS Naturals, FiniteSets

CONSTANTS
  Station,      \* agents
  RawName,      \* what the systems of the machines call their users
  Pattern,      \* patterns of rules
  Target,       \* names administrators merge into
  Precedence,   \* longer patterns before shorter, then as they sort
  BuiltInIgnores, \* DefaultIgnorePatterns
  Short,        \* accounts of one character or none
  Underscored,  \* parts of names that begin with "_"
  Suffixed,     \* parts that end in "$", ".exe", ".com" and the like
  Reserved,     \* NT AUTHORITY and NT SERVICE
  NoRule,
  MaxRuleEdits, MaxFetchFailures   \* bounds

AnyAccount == "*"
NoPart == ""
Empty == [domain |-> NoPart, account |-> NoPart, upn |-> NoPart]

ASSUME IdentityAssumption ==
  /\ RawName \cup Pattern \cup Target \cup BuiltInIgnores
       \subseteq [domain : STRING, account : STRING, upn : STRING]
  /\ Empty \notin Pattern \cup BuiltInIgnores
  /\ NoPart \in Short /\ NoPart \notin Underscored \cup Suffixed \cup Reserved
  /\ Precedence \in [Pattern -> Nat]
  /\ \A p, q \in Pattern : Precedence[p] = Precedence[q] => p = q
  /\ MaxRuleEdits \in Nat /\ MaxFetchFailures \in Nat

VARIABLES
  rules,      \* user_mappings: canonical name and ignored, or NoRule
  strip,      \* user_strip_domain
  fetch,      \* the heartbeat of each agent: how far, what the server has read
  held,       \* the policy of each agent (Holder)
  recorded,   \* values of the user label in Prometheus
  used        \* edits and failures so far

identityVars == <<rules, strip, fetch, held, recorded, used>>

-----------------------------------------------------------------------------
(* Resolving a name.                                                       *)

Canonicalize(n, stripDomain) ==
  IF stripDomain THEN [n EXCEPT !.domain = NoPart, !.upn = NoPart] ELSE n

Bare(n) == [n EXCEPT !.domain = NoPart]
Half(n) == [Empty EXCEPT !.account = n.domain]

\* The wildcard takes whatever is left of the name.
MatchGlob(p, n) ==
  IF p.account = AnyAccount THEN p.domain \in {NoPart, n.domain} ELSE p = n

MatchesEither(p, raw, canonical) ==
  \/ MatchGlob(p, raw) \/ MatchGlob(p, canonical)
  \/ /\ p.domain = NoPart /\ raw.domain # NoPart
     /\ MatchGlob(p, Bare(raw)) \/ MatchGlob(p, Half(raw))

\* What the text of a name begins and ends with.
FirstPart(n) == IF n.domain # NoPart THEN n.domain ELSE n.account
LastPart(n) == IF n.upn # NoPart THEN n.upn ELSE n.account

PlausibleUsername(n) ==
  /\ ~(n.account \in Short /\ n.domain = NoPart /\ n.upn = NoPart)
  /\ {n.domain, n.account, n.upn} \cap Reserved = {}
  /\ LastPart(n) \notin Suffixed /\ FirstPart(n) \notin Underscored

\* aliasLess: exact before wildcard.
MostSpecific(S) ==
  LET exact == {p \in S : p.account # AnyAccount}
      best == IF exact # {} THEN exact ELSE S
  IN CHOOSE p \in best : \A q \in best : Precedence[p] <= Precedence[q]

Resolve(policy, raw) ==
  LET canonical == Canonicalize(raw, policy.strip)
      hits == {p \in DOMAIN policy.aliases : MatchesEither(p, raw, canonical)}
      alias == Canonicalize(policy.aliases[MostSpecific(hits)], policy.strip)
  IN IF \/ Empty \in {raw, canonical}
        \/ ~PlausibleUsername(canonical) \/ ~PlausibleUsername(raw)
        \/ \E p \in BuiltInIgnores \cup policy.ignored : MatchesEither(p, raw, canonical)
     THEN [name |-> canonical, ignored |-> TRUE]
     ELSE [name |-> IF hits = {} \/ alias = Empty THEN canonical ELSE alias, ignored |-> FALSE]

\* The name samples are counted under, or Empty.
Outcome(policy, raw) ==
  LET r == Resolve(policy, raw) IN IF r.ignored THEN Empty ELSE r.name

NewPolicy == [strip |-> TRUE, ignored |-> {}, aliases |-> [p \in {} |-> Empty]]

Ignored(table) == {p \in Pattern : table[p] # NoRule /\ table[p].ignored}
Aliases(table) == {p \in Pattern : table[p] # NoRule /\ ~table[p].ignored}
Inert(table) == {p \in Aliases(table) : table[p].canonical = Empty}

PolicyFromMappings(stripDomain, table) ==
  [strip |-> stripDomain, ignored |-> Ignored(table),
   aliases |-> [p \in Aliases(table) \ Inert(table) |-> table[p].canonical]]

BuildAgentUserPolicy(stripDomain, table) ==
  [strip |-> stripDomain, ignored |-> Ignored(table),
   aliases |-> [p \in Aliases(table) \ Inert(table) |-> table[p].canonical]]

UserPolicy == PolicyFromMappings(strip, rules)

-----------------------------------------------------------------------------
(* The rules.                                                              *)

NoFetch == [at |-> "idle", strip |-> TRUE, policy |-> NewPolicy]

IdentityInit ==
  /\ rules = [p \in Pattern |-> NoRule]
  /\ strip = TRUE
  /\ fetch = [s \in Station |-> NoFetch]
  /\ held = [s \in Station |-> NewPolicy]
  /\ recorded = {}
  /\ used = [edits |-> 0, failures |-> 0]

EditsRules ==
  /\ used.edits < MaxRuleEdits
  /\ used' = [used EXCEPT !.edits = @ + 1]
  /\ UNCHANGED <<fetch, held, recorded>>

UpsertUserMapping(p, canonical, ignored) ==
  /\ EditsRules
  /\ ignored \/ canonical # Empty
  /\ rules' = [rules EXCEPT ![p] = [canonical |-> canonical, ignored |-> ignored]]
  /\ UNCHANGED strip

SetUserMappingIgnored(p, ignored) ==
  /\ EditsRules /\ rules[p] # NoRule
  /\ rules' = [rules EXCEPT ![p].ignored = ignored]
  /\ UNCHANGED strip

DeleteUserMapping(p) ==
  /\ EditsRules /\ rules[p] # NoRule
  /\ rules' = [rules EXCEPT ![p] = NoRule]
  /\ UNCHANGED strip

\* IgnoreUserPattern: the name a rule merges into is kept.
QuickIgnoreUser(p) ==
  /\ EditsRules
  /\ rules' = [rules EXCEPT ![p] =
       IF @ = NoRule THEN [canonical |-> Empty, ignored |-> TRUE] ELSE [@ EXCEPT !.ignored = TRUE]]
  /\ UNCHANGED strip

UpdateUserPolicy ==
  /\ EditsRules
  /\ strip' = ~strip
  /\ UNCHANGED rules

-----------------------------------------------------------------------------
(* The agents.                                                             *)

\* A heartbeat or, at startup, the policy alone: first the option is read,
\* then the rules.
ReadStripDomain(s) ==
  /\ fetch[s].at = "idle"
  /\ fetch' = [fetch EXCEPT ![s] = [NoFetch EXCEPT !.at = "read", !.strip = strip]]
  /\ UNCHANGED <<rules, strip, held, recorded, used>>

ReadRules(s) ==
  /\ fetch[s].at = "read"
  /\ fetch' = [fetch EXCEPT ![s] =
       [at |-> "answered", strip |-> TRUE, policy |-> BuildAgentUserPolicy(fetch[s].strip, rules)]]
  /\ UNCHANGED <<rules, strip, held, recorded, used>>

\* A read fails or the answer is lost: the policy stays.
FetchFails(s) ==
  /\ fetch[s].at # "idle" /\ used.failures < MaxFetchFailures
  /\ used' = [used EXCEPT !.failures = @ + 1]
  /\ fetch' = [fetch EXCEPT ![s] = NoFetch]
  /\ UNCHANGED <<rules, strip, held, recorded>>

\* A policy is only taken by an agent that has none.
ApplyFirstPolicy(s) ==
  /\ fetch[s].at = "answered"
  /\ held' = [held EXCEPT ![s] = IF @ = NewPolicy THEN fetch[s].policy ELSE @]
  /\ fetch' = [fetch EXCEPT ![s] = NoFetch]
  /\ UNCHANGED <<rules, strip, recorded, used>>

\* FromServer and Holder.Set.
ApplyUserPolicy(s) ==
  /\ fetch[s].at = "answered"
  /\ held' = [held EXCEPT ![s] = fetch[s].policy]
  /\ fetch' = [fetch EXCEPT ![s] = NoFetch]
  /\ UNCHANGED <<rules, strip, recorded, used>>

\* NewHolder.
RestartAgent(s) ==
  /\ used.failures < MaxFetchFailures
  /\ used' = [used EXCEPT !.failures = @ + 1]
  /\ held' = [held EXCEPT ![s] = NewPolicy]
  /\ fetch' = [fetch EXCEPT ![s] = NoFetch]
  /\ UNCHANGED <<rules, strip, recorded>>

\* resolveUser: what agent s labels a sample of this user with, if anything.
ResolveUser(s, raw) == Outcome(held[s], raw)

Collect(s, raw) ==
  /\ ResolveUser(s, raw) \notin recorded \cup {Empty}
  /\ recorded' = recorded \cup {ResolveUser(s, raw)}
  /\ UNCHANGED <<rules, strip, fetch, held, used>>

IdentityNext ==
  \/ \E p \in Pattern :
       \/ \E canonical \in Target \cup {Empty}, ignored \in BOOLEAN :
            UpsertUserMapping(p, canonical, ignored)
       \/ \E ignored \in BOOLEAN : SetUserMappingIgnored(p, ignored)
       \/ DeleteUserMapping(p) \/ QuickIgnoreUser(p)
  \/ UpdateUserPolicy
  \/ \E s \in Station :
       \/ ReadStripDomain(s) \/ ReadRules(s) \/ FetchFails(s) \/ ApplyUserPolicy(s)
       \/ RestartAgent(s)
       \/ \E raw \in RawName : Collect(s, raw)

-----------------------------------------------------------------------------
(* What the server shows.                                                  *)

\* An account counts as ignored when one of its forms is.
HiddenByOne(forms) == \E n \in forms : Resolve(UserPolicy, n).ignored

Hidden(forms) == \A n \in forms : Resolve(UserPolicy, n).ignored

\* ListDiscoveredUsers: recorded names and those of rules, grouped.
ListDiscoveredUsers ==
  LET Names == recorded \cup {p \in Pattern : rules[p] # NoRule /\ p.account # AnyAccount}
      Forms(c) == {n \in Names : Resolve(UserPolicy, n).name = c}
  IN {[canonicalUser |-> c, ignored |-> Hidden(Forms(c))] :
        c \in {Resolve(UserPolicy, n).name : n \in Names} \ {Empty}}

\* A bare pattern is used as it is written.
RegexVerbatim(p, n) == MatchGlob(p, n)

\* globToRegex: a bare pattern also matches with any domain and suffix, and as
\* a domain.
GlobToRegex(p, n) ==
  \/ MatchGlob(p, n)
  \/ /\ p.domain = NoPart
     /\ MatchGlob(p, Bare(n)) \/ MatchGlob(p, Canonicalize(n, TRUE)) \/ MatchGlob(p, Half(n))

\* The labels IgnoreMatcher leaves out: structuralIgnoreRegexes take a name
\* apart at its domain.
IgnoreMatcher(policy, n) ==
  \/ n.account \in Short \ {NoPart} /\ n.domain = NoPart /\ n.upn = NoPart
  \/ LastPart(n) \in Suffixed \/ n.domain \in Reserved
  \/ {n.domain, n.account} \cap Underscored # {}
  \/ \E p \in BuiltInIgnores \cup policy.ignored : GlobToRegex(p, n)

-----------------------------------------------------------------------------
(* Properties.                                                             *)

\* No alias merges into a name that is itself ignored or merged further.
Unchained(policy) ==
  \A p \in DOMAIN policy.aliases :
    Outcome(policy, policy.aliases[p]) = Canonicalize(policy.aliases[p], policy.strip)

\* Whichever way a user's samples come in, a report attributes them to the
\* same person.
Agrees(s) ==
  \A raw \in RawName :
    LET label == ResolveUser(s, raw) IN
      Outcome(UserPolicy, raw) = IF label = Empty THEN Empty ELSE Outcome(UserPolicy, label)

\* Once the rules are left alone, every agent comes to collect under the name
\* a report gives the same raw username, unless aliases form chains (userid.go:
\* "so that a username canonicalized at collection time and one canonicalized
\* at report time agree"), whatever answers were lost or mixed of two states of
\* the rules, and whenever agents restarted.
AgentsAgree == \A s \in Station : <>[](Unchained(UserPolicy) => Agrees(s))

\* Nobody whose samples reports count is missing from the users page or shown
\* there as ignored (ListDiscoveredUsers: "so a rule that ignores one domain's
\* copy does not hide the real user").
CountedUsersShown ==
  \A n \in recorded :
    Outcome(UserPolicy, n) # Empty =>
      \E u \in ListDiscoveredUsers : u.canonicalUser = Outcome(UserPolicy, n) /\ ~u.ignored

\* Names for which the regular expressions say what Resolve says.  They do not
\* for a name with a suffix, for one character or none behind a domain, for an
\* account called NT AUTHORITY, nor, while domains are kept, for an account
\* that begins with "_" behind a domain: Resolve looks at how the whole name
\* begins.
Matchable(policy, n) ==
  /\ n.upn = NoPart /\ n.account \notin Reserved
  /\ n.account \in Short => n.domain = NoPart /\ n.account # NoPart
  /\ n.account \in Underscored => n.domain = NoPart \/ policy.strip

\* Reports that aggregate users away leave out the samples that the others
\* drop one by one, under the labels agents recorded and under the names as
\* the machines have them, Matchable ones (buildLabelFilters: "an ignored
\* account cannot be filtered out after the fact").
MatcherAgrees ==
  \A n \in recorded \cup RawName :
    Matchable(UserPolicy, n) =>
      (IgnoreMatcher(UserPolicy, n) <=> Resolve(UserPolicy, n).ignored)
=============================================================================
