------------------------------- MODULE Mappings -------------------------------
(***************************************************************************)
(* The software mappings and the pushes they rewrite                       *)
(* (server/internal/api/mappings.go, metrics_ingest.go, PushAgentMetrics   *)
(* in agents.go, and the software_mappings table of postgres.go).  The     *)
(* table is unique by the exact spelling of the exe name, and everything   *)
(* else compares names without case: of two rows of one executable the one *)
(* that sorts last counts.  A push reads the whole table, then inserts     *)
(* what it did not find, then stores what it rewrote; administrators look  *)
(* for a collision first and write afterwards.  Titles stand for display   *)
(* name and category together.                                             *)
(***************************************************************************)
EXTENDS Naturals, FiniteSets

CONSTANTS
  Pusher,      \* agents
  Exe, NoExe,  \* executables, as names without case
  Name,        \* spellings, the lowercase ones among them
  ExeOf,       \* the executable a spelling names, or NoExe
  Lower,       \* the lowercase spelling of each executable
  Rank,        \* the order of the table's collation
  Title,       \* display names
  OwnTitle,    \* what an agent itself calls each executable
  NameFor,     \* the spelling equal to a title, for rows made from a title
  BuiltIn,     \* executables that are never catalogued
  Editor,      \* requests of administrators at the same time
  NoRow, Unknown,
  MaxEdits, MaxFailures   \* bounds: requests; reads and writes that fail

Row == [title : Title, source : {"auto", "manual", "user"}, ignored : BOOLEAN]

ASSUME MappingsAssumption ==
  /\ ExeOf \in [Name -> Exe \cup {NoExe}] /\ NoExe \notin Exe
  /\ Lower \in [Exe -> Name] /\ \A x \in Exe : ExeOf[Lower[x]] = x
  /\ Rank \in [Name -> Nat] /\ \A n, m \in Name : Rank[n] = Rank[m] => n = m
  /\ OwnTitle \in [Exe -> Title] /\ NameFor \in [Title -> Name]
  /\ BuiltIn \subseteq Exe /\ NoRow \notin Row /\ Pusher \cap Editor = {}
  /\ MaxEdits \in Nat /\ MaxFailures \in Nat

VARIABLES
  rows,     \* software_mappings
  ingest,   \* the push of each agent: how far, and the table it read
  catalog,  \* what the snapshot of each agent calls each executable
  edit,     \* the request of each editor
  stale,    \* history: requests whose look at the table is out of date
  raced,    \* history: executables written by such a request
  spent     \* requests and failures so far

mappingsVars == <<rows, ingest, catalog, edit, stale, raced, spent>>

NoPush == [at |-> "idle", table |-> Unknown]
NoEdit == [at |-> "idle", name |-> NoRow, row |-> NoRow]
Writer == Pusher \cup Editor

Mapped(table, x) == {n \in Name : ExeOf[n] = x /\ table[n] # NoRow}
Last(names) == CHOOSE n \in names : \A m \in names : Rank[m] <= Rank[n]
First(names) == CHOOSE n \in names : \A m \in names : Rank[n] <= Rank[m]

\* What becomes of the samples of an executable: GetMappingsMap and
\* applyMappingsToFamilies.  "dropped" is no title.
Rewrite(table, x) ==
  IF table = Unknown THEN OwnTitle[x]
  ELSE IF Mapped(table, x) = {} THEN IF x \in BuiltIn THEN "dropped" ELSE OwnTitle[x]
  ELSE LET row == table[Last(Mapped(table, x))] IN
       IF row.ignored THEN "dropped"
       ELSE IF row.source = "auto" THEN OwnTitle[x] ELSE row.title

MappingsInit ==
  /\ rows = [n \in Name |-> NoRow]
  /\ ingest = [a \in Pusher |-> NoPush]
  /\ catalog = [a \in Pusher |-> [x \in Exe |-> "dropped"]]
  /\ edit = [e \in Editor |-> NoEdit]
  /\ stale = {} /\ raced = {}
  /\ spent = [edits |-> 0, failures |-> 0]

CanFail == spent.failures < MaxFailures
Failed == spent' = [spent EXCEPT !.failures = @ + 1]

\* Writer w has written rows of the executables X: whoever looked before and
\* has yet to write is out of date.
Note(w, X) ==
  /\ raced' = IF w \in stale THEN raced \cup X ELSE raced
  /\ stale' = IF rows' = rows THEN stale \ {w}
              ELSE (stale \cup {v \in Writer : IF v \in Pusher THEN ingest[v].at = "loaded"
                                              ELSE edit[v].at # "idle"}) \ {w}

Looked(w) == stale' = stale \ {w}
LookedInVain(w) == stale' = stale \cup {w}

-----------------------------------------------------------------------------
(* Pushes.                                                                 *)

\* GetMappingsMap; if it fails the body is stored as it is.
LoadMappings(a) ==
  /\ ingest[a].at = "idle"
  /\ \/ /\ ingest' = [ingest EXCEPT ![a] = [at |-> "loaded", table |-> rows]]
        /\ Looked(a) /\ UNCHANGED spent
     \/ /\ CanFail /\ Failed
        /\ ingest' = [ingest EXCEPT ![a] = [at |-> "inserted", table |-> Unknown]]
        /\ UNCHANGED stale
  /\ UNCHANGED <<rows, catalog, edit, raced>>

\* applyMappingsToFamilies: what is in no row and not built in.
Discovered(table) == {x \in Exe \ BuiltIn : Mapped(table, x) = {}}

AutoRow(x) == [title |-> OwnTitle[x], source |-> "auto", ignored |-> FALSE]

\* BatchAutoInsertMappings: ON CONFLICT DO NOTHING.
AutoInsert(a) ==
  /\ ingest[a].at = "loaded"
  /\ LET X == Discovered(ingest[a].table) IN
       \/ /\ rows' = [n \in Name |->
               IF rows[n] = NoRow /\ \E x \in X : n = Lower[x] THEN AutoRow(ExeOf[n]) ELSE rows[n]]
          /\ Note(a, X) /\ UNCHANGED spent
       \/ /\ X # {} /\ CanFail /\ Failed
          /\ Looked(a) /\ UNCHANGED <<rows, raced>>
  /\ ingest' = [ingest EXCEPT ![a].at = "inserted"]
  /\ UNCHANGED <<catalog, edit>>

\* A body that calls nothing as the stored one does is not stored.
StoreOnce(a) ==
  /\ ingest[a].at = "inserted"
  /\ catalog' = [catalog EXCEPT ![a] =
       [x \in Exe |-> IF @[x] = "dropped" THEN Rewrite(ingest[a].table, x) ELSE @[x]]]
  /\ ingest' = [ingest EXCEPT ![a] = NoPush]
  /\ UNCHANGED <<rows, edit, stale, raced, spent>>

\* metricsStore.Set.
StoreRewritten(a) ==
  /\ ingest[a].at = "inserted"
  /\ catalog' = [catalog EXCEPT ![a] = [x \in Exe |-> Rewrite(ingest[a].table, x)]]
  /\ ingest' = [ingest EXCEPT ![a] = NoPush]
  /\ UNCHANGED <<rows, edit, stale, raced, spent>>

-----------------------------------------------------------------------------
(* Administrators.                                                         *)

Starts(e) ==
  /\ edit[e] = NoEdit /\ spent.edits < MaxEdits

\* Names are compared as they are spelled.
CollidesAsSpelled(n) == FALSE

\* findCaseCollision: the row that counts is spelled otherwise.
Collides(n) ==
  ExeOf[n] # NoExe /\ Mapped(rows, ExeOf[n]) # {} /\ Last(Mapped(rows, ExeOf[n])) # n

\* CreateMapping and UpdateMapping up to the write: a collision refuses the
\* request, a failed look does not.
CheckMappingCaseCollision(e, n) ==
  /\ Starts(e)
  /\ \E t \in Title, ignored \in BOOLEAN :
       edit' = [edit EXCEPT ![e] =
         [at |-> "checked", name |-> n,
          row |-> [title |-> t, source |-> "manual", ignored |-> ignored]]]
  /\ \/ ~Collides(n) /\ Looked(e) /\ spent' = [spent EXCEPT !.edits = @ + 1]
     \/ /\ CanFail /\ LookedInVain(e)
        /\ spent' = [edits |-> spent.edits + 1, failures |-> spent.failures + 1]
  /\ UNCHANGED <<rows, ingest, catalog, raced>>

\* Rows QuickIgnoreApp takes for a title: by display name or by exe name.
Called(t) ==
  {n \in Name : rows[n] # NoRow /\
     (rows[n].title = t \/ n = NameFor[t] \/ (ExeOf[n] # NoExe /\ ExeOf[n] = ExeOf[NameFor[t]]))}

\* QuickIgnoreApp up to the write: the first such row, or a new one.
QuickIgnoreApp(e, t) ==
  /\ Starts(e)
  /\ edit' = [edit EXCEPT ![e] =
       IF Called(t) # {}
       THEN [at |-> "found", name |-> First(Called(t)), row |-> NoRow]
       ELSE [at |-> "checked", name |-> NameFor[t],
             row |-> [title |-> t, source |-> "user", ignored |-> TRUE]]]
  /\ Looked(e)
  /\ spent' = [spent EXCEPT !.edits = @ + 1]
  /\ UNCHANGED <<rows, ingest, catalog, raced>>

\* ON CONFLICT (exe_name) DO UPDATE.
UpsertMapping(e) ==
  /\ edit[e].at = "checked"
  /\ rows' = [rows EXCEPT ![edit[e].name] = edit[e].row]
  /\ Note(e, {ExeOf[edit[e].name]} \ {NoExe})
  /\ edit' = [edit EXCEPT ![e] = NoEdit]
  /\ UNCHANGED <<ingest, catalog, spent>>

\* By id: a row deleted since is not found.
SetMappingIgnored(e) ==
  /\ edit[e].at = "found"
  /\ rows' = [rows EXCEPT ![edit[e].name].ignored = TRUE]
  /\ edit' = [edit EXCEPT ![e] = NoEdit]
  /\ Looked(e)
  /\ UNCHANGED <<ingest, catalog, raced, spent>>

\* One statement each.
ToggleMappingIgnored(n) ==
  /\ rows[n] # NoRow /\ spent.edits < MaxEdits
  /\ rows' = [rows EXCEPT ![n].ignored = ~@]
  /\ spent' = [spent EXCEPT !.edits = @ + 1]
  /\ UNCHANGED <<ingest, catalog, edit, stale, raced>>

DeleteMapping(n) ==
  /\ rows[n] # NoRow /\ spent.edits < MaxEdits
  /\ rows' = [rows EXCEPT ![n] = NoRow]
  /\ edit' = [e \in Editor |-> IF edit[e].at = "found" /\ edit[e].name = n THEN NoEdit ELSE edit[e]]
  /\ spent' = [spent EXCEPT !.edits = @ + 1]
  /\ UNCHANGED <<ingest, catalog, stale, raced>>

MappingsNext ==
  \/ \E a \in Pusher : LoadMappings(a) \/ AutoInsert(a) \/ StoreRewritten(a)
  \/ \E e \in Editor :
       \/ \E n \in Name : CheckMappingCaseCollision(e, n)
       \/ \E t \in Title : QuickIgnoreApp(e, t)
       \/ UpsertMapping(e) \/ SetMappingIgnored(e)
  \/ \E n \in Name : ToggleMappingIgnored(n) \/ DeleteMapping(n)

-----------------------------------------------------------------------------
(* Properties.                                                             *)

\* Two rows of one executable, of which one silently has no effect, come only
\* from a writer whose look at the table failed or was overtaken
\* (checkMappingCaseCollision: "Without this check, adding excel.exe alongside
\* an auto-discovered EXCEL.EXE creates two rows that silently collide").
OneRowPerExe == \A x \in Exe \ raced : Cardinality(Mapped(rows, x)) <= 1

\* Once the table is left alone, every agent's snapshot comes to call each
\* executable what the table says, whatever pushes read and wrote before: an
\* application that is ignored stays out, a reviewed title replaces the
\* agent's, and an inserted row changes nothing.
MappingsFollow ==
  \A a \in Pusher, x \in Exe, t \in Title \cup {"dropped"} :
    <>[](Rewrite(rows, x) = t) => <>[](catalog[a][x] = t)
=============================================================================
