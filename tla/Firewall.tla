------------------------------ MODULE Firewall ------------------------------
(***************************************************************************)
(* The decision GreenSQL takes on a query (Connection::check_query) and    *)
(* the settings it takes it from: the DBPermObj of the query's database,   *)
(* which dbmap_reload refreshes from the tables db_perm and query every    *)
(* five seconds, while learning writes to query and the administrator      *)
(* edits both.  The event loop runs one callback at a time, the reload or  *)
(* a query; the administrator acts between the statements they send to the *)
(* configuration database.                                                 *)
(*                                                                         *)
(* A pattern stands for the queries that normalizeQuery maps to it.  The   *)
(* risk of a query is taken from its text, not from its pattern, so a      *)
(* query of any pattern may have any risk.                                 *)
(***************************************************************************)
EXTENDS Integers, FiniteSets, Functions

CONSTANTS
  Db,           \* databases that may have a row of their own
  Pattern,      \* normalized queries
  Perm,         \* kinds of privileged commands (create, drop, alter, info)
  Needs,        \* Needs[p]: the kinds of command the pattern p matches
  Conn,         \* connections
  StorageType,  \* "mysql" or "pgsql": GreenSQLConfig::sDbType
  AdminStatus,  \* bound: the modes the administrator chooses from
  MaxEdits,     \* bound: edits of the administrator
  DbMayFail     \* a statement on the configuration database may fail

ASSUME FirewallAssumption ==
  /\ Needs \in [Pattern -> SUBSET Perm]
  /\ StorageType \in {"mysql", "pgsql"}
  /\ MaxEdits \in Nat /\ DbMayFail \in BOOLEAN

\* The values of DBBlockStatus.
Learning == {"LEARNING_MODE", "LEARNING_MODE_3DAYS", "LEARNING_MODE_7DAYS"}
Simulation == {"RISK_SIMULATION", "PRIVILEGE_SIMULATION"}
Status == Learning \cup Simulation
            \cup {"RISK_BLOCK", "PRIVILEGE_BLOCK", "ALWAYS_BLOCK_NEW"}

ASSUME AdminAssumption == AdminStatus \subseteq Status

\* The keys of dbs: databases, and the two rows for any other database and for
\* connections without one.  builtin is the object default_db points to.
System == {"default", "empty"}
Key == Db \cup System
NoName == "noname"

VARIABLES
  perm,     \* the table db_perm: a row per key
  query,    \* the table query: per key and pattern, the number of rows with
            \* perm > 0, of those with perm = 0, and (history) of the rows
            \* that learning has inserted
  dbs,      \* the map dbs: a DBPermObj per key
  conn,     \* Connection::db of each connection
  pc,       \* where dbmap_reload or AddToWhitelist is
  rows,     \* the rows dbmap_reload has still to fetch
  pending,  \* the row AddToWhitelist is about to insert, if any
  learned,  \* history: patterns learning has stored, by key
  last,     \* history: the last decision
  edits,    \* number of edits so far
  edited    \* history: edited since the reload began, or it failed

vars == <<perm, query, dbs, conn, pc, rows, pending, learned, last, edits, edited>>

\* Time since status_changed: 0 up to three days, 1 up to seven, 2 more.
Age == 0..2
PermRow == [perms : SUBSET Perm, status : Status, age : Age]
DBPermObj == [perms : SUBSET Perm, status : Status, exceptions : SUBSET Pattern]
builtin == [perms |-> {}, status |-> "RISK_BLOCK", exceptions |-> {}]

Idle == [by |-> "none"]
Decision ==
  [by : {"query"}, key : Key \cup {"builtin"}, pattern : Pattern, status : Status,
   privileged : BOOLEAN, risk : {"low", "warn", "high"},
   allowed : BOOLEAN, logged : {"none", "warn", "high", "blocked", "learned"}]

Object(k) == IF k = "builtin" THEN builtin ELSE dbs[k]

\* The table or map f with the row or object v under the key k.
With(f, k, v) == [x \in DOMAIN f \cup {k} |-> IF x = k THEN v ELSE f[x]]

----------------------------------------------------------------------------
(* The tables as they are shipped, nothing loaded yet.                     *)

Init ==
  /\ perm = [k \in System |-> [perms |-> {}, status |-> "RISK_BLOCK", age |-> 2]]
  /\ query = [k \in Key |-> [p \in Pattern |-> [allow |-> 0, deny |-> 0, auto |-> 0]]]
  /\ dbs = <<>>
  /\ conn = [c \in Conn |-> "builtin"]
  /\ pc = "idle" /\ rows = {} /\ pending = {}
  /\ learned = {} /\ last = Idle
  /\ edits = 0 /\ edited = TRUE

----------------------------------------------------------------------------
(* dbmap_find and dbmap_default.                                           *)

\* Mutant: the name is taken whether or not it was found.
dbmap_find_Unchecked(name) == name

dbmap_find(name) ==
  LET fallback == IF name = NoName THEN "empty" ELSE "default"
  IN  IF name \in DOMAIN dbs THEN name
      ELSE IF fallback \in DOMAIN dbs THEN fallback ELSE "builtin"

\* A connection logs in, or changes its database.
UseDatabase(c) ==
  /\ pc = "idle"
  /\ \E name \in Db \cup {NoName} : conn' = [conn EXCEPT ![c] = dbmap_find(name)]
  /\ last' = Idle
  /\ UNCHANGED <<perm, query, dbs, pc, rows, pending, learned, edits, edited>>

----------------------------------------------------------------------------
(* check_query.                                                            *)

\* Mutant: simulation of privileged commands blocks them.
Allowed_SimulationBlocks(status, privileged, risk) ==
  /\ status # "ALWAYS_BLOCK_NEW"
  /\ privileged => status \in Learning \cup {"RISK_SIMULATION"}
  /\ risk = "high" => status # "RISK_BLOCK"

\* The verdict on a query that is not in the whitelist.
Allowed(status, privileged, risk) ==
  /\ status # "ALWAYS_BLOCK_NEW"
  /\ privileged => status \notin {"PRIVILEGE_BLOCK", "RISK_BLOCK"}
  /\ risk = "high" => status # "RISK_BLOCK"

\* Mutant: the level follows the risk alone.
Logged_RiskOnly(status, privileged, risk) ==
  IF status \in Learning THEN "learned"
  ELSE IF risk = "high" THEN IF status = "RISK_BLOCK" THEN "blocked" ELSE "high"
  ELSE IF risk = "warn" THEN "warn" ELSE "none"

\* What is written to the log of alerts: the level of logalert, or "learned"
\* for logwhitelist.
Logged(status, privileged, risk) ==
  IF status = "ALWAYS_BLOCK_NEW" THEN "blocked"
  ELSE IF privileged /\ status \in {"PRIVILEGE_BLOCK", "RISK_BLOCK"} THEN "blocked"
  ELSE IF status \in Learning THEN "learned"
  ELSE IF privileged THEN "high"
  ELSE IF risk = "high" THEN IF status = "RISK_BLOCK" THEN "blocked" ELSE "high"
  ELSE IF risk = "warn" THEN "warn" ELSE "none"

\* Mutant: the row is inserted without looking for one.
AddToWhitelist_Always(k, p) == {{<<k, p>>}}

\* The SELECT of AddToWhitelist: the row to insert, none if there is one,
\* whatever its perm, or if the statement fails.
AddToWhitelist(k, p) ==
  {IF query[k][p].allow + query[k][p].deny > 0 THEN {} ELSE {<<k, p>>}}
  \cup IF DbMayFail THEN {{}} ELSE {}

check_query(c, p, risk) ==
  LET k == conn[c]
      db == Object(k)
      whitelisted == p \in db.exceptions
      privileged == ~(Needs[p] \subseteq db.perms)
      learns == ~whitelisted /\ db.status \in Learning
  IN  /\ pc = "idle"
      /\ pending' \in IF learns THEN AddToWhitelist(k, p) ELSE {{}}
      /\ pc' = IF pending' = {} THEN "idle" ELSE "insert"
      /\ last' = [by |-> "query", key |-> k, pattern |-> p, status |-> db.status,
                  privileged |-> privileged, risk |-> risk,
                  allowed |-> whitelisted \/ Allowed(db.status, privileged, risk),
                  logged |-> IF whitelisted THEN "none"
                             ELSE Logged(db.status, privileged, risk)]
      /\ UNCHANGED <<perm, query, dbs, conn, rows, learned, edits, edited>>

\* The INSERT of AddToWhitelist.
InsertRow ==
  /\ pc = "insert" /\ pc' = "idle" /\ pending' = {}
  /\ \/ \E r \in pending :
          /\ query' = [query EXCEPT ![r[1]][r[2]] =
                         [allow |-> @.allow + 1, deny |-> @.deny, auto |-> @.auto + 1]]
          /\ learned' = learned \cup {r}
     \/ DbMayFail /\ UNCHANGED <<query, learned>>
  /\ last' = Idle
  /\ UNCHANGED <<perm, dbs, conn, rows, edits, edited>>

----------------------------------------------------------------------------
(* dbmap_reload.  It returns at the first statement that fails, but for    *)
(* LoadWhitelist, whose failure keeps the old whitelist.                   *)

\* "UPDATE db_perm SET status = 4 WHERE status = s AND" status_changed is long
\* enough ago.
Expire(t, s, age) ==
  [k \in DOMAIN t |->
     IF t[k].status = s /\ t[k].age >= age
     THEN [t[k] EXCEPT !.status = "ALWAYS_BLOCK_NEW"] ELSE t[k]]

\* Mutant: in MySQL, too, the second update names the mode of three days.
q_learning7_ThreeDays(t) == Expire(t, "LEARNING_MODE_3DAYS", 2)

q_learning3(t) == Expire(t, "LEARNING_MODE_3DAYS", 1)
\* For tables in PostgreSQL the second update names the mode of three days.
q_learning7(t) ==
  Expire(t, IF StorageType = "mysql" THEN "LEARNING_MODE_7DAYS"
            ELSE "LEARNING_MODE_3DAYS", 2)

EndLearning ==
  /\ pc = "idle"
  /\ perm' = q_learning7(q_learning3(perm))
  /\ pc' = "select"
  /\ edited' = FALSE
  /\ last' = Idle
  /\ UNCHANGED <<query, dbs, conn, rows, pending, learned, edits>>

\* The rows of db_perm of the given keys, as a SELECT returns them.
Fetched(keys) ==
  {[key |-> k, perms |-> perm[k].perms, status |-> perm[k].status] :
     k \in keys \cap DOMAIN perm}

SelectRows ==
  /\ pc = "select" /\ pc' = "rows" /\ rows' = Fetched(Db)
  /\ UNCHANGED <<perm, query, dbs, conn, pending, learned, last, edits, edited>>

SelectDefaults ==
  /\ pc = "rows" /\ rows = {}
  /\ pc' = "defaults" /\ rows' = Fetched(System)
  /\ UNCHANGED <<perm, query, dbs, conn, pending, learned, last, edits, edited>>

\* Mutants: the rows that revoke a query are read as well; the whitelist is
\* read only once.
LoadWhitelist_AnyPerm(k) == {p \in Pattern : query[k][p].allow + query[k][p].deny > 0}
LoadWhitelist_Once(k) ==
  IF k \in DOMAIN dbs THEN dbs[k].exceptions ELSE {p \in Pattern : query[k][p].allow > 0}

\* DBPermObj::LoadWhitelist: the queries of the database with perm > 0.
LoadWhitelist(k) == {p \in Pattern : query[k][p].allow > 0}

\* DBPermObj::Init only ever sets the permissions of an object.
DBPermObj_Init(old, row) ==
  [old EXCEPT !.status = row.status, !.perms = @ \cup row.perms]

\* Mutant: a whitelist that cannot be read is taken for an empty one.
LoadRow_Forgets ==
  /\ pc \in {"rows", "defaults"}
  /\ \E r \in rows :
       LET old == IF r.key \in DOMAIN dbs THEN dbs[r.key] ELSE builtin
       IN  /\ rows' = rows \ {r}
           /\ \E w \in {LoadWhitelist(r.key)} \cup IF DbMayFail THEN {{}} ELSE {} :
                dbs' = With(dbs, r.key, [DBPermObj_Init(old, r) EXCEPT !.exceptions = w])
  /\ UNCHANGED <<perm, query, conn, pc, pending, learned, last, edits, edited>>

\* The settings of a row are taken over before its whitelist is read; when that
\* fails the old whitelist stays.
LoadRow ==
  /\ pc \in {"rows", "defaults"}
  /\ \E r \in rows :
       LET old == IF r.key \in DOMAIN dbs THEN dbs[r.key] ELSE builtin
       IN  /\ rows' = rows \ {r}
           /\ \E w \in {LoadWhitelist(r.key)} \cup IF DbMayFail THEN {old.exceptions} ELSE {} :
                dbs' = With(dbs, r.key, [DBPermObj_Init(old, r) EXCEPT !.exceptions = w])
  /\ UNCHANGED <<perm, query, conn, pc, pending, learned, last, edits, edited>>

ReloadDone ==
  /\ pc = "defaults" /\ rows = {} /\ pc' = "idle"
  /\ UNCHANGED <<perm, query, dbs, conn, rows, pending, learned, last, edits, edited>>

\* A statement of dbmap_reload fails: one of the SELECTs, or the second update.
ReloadFails ==
  /\ DbMayFail
  /\ \/ pc = "idle" /\ perm' = q_learning3(perm)
     \/ pc = "select" /\ UNCHANGED perm
     \/ pc = "rows" /\ rows = {} /\ UNCHANGED perm
  /\ pc' = "idle" /\ edited' = TRUE /\ last' = Idle
  /\ UNCHANGED <<query, dbs, conn, rows, pending, learned, edits>>

----------------------------------------------------------------------------
(* The administrator, and time.                                            *)

Edit ==
  /\ edits < MaxEdits /\ edits' = edits + 1
  /\ edited' = TRUE /\ last' = Idle

AdminAddsDatabase(k) ==
  /\ Edit /\ k \notin DOMAIN perm
  /\ perm' = With(perm, k, [perms |-> {}, status |-> "RISK_BLOCK", age |-> 2])
  /\ UNCHANGED <<query, dbs, conn, pc, rows, pending, learned>>

\* The row goes; the object in dbs stays until the program ends.
AdminRemovesDatabase(k) ==
  /\ Edit /\ k \in DOMAIN perm \cap Db
  /\ perm' = Restrict(perm, DOMAIN perm \ {k})
  /\ UNCHANGED <<query, dbs, conn, pc, rows, pending, learned>>

AdminSetsMode(k) ==
  /\ Edit /\ k \in DOMAIN perm
  /\ \E s \in AdminStatus :
       perm' = [perm EXCEPT ![k] = [@ EXCEPT !.status = s, !.age = 0]]
  /\ UNCHANGED <<query, dbs, conn, pc, rows, pending, learned>>

AdminSetsPerms(k) ==
  /\ Edit /\ k \in DOMAIN perm
  /\ \E ps \in SUBSET Perm : perm' = [perm EXCEPT ![k].perms = ps]
  /\ UNCHANGED <<query, dbs, conn, pc, rows, pending, learned>>

\* A row of the whitelist is disabled, or a query is approved by hand.
AdminRevokes(k, p) ==
  /\ Edit /\ query[k][p].allow > 0
  /\ query' = [query EXCEPT ![k][p] = [@ EXCEPT !.allow = 0, !.deny = query[k][p].allow]]
  /\ learned' = learned \ {<<k, p>>}
  /\ UNCHANGED <<perm, dbs, conn, pc, rows, pending>>

AdminApproves(k, p) ==
  /\ Edit /\ query[k][p].allow + query[k][p].deny = 0
  /\ query' = [query EXCEPT ![k][p].allow = 1]
  /\ UNCHANGED <<perm, dbs, conn, pc, rows, pending, learned>>

TimePasses ==
  /\ \E k \in DOMAIN perm :
       perm[k].age < 2 /\ perm' = [perm EXCEPT ![k].age = @ + 1]
  /\ last' = Idle
  /\ UNCHANGED <<query, dbs, conn, pc, rows, pending, learned, edits, edited>>

Reloading == EndLearning \/ SelectRows \/ LoadRow \/ SelectDefaults \/ ReloadDone

Next ==
  \/ Reloading \/ ReloadFails \/ InsertRow \/ TimePasses
  \/ \E c \in Conn :
       \/ UseDatabase(c)
       \/ \E p \in Pattern, risk \in {"low", "warn", "high"} : check_query(c, p, risk)
  \/ \E k \in Key :
       \/ AdminAddsDatabase(k) \/ AdminRemovesDatabase(k)
       \/ AdminSetsMode(k) \/ AdminSetsPerms(k)
       \/ \E p \in Pattern : AdminRevokes(k, p) \/ AdminApproves(k, p)

Spec == Init /\ [][Next]_vars

----------------------------------------------------------------------------
(* Properties.                                                             *)

\* The type of every variable.
TypeOK ==
  /\ \E D \in SUBSET Key : perm \in [D -> PermRow]
  /\ query \in [Key -> [Pattern -> [allow : Nat, deny : Nat, auto : Nat]]]
  /\ \E D \in SUBSET Key : dbs \in [D -> DBPermObj]
  /\ conn \in [Conn -> Key \cup {"builtin"}]
  /\ pc \in {"idle", "insert", "select", "rows", "defaults"}
  /\ rows \subseteq [key : Key, perms : SUBSET Perm, status : Status]
  /\ pending \subseteq Key \X Pattern
  /\ learned \subseteq Key \X Pattern
  /\ last \in Decision \cup {Idle}
  /\ edits \in 0..MaxEdits /\ edited \in BOOLEAN

\* A pattern leaves the whitelist in memory only when the table does not allow
\* it any more: no statement that fails and no mode that changes takes it away.
WhitelistKept ==
  [][\A k \in DOMAIN dbs : \A p \in dbs[k].exceptions :
       p \in dbs'[k].exceptions \/ query[k][p].allow = 0]_vars

Decided == last.by = "query"

\* What the modes promise: simulation and learning let every query pass, and
\* what blocks a query in the other modes is what their comments name.
ModeKept ==
  Decided /\ ~last.allowed =>
    /\ last.status \notin Simulation \cup Learning
    /\ last.status = "PRIVILEGE_BLOCK" => last.privileged
    /\ last.status = "RISK_BLOCK" => last.privileged \/ last.risk = "high"

\* The log of alerts says "blocked" of the queries that were blocked and of no
\* others, and every privileged or risky query that was not whitelisted leaves
\* a trace.
LogTellsTheTruth ==
  Decided =>
    /\ ~last.allowed <=> last.logged = "blocked"
    /\ last.logged = "none" /\ (last.privileged \/ last.risk = "high")
         => last.pattern \in Object(last.key).exceptions

\* Learning inserts a pattern once, although the whitelist in memory does not
\* know what was learned since the last reload.
NoDuplicateRows == \A k \in Key, p \in Pattern : query[k][p].auto <= 1

\* A query that was learned is not blocked as new when learning is over, unless
\* the administrator has revoked it.
LearnedIsAllowed ==
  Decided /\ last.status = "ALWAYS_BLOCK_NEW" /\ <<last.key, last.pattern>> \in learned
    => last.allowed

\* When an undisturbed reload is over, a new connection to any database is
\* judged in the mode of the database's row, and the whitelist in memory holds
\* nothing that the table does not allow.
SettingsApplied ==
  pc = "idle" /\ ~edited =>
    \A k \in DOMAIN perm :
      /\ k \in Db => dbmap_find(k) = k
      /\ k \in DOMAIN dbs /\ dbs[k].status = perm[k].status
      /\ \A p \in dbs[k].exceptions : query[k][p].allow > 0

Fairness ==
  /\ WF_vars(EndLearning) /\ WF_vars(SelectRows) /\ WF_vars(LoadRow)
  /\ WF_vars(SelectDefaults) /\ WF_vars(ReloadDone) /\ WF_vars(InsertRow)

FairSpec == Spec /\ Fairness

\* The learning modes of three and seven days end: once the period is over, and
\* nobody renews it, the database leaves the mode.
LearningEnds ==
  \A k \in Key :
    <>[](k \in DOMAIN perm /\ perm[k].age = 2)
      => <>[](k \in DOMAIN dbs /\ dbs[k].status \notin
                {"LEARNING_MODE_3DAYS", "LEARNING_MODE_7DAYS"})

----------------------------------------------------------------------------
(* What a comment says, and the code does not do.                          *)

\* "reload settings": after an undisturbed reload the permissions in memory are
\* those of the table.
PermsApplied ==
  pc = "idle" /\ ~edited =>
    \A k \in DOMAIN perm : k \in DOMAIN dbs /\ dbs[k].perms = perm[k].perms
=============================================================================
