--------------------------- MODULE FirewallProofs ---------------------------
(***************************************************************************)
(* Proofs about Firewall, for all sets of databases, patterns and          *)
(* connections, any number of edits, and both storage types.               *)
(***************************************************************************)
EXTENDS Firewall, TLAPS

----------------------------------------------------------------------------
(* Tables and maps with a row or an object for some of the keys.           *)

\* A map is typed when its keys and its values are.
LEMMA TypedMap ==
  ASSUME NEW f, NEW T
  PROVE  (\E D \in SUBSET Key : f \in [D -> T])
           <=> DOMAIN f \in SUBSET Key /\ f \in [DOMAIN f -> T]
  OBVIOUS

\* With adds one key and leaves the others alone.
LEMMA WithKeeps ==
  ASSUME NEW f, NEW k, NEW v
  PROVE  /\ DOMAIN With(f, k, v) = DOMAIN f \cup {k}
         /\ With(f, k, v)[k] = v
         /\ \A x \in DOMAIN f : x # k => With(f, k, v)[x] = f[x]
  BY DEF With

LEMMA WithTyped ==
  ASSUME NEW f, NEW T, NEW k \in Key, NEW v \in T,
         \E D \in SUBSET Key : f \in [D -> T]
  PROVE  \E D \in SUBSET Key : With(f, k, v) \in [D -> T]
<1>1. DOMAIN f \in SUBSET Key /\ f \in [DOMAIN f -> T]
  BY TypedMap
<1>2. With(f, k, v) \in [DOMAIN f \cup {k} -> T]
  BY <1>1 DEF With
<1>3. DOMAIN f \cup {k} \in SUBSET Key
  BY <1>1
<1> QED BY <1>2, <1>3

\* The rows for one pattern of one database change, all others stay.
QueryRow == [allow : Nat, deny : Nat, auto : Nat]

LEMMA RowChanged ==
  ASSUME query \in [Key -> [Pattern -> QueryRow]],
         NEW k \in Key, NEW p \in Pattern, NEW v \in QueryRow,
         query' = [query EXCEPT ![k][p] = v]
  PROVE  /\ query' \in [Key -> [Pattern -> QueryRow]]
         /\ query'[k][p] = v
         /\ \A i \in Key, j \in Pattern : i # k \/ j # p => query'[i][j] = query[i][j]
<1>1. query' = [query EXCEPT ![k] = [query[k] EXCEPT ![p] = v]]
  OBVIOUS
<1>2. [query[k] EXCEPT ![p] = v] \in [Pattern -> QueryRow]
  OBVIOUS
<1> QED BY <1>1, <1>2

\* Learning adds a row that allows: what InsertRow does to the table.
Inserted(k, p) ==
  query' = [query EXCEPT ![k][p] =
              [allow |-> @.allow + 1, deny |-> @.deny, auto |-> @.auto + 1]]

LEMMA RowInserted ==
  ASSUME query \in [Key -> [Pattern -> QueryRow]], NEW k \in Key, NEW p \in Pattern,
         Inserted(k, p)
  PROVE  /\ query' \in [Key -> [Pattern -> QueryRow]]
         /\ query'[k][p].allow = query[k][p].allow + 1
         /\ query'[k][p].deny = query[k][p].deny
         /\ query'[k][p].auto = query[k][p].auto + 1
         /\ \A i \in Key, j \in Pattern : i # k \/ j # p => query'[i][j] = query[i][j]
<1> DEFINE v == [allow |-> query[k][p].allow + 1, deny |-> query[k][p].deny,
                 auto |-> query[k][p].auto + 1]
<1>1. query[k][p] \in QueryRow
  OBVIOUS
<1>2. /\ v \in QueryRow
      /\ v.allow = query[k][p].allow + 1 /\ v.deny = query[k][p].deny
      /\ v.auto = query[k][p].auto + 1
  BY <1>1 DEF QueryRow
<1>3. query' = [query EXCEPT ![k][p] = v]
  BY DEF Inserted
<1> HIDE DEF v
<1> QED BY <1>2, <1>3, RowChanged

\* The administrator revokes the rows that allow.
LEMMA RowsRevoked ==
  ASSUME query \in [Key -> [Pattern -> QueryRow]], NEW k \in Key, NEW p \in Pattern,
         AdminRevokes(k, p)
  PROVE  /\ query' \in [Key -> [Pattern -> QueryRow]]
         /\ query'[k][p].allow = 0
         /\ query'[k][p].deny = query[k][p].allow
         /\ query'[k][p].auto = query[k][p].auto
         /\ \A i \in Key, j \in Pattern : i # k \/ j # p => query'[i][j] = query[i][j]
<1> DEFINE v == [query[k][p] EXCEPT !.allow = 0, !.deny = query[k][p].allow]
<1>1. query[k][p] \in QueryRow
  OBVIOUS
<1>2. /\ v \in QueryRow
      /\ v.allow = 0 /\ v.deny = query[k][p].allow /\ v.auto = query[k][p].auto
  BY <1>1 DEF QueryRow
<1>3. query' = [query EXCEPT ![k][p] = v]
  BY DEF AdminRevokes
<1> HIDE DEF v
<1> QED BY <1>2, <1>3, RowChanged

\* The administrator approves a pattern the table does not have.
LEMMA RowApproved ==
  ASSUME query \in [Key -> [Pattern -> QueryRow]], NEW k \in Key, NEW p \in Pattern,
         AdminApproves(k, p)
  PROVE  /\ query' \in [Key -> [Pattern -> QueryRow]]
         /\ query'[k][p].allow = 1
         /\ query'[k][p].deny = query[k][p].deny
         /\ query'[k][p].auto = query[k][p].auto
         /\ \A i \in Key, j \in Pattern : i # k \/ j # p => query'[i][j] = query[i][j]
<1> DEFINE v == [query[k][p] EXCEPT !.allow = 1]
<1>1. query[k][p] \in QueryRow
  OBVIOUS
<1>2. /\ v \in QueryRow
      /\ v.allow = 1 /\ v.deny = query[k][p].deny /\ v.auto = query[k][p].auto
  BY <1>1 DEF QueryRow
<1>3. query' = [query EXCEPT ![k][p] = v]
  BY DEF AdminApproves
<1> HIDE DEF v
<1> QED BY <1>2, <1>3, RowChanged

----------------------------------------------------------------------------
(* Types.                                                                  *)

\* A connection's settings are an object in dbs or the built-in one.
ConnKnown == \A c \in Conn : conn[c] \in DOMAIN dbs \cup {"builtin"}

Typed == TypeOK /\ ConnKnown

\* What a connection is given exists.
LEMMA Find ==
  ASSUME NEW name
  PROVE  dbmap_find(name) \in DOMAIN dbs \cup {"builtin"}
  BY DEF dbmap_find

LEMMA TypedInit ==
  ASSUME Init
  PROVE  Typed
<1>1. perm \in [System -> PermRow] /\ System \in SUBSET Key
  BY DEF Init, PermRow, Age, Status, Key
<1>2. \E D \in SUBSET Key : dbs \in [D -> DBPermObj]
  <2>1. dbs \in [{} -> DBPermObj]
    BY DEF Init
  <2> QED BY <2>1
<1>3. query \in [Key -> [Pattern -> [allow : Nat, deny : Nat, auto : Nat]]]
  BY DEF Init
<1>4. conn \in [Conn -> Key \cup {"builtin"}] /\ ConnKnown
  BY DEF Init, ConnKnown
<1>5. edits \in 0..MaxEdits
  BY FirewallAssumption DEF Init
<1>6. last \in Decision \cup {Idle}
  BY DEF Init
<1>7. /\ pc \in {"idle", "insert", "select", "rows", "defaults"}
      /\ rows \subseteq [key : Key, perms : SUBSET Perm, status : Status]
      /\ pending \subseteq Key \X Pattern /\ learned \subseteq Key \X Pattern
      /\ edited \in BOOLEAN
  BY DEF Init
<1>8. TypeOK
  BY <1>1, <1>2, <1>3, <1>4, <1>5, <1>6, <1>7 DEF TypeOK
<1> QED BY <1>4, <1>8 DEF Typed

LEMMA ObjectTyped ==
  ASSUME Typed, NEW k \in DOMAIN dbs \cup {"builtin"}
  PROVE  Object(k) \in DBPermObj /\ (k = "builtin" \/ k \in Key)
<1>1. DOMAIN dbs \in SUBSET Key /\ dbs \in [DOMAIN dbs -> DBPermObj]
  BY TypedMap DEF Typed, TypeOK
<1>2. builtin \in DBPermObj
  BY DEF builtin, DBPermObj, Status
<1> QED BY <1>1, <1>2 DEF Object

\* The kinds of expiry.
LEMMA ExpireTyped ==
  ASSUME NEW t, \E D \in SUBSET Key : t \in [D -> PermRow], NEW s, NEW age
  PROVE  /\ \E D \in SUBSET Key : Expire(t, s, age) \in [D -> PermRow]
         /\ DOMAIN Expire(t, s, age) = DOMAIN t
<1>1. DOMAIN t \in SUBSET Key /\ t \in [DOMAIN t -> PermRow]
  BY TypedMap
<1>2. "ALWAYS_BLOCK_NEW" \in Status
  BY DEF Status
<1>3. \A k \in DOMAIN t : [t[k] EXCEPT !.status = "ALWAYS_BLOCK_NEW"] \in PermRow
  BY <1>1, <1>2 DEF PermRow
<1>4. Expire(t, s, age) \in [DOMAIN t -> PermRow]
  BY <1>1, <1>3 DEF Expire
<1> QED BY <1>1, <1>4

\* The two updates at the start of a reload.
LEMMA LearningTyped ==
  ASSUME \E D \in SUBSET Key : perm \in [D -> PermRow]
  PROVE  /\ \E D \in SUBSET Key : q_learning3(perm) \in [D -> PermRow]
         /\ \E D \in SUBSET Key : q_learning7(q_learning3(perm)) \in [D -> PermRow]
<1>1. \E D \in SUBSET Key : q_learning3(perm) \in [D -> PermRow]
  BY ExpireTyped DEF q_learning3
<1> QED BY <1>1, ExpireTyped DEF q_learning7

\* A query is decided, and what learning is to store is typed.
LEMMA CheckTyped ==
  ASSUME Typed, NEW c \in Conn, NEW p \in Pattern, NEW risk \in {"low", "warn", "high"},
         check_query(c, p, risk)
  PROVE  Typed'
<1> DEFINE k == conn[c]
           db == Object(k)
           privileged == ~(Needs[p] \subseteq db.perms)
           learns == p \notin db.exceptions /\ db.status \in Learning
<1>1. k \in DOMAIN dbs \cup {"builtin"} /\ k \in Key \cup {"builtin"}
  BY DEF Typed, ConnKnown, TypeOK
<1>2. db \in DBPermObj
  BY <1>1, ObjectTyped
<1>3. learns => k \in Key
  BY <1>1 DEF Object, builtin, Learning
<1>4. pending' \subseteq Key \X Pattern
  BY <1>3 DEF check_query, AddToWhitelist
<1>5. pc' \in {"idle", "insert"}
  BY DEF check_query
<1>6. last' \in Decision
  <2>1. Logged(db.status, privileged, risk) \in {"none", "warn", "high", "blocked", "learned"}
    BY DEF Logged
  <2>2. Allowed(db.status, privileged, risk) \in BOOLEAN
    BY DEF Allowed
  <2>3. db.status \in Status
    BY <1>2 DEF DBPermObj
  <2> QED BY <1>1, <2>1, <2>2, <2>3 DEF check_query, Decision
<1>7. UNCHANGED <<perm, query, dbs, conn, rows, learned, edits, edited>>
  BY DEF check_query
<1> QED BY <1>4, <1>5, <1>6, <1>7 DEF Typed, TypeOK, ConnKnown

\* What loading a row does: the object gets the mode of the row and what the
\* table allows, or keeps its whitelist.
LEMMA LoadRowEffect ==
  ASSUME Typed, LoadRow
  PROVE  \E r \in rows, new \in DBPermObj :
           /\ rows' = rows \ {r}
           /\ dbs' = With(dbs, r.key, new)
           /\ new.status = r.status
           /\ \/ new.exceptions = LoadWhitelist(r.key)
              \/ /\ DbMayFail
                 /\ new.exceptions = IF r.key \in DOMAIN dbs THEN dbs[r.key].exceptions ELSE {}
<1>1. PICK r \in rows :
        LET old == IF r.key \in DOMAIN dbs THEN dbs[r.key] ELSE builtin
        IN  /\ rows' = rows \ {r}
            /\ \E w \in {LoadWhitelist(r.key)} \cup IF DbMayFail THEN {old.exceptions} ELSE {} :
                 dbs' = With(dbs, r.key, [DBPermObj_Init(old, r) EXCEPT !.exceptions = w])
  BY DEF LoadRow
<1> DEFINE old == IF r.key \in DOMAIN dbs THEN dbs[r.key] ELSE builtin
<1>2. r.key \in Key /\ r.perms \in SUBSET Perm /\ r.status \in Status
  BY DEF Typed, TypeOK
<1>3. old \in DBPermObj
  <2>1. DOMAIN dbs \in SUBSET Key /\ dbs \in [DOMAIN dbs -> DBPermObj]
    BY TypedMap DEF Typed, TypeOK
  <2> QED BY <2>1 DEF builtin, DBPermObj, Status
<1>4. PICK w \in {LoadWhitelist(r.key)} \cup IF DbMayFail THEN {old.exceptions} ELSE {} :
        dbs' = With(dbs, r.key, [DBPermObj_Init(old, r) EXCEPT !.exceptions = w])
  BY <1>1
<1>5. w \in SUBSET Pattern
  BY <1>3 DEF LoadWhitelist, DBPermObj
<1> DEFINE new == [DBPermObj_Init(old, r) EXCEPT !.exceptions = w]
<1>6. new \in DBPermObj /\ new.status = r.status /\ new.exceptions = w
  BY <1>2, <1>3, <1>5 DEF DBPermObj_Init, DBPermObj
<1>7. old.exceptions = IF r.key \in DOMAIN dbs THEN dbs[r.key].exceptions ELSE {}
  BY DEF builtin
<1>8. dbs' = With(dbs, r.key, new) /\ rows' = rows \ {r}
  BY <1>1, <1>4
<1> HIDE DEF new, old
<1> QED BY <1>4, <1>6, <1>7, <1>8

LEMMA LoadRowTyped ==
  ASSUME Typed, LoadRow
  PROVE  Typed' /\ DOMAIN dbs \subseteq DOMAIN dbs'
<1>1. PICK r \in rows, new \in DBPermObj :
        rows' = rows \ {r} /\ dbs' = With(dbs, r.key, new)
  BY LoadRowEffect
<1>2. r.key \in Key
  BY DEF Typed, TypeOK
<1>3. \E D \in SUBSET Key : dbs' \in [D -> DBPermObj]
  BY <1>1, <1>2, WithTyped DEF Typed, TypeOK
<1>4. DOMAIN dbs' = DOMAIN dbs \cup {r.key}
  BY <1>1 DEF With
<1>5. UNCHANGED <<perm, query, conn, pc, pending, learned, last, edits, edited>>
  BY DEF LoadRow
<1> QED BY <1>1, <1>3, <1>4, <1>5 DEF Typed, TypeOK, ConnKnown

\* The administrator has made one edit more.
LEMMA EditTyped ==
  ASSUME TypeOK, Edit
  PROVE  edits' \in 0..MaxEdits /\ edited' = TRUE /\ last' = Idle
<1>1. edits \in 0..MaxEdits /\ MaxEdits \in Nat
  BY FirewallAssumption DEF TypeOK
<1> QED BY <1>1 DEF Edit

\* Whatever happens, every variable keeps its type, and an object that a
\* connection has is never dropped.
LEMMA TypedNext ==
  ASSUME Typed, [Next]_vars
  PROVE  Typed'
<1>1. CASE EndLearning
  BY <1>1, LearningTyped DEF EndLearning, Typed, TypeOK, ConnKnown
<1>2. CASE SelectRows
  <2>1. Fetched(Db) \subseteq [key : Key, perms : SUBSET Perm, status : Status]
    BY TypedMap DEF Fetched, Typed, TypeOK, PermRow, Key
  <2> QED BY <1>2, <2>1 DEF SelectRows, Typed, TypeOK, ConnKnown
<1>3. CASE SelectDefaults
  <2>1. Fetched(System) \subseteq [key : Key, perms : SUBSET Perm, status : Status]
    BY TypedMap DEF Fetched, Typed, TypeOK, PermRow, Key
  <2> QED BY <1>3, <2>1 DEF SelectDefaults, Typed, TypeOK, ConnKnown
<1>4. CASE LoadRow
  BY <1>4, LoadRowTyped
<1>5. CASE ReloadDone
  BY <1>5 DEF ReloadDone, Typed, TypeOK, ConnKnown
<1>6. CASE ReloadFails
  <2>1. \E D \in SUBSET Key : perm' \in [D -> PermRow]
    BY <1>6, LearningTyped DEF ReloadFails, Typed, TypeOK
  <2> QED BY <1>6, <2>1 DEF ReloadFails, Typed, TypeOK, ConnKnown
<1>7. CASE InsertRow
  <2>1. query' \in [Key -> [Pattern -> QueryRow]]
    <3>1. query \in [Key -> [Pattern -> QueryRow]]
      BY DEF Typed, TypeOK, QueryRow
    <3>2. CASE UNCHANGED query
      BY <3>1, <3>2
    <3>3. ASSUME NEW r \in pending, Inserted(r[1], r[2])
          PROVE  query' \in [Key -> [Pattern -> QueryRow]]
      <4>1. r[1] \in Key /\ r[2] \in Pattern
        BY DEF Typed, TypeOK
      <4> QED BY <3>1, <3>3, <4>1, RowInserted
    <3> QED BY <1>7, <3>2, <3>3 DEF InsertRow, Inserted
  <2>2. learned' \subseteq Key \X Pattern
    BY <1>7 DEF InsertRow, Typed, TypeOK
  <2> QED BY <1>7, <2>1, <2>2 DEF InsertRow, Typed, TypeOK, ConnKnown, QueryRow
<1>8. CASE TimePasses
  <2>1. PICK k \in DOMAIN perm : perm[k].age < 2 /\ perm' = [perm EXCEPT ![k].age = @ + 1]
    BY <1>8 DEF TimePasses
  <2>2. DOMAIN perm \in SUBSET Key /\ perm \in [DOMAIN perm -> PermRow]
    BY TypedMap DEF Typed, TypeOK
  <2>3. perm[k].age + 1 \in Age
    BY <2>1, <2>2 DEF PermRow, Age
  <2>4. perm' \in [DOMAIN perm -> PermRow]
    BY <2>1, <2>2, <2>3 DEF PermRow
  <2>5. \E D \in SUBSET Key : perm' \in [D -> PermRow]
    BY <2>2, <2>4
  <2> QED BY <1>8, <2>5 DEF TimePasses, Typed, TypeOK, ConnKnown
<1>9. ASSUME NEW c \in Conn, UseDatabase(c) PROVE Typed'
  <2>1. PICK name : conn' = [conn EXCEPT ![c] = dbmap_find(name)]
    BY <1>9 DEF UseDatabase
  <2>2. dbmap_find(name) \in DOMAIN dbs \cup {"builtin"} /\ DOMAIN dbs \in SUBSET Key
    BY Find, TypedMap DEF Typed, TypeOK
  <2> QED BY <1>9, <2>1, <2>2 DEF UseDatabase, Typed, TypeOK, ConnKnown
<1>10. ASSUME NEW c \in Conn, NEW p \in Pattern, NEW risk \in {"low", "warn", "high"},
              check_query(c, p, risk)
       PROVE  Typed'
  BY <1>10, CheckTyped
<1>11. ASSUME NEW k \in Key,
              AdminAddsDatabase(k) \/ AdminRemovesDatabase(k) \/ AdminSetsMode(k) \/ AdminSetsPerms(k)
       PROVE  Typed'
  <2>1. /\ DOMAIN perm \in SUBSET Key /\ perm \in [DOMAIN perm -> PermRow]
        /\ \E D \in SUBSET Key : perm \in [D -> PermRow]
    BY TypedMap DEF Typed, TypeOK
  <2>2. \E D \in SUBSET Key : perm' \in [D -> PermRow]
    <3>1. CASE AdminAddsDatabase(k)
      <4>1. [perms |-> {}, status |-> "RISK_BLOCK", age |-> 2] \in PermRow
        BY DEF PermRow, Status, Age
      <4> QED BY <2>1, <3>1, <4>1, WithTyped DEF AdminAddsDatabase
    <3>2. CASE AdminRemovesDatabase(k)
      <4>1. perm' \in [DOMAIN perm \ {k} -> PermRow]
        BY <2>1, <3>2 DEF AdminRemovesDatabase, Restrict
      <4> QED BY <2>1, <4>1
    <3>3. CASE AdminSetsMode(k)
      <4>1. PICK s \in AdminStatus : perm' = [perm EXCEPT ![k] = [@ EXCEPT !.status = s, !.age = 0]]
        BY <3>3 DEF AdminSetsMode
      <4>2. s \in Status /\ 0 \in Age
        BY AdminAssumption DEF Age
      <4>3. perm' \in [DOMAIN perm -> PermRow]
        BY <2>1, <4>1, <4>2 DEF PermRow
      <4> QED BY <2>1, <4>3
    <3>4. CASE AdminSetsPerms(k)
      <4>1. perm' \in [DOMAIN perm -> PermRow]
        BY <2>1, <3>4 DEF AdminSetsPerms, PermRow
      <4> QED BY <2>1, <4>1
    <3> QED BY <1>11, <3>1, <3>2, <3>3, <3>4
  <2>3. edits' \in 0..MaxEdits /\ edited' \in BOOLEAN /\ last' \in Decision \cup {Idle}
    BY <1>11, EditTyped
       DEF AdminAddsDatabase, AdminRemovesDatabase, AdminSetsMode, AdminSetsPerms, Typed
  <2>4. UNCHANGED <<query, dbs, conn, pc, rows, pending, learned>>
    BY <1>11 DEF AdminAddsDatabase, AdminRemovesDatabase, AdminSetsMode, AdminSetsPerms
  <2> QED BY <2>2, <2>3, <2>4 DEF Typed, TypeOK, ConnKnown
<1>12. ASSUME NEW k \in Key, NEW p \in Pattern, AdminRevokes(k, p) \/ AdminApproves(k, p)
       PROVE  Typed'
  <2>1. query' \in [Key -> [Pattern -> QueryRow]]
    BY <1>12, RowsRevoked, RowApproved DEF Typed, TypeOK, QueryRow
  <2>2. learned' \subseteq Key \X Pattern
    BY <1>12 DEF AdminRevokes, AdminApproves, Typed, TypeOK
  <2>3. edits' \in 0..MaxEdits /\ edited' \in BOOLEAN /\ last' \in Decision \cup {Idle}
    BY <1>12, EditTyped DEF AdminRevokes, AdminApproves, Typed
  <2>4. UNCHANGED <<perm, dbs, conn, pc, rows, pending>>
    BY <1>12 DEF AdminRevokes, AdminApproves
  <2> QED BY <2>1, <2>2, <2>3, <2>4 DEF Typed, TypeOK, ConnKnown, QueryRow
<1>13. CASE UNCHANGED vars
  BY <1>13 DEF vars, Typed, TypeOK, ConnKnown
<1> QED BY <1>1, <1>2, <1>3, <1>4, <1>5, <1>6, <1>7, <1>8, <1>9, <1>10, <1>11, <1>12, <1>13
       DEF Next, Reloading
LEMMA TypedAlways == Spec => []Typed
<1>1. Typed /\ [Next]_vars => Typed'
  BY TypedNext
<1>2. Init => Typed
  BY TypedInit
<1> QED BY <1>1, <1>2, PTL DEF Spec

\* Every variable keeps its type.
THEOREM TypeCorrect == Spec => []TypeOK
<1>1. Typed => TypeOK
  BY DEF Typed
<1> QED BY <1>1, TypedAlways, PTL

----------------------------------------------------------------------------
(* The verdict and the log.                                                *)

\* What the two operators say of each other: the log says "blocked" of what is
\* blocked, and is silent only about what is neither privileged nor risky.
LEMMA VerdictLogged ==
  ASSUME NEW status \in Status, NEW privileged \in BOOLEAN, NEW risk \in {"low", "warn", "high"}
  PROVE  /\ Allowed(status, privileged, risk) \in BOOLEAN
         /\ ~Allowed(status, privileged, risk) <=> Logged(status, privileged, risk) = "blocked"
         /\ Logged(status, privileged, risk) = "none" => ~privileged /\ risk # "high"
         /\ ~Allowed(status, privileged, risk) =>
              /\ status \notin Simulation \cup Learning
              /\ status = "PRIVILEGE_BLOCK" => privileged
              /\ status = "RISK_BLOCK" => privileged \/ risk = "high"
  BY DEF Allowed, Logged, Status, Simulation, Learning

\* A decision stays on record until the next event, and no reload is under way.
DecisionFresh == pc \notin {"idle", "insert"} => last = Idle

VerdictInv == ModeKept /\ LogTellsTheTruth /\ DecisionFresh

LEMMA VerdictNext ==
  ASSUME Typed, VerdictInv, [Next]_vars
  PROVE  VerdictInv'
<1>1. CASE last' = Idle
  BY <1>1 DEF VerdictInv, ModeKept, LogTellsTheTruth, DecisionFresh, Decided, Idle
<1>2. CASE UNCHANGED last /\ pc \notin {"idle", "insert"}
  <2>1. last' = Idle
    BY <1>2 DEF VerdictInv, DecisionFresh
  <2> QED BY <1>1, <2>1
<1>3. ASSUME NEW c \in Conn, NEW p \in Pattern, NEW risk \in {"low", "warn", "high"},
             check_query(c, p, risk)
      PROVE  VerdictInv'
  <2> DEFINE db == Object(conn[c])
             whitelisted == p \in db.exceptions
             privileged == ~(Needs[p] \subseteq db.perms)
             status == db.status
  <2>1. status \in Status /\ privileged \in BOOLEAN /\ whitelisted \in BOOLEAN
    BY ObjectTyped DEF Typed, ConnKnown, DBPermObj
  <2>2. /\ last' = [by |-> "query", key |-> conn[c], pattern |-> p, status |-> status,
                    privileged |-> privileged, risk |-> risk,
                    allowed |-> whitelisted \/ Allowed(status, privileged, risk),
                    logged |-> IF whitelisted THEN "none"
                               ELSE Logged(status, privileged, risk)]
        /\ UNCHANGED dbs /\ pc' \in {"idle", "insert"}
    BY <1>3 DEF check_query
  <2>3. whitelisted => last'.pattern \in Object(last.key)'.exceptions
    BY <2>2 DEF Object, builtin
  <2> HIDE DEF db, whitelisted, privileged, status
  <2> DEFINE allowed == Allowed(status, privileged, risk)
             logged == Logged(status, privileged, risk)
  <2>4. /\ allowed \in BOOLEAN
        /\ ~allowed <=> logged = "blocked"
        /\ logged = "none" => ~privileged /\ risk # "high"
        /\ ~allowed => /\ status \notin Simulation \cup Learning
                       /\ status = "PRIVILEGE_BLOCK" => privileged
                       /\ status = "RISK_BLOCK" => privileged \/ risk = "high"
    BY <2>1, VerdictLogged
  <2>5. /\ last'.status = status /\ last'.privileged = privileged /\ last'.risk = risk
        /\ last'.allowed = (whitelisted \/ allowed)
        /\ last'.logged = IF whitelisted THEN "none" ELSE logged
    BY <2>2
  <2> HIDE DEF allowed, logged
  <2>6. ModeKept'
    BY <2>1, <2>4, <2>5 DEF ModeKept
  <2>7. LogTellsTheTruth'
    BY <2>1, <2>3, <2>4, <2>5 DEF LogTellsTheTruth
  <2>8. DecisionFresh'
    BY <2>2 DEF DecisionFresh
  <2> QED BY <2>6, <2>7, <2>8 DEF VerdictInv
<1>4. CASE UNCHANGED vars
  BY <1>4 DEF vars, VerdictInv, ModeKept, LogTellsTheTruth, DecisionFresh, Decided, Object
<1> QED
  BY <1>1, <1>2, <1>3, <1>4
     DEF Next, Reloading, EndLearning, SelectRows, SelectDefaults, LoadRow, ReloadDone,
         ReloadFails, InsertRow, TimePasses, UseDatabase, AdminAddsDatabase,
         AdminRemovesDatabase, AdminSetsMode, AdminSetsPerms, AdminRevokes, AdminApproves, Edit
LEMMA VerdictAlways == Spec => []VerdictInv
<1>1. Init => VerdictInv
  BY DEF Init, VerdictInv, ModeKept, LogTellsTheTruth, DecisionFresh, Decided, Idle
<1>2. Typed /\ VerdictInv /\ [Next]_vars => VerdictInv'
  BY VerdictNext
<1> QED BY <1>1, <1>2, TypedAlways, PTL DEF Spec

\* Each mode blocks what its name says, and nothing else.
THEOREM ModesKept == Spec => []ModeKept
<1>1. VerdictInv => ModeKept
  BY DEF VerdictInv
<1> QED BY <1>1, VerdictAlways, PTL

\* The log of alerts and the verdict agree, and what is not whitelisted and
\* privileged or risky is always logged.
THEOREM LogIsTrue == Spec => []LogTellsTheTruth
<1>1. VerdictInv => LogTellsTheTruth
  BY DEF VerdictInv
<1> QED BY <1>1, VerdictAlways, PTL

----------------------------------------------------------------------------
(* The whitelist and what learning adds to it.                             *)

\* The row AddToWhitelist is about to insert: its database is still in learning
\* mode, and no row for it was learned before, whatever the administrator does
\* in between.
PendingKnown ==
  \A r \in pending :
    /\ pc = "insert"
    /\ r[1] \in DOMAIN dbs /\ dbs[r[1]].status \in Learning
    /\ query[r[1]][r[2]].auto = 0

\* A pattern that was learned keeps a row, allowing or not, and as long as it is
\* not revoked the row allows it.
RowsKept ==
  \A k \in Key, p \in Pattern :
    /\ query[k][p].auto <= 1
    /\ query[k][p].auto > 0 => query[k][p].allow + query[k][p].deny > 0
    /\ <<k, p>> \in learned => query[k][p].allow > 0

\* When the mode for unknown queries is loaded the whitelist is loaded with it:
\* it holds all that was learned, if no statement fails.
LearnedLoaded ==
  \A k \in DOMAIN dbs, p \in Pattern :
    dbs[k].status = "ALWAYS_BLOCK_NEW" /\ <<k, p>> \in learned => p \in dbs[k].exceptions

LearningInv ==
  /\ PendingKnown /\ RowsKept
  /\ ~DbMayFail => LearnedLoaded /\ LearnedIsAllowed

\* Most steps leave the whitelist alone.
LEMMA WhitelistSteps ==
  ASSUME [Next]_vars
  PROVE  \/ \E c \in Conn, p \in Pattern, risk \in {"low", "warn", "high"} : check_query(c, p, risk)
         \/ InsertRow \/ LoadRow
         \/ \E k \in Key, p \in Pattern : AdminRevokes(k, p) \/ AdminApproves(k, p)
         \/ /\ UNCHANGED <<query, learned, dbs, pending>>
            /\ pc' = pc \/ pc # "insert"
            /\ UNCHANGED last \/ last' = Idle
  BY DEF Next, vars, Reloading, EndLearning, SelectRows, SelectDefaults, ReloadDone,
         ReloadFails, TimePasses, UseDatabase, AdminAddsDatabase,
         AdminRemovesDatabase, AdminSetsMode, AdminSetsPerms, Edit

LEMMA LearningNext ==
  ASSUME Typed, LearningInv, [Next]_vars
  PROVE  LearningInv'
<1> USE DEF LearningInv
<1>0. /\ query \in [Key -> [Pattern -> QueryRow]]
      /\ DOMAIN dbs \in SUBSET Key /\ dbs \in [DOMAIN dbs -> DBPermObj]
      /\ pending \subseteq Key \X Pattern /\ learned \subseteq Key \X Pattern
  BY TypedMap DEF Typed, TypeOK, QueryRow
<1>1. ASSUME NEW c \in Conn, NEW p \in Pattern, NEW risk \in {"low", "warn", "high"},
             check_query(c, p, risk)
      PROVE  LearningInv'
  <2> DEFINE k == conn[c]
             db == Object(k)
  <2>1. k \in DOMAIN dbs \cup {"builtin"}
    BY DEF Typed, ConnKnown
  <2>2. UNCHANGED <<query, dbs, learned>>
    BY <1>1 DEF check_query
  <2>3. PendingKnown'
    <3> SUFFICES ASSUME NEW r \in pending' 
                 PROVE  /\ pc' = "insert"
                        /\ r[1] \in DOMAIN dbs /\ dbs[r[1]].status \in Learning
                        /\ query[r[1]][r[2]].auto = 0
      BY <2>2 DEF PendingKnown
    <3>1. /\ pc' = "insert" /\ r = <<k, p>> /\ db.status \in Learning
          /\ query[k][p].allow + query[k][p].deny = 0
      <4>1. db.status \in Learning => k \in Key
        BY <1>0, <2>1 DEF Object, builtin, Learning
      <4>2. /\ db.status \in Learning /\ pending' \in AddToWhitelist(k, p)
            /\ pc' = "insert"
        BY <1>1 DEF check_query
      <4>3. ~(query[k][p].allow + query[k][p].deny > 0) /\ r = <<k, p>>
        BY <4>2 DEF AddToWhitelist
      <4>4. query[k][p].allow \in Nat /\ query[k][p].deny \in Nat
        BY <1>0, <4>1, <4>2 DEF QueryRow
      <4> QED BY <4>2, <4>3, <4>4
    <3>2. k \in DOMAIN dbs /\ dbs[k].status \in Learning
      BY <2>1, <3>1 DEF Object, builtin, Learning
    <3>3. query[k][p].auto = 0
      BY <1>0, <3>1, <3>2 DEF RowsKept, QueryRow
    <3> QED BY <3>1, <3>2, <3>3
  <2>4. ASSUME LearnedLoaded PROVE LearnedIsAllowed'
    <3>1. /\ last'.key = k /\ last'.pattern = p /\ last'.status = db.status
          /\ last'.allowed = (p \in db.exceptions \/ Allowed(db.status, ~(Needs[p] \subseteq db.perms), risk))
      BY <1>1 DEF check_query
    <3>2. db.status = "ALWAYS_BLOCK_NEW" => k \in DOMAIN dbs /\ db = dbs[k]
      BY <2>1 DEF Object, builtin
    <3> QED BY <2>2, <2>4, <3>1, <3>2 DEF LearnedIsAllowed, LearnedLoaded
  <2> QED BY <2>2, <2>3, <2>4 DEF RowsKept, LearnedLoaded
<1>2. CASE InsertRow
  <2>1. pending' = {} /\ last' = Idle /\ UNCHANGED dbs
    BY <1>2 DEF InsertRow
  <2>2. CASE UNCHANGED <<query, learned>>
    BY <2>1, <2>2 DEF PendingKnown, RowsKept, LearnedLoaded, LearnedIsAllowed, Decided, Idle
  <2>3. ASSUME NEW r \in pending, Inserted(r[1], r[2]), learned' = learned \cup {r}
        PROVE  LearningInv'
    <3>1. r[1] \in Key /\ r[2] \in Pattern /\ r = <<r[1], r[2]>>
      BY <1>0
    <3>2. /\ query'[r[1]][r[2]].allow = query[r[1]][r[2]].allow + 1
          /\ query'[r[1]][r[2]].deny = query[r[1]][r[2]].deny
          /\ query'[r[1]][r[2]].auto = query[r[1]][r[2]].auto + 1
          /\ \A i \in Key, j \in Pattern :
               i # r[1] \/ j # r[2] => query'[i][j] = query[i][j]
      BY <1>0, <2>3, <3>1, RowInserted
    <3>3. query[r[1]][r[2]] \in QueryRow /\ query[r[1]][r[2]].auto = 0
      BY <1>0, <3>1 DEF PendingKnown
    <3>4. RowsKept'
      <4> SUFFICES ASSUME NEW k \in Key, NEW p \in Pattern
                   PROVE  /\ query'[k][p].auto <= 1
                          /\ query'[k][p].auto > 0 => query'[k][p].allow + query'[k][p].deny > 0
                          /\ <<k, p>> \in learned' => query'[k][p].allow > 0
        BY DEF RowsKept
      <4>1. CASE k = r[1] /\ p = r[2]
        BY <3>2, <3>3, <4>1 DEF QueryRow
      <4>2. CASE k # r[1] \/ p # r[2]
        <5>1. <<k, p>> \in learned' => <<k, p>> \in learned
          BY <2>3, <3>1, <4>2
        <5> QED BY <3>2, <4>2, <5>1 DEF RowsKept
      <4> QED BY <4>1, <4>2
    <3>5. ASSUME LearnedLoaded PROVE LearnedLoaded'
      <4>1. r[1] \in DOMAIN dbs /\ dbs[r[1]].status # "ALWAYS_BLOCK_NEW"
        BY DEF PendingKnown, Learning
      <4> QED BY <2>1, <2>3, <3>1, <3>5, <4>1 DEF LearnedLoaded
    <3> QED BY <2>1, <3>4, <3>5 DEF PendingKnown, LearnedIsAllowed, Decided, Idle
  <2> QED BY <1>2, <2>2, <2>3 DEF InsertRow, Inserted
<1>3. CASE LoadRow
  <2>1. pc \in {"rows", "defaults"} /\ UNCHANGED <<query, pending, learned, last>>
    BY <1>3 DEF LoadRow
  <2>2. pending = {}
    BY <2>1 DEF PendingKnown
  <2>3. ASSUME ~DbMayFail, LearnedLoaded PROVE LearnedLoaded'
    <3>1. PICK r \in rows, new \in DBPermObj :
            /\ dbs' = With(dbs, r.key, new)
            /\ new.exceptions = LoadWhitelist(r.key)
      BY <1>3, <2>3, LoadRowEffect
    <3>2. /\ DOMAIN dbs' = DOMAIN dbs \cup {r.key}
          /\ dbs'[r.key] = new
          /\ \A k \in DOMAIN dbs : k # r.key => dbs'[k] = dbs[k]
      BY <3>1 DEF With
    <3>3. r.key \in Key
      BY DEF Typed, TypeOK
    <3>4. \A p \in Pattern : <<r.key, p>> \in learned => p \in new.exceptions
      BY <3>1, <3>3 DEF RowsKept, LoadWhitelist
    <3> QED BY <2>1, <2>3, <3>2, <3>4 DEF LearnedLoaded
  <2> QED BY <2>1, <2>2, <2>3 DEF PendingKnown, RowsKept, LearnedIsAllowed, Decided
<1>4. ASSUME NEW k \in Key, NEW p \in Pattern, AdminRevokes(k, p) PROVE LearningInv'
  <2>1. /\ query'[k][p].allow = 0
        /\ query'[k][p].deny = query[k][p].allow
        /\ query'[k][p].auto = query[k][p].auto
        /\ \A i \in Key, j \in Pattern : i # k \/ j # p => query'[i][j] = query[i][j]
    BY <1>0, <1>4, RowsRevoked
  <2>2. /\ query[k][p].allow > 0 /\ query[k][p] \in QueryRow
        /\ learned' = learned \ {<<k, p>>} /\ last' = Idle
        /\ UNCHANGED <<dbs, pc, pending>>
    BY <1>0, <1>4 DEF AdminRevokes, Edit
  <2>3. RowsKept'
    <3> SUFFICES ASSUME NEW i \in Key, NEW j \in Pattern
                 PROVE  /\ query'[i][j].auto <= 1
                        /\ query'[i][j].auto > 0 => query'[i][j].allow + query'[i][j].deny > 0
                        /\ <<i, j>> \in learned' => query'[i][j].allow > 0
      BY DEF RowsKept
    <3>1. CASE i = k /\ j = p
      <4>1. <<k, p>> \notin learned' /\ query[k][p].auto <= 1
        BY <2>2 DEF RowsKept
      <4>2. query[k][p].allow \in Nat /\ query[k][p].auto \in Nat
        BY <2>2 DEF QueryRow
      <4>3. query'[k][p].allow + query'[k][p].deny = query[k][p].allow
        BY <2>1, <4>2
      <4> QED BY <2>1, <2>2, <3>1, <4>1, <4>3
    <3>2. CASE i # k \/ j # p
      BY <2>1, <2>2, <3>2 DEF RowsKept
    <3> QED BY <3>1, <3>2
  <2>4. PendingKnown'
    BY <1>0, <2>1, <2>2 DEF PendingKnown
  <2> QED BY <2>2, <2>3, <2>4 DEF LearnedLoaded, LearnedIsAllowed, Decided, Idle
<1>5. ASSUME NEW k \in Key, NEW p \in Pattern, AdminApproves(k, p) PROVE LearningInv'
  <2>1. /\ query'[k][p].allow = 1
        /\ query'[k][p].deny = query[k][p].deny
        /\ query'[k][p].auto = query[k][p].auto
        /\ \A i \in Key, j \in Pattern : i # k \/ j # p => query'[i][j] = query[i][j]
    BY <1>0, <1>5, RowApproved
  <2>2. query[k][p] \in QueryRow /\ last' = Idle /\ UNCHANGED <<learned, dbs, pc, pending>>
    BY <1>0, <1>5 DEF AdminApproves, Edit
  <2>3. RowsKept'
    <3> SUFFICES ASSUME NEW i \in Key, NEW j \in Pattern
                 PROVE  /\ query'[i][j].auto <= 1
                        /\ query'[i][j].auto > 0 => query'[i][j].allow + query'[i][j].deny > 0
                        /\ <<i, j>> \in learned' => query'[i][j].allow > 0
      BY DEF RowsKept
    <3>1. CASE i = k /\ j = p
      BY <2>1, <2>2, <3>1 DEF RowsKept, QueryRow
    <3>2. CASE i # k \/ j # p
      BY <2>1, <2>2, <3>2 DEF RowsKept
    <3> QED BY <3>1, <3>2
  <2>4. PendingKnown'
    BY <1>0, <2>1, <2>2 DEF PendingKnown
  <2> QED BY <2>2, <2>3, <2>4 DEF LearnedLoaded, LearnedIsAllowed, Decided, Idle
<1>6. CASE /\ UNCHANGED <<query, learned, dbs, pending>>
           /\ pc' = pc \/ pc # "insert"
           /\ UNCHANGED last \/ last' = Idle
  BY <1>6 DEF PendingKnown, RowsKept, LearnedLoaded, LearnedIsAllowed, Decided, Idle
<1> QED BY <1>1, <1>2, <1>3, <1>4, <1>5, <1>6, WhitelistSteps
LEMMA LearningAlways == Spec => []LearningInv
<1>1. Init => LearningInv
  <2> SUFFICES ASSUME Init PROVE LearningInv
    OBVIOUS
  <2>1. query = [k \in Key |-> [p \in Pattern |-> [allow |-> 0, deny |-> 0, auto |-> 0]]]
    BY DEF Init
  <2>2. \A k \in Key, p \in Pattern : query[k][p].auto = 0
    BY <2>1
  <2>3. pending = {} /\ learned = {} /\ last = Idle
    BY DEF Init
  <2> QED BY <2>2, <2>3
          DEF LearningInv, PendingKnown, RowsKept, LearnedLoaded, LearnedIsAllowed, Decided, Idle
<1>2. Typed /\ LearningInv /\ [Next]_vars => LearningInv'
  BY LearningNext
<1> QED BY <1>1, <1>2, TypedAlways, PTL DEF Spec

\* Learning stores a pattern once, however the administrator's edits fall
\* between its two statements.
THEOREM LearnedOnce == Spec => []NoDuplicateRows
<1>1. LearningInv => NoDuplicateRows
  BY DEF LearningInv, RowsKept, NoDuplicateRows
<1> QED BY <1>1, LearningAlways, PTL

\* Where no statement fails, what was learned and not revoked is not blocked as
\* new when the learning period has ended.
THEOREM LearnedAllowed == ASSUME ~DbMayFail PROVE Spec => []LearnedIsAllowed
<1>1. LearningInv => LearnedIsAllowed
  BY DEF LearningInv
<1> QED BY <1>1, LearningAlways, PTL

\* A pattern leaves the whitelist in memory only when the table does not allow
\* it any more, whether or not statements fail.
THEOREM WhitelistIsKept == Spec => WhitelistKept
<1> DEFINE Kept == \A k \in DOMAIN dbs : \A p \in dbs[k].exceptions :
                     p \in dbs'[k].exceptions \/ query[k][p].allow = 0
<1>1. Typed /\ [Next]_vars => [Kept]_vars
  <2> SUFFICES ASSUME Typed, [Next]_vars PROVE Kept
    OBVIOUS
  <2>0. /\ query \in [Key -> [Pattern -> QueryRow]]
        /\ DOMAIN dbs \in SUBSET Key /\ dbs \in [DOMAIN dbs -> DBPermObj]
    BY TypedMap DEF Typed, TypeOK, QueryRow
  <2>1. CASE LoadRow
    <3>1. PICK r \in rows, new \in DBPermObj :
            /\ dbs' = With(dbs, r.key, new)
            /\ \/ new.exceptions = LoadWhitelist(r.key)
               \/ new.exceptions = IF r.key \in DOMAIN dbs THEN dbs[r.key].exceptions ELSE {}
      BY <2>1, LoadRowEffect
    <3>2. \A k \in DOMAIN dbs : dbs'[k] = IF k = r.key THEN new ELSE dbs[k]
      BY <3>1 DEF With
    <3> SUFFICES ASSUME NEW k \in DOMAIN dbs, NEW p \in dbs[k].exceptions,
                        query[k][p].allow # 0
                 PROVE  p \in dbs'[k].exceptions
      OBVIOUS
    <3>3. k \in Key /\ p \in Pattern
      BY <2>0 DEF DBPermObj
    <3>4. query[k][p].allow > 0
      BY <2>0, <3>3 DEF QueryRow
    <3> QED BY <3>1, <3>2, <3>3, <3>4 DEF LoadWhitelist
  <2>2. CASE UNCHANGED dbs
    BY <2>2
  <2> QED BY <2>1, <2>2, WhitelistSteps DEF check_query, InsertRow, AdminRevokes, AdminApproves
<1> QED BY <1>1, TypedAlways, PTL DEF Spec, WhitelistKept

----------------------------------------------------------------------------
(* The settings after a reload.                                            *)

\* The object of the row k is what an undisturbed reload makes of it; where
\* statements fail, its whitelist may be an old one.
Applied(k) ==
  /\ k \in DOMAIN dbs
  /\ dbs[k].status = perm[k].status
  /\ ~DbMayFail => \A p \in dbs[k].exceptions : query[k][p].allow > 0

\* While nothing disturbs the reload, the rows still to be fetched are those of
\* the table, and each row of the table is applied or still to be fetched: the
\* rows of the databases in the first loop, all rows in the second.
RowsCurrent ==
  pc \in {"rows", "defaults"} =>
    \A r \in rows : r.key \in DOMAIN perm /\ r.status = perm[r.key].status

Covered(keys) == \A k \in DOMAIN perm \cap keys : Applied(k) \/ \E r \in rows : r.key = k

ReloadInv ==
  ~edited =>
    /\ RowsCurrent
    /\ pc = "rows" => Covered(Db)
    /\ pc = "defaults" => Covered(Key)
    /\ pc \in {"idle", "insert"} => \A k \in DOMAIN perm : Applied(k)

\* A SELECT returns every row of the keys, as it is.
LEMMA FetchedRows ==
  ASSUME NEW keys
  PROVE  /\ \A k \in DOMAIN perm \cap keys : \E r \in Fetched(keys) : r.key = k
         /\ \A r \in Fetched(keys) : r.key \in DOMAIN perm /\ r.status = perm[r.key].status
<1>1. ASSUME NEW k \in DOMAIN perm \cap keys
      PROVE  \E r \in Fetched(keys) : r.key = k
  <2>1. [key |-> k, perms |-> perm[k].perms, status |-> perm[k].status] \in Fetched(keys)
    BY DEF Fetched
  <2> QED BY <2>1
<1>2. ASSUME NEW r \in Fetched(keys)
      PROVE  r.key \in DOMAIN perm /\ r.status = perm[r.key].status
  BY DEF Fetched
<1> QED BY <1>1, <1>2

\* The rows for other patterns and the mode of a row do not change, and learning
\* only adds to what the table allows.
Untouched ==
  /\ DOMAIN perm' = DOMAIN perm
  /\ \A k \in DOMAIN perm : perm'[k].status = perm[k].status
  /\ \A k \in Key, p \in Pattern : query[k][p].allow > 0 => query'[k][p].allow > 0

\* What learning and time do not disturb stays applied.
LEMMA AppliedKept ==
  ASSUME Typed, Untouched, UNCHANGED dbs, NEW k \in DOMAIN perm, Applied(k)
  PROVE  Applied(k)'
<1>1. /\ DOMAIN dbs \in SUBSET Key /\ dbs \in [DOMAIN dbs -> DBPermObj]
  BY TypedMap DEF Typed, TypeOK
<1>2. k \in Key /\ dbs[k].exceptions \subseteq Pattern
  BY <1>1 DEF Applied, DBPermObj
<1> QED BY <1>2 DEF Applied, Untouched

\* Without edits and failures a step reloads, or leaves the tables as the reload
\* needs them and the objects alone.
LEMMA ReloadSteps ==
  ASSUME Typed, [Next]_vars
  PROVE  \/ edited' \/ EndLearning \/ SelectRows \/ SelectDefaults \/ LoadRow \/ ReloadDone
         \/ /\ Untouched /\ UNCHANGED <<dbs, rows, edited>>
            /\ \/ UNCHANGED pc
               \/ pc \in {"idle", "insert"} /\ pc' \in {"idle", "insert"}
<1>0. query \in [Key -> [Pattern -> QueryRow]]
  BY DEF Typed, TypeOK, QueryRow
<1>1. CASE InsertRow
  <2>0. CASE UNCHANGED query
    BY <1>1, <2>0 DEF InsertRow, Untouched
  <2> SUFFICES ASSUME NEW r \in pending, Inserted(r[1], r[2])
               PROVE  Untouched /\ UNCHANGED <<dbs, rows, edited>>
                      /\ pc \in {"idle", "insert"} /\ pc' \in {"idle", "insert"}
    BY <1>1, <2>0 DEF InsertRow, Inserted
  <2>2. r[1] \in Key /\ r[2] \in Pattern
    BY DEF Typed, TypeOK
  <2>3. /\ query'[r[1]][r[2]].allow = query[r[1]][r[2]].allow + 1
        /\ \A i \in Key, j \in Pattern : i # r[1] \/ j # r[2] => query'[i][j] = query[i][j]
    BY <1>0, <2>2, RowInserted
  <2>4. query[r[1]][r[2]].allow \in Nat
    BY <1>0, <2>2 DEF QueryRow
  <2>5. \A i \in Key, j \in Pattern : query[i][j].allow > 0 => query'[i][j].allow > 0
    BY <2>3, <2>4
  <2> QED BY <1>1, <2>5 DEF InsertRow, Untouched
<1>2. CASE TimePasses
  <2>1. PICK k \in DOMAIN perm : perm' = [perm EXCEPT ![k].age = @ + 1]
    BY <1>2 DEF TimePasses
  <2>2. DOMAIN perm' = DOMAIN perm /\ \A i \in DOMAIN perm : perm'[i].status = perm[i].status
    <3>1. perm \in [DOMAIN perm -> PermRow]
      BY TypedMap DEF Typed, TypeOK
    <3> QED BY <2>1, <3>1 DEF PermRow
  <2> QED BY <1>2, <2>2 DEF TimePasses, Untouched
<1>3. ASSUME NEW c \in Conn, NEW p \in Pattern, NEW risk \in {"low", "warn", "high"},
             UseDatabase(c) \/ check_query(c, p, risk)
      PROVE  /\ Untouched /\ UNCHANGED <<dbs, rows, edited>>
             /\ pc \in {"idle", "insert"} /\ pc' \in {"idle", "insert"}
  BY <1>3 DEF UseDatabase, check_query, Untouched
<1>4. ASSUME NEW c \in Conn, UseDatabase(c)
      PROVE  Untouched /\ UNCHANGED <<dbs, rows, edited, pc>>
  BY <1>4 DEF UseDatabase, Untouched
<1>5. CASE UNCHANGED vars
  BY <1>5 DEF vars, Untouched
<1> QED BY <1>1, <1>2, <1>3, <1>4, <1>5
        DEF Next, Reloading, ReloadFails, AdminAddsDatabase, AdminRemovesDatabase,
            AdminSetsMode, AdminSetsPerms, AdminRevokes, AdminApproves, Edit

LEMMA ReloadNext ==
  ASSUME Typed, ReloadInv, [Next]_vars
  PROVE  ReloadInv'
<1> SUFFICES ASSUME ~edited' PROVE ReloadInv'
  BY DEF ReloadInv
<1>0. DOMAIN perm \subseteq Key /\ DOMAIN dbs \subseteq Key
  BY TypedMap DEF Typed, TypeOK
<1>1. CASE EndLearning
  BY <1>1 DEF EndLearning, ReloadInv, RowsCurrent
<1>2. CASE SelectRows
  BY <1>2, FetchedRows DEF SelectRows, ReloadInv, RowsCurrent, Covered, Applied
<1>3. CASE SelectDefaults
  <2>1. \A k \in DOMAIN perm \cap Db : Applied(k)
    BY <1>3 DEF SelectDefaults, ReloadInv, Covered
  <2>2. /\ \A k \in DOMAIN perm \cap System : \E r \in Fetched(System) : r.key = k
        /\ \A r \in Fetched(System) : r.key \in DOMAIN perm /\ r.status = perm[r.key].status
    BY FetchedRows
  <2>3. \A k \in DOMAIN perm : Applied(k) <=> Applied(k)'
    BY <1>3 DEF SelectDefaults, Applied
  <2> QED BY <1>0, <1>3, <2>1, <2>2, <2>3
          DEF SelectDefaults, ReloadInv, RowsCurrent, Covered, Key
<1>4. CASE LoadRow
  <2>1. PICK r \in rows, new \in DBPermObj :
          /\ rows' = rows \ {r}
          /\ dbs' = With(dbs, r.key, new)
          /\ new.status = r.status
          /\ ~DbMayFail => new.exceptions = LoadWhitelist(r.key)
    BY <1>4, LoadRowEffect
  <2>2. pc \in {"rows", "defaults"} /\ UNCHANGED <<pc, perm, query, edited>>
    BY <1>4 DEF LoadRow
  <2>3. RowsCurrent /\ (\A q \in rows : q.key \in DOMAIN perm /\ q.status = perm[q.key].status)
    BY <2>2 DEF ReloadInv, RowsCurrent
  <2>4. /\ DOMAIN dbs' = DOMAIN dbs \cup {r.key}
        /\ dbs'[r.key] = new
        /\ \A k \in DOMAIN dbs : k # r.key => dbs'[k] = dbs[k]
    BY <2>1 DEF With
  <2>5. Applied(r.key)'
    BY <2>1, <2>2, <2>3, <2>4 DEF Applied, LoadWhitelist
  <2>6. \A k \in DOMAIN perm : Applied(k) => Applied(k)'
    BY <2>2, <2>4, <2>5 DEF Applied
  <2>7. ASSUME NEW keys, Covered(keys) PROVE Covered(keys)'
    <3> SUFFICES ASSUME NEW k \in DOMAIN perm \cap keys, ~Applied(k)'
                 PROVE  \E q \in rows' : q.key = k
      BY <2>2 DEF Covered, Applied
    <3>1. PICK q \in rows : q.key = k
      BY <2>6, <2>7 DEF Covered
    <3>2. q # r
      BY <2>5, <3>1
    <3> QED BY <2>1, <3>1, <3>2
  <2> QED BY <2>1, <2>2, <2>3, <2>7 DEF ReloadInv, RowsCurrent
<1>5. CASE ReloadDone
  <2>1. \A k \in DOMAIN perm : Applied(k)
    BY <1>0, <1>5 DEF ReloadDone, ReloadInv, Covered
  <2> QED BY <1>5, <2>1 DEF ReloadDone, ReloadInv, RowsCurrent, Applied
<1>6. CASE /\ Untouched /\ UNCHANGED <<dbs, rows, edited>>
           /\ \/ UNCHANGED pc
              \/ pc \in {"idle", "insert"} /\ pc' \in {"idle", "insert"}
  <2>1. \A k \in DOMAIN perm : Applied(k) => Applied(k)'
    BY <1>6, AppliedKept
  <2>2. DOMAIN perm' = DOMAIN perm /\ \A k \in DOMAIN perm : perm'[k].status = perm[k].status
    BY <1>6 DEF Untouched
  <2>3. ASSUME NEW keys, Covered(keys) PROVE Covered(keys)'
    BY <1>6, <2>1, <2>2, <2>3 DEF Covered
  <2>4. RowsCurrent => RowsCurrent'
    BY <1>6, <2>2 DEF RowsCurrent
  <2> QED BY <1>6, <2>1, <2>2, <2>3, <2>4 DEF ReloadInv
<1> QED BY <1>1, <1>2, <1>3, <1>4, <1>5, <1>6, ReloadSteps

LEMMA ReloadAlways == Spec => []ReloadInv
<1>1. Init => ReloadInv
  BY DEF Init, ReloadInv
<1>2. Typed /\ ReloadInv /\ [Next]_vars => ReloadInv'
  BY ReloadNext
<1> QED BY <1>1, <1>2, TypedAlways, PTL DEF Spec

\* When a reload that no edit disturbed is over, every database is judged in the
\* mode of its row and the whitelist in memory holds nothing the table does not
\* allow.
THEOREM SettingsAreApplied == ASSUME ~DbMayFail PROVE Spec => []SettingsApplied
<1>1. ReloadInv => SettingsApplied
  BY DEF ReloadInv, SettingsApplied, Applied, dbmap_find
<1> QED BY <1>1, ReloadAlways, PTL

\* The mode is applied even where the SELECT of a whitelist may fail: only the
\* whitelist stays what it was.
ModeApplied ==
  pc = "idle" /\ ~edited =>
    \A k \in DOMAIN perm : k \in DOMAIN dbs /\ dbs[k].status = perm[k].status

\* After a reload that no edit disturbed, every database in the table has the
\* mode of its row in memory, whatever statement failed.
THEOREM ModeIsApplied == Spec => []ModeApplied
<1>1. ReloadInv => ModeApplied
  BY DEF ReloadInv, ModeApplied, Applied
<1> QED BY <1>1, ReloadAlways, PTL
=============================================================================
