------------------------------ MODULE AlertLog ------------------------------
(***************************************************************************)
(* The alerts of alert.cpp.  An alert is filed in a group, one for each    *)
(* proxy, database and query pattern; agroupmap caches the numbers of the  *)
(* groups and is replaced every five seconds.  logalert and logwhitelist   *)
(* take up to six statements on the configuration database: each may fail, *)
(* between two of them the administration program may clear groups, and    *)
(* the program may be stopped and started again, so each is a step.        *)
(***************************************************************************)
EXTENDS Integers, Sequences, FiniteSets, Functions

CONSTANTS
  Query,       \* records [proxy, db, pattern]: what the alerts are about
  KeyWidth,    \* values of the character that stands for a proxy in a key
  CallBound,   \* bound: calls of logalert and logwhitelist
  ClearBound,  \* bound: groups the administrator clears
  StopBound    \* bound: restarts of the program

ASSUME AlertLogAssumption ==
  /\ \A q \in Query : q.proxy \in Nat /\ q.db \in Seq(STRING) /\ q.pattern \in Seq(STRING)
  /\ KeyWidth \in Nat \ {0}
  /\ CallBound \in Nat /\ ClearBound \in Nat /\ StopBound \in Nat

VARIABLES
  groups,    \* the table alert_group: a row for each agroupid
  alerts,    \* the table alert: which call filed its alert in which group
  agroupmap, \* the cache: agroupids for keys
  pc,        \* the next statement of the call in progress, "idle" without one
  agroupid,  \* the local variable of logalert and logwhitelist
  calls,     \* history: what each call was about
  lastId,    \* the last agroupid handed out
  clears, stops,  \* numbers of clearings and restarts
  failed,    \* history: a statement of the last call failed
  unsure,    \* history: queries whose SELECT of the group once failed
  stale      \* history: keys cleared since agroupmap was last replaced

tables == <<groups, alerts, lastId>>
local == <<pc, agroupid>>
history == <<calls, failed, unsure, stale>>
bounds == <<clears, stops>>
vars == <<tables, agroupmap, local, history, bounds>>

None == 0
Statement == {"select", "insert_group", "reselect", "insert_alert", "update"}
Call == [query : Query, learned : BOOLEAN]

current == calls[Len(calls)]

\* The key of agroupmap: "key = proxy_id" assigns one character, and the name
\* of the database and the pattern are joined by a comma.
Key(q) == <<q.proxy % KeyWidth, q.db \o <<",">> \o q.pattern>>

\* Numbers of the groups of a query, and of those that share its key.
GroupsOf(q) == {g \in DOMAIN groups : groups[g].query = q}
GroupsAt(k) == {g \in DOMAIN groups : Key(groups[g].query) = k}

Init ==
  /\ groups = <<>> /\ alerts = {} /\ lastId = 0
  /\ agroupmap = <<>>
  /\ pc = "idle" /\ agroupid = None
  /\ calls = <<>> /\ failed = FALSE /\ unsure = {} /\ stale = {}
  /\ clears = 0 /\ stops = 0

----------------------------------------------------------------------------
(* logalert and logwhitelist.                                              *)

agroupmap_get(q) == IF Key(q) \in DOMAIN agroupmap THEN agroupmap[Key(q)] ELSE None

\* check_query logs an alert; the first look is into the cache.
Log(q, learned) ==
  /\ pc = "idle" /\ Len(calls) < CallBound
  /\ calls' = Append(calls, [query |-> q, learned |-> learned])
  /\ agroupid' = agroupmap_get(q)
  /\ pc' = IF agroupid' = None THEN "select" ELSE "insert_alert"
  /\ failed' = FALSE
  /\ UNCHANGED <<tables, agroupmap, unsure, stale, bounds>>

\* What a SELECT of the group returns: the number in its first row, 0 when
\* there is none.
Found(q) == IF GroupsOf(q) = {} THEN {None} ELSE GroupsOf(q)

\* Mutant: the group is not looked for in the table.
agroup_get_Skipped ==
  /\ pc = "select"
  /\ agroupid' = None /\ pc' = "insert_group"
  /\ UNCHANGED <<tables, agroupmap, history, bounds>>

\* The SELECT of agroup_get; 0 stands for a failure, too.
agroup_get ==
  /\ pc = "select"
  /\ \/ /\ agroupid' \in Found(current.query)
        /\ UNCHANGED <<failed, unsure>>
     \/ /\ agroupid' = None
        /\ failed' = TRUE /\ unsure' = unsure \cup {current.query}
  /\ pc' = IF agroupid' = None THEN "insert_group" ELSE "insert_alert"
  /\ UNCHANGED <<tables, agroupmap, calls, stale, bounds>>

\* The INSERT of agroup_add.  When it fails the call gives up.
agroup_add ==
  /\ pc = "insert_group"
  /\ \/ /\ groups' = [g \in DOMAIN groups \cup {lastId + 1} |->
                        IF g \in DOMAIN groups THEN groups[g]
                        ELSE [query |-> current.query, status |-> 0]]
        /\ lastId' = lastId + 1
        /\ pc' = "reselect"
        /\ UNCHANGED failed
     \/ /\ failed' = TRUE /\ pc' = "idle"
        /\ UNCHANGED <<groups, lastId>>
  /\ UNCHANGED <<alerts, agroupmap, agroupid, calls, unsure, stale, bounds>>

\* The second SELECT of agroup_add, whose answer is cached even when it is 0.
agroup_add_Reselect ==
  /\ pc = "reselect"
  /\ \/ agroupid' \in Found(current.query) /\ UNCHANGED failed
     \/ agroupid' = None /\ failed' = TRUE
  /\ agroupmap' = [k \in DOMAIN agroupmap \cup {Key(current.query)} |->
                     IF k = Key(current.query) THEN agroupid' ELSE agroupmap[k]]
  /\ pc' = IF agroupid' = None THEN "idle" ELSE "insert_alert"
  /\ UNCHANGED <<tables, calls, unsure, stale, bounds>>

\* The INSERT of alert_add; its result is ignored.
alert_add ==
  /\ pc = "insert_alert"
  /\ \/ /\ alerts' = alerts \cup {[call |-> Len(calls), group |-> agroupid]}
        /\ UNCHANGED failed
     \/ failed' = TRUE /\ UNCHANGED alerts
  /\ pc' = "update"
  /\ UNCHANGED <<groups, lastId, agroupmap, agroupid, calls, unsure, stale, bounds>>

\* Mutant: logalert approves the group, too.
NewStatus_Always(old) == 1

\* logwhitelist marks the group as learned, logalert leaves its status alone.
NewStatus(old) == IF current.learned THEN 1 ELSE old

\* The UPDATE of agroup_update or agroup_update_status: a group that is gone
\* is not updated, and nobody notices.
agroup_update ==
  /\ pc = "update"
  /\ \/ /\ groups' = [g \in DOMAIN groups |->
                        IF g = agroupid
                        THEN [groups[g] EXCEPT !.status = NewStatus(@)] ELSE groups[g]]
        /\ UNCHANGED failed
     \/ failed' = TRUE /\ UNCHANGED groups
  /\ pc' = "idle"
  /\ UNCHANGED <<alerts, lastId, agroupmap, agroupid, calls, unsure, stale, bounds>>

----------------------------------------------------------------------------
(* agroupmap_reload, from the timer, and at the start of the program.      *)

\* Maps the SELECT may fill: of several groups with one key the row fetched
\* last wins.
Loaded ==
  LET keys == {Key(groups[g].query) : g \in DOMAIN groups}
  IN  {m \in [keys -> DOMAIN groups] : \A k \in keys : m[k] \in GroupsAt(k)}

\* Mutant: the old entries are kept.
agroupmap_reload_Merges ==
  /\ pc = "idle"
  /\ \E m \in Loaded :
       agroupmap' = [k \in DOMAIN agroupmap \cup DOMAIN m |->
                       IF k \in DOMAIN agroupmap THEN agroupmap[k] ELSE m[k]]
  /\ stale' = {}
  /\ UNCHANGED <<tables, local, calls, failed, unsure, bounds>>

\* When the SELECT fails the map stays as it was.
agroupmap_reload ==
  /\ pc = "idle"
  /\ agroupmap' \in Loaded
  /\ stale' = {}
  /\ UNCHANGED <<tables, local, calls, failed, unsure, bounds>>

\* The program is stopped, at whatever statement, and started again;
\* agroupmap_init may fail, which nobody checks.
Restart ==
  /\ stops < StopBound
  /\ agroupmap' \in Loaded \cup {<<>>}
  /\ pc' = "idle" /\ agroupid' = None
  /\ stale' = {}
  /\ stops' = stops + 1
  /\ UNCHANGED <<tables, calls, failed, unsure, clears>>

\* The administrator removes a group and its alerts.
AdminClears(g) ==
  /\ clears < ClearBound
  /\ groups' = Restrict(groups, DOMAIN groups \ {g})
  /\ alerts' = {a \in alerts : a.group # g}
  /\ stale' = stale \cup {Key(groups[g].query)}
  /\ clears' = clears + 1
  /\ UNCHANGED <<lastId, agroupmap, local, calls, failed, unsure, stops>>

Next ==
  \/ \E q \in Query, learned \in BOOLEAN : Log(q, learned)
  \/ agroup_get \/ agroup_add \/ agroup_add_Reselect
  \/ alert_add \/ agroup_update
  \/ agroupmap_reload \/ Restart
  \/ \E g \in DOMAIN groups : AdminClears(g)

Spec == Init /\ [][Next]_vars

----------------------------------------------------------------------------
(* Properties.                                                             *)

\* The type of every variable.
TypeOK ==
  /\ DOMAIN groups \subseteq 1..lastId
  /\ \A g \in DOMAIN groups : groups[g] \in [query : Query, status : {0, 1}]
  /\ alerts \subseteq [call : 1..Len(calls), group : 1..lastId]
  /\ \A k \in DOMAIN agroupmap : agroupmap[k] \in 0..lastId
  /\ pc \in Statement \cup {"idle"} /\ agroupid \in 0..lastId
  /\ calls \in Seq(Call) /\ lastId \in Nat /\ clears \in Nat /\ stops \in Nat
  /\ failed \in BOOLEAN /\ unsure \subseteq Query
  /\ stale \subseteq {Key(q) : q \in Query}

\* Alerts of one query pattern gather in one group, across calls, reloads,
\* clearings and restarts that cut a call short; only a SELECT that failed
\* and was taken for "no such group" adds a second one.
OneGroupPerQuery ==
  \A g, h \in DOMAIN groups :
    groups[g].query = groups[h].query => g = h \/ groups[g].query \in unsure

\* No group is marked as learned unless logwhitelist was called for its
\* query, or for one that shares its key: the number in the cache or in a
\* call in progress never leads to the group of something else.
LearnedGroups ==
  \A g \in DOMAIN groups :
    groups[g].status = 1 =>
      \E n \in DOMAIN calls :
        calls[n].learned /\ Key(calls[n].query) = Key(groups[g].query)

\* The alerts implement a store that files every alert under its subject, the
\* key of its query, whatever was cached, or has an excuse.
Store == INSTANCE AlertStore WITH
  Subject <- {Key(q) : q \in Query},
  subjects <- [n \in DOMAIN calls |-> Key(calls[n].query)],
  pending <- pc # "idle",
  excused <- failed,
  crashes <- stops,
  filed <- {n \in DOMAIN calls : \E a \in alerts :
              /\ a.call = n /\ a.group \in DOMAIN groups
              /\ Key(groups[a.group].query) = Key(calls[n].query)}

AlertsAreFiled == Store!StoreSpec
=============================================================================
