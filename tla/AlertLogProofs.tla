--------------------------- MODULE AlertLogProofs ---------------------------
(***************************************************************************)
(* Proofs about AlertLog, for all sets of queries, any number of calls,    *)
(* clearings and restarts, and whatever keys collide: nothing here uses    *)
(* what Key is.                                                            *)
(***************************************************************************)
EXTENDS AlertLog, SequenceTheorems, TLAPS

----------------------------------------------------------------------------
(* Types.                                                                  *)

\* Where a call has a group and where it has none.
Control ==
  /\ pc # "idle" => calls # <<>>
  /\ pc \in {"insert_group", "reselect"} => agroupid = None
  /\ pc \in {"insert_alert", "update"} => agroupid # None

Typed == TypeOK /\ Control

GroupRow == [query : Query, status : {0, 1}]

\* A call in progress is the last one.
LEMMA CurrentTyped ==
  ASSUME Typed, pc # "idle"
  PROVE  /\ Len(calls) \in DOMAIN calls /\ Len(calls) \in 1..Len(calls)
         /\ current \in Call /\ current.query \in Query
<1>1. calls \in Seq(Call) /\ calls # <<>>
  BY DEF Typed, TypeOK, Control
<1>2. Len(calls) \in Nat /\ Len(calls) # 0 /\ DOMAIN calls = 1..Len(calls)
  BY <1>1, EmptySeq, LenProperties
<1>3. Len(calls) \in 1..Len(calls)
  BY <1>2
<1>4. calls[Len(calls)] \in Call
  BY <1>1, <1>3, ElementOfSeq
<1>5. \A c \in Call : c.query \in Query
  BY DEF Call
<1> QED BY <1>2, <1>3, <1>4, <1>5 DEF current

\* What a SELECT finds is a group of the query, or none when there is none.
LEMMA FoundGroup ==
  ASSUME Typed, NEW q, NEW g \in Found(q)
  PROVE  /\ g \in 0..lastId
         /\ g = None <=> GroupsOf(q) = {}
         /\ g # None => g \in DOMAIN groups /\ groups[g].query = q
<1>1. DOMAIN groups \subseteq 1..lastId /\ lastId \in Nat
  BY DEF Typed, TypeOK
<1> QED BY <1>1 DEF Found, GroupsOf, None

\* A number in the cache was handed out for a group.
LEMMA CacheTyped ==
  ASSUME Typed, NEW q
  PROVE  agroupmap_get(q) \in 0..lastId
<1>1. lastId \in Nat /\ \A k \in DOMAIN agroupmap : agroupmap[k] \in 0..lastId
  BY DEF Typed, TypeOK
<1> QED BY <1>1 DEF agroupmap_get, None

\* Maps the cache is loaded with hold numbers of groups.
LEMMA LoadedTyped ==
  ASSUME NEW m \in Loaded, NEW k \in DOMAIN m
  PROVE  m[k] \in DOMAIN groups /\ Key(groups[m[k]].query) = k
<1>1. m[k] \in GroupsAt(k)
  BY DEF Loaded
<1> QED BY <1>1 DEF GroupsAt

\* The rows of the table after each of the steps that write it.
LEMMA GroupAdded ==
  ASSUME Typed, NEW q \in Query,
         groups' = [g \in DOMAIN groups \cup {lastId + 1} |->
                      IF g \in DOMAIN groups THEN groups[g]
                      ELSE [query |-> q, status |-> 0]],
         lastId' = lastId + 1
  PROVE  /\ DOMAIN groups' = DOMAIN groups \cup {lastId + 1}
         /\ lastId + 1 \notin DOMAIN groups
         /\ groups'[lastId + 1] = [query |-> q, status |-> 0]
         /\ \A g \in DOMAIN groups : groups'[g] = groups[g]
         /\ DOMAIN groups' \subseteq 1..lastId'
         /\ \A g \in DOMAIN groups' : groups'[g] \in GroupRow
<1>1. DOMAIN groups \subseteq 1..lastId /\ lastId \in Nat
      /\ \A g \in DOMAIN groups : groups[g] \in GroupRow
  BY DEF Typed, TypeOK, GroupRow
<1>2. lastId + 1 \notin DOMAIN groups
  BY <1>1
<1>3. [query |-> q, status |-> 0] \in GroupRow
  BY DEF GroupRow
<1> QED BY <1>1, <1>2, <1>3

LEMMA GroupUpdated ==
  ASSUME Typed, pc = "update",
         groups' = [g \in DOMAIN groups |->
                      IF g = agroupid
                      THEN [groups[g] EXCEPT !.status = NewStatus(@)] ELSE groups[g]]
  PROVE  /\ DOMAIN groups' = DOMAIN groups
         /\ \A g \in DOMAIN groups :
              /\ groups'[g] \in GroupRow /\ groups'[g].query = groups[g].query
              /\ groups'[g].status = 1 =>
                   groups[g].status = 1 \/ (g = agroupid /\ current.learned)
<1>1. \A g \in DOMAIN groups : groups[g] \in GroupRow
  BY DEF Typed, TypeOK, GroupRow
<1>2. SUFFICES ASSUME NEW g \in DOMAIN groups
               PROVE  /\ groups'[g] \in GroupRow /\ groups'[g].query = groups[g].query
                      /\ groups'[g].status = 1 =>
                           groups[g].status = 1 \/ (g = agroupid /\ current.learned)
  OBVIOUS
<1>3. CASE g = agroupid
  <2>1. groups'[g] = [groups[g] EXCEPT !.status = NewStatus(groups[g].status)]
    BY <1>3
  <2>2. NewStatus(groups[g].status) \in {0, 1}
    BY <1>1 DEF NewStatus, GroupRow
  <2>3. NewStatus(groups[g].status) = 1 => groups[g].status = 1 \/ current.learned
    BY DEF NewStatus
  <2>4. /\ groups'[g] \in GroupRow /\ groups'[g].query = groups[g].query
        /\ groups'[g].status = NewStatus(groups[g].status)
    BY <1>1, <2>1, <2>2 DEF GroupRow
  <2> QED BY <1>3, <2>3, <2>4
<1>4. CASE g # agroupid
  <2>1. groups'[g] = groups[g]
    BY <1>4
  <2> QED BY <1>1, <2>1
<1> QED BY <1>3, <1>4

LEMMA GroupCleared ==
  ASSUME Typed, NEW g \in DOMAIN groups, AdminClears(g)
  PROVE  /\ DOMAIN groups' = DOMAIN groups \ {g}
         /\ \A h \in DOMAIN groups' : groups'[h] = groups[h]
  BY DEF AdminClears, Restrict

LEMMA TypedNext ==
  ASSUME Typed, [Next]_vars
  PROVE  Typed'
<1> USE DEF tables, local, history, bounds
<1>0. /\ lastId \in Nat /\ clears \in Nat /\ stops \in Nat /\ calls \in Seq(Call)
      /\ Len(calls) \in Nat
      /\ \A g \in DOMAIN groups : groups[g] \in GroupRow
  BY LenProperties DEF Typed, TypeOK, GroupRow
<1>1. ASSUME NEW q \in Query, NEW learned \in BOOLEAN, Log(q, learned) PROVE Typed'
  <2>1. [query |-> q, learned |-> learned] \in Call
    BY DEF Call
  <2>2. calls' \in Seq(Call) /\ Len(calls') = Len(calls) + 1
    BY <1>0, <1>1, <2>1, AppendProperties DEF Log
  <2>3. calls' # <<>> /\ 1..Len(calls) \subseteq 1..Len(calls')
    BY <1>0, <2>2, EmptySeq
  <2>4. agroupid' \in 0..lastId /\ pc' \in {"select", "insert_alert"}
        /\ (pc' = "insert_alert" => agroupid' # None)
    BY <1>1, CacheTyped DEF Log
  <2>5. UNCHANGED <<groups, alerts, lastId, agroupmap, unsure, stale, clears, stops>> /\ failed' = FALSE
    BY <1>1 DEF Log
  <2>6. alerts' \subseteq [call : 1..Len(calls'), group : 1..lastId']
    BY <2>3, <2>5 DEF Typed, TypeOK
  <2> QED BY <2>2, <2>3, <2>4, <2>5, <2>6 DEF Typed, TypeOK, Control, Statement
<1>2. CASE agroup_get
  <2>1. current.query \in Query
    BY <1>2, CurrentTyped DEF agroup_get
  <2>2. agroupid' \in 0..lastId
    BY <1>0, <1>2, FoundGroup DEF agroup_get, None
  <2> QED BY <1>2, <2>1, <2>2 DEF agroup_get, Typed, TypeOK, Control, Statement
<1>3. CASE agroup_add
  <2>1. current.query \in Query
    BY <1>3, CurrentTyped DEF agroup_add
  <2>2. CASE UNCHANGED <<groups, lastId>> /\ failed' = TRUE /\ pc' = "idle"
    BY <1>3, <2>2 DEF agroup_add, Typed, TypeOK, Control, Statement
  <2>3. CASE /\ groups' = [g \in DOMAIN groups \cup {lastId + 1} |->
                              IF g \in DOMAIN groups THEN groups[g]
                              ELSE [query |-> current.query, status |-> 0]]
             /\ lastId' = lastId + 1 /\ pc' = "reselect" /\ UNCHANGED failed
    <3>1. /\ DOMAIN groups' \subseteq 1..lastId'
          /\ \A g \in DOMAIN groups' : groups'[g] \in GroupRow
      BY <2>1, <2>3, GroupAdded
    <3>2. 0..lastId \subseteq 0..lastId' /\ 1..lastId \subseteq 1..lastId' /\ lastId' \in Nat
      BY <1>0, <2>3
    <3>3. UNCHANGED <<alerts, agroupmap, agroupid, calls, unsure, stale, clears, stops>>
          /\ pc = "insert_group"
      BY <1>3 DEF agroup_add
    <3>4. alerts' \subseteq [call : 1..Len(calls'), group : 1..lastId']
      BY <3>2, <3>3 DEF Typed, TypeOK
    <3> QED BY <2>3, <3>1, <3>2, <3>3, <3>4 DEF Typed, TypeOK, Control, Statement, GroupRow
  <2> QED BY <1>3, <2>2, <2>3 DEF agroup_add
<1>4. CASE agroup_add_Reselect
  <2>1. agroupid' \in 0..lastId
    BY <1>0, <1>4, FoundGroup DEF agroup_add_Reselect, None
  <2>2. \A k \in DOMAIN agroupmap' : agroupmap'[k] \in 0..lastId
    BY <1>4, <2>1 DEF agroup_add_Reselect, Typed, TypeOK
  <2>3. calls # <<>>
    BY <1>4 DEF agroup_add_Reselect, Typed, Control
  <2> QED BY <1>4, <2>1, <2>2, <2>3 DEF agroup_add_Reselect, Typed, TypeOK, Control, Statement
<1>5. CASE alert_add
  <2>1. agroupid \in 1..lastId
    BY <1>0, <1>5 DEF alert_add, Typed, TypeOK, Control, None
  <2>2. Len(calls) \in 1..Len(calls)
    BY <1>5, CurrentTyped DEF alert_add
  <2>3. alerts' \subseteq [call : 1..Len(calls), group : 1..lastId]
    BY <1>5, <2>1, <2>2 DEF alert_add, Typed, TypeOK
  <2> QED BY <1>5, <2>3 DEF alert_add, Typed, TypeOK, Control, Statement
<1>6. CASE agroup_update
  <2>1. DOMAIN groups' = DOMAIN groups /\ \A g \in DOMAIN groups : groups'[g] \in GroupRow
    BY <1>0, <1>6, GroupUpdated DEF agroup_update
  <2> QED BY <1>6, <2>1 DEF agroup_update, Typed, TypeOK, Control, Statement, GroupRow
<1>7. CASE agroupmap_reload
  <2>1. \A k \in DOMAIN agroupmap' : agroupmap'[k] \in 0..lastId
    BY <1>0, <1>7, LoadedTyped DEF agroupmap_reload, Typed, TypeOK
  <2> QED BY <1>7, <2>1 DEF agroupmap_reload, Typed, TypeOK, Control
<1>8. CASE Restart
  <2>1. \A k \in DOMAIN agroupmap' : agroupmap'[k] \in 0..lastId
    <3>1. CASE agroupmap' \in Loaded
      BY <1>0, <3>1, LoadedTyped DEF Typed, TypeOK
    <3>2. CASE agroupmap' = <<>>
      BY <3>2
    <3> QED BY <1>8, <3>1, <3>2 DEF Restart
  <2>2. stops' \in Nat /\ agroupid' \in 0..lastId
    BY <1>0, <1>8 DEF Restart, None
  <2> QED BY <1>8, <2>1, <2>2 DEF Restart, Typed, TypeOK, Control
<1>9. ASSUME NEW g \in DOMAIN groups, AdminClears(g) PROVE Typed'
  <2>1. DOMAIN groups' = DOMAIN groups \ {g} /\ \A h \in DOMAIN groups' : groups'[h] = groups[h]
    BY <1>9, GroupCleared
  <2>2. groups[g].query \in Query
    BY <1>0 DEF GroupRow
  <2>3. clears' \in Nat /\ alerts' \subseteq alerts
    BY <1>0, <1>9 DEF AdminClears
  <2>4. stale' \subseteq {Key(q) : q \in Query}
    BY <1>9, <2>2 DEF AdminClears, Typed, TypeOK
  <2> QED BY <1>9, <2>1, <2>3, <2>4 DEF AdminClears, Typed, TypeOK, Control
<1>10. CASE UNCHANGED vars
  BY <1>10 DEF vars, Typed, TypeOK, Control, current
<1> QED BY <1>1, <1>2, <1>3, <1>4, <1>5, <1>6, <1>7, <1>8, <1>9, <1>10 DEF Next

LEMMA TypedAlways == Spec => []Typed
<1>1. Init => Typed
  <2> SUFFICES ASSUME Init PROVE Typed
    OBVIOUS
  <2>1. DOMAIN groups = {} /\ DOMAIN agroupmap = {}
    BY DEF Init
  <2>2. calls \in Seq(Call)
    BY EmptySeq DEF Init
  <2>3. /\ alerts = {} /\ lastId = 0 /\ clears = 0 /\ stops = 0 /\ agroupid = 0
        /\ pc = "idle" /\ failed = FALSE /\ unsure = {} /\ stale = {}
    BY DEF Init, None
  <2>4. TypeOK
    <3>1. alerts \subseteq [call : 1..Len(calls), group : 1..lastId]
      BY <2>3
    <3>2. DOMAIN groups \subseteq 1..lastId /\ agroupid \in 0..lastId
      BY <2>1, <2>3
    <3>3. stale \subseteq {Key(q) : q \in Query}
      BY <2>3
    <3> QED BY <2>1, <2>2, <2>3, <3>1, <3>2, <3>3 DEF TypeOK
  <2> QED BY <2>3, <2>4 DEF Typed, Control
<1> QED BY <1>1, TypedNext, PTL DEF Spec

\* Every variable has its type, and an alert is never filed under the number 0
\* that stands for no group.
THEOREM TypeCorrect == Spec => []TypeOK
<1>1. Typed => TypeOK
  BY DEF Typed
<1> QED BY <1>1, TypedAlways, PTL

----------------------------------------------------------------------------
(* One group for a query.                                                  *)

\* A group is only inserted when the SELECT before has found none, or failed.
GroupInv ==
  /\ OneGroupPerQuery
  /\ pc = "insert_group" => GroupsOf(current.query) = {} \/ current.query \in unsure

\* A call in progress goes on with the query it has begun with.
LEMMA CurrentKept ==
  UNCHANGED calls => current' = current
  BY DEF current

LEMMA GroupNext ==
  ASSUME Typed, GroupInv, [Next]_vars
  PROVE  GroupInv'
<1> USE DEF tables, local, history, bounds, GroupInv
<1>0. lastId \in Nat /\ DOMAIN groups \subseteq 1..lastId
  BY DEF Typed, TypeOK
<1>1. ASSUME NEW q \in Query, NEW learned \in BOOLEAN, Log(q, learned) PROVE GroupInv'
  BY <1>1 DEF Log, OneGroupPerQuery
<1>2. CASE agroup_get
  <2>1. UNCHANGED <<groups, calls>> /\ unsure \subseteq unsure'
    BY <1>2 DEF agroup_get
  <2>2. pc' = "insert_group" => GroupsOf(current.query) = {} \/ current.query \in unsure'
    <3>1. CASE agroupid' \in Found(current.query)
      BY <1>2, <3>1, FoundGroup DEF agroup_get
    <3>2. CASE unsure' = unsure \cup {current.query}
      BY <3>2
    <3> QED BY <1>2, <3>1, <3>2 DEF agroup_get
  <2> QED BY <2>1, <2>2, CurrentKept DEF OneGroupPerQuery, GroupsOf
<1>3. CASE agroup_add
  <2>1. current.query \in Query /\ pc' # "insert_group"
    BY <1>3, CurrentTyped DEF agroup_add
  <2>2. CASE UNCHANGED groups
    BY <1>3, <2>1, <2>2 DEF agroup_add, OneGroupPerQuery
  <2>3. CASE /\ groups' = [g \in DOMAIN groups \cup {lastId + 1} |->
                              IF g \in DOMAIN groups THEN groups[g]
                              ELSE [query |-> current.query, status |-> 0]]
             /\ lastId' = lastId + 1
    <3>1. /\ DOMAIN groups' = DOMAIN groups \cup {lastId + 1}
          /\ groups'[lastId + 1].query = current.query
          /\ \A g \in DOMAIN groups : groups'[g] = groups[g]
      BY <2>1, <2>3, GroupAdded
    <3>2. \A g \in DOMAIN groups : groups[g].query = current.query => current.query \in unsure
      BY <1>3 DEF agroup_add, GroupsOf
    <3>3. UNCHANGED unsure
      BY <1>3 DEF agroup_add
    <3>4. SUFFICES ASSUME NEW g \in DOMAIN groups', NEW h \in DOMAIN groups',
                          groups'[g].query = groups'[h].query, g # h
                   PROVE  groups'[g].query \in unsure
      BY <2>1, <3>3 DEF OneGroupPerQuery
    <3>5. CASE g \in DOMAIN groups /\ h \in DOMAIN groups
      BY <3>1, <3>4, <3>5 DEF OneGroupPerQuery
    <3>6. CASE g = lastId + 1 \/ h = lastId + 1
      BY <3>1, <3>2, <3>4, <3>6
    <3> QED BY <3>1, <3>5, <3>6
  <2> QED BY <1>3, <2>2, <2>3 DEF agroup_add
<1>4. CASE agroup_update
  <2>1. DOMAIN groups' = DOMAIN groups /\ \A g \in DOMAIN groups : groups'[g].query = groups[g].query
    BY <1>4, GroupUpdated DEF agroup_update
  <2> QED BY <1>4, <2>1 DEF agroup_update, OneGroupPerQuery
<1>5. ASSUME NEW g \in DOMAIN groups, AdminClears(g) PROVE GroupInv'
  <2>1. DOMAIN groups' \subseteq DOMAIN groups /\ \A h \in DOMAIN groups' : groups'[h] = groups[h]
    BY <1>5, GroupCleared
  <2>2. UNCHANGED <<pc, calls, unsure>>
    BY <1>5 DEF AdminClears
  <2>3. GroupsOf(current.query) = {} => GroupsOf(current.query)' = {}
    BY <2>1, <2>2, CurrentKept DEF GroupsOf
  <2> QED BY <2>1, <2>2, <2>3, CurrentKept DEF OneGroupPerQuery
<1>6. CASE /\ UNCHANGED <<groups, calls, unsure>>
           /\ pc' = pc \/ pc' # "insert_group"
  BY <1>6, CurrentKept DEF OneGroupPerQuery, GroupsOf
<1> QED BY <1>1, <1>2, <1>3, <1>4, <1>5, <1>6
        DEF Next, vars, agroup_add_Reselect, alert_add, agroupmap_reload, Restart

\* Alerts of one query pattern gather in one group, whatever interrupts the
\* calls, as long as no failed SELECT is taken for an empty answer.
THEOREM OneGroup == Spec => []OneGroupPerQuery
<1>1. Init => GroupInv
  BY DEF Init, GroupInv, OneGroupPerQuery
<1>2. Typed /\ GroupInv /\ [Next]_vars => GroupInv'
  BY GroupNext
<1>3. GroupInv => OneGroupPerQuery
  BY DEF GroupInv
<1> QED BY <1>1, <1>2, <1>3, TypedAlways, PTL DEF Spec

----------------------------------------------------------------------------
(* The number in the cache and in a call.                                  *)

\* A number that is not stale leads to a group with the key it is kept for: the
\* cache's to one with the cache's key, a call's to one with its query's key.
NumberInv ==
  /\ \A k \in DOMAIN agroupmap :
       agroupmap[k] \in DOMAIN groups => Key(groups[agroupmap[k]].query) = k
  /\ pc # "idle" /\ agroupid \in DOMAIN groups
       => Key(groups[agroupid].query) = Key(current.query)

LEMMA NumberNext ==
  ASSUME Typed, NumberInv, [Next]_vars
  PROVE  NumberInv'
<1> USE DEF tables, local, history, bounds, NumberInv
<1>0. lastId \in Nat /\ DOMAIN groups \subseteq 1..lastId /\ calls \in Seq(Call)
      /\ None \notin DOMAIN groups
  BY DEF Typed, TypeOK, None
<1>1. ASSUME NEW q \in Query, NEW learned \in BOOLEAN, Log(q, learned) PROVE NumberInv'
  <2>1. current' = [query |-> q, learned |-> learned]
    <3>1. [query |-> q, learned |-> learned] \in Call
      BY DEF Call
    <3> QED BY <1>0, <1>1, <3>1, AppendProperties DEF Log, current
  <2>2. agroupid' = agroupmap_get(q) /\ UNCHANGED <<groups, agroupmap>>
    BY <1>1 DEF Log
  <2> QED BY <1>0, <2>1, <2>2 DEF agroupmap_get
<1>2. CASE agroup_get
  <2>1. agroupid' \in DOMAIN groups => Key(groups[agroupid'].query) = Key(current.query)
    BY <1>0, <1>2, FoundGroup DEF agroup_get
  <2> QED BY <1>2, <2>1, CurrentKept DEF agroup_get
<1>3. CASE agroup_add
  <2>1. current.query \in Query /\ agroupid = None
    BY <1>3, CurrentTyped DEF agroup_add, Typed, Control
  <2>2. CASE UNCHANGED groups
    BY <1>3, <2>2, CurrentKept DEF agroup_add
  <2>3. CASE /\ groups' = [g \in DOMAIN groups \cup {lastId + 1} |->
                              IF g \in DOMAIN groups THEN groups[g]
                              ELSE [query |-> current.query, status |-> 0]]
             /\ lastId' = lastId + 1
    <3>1. /\ DOMAIN groups' = DOMAIN groups \cup {lastId + 1}
          /\ \A g \in DOMAIN groups : groups'[g] = groups[g]
      BY <2>1, <2>3, GroupAdded
    <3>2. \A k \in DOMAIN agroupmap : agroupmap[k] \in 0..lastId
      BY DEF Typed, TypeOK
    <3>3. \A k \in DOMAIN agroupmap : agroupmap[k] # lastId + 1
      BY <1>0, <3>2
    <3>4. None \notin DOMAIN groups'
      BY <1>0, <3>1 DEF None
    <3>5. UNCHANGED <<agroupmap, agroupid, calls>>
      BY <1>3 DEF agroup_add
    <3> QED BY <2>1, <3>1, <3>3, <3>4, <3>5
  <2> QED BY <1>3, <2>2, <2>3 DEF agroup_add
<1>4. CASE agroup_add_Reselect
  <2>1. agroupid' \in DOMAIN groups => Key(groups[agroupid'].query) = Key(current.query)
    BY <1>0, <1>4, FoundGroup DEF agroup_add_Reselect
  <2>2. agroupmap' = [k \in DOMAIN agroupmap \cup {Key(current.query)} |->
                        IF k = Key(current.query) THEN agroupid' ELSE agroupmap[k]]
        /\ UNCHANGED <<groups, calls>>
    BY <1>4 DEF agroup_add_Reselect
  <2>3. \A k \in DOMAIN agroupmap' :
          agroupmap'[k] \in DOMAIN groups => Key(groups[agroupmap'[k]].query) = k
    BY <2>1, <2>2
  <2> QED BY <2>1, <2>2, <2>3, CurrentKept
<1>5. CASE agroup_update
  <2>1. DOMAIN groups' = DOMAIN groups /\ \A g \in DOMAIN groups : groups'[g].query = groups[g].query
    BY <1>5, GroupUpdated DEF agroup_update
  <2> QED BY <1>5, <2>1, CurrentKept DEF agroup_update
<1>6. CASE agroupmap_reload
  BY <1>6, LoadedTyped DEF agroupmap_reload
<1>7. CASE Restart
  <2>1. CASE agroupmap' \in Loaded
    BY <1>7, <2>1, LoadedTyped DEF Restart
  <2>2. CASE agroupmap' = <<>>
    BY <1>7, <2>2 DEF Restart
  <2> QED BY <1>7, <2>1, <2>2 DEF Restart
<1>8. ASSUME NEW g \in DOMAIN groups, AdminClears(g) PROVE NumberInv'
  <2>1. DOMAIN groups' \subseteq DOMAIN groups /\ \A h \in DOMAIN groups' : groups'[h] = groups[h]
    BY <1>8, GroupCleared
  <2> QED BY <1>8, <2>1, CurrentKept DEF AdminClears
<1>9. CASE alert_add
  BY <1>9, CurrentKept DEF alert_add
<1>10. CASE UNCHANGED vars
  BY <1>10, CurrentKept DEF vars
<1> QED BY <1>1, <1>2, <1>3, <1>4, <1>5, <1>6, <1>7, <1>8, <1>9, <1>10 DEF Next

LEMMA NumberAlways == Spec => []NumberInv
<1>1. Init => NumberInv
  BY DEF Init, NumberInv
<1> QED BY <1>1, NumberNext, TypedAlways, PTL DEF Spec

\* A learned group has a learned query behind it.
LEMMA LearnedNext ==
  ASSUME Typed, NumberInv, LearnedGroups, [Next]_vars
  PROVE  LearnedGroups'
<1> USE DEF tables, local, history, bounds
<1>0. calls \in Seq(Call)
  BY DEF Typed, TypeOK
<1>1. ASSUME NEW q \in Query, NEW learned \in BOOLEAN, Log(q, learned) PROVE LearnedGroups'
  <2>1. [query |-> q, learned |-> learned] \in Call
    BY DEF Call
  <2>2. \A n \in DOMAIN calls : n \in DOMAIN calls' /\ calls'[n] = calls[n]
    <3>1. /\ Len(calls) \in Nat /\ DOMAIN calls = 1..Len(calls)
          /\ calls' \in Seq(Call) /\ Len(calls') = Len(calls) + 1
          /\ \A n \in 1..Len(calls) : calls'[n] = calls[n]
      BY <1>0, <1>1, <2>1, LenProperties, AppendProperties DEF Log
    <3>2. DOMAIN calls' = 1..Len(calls')
      BY <3>1, LenProperties
    <3> QED BY <3>1, <3>2
  <2>3. UNCHANGED groups
    BY <1>1 DEF Log
  <2> QED BY <2>2, <2>3 DEF LearnedGroups
<1>2. CASE agroup_add
  <2>1. current.query \in Query /\ UNCHANGED calls
    BY <1>2, CurrentTyped DEF agroup_add
  <2>2. CASE UNCHANGED groups
    BY <2>1, <2>2 DEF LearnedGroups
  <2>3. CASE /\ groups' = [g \in DOMAIN groups \cup {lastId + 1} |->
                              IF g \in DOMAIN groups THEN groups[g]
                              ELSE [query |-> current.query, status |-> 0]]
             /\ lastId' = lastId + 1
    <3>1. /\ DOMAIN groups' = DOMAIN groups \cup {lastId + 1}
          /\ groups'[lastId + 1].status = 0
          /\ \A g \in DOMAIN groups : groups'[g] = groups[g]
      BY <2>1, <2>3, GroupAdded
    <3> QED BY <2>1, <3>1 DEF LearnedGroups
  <2> QED BY <1>2, <2>2, <2>3 DEF agroup_add
<1>3. CASE agroup_update
  <2>1. CASE UNCHANGED groups
    BY <1>3, <2>1 DEF agroup_update, LearnedGroups
  <2>2. CASE groups' = [g \in DOMAIN groups |->
                          IF g = agroupid
                          THEN [groups[g] EXCEPT !.status = NewStatus(@)] ELSE groups[g]]
    <3>1. /\ DOMAIN groups' = DOMAIN groups
          /\ \A g \in DOMAIN groups :
               /\ groups'[g].query = groups[g].query
               /\ groups'[g].status = 1 =>
                    groups[g].status = 1 \/ (g = agroupid /\ current.learned)
      BY <1>3, <2>2, GroupUpdated DEF agroup_update
    <3>2. agroupid \in DOMAIN groups => Key(groups[agroupid].query) = Key(current.query)
      BY <1>3 DEF agroup_update, NumberInv
    <3>3. Len(calls) \in DOMAIN calls /\ current = calls[Len(calls)] /\ UNCHANGED calls
      BY <1>3, CurrentTyped DEF agroup_update, current
    <3> QED BY <3>1, <3>2, <3>3 DEF LearnedGroups
  <2> QED BY <1>3, <2>1, <2>2 DEF agroup_update
<1>4. ASSUME NEW g \in DOMAIN groups, AdminClears(g) PROVE LearnedGroups'
  <2>1. DOMAIN groups' \subseteq DOMAIN groups /\ \A h \in DOMAIN groups' : groups'[h] = groups[h]
    BY <1>4, GroupCleared
  <2> QED BY <1>4, <2>1 DEF AdminClears, LearnedGroups
<1>5. CASE UNCHANGED <<groups, calls>>
  BY <1>5 DEF LearnedGroups
<1> QED BY <1>1, <1>2, <1>3, <1>4, <1>5
        DEF Next, vars, agroup_get, agroup_add_Reselect, alert_add, agroupmap_reload, Restart

\* No group is marked as learned unless logwhitelist was called for something
\* with its key.
THEOREM LearnedGroupsAreLearned == Spec => []LearnedGroups
<1>1. Init => LearnedGroups
  BY DEF Init, LearnedGroups
<1> QED BY <1>1, LearnedNext, TypedAlways, NumberAlways, PTL DEF Spec

----------------------------------------------------------------------------
(* AlertLog implements AlertStore.                                         *)

\* The refinement mapping.
Subjects == [n \in DOMAIN calls |-> Key(calls[n].query)]
Filed == {n \in DOMAIN calls : \E a \in alerts :
            /\ a.call = n /\ a.group \in DOMAIN groups
            /\ Key(groups[a.group].query) = Key(calls[n].query)}

IsStale == Key(current.query) \in stale

\* A number that leads to no group any more is that of a group that was cleared
\* since the cache was loaded.
FiledInv ==
  /\ \A k \in DOMAIN agroupmap :
       agroupmap[k] \in DOMAIN groups \cup {None} \/ k \in stale
  /\ pc = "reselect" => GroupsOf(current.query) # {} \/ IsStale
  /\ pc = "insert_alert" => agroupid \in DOMAIN groups \/ IsStale
  /\ pc = "update" => Len(calls) \in Filed \/ failed \/ IsStale

Inv == Typed /\ NumberInv /\ FiledInv

\* Steps that keep the alerts and the subjects of their groups keep what is filed.
LEMMA FiledSame ==
  ASSUME UNCHANGED <<alerts, calls>>,
         \A a \in alerts : a.group \in DOMAIN groups' <=> a.group \in DOMAIN groups,
         \A g \in DOMAIN groups \cap DOMAIN groups' : groups'[g].query = groups[g].query
  PROVE  Filed' = Filed
  BY DEF Filed

\* A group is inserted under a number no alert has.
LEMMA FiledAdded ==
  ASSUME Typed, agroup_add
  PROVE  /\ Filed' = Filed /\ DOMAIN groups \subseteq DOMAIN groups'
         /\ pc' = "reselect" => GroupsOf(current.query)' # {}
<1>1. current.query \in Query /\ UNCHANGED <<alerts, calls>>
  BY CurrentTyped DEF agroup_add
<1>2. CASE UNCHANGED groups /\ pc' = "idle"
  BY <1>1, <1>2, FiledSame
<1>3. CASE /\ groups' = [g \in DOMAIN groups \cup {lastId + 1} |->
                            IF g \in DOMAIN groups THEN groups[g]
                            ELSE [query |-> current.query, status |-> 0]]
           /\ lastId' = lastId + 1
  <2>1. /\ DOMAIN groups' = DOMAIN groups \cup {lastId + 1}
        /\ groups'[lastId + 1].query = current.query
        /\ \A g \in DOMAIN groups : groups'[g] = groups[g]
    BY <1>1, <1>3, GroupAdded
  <2>2. lastId \in Nat /\ \A a \in alerts : a.group \in 1..lastId
    BY DEF Typed, TypeOK
  <2>3. \A a \in alerts : a.group # lastId + 1
    BY <2>2
  <2>4. Filed' = Filed
    BY <1>1, <2>1, <2>3, FiledSame
  <2>5. current' = current
    BY <1>1, CurrentKept
  <2>6. lastId + 1 \in GroupsOf(current.query)'
    BY <2>1, <2>5 DEF GroupsOf
  <2> QED BY <2>1, <2>4, <2>6
<1> QED BY <1>2, <1>3 DEF agroup_add

\* A group is marked, and stays where it is.
LEMMA FiledUpdated ==
  ASSUME Typed, agroup_update
  PROVE  Filed' = Filed /\ DOMAIN groups' = DOMAIN groups
<1>1. /\ DOMAIN groups' = DOMAIN groups
      /\ \A g \in DOMAIN groups : groups'[g].query = groups[g].query
  BY GroupUpdated DEF agroup_update
<1>2. UNCHANGED <<alerts, calls>>
  BY DEF agroup_update
<1> QED BY <1>1, <1>2, FiledSame

\* An alert is filed, if its group is there.
LEMMA FiledAlert ==
  ASSUME Typed, NumberInv, pc = "insert_alert", UNCHANGED <<groups, calls>>,
         alerts' = alerts \cup {[call |-> Len(calls), group |-> agroupid]}
  PROVE  Filed' = IF agroupid \in DOMAIN groups THEN Filed \cup {Len(calls)} ELSE Filed
<1>1. Len(calls) \in DOMAIN calls /\ current = calls[Len(calls)]
  BY CurrentTyped DEF current
<1>2. agroupid \in DOMAIN groups => Key(groups[agroupid].query) = Key(current.query)
  BY DEF NumberInv
<1>3. \A n \in DOMAIN calls :
        n \in Filed' <=> n \in Filed \/ (n = Len(calls) /\ agroupid \in DOMAIN groups)
  <2> DEFINE new == [call |-> Len(calls), group |-> agroupid]
  <2> SUFFICES ASSUME NEW n \in DOMAIN calls
               PROVE  n \in Filed' <=> n \in Filed \/ (n = Len(calls) /\ agroupid \in DOMAIN groups)
    OBVIOUS
  <2>1. new.call = Len(calls) /\ new.group = agroupid /\ alerts' = alerts \cup {new}
    OBVIOUS
  <2> HIDE DEF new
  <2>2. n \in Filed' <=> \E a \in alerts \cup {new} :
          a.call = n /\ a.group \in DOMAIN groups /\ Key(groups[a.group].query) = Key(calls[n].query)
    BY <2>1 DEF Filed
  <2>3. n \in Filed <=> \E a \in alerts :
          a.call = n /\ a.group \in DOMAIN groups /\ Key(groups[a.group].query) = Key(calls[n].query)
    BY DEF Filed
  <2> QED BY <1>1, <1>2, <2>1, <2>2, <2>3
<1>4. Filed \subseteq DOMAIN calls /\ Filed' \subseteq DOMAIN calls
  BY DEF Filed
<1> QED BY <1>1, <1>3, <1>4

\* Alerts of a group that is cleared are gone, no others.
LEMMA FiledCleared ==
  ASSUME Typed, NEW g \in DOMAIN groups, AdminClears(g)
  PROVE  /\ Filed' \subseteq Filed
         /\ \A n \in Filed \ Filed' : Subjects[n] = Key(groups[g].query)
<1>1. DOMAIN groups' = DOMAIN groups \ {g} /\ \A h \in DOMAIN groups' : groups'[h] = groups[h]
  BY GroupCleared
<1>2. alerts' = {a \in alerts : a.group # g} /\ UNCHANGED calls
  BY DEF AdminClears
<1>3. Filed' \subseteq Filed
  BY <1>1, <1>2 DEF Filed
<1>4. ASSUME NEW n \in Filed \ Filed' PROVE Subjects[n] = Key(groups[g].query)
  <2>1. PICK a \in alerts : /\ a.call = n /\ a.group \in DOMAIN groups
                            /\ Key(groups[a.group].query) = Key(calls[n].query)
    BY DEF Filed
  <2>2. n \in DOMAIN calls
    BY DEF Filed
  <2>3. a.group = g
    BY <1>1, <1>2, <2>1, <2>2, <1>4 DEF Filed
  <2> QED BY <2>1, <2>2, <2>3 DEF Subjects
<1> QED BY <1>3, <1>4

\* A new call is not filed yet.
LEMMA FiledLogged ==
  ASSUME Typed, NEW q \in Query, NEW learned \in BOOLEAN, Log(q, learned)
  PROVE  /\ Filed' = Filed /\ current' = [query |-> q, learned |-> learned]
         /\ Subjects' = Append(Subjects, Key(q))
<1>1. [query |-> q, learned |-> learned] \in Call /\ calls \in Seq(Call)
  BY DEF Call, Typed, TypeOK
<1>2. UNCHANGED <<groups, alerts>> /\ calls' = Append(calls, [query |-> q, learned |-> learned])
  BY DEF Log, tables
<1>3. /\ Len(calls) \in Nat /\ DOMAIN calls = 1..Len(calls)
      /\ calls' \in Seq(Call) /\ Len(calls') = Len(calls) + 1
      /\ \A n \in 1..Len(calls) : calls'[n] = calls[n]
      /\ calls'[Len(calls) + 1] = [query |-> q, learned |-> learned]
  BY <1>1, <1>2, LenProperties, AppendProperties
<1>4. DOMAIN calls' = 1..Len(calls) + 1
  BY <1>3, LenProperties
<1>5. \A a \in alerts : a.call \in 1..Len(calls)
  BY DEF Typed, TypeOK
<1>6. Filed' = Filed
  <2>1. \A n \in DOMAIN calls : n \in DOMAIN calls' /\ (n \in Filed' <=> n \in Filed)
    BY <1>2, <1>3, <1>4 DEF Filed
  <2>2. \A n \in Filed' : n \in DOMAIN calls
    BY <1>2, <1>3, <1>5 DEF Filed
  <2>3. Filed \subseteq DOMAIN calls
    BY DEF Filed
  <2> QED BY <2>1, <2>2, <2>3
<1>7. Subjects' = Append(Subjects, Key(q))
  <2> DEFINE S == {Key(r) : r \in Query}
  <2>1. \A n \in DOMAIN calls : calls[n] \in Call
    BY <1>1, <1>3, ElementOfSeq
  <2>2. \A c \in Call : Key(c.query) \in S
    BY DEF Call
  <2>3. Subjects \in [1..Len(calls) -> S]
    BY <1>3, <2>1, <2>2 DEF Subjects
  <2>4. Key(q) \in S
    OBVIOUS
  <2>5. \A n \in DOMAIN calls' : calls'[n] \in Call
    BY <1>3, <1>4, ElementOfSeq
  <2>6. Subjects' \in [1..Len(calls) + 1 -> S]
    BY <1>4, <2>2, <2>5 DEF Subjects
  <2>7. \A n \in 1..Len(calls) : Subjects'[n] = Subjects[n]
    BY <1>3, <1>4 DEF Subjects
  <2>8. Subjects'[Len(calls) + 1] = Key(q)
    BY <1>3, <1>4 DEF Subjects
  <2> HIDE DEF S
  <2>9. Subjects \in Seq(S) /\ Len(Subjects) = Len(calls)
    BY <1>3, <2>3
  <2>10. Subjects' \in Seq(S) /\ Len(Subjects') = Len(calls) + 1
    BY <1>3, <2>6
  <2>11. /\ Append(Subjects, Key(q)) \in Seq(S)
         /\ Len(Append(Subjects, Key(q))) = Len(calls) + 1
         /\ \A n \in 1..Len(calls) : Append(Subjects, Key(q))[n] = Subjects[n]
         /\ Append(Subjects, Key(q))[Len(calls) + 1] = Key(q)
    BY <2>4, <2>9, AppendProperties
  <2>12. \A n \in 1..Len(calls) + 1 : Subjects'[n] = Append(Subjects, Key(q))[n]
    BY <1>3, <2>7, <2>8, <2>11
  <2> QED BY <2>10, <2>11, <2>12, SeqEqual
<1>8. current' = [query |-> q, learned |-> learned]
  BY <1>3 DEF current
<1> QED BY <1>6, <1>7, <1>8

LEMMA FiledNext ==
  ASSUME Inv, [Next]_vars
  PROVE  FiledInv'
<1> USE DEF tables, local, history, bounds, Inv, FiledInv
<1>0. lastId \in Nat /\ DOMAIN groups \subseteq 1..lastId
  BY DEF Typed, TypeOK
<1>1. ASSUME NEW q \in Query, NEW learned \in BOOLEAN, Log(q, learned) PROVE FiledInv'
  <2>1. current'.query = q
    BY <1>1, FiledLogged
  <2>2. agroupid' = agroupmap_get(q) /\ UNCHANGED <<groups, agroupmap, stale>>
        /\ pc' = IF agroupid' = None THEN "select" ELSE "insert_alert"
    BY <1>1 DEF Log
  <2> QED BY <2>1, <2>2 DEF agroupmap_get, IsStale
<1>2. CASE agroup_get
  <2>1. agroupid' # None => agroupid' \in DOMAIN groups
    BY <1>2, FoundGroup DEF agroup_get
  <2> QED BY <1>2, <2>1 DEF agroup_get
<1>3. CASE agroup_add
  BY <1>3, FiledAdded DEF agroup_add
<1>4. CASE agroup_add_Reselect
  <2>1. agroupid' # None => agroupid' \in DOMAIN groups
    BY <1>4, FoundGroup DEF agroup_add_Reselect
  <2>2. agroupmap' = [k \in DOMAIN agroupmap \cup {Key(current.query)} |->
                        IF k = Key(current.query) THEN agroupid' ELSE agroupmap[k]]
        /\ UNCHANGED <<groups, calls, stale>>
        /\ pc' = IF agroupid' = None THEN "idle" ELSE "insert_alert"
    BY <1>4 DEF agroup_add_Reselect
  <2>3. \A k \in DOMAIN agroupmap' : agroupmap'[k] \in DOMAIN groups \cup {None} \/ k \in stale
    BY <2>1, <2>2
  <2> QED BY <2>1, <2>2, <2>3
<1>5. CASE alert_add
  <2>1. UNCHANGED <<groups, calls, agroupmap, stale>> /\ pc = "insert_alert" /\ pc' = "update"
    BY <1>5 DEF alert_add
  <2>2. IsStale' = IsStale
    BY <2>1, CurrentKept DEF IsStale
  <2>3. CASE alerts' = alerts \cup {[call |-> Len(calls), group |-> agroupid]}
    BY <2>1, <2>2, <2>3, FiledAlert
  <2>4. CASE failed' = TRUE
    BY <2>1, <2>4
  <2> QED BY <1>5, <2>3, <2>4 DEF alert_add
<1>6. CASE agroup_update
  BY <1>6, FiledUpdated DEF agroup_update
<1>7. CASE agroupmap_reload
  BY <1>7, LoadedTyped DEF agroupmap_reload
<1>8. CASE Restart
  <2>1. CASE agroupmap' \in Loaded
    BY <1>8, <2>1, LoadedTyped DEF Restart
  <2>2. CASE agroupmap' = <<>>
    BY <1>8, <2>2 DEF Restart
  <2> QED BY <1>8, <2>1, <2>2 DEF Restart
<1>9. ASSUME NEW g \in DOMAIN groups, AdminClears(g) PROVE FiledInv'
  <2>1. DOMAIN groups' = DOMAIN groups \ {g} /\ \A h \in DOMAIN groups' : groups'[h] = groups[h]
    BY <1>9, GroupCleared
  <2>2. stale' = stale \cup {Key(groups[g].query)} /\ UNCHANGED <<agroupmap, calls, pc, agroupid, failed>>
    BY <1>9 DEF AdminClears
  <2>3. current' = current
    BY <2>2, CurrentKept
  <2>4. \A k \in DOMAIN agroupmap :
          agroupmap[k] = g => k \in stale'
    BY <2>2 DEF NumberInv
  <2>5. pc = "reselect" /\ g \in GroupsOf(current.query) => IsStale'
    BY <2>2, <2>3 DEF GroupsOf, IsStale
  <2>6. pc = "reselect" => GroupsOf(current.query)' # {} \/ IsStale'
    BY <2>1, <2>2, <2>3, <2>5 DEF GroupsOf, IsStale
  <2>7. pc = "insert_alert" => agroupid \in DOMAIN groups' \/ IsStale'
    BY <2>1, <2>2, <2>3 DEF NumberInv, IsStale
  <2>8. pc = "update" => Len(calls) \in Filed' \/ failed \/ IsStale'
    <3>1. pc = "update" => Len(calls) \in DOMAIN calls /\ Subjects[Len(calls)] = Key(current.query)
      BY CurrentTyped DEF Subjects, current
    <3> QED BY <1>9, <2>2, <2>3, <3>1, FiledCleared DEF IsStale
  <2> QED BY <2>1, <2>2, <2>4, <2>6, <2>7, <2>8
<1>10. CASE UNCHANGED vars
  BY <1>10, CurrentKept DEF vars, Filed, GroupsOf, IsStale
<1> QED BY <1>1, <1>2, <1>3, <1>4, <1>5, <1>6, <1>7, <1>8, <1>9, <1>10 DEF Next

LEMMA InvAlways == Spec => []Inv
<1>1. Init => FiledInv
  BY DEF Init, FiledInv
<1>2. Inv /\ [Next]_vars => FiledInv'
  BY FiledNext
<1> QED BY <1>1, <1>2, TypedAlways, NumberAlways, PTL DEF Spec, Inv

\* The mapping of the abstract variables, and a step that leaves them alone.
LEMMA Stutter ==
  ASSUME UNCHANGED <<calls, pc, failed, stale, stops>>, Filed' = Filed
  PROVE  UNCHANGED Store!vars
  BY DEF Store!vars, Filed

LEMMA LastSubject ==
  ASSUME Typed, pc # "idle"
  PROVE  Len(Subjects) = Len(calls) /\ Subjects[Len(calls)] = Key(current.query)
<1>1. calls \in Seq(Call) /\ DOMAIN calls = 1..Len(calls) /\ Len(calls) \in Nat
  BY LenProperties DEF Typed, TypeOK
<1>2. Len(Subjects) = Len(calls)
  BY <1>1 DEF Subjects
<1> QED BY <1>2, CurrentTyped DEF Subjects, current

\* A statement that fails in the middle of a call, or the end of it.
LEMMA FailStep ==
  ASSUME pc # "idle", failed' = TRUE, UNCHANGED <<calls, stale, stops>>, Filed' = Filed
  PROVE  Store!Fail
  BY DEF Store!Fail, Filed

LEMMA ReturnStep ==
  ASSUME Inv, pc # "idle", pc' = "idle",
         UNCHANGED <<calls, failed, stale, stops>>, Filed' = Filed,
         Len(calls) \in Filed \/ failed \/ IsStale
  PROVE  Store!Return
<1>1. Len(Subjects) = Len(calls) /\ Subjects[Len(calls)] = Key(current.query)
  BY LastSubject DEF Inv
<1> QED BY <1>1 DEF Store!Return, Store!Last, Subjects, Filed, IsStale

\* Every step of the calls, the timer, the administrator and a restart is one of
\* the store, or does not show in it.
LEMMA StoreStep ==
  ASSUME Inv, [Next]_vars
  PROVE  [Store!Next]_(Store!vars)
<1> USE DEF tables, local, history, bounds, Inv
<1>1. ASSUME NEW q \in Query, NEW learned \in BOOLEAN, Log(q, learned)
      PROVE  Store!Next
  <2>1. Filed' = Filed /\ Subjects' = Append(Subjects, Key(q))
    BY <1>1, FiledLogged
  <2>2. pc = "idle" /\ pc' # "idle" /\ failed' = FALSE /\ UNCHANGED <<stale, stops>>
    BY <1>1 DEF Log
  <2>3. Store!Log(Key(q))
    BY <2>1, <2>2 DEF Store!Log, Filed, Subjects
  <2> QED BY <2>3 DEF Store!Next
<1>2. CASE agroup_get
  <2>1. UNCHANGED <<groups, alerts, calls, stale, stops>> /\ pc # "idle" /\ pc' # "idle"
    BY <1>2 DEF agroup_get
  <2>2. Filed' = Filed
    BY <2>1 DEF Filed
  <2>3. CASE failed' = TRUE
    BY <2>1, <2>2, <2>3, FailStep DEF Store!Next
  <2>4. CASE UNCHANGED failed
    BY <2>1, <2>2, <2>4 DEF Store!vars, Filed
  <2> QED BY <1>2, <2>3, <2>4 DEF agroup_get
<1>3. CASE agroup_add
  <2>1. Filed' = Filed /\ UNCHANGED <<calls, stale, stops>> /\ pc # "idle"
    BY <1>3, FiledAdded DEF agroup_add
  <2>2. CASE failed' = TRUE
    BY <2>1, <2>2, FailStep DEF Store!Next
  <2>3. CASE UNCHANGED failed /\ pc' = "reselect"
    BY <2>1, <2>3 DEF Store!vars, Filed
  <2> QED BY <1>3, <2>2, <2>3 DEF agroup_add
<1>4. CASE agroup_add_Reselect
  <2>1. UNCHANGED <<groups, alerts, calls, stale, stops>> /\ pc = "reselect"
    BY <1>4 DEF agroup_add_Reselect
  <2>2. Filed' = Filed
    BY <2>1 DEF Filed
  <2>3. CASE failed' = TRUE
    BY <2>1, <2>2, <2>3, FailStep DEF Store!Next
  <2>4. CASE agroupid' \in Found(current.query) /\ UNCHANGED failed
    <3>1. CASE agroupid' = None
      <4>1. GroupsOf(current.query) = {} /\ pc' = "idle"
        BY <1>4, <2>4, <3>1, FoundGroup DEF agroup_add_Reselect
      <4>2. IsStale
        BY <2>1, <4>1 DEF FiledInv
      <4> QED BY <2>1, <2>2, <2>4, <4>1, <4>2, ReturnStep DEF Store!Next
    <3>2. CASE agroupid' # None
      <4>1. pc' = "insert_alert"
        BY <1>4, <3>2 DEF agroup_add_Reselect
      <4> QED BY <2>1, <2>2, <2>4, <4>1 DEF Store!vars, Filed
    <3> QED BY <3>1, <3>2
  <2> QED BY <1>4, <2>3, <2>4 DEF agroup_add_Reselect
<1>5. CASE alert_add
  <2>1. UNCHANGED <<groups, calls, stale, stops>> /\ pc = "insert_alert" /\ pc' = "update"
    BY <1>5 DEF alert_add
  <2>2. CASE failed' = TRUE /\ UNCHANGED alerts
    <3>1. Filed' = Filed
      BY <2>1, <2>2 DEF Filed
    <3> QED BY <2>1, <2>2, <3>1, FailStep DEF Store!Next
  <2>3. CASE alerts' = alerts \cup {[call |-> Len(calls), group |-> agroupid]} /\ UNCHANGED failed
    <3>1. Filed' = IF agroupid \in DOMAIN groups THEN Filed \cup {Len(calls)} ELSE Filed
      BY <2>1, <2>3, FiledAlert
    <3>2. CASE agroupid \in DOMAIN groups
      <4>1. Len(Subjects) = Len(calls)
        BY <2>1, LastSubject
      <4>2. Store!File
        BY <2>1, <2>3, <3>1, <3>2, <4>1 DEF Store!File, Store!Last, Subjects, Filed
      <4> QED BY <4>2 DEF Store!Next
    <3>3. CASE agroupid \notin DOMAIN groups
      BY <2>1, <2>3, <3>1, <3>3 DEF Store!vars, Filed
    <3> QED BY <3>2, <3>3
  <2> QED BY <1>5, <2>2, <2>3 DEF alert_add
<1>6. CASE agroup_update
  <2>1. Filed' = Filed /\ UNCHANGED <<calls, stale, stops>> /\ pc = "update" /\ pc' = "idle"
    BY <1>6, FiledUpdated DEF agroup_update
  <2>2. CASE failed' = TRUE
    BY <2>1, <2>2, FailStep DEF Store!Next
  <2>3. CASE UNCHANGED failed
    <3>1. Len(calls) \in Filed \/ failed \/ IsStale
      BY <2>1 DEF FiledInv
    <3> QED BY <2>1, <2>3, <3>1, ReturnStep DEF Store!Next
  <2> QED BY <1>6, <2>2, <2>3 DEF agroup_update
<1>7. CASE agroupmap_reload
  <2>1. /\ UNCHANGED <<groups, alerts, calls, failed, stops, pc>>
        /\ pc = "idle" /\ stale' = {}
    BY <1>7 DEF agroupmap_reload
  <2>2. Filed' = Filed
    BY <2>1 DEF Filed
  <2>3. Store!Refresh
    BY <2>1, <2>2 DEF Store!Refresh, Filed
  <2> QED BY <2>3 DEF Store!Next
<1>8. CASE Restart
  <2>1. /\ UNCHANGED <<groups, alerts, calls, failed>>
        /\ pc' = "idle" /\ stale' = {} /\ stops' = stops + 1
    BY <1>8 DEF Restart
  <2>2. Filed' = Filed
    BY <2>1 DEF Filed
  <2>3. Store!Crash
    BY <2>1, <2>2 DEF Store!Crash, Filed
  <2> QED BY <2>3 DEF Store!Next
<1>9. ASSUME NEW g \in DOMAIN groups, AdminClears(g)
      PROVE  Store!Next
  <2>1. PICK q \in Query : q = groups[g].query
    BY DEF Typed, TypeOK
  <2> DEFINE k == Key(q)
  <2>2. stale' = stale \cup {k} /\ UNCHANGED <<calls, pc, failed, stops>>
    BY <1>9, <2>1 DEF AdminClears
  <2>3. Filed' \subseteq Filed /\ \A n \in Filed \ Filed' : Subjects[n] = k
    BY <1>9, <2>1, FiledCleared
  <2>4. Filed \ Filed' \in SUBSET {n \in Filed : Subjects[n] = k}
    BY <2>3
  <2>5. Filed' = Filed \ (Filed \ Filed')
    BY <2>3
  <2>6. \E gone \in SUBSET {n \in Filed : Subjects[n] = k} : Filed' = Filed \ gone
    BY <2>4, <2>5
  <2>7. Store!Clear(k)
    BY <2>2, <2>6 DEF Store!Clear, Filed, Subjects
  <2> QED BY <2>1, <2>7 DEF Store!Next
<1>10. CASE UNCHANGED vars
  BY <1>10 DEF vars, Store!vars
<1> QED BY <1>1, <1>2, <1>3, <1>4, <1>5, <1>6, <1>7, <1>8, <1>9, <1>10 DEF Next

\* Every alert is filed under its subject, or something failed, the program was
\* stopped, or the subject was cleared while the cache still knew it.
THEOREM StoreImplemented == Spec => AlertsAreFiled
<1>1. Init => Store!Init
  BY DEF Init, Store!Init
<1>2. Inv /\ [Next]_vars => [Store!Next]_(Store!vars)
  BY StoreStep
<1> QED BY <1>1, <1>2, InvAlways, PTL DEF Spec, AlertsAreFiled, Store!StoreSpec
=============================================================================
