--------------------------- MODULE ProxyMapProofs ---------------------------
(***************************************************************************)
(* Proofs about ProxyMap, for all sets of proxies and addresses, any       *)
(* number of connections and edits, and whether or not statements fail.    *)
(***************************************************************************)
EXTENDS ProxyMap, WellFoundedInduction, TLAPS

----------------------------------------------------------------------------
(* Maps and tables.                                                        *)

\* The clean-up loop finds an element with the least key.
LEMMA MinIn ==
  ASSUME NEW S \in SUBSET Nat, S # {}
  PROVE  Min(S) \in S
<1> DEFINE R == OpToRel(<, Nat)
<1>1. IsWellFoundedOn(R, Nat)
  BY NatLessThanWellFounded
<1>2. \A x, y \in Nat : x < y => <<x, y>> \in R
  BY DEF OpToRel
<1> HIDE DEF R
<1>3. PICK x \in S : \A y \in S : ~(<<y, x>> \in R)
  BY <1>1, WFMin
<1>4. ASSUME NEW y \in S PROVE x <= y
  <2>1. x \in Nat /\ y \in Nat /\ ~(y < x)
    BY <1>2, <1>3
  <2> QED BY <2>1
<1> QED BY <1>4 DEF Min

LEMMA PartialTyped ==
  ASSUME NEW f, NEW T
  PROVE  f \in Partial(T) <=> DOMAIN f \in SUBSET Id /\ f \in [DOMAIN f -> T]
  BY DEF Partial

LEMMA WithTyped ==
  ASSUME NEW T, NEW f \in Partial(T), NEW id \in Id, NEW v \in T
  PROVE  /\ With(f, id, v) \in Partial(T)
         /\ DOMAIN With(f, id, v) = DOMAIN f \cup {id}
         /\ With(f, id, v)[id] = v
         /\ \A i \in DOMAIN f : i # id => With(f, id, v)[i] = f[i]
<1>1. DOMAIN f \in SUBSET Id /\ f \in [DOMAIN f -> T]
  BY PartialTyped
<1>2. With(f, id, v) \in [DOMAIN f \cup {id} -> T]
  BY <1>1 DEF With
<1>3. DOMAIN f \cup {id} \in SUBSET Id
  BY <1>1
<1>4. With(f, id, v) \in Partial(T)
  BY <1>2, <1>3 DEF Partial
<1> QED BY <1>4 DEF With

LEMMA RestrictTyped ==
  ASSUME NEW T, NEW f \in Partial(T), NEW id
  PROVE  /\ Restrict(f, DOMAIN f \ {id}) \in Partial(T)
         /\ DOMAIN Restrict(f, DOMAIN f \ {id}) = DOMAIN f \ {id}
         /\ \A i \in DOMAIN f \ {id} : Restrict(f, DOMAIN f \ {id})[i] = f[i]
<1>1. DOMAIN f \in SUBSET Id /\ f \in [DOMAIN f -> T]
  BY PartialTyped
<1>2. Restrict(f, DOMAIN f \ {id}) \in [DOMAIN f \ {id} -> T]
  BY <1>1 DEF Restrict
<1>3. DOMAIN f \ {id} \in SUBSET Id
  BY <1>1
<1>4. Restrict(f, DOMAIN f \ {id}) \in Partial(T)
  BY <1>2, <1>3 DEF Partial
<1> QED BY <1>4 DEF Restrict

Statuses == {Reload, Good, Failed, Disabled}
RowTyped == [id : Id, front : Frontend, backend : Backend]

\* An UPDATE of a status touches the status of one row.
SameBut(t, id) ==
  /\ t \in Partial(Row) /\ DOMAIN t = DOMAIN table
  /\ \A i \in DOMAIN table : /\ t[i].front = table[i].front
                             /\ t[i].backend = table[i].backend
                             /\ i # id => t[i] = table[i]

LEMMA RowUpdated ==
  ASSUME table \in Partial(Row), NEW id, NEW s \in Statuses
  PROVE  /\ SameBut(Updated(table, id, s), id)
         /\ id \in DOMAIN table => Updated(table, id, s)[id].status = s
<1>1. DOMAIN table \in SUBSET Id /\ table \in [DOMAIN table -> Row]
  BY PartialTyped
<1>2. CASE id \notin DOMAIN table
  BY <1>1, <1>2 DEF Updated, SameBut
<1>3. CASE id \in DOMAIN table
  <2> SUFFICES ASSUME NEW t, t = Updated(table, id, s)
               PROVE  SameBut(t, id) /\ t[id].status = s
    OBVIOUS
  <2>1. t = [table EXCEPT ![id] = [table[id] EXCEPT !.status = s]]
    BY <1>3 DEF Updated
  <2>2. [table[id] EXCEPT !.status = s] \in Row
    BY <1>1, <1>3 DEF Row, Statuses
  <2>3. t \in [DOMAIN table -> Row]
    BY <1>1, <1>3, <2>1, <2>2
  <2>4. t \in Partial(Row) /\ DOMAIN t = DOMAIN table
    BY <1>1, <2>3, PartialTyped
  <2>5. t[id].front = table[id].front /\ t[id].backend = table[id].backend /\ t[id].status = s
    BY <1>1, <1>3, <2>1 DEF Row
  <2>6. \A i \in DOMAIN table : i # id => t[i] = table[i]
    BY <2>1
  <2> QED BY <2>4, <2>5, <2>6 DEF SameBut
<1> QED BY <1>2, <1>3

LEMMA StatusSet ==
  ASSUME table \in Partial(Row), NEW id, NEW s \in Statuses, SetStatus(id, s)
  PROVE  /\ SameBut(table', id)
         /\ ~missed' => ~missed /\ (id \in DOMAIN table => table'[id].status = s)
         /\ table' = table \/ (id \in DOMAIN table => table'[id].status = s)
<1>1. SameBut(table, id)
  BY DEF SameBut
<1> QED BY <1>1, RowUpdated DEF SetStatus, UpdateFails

----------------------------------------------------------------------------
(* Types.                                                                  *)

\* The clean-up loop visits proxies that are still in the map.
Typed == TypeOK /\ (pc = "sweep" => left \subseteq DOMAIN proxies)

\* What fetching a row does: the proxy of the row is served with its settings
\* and entered in new_proxies, or it is not in the map and its row is not left
\* marked good; all others stay as they are.
RowLoaded(r) ==
  /\ rows' = rows \ {r}
  /\ SameBut(table', r.id)
  /\ proxies' \in Partial(Proxy)
  /\ DOMAIN proxies \subseteq DOMAIN proxies' /\ DOMAIN proxies' \subseteq DOMAIN proxies \cup {r.id}
  /\ \A i \in DOMAIN proxies : i # r.id => proxies'[i] = proxies[i]
  /\ seen \subseteq seen' /\ seen' \subseteq seen \cup {r.id}
  /\ r.id \in DOMAIN proxies' =>
       /\ proxies'[r.id].front = r.front /\ proxies'[r.id].backend = r.backend
       /\ r.id \in seen'
  /\ ~missed' =>
       /\ ~missed
       /\ r.id \in DOMAIN proxies' \/ (r.id \in DOMAIN table => table'[r.id].status # Good)
  /\ r.id \in DOMAIN proxies /\ proxies[r.id].front = r.front
       => proxies'[r.id].listening = proxies[r.id].listening

LEMMA RowEffect ==
  ASSUME Typed, ReloadRow
  PROVE  \E r \in rows : RowLoaded(r)
<1>1. PICK r \in rows : rows' = rows \ {r} /\ (LoadNew(r) \/ LoadChanged(r) \/ LoadSame(r))
  BY DEF ReloadRow
<1>2. r.id \in Id /\ r.front \in Frontend /\ r.backend \in Backend
  BY DEF Typed, TypeOK
<1>3. /\ table \in Partial(Row) /\ proxies \in Partial(Proxy)
      /\ DOMAIN proxies \in SUBSET Id /\ proxies \in [DOMAIN proxies -> Proxy]
  BY PartialTyped DEF Typed, TypeOK
<1>4. Good \in Statuses /\ Reload \in Statuses /\ Failed \in Statuses
      /\ Reload # Good
  BY DEF Statuses, Good, Reload, Failed
<1>5. CASE LoadNew(r)
  <2>1. CASE CanBind(proxies, r.front)
    <3> DEFINE v == [front |-> r.front, backend |-> r.backend, listening |-> TRUE]
    <3>1. v \in Proxy /\ v.front = r.front /\ v.backend = r.backend
      BY <1>2 DEF Proxy
    <3>2. proxies' = With(proxies, r.id, v) /\ seen' = seen \cup {r.id} /\ SetStatus(r.id, Good)
          /\ r.id \notin DOMAIN proxies
      BY <1>5, <2>1 DEF LoadNew
    <3> HIDE DEF v
    <3>3. /\ proxies' \in Partial(Proxy)
          /\ DOMAIN proxies' = DOMAIN proxies \cup {r.id}
          /\ proxies'[r.id] = v
          /\ \A i \in DOMAIN proxies : i # r.id => proxies'[i] = proxies[i]
      <4>1. With(proxies, r.id, v) \in Partial(Proxy)
        BY <1>2, <1>3, <3>1, WithTyped
      <4> QED BY <3>2, <4>1 DEF With
    <3>4. SameBut(table', r.id) /\ (~missed' => ~missed)
      BY <1>3, <1>4, <3>2, StatusSet
    <3> QED BY <1>1, <3>1, <3>2, <3>3, <3>4 DEF RowLoaded
  <2>2. CASE ~CanBind(proxies, r.front)
    <3>1. r.id \notin DOMAIN proxies /\ UNCHANGED <<proxies, seen>>
      BY <1>5, <2>2 DEF LoadNew
    <3>2. SameBut(table', r.id)
          /\ (~missed' => ~missed /\ (r.id \in DOMAIN table => table'[r.id].status # Good))
      <4>1. CASE SetStatus(r.id, Reload)
        BY <1>3, <1>4, <4>1, StatusSet
      <4>2. CASE table' = Updated(table, r.id, Failed) /\ UpdateFails
        BY <1>3, <1>4, <4>2, RowUpdated DEF UpdateFails
      <4> QED BY <1>5, <2>2, <4>1, <4>2 DEF LoadNew
    <3> QED BY <1>1, <1>3, <3>1, <3>2 DEF RowLoaded
  <2> QED BY <2>1, <2>2
<1>6. CASE LoadChanged(r)
  <2> DEFINE bound == CanBind([proxies EXCEPT ![r.id].listening = FALSE], r.front)
  <2>0. bound \in BOOLEAN
    BY DEF CanBind
  <2>1. /\ proxies' = [proxies EXCEPT ![r.id] =
              [front |-> r.front, backend |-> r.backend, listening |-> bound]]
        /\ SetStatus(r.id, IF bound THEN Good ELSE Failed)
    BY <1>6 DEF LoadChanged
  <2>2. /\ r.id \in DOMAIN proxies /\ proxies[r.id].front # r.front
        /\ seen' = seen \cup {r.id}
    BY <1>6 DEF LoadChanged
  <2> HIDE DEF bound
  <2> DEFINE v == [front |-> r.front, backend |-> r.backend, listening |-> bound]
  <2>3. v \in Proxy /\ v.front = r.front /\ v.backend = r.backend
    BY <1>2, <2>0 DEF Proxy
  <2>4. proxies' = [proxies EXCEPT ![r.id] = v]
    BY <2>1
  <2> HIDE DEF v
  <2>5. /\ proxies' \in [DOMAIN proxies -> Proxy] /\ proxies'[r.id] = v
        /\ \A i \in DOMAIN proxies : i # r.id => proxies'[i] = proxies[i]
    BY <1>3, <2>2, <2>3, <2>4
  <2>6. proxies' \in Partial(Proxy) /\ DOMAIN proxies' = DOMAIN proxies
    BY <1>3, <2>5, PartialTyped
  <2>7. SameBut(table', r.id) /\ (~missed' => ~missed)
    BY <1>3, <1>4, <2>1, StatusSet
  <2> QED BY <1>1, <2>2, <2>3, <2>5, <2>6, <2>7 DEF RowLoaded
<1>7. CASE LoadSame(r)
  <2>1. /\ r.id \in DOMAIN proxies /\ proxies[r.id].front = r.front
        /\ seen' = seen \cup {r.id} /\ SetStatus(r.id, Good)
        /\ proxies' = [proxies EXCEPT ![r.id].backend = r.backend]
    BY <1>7 DEF LoadSame
  <2> DEFINE v == [proxies[r.id] EXCEPT !.backend = r.backend]
  <2>2. /\ v \in Proxy /\ v.front = r.front /\ v.backend = r.backend
        /\ v.listening = proxies[r.id].listening
    BY <1>2, <1>3, <2>1 DEF Proxy
  <2>3. proxies' = [proxies EXCEPT ![r.id] = v]
    BY <2>1
  <2> HIDE DEF v
  <2>4. /\ proxies' \in [DOMAIN proxies -> Proxy] /\ proxies'[r.id] = v
        /\ \A i \in DOMAIN proxies : i # r.id => proxies'[i] = proxies[i]
    BY <1>3, <2>1, <2>2, <2>3
  <2>5. proxies' \in Partial(Proxy) /\ DOMAIN proxies' = DOMAIN proxies
    BY <1>3, <2>4, PartialTyped
  <2>6. SameBut(table', r.id) /\ (~missed' => ~missed)
    BY <1>3, <1>4, <2>1, StatusSet
  <2> QED BY <1>1, <2>1, <2>2, <2>4, <2>5, <2>6 DEF RowLoaded
<1> QED BY <1>1, <1>5, <1>6, <1>7

\* What a step of the clean-up loop does with the proxy it visits: it is in
\* new_proxies and stays, or its listener is closed, or it is dropped and its
\* row not left marked good; only a proxy without connections is dropped, and
\* others are not touched unless the process crashes.
Swept(id) ==
  /\ id \in left /\ left' = left \ {id} /\ seen' = seen \cup {id}
  /\ proxies' \in Partial(Proxy) /\ SameBut(table', id)
  /\ \/ pc' = "crashed" /\ proxies' = <<>> /\ conns' = [i \in Id |-> 0]
     \/ /\ pc' = "sweep" /\ conns' = conns
        /\ DOMAIN proxies' \subseteq DOMAIN proxies
        /\ \A i \in DOMAIN proxies \ DOMAIN proxies' : i = id /\ id \notin seen /\ conns[i] = 0
        /\ \A i \in DOMAIN proxies' :
             /\ proxies'[i].front = proxies[i].front /\ proxies'[i].backend = proxies[i].backend
             /\ i # id \/ id \in seen => proxies'[i] = proxies[i]
        /\ table' = table \/ id \notin DOMAIN proxies'
        /\ ~missed' =>
             /\ ~missed
             /\ id \in DOMAIN proxies' \/ (id \in DOMAIN table => table'[id].status # Good)

LEMMA SweepEffect ==
  ASSUME Typed, SweepStep
  PROVE  \E id \in Id : Swept(id)
<1> DEFINE id == Min(left)
<1>1. /\ pc = "sweep" /\ left' = left \ {id} /\ seen' = seen \cup {id}
      /\ left # {} /\ left \subseteq DOMAIN proxies
      /\ id \in seen => UNCHANGED <<table, missed, proxies, conns, pc>>
      /\ id \notin seen => SweepMissing(id)
  BY DEF SweepStep, Sweeping, Typed
<1>2. id \in left /\ id \in Id
  <2>1. left \in SUBSET Id /\ Id \subseteq Nat
    BY ProxyMapAssumption DEF Typed, TypeOK
  <2> QED BY <1>1, <2>1, MinIn
<1> HIDE DEF id
<1>3. /\ table \in Partial(Row) /\ proxies \in Partial(Proxy)
      /\ DOMAIN proxies \in SUBSET Id /\ proxies \in [DOMAIN proxies -> Proxy]
      /\ conns \in [Id -> Nat]
  <2>1. conns \in [Id -> Nat]
    BY ProxyMapAssumption DEF Typed, TypeOK
  <2> QED BY <2>1, PartialTyped DEF Typed, TypeOK
<1>4. SameBut(table, id)
  BY <1>3 DEF SameBut
<1>5. CASE id \in seen
  BY <1>1, <1>2, <1>3, <1>4, <1>5 DEF Swept
<1>6. CASE id \notin seen /\ conns[id] > 0
  <2>1. /\ proxies' = [proxies EXCEPT ![id].listening = FALSE]
        /\ UNCHANGED <<table, missed, conns, pc>>
    BY <1>1, <1>6 DEF SweepMissing
  <2>2. id \in DOMAIN proxies
    BY <1>1, <1>2
  <2> DEFINE v == [proxies[id] EXCEPT !.listening = FALSE]
  <2>3. v \in Proxy /\ v.front = proxies[id].front /\ v.backend = proxies[id].backend
    BY <1>3, <2>2 DEF Proxy
  <2>4. proxies' = [proxies EXCEPT ![id] = v]
    BY <2>1
  <2> HIDE DEF v
  <2>5. /\ proxies' \in [DOMAIN proxies -> Proxy] /\ proxies'[id] = v
        /\ \A i \in DOMAIN proxies : i # id => proxies'[i] = proxies[i]
    BY <1>3, <2>2, <2>3, <2>4
  <2>6. proxies' \in Partial(Proxy) /\ DOMAIN proxies' = DOMAIN proxies
    BY <1>3, <2>5, PartialTyped
  <2> QED BY <1>1, <1>2, <1>4, <1>6, <2>1, <2>2, <2>3, <2>5, <2>6 DEF Swept
<1>7. CASE id \notin seen /\ ~(conns[id] > 0)
  <2>1. SetStatus(id, Reload)
    BY <1>1, <1>7 DEF SweepMissing, CloseProxy
  <2>2. Reload \in Statuses /\ Reload # Good
    BY DEF Statuses, Reload, Good
  <2>3. SameBut(table', id)
        /\ (~missed' => ~missed /\ (id \in DOMAIN table => table'[id].status # Good))
    BY <1>3, <2>1, <2>2, StatusSet
  <2>4. CASE /\ conns' = [conns EXCEPT ![id] = 0]
             /\ proxies' = Restrict(proxies, DOMAIN proxies \ {id}) /\ UNCHANGED pc
    <3>1. conns[id] = 0 /\ conns' = conns
      <4>1. conns[id] = 0
        BY <1>2, <1>3, <1>7
      <4> QED BY <1>2, <1>3, <2>4, <4>1
    <3>2. Restrict(proxies, DOMAIN proxies \ {id}) \in Partial(Proxy)
      BY <1>3, RestrictTyped
    <3>3. DOMAIN proxies' = DOMAIN proxies \ {id} /\ \A i \in DOMAIN proxies' : proxies'[i] = proxies[i]
      BY <2>4 DEF Restrict
    <3> QED BY <1>1, <1>2, <1>7, <2>3, <2>4, <3>1, <3>2, <3>3 DEF Swept
  <2>5. CASE pc' = "crashed" /\ proxies' = <<>> /\ conns' = [i \in Id |-> 0]
    <3>1. <<>> \in Partial(Proxy)
      <4>1. <<>> \in [{} -> Proxy] /\ {} \in SUBSET Id
        OBVIOUS
      <4> QED BY <4>1 DEF Partial
    <3> QED BY <1>1, <1>2, <2>3, <2>5, <3>1 DEF Swept
  <2> QED BY <1>1, <1>7, <2>4, <2>5 DEF SweepMissing, CloseProxy
<1> QED BY <1>2, <1>5, <1>6, <1>7

\* What the administrator writes is a table.
LEMMA EditTyped ==
  ASSUME Typed, NEW id \in Id,
         AdminInserts(id) \/ AdminDeletes(id) \/ AdminChanges(id) \/ AdminDisables(id)
  PROVE  /\ table' \in Partial(Row) /\ edits' \in 0..MaxEdits /\ edited' = TRUE
         /\ UNCHANGED <<process, occupied, reload, missed>>
<1>1. /\ table \in Partial(Row)
      /\ DOMAIN table \in SUBSET Id /\ table \in [DOMAIN table -> Row]
      /\ edits \in 0..MaxEdits /\ MaxEdits \in Nat
  BY PartialTyped, ProxyMapAssumption DEF Typed, TypeOK
<1>2. {Good, Reload, Disabled} \subseteq Statuses
  BY DEF Statuses
<1>3. CASE AdminInserts(id)
  <2>1. PICK f \in Frontend, b \in Backend :
          Edit(With(table, id, [front |-> f, backend |-> b, status |-> Good]))
    BY <1>3 DEF AdminInserts
  <2>2. [front |-> f, backend |-> b, status |-> Good] \in Row
    BY <1>2 DEF Row, Statuses
  <2>3. With(table, id, [front |-> f, backend |-> b, status |-> Good]) \in Partial(Row)
    BY <1>1, <2>2, WithTyped
  <2> QED BY <1>1, <2>1, <2>3 DEF Edit
<1>4. CASE AdminDeletes(id)
  <2>1. Restrict(table, DOMAIN table \ {id}) \in Partial(Row)
    BY <1>1, RestrictTyped
  <2> QED BY <1>1, <1>4, <2>1 DEF AdminDeletes, Edit
<1>5. CASE AdminChanges(id)
  <2>1. PICK f \in Frontend, b \in Backend :
          Edit([table EXCEPT ![id] = [front |-> f, backend |-> b, status |-> Reload]])
    BY <1>5 DEF AdminChanges
  <2>2. [front |-> f, backend |-> b, status |-> Reload] \in Row
    BY <1>2 DEF Row, Statuses
  <2>3. [table EXCEPT ![id] = [front |-> f, backend |-> b, status |-> Reload]] \in [DOMAIN table -> Row]
    BY <1>1, <2>2
  <2>4. [table EXCEPT ![id] = [front |-> f, backend |-> b, status |-> Reload]] \in Partial(Row)
    BY <1>1, <2>3 DEF Partial
  <2> QED BY <1>1, <2>1, <2>4 DEF Edit
<1>6. CASE AdminDisables(id)
  <2>1. id \in DOMAIN table /\ Edit([table EXCEPT ![id].status = Disabled])
    BY <1>6 DEF AdminDisables
  <2>2. [table[id] EXCEPT !.status = Disabled] \in Row
    BY <1>1, <1>2, <2>1 DEF Row, Statuses
  <2>3. [table EXCEPT ![id].status = Disabled] \in [DOMAIN table -> Row]
    BY <1>1, <2>2
  <2>4. [table EXCEPT ![id].status = Disabled] \in Partial(Row)
    BY <1>1, <2>3 DEF Partial
  <2> QED BY <1>1, <2>1, <2>4 DEF Edit
<1> QED BY <1>3, <1>4, <1>5, <1>6

\* Rows are fetched as they are in the table.
LEMMA SnapshotRows ==
  ASSUME NEW t \in Partial(Row)
  PROVE  /\ Snapshot(t) \subseteq RowTyped
         /\ \A r \in Snapshot(t) : /\ r.id \in DOMAIN t
                                   /\ r.front = t[r.id].front /\ r.backend = t[r.id].backend
         /\ \A i \in DOMAIN t : t[i].status # Disabled => \E r \in Snapshot(t) : r.id = i
<1>1. DOMAIN t \in SUBSET Id /\ t \in [DOMAIN t -> Row]
  BY PartialTyped
<1>2. Snapshot(t) \subseteq RowTyped
  BY <1>1 DEF Snapshot, RowTyped, Row
<1>3. \A r \in Snapshot(t) : r.id \in DOMAIN t /\ r.front = t[r.id].front /\ r.backend = t[r.id].backend
  BY DEF Snapshot
<1>4. ASSUME NEW i \in DOMAIN t, t[i].status # Disabled
      PROVE  \E r \in Snapshot(t) : r.id = i
  <2>1. [id |-> i, front |-> t[i].front, backend |-> t[i].backend] \in Snapshot(t)
    BY <1>4 DEF Snapshot
  <2> QED BY <2>1
<1> QED BY <1>2, <1>3, <1>4

\* What happens when the program is to stop.
LEMMA StoppingEffect ==
  ASSUME Typed, proxymap_close \/ \E id \in Id : EventWhenStopping(id)
  PROVE  /\ pc = "idle" /\ pc' \in {"idle", "exited"} /\ ~running /\ UNCHANGED running
         /\ table' \in Partial(Row) /\ proxies' \in Partial(Proxy)
         /\ conns' \in [Id -> 0..MaxConns]
         /\ \A id \in Id : conns'[id] > 0 => conns[id] > 0 /\ DOMAIN proxies' = DOMAIN proxies
         /\ UNCHANGED <<occupied, starting, rows, seen, left, edits, edited>>
<1>1. /\ table \in Partial(Row) /\ proxies \in Partial(Proxy)
      /\ DOMAIN proxies \in SUBSET Id /\ proxies \in [DOMAIN proxies -> Proxy]
      /\ DOMAIN table \in SUBSET Id /\ table \in [DOMAIN table -> Row]
      /\ conns \in [Id -> 0..MaxConns] /\ 0 \in 0..MaxConns
  BY PartialTyped, ProxyMapAssumption DEF Typed, TypeOK
<1>2. Reload \in Statuses
  BY DEF Statuses
<1>3. CASE proxymap_close
  <2>1. table' \in Partial(Row)
    <3>1. PICK S : table' = [i \in DOMAIN table |->
                               IF i \in S THEN [table[i] EXCEPT !.status = Reload] ELSE table[i]]
      BY <1>3 DEF proxymap_close, ResetAll
    <3>2. \A i \in DOMAIN table : [table[i] EXCEPT !.status = Reload] \in Row
      BY <1>1, <1>2 DEF Row, Statuses
    <3>3. table' \in [DOMAIN table -> Row]
      BY <1>1, <3>1, <3>2
    <3> QED BY <1>1, <3>3, PartialTyped
  <2>2. proxies' \in Partial(Proxy)
    <3>1. <<>> \in [{} -> Proxy] /\ {} \in SUBSET Id
      OBVIOUS
    <3>2. proxies' = <<>>
      BY <1>3 DEF proxymap_close
    <3> QED BY <3>1, <3>2 DEF Partial
  <2>3. conns' = [i \in Id |-> 0]
    BY <1>3 DEF proxymap_close
  <2> QED BY <1>1, <1>3, <2>1, <2>2, <2>3 DEF proxymap_close
<1>4. ASSUME NEW id \in Id, EventWhenStopping(id)
      PROVE  /\ pc = "idle" /\ ~running /\ UNCHANGED <<running, pc>>
             /\ table' \in Partial(Row) /\ proxies' \in Partial(Proxy)
             /\ conns' \in [Id -> 0..MaxConns]
             /\ \A i \in Id : conns'[i] > 0 => conns[i] > 0
             /\ DOMAIN proxies' = DOMAIN proxies
             /\ UNCHANGED <<occupied, starting, rows, seen, left, edits, edited>>
  <2>1. SetStatus(id, Reload) /\ conns' = [conns EXCEPT ![id] = 0]
    BY <1>4 DEF EventWhenStopping, CloseProxy
  <2>2. table' \in Partial(Row)
    BY <1>1, <1>2, <2>1, StatusSet DEF SameBut
  <2>3. conns' \in [Id -> 0..MaxConns] /\ \A i \in Id : conns'[i] > 0 => conns[i] > 0
    BY <1>1, <2>1
  <2>4. proxies' \in Partial(Proxy) /\ DOMAIN proxies' = DOMAIN proxies
    <3>1. CASE id \notin DOMAIN proxies
      BY <1>1, <1>4, <3>1 DEF EventWhenStopping
    <3>2. CASE id \in DOMAIN proxies
      <4>1. proxies' = [proxies EXCEPT ![id] = [proxies[id] EXCEPT !.listening = FALSE]]
        BY <1>4, <3>2 DEF EventWhenStopping
      <4>2. [proxies[id] EXCEPT !.listening = FALSE] \in Proxy
        BY <1>1, <3>2 DEF Proxy
      <4>3. proxies' \in [DOMAIN proxies -> Proxy]
        BY <1>1, <3>2, <4>1, <4>2
      <4> QED BY <1>1, <4>3, PartialTyped
    <3> QED BY <3>1, <3>2
  <2> QED BY <1>4, <2>2, <2>3, <2>4 DEF EventWhenStopping, reload
<1> QED BY <1>3, <1>4

\* A connection comes or goes, or nothing does that the properties see.
LEMMA QuietEffect ==
  ASSUME Typed, NEW id \in Id, Accept(id) \/ CloseConnection(id)
  PROVE  /\ UNCHANGED <<table, proxies, running, occupied, reload, edits, edited, missed>>
         /\ pc = "idle" /\ conns' \in [Id -> 0..MaxConns]
         /\ \A i \in Id : conns'[i] > 0 => conns[i] > 0 \/ i \in DOMAIN proxies
<1>1. conns \in [Id -> 0..MaxConns] /\ MaxConns \in Nat
  BY ProxyMapAssumption DEF Typed, TypeOK
<1>2. CASE Accept(id)
  <2>1. conns[id] + 1 \in 0..MaxConns /\ id \in DOMAIN proxies
    BY <1>1, <1>2 DEF Accept, Listening
  <2> QED BY <1>1, <1>2, <2>1 DEF Accept
<1>3. CASE CloseConnection(id)
  <2>1. conns[id] - 1 \in 0..MaxConns /\ conns[id] > 0
    BY <1>1, <1>3 DEF CloseConnection
  <2> QED BY <1>1, <1>3, <2>1 DEF CloseConnection
<1> QED BY <1>2, <1>3

LEMMA TypedNext ==
  ASSUME Typed, [Next]_vars
  PROVE  Typed'
<1> USE DEF process, reload
<1>0. /\ table \in Partial(Row) /\ proxies \in Partial(Proxy) /\ conns \in [Id -> 0..MaxConns]
      /\ DOMAIN proxies \in SUBSET Id /\ 0 \in 0..MaxConns
  BY PartialTyped, ProxyMapAssumption DEF Typed, TypeOK
<1>1. CASE Select
  <2>1. rows' \subseteq [id : Id, front : Frontend, backend : Backend]
    BY <1>0, <1>1, SnapshotRows DEF Select, RowTyped
  <2> QED BY <1>1, <2>1 DEF Select, Typed, TypeOK
<1>2. CASE ReloadRow
  <2>1. PICK r \in rows : RowLoaded(r)
    BY <1>2, RowEffect
  <2>2. r.id \in Id
    BY DEF Typed, TypeOK
  <2>3. /\ table' \in Partial(Row) /\ proxies' \in Partial(Proxy)
        /\ rows' \subseteq rows /\ seen' \subseteq seen \cup {r.id}
    BY <2>1 DEF RowLoaded, SameBut
  <2> QED BY <1>2, <2>2, <2>3 DEF ReloadRow, Typed, TypeOK
<1>3. CASE RowsDone
  <2>1. pc' \in {"idle", "sweep", "exited"} /\ starting' = FALSE
        /\ left' = IF pc' = "sweep" THEN DOMAIN proxies ELSE {}
    BY <1>3 DEF RowsDone
  <2> QED BY <1>0, <1>3, <2>1 DEF RowsDone, Typed, TypeOK
<1>4. CASE SweepStep
  <2>1. PICK id \in Id : Swept(id)
    BY <1>4, SweepEffect
  <2>2. /\ table' \in Partial(Row) /\ proxies' \in Partial(Proxy)
        /\ left' = left \ {id} /\ seen' = seen \cup {id} /\ pc' \in {"sweep", "crashed"}
    BY <2>1 DEF Swept, SameBut
  <2>3. conns' \in [Id -> 0..MaxConns]
    BY <1>0, <2>1 DEF Swept
  <2>4. pc' = "sweep" => left' \subseteq DOMAIN proxies'
    <3>1. pc = "sweep" /\ left \subseteq DOMAIN proxies
      BY <1>4 DEF SweepStep, Sweeping, Typed
    <3>2. pc' = "sweep" => \A i \in DOMAIN proxies \ DOMAIN proxies' : i = id
      BY <2>1 DEF Swept
    <3> QED BY <2>2, <3>1, <3>2
  <2> QED BY <1>4, <2>2, <2>3, <2>4 DEF SweepStep, Typed, TypeOK
<1>5. CASE SweepDone
  BY <1>5 DEF SweepDone, Typed, TypeOK
<1>6. CASE proxymap_close \/ \E id \in Id : EventWhenStopping(id)
  BY <1>6, StoppingEffect DEF Typed, TypeOK
<1>7. ASSUME NEW id \in Id, Accept(id) \/ CloseConnection(id) PROVE Typed'
  BY <1>7, QuietEffect DEF Typed, TypeOK
<1>8. ASSUME NEW id \in Id,
             AdminInserts(id) \/ AdminDeletes(id) \/ AdminChanges(id) \/ AdminDisables(id)
      PROVE  Typed'
  BY <1>8, EditTyped DEF Typed, TypeOK
<1>9. CASE Killer \/ AddressTaken \/ AddressFreed \/ UNCHANGED vars
  BY <1>9 DEF Killer, AddressTaken, AddressFreed, vars, Typed, TypeOK
<1> QED BY <1>1, <1>2, <1>3, <1>4, <1>5, <1>6, <1>7, <1>8, <1>9 DEF Next, Reloading

LEMMA TypedAlways == Spec => []Typed
<1>1. Init => Typed
  <2> SUFFICES ASSUME Init PROVE Typed
    OBVIOUS
  <2>1. table \in Partial(Row)
    BY DEF Init
  <2>2. rows \subseteq [id : Id, front : Frontend, backend : Backend]
    BY <2>1, SnapshotRows DEF Init, RowTyped
  <2>3. proxies \in Partial(Proxy)
    <3>1. <<>> \in [{} -> Proxy] /\ {} \in SUBSET Id
      OBVIOUS
    <3> QED BY <3>1 DEF Init, Partial
  <2>4. conns \in [Id -> 0..MaxConns] /\ edits \in 0..MaxEdits
    BY ProxyMapAssumption DEF Init
  <2> QED BY <2>1, <2>2, <2>3, <2>4 DEF Init, Typed, TypeOK
<1> QED BY <1>1, TypedNext, PTL DEF Spec

\* Every variable has its type: no reload, no edit and no failure makes the map
\* or the table hold anything else.
THEOREM TypeCorrect == Spec => []TypeOK
<1>1. Typed => TypeOK
  BY DEF Typed
<1> QED BY <1>1, TypedAlways, PTL

----------------------------------------------------------------------------
(* Connections.                                                            *)

\* A proxy with connections is only dropped together with them.
LEMMA OwnedNext ==
  ASSUME Typed, ConnectionsOwned, [Next]_vars
  PROVE  ConnectionsOwned'
<1> USE DEF process, reload
<1>1. CASE ReloadRow
  <2>1. DOMAIN proxies \subseteq DOMAIN proxies'
    BY <1>1, RowEffect DEF RowLoaded
  <2> QED BY <1>1, <2>1 DEF ReloadRow, ConnectionsOwned
<1>2. CASE SweepStep
  <2>1. PICK id \in Id : Swept(id)
    BY <1>2, SweepEffect
  <2>2. CASE conns' = [i \in Id |-> 0]
    BY <2>2 DEF ConnectionsOwned
  <2>3. CASE conns' = conns /\ \A i \in DOMAIN proxies \ DOMAIN proxies' : conns[i] = 0
    BY <2>3 DEF ConnectionsOwned
  <2> QED BY <2>1, <2>2, <2>3 DEF Swept
<1>3. CASE proxymap_close \/ \E id \in Id : EventWhenStopping(id)
  BY <1>3, StoppingEffect DEF ConnectionsOwned
<1>4. ASSUME NEW id \in Id, Accept(id) \/ CloseConnection(id) PROVE ConnectionsOwned'
  BY <1>4, QuietEffect DEF ConnectionsOwned
<1>5. ASSUME NEW id \in Id,
             AdminInserts(id) \/ AdminDeletes(id) \/ AdminChanges(id) \/ AdminDisables(id)
      PROVE  ConnectionsOwned'
  BY <1>5, EditTyped DEF ConnectionsOwned
<1>6. CASE UNCHANGED <<proxies, conns>>
  BY <1>6 DEF ConnectionsOwned
<1> QED BY <1>1, <1>2, <1>3, <1>4, <1>5, <1>6
        DEF Next, Reloading, vars, Select, RowsDone, SweepDone, Killer, AddressTaken, AddressFreed

\* The proxy of a connection is in the map as long as the connection is.
THEOREM ConnectionsAreOwned == Spec => []ConnectionsOwned
<1>1. Init => ConnectionsOwned
  BY DEF Init, ConnectionsOwned
<1> QED BY <1>1, OwnedNext, TypedAlways, PTL DEF Spec

\* A reload leaves the number of connections of every proxy alone.
THEOREM ConnectionsKept == Spec => ReloadKeepsConnections
<1> DEFINE Kept == pc \in {"rows", "sweep"} /\ pc' # "crashed" => conns' = conns
<1>1. Typed /\ [Next]_vars => [Kept]_vars
  <2> SUFFICES ASSUME Typed, [Next]_vars, pc \in {"rows", "sweep"}, pc' # "crashed"
               PROVE  conns' = conns
    OBVIOUS
  <2>1. CASE SweepStep
    BY <2>1, SweepEffect DEF Swept
  <2>2. CASE UNCHANGED conns
    BY <2>2
  <2> QED BY <2>1, <2>2
          DEF Next, Reloading, vars, process, Select, ReloadRow, RowsDone, SweepDone, Killer,
              Accept, CloseConnection, EventWhenStopping, proxymap_close, AdminInserts,
              AdminDeletes, AdminChanges, AdminDisables, Edit, AddressTaken, AddressFreed
<1> QED BY <1>1, TypedAlways, PTL DEF Spec, ReloadKeepsConnections

----------------------------------------------------------------------------
(* The reload.                                                             *)

Enabled(id) == table[id].status # Disabled
Matches(id) ==
  proxies[id].front = table[id].front /\ proxies[id].backend = table[id].backend

\* The row of id is still to be fetched.
Waiting(id) == pc = "rows" /\ \E r \in rows : r.id = id

\* The rows to be fetched are those of the table.
RowsCurrent ==
  pc = "rows" => \A r \in rows : /\ r.id \in DOMAIN table
                                 /\ r.front = table[r.id].front
                                 /\ r.backend = table[r.id].backend

\* A proxy with an enabled row has its settings or waits for the row; once it
\* has them it is in new_proxies, where the clean-up loop looks.
Applied ==
  pc \in {"rows", "sweep"} \/ (pc = "idle" /\ running) =>
    \A id \in DOMAIN table \cap DOMAIN proxies :
      Enabled(id) =>
        Waiting(id) \/ (Matches(id) /\ (pc \in {"rows", "sweep"} => id \in seen))

\* A row marked good has a proxy, or is about to be looked at.
Served ==
  (pc \in {"rows", "sweep"} \/ (pc = "idle" /\ running)) /\ ~missed =>
    \A id \in DOMAIN table : table[id].status = Good => id \in DOMAIN proxies \/ Waiting(id)

ReloadInv == ~edited => RowsCurrent /\ Applied /\ Served

\* Fetching a row.
LEMMA ReloadRowNext ==
  ASSUME Typed, RowsCurrent, Applied, Served, ReloadRow
  PROVE  (RowsCurrent /\ Applied /\ Served)'
<1>1. PICK r \in rows : RowLoaded(r)
  BY RowEffect
<1>2. pc = "rows" /\ UNCHANGED <<pc, running>>
  BY DEF ReloadRow
<1>3. r.id \in DOMAIN table /\ r.front = table[r.id].front /\ r.backend = table[r.id].backend
  BY <1>2 DEF RowsCurrent
<1>4. /\ DOMAIN table' = DOMAIN table
      /\ \A i \in DOMAIN table : /\ table'[i].front = table[i].front
                                 /\ table'[i].backend = table[i].backend
                                 /\ i # r.id => table'[i] = table[i]
  BY <1>1 DEF RowLoaded, SameBut
<1>5. /\ rows' = rows \ {r}
      /\ DOMAIN proxies \subseteq DOMAIN proxies' /\ DOMAIN proxies' \subseteq DOMAIN proxies \cup {r.id}
      /\ \A i \in DOMAIN proxies : i # r.id => proxies'[i] = proxies[i]
      /\ seen \subseteq seen'
      /\ r.id \in DOMAIN proxies' =>
           /\ proxies'[r.id].front = r.front /\ proxies'[r.id].backend = r.backend
           /\ r.id \in seen'
      /\ ~missed' =>
           /\ ~missed
           /\ r.id \in DOMAIN proxies' \/ (r.id \in DOMAIN table => table'[r.id].status # Good)
  BY <1>1 DEF RowLoaded
<1>6. RowsCurrent'
  BY <1>2, <1>4, <1>5 DEF RowsCurrent
<1>7. \A i : i # r.id /\ Waiting(i) => Waiting(i)'
  BY <1>2, <1>5 DEF Waiting
<1>8. Applied'
  <2> SUFFICES ASSUME NEW id \in DOMAIN table' \cap DOMAIN proxies', Enabled(id)'
               PROVE  Waiting(id)' \/ (Matches(id)' /\ id \in seen')
    BY DEF Applied
  <2>1. CASE id = r.id
    BY <1>3, <1>4, <1>5, <2>1 DEF Matches
  <2>2. CASE id # r.id
    <3>1. id \in DOMAIN table \cap DOMAIN proxies /\ Enabled(id)
      BY <1>4, <1>5, <2>2 DEF Enabled
    <3>2. Waiting(id) \/ (Matches(id) /\ id \in seen)
      BY <1>2, <3>1 DEF Applied
    <3> QED BY <1>4, <1>5, <1>7, <2>2, <3>1, <3>2 DEF Matches
  <2> QED BY <2>1, <2>2
<1>9. Served'
  <2> SUFFICES ASSUME ~missed', NEW id \in DOMAIN table', table'[id].status = Good
               PROVE  id \in DOMAIN proxies' \/ Waiting(id)'
    BY DEF Served
  <2>1. CASE id = r.id
    BY <1>3, <1>5, <2>1
  <2>2. CASE id # r.id
    <3>1. id \in DOMAIN proxies \/ Waiting(id)
      BY <1>2, <1>4, <1>5, <2>2 DEF Served
    <3> QED BY <1>5, <1>7, <2>2, <3>1
  <2> QED BY <2>1, <2>2
<1> QED BY <1>6, <1>8, <1>9

\* A step of the clean-up loop.
LEMMA SweepNext ==
  ASSUME Typed, Applied, Served, SweepStep
  PROVE  (RowsCurrent /\ Applied /\ Served)'
<1>1. PICK id \in Id : Swept(id)
  BY SweepEffect
<1>2. pc = "sweep"
  BY DEF SweepStep, Sweeping
<1>3. CASE pc' = "crashed"
  BY <1>3 DEF RowsCurrent, Applied, Served
<1>4. CASE /\ pc' = "sweep"
           /\ DOMAIN proxies' \subseteq DOMAIN proxies
           /\ \A i \in DOMAIN proxies \ DOMAIN proxies' : i = id
           /\ \A i \in DOMAIN proxies' :
                proxies'[i].front = proxies[i].front /\ proxies'[i].backend = proxies[i].backend
           /\ table' = table \/ id \notin DOMAIN proxies'
           /\ ~missed' =>
                /\ ~missed
                /\ id \in DOMAIN proxies' \/ (id \in DOMAIN table => table'[id].status # Good)
  <2>1. /\ DOMAIN table' = DOMAIN table /\ seen \subseteq seen'
        /\ \A i \in DOMAIN table : i # id => table'[i] = table[i]
    BY <1>1 DEF Swept, SameBut
  <2>2. \A i : ~Waiting(i)
    BY <1>2 DEF Waiting
  <2>3. Applied'
    <3> SUFFICES ASSUME NEW i \in DOMAIN table' \cap DOMAIN proxies', Enabled(i)'
                 PROVE  Matches(i)' /\ i \in seen'
      BY DEF Applied
    <3>1. table'[i] = table[i] /\ i \in DOMAIN table \cap DOMAIN proxies
      BY <1>4, <2>1
    <3>2. Matches(i) /\ i \in seen
      BY <1>2, <2>2, <3>1 DEF Applied, Enabled
    <3> QED BY <1>4, <2>1, <3>1, <3>2 DEF Matches
  <2>4. Served'
    <3> SUFFICES ASSUME ~missed', NEW i \in DOMAIN table', table'[i].status = Good
                 PROVE  i \in DOMAIN proxies'
      BY DEF Served
    <3>1. CASE i = id
      BY <1>4, <2>1, <3>1
    <3>2. CASE i # id
      BY <1>2, <1>4, <2>1, <2>2, <3>2 DEF Served
    <3> QED BY <3>1, <3>2
  <2> QED BY <1>4, <2>3, <2>4 DEF RowsCurrent
<1> QED BY <1>1, <1>3, <1>4 DEF Swept

LEMMA ReloadNext ==
  ASSUME Typed, ReloadInv, [Next]_vars
  PROVE  ReloadInv'
<1> USE DEF process, reload
<1> SUFFICES ASSUME ~edited' PROVE (RowsCurrent /\ Applied /\ Served)'
  BY DEF ReloadInv
<1>1. CASE Select
  <2>1. table \in Partial(Row)
    BY DEF Typed, TypeOK
  <2>2. /\ \A r \in rows' : /\ r.id \in DOMAIN table
                            /\ r.front = table[r.id].front /\ r.backend = table[r.id].backend
        /\ \A i \in DOMAIN table : table[i].status # Disabled => \E r \in rows' : r.id = i
        /\ pc' = "rows" /\ UNCHANGED table
    BY <1>1, <2>1, SnapshotRows DEF Select
  <2>3. Good # Disabled
    BY DEF Good, Disabled
  <2> QED BY <2>2, <2>3 DEF RowsCurrent, Applied, Served, Waiting, Enabled
<1>2. CASE ReloadRow
  <2>1. ~edited
    BY <1>2 DEF ReloadRow
  <2> QED BY <1>2, <2>1, ReloadRowNext DEF ReloadInv
<1>3. CASE RowsDone
  <2>1. ~edited /\ pc = "rows" /\ rows = {} /\ pc' \in {"idle", "sweep", "exited"}
        /\ UNCHANGED <<table, proxies, seen, missed, running>>
    BY <1>3 DEF RowsDone
  <2> QED BY <2>1 DEF ReloadInv, RowsCurrent, Applied, Served, Waiting, Enabled, Matches
<1>4. CASE SweepStep
  <2>1. ~edited
    BY <1>4 DEF SweepStep
  <2> QED BY <1>4, <2>1, SweepNext DEF ReloadInv
<1>5. CASE SweepDone
  <2>1. ~edited /\ pc = "sweep" /\ pc' = "idle"
        /\ UNCHANGED <<table, proxies, seen, missed, running>>
    BY <1>5 DEF SweepDone
  <2> QED BY <2>1 DEF ReloadInv, RowsCurrent, Applied, Served, Waiting, Enabled, Matches
<1>6. CASE proxymap_close \/ \E id \in Id : EventWhenStopping(id)
  BY <1>6, StoppingEffect DEF RowsCurrent, Applied, Served
<1>7. ASSUME NEW id \in Id,
             AdminInserts(id) \/ AdminDeletes(id) \/ AdminChanges(id) \/ AdminDisables(id)
      PROVE  FALSE
  BY <1>7, EditTyped
<1>8. CASE /\ UNCHANGED <<table, proxies, pc, rows, seen, edited, missed>>
           /\ running' => running
  BY <1>8 DEF ReloadInv, RowsCurrent, Applied, Served, Waiting, Enabled, Matches
<1>9. ASSUME NEW id \in Id, Accept(id) \/ CloseConnection(id)
      PROVE  /\ UNCHANGED <<table, proxies, pc, rows, seen, edited, missed>>
             /\ running' => running
  BY <1>9, QuietEffect
<1> QED BY <1>1, <1>2, <1>3, <1>4, <1>5, <1>6, <1>7, <1>8, <1>9
        DEF Next, Reloading, vars, Killer, AddressTaken, AddressFreed

LEMMA ReloadAlways == Spec => []ReloadInv
<1>1. Init => ReloadInv
  <2> SUFFICES ASSUME Init PROVE RowsCurrent /\ Applied /\ Served
    BY DEF ReloadInv
  <2>1. table \in Partial(Row) /\ pc = "rows" /\ rows = Snapshot(table)
    BY DEF Init
  <2>2. /\ \A r \in rows : /\ r.id \in DOMAIN table
                           /\ r.front = table[r.id].front /\ r.backend = table[r.id].backend
        /\ \A i \in DOMAIN table : table[i].status # Disabled => \E r \in rows : r.id = i
    BY <2>1, SnapshotRows
  <2>3. Good # Disabled
    BY DEF Good, Disabled
  <2> QED BY <2>1, <2>2, <2>3 DEF RowsCurrent, Applied, Served, Waiting, Enabled
<1> QED BY <1>1, ReloadNext, TypedAlways, PTL DEF Spec

\* After a reload that no edit has disturbed every proxy that is served for an
\* enabled row has the row's settings, whichever updates failed.
THEOREM ReloadIsApplied == Spec => []ReloadApplied
<1>1. ReloadInv => ReloadApplied
  BY DEF ReloadInv, Applied, ReloadApplied, Waiting, Enabled, Matches
<1> QED BY <1>1, ReloadAlways, PTL

\* After a reload that no edit and no failed update has disturbed, a row that is
\* marked good is served.
THEOREM GoodServed == Spec => []GoodIsServed
<1>1. ReloadInv => GoodIsServed
  BY DEF ReloadInv, Served, GoodIsServed, Waiting
<1> QED BY <1>1, ReloadAlways, PTL

\* A reload does not touch the listener of a proxy whose row is as it was.
THEOREM UnchangedKept == Spec => UnchangedStaysServed
<1> DEFINE Kept == \A id \in DOMAIN proxies \cap DOMAIN table :
                     /\ pc \in {"rows", "sweep"} /\ pc' # "crashed" /\ ~edited
                     /\ proxies[id].listening
                     /\ table[id].status # Disabled /\ table[id].front = proxies[id].front
                     => Listening(id)'
<1>1. Typed /\ ReloadInv /\ [Next]_vars => [Kept]_vars
  <2> SUFFICES ASSUME Typed, ReloadInv, [Next]_vars,
                      NEW id \in DOMAIN proxies \cap DOMAIN table,
                      pc \in {"rows", "sweep"}, pc' # "crashed", ~edited,
                      proxies[id].listening,
                      table[id].status # Disabled, table[id].front = proxies[id].front
               PROVE  Listening(id)'
    OBVIOUS
  <2>1. CASE ReloadRow
    <3>1. PICK r \in rows : RowLoaded(r)
      BY <2>1, RowEffect
    <3>2. pc = "rows" /\ r.front = table[r.id].front
      BY <2>1 DEF ReloadRow, ReloadInv, RowsCurrent
    <3>3. id = r.id => proxies'[id].listening = proxies[id].listening
      BY <3>1, <3>2 DEF RowLoaded
    <3>4. id # r.id => proxies'[id] = proxies[id]
      BY <3>1 DEF RowLoaded
    <3>5. id \in DOMAIN proxies'
      BY <3>1 DEF RowLoaded
    <3> QED BY <3>3, <3>4, <3>5 DEF Listening
  <2>2. CASE SweepStep
    <3>1. PICK k \in Id : Swept(k)
      BY <2>2, SweepEffect
    <3>2. pc = "sweep"
      BY <2>2 DEF SweepStep, Sweeping
    <3>3. id \in seen
      BY <3>2 DEF ReloadInv, Applied, Enabled, Waiting
    <3>4. id \in DOMAIN proxies' /\ proxies'[id] = proxies[id]
      BY <3>1, <3>3 DEF Swept
    <3> QED BY <3>4 DEF Listening
  <2>3. CASE UNCHANGED proxies
    BY <2>3 DEF Listening
  <2> QED BY <2>1, <2>2, <2>3
          DEF Next, Reloading, vars, process, Select, RowsDone, SweepDone, Killer,
              Accept, CloseConnection, EventWhenStopping, proxymap_close, AdminInserts,
              AdminDeletes, AdminChanges, AdminDisables, Edit, AddressTaken, AddressFreed
<1> QED BY <1>1, TypedAlways, ReloadAlways, PTL DEF Spec, UnchangedStaysServed
=============================================================================
