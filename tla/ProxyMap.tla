----------------------------- MODULE ProxyMap -----------------------------
(***************************************************************************)
(* The proxies GreenSQL serves and the configuration table they come from. *)
(* Every five seconds proxymap_reload reads the table proxy of the         *)
(* configuration database and brings the map of GreenSQL objects in line:  *)
(* it opens and re-opens listening sockets, closes the proxies that are    *)
(* gone, and writes each row's status back.  The event loop runs one       *)
(* callback at a time, but the administrator edits the table from another  *)
(* program, so between any two statements on the database a row may        *)
(* change: the reload takes one step per row.                              *)
(***************************************************************************)
EXTENDS Integers, FiniteSets, FiniteSetsExt, Functions

CONSTANTS
  Id,         \* proxy ids, numbers: std::map visits them in their order
  Addr,       \* addresses (ip and port) to listen on
  DbType,     \* values of the column dbtype
  Backend,    \* addresses of database servers
  MaxConns,   \* bound: connections of one proxy
  MaxEdits,   \* bound: edits of the administrator
  DbMayFail   \* an UPDATE of the configuration database may fail

ASSUME ProxyMapAssumption ==
  /\ Id \subseteq Nat /\ IsFiniteSet(Id)
  /\ MaxConns \in Nat /\ MaxEdits \in Nat /\ DbMayFail \in BOOLEAN

VARIABLES
  table,     \* the table proxy: a row per id
  proxies,   \* the map proxies: a GreenSQL object per id
  conns,     \* size of v_conn of each proxy
  occupied,  \* addresses other programs listen on
  running,   \* GreenSQLConfig::bRunning
  pc,        \* where the event loop is
  starting,  \* in proxymap_init
  rows,      \* rows of the SELECT that are still to be fetched
  seen,      \* the keys of new_proxies
  left,      \* keys of proxies the clean-up loop has not visited
  edits,     \* number of edits so far
  edited,    \* history: the table was edited since the last SELECT
  missed     \* history: an UPDATE of a status failed since the last SELECT

process == <<proxies, conns, running>>
reload == <<pc, starting, rows, seen, left>>
vars == <<table, process, occupied, reload, edits, edited, missed>>

Reload == 0
Good == 1
Failed == 2
Disabled == 3

Frontend == Addr \X DbType
Address(front) == front[1]
Row == [front : Frontend, backend : Backend, status : {Reload, Good, Failed, Disabled}]
Proxy == [front : Frontend, backend : Backend, listening : BOOLEAN]

\* Finite functions from some of the ids.
Partial(S) == UNION {[D -> S] : D \in SUBSET Id}

\* The table or map f with the row or object v under the key id.
With(f, id, v) == [i \in DOMAIN f \cup {id} |-> IF i = id THEN v ELSE f[i]]

Snapshot(t) ==
  {[id |-> i, front |-> t[i].front, backend |-> t[i].backend] :
     i \in {j \in DOMAIN t : t[j].status # Disabled}}

\* The table after "UPDATE proxy set status=s where proxyid=id".
Updated(t, id, s) == IF id \in DOMAIN t THEN [t EXCEPT ![id].status = s] ELSE t

UpdateFails == DbMayFail /\ missed' = TRUE

SetStatus(id, s) ==
  \/ table' = Updated(table, id, s) /\ UNCHANGED missed
  \/ UNCHANGED table /\ UpdateFails

\* server_socket: bind() fails when somebody listens on the address.
CanBind(ps, front) ==
  /\ Address(front) \notin occupied
  /\ \A i \in DOMAIN ps : ps[i].listening => Address(ps[i].front) # Address(front)

Listening(id) == id \in DOMAIN proxies /\ proxies[id].listening

----------------------------------------------------------------------------
(* main: the table is whatever earlier runs have left, the first reload    *)
(* runs before any event.                                                  *)

Init ==
  /\ table \in Partial(Row)
  /\ proxies = <<>>
  /\ conns = [i \in Id |-> 0]
  /\ occupied \in SUBSET Addr
  /\ running = TRUE
  /\ pc = "rows" /\ starting = TRUE
  /\ rows = Snapshot(table) /\ seen = {} /\ left = {}
  /\ edits = 0 /\ edited = FALSE /\ missed = FALSE

----------------------------------------------------------------------------
(* proxymap_reload, from clb_timeout.  When its SELECT fails nothing       *)
(* happens.                                                                *)

Select ==
  /\ pc = "idle" /\ running
  /\ pc' = "rows"
  /\ rows' = Snapshot(table) /\ seen' = {}
  /\ edited' = FALSE /\ missed' = FALSE
  /\ UNCHANGED <<table, process, occupied, starting, left, edits>>

\* Mutant: the row of a proxy that could not be opened is left as it was.
LoadNew_NoStatus(r) ==
  /\ r.id \notin DOMAIN proxies
  /\ IF CanBind(proxies, r.front)
     THEN /\ proxies' = With(proxies, r.id,
               [front |-> r.front, backend |-> r.backend, listening |-> TRUE])
          /\ seen' = seen \cup {r.id}
          /\ SetStatus(r.id, Good)
     ELSE UNCHANGED <<proxies, seen, table, missed>>

\* ProxyInit of a new object; a failed one is closed, which overwrites the
\* status 2 with 0, unless the second update fails.
LoadNew(r) ==
  /\ r.id \notin DOMAIN proxies
  /\ IF CanBind(proxies, r.front)
     THEN /\ proxies' = With(proxies, r.id,
               [front |-> r.front, backend |-> r.backend, listening |-> TRUE])
          /\ seen' = seen \cup {r.id}
          /\ SetStatus(r.id, Good)
     ELSE /\ \/ SetStatus(r.id, Reload)
             \/ table' = Updated(table, r.id, Failed) /\ UpdateFails
          /\ UNCHANGED <<proxies, seen>>

\* Mutant: the new socket is bound and the old settings are kept.
LoadChanged_OldFront(r) ==
  /\ r.id \in DOMAIN proxies /\ proxies[r.id].front # r.front
  /\ LET bound == CanBind([proxies EXCEPT ![r.id].listening = FALSE], r.front)
     IN  /\ proxies' = [proxies EXCEPT ![r.id].listening = bound]
         /\ SetStatus(r.id, IF bound THEN Good ELSE Failed)
  /\ seen' = seen \cup {r.id}

\* ProxyReInit: the old socket is closed, the settings are taken over and the
\* new socket is bound, or not.
LoadChanged(r) ==
  /\ r.id \in DOMAIN proxies /\ proxies[r.id].front # r.front
  /\ LET closed == [proxies EXCEPT ![r.id].listening = FALSE]
         bound == CanBind(closed, r.front)
     IN  /\ proxies' = [proxies EXCEPT ![r.id] =
              [front |-> r.front, backend |-> r.backend, listening |-> bound]]
         /\ SetStatus(r.id, IF bound THEN Good ELSE Failed)
  /\ seen' = seen \cup {r.id}

\* Mutant: the proxy is not entered in new_proxies.
LoadSame_NotSeen(r) ==
  /\ r.id \in DOMAIN proxies /\ proxies[r.id].front = r.front
  /\ proxies' = [proxies EXCEPT ![r.id].backend = r.backend]
  /\ SetStatus(r.id, Good)
  /\ UNCHANGED seen

LoadSame(r) ==
  /\ r.id \in DOMAIN proxies /\ proxies[r.id].front = r.front
  /\ proxies' = [proxies EXCEPT ![r.id].backend = r.backend]
  /\ SetStatus(r.id, Good)
  /\ seen' = seen \cup {r.id}

ReloadRow ==
  /\ pc = "rows"
  /\ \E r \in rows :
       /\ rows' = rows \ {r}
       /\ LoadNew(r) \/ LoadChanged(r) \/ LoadSame(r)
  /\ UNCHANGED <<conns, running, occupied, pc, starting, left, edits, edited>>

SameSize == Cardinality(seen) = Cardinality(DOMAIN proxies)

\* All rows are fetched.  proxymap_init gives up when nothing is served.
RowsDone ==
  /\ pc = "rows" /\ rows = {}
  /\ pc' = IF starting /\ DOMAIN proxies = {} THEN "exited"
           ELSE IF SameSize THEN "idle" ELSE "sweep"
  /\ left' = IF pc' = "sweep" THEN DOMAIN proxies ELSE {}
  /\ starting' = FALSE
  /\ UNCHANGED <<table, process, occupied, rows, seen, edits, edited, missed>>

\* GreenSQL::Close; the status is set whatever it was.
CloseProxy(id) ==
  /\ SetStatus(id, Reload)
  /\ conns' = [conns EXCEPT ![id] = 0]

\* The loop that closes the proxies without a row.  Looking a key up in
\* new_proxies enters it, and the loop ends when the two maps have the same
\* size.  After proxies.erase(itr) the loop increments an iterator into a
\* freed node: it goes on, or the process crashes.
Sweeping == pc = "sweep" /\ left # {} /\ ~SameSize

\* Mutants: active connections do not keep the object; the listener of a proxy
\* with active connections is left open.
SweepMissing_ClosesAll(id) ==
  /\ CloseProxy(id)
  /\ proxies' = Restrict(proxies, DOMAIN proxies \ {id})
  /\ UNCHANGED pc
SweepMissing_KeepsListener(id) ==
  IF conns[id] > 0
  THEN UNCHANGED <<table, missed, proxies, conns, pc>>
  ELSE /\ CloseProxy(id)
       /\ proxies' = Restrict(proxies, DOMAIN proxies \ {id})
       /\ UNCHANGED pc

SweepMissing(id) ==
  IF conns[id] > 0
  THEN /\ proxies' = [proxies EXCEPT ![id].listening = FALSE]
       /\ UNCHANGED <<table, missed, conns, pc>>
  ELSE \/ /\ CloseProxy(id)
          /\ proxies' = Restrict(proxies, DOMAIN proxies \ {id})
          /\ UNCHANGED pc
       \/ /\ SetStatus(id, Reload)
          /\ proxies' = <<>>
          /\ conns' = [i \in Id |-> 0]
          /\ pc' = "crashed"

SweepStep ==
  /\ Sweeping
  /\ LET id == Min(left) IN
     /\ left' = left \ {id}
     /\ seen' = seen \cup {id}
     /\ IF id \in seen THEN UNCHANGED <<table, missed, proxies, conns, pc>>
        ELSE SweepMissing(id)
  /\ UNCHANGED <<running, occupied, starting, rows, edits, edited>>

SweepDone ==
  /\ pc = "sweep" /\ ~Sweeping
  /\ pc' = "idle" /\ left' = {}
  /\ UNCHANGED <<table, process, occupied, starting, rows, seen, edits, edited, missed>>

----------------------------------------------------------------------------
(* The other events: wrap_Server, wrap_Proxy and wrap_Backend.  Once the   *)
(* program is to stop, any of them closes the whole proxy.                 *)

Accept(id) ==
  /\ pc = "idle" /\ Listening(id) /\ running /\ conns[id] < MaxConns
  /\ conns' = [conns EXCEPT ![id] = @ + 1]
  /\ UNCHANGED <<table, proxies, running, occupied, reload, edits, edited, missed>>

\* Mutant: the connection takes itself off the list for each of its sockets.
CloseConnection_PerSocket(id) ==
  /\ pc = "idle" /\ conns[id] > 0 /\ running
  /\ conns' = [conns EXCEPT ![id] = @ - 2]
  /\ UNCHANGED <<table, proxies, running, occupied, reload, edits, edited, missed>>

CloseConnection(id) ==
  /\ pc = "idle" /\ conns[id] > 0 /\ running
  /\ conns' = [conns EXCEPT ![id] = @ - 1]
  /\ UNCHANGED <<table, proxies, running, occupied, reload, edits, edited, missed>>

EventWhenStopping(id) ==
  /\ pc = "idle" /\ ~running
  /\ Listening(id) \/ conns[id] > 0
  /\ CloseProxy(id)
  /\ proxies' = IF id \in DOMAIN proxies
                THEN [proxies EXCEPT ![id].listening = FALSE] ELSE proxies
  /\ UNCHANGED <<running, occupied, reload, edits, edited>>

\* Killer: a signal, at any time.
Killer ==
  /\ running /\ pc \notin {"exited", "crashed"}
  /\ running' = FALSE
  /\ UNCHANGED <<table, proxies, conns, occupied, reload, edits, edited, missed>>

\* The timer finds bRunning false: proxymap_close.  No event is left and the
\* event loop ends.  Mutants: connections are not closed; the map is not
\* emptied.
ResetAll(t, ids) ==
  LET reset(S) == [i \in DOMAIN t |-> IF i \in S THEN [t[i] EXCEPT !.status = Reload] ELSE t[i]]
  IN  {reset(S) : S \in IF DbMayFail THEN SUBSET ids ELSE {ids}}

proxymap_close_KeepsConnections ==
  /\ pc = "idle" /\ ~running
  /\ table' \in ResetAll(table, DOMAIN proxies)
  /\ proxies' = <<>>
  /\ pc' = "exited"
  /\ UNCHANGED <<conns, running, occupied, starting, rows, seen, left, edits, edited, missed>>
proxymap_close_OnlyIdle ==
  /\ pc = "idle" /\ ~running
  /\ \A i \in Id : conns[i] = 0
  /\ table' \in ResetAll(table, DOMAIN proxies)
  /\ proxies' = <<>>
  /\ UNCHANGED <<conns, pc, running, occupied, starting, rows, seen, left, edits, edited, missed>>

proxymap_close ==
  /\ pc = "idle" /\ ~running
  /\ table' \in ResetAll(table, DOMAIN proxies)
  /\ proxies' = <<>>
  /\ conns' = [i \in Id |-> 0]
  /\ pc' = "exited"
  /\ UNCHANGED <<running, occupied, starting, rows, seen, left, edits, edited, missed>>

----------------------------------------------------------------------------
(* The environment: the administrator edits the table (status 0 asks for a *)
(* reload, a new row has the column's default), other programs come and go.*)

Edit(t) ==
  /\ edits < MaxEdits /\ edits' = edits + 1
  /\ table' = t /\ edited' = TRUE
  /\ UNCHANGED <<process, occupied, reload, missed>>

AdminInserts(id) ==
  /\ id \notin DOMAIN table
  /\ \E f \in Frontend, b \in Backend :
       Edit(With(table, id, [front |-> f, backend |-> b, status |-> Good]))

AdminDeletes(id) ==
  /\ id \in DOMAIN table
  /\ Edit(Restrict(table, DOMAIN table \ {id}))

AdminChanges(id) ==
  /\ id \in DOMAIN table
  /\ \E f \in Frontend, b \in Backend :
       Edit([table EXCEPT ![id] = [front |-> f, backend |-> b, status |-> Reload]])

AdminDisables(id) ==
  /\ id \in DOMAIN table
  /\ Edit([table EXCEPT ![id].status = Disabled])

AddressTaken ==
  /\ \E a \in Addr \ occupied :
       /\ \A i \in DOMAIN proxies : proxies[i].listening => Address(proxies[i].front) # a
       /\ occupied' = occupied \cup {a}
  /\ UNCHANGED <<table, process, reload, edits, edited, missed>>

AddressFreed ==
  /\ \E a \in occupied : occupied' = occupied \ {a}
  /\ UNCHANGED <<table, process, reload, edits, edited, missed>>

Reloading == Select \/ ReloadRow \/ RowsDone \/ SweepStep \/ SweepDone

Next ==
  \/ Reloading \/ proxymap_close \/ Killer
  \/ \E id \in Id :
       \/ Accept(id) \/ CloseConnection(id) \/ EventWhenStopping(id)
       \/ AdminInserts(id) \/ AdminDeletes(id) \/ AdminChanges(id) \/ AdminDisables(id)
  \/ AddressTaken \/ AddressFreed

Spec == Init /\ [][Next]_vars

----------------------------------------------------------------------------
(* Properties.                                                             *)

\* The type of every variable.
TypeOK ==
  /\ table \in Partial(Row)
  /\ proxies \in Partial(Proxy)
  /\ conns \in [Id -> 0..MaxConns]
  /\ occupied \in SUBSET Addr
  /\ running \in BOOLEAN /\ starting \in BOOLEAN /\ edited \in BOOLEAN
  /\ pc \in {"idle", "rows", "sweep", "exited", "crashed"}
  /\ rows \subseteq [id : Id, front : Frontend, backend : Backend]
  /\ seen \subseteq Id /\ left \subseteq Id
  /\ edits \in 0..MaxEdits

\* A connection's proxy is in the map: the callbacks of the connection look it
\* up there, and the list it removes itself from is a member of that object.
ConnectionsOwned == \A id \in Id : conns[id] > 0 => id \in DOMAIN proxies

\* When a reload that no edit has disturbed is over, every proxy that is served
\* for an enabled row has the settings of that row.
ReloadApplied ==
  pc = "idle" /\ ~edited /\ running =>
    \A id \in DOMAIN table \cap DOMAIN proxies :
      table[id].status # Disabled =>
        proxies[id].front = table[id].front /\ proxies[id].backend = table[id].backend

\* When an undisturbed reload is over and none of its updates has failed, a row
\* marked good is in the map: what an earlier run, an earlier failure or the
\* column's default left in the table is corrected.
GoodIsServed ==
  pc = "idle" /\ ~edited /\ ~missed /\ running =>
    \A id \in DOMAIN table : table[id].status = Good => id \in DOMAIN proxies

\* A reload never drops a client connection, also when the connection's proxy
\* was removed from the table or is moved to another address.
ReloadKeepsConnections ==
  [][(pc \in {"rows", "sweep"} /\ pc' # "crashed") => conns' = conns]_vars

\* A reload leaves alone the listener of a proxy whose row has not changed,
\* whatever happens to the other rows.
UnchangedStaysServed ==
  [][\A id \in DOMAIN proxies \cap DOMAIN table :
       /\ pc \in {"rows", "sweep"} /\ pc' # "crashed" /\ ~edited
       /\ proxies[id].listening
       /\ table[id].status # Disabled /\ table[id].front = proxies[id].front
       => Listening(id)']_vars

Fairness ==
  /\ WF_vars(Select) /\ WF_vars(ReloadRow) /\ WF_vars(RowsDone)
  /\ WF_vars(SweepStep) /\ WF_vars(SweepDone)
  /\ WF_vars(proxymap_close)

FairSpec == Spec /\ Fairness

\* A proxy whose row is deleted for good stops listening, whatever the clean-up
\* loop makes of its two maps and however many connections the proxy has.
RemovedStopsListening ==
  \A id \in Id : <>[](id \notin DOMAIN table) => <>[]~Listening(id)

\* After the signal to stop every socket is closed, even if the signal comes in
\* the middle of a reload.
StopClosesAll ==
  ~running ~> DOMAIN proxies = {} /\ \A id \in Id : conns[id] = 0

----------------------------------------------------------------------------
(* What the comment on the status values says, and the code does not do.   *)

\* "3 - disabled": a proxy that a SELECT has found disabled stops listening and
\* is not opened again before the next edit.  (An edit that comes between a
\* SELECT and the row's update is overwritten; that is not the question here.)
DisabledStaysClosed ==
  \A id \in Id, n \in 0..MaxEdits :
    [](/\ edits = n /\ ~edited
       /\ id \in DOMAIN table /\ table[id].status = Disabled
       => <>[](edits = n => ~Listening(id)))
=============================================================================
