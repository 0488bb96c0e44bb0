------------------------- MODULE DatasourcesProofs -------------------------
(***************************************************************************)
(* Proofs about Datasources, for any rows, handlers, fetches and changes.  *)
(* IInv is inductive; once the handlers have returned it gives that the    *)
(* registry is in step, that a stale answer came late and that a rebuild   *)
(* followed the order in force.                                            *)
(***************************************************************************)
EXTENDS Datasources, TLAPS

-----------------------------------------------------------------------------
(* The inductive invariant *)

\* A handler whose reload has not been installed yet.
Reloading(a) == pc[a] \in {"committed", "locked", "read"}

\* Handler a is at work on the change of row s.
Changing(a, s) == pc[a] # "idle" /\ op[a] = s

\* Entries e serve row s with settings that the table has replaced.
Behind(e, s) == s \in DOMAIN e.cfg /\ e.cfg[s] # table.cfg[s]

\* What a table, a registry and a reload may hold.
Tables == [cfg : [Sources -> Versions], on : [Sources -> BOOLEAN], order : Versions]
Entries == [cfg : UNION {[S -> Versions] : S \in SUBSET Sources}, order : Versions]

\* Types, as far as the steps below depend on them.
Typed ==
  /\ table \in Tables
  /\ pc \in [Admins -> Handlers]
  /\ op \in [Admins -> Sources \cup {Order}]
  /\ rows \in [Admins -> Entries]
  /\ entries \in Entries
  /\ cache \in [Sources -> [cfg : Versions, late : BOOLEAN]]
  /\ flight \in [Fetches -> [source : Sources, cfg : Versions] \cup {Idle}]
  /\ rebuilt \in Versions /\ changes \in 0..MaxChanges
  /\ lost \subseteq Sources \cup {Order, "reload"}

\* reloadLck is held exactly by the handler whose reload is under way.
LockHeld == \A a \in Admins : lock = a <=> pc[a] \in {"locked", "read"}

\* What a reload has read is the table, or another handler has committed since
\* and waits for the lock.
ReadIsCurrent == \A a \in Admins : pc[a] = "read" =>
  \/ rows[a] = Snapshot(table)
  \/ \E b \in Admins : pc[b] = "committed"

\* Where the registry is behind the table, a reload will follow or was lost.
ReloadFollows ==
  \/ "reload" \in lost
  \/ entries = Snapshot(table)
  \/ \E a \in Admins : Reloading(a)

\* The same row by row: a reload has read a row's replaced settings only while
\* the handler that replaced them waits for the lock.
ReadRowIsCurrent == \A a \in Admins, s \in Sources :
  pc[a] = "read" /\ Behind(rows[a], s) => \E b \in Admins : pc[b] = "committed" /\ op[b] = s

\* The registry serves a row's replaced settings only until the handler that
\* replaced them has reloaded, or was lost with its reload.
RowReloadFollows == \A s \in Sources : Behind(entries, s) =>
  \/ {s, "reload"} \subseteq lost
  \/ \E a \in Admins : Reloading(a) /\ op[a] = s

\* A row's stale answer was stored late, or its handler has still to drop it, or
\* was lost.
DropFollows == \A s \in Sources :
  \/ s \in lost
  \/ cache[s].cfg \in {0, table.cfg[s]}
  \/ cache[s].late
  \/ \E a \in Admins : Changing(a, s)

\* A rebuild was started under the order in force, or a handler has still to
\* start one, or was lost.
RebuildFollows ==
  \/ Order \in lost
  \/ rebuilt = table.order
  \/ \E a \in Admins : Changing(a, Order)

IInv == /\ Typed /\ LockHeld /\ ReadIsCurrent /\ ReloadFollows /\ ReadRowIsCurrent
        /\ RowReloadFollows /\ DropFollows /\ RebuildFollows

-----------------------------------------------------------------------------
(* The steps *)

USE DatasourcesAssumption DEF Versions, Idle, Order, Empty, Handlers, Reloading, Changing, Behind

\* What a reload reads has the type of the registry's entries.
LEMMA SnapshotType == \A t \in Tables : Snapshot(t) \in Entries
<1> SUFFICES ASSUME NEW t \in Tables PROVE Snapshot(t) \in Entries OBVIOUS
<1> DEFINE On == {x \in Sources : t.on[x]}
<1>1. [s \in On |-> t.cfg[s]] \in [On -> Versions] BY DEF Tables
<1>2. On \in SUBSET Sources OBVIOUS
<1>3. [s \in On |-> t.cfg[s]] \in UNION {[S -> Versions] : S \in SUBSET Sources} BY <1>1, <1>2
<1>4. t.order \in Versions BY DEF Tables
<1> HIDE DEF Versions
<1> QED BY <1>3, <1>4 DEF Snapshot, Entries

\* A reload that reads the table is behind it in no row.
LEMMA SnapshotCurrent == \A s \in Sources : ~Behind(Snapshot(table), s)
  BY DEF Snapshot

\* A booted process satisfies the invariant.
LEMMA InitIInv == Init => IInv
<1> SUFFICES ASSUME Init PROVE IInv OBVIOUS
<1>1. table \in Tables BY DEF Init, Tables
<1>2. Snapshot(table) \in Entries BY <1>1, SnapshotType
<1>3. Typed
  <2>1. cache \in [Sources -> [cfg : Versions, late : BOOLEAN]] BY DEF Init
  <2>2. flight \in [Fetches -> [source : Sources, cfg : Versions] \cup {Idle}] BY DEF Init
  <2>3. rows \in [Admins -> Entries] /\ entries \in Entries BY <1>2 DEF Init
  <2>4. pc \in [Admins -> Handlers] /\ op \in [Admins -> Sources \cup {Order}] BY DEF Init
  <2>5. rebuilt \in Versions /\ changes \in 0..MaxChanges /\ lost = {} BY DEF Init
  <2> QED BY <1>1, <2>1, <2>2, <2>3, <2>4, <2>5 DEF Typed
<1> QED BY <1>3, SnapshotCurrent
        DEF Init, IInv, LockHeld, ReadIsCurrent, ReloadFollows, ReadRowIsCurrent,
            RowReloadFollows, DropFollows, RebuildFollows

\* The transaction of Update (datasource.go:41-58): its handler answers for the row it changed.
LEMMA UpdateIInv == ASSUME IInv, NEW a \in Admins, NEW s \in Sources, Update(a, s) PROVE IInv'
<1>1. Typed'
  <2>1. PICK e \in BOOLEAN : table' = [table EXCEPT !.cfg[s] = changes + 2, !.on[s] = e] BY DEF Update
  <2>2. changes + 2 \in Versions BY DEF Update, IInv, Typed
  <2>3. table' \in Tables BY <2>1, <2>2 DEF IInv, Typed, Tables
  <2> QED BY <2>3 DEF Update, IInv, Typed
<1>2. LockHeld' BY DEF Update, IInv, Typed, LockHeld
<1>3. ReadIsCurrent' BY DEF Update, IInv, Typed, ReadIsCurrent
<1>4. ReloadFollows' BY DEF Update, IInv, Typed, ReloadFollows
<1>5. ReadRowIsCurrent' BY DEF Update, IInv, Typed, ReadRowIsCurrent
<1>6. RowReloadFollows' BY DEF Update, IInv, Typed, Tables, RowReloadFollows
<1>7. DropFollows' BY DEF Update, IInv, Typed, DropFollows
<1>8. RebuildFollows' BY DEF Update, IInv, Typed, RebuildFollows
<1> QED BY <1>1, <1>2, <1>3, <1>4, <1>5, <1>6, <1>7, <1>8 DEF IInv

\* The transaction of Reorder (datasource.go:68-85).
LEMMA ReorderIInv == ASSUME IInv, NEW a \in Admins, Reorder(a) PROVE IInv'
<1>1. Typed' BY DEF Reorder, IInv, Typed, Tables
<1>2. LockHeld' BY DEF Reorder, IInv, Typed, LockHeld
<1>3. ReadIsCurrent' BY DEF Reorder, IInv, Typed, ReadIsCurrent
<1>4. ReloadFollows' BY DEF Reorder, IInv, Typed, ReloadFollows
<1>5. ReadRowIsCurrent' BY DEF Reorder, IInv, Typed, ReadRowIsCurrent
<1>6. RowReloadFollows' BY DEF Reorder, IInv, Typed, RowReloadFollows
<1>7. DropFollows' BY DEF Reorder, IInv, Typed, DropFollows
<1>8. RebuildFollows' BY DEF Reorder, IInv, Typed, RebuildFollows
<1> QED BY <1>1, <1>2, <1>3, <1>4, <1>5, <1>6, <1>7, <1>8 DEF IInv

\* Reload takes reloadLck (registry.go:118).
LEMMA LockIInv == ASSUME IInv, NEW a \in Admins, Lock(a) PROVE IInv'
<1>1. Typed' BY DEF Lock, Unlocked, IInv, Typed
<1>2. LockHeld' BY DEF Lock, Unlocked, IInv, Typed, LockHeld
<1>3. ReadIsCurrent' BY DEF Lock, Unlocked, IInv, Typed, LockHeld, ReadIsCurrent
<1>4. ReloadFollows' BY DEF Lock, Unlocked, IInv, Typed, ReloadFollows
<1>5. ReadRowIsCurrent' BY DEF Lock, Unlocked, IInv, Typed, LockHeld, ReadRowIsCurrent
<1>6. RowReloadFollows' BY DEF Lock, Unlocked, IInv, Typed, RowReloadFollows
<1>7. DropFollows' BY DEF Lock, Unlocked, IInv, Typed, DropFollows
<1>8. RebuildFollows' BY DEF Lock, Unlocked, IInv, Typed, RebuildFollows
<1> QED BY <1>1, <1>2, <1>3, <1>4, <1>5, <1>6, <1>7, <1>8 DEF IInv

\* The reload reads the table, under the lock (registry.go:120).
LEMMA ReadTableIInv == ASSUME IInv, NEW a \in Admins, ReadTable(a) PROVE IInv'
<1>1. Typed' BY SnapshotType DEF ReadTable, IInv, Typed
<1>2. LockHeld' BY DEF ReadTable, IInv, Typed, LockHeld
<1>3. ReadIsCurrent' BY DEF ReadTable, IInv, Typed, ReadIsCurrent
<1>4. ReloadFollows' BY DEF ReadTable, IInv, Typed, ReloadFollows
<1>5. ReadRowIsCurrent' BY SnapshotCurrent DEF ReadTable, IInv, Typed, ReadRowIsCurrent
<1>6. RowReloadFollows' BY DEF ReadTable, IInv, Typed, RowReloadFollows
<1>7. DropFollows' BY DEF ReadTable, IInv, Typed, DropFollows
<1>8. RebuildFollows' BY DEF ReadTable, IInv, Typed, RebuildFollows
<1> QED BY <1>1, <1>2, <1>3, <1>4, <1>5, <1>6, <1>7, <1>8 DEF IInv

\* The entries are replaced and the lock released (registry.go:141-153).
LEMMA InstallIInv == ASSUME IInv, NEW a \in Admins, Install(a) PROVE IInv'
<1>1. Typed' BY DEF Install, IInv, Typed
<1>2. LockHeld' BY DEF Install, IInv, Typed, LockHeld
<1>3. ReadIsCurrent' BY DEF Install, IInv, Typed, ReadIsCurrent
<1>4. ReloadFollows' BY DEF Install, IInv, Typed, ReadIsCurrent, ReloadFollows
<1>5. ReadRowIsCurrent' BY DEF Install, IInv, Typed, ReadRowIsCurrent
<1>6. RowReloadFollows' BY DEF Install, IInv, Typed, ReadRowIsCurrent, RowReloadFollows
<1>7. DropFollows' BY DEF Install, IInv, Typed, DropFollows
<1>8. RebuildFollows' BY DEF Install, IInv, Typed, RebuildFollows
<1> QED BY <1>1, <1>2, <1>3, <1>4, <1>5, <1>6, <1>7, <1>8 DEF IInv

\* The reload fails and the lock is released (registry.go:119-138).
LEMMA ReloadFailsIInv == ASSUME IInv, NEW a \in Admins, ReloadFails(a) PROVE IInv'
<1>1. Typed' BY DEF ReloadFails, AfterFailure, IInv, Typed
<1>2. LockHeld' BY DEF ReloadFails, AfterFailure, IInv, Typed, LockHeld
<1>3. ReadIsCurrent' BY DEF ReloadFails, AfterFailure, IInv, Typed, ReadIsCurrent
<1>4. ReloadFollows' BY DEF ReloadFails, AfterFailure, IInv, Typed, ReloadFollows
<1>5. ReadRowIsCurrent' BY DEF ReloadFails, AfterFailure, IInv, Typed, ReadRowIsCurrent
<1>6. RowReloadFollows' BY DEF ReloadFails, AfterFailure, IInv, Typed, RowReloadFollows
<1>7. DropFollows' BY DEF ReloadFails, AfterFailure, IInv, Typed, DropFollows
<1>8. RebuildFollows' BY DEF ReloadFails, AfterFailure, IInv, Typed, RebuildFollows
<1> QED BY <1>1, <1>2, <1>3, <1>4, <1>5, <1>6, <1>7, <1>8 DEF IInv

\* Update drops the row's cached answers (datasource.go:59-64).
LEMMA DropIInv == ASSUME IInv, NEW a \in Admins, Drop(a) PROVE IInv'
<1>1. Typed' BY DEF Drop, Dropped, IInv, Typed
<1>2. LockHeld' BY DEF Drop, Dropped, IInv, Typed, LockHeld
<1>3. ReadIsCurrent' BY DEF Drop, Dropped, IInv, Typed, ReadIsCurrent
<1>4. ReloadFollows' BY DEF Drop, Dropped, IInv, Typed, ReloadFollows
<1>5. ReadRowIsCurrent' BY DEF Drop, Dropped, IInv, Typed, ReadRowIsCurrent
<1>6. RowReloadFollows' BY DEF Drop, Dropped, IInv, Typed, RowReloadFollows
<1>7. DropFollows' BY DEF Drop, Dropped, IInv, Typed, DropFollows
<1>8. RebuildFollows' BY DEF Drop, Dropped, IInv, Typed, RebuildFollows
<1> QED BY <1>1, <1>2, <1>3, <1>4, <1>5, <1>6, <1>7, <1>8 DEF IInv

\* The drop fails (cache.go:91-105).
LEMMA DropFailsIInv == ASSUME IInv, NEW a \in Admins, DropFails(a) PROVE IInv'
<1>1. Typed'
  <2>1. CASE cache' = cache BY <2>1 DEF DropFails, IInv, Typed
  <2>2. CASE cache' = Dropped(op[a]) BY <2>2 DEF DropFails, Dropped, IInv, Typed
  <2> QED BY <2>1, <2>2 DEF DropFails
<1>2. LockHeld' BY DEF DropFails, Dropped, IInv, Typed, LockHeld
<1>3. ReadIsCurrent' BY DEF DropFails, Dropped, IInv, Typed, ReadIsCurrent
<1>4. ReloadFollows' BY DEF DropFails, Dropped, IInv, Typed, ReloadFollows
<1>5. ReadRowIsCurrent' BY DEF DropFails, Dropped, IInv, Typed, ReadRowIsCurrent
<1>6. RowReloadFollows' BY DEF DropFails, Dropped, IInv, Typed, RowReloadFollows
<1>7. DropFollows' BY DEF DropFails, Dropped, IInv, Typed, DropFollows
<1>8. RebuildFollows' BY DEF DropFails, Dropped, IInv, Typed, RebuildFollows
<1> QED BY <1>1, <1>2, <1>3, <1>4, <1>5, <1>6, <1>7, <1>8 DEF IInv

\* Reorder starts the rebuild run (datasource.go:86-94).
LEMMA StartRebuildIInv == ASSUME IInv, NEW a \in Admins, StartRebuild(a) PROVE IInv'
<1>1. Typed' BY DEF StartRebuild, RebuildOrder, IInv, Typed, Tables
<1>2. LockHeld' BY DEF StartRebuild, RebuildOrder, IInv, Typed, LockHeld
<1>3. ReadIsCurrent' BY DEF StartRebuild, RebuildOrder, IInv, Typed, ReadIsCurrent
<1>4. ReloadFollows' BY DEF StartRebuild, RebuildOrder, IInv, Typed, ReloadFollows
<1>5. ReadRowIsCurrent' BY DEF StartRebuild, RebuildOrder, IInv, Typed, ReadRowIsCurrent
<1>6. RowReloadFollows' BY DEF StartRebuild, RebuildOrder, IInv, Typed, RowReloadFollows
<1>7. DropFollows' BY DEF StartRebuild, RebuildOrder, IInv, Typed, DropFollows
<1>8. RebuildFollows' BY DEF StartRebuild, RebuildOrder, IInv, Typed, RebuildFollows
<1> QED BY <1>1, <1>2, <1>3, <1>4, <1>5, <1>6, <1>7, <1>8 DEF IInv

\* The rebuild run is not started (datasource.go:89-93).
LEMMA StartFailsIInv == ASSUME IInv, NEW a \in Admins, StartFails(a) PROVE IInv'
<1>1. Typed' BY DEF StartFails, IInv, Typed
<1>2. LockHeld' BY DEF StartFails, IInv, Typed, LockHeld
<1>3. ReadIsCurrent' BY DEF StartFails, IInv, Typed, ReadIsCurrent
<1>4. ReloadFollows' BY DEF StartFails, IInv, Typed, ReloadFollows
<1>5. ReadRowIsCurrent' BY DEF StartFails, IInv, Typed, ReadRowIsCurrent
<1>6. RowReloadFollows' BY DEF StartFails, IInv, Typed, RowReloadFollows
<1>7. DropFollows' BY DEF StartFails, IInv, Typed, DropFollows
<1>8. RebuildFollows' BY DEF StartFails, IInv, Typed, RebuildFollows
<1> QED BY <1>1, <1>2, <1>3, <1>4, <1>5, <1>6, <1>7, <1>8 DEF IInv

\* A fetch takes an entry (registry.go:185-196).
LEMMA BeginIInv == ASSUME IInv, NEW f \in Fetches, Begin(f) PROVE IInv'
<1>1. Typed'
  <2>1. PICK s \in DOMAIN entries.cfg :
          flight' = [flight EXCEPT ![f] = [source |-> s, cfg |-> entries.cfg[s]]] BY DEF Begin
  <2>2. s \in Sources /\ entries.cfg[s] \in Versions BY DEF IInv, Typed, Entries
  <2> QED BY <2>1, <2>2 DEF Begin, IInv, Typed
<1>2. LockHeld' BY DEF Begin, IInv, Typed, LockHeld
<1>3. ReadIsCurrent' BY DEF Begin, IInv, Typed, ReadIsCurrent
<1>4. ReloadFollows' BY DEF Begin, IInv, Typed, ReloadFollows
<1>5. ReadRowIsCurrent' BY DEF Begin, IInv, Typed, ReadRowIsCurrent
<1>6. RowReloadFollows' BY DEF Begin, IInv, Typed, RowReloadFollows
<1>7. DropFollows' BY DEF Begin, IInv, Typed, DropFollows
<1>8. RebuildFollows' BY DEF Begin, IInv, Typed, RebuildFollows
<1> QED BY <1>1, <1>2, <1>3, <1>4, <1>5, <1>6, <1>7, <1>8 DEF IInv

\* A fetch stores its answer, or ends without one (fetch.go:254-273).
LEMMA EndIInv == ASSUME IInv, NEW f \in Fetches, End(f) PROVE IInv'
<1> DEFINE s == flight[f].source
            stored == [cfg |-> flight[f].cfg, late |-> Superseded(f)]
<1>0. s \in Sources /\ flight[f].cfg \in Versions BY DEF End, IInv, Typed
<1>1. Typed'
  <2>1. stored \in [cfg : Versions, late : BOOLEAN] BY <1>0 DEF Superseded
  <2>2. cache' \in [Sources -> [cfg : Versions, late : BOOLEAN]]
    <3> HIDE DEF stored
    <3>1. cache' \in {cache, [cache EXCEPT ![s] = stored]} BY DEF End, stored
    <3> QED BY <1>0, <2>1, <3>1 DEF IInv, Typed
  <2> QED BY <2>2 DEF End, IInv, Typed
<1>2. LockHeld' BY DEF End, Superseded, IInv, Typed, LockHeld
<1>3. ReadIsCurrent' BY DEF End, Superseded, IInv, Typed, ReadIsCurrent
<1>4. ReloadFollows' BY DEF End, Superseded, IInv, Typed, ReloadFollows
<1>5. ReadRowIsCurrent' BY DEF End, Superseded, IInv, Typed, ReadRowIsCurrent
<1>6. RowReloadFollows' BY DEF End, Superseded, IInv, Typed, RowReloadFollows
<1>7. DropFollows'
  <2>1. CASE cache' = cache BY <2>1 DEF End, IInv, Typed, DropFollows
  <2>2. CASE cache' = [cache EXCEPT ![s] = stored]
    <3>1. cache'[s] = stored /\ \A x \in Sources \ {s} : cache'[x] = cache[x] BY <1>0, <2>2 DEF IInv, Typed
    <3>2. \/ stored.late \/ stored.cfg = table.cfg[s]
          \/ s \in lost \/ \E a \in Admins : Changing(a, s)
      BY <1>0 DEF IInv, RowReloadFollows, Superseded
    <3> HIDE DEF stored
    <3> QED BY <1>0, <3>1, <3>2 DEF End, IInv, DropFollows
  <2> QED BY <2>1, <2>2 DEF End
<1>8. RebuildFollows' BY DEF End, Superseded, IInv, Typed, RebuildFollows
<1> QED BY <1>1, <1>2, <1>3, <1>4, <1>5, <1>6, <1>7, <1>8 DEF IInv

\* A cached answer's lifetime is over (cache.go:73-78).
LEMMA ExpireIInv == ASSUME IInv, NEW s \in Sources, Expire(s) PROVE IInv'
<1>1. Typed' BY DEF Expire, IInv, Typed
<1>2. LockHeld' BY DEF Expire, IInv, Typed, LockHeld
<1>3. ReadIsCurrent' BY DEF Expire, IInv, Typed, ReadIsCurrent
<1>4. ReloadFollows' BY DEF Expire, IInv, Typed, ReloadFollows
<1>5. ReadRowIsCurrent' BY DEF Expire, IInv, Typed, ReadRowIsCurrent
<1>6. RowReloadFollows' BY DEF Expire, IInv, Typed, RowReloadFollows
<1>7. DropFollows' BY DEF Expire, IInv, Typed, DropFollows
<1>8. RebuildFollows' BY DEF Expire, IInv, Typed, RebuildFollows
<1> QED BY <1>1, <1>2, <1>3, <1>4, <1>5, <1>6, <1>7, <1>8 DEF IInv

\* The process boots: the registry is built from the table (main.go:159-180).
LEMMA RestartIInv == ASSUME IInv, Restart PROVE IInv'
<1>1. Typed' BY SnapshotType DEF Restart, IInv, Typed
<1>2. LockHeld' BY DEF Restart, IInv, Typed, LockHeld
<1>3. ReadIsCurrent' BY DEF Restart, IInv, Typed, ReadIsCurrent
<1>4. ReloadFollows' BY DEF Restart, IInv, Typed, ReloadFollows
<1>5. ReadRowIsCurrent' BY DEF Restart, IInv, Typed, ReadRowIsCurrent
<1>6. RowReloadFollows' BY SnapshotCurrent DEF Restart, IInv, Typed, RowReloadFollows
<1>7. DropFollows' BY DEF Restart, IInv, Typed, DropFollows
<1>8. RebuildFollows' BY DEF Restart, IInv, Typed, RebuildFollows
<1> QED BY <1>1, <1>2, <1>3, <1>4, <1>5, <1>6, <1>7, <1>8 DEF IInv

-----------------------------------------------------------------------------
(* The theorems *)

\* IInv is an invariant, however handlers, fetches and restarts interleave.
THEOREM DatasourcesInductive == Spec => []IInv
<1>1. IInv /\ [Next]_vars => IInv'
  <2> SUFFICES ASSUME IInv, [Next]_vars PROVE IInv' OBVIOUS
  <2>1. CASE Next
    BY <2>1, UpdateIInv, ReorderIInv, LockIInv, ReadTableIInv, InstallIInv, ReloadFailsIInv, DropIInv,
       DropFailsIInv, StartRebuildIInv, StartFailsIInv, BeginIInv, EndIInv, ExpireIInv, RestartIInv
    DEF Next, Handler
  <2>2. CASE UNCHANGED vars
    BY <2>2 DEF vars, IInv, Typed, LockHeld, ReadIsCurrent, ReloadFollows, ReadRowIsCurrent,
                RowReloadFollows, DropFollows, RebuildFollows
  <2> QED BY <2>1, <2>2
<1> QED BY <1>1, InitIInv, PTL DEF Spec

\* Once administrators' handlers have returned, the registry serves what the
\* table says, unless the last reload failed (datasource.go:96-98).
THEOREM RegistryStaysInStep == Spec => []RegistryInStep
<1>1. IInv => RegistryInStep BY DEF IInv, ReloadFollows, RegistryInStep, Settled
<1> QED BY <1>1, DatasourcesInductive, PTL

\* An answer given under replaced settings outlives a change only where a fetch
\* that began before the reload stored it after it, or the handler was lost
\* (datasource.go:59-64).
THEOREM StaleAnswersExplained == Spec => []StaleAnswersComeLate
<1>1. IInv => StaleAnswersComeLate BY DEF IInv, DropFollows, StaleAnswersComeLate, Settled
<1> QED BY <1>1, DatasourcesInductive, PTL

\* Once the handlers have returned, a rebuild was started under the order in
\* force, unless the last reorder was lost (datasource.go:68-94).
THEOREM ReordersAreFollowed == Spec => []RebuildFollowsReorder
<1>1. IInv => RebuildFollowsReorder BY DEF IInv, RebuildFollows, RebuildFollowsReorder, Settled
<1> QED BY <1>1, DatasourcesInductive, PTL
=============================================================================
