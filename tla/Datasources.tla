---------------------------- MODULE Datasources ----------------------------
(***************************************************************************)
(* Changing datasources under running fetches: the datasource service      *)
(* (server/internal/datasource/datasource.go), the registry it reloads     *)
(* (market/registry.go) and the fetch cache it drops (market/cache.go).    *)
(*                                                                         *)
(* An administrator's Update commits the row, reloads the registry and     *)
(* drops the datasource's cached answers; Reorder commits the precedences, *)
(* reloads and starts a rebuild run.  The steps are separate, other        *)
(* handlers and fetches run between them, a store call may fail after the  *)
(* commit, and the process may stop anywhere.  A row's settings and the    *)
(* precedences are version numbers.                                        *)
(***************************************************************************)
EXTENDS Naturals, FiniteSets

CONSTANTS Sources,    \* the rows of the datasources table
          Admins,     \* handlers serving administrators
          Fetches,    \* fetches in flight at a time
          NoOne,      \* nobody holds reloadLck
          MaxChanges  \* bound: changes administrators make

ASSUME DatasourcesAssumption == /\ MaxChanges \in Nat
                               /\ NoOne \notin Admins \cup Sources
                               /\ {"order", "reload"} \cap Sources = {}

VARIABLES table,    \* the table: settings and state of each row, and the order
          entries,  \* Registry.entries: what the last reload read
          lock,     \* the handler holding reloadLck
          pc,       \* where each handler is
          op,       \* what it changes: a source, or the order
          rows,     \* the table as the handler's reload read it
          cache,    \* the settings a cached answer was given under, and whether the
                    \* registry had moved on when it was stored
          flight,   \* the source and settings each running fetch uses
          rebuilt,  \* the order in force when the last rebuild run started
          lost,     \* changes whose handler failed or was cut off: a source, the
                    \* order, and "reload" where the reload itself was lost
          changes   \* changes made so far

vars == <<table, entries, lock, pc, op, rows, cache, flight, rebuilt, lost, changes>>

Versions == 0..(MaxChanges + 1)
Idle == [source |-> NoOne, cfg |-> 0]
Order == "order"
Empty == [cfg |-> 0, late |-> FALSE]

\* What a reload installs: the enabled rows, in order.
Snapshot(t) == [cfg |-> [s \in {x \in Sources : t.on[x]} |-> t.cfg[s]], order |-> t.order]

Init == /\ table = [cfg |-> [s \in Sources |-> 1], on |-> [s \in Sources |-> TRUE], order |-> 1]
        /\ entries = Snapshot(table)
        /\ lock = NoOne
        /\ pc = [a \in Admins |-> "idle"]
        /\ op = [a \in Admins |-> Order]
        /\ rows = [a \in Admins |-> Snapshot(table)]
        /\ cache = [s \in Sources |-> Empty]
        /\ flight = [f \in Fetches |-> Idle]
        /\ rebuilt = 1
        /\ lost = {}
        /\ changes = 0

-----------------------------------------------------------------------------
(* datasource.Service *)

\* The transaction of Update: new settings and state for the row.  A refusal by
\* Check rolls it back and changes nothing.
Update(a, s) ==
  /\ pc[a] = "idle" /\ changes < MaxChanges
  /\ changes' = changes + 1
  /\ \E e \in BOOLEAN :
       table' = [table EXCEPT !.cfg[s] = changes + 2, !.on[s] = e]
  /\ op' = [op EXCEPT ![a] = s]
  /\ pc' = [pc EXCEPT ![a] = "committed"]
  /\ UNCHANGED <<entries, lock, rows, cache, flight, rebuilt, lost>>

\* The transaction of Reorder.
Reorder(a) ==
  /\ pc[a] = "idle" /\ changes < MaxChanges
  /\ changes' = changes + 1
  /\ table' = [table EXCEPT !.order = changes + 2]
  /\ op' = [op EXCEPT ![a] = Order]
  /\ pc' = [pc EXCEPT ![a] = "committed"]
  /\ UNCHANGED <<entries, lock, rows, cache, flight, rebuilt, lost>>

\* Mutant: reloads are not serialised.
Unlocked_NoMutex == TRUE

Unlocked == lock = NoOne

\* Reload takes reloadLck, whether or not the caller has gone.
Lock(a) ==
  /\ pc[a] = "committed" /\ Unlocked
  /\ lock' = a
  /\ pc' = [pc EXCEPT ![a] = "locked"]
  /\ UNCHANGED <<table, entries, op, rows, cache, flight, rebuilt, lost, changes>>

\* ListDatasources, and an integration for every enabled row.
ReadTable(a) ==
  /\ pc[a] = "locked"
  /\ rows' = [rows EXCEPT ![a] = Snapshot(table)]
  /\ pc' = [pc EXCEPT ![a] = "read"]
  /\ UNCHANGED <<table, entries, lock, op, cache, flight, rebuilt, lost, changes>>

\* The entries are replaced and the lock released.
Install(a) ==
  /\ pc[a] = "read"
  /\ entries' = rows[a]
  /\ lock' = NoOne
  /\ lost' = lost \ {"reload"}
  /\ pc' = [pc EXCEPT ![a] = "installed"]
  /\ UNCHANGED <<table, op, rows, cache, flight, rebuilt, changes>>

\* Mutant: an error path of the reload keeps the lock.
AfterFailure_LockKept(a) == lock

\* The deferred unlock.
AfterFailure(a) == NoOne

\* The read fails: the entries stay, the handler returns the error, and what
\* should have follow the reload does not.
ReloadFails(a) ==
  /\ pc[a] = "locked"
  /\ lock' = AfterFailure(a)
  /\ lost' = lost \cup {"reload", op[a]}
  /\ pc' = [pc EXCEPT ![a] = "idle"]
  /\ UNCHANGED <<table, entries, op, rows, cache, flight, rebuilt, changes>>

\* Mutant: the answers of a row that was disabled are kept.
Dropped_EnabledOnly(s) == IF table.on[s] THEN [cache EXCEPT ![s] = Empty] ELSE cache

\* Cache.Drop unlinks every answer of the datasource.
Dropped(s) == [cache EXCEPT ![s] = Empty]

\* Update drops the answers of its row.  That makes up for an earlier lost change
\* of the row, unless the registry still serves settings from before it.
Drop(a) ==
  /\ pc[a] = "installed" /\ op[a] # Order
  /\ cache' = Dropped(op[a])
  /\ lost' = IF "reload" \in lost THEN lost ELSE lost \ {op[a]}
  /\ pc' = [pc EXCEPT ![a] = "idle"]
  /\ UNCHANGED <<table, entries, lock, op, rows, flight, rebuilt, changes>>

\* The scan or an unlink fails part way, and the handler returns the error.
DropFails(a) ==
  /\ pc[a] = "installed" /\ op[a] # Order
  /\ cache' \in {cache, Dropped(op[a])}
  /\ lost' = lost \cup {op[a]}
  /\ pc' = [pc EXCEPT ![a] = "idle"]
  /\ UNCHANGED <<table, entries, lock, op, rows, flight, rebuilt, changes>>

\* Mutant: the run works to the order its starter's reload read.
RebuildOrder_AsReloaded(a) == rows[a].order

\* The run reads the precedences from the table, in its own transactions.
RebuildOrder(a) == table.order

\* Reorder starts the rebuild run.
StartRebuild(a) ==
  /\ pc[a] = "installed" /\ op[a] = Order
  /\ rebuilt' = RebuildOrder(a)
  /\ lost' = lost \ {Order}
  /\ pc' = [pc EXCEPT ![a] = "idle"]
  /\ UNCHANGED <<table, entries, lock, op, rows, cache, flight, changes>>

\* The start fails: the new precedence stands and the error is returned.
StartFails(a) ==
  /\ pc[a] = "installed" /\ op[a] = Order
  /\ lost' = lost \cup {Order}
  /\ pc' = [pc EXCEPT ![a] = "idle"]
  /\ UNCHANGED <<table, entries, lock, op, rows, cache, flight, rebuilt, changes>>

-----------------------------------------------------------------------------
(* Fetches and the process *)

\* A fetch takes the entry it will use to its end.
Begin(f) ==
  /\ flight[f] = Idle
  /\ \E s \in DOMAIN entries.cfg :
       flight' = [flight EXCEPT ![f] = [source |-> s, cfg |-> entries.cfg[s]]]
  /\ UNCHANGED <<table, entries, lock, pc, op, rows, cache, rebuilt, lost, changes>>

\* The registry no longer holds the settings the fetch uses.
Superseded(f) == LET s == flight[f].source IN
  s \notin DOMAIN entries.cfg \/ entries.cfg[s] # flight[f].cfg

\* It stores its answer, or ends without one.
End(f) ==
  /\ flight[f] # Idle
  /\ cache' \in {cache, [cache EXCEPT ![flight[f].source] =
                                [cfg |-> flight[f].cfg, late |-> Superseded(f)]]}
  /\ flight' = [flight EXCEPT ![f] = Idle]
  /\ UNCHANGED <<table, entries, lock, pc, op, rows, rebuilt, lost, changes>>

\* A cached answer's lifetime is over.
Expire(s) == /\ cache[s] # Empty
             /\ cache' = [cache EXCEPT ![s] = Empty]
             /\ UNCHANGED <<table, entries, lock, pc, op, rows, flight, rebuilt, lost, changes>>

\* The process stops and boots.  The registry is built from the table; the cache
\* outlives the process, and the changes under way are not taken up again.
Restart ==
  /\ entries' = Snapshot(table)
  /\ lock' = NoOne
  /\ lost' = (lost \ {"reload"}) \cup {op[a] : a \in {b \in Admins : pc[b] # "idle"}}
  /\ pc' = [a \in Admins |-> "idle"]
  /\ flight' = [f \in Fetches |-> Idle]
  /\ UNCHANGED <<table, op, rows, cache, rebuilt, changes>>

Handler(a) == \/ Lock(a) \/ ReadTable(a) \/ Install(a) \/ ReloadFails(a)
              \/ Drop(a) \/ DropFails(a) \/ StartRebuild(a) \/ StartFails(a)

Next == \/ \E a \in Admins : Reorder(a) \/ Handler(a) \/ \E s \in Sources : Update(a, s)
        \/ \E f \in Fetches : Begin(f) \/ End(f)
        \/ \E s \in Sources : Expire(s)
        \/ Restart

Spec == Init /\ [][Next]_vars

\* A handler runs on whether or not its caller has gone, store and cache return,
\* and reloadLck is granted.
FairSpec == Spec /\ \A a \in Admins : WF_vars(Handler(a))

-----------------------------------------------------------------------------
(* Properties *)

Handlers == {"idle", "committed", "locked", "read", "installed"}
Settled == \A a \in Admins : pc[a] = "idle"

\* Types; and reloadLck is held exactly by the handler whose reload is under way
\* (registry.go:118-119).
TypeOK ==
  /\ table \in [cfg : [Sources -> Versions], on : [Sources -> BOOLEAN], order : Versions]
  /\ \A e \in {entries} \cup {rows[a] : a \in Admins} :
       DOMAIN e.cfg \subseteq Sources /\ e.order \in Versions
  /\ pc \in [Admins -> Handlers] /\ op \in [Admins -> Sources \cup {Order}]
  /\ cache \in [Sources -> [cfg : Versions, late : BOOLEAN]]
  /\ flight \in [Fetches -> [source : Sources \cup {NoOne}, cfg : Versions]]
  /\ rebuilt \in Versions /\ changes \in 0..MaxChanges
  /\ lost \subseteq Sources \cup {Order, "reload"}
  /\ \A a \in Admins : lock = a <=> pc[a] \in {"locked", "read"}

\* Whatever order administrators' commits and reloads fall in, once their
\* handlers have returned the registry serves exactly what the table says
\* (datasource.go:96-98 "so the table and the registry stay in step"), unless the
\* last reload failed.
RegistryInStep == Settled /\ "reload" \notin lost => entries = Snapshot(table)

\* Update drops the cached answers after the reload (datasource.go:59-64), so an
\* answer given under replaced settings outlives a change only where a fetch that
\* had begun before the reload stored it after it, or the handler was lost.
StaleAnswersComeLate == Settled =>
  \A s \in Sources \ lost : cache[s].cfg \in {0, table.cfg[s]} \/ cache[s].late

\* Once the handlers have returned, a rebuild has been started under the order
\* now in force (datasource.go:68-94), however reorders overlapped, unless the
\* last of them was lost.
RebuildFollowsReorder == Settled /\ Order \notin lost => rebuilt = table.order

\* A handler that has committed returns: no reload, failed or not, keeps the
\* others out of the registry (registry.go:118-119).
HandlersReturn == \A a \in Admins : pc[a] # "idle" ~> pc[a] = "idle"
=============================================================================
