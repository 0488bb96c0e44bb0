------------------------------- MODULE Runner -------------------------------
(***************************************************************************)
(* The run package: server/internal/run/run.go over the runs table.        *)
(*                                                                         *)
(* Start links a run into its lane under the runner's mutex and leaves a   *)
(* goroutine behind that waits for the lane's previous run, then for the   *)
(* caller to have inserted the row and prepared the work, and then         *)
(* executes the work.  A child or synchronous run has no lane and executes *)
(* in its caller.  Close cancels the runner's context; a crash drops       *)
(* everything but the table; boot sweeps the table.                        *)
(*                                                                         *)
(* A run is its number in creation order.  Its goroutine is pc[r], what    *)
(* Start's caller has done for it is ready[r] (the channel's contents once *)
(* the caller is past it), and the contexts its own derives from are the   *)
(* runs anc[r].                                                            *)
(***************************************************************************)
EXTENDS Naturals, FiniteSets

CONSTANTS MaxRuns,   \* bound: runs created over the whole behaviour
          MaxInline, \* bound: how many of them are child or synchronous runs
          MaxBoots,  \* bound: times the process boots
          MaxFaults, \* bound: runs of one process whose store calls fail
          Lanes,     \* the (user, lane) pairs of laneKey
          NoLane     \* the lane of child and synchronous runs

ASSUME RunnerAssumption == /\ MaxRuns \in Nat /\ MaxInline \in Nat
                           /\ MaxBoots \in Nat /\ MaxFaults \in Nat
                           /\ NoLane \notin Lanes

Runs == 1..MaxRuns

VARIABLES proc,      \* "up", "closing" once Close has cancelled, or "down"
          boots,     \* how many times the process has booted
          accepted,  \* the last run id minted
          lanes,     \* Runner.lanes: the run whose done channel is the lane's, or 0
          lane,      \* the laneKey of each run
          prev,      \* the run whose done channel background waits for, or 0
          ready,     \* Start's caller and the handoff channel
          pc,        \* the goroutine of background, or the caller of an inline run
          res,       \* what execute's work returned
          anc,       \* the run and its ancestors: the contexts its own derives from
          cancelled, \* runs whose own context was cancelled while the runner is open
          faulted,   \* runs one of whose store calls failed with its context alive
          row        \* runs.state, "none" before the insert

volatile == <<lanes, lane, prev, ready, pc, res, anc, cancelled, faulted>>
vars == <<proc, boots, accepted, row, volatile>>

RowStates == {"none", "pending", "running", "completed", "failed", "interrupted"}
Open      == {"pending", "running"}
Terminal  == {"completed", "failed", "interrupted"}
\* The caller inserts, prepares, and leaves the handoff or a closed channel.
Handoffs  == {"none", "insert", "prepare", "closed", "ok", "err"}
PCs       == {"none", "insert", "prev", "ready", "start", "work", "end", "release", "unlink", "gone"}
Executing == {"start", "work", "end"}
Finished  == {"unlink", "gone"}

\* A store call of r fails although its context is alive.
Fault(r) == /\ Cardinality(faulted) < MaxFaults
            /\ faulted' = faulted \cup {r}

InLane(r) == lane[r] \in Lanes

\* The done channel of r is closed: its goroutine is past close(done).
Done(r) == pc[r] \in Finished

\* The context passed to r's work is cancelled: the runner's for a lane run and
\* what it calls, the request's or the errgroup's otherwise.
CtxDone(r) == \/ anc[r] \cap cancelled # {}
              \/ proc # "up" /\ \E a \in anc[r] : InLane(a)

\* A store call in r's context fails, for the context or for another reason.
CallFails(r) == \/ CtxDone(r) /\ UNCHANGED faulted
                \/ ~CtxDone(r) /\ Fault(r)

Descendants(r) == {d \in Runs \ {r} : r \in anc[d]}

\* Where a run goes when execute returns: background's deferred calls, or back
\* to the caller of Child or Sync.
Returned(r) == IF InLane(r) THEN "release" ELSE "gone"

Init == /\ proc = "up"
        /\ boots = 1
        /\ accepted = 0
        /\ lanes = [l \in Lanes |-> 0]
        /\ lane = [r \in Runs |-> NoLane]
        /\ prev = [r \in Runs |-> 0]
        /\ ready = [r \in Runs |-> "none"]
        /\ pc = [r \in Runs |-> "none"]
        /\ res = [r \in Runs |-> "none"]
        /\ anc = [r \in Runs |-> {}]
        /\ cancelled = {}
        /\ faulted = {}
        /\ row = [r \in Runs |-> "none"]

-----------------------------------------------------------------------------
(* Start, its caller's side *)

\* Mutant: the lane is read after the run's own channel was stored in it.
LaneTail_ReadAfterWrite(l, r) == r

\* The lane's last run, which the new run r waits for.
LaneTail(l, r) == lanes[l]

\* Start under the mutex: mint the id, take the last place in the lane and
\* leave the goroutine behind.  Refused once the runner has closed.
Start(l) ==
  /\ proc = "up" /\ accepted < MaxRuns
  /\ LET r == accepted + 1 IN
       /\ accepted' = r
       /\ prev' = [prev EXCEPT ![r] = LaneTail(l, r)]
       /\ lanes' = [lanes EXCEPT ![l] = r]
       /\ lane' = [lane EXCEPT ![r] = l]
       /\ anc' = [anc EXCEPT ![r] = {r}]
       /\ ready' = [ready EXCEPT ![r] = "insert"]
       /\ pc' = [pc EXCEPT ![r] = "prev"]
  /\ UNCHANGED <<proc, boots, row, res, cancelled, faulted>>

\* Mutant: Start returns the insert's error without closing the channel.
InsertFailed_ChannelLeftOpen == "none"

\* What the caller leaves on the channel when the insert failed.
InsertFailed == "closed"

\* Start's CreateRun, in the caller's request context.  A failed call closes the
\* channel; the insert may nevertheless have been committed.
CreateRun(r) ==
  /\ ready[r] = "insert"
  /\ \/ /\ row' = [row EXCEPT ![r] = "pending"]
        /\ ready' = [ready EXCEPT ![r] = "prepare"]
        /\ UNCHANGED faulted
     \/ /\ \E s \in {"none", "pending"} : row' = [row EXCEPT ![r] = s]
        /\ ready' = [ready EXCEPT ![r] = InsertFailed]
        /\ Fault(r)
  /\ UNCHANGED <<proc, boots, accepted, lanes, lane, prev, pc, res, anc, cancelled>>

\* Prepare in the caller, its error or panic handed to the goroutine.
Prepare(r) ==
  /\ ready[r] = "prepare"
  /\ \E h \in {"ok", "err"} : ready' = [ready EXCEPT ![r] = h]
  /\ UNCHANGED <<proc, boots, accepted, row, lanes, lane, prev, pc, res, anc,
                 cancelled, faulted>>

-----------------------------------------------------------------------------
(* background, the goroutine of a lane run *)

\* Only the goroutine of r moves, to p.
Goto(r, p) == /\ pc' = [pc EXCEPT ![r] = p]
              /\ UNCHANGED <<proc, boots, accepted, row, lanes, lane, prev, ready, res,
                             anc, cancelled, faulted>>

PrevDone(r) == prev[r] # 0 => Done(prev[r])

\* Mutant: a run whose insert failed leaves at once, not after its lane's previous run.
WaitPrev_DroppedRunLeavesEarly(r) ==
  /\ pc[r] = "prev"
  /\ \/ PrevDone(r) /\ Goto(r, "ready")
     \/ proc = "closing" /\ Goto(r, "release")
     \/ ready[r] = "closed" /\ Goto(r, "release")

\* The first select: the previous run's done channel, or the runner's context.
WaitPrev(r) == /\ pc[r] = "prev"
               /\ \/ PrevDone(r) /\ Goto(r, "ready")
                  \/ proc = "closing" /\ Goto(r, "release")

\* Mutant: a plain receive from the handoff channel.
ReadyCancelled_PlainReceive == FALSE

\* The runner's context ends the wait for the handoff.
ReadyCancelled == proc = "closing"

\* The second select and the context check behind it: a handoff starts the run
\* while the runner is open, a closed channel or the context drops it.
TakeReady(r) == /\ pc[r] = "ready"
                /\ \/ ready[r] \in {"ok", "err"} /\ proc = "up" /\ Goto(r, "start")
                   \/ ready[r] = "closed" /\ Goto(r, "release")
                   \/ ReadyCancelled /\ Goto(r, "release")

\* The deferred close(done): the lane's next run may go.
Release(r) == pc[r] = "release" /\ Goto(r, "unlink")

\* Mutant: the delete does not check whose channel the map holds.
LaneAfter_Unchecked(r) == 0

\* The deferred delete: the lane is forgotten only if this run is still its last.
LaneAfter(r) == IF lanes[lane[r]] = r THEN 0 ELSE lanes[lane[r]]

Unlink(r) ==
  /\ pc[r] = "unlink"
  /\ lanes' = [lanes EXCEPT ![lane[r]] = LaneAfter(r)]
  /\ pc' = [pc EXCEPT ![r] = "gone"]
  /\ UNCHANGED <<proc, boots, accepted, row, lane, prev, ready, res, anc, cancelled,
                 faulted>>

-----------------------------------------------------------------------------
(* Child, ChildAs and Sync *)

\* A run with no lane, created and executed by its caller: up is the parent
\* and its ancestors, empty for Sync.  Refused once the runner has closed.
Inline(up) ==
  /\ proc = "up" /\ accepted < MaxRuns
  /\ Cardinality({r \in 1..accepted : ~InLane(r)}) < MaxInline
  /\ LET r == accepted + 1 IN
       /\ accepted' = r
       /\ anc' = [anc EXCEPT ![r] = up \cup {r}]
       /\ pc' = [pc EXCEPT ![r] = "insert"]
  /\ UNCHANGED <<proc, boots, row, lanes, lane, prev, ready, res, cancelled, faulted>>

\* Its CreateRun.  A failed insert may have been committed.
CreateInline(r) ==
  /\ pc[r] = "insert"
  /\ \/ /\ row' = [row EXCEPT ![r] = "pending"]
        /\ pc' = [pc EXCEPT ![r] = "start"]
        /\ UNCHANGED <<res, faulted>>
     \/ /\ \E s \in {"none", "pending"} : row' = [row EXCEPT ![r] = s]
        /\ pc' = [pc EXCEPT ![r] = "gone"]
        /\ res' = [res EXCEPT ![r] = "err"]
        /\ CallFails(r)
  /\ UNCHANGED <<proc, boots, accepted, lanes, lane, prev, ready, anc, cancelled>>

\* Mutant: the handed-off error is ignored.
RealWork_HandoffErrorIgnored(r) == TRUE

\* The handed-off error replaces the work by one that only returns it.
RealWork(r) == ready[r] # "err"

Child(p) == pc[p] = "work" /\ RealWork(p) /\ Inline(anc[p])

Sync == Inline({})

-----------------------------------------------------------------------------
(* execute *)

\* Execute returns without having called the work: StartRun failed, whether or
\* not its update was committed.
StartRunFails(r) ==
  /\ \E s \in {row[r], "running"} : row' = [row EXCEPT ![r] = s]
  /\ pc' = [pc EXCEPT ![r] = Returned(r)]
  /\ res' = [res EXCEPT ![r] = "err"]
  /\ CallFails(r)

StartRun(r) ==
  /\ pc[r] = "start"
  /\ \/ /\ row[r] = "pending"
        /\ row' = [row EXCEPT ![r] = "running"]
        /\ pc' = [pc EXCEPT ![r] = "work"]
        /\ UNCHANGED <<res, faulted>>
     \/ StartRunFails(r)
  /\ UNCHANGED <<proc, boots, accepted, lanes, lane, prev, ready, anc, cancelled>>

\* Mutant: the finishing updates do not check the state they find.
Ended_AnyState(r, s) == s

\* The state a finishing update leaves: it matches a running row only.
Ended(r, s) == IF row[r] = "running" THEN s ELSE row[r]

\* Work that completes its run in the transaction of its own writes.
WorkCompletes(r) ==
  /\ pc[r] = "work" /\ RealWork(r) /\ row[r] = "running"
  /\ row' = [row EXCEPT ![r] = Ended(r, "completed")]
  /\ UNCHANGED <<proc, boots, accepted, volatile>>

\* What the work may return; a panic is an error.
Outcomes(r) == IF RealWork(r) THEN {"ok", "err"} ELSE {"err"}

\* The work waits for the children it started.
WorkReturns(r) ==
  /\ pc[r] = "work"
  /\ \A d \in Descendants(r) : pc[d] = "gone"
  /\ \E o \in Outcomes(r) : res' = [res EXCEPT ![r] = o]
  /\ pc' = [pc EXCEPT ![r] = "end"]
  /\ UNCHANGED <<proc, boots, accepted, row, lanes, lane, prev, ready, anc, cancelled,
                 faulted>>

\* Mutant: the work's panic is not turned into an error, so no state is written.
FinalRow_PanicEscapes(r) == IF res[r] = "ok" THEN Ended(r, "completed") ELSE row[r]

\* The row after the work: completed, left for Sweep, or failed.
FinalRow(r) == CASE res[r] = "ok" -> Ended(r, "completed")
                 [] res[r] # "ok" /\ CtxDone(r) -> row[r]
                 [] OTHER -> Ended(r, "failed")

\* The state write outlives the context, but may itself fail; the run stops
\* either way.
Finish(r) ==
  /\ pc[r] = "end"
  /\ \/ row' = [row EXCEPT ![r] = FinalRow(r)] /\ UNCHANGED faulted
     \/ /\ res[r] = "ok" \/ ~CtxDone(r)
        /\ Fault(r)
        /\ UNCHANGED row
  /\ pc' = [pc EXCEPT ![r] = Returned(r)]
  /\ UNCHANGED <<proc, boots, accepted, lanes, lane, prev, ready, res, anc, cancelled>>

-----------------------------------------------------------------------------
(* Contexts and the process *)

\* A child's error cancels the context its siblings in the errgroup share.
GroupCancel(c) ==
  /\ pc[c] = "gone" /\ res[c] = "err" /\ anc[c] # {c}
  /\ \E s \in Runs : /\ s # c /\ anc[s] \ {s} = anc[c] \ {c}
                     /\ pc[s] # "gone" /\ s \notin cancelled
                     /\ cancelled' = cancelled \cup {s}
  /\ UNCHANGED <<proc, boots, accepted, row, lanes, lane, prev, ready, pc, res, anc,
                 faulted>>

\* The client of a synchronous run goes away.
HangUp(r) ==
  /\ r \notin cancelled /\ pc[r] \in Executing \cup {"insert"}
  /\ anc[r] = {r} /\ ~InLane(r)
  /\ cancelled' = cancelled \cup {r}
  /\ UNCHANGED <<proc, boots, accepted, row, lanes, lane, prev, ready, pc, res, anc,
                 faulted>>

\* Close cancels the runner's context under the mutex; its wait is Exit's guard.
Close == /\ proc = "up"
         /\ proc' = "closing"
         /\ UNCHANGED <<boots, accepted, row, volatile>>

\* The process ends: goroutines, callers and the lane map are gone.
ProcessEnds == /\ proc' = "down"
               /\ pc' = [r \in Runs |-> IF r <= accepted THEN "gone" ELSE "none"]
               /\ ready' = [r \in Runs |-> "none"]
               /\ lanes' = [l \in Lanes |-> 0]
               /\ prev' = [r \in Runs |-> 0]
               /\ res' = [r \in Runs |-> "none"]
               /\ anc' = [r \in Runs |-> {}]
               /\ cancelled' = {}
               /\ faulted' = {}
               /\ UNCHANGED <<boots, accepted, row, lane>>

\* The wait group is empty, Close returns and main exits.
Exit == /\ proc = "closing"
        /\ \A r \in Runs : InLane(r) => pc[r] = "gone"
        /\ ProcessEnds

Crash == proc # "down" /\ ProcessEnds

\* InterruptRuns: the rows Sweep marks interrupted.
Sweep == [r \in Runs |-> IF row[r] \in Open THEN "interrupted" ELSE row[r]]

\* Boot sweeps the table before the runner exists.
Boot == /\ proc = "down" /\ boots < MaxBoots
        /\ proc' = "up"
        /\ boots' = boots + 1
        /\ row' = Sweep
        /\ UNCHANGED <<accepted, volatile>>

Caller(r)     == CreateRun(r) \/ Prepare(r)
Background(r) == WaitPrev(r) \/ TakeReady(r) \/ Release(r) \/ Unlink(r)
Execute(r)    == CreateInline(r) \/ StartRun(r) \/ WorkReturns(r) \/ Finish(r)

Next == \/ \E l \in Lanes : Start(l)
        \/ Sync
        \/ \E r \in Runs : \/ Caller(r) \/ Background(r) \/ Execute(r)
                           \/ Child(r) \/ WorkCompletes(r)
                           \/ GroupCancel(r) \/ HangUp(r)
        \/ Close \/ Exit \/ Crash \/ Boot

Spec == Init /\ [][Next]_vars

\* The scheduler runs every goroutine; store calls and work return.  A caller is
\* only relied on while the runner is open: Shutdown abandons slow handlers.
Fairness == /\ \A r \in Runs : /\ WF_vars(proc = "up" /\ Caller(r))
                               /\ WF_vars(Background(r))
                               /\ WF_vars(Execute(r))
            /\ WF_vars(Exit)

FairSpec == Spec /\ Fairness

-----------------------------------------------------------------------------
(* Properties *)

\* Every variable has its type, an id is used once it is minted, and a run waits
\* for an earlier run: the channel background receives from (run.go:155) is
\* never the run's own nor a later one's.
TypeOK == /\ proc \in {"up", "closing", "down"}
          /\ boots \in Nat
          /\ accepted \in 0..MaxRuns
          /\ lanes \in [Lanes -> 0..MaxRuns]
          /\ lane \in [Runs -> Lanes \cup {NoLane}]
          /\ prev \in [Runs -> 0..MaxRuns]
          /\ \A r \in Runs : prev[r] < r
          /\ ready \in [Runs -> Handoffs]
          /\ pc \in [Runs -> PCs]
          /\ res \in [Runs -> {"none", "ok", "err"}]
          /\ anc \in [Runs -> SUBSET Runs]
          /\ cancelled \in SUBSET Runs
          /\ faulted \in SUBSET Runs
          /\ row \in [Runs -> RowStates]
          /\ \A r \in Runs : r > accepted => pc[r] = "none"

\* A lane executes one run at a time, in the order Start linked them: while a
\* run is in execute, every earlier run of its lane has closed its done channel,
\* also when runs between them were dropped because their insert failed
\* (run.go:229-247).
LaneExclusion == \A q, r \in Runs :
  q < r /\ InLane(r) /\ lane[q] = lane[r] /\ pc[r] \in Executing => Done(q)

\* Runner.lanes keeps up with the lanes (run.go:155-157, 222-227): a lane it does
\* not hold has, while the runner is open, no run that is not done, and the run it holds is the lane's
\* last and has not been forgotten.  So a new run always waits for the lane's
\* last one, and the map does not grow with finished lanes.
LaneMapIsTail == \A l \in Lanes :
  /\ proc = "up" /\ lanes[l] = 0 => \A r \in Runs : lane[r] = l /\ pc[r] # "none" => Done(r)
  /\ lanes[l] # 0 => /\ lane[lanes[l]] = l
                      /\ pc[lanes[l]] # "gone"
                      /\ \A r \in Runs : lane[r] = l => r <= lanes[l]

\* A run whose Prepare failed is never recorded as completed: its goroutine
\* executes the failing work in its place (run.go:248-251).
FailedPrepareNeverCompletes == \A r \in Runs : ready[r] = "err" => row[r] # "completed"

\* While the runner is open, a run that has stopped is recorded: its row, if the
\* insert made one, is terminal, unless a store call of the run failed or its
\* own context was cancelled (execute, run.go:263-286).  After a restart no row
\* of an earlier process is left open (Sweep, run.go:302).
RunsRecorded == proc = "up" =>
  \A r \in Runs : pc[r] = "gone" /\ r \notin faulted /\ anc[r] \cap cancelled = {}
                    => row[r] \notin Open

\* A row only moves forward (queries/runs.sql): a terminal row never changes, a
\* running one never goes back to pending, and no row is interrupted except
\* when the process boots.
RowStep == \A r \in Runs :
  /\ row[r] \in Terminal => row'[r] = row[r]
  /\ row[r] = "running" => row'[r] \in {"running"} \cup Terminal
  /\ row'[r] = "interrupted" /\ row[r] # "interrupted" => proc = "down"

RowLifecycle == [][RowStep]_vars

\* No lane wedges: every run that was linked leaves its lane in the end, whether
\* its insert, its Prepare or its work failed or panicked (run.go:162-170,
\* 219-258, 288-297).
NoWedgedLane == <>[](\A r \in Runs : lane[r] # NoLane => pc[r] \in {"none", "gone"})

\* Close returns, and the runner is not closing for ever: once its context is
\* cancelled every goroutine stops, even if a caller of Start never returns from its insert or its Prepare
\* (run.go:212-217, 240-247).
CloseReturns == []<>(proc # "closing")

-----------------------------------------------------------------------------
(* The inductive invariant behind the safety properties *)

\* Ids are minted in order, and an id not yet minted has left no trace.
Minted == \A r \in Runs :
  /\ r <= accepted => pc[r] # "none"
  /\ r > accepted => lane[r] = NoLane /\ row[r] = "none" /\ ready[r] = "none" /\ r \notin faulted

\* A process that is down has no goroutine and no caller.
DownIsIdle == proc = "down" => \A r \in Runs : pc[r] \in {"none", "gone"} /\ ready[r] = "none"

\* Which steps lane runs and inline runs are at.
Shape == \A r \in Runs :
  IF InLane(r) THEN pc[r] # "insert"
               ELSE pc[r] \notin {"prev", "ready", "release", "unlink"} /\ ready[r] = "none"

\* How far the row has come at each step of the run.
RowAtStep == \A r \in Runs :
  /\ ready[r] = "insert" \/ pc[r] = "insert" => row[r] = "none"
  /\ ready[r] = "prepare" => row[r] = "pending"
  /\ pc[r] \in {"prev", "ready"} => row[r] \in {"none", "pending"}
  /\ pc[r] \in {"prev", "ready"} /\ ready[r] \in {"ok", "err"} => row[r] = "pending"
  /\ pc[r] = "start" => row[r] = "pending" /\ ready[r] \in {"none", "ok", "err"}
  /\ pc[r] \in {"work", "end"} => row[r] \in {"running", "completed"}
  /\ pc[r] \in {"work", "end"} => ready[r] \in {"none", "ok", "err"}

\* A goroutine past its first select has every earlier run of the lane behind it,
\* until the runner closes; in execute, also after that.
LaneOrder == \A q, r \in Runs :
  /\ q < r /\ InLane(r) /\ lane[q] = lane[r]
  /\ pc[r] \in Executing \/ (proc = "up" /\ pc[r] \notin {"none", "prev"})
  => Done(q)

\* The run a goroutine waits for stands for every earlier run of the lane.
WaitChain == \A r \in Runs : proc = "up" /\ pc[r] = "prev" =>
  /\ prev[r] # 0 => lane[prev[r]] = lane[r]
  /\ \A q \in Runs : q < r /\ lane[q] = lane[r] => Done(q) \/ (prev[r] # 0 /\ q <= prev[r])

\* A failed handoff makes the work fail.
FailedHandoff == \A r \in Runs : ready[r] = "err" =>
  /\ row[r] # "completed"
  /\ pc[r] = "end" => res[r] = "err"

\* Why a run that stopped, or is about to, is recorded.
StopRecorded == \A r \in Runs :
  /\ ready[r] = "closed" => r \in faulted
  /\ proc = "up" /\ pc[r] \in {"release", "unlink", "gone"} => ready[r] \notin {"insert", "prepare"}
  /\ proc = "up" /\ pc[r] \in {"release", "unlink", "gone"}
       /\ r \notin faulted /\ anc[r] \cap cancelled = {} => row[r] \notin Open

IInv == /\ TypeOK /\ Minted /\ DownIsIdle /\ Shape /\ RowAtStep
        /\ LaneOrder /\ WaitChain /\ LaneMapIsTail
        /\ FailedHandoff /\ StopRecorded

-----------------------------------------------------------------------------
(* The abstract specification *)

\* The runs whose goroutine has not closed its done channel.
Alive == {r \in Runs : pc[r] \notin Finished \cup {"none"}}

Promise == INSTANCE RunLanes WITH live <- Alive

\* The runner keeps the promise of RunLanes: runs of a lane begin in acceptance
\* order and one at a time, and only a restart, with no run alive, interrupts
\* rows.
KeepsPromise == Promise!Spec
=============================================================================
