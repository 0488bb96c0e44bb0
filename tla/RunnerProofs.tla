---------------------------- MODULE RunnerProofs ----------------------------
(***************************************************************************)
(* Proofs about Runner, for every number of runs, lanes, boots and faults. *)
(* IInv is inductive; the safety invariants, the action property on rows   *)
(* and the refinement of RunLanes follow from it.                          *)
(***************************************************************************)
EXTENDS Runner, TLAPS

USE RunnerAssumption
\* The vocabulary every step is written in.
USE DEF Runs, InLane, Done, Finished, Executing, Open, PCs, Handoffs, RowStates

\* The runner a process boots with, and an empty table, satisfy the invariant (New, run.go:125).
LEMMA InitIInv == Init => IInv
  BY DEF Init, IInv, TypeOK, Minted, DownIsIdle, Shape, RowAtStep, LaneOrder, WaitChain,
         LaneMapIsTail, FailedHandoff, StopRecorded

\* Start's critical section (run.go:145-161): the new run takes the last place in its lane.
LEMMA StartIInv == ASSUME IInv, NEW l \in Lanes, Start(l) PROVE IInv'
<1>1. TypeOK'
  <2>1. lanes[l] \in 0..accepted BY DEF IInv, TypeOK, Minted, LaneMapIsTail
  <2> QED BY <2>1 DEF Start, LaneTail, IInv, TypeOK, Minted
<1>2. Minted' BY DEF Start, LaneTail, IInv, Minted, TypeOK
<1>3. DownIsIdle' BY DEF Start, LaneTail, IInv, DownIsIdle, TypeOK, Minted
<1>4. Shape' BY DEF Start, LaneTail, IInv, Shape, TypeOK, Minted, DownIsIdle
<1>5. RowAtStep' BY DEF Start, LaneTail, IInv, RowAtStep, TypeOK, Minted, DownIsIdle, Shape
<1>6. LaneOrder' BY DEF Start, LaneTail, IInv, LaneOrder, TypeOK, Minted, DownIsIdle, Shape, WaitChain, LaneMapIsTail
<1>7. WaitChain' BY DEF Start, LaneTail, IInv, WaitChain, TypeOK, Minted, DownIsIdle, LaneMapIsTail
<1>8. LaneMapIsTail' BY DEF Start, LaneTail, IInv, LaneMapIsTail, TypeOK, Minted, DownIsIdle, Shape, LaneOrder
<1>9. FailedHandoff' BY DEF Start, LaneTail, IInv, FailedHandoff, TypeOK, Minted, DownIsIdle, Shape, RowAtStep
<1>10. StopRecorded' BY DEF Start, LaneTail, IInv, StopRecorded, TypeOK, Minted, DownIsIdle, Shape, RowAtStep
<1> QED BY <1>1, <1>2, <1>3, <1>4, <1>5, <1>6, <1>7, <1>8, <1>9, <1>10 DEF IInv

\* The insert of Start's caller and the channel it closes when that fails (run.go:162-166).
LEMMA CreateRunIInv == ASSUME IInv, NEW r \in Runs, CreateRun(r) PROVE IInv'
<1>1. TypeOK'
  <2>1. PICK s \in {"none", "pending"} : row' = [row EXCEPT ![r] = s] BY DEF CreateRun, IInv, TypeOK
  <2> QED BY <2>1 DEF CreateRun, InsertFailed, Fault, IInv, TypeOK
<1>2. Minted'
  <2>1. PICK s \in {"none", "pending"} : row' = [row EXCEPT ![r] = s] BY DEF CreateRun, IInv, TypeOK
  <2> QED BY <2>1 DEF CreateRun, InsertFailed, Fault, IInv, Minted, TypeOK
<1>3. DownIsIdle' BY DEF CreateRun, InsertFailed, Fault, IInv, DownIsIdle, TypeOK, Minted
<1>4. Shape' BY DEF CreateRun, InsertFailed, Fault, IInv, Shape, TypeOK, Minted, DownIsIdle
<1>5. RowAtStep'
  <2>1. PICK s \in {"none", "pending"} : row' = [row EXCEPT ![r] = s] BY DEF CreateRun, IInv, TypeOK
  <2> QED BY <2>1 DEF CreateRun, InsertFailed, Fault, IInv, RowAtStep, TypeOK, Minted, DownIsIdle, Shape
<1>6. LaneOrder' BY DEF CreateRun, InsertFailed, Fault, IInv, LaneOrder, TypeOK, Minted, DownIsIdle, Shape, WaitChain, LaneMapIsTail
<1>7. WaitChain' BY DEF CreateRun, InsertFailed, Fault, IInv, WaitChain, TypeOK, Minted, DownIsIdle, LaneMapIsTail
<1>8. LaneMapIsTail' BY DEF CreateRun, InsertFailed, Fault, IInv, LaneMapIsTail, TypeOK, Minted, DownIsIdle, Shape, LaneOrder
<1>9. FailedHandoff'
  <2>1. PICK s \in {"none", "pending"} : row' = [row EXCEPT ![r] = s] BY DEF CreateRun, IInv, TypeOK
  <2> QED BY <2>1 DEF CreateRun, InsertFailed, Fault, IInv, FailedHandoff, TypeOK, Minted, DownIsIdle, Shape, RowAtStep
<1>10. StopRecorded'
  <2>1. PICK s \in {"none", "pending"} : row' = [row EXCEPT ![r] = s] BY DEF CreateRun, IInv, TypeOK
  <2> QED BY <2>1 DEF CreateRun, InsertFailed, Fault, IInv, StopRecorded, TypeOK, Minted, DownIsIdle, Shape, RowAtStep
<1> QED BY <1>1, <1>2, <1>3, <1>4, <1>5, <1>6, <1>7, <1>8, <1>9, <1>10 DEF IInv

\* The Prepare step and the handoff of its result (run.go:167-171).
LEMMA PrepareIInv == ASSUME IInv, NEW r \in Runs, Prepare(r) PROVE IInv'
<1>1. TypeOK' BY DEF Prepare, IInv, TypeOK
<1>2. Minted' BY DEF Prepare, IInv, Minted, TypeOK
<1>3. DownIsIdle' BY DEF Prepare, IInv, DownIsIdle, TypeOK, Minted
<1>4. Shape' BY DEF Prepare, IInv, Shape, TypeOK, Minted, DownIsIdle
<1>5. RowAtStep' BY DEF Prepare, IInv, RowAtStep, TypeOK, Minted, DownIsIdle, Shape
<1>6. LaneOrder' BY DEF Prepare, IInv, LaneOrder, TypeOK, Minted, DownIsIdle, Shape, WaitChain, LaneMapIsTail
<1>7. WaitChain' BY DEF Prepare, IInv, WaitChain, TypeOK, Minted, DownIsIdle, LaneMapIsTail
<1>8. LaneMapIsTail' BY DEF Prepare, IInv, LaneMapIsTail, TypeOK, Minted, DownIsIdle, Shape, LaneOrder
<1>9. FailedHandoff' BY DEF Prepare, IInv, FailedHandoff, TypeOK, Minted, DownIsIdle, Shape, RowAtStep
<1>10. StopRecorded' BY DEF Prepare, IInv, StopRecorded, TypeOK, Minted, DownIsIdle, Shape, RowAtStep
<1> QED BY <1>1, <1>2, <1>3, <1>4, <1>5, <1>6, <1>7, <1>8, <1>9, <1>10 DEF IInv

\* background's wait for the lane's previous run (run.go:229-235): the run it waited
\* for stands for all the earlier ones.
LEMMA WaitPrevIInv == ASSUME IInv, NEW r \in Runs, WaitPrev(r) PROVE IInv'
<1>1. TypeOK' BY ZenonT(60) DEF WaitPrev, Goto, IInv, TypeOK
<1>2. Minted' BY DEF WaitPrev, PrevDone, Goto, IInv, Minted, TypeOK
<1>3. DownIsIdle' BY DEF WaitPrev, PrevDone, Goto, IInv, DownIsIdle, TypeOK, Minted
<1>4. Shape' BY DEF WaitPrev, PrevDone, Goto, IInv, Shape, TypeOK, Minted, DownIsIdle
<1>5. RowAtStep' BY DEF WaitPrev, PrevDone, Goto, IInv, RowAtStep, TypeOK, Minted, DownIsIdle, Shape
<1>6. LaneOrder' BY SMTT(30) DEF WaitPrev, PrevDone, Goto, IInv, LaneOrder, TypeOK, Minted, DownIsIdle, Shape, WaitChain, LaneMapIsTail
<1>7. WaitChain'
  <2>1. \A s \in Runs : pc'[s] = "prev" => pc[s] = "prev" BY DEF WaitPrev, Goto, IInv, TypeOK
  <2>2. \A s \in Runs : Done(s) => Done(s)' BY DEF WaitPrev, Goto, IInv, TypeOK
  <2>3. UNCHANGED <<proc, lane, prev>> BY DEF WaitPrev, Goto
  <2> QED BY <2>1, <2>2, <2>3 DEF IInv, WaitChain, TypeOK
<1>8. LaneMapIsTail' BY DEF WaitPrev, PrevDone, Goto, IInv, LaneMapIsTail, TypeOK, Minted, DownIsIdle, Shape, LaneOrder
<1>9. FailedHandoff' BY DEF WaitPrev, PrevDone, Goto, IInv, FailedHandoff, TypeOK, Minted, DownIsIdle, Shape, RowAtStep
<1>10. StopRecorded' BY DEF WaitPrev, PrevDone, Goto, IInv, StopRecorded, TypeOK, Minted, DownIsIdle, Shape, RowAtStep
<1> QED BY <1>1, <1>2, <1>3, <1>4, <1>5, <1>6, <1>7, <1>8, <1>9, <1>10 DEF IInv

\* background's wait for the handoff and the context check after it (run.go:236-254).
LEMMA TakeReadyIInv == ASSUME IInv, NEW r \in Runs, TakeReady(r) PROVE IInv'
<1>1. TypeOK' BY ZenonT(60) DEF TakeReady, ReadyCancelled, Goto, IInv, TypeOK
<1>2. Minted' BY DEF TakeReady, ReadyCancelled, Goto, IInv, Minted, TypeOK
<1>3. DownIsIdle' BY DEF TakeReady, ReadyCancelled, Goto, IInv, DownIsIdle, TypeOK, Minted
<1>4. Shape' BY DEF TakeReady, ReadyCancelled, Goto, IInv, Shape, TypeOK, Minted, DownIsIdle
<1>5. RowAtStep' BY DEF TakeReady, ReadyCancelled, Goto, IInv, RowAtStep, TypeOK, Minted, DownIsIdle, Shape
<1>6. LaneOrder' BY SMTT(30) DEF TakeReady, ReadyCancelled, Goto, IInv, LaneOrder, TypeOK, Minted, DownIsIdle, Shape, WaitChain, LaneMapIsTail
<1>7. WaitChain' BY DEF TakeReady, ReadyCancelled, Goto, IInv, WaitChain, TypeOK, Minted, DownIsIdle, LaneMapIsTail
<1>8. LaneMapIsTail' BY DEF TakeReady, ReadyCancelled, Goto, IInv, LaneMapIsTail, TypeOK, Minted, DownIsIdle, Shape, LaneOrder
<1>9. FailedHandoff' BY DEF TakeReady, ReadyCancelled, Goto, IInv, FailedHandoff, TypeOK, Minted, DownIsIdle, Shape, RowAtStep
<1>10. StopRecorded' BY DEF TakeReady, ReadyCancelled, Goto, IInv, StopRecorded, TypeOK, Minted, DownIsIdle, Shape, RowAtStep
<1> QED BY <1>1, <1>2, <1>3, <1>4, <1>5, <1>6, <1>7, <1>8, <1>9, <1>10 DEF IInv

\* The deferred close(done) (run.go:222).
LEMMA ReleaseIInv == ASSUME IInv, NEW r \in Runs, Release(r) PROVE IInv'
<1>1. TypeOK' BY DEF Release, Goto, IInv, TypeOK
<1>2. Minted' BY DEF Release, Goto, IInv, Minted, TypeOK
<1>3. DownIsIdle' BY DEF Release, Goto, IInv, DownIsIdle, TypeOK, Minted
<1>4. Shape' BY DEF Release, Goto, IInv, Shape, TypeOK, Minted, DownIsIdle
<1>5. RowAtStep' BY DEF Release, Goto, IInv, RowAtStep, TypeOK, Minted, DownIsIdle, Shape
<1>6. LaneOrder' BY DEF Release, Goto, IInv, LaneOrder, TypeOK, Minted, DownIsIdle, Shape, WaitChain, LaneMapIsTail
<1>7. WaitChain' BY DEF Release, Goto, IInv, WaitChain, TypeOK, Minted, DownIsIdle, LaneMapIsTail
<1>8. LaneMapIsTail' BY DEF Release, Goto, IInv, LaneMapIsTail, TypeOK, Minted, DownIsIdle, Shape, LaneOrder
<1>9. FailedHandoff' BY DEF Release, Goto, IInv, FailedHandoff, TypeOK, Minted, DownIsIdle, Shape, RowAtStep
<1>10. StopRecorded' BY DEF Release, Goto, IInv, StopRecorded, TypeOK, Minted, DownIsIdle, Shape, RowAtStep
<1> QED BY <1>1, <1>2, <1>3, <1>4, <1>5, <1>6, <1>7, <1>8, <1>9, <1>10 DEF IInv

\* The deferred delete from the lane map (run.go:223-227).
LEMMA UnlinkIInv == ASSUME IInv, NEW r \in Runs, Unlink(r) PROVE IInv'
<1>1. TypeOK' BY DEF Unlink, LaneAfter, IInv, TypeOK, Shape
<1>2. Minted' BY DEF Unlink, LaneAfter, IInv, Minted, TypeOK
<1>3. DownIsIdle' BY DEF Unlink, LaneAfter, IInv, DownIsIdle, TypeOK, Minted
<1>4. Shape' BY DEF Unlink, LaneAfter, IInv, Shape, TypeOK, Minted, DownIsIdle
<1>5. RowAtStep' BY DEF Unlink, LaneAfter, IInv, RowAtStep, TypeOK, Minted, DownIsIdle, Shape
<1>6. LaneOrder' BY DEF Unlink, LaneAfter, IInv, LaneOrder, TypeOK, Minted, DownIsIdle, Shape, WaitChain, LaneMapIsTail
<1>7. WaitChain' BY DEF Unlink, LaneAfter, IInv, WaitChain, TypeOK, Minted, DownIsIdle, LaneMapIsTail
<1>8. LaneMapIsTail' BY SMTT(30) DEF Unlink, LaneAfter, IInv, LaneMapIsTail, TypeOK, Minted, DownIsIdle, Shape, LaneOrder
<1>9. FailedHandoff' BY DEF Unlink, LaneAfter, IInv, FailedHandoff, TypeOK, Minted, DownIsIdle, Shape, RowAtStep
<1>10. StopRecorded' BY DEF Unlink, LaneAfter, IInv, StopRecorded, TypeOK, Minted, DownIsIdle, Shape, RowAtStep
<1> QED BY <1>1, <1>2, <1>3, <1>4, <1>5, <1>6, <1>7, <1>8, <1>9, <1>10 DEF IInv

\* Child, ChildAs and Sync up to the insert (run.go:181-202).
LEMMA InlineIInv == ASSUME IInv, NEW up \in SUBSET Runs, Inline(up) PROVE IInv'
<1>1. TypeOK' BY DEF Inline, IInv, TypeOK
<1>2. Minted' BY DEF Inline, IInv, Minted, TypeOK
<1>3. DownIsIdle' BY DEF Inline, IInv, DownIsIdle, TypeOK, Minted
<1>4. Shape' BY DEF Inline, IInv, Shape, TypeOK, Minted, DownIsIdle
<1>5. RowAtStep' BY DEF Inline, IInv, RowAtStep, TypeOK, Minted, DownIsIdle, Shape
<1>6. LaneOrder' BY DEF Inline, IInv, LaneOrder, TypeOK, Minted, DownIsIdle, Shape, WaitChain, LaneMapIsTail
<1>7. WaitChain' BY DEF Inline, IInv, WaitChain, TypeOK, Minted, DownIsIdle, LaneMapIsTail
<1>8. LaneMapIsTail' BY DEF Inline, IInv, LaneMapIsTail, TypeOK, Minted, DownIsIdle, Shape, LaneOrder
<1>9. FailedHandoff' BY DEF Inline, IInv, FailedHandoff, TypeOK, Minted, DownIsIdle, Shape, RowAtStep
<1>10. StopRecorded' BY DEF Inline, IInv, StopRecorded, TypeOK, Minted, DownIsIdle, Shape, RowAtStep
<1> QED BY <1>1, <1>2, <1>3, <1>4, <1>5, <1>6, <1>7, <1>8, <1>9, <1>10 DEF IInv

\* The insert of a child or synchronous run (run.go:185-188, 203-206).
LEMMA CreateInlineIInv == ASSUME IInv, NEW r \in Runs, CreateInline(r) PROVE IInv'
<1>1. TypeOK'
  <2>1. PICK s \in {"none", "pending"} : row' = [row EXCEPT ![r] = s] BY DEF CreateInline, IInv, TypeOK
  <2> QED BY <2>1 DEF CreateInline, CallFails, CtxDone, Fault, IInv, TypeOK
<1>2. Minted'
  <2>1. PICK s \in {"none", "pending"} : row' = [row EXCEPT ![r] = s] BY DEF CreateInline, IInv, TypeOK
  <2> QED BY <2>1 DEF CreateInline, CallFails, CtxDone, Fault, IInv, Minted, TypeOK
<1>3. DownIsIdle' BY DEF CreateInline, CallFails, CtxDone, Fault, IInv, DownIsIdle, TypeOK, Minted
<1>4. Shape' BY DEF CreateInline, CallFails, CtxDone, Fault, IInv, Shape, TypeOK, Minted, DownIsIdle
<1>5. RowAtStep'
  <2>1. PICK s \in {"none", "pending"} : row' = [row EXCEPT ![r] = s] BY DEF CreateInline, IInv, TypeOK
  <2> QED BY <2>1 DEF CreateInline, CallFails, CtxDone, Fault, IInv, RowAtStep, TypeOK, Minted, DownIsIdle, Shape
<1>6. LaneOrder' BY DEF CreateInline, CallFails, CtxDone, Fault, IInv, LaneOrder, TypeOK, Minted, DownIsIdle, Shape, WaitChain, LaneMapIsTail
<1>7. WaitChain' BY DEF CreateInline, CallFails, CtxDone, Fault, IInv, WaitChain, TypeOK, Minted, DownIsIdle, LaneMapIsTail
<1>8. LaneMapIsTail' BY DEF CreateInline, CallFails, CtxDone, Fault, IInv, LaneMapIsTail, TypeOK, Minted, DownIsIdle, Shape, LaneOrder
<1>9. FailedHandoff'
  <2>1. ready[r] = "none" BY DEF CreateInline, IInv, Shape
  <2>2. \A q \in Runs \ {r} : row'[q] = row[q] /\ pc'[q] = pc[q] /\ res'[q] = res[q]
    BY DEF CreateInline, IInv, TypeOK
  <2> QED BY <2>1, <2>2 DEF CreateInline, IInv, FailedHandoff
<1>10. StopRecorded'
  <2>1. PICK s \in {"none", "pending"} : row' = [row EXCEPT ![r] = s] BY DEF CreateInline, IInv, TypeOK
  <2> QED BY <2>1 DEF CreateInline, CallFails, CtxDone, Fault, IInv, StopRecorded, TypeOK, Minted, DownIsIdle, Shape, RowAtStep
<1> QED BY <1>1, <1>2, <1>3, <1>4, <1>5, <1>6, <1>7, <1>8, <1>9, <1>10 DEF IInv

\* StartRun at the head of execute, failed or not (run.go:264-267).
LEMMA StartRunIInv == ASSUME IInv, NEW r \in Runs, StartRun(r) PROVE IInv'
<1>1. TypeOK'
  <2>1. PICK s \in {row[r], "running"} : row' = [row EXCEPT ![r] = s] BY DEF StartRun, StartRunFails, IInv, TypeOK
  <2> QED BY ZenonT(60), <2>1 DEF StartRun, StartRunFails, CallFails, Returned, CtxDone, Fault, IInv, TypeOK
<1>2. Minted'
  <2>1. PICK s \in {row[r], "running"} : row' = [row EXCEPT ![r] = s] BY DEF StartRun, StartRunFails, IInv, TypeOK
  <2> QED BY <2>1 DEF StartRun, StartRunFails, CallFails, Returned, CtxDone, Fault, IInv, Minted, TypeOK
<1>3. DownIsIdle' BY DEF StartRun, StartRunFails, CallFails, Returned, CtxDone, Fault, IInv, DownIsIdle, TypeOK, Minted
<1>4. Shape' BY DEF StartRun, StartRunFails, CallFails, Returned, CtxDone, Fault, IInv, Shape, TypeOK, Minted, DownIsIdle
<1>5. RowAtStep'
  <2>1. PICK s \in {row[r], "running"} : row' = [row EXCEPT ![r] = s] BY DEF StartRun, StartRunFails, IInv, TypeOK
  <2> QED BY <2>1 DEF StartRun, StartRunFails, CallFails, Returned, CtxDone, Fault, IInv, RowAtStep, TypeOK, Minted, DownIsIdle, Shape
<1>6. LaneOrder' BY DEF StartRun, StartRunFails, CallFails, Returned, CtxDone, Fault, IInv, LaneOrder, TypeOK, Minted, DownIsIdle, Shape, WaitChain, LaneMapIsTail
<1>7. WaitChain' BY DEF StartRun, StartRunFails, CallFails, Returned, CtxDone, Fault, IInv, WaitChain, TypeOK, Minted, DownIsIdle, LaneMapIsTail
<1>8. LaneMapIsTail' BY DEF StartRun, StartRunFails, CallFails, Returned, CtxDone, Fault, IInv, LaneMapIsTail, TypeOK, Minted, DownIsIdle, Shape, LaneOrder
<1>9. FailedHandoff'
  <2>1. PICK s \in {row[r], "running"} : row' = [row EXCEPT ![r] = s] BY DEF StartRun, StartRunFails, IInv, TypeOK
  <2> QED BY <2>1 DEF StartRun, StartRunFails, CallFails, Returned, CtxDone, Fault, IInv, FailedHandoff, TypeOK, Minted, DownIsIdle, Shape, RowAtStep
<1>10. StopRecorded'
  <2>1. PICK s \in {row[r], "running"} : row' = [row EXCEPT ![r] = s] BY DEF StartRun, StartRunFails, IInv, TypeOK
  <2> QED BY <2>1 DEF StartRun, StartRunFails, CallFails, Returned, CtxDone, Fault, IInv, StopRecorded, TypeOK, Minted, DownIsIdle, Shape, RowAtStep
<1> QED BY <1>1, <1>2, <1>3, <1>4, <1>5, <1>6, <1>7, <1>8, <1>9, <1>10 DEF IInv

\* Work that completes its run in its own transaction (run.go:80-84).
LEMMA WorkCompletesIInv == ASSUME IInv, NEW r \in Runs, WorkCompletes(r) PROVE IInv'
<1>1. TypeOK' BY DEF WorkCompletes, RealWork, Ended, volatile, IInv, TypeOK
<1>2. Minted' BY DEF WorkCompletes, RealWork, Ended, volatile, IInv, Minted, TypeOK
<1>3. DownIsIdle' BY DEF WorkCompletes, RealWork, Ended, volatile, IInv, DownIsIdle, TypeOK, Minted
<1>4. Shape' BY DEF WorkCompletes, RealWork, Ended, volatile, IInv, Shape, TypeOK, Minted, DownIsIdle
<1>5. RowAtStep' BY DEF WorkCompletes, RealWork, Ended, volatile, IInv, RowAtStep, TypeOK, Minted, DownIsIdle, Shape
<1>6. LaneOrder' BY DEF WorkCompletes, RealWork, Ended, volatile, IInv, LaneOrder, TypeOK, Minted, DownIsIdle, Shape, WaitChain, LaneMapIsTail
<1>7. WaitChain' BY DEF WorkCompletes, RealWork, Ended, volatile, IInv, WaitChain, TypeOK, Minted, DownIsIdle, LaneMapIsTail
<1>8. LaneMapIsTail' BY DEF WorkCompletes, RealWork, Ended, volatile, IInv, LaneMapIsTail, TypeOK, Minted, DownIsIdle, Shape, LaneOrder
<1>9. FailedHandoff' BY DEF WorkCompletes, RealWork, Ended, volatile, IInv, FailedHandoff, TypeOK, Minted, DownIsIdle, Shape, RowAtStep
<1>10. StopRecorded' BY DEF WorkCompletes, RealWork, Ended, volatile, IInv, StopRecorded, TypeOK, Minted, DownIsIdle, Shape, RowAtStep
<1> QED BY <1>1, <1>2, <1>3, <1>4, <1>5, <1>6, <1>7, <1>8, <1>9, <1>10 DEF IInv

\* The work returns or panics (run.go:268, 288-297).
LEMMA WorkReturnsIInv == ASSUME IInv, NEW r \in Runs, WorkReturns(r) PROVE IInv'
<1>1. TypeOK' BY DEF WorkReturns, Outcomes, RealWork, IInv, TypeOK
<1>2. Minted' BY DEF WorkReturns, Outcomes, RealWork, IInv, Minted, TypeOK
<1>3. DownIsIdle' BY DEF WorkReturns, Outcomes, RealWork, IInv, DownIsIdle, TypeOK, Minted
<1>4. Shape' BY DEF WorkReturns, Outcomes, RealWork, IInv, Shape, TypeOK, Minted, DownIsIdle
<1>5. RowAtStep' BY DEF WorkReturns, Outcomes, RealWork, IInv, RowAtStep, TypeOK, Minted, DownIsIdle, Shape
<1>6. LaneOrder' BY DEF WorkReturns, Outcomes, RealWork, IInv, LaneOrder, TypeOK, Minted, DownIsIdle, Shape, WaitChain, LaneMapIsTail
<1>7. WaitChain' BY DEF WorkReturns, Outcomes, RealWork, IInv, WaitChain, TypeOK, Minted, DownIsIdle, LaneMapIsTail
<1>8. LaneMapIsTail' BY DEF WorkReturns, Outcomes, RealWork, IInv, LaneMapIsTail, TypeOK, Minted, DownIsIdle, Shape, LaneOrder
<1>9. FailedHandoff' BY DEF WorkReturns, Outcomes, RealWork, IInv, FailedHandoff, TypeOK, Minted, DownIsIdle, Shape, RowAtStep
<1>10. StopRecorded' BY DEF WorkReturns, Outcomes, RealWork, IInv, StopRecorded, TypeOK, Minted, DownIsIdle, Shape, RowAtStep
<1> QED BY <1>1, <1>2, <1>3, <1>4, <1>5, <1>6, <1>7, <1>8, <1>9, <1>10 DEF IInv

\* execute's final state write (run.go:269-286).
LEMMA FinishIInv == ASSUME IInv, NEW r \in Runs, Finish(r) PROVE IInv'
<1>1. TypeOK' BY DEF Finish, FinalRow, Ended, Returned, CtxDone, Fault, IInv, TypeOK
<1>2. Minted' BY DEF Finish, FinalRow, Ended, Returned, CtxDone, Fault, IInv, Minted, TypeOK
<1>3. DownIsIdle' BY DEF Finish, FinalRow, Ended, Returned, CtxDone, Fault, IInv, DownIsIdle, TypeOK, Minted
<1>4. Shape' BY DEF Finish, FinalRow, Ended, Returned, CtxDone, Fault, IInv, Shape, TypeOK, Minted, DownIsIdle
<1>5. RowAtStep' BY DEF Finish, FinalRow, Ended, Returned, CtxDone, Fault, IInv, RowAtStep, TypeOK, Minted, DownIsIdle, Shape
<1>6. LaneOrder' BY DEF Finish, FinalRow, Ended, Returned, CtxDone, Fault, IInv, LaneOrder, TypeOK, Minted, DownIsIdle, Shape, WaitChain, LaneMapIsTail
<1>7. WaitChain' BY DEF Finish, FinalRow, Ended, Returned, CtxDone, Fault, IInv, WaitChain, TypeOK, Minted, DownIsIdle, LaneMapIsTail
<1>8. LaneMapIsTail' BY DEF Finish, FinalRow, Ended, Returned, CtxDone, Fault, IInv, LaneMapIsTail, TypeOK, Minted, DownIsIdle, Shape, LaneOrder
<1>9. FailedHandoff' BY DEF Finish, FinalRow, Ended, Returned, CtxDone, Fault, IInv, FailedHandoff, TypeOK, Minted, DownIsIdle, Shape, RowAtStep
<1>10. StopRecorded' BY DEF Finish, FinalRow, Ended, Returned, CtxDone, Fault, IInv, StopRecorded, TypeOK, Minted, DownIsIdle, Shape, RowAtStep
<1> QED BY <1>1, <1>2, <1>3, <1>4, <1>5, <1>6, <1>7, <1>8, <1>9, <1>10 DEF IInv

\* A failed child cancels its siblings' context.
LEMMA GroupCancelIInv == ASSUME IInv, NEW r \in Runs, GroupCancel(r) PROVE IInv'
<1>1. TypeOK' BY DEF GroupCancel, IInv, TypeOK
<1>2. Minted' BY DEF GroupCancel, IInv, Minted, TypeOK
<1>3. DownIsIdle' BY DEF GroupCancel, IInv, DownIsIdle, TypeOK, Minted
<1>4. Shape' BY DEF GroupCancel, IInv, Shape, TypeOK, Minted, DownIsIdle
<1>5. RowAtStep' BY DEF GroupCancel, IInv, RowAtStep, TypeOK, Minted, DownIsIdle, Shape
<1>6. LaneOrder' BY DEF GroupCancel, IInv, LaneOrder, TypeOK, Minted, DownIsIdle, Shape, WaitChain, LaneMapIsTail
<1>7. WaitChain' BY DEF GroupCancel, IInv, WaitChain, TypeOK, Minted, DownIsIdle, LaneMapIsTail
<1>8. LaneMapIsTail' BY DEF GroupCancel, IInv, LaneMapIsTail, TypeOK, Minted, DownIsIdle, Shape, LaneOrder
<1>9. FailedHandoff' BY DEF GroupCancel, IInv, FailedHandoff, TypeOK, Minted, DownIsIdle, Shape, RowAtStep
<1>10. StopRecorded' BY DEF GroupCancel, IInv, StopRecorded, TypeOK, Minted, DownIsIdle, Shape, RowAtStep
<1> QED BY <1>1, <1>2, <1>3, <1>4, <1>5, <1>6, <1>7, <1>8, <1>9, <1>10 DEF IInv

\* The client of a synchronous run goes away.
LEMMA HangUpIInv == ASSUME IInv, NEW r \in Runs, HangUp(r) PROVE IInv'
<1>1. TypeOK' BY DEF HangUp, IInv, TypeOK
<1>2. Minted' BY DEF HangUp, IInv, Minted, TypeOK
<1>3. DownIsIdle' BY DEF HangUp, IInv, DownIsIdle, TypeOK, Minted
<1>4. Shape' BY DEF HangUp, IInv, Shape, TypeOK, Minted, DownIsIdle
<1>5. RowAtStep' BY DEF HangUp, IInv, RowAtStep, TypeOK, Minted, DownIsIdle, Shape
<1>6. LaneOrder' BY DEF HangUp, IInv, LaneOrder, TypeOK, Minted, DownIsIdle, Shape, WaitChain, LaneMapIsTail
<1>7. WaitChain' BY DEF HangUp, IInv, WaitChain, TypeOK, Minted, DownIsIdle, LaneMapIsTail
<1>8. LaneMapIsTail' BY DEF HangUp, IInv, LaneMapIsTail, TypeOK, Minted, DownIsIdle, Shape, LaneOrder
<1>9. FailedHandoff' BY DEF HangUp, IInv, FailedHandoff, TypeOK, Minted, DownIsIdle, Shape, RowAtStep
<1>10. StopRecorded' BY DEF HangUp, IInv, StopRecorded, TypeOK, Minted, DownIsIdle, Shape, RowAtStep
<1> QED BY <1>1, <1>2, <1>3, <1>4, <1>5, <1>6, <1>7, <1>8, <1>9, <1>10 DEF IInv

\* Close cancels the runner's context (run.go:212-217).
LEMMA CloseIInv == ASSUME IInv, Close PROVE IInv'
<1>1. TypeOK' BY DEF Close, volatile, IInv, TypeOK
<1>2. Minted' BY DEF Close, volatile, IInv, Minted, TypeOK
<1>3. DownIsIdle' BY DEF Close, volatile, IInv, DownIsIdle, TypeOK, Minted
<1>4. Shape' BY DEF Close, volatile, IInv, Shape, TypeOK, Minted, DownIsIdle
<1>5. RowAtStep' BY DEF Close, volatile, IInv, RowAtStep, TypeOK, Minted, DownIsIdle, Shape
<1>6. LaneOrder' BY DEF Close, volatile, IInv, LaneOrder, TypeOK, Minted, DownIsIdle, Shape, WaitChain, LaneMapIsTail
<1>7. WaitChain' BY DEF Close, volatile, IInv, WaitChain, TypeOK, Minted, DownIsIdle, LaneMapIsTail
<1>8. LaneMapIsTail' BY DEF Close, volatile, IInv, LaneMapIsTail, TypeOK, Minted, DownIsIdle, Shape, LaneOrder
<1>9. FailedHandoff' BY DEF Close, volatile, IInv, FailedHandoff, TypeOK, Minted, DownIsIdle, Shape, RowAtStep
<1>10. StopRecorded' BY DEF Close, volatile, IInv, StopRecorded, TypeOK, Minted, DownIsIdle, Shape, RowAtStep
<1> QED BY <1>1, <1>2, <1>3, <1>4, <1>5, <1>6, <1>7, <1>8, <1>9, <1>10 DEF IInv

\* The process ends, by Exit or Crash: only the table is left.
LEMMA ProcessEndsIInv == ASSUME IInv, proc # "down", ProcessEnds PROVE IInv'
<1>1. TypeOK' BY DEF ProcessEnds, IInv, TypeOK
<1>2. Minted' BY DEF ProcessEnds, IInv, Minted, TypeOK
<1>3. DownIsIdle' BY DEF ProcessEnds, IInv, DownIsIdle, TypeOK, Minted
<1>4. Shape' BY DEF ProcessEnds, IInv, Shape, TypeOK, Minted, DownIsIdle
<1>5. RowAtStep' BY DEF ProcessEnds, IInv, RowAtStep, TypeOK, Minted, DownIsIdle, Shape
<1>6. LaneOrder' BY DEF ProcessEnds, IInv, LaneOrder, TypeOK, Minted, DownIsIdle, Shape, WaitChain, LaneMapIsTail
<1>7. WaitChain' BY DEF ProcessEnds, IInv, WaitChain, TypeOK, Minted, DownIsIdle, LaneMapIsTail
<1>8. LaneMapIsTail' BY DEF ProcessEnds, IInv, LaneMapIsTail, TypeOK, Minted, DownIsIdle, Shape, LaneOrder
<1>9. FailedHandoff' BY DEF ProcessEnds, IInv, FailedHandoff, TypeOK, Minted, DownIsIdle, Shape, RowAtStep
<1>10. StopRecorded' BY DEF ProcessEnds, IInv, StopRecorded, TypeOK, Minted, DownIsIdle, Shape, RowAtStep
<1> QED BY <1>1, <1>2, <1>3, <1>4, <1>5, <1>6, <1>7, <1>8, <1>9, <1>10 DEF IInv

\* Boot's Sweep closes every row an earlier process left open (run.go:302-314).
LEMMA BootIInv == ASSUME IInv, Boot PROVE IInv'
<1>1. TypeOK' BY DEF Boot, Sweep, volatile, IInv, TypeOK
<1>2. Minted' BY DEF Boot, Sweep, volatile, IInv, Minted, TypeOK
<1>3. DownIsIdle' BY DEF Boot, Sweep, volatile, IInv, DownIsIdle, TypeOK, Minted
<1>4. Shape' BY DEF Boot, Sweep, volatile, IInv, Shape, TypeOK, Minted, DownIsIdle
<1>5. RowAtStep' BY DEF Boot, Sweep, volatile, IInv, RowAtStep, TypeOK, Minted, DownIsIdle, Shape
<1>6. LaneOrder' BY DEF Boot, Sweep, volatile, IInv, LaneOrder, TypeOK, Minted, DownIsIdle, Shape, WaitChain, LaneMapIsTail
<1>7. WaitChain' BY DEF Boot, Sweep, volatile, IInv, WaitChain, TypeOK, Minted, DownIsIdle, LaneMapIsTail
<1>8. LaneMapIsTail' BY DEF Boot, Sweep, volatile, IInv, LaneMapIsTail, TypeOK, Minted, DownIsIdle, Shape, LaneOrder
<1>9. FailedHandoff' BY DEF Boot, Sweep, volatile, IInv, FailedHandoff, TypeOK, Minted, DownIsIdle, Shape, RowAtStep
<1>10. StopRecorded' BY DEF Boot, Sweep, volatile, IInv, StopRecorded, TypeOK, Minted, DownIsIdle, Shape, RowAtStep
<1> QED BY <1>1, <1>2, <1>3, <1>4, <1>5, <1>6, <1>7, <1>8, <1>9, <1>10 DEF IInv

\* A step that changes no variable keeps the invariant.
LEMMA StutterIInv == ASSUME IInv, UNCHANGED vars PROVE IInv'
  BY DEF vars, volatile, IInv, TypeOK, Minted, DownIsIdle, Shape, RowAtStep, LaneOrder,
         WaitChain, LaneMapIsTail, FailedHandoff, StopRecorded

\* Every step of the runner keeps the invariant, one case per action.
LEMMA NextIInv == ASSUME IInv, [Next]_vars PROVE IInv'
<1>1. ASSUME NEW l \in Lanes, Start(l) PROVE IInv' BY <1>1, StartIInv
<1>2. CASE Sync BY <1>2, InlineIInv DEF Sync
<1>3. ASSUME NEW r \in Runs, Caller(r) PROVE IInv' BY <1>3, CreateRunIInv, PrepareIInv DEF Caller
<1>4. ASSUME NEW r \in Runs, Background(r) PROVE IInv'
  BY <1>4, WaitPrevIInv, TakeReadyIInv, ReleaseIInv, UnlinkIInv DEF Background
<1>5. ASSUME NEW r \in Runs, Execute(r) PROVE IInv'
  BY <1>5, CreateInlineIInv, StartRunIInv, WorkReturnsIInv, FinishIInv DEF Execute
<1>6. ASSUME NEW r \in Runs, Child(r) PROVE IInv'
  <2>1. anc[r] \in SUBSET Runs BY DEF IInv, TypeOK
  <2> QED BY <1>6, <2>1, InlineIInv DEF Child
<1>7. ASSUME NEW r \in Runs, WorkCompletes(r) PROVE IInv' BY <1>7, WorkCompletesIInv
<1>8. ASSUME NEW r \in Runs, GroupCancel(r) \/ HangUp(r) PROVE IInv'
  BY <1>8, GroupCancelIInv, HangUpIInv
<1>9. CASE Close BY <1>9, CloseIInv
<1>10. CASE Exit \/ Crash BY <1>10, ProcessEndsIInv DEF Exit, Crash
<1>11. CASE Boot BY <1>11, BootIInv
<1>12. CASE UNCHANGED vars BY <1>12, StutterIInv
<1> QED BY <1>1, <1>2, <1>3, <1>4, <1>5, <1>6, <1>7, <1>8, <1>9, <1>10, <1>11, <1>12 DEF Next

\* The strengthening holds in every reachable state.
THEOREM Inductive == Spec => []IInv
  BY InitIInv, NextIInv, PTL DEF Spec

\* The variables keep their types, and the channel a run waits for is an earlier
\* run's.
THEOREM TypeCorrect == Spec => []TypeOK
<1>1. IInv => TypeOK BY DEF IInv
<1> QED BY <1>1, Inductive, PTL

\* However many runs a lane holds and whichever of them were dropped, one run of
\* the lane executes at a time, in the order Start linked them.
THEOREM LaneSafety == Spec => []LaneExclusion
<1>1. IInv => LaneExclusion BY DEF IInv, LaneOrder, LaneExclusion
<1> QED BY <1>1, Inductive, PTL

\* The lane map always holds the lane's last run, or nothing when all are done.
THEOREM LaneMapSafety == Spec => []LaneMapIsTail
<1>1. IInv => LaneMapIsTail BY DEF IInv
<1> QED BY <1>1, Inductive, PTL

\* A failed Prepare is never recorded as a completed run.
THEOREM PrepareSafety == Spec => []FailedPrepareNeverCompletes
<1>1. IInv => FailedPrepareNeverCompletes BY DEF IInv, FailedHandoff, FailedPrepareNeverCompletes
<1> QED BY <1>1, Inductive, PTL

\* A run that stopped while the runner is open is recorded, unless its store
\* calls failed or its own context was cancelled.
THEOREM Recorded == Spec => []RunsRecorded
<1>1. IInv => RunsRecorded BY DEF IInv, StopRecorded, RunsRecorded
<1> QED BY <1>1, Inductive, PTL

-----------------------------------------------------------------------------
(* Steps *)

\* Every step moves rows forward only (queries/runs.sql:12-33).
LEMMA RowsStep == ASSUME IInv, Next PROVE RowStep
<1> USE DEF RowStep, Terminal
<1>1. ASSUME NEW r \in Runs, CreateRun(r) PROVE RowStep
  BY ZenonT(60), <1>1 DEF CreateRun, IInv, TypeOK, RowAtStep
<1>2. ASSUME NEW r \in Runs, CreateInline(r) PROVE RowStep
  BY ZenonT(60), <1>2 DEF CreateInline, IInv, TypeOK, RowAtStep
<1>3. ASSUME NEW r \in Runs, StartRun(r) PROVE RowStep
  BY ZenonT(60), <1>3 DEF StartRun, StartRunFails, IInv, TypeOK, RowAtStep
<1>4. ASSUME NEW r \in Runs, WorkCompletes(r) PROVE RowStep
  BY <1>4 DEF WorkCompletes, Ended, IInv, TypeOK
<1>5. ASSUME NEW r \in Runs, Finish(r) PROVE RowStep
  BY <1>5 DEF Finish, FinalRow, Ended, IInv, TypeOK
<1>6. CASE Boot BY <1>6 DEF Boot, Sweep, IInv, TypeOK
<1>7. CASE UNCHANGED row BY <1>7
<1>8. (\E l \in Lanes : Start(l)) \/ Sync \/ Close \/ Exit \/ Crash => UNCHANGED row
  BY DEF Start, Sync, Inline, Close, Exit, Crash, ProcessEnds
<1>9. ASSUME NEW r \in Runs,
             Prepare(r) \/ Background(r) \/ WorkReturns(r) \/ Child(r) \/ GroupCancel(r) \/ HangUp(r)
      PROVE UNCHANGED row
  BY <1>9 DEF Prepare, Background, WaitPrev, TakeReady, Release, Unlink, Goto, WorkReturns, Child,
              Inline, GroupCancel, HangUp
<1> QED BY <1>1, <1>2, <1>3, <1>4, <1>5, <1>6, <1>7, <1>8, <1>9 DEF Next, Caller, Execute

\* Rows only move forward, and only a boot interrupts them.
THEOREM RowsMoveForward == Spec => RowLifecycle
<1>1. IInv /\ [Next]_vars => [RowStep]_vars BY RowsStep
<1> QED BY <1>1, Inductive, PTL DEF Spec, RowLifecycle

-----------------------------------------------------------------------------
(* Refinement *)

\* A booted runner is an initial state of RunLanes.
LEMMA InitPromise == Init => Promise!Init
  BY DEF Init, Promise!Init, Promise!Runs, Alive

\* Every step of the runner is a step of RunLanes or leaves its variables alone.
LEMMA StepPromise == ASSUME IInv, Next PROVE [Promise!Next]_(Promise!vars)
<1> USE DEF Promise!Runs, Promise!Open, Promise!EarlierInLane, Alive
<1> DEFINE Quiet == UNCHANGED <<accepted, row, lane, Alive>>
<1>0. Quiet => UNCHANGED Promise!vars BY DEF Promise!vars
<1>1. ASSUME NEW l \in Lanes, Start(l) PROVE Promise!Accept
  <2>1. Alive' = Alive \cup {accepted'} BY <1>1 DEF Start, IInv, TypeOK
  <2>2. lane' = [lane EXCEPT ![accepted'] = l] BY <1>1 DEF Start
  <2> HIDE DEF Alive
  <2> QED BY <1>1, <2>1, <2>2 DEF Start, IInv, TypeOK, Promise!Accept
<1>2. ASSUME NEW up, Inline(up) PROVE Promise!Accept
  BY <1>2 DEF Inline, IInv, TypeOK, Minted, Promise!Accept
<1>3. ASSUME NEW r \in Runs, CreateRun(r) PROVE Promise!Record(r) \/ Quiet
  <2>1. PICK s \in {"none", "pending"} : row' = [row EXCEPT ![r] = s] BY <1>3 DEF CreateRun
  <2>2. Alive' = Alive /\ row[r] = "none" BY <1>3 DEF CreateRun, IInv, RowAtStep
  <2>3. CASE s = "none" BY <1>3, <2>1, <2>2, <2>3 DEF CreateRun, IInv, TypeOK
  <2>4. CASE s = "pending"
    BY <1>3, <2>1, <2>2, <2>4 DEF CreateRun, IInv, TypeOK, Minted, Promise!Record, Promise!Act
  <2> QED BY <2>3, <2>4
<1>4. ASSUME NEW r \in Runs, CreateInline(r) PROVE Promise!Record(r) \/ Promise!Retire(r)
  <2>1. PICK s \in {"none", "pending"} : row' = [row EXCEPT ![r] = s] BY <1>4 DEF CreateInline
  <2>2. Alive' \in {Alive, Alive \ {r}} /\ row[r] = "none" /\ r <= accepted
    BY <1>4 DEF CreateInline, IInv, TypeOK, Minted, RowAtStep
  <2> HIDE DEF Alive
  <2>3. CASE s = "none" BY <1>4, <2>1, <2>2, <2>3 DEF CreateInline, IInv, TypeOK, Promise!Retire, Promise!Act
  <2>4. CASE s = "pending" BY <1>4, <2>1, <2>2, <2>4 DEF CreateInline, Promise!Record, Promise!Act
  <2> QED BY <2>3, <2>4
<1>5. ASSUME NEW r \in Runs, StartRun(r) PROVE Promise!Begin(r) \/ Promise!Retire(r)
  <2>1. PICK s \in {"pending", "running"} : row' = [row EXCEPT ![r] = s]
    BY <1>5 DEF StartRun, StartRunFails, IInv, RowAtStep
  <2>2. /\ Alive' \in {Alive, Alive \ {r}}
        /\ r \in Alive
        /\ row[r] = "pending"
    BY <1>5 DEF StartRun, StartRunFails, Returned, IInv, TypeOK, RowAtStep
  <2>3. lane[r] \in Lanes => {q \in Runs : q < r /\ lane[q] = lane[r]} \cap Alive = {}
    BY <1>5 DEF StartRun, IInv, LaneOrder
  <2> HIDE DEF Alive
  <2>4. CASE s = "running" BY <1>5, <2>1, <2>2, <2>3, <2>4 DEF StartRun, Promise!Begin, Promise!Act
  <2>5. CASE s = "pending"
    BY <1>5, <2>1, <2>2, <2>5 DEF StartRun, IInv, TypeOK, Promise!Retire, Promise!Act
  <2> QED BY <2>4, <2>5
<1>6. ASSUME NEW r \in Runs, WorkCompletes(r) PROVE Promise!End(r)
  BY <1>6 DEF WorkCompletes, volatile, Ended, IInv, TypeOK, Promise!End, Promise!Act
<1>7. ASSUME NEW r \in Runs, Finish(r) PROVE Promise!End(r) \/ Promise!Retire(r)
  BY <1>7 DEF Finish, FinalRow, Ended, Returned, IInv, TypeOK, RowAtStep, Promise!End, Promise!Act,
              Promise!Retire
<1>8. ASSUME NEW r \in Runs, Release(r) PROVE Promise!Retire(r)
  BY <1>8 DEF Release, Goto, IInv, TypeOK, Promise!Retire, Promise!Act
<1>9. ASSUME NEW r \in Runs,
             Prepare(r) \/ WaitPrev(r) \/ TakeReady(r) \/ Unlink(r) \/ WorkReturns(r)
               \/ GroupCancel(r) \/ HangUp(r)
      PROVE Quiet
  BY <1>9 DEF Prepare, WaitPrev, TakeReady, Unlink, Goto, WorkReturns, GroupCancel, HangUp, IInv, TypeOK
<1>10. CASE Close BY <1>10, <1>0 DEF Close, volatile
<1>11. CASE Exit \/ Crash
  <2>1. Promise!Stop BY <1>11 DEF Exit, Crash, ProcessEnds, IInv, TypeOK, Promise!Stop
  <2> QED BY <2>1 DEF Promise!Next
<1>12. CASE Boot
  <2>1. Promise!Restart BY <1>12 DEF Boot, Sweep, volatile, IInv, TypeOK, DownIsIdle, Promise!Restart
  <2> QED BY <2>1 DEF Promise!Next
<1> HIDE DEF Quiet
<1> QED BY <1>0, <1>1, <1>2, <1>3, <1>4, <1>5, <1>6, <1>7, <1>8, <1>9, <1>10, <1>11, <1>12
        DEF Next, Sync, Child, Caller, Background, Execute, Promise!Next

\* The runner implements RunLanes: a lane's runs begin in acceptance order, one
\* at a time, and only a restart interrupts rows.
THEOREM Refinement == Spec => KeepsPromise
<1>1. IInv /\ [Next]_vars => [Promise!Next]_(Promise!vars)
  <2>1. UNCHANGED vars => UNCHANGED Promise!vars BY DEF vars, volatile, Promise!vars, Alive
  <2> QED BY <2>1, StepPromise
<1> QED BY <1>1, InitPromise, Inductive, PTL DEF Spec, KeepsPromise, Promise!Spec
=============================================================================
