-------------------------- MODULE ReconcilerProofs --------------------------
(***************************************************************************)
(* Proofs about crash recovery, for any number of runs, incarnations and   *)
(* faults and any retry limits.                                            *)
(***************************************************************************)
EXTENDS Reconciler, TLAPS

USE DEF Epochs, RecordStatus, CallStatus, DispatchPhases, DaemonPhases

\* Initially the invariant holds: nothing was dispatched yet.
LEMMA InitRecovery == Init => RecoveryInv
  <1> SUFFICES ASSUME Init PROVE RecoveryInv
    OBVIOUS
  <1> USE EpochType, LimitTypes, NoneNoRun DEF Init, Fresh, NoRun, NoClaim, NoCall
  <1>1. TypeOK
    BY DEF TypeOK, BoardOK, ClaimOK, RunOK, IdemOK, DispOK, DaemonOK, FaultsOK, ClaimRow,
       RunRow, CallRow, DispRow, DaemonRow, Lifecycle!Statuses
  <1>2. LiveHere /\ DownCanRestart
    BY DEF LiveHere, Live, DownCanRestart
  <1>3. OutcomeKnown /\ ReceiptsGenuine
    BY DEF OutcomeKnown, ReceiptsGenuine, BeforeCall, AfterOk
  <1>4. BootSettles /\ CompletedMeansDone
    BY DEF BootSettles, Open, InFlight, CompletedMeansDone
  <1> QED
    BY <1>1, <1>2, <1>3, <1>4 DEF RecoveryInv

\* The statuses that are written to the board.
LEMMA WrittenStatuses ==
    {"assigned", "running", "completed", "failed", "pending"} \subseteq Lifecycle!Statuses
  BY DEF Lifecycle!Statuses

\* A board write leaves a status in the status column.
LEMMA UpdateType ==
    ASSUME BoardOK, NEW new \in Lifecycle!Statuses, SafeUpdate(new)
    PROVE  task' \in Lifecycle!Statuses
  BY DEF BoardOK, SafeUpdate

\* So does a requeue, which also clears the assignee.
LEMMA RequeueType ==
    ASSUME BoardOK, RequeueTask
    PROVE  task' \in Lifecycle!Statuses /\ owner' \in 0..MaxEpoch
  BY WrittenStatuses, EpochType DEF BoardOK, RequeueTask

\* The number of faults stays within its bound.
LEMMA FaultType ==
    ASSUME FaultsOK, NoFault \/ \E f \in FaultKinds : Fault(f)
    PROVE  FaultsOK'
  BY LimitTypes DEF FaultsOK, NoFault, Fault

\* An upsert of runtime_lifecycle.py keeps its table well formed.
LEMMA ClaimType ==
    ASSUME ClaimOK, DispOK, FaultsOK, NEW r \in Runs, NEW s \in RecordStatus,
           RecordClaim(r, s)
    PROVE  ClaimOK' /\ FaultsOK'
  <1>1. disp[r].count \in Nat
    BY DEF DispOK, DispRow
  <1>2. FaultsOK'
    BY FaultType DEF RecordClaim, FaultKinds
  <1>3. [status |-> s, started |-> s # "claimed", recovered |-> FALSE,
         lapsed |-> FALSE, retries |-> disp[r].count] \in ClaimRow
    BY <1>1 DEF ClaimRow
  <1> QED
    BY <1>2, <1>3 DEF ClaimOK, RecordClaim

\* Likewise the table of the runs.
LEMMA RunType ==
    ASSUME RunOK, FaultsOK, NEW r \in Runs, NEW s \in RecordStatus, RecordRun(r, s)
    PROVE  RunOK' /\ FaultsOK'
  <1>1. FaultsOK'
    BY FaultType DEF RecordRun, FaultKinds
  <1> QED
    BY <1>1 DEF RunOK, RecordRun, RunRow

\* A coroutine moves on.
LEMMA GoType ==
    ASSUME DispOK, NEW r \in Runs, NEW pc \in DispatchPhases, Go(r, pc)
    PROVE  DispOK'
  BY DEF DispOK, Go, DispRow

\* The dispatch of a fresh run, by an agent of this incarnation.
LEMMA DispatchType ==
    ASSUME BoardOK, DispOK, DaemonOK, NEW r \in Runs, Dispatch(r)
    PROVE  BoardOK' /\ DispOK'
  <1>0. daemon.epoch \in Epochs
    BY DEF DaemonOK, DaemonRow
  <1>1. daemon.epoch \in 0..MaxEpoch
    BY <1>0, EpochType
  <1>2. [Fresh EXCEPT !.pc = "claim", !.agent = daemon.epoch, !.count = retries] \in DispRow
    BY <1>1 DEF Fresh, DispRow, BoardOK
  <1> QED
    BY <1>1, <1>2, WrittenStatuses DEF Dispatch, DispOK, BoardOK

\* The end of a call, or a replayed one.
LEMMA EndsType ==
    ASSUME DispOK, NEW r \in Runs, NEW o \in CallStatus, NEW q \in Runs \cup {None},
           Ends(r, o, q)
    PROVE  DispOK'
  <1>1. [disp[r] EXCEPT !.pc = "persist", !.out = o, !.of = q] \in DispRow
    BY DEF DispOK, DispRow
  <1> QED
    BY <1>1 DEF Ends, DispOK

\* The durable call claims or replays the record of its agent.
LEMMA InvokeType ==
    ASSUME IdemOK, DispOK, DaemonOK, LiveHere, NEW r \in Runs, Invoke(r)
    PROVE  IdemOK' /\ DispOK'
  <1>1. disp[r].agent \in Epochs
    BY DEF Invoke, At, LiveHere, Live, DaemonOK, DaemonRow
  <1>2. Record(r) \in CallRow
    BY <1>1 DEF Record, IdemOK
  <1>3. [run |-> r, status |-> "started"] \in CallRow
    BY DEF CallRow
  <1>4. IdemOK'
    BY <1>1, <1>3 DEF Invoke, IdemOK
  <1>5. disp[r] \in DispRow /\ Record(r).run \in Runs \cup {None}
    BY <1>2 DEF DispOK, CallRow
  <1>6. CASE Ends(r, "ok", Record(r).run)
    BY <1>4, <1>5, <1>6, EndsType
  <1>7. CASE Go(r, "call")
    BY <1>4, <1>7, GoType
  <1>8. CASE Go(r, "fail")
    BY <1>4, <1>8, GoType
  <1> QED
    BY <1>6, <1>7, <1>8 DEF Invoke

\* The end of a call fixes its outcome, in the coroutine and in the record.
LEMMA CallType ==
    ASSUME IdemOK, DispOK, FaultsOK, NEW r \in Runs, CallEnds(r)
    PROVE  IdemOK' /\ DispOK' /\ FaultsOK'
  <1> PICK o \in {"ok", "failed"} :
         /\ Ends(r, o, r)
         /\ \/ NoFault /\ idem' = [idem EXCEPT ![disp[r].agent].status = o]
            \/ Fault("complete") /\ UNCHANGED idem
    BY DEF CallEnds
  <1>1. DispOK'
    BY EndsType
  <1>2. IdemOK'
    BY DEF IdemOK, CallRow
  <1>3. FaultsOK'
    BY FaultType DEF FaultKinds
  <1> QED
    BY <1>1, <1>2, <1>3

\* Storing a receipt leaves the status and the quarantine of every run alone.
LEMMA ReceiptOnly ==
    ASSUME RunOK, NEW r \in Runs, StoreReceipt(r) \/ UNCHANGED run
    PROVE  \A q \in Runs : /\ run'[q].status = run[q].status
                           /\ run'[q].quarantined = run[q].quarantined
  BY DEF StoreReceipt, RunOK, RunRow

\* The receipt goes to the row of the run it names.
LEMMA PersistType ==
    ASSUME RunOK, DispOK, FaultsOK, NEW r \in Runs, Persist(r)
    PROVE  RunOK' /\ DispOK' /\ FaultsOK'
  <1>1. disp[r].out \in CallStatus
    BY DEF DispOK, DispRow
  <1>2. RunOK'
    <2>1. ASSUME StoreReceipt(r) PROVE RunOK'
      BY <1>1, <2>1 DEF StoreReceipt, RunOK, RunRow
    <2>2. ASSUME UNCHANGED run PROVE RunOK'
      BY <2>2 DEF RunOK
    <2> QED
      BY <2>1, <2>2 DEF Persist
  <1>3. FaultsOK'
    BY FaultType DEF Persist, FaultKinds
  <1>4. DispOK'
    BY GoType DEF Persist
  <1> QED
    BY <1>2, <1>3, <1>4

\* The failure handling raises the retry count of the board.
LEMMA FailType ==
    ASSUME BoardOK, DispOK, NEW r \in Runs, FailTask(r) \/ RetryTask(r)
    PROVE  BoardOK' /\ DispOK'
  <1>0. disp[r].count \in Nat
    BY DEF DispOK, DispRow
  <1>1. disp[r].count + 1 \in Nat
    BY <1>0
  <1>2. CASE FailTask(r)
    <2>1. task' \in Lifecycle!Statuses
      BY <1>2, UpdateType, WrittenStatuses DEF FailTask
    <2>2. retries' \in Nat /\ owner' = owner
      BY <1>1, <1>2 DEF FailTask, BoardOK
    <2>3. DispOK'
      BY <1>2, GoType DEF FailTask
    <2> QED
      BY <2>1, <2>2, <2>3 DEF BoardOK
  <1>3. CASE RetryTask(r)
    <2>1. task' \in Lifecycle!Statuses /\ owner' \in 0..MaxEpoch
      BY <1>3, RequeueType DEF RetryTask
    <2>2. retries' \in Nat
      BY <1>1, <1>3 DEF RetryTask, BoardOK
    <2>3. DispOK'
      BY <1>3, GoType DEF RetryTask
    <2> QED
      BY <2>1, <2>2, <2>3 DEF BoardOK
  <1> QED
    BY <1>2, <1>3

\* Every step of a dispatch keeps every variable in its type.
LEMMA DispatchTypes ==
    ASSUME TypeOK, LiveHere, NEW r \in Runs, Dispatch(r) \/ DispatchStep(r)
    PROVE  TypeOK'
  <1>0. BoardOK /\ ClaimOK /\ RunOK /\ IdemOK /\ DispOK /\ DaemonOK /\ FaultsOK
    BY DEF TypeOK
  <1> SUFFICES BoardOK' /\ ClaimOK' /\ RunOK' /\ IdemOK' /\ DispOK' /\ DaemonOK' /\ FaultsOK'
    BY DEF TypeOK
  <1> HIDE DEF DispatchPhases
  <1>p. {"claim", "run", "start", "ack", "exec", "invoke", "call", "persist", "complete",
         "claim done", "run done", "fail", "retry", "claim failed", "run failed", "done"}
            \subseteq DispatchPhases
    BY DEF DispatchPhases
  <1> USE <1>0, <1>p, UpdateType, RequeueType, WrittenStatuses, ClaimType, RunType, GoType
  <1>1. CASE Dispatch(r)
    BY <1>1, DispatchType DEF Dispatch, tables, ClaimOK, RunOK, IdemOK, DaemonOK, FaultsOK
  <1>2. CASE ClaimRecorded(r)
    BY <1>2 DEF ClaimRecorded, board, BoardOK, RunOK, IdemOK, DaemonOK
  <1>3. CASE RunRecorded(r)
    BY <1>3 DEF RunRecorded, board, BoardOK, ClaimOK, IdemOK, DaemonOK
  <1>4. CASE StartTask(r)
    BY <1>4 DEF StartTask, tables, BoardOK, ClaimOK, RunOK, IdemOK, DaemonOK, FaultsOK
  <1>5. CASE ClaimAcked(r)
    BY <1>5 DEF ClaimAcked, board, BoardOK, RunOK, IdemOK, DaemonOK
  <1>6. CASE RunStarted(r)
    BY <1>6 DEF RunStarted, board, BoardOK, ClaimOK, IdemOK, DaemonOK
  <1>7. CASE Invoke(r)
    BY <1>7, InvokeType DEF Invoke, board, BoardOK, ClaimOK, RunOK, DaemonOK, FaultsOK
  <1>8. CASE CallEnds(r)
    BY <1>8, CallType DEF CallEnds, board, BoardOK, ClaimOK, RunOK, DaemonOK
  <1>9. CASE Persist(r)
    BY <1>9, PersistType DEF Persist, board, BoardOK, ClaimOK, IdemOK, DaemonOK
  <1>10. CASE CompleteTask(r)
    BY <1>10 DEF CompleteTask, tables, BoardOK, ClaimOK, RunOK, IdemOK, DaemonOK, FaultsOK
  <1>11. CASE ClaimCompleted(r)
    BY <1>11 DEF ClaimCompleted, board, BoardOK, RunOK, IdemOK, DaemonOK
  <1>12. CASE RunCompleted(r)
    BY <1>12 DEF RunCompleted, board, BoardOK, ClaimOK, IdemOK, DaemonOK
  <1>13. CASE FailTask(r)
    BY <1>13, FailType DEF FailTask, tables, ClaimOK, RunOK, IdemOK, DaemonOK, FaultsOK
  <1>14. CASE RetryTask(r)
    BY <1>14, FailType DEF RetryTask, tables, ClaimOK, RunOK, IdemOK, DaemonOK, FaultsOK
  <1>15. CASE ClaimFailed(r)
    BY <1>15 DEF ClaimFailed, board, BoardOK, RunOK, IdemOK, DaemonOK
  <1>16. CASE RunFailed(r)
    BY <1>16 DEF RunFailed, board, BoardOK, ClaimOK, IdemOK, DaemonOK
  <1> QED
    BY <1>1, <1>2, <1>3, <1>4, <1>5, <1>6, <1>7, <1>8, <1>9, <1>10, <1>11, <1>12,
       <1>13, <1>14, <1>15, <1>16 DEF DispatchStep

\* Retry counts are numbers.
LEMMA NextNat == \A n \in Nat : n + 1 \in Nat
  OBVIOUS

\* What a pass writes: well-formed rows, and verdicts to settle on the board.
LEMMA ScanType ==
    ASSUME ClaimOK, RunOK, DaemonOK, NEW staleOnly \in BOOLEAN, NEW next \in DaemonPhases,
           Scan(staleOnly, next)
    PROVE  ClaimOK' /\ RunOK' /\ DaemonOK'
  <1>1. \A r \in Runs : Verdict(r, staleOnly) \in {"skip", "receipt", "requeue", "quarantine"}
    BY DEF Verdict
  <1>2. ASSUME NEW r \in Runs, NEW v \in {"skip", "receipt", "requeue", "quarantine"}
        PROVE  SettledRun(r, v) \in RunRow
    BY DEF SettledRun, Outcome, RunOK, RunRow
  <1>3. ASSUME NEW r \in Runs, NEW v \in {"skip", "receipt", "requeue", "quarantine"}
        PROVE  SettledClaim(r, v) \in ClaimRow
    <2>1. claim[r] \in ClaimRow
      BY DEF ClaimOK
    <2>2. claim[r].retries + 1 \in Nat
      <3>1. claim[r].retries \in Nat
        BY <2>1 DEF ClaimRow
      <3> QED
        BY <3>1, NextNat
    <2>3. Recovered(claim[r]) \in ClaimRow
      BY <2>1, <2>2 DEF Recovered, ClaimRow
    <2>4. [claim[r] EXCEPT !.status = Outcome(r), !.recovered = TRUE] \in ClaimRow
      BY <2>1 DEF Outcome, ClaimRow
    <2> QED
      BY <2>1, <2>3, <2>4 DEF SettledClaim
  <1>4. ClaimOK' /\ RunOK'
    BY <1>1, <1>2, <1>3 DEF Scan, ClaimOK, RunOK
  <1>5. {<<r, Verdict(r, staleOnly)>> : r \in Runs} \ {<<r, "skip">> : r \in Runs}
            \in SUBSET (Runs \X {"requeue", "receipt", "quarantine"})
    <2> SUFFICES ASSUME NEW r \in Runs, Verdict(r, staleOnly) # "skip"
                 PROVE  <<r, Verdict(r, staleOnly)>>
                            \in Runs \X {"requeue", "receipt", "quarantine"}
      OBVIOUS
    <2> QED
      BY <1>1
  <1>6. DaemonOK'
    BY <1>5 DEF Scan, DaemonOK, DaemonRow
  <1> QED
    BY <1>4, <1>6

\* Heartbeats and the clock only touch flags of the claims.
LEMMA BeatType ==
    ASSUME ClaimOK, NEW due \in SUBSET Runs
    PROVE  Beaten(due) \in [Runs -> ClaimRow]
  BY DEF Beaten, ClaimOK, ClaimRow

\* Every step of the daemon, and of the clock, keeps every variable in its
\* type; a restart finds an incarnation left.
LEMMA DaemonTypes ==
    ASSUME TypeOK, DownCanRestart,
           DaemonStep \/ PassCut \/ Crash \/ \E r \in Runs : Lapse(r)
    PROVE  TypeOK'
  <1>0. BoardOK /\ ClaimOK /\ RunOK /\ IdemOK /\ DispOK /\ DaemonOK /\ FaultsOK
    BY DEF TypeOK
  <1> SUFFICES BoardOK' /\ ClaimOK' /\ RunOK' /\ IdemOK' /\ DispOK' /\ DaemonOK' /\ FaultsOK'
    BY DEF TypeOK
  <1>1. CASE Restart
    <2>1. daemon.epoch + 1 \in Epochs
      <3>1. daemon.epoch \in Epochs /\ daemon.epoch < MaxEpoch
        BY <1>0, <1>1 DEF Restart, DownCanRestart, DaemonOK, DaemonRow
      <3> QED
        BY <3>1, EpochType
    <2>2. DaemonOK'
      BY <1>0, <1>1, <2>1 DEF Restart, DaemonOK, DaemonRow
    <2> QED
      BY <1>0, <1>1, <2>2 DEF Restart, board, tables, BoardOK, ClaimOK, RunOK, IdemOK, DispOK,
         FaultsOK
  <1>2. CASE BootPass \/ TickPass
    <2>1. ClaimOK' /\ RunOK' /\ DaemonOK'
      BY <1>0, <1>2, ScanType DEF BootPass, TickPass
    <2> QED
      BY <1>0, <1>2, <2>1 DEF BootPass, TickPass, Scan, board, BoardOK, IdemOK, DispOK, FaultsOK
  <1>3. CASE BootRaises \/ HeartbeatRaises \/ PassCut
    <2>1. FaultsOK'
      BY <1>0, <1>3, FaultType DEF BootRaises, HeartbeatRaises, PassCut, FaultKinds
    <2>2. DaemonOK'
      BY <1>0, <1>3 DEF BootRaises, HeartbeatRaises, PassCut, DaemonOK, DaemonRow
    <2> QED
      BY <1>0, <1>3, <2>1, <2>2 DEF BootRaises, HeartbeatRaises, PassCut, board, tables,
         BoardOK, ClaimOK, RunOK, IdemOK, DispOK
  <1>4. CASE BootReap
    <2>1. DaemonOK'
      BY <1>0, <1>4 DEF BootReap, DaemonOK, DaemonRow
    <2>2. BoardOK'
      BY <1>0, <1>4, WrittenStatuses DEF BootReap, BoardOK
    <2> QED
      BY <1>0, <1>4, <2>1, <2>2 DEF BootReap, tables, ClaimOK, RunOK, IdemOK, DispOK, FaultsOK
  <1>5. CASE Heartbeat
    <2>1. DaemonOK'
      BY <1>0, <1>5 DEF Heartbeat, DaemonOK, DaemonRow
    <2>2. ClaimOK'
      BY <1>0, <1>5, BeatType DEF Heartbeat, ClaimOK
    <2> QED
      BY <1>0, <1>5, <2>1, <2>2 DEF Heartbeat, board, BoardOK, RunOK, IdemOK, DispOK, FaultsOK
  <1>6. CASE OrphanReap
    <2>1. DaemonOK'
      BY <1>0, <1>6 DEF OrphanReap, DaemonOK, DaemonRow
    <2>2. BoardOK'
      BY <1>0, <1>6, RequeueType DEF OrphanReap, BoardOK
    <2> QED
      BY <1>0, <1>6, <2>1, <2>2 DEF OrphanReap, tables, ClaimOK, RunOK, IdemOK, DispOK, FaultsOK
  <1>7. CASE NoReap \/ Settled
    <2>1. DaemonOK'
      BY <1>0, <1>7 DEF NoReap, Settled, DaemonOK, DaemonRow
    <2> QED
      BY <1>0, <1>7, <2>1 DEF NoReap, Settled, board, tables, BoardOK, ClaimOK, RunOK, IdemOK,
         DispOK, FaultsOK
  <1>8. ASSUME NEW r \in Runs, NEW kind \in {"requeue", "receipt", "quarantine"},
               Settle(r, kind)
        PROVE  BoardOK' /\ ClaimOK' /\ RunOK' /\ IdemOK' /\ DispOK' /\ DaemonOK' /\ FaultsOK'
    <2>1. DaemonOK'
      BY <1>0, <1>8 DEF Settle, DaemonOK, DaemonRow
    <2>2. task' \in Lifecycle!Statuses /\ owner' \in 0..MaxEpoch
      BY <1>0, <1>8, RequeueType, UpdateType, WrittenStatuses DEF Settle, BoardOK
    <2>3. FaultsOK'
      BY <1>0, <1>8, FaultType DEF Settle, FaultKinds
    <2> QED
      BY <1>0, <1>8, <2>1, <2>2, <2>3 DEF Settle, tables, BoardOK, ClaimOK, RunOK, IdemOK,
         DispOK
  <1>9. CASE Crash
    <2>1. DaemonOK'
      BY <1>0, <1>9 DEF Crash, DaemonOK, DaemonRow
    <2>2. \A r \in Runs : [disp[r] EXCEPT !.pc = "dead"] \in DispRow
      BY <1>0 DEF DispOK, DispRow
    <2>3. DispOK'
      BY <1>0, <1>9, <2>2 DEF Crash, DispOK
    <2> QED
      BY <1>0, <1>9, <2>1, <2>3 DEF Crash, board, tables, BoardOK, ClaimOK, RunOK, IdemOK,
         FaultsOK
  <1>10. ASSUME NEW r \in Runs, Lapse(r)
         PROVE  BoardOK' /\ ClaimOK' /\ RunOK' /\ IdemOK' /\ DispOK' /\ DaemonOK' /\ FaultsOK'
    <2>1. ClaimOK'
      BY <1>0, <1>10 DEF Lapse, ClaimOK, ClaimRow
    <2> QED
      BY <1>0, <1>10, <2>1 DEF Lapse, board, BoardOK, RunOK, IdemOK, DispOK, DaemonOK, FaultsOK
  <1> QED
    BY <1>1, <1>2, <1>3, <1>4, <1>5, <1>6, <1>7, <1>8, <1>9, <1>10 DEF DaemonStep

\* One coroutine moves and nothing else that recovery looks at: the run it
\* belongs to is alive, the other coroutines and runs keep their state, its
\* agent stays and an outcome that is known stays.
LEMMA DispatchMoves ==
    ASSUME DispOK, RunOK, OutcomeKnown, NEW r \in Runs, DispatchStep(r)
    PROVE  /\ Live(r)
           /\ daemon' = daemon
           /\ \A q \in Runs : q # r => disp'[q] = disp[q]
           /\ \A q \in Runs : q # r => run'[q].status = run[q].status
           /\ \A q \in Runs : run'[q].quarantined = run[q].quarantined
           /\ disp'[r].agent = disp[r].agent
           /\ \A q \in Runs : disp[q].out = "ok" => disp'[q].out = "ok"
  <1>1. disp \in [Runs -> DispRow] /\ run \in [Runs -> RunRow] /\ disp[r] \in DispRow
    BY DEF DispOK, RunOK
  <1>2. disp[r].pc \in BeforeCall => disp[r].out # "ok"
    BY DEF OutcomeKnown
  <1>g. ASSUME NEW pc \in DispatchPhases, Go(r, pc)
        PROVE  /\ \A q \in Runs : q # r => disp'[q] = disp[q]
               /\ disp'[r].agent = disp[r].agent
               /\ \A q \in Runs : disp[q].out = "ok" => disp'[q].out = "ok"
    BY <1>1, <1>g DEF Go, DispRow
  <1>r. ASSUME NEW s \in RecordStatus, RecordRun(r, s)
        PROVE  /\ \A q \in Runs : q # r => run'[q].status = run[q].status
               /\ \A q \in Runs : run'[q].quarantined = run[q].quarantined
    BY <1>1, <1>r DEF RecordRun, RunRow
  <1>3. CASE ClaimRecorded(r) \/ ClaimAcked(r) \/ ClaimCompleted(r) \/ ClaimFailed(r)
    <2>1. Live(r) /\ daemon' = daemon /\ run' = run
      BY <1>3 DEF ClaimRecorded, ClaimAcked, ClaimCompleted, ClaimFailed, At, Live
    <2>2. \E pc \in DispatchPhases : Go(r, pc)
      BY <1>3 DEF ClaimRecorded, ClaimAcked, ClaimCompleted, ClaimFailed
    <2> QED
      BY <1>g, <2>1, <2>2
  <1>4. CASE RunRecorded(r) \/ RunStarted(r) \/ RunCompleted(r) \/ RunFailed(r)
    <2>1. Live(r) /\ daemon' = daemon
      BY <1>4 DEF RunRecorded, RunStarted, RunCompleted, RunFailed, At, Live
    <2>2. \E pc \in DispatchPhases : Go(r, pc)
      BY <1>4 DEF RunRecorded, RunStarted, RunCompleted, RunFailed
    <2>3. \E s \in RecordStatus : RecordRun(r, s)
      BY <1>4 DEF RunRecorded, RunStarted, RunCompleted, RunFailed
    <2> QED
      BY <1>g, <1>r, <2>1, <2>2, <2>3
  <1>5. CASE StartTask(r) \/ CompleteTask(r) \/ FailTask(r) \/ RetryTask(r)
    <2>1. Live(r) /\ daemon' = daemon /\ run' = run
      BY <1>5 DEF StartTask, CompleteTask, FailTask, RetryTask, At, Live, tables
    <2>2. \E pc \in DispatchPhases : Go(r, pc)
      BY <1>5 DEF StartTask, CompleteTask, FailTask, RetryTask
    <2> QED
      BY <1>g, <2>1, <2>2
  <1>6. CASE Invoke(r)
    BY <1>1, <1>2, <1>6 DEF Invoke, At, Go, Ends, Live, DispRow, BeforeCall
  <1>7. CASE CallEnds(r)
    BY <1>1, <1>2, <1>7 DEF CallEnds, At, Ends, Live, DispRow, BeforeCall
  <1>8. CASE Persist(r)
    <2>1. Live(r) /\ daemon' = daemon
      BY <1>8 DEF Persist, At, Live
    <2>2. \E pc \in DispatchPhases : Go(r, pc)
      BY <1>8 DEF Persist
    <2>3. \A q \in Runs : /\ run'[q].status = run[q].status
                          /\ run'[q].quarantined = run[q].quarantined
      BY <1>1, <1>8, ReceiptOnly DEF Persist
    <2> QED
      BY <1>g, <2>1, <2>2, <2>3
  <1> QED
    BY <1>3, <1>4, <1>5, <1>6, <1>7, <1>8 DEF DispatchStep

\* The step of a coroutine starts or ends no other one, and the incarnation
\* it belongs to goes on.
LEMMA DispatchLive ==
    ASSUME RecoveryInv, NEW r \in Runs, DispatchStep(r)
    PROVE  LiveHere' /\ DownCanRestart' /\ BootSettles'
  <1>0. DispOK /\ RunOK /\ OutcomeKnown /\ LiveHere /\ DownCanRestart /\ BootSettles
    BY DEF RecoveryInv, TypeOK
  <1>1. /\ Live(r)
        /\ daemon' = daemon
        /\ \A q \in Runs : q # r => disp'[q] = disp[q]
        /\ \A q \in Runs : q # r => run'[q].status = run[q].status
        /\ \A q \in Runs : run'[q].quarantined = run[q].quarantined
        /\ disp'[r].agent = disp[r].agent
    BY <1>0, DispatchMoves
  <1>2. \A q \in Runs : Live(q)' => q = r
    BY <1>0, <1>1 DEF LiveHere, Live
  <1>3. Up /\ disp[r].agent = daemon.epoch
    BY <1>0, <1>1 DEF LiveHere
  <1>4. LiveHere'
    BY <1>1, <1>2, <1>3 DEF LiveHere, Up
  <1>5. BootSettles'
    BY <1>0, <1>1, <1>3 DEF BootSettles, Booted, Open
  <1> QED
    BY <1>0, <1>1, <1>4, <1>5 DEF DownCanRestart

\* A coroutine whose pc alone changes keeps what is known of its call, when
\* the new phase claims nothing new.
LEMMA GoOutcome ==
    ASSUME DispOK, OutcomeKnown, LiveHere, NEW r \in Runs, Live(r),
           NEW pc \in DispatchPhases, Go(r, pc),
           pc \in BeforeCall => disp[r].out = "none",
           pc \in AfterOk => disp[r].out = "ok",
           pc = "call" => idem'[disp[r].agent].run = r,
           pc # "persist"
    PROVE  OutcomeKnown'
  <1>1. disp'[r] = [disp[r] EXCEPT !.pc = pc] /\ \A q \in Runs : q # r => disp'[q] = disp[q]
    BY DEF DispOK, Go
  <1>2. /\ disp'[r].pc = pc /\ disp'[r].out = disp[r].out
        /\ disp'[r].agent = disp[r].agent
    BY <1>1 DEF DispOK, DispRow
  <1>3. ASSUME NEW q \in Runs, q # r
        PROVE  disp'[q].pc \in {"new", "done", "dead"} /\ disp'[q].out = disp[q].out
                 /\ disp'[q].pc = disp[q].pc
    BY <1>1, <1>3 DEF LiveHere, Live
  <1>4. \A q \in Runs : disp[q].pc = "new" => disp[q].out = "none"
    BY DEF OutcomeKnown, BeforeCall
  <1> SUFFICES ASSUME NEW q \in Runs
               PROVE  /\ disp'[q].pc \in BeforeCall => disp'[q].out = "none"
                      /\ disp'[q].pc \in AfterOk => disp'[q].out = "ok"
                      /\ disp'[q].pc = "call" => idem'[disp'[q].agent].run = q
                      /\ disp'[q].pc # "persist"
    BY DEF OutcomeKnown
  <1>5. CASE q = r
    BY <1>2, <1>5
  <1>6. CASE q # r
    BY <1>3, <1>4, <1>6 DEF BeforeCall, AfterOk
  <1> QED
    BY <1>5, <1>6

\* The call of r ends with an outcome, its own or the one it replays.
LEMMA EndsOutcome ==
    ASSUME DispOK, OutcomeKnown, LiveHere, NEW r \in Runs, Live(r),
           NEW o \in {"ok", "failed"}, NEW q \in Runs, Ends(r, o, q),
           o = "ok" => q = r \/ disp[q].out = "ok"
    PROVE  OutcomeKnown'
  <1>1. /\ disp'[r] = [disp[r] EXCEPT !.pc = "persist", !.out = o, !.of = q]
        /\ \A p \in Runs : p # r => disp'[p] = disp[p]
    BY DEF DispOK, Ends
  <1>d. disp[r] \in DispRow
    BY DEF DispOK
  <1>2. disp'[r].pc = "persist" /\ disp'[r].out = o /\ disp'[r].of = q
    BY <1>1, <1>d DEF DispRow
  <1>3. ASSUME NEW p \in Runs, p # r
        PROVE  disp'[p].pc \in {"new", "done", "dead"} /\ disp'[p].out = disp[p].out
                 /\ disp'[p].pc = disp[p].pc
    BY <1>1, <1>3 DEF LiveHere, Live
  <1>4. o = "ok" => disp'[q].out = "ok"
    BY <1>1, <1>2
  <1>5. \A p \in Runs : disp[p].pc = "new" => disp[p].out = "none"
    BY DEF OutcomeKnown, BeforeCall
  <1> SUFFICES ASSUME NEW p \in Runs
               PROVE  /\ disp'[p].pc \in BeforeCall => disp'[p].out = "none"
                      /\ disp'[p].pc \in AfterOk => disp'[p].out = "ok"
                      /\ disp'[p].pc # "call"
                      /\ disp'[p].pc = "persist" =>
                            /\ disp'[p].of \in Runs
                            /\ disp'[p].out = "ok" => disp'[disp'[p].of].out = "ok"
    BY DEF OutcomeKnown
  <1>6. CASE p = r
    BY <1>2, <1>4, <1>6 DEF BeforeCall, AfterOk
  <1>7. CASE p # r
    BY <1>3, <1>5, <1>7 DEF BeforeCall, AfterOk
  <1> QED
    BY <1>6, <1>7

\* A coroutine knows how its call ended, from the call until it is done.
LEMMA DispatchOutcome ==
    ASSUME RecoveryInv, NEW r \in Runs, DispatchStep(r)
    PROVE  OutcomeKnown'
  <1>0. /\ DispOK /\ RunOK /\ IdemOK /\ DaemonOK
        /\ OutcomeKnown /\ LiveHere /\ ReceiptsGenuine
    BY DEF RecoveryInv, TypeOK
  <1>1. Live(r)
    BY <1>0, DispatchMoves
  <1>2. disp[r].agent \in Epochs
    BY <1>0, <1>1 DEF LiveHere, DaemonOK, DaemonRow
  <1>3. /\ disp[r].pc \in BeforeCall => disp[r].out = "none"
        /\ disp[r].pc \in AfterOk => disp[r].out = "ok"
    BY <1>0 DEF OutcomeKnown
  <1>g. ASSUME NEW pc \in DispatchPhases, Go(r, pc),
               pc \in BeforeCall => disp[r].out = "none",
               pc \in AfterOk => disp[r].out = "ok",
               pc = "call" => idem'[disp[r].agent].run = r,
               pc # "persist"
        PROVE  OutcomeKnown'
    BY <1>0, <1>1, <1>g, GoOutcome
  <1>4. CASE ClaimRecorded(r) \/ RunRecorded(r) \/ StartTask(r) \/ ClaimAcked(r) \/ RunStarted(r)
    BY <1>3, <1>4, <1>g DEF ClaimRecorded, RunRecorded, StartTask, ClaimAcked, RunStarted, At,
       BeforeCall, AfterOk
  <1>5. CASE Invoke(r)
    <2>1. CASE Record(r).status = "ok" /\ Ends(r, "ok", Record(r).run)
      <3>1. Record(r).run \in Runs /\ disp[Record(r).run].out = "ok"
        BY <1>0, <1>2, <2>1 DEF ReceiptsGenuine, Record
      <3> QED
        BY <1>0, <1>1, <2>1, <3>1, EndsOutcome
    <2>2. CASE /\ idem' = [idem EXCEPT ![disp[r].agent] = [run |-> r, status |-> "started"]]
               /\ Go(r, "call")
      <3>1. idem'[disp[r].agent].run = r
        BY <1>0, <1>2, <2>2 DEF IdemOK
      <3> QED
        BY <1>3, <1>5, <1>g, <2>2, <3>1 DEF Invoke, At, BeforeCall, AfterOk
    <2>3. CASE Go(r, "fail")
      BY <1>g, <2>3 DEF BeforeCall, AfterOk
    <2> QED
      BY <1>5, <2>1, <2>2, <2>3 DEF Invoke
  <1>6. CASE CallEnds(r)
    BY <1>0, <1>1, <1>6, EndsOutcome DEF CallEnds
  <1>7. CASE Persist(r)
    BY <1>7, <1>g DEF Persist, BeforeCall, AfterOk
  <1>8. CASE CompleteTask(r) \/ ClaimCompleted(r) \/ RunCompleted(r)
    BY <1>3, <1>8, <1>g DEF CompleteTask, ClaimCompleted, RunCompleted, At, BeforeCall, AfterOk
  <1>9. CASE FailTask(r) \/ RetryTask(r) \/ ClaimFailed(r) \/ RunFailed(r)
    BY <1>9, <1>g DEF FailTask, RetryTask, ClaimFailed, RunFailed, BeforeCall, AfterOk
  <1> QED
    BY <1>4, <1>5, <1>6, <1>7, <1>8, <1>9 DEF DispatchStep

\* A record or a receipt says ok only of a call that ended ok: it is written
\* by the call itself or replays a record that was.
LEMMA DispatchReceipts ==
    ASSUME RecoveryInv, NEW r \in Runs, DispatchStep(r)
    PROVE  ReceiptsGenuine'
  <1>0. /\ DispOK /\ RunOK /\ IdemOK /\ DaemonOK
        /\ OutcomeKnown /\ LiveHere /\ ReceiptsGenuine
    BY DEF RecoveryInv, TypeOK
  <1>1. /\ Live(r)
        /\ \A q \in Runs : disp[q].out = "ok" => disp'[q].out = "ok"
    BY <1>0, DispatchMoves
  <1>2. disp[r].agent \in Epochs
    BY <1>0, <1>1 DEF LiveHere, DaemonOK, DaemonRow
  <1>i. idem' = idem => \A a \in Epochs : idem'[a].status = "ok" =>
            idem'[a].run \in Runs /\ disp'[idem'[a].run].out = "ok"
    BY <1>0, <1>1 DEF ReceiptsGenuine
  <1>r. (\A q \in Runs : run'[q].receipt = run[q].receipt) =>
            \A q \in Runs : run'[q].receipt = "ok" => disp'[q].out = "ok"
    BY <1>0, <1>1 DEF ReceiptsGenuine
  <1>3. CASE ClaimRecorded(r) \/ ClaimAcked(r) \/ ClaimCompleted(r) \/ ClaimFailed(r)
             \/ StartTask(r) \/ CompleteTask(r) \/ FailTask(r) \/ RetryTask(r)
    <2>1. idem' = idem /\ run' = run
      BY <1>3 DEF ClaimRecorded, ClaimAcked, ClaimCompleted, ClaimFailed, StartTask,
         CompleteTask, FailTask, RetryTask, tables
    <2> QED
      BY <1>i, <1>r, <2>1 DEF ReceiptsGenuine
  <1>4. CASE RunRecorded(r) \/ RunStarted(r) \/ RunCompleted(r) \/ RunFailed(r)
    <2>1. idem' = idem /\ \E s \in RecordStatus : RecordRun(r, s)
      BY <1>4 DEF RunRecorded, RunStarted, RunCompleted, RunFailed
    <2>2. \A q \in Runs : run'[q].receipt = run[q].receipt
      BY <1>0, <2>1 DEF RecordRun, RunOK, RunRow
    <2> QED
      BY <1>i, <1>r, <2>1, <2>2 DEF ReceiptsGenuine
  <1>5. CASE Invoke(r)
    <2>1. run' = run
      BY <1>5 DEF Invoke
    <2>2. CASE idem' = idem
      BY <1>i, <1>r, <2>1, <2>2 DEF ReceiptsGenuine
    <2>3. CASE idem' = [idem EXCEPT ![disp[r].agent] = [run |-> r, status |-> "started"]]
      <3>1. \A a \in Epochs : idem'[a].status = "ok" => idem'[a] = idem[a]
        BY <1>0, <2>3 DEF IdemOK
      <3>2. \A a \in Epochs : idem'[a].status = "ok" =>
                idem'[a].run \in Runs /\ disp'[idem'[a].run].out = "ok"
        BY <1>0, <1>1, <3>1 DEF ReceiptsGenuine
      <3> QED
        BY <1>r, <2>1, <3>2 DEF ReceiptsGenuine
    <2> QED
      BY <1>5, <2>2, <2>3 DEF Invoke
  <1>6. CASE CallEnds(r)
    <2>1. run' = run /\ disp[r].pc = "call"
      BY <1>6 DEF CallEnds, At
    <2>2. PICK o \in {"ok", "failed"} :
             /\ Ends(r, o, r)
             /\ \/ idem' = [idem EXCEPT ![disp[r].agent].status = o]
                \/ UNCHANGED idem
      BY <1>6 DEF CallEnds
    <2>3. disp'[r].out = o
      <3>1. disp[r] \in DispRow
        BY <1>0 DEF DispOK
      <3>2. disp'[r] = [disp[r] EXCEPT !.pc = "persist", !.out = o, !.of = r]
        BY <1>0, <2>2 DEF Ends, DispOK
      <3> QED
        BY <3>1, <3>2 DEF DispRow
    <2>4. idem[disp[r].agent].run = r
      BY <1>0, <2>1 DEF OutcomeKnown
    <2>5. CASE idem' = idem
      BY <1>i, <1>r, <2>1, <2>5 DEF ReceiptsGenuine
    <2>6. CASE idem' = [idem EXCEPT ![disp[r].agent].status = o]
      <3>1. idem[disp[r].agent] \in CallRow
        BY <1>0, <1>2 DEF IdemOK
      <3>2. idem'[disp[r].agent] = [idem[disp[r].agent] EXCEPT !.status = o]
        BY <1>0, <1>2, <2>6 DEF IdemOK
      <3>3. idem'[disp[r].agent].run = r /\ idem'[disp[r].agent].status = o
        BY <2>4, <3>1, <3>2 DEF CallRow
      <3>4. \A a \in Epochs : a # disp[r].agent => idem'[a] = idem[a]
        BY <1>0, <2>6 DEF IdemOK
      <3>5. \A a \in Epochs : idem'[a].status = "ok" =>
                idem'[a].run \in Runs /\ disp'[idem'[a].run].out = "ok"
        BY <1>0, <1>1, <2>3, <3>3, <3>4 DEF ReceiptsGenuine
      <3> QED
        BY <1>r, <2>1, <3>5 DEF ReceiptsGenuine
    <2> QED
      BY <2>2, <2>5, <2>6
  <1>7. CASE Persist(r)
    <2>1. idem' = idem /\ disp[r].pc = "persist"
      BY <1>7 DEF Persist, At
    <2>2. disp[r].of \in Runs /\ (disp[r].out = "ok" => disp[disp[r].of].out = "ok")
      BY <1>0, <2>1 DEF OutcomeKnown
    <2>3. CASE run' = run
      BY <1>i, <1>r, <2>1, <2>3 DEF ReceiptsGenuine
    <2>4. CASE run' = [run EXCEPT ![disp[r].of].receipt = disp[r].out]
      <3>1. \A q \in Runs : q # disp[r].of => run'[q] = run[q]
        BY <1>0, <2>4 DEF RunOK
      <3>2. run'[disp[r].of].receipt = disp[r].out
        BY <1>0, <2>2, <2>4 DEF RunOK, RunRow
      <3>3. \A q \in Runs : run'[q].receipt = "ok" => disp'[q].out = "ok"
        BY <1>0, <1>1, <2>2, <3>1, <3>2 DEF ReceiptsGenuine
      <3> QED
        BY <1>i, <2>1, <3>3 DEF ReceiptsGenuine
    <2> QED
      BY <1>7, <2>3, <2>4 DEF Persist, StoreReceipt
  <1> QED
    BY <1>3, <1>4, <1>5, <1>6, <1>7 DEF DispatchStep

\* The coroutine writes completed only after its call ended ok.
LEMMA DispatchCompletes ==
    ASSUME RecoveryInv, NEW r \in Runs, DispatchStep(r)
    PROVE  CompletedMeansDone'
  <1>0. /\ DispOK /\ RunOK /\ OutcomeKnown /\ CompletedMeansDone
    BY DEF RecoveryInv, TypeOK
  <1>1. \A q \in Runs : disp[q].out = "ok" => disp'[q].out = "ok"
    BY <1>0, DispatchMoves
  <1>2. disp[r].pc \in AfterOk => disp[r].out = "ok"
    BY <1>0 DEF OutcomeKnown
  <1>t. (task' = "completed" => task = "completed") =>
            (task' = "completed" => \E q \in Runs : disp'[q].out = "ok")
    BY <1>0, <1>1 DEF CompletedMeansDone
  <1>r. (\A q \in Runs : run'[q].status = "completed" => run[q].status = "completed") =>
            \A q \in Runs : run'[q].status = "completed" => disp'[q].out = "ok"
    BY <1>0, <1>1 DEF CompletedMeansDone
  <1>3. CASE ClaimRecorded(r) \/ ClaimAcked(r) \/ ClaimCompleted(r) \/ ClaimFailed(r)
             \/ Invoke(r) \/ CallEnds(r)
    <2>1. task' = task /\ run' = run
      BY <1>3 DEF ClaimRecorded, ClaimAcked, ClaimCompleted, ClaimFailed, Invoke, CallEnds, board
    <2> QED
      BY <1>t, <1>r, <2>1 DEF CompletedMeansDone
  <1>4. CASE StartTask(r) \/ FailTask(r) \/ RetryTask(r)
    <2>1. run' = run /\ (task' = "completed" => task = "completed")
      BY <1>4 DEF StartTask, FailTask, RetryTask, SafeUpdate, RequeueTask, tables
    <2> QED
      BY <1>t, <1>r, <2>1 DEF CompletedMeansDone
  <1>5. CASE CompleteTask(r)
    <2>1. run' = run /\ disp[r].out = "ok"
      BY <1>2, <1>5 DEF CompleteTask, At, AfterOk, tables
    <2> QED
      BY <1>1, <1>r, <2>1 DEF CompletedMeansDone
  <1>6. CASE Persist(r)
    <2>1. task' = task /\ \A q \in Runs : run'[q].status = run[q].status
      BY <1>0, <1>6, ReceiptOnly DEF Persist, board
    <2> QED
      BY <1>t, <1>r, <2>1 DEF CompletedMeansDone
  <1>7. CASE RunRecorded(r) \/ RunStarted(r) \/ RunFailed(r)
    <2>1. PICK s \in RecordStatus : s # "completed" /\ RecordRun(r, s)
      BY <1>7 DEF RunRecorded, RunStarted, RunFailed
    <2>2. \A q \in Runs : run'[q].status = "completed" => run[q].status = "completed"
      BY <1>0, <2>1 DEF RecordRun, RunOK, RunRow
    <2>3. task' = task
      BY <1>7 DEF RunRecorded, RunStarted, RunFailed, board
    <2> QED
      BY <1>t, <1>r, <2>2, <2>3 DEF CompletedMeansDone
  <1>8. CASE RunCompleted(r)
    <2>1. task' = task /\ disp[r].out = "ok"
      BY <1>2, <1>8 DEF RunCompleted, At, AfterOk, board
    <2>2. \A q \in Runs : q # r => run'[q] = run[q]
      BY <1>0, <1>8 DEF RunCompleted, RecordRun, RunOK
    <2>3. \A q \in Runs : run'[q].status = "completed" => disp'[q].out = "ok"
      BY <1>0, <1>1, <2>1, <2>2 DEF CompletedMeansDone
    <2> QED
      BY <1>t, <2>1, <2>3 DEF CompletedMeansDone
  <1> QED
    BY <1>3, <1>4, <1>5, <1>6, <1>7, <1>8 DEF DispatchStep

\* A new dispatch: no other coroutine lives, and nothing is known of its call.
LEMMA DispatchStarts ==
    ASSUME RecoveryInv, NEW r \in Runs, Dispatch(r)
    PROVE  /\ LiveHere' /\ DownCanRestart' /\ OutcomeKnown' /\ ReceiptsGenuine'
           /\ BootSettles' /\ CompletedMeansDone'
  <1>0. /\ DispOK /\ OutcomeKnown /\ ReceiptsGenuine /\ DownCanRestart /\ BootSettles
        /\ CompletedMeansDone
    BY DEF RecoveryInv, TypeOK
  <1>1. disp[r].out = "none"
    BY DEF Dispatch, Fresh
  <1>2. /\ disp'[r].pc = "claim" /\ disp'[r].agent = daemon.epoch /\ disp'[r].out = "none"
        /\ \A q \in Runs : q # r => disp'[q] = disp[q]
    BY <1>0 DEF Dispatch, Fresh, DispOK
  <1>3. Up /\ daemon' = daemon /\ run' = run /\ idem' = idem /\ task' # "completed"
    BY DEF Dispatch, tables
  <1>4. \A q \in Runs : disp[q].pc \in {"new", "done", "dead"}
    BY DEF Dispatch, Live
  <1>5. \A q \in Runs : disp'[q].out = disp[q].out
    BY <1>1, <1>2
  <1>6. LiveHere' /\ DownCanRestart'
    BY <1>0, <1>2, <1>3, <1>4 DEF LiveHere, Live, Up, DownCanRestart
  <1>7. OutcomeKnown'
    <2> SUFFICES ASSUME NEW q \in Runs
                 PROVE  /\ disp'[q].pc \in BeforeCall => disp'[q].out = "none"
                        /\ disp'[q].pc \in {"new", "done", "dead", "claim"}
      BY DEF OutcomeKnown, AfterOk
    <2> QED
      BY <1>0, <1>2, <1>4 DEF OutcomeKnown
  <1>8. ReceiptsGenuine'
    BY <1>0, <1>3, <1>5 DEF ReceiptsGenuine
  <1>9. BootSettles'
    BY <1>0, <1>2, <1>3 DEF BootSettles, Booted, Open
  <1>10. CompletedMeansDone'
    BY <1>0, <1>3, <1>5 DEF CompletedMeansDone
  <1> QED
    BY <1>6, <1>7, <1>8, <1>9, <1>10

\* Only crashes touch the coroutines, and no step of the daemon a record of
\* a call or a receipt.
LEMMA DaemonQuiet ==
    ASSUME RunOK, DaemonStep \/ PassCut \/ \E r \in Runs : Lapse(r)
    PROVE  /\ disp' = disp /\ idem' = idem
           /\ \A r \in Runs : run'[r].receipt = run[r].receipt
  <1>1. ASSUME NEW staleOnly, NEW next, Scan(staleOnly, next), NEW r \in Runs
        PROVE  run'[r].receipt = run[r].receipt
    <2>1. run[r] \in RunRow
      BY DEF RunOK
    <2>2. run'[r] = SettledRun(r, Verdict(r, staleOnly))
      BY <1>1 DEF Scan
    <2> QED
      BY <2>1, <2>2 DEF SettledRun, RunRow
  <1>2. CASE BootPass \/ TickPass
    BY <1>1, <1>2 DEF BootPass, TickPass, Scan
  <1>3. CASE Restart \/ BootRaises \/ BootReap \/ Heartbeat \/ HeartbeatRaises \/ OrphanReap
             \/ NoReap \/ Settled \/ PassCut
    BY <1>3 DEF Restart, BootRaises, BootReap, Heartbeat, HeartbeatRaises, OrphanReap,
       NoReap, Settled, PassCut, tables
  <1>4. CASE \E r \in Runs, kind \in {"requeue", "receipt", "quarantine"} : Settle(r, kind)
    BY <1>4 DEF Settle, tables
  <1>5. CASE \E r \in Runs : Lapse(r)
    BY <1>5 DEF Lapse
  <1> QED
    BY <1>2, <1>3, <1>4, <1>5 DEF DaemonStep

\* Outside a restart the incarnation stays, and as long as it is up it stays
\* up; a restart finds no coroutine alive.
LEMMA DaemonUp ==
    ASSUME RecoveryInv, DaemonStep \/ PassCut \/ \E r \in Runs : Lapse(r)
    PROVE  LiveHere' /\ DownCanRestart'
  <1>0. RunOK /\ DaemonOK /\ LiveHere /\ DownCanRestart
    BY DEF RecoveryInv, TypeOK
  <1>d. disp' = disp
    BY <1>0, DaemonQuiet
  <1>t. daemon \in DaemonRow
    BY <1>0 DEF DaemonOK
  <1>1. CASE Restart
    <2>1. \A r \in Runs : ~Live(r)
      BY <1>0, <1>1 DEF Restart, LiveHere, Up
    <2>2. daemon'.phase = "boot"
      BY <1>1, <1>t DEF Restart, DaemonRow
    <2> QED
      BY <1>d, <2>1, <2>2 DEF LiveHere, Live, DownCanRestart
  <1>2. CASE ~Restart
    <2>1. /\ daemon'.epoch = daemon.epoch
          /\ daemon'.phase # "down" \/ daemon' = daemon
          /\ Up => Up'
      <3>1. CASE BootPass \/ TickPass
        BY <1>t, <3>1 DEF BootPass, TickPass, Scan, Up, DaemonRow
      <3>2. CASE BootRaises \/ BootReap \/ Heartbeat \/ HeartbeatRaises \/ OrphanReap
                 \/ NoReap \/ Settled \/ PassCut
        BY <1>t, <3>2 DEF BootRaises, BootReap, Heartbeat, HeartbeatRaises, OrphanReap,
           NoReap, Settled, PassCut, Up, DaemonRow
      <3>3. CASE \E r \in Runs, kind \in {"requeue", "receipt", "quarantine"} : Settle(r, kind)
        BY <1>t, <3>3 DEF Settle, Up, DaemonRow
      <3>4. CASE \E r \in Runs : Lapse(r)
        BY <3>4 DEF Lapse, Up
      <3> QED
        BY <1>2, <3>1, <3>2, <3>3, <3>4 DEF DaemonStep
    <2>2. LiveHere'
      BY <1>0, <1>d, <2>1 DEF LiveHere, Live
    <2> QED
      BY <1>0, <2>1, <2>2 DEF DownCanRestart
  <1> QED
    BY <1>1, <1>2

\* A pass opens no run, and the one at boot leaves none open.
LEMMA ScanCloses ==
    ASSUME RunOK, NEW staleOnly \in BOOLEAN, NEW next, Scan(staleOnly, next), NEW r \in Runs
    PROVE  Open(r)' => Open(r) /\ staleOnly
  <1>1. run[r] \in RunRow
    BY DEF RunOK
  <1>2. run'[r] = SettledRun(r, Verdict(r, staleOnly))
    BY DEF Scan
  <1>3. CASE Verdict(r, staleOnly) = "skip"
    <2>1. run'[r] = run[r]
      BY <1>2, <1>3 DEF SettledRun
    <2>2. Open(r) => staleOnly
      BY <1>3 DEF Verdict, Open
    <2> QED
      BY <2>1, <2>2 DEF Open
  <1>4. CASE Verdict(r, staleOnly) # "skip"
    <2>1. Verdict(r, staleOnly) \in {"receipt", "requeue", "quarantine"}
      BY <1>4 DEF Verdict
    <2>2. run'[r].status \in {"completed", "failed"}
      BY <1>1, <1>2, <2>1 DEF SettledRun, Outcome, RunRow
    <2> QED
      BY <2>2 DEF Open, InFlight
  <1> QED
    BY <1>3, <1>4

\* The steps of the daemon leave no open run of an earlier incarnation behind
\* the boot pass.
LEMMA DaemonSettles ==
    ASSUME RecoveryInv, DaemonStep \/ PassCut \/ \E r \in Runs : Lapse(r)
    PROVE  BootSettles'
  <1>0. RunOK /\ DaemonOK /\ BootSettles
    BY DEF RecoveryInv, TypeOK
  <1>d. disp' = disp
    BY <1>0, DaemonQuiet
  <1>t. daemon \in DaemonRow
    BY <1>0 DEF DaemonOK
  <1>1. CASE Restart \/ (BootRaises /\ daemon.phase = "boot")
    <2>1. ~Booted'
      BY <1>1, <1>t DEF Restart, BootRaises, Booted, DaemonRow
    <2> QED
      BY <2>1 DEF BootSettles
  <1>b. CASE BootRaises /\ daemon.phase = "boot settle"
    <2>1. run' = run /\ daemon'.epoch = daemon.epoch
      BY <1>b, <1>t DEF BootRaises, tables, DaemonRow
    <2>2. Booted' => Booted
      BY <1>b, <1>t DEF BootRaises, Booted, DaemonRow
    <2> QED
      BY <1>0, <1>d, <2>1, <2>2 DEF BootSettles, Open
  <1>2. CASE BootPass
    <2>1. \A r \in Runs : ~Open(r)'
      BY <1>0, <1>2, ScanCloses DEF BootPass
    <2> QED
      BY <2>1 DEF BootSettles
  <1>3. CASE TickPass
    <2>1. \A r \in Runs : Open(r)' => Open(r)
      BY <1>0, <1>3, ScanCloses DEF TickPass
    <2>2. daemon'.epoch = daemon.epoch /\ (Booted' => Booted)
      BY <1>3, <1>t DEF TickPass, Scan, Booted, DaemonRow
    <2> QED
      BY <1>0, <1>d, <2>1, <2>2 DEF BootSettles
  <1>4. CASE BootReap \/ Heartbeat \/ HeartbeatRaises \/ OrphanReap \/ NoReap \/ Settled
             \/ PassCut
    <2>1. run' = run
      BY <1>4 DEF BootReap, Heartbeat, HeartbeatRaises, OrphanReap, NoReap, Settled, PassCut,
         tables
    <2>2. daemon'.epoch = daemon.epoch /\ (Booted' => Booted)
      BY <1>4, <1>t DEF BootReap, Heartbeat, HeartbeatRaises, OrphanReap, NoReap, Settled,
         PassCut, Booted, DaemonRow
    <2> QED
      BY <1>0, <1>d, <2>1, <2>2 DEF BootSettles, Open
  <1>5. CASE \E r \in Runs, kind \in {"requeue", "receipt", "quarantine"} : Settle(r, kind)
    <2>1. run' = run
      BY <1>5 DEF Settle, tables
    <2>2. daemon'.epoch = daemon.epoch /\ (Booted' => Booted)
      BY <1>5, <1>t DEF Settle, Booted, DaemonRow
    <2> QED
      BY <1>0, <1>d, <2>1, <2>2 DEF BootSettles, Open
  <1>6. CASE \E r \in Runs : Lapse(r)
    BY <1>0, <1>6 DEF Lapse, BootSettles, Booted, Open
  <1> QED
    BY <1>1, <1>b, <1>2, <1>3, <1>4, <1>5, <1>6 DEF DaemonStep, BootRaises

\* A pass completes a run only from an ok receipt, and the board only for a
\* run that is completed.
LEMMA DaemonCompletes ==
    ASSUME RecoveryInv, DaemonStep \/ PassCut \/ \E r \in Runs : Lapse(r)
    PROVE  CompletedMeansDone'
  <1>0. RunOK /\ ReceiptsGenuine /\ CompletedMeansDone
    BY DEF RecoveryInv, TypeOK
  <1>d. disp' = disp
    BY <1>0, DaemonQuiet
  <1>1. CASE BootPass \/ TickPass
    <2>1. PICK staleOnly \in BOOLEAN, next \in DaemonPhases : Scan(staleOnly, next)
      BY <1>1 DEF BootPass, TickPass
    <2>2. ASSUME NEW r \in Runs, run'[r].status = "completed"
          PROVE  disp[r].out = "ok"
      <3>1. run[r] \in RunRow
        BY <1>0 DEF RunOK
      <3>2. run'[r] = SettledRun(r, Verdict(r, staleOnly))
        BY <2>1 DEF Scan
      <3>3. run[r].status = "completed" \/ run[r].receipt = "ok"
        BY <2>2, <3>1, <3>2 DEF SettledRun, Outcome, RunRow
      <3> QED
        BY <1>0, <3>3 DEF CompletedMeansDone, ReceiptsGenuine
    <2>3. task' = task
      BY <2>1 DEF Scan, board
    <2> QED
      BY <1>0, <1>d, <2>2, <2>3 DEF CompletedMeansDone
  <1>2. CASE Restart \/ BootRaises \/ BootReap \/ Heartbeat \/ HeartbeatRaises \/ OrphanReap
             \/ NoReap \/ Settled \/ PassCut
    <2>1. run' = run
      BY <1>2 DEF Restart, BootRaises, BootReap, Heartbeat, HeartbeatRaises, OrphanReap,
         NoReap, Settled, PassCut, tables
    <2>2. task' = "completed" => task = "completed"
      BY <1>2 DEF Restart, BootRaises, BootReap, Heartbeat, HeartbeatRaises, OrphanReap,
         NoReap, Settled, PassCut, board, RequeueTask
    <2> QED
      BY <1>0, <1>d, <2>1, <2>2 DEF CompletedMeansDone
  <1>3. ASSUME NEW r \in Runs, NEW kind \in {"requeue", "receipt", "quarantine"},
               Settle(r, kind)
        PROVE  CompletedMeansDone'
    <2>1. run' = run
      BY <1>3 DEF Settle, tables
    <2>2. task' = "completed" => task = "completed" \/ run[r].status = "completed"
      BY <1>3 DEF Settle, SafeUpdate, RequeueTask
    <2> QED
      BY <1>0, <1>d, <2>1, <2>2 DEF CompletedMeansDone
  <1>4. CASE \E r \in Runs : Lapse(r)
    BY <1>0, <1>4 DEF Lapse, board, CompletedMeansDone
  <1> QED
    BY <1>1, <1>2, <1>3, <1>4 DEF DaemonStep

\* A crash only ends coroutines; everything that was written stays.
LEMMA CrashKeeps ==
    ASSUME RecoveryInv, Crash
    PROVE  /\ LiveHere' /\ DownCanRestart' /\ OutcomeKnown' /\ ReceiptsGenuine'
           /\ BootSettles' /\ CompletedMeansDone'
  <1>0. /\ DispOK /\ DaemonOK /\ OutcomeKnown /\ ReceiptsGenuine /\ CompletedMeansDone
    BY DEF RecoveryInv, TypeOK
  <1>1. run' = run /\ idem' = idem /\ task' = task
    BY DEF Crash, board, tables
  <1>2. daemon'.phase = "down" /\ daemon'.epoch = daemon.epoch /\ daemon.epoch < MaxEpoch
    BY <1>0 DEF Crash, DaemonOK, DaemonRow
  <1>3. ASSUME NEW r \in Runs
        PROVE  /\ disp'[r].out = disp[r].out
               /\ disp'[r].pc \in {"new", "done", "dead"}
               /\ disp'[r].pc = "new" => disp[r].pc = "new"
    <2>1. disp[r] \in DispRow
      BY <1>0 DEF DispOK
    <2>2. disp'[r] = IF Live(r) THEN [disp[r] EXCEPT !.pc = "dead"] ELSE disp[r]
      BY DEF Crash
    <2>3. CASE Live(r)
      BY <2>1, <2>2, <2>3 DEF DispRow
    <2>4. CASE ~Live(r)
      BY <2>2, <2>4 DEF Live
    <2> QED
      BY <2>3, <2>4
  <1>4. LiveHere' /\ DownCanRestart'
    BY <1>2, <1>3 DEF LiveHere, Live, DownCanRestart
  <1>5. OutcomeKnown'
    <2> SUFFICES ASSUME NEW q \in Runs
                 PROVE  /\ disp'[q].pc \in BeforeCall => disp'[q].out = "none"
                        /\ disp'[q].pc \in {"new", "done", "dead"}
      BY DEF OutcomeKnown, AfterOk
    <2> QED
      BY <1>0, <1>3 DEF OutcomeKnown, BeforeCall
  <1>6. ReceiptsGenuine'
    BY <1>0, <1>1, <1>3 DEF ReceiptsGenuine
  <1>7. BootSettles'
    BY <1>2 DEF BootSettles, Booted
  <1>8. CompletedMeansDone'
    BY <1>0, <1>1, <1>3 DEF CompletedMeansDone
  <1> QED
    BY <1>4, <1>5, <1>6, <1>7, <1>8

\* The invariant is inductive.
LEMMA NextRecovery == RecoveryInv /\ [Next]_vars => RecoveryInv'
  <1> SUFFICES ASSUME RecoveryInv, [Next]_vars PROVE RecoveryInv'
    OBVIOUS
  <1>0. TypeOK /\ LiveHere /\ DownCanRestart /\ OutcomeKnown /\ ReceiptsGenuine
    BY DEF RecoveryInv
  <1>1. ASSUME NEW r \in Runs, Dispatch(r)
        PROVE  RecoveryInv'
    BY <1>0, <1>1, DispatchTypes, DispatchStarts DEF RecoveryInv
  <1>2. ASSUME NEW r \in Runs, DispatchStep(r)
        PROVE  RecoveryInv'
    BY <1>0, <1>2, DispatchTypes, DispatchLive, DispatchOutcome, DispatchReceipts,
       DispatchCompletes DEF RecoveryInv
  <1>3. CASE DaemonStep \/ PassCut \/ \E r \in Runs : Lapse(r)
    <2>1. disp' = disp /\ idem' = idem /\ \A r \in Runs : run'[r].receipt = run[r].receipt
      BY <1>0, <1>3, DaemonQuiet DEF TypeOK
    <2>2. OutcomeKnown'
      BY <1>0, <2>1 DEF OutcomeKnown
    <2>3. ReceiptsGenuine'
      BY <1>0, <2>1 DEF ReceiptsGenuine
    <2> QED
      BY <1>0, <1>3, <2>2, <2>3, DaemonTypes, DaemonUp, DaemonSettles, DaemonCompletes
         DEF RecoveryInv
  <1>4. CASE Crash
    BY <1>0, <1>4, DaemonTypes, CrashKeeps DEF RecoveryInv
  <1>5. CASE UNCHANGED vars
    BY <1>5 DEF vars, RecoveryInv, TypeOK, BoardOK, ClaimOK, RunOK, IdemOK, DispOK, DaemonOK,
       FaultsOK, LiveHere, Live, Up, DownCanRestart, OutcomeKnown, ReceiptsGenuine,
       BootSettles, Booted, Open, CompletedMeansDone
  <1> QED
    BY <1>1, <1>2, <1>3, <1>4, <1>5 DEF Next

\* RecoveryInv holds throughout: the strengthening under BootSettles and
\* CompletedMeansDone, for any number of crashes and faults.
THEOREM RecoveryInvHolds == Spec => []RecoveryInv
  BY InitRecovery, NextRecovery, PTL DEF Spec

\* The tables, the coroutines and the daemon keep their types.
THEOREM RecoveryTypeOK == Spec => []TypeOK
  <1>1. RecoveryInv => TypeOK
    BY DEF RecoveryInv
  <1> QED
    BY RecoveryInvHolds, <1>1, PTL

\* Behind a boot pass that did not raise, every open run is one of the
\* running incarnation: SwarmManager.init orphans none.
THEOREM BootSettlesHolds == Spec => []BootSettles
  <1>1. RecoveryInv => BootSettles
    BY DEF RecoveryInv
  <1> QED
    BY RecoveryInvHolds, <1>1, PTL

\* Crashes, lost records and late passes never turn a call that failed or did
\* not end into a completed run or a completed task.
THEOREM CompletedMeansDoneHolds == Spec => []CompletedMeansDone
  <1>1. RecoveryInv => CompletedMeansDone
    BY DEF RecoveryInv
  <1> QED
    BY RecoveryInvHolds, <1>1, PTL

\* Between the heartbeat of a tick and its scan no claim in flight lapses:
\* the lease is longer than a tick, and a record written meanwhile renews it.
BeatingInv ==
    daemon.phase \in {"reap", "scan"} /\ ~daemon.beatError =>
        \A r \in Runs : InFlight(claim[r].status) /\ ~claim[r].recovered => ~claim[r].lapsed

\* It holds before the first tick.
LEMMA BeatingInit == Init => BeatingInv
  BY DEF Init, BeatingInv

\* A record written by a dispatch is not lapsed.
LEMMA RecordBeats ==
    ASSUME BeatingInv, ClaimOK, daemon' = daemon, NEW r \in Runs, NEW s \in RecordStatus,
           RecordClaim(r, s)
    PROVE  BeatingInv'
  <1>1. \A q \in Runs : claim'[q] = claim[q] \/ claim'[q].lapsed = FALSE
    BY DEF RecordClaim, ClaimOK
  <1> QED
    BY <1>1 DEF BeatingInv

\* Every step preserves it.
LEMMA BeatingNext == RecoveryInv /\ BeatingInv /\ [Next]_vars => BeatingInv'
  <1> SUFFICES ASSUME RecoveryInv, BeatingInv, [Next]_vars PROVE BeatingInv'
    OBVIOUS
  <1>0. ClaimOK /\ DaemonOK /\ daemon \in DaemonRow
    BY DEF RecoveryInv, TypeOK, DaemonOK
  <1>s. claim' = claim /\ daemon' = daemon => BeatingInv'
    BY DEF BeatingInv
  <1>p. daemon'.phase \notin {"reap", "scan"} => BeatingInv'
    BY DEF BeatingInv
  <1>1. ASSUME NEW r \in Runs, Dispatch(r) \/ DispatchStep(r)
        PROVE  BeatingInv'
    <2>1. CASE ClaimRecorded(r) \/ ClaimAcked(r) \/ ClaimCompleted(r) \/ ClaimFailed(r)
      BY <1>0, <2>1, RecordBeats DEF ClaimRecorded, ClaimAcked, ClaimCompleted, ClaimFailed
    <2>2. CASE Dispatch(r) \/ RunRecorded(r) \/ StartTask(r) \/ RunStarted(r) \/ Invoke(r)
               \/ CallEnds(r) \/ Persist(r) \/ CompleteTask(r) \/ RunCompleted(r)
               \/ FailTask(r) \/ RetryTask(r) \/ RunFailed(r)
      BY <1>s, <2>2 DEF Dispatch, RunRecorded, StartTask, RunStarted, Invoke, CallEnds, Persist,
         CompleteTask, RunCompleted, FailTask, RetryTask, RunFailed, tables
    <2> QED
      BY <1>1, <2>1, <2>2 DEF DispatchStep
  <1>2. CASE Heartbeat
    <2>1. PICK due \in SUBSET {r \in Runs : InFlight(claim[r].status) /\ ~claim[r].recovered} :
             /\ \A r \in Runs : InFlight(claim[r].status) /\ ~claim[r].recovered
                                  /\ claim[r].lapsed => r \in due
             /\ claim' = Beaten(due)
      BY <1>2 DEF Heartbeat
    <2>2. \A r \in Runs : r \in due => claim'[r].lapsed = FALSE
      BY <1>0, <2>1 DEF Beaten, ClaimOK, ClaimRow
    <2>3. \A r \in Runs : r \notin due => claim'[r] = claim[r]
      BY <2>1 DEF Beaten
    <2> QED
      BY <2>1, <2>2, <2>3 DEF BeatingInv
  <1>3. CASE BootPass \/ TickPass
    BY <1>0, <1>3, <1>p DEF BootPass, TickPass, Scan, DaemonRow
  <1>4. CASE Restart \/ BootRaises \/ BootReap \/ PassCut \/ Crash
    BY <1>0, <1>4, <1>p DEF Restart, BootRaises, BootReap, PassCut, Crash, DaemonRow
  <1>5. CASE HeartbeatRaises
    BY <1>0, <1>5 DEF HeartbeatRaises, BeatingInv, DaemonRow
  <1>6. CASE OrphanReap \/ NoReap
    <2>1. claim' = claim /\ daemon.phase = "reap" /\ daemon'.beatError = daemon.beatError
      BY <1>0, <1>6 DEF OrphanReap, NoReap, tables, DaemonRow
    <2> QED
      BY <2>1 DEF BeatingInv
  <1>7. CASE Settled \/ \E r \in Runs, kind \in {"requeue", "receipt", "quarantine"} :
                            Settle(r, kind)
    BY <1>0, <1>7, <1>p DEF Settled, Settle, DaemonRow
  <1>8. ASSUME NEW r \in Runs, Lapse(r)
        PROVE  BeatingInv'
    BY <1>8, <1>p DEF Lapse
  <1>9. CASE UNCHANGED vars
    BY <1>9, <1>s DEF vars
  <1> QED
    BY <1>1, <1>2, <1>3, <1>4, <1>5, <1>6, <1>7, <1>8, <1>9 DEF Next, DaemonStep

\* Only the pass of a tick goes from the scan to the settlement.
LEMMA ScanIsTick ==
    ASSUME RecoveryInv, [Next]_vars, daemon.phase = "scan", daemon'.phase = "settle"
    PROVE  Scan(TRUE, "settle")
  <1>0. daemon \in DaemonRow /\ DispOK /\ RunOK /\ OutcomeKnown
    BY DEF RecoveryInv, TypeOK, DaemonOK
  <1>d. daemon' # daemon
    OBVIOUS
  <1>1. ~(\E r \in Runs : DispatchStep(r))
    BY <1>0, <1>d, DispatchMoves
  <1>2. ~(\E r \in Runs : Dispatch(r) \/ Lapse(r))
    BY <1>d DEF Dispatch, Lapse
  <1>3. ~(Restart \/ BootPass \/ BootRaises \/ BootReap \/ Heartbeat \/ HeartbeatRaises
          \/ OrphanReap \/ NoReap \/ Settled \/ PassCut)
    BY DEF Restart, BootPass, BootRaises, BootReap, Heartbeat, HeartbeatRaises, OrphanReap,
       NoReap, Settled, PassCut
  <1>4. ~Crash
    BY <1>0 DEF Crash, DaemonRow
  <1>5. ~(\E r \in Runs, kind \in {"requeue", "receipt", "quarantine"} : Settle(r, kind))
    BY DEF Settle
  <1>6. ~UNCHANGED vars
    BY <1>d DEF vars
  <1> QED
    BY <1>1, <1>2, <1>3, <1>4, <1>5, <1>6 DEF Next, DaemonStep, TickPass

\* After a successful heartbeat the staleness-gated scan leaves the claim and
\* the run of a live dispatch alone: no tick requeues work that is going on.
THEOREM LiveNotRequeuedHolds == Spec => LiveNotRequeued
  <1>1. RecoveryInv /\ BeatingInv /\ [Next]_vars =>
          [\A r \in Runs :
             (/\ daemon.phase = "scan" /\ daemon'.phase = "settle" /\ ~daemon.beatError
              /\ Live(r) /\ ~Bound(r)
              /\ InFlight(claim[r].status) /\ ~claim[r].recovered)
                  => run'[r] = run[r] /\ claim'[r] = claim[r]]_vars
    <2> SUFFICES ASSUME RecoveryInv, BeatingInv, [Next]_vars, NEW r \in Runs,
                        daemon.phase = "scan", daemon'.phase = "settle", ~daemon.beatError,
                        ~Bound(r), InFlight(claim[r].status), ~claim[r].recovered
                 PROVE  run'[r] = run[r] /\ claim'[r] = claim[r]
      OBVIOUS
    <2>1. Scan(TRUE, "settle")
      BY ScanIsTick
    <2>2. ~Stale(r)
      BY DEF BeatingInv, Stale
    <2>3. Verdict(r, TRUE) = "skip"
      BY <2>2 DEF Verdict
    <2>4. SettledRun(r, "skip") = run[r] /\ SettledClaim(r, "skip") = claim[r]
      BY <2>2 DEF SettledRun, SettledClaim
    <2> QED
      BY <2>1, <2>3, <2>4 DEF Scan
  <1> QED
    BY RecoveryInvHolds, BeatingInit, BeatingNext, <1>1, PTL DEF Spec, LiveNotRequeued

=============================================================================
