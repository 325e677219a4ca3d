----------------------------- MODULE Reconciler -----------------------------
(***************************************************************************)
(* Crash recovery of dispatched work: graph/reconciler.py, its settlement  *)
(* of the task board, and the reapers of swarm.py, against the records     *)
(* that runtime_lifecycle.py and the orchestrator write around a dispatch. *)
(*                                                                         *)
(* One task.  Every dispatch of it is a run with a claim row and a         *)
(* delegation_runs row; the provider call is fenced by one idempotency     *)
(* record per agent.  The daemon may die between any two writes; what it   *)
(* wrote stays, its coroutines are gone, and the agents of the next        *)
(* incarnation have new ids: the number of the incarnation is the agent.   *)
(***************************************************************************)
EXTENDS Naturals

CONSTANTS
    Runs,           \* run ids, one per dispatch
    None,
    MaxEpoch,       \* bound: incarnations of the daemon
    MaxRetries,     \* the task's max_retries, for failures the daemon survives
    QuarantineAt,   \* max_retries of the reconciler
    Faults,         \* what may go wrong besides a crash, see FaultKinds
    MaxFaults       \* bound: how often, all kinds together

FaultKinds ==
    {"record",      \* a claim or run record is not written, and nobody notices
     "complete",    \* the completion of the idempotency record is not written
     "persist",     \* the receipt is not written to delegation_runs
     "beat",        \* the heartbeat of a tick raises
     "honors",      \* a result comes without a passing judge pack
     "boot",        \* the boot pass raises
     "limit",       \* the 10 s limit ends a tick's pass after its commit
     "board"}       \* a board call of a pass raises and is swallowed

ASSUME NoneNoRun == None \notin Runs
ASSUME EpochType == MaxEpoch \in Nat \ {0}
ASSUME LimitTypes == MaxRetries \in Nat /\ QuarantineAt \in Nat /\ MaxFaults \in Nat
ASSUME FaultsType == Faults \subseteq FaultKinds

Epochs == 1..MaxEpoch

VARIABLES
    task,       \* the board: status of the task
    owner,      \* the board: assigned_to, 0 when nobody
    retries,    \* the board: metadata retry_count
    claim,      \* task_claims
    run,        \* delegation_runs
    idem,       \* idempotency_records: the provider call of the task per agent
    disp,       \* the dispatch coroutine of each run
    daemon,     \* incarnation, phase of init or tick, and the pass under way
    faults      \* how many faults there were

board == <<task, owner, retries>>
tables == <<claim, run, idem>>
vars == <<task, owner, retries, claim, run, idem, disp, daemon, faults>>

Lifecycle == INSTANCE TaskLifecycle WITH Tasks <- {None}, status <- [t \in {None} |-> task]

\* A fault of kind f happens in this step.
Fault(f) == f \in Faults /\ faults < MaxFaults /\ faults' = faults + 1

NoFault == UNCHANGED faults

InFlight(s) == s \in {"claimed", "running"}

NoClaim == [status |-> "none", started |-> FALSE, lapsed |-> FALSE,
            recovered |-> FALSE, retries |-> 0]
NoRun == [status |-> "none", receipt |-> "none", quarantined |-> FALSE]
NoCall == [run |-> None, status |-> "none"]

\* A dispatch: where it is, its agent, the retry_count it started with, how
\* its call ended, and the run whose receipt it returns (a memo's own run).
Fresh == [pc |-> "new", agent |-> 0, count |-> 0, out |-> "none", of |-> None]

Live(r) == disp[r].pc \notin {"new", "done", "dead"}

Init ==
    /\ task = "pending" /\ owner = 0 /\ retries = 0
    /\ claim = [r \in Runs |-> NoClaim]
    /\ run = [r \in Runs |-> NoRun]
    /\ idem = [a \in Epochs |-> NoCall]
    /\ disp = [r \in Runs |-> Fresh]
    /\ daemon = [epoch |-> 1, phase |-> "up", todo |-> {}, bootError |-> FALSE,
                 beatError |-> FALSE]
    /\ faults = 0

-----------------------------------------------------------------------------
(* The board, through its table of transitions *)

Accepts(new) == <<task, new>> \in Lifecycle!Transitions

\* _safe_update_task and the board calls of the reconciler: a rejected move
\* raises and is swallowed.
SafeUpdate(new) == task' = IF Accepts(new) THEN new ELSE task

\* TaskBoard.requeue: every status but completed goes back to pending.
RequeueTask ==
    IF task = "completed" THEN UNCHANGED <<task, owner>>
                          ELSE task' = "pending" /\ owner' = 0

-----------------------------------------------------------------------------
(* What a dispatch records: the upserts of runtime_lifecycle.py *)

Up == daemon.phase \in {"up", "reap", "scan", "settle"}

At(r, pc) == Up /\ disp[r].pc = pc

Go(r, pc) == disp' = [disp EXCEPT ![r].pc = pc]

\* record_task_claim overwrites the row, a recovery of it included; an
\* acknowledged status also beats the heart.
RecordClaim(r, s) ==
    \/ /\ NoFault
       /\ claim' = [claim EXCEPT ![r] =
              [status |-> s, started |-> s # "claimed", recovered |-> FALSE,
               lapsed |-> FALSE, retries |-> disp[r].count]]
    \/ Fault("record") /\ UNCHANGED claim

\* record_delegation_run overwrites the status, whatever it was; the receipt
\* and the quarantine are columns it does not touch.
RecordRun(r, s) ==
    \/ NoFault /\ run' = [run EXCEPT ![r].status = s]
    \/ Fault("record") /\ UNCHANGED run

-----------------------------------------------------------------------------
(* A dispatch: _assign_dispatch and _execute_task *)

\* A ready task that the process does not run already gets a new run.
Dispatch(r) ==
    /\ Up /\ disp[r] = Fresh
    /\ task = "pending"
    /\ \A q \in Runs : ~Live(q)
    /\ task' = "assigned" /\ owner' = daemon.epoch
    /\ disp' = [disp EXCEPT ![r] = [Fresh EXCEPT !.pc = "claim", !.agent = daemon.epoch,
                                                 !.count = retries]]
    /\ UNCHANGED <<retries, tables, daemon, faults>>

ClaimRecorded(r) ==
    /\ At(r, "claim")
    /\ RecordClaim(r, "claimed")
    /\ Go(r, "run")
    /\ UNCHANGED <<board, run, idem, daemon>>

RunRecorded(r) ==
    /\ At(r, "run")
    /\ RecordRun(r, "claimed")
    /\ Go(r, "start")
    /\ UNCHANGED <<board, claim, idem, daemon>>

StartTask(r) ==
    /\ At(r, "start")
    /\ SafeUpdate("running")
    /\ Go(r, "ack")
    /\ UNCHANGED <<owner, retries, tables, daemon, faults>>

ClaimAcked(r) ==
    /\ At(r, "ack")
    /\ RecordClaim(r, "running")
    /\ Go(r, "exec")
    /\ UNCHANGED <<board, run, idem, daemon>>

RunStarted(r) ==
    /\ At(r, "exec")
    /\ RecordRun(r, "running")
    /\ Go(r, "invoke")
    /\ UNCHANGED <<board, claim, idem, daemon>>

Record(r) == idem[disp[r].agent]

\* The call of r has ended, with the receipt of run q.
Ends(r, o, q) ==
    disp' = [disp EXCEPT ![r] = [@ EXCEPT !.pc = "persist", !.out = o, !.of = q]]

\* The durable invoker: replay a completed call of this agent, or claim the
\* record; a record some call left started is refused until it is stale.
Invoke(r) ==
    /\ At(r, "invoke")
    /\ \/ /\ Record(r).status = "ok"
          /\ Ends(r, "ok", Record(r).run)
          /\ UNCHANGED idem
       \/ /\ Record(r).status # "ok"
          /\ idem' = [idem EXCEPT ![disp[r].agent] = [run |-> r, status |-> "started"]]
          /\ Go(r, "call")
       \/ /\ Record(r).status = "started"
          /\ Go(r, "fail") /\ UNCHANGED idem
    /\ UNCHANGED <<board, claim, run, daemon, faults>>

\* The provider call ends and completes the record with its receipt.
CallEnds(r) ==
    /\ At(r, "call")
    /\ \E o \in {"ok", "failed"} :
         /\ Ends(r, o, r)
         /\ \/ NoFault /\ idem' = [idem EXCEPT ![disp[r].agent].status = o]
            \/ Fault("complete") /\ UNCHANGED idem
    /\ UNCHANGED <<board, claim, run, daemon>>

\* persist_evidence_receipt: onto the row of the run the receipt names; without
\* such a row it raises and the receipt is not stored.
StoreReceipt(r) == run' = IF run[disp[r].of].status = "none" THEN run
                          ELSE [run EXCEPT ![disp[r].of].receipt = disp[r].out]

\* The receipt is stored, then a good result goes on to completion, unless the
\* honors checkpoint refuses it.
Persist(r) ==
    /\ At(r, "persist")
    /\ \/ NoFault /\ StoreReceipt(r) /\ Go(r, IF disp[r].out = "ok" THEN "complete" ELSE "fail")
       \/ Fault("persist") /\ UNCHANGED run
          /\ Go(r, IF disp[r].out = "ok" THEN "complete" ELSE "fail")
       \/ disp[r].out = "ok" /\ Fault("honors") /\ StoreReceipt(r) /\ Go(r, "fail")
    /\ UNCHANGED <<board, claim, idem, daemon>>

CompleteTask(r) ==
    /\ At(r, "complete")
    /\ SafeUpdate("completed")
    /\ Go(r, "claim done")
    /\ UNCHANGED <<owner, retries, tables, daemon, faults>>

ClaimCompleted(r) ==
    /\ At(r, "claim done")
    /\ RecordClaim(r, "completed")
    /\ Go(r, "run done")
    /\ UNCHANGED <<board, run, idem, daemon>>

RunCompleted(r) ==
    /\ At(r, "run done")
    /\ RecordRun(r, "completed")
    /\ Go(r, "done")
    /\ UNCHANGED <<board, claim, idem, daemon>>

\* _handle_task_failure: FAILED, then PENDING while retries are left.
FailTask(r) ==
    /\ At(r, "fail")
    /\ SafeUpdate("failed")
    /\ retries' = IF Accepts("failed") /\ disp[r].count < MaxRetries
                  THEN disp[r].count + 1 ELSE retries
    /\ Go(r, IF disp[r].count < MaxRetries THEN "retry" ELSE "claim failed")
    /\ UNCHANGED <<owner, tables, daemon, faults>>

RetryTask(r) ==
    /\ At(r, "retry")
    /\ RequeueTask
    /\ retries' = IF task = "completed" THEN retries ELSE disp[r].count + 1
    /\ Go(r, "claim failed")
    /\ UNCHANGED <<tables, daemon, faults>>

ClaimFailed(r) ==
    /\ At(r, "claim failed")
    /\ RecordClaim(r, "failed")
    /\ Go(r, "run failed")
    /\ UNCHANGED <<board, run, idem, daemon>>

RunFailed(r) ==
    /\ At(r, "run failed")
    /\ RecordRun(r, "failed")
    /\ Go(r, "done")
    /\ UNCHANGED <<board, claim, idem, daemon>>

DispatchStep(r) ==
    \/ ClaimRecorded(r) \/ RunRecorded(r) \/ StartTask(r) \/ ClaimAcked(r)
    \/ RunStarted(r) \/ Invoke(r) \/ CallEnds(r) \/ Persist(r) \/ CompleteTask(r)
    \/ ClaimCompleted(r) \/ RunCompleted(r)
    \/ FailTask(r) \/ RetryTask(r) \/ ClaimFailed(r) \/ RunFailed(r)

-----------------------------------------------------------------------------
(* One reconcile pass *)

\* has_runtime_completion: the idempotency record names this very run, with
\* the outcome of the receipt.
Bound(r) ==
    /\ run[r].receipt # "none"
    /\ claim[r].status # "none"
    /\ idem[disp[r].agent] = [run |-> r, status |-> run[r].receipt]

\* _claim_is_stale: past stale_after and past its heartbeat lease.
Stale(r) == claim[r].status # "none" /\ claim[r].lapsed

\* Mutant: the boot pass, too, waits for claims to expire.
VerdictAlwaysStale(r, staleOnly) ==
    IF ~InFlight(run[r].status) \/ run[r].quarantined THEN "skip"
    ELSE IF Bound(r) THEN "receipt"
    ELSE IF ~Stale(r) THEN "skip"
    ELSE "requeue"

\* _reconcile_run_row: what a pass does with a run.
Verdict(r, staleOnly) ==
    IF ~InFlight(run[r].status) \/ run[r].quarantined THEN "skip"
    ELSE IF Bound(r) THEN "receipt"
    ELSE IF staleOnly /\ ~Stale(r) THEN "skip"
    ELSE IF claim[r].started /\ claim[r].retries >= QuarantineAt THEN "quarantine"
    ELSE "requeue"

Outcome(r) == IF run[r].receipt = "ok" THEN "completed" ELSE "failed"

\* Mutant: a receipt completes its run whatever its status.
SettledRunAnyReceipt(r, v) ==
    CASE v = "receipt" -> [run[r] EXCEPT !.status = "completed"]
      [] v = "requeue" -> [run[r] EXCEPT !.status = "failed"]
      [] v = "quarantine" -> [run[r] EXCEPT !.status = "failed", !.quarantined = TRUE]
      [] OTHER -> run[r]

\* _complete_from_receipt, _requeue_run, _quarantine_run.
SettledRun(r, v) ==
    CASE v = "receipt" -> [run[r] EXCEPT !.status = Outcome(r)]
      [] v = "requeue" -> [run[r] EXCEPT !.status = "failed"]
      [] v = "quarantine" -> [run[r] EXCEPT !.status = "failed", !.quarantined = TRUE]
      [] OTHER -> run[r]

Recovered(c) == [c EXCEPT !.status = "recovered", !.recovered = TRUE,
                          !.retries = @ + 1]

\* The run's claim, and every other claim in flight that is stale by now
\* (_recover_stale_claims).
SettledClaim(r, v) ==
    CASE v = "receipt" /\ InFlight(claim[r].status) ->
            [claim[r] EXCEPT !.status = Outcome(r), !.recovered = TRUE]
      [] v \in {"requeue", "quarantine"} /\ claim[r].status # "none" ->
            Recovered(claim[r])
      [] v = "skip" /\ InFlight(claim[r].status) /\ ~claim[r].recovered /\ Stale(r) ->
            Recovered(claim[r])
      [] OTHER -> claim[r]

\* reconcile up to its commit: one BEGIN IMMEDIATE transaction.
Scan(staleOnly, next) ==
    /\ run' = [r \in Runs |-> SettledRun(r, Verdict(r, staleOnly))]
    /\ claim' = [r \in Runs |-> SettledClaim(r, Verdict(r, staleOnly))]
    /\ daemon' = [daemon EXCEPT !.phase = next,
                     !.todo = {<<r, Verdict(r, staleOnly)>> : r \in Runs}
                                 \ {<<r, "skip">> : r \in Runs}]
    /\ UNCHANGED <<board, idem, disp, faults>>

Rank(kind) == CASE kind = "requeue" -> 1 [] kind = "receipt" -> 2 [] OTHER -> 3

\* settle_task_board, one run: requeued runs first, then the receipts, then
\* the quarantined; the run's status is read again.
Settle(r, kind) ==
    /\ daemon.phase \in {"boot settle", "settle"}
    /\ <<r, kind>> \in daemon.todo
    /\ \A item \in daemon.todo : Rank(kind) <= Rank(item[2])
    /\ \/ NoFault /\ CASE kind = "requeue" -> RequeueTask
                      [] kind = "receipt" /\ run[r].status = "completed" ->
                             SafeUpdate("completed") /\ UNCHANGED owner
                      [] OTHER -> SafeUpdate("failed") /\ UNCHANGED owner
       \/ Fault("board") /\ UNCHANGED <<task, owner>>
    /\ daemon' = [daemon EXCEPT !.todo = @ \ {<<r, kind>>}]
    /\ UNCHANGED <<retries, tables, disp>>

Settled ==
    /\ daemon.phase \in {"boot settle", "settle"} /\ daemon.todo = {}
    /\ daemon' = [daemon EXCEPT !.phase = IF @ = "settle" THEN "up" ELSE "boot reap"]
    /\ UNCHANGED <<board, tables, disp, faults>>

-----------------------------------------------------------------------------
(* SwarmManager.init and tick *)

BootPass == daemon.phase = "boot" /\ Scan(FALSE, "boot settle")

\* The boot pass raises, before its commit or at a later read of a run, and
\* leaves the rest of the board as it is: "non-fatal", the reaper runs all the
\* same.
BootRaises ==
    /\ daemon.phase \in {"boot", "boot settle"} /\ Fault("boot")
    /\ daemon' = [daemon EXCEPT !.phase = "boot reap", !.todo = {},
                                !.bootError = @ \/ daemon.phase = "boot"]
    /\ UNCHANGED <<board, tables, disp>>

\* _reap_stale_running_tasks, if the task is in RUNNING for six hours; then
\* init ends with new agents and ticks begin.
BootReap ==
    /\ daemon.phase = "boot reap"
    /\ task' \in (IF task = "running" THEN {"running", "failed"} ELSE {task})
    /\ daemon' = [daemon EXCEPT !.phase = "up"]
    /\ UNCHANGED <<owner, retries, tables, disp, faults>>

Beaten(due) ==
    [r \in Runs |-> IF r \in due THEN [claim[r] EXCEPT !.started = TRUE, !.lapsed = FALSE]
                    ELSE claim[r]]

\* Mutant: only acknowledged claims are kept alive.
HeartbeatRunning ==
    /\ daemon.phase = "up"
    /\ claim' = Beaten({r \in Runs : claim[r].status = "running" /\ ~claim[r].recovered})
    /\ daemon' = [daemon EXCEPT !.phase = "reap", !.beatError = FALSE]
    /\ UNCHANGED <<board, run, idem, disp, faults>>

\* heartbeat_live_claims, before any scan of the tick: of the claims in flight
\* that were not recovered, whoever made them, all that have lapsed and those
\* whose last beat is a third of the lease ago.
Heartbeat ==
    /\ daemon.phase = "up"
    /\ LET live == {r \in Runs : InFlight(claim[r].status) /\ ~claim[r].recovered}
       IN \E due \in SUBSET live :
            /\ {r \in live : claim[r].lapsed} \subseteq due
            /\ claim' = Beaten(due)
    /\ daemon' = [daemon EXCEPT !.phase = "reap", !.beatError = FALSE]
    /\ UNCHANGED <<board, run, idem, disp, faults>>

HeartbeatRaises ==
    /\ daemon.phase = "up" /\ Fault("beat")
    /\ daemon' = [daemon EXCEPT !.phase = "reap", !.beatError = TRUE]
    /\ UNCHANGED <<board, tables, disp>>

\* Mutant: the reaper looks at running tasks only.
OrphanReapRunning ==
    /\ daemon.phase = "reap"
    /\ task = "running" /\ owner # daemon.epoch
    /\ RequeueTask
    /\ daemon' = [daemon EXCEPT !.phase = "scan"]
    /\ UNCHANGED <<retries, tables, disp, faults>>

\* reap_orphaned_tasks: an assigned or running task of an agent that is not in
\* the pool goes back to pending, once it was not touched for 30 minutes.
OrphanReap ==
    /\ daemon.phase = "reap"
    /\ task \in {"assigned", "running"} /\ owner # daemon.epoch
    /\ RequeueTask
    /\ daemon' = [daemon EXCEPT !.phase = "scan"]
    /\ UNCHANGED <<retries, tables, disp, faults>>

\* Nothing to reap, or it is too early.
NoReap ==
    /\ daemon.phase = "reap"
    /\ daemon' = [daemon EXCEPT !.phase = "scan"]
    /\ UNCHANGED <<board, tables, disp, faults>>

TickPass == daemon.phase = "scan" /\ Scan(TRUE, "settle")

\* wait_for(reconcile, 10 s) cancels the pass between two board calls, or the
\* read of a run raises.
PassCut ==
    /\ daemon.phase = "settle" /\ daemon.todo # {} /\ Fault("limit")
    /\ daemon' = [daemon EXCEPT !.phase = "up", !.todo = {}]
    /\ UNCHANGED <<board, tables, disp>>

\* Time passes: a claim, whatever its status, is past stale_after and its
\* lease.  Within a tick, heartbeat and scan are closer than a lease.  Once
\* neither the claim nor its run is in flight no pass looks at its age again.
Lapse(r) ==
    /\ daemon.phase \in {"up", "down"}
    /\ claim[r].status # "none" /\ ~claim[r].lapsed
    /\ InFlight(claim[r].status) \/ InFlight(run[r].status)
    /\ claim' = [claim EXCEPT ![r].lapsed = TRUE]
    /\ UNCHANGED <<board, run, idem, disp, daemon, faults>>

\* The daemon dies: the coroutines and the pass under way are gone.
Crash ==
    /\ daemon.phase # "down" /\ daemon.epoch < MaxEpoch
    /\ disp' = [r \in Runs |-> IF Live(r) THEN [disp[r] EXCEPT !.pc = "dead"] ELSE disp[r]]
    /\ daemon' = [daemon EXCEPT !.phase = "down", !.todo = {}]
    /\ UNCHANGED <<board, tables, faults>>

Restart ==
    /\ daemon.phase = "down"
    /\ daemon' = [daemon EXCEPT !.epoch = @ + 1, !.phase = "boot", !.bootError = FALSE,
                                !.beatError = FALSE]
    /\ UNCHANGED <<board, tables, disp, faults>>

DaemonStep ==
    \/ Restart \/ BootPass \/ BootRaises \/ BootReap
    \/ Heartbeat \/ HeartbeatRaises \/ OrphanReap \/ NoReap \/ TickPass
    \/ \E r \in Runs, kind \in {"requeue", "receipt", "quarantine"} : Settle(r, kind)
    \/ Settled

Next ==
    \/ \E r \in Runs : Dispatch(r) \/ DispatchStep(r) \/ Lapse(r)
    \/ DaemonStep \/ PassCut \/ Crash

Spec == Init /\ [][Next]_vars

\* The event loop runs a ready coroutine, every call ends, a dead daemon is
\* started again, ticks go on, and a task nobody touches gets 30 minutes old.
FairSpec ==
    /\ Spec
    /\ \A r \in Runs : WF_vars(DispatchStep(r))
    /\ WF_vars(DaemonStep)
    /\ SF_vars(OrphanReap)

-----------------------------------------------------------------------------
(* Properties *)

DispatchPhases ==
    {"new", "claim", "run", "start", "ack", "exec", "invoke", "call", "persist",
     "complete", "claim done", "run done", "fail", "retry", "claim failed",
     "run failed", "done", "dead"}
DaemonPhases ==
    {"down", "boot", "boot settle", "boot reap", "up", "reap", "scan", "settle"}
RecordStatus == {"none", "claimed", "running", "completed", "failed"}
CallStatus == {"none", "ok", "failed"}

ClaimRow == [status : RecordStatus \cup {"recovered"}, started : BOOLEAN,
             lapsed : BOOLEAN, recovered : BOOLEAN, retries : Nat]
RunRow == [status : RecordStatus, receipt : CallStatus, quarantined : BOOLEAN]
CallRow == [run : Runs \cup {None}, status : CallStatus \cup {"started"}]
DispRow == [pc : DispatchPhases, agent : 0..MaxEpoch, count : Nat,
            out : CallStatus, of : Runs \cup {None}]
DaemonRow == [epoch : Epochs, phase : DaemonPhases,
              todo : SUBSET (Runs \X {"requeue", "receipt", "quarantine"}),
              bootError : BOOLEAN, beatError : BOOLEAN]

BoardOK == task \in Lifecycle!Statuses /\ owner \in 0..MaxEpoch /\ retries \in Nat
ClaimOK == claim \in [Runs -> ClaimRow]
RunOK == run \in [Runs -> RunRow]
IdemOK == idem \in [Epochs -> CallRow]
DispOK == disp \in [Runs -> DispRow]
DaemonOK == daemon \in DaemonRow
FaultsOK == faults \in 0..MaxFaults

\* Every variable has its type.
TypeOK == BoardOK /\ ClaimOK /\ RunOK /\ IdemOK /\ DispOK /\ DaemonOK /\ FaultsOK

\* A run the reconciler may still have to settle.
Open(r) == InFlight(run[r].status) /\ ~run[r].quarantined

Booted == daemon.phase \notin {"down", "boot"} /\ ~daemon.bootError

\* "anything still in-flight ... at boot is orphaned by definition", and the
\* boot pass settles all of it: once it has committed, every open run is one
\* of this incarnation, however late the last one died.
BootSettles == Booted => \A r \in Runs : Open(r) => disp[r].agent = daemon.epoch

\* A run is completed, by its own records or from its receipt, only if its
\* call ended ok, and the task only if the call of some run did: no torn
\* write or late pass turns a failed or unfinished call into a result.
CompletedMeansDone ==
    /\ \A r \in Runs : run[r].status = "completed" => disp[r].out = "ok"
    /\ task = "completed" => \E r \in Runs : disp[r].out = "ok"

\* The strengthening that makes both inductive: a coroutine that lives is of
\* this incarnation and the only one, and whatever says that a call ended ok
\* (the coroutine, its record, its receipt) says it of a call that did.
LiveHere ==
    \A r \in Runs : Live(r) =>
        /\ Up
        /\ disp[r].agent = daemon.epoch
        /\ \A q \in Runs : Live(q) => q = r

DownCanRestart == daemon.phase = "down" => daemon.epoch < MaxEpoch

BeforeCall == {"new", "claim", "run", "start", "ack", "exec", "invoke", "call"}
AfterOk == {"complete", "claim done", "run done"}

OutcomeKnown ==
    \A r \in Runs :
        /\ disp[r].pc \in BeforeCall => disp[r].out = "none"
        /\ disp[r].pc \in AfterOk => disp[r].out = "ok"
        /\ disp[r].pc = "call" => idem[disp[r].agent].run = r
        /\ disp[r].pc = "persist" =>
              /\ disp[r].of \in Runs
              /\ disp[r].out = "ok" => disp[disp[r].of].out = "ok"

ReceiptsGenuine ==
    /\ \A a \in Epochs : idem[a].status = "ok" =>
            idem[a].run \in Runs /\ disp[idem[a].run].out = "ok"
    /\ \A r \in Runs : run[r].receipt = "ok" => disp[r].out = "ok"

\* The inductive invariant of crash recovery.
RecoveryInv ==
    /\ TypeOK
    /\ LiveHere
    /\ DownCanRestart
    /\ OutcomeKnown
    /\ ReceiptsGenuine
    /\ BootSettles
    /\ CompletedMeansDone

\* "Heartbeat live claims every tick, before any staleness-gated reconcile":
\* a scan after a successful heartbeat leaves the run of a live dispatch
\* alone, unless it has its receipt or its claim was recovered before.
LiveNotRequeued ==
    [][\A r \in Runs :
          (/\ daemon.phase = "scan" /\ daemon'.phase = "settle" /\ ~daemon.beatError
           /\ Live(r) /\ ~Bound(r)
           /\ InFlight(claim[r].status) /\ ~claim[r].recovered)
               => run'[r] = run[r] /\ claim'[r] = claim[r]]_vars

\* Nobody holds the task for ever: wherever the daemon dies and whatever
\* record is lost, the task leaves assigned and running again.
NeverStuck == task \in {"assigned", "running"} ~> task \notin {"assigned", "running"}

\* An ok call whose receipt is stored and bound.
Receipted == \E r \in Runs : run[r].receipt = "ok" /\ Bound(r)

\* "kill -9 -> reconcile -> zero double-execution": once an ok call has its
\* receipt, the provider is not called again for the task.
ZeroDoubleExecution ==
    [][Receipted => \A r \in Runs : disp'[r].pc = "call" => disp[r].pc = "call"]_vars

=============================================================================
