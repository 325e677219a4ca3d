# A verification project for dharma_swarm

TLA+ modules for the part of `dharma_swarm` that decides which task runs where,
how often, and what survives a failure: the task board, the orchestrator that
dispatches from it, the fenced provider call underneath, the recovery of what a
dead daemon left behind, the message bus, and the operator's queue of work
orders. TLC checks small instances; TLAPS proves every safety property of these
runs for every value of the constants.

## 1. The system

`dharma_swarm` is a daemon (one asyncio process, `SwarmManager.tick` in a loop)
with SQLite files that other processes (API, CLI, operator tools, a second
daemon by mistake) open too. The path of one task:

    create -> task board (pending) -> Orchestrator.tick / route_next
           -> _assign_dispatch (assigned, claimed, notified, running)
           -> background _execute_task -> DurableInvoker -> provider
           -> board (completed, or failed and perhaps pending again)
    a crash anywhere -> boot reconcile, reapers, heartbeat and scan of the ticks

Beside it, agents and operators exchange messages (`message_bus.py`), and work
orders for outside workers go through a queue of their own
(`operator_bridge.py`) that mirrors its claims to the same runtime store.

### Inventory

| Component | State it keeps | Operations | Interacts with | What is hard | What makes it correct |
|---|---|---|---|---|---|
| Task board (`task_board.py`) | `tasks`, `task_dependencies` tables | create, create_batch, add_dependency, assign, start, complete, fail, cancel, requeue, update_task, ready query | everybody | check and write are two statements; requeue is up to five; callers die in between | only legal moves; a satisfied dependency stays satisfied; a completed task stays completed |
| Orchestrator and BSP barrier (`orchestrator.py`, `orchestrator_bsp.py`) | `_active_dispatches`, `_running_tasks`, task metadata (retry count and limit, back-off, claim) | tick, tick_settle_only, route_next, dispatch, fan_out, fan_in, graceful_stop | board, pool, bus, runtime lifecycle, spine | the tick and each execution interleave at awaits; ticks are cut after 45 s; stragglers are cancelled; every board error is swallowed | one task per agent; bounded executions; nobody loses a claimed task; every task settles |
| Durable invoker (`graph/durable_invoker.py`) | none; the row is in `runtime_state.py` | `__call__` | idempotency records, the inner invoker | several processes race on one row; clocks differ; claims expire during the call; every store call may raise | one holder per token; a stored result is final; replays are genuine; nobody waits on a dead holder |
| Runtime state and lifecycle (`runtime_state.py`, `runtime_lifecycle.py`) | `task_claims`, `delegation_runs`, receipts, `idempotency_records` | upserts of claim and run, receipt, begin, complete, reclaim, heartbeat | orchestrator, reconciler, bus, bridge | written beside the board, not with it; upserts overwrite what recovery wrote | agrees with the board after recovery |
| Graph reconciler (`graph/reconciler.py`, `reconcile_board.py`, `receipt_authority.py`) | none; rewrites the tables above | reconcile at boot and from the tick, heartbeat_live_claims | runtime state, board | commits its tables before it settles the board; must not touch live work | no orphan is left, nothing is completed that was not done, live work is left alone |
| Graph engine (`graph/scheduler.py`, `executor.py`, `persistence*.py`, ...) | channels, checkpoints, journal | superstep, checkpoint, resume, interrupt | none yet in production | crash between journal and checkpoint; reducer order | resume equals an uninterrupted run |
| Message bus (`message_bus.py`, `message_bus_bsp.py`; inbox in `autonomous_agent.py`) | `messages`, events, subscriptions; the agent's list of messages to acknowledge | send, send_staged, receive, mark_read, emit and consume events | orchestrator, agents, bridge | row and idempotency record are in two databases; retries overlap and make up new ids; wakes fail | receipts are never made up; one failure makes no duplicate; nothing is marked read unseen |
| Agent runner and pool (`agent_runner.py`) | runner status, current task | get_idle, assign, release, run_task | orchestrator | an assigned agent is IDLE until its run starts | busy agents are not handed out |
| Swarm manager (`swarm.py`) | thread and daemon state | init, tick, dispatch_next, reapers | all | time limits around everything; new agent ids after each start | what it cuts or drops is recovered |
| Board facade and outbox (`board/`) | event log, outbox | append, drain | board | crash between log and board | replay is idempotent |
| Operator bridge (`operator_bridge.py`, `roaming_operator_bridge.py`) | `operator_bridge_tasks`, mirrored claims and runs | enqueue, claim, acknowledge, heartbeat, artifact, respond, recover, acknowledge the response | bus, runtime state | metadata is read, changed and written back whole; answers are checked neither against the claim nor for their status; heartbeats do not renew it | one worker per claim; answered for good stays answered; no response is taken for acknowledged unseen |
| Mission control (`mission_control*.py`) | missions over tasks | create, execute, recover | board, API | second owner of a task | one owner per task |
| Gates and policies (`telos_gates.py`, `yoga_node.py`, `gnani_lodestone.py`) | scores | verdicts | orchestrator | - | verdicts are respected |
| Providers, routing, evolution, memory, UIs, scripts | - | - | - | external services, text, numbers | outside this project |

`PROJECT.json` lists every component with its status, and under `hazards` what
is hard to test, at its line, with the property that watches it.

## 2. The modules

| Module | Models | State |
|---|---|---|
| `TaskLifecycle` | the `_TRANSITIONS` table as an abstract specification | `status` |
| `TaskBoard` | `task_board.py`, statement by statement | `board`, `deps`, `call` (the open call of each client) |
| `TaskBoardProofs` | - | theorems on `TaskBoard` |
| `DurableInvoker` | `DurableInvoker.__call__` and the idempotency statements of `runtime_state.py` | the row, the clock, and per dispatch: program counter, observed row, token, result, answer |
| `DurableInvokerProofs` | - | theorems on `DurableInvoker` |
| `Orchestrator` | `orchestrator.py` and `orchestrator_bsp.py`, await by await | the board's columns it uses, `active`, `expired`, `running`, `bg` (executions), `busy`, `unread`, `router` |
| `OrchestratorProofs` | - | theorems on `Orchestrator` |
| `Reconciler` | `graph/reconciler.py`, `reconcile_board.py`, `receipt_authority.py`, the reapers and the reconcile parts of `swarm.py`, and what a dispatch records | board columns of one task, `claim`, `run`, `idem`, `disp` (dispatch coroutines), `daemon` |
| `ReconcilerProofs` | - | theorems on `Reconciler` |
| `MessageBus` | `send`, `send_staged`, `_resume_unfinished_send`, `receive`, `mark_read`, and the inbox of `autonomous_agent.py` | `messages`, `record`, `call`, `inbox` |
| `MessageBusProofs` | - | theorems on `MessageBus` |
| `OperatorBridge` | `operator_bridge.py` as `roaming_operator_bridge.py` uses it | `row`, `lapsed`, `claim` and `run` (the mirror), `op` (the call of each client), `holds` |
| `OperatorBridgeProofs` | - | theorems on `OperatorBridge` |
| `MC...` | instances for TLC | - |

`Reconciler` composes three of the others on purpose in a coarser form: the board
by its transition table (`Lifecycle!Transitions` of `TaskLifecycle`), the durable
invoker by its answer (replay, claim, refuse), the orchestrator by the writes
of one dispatch in their order.

### TaskBoard

`_set_status` is `Select` (SELECT and check) and `Update` (UPDATE and commit,
with the columns of `Written`); `requeue` is `RequeueGet` followed by the route
it chose (`RequeueRaw`, one `_set_status`, or two). `update_task` with a status opens
such a call (`UpdateTask`, ASSIGNED without an agent included); without one it is a
raw column update under any status (`RawUpdate`), and it rewrites a completed row
too. `Crash` ends a call anywhere. `Exclusive` is a set of tasks and restricts the
callers, not the board: on these at most one status call is open at a time, which is
what the code relies on (one orchestrator owns a task); raw updates are free. The
property `LegalTransitions` fails on the other tasks. Metadata, titles and priorities
are left out.

`ImplementsLifecycle` maps the exclusive tasks to `TaskLifecycle`: every commit on
them, also the one in the middle of a requeue, is a creation or one legal move,
however the other tasks are raced on. Since columns may be rewritten under any
status, nothing is claimed about their agreement with it; `CompletedSticks` says
that a settled completed task keeps its status and that only a raw column write
still changes its row.

### DurableInvoker

All dispatches of one task on one agent derive the same key, so they race on
one row. Each database statement is a step. The ownership token is the row's
`updated_at`, and `NextToken` is `_next_idempotency_token`: never at or below
the token it replaces. `Skew` gives each dispatch its own clock. `Faults` names
the store calls that may raise; a call that commits and then raises is a
disjunct of its own (`BeginInserts`, `MarkStale`, `Reclaim`). `Crash` is also the
cancellation of the coroutine: `CancelledError` is no `Exception`, so no
completion is written. `Prompt` is the caller's promise: the call is under
`wait_for(timeout)` and `stale_after_seconds` is twice that timeout. The recovery
of a receipt through `delegation_runs` is left out; `CompletedRecoverable` shows
that a completed record never needs it. `Retry` is the orchestrator's requeue of
a dispatch that was refused as a duplicate, while retries are left
(`_handle_task_failure`); a refusal lasts until the claim is stale, so the retries
can run out, and no liveness is claimed. What holds is `NotRefusedAlone`: `clear` are
the dispatches that met no live claim and whose row nobody else has written since,
and none of these is refused.

### Orchestrator

One coroutine (`router`) runs tick, tick_settle_only or route_next; every task has
at most one background execution (`bg`). A step is what runs between two awaits
that matter: a board write, a pool or bus call, a gate. `_handle_task_failure` is
two writes, FAILED then PENDING, and both the executions (`BgFails`, `BgRequeues`)
and the router (`RouterFails`, `RouterRequeues`) run it. Faults are switched on by
name: a tick cut at any await, stragglers at the barrier, a send that raises, a
missing runner, a blocking gate, a yoga veto, an exception after the completion,
an operator's cancel. `busy` is the set of agents whose runner is BUSY or has
voted to halt; `pool.assign` does not enter it, because it leaves the agent IDLE.

Abstractions: one router at a time (the manager awaits its tick; `DirectRoute`
adds `dispatch_next` between ticks); a cancelled straggler stops at its await
(the code waits 5 s for that); writes of metadata alone, traces, coordination
refreshes and context bundles have no effect a scheduling decision reads. The
claim deadline and the back-off are events that may happen at any time. An
execution's own timeout is one of the ways `BgRaises` happens.

### Reconciler

One task and all its dispatches. `Dispatch` to `RunFailed` are the writes of
`_assign_dispatch`, `_execute_task` and `_handle_task_failure` in their order, each a
step, so `Crash` falls between any two; the coroutines die with the daemon, the
rows stay. The agent of a dispatch is the number of the incarnation that made
it, because agent ids are new uuids at each start, and with the agent the
idempotency key changes. `Scan` is the one transaction of a pass (`Verdict` per
run: receipt, requeue, quarantine or skip), `Settle` one board update of
`settle_task_board`, in the order requeue, receipt, quarantine. `BootPass` takes
every run in flight, `TickPass` only those whose claim is stale; `Heartbeat` precedes
it in the tick. `Lapse` is the passing of a claim's lease, whatever the status of the
claim (`_claim_is_stale` does not look at it), as long as the claim or its run is
in flight and anyone will read it; it may happen before a tick and not between its
heartbeat and its scan, which are seconds apart. A board write the table rejects is
swallowed (`SafeUpdate`), and so is a database error of a settling write (the fault
`board`). A store in which a record is missing (`record`, `complete`, `persist` among the
faults) is reached because those writes are fail-open in the code. After an ok call
the honors checkpoint may still fail and send the dispatch to
`_handle_task_failure` (the fault `honors`). A boot pass may raise before its commit or,
in `settle_task_board`, after it (`BootRaises`). Left out: cancellation of a dispatch,
`rescue_recent_failures`, failure propagation along dependencies, operator
cancels, and the error of a single row inside a pass.

### MessageBus

A call of `send` is `Begin` (the record in the runtime store, or a conflict if
the same key has another content), `Insert` (the row in `messages.db`) and
`Complete`; a retry that finds the record goes `Resume`, `Probe`, `Reinsert`. Each is
a commit of its own, and `CallFails` ends a call at any of them. A retry carries a
new message id or the old one (`Start`). Without an identity only the insert is
left. The inbox is `wake`: `CheckInbox` takes up to `Limit` messages, `LoopEnds`
ends the prompt with an answer, `LoopBreaks` by the `break` after a provider error,
`AckRead` marks them one by one; `WakeFails`, `CheckFails` and `AckFails` are its
failures. Which of the unread messages `CheckInbox` takes is left open: the code
takes the highest priority and the newest first, so traffic that goes on
starves an old message, and an agent is woken only with a task; no liveness is
claimed. A staged message (key in `StagedKeys`) is never received by this reader, who
asks for superstep 0.

### OperatorBridge

One work order: no statement changes two. `claim_task` and `recover_stale_tasks` are
transactions (`Claim`, `Recover`); every other call reads the row, writes the whole
metadata back (`WriteMeta`, `WriteResponse`), reads it again (`Reread`) and mirrors the
status to the runtime store (`MirrorClaim`, `MirrorRun`), with calls of others in
between. `Report` checks the claim, `Partial` and `Respond` do not, as in the code. A
worker answers with any status of the set `Answers`, an arbitrary constant:
`respond_task` stores what the worker's JSON says. An answer `queued` makes the order
claimable again, an answer `in_progress` leaves it to the sweep (a row without a
claimant is stale at once, `Stale`), and a status that `_runtime_completion_status` does
not know reaches the runtime store as it is, or as `failed` if an error came with it
(`Outcomes`). Statuses are taken in lower case and not empty. `Closing` are all
statuses but `queued` and `in_progress`, which is the line
`list_unacknowledged_responses` draws too. A worker keeps the order from the end of
its claim to the end of its response (`Ended`: the adapter collects one response per
dispatch), whatever the sweeper did meanwhile. `clean`, `said` and `reopened` are history
variables: no other call overlapped a response and no response was cut short (the
premise of two properties, see below for what happens without); the status of the
last response; how many responses said `queued`.

## 3. The runs

| Run | Instance | Shows |
|---|---|---|
| `board_mixed` | 2 tasks, 2 clients, 1 agent; one task exclusive, any overlap on the other | the exclusive task implements the lifecycle, satisfied dependencies stay so, a settled completed task keeps its status, the inductive invariant holds |
| `board_race` | 1 task, 2 clients | **violation**: the check and the UPDATE are not one transaction, so an illegal move is committed |
| `durable_faults` | 3 dispatches of 2 runs, one clock ahead, all store calls failing, calls outliving claims | unique and growing tokens, genuine memos, completed records recoverable |
| `durable_prompt` | the same with one clock, no store failure, calls end in time, crashes allowed, 2 retries | one fenced call at a time, one fresh stored result, stored results final, nobody is refused without a live claim in the way |
| `orchestrator_faults` | 2 tasks, 2 agents, all faults | one task per agent; executions bounded by the largest retry limit plus one |
| `orchestrator_direct` | the same with `dispatch_next` | no second execution of a task beside a live one |
| `orchestrator_steady` | a task and its dependent, fair; no cut tick, no failing send | dependencies first, no lost claim, halted means idle, every task settles |
| `reconciler_crashes` | 2 runs, 3 incarnations, one fault of any kind, fair | boot settles every orphan, completed means done, live work is not requeued, the task is never held for ever |
| `reconciler_double` | 2 runs, 2 incarnations, no fault but the crash | **violation**: a crash between the commit of a pass and its board update leads to a second provider call for a receipted task |
| `bus_retries` | 3 calls, a visible and a staged key, 2 contents, inbox of 1, one fault | no fabricated receipt, no duplicate after one failure, stable receipts, read means prompted |
| `bus_provider_error` | 1 message, one fault | **violation**: a provider error breaks the loop, and the messages of the prompt are marked read all the same, against the comment above `_ack_inbox` |
| `bridge_late` | 2 workers, sweeper, operator, 2 answers that are `done` or `in_progress`, one fault | holders bounded, answered for good sticks, no silent drop-off, the mirror settles |

`TypeOK` is the first conjunct of `FenceInv`, `ExclusiveInv`, `RecoveryInv` and
`ReceiptInv`, and is checked with them.

The `findings` of `PROJECT.json` quote, for each violation, the line it
contradicts.

### Where a checked property has a premise, and what happens without it

- `ClaimsOwned` and `HaltedMeansNoWork` (orchestrator) are checked without failing
  sends and cut ticks, and `ClaimsOwned` without stragglers and drop-offs (section 4). With a send that raises, a claim that expires with no retry left is
  written FAILED from ASSIGNED, which the board rejects; the error is swallowed and
  the task stays assigned to nobody (`orchestrator.py:2058`), and the halt test, which ignores
  claims, can stop the ticks that would expire it (`orchestrator_bsp.py:178`). A tick
  cut between the ASSIGNED commit and the entry in `_active_dispatches` loses its
  task the same way. The orphan reaper finds it only after the next restart.
- `OneTaskPerAgent` is checked for ticks, whose barrier keeps routers apart. With
  `dispatch_next` between ticks, an assigned agent still counts as idle and is given
  a second task (`orchestrator.py:2284`).
- `MemoizableIsFinal` is checked without failing reads. With them, a second memo
  probe that raises is taken for a miss, and a completed, stored result is
  reclaimed (`durable_invoker.py:520`).
- `DeliveredOnce` allows one failed call per key. After two, the record still
  names the first id, the row has the second, and a third retry with a third id
  inserts a duplicate (`message_bus.py:274`). `ReceiptStable` excludes overlapping
  calls: the completion of a late original replaces the receipt of its retry.
- `NoSilentDropOff` and `RunSettled` (bridge) have `clean` as premise. A report or an
  acknowledgement that overlaps a response writes back metadata from before it, and an
  operator who acknowledges between the response message and the runtime mirror
  makes the mirror of the acknowledgement write the old run status over the
  outcome (`operator_bridge.py:1515`). Neither property catches these two hazards,
  which are outside its premise.
- `AnsweredSticks` and `RunSettled` speak of answers that are neither `queued` nor
  `in_progress`: with these two an answered order is claimed or swept again. The second
  worker this brings, like the one a sweep brings while the first still works, is
  counted by `HoldersBounded`, which allows it.
- A crash between the claim row and the run row of a dispatch leaves a claim that
  boot does not recover unless it is stale, and that the heartbeat then renews
  for ever; it has no effect on the task, and `NeverStuck` holds
  (`reconciler.py:460`).

### Bounds and why they are enough

- `durable_*`: three dispatches give a holder, a taker and a third that acts on
  an outdated observation; two of them share a run, so a redelivery is
  covered. `StaleAfter = 1, MaxClock = 2` and one clock a unit
  ahead let a claim expire, its successor expire, and an old holder return; with `Prompt`
  the limit of 2 leaves room for a call that lasts a unit. The clock advances only
  while a claim can still expire, so `MaxClock = 30` is never reached there and
  does not cut behaviours off. One retry of each dispatch (two with `Prompt`) comes back
  after a refusal to what the others left.
- `board_*`: the properties speak of a task and at most one dependency; two clients
  are the smallest race, and `board_mixed` has a task with and one without races,
  each of which may depend on the other.
- `orchestrator_*`: two tasks and two agents are the smallest instance where
  an agent can be given twice and a slot can be missing; `MaxRetries = 0`,
  `SoftLimit = 1` gives failures without a retry, with one by class, and the
  stored raised limit. The violations need one agent or two, as named.
- `reconciler_*`: a second run is a redispatch that meets what the first left; a
  third incarnation allows a crash in the recovery from a crash. One fault
  beside the crashes loses any one record or fails any one pass; two live dispatches at once do not occur,
  since one process runs a task once.
- `bus_retries`: an original, its retry, and a third call that finds what both
  left, or sends something else under the same key, or without one. An inbox
  of one message leaves others unread behind it. `bus_provider_error` needs one
  message and one failing wake.
- `bridge_late`: a holder and its successor, two answers (one of them late or
  repeated, or the first of them `in_progress`), one report or acknowledgement around
  them, one fault: a claim that times out under a live worker, a call that raises, or
  a death. The order can be claimed twice. The same properties were also checked
  with `Answers = {"done", "queued"}` (3.3 million states) and with all three
  (12.9 million), too large for a regular run; the theorems are for any set.
- Symmetry is used over agents, clients, workers or equal dispatches, in runs
  without liveness only.

### Fairness

Two components promise progress, and only they have a fair specification.

- `Orchestrator!FairSpec`: weak fairness of the router's and each execution's
  steps and of deadlines; strong fairness of `TickBegins`, because the manager
  calls tick again and again and the Gnani hold, during which only
  `tick_settle_only` runs, does not last for ever.
- `Reconciler!FairSpec`: weak fairness of each dispatch's steps and of the daemon's
  (the loop runs, calls end, a dead daemon is started again by its supervisor, ticks
  go on), strong fairness of `OrphanReap`: the tick repeats it, and a task nobody
  touches gets 30 minutes old. No crash is forced or excluded.

The other components schedule nothing that would justify fairness. A refused
dispatch is requeued only while it has retries; an agent is woken only with a task,
and takes the newest messages first; and nothing in the repository but tests calls
`recover_stale_tasks`, so that a work order whose worker died stays in progress for
ever.

## 4. The proofs

All for arbitrary sets of tasks, clients, agents, dispatches, runs, calls and
keys, arbitrary retry limits and staleness limits, and arbitrary fault sets and
clock skews except where a theorem names what it excludes. Assumptions: the
named `ASSUME`s of the modules (types, and that `None` is fresh). Every inductive
invariant was model-checked on a run's instance before it was proved.

| Theorem | Hypothesis beyond the modules' | Why it is needed |
|---|---|---|
| `MemoizableIsFinalHolds` | no failing memo read | a read that raises counts as a miss |
| `ProviderExclusiveHolds` | `Prompt`, `SameClocks` | a call that outlives its claim, or a clock ahead by the staleness limit, is taken over by design |
| `EffectivelyOnceHolds` | these, and no failing completion | a result that was not stored is not there to be replayed |
| `NotRefusedAloneHolds` | no failing takeover | a takeover whose store call raises is answered as a duplicate |
| `OneTaskPerAgentHolds` | `~DirectRoute` | `dispatch_next` takes an assigned agent for idle |
| `HaltedMeansNoWorkHolds` | no cut tick, no failing send | both leave a claim that no execution owns |
| `ClaimsOwnedHolds` | `Steady`: these, no straggler, no drop-off | a straggler that is cancelled after it gave up its claim leaves its task running, a drop-off leaves it assigned |

The last row was a finding of the proof: `orchestrator_steady` allows neither a
straggler nor a drop-off, and without them the argument does not go through, for the
reasons given.

- `DurableInvokerProofs`. The inductive invariant is `FenceInv`. `UniqueHolder`
  alone is not inductive: a takeover gives out `NextToken(observed)`, which is
  new only because every token given before is at most the row's
  (`TokensBelowRow`) and the compare-and-set makes the observed token the row's.
  `CompletedRecoverable` needs that the holder's run is the one in the row
  (`HolderNamed`); `MemoGenuine` needs that the owner of a stored or replayed
  receipt has finished for good, so that its result does not change afterwards
  (`ReceiptsSettled`, `OmissionRecorded`). The step lemma separates steps that
  leave the row alone (`RowUntouched`), takeovers (`RowTaken`) and completions
  (`CompletionKeepsFence`). Theorems: `FenceHolds`, `UniqueHolderHolds`,
  `CompletedRecoverableHolds`, `MemoGenuineHolds`, `TokensIncreaseHolds`.
  Three more invariants build on it. `SeenInv`: what a dispatch has observed is no
  newer than the row, and one that still matches the row at the reclaim cannot be
  replayed; every change of the row raises its token and so outdates all
  observations. It gives `MemoizableIsFinalHolds`. `CallInv`: a dispatch takes over
  a started record only when its own clock says it is stale (`SeenStale`), while a
  fenced call holds the row with a claim that is young (`CallsHold`), so no clock
  that agrees with the holder's can call it stale; it gives `ProviderExclusiveHolds`,
  for all store failures. `NotRefusedAloneHolds` rests on `WayInv`, what a dispatch that
  is alone with its row has seen of it in each phase. `StoredOnce`, that a fresh ok result is the receipt of the
  replayable row, gives `EffectivelyOnceHolds` from the two.
- `TaskBoardProofs`. The inductive invariant is `ExclusiveInv`: besides the types, one
  open call per exclusive task (`OneCallPerTask`), and what a call on it checked still
  holds when it writes (`ChecksHold`), since raw updates leave the status alone.
  Theorems, for any set `Exclusive` of tasks: `ExclusiveHolds`,
  `BoardImplementsLifecycle` (refinement), `ReadyStableHolds`, all three about the
  exclusive tasks while the others are raced on, and `CompletedSticksHolds`, about
  all tasks. `board_race` shows why the first three need exclusiveness.

- `ReconcilerProofs`. The inductive invariant is `RecoveryInv`. `BootSettles` needs that
  a live coroutine belongs to the incarnation that runs and is alone (`LiveHere`):
  only then can no late upsert reopen a run of an earlier incarnation.
  `CompletedMeansDone` needs that every witness of an ok call tells the truth: the
  coroutine past its call (`OutcomeKnown`), the idempotency record and the stored
  receipt (`ReceiptsGenuine`), also when a replay returns the receipt of another run.
  `LiveNotRequeued` adds `BeatingInv`: from a successful heartbeat to the scan of the
  tick, no claim in flight that was not recovered has lapsed. Theorems:
  `RecoveryInvHolds`, `RecoveryTypeOK`, `BootSettlesHolds`, `CompletedMeansDoneHolds`,
  `LiveNotRequeuedHolds`.
- `MessageBusProofs`. The inductive invariant is `ReceiptInv`: what a call knows at
  each phase (`CallKnows`), that an id belongs to one message (`IdsAgree`), and that
  rows and records belong to messages that were sent (`RowsSent`, `RecordsSent`): a
  probe that finds a row under the recorded id has then found the caller's own
  message. `ReadMeansPrompted` adds `PromptInv`; `ReceiptStable` adds `SoloInv`, that a
  key without overlap has at most one call under way, and none about to complete
  once there is a receipt. `DeliveredOnce` adds `OnceInv`: a row of the key is the one
  its record names, or the one a resumed call is about to enter there; only a
  call that follows a failed one resumes, and it inserts only if there is no row. The
  first failure therefore leaves the recorded id valid; the second may not, which
  is where the premise of the property comes from. Theorems: `ReceiptInvHolds`,
  `BusTypeOK`, `NoFabricatedReceiptHolds`, `ReadMeansPromptedHolds`,
  `ReceiptStableHolds`, `DeliveredOnceHolds`.
- `OperatorBridgeProofs`. For any set of answers. `BridgeInv` is the types, what each
  call holds in its phase (`CallsFit`), `AnsweredSticks`, and `Charged`: behind every
  recovery, the one that is due included, stands a fault or an answer (a worker that
  answers `in_progress` lets the order go, and the sweep takes it). Without `Charged` the
  type of the retry count is not inductive. `HoldersBounded` is inductive with the
  finiteness of the set: a claim adds a worker and ends `Waiting`, a sweep raises
  `retries`, a response `queued` raises `reopened`, and both begin it again. For
  the two properties under `clean`, `CleanInv` says that a response is alone and that
  the metadata other calls carry holds no acknowledgement but one of the response
  in the row, and `SettledInv` that after a response that closes the order every later
  mirror writes its outcome, except while the response itself has not got there
  (`ClaimDue`, `RunDue`). Theorems: `BridgeInvHolds`, `TypeCorrect`,
  `AnsweredSticksHolds`, `HoldersBoundedHolds`, `NoSilentDropOffHolds`, `RunSettledHolds`.
- `OrchestratorProofs`. `CoreInv` ties the router to the executions: what it holds in
  each phase (`RouterFits`), that a live execution is tracked (`ExecsFit`), and that
  the tasks it has listed or is failing are not those that run (`Listed`).
  `NoOverlap` follows. The other properties each have an invariant of their own on top:
  `AgentsApart` (from the barrier to the listing nothing is live, and the agents the
  router may still give away have no execution); `Counted` (a pending task has one
  retry for each execution it had, the router's and the executions' own copies of
  the count included, and no limit exceeds `TopLimit`); `Deps` (the router's list
  was read with its dependencies completed, and `CompletedStays`: nothing leaves
  completed); `ClaimsHeld` (a claim belongs to a tracked execution or to the
  dispatch under way); `StatusOwned` (assigned while dispatched, running until the
  execution has written its end). A lemma per action says what the action
  may disturb. Theorems: `CoreInvHolds`, `TypeCorrect`, `NoOverlapHolds`,
  `OneTaskPerAgentHolds`, `ExecutionsBoundedHolds`, `DependenciesFirstHolds`,
  `HaltedMeansNoWorkHolds`, `ClaimsOwnedHolds`.

Out of the prover's reach, and left to TLC: the liveness properties
(`EventuallySettled`, `NeverStuck`), since TLAPS does not reason about fairness and
ENABLED here. Only model-checked, then, are these, and the three violations.

## 5. What is not modelled, and the plan

In order:

1. Proofs that relax a hypothesis: `ClaimsOwned` with stragglers, for the tasks
   whose execution was not cancelled; `ProviderExclusive` with clocks apart by less
   than the slack between the call's timeout and the staleness limit.
2. The lifecycle refinement for the board under any overlap, up to the illegal
   moves that `board_race` shows.
3. The event rail of the bus: `emit_event` and `consume_events`, whose SELECT and
   UPDATE are two statements without the old status, under two consumers and a 3 s limit.
4. `GraphScheduler` and its persistence: journal, checkpoint and resume, refining
   an uninterrupted superstep machine. Production dispatch does not use it yet.
5. `BoardOutbox`: the event log and the outbox drained into the board; mission control.
6. `Orchestrator`: `dispatch`, `fan_out`, `fan_in`, `graceful_stop`; a second process with
   the same board.
7. Composition of the invoker with the orchestrator: `Retry` counts its retries, but
   not the back-off between them against the staleness of the claim, which decides
   whether they run out.

Left out for good: prompts, providers and routing heuristics, evolution loops,
memory retrieval, user interfaces, and everything that only reports.
