---------------------------- MODULE Orchestrator ----------------------------
(***************************************************************************)
(* orchestrator.py and orchestrator_bsp.py: the tick that waits for the    *)
(* running tasks, recovers stale claims and dispatches ready tasks to idle *)
(* agents, the background execution of each task, and the failure handling *)
(* both share.  One event loop: a step is what runs between two awaits.    *)
(*                                                                         *)
(* The board is used through update_task, which rejects a move outside the *)
(* table of TaskLifecycle; _safe_update_task swallows the rejection.       *)
(***************************************************************************)
EXTENDS Naturals, FiniteSets

CONSTANTS
    Tasks,
    Agents,
    Needs,          \* the dependencies of each task
    None,
    MaxRetries,     \* max_retries of every task
    SoftLimit,      \* the larger limit of transient and long-timeout failures
    MaxConcurrent,  \* max_concurrent_tasks
    DirectRoute,    \* TRUE: dispatch_next calls route_next outside a tick
    Faults          \* what may go wrong, see FaultKinds

FaultKinds ==
    {"cut",         \* wait_for(tick, 45 s) cancels the tick at an await
     "straggle",    \* a task outlives the barrier timeout
     "send",        \* bus.send raises
     "dropoff",     \* the agent has no runner any more
     "gate",        \* the telos gate blocks a dispatch
     "yoga",        \* a YogaNode constraint defers a dispatch
     "late",        \* a record written after the completion raises
     "cancel"}      \* an operator cancels a task

ASSUME NeedsType == Needs \in [Tasks -> SUBSET Tasks]
ASSUME LimitTypes == MaxRetries \in Nat /\ SoftLimit \in Nat /\ MaxConcurrent \in Nat
ASSUME NoneFresh == None \notin Tasks /\ None \notin Agents
ASSUME DirectRouteType == DirectRoute \in BOOLEAN
ASSUME FaultsType == Faults \subseteq FaultKinds

VARIABLES
    status,     \* the board: status of each task
    retries,    \* the board: metadata retry_count
    limit,      \* the board: metadata max_retries
    waiting,    \* the board: tasks whose retry_not_before is in the future
    active,     \* _active_dispatches: the agent a task is claimed for
    expired,    \* claims past their claim_expires_monotonic
    running,    \* _running_tasks: tasks with a tracked background task
    bg,         \* the background task of each task
    busy,       \* agents whose runner is BUSY or INACTIVE, so not idle
    unread,     \* the bus has unread messages
    router,     \* the coroutine in tick, tick_settle_only or route_next
    executions  \* history: executions started per task

board == <<status, retries, limit, waiting>>
vars == <<status, retries, limit, waiting, active, expired, running, bg, busy,
          unread, router, executions>>

Lifecycle == INSTANCE TaskLifecycle

May(f) == f \in Faults

Larger(a, b) == IF a >= b THEN a ELSE b

\* An execution: where it is, on which agent, the retry_count it was
\* dispatched with and the retry limit its failure class grants.
Exec(pc, a, n, floor) == [pc |-> pc, agent |-> a, count |-> n, floor |-> floor]

NoExec == Exec("none", None, 0, 0)

AtRest == [pc |-> "rest", mode |-> "tick", back |-> "rest", ready |-> {}, idle |-> {},
           slots |-> 0, todo |-> {}, task |-> None, agent |-> None, count |-> 0,
           floor |-> 0]

Init ==
    /\ status = [t \in Tasks |-> "pending"]
    /\ retries = [t \in Tasks |-> 0]
    /\ limit = [t \in Tasks |-> MaxRetries]
    /\ waiting = {}
    /\ active = [t \in Tasks |-> None]
    /\ expired = {}
    /\ running = {}
    /\ bg = [t \in Tasks |-> NoExec]
    /\ busy = {}
    /\ unread = FALSE
    /\ router = AtRest
    /\ executions = [t \in Tasks |-> 0]

-----------------------------------------------------------------------------
(* The board, the claims and the failure handling *)

\* Mutant: a task is ready whatever became of its dependencies.
ReadyAlways(t) == status[t] = "pending"

\* The board's get_ready_tasks.
Ready(t) == status[t] = "pending" /\ \A d \in Needs[t] : status[d] = "completed"

Accepts(t, new) == <<status[t], new>> \in Lifecycle!Transitions

\* _safe_update_task(status = new): an illegal move changes nothing.
SafeUpdate(t, new) ==
    status' = IF Accepts(t, new) THEN [status EXCEPT ![t] = new] ELSE status

\* update_task(PENDING) is requeue: from every status but completed.
Requeueable(t) == status[t] # "completed"

Live(t) == bg[t].pc \notin {"none", "done"}

Release(a) == busy' = busy \ {a}

Unclaim(t) == /\ active' = [active EXCEPT ![t] = None]
              /\ expired' = expired \ {t}

\* Mutant: the limit is tested after the count was raised, and not before.
RetriesLeftOff(t, n, floor) == n <= Larger(limit[t], floor)

\* _apply_failure_retry_defaults and the test on it.
RetriesLeft(t, n, floor) == n < Larger(limit[t], floor)

\* _handle_task_failure, first write: FAILED, with the raised count when a
\* retry is left.
FailedWrite(t, n, floor) ==
    /\ SafeUpdate(t, "failed")
    /\ IF Accepts(t, "failed")
       THEN /\ limit' = [limit EXCEPT ![t] = Larger(@, floor)]
            /\ retries' = [retries EXCEPT ![t] = IF RetriesLeft(t, n, floor) THEN n + 1 ELSE @]
       ELSE UNCHANGED <<limit, retries>>
    /\ UNCHANGED waiting

\* _handle_task_failure, second write: back to PENDING after the back-off.
PendingWrite(t, n, floor) ==
    /\ IF Requeueable(t)
       THEN /\ status' = [status EXCEPT ![t] = "pending"]
            /\ retries' = [retries EXCEPT ![t] = n + 1]
            /\ limit' = [limit EXCEPT ![t] = Larger(@, floor)]
            /\ waiting' = waiting \cup {t}
       ELSE UNCHANGED board

-----------------------------------------------------------------------------
(* The background execution of a task: _execute_task *)

Bg(t, pc) == bg' = [bg EXCEPT ![t].pc = pc]

\* run_task marks its runner BUSY.
BgStarts(t) ==
    /\ bg[t].pc = "new"
    /\ Bg(t, "run")
    /\ busy' = busy \cup {bg[t].agent}
    /\ UNCHANGED <<board, active, expired, running, unread, router, executions>>

\* The call returns; the runner is IDLE, or votes to halt: an INACTIVE agent
\* is not listed as idle until the orchestrator releases it.
BgReturns(t) ==
    /\ bg[t].pc = "run"
    /\ Bg(t, "complete")
    /\ Release(bg[t].agent) \/ UNCHANGED busy
    /\ UNCHANGED <<board, active, expired, running, unread, router, executions>>

\* An exception, a timeout or a missing honors checkpoint; some failure
\* classes come with a retry limit of their own.
BgRaises(t) ==
    /\ bg[t].pc = "run"
    /\ \E floor \in {0, SoftLimit} :
          bg' = [bg EXCEPT ![t].pc = "handle", ![t].floor = floor]
    /\ UNCHANGED <<board, active, expired, running, busy, unread, router, executions>>

BgCompletes(t) ==
    /\ bg[t].pc = "complete"
    /\ SafeUpdate(t, "completed")
    /\ Bg(t, "release")
    /\ UNCHANGED <<retries, limit, waiting, active, expired, running, busy, unread,
                   router, executions>>

BgReleases(t) ==
    /\ bg[t].pc = "release"
    /\ Release(bg[t].agent)
    /\ Unclaim(t)
    /\ Bg(t, "post")
    /\ UNCHANGED <<board, running, unread, router, executions>>

\* Receipts, traces and signals; an exception here is handled like a failure
\* of the task, though the task is completed.
BgPosts(t) ==
    /\ bg[t].pc = "post"
    /\ \/ Bg(t, "done")
       \/ May("late") /\ bg' = [bg EXCEPT ![t].pc = "handle", ![t].floor = 0]
    /\ UNCHANGED <<board, active, expired, running, busy, unread, router, executions>>

\* Mutant: the failure path forgets to release the agent.
BgHandlesKeepsAgent(t) ==
    /\ bg[t].pc = "handle"
    /\ Unclaim(t)
    /\ Bg(t, "fail")
    /\ UNCHANGED <<board, running, busy, unread, router, executions>>

BgHandles(t) ==
    /\ bg[t].pc = "handle"
    /\ Release(bg[t].agent)
    /\ Unclaim(t)
    /\ Bg(t, "fail")
    /\ UNCHANGED <<board, running, unread, router, executions>>

BgFails(t) ==
    /\ bg[t].pc = "fail"
    /\ FailedWrite(t, bg[t].count, bg[t].floor)
    /\ Bg(t, IF RetriesLeft(t, bg[t].count, bg[t].floor) THEN "requeue" ELSE "record")
    /\ UNCHANGED <<active, expired, running, busy, unread, router, executions>>

BgRequeues(t) ==
    /\ bg[t].pc = "requeue"
    /\ PendingWrite(t, bg[t].count, bg[t].floor)
    /\ Bg(t, "record")
    /\ UNCHANGED <<active, expired, running, busy, unread, router, executions>>

\* Events and claim records of the failure; the board may already show the
\* task as pending.
BgRecords(t) ==
    /\ bg[t].pc = "record"
    /\ Bg(t, "done")
    /\ UNCHANGED <<board, active, expired, running, busy, unread, router, executions>>

BgStep(t) == \/ BgStarts(t) \/ BgReturns(t) \/ BgRaises(t) \/ BgCompletes(t)
             \/ BgReleases(t) \/ BgPosts(t) \/ BgHandles(t) \/ BgFails(t) \/ BgRequeues(t)
             \/ BgRecords(t)

-----------------------------------------------------------------------------
(* The router: tick, tick_settle_only, route_next *)

Router(pc) == router' = [router EXCEPT !.pc = pc]

Rest == router' = AtRest

\* is_globally_halted; the pool test compares an enum's name with a value and
\* never finds a busy agent.
Halted == running = {} /\ ~unread /\ \A t \in Tasks : ~Ready(t)

TickBegins ==
    /\ router.pc = "rest"
    /\ ~Halted
    /\ router' = [AtRest EXCEPT !.pc = "barrier"]
    /\ UNCHANGED <<board, active, expired, running, bg, busy, unread, executions>>

\* tick_settle_only, while the Gnani holds: no barrier and no dispatch.
SettleBegins ==
    /\ router.pc = "rest"
    /\ router' = [AtRest EXCEPT !.pc = "collect", !.mode = "settle"]
    /\ UNCHANGED <<board, active, expired, running, bg, busy, unread, executions>>

\* dispatch_next: route_next without the barrier of a tick.
DirectBegins ==
    /\ DirectRoute
    /\ router.pc = "rest"
    /\ router' = [AtRest EXCEPT !.pc = "collect", !.mode = "route"]
    /\ UNCHANGED <<board, active, expired, running, bg, busy, unread, executions>>

\* _collect_completed_with_barrier: every tracked background task is done.
BarrierPasses ==
    /\ router.pc = "barrier"
    /\ \A t \in running : ~Live(t)
    /\ Router("collect")
    /\ UNCHANGED <<board, active, expired, running, bg, busy, unread, executions>>

\* _cancel_barrier_stragglers: a cancelled execution stops at its await and
\* handles nothing, because CancelledError is not an Exception.
BarrierCancels ==
    /\ router.pc = "barrier"
    /\ May("straggle")
    /\ LET stragglers == {t \in running : Live(t)} IN
         /\ stragglers # {}
         /\ bg' = [t \in Tasks |-> IF t \in stragglers THEN [bg[t] EXCEPT !.pc = "done"]
                                   ELSE bg[t]]
         /\ router' = [router EXCEPT !.pc = "settle", !.todo = stragglers]
    /\ UNCHANGED <<board, active, expired, running, busy, unread, executions>>

\* Release the agent of a claim that will not run and handle its failure.
Recover(t, back, todo, n, floor) ==
    /\ Release(active[t])
    /\ Unclaim(t)
    /\ router' = [router EXCEPT !.pc = "fail", !.back = back, !.todo = todo, !.task = t,
                                !.count = n, !.floor = floor]

\* _settle_cancelled_straggler: an execution that had given up its claim
\* already is only forgotten.
SettleStraggler(t) ==
    /\ router.pc = "settle"
    /\ t \in router.todo
    /\ running' = running \ {t}
    /\ \/ /\ active[t] = None
          /\ router' = [router EXCEPT !.todo = @ \ {t}]
          /\ UNCHANGED <<active, expired, busy>>
       \/ /\ active[t] # None
          /\ Recover(t, "settle", router.todo \ {t}, retries[t], 0)
    /\ UNCHANGED <<board, bg, unread, executions>>

StragglersSettled ==
    /\ router.pc = "settle" /\ router.todo = {}
    /\ Router("collect")
    /\ UNCHANGED <<board, active, expired, running, bg, busy, unread, executions>>

\* Mutant: live executions are forgotten with the finished ones.
CollectAll ==
    /\ router.pc = "collect"
    /\ running' = {}
    /\ active' = [t \in Tasks |-> IF t \in running THEN None ELSE active[t]]
    /\ expired' = expired \ running
    /\ router' = [router EXCEPT !.pc = "stale", !.todo = expired \ running]
    /\ UNCHANGED <<board, bg, busy, unread, executions>>

\* Mutant: live executions are forgotten, their claims are not.
CollectKeepsClaims ==
    /\ router.pc = "collect"
    /\ running' = {}
    /\ router' = [router EXCEPT !.pc = "stale", !.todo = expired \ running]
    /\ UNCHANGED <<board, active, expired, bg, busy, unread, executions>>

\* _collect_completed up to its first await: forget what is done, list the
\* expired claims that never started.
Collect ==
    /\ router.pc = "collect"
    /\ LET over == {t \in running : ~Live(t)} IN
         /\ running' = running \ over
         /\ active' = [t \in Tasks |-> IF t \in over THEN None ELSE active[t]]
         /\ expired' = expired \ over
         /\ router' = [router EXCEPT !.pc = "stale", !.todo = expired \ running]
    /\ UNCHANGED <<board, bg, busy, unread, executions>>

RecoverStale(t) ==
    /\ router.pc = "stale"
    /\ t \in router.todo
    /\ Recover(t, "stale", router.todo \ {t}, retries[t], 1)
    /\ UNCHANGED <<board, running, bg, unread, executions>>

\* The stale claims are handled: a tick goes on to route_next, which collects
\* again; clear_stale_claims in between touches metadata only.
Collected ==
    /\ router.pc = "stale" /\ router.todo = {}
    /\ router' = CASE router.mode = "tick" -> [router EXCEPT !.pc = "collect", !.mode = "route"]
                   [] router.mode = "route" -> [router EXCEPT !.pc = "ready"]
                   [] OTHER -> AtRest
    /\ UNCHANGED <<board, active, expired, running, bg, busy, unread, executions>>

\* The router goes on with what it did before it handled task `task'.
Resume == router' = [router EXCEPT !.pc = router.back, !.task = None, !.agent = None,
                                   !.count = 0, !.floor = 0]

\* Recovery and drop-off run _handle_task_failure inside the router.
RouterFails ==
    /\ router.pc = "fail"
    /\ FailedWrite(router.task, router.count, router.floor)
    /\ IF RetriesLeft(router.task, router.count, router.floor)
       THEN Router("requeue") ELSE Resume
    /\ UNCHANGED <<active, expired, running, bg, busy, unread, executions>>

RouterRequeues ==
    /\ router.pc = "requeue"
    /\ PendingWrite(router.task, router.count, router.floor)
    /\ Resume
    /\ UNCHANGED <<active, expired, running, bg, busy, unread, executions>>

\* route_next: the ready tasks, then the idle agents.
ReadReady ==
    /\ router.pc = "ready"
    /\ router' = [router EXCEPT !.pc = "idle", !.ready = {t \in Tasks : Ready(t)}]
    /\ UNCHANGED <<board, active, expired, running, bg, busy, unread, executions>>

\* Mutant: the list of ready tasks is not filtered by _running_tasks.
ReadIdleUnfiltered ==
    /\ router.pc = "idle"
    /\ router' = [router EXCEPT !.pc = "pick", !.back = "pick",
                     !.idle = Agents \ busy, !.slots = MaxConcurrent]
    /\ UNCHANGED <<board, active, expired, running, bg, busy, unread, executions>>

\* The agents that are not BUSY; tasks that run, or whose back-off is not
\* over, are dropped from the list; running tasks use up the slots.
ReadIdle ==
    /\ router.pc = "idle"
    /\ router' = [router EXCEPT !.pc = "pick", !.back = "pick",
                     !.ready = @ \ (running \cup waiting),
                     !.idle = Agents \ busy,
                     !.slots = IF Cardinality(running) >= MaxConcurrent THEN 0
                               ELSE MaxConcurrent - Cardinality(running)]
    /\ UNCHANGED <<board, active, expired, running, bg, busy, unread, executions>>

\* Mutant: the chosen agent stays in the list of available ones.
PickKeepsAgent(t, a) ==
    /\ router.pc = "pick"
    /\ t \in router.ready /\ a \in router.idle /\ router.slots > 0
    /\ router' = [router EXCEPT !.pc = "gate", !.ready = @ \ {t},
                     !.slots = @ - 1, !.task = t, !.agent = a, !.count = retries[t]]
    /\ UNCHANGED <<board, active, expired, running, bg, busy, unread, executions>>

\* The next dispatch; every dispatch takes a slot and its agent.
Pick(t, a) ==
    /\ router.pc = "pick"
    /\ t \in router.ready /\ a \in router.idle /\ router.slots > 0
    /\ router' = [router EXCEPT !.pc = "gate", !.ready = @ \ {t}, !.idle = @ \ {a},
                     !.slots = @ - 1, !.task = t, !.agent = a, !.count = retries[t]]
    /\ UNCHANGED <<board, active, expired, running, bg, busy, unread, executions>>

\* YogaNode.can_dispatch objects: the task is skipped, the agent stays.
YogaSkips(t) ==
    /\ router.pc = "pick"
    /\ May("yoga")
    /\ t \in router.ready /\ router.idle # {} /\ router.slots > 0
    /\ router' = [router EXCEPT !.ready = @ \ {t}]
    /\ UNCHANGED <<board, active, expired, running, bg, busy, unread, executions>>

Routed ==
    /\ router.pc = "pick"
    /\ router.ready = {} \/ router.idle = {} \/ router.slots = 0
    /\ Rest
    /\ UNCHANGED <<board, active, expired, running, bg, busy, unread, executions>>

-----------------------------------------------------------------------------
(* _assign_dispatch for the picked task *)

GatePasses ==
    /\ router.pc = "gate"
    /\ Router("assign")
    /\ UNCHANGED <<board, active, expired, running, bg, busy, unread, executions>>

GateBlocks ==
    /\ router.pc = "gate"
    /\ May("gate")
    /\ SafeUpdate(router.task, "failed")
    /\ Resume
    /\ UNCHANGED <<retries, limit, waiting, active, expired, running, bg, busy, unread,
                   executions>>

\* Mutant: the claim's own status is written to the board.
AssignTaskOdd ==
    /\ router.pc = "assign"
    /\ status' = [status EXCEPT ![router.task] = "claimed"]
    /\ Router("claim")
    /\ UNCHANGED <<retries, limit, waiting, active, expired, running, bg, busy, unread,
                   executions>>

\* pool.assign, which leaves the agent IDLE, and the ASSIGNED write.
AssignTask ==
    /\ router.pc = "assign"
    /\ SafeUpdate(router.task, "assigned")
    /\ Router("claim")
    /\ UNCHANGED <<retries, limit, waiting, active, expired, running, bg, busy, unread,
                   executions>>

RecordClaim ==
    /\ router.pc = "claim"
    /\ active' = [active EXCEPT ![router.task] = router.agent]
    /\ expired' = expired \ {router.task}
    /\ Router("send")
    /\ UNCHANGED <<board, running, bg, busy, unread, executions>>

SendNotice ==
    /\ router.pc = "send"
    /\ unread' = TRUE
    /\ Router("start")
    /\ UNCHANGED <<board, active, expired, running, bg, busy, executions>>

\* bus.send raises: the exception leaves _assign_dispatch and the tick.
SendRaises ==
    /\ router.pc = "send"
    /\ May("send")
    /\ Rest
    /\ UNCHANGED <<board, active, expired, running, bg, busy, unread, executions>>

StartTask ==
    /\ router.pc = "start"
    /\ SafeUpdate(router.task, "running")
    /\ Router("spawn")
    /\ UNCHANGED <<retries, limit, waiting, active, expired, running, bg, busy, unread,
                   executions>>

\* The pool has no runner for the agent: dispatch_dropoff.
DropOff ==
    /\ router.pc = "start"
    /\ May("dropoff")
    /\ Recover(router.task, "pick", {}, router.count, 1)
    /\ UNCHANGED <<board, running, bg, unread, executions>>

Spawn ==
    /\ router.pc = "spawn"
    /\ bg' = [bg EXCEPT ![router.task] = Exec("new", router.agent, router.count, 0)]
    /\ running' = running \cup {router.task}
    /\ executions' = [executions EXCEPT ![router.task] = @ + 1]
    /\ Resume
    /\ UNCHANGED <<board, active, expired, busy, unread>>

\* The swarm's wait_for cancels the coroutine at its current await.
Cut ==
    /\ router.pc # "rest"
    /\ May("cut")
    /\ Rest
    /\ UNCHANGED <<board, active, expired, running, bg, busy, unread, executions>>

RouterStep ==
    \/ BarrierPasses \/ BarrierCancels \/ StragglersSettled \/ Collect \/ Collected
    \/ RouterFails \/ RouterRequeues \/ ReadReady \/ ReadIdle \/ Routed
    \/ GatePasses \/ GateBlocks \/ AssignTask \/ RecordClaim \/ SendNotice
    \/ SendRaises \/ StartTask \/ DropOff \/ Spawn
    \/ \E t \in Tasks : SettleStraggler(t) \/ RecoverStale(t) \/ YogaSkips(t)
    \/ \E t \in Tasks, a \in Agents : Pick(t, a)

-----------------------------------------------------------------------------
(* The environment *)

ClaimExpires(t) ==
    /\ active[t] # None /\ t \notin expired
    /\ expired' = expired \cup {t}
    /\ UNCHANGED <<board, active, running, bg, busy, unread, router, executions>>

BackoffEnds(t) ==
    /\ t \in waiting
    /\ waiting' = waiting \ {t}
    /\ UNCHANGED <<status, retries, limit, active, expired, running, bg, busy, unread,
                   router, executions>>

\* An agent or a publisher sends a message of its own.
MailArrives ==
    /\ ~unread
    /\ unread' = TRUE
    /\ UNCHANGED <<board, active, expired, running, bg, busy, router, executions>>

\* Somebody marks the messages read.
InboxRead ==
    /\ unread
    /\ unread' = FALSE
    /\ UNCHANGED <<board, active, expired, running, bg, busy, router, executions>>

\* An operator cancels a task on the board; nothing tells the orchestrator.
OperatorCancels(t) ==
    /\ May("cancel")
    /\ Accepts(t, "cancelled")
    /\ status' = [status EXCEPT ![t] = "cancelled"]
    /\ UNCHANGED <<retries, limit, waiting, active, expired, running, bg, busy, unread,
                   router, executions>>

\* Nothing is left to do: every tick finds the system halted.
AllHalted == router.pc = "rest" /\ Halted /\ UNCHANGED vars

Next ==
    \/ TickBegins \/ SettleBegins \/ DirectBegins \/ RouterStep \/ Cut
    \/ \E t \in Tasks : \/ BgStep(t) \/ ClaimExpires(t) \/ BackoffEnds(t)
                        \/ OperatorCancels(t)
    \/ MailArrives \/ InboxRead \/ AllHalted

Spec == Init /\ [][Next]_vars

\* The event loop runs a ready coroutine, wait_for ends every call, deadlines
\* pass, and the Gnani does not hold the swarm for ever.
FairSpec ==
    /\ Spec
    /\ WF_vars(RouterStep) /\ SF_vars(TickBegins)
    /\ \A t \in Tasks : WF_vars(BgStep(t)) /\ WF_vars(ClaimExpires(t)) /\ WF_vars(BackoffEnds(t))

-----------------------------------------------------------------------------
(* Properties *)

BgPhases == {"none", "new", "run", "complete", "release", "post", "handle", "fail",
             "requeue", "record", "done"}
RouterPhases == {"rest", "barrier", "settle", "collect", "stale", "fail", "requeue",
                 "ready", "idle", "pick", "gate", "assign", "claim", "send", "start",
                 "spawn"}

\* Every variable has its type.
TypeOK ==
    /\ status \in [Tasks -> Lifecycle!Statuses \ {"absent"}]
    /\ retries \in [Tasks -> Nat] /\ limit \in [Tasks -> Nat]
    /\ waiting \subseteq Tasks /\ expired \subseteq Tasks /\ running \subseteq Tasks
    /\ active \in [Tasks -> Agents \cup {None}]
    /\ bg \in [Tasks -> [pc : BgPhases, agent : Agents \cup {None}, count : Nat, floor : Nat]]
    /\ busy \subseteq Agents /\ unread \in BOOLEAN
    /\ router \in [pc : RouterPhases, mode : {"tick", "settle", "route"},
                    back : {"rest", "settle", "stale", "pick"},
                    ready : SUBSET Tasks, idle : SUBSET Agents, slots : Nat,
                    todo : SUBSET Tasks, task : Tasks \cup {None},
                    agent : Agents \cup {None}, count : Nat, floor : Nat]
    /\ executions \in [Tasks -> Nat]

\* The execution of t has its agent for itself.
OnAgent(t) == bg[t].pc \in {"new", "run"}

\* "Match ready tasks to idle agents, one-to-one": no agent ever runs two
\* tasks at a time, whatever is cancelled, cut or released late.
OneTaskPerAgent ==
    \A t, u \in Tasks : OnAgent(t) /\ OnAgent(u) /\ bg[t].agent = bg[u].agent => t = u

\* A task is executed at most once more than the largest retry limit in force,
\* whatever failed in between and wherever a tick was cut.
ExecutionsBounded ==
    \A t \in Tasks : executions[t] <= Larger(Larger(MaxRetries, SoftLimit), 1) + 1

\* A task is executed only after its dependencies are completed, and they
\* stay completed.
DependenciesFirst ==
    \A t \in Tasks : executions[t] > 0 => \A d \in Needs[t] : status[d] = "completed"

\* No task has two executions, even when route_next is called outside a tick
\* and the board shows a failed task pending while its execution still ends.
NoOverlap == router.pc = "spawn" => ~Live(router.task)

\* Whoever will settle a task that the board shows assigned or running: its
\* tracked execution, its claim, or the router that works on it now.
Owned(t) == t \in running \/ active[t] # None \/ (router.pc # "rest" /\ router.task = t)

\* "Recover stale dispatch claims that never started execution": no task is
\* assigned or running without somebody who will settle it.
ClaimsOwned == \A t \in Tasks : status[t] \in {"assigned", "running"} => Owned(t)

\* "True when all vertices are inactive/idle and no work/messages remain":
\* when every tick returns at once, no task is claimed.
HaltedMeansNoWork ==
    Halted /\ router.pc = "rest" => \A t \in Tasks : active[t] = None

\* Every task whose dependencies complete is finally completed, failed or
\* cancelled for good.
EventuallySettled ==
    \A t \in Tasks :
        (\A d \in Needs[t] : <>[](status[d] = "completed"))
            => <>[](status[t] \in {"completed", "failed", "cancelled"})

=============================================================================
