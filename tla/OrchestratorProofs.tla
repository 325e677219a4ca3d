------------------------- MODULE OrchestratorProofs -------------------------
(***************************************************************************)
(* Proofs about the orchestrator, for any tasks, agents, dependencies and  *)
(* limits, and for every combination of faults unless a theorem names the  *)
(* ones it leaves out.                                                     *)
(***************************************************************************)
EXTENDS Orchestrator, FiniteSetTheorems, TLAPS

ExecType == [pc : BgPhases, agent : Agents \cup {None}, count : Nat, floor : Nat]

RouterType ==
    [pc : RouterPhases, mode : {"tick", "settle", "route"},
     back : {"rest", "settle", "stale", "pick"},
     ready : SUBSET Tasks, idle : SUBSET Agents, slots : Nat,
     todo : SUBSET Tasks, task : Tasks \cup {None},
     agent : Agents \cup {None}, count : Nat, floor : Nat]

BoardType ==
    /\ status \in [Tasks -> Lifecycle!Statuses \ {"absent"}]
    /\ retries \in [Tasks -> Nat] /\ limit \in [Tasks -> Nat] /\ waiting \subseteq Tasks

-----------------------------------------------------------------------------
(* The writes to the board *)

\* The moves of the board that the orchestrator asks for.
LEMMA Moves ==
    ASSUME NEW t
    PROVE  /\ Accepts(t, "failed") <=> status[t] \in {"pending", "running"}
           /\ Accepts(t, "assigned") <=> status[t] = "pending"
           /\ Accepts(t, "running") <=> status[t] = "assigned"
           /\ Accepts(t, "completed") <=> status[t] = "running"
           /\ Accepts(t, "cancelled") <=> status[t] \in {"pending", "assigned", "running"}
  BY DEF Accepts, Lifecycle!Transitions

\* _safe_update_task writes one status, or none.
LEMMA SafeUpdated ==
    ASSUME BoardType, NEW t \in Tasks, NEW new \in {"assigned", "running", "completed", "failed"},
           SafeUpdate(t, new)
    PROVE  /\ status' \in [Tasks -> Lifecycle!Statuses \ {"absent"}]
           /\ status'[t] = IF Accepts(t, new) THEN new ELSE status[t]
           /\ \A u \in Tasks \ {t} : status'[u] = status[u]
  BY DEF BoardType, SafeUpdate, Lifecycle!Statuses

\* The first write of _handle_task_failure.
LEMMA FailedWritten ==
    ASSUME BoardType, NEW t \in Tasks, NEW n \in Nat, NEW floor \in Nat, FailedWrite(t, n, floor)
    PROVE  /\ BoardType' /\ waiting' = waiting
           /\ status'[t] = IF status[t] \in {"pending", "running"} THEN "failed" ELSE status[t]
           /\ retries'[t] = retries[t] \/ (RetriesLeft(t, n, floor) /\ retries'[t] = n + 1)
           /\ limit'[t] \in {limit[t], Larger(limit[t], floor)}
           /\ \A u \in Tasks \ {t} :
                 status'[u] = status[u] /\ retries'[u] = retries[u] /\ limit'[u] = limit[u]
  <1>1. /\ status' \in [Tasks -> Lifecycle!Statuses \ {"absent"}]
        /\ status'[t] = IF status[t] \in {"pending", "running"} THEN "failed" ELSE status[t]
        /\ \A u \in Tasks \ {t} : status'[u] = status[u]
    BY SafeUpdated, Moves DEF FailedWrite
  <1>2. /\ limit' \in [Tasks -> Nat] /\ limit'[t] \in {limit[t], Larger(limit[t], floor)}
        /\ \A u \in Tasks \ {t} : limit'[u] = limit[u]
    BY DEF FailedWrite, BoardType, Larger
  <1>3. /\ retries' \in [Tasks -> Nat]
        /\ retries'[t] = retries[t] \/ (RetriesLeft(t, n, floor) /\ retries'[t] = n + 1)
        /\ \A u \in Tasks \ {t} : retries'[u] = retries[u]
    BY DEF FailedWrite, BoardType
  <1> QED
    BY <1>1, <1>2, <1>3 DEF FailedWrite, BoardType

\* The second write of _handle_task_failure.
LEMMA PendingWritten ==
    ASSUME BoardType, NEW t \in Tasks, NEW n \in Nat, NEW floor \in Nat, PendingWrite(t, n, floor)
    PROVE  /\ BoardType'
           /\ \/ status'[t] = "completed" /\ status[t] = "completed"
                 /\ retries'[t] = retries[t] /\ limit'[t] = limit[t]
              \/ status'[t] = "pending" /\ status[t] # "completed"
                 /\ retries'[t] = n + 1 /\ limit'[t] = Larger(limit[t], floor)
           /\ \A u \in Tasks \ {t} :
                 status'[u] = status[u] /\ retries'[u] = retries[u] /\ limit'[u] = limit[u]
  <1>1. CASE Requeueable(t)
    <2>1. /\ status' = [status EXCEPT ![t] = "pending"] /\ retries' = [retries EXCEPT ![t] = n + 1]
          /\ limit' = [limit EXCEPT ![t] = Larger(@, floor)] /\ waiting' = waiting \cup {t}
      BY <1>1 DEF PendingWrite
    <2>2. Larger(limit[t], floor) \in Nat
      BY DEF Larger, BoardType
    <2> QED
      BY <1>1, <2>1, <2>2 DEF BoardType, Requeueable, Lifecycle!Statuses
  <1>2. CASE ~Requeueable(t)
    BY <1>2 DEF PendingWrite, BoardType, Requeueable, board
  <1> QED
    BY <1>1, <1>2

-----------------------------------------------------------------------------
(* The router and the executions *)

Dispatching == router.pc \in {"gate", "assign", "claim", "send", "start", "spawn"}
Failing == router.pc \in {"fail", "requeue"}

\* The router dispatches from its list of ready tasks; or settles stragglers.
Listing == router.pc = "pick" \/ Dispatching \/ (Failing /\ router.back = "pick")
Settling == router.pc = "settle" \/ (Failing /\ router.back = "settle")

\* What the router holds in each of its phases.
RouterFits ==
    /\ Dispatching => router.task \in Tasks /\ router.agent \in Agents /\ router.back = "pick"
    /\ Failing => router.task \in Tasks /\ router.back # "rest"
    /\ router.pc = "pick" => router.back = "pick"
    /\ router.task # None => Dispatching \/ Failing
    /\ Settling \/ router.pc = "barrier" => router.mode = "tick"
    /\ Listing \/ router.pc \in {"ready", "idle"} => router.mode = "route"

\* Every execution has an agent, and the orchestrator tracks it while it lives.
ExecsFit ==
    \A t \in Tasks : /\ bg[t].pc # "none" => bg[t].agent \in Agents
                     /\ Live(t) => t \in running

\* The tasks the router has listed, and the ones it handles the failure of,
\* are not the ones that run.
Listed ==
    /\ Listing => router.ready \cap running = {}
    /\ Dispatching => router.task \notin running \cup router.ready
    /\ router.pc = "stale" \/ Failing => \A t \in router.todo : ~Live(t)
    /\ Failing => ~Live(router.task)
    /\ Settling => \A t \in Tasks : ~Live(t)

CoreInv == TypeOK /\ IsFiniteSet(running) /\ RouterFits /\ ExecsFit /\ Listed

\* The types of the variables, by name.
LEMMA Types ==
    TypeOK <=> /\ BoardType /\ expired \subseteq Tasks /\ running \subseteq Tasks
               /\ active \in [Tasks -> Agents \cup {None}] /\ bg \in [Tasks -> ExecType]
               /\ busy \subseteq Agents /\ unread \in BOOLEAN /\ router \in RouterType
               /\ executions \in [Tasks -> Nat]
  BY DEF TypeOK, BoardType, ExecType, RouterType

\* And after a step.
LEMMA TypesAfter ==
    TypeOK' <=> /\ BoardType' /\ expired' \subseteq Tasks /\ running' \subseteq Tasks
                /\ active' \in [Tasks -> Agents \cup {None}] /\ bg' \in [Tasks -> ExecType]
                /\ busy' \subseteq Agents /\ unread' \in BOOLEAN /\ router' \in RouterType
                /\ executions' \in [Tasks -> Nat]
  BY DEF TypeOK, BoardType, ExecType, RouterType

\* What the execution of a task leaves alone.
BgLeaves == UNCHANGED <<running, unread, router, executions>>

\* Every step of the execution of t: it lived before, keeps its agent and its
\* count, and no other execution moves.
BgMoved(t) ==
    /\ Live(t) /\ bg[t].pc # "none" /\ bg'[t].pc \notin {"none", "new"}
    /\ bg'[t].agent = bg[t].agent /\ bg'[t].count = bg[t].count
    /\ bg'[t].floor \in {bg[t].floor, 0, SoftLimit}
    /\ \A u \in Tasks \ {t} : bg'[u] = bg[u]

\* What every step of _execute_task does to the executions.
LEMMA BgStepMoves ==
    ASSUME CoreInv, NEW t \in Tasks, BgStep(t)
    PROVE  TypeOK' /\ BgMoved(t) /\ BgLeaves
  <1>1. /\ TypeOK /\ BoardType /\ bg \in [Tasks -> ExecType] /\ bg[t] \in ExecType
        /\ bg[t].pc # "none" => bg[t].agent \in Agents
    BY Types DEF CoreInv, ExecsFit
  <1>2. ASSUME NEW pc \in BgPhases \ {"none", "new"}, Bg(t, pc), Live(t)
        PROVE  bg' \in [Tasks -> ExecType] /\ BgMoved(t)
    BY <1>1, <1>2 DEF Bg, BgMoved, ExecType, Live
  <1>3. ASSUME NEW floor \in {0, SoftLimit}, Live(t),
               bg' = [bg EXCEPT ![t].pc = "handle", ![t].floor = floor]
        PROVE  bg' \in [Tasks -> ExecType] /\ BgMoved(t)
    <2>1. floor \in Nat /\ "handle" \in BgPhases
      BY LimitTypes DEF BgPhases
    <2>2. bg'[t] = [bg[t] EXCEPT !.pc = "handle", !.floor = floor]
      BY <1>1, <1>3
    <2>3. /\ bg'[t] \in ExecType /\ bg'[t].pc = "handle" /\ bg'[t].floor = floor
          /\ bg'[t].agent = bg[t].agent /\ bg'[t].count = bg[t].count
      BY <1>1, <2>1, <2>2 DEF ExecType
    <2>4. \A u \in Tasks \ {t} : bg'[u] = bg[u]
      BY <1>1, <1>3
    <2>5. bg' \in [Tasks -> ExecType]
      BY <1>1, <1>3, <2>3, <2>4
    <2> QED
      BY <1>3, <2>3, <2>4, <2>5 DEF BgMoved, Live
  <1>4. CASE BgStarts(t)
    <2>1. bg' \in [Tasks -> ExecType] /\ BgMoved(t)
      BY <1>2, <1>4 DEF BgStarts, Live, BgPhases
    <2> QED
      BY <1>1, <1>4, <2>1, Types, TypesAfter DEF BgStarts, BgLeaves, board, BoardType
  <1>5. CASE BgReturns(t)
    <2>1. bg' \in [Tasks -> ExecType] /\ BgMoved(t)
      BY <1>2, <1>5 DEF BgReturns, Live, BgPhases
    <2> QED
      BY <1>1, <1>5, <2>1, Types, TypesAfter DEF BgReturns, BgLeaves, board, BoardType, Release
  <1>6. CASE BgRaises(t)
    <2>1. bg' \in [Tasks -> ExecType] /\ BgMoved(t)
      BY <1>3, <1>6 DEF BgRaises, Live
    <2> QED
      BY <1>1, <1>6, <2>1, Types, TypesAfter DEF BgRaises, BgLeaves, board, BoardType
  <1>7. CASE BgCompletes(t)
    <2>1. bg' \in [Tasks -> ExecType] /\ BgMoved(t)
      BY <1>2, <1>7 DEF BgCompletes, Live, BgPhases
    <2>2. BoardType'
      BY <1>1, <1>7, SafeUpdated DEF BgCompletes, BoardType
    <2> QED
      BY <1>1, <1>7, <2>1, <2>2, Types, TypesAfter DEF BgCompletes, BgLeaves
  <1>8. CASE BgReleases(t) \/ BgHandles(t)
    <2>1. bg' \in [Tasks -> ExecType] /\ BgMoved(t)
      BY <1>2, <1>8 DEF BgReleases, BgHandles, Live, BgPhases
    <2> QED
      BY <1>1, <1>8, <2>1, Types, TypesAfter DEF BgReleases, BgHandles, BgLeaves, board, BoardType, Release,
         Unclaim
  <1>9. CASE BgPosts(t)
    <2>1. bg' \in [Tasks -> ExecType] /\ BgMoved(t)
      BY <1>2, <1>3, <1>9 DEF BgPosts, Live, BgPhases
    <2> QED
      BY <1>1, <1>9, <2>1, Types, TypesAfter DEF BgPosts, BgLeaves, board, BoardType
  <1>10. CASE BgFails(t)
    <2>1. bg' \in [Tasks -> ExecType] /\ BgMoved(t)
      BY <1>2, <1>10 DEF BgFails, Live, BgPhases
    <2>2. BoardType'
      BY <1>1, <1>10, FailedWritten DEF BgFails, ExecType
    <2> QED
      BY <1>1, <1>10, <2>1, <2>2, Types, TypesAfter DEF BgFails, BgLeaves
  <1>11. CASE BgRequeues(t)
    <2>1. bg' \in [Tasks -> ExecType] /\ BgMoved(t)
      BY <1>2, <1>11 DEF BgRequeues, Live, BgPhases
    <2>2. BoardType'
      BY <1>1, <1>11, PendingWritten DEF BgRequeues, ExecType
    <2> QED
      BY <1>1, <1>11, <2>1, <2>2, Types, TypesAfter DEF BgRequeues, BgLeaves
  <1>12. CASE BgRecords(t)
    <2>1. bg' \in [Tasks -> ExecType] /\ BgMoved(t)
      BY <1>2, <1>12 DEF BgRecords, Live, BgPhases
    <2> QED
      BY <1>1, <1>12, <2>1, Types, TypesAfter DEF BgRecords, BgLeaves, board, BoardType
  <1> QED
    BY <1>4, <1>5, <1>6, <1>7, <1>8, <1>9, <1>10, <1>11, <1>12 DEF BgStep

\* A step of an execution: what lived before may stop, nothing else.
LEMMA BgStepKeeps ==
    ASSUME CoreInv, NEW t \in Tasks, BgStep(t)
    PROVE  CoreInv'
  <1>1. TypeOK' /\ BgMoved(t) /\ BgLeaves
    BY BgStepMoves
  <1>2. \A u \in Tasks : Live(u)' => Live(u)
    BY <1>1 DEF BgMoved, Live
  <1>3. RouterFits' /\ IsFiniteSet(running)'
    BY <1>1 DEF BgLeaves, CoreInv, RouterFits, Dispatching, Failing, Settling, Listing
  <1>4. ExecsFit'
    BY <1>1, <1>2 DEF BgLeaves, BgMoved, CoreInv, ExecsFit
  <1>5. Listed'
    <2>1. router' = router /\ running' = running /\ Listed /\ router.todo \subseteq Tasks
          /\ (Failing => router.task \in Tasks)
      BY <1>1, Types DEF BgLeaves, CoreInv, RouterType, RouterFits
    <2> QED
      BY <1>2, <2>1 DEF Listed, Dispatching, Failing, Settling, Listing
  <1> QED
    BY <1>1, <1>3, <1>4, <1>5 DEF CoreInv

\* The router of a tick that has ended.
LEMMA RestType ==
    /\ AtRest \in RouterType /\ AtRest.pc = "rest" /\ AtRest.task = None /\ AtRest.mode = "tick"
    /\ AtRest.back = "rest" /\ AtRest.todo = {} /\ AtRest.ready = {}
  BY DEF AtRest, RouterType, RouterPhases

\* The router goes on to another phase with what it has.
LEMMA RouterGoes ==
    ASSUME CoreInv, NEW pc \in RouterPhases, Router(pc)
    PROVE  /\ router' \in RouterType /\ router'.pc = pc /\ router'.mode = router.mode
           /\ router'.back = router.back /\ router'.ready = router.ready
           /\ router'.idle = router.idle /\ router'.slots = router.slots
           /\ router'.todo = router.todo /\ router'.task = router.task
           /\ router'.agent = router.agent /\ router'.count = router.count
           /\ router'.floor = router.floor
  BY Types DEF CoreInv, Router, RouterType

\* The router goes back to where it was.
LEMMA RouterResumes ==
    ASSUME CoreInv, Resume
    PROVE  /\ router' \in RouterType /\ router'.pc = router.back /\ router'.mode = router.mode
           /\ router'.back = router.back /\ router'.ready = router.ready
           /\ router'.idle = router.idle /\ router'.slots = router.slots
           /\ router'.todo = router.todo /\ router'.task = None
           /\ router'.agent = None /\ router'.count = 0 /\ router'.floor = 0
  BY Types DEF CoreInv, Resume, RouterType, RouterPhases

\* The router gives up a claim and handles the failure of its task.
LEMMA RouterRecovers ==
    ASSUME CoreInv, NEW t \in Tasks, NEW back \in {"settle", "stale", "pick"},
           NEW todo \in SUBSET Tasks, NEW n \in Nat, NEW floor \in Nat,
           Recover(t, back, todo, n, floor)
    PROVE  /\ router' \in RouterType /\ router'.pc = "fail" /\ router'.mode = router.mode
           /\ router'.back = back /\ router'.ready = router.ready /\ router'.idle = router.idle
           /\ router'.todo = todo /\ router'.task = t
           /\ router'.count = n /\ router'.floor = floor
           /\ active' \in [Tasks -> Agents \cup {None}] /\ active'[t] = None
           /\ \A u \in Tasks \ {t} : active'[u] = active[u]
           /\ expired' = expired \ {t} /\ busy' \subseteq busy
  <1>1. router' = [router EXCEPT !.pc = "fail", !.back = back, !.todo = todo, !.task = t,
                                 !.count = n, !.floor = floor]
    BY DEF Recover
  <1>2. router \in RouterType /\ active \in [Tasks -> Agents \cup {None}]
    BY Types DEF CoreInv
  <1>3. /\ router' \in RouterType /\ router'.pc = "fail" /\ router'.mode = router.mode
        /\ router'.back = back /\ router'.ready = router.ready /\ router'.idle = router.idle
        /\ router'.todo = todo /\ router'.task = t
        /\ router'.count = n /\ router'.floor = floor
    BY <1>1, <1>2 DEF RouterType, RouterPhases
  <1> QED
    BY <1>2, <1>3 DEF Recover, Unclaim, Release

\* A step on which no execution starts, moves or is forgotten.
LEMMA RouterOnly ==
    ASSUME CoreInv, BoardType', router' \in RouterType,
           active' \in [Tasks -> Agents \cup {None}], expired' \subseteq Tasks,
           busy' \subseteq Agents, unread' \in BOOLEAN, UNCHANGED <<running, bg, executions>>,
           RouterFits', Listed'
    PROVE  CoreInv'
  <1>1. TypeOK'
    BY Types, TypesAfter DEF CoreInv
  <1>2. ExecsFit' /\ IsFiniteSet(running)'
    BY DEF CoreInv, ExecsFit, Live
  <1> QED
    BY <1>1, <1>2 DEF CoreInv

\* The parts of the invariant that a router between two dispatches has.
LEMMA RouterPlain ==
    ASSUME router'.pc \in {"rest", "barrier", "collect", "ready", "idle"}, router'.task = None,
           router'.pc = "barrier" => router'.mode = "tick",
           router'.pc \in {"ready", "idle"} => router'.mode = "route"
    PROVE  RouterFits' /\ Listed'
  BY DEF RouterFits, Listed, Dispatching, Failing, Settling, Listing

\* The steps with no task at hand that write nothing but the router.
LEMMA PlainSteps ==
    ASSUME CoreInv,
           \/ TickBegins \/ SettleBegins \/ DirectBegins \/ BarrierPasses \/ StragglersSettled
           \/ Collected \/ ReadReady \/ Routed \/ SendRaises \/ Cut
    PROVE  CoreInv' /\ UNCHANGED <<board, active, expired, running, bg, busy, unread, executions>>
  <1>1. UNCHANGED <<board, active, expired, running, bg, busy, unread, executions>>
    BY DEF TickBegins, SettleBegins, DirectBegins, BarrierPasses, StragglersSettled, Collected,
       ReadReady, Routed, SendRaises, Cut
  <1>2. router \in RouterType /\ RouterFits /\ BoardType'
    BY <1>1, Types DEF CoreInv, BoardType, board
  <1>3. router' \in RouterType /\ RouterFits' /\ Listed'
    <2>1. CASE TickBegins
      BY <2>1, RestType, RouterPlain DEF TickBegins, RouterType, RouterPhases
    <2>2. CASE SettleBegins
      BY <2>2, RestType, RouterPlain DEF SettleBegins, RouterType, RouterPhases
    <2>3. CASE DirectBegins
      BY <2>3, RestType, RouterPlain DEF DirectBegins, RouterType, RouterPhases
    <2>4. CASE BarrierPasses
      BY <1>2, <2>4, RouterGoes, RouterPlain
         DEF BarrierPasses, RouterPhases, RouterFits, Dispatching, Failing
    <2>5. CASE StragglersSettled
      BY <1>2, <2>5, RouterGoes, RouterPlain
         DEF StragglersSettled, RouterPhases, RouterFits, Dispatching, Failing
    <2>6. CASE Collected
      <3>1. router.task = None /\ router.mode \in {"tick", "route", "settle"}
        BY <1>2, <2>6 DEF Collected, RouterFits, Dispatching, Failing, RouterType
      <3>2. CASE router.mode = "tick"
        <4>1. router' = [router EXCEPT !.pc = "collect", !.mode = "route"]
          BY <2>6, <3>2 DEF Collected
        <4> QED
          BY <1>2, <3>1, <4>1, RouterPlain DEF RouterType, RouterPhases
      <3>3. CASE router.mode = "route"
        <4>1. router' = [router EXCEPT !.pc = "ready"]
          BY <2>6, <3>3 DEF Collected
        <4> QED
          BY <1>2, <3>1, <3>3, <4>1, RouterPlain DEF RouterType, RouterPhases
      <3>4. CASE router.mode = "settle"
        BY <2>6, <3>4, RestType, RouterPlain DEF Collected
      <3> QED
        BY <3>1, <3>2, <3>3, <3>4
    <2>7. CASE ReadReady
      <3>1. router' = [router EXCEPT !.pc = "idle", !.ready = {t \in Tasks : Ready(t)}]
            /\ router.task = None /\ router.mode = "route"
        BY <1>2, <2>7 DEF ReadReady, RouterFits, Dispatching, Failing
      <3> QED
        BY <1>2, <3>1, RouterPlain DEF RouterType, RouterPhases
    <2>8. CASE Routed \/ SendRaises \/ Cut
      BY <2>8, RestType, RouterPlain DEF Routed, SendRaises, Cut, Rest
    <2> QED
      BY <2>1, <2>2, <2>3, <2>4, <2>5, <2>6, <2>7, <2>8
  <1>4. CoreInv'
    BY <1>1, <1>2, <1>3, RouterOnly, Types DEF CoreInv
  <1> QED
    BY <1>1, <1>4

\* _cancel_barrier_stragglers: whatever lived was tracked, and is cancelled.
LEMMA BarrierCancelsKeeps ==
    ASSUME CoreInv, BarrierCancels
    PROVE  /\ CoreInv' /\ (\A t \in Tasks : ~Live(t)')
           /\ \A t \in Tasks : bg'[t] = bg[t] \/ (bg'[t].pc = "done" /\ bg[t].pc # "none"
                 /\ bg'[t].agent = bg[t].agent /\ bg'[t].count = bg[t].count
                 /\ bg'[t].floor = bg[t].floor)
           /\ router'.pc = "settle" /\ router'.ready = router.ready /\ router'.task = None
           /\ router'.mode = "tick" /\ router'.floor = router.floor
           /\ router'.todo \subseteq running
  <1> DEFINE stragglers == {t \in running : Live(t)}
  <1>1. /\ router \in RouterType /\ bg \in [Tasks -> ExecType] /\ running \subseteq Tasks
        /\ RouterFits /\ ExecsFit /\ router.pc = "barrier"
    BY Types DEF CoreInv, BarrierCancels
  <1>2. router' = [router EXCEPT !.pc = "settle", !.todo = stragglers]
    BY DEF BarrierCancels
  <1>3. /\ router' \in RouterType /\ router'.pc = "settle" /\ router'.task = None
        /\ router'.todo = stragglers /\ router'.mode = "tick" /\ router'.ready = router.ready
        /\ router'.floor = router.floor
    BY <1>1, <1>2 DEF RouterType, RouterPhases, RouterFits, Dispatching, Failing
  <1>4. bg' = [t \in Tasks |-> IF t \in stragglers THEN [bg[t] EXCEPT !.pc = "done"] ELSE bg[t]]
    BY DEF BarrierCancels
  <1>5. ASSUME NEW t \in Tasks
        PROVE  /\ bg'[t] \in ExecType
               /\ bg'[t].pc # "none" => bg[t].pc # "none"
               /\ bg'[t] = bg[t] \/ (bg'[t].pc = "done" /\ bg[t].pc # "none"
                     /\ bg'[t].agent = bg[t].agent /\ bg'[t].count = bg[t].count
                     /\ bg'[t].floor = bg[t].floor)
               /\ ~Live(t)'
    <2>1. CASE t \in stragglers
      <3>1. bg'[t] = [bg[t] EXCEPT !.pc = "done"] /\ bg[t] \in ExecType /\ Live(t)
        BY <1>1, <1>4, <2>1
      <3> QED
        BY <3>1 DEF ExecType, BgPhases, Live
    <2>2. CASE t \notin stragglers
      BY <1>1, <1>4, <2>2 DEF ExecsFit, Live
    <2> QED
      BY <2>1, <2>2
  <1>6. bg' \in [Tasks -> ExecType]
    <2>1. bg' = [t \in Tasks |-> bg'[t]]
      BY <1>4
    <2>2. \A t \in Tasks : bg'[t] \in ExecType
      BY <1>5
    <2> QED
      BY <2>1, <2>2
  <1>7. TypeOK'
    BY <1>3, <1>6, Types, TypesAfter DEF CoreInv, BarrierCancels, BoardType, board
  <1>8. RouterFits' /\ Listed'
    BY <1>3, <1>5 DEF RouterFits, Listed, Dispatching, Failing, Settling, Listing
  <1>9. ExecsFit' /\ IsFiniteSet(running)'
    BY <1>1, <1>5 DEF ExecsFit, BarrierCancels, CoreInv
  <1> QED
    BY <1>3, <1>5, <1>7, <1>8, <1>9 DEF CoreInv

\* _settle_cancelled_straggler.
LEMMA SettleStragglerKeeps ==
    ASSUME CoreInv, NEW t \in Tasks, SettleStraggler(t)
    PROVE  CoreInv'
  <1>1. /\ router \in RouterType /\ running \subseteq Tasks /\ router.pc = "settle"
        /\ RouterFits /\ ExecsFit /\ BoardType /\ retries[t] \in Nat /\ router.todo \in SUBSET Tasks
        /\ router.task = None /\ router.mode = "tick" /\ bg' = bg
        /\ (\A u \in Tasks : ~Live(u)) /\ IsFiniteSet(running)
    BY Types DEF CoreInv, SettleStraggler, BoardType, RouterFits, Dispatching, Failing, RouterType,
       Settling, Listed
  <1>2. running' \subseteq Tasks /\ IsFiniteSet(running')
    BY <1>1, FS_RemoveElement DEF SettleStraggler
  <1>3. \A u \in Tasks : ~Live(u)'
    BY <1>1 DEF Live
  <1>4. ExecsFit'
    BY <1>1, <1>3 DEF ExecsFit
  <1>5. /\ router' \in RouterType /\ RouterFits' /\ Listed'
        /\ active' \in [Tasks -> Agents \cup {None}] /\ expired' \subseteq Tasks
        /\ busy' \subseteq Agents
    <2>1. CASE active[t] = None
      <3>1. router' = [router EXCEPT !.todo = @ \ {t}] /\ UNCHANGED <<active, expired, busy>>
        BY <2>1 DEF SettleStraggler, Recover
      <3>2. /\ router' \in RouterType /\ router'.pc = "settle" /\ router'.task = None
            /\ router'.mode = "tick"
        BY <1>1, <3>1 DEF RouterType
      <3> QED
        BY <1>3, <3>1, <3>2, Types
           DEF CoreInv, RouterFits, Listed, Dispatching, Failing, Settling, Listing
    <2>2. CASE active[t] # None
      <3>1. Recover(t, "settle", router.todo \ {t}, retries[t], 0)
        BY <2>2 DEF SettleStraggler
      <3>2. /\ router' \in RouterType /\ router'.pc = "fail" /\ router'.task = t
            /\ router'.mode = "tick" /\ router'.back = "settle"
            /\ router'.todo = router.todo \ {t}
            /\ active' \in [Tasks -> Agents \cup {None}] /\ expired' \subseteq Tasks
            /\ busy' \subseteq Agents
        BY <1>1, <3>1, RouterRecovers, Types DEF CoreInv
      <3> QED
        BY <1>1, <1>3, <3>2, NoneFresh
           DEF RouterFits, Listed, Dispatching, Failing, Settling, Listing
    <2> QED
      BY <2>1, <2>2
  <1>6. TypeOK'
    BY <1>1, <1>2, <1>5, Types, TypesAfter DEF CoreInv, SettleStraggler, BoardType, board
  <1> QED
    BY <1>2, <1>4, <1>5, <1>6 DEF CoreInv

\* _collect_completed: what is forgotten is done, and what is stale does not run.
LEMMA CollectKeeps ==
    ASSUME CoreInv, Collect
    PROVE  /\ CoreInv' /\ UNCHANGED <<board, bg, busy, unread, executions>>
           /\ router'.pc = "stale" /\ router'.mode = router.mode /\ router'.ready = router.ready
           /\ router'.task = None /\ router'.floor = router.floor
           /\ router'.todo = expired \ running
           /\ running' = {t \in running : Live(t)}
           /\ \A t \in Tasks : active'[t] = IF t \in running /\ ~Live(t) THEN None ELSE active[t]
  <1> DEFINE over == {t \in running : ~Live(t)}
  <1>1. /\ router \in RouterType /\ running \subseteq Tasks /\ router.pc = "collect"
        /\ RouterFits /\ ExecsFit /\ IsFiniteSet(running) /\ expired \subseteq Tasks
        /\ active \in [Tasks -> Agents \cup {None}]
    BY Types DEF CoreInv, Collect
  <1>2. /\ running' = running \ over /\ UNCHANGED <<board, bg, busy, unread, executions>>
        /\ active' = [t \in Tasks |-> IF t \in over THEN None ELSE active[t]]
        /\ expired' = expired \ over
        /\ router' = [router EXCEPT !.pc = "stale", !.todo = expired \ running]
    BY DEF Collect
  <1>3. running' \subseteq running /\ IsFiniteSet(running')
    BY <1>1, <1>2, FS_Subset
  <1>4. /\ router' \in RouterType /\ router'.pc = "stale" /\ router'.task = None
        /\ router'.mode = router.mode /\ router'.ready = router.ready
        /\ router'.todo = expired \ running /\ router'.floor = router.floor
    BY <1>1, <1>2 DEF RouterType, RouterPhases, RouterFits, Dispatching, Failing
  <1>5. active' \in [Tasks -> Agents \cup {None}] /\ expired' \subseteq Tasks
    BY <1>1, <1>2
  <1>6. TypeOK'
    BY <1>1, <1>2, <1>3, <1>4, <1>5, Types, TypesAfter DEF CoreInv, BoardType, board
  <1>7. ExecsFit'
    BY <1>1, <1>2 DEF ExecsFit, Live
  <1>8. RouterFits'
    BY <1>4 DEF RouterFits, Dispatching, Failing, Settling, Listing
  <1>9. Listed'
    BY <1>1, <1>2, <1>4 DEF Listed, ExecsFit, Live, Dispatching, Failing, Settling, Listing
  <1>10. running' = {t \in running : Live(t)}
    BY <1>2
  <1>11. \A t \in Tasks : active'[t] = IF t \in running /\ ~Live(t) THEN None ELSE active[t]
    BY <1>2
  <1> QED
    BY <1>2, <1>3, <1>4, <1>6, <1>7, <1>8, <1>9, <1>10, <1>11 DEF CoreInv

\* A stale claim is recovered.
LEMMA RecoverStaleKeeps ==
    ASSUME CoreInv, NEW t \in Tasks, RecoverStale(t)
    PROVE  CoreInv'
  <1>1. /\ router \in RouterType /\ router.pc = "stale" /\ Listed /\ BoardType /\ BoardType'
        /\ retries[t] \in Nat /\ router.todo \ {t} \in SUBSET Tasks /\ t \in router.todo
        /\ UNCHANGED <<running, bg, unread, executions>>
        /\ Recover(t, "stale", router.todo \ {t}, retries[t], 1)
    BY Types DEF CoreInv, RecoverStale, BoardType, RouterType, board
  <1>2. /\ router' \in RouterType /\ router'.pc = "fail" /\ router'.task = t
        /\ router'.back = "stale" /\ router'.todo = router.todo \ {t}
        /\ active' \in [Tasks -> Agents \cup {None}] /\ expired' \subseteq Tasks
        /\ busy' \subseteq Agents
    <2>1. expired \subseteq Tasks /\ busy \subseteq Agents
      BY Types DEF CoreInv
    <2>2. 1 \in Nat
      OBVIOUS
    <2>3. Recover(t, "stale", router.todo \ {t}, retries[t], 1)
      BY <1>1
    <2> QED
      BY <1>1, <2>1, <2>2, <2>3, RouterRecovers
  <1>3. RouterFits' /\ Listed'
    BY <1>1, <1>2 DEF RouterFits, Listed, Live, Dispatching, Failing, Settling, Listing
  <1> QED
    BY <1>1, <1>2, <1>3, RouterOnly, Types DEF CoreInv

\* The router goes back to its list, its stale claims or its stragglers.
LEMMA ResumeFits ==
    ASSUME CoreInv, Resume, Failing \/ Dispatching, bg' = bg,
           Listing => router.ready \cap running' = {}
    PROVE  RouterFits' /\ Listed'
  <1>1. /\ router'.pc = router.back /\ router'.mode = router.mode
        /\ router'.back = router.back /\ router'.ready = router.ready
        /\ router'.todo = router.todo /\ router'.task = None
        /\ RouterFits /\ Listed /\ router \in RouterType
    BY RouterResumes, Types DEF CoreInv
  <1>2. router'.pc \in {"settle", "stale", "pick"}
    BY <1>1 DEF RouterFits, RouterType
  <1>3. router'.pc = "pick" => Listing
    BY <1>1 DEF Listing, Failing, Dispatching, RouterFits
  <1>4. router'.pc = "settle" => Settling
    BY <1>1 DEF Settling, Failing, Dispatching, RouterFits
  <1>5. router'.pc = "stale" => Failing
    BY <1>1 DEF Failing, Dispatching, RouterFits
  <1>6. RouterFits'
    BY <1>1, <1>2, <1>3, <1>4 DEF RouterFits, Dispatching, Failing, Settling, Listing
  <1>7. Listed'
    <2>1. Listing' => router'.pc = "pick"
      BY <1>2 DEF Listing, Dispatching, Failing
    <2>2. ~Dispatching' /\ ~Failing'
      BY <1>2 DEF Dispatching, Failing
    <2>3. Settling' => \A t \in Tasks : ~Live(t)'
      BY <1>1, <1>4, <2>2 DEF Settling, Listed, Live
    <2>4. router'.pc = "stale" => \A t \in router'.todo : ~Live(t)'
      BY <1>1, <1>5 DEF Listed, Live
    <2> QED
      BY <1>1, <1>3, <2>1, <2>2, <2>3, <2>4 DEF Listed
  <1> QED
    BY <1>6, <1>7

\* The router's first write of a failure.
LEMMA RouterFailsKeeps ==
    ASSUME CoreInv, RouterFails
    PROVE  CoreInv'
  <1>1. /\ router \in RouterType /\ router.pc = "fail" /\ Failing /\ Listed /\ RouterFits /\ BoardType
        /\ router.task \in Tasks /\ router.count \in Nat /\ router.floor \in Nat
        /\ UNCHANGED <<active, expired, running, bg, busy, unread, executions>>
    BY Types DEF CoreInv, RouterFails, RouterFits, Failing, RouterType
  <1>2. BoardType'
    BY <1>1, FailedWritten DEF RouterFails
  <1>3. CASE Router("requeue")
    <2>1. /\ router' \in RouterType /\ router'.pc = "requeue" /\ router'.mode = router.mode
          /\ router'.back = router.back /\ router'.ready = router.ready
          /\ router'.todo = router.todo /\ router'.task = router.task
      BY <1>3, RouterGoes DEF RouterPhases
    <2>2. RouterFits' /\ Listed'
      BY <1>1, <2>1 DEF RouterFits, Listed, Live, Dispatching, Failing, Settling, Listing
    <2> QED
      BY <1>1, <1>2, <2>1, <2>2, RouterOnly, Types DEF CoreInv
  <1>4. CASE Resume
    <2>1. router' \in RouterType
      BY <1>4, RouterResumes
    <2>2. RouterFits' /\ Listed'
      BY <1>1, <1>4, ResumeFits DEF Listed
    <2> QED
      BY <1>1, <1>2, <2>1, <2>2, RouterOnly, Types DEF CoreInv
  <1> QED
    BY <1>3, <1>4 DEF RouterFails

\* And its second.
LEMMA RouterRequeuesKeeps ==
    ASSUME CoreInv, RouterRequeues
    PROVE  CoreInv'
  <1>1. /\ router.pc = "requeue" /\ Failing /\ Listed /\ BoardType /\ Resume
        /\ router.task \in Tasks /\ router.count \in Nat /\ router.floor \in Nat
        /\ UNCHANGED <<active, expired, running, bg, busy, unread, executions>>
    BY Types DEF CoreInv, RouterRequeues, RouterFits, Failing, RouterType
  <1>2. BoardType'
    BY <1>1, PendingWritten DEF RouterRequeues
  <1>3. RouterFits' /\ Listed' /\ router' \in RouterType
    BY <1>1, ResumeFits, RouterResumes DEF Listed
  <1> QED
    BY <1>1, <1>2, <1>3, RouterOnly, Types DEF CoreInv

\* route_next lists what is ready and not running.
LEMMA ReadIdleKeeps ==
    ASSUME CoreInv, ReadIdle
    PROVE  /\ CoreInv' /\ router'.pc = "pick" /\ router'.ready \subseteq router.ready \ running
           /\ router'.idle = Agents \ busy /\ router'.task = None /\ router'.mode = router.mode
           /\ router'.floor = router.floor
           /\ UNCHANGED <<board, active, expired, running, bg, busy, unread, executions>>
  <1> DEFINE slots == IF Cardinality(running) >= MaxConcurrent THEN 0
                      ELSE MaxConcurrent - Cardinality(running)
  <1>1. /\ router \in RouterType /\ router.pc = "idle" /\ RouterFits
        /\ UNCHANGED <<board, active, expired, running, bg, busy, unread, executions>>
    BY Types DEF CoreInv, ReadIdle
  <1>2. slots \in Nat
    BY FS_CardinalityType, LimitTypes DEF CoreInv
  <1>3. router' = [router EXCEPT !.pc = "pick", !.back = "pick",
                      !.ready = @ \ (running \cup waiting), !.idle = Agents \ busy,
                      !.slots = slots]
    BY DEF ReadIdle
  <1> HIDE DEF slots
  <1>4. /\ router' \in RouterType /\ router'.pc = "pick" /\ router'.back = "pick"
        /\ router'.ready = router.ready \ (running \cup waiting) /\ router'.idle = Agents \ busy
        /\ router'.task = None /\ router'.mode = "route" /\ router.mode = "route"
        /\ router'.floor = router.floor
    BY <1>1, <1>2, <1>3 DEF RouterType, RouterPhases, RouterFits, Dispatching, Failing
  <1>5. RouterFits' /\ Listed'
    BY <1>1, <1>4 DEF RouterFits, Listed, Dispatching, Failing, Settling, Listing
  <1>6. CoreInv'
    BY <1>1, <1>4, <1>5, RouterOnly, Types DEF CoreInv, BoardType, board
  <1> QED
    BY <1>1, <1>4, <1>6

\* The next dispatch leaves the lists.
LEMMA PickKeeps ==
    ASSUME CoreInv, NEW t \in Tasks, NEW a \in Agents, Pick(t, a)
    PROVE  /\ CoreInv' /\ router'.pc = "gate" /\ router'.task = t /\ router'.agent = a
           /\ router'.ready = router.ready \ {t} /\ router'.idle = router.idle \ {a}
           /\ router'.count = retries[t] /\ router'.floor = router.floor
           /\ router'.mode = router.mode /\ t \in router.ready /\ a \in router.idle
           /\ UNCHANGED <<board, active, expired, running, bg, busy, unread, executions>>
  <1>1. /\ router \in RouterType /\ router.pc = "pick" /\ RouterFits /\ Listed /\ retries[t] \in Nat
        /\ router.slots \in Nat /\ router.slots > 0 /\ t \in router.ready /\ a \in router.idle
        /\ UNCHANGED <<board, active, expired, running, bg, busy, unread, executions>>
    BY Types DEF CoreInv, Pick, BoardType, RouterType
  <1>2. router.slots - 1 \in Nat
    BY <1>1
  <1>3. router' = [router EXCEPT !.pc = "gate", !.ready = router.ready \ {t},
                      !.idle = router.idle \ {a}, !.slots = router.slots - 1, !.task = t,
                      !.agent = a, !.count = retries[t]]
    BY <1>1 DEF Pick, RouterType
  <1>4. /\ router' \in RouterType /\ router'.pc = "gate" /\ router'.task = t /\ router'.agent = a
        /\ router'.ready = router.ready \ {t} /\ router'.idle = router.idle \ {a}
        /\ router'.count = retries[t] /\ router'.floor = router.floor
        /\ router'.mode = router.mode /\ router'.back = router.back
    BY <1>1, <1>2, <1>3 DEF RouterType, RouterPhases
  <1>5. RouterFits' /\ Listed'
    BY <1>1, <1>4 DEF RouterFits, Listed, Dispatching, Failing, Settling, Listing
  <1>6. CoreInv'
    BY <1>1, <1>4, <1>5, RouterOnly, Types DEF CoreInv, BoardType, board
  <1> QED
    BY <1>1, <1>4, <1>6

\* A deferred task leaves the list.
LEMMA YogaKeeps ==
    ASSUME CoreInv, NEW t \in Tasks, YogaSkips(t)
    PROVE  /\ CoreInv' /\ router'.pc = "pick" /\ router'.task = router.task
           /\ router'.ready = router.ready \ {t} /\ router'.idle = router.idle
           /\ router'.floor = router.floor /\ router'.mode = router.mode /\ router.pc = "pick"
           /\ UNCHANGED <<board, active, expired, running, bg, busy, unread, executions>>
  <1>1. /\ router \in RouterType /\ router.pc = "pick" /\ RouterFits /\ Listed
        /\ UNCHANGED <<board, active, expired, running, bg, busy, unread, executions>>
        /\ router' = [router EXCEPT !.ready = @ \ {t}]
    BY Types DEF CoreInv, YogaSkips
  <1>2. /\ router' \in RouterType /\ router'.pc = "pick" /\ router'.task = router.task
        /\ router'.ready = router.ready \ {t} /\ router'.idle = router.idle
        /\ router'.floor = router.floor /\ router'.mode = router.mode
        /\ router'.back = router.back
    BY <1>1 DEF RouterType
  <1>3. RouterFits' /\ Listed'
    BY <1>1, <1>2 DEF RouterFits, Listed, Dispatching, Failing, Settling, Listing
  <1>4. CoreInv'
    BY <1>1, <1>2, <1>3, RouterOnly, Types DEF CoreInv, BoardType, board
  <1> QED
    BY <1>1, <1>2, <1>4

\* The steps of _assign_dispatch up to the background task.
DispatchStep == GatePasses \/ AssignTask \/ RecordClaim \/ SendNotice \/ StartTask

\* They go from phase to phase with the dispatch they have.
LEMMA DispatchStepKeeps ==
    ASSUME CoreInv, DispatchStep
    PROVE  /\ CoreInv' /\ Dispatching /\ Dispatching' /\ router'.pc # "gate"
           /\ router'.task = router.task /\ router'.agent = router.agent
           /\ router'.ready = router.ready /\ router'.idle = router.idle
           /\ router'.count = router.count /\ router'.floor = router.floor
           /\ router'.mode = router.mode
           /\ UNCHANGED <<retries, limit, waiting, running, bg, busy, executions>>
           /\ \A u \in Tasks \ {router.task} : status'[u] = status[u] /\ active'[u] = active[u]
  <1>1. /\ router \in RouterType /\ RouterFits /\ Listed /\ BoardType /\ Dispatching
        /\ router.task \in Tasks /\ router.agent \in Agents
        /\ active \in [Tasks -> Agents \cup {None}] /\ expired \subseteq Tasks
        /\ UNCHANGED <<retries, limit, waiting, running, bg, busy, executions>>
    BY Types DEF CoreInv, DispatchStep, GatePasses, AssignTask, RecordClaim, SendNotice, StartTask,
       RouterFits, Dispatching, board
  <1>2. PICK pc \in {"assign", "claim", "send", "start", "spawn"} : Router(pc)
    BY DEF DispatchStep, GatePasses, AssignTask, RecordClaim, SendNotice, StartTask
  <1>3. /\ router' \in RouterType /\ router'.pc = pc /\ router'.mode = router.mode
        /\ router'.back = router.back /\ router'.ready = router.ready
        /\ router'.idle = router.idle /\ router'.slots = router.slots
        /\ router'.todo = router.todo /\ router'.task = router.task
        /\ router'.agent = router.agent /\ router'.count = router.count
        /\ router'.floor = router.floor
    BY <1>2, RouterGoes DEF RouterPhases
  <1>4. /\ status' \in [Tasks -> Lifecycle!Statuses \ {"absent"}]
        /\ \A u \in Tasks \ {router.task} : status'[u] = status[u]
    <2>1. CASE status' = status
      BY <1>1, <2>1 DEF BoardType
    <2>2. CASE AssignTask \/ StartTask
      BY <1>1, <2>2, SafeUpdated DEF AssignTask, StartTask
    <2> QED
      BY <2>1, <2>2 DEF DispatchStep, GatePasses, RecordClaim, SendNotice, board
  <1>5. /\ active' \in [Tasks -> Agents \cup {None}] /\ expired' \subseteq Tasks
        /\ \A u \in Tasks \ {router.task} : active'[u] = active[u]
    BY <1>1 DEF DispatchStep, GatePasses, AssignTask, RecordClaim, SendNotice, StartTask
  <1>6. unread' \in BOOLEAN
    BY Types DEF CoreInv, DispatchStep, GatePasses, AssignTask, RecordClaim, SendNotice, StartTask
  <1>7. RouterFits' /\ Listed'
    BY <1>1, <1>3 DEF RouterFits, Listed, Dispatching, Failing, Settling, Listing
  <1>8. CoreInv'
    BY <1>1, <1>3, <1>4, <1>5, <1>6, <1>7, RouterOnly, Types DEF CoreInv, BoardType
  <1>9. Dispatching' /\ router'.pc # "gate"
    BY <1>3 DEF Dispatching
  <1> QED
    BY <1>1, <1>3, <1>4, <1>5, <1>8, <1>9

\* A blocked dispatch fails its task.
LEMMA GateBlocksKeeps ==
    ASSUME CoreInv, GateBlocks
    PROVE  /\ CoreInv' /\ Resume /\ router.pc = "gate" /\ router.task \in Tasks
           /\ UNCHANGED <<retries, limit, waiting, active, expired, running, bg, busy, unread,
                          executions>>
           /\ status'[router.task] =
                 IF status[router.task] \in {"pending", "running"} THEN "failed"
                 ELSE status[router.task]
           /\ \A u \in Tasks \ {router.task} : status'[u] = status[u]
  <1>1. /\ router.pc = "gate" /\ Dispatching /\ Listed /\ BoardType /\ Resume
        /\ router.task \in Tasks
        /\ UNCHANGED <<retries, limit, waiting, active, expired, running, bg, busy, unread,
                       executions>>
    BY Types DEF CoreInv, GateBlocks, RouterFits, Dispatching
  <1>2. /\ BoardType'
        /\ status'[router.task] =
              IF status[router.task] \in {"pending", "running"} THEN "failed"
              ELSE status[router.task]
        /\ \A u \in Tasks \ {router.task} : status'[u] = status[u]
    BY <1>1, SafeUpdated, Moves DEF GateBlocks, BoardType
  <1>3. RouterFits' /\ Listed' /\ router' \in RouterType
    BY <1>1, ResumeFits, RouterResumes DEF Listed
  <1> QED
    BY <1>1, <1>2, <1>3, RouterOnly, Types DEF CoreInv

\* dispatch_dropoff gives the claim up.
LEMMA DropOffKeeps ==
    ASSUME CoreInv, DropOff
    PROVE  /\ CoreInv' /\ router.task \in Tasks /\ router.pc = "start"
           /\ Recover(router.task, "pick", {}, router.count, 1)
           /\ router'.pc = "fail" /\ router'.task = router.task /\ router'.back = "pick"
           /\ router'.mode = router.mode
           /\ router'.ready = router.ready /\ router'.idle = router.idle
           /\ router'.count = router.count /\ router'.floor = 1
           /\ active'[router.task] = None
           /\ (\A u \in Tasks \ {router.task} : active'[u] = active[u])
           /\ UNCHANGED <<board, running, bg, unread, executions>>
  <1>1. /\ router \in RouterType /\ router.pc = "start" /\ RouterFits /\ Listed /\ Dispatching
        /\ router.task \in Tasks /\ router.count \in Nat /\ BoardType' /\ ExecsFit
        /\ router.mode = "route" /\ router.task \notin running
        /\ UNCHANGED <<board, running, bg, unread, executions>>
        /\ Recover(router.task, "pick", {}, router.count, 1)
        /\ expired \subseteq Tasks /\ busy \subseteq Agents
    BY Types DEF CoreInv, DropOff, RouterFits, Dispatching, RouterType, BoardType, board, Listing,
       Listed
  <1>2. 1 \in Nat /\ {} \in SUBSET Tasks
    OBVIOUS
  <1>3. /\ router' \in RouterType /\ router'.pc = "fail" /\ router'.mode = router.mode
        /\ router'.back = "pick" /\ router'.ready = router.ready /\ router'.idle = router.idle
        /\ router'.todo = {} /\ router'.task = router.task
        /\ router'.count = router.count /\ router'.floor = 1
        /\ active' \in [Tasks -> Agents \cup {None}] /\ active'[router.task] = None
        /\ \A u \in Tasks \ {router.task} : active'[u] = active[u]
        /\ expired' \subseteq Tasks /\ busy' \subseteq Agents
    <2>1. router' = [router EXCEPT !.pc = "fail", !.back = "pick", !.todo = {},
                                   !.task = router.task, !.count = router.count, !.floor = 1]
      BY <1>1 DEF Recover
    <2>2. /\ router' \in RouterType /\ router'.pc = "fail" /\ router'.mode = router.mode
          /\ router'.back = "pick" /\ router'.ready = router.ready /\ router'.idle = router.idle
          /\ router'.todo = {} /\ router'.task = router.task
          /\ router'.count = router.count /\ router'.floor = 1
      BY <1>1, <1>2, <2>1 DEF RouterType, RouterPhases
    <2>3. active \in [Tasks -> Agents \cup {None}]
      BY Types DEF CoreInv
    <2> QED
      BY <1>1, <2>2, <2>3 DEF Recover, Unclaim, Release
  <1>4. bg'[router.task].pc \in {"none", "done"}
    BY <1>1 DEF ExecsFit, Live
  <1>5. RouterFits' /\ Listed'
    BY <1>1, <1>3, <1>4 DEF RouterFits, Listed, Live, Dispatching, Failing, Settling, Listing
  <1>6. CoreInv'
    BY <1>1, <1>3, <1>5, RouterOnly, Types DEF CoreInv
  <1> QED
    BY <1>1, <1>3, <1>6

\* The background task starts; its task was not running.
LEMMA SpawnKeeps ==
    ASSUME CoreInv, Spawn
    PROVE  /\ CoreInv' /\ router.pc = "spawn" /\ Resume /\ router.task \in Tasks
           /\ bg'[router.task] = Exec("new", router.agent, router.count, 0)
           /\ (\A u \in Tasks \ {router.task} : bg'[u] = bg[u] /\ executions'[u] = executions[u])
           /\ running' = running \cup {router.task}
           /\ executions'[router.task] = executions[router.task] + 1
           /\ UNCHANGED <<board, active, expired, busy, unread>>
           /\ router'.pc = "pick" /\ router'.ready = router.ready /\ router'.idle = router.idle
           /\ router'.task = None /\ router'.mode = router.mode /\ router'.floor = 0
  <1>1. /\ router \in RouterType /\ router.pc = "spawn" /\ RouterFits /\ Listed /\ Dispatching
        /\ router.task \in Tasks /\ router.agent \in Agents /\ router.count \in Nat /\ ExecsFit
        /\ bg \in [Tasks -> ExecType] /\ executions \in [Tasks -> Nat] /\ running \subseteq Tasks
        /\ IsFiniteSet(running) /\ BoardType' /\ router.back = "pick"
        /\ UNCHANGED <<board, active, expired, busy, unread>> /\ Resume
    BY Types DEF CoreInv, Spawn, RouterFits, Dispatching, RouterType, BoardType, board
  <1>2. Exec("new", router.agent, router.count, 0) \in ExecType
        /\ Exec("new", router.agent, router.count, 0).agent \in Agents
    BY <1>1 DEF Exec, ExecType, BgPhases
  <1>3. /\ bg' \in [Tasks -> ExecType]
        /\ bg'[router.task] = Exec("new", router.agent, router.count, 0)
        /\ \A u \in Tasks \ {router.task} : bg'[u] = bg[u]
    BY <1>1, <1>2 DEF Spawn
  <1>4. /\ executions' \in [Tasks -> Nat]
        /\ executions'[router.task] = executions[router.task] + 1
        /\ \A u \in Tasks \ {router.task} : executions'[u] = executions[u]
    BY <1>1 DEF Spawn
  <1>5. running' = running \cup {router.task} /\ IsFiniteSet(running')
    BY <1>1, FS_AddElement DEF Spawn
  <1>6. /\ router' \in RouterType /\ router'.pc = "pick" /\ router'.mode = router.mode
        /\ router'.back = router.back /\ router'.ready = router.ready
        /\ router'.idle = router.idle /\ router'.task = None /\ router'.floor = 0
    BY <1>1, RouterResumes
  <1>7. TypeOK'
    BY <1>1, <1>3, <1>4, <1>5, <1>6, Types, TypesAfter DEF CoreInv
  <1>8. ExecsFit'
    BY <1>1, <1>2, <1>3, <1>5 DEF ExecsFit, Live
  <1>9. RouterFits' /\ Listed'
    BY <1>1, <1>5, <1>6 DEF RouterFits, Listed, Dispatching, Failing, Settling, Listing
  <1> QED
    BY <1>1, <1>3, <1>4, <1>5, <1>6, <1>7, <1>8, <1>9 DEF CoreInv

\* What the environment does.
EnvStep ==
    \/ \E t \in Tasks : ClaimExpires(t) \/ BackoffEnds(t) \/ OperatorCancels(t)
    \/ MailArrives \/ InboxRead \/ UNCHANGED vars

\* The environment touches neither the executions nor the router.
LEMMA EnvStepKeeps ==
    ASSUME CoreInv, EnvStep
    PROVE  /\ CoreInv' /\ UNCHANGED <<retries, limit, active, running, bg, busy, router, executions>>
           /\ \A t \in Tasks : status'[t] = status[t] \/ (status'[t] = "cancelled" /\ Accepts(t, "cancelled"))
  <1>1. /\ UNCHANGED <<retries, limit, active, running, bg, busy, router, executions>>
        /\ Listed /\ RouterFits /\ router \in RouterType /\ BoardType
    BY Types DEF CoreInv, EnvStep, ClaimExpires, BackoffEnds, OperatorCancels, MailArrives,
       InboxRead, vars, board
  <1>2. /\ status' \in [Tasks -> Lifecycle!Statuses \ {"absent"}]
        /\ \A t \in Tasks : status'[t] = status[t] \/ (status'[t] = "cancelled" /\ Accepts(t, "cancelled"))
    BY <1>1 DEF EnvStep, ClaimExpires, BackoffEnds, OperatorCancels, MailArrives,
       InboxRead, vars, board, BoardType, Lifecycle!Statuses
  <1>3. expired' \subseteq Tasks /\ waiting' \subseteq Tasks /\ unread' \in BOOLEAN
    BY Types DEF CoreInv, BoardType, EnvStep, ClaimExpires, BackoffEnds, OperatorCancels,
       MailArrives, InboxRead, vars, board
  <1>4. RouterFits' /\ Listed'
    BY <1>1 DEF RouterFits, Listed, Live, Dispatching, Failing, Settling, Listing
  <1>5. CoreInv'
    BY <1>1, <1>2, <1>3, <1>4, RouterOnly, Types DEF CoreInv, BoardType
  <1> QED
    BY <1>1, <1>2, <1>5

\* The steps, by what they do to the executions and the lists.
Step ==
    \/ EnvStep \/ \E t \in Tasks : BgStep(t)
    \/ TickBegins \/ SettleBegins \/ DirectBegins \/ BarrierPasses \/ StragglersSettled
    \/ Collected \/ ReadReady \/ Routed \/ SendRaises \/ Cut
    \/ BarrierCancels \/ (\E t \in Tasks : SettleStraggler(t)) \/ Collect
    \/ (\E t \in Tasks : RecoverStale(t)) \/ RouterFails \/ RouterRequeues \/ ReadIdle
    \/ (\E t \in Tasks, a \in Agents : Pick(t, a)) \/ (\E t \in Tasks : YogaSkips(t))
    \/ DispatchStep \/ GateBlocks \/ DropOff \/ Spawn

\* Every step is one of these.
LEMMA NextSteps == [Next]_vars => Step
  BY DEF Next, Step, RouterStep, EnvStep, DispatchStep, AllHalted

\* An orchestrator starts with nothing running and nothing listed.
LEMMA CoreInit == Init => CoreInv
  <1> SUFFICES ASSUME Init PROVE CoreInv
    OBVIOUS
  <1>1. NoExec \in ExecType /\ NoExec.pc = "none"
    BY DEF NoExec, Exec, ExecType, BgPhases
  <1>2. TypeOK
    BY <1>1, RestType, LimitTypes, Types DEF Init, BoardType, Lifecycle!Statuses
  <1>3. RouterFits /\ Listed
    BY RestType DEF Init, RouterFits, Listed, Dispatching, Failing, Settling, Listing
  <1>4. ExecsFit /\ IsFiniteSet(running)
    BY <1>1, FS_EmptySet DEF Init, ExecsFit, Live
  <1> QED
    BY <1>2, <1>3, <1>4 DEF CoreInv

\* And every step keeps what is listed apart from what runs.
LEMMA CoreNext == CoreInv /\ [Next]_vars => CoreInv'
  <1> SUFFICES ASSUME CoreInv, Step PROVE CoreInv'
    BY NextSteps
  <1> QED
    BY EnvStepKeeps, BgStepKeeps, PlainSteps, BarrierCancelsKeeps, SettleStragglerKeeps,
       CollectKeeps, RecoverStaleKeeps, RouterFailsKeeps, RouterRequeuesKeeps, ReadIdleKeeps,
       PickKeeps, YogaKeeps, DispatchStepKeeps, GateBlocksKeeps, DropOffKeeps, SpawnKeeps DEF Step

\* The core invariant holds.
THEOREM CoreInvHolds == Spec => []CoreInv
  BY CoreInit, CoreNext, PTL DEF Spec

\* Every variable keeps its type, in every combination of faults.
THEOREM TypeCorrect == Spec => []TypeOK
  BY CoreInvHolds, PTL DEF CoreInv

\* No task has two executions, whatever is cancelled or cut, and whether or
\* not route_next is called outside a tick.
THEOREM NoOverlapHolds == Spec => []NoOverlap
  <1>1. CoreInv => NoOverlap
    BY DEF CoreInv, NoOverlap, Listed, ExecsFit, RouterFits, Dispatching
  <1> QED
    BY <1>1, CoreInvHolds, PTL

-----------------------------------------------------------------------------
(* One task per agent *)

\* A tick has passed its barrier and not listed the idle agents yet.
Cleared ==
    /\ router.mode # "settle"
    /\ \/ router.pc \in {"settle", "collect", "stale", "ready", "idle"}
       \/ Failing /\ router.back # "pick"

\* Agents that the router may still give away have no execution.
AgentsApart ==
    /\ Cleared => \A t \in Tasks : ~Live(t)
    /\ Listing => \A t \in Tasks : Live(t) => bg[t].agent \notin router.idle
    /\ Dispatching => /\ router.agent \notin router.idle
                      /\ \A t \in Tasks : Live(t) => bg[t].agent # router.agent
    /\ \A t, u \in Tasks : Live(t) /\ Live(u) /\ bg[t].agent = bg[u].agent => t = u

\* No execution starts and the router gives away no other agents than before.
LEMMA ApartKept ==
    ASSUME CoreInv, AgentsApart,
           \A t \in Tasks : Live(t)' => Live(t) /\ bg'[t].agent = bg[t].agent,
           Cleared' => Cleared \/ \A t \in Tasks : ~Live(t)',
           Listing' => Listing /\ router'.idle \subseteq router.idle,
           Dispatching' => Dispatching /\ router'.agent = router.agent
    PROVE  AgentsApart'
  <1>1. Cleared' => \A t \in Tasks : ~Live(t)'
    BY DEF AgentsApart
  <1>2. Dispatching => Listing
    BY DEF Listing
  <1>3. Listing' => \A t \in Tasks : Live(t)' => bg'[t].agent \notin router'.idle
    BY DEF AgentsApart
  <1>4. Dispatching' => /\ router'.agent \notin router'.idle
                        /\ \A t \in Tasks : Live(t)' => bg'[t].agent # router'.agent
    <2> SUFFICES ASSUME Dispatching'
                 PROVE  /\ router'.agent \notin router'.idle
                        /\ \A t \in Tasks : Live(t)' => bg'[t].agent # router'.agent
      OBVIOUS
    <2>1. Listing' /\ Dispatching /\ router'.agent = router.agent
      BY DEF Listing
    <2> QED
      BY <2>1 DEF AgentsApart
  <1>5. \A t, u \in Tasks : Live(t)' /\ Live(u)' /\ bg'[t].agent = bg'[u].agent => t = u
    BY DEF AgentsApart
  <1> QED
    BY <1>1, <1>3, <1>4, <1>5 DEF AgentsApart

\* The same when the executions stay as they are.
LEMMA ApartSame ==
    ASSUME CoreInv, AgentsApart, bg' = bg,
           Cleared' => Cleared,
           Listing' => Listing /\ router'.idle \subseteq router.idle,
           Dispatching' => Dispatching /\ router'.agent = router.agent
    PROVE  AgentsApart'
  BY ApartKept DEF Live

\* The barrier of a tick lets no execution through.
LEMMA ApartBarrier ==
    ASSUME CoreInv, AgentsApart, BarrierPasses \/ BarrierCancels
    PROVE  AgentsApart'
  <1>1. CASE BarrierPasses
    <2>1. (\A t \in Tasks : ~Live(t)) /\ bg' = bg
      BY <1>1 DEF CoreInv, ExecsFit, BarrierPasses
    <2>2. router'.pc = "collect"
      BY <1>1, RouterGoes DEF BarrierPasses, RouterPhases
    <2>3. ~Listing' /\ ~Dispatching'
      BY <2>2 DEF Listing, Dispatching, Failing
    <2>4. \A t \in Tasks : ~Live(t)'
      BY <2>1 DEF Live
    <2> QED
      BY <2>3, <2>4 DEF AgentsApart
  <1>2. CASE BarrierCancels
    <2>1. router'.pc = "settle" /\ \A t \in Tasks : ~Live(t)'
      BY <1>2, BarrierCancelsKeeps
    <2>2. ~Listing' /\ ~Dispatching'
      BY <2>1 DEF Listing, Dispatching, Failing
    <2> QED
      BY <2>1, <2>2 DEF AgentsApart
  <1> QED
    BY <1>1, <1>2

\* The plain steps of a router that never lists without a barrier.
LEMMA ApartPlain ==
    ASSUME CoreInv, AgentsApart, ~DirectRoute,
           \/ TickBegins \/ SettleBegins \/ DirectBegins \/ StragglersSettled
           \/ Collected \/ ReadReady \/ Routed \/ SendRaises \/ Cut
    PROVE  AgentsApart'
  <1>1. bg' = bg /\ router \in RouterType /\ RouterFits
    BY PlainSteps, Types DEF CoreInv
  <1>2. CASE TickBegins \/ SettleBegins \/ Routed \/ SendRaises \/ Cut
    <2>1. router'.pc \in {"barrier", "rest"} \/ (router'.pc = "collect" /\ router'.mode = "settle")
      BY <1>2, RestType DEF TickBegins, SettleBegins, Routed, SendRaises, Cut, Rest, RouterType
    <2>2. ~Listing' /\ ~Dispatching' /\ ~Cleared'
      BY <2>1 DEF Listing, Dispatching, Failing, Cleared
    <2> QED
      BY <1>1, <2>2, ApartSame
  <1>3. CASE StragglersSettled \/ ReadReady
    <2>1. router'.pc \in {"collect", "idle"} /\ Cleared
      BY <1>1, <1>3, RouterGoes DEF StragglersSettled, ReadReady, RouterType, RouterPhases,
         Cleared, RouterFits, Settling
    <2>2. ~Listing' /\ ~Dispatching'
      BY <2>1 DEF Listing, Dispatching, Failing
    <2> QED
      BY <1>1, <2>1, <2>2, ApartSame
  <1>4. CASE Collected
    <2>1. router.pc = "stale" /\ router.mode \in {"tick", "route", "settle"}
      BY <1>1, <1>4 DEF Collected, RouterType
    <2>2. CASE router.mode = "settle"
      <3>1. router'.pc = "rest"
        BY <1>4, <2>2, RestType DEF Collected
      <3>2. ~Listing' /\ ~Dispatching' /\ ~Cleared'
        BY <3>1 DEF Listing, Dispatching, Failing, Cleared
      <3> QED
        BY <1>1, <3>2, ApartSame
    <2>3. CASE router.mode # "settle"
      <3>1. router'.pc \in {"collect", "ready"}
        BY <1>1, <1>4, <2>1, <2>3 DEF Collected, RouterType
      <3>2. ~Listing' /\ ~Dispatching' /\ Cleared
        BY <2>1, <2>3, <3>1 DEF Listing, Dispatching, Failing, Cleared
      <3> QED
        BY <1>1, <3>2, ApartSame
    <2> QED
      BY <2>2, <2>3
  <1> QED
    BY <1>2, <1>3, <1>4 DEF DirectBegins

\* The router handles a failure.
LEMMA ApartFailing ==
    ASSUME CoreInv, AgentsApart,
           RouterFails \/ RouterRequeues \/ GateBlocks \/ DropOff
             \/ \E t \in Tasks : RecoverStale(t) \/ SettleStraggler(t)
    PROVE  AgentsApart'
  <1>1. bg' = bg /\ router \in RouterType /\ RouterFits /\ BoardType /\ router.todo \in SUBSET Tasks
    BY Types DEF CoreInv, RouterFails, RouterRequeues, GateBlocks, DropOff, RecoverStale,
       SettleStraggler, RouterType
  <1>2. CASE Resume /\ (Failing \/ Dispatching)
    <2>1. /\ router'.pc = router.back /\ router'.mode = router.mode /\ router'.idle = router.idle
          /\ router.back \in {"settle", "stale", "pick"}
      BY <1>1, <1>2, RouterResumes DEF RouterFits, RouterType
    <2>2. ~Dispatching' /\ (Listing' => Listing) /\ (Cleared' => Cleared)
      BY <1>1, <1>2, <2>1 DEF Dispatching, Listing, Failing, Cleared, RouterFits
    <2> QED
      BY <1>1, <2>1, <2>2, ApartSame
  <1>3. CASE RouterFails /\ Router("requeue")
    <2>1. /\ router'.pc = "requeue" /\ router'.mode = router.mode /\ router'.back = router.back
          /\ router'.idle = router.idle /\ router.pc = "fail"
      BY <1>3, RouterGoes DEF RouterPhases, RouterFails
    <2>2. ~Dispatching' /\ (Listing' => Listing) /\ (Cleared' => Cleared)
      BY <2>1 DEF Dispatching, Listing, Failing, Cleared
    <2> QED
      BY <1>1, <2>1, <2>2, ApartSame
  <1>4. CASE DropOff
    <2>1. /\ router'.pc = "fail" /\ router'.back = "pick" /\ router'.idle = router.idle
          /\ router.pc = "start"
      BY <1>4, DropOffKeeps
    <2>2. ~Dispatching' /\ Listing /\ ~Cleared'
      BY <2>1 DEF Dispatching, Listing, Failing, Cleared
    <2> QED
      BY <1>1, <2>1, <2>2, ApartSame
  <1>5. ASSUME NEW t \in Tasks, NEW back \in {"settle", "stale"}, router.pc = back,
               NEW todo \in SUBSET Tasks, NEW floor \in Nat,
               Recover(t, back, todo, retries[t], floor)
        PROVE  AgentsApart'
    <2>1. router' = [router EXCEPT !.pc = "fail", !.back = back, !.todo = todo, !.task = t,
                                   !.count = retries[t], !.floor = floor]
      BY <1>5 DEF Recover
    <2>2. router'.pc = "fail" /\ router'.mode = router.mode /\ router'.back = back
      BY <1>1, <2>1 DEF RouterType
    <2>3. ~Dispatching' /\ ~Listing' /\ (Cleared' => Cleared)
      BY <1>5, <2>2 DEF Dispatching, Listing, Failing, Cleared
    <2> QED
      BY <1>1, <2>3, ApartSame
  <1>6. ASSUME NEW t \in Tasks, RecoverStale(t) \/ SettleStraggler(t) PROVE AgentsApart'
    <2>1. CASE RecoverStale(t)
      <3>1. router.pc = "stale" /\ Recover(t, "stale", router.todo \ {t}, retries[t], 1)
        BY <2>1 DEF RecoverStale
      <3>2. router.todo \ {t} \in SUBSET Tasks /\ 1 \in Nat
        BY <1>1
      <3> QED
        BY <1>5, <3>1, <3>2
    <2>2. CASE SettleStraggler(t) /\ active[t] # None
      <3>1. router.pc = "settle" /\ Recover(t, "settle", router.todo \ {t}, retries[t], 0)
        BY <2>2 DEF SettleStraggler
      <3>2. router.todo \ {t} \in SUBSET Tasks /\ 0 \in Nat
        BY <1>1
      <3> QED
        BY <1>5, <3>1, <3>2
    <2>3. CASE SettleStraggler(t) /\ active[t] = None
      <3>1. router' = [router EXCEPT !.todo = @ \ {t}] /\ router.pc = "settle"
        BY <2>3 DEF SettleStraggler, Recover
      <3>2. router'.pc = "settle" /\ router'.mode = router.mode
        BY <1>1, <3>1 DEF RouterType
      <3>3. ~Dispatching' /\ ~Listing' /\ (Cleared' => Cleared)
        BY <3>1, <3>2 DEF Dispatching, Listing, Failing, Cleared
      <3> QED
        BY <1>1, <3>3, ApartSame
    <2> QED
      BY <1>6, <2>1, <2>2, <2>3
  <1> QED
    BY <1>2, <1>3, <1>4, <1>6 DEF RouterFails, RouterRequeues, GateBlocks, Failing, Dispatching

\* Every step keeps the agents apart, where only ticks dispatch.
LEMMA ApartNext == ~DirectRoute /\ CoreInv /\ AgentsApart /\ [Next]_vars => AgentsApart'
  <1> SUFFICES ASSUME ~DirectRoute, CoreInv, AgentsApart, Step PROVE AgentsApart'
    BY NextSteps
  <1>1. CASE EnvStep
    <2>1. bg' = bg /\ router' = router
      BY <1>1, EnvStepKeeps
    <2> QED
      BY <2>1, ApartSame DEF Cleared, Listing, Dispatching, Failing
  <1>2. ASSUME NEW t \in Tasks, BgStep(t) PROVE AgentsApart'
    <2>1. BgMoved(t) /\ router' = router
      BY <1>2, BgStepMoves DEF BgLeaves
    <2>2. \A u \in Tasks : Live(u)' => Live(u) /\ bg'[u].agent = bg[u].agent
      BY <2>1 DEF BgMoved, Live
    <2> QED
      BY <2>1, <2>2, ApartKept DEF Cleared, Listing, Dispatching, Failing
  <1>3. CASE Collect
    <2>1. router'.pc = "stale" /\ router'.mode = router.mode /\ bg' = bg /\ router.pc = "collect"
      BY <1>3, CollectKeeps DEF Collect
    <2>2. ~Dispatching' /\ ~Listing' /\ (Cleared' => Cleared)
      BY <2>1 DEF Dispatching, Listing, Failing, Cleared
    <2> QED
      BY <2>1, <2>2, ApartSame
  <1>4. CASE ReadIdle
    <2>1. router'.pc = "pick" /\ bg' = bg /\ Cleared
      BY <1>4, ReadIdleKeeps DEF ReadIdle, Cleared, CoreInv, RouterFits
    <2>2. ~Dispatching' /\ ~Cleared' /\ \A t \in Tasks : ~Live(t)'
      BY <2>1 DEF Dispatching, Failing, Cleared, AgentsApart, Live
    <2> QED
      BY <2>2 DEF AgentsApart
  <1>5. ASSUME NEW t \in Tasks, NEW a \in Agents, Pick(t, a) PROVE AgentsApart'
    <2>1. /\ router'.pc = "gate" /\ router'.agent = a /\ router'.idle = router.idle \ {a}
          /\ a \in router.idle /\ bg' = bg /\ router.pc = "pick"
      BY <1>5, PickKeeps DEF Pick
    <2>2. Listing /\ ~Cleared'
      BY <2>1 DEF Listing, Cleared, Failing
    <2>3. \A u \in Tasks : Live(u)' => Live(u) /\ bg'[u].agent = bg[u].agent
      BY <2>1 DEF Live
    <2> QED
      BY <2>1, <2>2, <2>3 DEF AgentsApart
  <1>6. ASSUME NEW t \in Tasks, YogaSkips(t) PROVE AgentsApart'
    <2>1. router'.pc = "pick" /\ router'.idle = router.idle /\ bg' = bg /\ router.pc = "pick"
      BY <1>6, YogaKeeps
    <2>2. ~Dispatching' /\ ~Cleared' /\ Listing
      BY <2>1 DEF Dispatching, Listing, Failing, Cleared
    <2> QED
      BY <2>1, <2>2, ApartSame
  <1>7. CASE DispatchStep
    <2>1. /\ Dispatching /\ Dispatching' /\ router'.agent = router.agent
          /\ router'.idle = router.idle /\ bg' = bg
      BY <1>7, DispatchStepKeeps
    <2>2. Listing /\ ~Cleared'
      BY <2>1 DEF Dispatching, Listing, Failing, Cleared
    <2> QED
      BY <2>1, <2>2, ApartSame
  <1>8. CASE Spawn
    <2>1. /\ router'.pc = "pick" /\ router'.idle = router.idle /\ router.pc = "spawn"
          /\ bg'[router.task] = Exec("new", router.agent, router.count, 0)
          /\ \A u \in Tasks \ {router.task} : bg'[u] = bg[u]
      BY <1>8, SpawnKeeps
    <2>2. bg'[router.task].agent = router.agent
      BY <2>1 DEF Exec
    <2>3. ~Dispatching' /\ ~Cleared' /\ Listing /\ Dispatching
      BY <2>1 DEF Dispatching, Listing, Failing, Cleared
    <2>4. \A u \in Tasks \ {router.task} : Live(u)' => Live(u) /\ bg'[u].agent = bg[u].agent
      BY <2>1 DEF Live
    <2>5. \A t \in Tasks : Live(t)' => bg'[t].agent \notin router'.idle
      BY <2>1, <2>2, <2>3, <2>4 DEF AgentsApart
    <2>6. \A t, u \in Tasks : Live(t)' /\ Live(u)' /\ bg'[t].agent = bg'[u].agent => t = u
      BY <2>2, <2>3, <2>4 DEF AgentsApart
    <2> QED
      BY <2>3, <2>5, <2>6 DEF AgentsApart
  <1> QED
    BY <1>1, <1>2, <1>3, <1>4, <1>5, <1>6, <1>7, <1>8, ApartBarrier, ApartPlain, ApartFailing
       DEF Step

\* Where tasks are dispatched by ticks alone, no agent runs two tasks at a
\* time, whatever is cancelled, cut or released late.
THEOREM OneTaskPerAgentHolds ==
    ASSUME ~DirectRoute
    PROVE  Spec => []OneTaskPerAgent
  <1>1. Init => AgentsApart
    BY RestType DEF Init, AgentsApart, Cleared, Listing, Dispatching, Failing, Live, NoExec, Exec
  <1>2. AgentsApart => OneTaskPerAgent
    BY DEF AgentsApart, OneTaskPerAgent, OnAgent, Live
  <1>3. CoreInv /\ AgentsApart /\ [Next]_vars => AgentsApart'
    BY ApartNext
  <1> QED
    BY <1>1, <1>2, <1>3, CoreInvHolds, PTL DEF Spec

-----------------------------------------------------------------------------
(* The number of executions *)

\* The largest retry limit any failure class grants.
TopLimit == Larger(Larger(MaxRetries, SoftLimit), 1)

\* A pending task has a retry count for each execution it had; any task has at
\* most one execution more.
BoardCounted ==
    \A t \in Tasks : /\ retries[t] <= TopLimit /\ limit[t] <= TopLimit
                     /\ executions[t] <= retries[t] + 1
                     /\ status[t] = "pending" => executions[t] <= retries[t]

\* An execution knows the count it was dispatched with, which its failure
\* raises by one.
ExecsCounted ==
    \A t \in Tasks : /\ bg[t].floor <= TopLimit
                     /\ Live(t) => executions[t] <= bg[t].count + 1
                     /\ bg[t].pc = "requeue" => bg[t].count < TopLimit

\* The tasks route_next has listed were pending, and nobody but the router
\* writes them.
ReadyCounted ==
    Listing \/ router.pc = "idle" =>
        \A t \in router.ready \ running : executions[t] <= retries[t]

\* The same of the task the router dispatches or handles the failure of.
TaskCounted ==
    /\ router.floor <= TopLimit
    /\ Failing => executions[router.task] <= router.count + 1
    /\ router.pc = "requeue" => router.count < TopLimit
    /\ Dispatching => /\ router.count = retries[router.task]
                      /\ executions[router.task] <= router.count
    /\ router.pc \in {"claim", "send", "start", "spawn"} => status[router.task] # "pending"

Counted == BoardCounted /\ ExecsCounted /\ ReadyCounted /\ TaskCounted

\* The largest limit bounds the others and what Larger makes of them.
LEMMA TopBounds ==
    /\ TopLimit \in Nat /\ MaxRetries <= TopLimit /\ SoftLimit <= TopLimit /\ 1 <= TopLimit
    /\ \A a, b \in Nat : a <= TopLimit /\ b <= TopLimit
                            => Larger(a, b) \in Nat /\ Larger(a, b) <= TopLimit
  BY LimitTypes DEF TopLimit, Larger

\* A failure is written with the count of the failed execution, or not at all.
LEMMA FailureCounted ==
    ASSUME CoreInv, BoardCounted, NEW t \in Tasks, NEW n \in Nat, NEW floor \in Nat,
           floor <= TopLimit, executions[t] <= n + 1, executions' = executions,
           FailedWrite(t, n, floor) \/ (PendingWrite(t, n, floor) /\ n < TopLimit)
    PROVE  /\ BoardCounted'
           /\ retries'[t] = retries[t] \/ executions[t] <= retries'[t]
           /\ \A u \in Tasks \ {t} : retries'[u] = retries[u] /\ status'[u] = status[u]
  <1>1. BoardType /\ executions \in [Tasks -> Nat] /\ TopLimit \in Nat
    BY Types, TopBounds DEF CoreInv
  <1>2. limit[t] \in Nat /\ retries[t] \in Nat /\ limit[t] <= TopLimit /\ retries[t] <= TopLimit
        /\ executions[t] \in Nat
    BY <1>1 DEF BoardType, BoardCounted
  <1>3. Larger(limit[t], floor) \in Nat /\ Larger(limit[t], floor) <= TopLimit
    BY <1>2, TopBounds
  <1>4. CASE FailedWrite(t, n, floor)
    <2>1. /\ status'[t] = IF status[t] \in {"pending", "running"} THEN "failed" ELSE status[t]
          /\ retries'[t] = retries[t] \/ (RetriesLeft(t, n, floor) /\ retries'[t] = n + 1)
          /\ limit'[t] \in {limit[t], Larger(limit[t], floor)}
          /\ \A u \in Tasks \ {t} :
                status'[u] = status[u] /\ retries'[u] = retries[u] /\ limit'[u] = limit[u]
      BY <1>1, <1>4, FailedWritten
    <2>2. RetriesLeft(t, n, floor) => n < TopLimit
      BY <1>1, <1>3 DEF RetriesLeft
    <2>3. retries'[t] <= TopLimit /\ limit'[t] <= TopLimit /\ executions[t] <= retries'[t] + 1
          /\ status'[t] # "pending"
      BY <1>1, <1>2, <1>3, <2>1, <2>2 DEF BoardCounted
    <2> QED
      BY <2>1, <2>3 DEF BoardCounted
  <1>5. CASE PendingWrite(t, n, floor) /\ n < TopLimit
    <2>1. /\ \/ status'[t] = "completed" /\ status[t] = "completed"
                /\ retries'[t] = retries[t] /\ limit'[t] = limit[t]
             \/ status'[t] = "pending" /\ status[t] # "completed"
                /\ retries'[t] = n + 1 /\ limit'[t] = Larger(limit[t], floor)
          /\ \A u \in Tasks \ {t} :
                status'[u] = status[u] /\ retries'[u] = retries[u] /\ limit'[u] = limit[u]
      BY <1>1, <1>5, PendingWritten
    <2>2. /\ retries'[t] <= TopLimit /\ limit'[t] <= TopLimit /\ executions[t] <= retries'[t] + 1
          /\ status'[t] = "pending" => executions[t] <= retries'[t]
          /\ retries'[t] = retries[t] \/ executions[t] <= retries'[t]
      BY <1>1, <1>2, <1>3, <1>5, <2>1 DEF BoardCounted
    <2> QED
      BY <2>1, <2>2 DEF BoardCounted
  <1> QED
    BY <1>4, <1>5

\* A step that starts no execution and writes no count.
LEMMA CountedSame ==
    ASSUME CoreInv, Counted, UNCHANGED <<retries, limit, executions>>,
           \A t \in Tasks : status'[t] = "pending" => status[t] = "pending",
           \A t \in Tasks : bg'[t] = bg[t] \/ (bg'[t].pc = "done" /\ bg'[t].floor = bg[t].floor),
           ReadyCounted', TaskCounted'
    PROVE  Counted'
  <1>1. BoardCounted'
    BY DEF Counted, BoardCounted
  <1>2. ExecsCounted'
    BY DEF Counted, ExecsCounted, Live
  <1> QED
    BY <1>1, <1>2 DEF Counted

\* A step of an execution.
LEMMA CountedBg ==
    ASSUME CoreInv, Counted, NEW t \in Tasks, BgStep(t)
    PROVE  Counted'
  <1>1. BgMoved(t) /\ BgLeaves /\ t \in running
    BY BgStepMoves DEF CoreInv, ExecsFit, BgMoved
  <1>2. /\ bg[t].count \in Nat /\ bg[t].floor \in Nat /\ bg[t].floor <= TopLimit
        /\ executions[t] <= bg[t].count + 1 /\ executions' = executions /\ router' = router
        /\ running' = running /\ TopLimit \in Nat /\ limit[t] \in Nat /\ limit[t] <= TopLimit
        /\ status \in [Tasks -> Lifecycle!Statuses \ {"absent"}]
    BY <1>1, Types, TopBounds
       DEF CoreInv, Counted, ExecsCounted, BoardCounted, BgMoved, BgLeaves, ExecType, BoardType
  <1>3. /\ BoardCounted'
        /\ \A u \in Tasks \ {t} : retries'[u] = retries[u] /\ status'[u] = status[u]
    <2>1. CASE BgFails(t)
      BY <1>2, <2>1, FailureCounted DEF BgFails, Counted
    <2>2. CASE BgRequeues(t)
      BY <1>2, <2>2, FailureCounted DEF BgRequeues, Counted, ExecsCounted
    <2>3. CASE BgCompletes(t)
      <3>1. /\ status'[t] # "pending" \/ status'[t] = status[t]
            /\ \A u \in Tasks \ {t} : status'[u] = status[u]
        BY <2>3, SafeUpdated, Types DEF BgCompletes, CoreInv
      <3> QED
        BY <1>2, <2>3, <3>1 DEF BgCompletes, BoardCounted, Counted
    <2>4. CASE UNCHANGED board
      BY <1>2, <2>4 DEF board, BoardCounted, Counted
    <2> QED
      BY <2>1, <2>2, <2>3, <2>4 DEF BgStep, BgStarts, BgReturns, BgRaises, BgReleases, BgPosts,
         BgHandles, BgRecords
  <1>4. bg'[t].pc = "requeue" => bg[t].count < TopLimit
    <2>1. CASE BgFails(t)
      <3>1. bg'[t].pc = IF RetriesLeft(t, bg[t].count, bg[t].floor) THEN "requeue" ELSE "record"
        BY <2>1, Types DEF BgFails, Bg, CoreInv, ExecType
      <3>2. Larger(limit[t], bg[t].floor) \in Nat /\ Larger(limit[t], bg[t].floor) <= TopLimit
        BY <1>2, TopBounds
      <3> QED
        BY <1>2, <3>1, <3>2 DEF RetriesLeft
    <2>2. CASE ~BgFails(t)
      BY <2>2, Types DEF BgStep, BgStarts, BgReturns, BgRaises, BgReleases, BgPosts, BgCompletes,
         BgHandles, BgRecords, BgRequeues, Bg, CoreInv, ExecType
    <2> QED
      BY <2>1, <2>2
  <1>5. ExecsCounted'
    <2>1. bg'[t].floor <= TopLimit /\ executions'[t] <= bg'[t].count + 1
      BY <1>1, <1>2, TopBounds, LimitTypes DEF BgMoved
    <2>2. bg'[t].pc = "requeue" => bg'[t].count < TopLimit
      BY <1>1, <1>4 DEF BgMoved
    <2> QED
      BY <1>1, <1>2, <2>1, <2>2 DEF BgMoved, Counted, ExecsCounted, Live
  <1>6. ReadyCounted' /\ TaskCounted'
    <2>1. /\ Dispatching => router.task \in Tasks \ {t}
          /\ router.ready \ running \subseteq Tasks \ {t}
      BY <1>1, Types DEF CoreInv, Listed, RouterFits, RouterType
    <2>2. router.pc \in {"claim", "send", "start", "spawn"} => Dispatching
      BY DEF Dispatching
    <2>3. ReadyCounted'
      BY <1>2, <1>3, <2>1 DEF Counted, ReadyCounted, Listing, Dispatching, Failing
    <2>4. TaskCounted'
      BY <1>2, <1>3, <2>1, <2>2 DEF Counted, TaskCounted, Dispatching, Failing
    <2> QED
      BY <2>3, <2>4
  <1> QED
    BY <1>3, <1>5, <1>6 DEF Counted

\* The router goes back to what it did before.
LEMMA CountedResume ==
    ASSUME CoreInv, Counted, Resume, Failing \/ Dispatching,
           \A t \in router.ready \ running' : t \notin running,
           Listing => \A t \in router.ready \ running' :
                         retries'[t] = retries[t] \/ executions'[t] <= retries'[t],
           \A t \in router.ready \ running' : executions'[t] = executions[t]
    PROVE  ReadyCounted' /\ TaskCounted'
  <1>1. /\ router'.pc = router.back /\ router'.ready = router.ready /\ router'.floor = 0
        /\ RouterFits /\ router \in RouterType /\ TopLimit \in Nat
    BY RouterResumes, Types, TopBounds DEF CoreInv
  <1>2. router'.pc \in {"settle", "stale", "pick"}
    BY <1>1 DEF RouterFits, RouterType
  <1>3. TaskCounted'
    BY <1>1, <1>2 DEF TaskCounted, Dispatching, Failing
  <1>4. Listing' \/ router'.pc = "idle" => Listing
    BY <1>1, <1>2 DEF Listing, Dispatching, Failing, RouterFits
  <1>5. ReadyCounted'
    BY <1>1, <1>4 DEF ReadyCounted, Counted
  <1> QED
    BY <1>3, <1>5

\* The steps with no task at hand; the listed tasks are pending.
LEMMA CountedPlain ==
    ASSUME CoreInv, Counted,
           \/ TickBegins \/ SettleBegins \/ DirectBegins \/ BarrierPasses \/ StragglersSettled
           \/ Collected \/ ReadReady \/ Routed \/ SendRaises \/ Cut
    PROVE  Counted'
  <1>1. UNCHANGED <<board, active, expired, running, bg, busy, unread, executions>>
    BY PlainSteps
  <1>2. router \in RouterType /\ router.floor <= TopLimit /\ TopLimit \in Nat
    BY Types, TopBounds DEF CoreInv, Counted, TaskCounted
  <1>3. ReadyCounted' /\ TaskCounted'
    <2>1. CASE ReadReady
      <3>1. /\ router'.pc = "idle" /\ router'.ready = {t \in Tasks : Ready(t)}
            /\ router'.floor = router.floor
        BY <1>2, <2>1 DEF ReadReady, RouterType
      <3>2. \A t \in router'.ready : executions[t] <= retries[t]
        BY <3>1 DEF Ready, Counted, BoardCounted
      <3> QED
        BY <1>1, <1>2, <3>1, <3>2 DEF ReadyCounted, TaskCounted, Dispatching, Failing, board
    <2>2. CASE ~ReadReady
      <3>1. /\ router'.pc \in {"rest", "barrier", "collect", "ready"}
            /\ router'.floor \in {0, router.floor}
        <4>1. CASE TickBegins \/ SettleBegins \/ DirectBegins \/ Routed \/ SendRaises \/ Cut
          <5>1. AtRest.floor = 0
            BY DEF AtRest
          <5> QED
            BY <4>1, <5>1, RestType DEF TickBegins, SettleBegins, DirectBegins, Routed, SendRaises,
               Cut, Rest, RouterType
        <4>2. CASE BarrierPasses \/ StragglersSettled
          BY <4>2, RouterGoes DEF BarrierPasses, StragglersSettled, RouterPhases
        <4>3. CASE Collected
          <5>1. router' \in {[router EXCEPT !.pc = "collect", !.mode = "route"],
                             [router EXCEPT !.pc = "ready"], AtRest}
            BY <4>3 DEF Collected
          <5>2. AtRest.floor = 0
            BY DEF AtRest
          <5> QED
            BY <1>2, <5>1, <5>2, RestType DEF RouterType
        <4> QED
          BY <2>2, <4>1, <4>2, <4>3
      <3> QED
        BY <1>2, <3>1 DEF ReadyCounted, TaskCounted, Listing, Dispatching, Failing
    <2> QED
      BY <2>1, <2>2
  <1> QED
    BY <1>1, <1>3, CountedSame DEF board

\* A claim that will not run is recovered with the count on the board.
LEMMA CountedRecover ==
    ASSUME CoreInv, Counted, NEW t \in Tasks, NEW back \in {"settle", "stale"},
           NEW todo \in SUBSET Tasks, NEW floor \in {0, 1},
           Recover(t, back, todo, retries[t], floor), UNCHANGED <<board, bg, executions>>
    PROVE  Counted'
  <1>1. router \in RouterType /\ TopLimit \in Nat /\ 1 <= TopLimit
    BY Types, TopBounds DEF CoreInv
  <1>2. router' = [router EXCEPT !.pc = "fail", !.back = back, !.todo = todo, !.task = t,
                                 !.count = retries[t], !.floor = floor]
    BY DEF Recover
  <1>3. /\ router'.pc = "fail" /\ router'.back = back /\ router'.task = t
        /\ router'.count = retries[t] /\ router'.floor = floor
    BY <1>1, <1>2 DEF RouterType
  <1>4. ReadyCounted' /\ TaskCounted'
    BY <1>1, <1>3 DEF ReadyCounted, TaskCounted, Listing, Dispatching, Failing, Counted, BoardCounted
  <1> QED
    BY <1>4, CountedSame DEF board

\* The router's writes of a failure.
LEMMA CountedFailing ==
    ASSUME CoreInv, Counted, RouterFails \/ RouterRequeues
    PROVE  Counted'
  <1>1. /\ Failing /\ router.task \in Tasks /\ router.count \in Nat /\ router.floor \in Nat
        /\ router.floor <= TopLimit /\ executions[router.task] <= router.count + 1
        /\ router \in RouterType /\ limit \in [Tasks -> Nat] /\ TopLimit \in Nat
        /\ UNCHANGED <<active, expired, running, bg, busy, unread, executions>>
    BY Types, TopBounds DEF CoreInv, RouterFails, RouterRequeues, RouterFits, Failing, RouterType,
       Counted, TaskCounted, BoardType
  <1>2. \/ FailedWrite(router.task, router.count, router.floor)
        \/ PendingWrite(router.task, router.count, router.floor) /\ router.count < TopLimit
    BY DEF RouterFails, RouterRequeues, Counted, TaskCounted
  <1>3. /\ BoardCounted'
        /\ retries'[router.task] = retries[router.task] \/ executions[router.task] <= retries'[router.task]
        /\ \A u \in Tasks \ {router.task} : retries'[u] = retries[u] /\ status'[u] = status[u]
    BY <1>1, <1>2, FailureCounted DEF Counted
  <1>4. ExecsCounted'
    BY <1>1 DEF Counted, ExecsCounted, Live
  <1>5. \A u \in router.ready : retries'[u] = retries[u] \/ executions'[u] <= retries'[u]
    BY <1>1, <1>3 DEF RouterType
  <1>6. ReadyCounted' /\ TaskCounted'
    <2>1. CASE Resume
      BY <1>1, <1>5, <2>1, CountedResume
    <2>2. CASE RouterFails /\ Router("requeue") /\ RetriesLeft(router.task, router.count, router.floor)
      <3>1. /\ router'.pc = "requeue" /\ router'.back = router.back /\ router'.ready = router.ready
            /\ router'.task = router.task /\ router'.count = router.count
            /\ router'.floor = router.floor
        BY <2>2, RouterGoes DEF RouterPhases
      <3>2. router.count < TopLimit
        <4>1. limit[router.task] \in Nat /\ limit[router.task] <= TopLimit
          BY <1>1 DEF Counted, BoardCounted
        <4>2. Larger(limit[router.task], router.floor) \in Nat
              /\ Larger(limit[router.task], router.floor) <= TopLimit
          BY <1>1, <4>1, TopBounds
        <4> QED
          BY <1>1, <2>2, <4>2 DEF RetriesLeft
      <3>3. Listing' => Listing
        BY <1>1, <3>1 DEF Listing, Dispatching, Failing
      <3>4. TaskCounted'
        BY <1>1, <3>1, <3>2 DEF TaskCounted, Dispatching, Failing
      <3>5. ReadyCounted'
        BY <1>1, <1>5, <3>1, <3>3 DEF ReadyCounted, Counted
      <3> QED
        BY <3>4, <3>5
    <2> QED
      BY <2>1, <2>2 DEF RouterFails, RouterRequeues
  <1> QED
    BY <1>3, <1>4, <1>6 DEF Counted

\* The steps of a dispatch that do not start it.
LEMMA CountedDispatch ==
    ASSUME CoreInv, Counted, DispatchStep \/ GateBlocks \/ DropOff
    PROVE  Counted'
  <1>1. /\ router \in RouterType /\ Dispatching /\ Listing /\ router.task \in Tasks /\ TopLimit \in Nat
        /\ 1 <= TopLimit /\ router.count = retries[router.task]
        /\ executions[router.task] <= router.count /\ executions[router.task] \in Nat
        /\ router.count \in Nat /\ router.floor <= TopLimit
    BY Types, TopBounds DEF CoreInv, Counted, TaskCounted, RouterFits, RouterType, Dispatching,
       Listing, DispatchStep, GatePasses, AssignTask, RecordClaim, SendNotice, StartTask,
       GateBlocks, DropOff
  <1>2. CASE DispatchStep
    <2>1. /\ Dispatching' /\ router'.task = router.task /\ router'.ready = router.ready
          /\ router'.count = router.count /\ router'.floor = router.floor /\ router'.pc # "gate"
          /\ UNCHANGED <<retries, limit, waiting, running, bg, busy, executions>>
          /\ \A u \in Tasks \ {router.task} : status'[u] = status[u]
      BY <1>2, DispatchStepKeeps
    <2>2. /\ status'[router.task] = "pending" => status[router.task] = "pending"
          /\ router'.pc \in {"claim", "send", "start", "spawn"} => status'[router.task] # "pending"
      <3>1. CASE AssignTask
        <4>1. SafeUpdate(router.task, "assigned") /\ BoardType
          BY <3>1, Types DEF AssignTask, CoreInv
        <4>2. status'[router.task] = IF Accepts(router.task, "assigned") THEN "assigned"
                                     ELSE status[router.task]
          BY <1>1, <4>1, SafeUpdated
        <4>3. Accepts(router.task, "assigned") <=> status[router.task] = "pending"
          BY Moves
        <4> QED
          BY <4>2, <4>3
      <3>2. CASE StartTask
        <4>1. SafeUpdate(router.task, "running") /\ BoardType /\ router.pc = "start"
          BY <3>2, Types DEF StartTask, CoreInv
        <4>2. status'[router.task] \in {"running", status[router.task]}
          BY <1>1, <4>1, SafeUpdated
        <4> QED
          BY <4>1, <4>2 DEF Counted, TaskCounted
      <3>3. CASE GatePasses \/ RecordClaim \/ SendNotice
        <4>1. /\ status' = status
              /\ router'.pc = "assign" \/ router.pc \in {"claim", "send"}
          BY <3>3, RouterGoes DEF GatePasses, RecordClaim, SendNotice, board, RouterPhases
        <4> QED
          BY <4>1 DEF Counted, TaskCounted
      <3> QED
        BY <1>2, <3>1, <3>2, <3>3 DEF DispatchStep
    <2>3. TaskCounted'
      BY <1>1, <2>1, <2>2 DEF TaskCounted, Dispatching, Failing
    <2>4. ReadyCounted'
      BY <1>1, <2>1 DEF ReadyCounted, Counted
    <2> QED
      BY <2>1, <2>2, <2>3, <2>4, CountedSame
  <1>3. CASE GateBlocks
    <2>1. /\ Resume /\ UNCHANGED <<retries, limit, running, bg, executions>>
          /\ \A u \in Tasks : status'[u] = "pending" => status[u] = "pending"
      BY <1>3, GateBlocksKeeps
    <2>2. ReadyCounted' /\ TaskCounted'
      BY <1>1, <2>1, CountedResume
    <2> QED
      BY <2>1, <2>2, CountedSame
  <1>4. CASE DropOff
    <2>1. /\ router'.pc = "fail" /\ router'.task = router.task /\ router'.count = router.count
          /\ router'.ready = router.ready /\ router'.floor = 1
          /\ UNCHANGED <<board, running, bg, executions>>
      BY <1>4, DropOffKeeps
    <2>2. TaskCounted'
      BY <1>1, <2>1 DEF TaskCounted, Dispatching, Failing
    <2>3. ReadyCounted'
      BY <1>1, <2>1 DEF ReadyCounted, Counted, board
    <2> QED
      BY <2>1, <2>2, <2>3, CountedSame DEF board
  <1> QED
    BY <1>2, <1>3, <1>4

\* An execution starts with the count its task has on the board.
LEMMA CountedSpawn ==
    ASSUME CoreInv, Counted, Spawn
    PROVE  Counted'
  <1>1. /\ router.pc = "spawn" /\ Resume /\ router.task \in Tasks
        /\ bg'[router.task] = Exec("new", router.agent, router.count, 0)
        /\ \A u \in Tasks \ {router.task} : bg'[u] = bg[u] /\ executions'[u] = executions[u]
        /\ running' = running \cup {router.task}
        /\ executions'[router.task] = executions[router.task] + 1
        /\ UNCHANGED <<board, active, expired, busy, unread>>
    BY SpawnKeeps
  <1>2. /\ Dispatching /\ router.count = retries[router.task] /\ router.ready \subseteq Tasks
        /\ executions[router.task] <= router.count /\ executions[router.task] \in Nat
        /\ router.count \in Nat /\ status[router.task] # "pending" /\ TopLimit \in Nat
    BY <1>1, Types, TopBounds DEF CoreInv, Counted, TaskCounted, RouterType, Dispatching
  <1>3. bg'[router.task].floor = 0 /\ bg'[router.task].count = router.count
        /\ bg'[router.task].pc = "new"
    BY <1>1 DEF Exec
  <1>4. BoardCounted'
    BY <1>1, <1>2 DEF Counted, BoardCounted, board
  <1>5. ExecsCounted'
    <2>1. /\ bg'[router.task].floor <= TopLimit /\ bg'[router.task].pc # "requeue"
          /\ executions'[router.task] <= bg'[router.task].count + 1
      BY <1>1, <1>2, <1>3
    <2> QED
      BY <1>1, <2>1 DEF Counted, ExecsCounted, Live
  <1>6. ReadyCounted' /\ TaskCounted'
    BY <1>1, <1>2, CountedResume DEF board
  <1> QED
    BY <1>4, <1>5, <1>6 DEF Counted

\* Every step keeps the counts.
LEMMA CountedNext == CoreInv /\ Counted /\ [Next]_vars => Counted'
  <1> SUFFICES ASSUME CoreInv, Counted, Step PROVE Counted'
    BY NextSteps
  <1>1. CASE EnvStep
    <2>1. /\ UNCHANGED <<retries, limit, running, bg, router, executions>>
          /\ \A t \in Tasks : status'[t] = "pending" => status[t] = "pending"
      BY <1>1, EnvStepKeeps
    <2>2. ReadyCounted'
      BY <2>1 DEF Counted, ReadyCounted, Listing, Dispatching, Failing
    <2>3. router.pc \in {"claim", "send", "start", "spawn"} => router.task \in Tasks
      BY DEF CoreInv, RouterFits, Dispatching
    <2>4. TaskCounted'
      BY <2>1, <2>3 DEF Counted, TaskCounted, Dispatching, Failing
    <2> QED
      BY <2>1, <2>2, <2>4, CountedSame
  <1>2. CASE BarrierCancels
    <2>1. /\ router'.pc = "settle" /\ router'.floor = router.floor
          /\ \A t \in Tasks : bg'[t] = bg[t] \/ (bg'[t].pc = "done" /\ bg'[t].floor = bg[t].floor)
          /\ UNCHANGED <<board, executions>>
      BY <1>2, BarrierCancelsKeeps DEF BarrierCancels
    <2>2. ReadyCounted' /\ TaskCounted'
      BY <2>1 DEF ReadyCounted, TaskCounted, Counted, Listing, Dispatching, Failing
    <2> QED
      BY <2>1, <2>2, CountedSame DEF board
  <1>3. ASSUME NEW t \in Tasks, SettleStraggler(t) PROVE Counted'
    <2>1. /\ router \in RouterType /\ router.pc = "settle" /\ router.todo \ {t} \in SUBSET Tasks
          /\ UNCHANGED <<board, bg, executions>>
      BY <1>3, Types DEF CoreInv, SettleStraggler, RouterType
    <2>2. CASE Recover(t, "settle", router.todo \ {t}, retries[t], 0)
      BY <2>1, <2>2, CountedRecover
    <2>3. CASE router' = [router EXCEPT !.todo = @ \ {t}]
      <3>1. router'.pc = "settle" /\ router'.floor = router.floor
        BY <2>1, <2>3 DEF RouterType
      <3>2. ReadyCounted' /\ TaskCounted'
        BY <3>1 DEF ReadyCounted, TaskCounted, Counted, Listing, Dispatching, Failing
      <3> QED
        BY <2>1, <3>2, CountedSame DEF board
    <2> QED
      BY <1>3, <2>2, <2>3 DEF SettleStraggler
  <1>4. ASSUME NEW t \in Tasks, RecoverStale(t) PROVE Counted'
    <2>1. /\ router.todo \ {t} \in SUBSET Tasks /\ UNCHANGED <<board, bg, executions>>
          /\ Recover(t, "stale", router.todo \ {t}, retries[t], 1)
      BY <1>4, Types DEF CoreInv, RecoverStale, RouterType
    <2> QED
      BY <2>1, CountedRecover
  <1>5. CASE Collect
    <2>1. router'.pc = "stale" /\ router'.floor = router.floor /\ UNCHANGED <<board, bg, executions>>
      BY <1>5, CollectKeeps
    <2>2. ReadyCounted' /\ TaskCounted'
      BY <2>1 DEF ReadyCounted, TaskCounted, Counted, Listing, Dispatching, Failing
    <2> QED
      BY <2>1, <2>2, CountedSame DEF board
  <1>6. CASE ReadIdle
    <2>1. /\ router'.pc = "pick" /\ router'.ready \subseteq router.ready \ running
          /\ router'.floor = router.floor /\ router.pc = "idle"
          /\ UNCHANGED <<board, running, bg, executions>>
      BY <1>6, ReadIdleKeeps DEF ReadIdle
    <2>2. ReadyCounted' /\ TaskCounted'
      BY <2>1 DEF ReadyCounted, TaskCounted, Counted, Dispatching, Failing, board
    <2> QED
      BY <2>1, <2>2, CountedSame DEF board
  <1>7. ASSUME NEW t \in Tasks, NEW a \in Agents, Pick(t, a) PROVE Counted'
    <2>1. /\ router'.pc = "gate" /\ router'.task = t /\ router'.ready = router.ready \ {t}
          /\ router'.count = retries[t] /\ router'.floor = router.floor /\ t \in router.ready
          /\ UNCHANGED <<board, running, bg, executions>> /\ router.pc = "pick"
      BY <1>7, PickKeeps DEF Pick
    <2>2. Listing /\ router.ready \cap running = {}
      BY <2>1 DEF Listing, CoreInv, Listed
    <2>3. executions[t] <= retries[t]
      BY <2>1, <2>2 DEF Counted, ReadyCounted
    <2>4. TaskCounted'
      BY <2>1, <2>3 DEF TaskCounted, Counted, Failing, board
    <2>5. ReadyCounted'
      BY <2>1, <2>2 DEF ReadyCounted, Counted, board
    <2> QED
      BY <2>1, <2>4, <2>5, CountedSame DEF board
  <1>8. ASSUME NEW t \in Tasks, YogaSkips(t) PROVE Counted'
    <2>1. /\ router'.pc = "pick" /\ router'.ready = router.ready \ {t} /\ router.pc = "pick"
          /\ router'.floor = router.floor /\ UNCHANGED <<board, running, bg, executions>>
      BY <1>8, YogaKeeps
    <2>2. ReadyCounted' /\ TaskCounted'
      BY <2>1 DEF ReadyCounted, TaskCounted, Counted, Listing, Dispatching, Failing, board
    <2> QED
      BY <2>1, <2>2, CountedSame DEF board
  <1> QED
    BY <1>1, <1>2, <1>3, <1>4, <1>5, <1>6, <1>7, <1>8, CountedBg, CountedPlain, CountedFailing,
       CountedDispatch, CountedSpawn DEF Step

\* However often executions, claims and ticks fail, no task is executed more
\* than once beyond the largest retry limit.
THEOREM ExecutionsBoundedHolds == Spec => []ExecutionsBounded
  <1>1. Init => Counted
    <2> SUFFICES ASSUME Init PROVE Counted
      OBVIOUS
    <2>1. NoExec.pc = "none" /\ NoExec.floor = 0 /\ AtRest.floor = 0
      BY DEF NoExec, Exec, AtRest
    <2>2. BoardCounted
      <3> SUFFICES ASSUME NEW t \in Tasks
                   PROVE  /\ retries[t] <= TopLimit /\ limit[t] <= TopLimit
                          /\ executions[t] <= retries[t] + 1 /\ executions[t] <= retries[t]
        BY DEF BoardCounted
      <3>1. retries[t] = 0 /\ limit[t] = MaxRetries /\ executions[t] = 0
        BY DEF Init
      <3> QED
        BY <3>1, TopBounds, LimitTypes
    <2>3. ExecsCounted
      <3> SUFFICES ASSUME NEW t \in Tasks
                   PROVE  bg[t].floor <= TopLimit /\ ~Live(t) /\ bg[t].pc # "requeue"
        BY DEF ExecsCounted
      <3>1. bg[t] = NoExec
        BY DEF Init
      <3>2. bg[t].pc = "none" /\ bg[t].floor = 0
        BY <2>1, <3>1
      <3>3. 0 <= TopLimit
        BY TopBounds
      <3> QED
        BY <3>2, <3>3 DEF Live
    <2>4. ReadyCounted /\ TaskCounted
      BY <2>1, TopBounds, RestType DEF Init, ReadyCounted, TaskCounted, Listing, Dispatching, Failing
    <2> QED
      BY <2>2, <2>3, <2>4 DEF Counted
  <1>2. CoreInv /\ Counted => ExecutionsBounded
    <2> SUFFICES ASSUME CoreInv, Counted, NEW t \in Tasks PROVE executions[t] <= TopLimit + 1
      BY DEF ExecutionsBounded, TopLimit
    <2>1. executions[t] \in Nat /\ retries[t] \in Nat /\ TopLimit \in Nat
      BY Types, TopBounds DEF CoreInv, BoardType
    <2> QED
      BY <2>1 DEF Counted, BoardCounted
  <1> QED
    BY <1>1, <1>2, CountedNext, CoreInvHolds, PTL DEF Spec

-----------------------------------------------------------------------------
(* Dependencies *)

DepsDone(t) == \A d \in Needs[t] : status[d] = "completed"

\* What ran, runs or will be dispatched from the router's list has its
\* dependencies.
Deps ==
    /\ \A t \in Tasks : executions[t] > 0 => DepsDone(t)
    /\ Listing \/ router.pc = "idle" => \A t \in router.ready : DepsDone(t)
    /\ Dispatching => DepsDone(router.task)

\* A completed task stays completed: no move of the table leaves the status,
\* and a requeue does not touch it.
LEMMA CompletedStays ==
    ASSUME CoreInv, Step
    PROVE  \A t \in Tasks : status[t] = "completed" => status'[t] = "completed"
  <1>1. BoardType /\ router \in RouterType /\ bg \in [Tasks -> ExecType] /\ RouterFits
    BY Types DEF CoreInv
  <1>2. ASSUME NEW t \in Tasks, NEW new \in {"assigned", "running", "completed", "failed"},
               SafeUpdate(t, new)
        PROVE  \A u \in Tasks : status[u] = "completed" => status'[u] = "completed"
    BY <1>1, <1>2, SafeUpdated, Moves
  <1>3. ASSUME NEW t \in Tasks, NEW n \in Nat, NEW floor \in Nat, PendingWrite(t, n, floor)
        PROVE  \A u \in Tasks : status[u] = "completed" => status'[u] = "completed"
    BY <1>1, <1>3, PendingWritten
  <1>4. CASE EnvStep
    BY <1>4, EnvStepKeeps, Moves
  <1>5. ASSUME NEW t \in Tasks, BgStep(t)
        PROVE  \A u \in Tasks : status[u] = "completed" => status'[u] = "completed"
    <2>1. bg[t].count \in Nat /\ bg[t].floor \in Nat
      BY <1>1 DEF ExecType
    <2>2. \/ SafeUpdate(t, "completed") \/ SafeUpdate(t, "failed")
          \/ PendingWrite(t, bg[t].count, bg[t].floor) \/ status' = status
      BY <1>5 DEF BgStep, BgStarts, BgReturns, BgRaises, BgCompletes, BgReleases, BgPosts, BgHandles,
         BgFails, BgRequeues, BgRecords, FailedWrite, board
    <2> QED
      BY <1>2, <1>3, <2>1, <2>2
  <1>6. CASE RouterFails \/ RouterRequeues \/ GateBlocks \/ AssignTask \/ StartTask
    <2>1. router.task \in Tasks /\ router.count \in Nat /\ router.floor \in Nat
      BY <1>1, <1>6 DEF RouterFails, RouterRequeues, GateBlocks, AssignTask, StartTask, RouterFits,
         Failing, Dispatching, RouterType
    <2>2. \/ \E new \in {"assigned", "running", "failed"} : SafeUpdate(router.task, new)
          \/ PendingWrite(router.task, router.count, router.floor)
      BY <1>6 DEF RouterFails, RouterRequeues, GateBlocks, AssignTask, StartTask, FailedWrite
    <2> QED
      BY <1>2, <1>3, <2>1, <2>2
  <1>7. CASE status' = status
    BY <1>7
  <1> QED
    BY <1>4, <1>5, <1>6, <1>7, PlainSteps, BarrierCancelsKeeps
       DEF Step, DispatchStep, GatePasses, RecordClaim, SendNotice, BarrierCancels,
           SettleStraggler, Collect, RecoverStale, ReadIdle, Pick, YogaSkips, DropOff, Spawn, board

\* What the steps do to the list, the task at hand and the executions.
LEMMA DepsNext == CoreInv /\ Deps /\ [Next]_vars => Deps'
  <1> SUFFICES ASSUME CoreInv, Deps, Step PROVE Deps'
    BY NextSteps
  <1>1. /\ router \in RouterType /\ RouterFits
        /\ executions \in [Tasks -> Nat] /\ router.ready \subseteq Tasks
    BY Types DEF CoreInv, RouterType
  <1>2. \A t \in Tasks : DepsDone(t) => DepsDone(t)'
    BY CompletedStays, NeedsType DEF DepsDone
  <1>3. ASSUME executions' = executions,
               Listing' \/ router'.pc = "idle" =>
                  (Listing \/ router.pc = "idle") /\ router'.ready \subseteq router.ready,
               Dispatching' => Dispatching /\ router'.task = router.task
        PROVE  Deps'
    <2>1. \A t \in Tasks : executions'[t] > 0 => DepsDone(t)'
      BY <1>2, <1>3 DEF Deps
    <2>2. Listing' \/ router'.pc = "idle" => \A t \in router'.ready : DepsDone(t)'
      BY <1>1, <1>2, <1>3 DEF Deps
    <2>3. Dispatching' => \A d \in Needs[router'.task] : status'[d] = "completed"
      BY <1>1, <1>2, <1>3 DEF Deps, RouterFits, DepsDone
    <2> QED
      BY <2>1, <2>2, <2>3 DEF Deps, DepsDone
  <1>4. CASE EnvStep
    BY <1>3, <1>4, EnvStepKeeps DEF Listing, Dispatching, Failing
  <1>5. ASSUME NEW t \in Tasks, BgStep(t) PROVE Deps'
    BY <1>3, <1>5, BgStepMoves DEF BgLeaves, Listing, Dispatching, Failing
  <1>6. CASE ReadReady
    <2>1. /\ router'.pc = "idle" /\ router'.ready = {t \in Tasks : Ready(t)}
          /\ executions' = executions
      BY <1>1, <1>6 DEF ReadReady, RouterType
    <2>2. \A t \in router'.ready : t \in Tasks /\ DepsDone(t)
      BY <2>1 DEF Ready, DepsDone
    <2>3. ~Dispatching'
      BY <2>1 DEF Dispatching
    <2> QED
      BY <1>2, <2>1, <2>2, <2>3 DEF Deps
  <1>7. CASE ReadIdle
    <2>1. /\ router'.pc = "pick" /\ router'.ready \subseteq router.ready /\ router.pc = "idle"
          /\ executions' = executions
      BY <1>7, ReadIdleKeeps DEF ReadIdle
    <2> QED
      BY <1>3, <2>1 DEF Dispatching
  <1>8. ASSUME NEW t \in Tasks, NEW a \in Agents, Pick(t, a) PROVE Deps'
    <2>1. /\ router'.task = t /\ router'.ready = router.ready \ {t} /\ t \in router.ready
          /\ executions' = executions /\ router.pc = "pick"
      BY <1>8, PickKeeps DEF Pick
    <2>2. DepsDone(t) /\ \A u \in router'.ready : u \in Tasks /\ DepsDone(u)
      BY <1>1, <2>1 DEF Deps, Listing
    <2>3. \A d \in Needs[router'.task] : status'[d] = "completed"
      BY <1>2, <2>1, <2>2 DEF DepsDone
    <2> QED
      BY <1>2, <2>1, <2>2, <2>3 DEF Deps, DepsDone
  <1>9. ASSUME NEW t \in Tasks, YogaSkips(t) PROVE Deps'
    <2>1. /\ router'.pc = "pick" /\ router'.ready \subseteq router.ready /\ router.pc = "pick"
          /\ executions' = executions
      BY <1>9, YogaKeeps
    <2> QED
      BY <1>3, <2>1 DEF Dispatching, Listing
  <1>10. CASE DispatchStep
    <2>1. /\ Dispatching /\ router'.task = router.task /\ router'.ready = router.ready
          /\ executions' = executions
      BY <1>10, DispatchStepKeeps
    <2> QED
      BY <1>3, <2>1 DEF Listing
  <1>11. CASE GateBlocks \/ RouterFails \/ RouterRequeues
    <2>1. executions' = executions /\ (Failing \/ Dispatching)
      BY <1>11 DEF GateBlocks, RouterFails, RouterRequeues, Failing, Dispatching
    <2>2. CASE Resume
      <3>1. /\ router'.pc = router.back /\ router'.ready = router.ready
            /\ router.back \in {"settle", "stale", "pick"}
        BY <1>1, <2>1, <2>2, RouterResumes DEF RouterFits, RouterType
      <3>2. ~Dispatching' /\ router'.pc # "idle" /\ (Listing' => Listing)
        BY <1>1, <2>1, <3>1 DEF Dispatching, Listing, Failing, RouterFits
      <3> QED
        BY <1>3, <2>1, <3>1, <3>2
    <2>3. CASE RouterFails /\ Router("requeue")
      <3>1. /\ router'.pc = "requeue" /\ router'.back = router.back /\ router.pc = "fail"
            /\ router'.ready = router.ready
        BY <2>3, RouterGoes DEF RouterPhases, RouterFails
      <3>2. ~Dispatching' /\ (Listing' => Listing)
        BY <3>1 DEF Dispatching, Listing, Failing
      <3> QED
        BY <1>3, <2>1, <3>1, <3>2
    <2> QED
      BY <1>11, <2>2, <2>3 DEF GateBlocks, RouterFails, RouterRequeues
  <1>12. CASE DropOff
    <2>1. /\ router'.pc = "fail" /\ router'.ready = router.ready /\ router.pc = "start"
          /\ executions' = executions
      BY <1>12, DropOffKeeps
    <2>2. Listing /\ ~Dispatching'
      BY <2>1 DEF Listing, Dispatching
    <2> QED
      BY <1>3, <2>1, <2>2
  <1>13. CASE Spawn
    <2>1. /\ router'.pc = "pick" /\ router'.ready = router.ready /\ router.pc = "spawn"
          /\ router.task \in Tasks
          /\ \A u \in Tasks \ {router.task} : executions'[u] = executions[u]
      BY <1>13, SpawnKeeps
    <2>2. Listing /\ Dispatching /\ ~Dispatching'
      BY <2>1 DEF Listing, Dispatching
    <2>3. \A u \in Tasks : executions'[u] > 0 => DepsDone(u)
      BY <2>1, <2>2 DEF Deps
    <2>4. \A u \in router'.ready : DepsDone(u) /\ u \in Tasks
      BY <1>1, <2>1, <2>2 DEF Deps
    <2> QED
      BY <1>2, <2>2, <2>3, <2>4 DEF Deps
  <1>14. ASSUME NEW t \in Tasks, SettleStraggler(t) \/ RecoverStale(t) PROVE Deps'
    <2>1. executions' = executions
      BY <1>14 DEF SettleStraggler, RecoverStale
    <2>2. \/ router'.pc = "settle"
          \/ router'.pc = "fail" /\ router'.back \in {"settle", "stale"}
      <3>1. CASE RecoverStale(t)
        <4>1. router' = [router EXCEPT !.pc = "fail", !.back = "stale", !.todo = router.todo \ {t},
                                       !.task = t, !.count = retries[t], !.floor = 1]
          BY <3>1 DEF RecoverStale, Recover
        <4> QED
          BY <1>1, <4>1 DEF RouterType
      <3>2. CASE SettleStraggler(t) /\ active[t] # None
        <4>1. router' = [router EXCEPT !.pc = "fail", !.back = "settle", !.todo = router.todo \ {t},
                                       !.task = t, !.count = retries[t], !.floor = 0]
          BY <3>2 DEF SettleStraggler, Recover
        <4> QED
          BY <1>1, <4>1 DEF RouterType
      <3>3. CASE SettleStraggler(t) /\ active[t] = None
        <4>1. router' = [router EXCEPT !.todo = @ \ {t}] /\ router.pc = "settle"
          BY <3>3 DEF SettleStraggler
        <4> QED
          BY <1>1, <4>1 DEF RouterType
      <3> QED
        BY <1>14, <3>1, <3>2, <3>3
    <2> QED
      BY <1>3, <2>1, <2>2 DEF Listing, Dispatching, Failing
  <1>15. CASE Collect \/ BarrierCancels
    <2>1. router'.pc \in {"stale", "settle"} /\ executions' = executions
      BY <1>15, CollectKeeps, BarrierCancelsKeeps DEF BarrierCancels
    <2> QED
      BY <1>3, <2>1 DEF Listing, Dispatching, Failing
  <1>16. CASE \/ TickBegins \/ SettleBegins \/ DirectBegins \/ BarrierPasses \/ StragglersSettled
              \/ Collected \/ Routed \/ SendRaises \/ Cut
    <2>1. executions' = executions
      BY <1>16, PlainSteps
    <2>2. router'.pc \in {"rest", "barrier", "collect", "ready"}
      <3>1. CASE TickBegins \/ SettleBegins \/ DirectBegins \/ Routed \/ SendRaises \/ Cut
        BY <3>1, RestType DEF TickBegins, SettleBegins, DirectBegins, Routed, SendRaises, Cut, Rest,
           RouterType
      <3>2. CASE BarrierPasses \/ StragglersSettled
        BY <3>2, RouterGoes DEF BarrierPasses, StragglersSettled, RouterPhases
      <3>3. CASE Collected
        <4>1. router' \in {[router EXCEPT !.pc = "collect", !.mode = "route"],
                           [router EXCEPT !.pc = "ready"], AtRest}
          BY <3>3 DEF Collected
        <4> QED
          BY <1>1, <4>1, RestType DEF RouterType
      <3> QED
        BY <1>16, <3>1, <3>2, <3>3
    <2> QED
      BY <1>3, <2>1, <2>2 DEF Listing, Dispatching, Failing
  <1> QED
    BY <1>4, <1>5, <1>6, <1>7, <1>8, <1>9, <1>10, <1>11, <1>12, <1>13, <1>14, <1>15, <1>16 DEF Step

\* A task is executed only after its dependencies are completed, and they stay
\* completed, in every combination of faults.
THEOREM DependenciesFirstHolds == Spec => []DependenciesFirst
  <1>1. Init => Deps
    BY RestType DEF Init, Deps, Listing, Dispatching, Failing
  <1>2. Deps => DependenciesFirst
    BY DEF Deps, DependenciesFirst, DepsDone
  <1> QED
    BY <1>1, <1>2, DepsNext, CoreInvHolds, PTL DEF Spec

-----------------------------------------------------------------------------
(* Claims *)

Claiming == router.pc \in {"send", "start", "spawn"}

\* A claim belongs to a tracked execution, or to the dispatch under way.
ClaimsHeld ==
    \A t \in Tasks : active[t] # None => t \in running \/ (Claiming /\ router.task = t)

\* No claim is made, and whoever holds one keeps it.
LEMMA HeldKept ==
    ASSUME ClaimsHeld, \A t \in Tasks : active'[t] # None => active[t] # None,
           running \subseteq running', Claiming => Claiming' /\ router'.task = router.task
    PROVE  ClaimsHeld'
  BY DEF ClaimsHeld

\* Only a tick that is cut, or whose notice cannot be sent, leaves its claim.
LEMMA HeldNext ==
    ~May("cut") /\ ~May("send") /\ CoreInv /\ ClaimsHeld /\ [Next]_vars => ClaimsHeld'
  <1> SUFFICES ASSUME ~May("cut"), ~May("send"), CoreInv, ClaimsHeld, Step PROVE ClaimsHeld'
    BY NextSteps
  <1>1. router \in RouterType /\ RouterFits /\ active \in [Tasks -> Agents \cup {None}]
    BY Types DEF CoreInv
  <1>2. CASE EnvStep
    BY <1>2, EnvStepKeeps, HeldKept DEF Claiming
  <1>3. ASSUME NEW t \in Tasks, BgStep(t) PROVE ClaimsHeld'
    <2>1. router' = router /\ running' = running
      BY <1>3, BgStepMoves DEF BgLeaves
    <2>2. \A u \in Tasks : active'[u] # None => active[u] # None
      BY <1>1, <1>3 DEF BgStep, BgStarts, BgReturns, BgRaises, BgCompletes, BgReleases, BgPosts,
         BgHandles, BgFails, BgRequeues, BgRecords, Unclaim
    <2> QED
      BY <2>1, <2>2, HeldKept DEF Claiming
  <1>4. CASE \/ TickBegins \/ SettleBegins \/ DirectBegins \/ BarrierPasses \/ StragglersSettled
             \/ Collected \/ ReadReady \/ Routed \/ SendRaises \/ Cut
    <2>1. active' = active /\ running' = running
      BY <1>4, PlainSteps
    <2>2. ~Claiming
      BY <1>4 DEF TickBegins, SettleBegins, DirectBegins, BarrierPasses, StragglersSettled,
         Collected, ReadReady, Routed, SendRaises, Cut, Claiming
    <2> QED
      BY <2>1, <2>2, HeldKept
  <1>5. CASE \/ BarrierCancels \/ RouterFails \/ RouterRequeues \/ ReadIdle \/ GateBlocks
             \/ GatePasses \/ AssignTask
             \/ (\E t \in Tasks, a \in Agents : Pick(t, a)) \/ (\E t \in Tasks : YogaSkips(t))
    <2>1. active' = active /\ running' = running /\ ~Claiming
      BY <1>5 DEF BarrierCancels, RouterFails, RouterRequeues, ReadIdle, GateBlocks, GatePasses,
         AssignTask, Pick, YogaSkips, Claiming
    <2> QED
      BY <2>1, HeldKept
  <1>6. ASSUME NEW t \in Tasks, SettleStraggler(t) PROVE ClaimsHeld'
    <2>1. /\ running' = running \ {t} /\ ~Claiming /\ active'[t] = None
          /\ \A u \in Tasks \ {t} : active'[u] = active[u]
      BY <1>1, <1>6 DEF SettleStraggler, Recover, Unclaim, Claiming
    <2> QED
      BY <2>1 DEF ClaimsHeld
  <1>7. CASE Collect
    <2>1. /\ running' = {t \in running : Live(t)} /\ ~Claiming
          /\ \A t \in Tasks : active'[t] = IF t \in running /\ ~Live(t) THEN None ELSE active[t]
      BY <1>7, CollectKeeps DEF Collect, Claiming
    <2> QED
      BY <2>1 DEF ClaimsHeld
  <1>8. ASSUME NEW t \in Tasks, RecoverStale(t) PROVE ClaimsHeld'
    <2>1. /\ running' = running /\ ~Claiming
          /\ \A u \in Tasks : active'[u] # None => active[u] # None
      BY <1>1, <1>8 DEF RecoverStale, Recover, Unclaim, Claiming
    <2> QED
      BY <2>1, HeldKept
  <1>9. CASE RecordClaim \/ SendNotice \/ StartTask
    <2>1. /\ router'.task = router.task /\ running' = running
          /\ \A u \in Tasks \ {router.task} : active'[u] = active[u]
      BY <1>9, DispatchStepKeeps DEF DispatchStep
    <2>2. Claiming'
      BY <1>9, RouterGoes DEF RecordClaim, SendNotice, StartTask, RouterPhases, Claiming
    <2> QED
      BY <2>1, <2>2 DEF ClaimsHeld
  <1>10. CASE DropOff
    <2>1. /\ active'[router.task] = None /\ running' = running
          /\ \A u \in Tasks \ {router.task} : active'[u] = active[u]
      BY <1>10, DropOffKeeps
    <2> QED
      BY <2>1 DEF ClaimsHeld
  <1>11. CASE Spawn
    <2>1. running' = running \cup {router.task} /\ active' = active
      BY <1>11, SpawnKeeps
    <2> QED
      BY <2>1 DEF ClaimsHeld
  <1> QED
    BY <1>2, <1>3, <1>4, <1>5, <1>6, <1>7, <1>8, <1>9, <1>10, <1>11 DEF Step, DispatchStep

\* Where every tick runs to its end, a swarm whose ticks return at once has no
\* claim left, stragglers and drop-offs included.
THEOREM HaltedMeansNoWorkHolds ==
    ASSUME Faults \cap {"cut", "send"} = {}
    PROVE  Spec => []HaltedMeansNoWork
  <1>1. Init => ClaimsHeld
    BY DEF Init, ClaimsHeld
  <1>2. ClaimsHeld => HaltedMeansNoWork
    BY DEF ClaimsHeld, HaltedMeansNoWork, Halted, Claiming
  <1>3. CoreInv /\ ClaimsHeld /\ [Next]_vars => ClaimsHeld'
    BY HeldNext DEF May
  <1> QED
    BY <1>1, <1>2, <1>3, CoreInvHolds, PTL DEF Spec

\* A claim that has expired is a claim still.
ExpiredClaims == \A t \in Tasks : t \in expired => active[t] # None

\* The phases in which the router, and an execution, own a status of its task.
Owning == router.pc \in {"claim", "send", "start", "spawn"}
Ending(t) == bg[t].pc \notin {"new", "run", "complete", "handle", "fail"}

\* A task is assigned while it is dispatched and running until its execution
\* has written what became of it.
StatusOwned ==
    /\ router.pc # "settle" /\ ~Failing
    /\ router.pc = "stale" => router.todo = {}
    /\ router.pc = "spawn" => status[router.task] # "assigned"
    /\ \A t \in Tasks :
          /\ t \in running => status[t] # "assigned" /\ (Ending(t) => status[t] # "running")
          /\ status[t] \in {"assigned", "running"} => t \in running \/ (Owning /\ router.task = t)

Steady == Faults \cap {"cut", "send", "straggle", "dropoff"} = {}

\* Claims expire, and go, together with their deadlines.
LEMMA ExpiredNext == CoreInv /\ ExpiredClaims /\ [Next]_vars => ExpiredClaims'
  <1> SUFFICES ASSUME CoreInv, ExpiredClaims, Step PROVE ExpiredClaims'
    BY NextSteps
  <1>1. /\ active \in [Tasks -> Agents \cup {None}] /\ RouterFits
    BY Types DEF CoreInv
  <1>2. CASE active' = active /\ expired' = expired
    BY <1>2 DEF ExpiredClaims
  <1>3. ASSUME NEW t \in Tasks, Unclaim(t) PROVE ExpiredClaims'
    BY <1>1, <1>3 DEF Unclaim, ExpiredClaims
  <1>4. ASSUME NEW t \in Tasks, ClaimExpires(t) PROVE ExpiredClaims'
    BY <1>4 DEF ClaimExpires, ExpiredClaims
  <1>5. CASE Collect
    BY <1>5 DEF Collect, ExpiredClaims
  <1>6. CASE RecordClaim
    <2>1. router.task \in Tasks /\ router.agent # None
      BY <1>1, <1>6, NoneFresh DEF RecordClaim, RouterFits, Dispatching
    <2> QED
      BY <1>1, <1>6, <2>1 DEF RecordClaim, ExpiredClaims
  <1>7. CASE EnvStep
    BY <1>2, <1>4, <1>7 DEF EnvStep, BackoffEnds, OperatorCancels, MailArrives, InboxRead, vars
  <1>8. ASSUME NEW t \in Tasks, BgStep(t) PROVE ExpiredClaims'
    BY <1>2, <1>3, <1>8 DEF BgStep, BgStarts, BgReturns, BgRaises, BgCompletes, BgReleases, BgPosts,
       BgHandles, BgFails, BgRequeues, BgRecords
  <1>9. ASSUME NEW t \in Tasks, SettleStraggler(t) \/ RecoverStale(t) PROVE ExpiredClaims'
    BY <1>2, <1>3, <1>9 DEF SettleStraggler, RecoverStale, Recover
  <1>10. CASE DropOff
    BY <1>3, <1>10, DropOffKeeps DEF Recover
  <1>11. CASE Spawn \/ BarrierCancels \/ RouterFails \/ RouterRequeues \/ ReadIdle \/ GateBlocks
    BY <1>2, <1>11 DEF Spawn, BarrierCancels, RouterFails, RouterRequeues, ReadIdle, GateBlocks
  <1>12. CASE GatePasses \/ AssignTask \/ SendNotice \/ StartTask
    BY <1>2, <1>12 DEF GatePasses, AssignTask, SendNotice, StartTask
  <1>13. CASE (\E t \in Tasks, a \in Agents : Pick(t, a)) \/ (\E t \in Tasks : YogaSkips(t))
    BY <1>2, <1>13 DEF Pick, YogaSkips
  <1> QED
    BY <1>2, <1>5, <1>6, <1>7, <1>8, <1>9, <1>10, <1>11, <1>12, <1>13, PlainSteps
       DEF Step, DispatchStep

\* A step that assigns and starts nothing.
LEMMA OwnedKept ==
    ASSUME CoreInv, StatusOwned, running' = running,
           \A t \in Tasks : status'[t] = status[t] \/ status'[t] \notin {"assigned", "running"},
           \A t \in Tasks : Ending(t)' => Ending(t) \/ status'[t] # "running",
           Owning => Owning' /\ router'.task = router.task,
           router'.pc \notin {"settle", "fail", "requeue"},
           router'.pc = "stale" => router'.todo = {},
           router'.pc = "spawn" => router.pc = "spawn"
    PROVE  StatusOwned'
  <1>1. router'.pc = "spawn" => router.task \in Tasks /\ Owning
    BY DEF CoreInv, RouterFits, Dispatching, Owning
  <1>2. router'.pc = "spawn" => status'[router'.task] # "assigned"
    BY <1>1 DEF StatusOwned
  <1>3. ~Failing'
    BY DEF Failing
  <1>4. ASSUME NEW t \in Tasks
        PROVE  /\ t \in running' => status'[t] # "assigned" /\ (Ending(t)' => status'[t] # "running")
               /\ status'[t] \in {"assigned", "running"} =>
                     t \in running' \/ (Owning' /\ router'.task = t)
    BY <1>4 DEF StatusOwned
  <1> QED
    BY <1>2, <1>3, <1>4 DEF StatusOwned

\* The execution of t writes the end of "running" before it ends.
LEMMA OwnedBg ==
    ASSUME CoreInv, StatusOwned, NEW t \in Tasks, BgStep(t)
    PROVE  StatusOwned'
  <1>1. BgMoved(t) /\ router' = router /\ running' = running /\ t \in running
    BY BgStepMoves DEF BgLeaves, CoreInv, ExecsFit, BgMoved
  <1>2. /\ BoardType /\ bg \in [Tasks -> ExecType] /\ status[t] # "assigned"
        /\ bg[t].count \in Nat /\ bg[t].floor \in Nat
    BY <1>1, Types DEF CoreInv, StatusOwned, ExecType
  <1>3. /\ \A u \in Tasks : status'[u] = status[u] \/ status'[u] \notin {"assigned", "running"}
        /\ Ending(t)' => Ending(t) \/ status'[t] # "running"
    <2>1. CASE BgCompletes(t)
      BY <1>2, <2>1, SafeUpdated, Moves DEF BgCompletes
    <2>2. CASE BgFails(t)
      BY <1>2, <2>2, FailedWritten DEF BgFails
    <2>3. CASE BgRequeues(t)
      BY <1>2, <2>3, PendingWritten DEF BgRequeues
    <2>4. CASE BgStarts(t) \/ BgReturns(t) \/ BgRaises(t) \/ BgHandles(t)
      <3>1. status' = status
        BY <2>4 DEF BgStarts, BgReturns, BgRaises, BgHandles, board
      <3>2. bg'[t].pc \in {"run", "complete", "handle", "fail"}
        BY <1>2, <2>4 DEF BgStarts, BgReturns, BgRaises, BgHandles, Bg, ExecType
      <3> QED
        BY <3>1, <3>2 DEF Ending
    <2>5. CASE BgReleases(t) \/ BgPosts(t) \/ BgRecords(t)
      BY <2>5 DEF BgReleases, BgPosts, BgRecords, board, Ending
    <2> QED
      BY <2>1, <2>2, <2>3, <2>4, <2>5 DEF BgStep
  <1>4. \A u \in Tasks : Ending(u)' => Ending(u) \/ status'[u] # "running"
    BY <1>1, <1>3 DEF BgMoved, Ending
  <1>5. /\ router'.pc \notin {"settle", "fail", "requeue"}
        /\ router'.pc = "stale" => router'.todo = {}
        /\ Owning => Owning' /\ router'.task = router.task
    BY <1>1 DEF StatusOwned, Failing, Owning
  <1> QED
    BY <1>1, <1>3, <1>4, <1>5, OwnedKept

\* Every step of a steady swarm keeps the statuses owned.
LEMMA OwnedNext ==
    Steady /\ CoreInv /\ ClaimsHeld /\ ExpiredClaims /\ StatusOwned /\ [Next]_vars => StatusOwned'
  <1> SUFFICES ASSUME ~May("cut"), ~May("send"), ~May("straggle"), ~May("dropoff"),
                      CoreInv, ClaimsHeld, ExpiredClaims, StatusOwned, Step
               PROVE  StatusOwned'
    BY NextSteps DEF Steady, May
  <1>1. router \in RouterType /\ RouterFits /\ BoardType
    BY Types DEF CoreInv
  <1>2. ASSUME UNCHANGED <<running, bg>>, ~Owning,
               \A t \in Tasks : status'[t] = status[t] \/ status'[t] \notin {"assigned", "running"},
               router'.pc \in RouterPhases \ {"settle", "fail", "requeue", "stale", "spawn"}
        PROVE  StatusOwned'
    BY <1>2, OwnedKept DEF Ending
  <1>3. CASE EnvStep
    <2>1. /\ UNCHANGED <<running, bg, router>>
          /\ \A t \in Tasks : status'[t] = status[t] \/ status'[t] = "cancelled"
      BY <1>3, EnvStepKeeps
    <2>2. /\ router'.pc \notin {"settle", "fail", "requeue"}
          /\ router'.pc = "stale" => router'.todo = {}
          /\ Owning => Owning' /\ router'.task = router.task
      BY <2>1 DEF StatusOwned, Failing, Owning
    <2>3. \A t \in Tasks : Ending(t)' => Ending(t)
      BY <2>1 DEF Ending
    <2> QED
      BY <2>1, <2>2, <2>3, OwnedKept
  <1>4. CASE \/ TickBegins \/ SettleBegins \/ DirectBegins \/ BarrierPasses \/ StragglersSettled
             \/ Collected \/ ReadReady \/ Routed \/ SendRaises \/ Cut
    <2>1. UNCHANGED <<status, running, bg>> /\ ~Owning
      BY <1>4, PlainSteps DEF TickBegins, SettleBegins, DirectBegins, BarrierPasses,
         StragglersSettled, Collected, ReadReady, Routed, SendRaises, Cut, Owning, board
    <2>2. router'.pc \in {"rest", "barrier", "collect", "ready", "idle"}
      <3>1. CASE TickBegins \/ SettleBegins \/ DirectBegins \/ Routed \/ SendRaises \/ Cut
        BY <3>1, RestType DEF TickBegins, SettleBegins, DirectBegins, Routed, SendRaises, Cut, Rest,
           RouterType
      <3>2. CASE BarrierPasses \/ StragglersSettled
        BY <3>2, RouterGoes DEF BarrierPasses, StragglersSettled, RouterPhases
      <3>3. CASE Collected
        <4>1. router' \in {[router EXCEPT !.pc = "collect", !.mode = "route"],
                           [router EXCEPT !.pc = "ready"], AtRest}
          BY <3>3 DEF Collected
        <4> QED
          BY <1>1, <4>1, RestType DEF RouterType
      <3>4. CASE ReadReady
        BY <1>1, <3>4 DEF ReadReady, RouterType
      <3> QED
        BY <1>4, <3>1, <3>2, <3>3, <3>4
    <2> QED
      BY <1>2, <2>1, <2>2 DEF RouterPhases
  <1>5. CASE Collect
    <2>1. /\ running' = {t \in running : Live(t)} /\ UNCHANGED <<board, bg>>
          /\ router'.pc = "stale" /\ router'.todo = expired \ running /\ router.pc = "collect"
          /\ expired \subseteq Tasks
      BY <1>5, CollectKeeps, Types DEF Collect, CoreInv
    <2>2. router'.todo = {} /\ ~Failing' /\ ~Owning
      BY <2>1 DEF ExpiredClaims, ClaimsHeld, Claiming, Failing, Owning
    <2>3. ASSUME NEW t \in Tasks, status[t] \in {"assigned", "running"} PROVE t \in running'
      <3>1. t \in running /\ ~Ending(t)
        BY <2>2, <2>3 DEF StatusOwned
      <3> QED
        BY <2>1, <3>1 DEF Ending, Live
    <2>4. ASSUME NEW t \in Tasks, t \in running'
          PROVE  status'[t] # "assigned" /\ (Ending(t)' => status'[t] # "running")
      BY <2>1, <2>4 DEF StatusOwned, Ending, board
    <2> QED
      BY <2>1, <2>2, <2>3, <2>4 DEF StatusOwned, board
  <1>6. CASE ReadIdle
    BY <1>2, <1>6, ReadIdleKeeps DEF ReadIdle, Owning, RouterPhases, board
  <1>7. ASSUME NEW t \in Tasks, NEW a \in Agents, Pick(t, a) PROVE StatusOwned'
    BY <1>2, <1>7, PickKeeps DEF Pick, Owning, RouterPhases, board
  <1>8. ASSUME NEW t \in Tasks, YogaSkips(t) PROVE StatusOwned'
    BY <1>2, <1>8, YogaKeeps DEF Owning, RouterPhases, board
  <1>9. CASE GateBlocks
    <2>1. /\ UNCHANGED <<running, bg>> /\ Resume /\ router.pc = "gate"
          /\ \A t \in Tasks : status'[t] = status[t] \/ status'[t] \notin {"assigned", "running"}
      BY <1>9, GateBlocksKeeps
    <2>2. router'.pc = "pick" /\ ~Owning
      BY <1>1, <2>1, RouterResumes DEF RouterFits, Dispatching, Owning
    <2> QED
      BY <1>2, <2>1, <2>2 DEF RouterPhases
  <1>10. CASE DispatchStep
    <2>1. /\ router'.task = router.task /\ running' = running /\ bg' = bg /\ Dispatching
          /\ Dispatching' /\ router.task \in Tasks /\ router.task \notin running
          /\ \A u \in Tasks \ {router.task} : status'[u] = status[u]
      BY <1>1, <1>10, DispatchStepKeeps DEF RouterFits, CoreInv, Listed
    <2>2. router'.pc \notin {"settle", "fail", "requeue", "stale"} /\ ~Failing'
      BY <2>1 DEF Dispatching, Failing
    <2>3. /\ router'.pc = "spawn" => status'[router.task] # "assigned"
          /\ status'[router.task] \in {"assigned", "running"} => Owning'
      <3>1. CASE AssignTask
        BY <3>1, RouterGoes DEF AssignTask, RouterPhases, Owning
      <3>2. CASE StartTask
        <4>1. SafeUpdate(router.task, "running")
          BY <3>2 DEF StartTask
        <4>2. status'[router.task] = IF Accepts(router.task, "running") THEN "running"
                                     ELSE status[router.task]
          BY <1>1, <2>1, <4>1, SafeUpdated
        <4>3. Accepts(router.task, "running") <=> status[router.task] = "assigned"
          BY Moves
        <4>4. Owning'
          BY <3>2, RouterGoes DEF StartTask, RouterPhases, Owning
        <4> QED
          BY <4>2, <4>3, <4>4
      <3>3. CASE GatePasses
        <4>1. status' = status /\ router.pc = "gate" /\ router'.pc = "assign"
          BY <3>3, RouterGoes DEF GatePasses, RouterPhases, board
        <4> QED
          BY <2>1, <4>1 DEF StatusOwned, Owning
      <3>4. CASE RecordClaim \/ SendNotice
        BY <3>4, RouterGoes DEF RecordClaim, SendNotice, RouterPhases, Owning
      <3> QED
        BY <1>10, <3>1, <3>2, <3>3, <3>4 DEF DispatchStep
    <2>4. ASSUME NEW t \in Tasks
          PROVE  /\ t \in running' => status'[t] # "assigned" /\ (Ending(t)' => status'[t] # "running")
                 /\ status'[t] \in {"assigned", "running"} =>
                       t \in running' \/ (Owning' /\ router'.task = t)
      <3>1. CASE t = router.task
        BY <2>1, <2>3, <3>1
      <3>2. CASE t # router.task
        BY <2>1, <3>2 DEF StatusOwned, Ending
      <3> QED
        BY <3>1, <3>2
    <2> QED
      BY <2>1, <2>2, <2>3, <2>4 DEF StatusOwned
  <1>11. CASE Spawn
    <2>1. /\ router.pc = "spawn" /\ router.task \in Tasks /\ status' = status
          /\ bg'[router.task] = Exec("new", router.agent, router.count, 0)
          /\ \A u \in Tasks \ {router.task} : bg'[u] = bg[u]
          /\ running' = running \cup {router.task} /\ router'.pc = "pick"
      BY <1>11, SpawnKeeps DEF board
    <2>2. bg'[router.task].pc = "new"
      BY <2>1 DEF Exec
    <2>3. ASSUME NEW t \in Tasks
          PROVE  /\ t \in running' => status'[t] # "assigned" /\ (Ending(t)' => status'[t] # "running")
                 /\ status'[t] \in {"assigned", "running"} => t \in running'
      BY <2>1, <2>2 DEF StatusOwned, Ending
    <2> QED
      BY <2>1, <2>3 DEF StatusOwned, Failing
  <1>12. ~(BarrierCancels \/ DropOff \/ RouterFails \/ RouterRequeues)
    BY DEF BarrierCancels, DropOff, RouterFails, RouterRequeues, StatusOwned, Failing
  <1>13. ~ \E t \in Tasks : SettleStraggler(t) \/ RecoverStale(t)
    BY DEF SettleStraggler, RecoverStale, StatusOwned
  <1> QED
    BY <1>3, <1>4, <1>5, <1>6, <1>7, <1>8, <1>9, <1>10, <1>11, <1>12, <1>13, OwnedBg DEF Step

\* Where no tick is cut, no barrier times out and every claim gets its
\* execution, no task is assigned or running without somebody who will settle
\* it.
THEOREM ClaimsOwnedHolds ==
    ASSUME Steady
    PROVE  Spec => []ClaimsOwned
  <1>1. Init => ClaimsHeld /\ ExpiredClaims /\ StatusOwned
    BY RestType DEF Init, ClaimsHeld, ExpiredClaims, StatusOwned, Failing
  <1>2. StatusOwned => ClaimsOwned
    BY DEF StatusOwned, ClaimsOwned, Owned, Owning
  <1>3. CoreInv /\ ClaimsHeld /\ [Next]_vars => ClaimsHeld'
    BY HeldNext DEF May, Steady
  <1>4. CoreInv /\ ClaimsHeld /\ ExpiredClaims /\ StatusOwned /\ [Next]_vars => StatusOwned'
    BY OwnedNext
  <1> QED
    BY <1>1, <1>2, <1>3, <1>4, ExpiredNext, CoreInvHolds, PTL DEF Spec

=============================================================================
