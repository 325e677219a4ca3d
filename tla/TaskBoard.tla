------------------------------ MODULE TaskBoard ------------------------------
(***************************************************************************)
(* task_board.py: the SQLite task store, used by several coroutines and    *)
(* processes.  A status change is a SELECT, a check in Python and an       *)
(* UPDATE ... WHERE id = ?: two statements, with other clients in between. *)
(* requeue is up to five statements.                                       *)
(***************************************************************************)
CONSTANTS
    Tasks,
    Clients,        \* callers of the board
    Agents,
    None,
    Exclusive       \* the tasks on which at most one call is open at a time

ASSUME NoneNoAgent == None \notin Agents
ASSUME ExclusiveType == Exclusive \subseteq Tasks

VARIABLES
    board,      \* the tasks table: status, and assigned_to for the other columns
    deps,       \* the task_dependencies table
    call        \* the open call of each client

vars == <<board, deps, call>>

Status(t) == board[t].status

StatusOf == [t \in Exclusive |-> board[t].status]

Lifecycle == INSTANCE TaskLifecycle WITH Tasks <- Exclusive, status <- StatusOf

\* An open call: its task, the status it will write (`new'), the agent of an
\* assign, and whether a requeue has its second status change still to do.
Call(pc, t, new, a, more) ==
    [pc |-> pc, task |-> t, new |-> new, agent |-> a, more |-> more]

Idle == [pc |-> "idle"]

Open(t) == {c \in Clients : call[c] # Idle /\ call[c].task = t}

Init ==
    /\ board = [t \in Tasks |-> [status |-> "absent", assignee |-> None]]
    /\ deps = {}
    /\ call = [c \in Clients |-> Idle]

Begin(c, t, pc, new, a) ==
    /\ call[c] = Idle
    /\ t \in Exclusive => Open(t) = {}
    /\ call' = [call EXCEPT ![c] = Call(pc, t, new, a, FALSE)]
    /\ UNCHANGED <<board, deps>>

Return(c) == call' = [call EXCEPT ![c] = Idle]

-----------------------------------------------------------------------------
(* The operations *)

\* create and create_batch: new ids, one commit for the tasks and their
\* edges; every dependency must already exist.
CreateBatch(batch, on) ==
    /\ batch # {}
    /\ \A t \in batch : Status(t) = "absent"
    /\ \A d \in on : Status(d) # "absent"
    /\ board' = [t \in Tasks |-> IF t \in batch
                                 THEN [board[t] EXCEPT !.status = "pending"]
                                 ELSE board[t]]
    /\ deps' = deps \cup (batch \X on)
    /\ UNCHANGED call

AddDependency(t, d) ==
    /\ Status(t) # "absent" /\ Status(d) # "absent"
    /\ deps' = deps \cup {<<t, d>>}
    /\ UNCHANGED <<board, call>>

Assign(c, t, a) == Begin(c, t, "select", "assigned", a)
Start(c, t) == Begin(c, t, "select", "running", None)
Complete(c, t) == Begin(c, t, "select", "completed", None)
Fail(c, t) == Begin(c, t, "select", "failed", None)
Cancel(c, t) == Begin(c, t, "select", "cancelled", None)
Requeue(c, t) == Begin(c, t, "get", "pending", None)

\* update_task without a status: one UPDATE of any of the other columns,
\* whatever the status is.  It finds no row of an unknown task.
RawUpdate(t) ==
    /\ Status(t) # "absent"
    /\ \E a \in Agents \cup {None} : board' = [board EXCEPT ![t].assignee = a]
    /\ UNCHANGED <<deps, call>>

\* update_task routes a status to the method above that sets it; an assign
\* without assigned_to names the empty agent.  A blocking gate in complete or
\* fail raises before the SELECT: the call never opens.
UpdateTask(c, t) ==
    \/ \E a \in Agents \cup {None} : Assign(c, t, a)
    \/ Start(c, t) \/ Complete(c, t) \/ Fail(c, t) \/ Cancel(c, t) \/ Requeue(c, t)
    \/ call[c] = Idle /\ RawUpdate(t)

-----------------------------------------------------------------------------
(* The statements of an open call *)

\* Mutant: the SELECT's answer is not checked.
SelectUnchecked(c) ==
    /\ call[c].pc = "select"
    /\ call' = [call EXCEPT ![c].pc = "update"]
    /\ UNCHANGED <<board, deps>>

\* _set_status, first half: read the status; an unknown task or an illegal
\* transition raises.
Select(c) ==
    /\ call[c].pc = "select"
    /\ IF <<Status(call[c].task), call[c].new>> \in Lifecycle!Transitions
       THEN call' = [call EXCEPT ![c].pc = "update"]
       ELSE Return(c)
    /\ UNCHANGED <<board, deps>>

\* The columns written with each status.
Written(row, w) ==
    [status |-> w.new,
     assignee |-> CASE w.new = "assigned" -> w.agent
                    [] w.new = "pending" -> None
                    [] OTHER -> row.assignee]

\* _set_status, second half: UPDATE ... WHERE id = ?, commit.
Update(c) ==
    LET w == call[c] IN
    /\ w.pc = "update"
    /\ board' = [board EXCEPT ![w.task] = Written(@, w)]
    /\ IF w.more
       THEN call' = [call EXCEPT ![c] = Call("select", w.task, "pending", None, FALSE)]
       ELSE Return(c)
    /\ UNCHANGED deps

\* requeue reads the task and chooses its route by the status it saw.
RequeueGet(c) ==
    LET t == call[c].task
        Then(pc, new, more) == call' = [call EXCEPT ![c] = Call(pc, t, new, None, more)]
    IN  /\ call[c].pc = "get"
        /\ \/ Status(t) = "pending" /\ Then("raw", "pending", FALSE)
           \/ Status(t) = "running" /\ Then("select", "failed", TRUE)
           \/ Status(t) \in {"failed", "cancelled", "assigned"} /\ Then("select", "pending", FALSE)
           \/ Status(t) \in {"absent", "completed"} /\ Return(c)
        /\ UNCHANGED <<board, deps>>

\* Mutant: the requeue of a task seen pending writes its status too.
RequeueRawReopens(c) ==
    /\ call[c].pc = "raw"
    /\ board' = [board EXCEPT ![call[c].task] = [status |-> "pending", assignee |-> None]]
    /\ Return(c)
    /\ UNCHANGED deps

\* requeue of a task seen pending: columns only, no status and no check.
RequeueRaw(c) ==
    /\ call[c].pc = "raw"
    /\ board' = [board EXCEPT ![call[c].task].assignee = None]
    /\ Return(c)
    /\ UNCHANGED deps

\* The process dies, or the coroutine is cancelled, between two statements.
Crash(c) ==
    /\ call[c] # Idle
    /\ Return(c)
    /\ UNCHANGED <<board, deps>>

Step(c) == Select(c) \/ Update(c) \/ RequeueGet(c) \/ RequeueRaw(c)

Next ==
    \/ \E batch, on \in SUBSET Tasks : CreateBatch(batch, on)
    \/ \E t, d \in Tasks : AddDependency(t, d)
    \/ \E c \in Clients : \/ \E t \in Tasks : UpdateTask(c, t)
                          \/ Step(c) \/ Crash(c)

Spec == Init /\ [][Next]_vars

-----------------------------------------------------------------------------
(* Properties *)

Rows == [status : Lifecycle!Statuses, assignee : Agents \cup {None}]

Calls == [pc : {"select", "update", "get", "raw"}, task : Tasks,
          new : Lifecycle!Statuses, agent : Agents \cup {None}, more : BOOLEAN]

\* Every variable has its type.
TypeOK ==
    /\ board \in [Tasks -> Rows]
    /\ deps \subseteq Tasks \X Tasks
    /\ call \in [Clients -> {Idle} \cup Calls]

\* The board implements the task lifecycle on the tasks whose calls do not
\* overlap, however the others are raced on: seen from outside, every commit is
\* a creation or one legal move, also inside a requeue and after a crash.
ImplementsLifecycle == Lifecycle!Spec

\* "illegal moves (e.g. COMPLETED -> PENDING) raise": no commit moves a task
\* along an edge the table does not have.
LegalTransitions ==
    [][\A t \in Tasks :
         Status(t)' # Status(t) /\ Status(t) # "absent"
            => <<Status(t), Status(t)'>> \in Lifecycle!Transitions]_board

Dependencies(t) == {d \in Tasks : <<t, d>> \in deps}

\* The dependencies of t are all completed (the ready query's NOT EXISTS).
DependenciesDone(t) == \A d \in Dependencies(t) : Status(d) = "completed"

\* What was ready stays ready: when calls on its dependencies do not overlap, a
\* satisfied dependency is never taken back, so a dispatcher may act on a list
\* of ready tasks it read earlier.
ReadyStable ==
    [][\A t \in Tasks :
         Dependencies(t) \subseteq Exclusive /\ DependenciesDone(t) /\ deps' = deps
            => DependenciesDone(t)']_vars

\* An open call on t that will write a status without looking at it again.
Committing(c, t) == c \in Open(t) /\ call[c].pc = "update"

\* t is completed and no call that passed its check is still about to write.
Settled(t) == Status(t) = "completed" /\ \A c \in Clients : ~Committing(c, t)

\* A write of columns without a status: by update_task, or by a requeue that
\* saw the task pending.
RawWrite(t) == RawUpdate(t) \/ \E c \in Open(t) : RequeueRaw(c)

\* Even with concurrent callers: once a task is completed and every call that
\* passed its check before that has ended, nothing reopens it, not even a
\* requeue that saw it pending long ago; only a raw column write, which
\* carries no status, still changes its row.
CompletedSticks ==
    [][\A t \in Tasks :
         Settled(t) => Settled(t)' /\ (board'[t] # board[t] => RawWrite(t))]_vars

\* One open call per exclusive task.
OneCallPerTask ==
    \A c, e \in Clients :
        /\ call[c] # Idle /\ call[e] # Idle
        /\ call[c].task = call[e].task /\ call[c].task \in Exclusive
        => c = e

\* What an open call on an exclusive task checked still holds when it writes.
ChecksHold ==
    \A c \in Clients :
        call[c] # Idle /\ call[c].task \in Exclusive =>
            /\ call[c].pc = "update" =>
                  <<Status(call[c].task), call[c].new>> \in Lifecycle!Transitions
            /\ call[c].pc = "raw" => Status(call[c].task) = "pending"

\* The inductive invariant behind the lifecycle: a call about to write to an
\* exclusive task still sees the status it checked, because no other call on
\* that task is open and a raw column update leaves the status alone.
ExclusiveInv ==
    /\ TypeOK
    /\ OneCallPerTask
    /\ ChecksHold

=============================================================================
