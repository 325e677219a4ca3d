-------------------------- MODULE TaskBoardProofs ---------------------------
(***************************************************************************)
(* On the tasks whose calls do not overlap the board implements the task   *)
(* lifecycle; on any other, a settled completed task is never reopened.    *)
(***************************************************************************)
EXTENDS TaskBoard, TLAPS

\* A call past its first statement is a record of Calls.
LEMMA OpenCall ==
    ASSUME TypeOK, NEW c \in Clients, call[c].pc # "idle"
    PROVE  call[c] # Idle /\ call[c] \in Calls /\ call[c].task \in Tasks
BY DEF TypeOK, Idle, Calls

\* Every other kind of call record is no Idle.
LEMMA NotIdle ==
    ASSUME NEW w \in Calls
    PROVE  w # Idle
BY DEF Idle, Calls

\* What the UPDATE writes is a row of the table.
LEMMA WrittenType ==
    ASSUME NEW row \in Rows, NEW w \in Calls
    PROVE  /\ Written(row, w) \in Rows
           /\ Written(row, w).status = w.new
BY DEF Written, Rows, Calls

\* What opening a call on t does.
Opens(c, t, w) ==
    /\ call[c] = Idle
    /\ t \in Exclusive => Open(t) = {}
    /\ UNCHANGED <<board, deps>>
    /\ call' = [call EXCEPT ![c] = w]
    /\ w.task = t
    /\ w.pc \in {"select", "get"}

\* Begin opens a well-formed call.
LEMMA BeginOpens ==
    ASSUME NEW c \in Clients, NEW t \in Tasks, NEW pc \in {"select", "get"},
           NEW new \in Lifecycle!Statuses, NEW a \in Agents \cup {None},
           Begin(c, t, pc, new, a)
    PROVE  \E w \in Calls : Opens(c, t, w)
<1> DEFINE w == Call(pc, t, new, a, FALSE)
<1>1. w \in Calls /\ w.pc = pc /\ w.task = t /\ w.new = new /\ w.agent = a
  BY DEF Call, Calls
<1> HIDE DEF w
<1>2. call' = [call EXCEPT ![c] = w]
  BY DEF Begin, w
<1>3. Opens(c, t, w)
  BY <1>1, <1>2 DEF Opens, Begin
<1> QED
  BY <1>1, <1>3

\* So does every operation update_task routes to; the raw column update opens
\* no call and writes one row's columns.
LEMMA BeginType ==
    ASSUME NEW c \in Clients, NEW t \in Tasks, UpdateTask(c, t)
    PROVE  (\E w \in Calls : Opens(c, t, w)) \/ RawUpdate(t)
<1> DEFINE P == \E w \in Calls : Opens(c, t, w)
<1>1. ASSUME NEW pc \in {"select", "get"}, NEW new \in Lifecycle!Statuses,
             NEW a \in Agents \cup {None}, Begin(c, t, pc, new, a)
      PROVE  P
  BY <1>1, BeginOpens
<1>2. \/ \E pc \in {"select", "get"}, new \in Lifecycle!Statuses, a \in Agents \cup {None} :
            Begin(c, t, pc, new, a)
      \/ RawUpdate(t)
  BY DEF UpdateTask, Assign, Start, Complete, Fail, Cancel, Requeue, Lifecycle!Statuses
<1> QED
  BY <1>1, <1>2

\* A raw column update changes no status and no other row.
LEMMA RawStep ==
    ASSUME TypeOK, NEW t \in Tasks, RawUpdate(t)
    PROVE  /\ UNCHANGED <<deps, call>>
           /\ board' \in [Tasks -> Rows]
           /\ \A u \in Tasks : board'[u].status = board[u].status
           /\ \A u \in Tasks : u # t => board'[u] = board[u]
<1>1. PICK a \in Agents \cup {None} : board' = [board EXCEPT ![t].assignee = a]
  BY DEF RawUpdate
<1> QED
  BY <1>1 DEF RawUpdate, TypeOK, Rows

\* A step of an open call closes it or moves it on, on the same task.
LEMMA StepCall ==
    ASSUME TypeOK, NEW c \in Clients, Step(c) \/ Crash(c)
    PROVE  /\ UNCHANGED deps
           /\ call[c] \in Calls
           /\ \E w \in {Idle} \cup Calls :
                 /\ call' = [call EXCEPT ![c] = w]
                 /\ w # Idle => w.task = call[c].task
           /\ \/ UNCHANGED board
              \/ /\ Update(c)
                 /\ board' = [board EXCEPT ![call[c].task] = Written(@, call[c])]
              \/ RequeueRaw(c)
<1>1. CASE Select(c)
  <2>1. call[c] \in Calls
    BY <1>1, OpenCall DEF Select
  <2>2. [call[c] EXCEPT !.pc = "update"] \in Calls
    BY <2>1 DEF Calls
  <2>3. \/ call' = [call EXCEPT ![c] = Idle]
        \/ call' = [call EXCEPT ![c] = [call[c] EXCEPT !.pc = "update"]]
    BY <1>1 DEF Select, Return
  <2>4. [call[c] EXCEPT !.pc = "update"].task = call[c].task
    BY <2>1 DEF Calls
  <2> QED
    BY <1>1, <2>1, <2>2, <2>3, <2>4 DEF Select
<1>2. CASE Update(c)
  <2>1. call[c] \in Calls
    BY <1>2, OpenCall DEF Update
  <2>2. Call("select", call[c].task, "pending", None, FALSE) \in Calls
    BY <2>1 DEF Calls, Call, Lifecycle!Statuses
  <2>3. Call("select", call[c].task, "pending", None, FALSE).task = call[c].task
    BY DEF Call
  <2> QED
    BY <1>2, <2>1, <2>2, <2>3 DEF Update, Return
<1>3. CASE RequeueGet(c)
  <2>1. call[c] \in Calls
    BY <1>3, OpenCall DEF RequeueGet
  <2> DEFINE R == {Call("raw", call[c].task, "pending", None, FALSE),
                   Call("select", call[c].task, "failed", None, TRUE),
                   Call("select", call[c].task, "pending", None, FALSE)}
  <2>2. \A w \in R : w \in Calls /\ w.task = call[c].task
    <3>1. call[c].task \in Tasks /\ {"pending", "failed"} \subseteq Lifecycle!Statuses
      BY <2>1 DEF Calls, Lifecycle!Statuses
    <3>2. LET w == Call("raw", call[c].task, "pending", None, FALSE)
          IN  w \in Calls /\ w.task = call[c].task
      BY <3>1 DEF Call, Calls
    <3>3. LET w == Call("select", call[c].task, "failed", None, TRUE)
          IN  w \in Calls /\ w.task = call[c].task
      BY <3>1 DEF Call, Calls
    <3>4. LET w == Call("select", call[c].task, "pending", None, FALSE)
          IN  w \in Calls /\ w.task = call[c].task
      BY <3>1 DEF Call, Calls
    <3> QED
      BY <3>2, <3>3, <3>4
  <2>3. \E w \in R \cup {Idle} : call' = [call EXCEPT ![c] = w]
    BY <1>3 DEF RequeueGet, Return
  <2> QED
    BY <1>3, <2>1, <2>2, <2>3 DEF RequeueGet
<1>4. CASE RequeueRaw(c)
  BY <1>4, OpenCall DEF RequeueRaw, Return
<1>5. CASE Crash(c)
  BY <1>5 DEF Crash, Return, TypeOK
<1> QED
  BY <1>1, <1>2, <1>3, <1>4, <1>5 DEF Step

\* Every step keeps the types.
LEMMA TypeStep ==
    ASSUME TypeOK, [Next]_vars
    PROVE  TypeOK'
<1>1. CASE UNCHANGED vars
  BY <1>1 DEF TypeOK, vars
<1>2. ASSUME NEW batch \in SUBSET Tasks, NEW on \in SUBSET Tasks, CreateBatch(batch, on)
      PROVE TypeOK'
  BY <1>2 DEF TypeOK, CreateBatch, Rows, Lifecycle!Statuses
<1>3. ASSUME NEW t \in Tasks, NEW d \in Tasks, AddDependency(t, d) PROVE TypeOK'
  BY <1>3 DEF TypeOK, AddDependency
<1>4. ASSUME NEW c \in Clients, NEW t \in Tasks, UpdateTask(c, t) PROVE TypeOK'
  BY <1>4, BeginType, RawStep DEF TypeOK, Opens
<1>5. ASSUME NEW c \in Clients, Step(c) \/ Crash(c) PROVE TypeOK'
  <2>1. /\ call[c] \in Calls
        /\ call' \in [Clients -> {Idle} \cup Calls]
        /\ UNCHANGED deps
    BY <1>5, StepCall DEF TypeOK
  <2>2. call[c].task \in Tasks
    BY <2>1 DEF Calls
  <2>3. CASE board' = [board EXCEPT ![call[c].task] = Written(@, call[c])]
    BY <2>1, <2>2, <2>3, WrittenType DEF TypeOK
  <2>4. CASE RequeueRaw(c)
    BY <2>1, <2>2, <2>4 DEF TypeOK, RequeueRaw, Rows
  <2> QED
    BY <1>5, <2>1, <2>3, <2>4, StepCall DEF TypeOK
<1> QED
  BY <1>1, <1>2, <1>3, <1>4, <1>5 DEF Next

\* The board without its call records changes only in one row, and legally.
LEMMA RowStep ==
    ASSUME ExclusiveInv, NEW c \in Clients, Step(c) \/ Crash(c)
    PROVE  /\ \A t \in Tasks : t # call[c].task => board'[t] = board[t]
           /\ \A t \in Exclusive : \/ Status(t)' = Status(t)
                                  \/ <<Status(t), Status(t)'>> \in Lifecycle!Transitions
<1>1. TypeOK /\ TypeOK'
  BY TypeStep DEF ExclusiveInv, Next, Step
<1>2. call[c] \in Calls /\ call[c].task \in Tasks
  BY <1>1, StepCall DEF Calls
<1>3. CASE UNCHANGED board
  BY <1>3 DEF Status
<1>4. CASE Update(c) /\ board' = [board EXCEPT ![call[c].task] = Written(@, call[c])]
  <2>1. call[c].pc = "update"
    BY <1>4 DEF Update
  <2>2. call[c].task \in Exclusive =>
          <<Status(call[c].task), call[c].new>> \in Lifecycle!Transitions
    BY <1>2, <2>1, NotIdle DEF ExclusiveInv, ChecksHold
  <2>3. board'[call[c].task].status = call[c].new
    <3>1. /\ board[call[c].task] \in Rows
          /\ board'[call[c].task] = Written(board[call[c].task], call[c])
      BY <1>1, <1>2, <1>4 DEF TypeOK
    <3>2. Written(board[call[c].task], call[c]).status = call[c].new
      BY <1>2, <3>1, WrittenType
    <3> QED
      BY <3>1, <3>2
  <2>4. \A t \in Tasks : t # call[c].task => board'[t] = board[t]
    BY <1>1, <1>4 DEF TypeOK
  <2> QED
    BY <1>4, <2>2, <2>3, <2>4, ExclusiveType DEF Status
<1>5. CASE RequeueRaw(c)
  BY <1>1, <1>2, <1>5, ExclusiveType DEF RequeueRaw, TypeOK, Rows, Status
<1> QED
  BY <1>1, <1>3, <1>4, <1>5, StepCall

\* Creation turns absent rows into pending ones and leaves the others alone.
LEMMA CreateStep ==
    ASSUME TypeOK, NEW batch \in SUBSET Tasks, NEW on \in SUBSET Tasks,
           CreateBatch(batch, on)
    PROVE  /\ UNCHANGED call
           /\ \A t \in batch : Status(t) = "absent" /\ Status(t)' = "pending"
           /\ \A t \in Tasks \ batch : board'[t] = board[t]
BY DEF TypeOK, CreateBatch, Rows, Status

\* One open call per task stays so: a call opens only on a task without one.
LEMMA OneCallStep ==
    ASSUME ExclusiveInv, [Next]_vars
    PROVE  OneCallPerTask'
<1>0. TypeOK /\ OneCallPerTask
  BY DEF ExclusiveInv
<1>1. CASE UNCHANGED call
  BY <1>0, <1>1 DEF OneCallPerTask
<1>2. ASSUME NEW c \in Clients, NEW t \in Tasks, UpdateTask(c, t) PROVE OneCallPerTask'
  <2>0. CASE RawUpdate(t)
    BY <1>1, <2>0 DEF RawUpdate
  <2>1. SUFFICES ASSUME NEW w \in Calls, Opens(c, t, w) PROVE OneCallPerTask'
    BY <1>2, <2>0, BeginType
  <2>2. t \in Exclusive => \A e \in Clients : call[e] # Idle => call[e].task # t
    BY <2>1 DEF Opens, Open
  <2>3. \A e \in Clients : call'[e] = IF e = c THEN w ELSE call[e]
    BY <1>0, <2>1 DEF Opens, TypeOK
  <2>4. w.task = t
    BY <2>1 DEF Opens
  <2> QED
    BY <1>0, <2>2, <2>3, <2>4 DEF OneCallPerTask
<1>3. ASSUME NEW c \in Clients, Step(c) \/ Crash(c) PROVE OneCallPerTask'
  <2>1. call[c] \in Calls /\ call[c] # Idle
    BY <1>0, <1>3, StepCall, NotIdle
  <2>2. PICK w \in {Idle} \cup Calls : /\ call' = [call EXCEPT ![c] = w]
                                       /\ w # Idle => w.task = call[c].task
    BY <1>0, <1>3, StepCall
  <2>3. ASSUME NEW e \in Clients, call'[e] # Idle
        PROVE  call[e] # Idle /\ call'[e].task = call[e].task
    <3>1. CASE e = c
      BY <1>0, <2>1, <2>2, <2>3, <3>1 DEF TypeOK
    <3>2. CASE e # c
      BY <1>0, <2>2, <2>3, <3>2 DEF TypeOK
    <3> QED
      BY <3>1, <3>2
  <2> QED
    BY <1>0, <2>3 DEF OneCallPerTask
<1> QED
  BY <1>1, <1>2, <1>3 DEF Next, vars, CreateBatch, AddDependency

\* Rows of tasks that another call works on do not change.
LEMMA OtherRows ==
    ASSUME ExclusiveInv, NEW c \in Clients, Step(c) \/ Crash(c),
           NEW e \in Clients, e # c, call[e] # Idle, call[e].task \in Exclusive
    PROVE  /\ call'[e] = call[e]
           /\ call[e].task \in Tasks
           /\ board'[call[e].task] = board[call[e].task]
<1>1. TypeOK /\ OneCallPerTask
  BY DEF ExclusiveInv
<1>2. call[c] # Idle
  BY <1>1, StepCall, NotIdle
<1>3. call[e] \in Calls /\ call[e].task \in Tasks
  BY <1>1 DEF TypeOK, Calls
<1>4. call[e].task # call[c].task
  BY <1>1, <1>2 DEF OneCallPerTask
<1> QED
  BY <1>1, <1>3, <1>4, RowStep, StepCall DEF TypeOK

\* The call that made the step: what it may write next is checked.
LEMMA OwnChecks ==
    ASSUME ExclusiveInv, NEW c \in Clients, Step(c) \/ Crash(c), call'[c] # Idle,
           call'[c].task \in Exclusive
    PROVE  /\ call'[c].pc = "update" =>
                 <<board'[call'[c].task].status, call'[c].new>> \in Lifecycle!Transitions
           /\ call'[c].pc = "raw" => board'[call'[c].task].status = "pending"
<1>1. TypeOK /\ ChecksHold
  BY DEF ExclusiveInv
<1>2. call[c] \in Calls /\ call[c] # Idle
  BY <1>1, StepCall, NotIdle
<1>3. CASE Select(c)
  <2>1. /\ call' = [call EXCEPT ![c] = [call[c] EXCEPT !.pc = "update"]]
        /\ <<Status(call[c].task), call[c].new>> \in Lifecycle!Transitions
        /\ UNCHANGED board
    BY <1>1, <1>2, <1>3 DEF Select, Return, TypeOK
  <2>2. call'[c] = [call[c] EXCEPT !.pc = "update"]
    BY <1>1, <2>1 DEF TypeOK
  <2>3. /\ call'[c].task = call[c].task /\ call'[c].new = call[c].new
        /\ call'[c].pc = "update"
    BY <1>2, <2>2 DEF Calls
  <2> QED
    BY <1>1, <1>2, <2>1, <2>3 DEF ChecksHold, Status
<1>4. CASE Update(c)
  <2>1. call'[c] = Call("select", call[c].task, "pending", None, FALSE)
    BY <1>1, <1>4 DEF Update, Return, TypeOK
  <2> QED
    BY <2>1 DEF Call
<1>5. CASE RequeueGet(c)
  <2>1. \/ /\ call'[c] = Call("raw", call[c].task, "pending", None, FALSE)
           /\ Status(call[c].task) = "pending"
        \/ call'[c] = Call("select", call[c].task, "failed", None, TRUE)
        \/ call'[c] = Call("select", call[c].task, "pending", None, FALSE)
    BY <1>1, <1>5 DEF RequeueGet, Return, TypeOK
  <2>2. UNCHANGED board
    BY <1>5 DEF RequeueGet
  <2> QED
    BY <2>1, <2>2 DEF Call, Status
<1>6. CASE RequeueRaw(c) \/ Crash(c)
  BY <1>1, <1>6 DEF RequeueRaw, Crash, Return, TypeOK
<1> QED
  BY <1>3, <1>4, <1>5, <1>6 DEF Step

\* A call that was open keeps what it checked.
LEMMA ChecksStep ==
    ASSUME ExclusiveInv, [Next]_vars
    PROVE  ChecksHold'
<1>0. TypeOK /\ ChecksHold
  BY DEF ExclusiveInv
<1>1. CASE UNCHANGED <<board, call>>
  BY <1>0, <1>1 DEF ChecksHold, Status
<1>2. ASSUME NEW batch \in SUBSET Tasks, NEW on \in SUBSET Tasks, CreateBatch(batch, on)
      PROVE  ChecksHold'
  <2>1. ASSUME NEW e \in Clients, call[e] # Idle, call[e].task \in Exclusive,
               call[e].pc \in {"update", "raw"}
        PROVE  board'[call[e].task] = board[call[e].task]
    <3>1. Status(call[e].task) # "absent" /\ call[e].task \in Tasks
      BY <1>0, <2>1 DEF ChecksHold, TypeOK, Calls, Lifecycle!Transitions
    <3> QED
      BY <1>0, <1>2, <3>1, CreateStep
  <2>2. UNCHANGED call
    BY <1>2 DEF CreateBatch
  <2> QED
    BY <1>0, <2>1, <2>2 DEF ChecksHold, Status
<1>3. ASSUME NEW c \in Clients, NEW t \in Tasks, UpdateTask(c, t) PROVE ChecksHold'
  <2>0. CASE RawUpdate(t)
    <3>1. UNCHANGED call /\ \A u \in Tasks : board'[u].status = board[u].status
      BY <1>0, <2>0, RawStep
    <3> QED
      BY <1>0, <3>1, ExclusiveType DEF ChecksHold, Status
  <2>1. SUFFICES ASSUME NEW w \in Calls, Opens(c, t, w) PROVE ChecksHold'
    BY <1>3, <2>0, BeginType
  <2>2. \A e \in Clients : call'[e] = IF e = c THEN w ELSE call[e]
    BY <1>0, <2>1 DEF Opens, TypeOK
  <2>3. UNCHANGED board /\ w.pc \in {"select", "get"}
    BY <2>1 DEF Opens
  <2> QED
    BY <1>0, <2>2, <2>3 DEF ChecksHold, Status
<1>4. ASSUME NEW c \in Clients, Step(c) \/ Crash(c) PROVE ChecksHold'
  <2>1. ASSUME NEW e \in Clients, e # c, call'[e] # Idle, call'[e].task \in Exclusive
        PROVE  /\ call'[e] = call[e]
               /\ board'[call[e].task] = board[call[e].task]
    <3>1. call'[e] = call[e]
      BY <1>0, <1>4, <2>1, StepCall DEF TypeOK
    <3> QED
      BY <1>4, <2>1, <3>1, OtherRows
  <2> QED
    BY <1>0, <1>4, <2>1, OwnChecks DEF ChecksHold, Status
<1> QED
  BY <1>1, <1>2, <1>3, <1>4 DEF Next, vars, AddDependency

\* Rows, edges and open calls of the board keep their types, however many
\* clients overlap.
THEOREM BoardTypeOK == Spec => []TypeOK
<1>1. Init => TypeOK
  BY DEF Init, TypeOK, Rows, Lifecycle!Statuses
<1>2. TypeOK /\ [Next]_vars => TypeOK'
  BY TypeStep
<1> QED
  BY <1>1, <1>2, PTL DEF Spec

\* On a task with one open call at a time no call writes over a status it did
\* not check, whatever happens to the other tasks and to its other columns.
THEOREM ExclusiveHolds == Spec => []ExclusiveInv
<1>1. Init => ExclusiveInv
  BY DEF Init, ExclusiveInv, TypeOK, OneCallPerTask, ChecksHold,
         Status, Rows, Lifecycle!Statuses
<1>2. ExclusiveInv /\ [Next]_vars => ExclusiveInv'
  <2> SUFFICES ASSUME ExclusiveInv, [Next]_vars PROVE ExclusiveInv'
    OBVIOUS
  <2>1. TypeOK'
    BY TypeStep DEF ExclusiveInv
  <2> QED
    BY <2>1, OneCallStep, ChecksStep DEF ExclusiveInv
<1> QED
  BY <1>1, <1>2, PTL DEF Spec

\* On the exclusive tasks every step is a creation, a legal move or a stutter.
LEMMA LifecycleStep ==
    ASSUME ExclusiveInv, ExclusiveInv', [Next]_vars
    PROVE  [Lifecycle!Next]_StatusOf
<1>0. TypeOK /\ TypeOK'
  BY DEF ExclusiveInv
<1>1. CASE UNCHANGED board
  BY <1>1 DEF StatusOf
<1>2. ASSUME NEW batch \in SUBSET Tasks, NEW on \in SUBSET Tasks, CreateBatch(batch, on)
      PROVE  Lifecycle!Next
  <2> DEFINE mine == batch \cap Exclusive
  <2>1. mine \in SUBSET Exclusive /\ \A t \in mine : StatusOf[t] = "absent"
    BY <1>0, <1>2, CreateStep DEF StatusOf, Status
  <2>2. StatusOf' = [t \in Exclusive |-> IF t \in mine THEN "pending" ELSE StatusOf[t]]
    <3>1. \A t \in Tasks :
            board'[t].status = IF t \in batch THEN "pending" ELSE board[t].status
      BY <1>0, <1>2, CreateStep DEF Status
    <3> QED
      BY <3>1, ExclusiveType DEF StatusOf
  <2> HIDE DEF mine
  <2> QED
    BY <2>1, <2>2 DEF Lifecycle!Next, Lifecycle!Create
<1>3. ASSUME NEW c \in Clients, Step(c) \/ Crash(c) PROVE [Lifecycle!Next]_StatusOf
  <2> DEFINE u == call[c].task
  <2>1. u \in Tasks
    BY <1>0, <1>3, StepCall DEF Calls
  <2>2. /\ \A t \in Tasks : t # u => board'[t] = board[t]
        /\ u \in Exclusive => \/ board'[u].status = board[u].status
                              \/ <<board[u].status, board'[u].status>> \in Lifecycle!Transitions
    BY <1>3, <2>1, RowStep DEF Status
  <2> HIDE DEF u
  <2>3. CASE board'[u].status = board[u].status \/ u \notin Exclusive
    BY <2>1, <2>2, <2>3, ExclusiveType DEF StatusOf
  <2>4. CASE u \in Exclusive /\ <<board[u].status, board'[u].status>> \in Lifecycle!Transitions
    <3> DEFINE new == board'[u].status
    <3>1. new \in Lifecycle!Statuses
      BY <1>0, <2>1 DEF TypeOK, Rows
    <3>2. <<StatusOf[u], new>> \in Lifecycle!Transitions
      BY <2>1, <2>4 DEF StatusOf
    <3>3. StatusOf' = [StatusOf EXCEPT ![u] = new]
      BY <2>1, <2>2, <2>4, ExclusiveType DEF StatusOf
    <3> HIDE DEF new
    <3>4. Lifecycle!Move(u, new)
      BY <3>2, <3>3 DEF Lifecycle!Move
    <3> QED
      BY <2>4, <3>1, <3>4 DEF Lifecycle!Next
  <2> QED
    BY <2>2, <2>3, <2>4
<1>4. ASSUME NEW c \in Clients, NEW t \in Tasks, UpdateTask(c, t) PROVE UNCHANGED StatusOf
  <2>1. UNCHANGED board \/ RawUpdate(t)
    BY <1>4, BeginType DEF Opens
  <2> QED
    BY <1>0, <2>1, RawStep, ExclusiveType DEF StatusOf
<1> QED
  BY <1>1, <1>2, <1>3, <1>4 DEF Next, vars, AddDependency

\* On the tasks whose calls do not overlap the board implements the task
\* lifecycle, for any number of tasks, clients and agents, requeues, raw column
\* updates and crashes included, and whatever races the other tasks see.
THEOREM BoardImplementsLifecycle == Spec => ImplementsLifecycle
<1>1. Init => Lifecycle!Init
  BY ExclusiveType DEF Init, Lifecycle!Init, StatusOf
<1>2. Spec => []ExclusiveInv
  BY ExclusiveHolds
<1>3. ExclusiveInv /\ ExclusiveInv' /\ [Next]_vars => [Lifecycle!Next]_StatusOf
  BY LifecycleStep
<1> QED
  BY <1>1, <1>2, <1>3, PTL DEF Spec, ImplementsLifecycle, Lifecycle!Spec

\* A satisfied dependency on a task whose calls do not overlap is never taken
\* back.
THEOREM ReadyStableHolds == Spec => ReadyStable
<1>1. ASSUME ExclusiveInv, [Next]_vars, NEW d \in Exclusive, Status(d) = "completed"
      PROVE  Status(d)' = "completed"
  <2>1. ASSUME NEW batch \in SUBSET Tasks, NEW on \in SUBSET Tasks, CreateBatch(batch, on)
        PROVE  Status(d)' = "completed"
    <3>1. d \in Tasks \ batch
      BY <1>1, <2>1, ExclusiveType DEF CreateBatch
    <3> QED
      BY <1>1, <2>1, <3>1, CreateStep DEF ExclusiveInv, Status
  <2>2. ASSUME NEW c \in Clients, Step(c) \/ Crash(c) PROVE Status(d)' = "completed"
    BY <1>1, <2>2, RowStep DEF Lifecycle!Transitions
  <2>3. ASSUME NEW c \in Clients, NEW t \in Tasks, UpdateTask(c, t) PROVE Status(d)' = "completed"
    <3>1. UNCHANGED board \/ RawUpdate(t)
      BY <2>3, BeginType DEF Opens
    <3> QED
      BY <1>1, <3>1, RawStep, ExclusiveType DEF ExclusiveInv, Status
  <2> QED
    BY <1>1, <2>1, <2>2, <2>3 DEF Next, vars, AddDependency, Status
<1>2. ExclusiveInv /\ [Next]_vars =>
        [\A t \in Tasks :
            Dependencies(t) \subseteq Exclusive /\ DependenciesDone(t) /\ deps' = deps
               => DependenciesDone(t)']_vars
  BY <1>1 DEF DependenciesDone, Dependencies
<1> QED
  BY <1>2, ExclusiveHolds, PTL DEF Spec, ReadyStable

\* Without any restriction on the callers: a completed task that no checked
\* call is still about to write is never reopened, and only a raw column write
\* still changes its row.
THEOREM CompletedSticksHolds == Spec => CompletedSticks
<1>1. Init => TypeOK
  BY DEF Init, TypeOK, Rows, Lifecycle!Statuses
<1>2. TypeOK /\ [Next]_vars => TypeOK'
  BY TypeStep
<1>3. ASSUME TypeOK, [Next]_vars, NEW t \in Tasks, Settled(t)
      PROVE  Settled(t)' /\ (board'[t] # board[t] => RawWrite(t))
  <2> DEFINE P == Settled(t)' /\ (board'[t] # board[t] => RawWrite(t))
  <2>0. Status(t) = "completed" /\ \A c \in Clients : ~Committing(c, t)
    BY <1>3 DEF Settled
  <2>1. CASE UNCHANGED <<board, call>>
    BY <2>0, <2>1 DEF Settled, Committing, Open, Status
  <2>2. ASSUME NEW batch \in SUBSET Tasks, NEW on \in SUBSET Tasks, CreateBatch(batch, on)
        PROVE  P
    <3>1. t \notin batch
      BY <2>0, <2>2 DEF CreateBatch
    <3>2. board'[t] = board[t] /\ UNCHANGED call
      BY <1>3, <2>2, <3>1, CreateStep
    <3> QED
      BY <2>0, <3>2 DEF Settled, Committing, Open, Status
  <2>3. ASSUME NEW c \in Clients, NEW u \in Tasks, UpdateTask(c, u) PROVE P
    <3>1. CASE RawUpdate(u)
      <4>1. UNCHANGED call /\ board'[t].status = board[t].status
        BY <1>3, <3>1, RawStep
      <4>2. board'[t] # board[t] => u = t
        BY <1>3, <3>1, RawStep
      <4> QED
        BY <2>0, <3>1, <4>1, <4>2 DEF Settled, Committing, Open, Status, RawWrite
    <3>2. ASSUME NEW w \in Calls, Opens(c, u, w) PROVE P
      <4>1. \A e \in Clients : call'[e] = IF e = c THEN w ELSE call[e]
        BY <1>3, <3>2 DEF Opens, TypeOK
      <4>2. UNCHANGED board /\ w.pc \in {"select", "get"}
        BY <3>2 DEF Opens
      <4> QED
        BY <2>0, <4>1, <4>2 DEF Settled, Committing, Open, Status
    <3> QED
      BY <2>3, <3>1, <3>2, BeginType
  <2>4. ASSUME NEW c \in Clients, Step(c) \/ Crash(c) PROVE P
    <3>1. call[c] \in Calls /\ call[c] # Idle /\ call[c].task \in Tasks
      BY <1>3, <2>4, StepCall, NotIdle DEF Calls
    <3>2. board'[t].status = board[t].status /\ (board'[t] # board[t] => RawWrite(t))
      <4>1. CASE call[c].task = t
        <5>1. ~Update(c)
          BY <2>0, <3>1, <4>1 DEF Committing, Open, Update
        <5>2. CASE UNCHANGED board
          BY <5>2
        <5>3. CASE RequeueRaw(c)
          BY <1>3, <3>1, <4>1, <5>3 DEF RequeueRaw, RawWrite, Open, TypeOK, Rows
        <5> QED
          BY <1>3, <2>4, <5>1, <5>2, <5>3, StepCall
      <4>2. CASE call[c].task # t
        BY <1>3, <2>4, <4>2, StepCall DEF TypeOK, RequeueRaw
      <4> QED
        BY <4>1, <4>2
    <3>3. ~Committing(c, t)'
      <4>1. CASE call'[c] = Idle
        BY <4>1 DEF Committing, Open
      <4>2. CASE call[c].task # t
        BY <1>3, <2>4, <4>2, StepCall DEF Committing, Open, TypeOK
      <4>3. CASE call[c].task = t /\ call'[c] # Idle
        <5>1. CASE Select(c)
          <6>1. <<"completed", call[c].new>> \notin Lifecycle!Transitions
            BY DEF Lifecycle!Transitions
          <6> QED
            BY <1>3, <2>0, <4>3, <5>1, <6>1 DEF Select, Return, TypeOK
        <5>2. CASE Update(c)
          BY <2>0, <3>1, <4>3, <5>2 DEF Update, Committing, Open
        <5>3. CASE RequeueGet(c)
          BY <1>3, <2>0, <4>3, <5>3 DEF RequeueGet, Return, TypeOK
        <5>4. CASE Crash(c) \/ RequeueRaw(c)
          BY <1>3, <4>3, <5>4 DEF Crash, RequeueRaw, Return, TypeOK
        <5> QED
          BY <2>4, <5>1, <5>2, <5>3, <5>4 DEF Step
      <4> QED
        BY <4>1, <4>2, <4>3
    <3>4. \A e \in Clients : e # c => call'[e] = call[e]
      BY <1>3, <2>4, StepCall DEF TypeOK
    <3> QED
      BY <2>0, <3>2, <3>3, <3>4 DEF Settled, Committing, Open, Status
  <2> QED
    BY <1>3, <2>1, <2>2, <2>3, <2>4 DEF Next, vars, AddDependency
<1>4. TypeOK /\ [Next]_vars =>
        [\A t \in Tasks :
            Settled(t) => Settled(t)' /\ (board'[t] # board[t] => RawWrite(t))]_vars
  BY <1>3
<1> QED
  BY <1>1, <1>2, <1>4, PTL DEF Spec, CompletedSticks

=============================================================================
