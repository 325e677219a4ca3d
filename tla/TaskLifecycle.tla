---------------------------- MODULE TaskLifecycle ----------------------------
(***************************************************************************)
(* What a task board promises: every task is created once, as pending, and *)
(* then moves only along the edges of the _TRANSITIONS table of            *)
(* task_board.py.  Abstract: one status per task, nothing else.            *)
(***************************************************************************)

CONSTANT Tasks

VARIABLE status

\* TaskStatus; "absent" is a task that was not created yet.  The audit-only
\* status quarantined_fake_result has no edge and no operation sets it.
Statuses == {"absent", "pending", "assigned", "running",
             "completed", "failed", "cancelled"}

Transitions ==
    {<<"pending", "assigned">>, <<"pending", "cancelled">>, <<"pending", "failed">>,
     <<"assigned", "running">>, <<"assigned", "cancelled">>, <<"assigned", "pending">>,
     <<"running", "completed">>, <<"running", "failed">>, <<"running", "cancelled">>,
     <<"failed", "pending">>, <<"cancelled", "pending">>}

Init == status = [t \in Tasks |-> "absent"]

\* create and create_batch: one commit for the whole batch.
Create(batch) ==
    /\ \A t \in batch : status[t] = "absent"
    /\ status' = [t \in Tasks |-> IF t \in batch THEN "pending" ELSE status[t]]

Move(t, new) ==
    /\ <<status[t], new>> \in Transitions
    /\ status' = [status EXCEPT ![t] = new]

Next == \/ \E batch \in SUBSET Tasks : Create(batch)
        \/ \E t \in Tasks, new \in Statuses : Move(t, new)

Spec == Init /\ [][Next]_status

=============================================================================
