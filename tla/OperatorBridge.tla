--------------------------- MODULE OperatorBridge ---------------------------
(***************************************************************************)
(* The queue of operator_bridge.py, as roaming_operator_bridge.py uses it: *)
(* workers claim a work order, acknowledge it, report progress and answer; *)
(* a sweeper requeues claims that timed out; the operator acknowledges     *)
(* the answer.  Every call but the claim and the sweep reads the row, and  *)
(* writes its metadata back whole some awaits later, and then mirrors the  *)
(* new status to the claims and runs of the runtime store.                 *)
(*                                                                         *)
(* One work order: no statement changes two of them for one caller.        *)
(***************************************************************************)
EXTENDS Naturals, FiniteSets

CONSTANTS
    Workers, Operator, Sweeper,
    None,
    Answers,        \* the statuses workers answer with, any strings in lower case
    MaxAnswers,     \* bound: responses, the late and the repeated ones included
    MaxReports,     \* bound: progress reports, artifacts and acknowledgements
    MaxFaults       \* bound: crashes, failing calls and claims that outlive their timeout

Clients == Workers \cup {Operator, Sweeper}

ASSUME BridgeClients ==
    Operator \notin Workers /\ Sweeper \notin Workers /\ Operator # Sweeper
        /\ None \notin Workers
ASSUME AnswerType == "none" \notin Answers
ASSUME BridgeLimits == MaxAnswers \in Nat /\ MaxReports \in Nat /\ MaxFaults \in Nat

\* The runtime ids a claim makes up, named by the number of the claim.
MaxRetries == MaxFaults + MaxAnswers
Ids == 1..(MaxRetries + 1)

VARIABLES
    row,        \* operator_bridge_tasks: status, claimed_by, retry_count, the
                \* number of the response, and the metadata
    lapsed,     \* claimed_at is older than claim_timeout_seconds
    claim,      \* task_claims in the runtime store: the status of each id
    run,        \* delegation_runs: likewise
    op,         \* the call each client is in
    holds,      \* the workers that believe the order is theirs
    answers,    \* responses persisted so far
    said,       \* history: the status of the last of them
    reopened,   \* history: how many of them said "queued"
    reports,    \* progress reports, artifacts and acknowledgements so far
    clean,      \* history: no other call overlapped a response, none was cut short
    faults

told == <<answers, said, reopened>>
vars == <<row, lapsed, claim, run, op, holds, answers, said, reopened, reports, clean, faults>>

NoMeta == [ids |-> 0, claimAck |-> FALSE, ack |-> 0]
NoOrder == [status |-> "none", by |-> None, retries |-> 0, resp |-> 0, meta |-> NoMeta]
Idle == [kind |-> "none", pc |-> "idle", seen |-> NoMeta, n |-> 0, st |-> "none"]

Init ==
    /\ row = NoOrder /\ lapsed = FALSE
    /\ claim = [i \in Ids |-> "none"] /\ run = [i \in Ids |-> "none"]
    /\ op = [a \in Clients |-> Idle]
    /\ holds = {} /\ answers = 0 /\ said = "none" /\ reopened = 0
    /\ reports = 0 /\ clean = TRUE /\ faults = 0

Fault == faults < MaxFaults /\ faults' = faults + 1

Free(a) == op[a].kind = "none"

\* A call of this kind that begins now has no response beside it.
Apart(kind) ==
    /\ \A b \in Clients : op[b].kind # "respond"
    /\ kind = "respond" => \A b \in Clients : Free(b)

\* A call begins, at phase pc, with what it has read of the row.
Begin(a, kind, pc, seen, n, st) ==
    /\ op' = [op EXCEPT ![a] = [kind |-> kind, pc |-> pc, seen |-> seen, n |-> n, st |-> st]]
    /\ clean' = (clean /\ Apart(kind))

\* It goes on to phase pc with what it still needs of what it has read.
Go(a, pc, seen, n, st) ==
    op' = [op EXCEPT ![a] = [@ EXCEPT !.pc = pc, !.seen = seen, !.n = n, !.st = st]]

End(a) == op' = [op EXCEPT ![a] = Idle]

-----------------------------------------------------------------------------
(* The queue *)

\* enqueue_task.
Enqueue ==
    /\ row.status = "none"
    /\ row' = [row EXCEPT !.status = "queued"]
    /\ UNCHANGED <<lapsed, claim, run, op, holds, told, reports, clean, faults>>

\* claim_task, one transaction; _mirror_runtime_claimed goes on with the
\* metadata it returned, and makes up ids if they hold none.
Claim(w) ==
    /\ Free(w) /\ w \notin holds
    /\ row.status = "queued"
    /\ row' = [row EXCEPT !.status = "in_progress", !.by = w]
    /\ lapsed' = FALSE
    /\ LET first == row.meta.ids = 0 IN
       Begin(w, "claim", IF first THEN "ids" ELSE "claim",
             IF first THEN [row.meta EXCEPT !.ids = row.retries + 1] ELSE row.meta, 0, "none")
    /\ UNCHANGED <<claim, run, holds, told, reports, faults>>

SetIds(w) ==
    /\ op[w].pc = "ids"
    /\ row' = [row EXCEPT !.meta = op[w].seen]
    /\ Go(w, "claim", op[w].seen, 0, "none")
    /\ UNCHANGED <<lapsed, claim, run, holds, told, reports, clean, faults>>

\* _is_stale: a claim that timed out, or none at all.  Heartbeats do not renew
\* claimed_at, which is NULL when claimed_by is.
Stale == lapsed \/ row.by = None

\* Mutant: a requeued order does not count its recovery.
RecoverUncounted ==
    /\ Free(Sweeper) /\ row.status = "in_progress" /\ Stale
    /\ row' = [row EXCEPT !.status = "queued", !.by = None]
    /\ lapsed' = FALSE
    /\ Begin(Sweeper, "recover", "reread", NoMeta, 0, "none")
    /\ UNCHANGED <<claim, run, holds, told, reports, faults>>

\* Mutant: whatever was claimed long ago is stale, answered or not.
RecoverAny ==
    /\ Free(Sweeper) /\ row.by # None /\ lapsed
    /\ row' = [row EXCEPT !.status = "queued", !.by = None, !.retries = @ + 1]
    /\ lapsed' = FALSE
    /\ Begin(Sweeper, "recover", "reread", NoMeta, 0, "none")
    /\ UNCHANGED <<claim, run, holds, told, reports, faults>>

\* recover_stale_tasks, one transaction.
Recover ==
    /\ Free(Sweeper) /\ row.status = "in_progress" /\ Stale
    /\ row' = [row EXCEPT !.status = "queued", !.by = None, !.retries = @ + 1]
    /\ lapsed' = FALSE
    /\ Begin(Sweeper, "recover", "reread", NoMeta, 0, "none")
    /\ UNCHANGED <<claim, run, holds, told, reports, faults>>

-----------------------------------------------------------------------------
(* Calls that read the row, write the metadata back and mirror *)

\* Mutant: a report of progress is taken from whoever held the order.
MayReportAnytime(w) == w \in holds

\* acknowledge_task_claim and heartbeat_task: the claim is the caller's, or
\* nobody's.
MayReport(w) == row.status = "in_progress" /\ row.by \in {w, None}

Counted == reports < MaxReports /\ reports' = reports + 1

\* acknowledge_task_claim and heartbeat_task.
Report(w, kind) ==
    /\ Free(w) /\ w \in holds
    /\ kind \in {"accept", "beat"} /\ MayReport(w)
    /\ Begin(w, kind, "write", row.meta, 0, "none")
    /\ Counted
    /\ UNCHANGED <<row, lapsed, claim, run, holds, told, faults>>

\* record_partial_artifact, which looks at no status.
Partial(w) ==
    /\ Free(w) /\ w \in holds
    /\ Begin(w, "partial", "write", row.meta, 0, "none")
    /\ Counted
    /\ UNCHANGED <<row, lapsed, claim, run, holds, told, faults>>

\* respond_task: neither the status, the old one or the new one, nor the
\* claimant is checked.
Respond(w) ==
    /\ Free(w) /\ w \in holds /\ answers < MaxAnswers
    /\ \E st \in Answers : Begin(w, "respond", "write", row.meta, 0, st)
    /\ UNCHANGED <<row, lapsed, claim, run, holds, told, reports, faults>>

\* acknowledge_response.
AckResponse ==
    /\ Free(Operator) /\ row.resp # 0
    /\ Begin(Operator, "ackresp", "write", row.meta, row.resp, "none")
    /\ Counted
    /\ UNCHANGED <<row, lapsed, claim, run, holds, told, faults>>

\* _set_metadata with what was read, and the change of the call.
WriteMeta(a) ==
    /\ op[a].pc = "write" /\ op[a].kind # "respond"
    /\ row' = [row EXCEPT !.meta =
           CASE op[a].kind = "accept" -> [op[a].seen EXCEPT !.claimAck = TRUE]
             [] op[a].kind = "ackresp" -> [op[a].seen EXCEPT !.ack = op[a].n]
             [] OTHER -> op[a].seen]
    /\ Go(a, "reread", NoMeta, 0, "none")
    /\ UNCHANGED <<lapsed, claim, run, holds, told, reports, clean, faults>>

\* A response that says st is persisted.
Persisted(st) ==
    /\ answers < MaxAnswers /\ answers' = answers + 1
    /\ said' = st
    /\ reopened' = IF st = "queued" THEN reopened + 1 ELSE reopened

\* Mutant: the acknowledgement of an earlier response stays.
WriteResponseKeeps(a) ==
    /\ op[a].pc = "write" /\ op[a].kind = "respond"
    /\ Persisted(op[a].st)
    /\ row' = [row EXCEPT !.status = op[a].st, !.resp = answers + 1, !.meta = op[a].seen]
    /\ Go(a, "send", NoMeta, answers + 1, "none")
    /\ UNCHANGED <<lapsed, claim, run, holds, reports, clean, faults>>

\* _persist_response, with whatever status the worker sent.
WriteResponse(a) ==
    /\ op[a].pc = "write" /\ op[a].kind = "respond"
    /\ Persisted(op[a].st)
    /\ row' = [row EXCEPT !.status = op[a].st, !.resp = answers + 1,
                          !.meta = [op[a].seen EXCEPT !.ack = 0]]
    /\ Go(a, "send", NoMeta, answers + 1, "none")
    /\ UNCHANGED <<lapsed, claim, run, holds, reports, clean, faults>>

\* The response message is sent and _set_response writes the response again,
\* or the send raises and nothing is written.
SendResponse(a) ==
    /\ op[a].pc = "send"
    /\ row' \in {row, [row EXCEPT !.resp = op[a].n]}
    /\ Go(a, "reread", NoMeta, 0, "none")
    /\ UNCHANGED <<lapsed, claim, run, holds, told, reports, clean, faults>>

\* The call that is about to end leaves the order with its worker, hands it
\* to him, or takes it from him: one response is collected per dispatch.
Ended(a) ==
    /\ End(a)
    /\ holds' = CASE op[a].kind = "claim" -> holds \cup {a}
                  [] op[a].kind = "respond" -> holds \ {a}
                  [] OTHER -> holds

OnlyIds(meta) == [NoMeta EXCEPT !.ids = meta.ids]

\* Mutant: the runtime store gets the status of the bridge.
OutcomesRaw(st) == {st}

Succeeded == {"done", "completed", "success"}
Unsuccessful == {"failed", "fail", "error", "cancelled", "canceled"}

\* _runtime_completion_status: a status it does not know is failed if there is
\* an error with it, and else goes to the runtime store as it is.
Outcomes(st) ==
    IF st \in Succeeded THEN {"completed"}
    ELSE IF st \in Unsuccessful THEN {"failed"} ELSE {"failed", st}

\* get_task: the ids to mirror to, and the outcome.  Without ids the mirror
\* has nothing to do; an artifact is noted in the metadata all the same.
Reread(a) ==
    /\ op[a].pc = "reread"
    /\ \/ /\ op[a].kind = "partial"
          /\ Go(a, "write2", row.meta, 0, "none") /\ UNCHANGED holds
       \/ /\ op[a].kind # "partial" /\ row.meta.ids = 0
          /\ Ended(a)
       \/ /\ row.meta.ids # 0 /\ UNCHANGED holds
          /\ \/ /\ op[a].kind = "ackresp"
                /\ Go(a, "readrun", OnlyIds(row.meta), 0, "none")
             \/ /\ op[a].kind = "beat"
                /\ Go(a, "readclaim", [row.meta EXCEPT !.ack = 0], 0, "none")
             \/ /\ op[a].kind = "respond"
                /\ \E st \in Outcomes(row.status) : Go(a, "claim", OnlyIds(row.meta), 0, st)
             \/ /\ op[a].kind \in {"accept", "recover"}
                /\ Go(a, "claim", OnlyIds(row.meta), 0, "none")
    /\ UNCHANGED <<row, lapsed, claim, run, told, reports, clean, faults>>

\* _mirror_runtime_partial_artifact writes the metadata once more.
WriteArtifact(a) ==
    /\ op[a].pc = "write2"
    /\ row' = [row EXCEPT !.meta = op[a].seen]
    /\ IF op[a].seen.ids = 0 THEN Ended(a)
       ELSE Go(a, "readrun", OnlyIds(op[a].seen), 0, "none") /\ UNCHANGED holds
    /\ UNCHANGED <<lapsed, claim, run, told, reports, clean, faults>>

\* The status a heartbeat or an artifact will write back.
ReadMirror(a) ==
    /\ \/ op[a].pc = "readclaim"
          /\ Go(a, "claim", OnlyIds(op[a].seen), 0,
                IF op[a].seen.claimAck THEN "acknowledged" ELSE claim[op[a].seen.ids])
       \/ op[a].pc = "readrun"
          /\ Go(a, "run", op[a].seen, 0, run[op[a].seen.ids])
    /\ UNCHANGED <<row, lapsed, claim, run, holds, told, reports, clean, faults>>

ClaimStatus(o) ==
    CASE o.kind = "claim" -> "claimed"
      [] o.kind = "accept" -> "acknowledged"
      [] o.kind = "recover" -> "recovered"
      [] OTHER -> o.st

RunStatus(o) ==
    CASE o.kind = "beat" -> "in_progress"
      [] o.kind = "recover" -> "stale_recovered"
      [] OTHER -> ClaimStatus(o)

\* record_task_claim; acknowledging or renewing a claim that is not there
\* raises.
MirrorClaim(a) ==
    LET i == op[a].seen.ids IN
    /\ op[a].pc = "claim"
    /\ \/ /\ op[a].kind = "claim" \/ claim[i] # "none"
          /\ claim' = [claim EXCEPT ![i] = ClaimStatus(op[a])]
          /\ Go(a, "run", OnlyIds(op[a].seen), 0, op[a].st)
       \/ /\ op[a].kind # "claim" /\ claim[i] = "none"
          /\ IF op[a].kind \in {"accept", "beat"} THEN End(a)
             ELSE Go(a, "run", OnlyIds(op[a].seen), 0, op[a].st)
          /\ UNCHANGED claim
    /\ UNCHANGED <<row, lapsed, run, holds, told, reports, clean, faults>>

\* record_delegation_run, and the call returns.
MirrorRun(a) ==
    LET i == op[a].seen.ids IN
    /\ op[a].pc = "run"
    /\ run' = IF op[a].kind = "claim" \/ run[i] # "none"
              THEN [run EXCEPT ![i] = RunStatus(op[a])] ELSE run
    /\ Ended(a)
    /\ UNCHANGED <<row, lapsed, claim, told, reports, clean, faults>>

-----------------------------------------------------------------------------
(* Faults and time *)

\* A call raises: a write finds the database locked for too long.
Raise(a) ==
    /\ ~Free(a) /\ Fault
    /\ End(a)
    /\ clean' = (clean /\ op[a].kind # "respond")
    /\ UNCHANGED <<row, lapsed, claim, run, holds, told, reports>>

\* A worker dies, in a call or between two.
Crash(w) ==
    /\ w \in holds \/ ~Free(w)
    /\ Fault
    /\ End(w) /\ holds' = holds \ {w}
    /\ clean' = (clean /\ op[w].kind # "respond")
    /\ UNCHANGED <<row, lapsed, claim, run, told, reports>>

Abandoned == row.by \notin holds /\ (row.by \in Workers => op[row.by].kind # "claim")

\* The claim times out: its worker is gone, or works for longer than that.
\* Only the age of an order in progress is looked at.
Lapse ==
    /\ row.status = "in_progress" /\ row.by # None /\ ~lapsed
    /\ lapsed' = TRUE
    /\ \/ Abandoned /\ UNCHANGED faults
       \/ ~Abandoned /\ Fault
    /\ UNCHANGED <<row, claim, run, op, holds, told, reports, clean>>

CallStep(a) ==
    \/ SetIds(a) \/ WriteMeta(a) \/ WriteResponse(a) \/ SendResponse(a) \/ Reread(a)
    \/ WriteArtifact(a) \/ ReadMirror(a) \/ MirrorClaim(a) \/ MirrorRun(a)

Next ==
    \/ Enqueue \/ Recover \/ AckResponse \/ Lapse
    \/ \E w \in Workers :
          \/ Claim(w) \/ Partial(w) \/ Respond(w) \/ Crash(w)
          \/ \E kind \in {"accept", "beat"} : Report(w, kind)
    \/ \E a \in Clients : CallStep(a) \/ Raise(a)

Spec == Init /\ [][Next]_vars

-----------------------------------------------------------------------------
(* Properties *)

Meta == [ids : 0..(MaxRetries + 1), claimAck : BOOLEAN, ack : 0..MaxAnswers]
OrderStatus == {"none", "queued", "in_progress"} \cup Answers
Row == [status : OrderStatus, by : Workers \cup {None}, retries : 0..MaxRetries,
        resp : 0..MaxAnswers, meta : Meta]
MirrorStatus == {"none", "queued", "claimed", "acknowledged", "in_progress", "recovered",
                 "stale_recovered", "completed", "failed"}
                    \cup (Answers \ (Succeeded \cup Unsuccessful))
Kinds == {"none", "claim", "recover", "accept", "beat", "partial", "respond", "ackresp"}
Phases == {"idle", "ids", "write", "send", "reread", "write2", "readclaim", "readrun",
           "claim", "run"}
Call == [kind : Kinds, pc : Phases, seen : Meta, n : 0..MaxAnswers,
         st : OrderStatus \cup MirrorStatus]

\* Every variable has its type.
TypeOK ==
    /\ row \in Row /\ lapsed \in BOOLEAN
    /\ claim \in [Ids -> MirrorStatus] /\ run \in [Ids -> MirrorStatus]
    /\ op \in [Clients -> Call]
    /\ holds \in SUBSET Workers /\ answers \in 0..MaxAnswers
    /\ said \in {"none"} \cup Answers /\ reopened \in 0..MaxAnswers
    /\ reports \in 0..MaxReports
    /\ clean \in BOOLEAN /\ faults \in 0..MaxFaults

\* The workers that have the order, or are being given it.
Engaged == holds \cup {w \in Workers : op[w].kind = "claim"}

Waiting == row.status \in {"none", "queued"}

\* An order is worked on by one worker, and by one more for every time its
\* claim was taken back or a response put it back into the queue: no two
\* callers of claim_task get the same claim.
HoldersBounded ==
    Cardinality(Engaged) <= row.retries + reopened + (IF Waiting THEN 0 ELSE 1)

\* A status that ends an order: list_unacknowledged_responses and the sweep
\* tell the others apart.
Closing(st) == st \notin {"none", "queued", "in_progress"}

\* An order that was answered for good stays answered, with that answer, until
\* another response is persisted: neither a sweep nor a claim, nor a call that
\* writes back what it had read before, makes it work to be done again; and
\* nothing but a response ends an order.
AnsweredSticks ==
    /\ Closing(said) => row.status = said
    /\ Closing(row.status) => row.status = said

\* "so the bridge can detect silent drop-off": a delivery acknowledgement
\* stands for the response that is in the row, or else
\* list_unacknowledged_responses would skip a response nobody has seen.
NoSilentDropOff == clean /\ row.meta.ack # 0 => row.meta.ack = row.resp

\* Once an order that was answered for good is at rest, the runtime store has
\* the outcome, for the claim and for the run, whatever came after the response.
RunSettled ==
    clean /\ Closing(row.status) /\ row.meta.ids # 0 /\ (\A a \in Clients : Free(a)) =>
        /\ claim[row.meta.ids] \in {"none"} \cup Outcomes(row.status)
        /\ run[row.meta.ids] \in {"none"} \cup Outcomes(row.status)

=============================================================================
