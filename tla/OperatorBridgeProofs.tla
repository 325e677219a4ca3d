------------------------ MODULE OperatorBridgeProofs ------------------------
(***************************************************************************)
(* Proofs about the queue of the operator bridge, for any workers, any     *)
(* statuses they answer with, and any number of answers, reports and       *)
(* faults.                                                                 *)
(***************************************************************************)
EXTENDS OperatorBridge, FiniteSetTheorems, TLAPS

USE DEF told

-----------------------------------------------------------------------------
(* The calls, the answers and the recoveries *)

\* What a call knows in each of its phases.
CallShape(o) ==
    /\ o.kind = "none" <=> o.pc = "idle"
    /\ o.pc \in {"ids", "readclaim", "readrun", "claim", "run"} => o.seen.ids # 0
    /\ o.pc = "ids" => o.kind = "claim"
    /\ o.pc = "send" => o.kind = "respond" /\ o.n # 0
    /\ o.pc = "write" => o.kind \notin {"claim", "recover"}
    /\ o.pc = "write2" => o.kind = "partial"
    /\ o.pc = "readclaim" => o.kind = "beat"
    /\ o.pc = "readrun" => o.kind \in {"partial", "ackresp"}
    /\ o.pc = "claim" => o.kind \notin {"partial", "ackresp"}
    /\ o.kind = "respond" /\ o.pc = "write" => o.st \in Answers
    /\ o.kind \in {"beat", "partial", "ackresp", "respond"} /\ o.pc \in {"claim", "run"} =>
          o.st \in MirrorStatus

\* Only workers claim, and a response is in the row from its first write on.
CallFits(a) ==
    /\ CallShape(op[a])
    /\ op[a].kind = "claim" => a \in Workers
    /\ op[a].kind = "respond" /\ op[a].pc # "write" => row.resp # 0

CallsFit == \A a \in Clients : CallFits(a)

\* The claimant has answered and is about to let the order go.
Answering(w) == op[w].kind = "respond" /\ op[w].pc # "write" /\ row.by = w

\* A fault or an answer stands behind every recovery, the one that is due or
\* will be due included: the claim timed out under its worker, or the worker is
\* gone, or it has answered that the order is in progress.
Charged ==
    /\ row.retries <= faults + answers
    /\ row.status = "in_progress" /\ (lapsed \/ Abandoned) => row.retries < faults + answers
    /\ \A w \in Workers : Answering(w) => row.retries < faults + answers

BridgeInv == TypeOK /\ CallsFit /\ AnsweredSticks /\ Charged /\ reopened <= answers

\* Call a becomes o and the other calls stay.
Becomes(a, o) == op'[a] = o /\ \A b \in Clients \ {a} : op'[b] = op[b]

CallOf(kind, pc, seen, n, st) == [kind |-> kind, pc |-> pc, seen |-> seen, n |-> n, st |-> st]

\* A call that is replaced leaves the other calls alone.
LEMMA Replaced ==
    ASSUME TypeOK, NEW a \in Clients, NEW o \in Call, op' = [op EXCEPT ![a] = o]
    PROVE  Becomes(a, o) /\ op' \in [Clients -> Call]
  BY DEF TypeOK, Becomes

\* The fields of a call.
LEMMA CallFields ==
    ASSUME NEW kind \in Kinds, NEW pc \in Phases, NEW seen \in Meta, NEW n \in 0..MaxAnswers,
           NEW st \in OrderStatus \cup MirrorStatus
    PROVE  LET o == CallOf(kind, pc, seen, n, st) IN
           /\ o \in Call
           /\ o.kind = kind /\ o.pc = pc /\ o.seen = seen /\ o.n = n /\ o.st = st
  BY DEF CallOf, Call

\* A call begins.
LEMMA Begins ==
    ASSUME TypeOK, NEW a \in Clients, NEW kind \in Kinds, NEW pc \in Phases, NEW seen \in Meta,
           NEW n \in 0..MaxAnswers, NEW st \in OrderStatus \cup MirrorStatus,
           Begin(a, kind, pc, seen, n, st)
    PROVE  /\ Becomes(a, CallOf(kind, pc, seen, n, st)) /\ op' \in [Clients -> Call]
           /\ clean' \in BOOLEAN
  <1>1. CallOf(kind, pc, seen, n, st) \in Call
    BY CallFields
  <1>2. op' = [op EXCEPT ![a] = CallOf(kind, pc, seen, n, st)]
    BY DEF Begin, CallOf
  <1>3. clean' \in BOOLEAN
    BY DEF Begin
  <1> QED
    BY <1>1, <1>2, <1>3, Replaced

\* A call goes on.
LEMMA Goes ==
    ASSUME TypeOK, NEW a \in Clients, NEW pc \in Phases, NEW seen \in Meta,
           NEW n \in 0..MaxAnswers, NEW st \in OrderStatus \cup MirrorStatus,
           Go(a, pc, seen, n, st)
    PROVE  Becomes(a, CallOf(op[a].kind, pc, seen, n, st)) /\ op' \in [Clients -> Call]
  <1>1. op[a] \in Call /\ op[a].kind \in Kinds
    BY DEF TypeOK, Call
  <1>2. CallOf(op[a].kind, pc, seen, n, st) \in Call
    BY <1>1, CallFields
  <1>3. [op[a] EXCEPT !.pc = pc, !.seen = seen, !.n = n, !.st = st]
           = CallOf(op[a].kind, pc, seen, n, st)
    <2> DEFINE e == [op[a] EXCEPT !.pc = pc, !.seen = seen, !.n = n, !.st = st]
    <2>1. e \in Call /\ e.kind = op[a].kind /\ e.pc = pc /\ e.seen = seen /\ e.n = n /\ e.st = st
      BY <1>1 DEF Call
    <2> HIDE DEF e
    <2>2. e = CallOf(e.kind, e.pc, e.seen, e.n, e.st)
      BY <2>1 DEF Call, CallOf
    <2> QED
      BY <2>1, <2>2 DEF e
  <1>4. op' = [op EXCEPT ![a] = CallOf(op[a].kind, pc, seen, n, st)]
    BY <1>3 DEF Go
  <1> QED
    BY <1>2, <1>4, Replaced

\* What nobody is in, and what nobody has read.
LEMMA IdleFacts ==
    /\ NoMeta \in Meta /\ Idle \in Call /\ CallShape(Idle) /\ Idle.kind = "none"
    /\ Idle = CallOf("none", "idle", NoMeta, 0, "none")
  <1>1. NoMeta \in Meta
    BY BridgeLimits DEF NoMeta, Meta, MaxRetries
  <1> QED
    BY <1>1, BridgeLimits DEF Idle, Call, CallShape, CallOf, Kinds, Phases, OrderStatus

\* A call ends.
LEMMA Ends ==
    ASSUME TypeOK, NEW a \in Clients, End(a)
    PROVE  Becomes(a, Idle) /\ op' \in [Clients -> Call]
  BY IdleFacts, Replaced DEF End

\* The calls fit after a step of one of them, if it fits and no response is
\* taken out of the row.
LEMMA CallsFitStep ==
    ASSUME CallsFit, NEW a \in Clients, NEW o, Becomes(a, o), CallShape(o),
           o.kind = "claim" => a \in Workers,
           o.kind = "respond" /\ o.pc # "write" => row'.resp # 0,
           row.resp # 0 => row'.resp # 0
    PROVE  CallsFit'
  <1> SUFFICES ASSUME NEW b \in Clients PROVE CallFits(b)'
    BY DEF CallsFit
  <1>1. CASE b = a
    BY <1>1 DEF Becomes, CallFits
  <1>2. CASE b # a
    BY <1>2 DEF Becomes, CallFits, CallsFit
  <1> QED
    BY <1>1, <1>2

\* The metadata is replaced.
LEMMA MetaWritten ==
    ASSUME row \in Row, NEW m \in Meta, row' = [row EXCEPT !.meta = m]
    PROVE  /\ row' \in Row /\ row'.meta = m
           /\ row'.status = row.status /\ row'.by = row.by
           /\ row'.retries = row.retries /\ row'.resp = row.resp
  BY DEF Row

\* Every recovery stays paid for when nobody new is gone.
LEMMA ChargedKept ==
    ASSUME Charged, row'.status = row.status, row'.retries = row.retries, lapsed' = lapsed,
           faults' = faults, answers' = answers, Abandoned' => Abandoned,
           \A w \in Workers : Answering(w)' => Answering(w)
    PROVE  Charged'
  BY DEF Charged

\* A new fault or a new answer pays for whatever is due.
LEMMA ChargedAnew ==
    ASSUME TypeOK, Charged, row'.retries = row.retries,
           faults' + answers' = faults + answers + 1
    PROVE  Charged'
  BY BridgeLimits DEF TypeOK, Row, Charged, MaxRetries

\* A worker is gone only when it stops claiming or holding.
LEMMA NobodyGone ==
    ASSUME row'.by = row.by, \A w \in Workers : w \in holds => w \in holds',
           row.by \in Workers \cup {None}, None \notin holds, holds \subseteq Workers,
           \A w \in Workers : op[w].kind = "claim" => op'[w].kind = "claim" \/ w \in holds'
    PROVE  Abandoned' => Abandoned
  BY DEF Abandoned

\* A step on which a call goes on.
LEMMA GoStep ==
    ASSUME BridgeInv, NEW a \in Clients, NEW pc \in Phases, NEW seen \in Meta,
           NEW n \in 0..MaxAnswers, NEW st \in OrderStatus \cup MirrorStatus,
           Go(a, pc, seen, n, st), CallShape(CallOf(op[a].kind, pc, seen, n, st)),
           op[a].kind = "respond" => row.resp # 0 /\ op[a].pc # "write",
           row' \in Row, row'.status = row.status, row'.by = row.by,
           row'.retries = row.retries, row'.resp # 0 <=> row.resp # 0,
           claim' \in [Ids -> MirrorStatus], run' \in [Ids -> MirrorStatus],
           UNCHANGED <<lapsed, holds, told, reports, clean, faults>>
    PROVE  BridgeInv'
  <1> DEFINE o == CallOf(op[a].kind, pc, seen, n, st)
  <1>1. TypeOK /\ CallsFit /\ AnsweredSticks /\ Charged
    BY DEF BridgeInv
  <1>2. op[a].kind \in Kinds
    BY <1>1 DEF TypeOK, Call
  <1>3. Becomes(a, o) /\ op' \in [Clients -> Call]
    BY <1>1, Goes
  <1>4. o.kind = op[a].kind /\ o.pc = pc
    BY <1>2, CallFields
  <1>5. CallsFit'
    <2>1. CallFits(a)
      BY <1>1 DEF CallsFit
    <2>2. /\ o.kind = "claim" => a \in Workers
          /\ o.kind = "respond" /\ o.pc # "write" => row'.resp # 0
      BY <2>1, <1>4 DEF CallFits
    <2> QED
      BY <1>1, <1>3, <2>2, CallsFitStep
  <1>6. Charged'
    <2>1. \A b \in Clients : op'[b].kind = op[b].kind
      BY <1>3, <1>4 DEF Becomes
    <2>2. Abandoned' => Abandoned
      BY <2>1, <1>1, NobodyGone, BridgeClients DEF TypeOK, Row, Clients
    <2>3. \A w \in Workers : Answering(w)' => Answering(w)
      BY <1>3, <1>4 DEF Becomes, Answering, Clients
    <2> QED
      BY <2>2, <2>3, <1>1, ChargedKept
  <1>7. TypeOK' /\ AnsweredSticks'
    BY <1>1, <1>3 DEF TypeOK, AnsweredSticks
  <1> QED
    BY <1>5, <1>6, <1>7 DEF BridgeInv

\* A step on which a call begins.
LEMMA BeginStep ==
    ASSUME BridgeInv, NEW a \in Clients, NEW kind \in Kinds, NEW pc \in Phases,
           NEW seen \in Meta, NEW n \in 0..MaxAnswers, NEW st \in OrderStatus \cup MirrorStatus,
           Free(a), Begin(a, kind, pc, seen, n, st), CallShape(CallOf(kind, pc, seen, n, st)),
           kind = "claim" => a \in Workers, kind = "respond" => pc = "write",
           row.resp # 0 => row'.resp # 0
    PROVE  /\ CallsFit' /\ op' \in [Clients -> Call] /\ clean' \in BOOLEAN
           /\ Becomes(a, CallOf(kind, pc, seen, n, st))
           /\ row'.by = row.by /\ holds' = holds =>
                 /\ Abandoned' => Abandoned
                 /\ \A w \in Workers : Answering(w)' => Answering(w)
  <1> DEFINE o == CallOf(kind, pc, seen, n, st)
  <1>1. TypeOK /\ CallsFit
    BY DEF BridgeInv
  <1>2. Becomes(a, o) /\ op' \in [Clients -> Call] /\ clean' \in BOOLEAN
    BY <1>1, Begins
  <1>3. o.kind = kind /\ o.pc = pc
    BY CallFields
  <1>4. CallsFit'
    BY <1>1, <1>2, <1>3, CallsFitStep
  <1>5. \A b \in Clients : op[b].kind = "claim" => op'[b].kind = "claim"
    BY <1>2 DEF Becomes, Free
  <1>6. ASSUME row'.by = row.by, holds' = holds PROVE Abandoned' => Abandoned
    BY <1>1, <1>5, <1>6, NobodyGone, BridgeClients DEF TypeOK, Row, Clients
  <1>7. ASSUME row'.by = row.by, NEW w \in Workers, Answering(w)' PROVE Answering(w)
    BY <1>2, <1>3, <1>7 DEF Becomes, Answering, Clients
  <1> QED
    BY <1>2, <1>4, <1>6, <1>7

\* A step on which a call ends.
LEMMA EndStep ==
    ASSUME BridgeInv, NEW a \in Clients, End(a), row'.resp = row.resp
    PROVE  CallsFit' /\ op' \in [Clients -> Call] /\ Becomes(a, Idle)
  <1>1. TypeOK /\ CallsFit
    BY DEF BridgeInv
  <1>2. Becomes(a, Idle) /\ op' \in [Clients -> Call]
    BY <1>1, Ends
  <1>3. CallsFit'
    BY <1>1, <1>2, IdleFacts, CallsFitStep
  <1> QED
    BY <1>2, <1>3

\* Nobody has called anything yet.
LEMMA BridgeInit == Init => BridgeInv
  <1> SUFFICES ASSUME Init PROVE BridgeInv
    OBVIOUS
  <1>1. row \in Row /\ row.status = "none" /\ row.resp = 0 /\ row.retries = 0
    BY IdleFacts, BridgeLimits DEF Init, NoOrder, Row, OrderStatus, MaxRetries
  <1>2. TypeOK
    <2>1. op \in [Clients -> Call]
      BY IdleFacts DEF Init
    <2>2. claim \in [Ids -> MirrorStatus] /\ run \in [Ids -> MirrorStatus]
      BY DEF Init, MirrorStatus
    <2>3. /\ answers \in 0..MaxAnswers /\ reopened \in 0..MaxAnswers
          /\ reports \in 0..MaxReports /\ faults \in 0..MaxFaults
      BY BridgeLimits DEF Init
    <2> QED
      BY <1>1, <2>1, <2>2, <2>3 DEF Init, TypeOK
  <1>3. CallsFit
    BY IdleFacts DEF Init, CallsFit, CallFits
  <1>4. AnsweredSticks /\ Charged /\ reopened <= answers
    BY <1>1, BridgeLimits, IdleFacts DEF Init, AnsweredSticks, Closing, Charged, Answering, Clients
  <1> QED
    BY <1>2, <1>3, <1>4 DEF BridgeInv

\* enqueue_task.
LEMMA EnqueueKeeps == ASSUME BridgeInv, Enqueue PROVE BridgeInv'
  <1>1. /\ row' \in Row /\ row'.status = "queued" /\ row'.by = row.by
        /\ row'.retries = row.retries /\ row'.resp = row.resp
    BY DEF BridgeInv, TypeOK, Row, Enqueue, OrderStatus
  <1>2. TypeOK'
    BY <1>1 DEF BridgeInv, TypeOK, Enqueue
  <1>3. CallsFit'
    BY <1>1 DEF BridgeInv, CallsFit, CallFits, Enqueue
  <1>4. AnsweredSticks' /\ Charged'
    BY <1>1 DEF BridgeInv, AnsweredSticks, Closing, Charged, Answering, Enqueue
  <1> QED
    BY <1>2, <1>3, <1>4 DEF BridgeInv, Enqueue

\* claim_task: the new claimant is there, so no recovery is due.
LEMMA ClaimKeeps == ASSUME BridgeInv, NEW w \in Workers, Claim(w) PROVE BridgeInv'
  <1> DEFINE first == row.meta.ids = 0
             pc == IF first THEN "ids" ELSE "claim"
             seen == IF first THEN [row.meta EXCEPT !.ids = row.retries + 1] ELSE row.meta
             o == CallOf("claim", pc, seen, 0, "none")
  <1>1. /\ row \in Row /\ row.meta \in Meta /\ row.retries \in 0..MaxRetries
        /\ MaxRetries \in Nat /\ MaxAnswers \in Nat /\ w \in Clients
    BY BridgeLimits DEF BridgeInv, TypeOK, Row, Clients, MaxRetries
  <1>2. seen \in Meta /\ seen.ids # 0
    BY <1>1 DEF Meta
  <1>3. /\ row' \in Row /\ row'.status = "in_progress" /\ row'.by = w
        /\ row'.retries = row.retries /\ row'.resp = row.resp
    BY <1>1 DEF Row, Claim, OrderStatus
  <1>4. pc \in Phases /\ "claim" \in Kinds /\ "none" \in OrderStatus /\ 0 \in 0..MaxAnswers
    BY <1>1 DEF Phases, Kinds, OrderStatus
  <1>5. CallShape(o)
    BY <1>2 DEF CallOf, CallShape
  <1>6. Free(w) /\ Begin(w, "claim", pc, seen, 0, "none")
    BY DEF Claim
  <1> HIDE DEF pc, seen
  <1>7. CallsFit' /\ op' \in [Clients -> Call] /\ clean' \in BOOLEAN /\ Becomes(w, o)
    BY <1>1, <1>2, <1>3, <1>4, <1>5, <1>6, BeginStep
  <1>8. TypeOK'
    BY <1>3, <1>7 DEF BridgeInv, TypeOK, Claim
  <1>9. ~Abandoned'
    BY <1>3, <1>7 DEF Abandoned, Becomes, CallOf
  <1>10. AnsweredSticks'
    BY <1>3 DEF BridgeInv, AnsweredSticks, Closing, Claim
  <1>11. Charged'
    <2>1. \A v \in Workers : ~Answering(v)'
      BY <1>3, <1>7 DEF Answering, Becomes, CallOf
    <2> QED
      BY <1>3, <1>9, <2>1 DEF BridgeInv, Charged, Claim
  <1> QED
    BY <1>7, <1>8, <1>10, <1>11 DEF BridgeInv, Claim

\* recover_stale_tasks: the fault or the answer behind it was counted when the
\* claim timed out, or when its worker went.
LEMMA RecoverKeeps == ASSUME BridgeInv, Recover PROVE BridgeInv'
  <1> DEFINE o == CallOf("recover", "reread", NoMeta, 0, "none")
  <1>1. /\ row \in Row /\ row.retries < faults + answers
        /\ faults \in 0..MaxFaults /\ answers \in 0..MaxAnswers
        /\ MaxFaults \in Nat /\ MaxAnswers \in Nat
    <2>1. Stale => lapsed \/ Abandoned
      BY BridgeClients DEF Stale, Abandoned, BridgeInv, TypeOK
    <2> QED
      BY <2>1, BridgeLimits DEF BridgeInv, TypeOK, Charged, Recover
  <1>2. /\ row' \in Row /\ row'.status = "queued" /\ row'.by = None
        /\ row'.retries = row.retries + 1 /\ row'.resp = row.resp
    <2>1. row.retries + 1 \in 0..MaxRetries
      BY <1>1 DEF Row, MaxRetries
    <2>2. row' = [row EXCEPT !.status = "queued", !.by = None, !.retries = row.retries + 1]
      BY <1>1 DEF Recover, Row
    <2> QED
      BY <1>1, <2>1, <2>2 DEF Row, OrderStatus
  <1>3. /\ "reread" \in Phases /\ "recover" \in Kinds /\ "none" \in OrderStatus
        /\ 0 \in 0..MaxAnswers /\ Sweeper \in Clients
    BY BridgeLimits DEF Phases, Kinds, OrderStatus, Clients
  <1>4. CallShape(o)
    BY DEF CallOf, CallShape
  <1>5. Free(Sweeper) /\ Begin(Sweeper, "recover", "reread", NoMeta, 0, "none")
    BY DEF Recover
  <1>6. CallsFit' /\ op' \in [Clients -> Call] /\ clean' \in BOOLEAN
    BY <1>2, <1>3, <1>4, <1>5, IdleFacts, BeginStep
  <1>7. TypeOK'
    BY <1>2, <1>6 DEF BridgeInv, TypeOK, Recover
  <1>8. AnsweredSticks'
    BY <1>2 DEF BridgeInv, AnsweredSticks, Closing, Recover
  <1>9. Charged'
    BY <1>1, <1>2, BridgeClients DEF Charged, Answering, Recover, Row
  <1> QED
    BY <1>6, <1>7, <1>8, <1>9 DEF BridgeInv, Recover

\* Calls that begin by reading the row.
LEMMA ReadKeeps ==
    ASSUME BridgeInv, NEW a \in Clients,
           NEW kind \in {"accept", "beat", "partial", "respond", "ackresp"},
           NEW n \in 0..MaxAnswers, NEW st \in {"none"} \cup Answers,
           kind = "respond" => st \in Answers,
           Free(a), Begin(a, kind, "write", row.meta, n, st), reports' \in 0..MaxReports,
           UNCHANGED <<row, lapsed, claim, run, holds, told, faults>>
    PROVE  BridgeInv'
  <1> DEFINE o == CallOf(kind, "write", row.meta, n, st)
  <1>1. row \in Row /\ row.meta \in Meta
    BY DEF BridgeInv, TypeOK, Row
  <1>2. "write" \in Phases /\ kind \in Kinds /\ st \in OrderStatus
    BY DEF Phases, Kinds, OrderStatus
  <1>3. CallShape(o)
    BY DEF CallOf, CallShape
  <1>4. /\ CallsFit' /\ op' \in [Clients -> Call] /\ clean' \in BOOLEAN
        /\ Abandoned' => Abandoned
        /\ \A w \in Workers : Answering(w)' => Answering(w)
    BY <1>1, <1>2, <1>3, BeginStep
  <1>5. TypeOK' /\ AnsweredSticks'
    BY <1>4 DEF BridgeInv, TypeOK, AnsweredSticks
  <1>6. Charged'
    BY <1>4, ChargedKept DEF BridgeInv
  <1> QED
    BY <1>4, <1>5, <1>6 DEF BridgeInv

\* acknowledge_task_claim, heartbeat_task, record_partial_artifact,
\* respond_task and acknowledge_response.
LEMMA BeginningsKeep ==
    ASSUME BridgeInv,
           \/ AckResponse
           \/ \E w \in Workers : Partial(w) \/ Respond(w)
           \/ \E w \in Workers : \E kind \in {"accept", "beat"} : Report(w, kind)
    PROVE  BridgeInv'
  <1>1. /\ 0 \in 0..MaxAnswers /\ row.resp \in 0..MaxAnswers /\ Operator \in Clients
        /\ Workers \subseteq Clients /\ reports \in 0..MaxReports
    BY BridgeLimits DEF BridgeInv, TypeOK, Row, Clients
  <1>2. Counted => reports' \in 0..MaxReports
    BY <1>1, BridgeLimits DEF Counted
  <1>3. CASE AckResponse
    BY <1>1, <1>2, <1>3, ReadKeeps DEF AckResponse
  <1>4. ASSUME NEW w \in Workers, Partial(w) PROVE BridgeInv'
    BY <1>1, <1>2, <1>4, ReadKeeps DEF Partial
  <1>5. ASSUME NEW w \in Workers, Respond(w) PROVE BridgeInv'
    <2> PICK st \in Answers : Begin(w, "respond", "write", row.meta, 0, st)
      BY <1>5 DEF Respond
    <2>1. reports' \in 0..MaxReports
      BY <1>1, <1>5 DEF Respond
    <2> QED
      BY <1>1, <1>5, <2>1, ReadKeeps DEF Respond
  <1>6. ASSUME NEW w \in Workers, NEW kind \in {"accept", "beat"}, Report(w, kind)
        PROVE  BridgeInv'
    BY <1>1, <1>2, <1>6, ReadKeeps DEF Report
  <1> QED
    BY <1>3, <1>4, <1>5, <1>6

\* What is known of a call, and of what it may write, before each step.
LEMMA CallKnown ==
    ASSUME BridgeInv, NEW a \in Clients
    PROVE  /\ op[a] \in Call /\ CallFits(a) /\ CallShape(op[a])
           /\ op[a].seen \in Meta /\ op[a].n \in 0..MaxAnswers /\ op[a].kind \in Kinds
           /\ op[a].st \in OrderStatus \cup MirrorStatus
           /\ row \in Row /\ row.meta \in Meta /\ row.status \in OrderStatus
           /\ row.resp \in 0..MaxAnswers /\ 0 \in 0..MaxAnswers
           /\ "none" \in OrderStatus \cup MirrorStatus
           /\ claim \in [Ids -> MirrorStatus] /\ run \in [Ids -> MirrorStatus]
  BY BridgeLimits DEF BridgeInv, TypeOK, CallsFit, CallFits, Call, Row, OrderStatus

\* The ids a claim made up are written to the row.
LEMMA SetIdsKeeps == ASSUME BridgeInv, NEW a \in Clients, SetIds(a) PROVE BridgeInv'
  <1>1. op[a].kind = "claim" /\ op[a].seen.ids # 0
    BY CallKnown DEF SetIds, CallShape
  <1>2. CallShape(CallOf(op[a].kind, "claim", op[a].seen, 0, "none"))
    BY <1>1 DEF CallOf, CallShape
  <1>3. row' \in Row /\ row'.status = row.status /\ row'.by = row.by
           /\ row'.retries = row.retries /\ row'.resp = row.resp
    BY CallKnown, MetaWritten DEF SetIds
  <1> QED
    BY <1>1, <1>2, <1>3, CallKnown, GoStep DEF SetIds, Phases

\* What _set_metadata writes.
Written(o) ==
    CASE o.kind = "accept" -> [o.seen EXCEPT !.claimAck = TRUE]
      [] o.kind = "ackresp" -> [o.seen EXCEPT !.ack = o.n]
      [] OTHER -> o.seen

\* It keeps the ids, and the acknowledgement but for acknowledge_response.
LEMMA WrittenMeta ==
    ASSUME NEW o, o.seen \in Meta, o.n \in 0..MaxAnswers
    PROVE  /\ Written(o) \in Meta /\ Written(o).ids = o.seen.ids
           /\ o.kind # "ackresp" => Written(o).ack = o.seen.ack
           /\ o.kind = "ackresp" => Written(o).ack = o.n
  BY DEF Written, Meta

\* _set_metadata leaves the answer and the claim alone.
LEMMA WriteMetaKeeps == ASSUME BridgeInv, NEW a \in Clients, WriteMeta(a) PROVE BridgeInv'
  <1>1. op[a].kind \notin {"none", "claim", "respond"}
    BY CallKnown DEF WriteMeta, CallShape
  <1>2. CallShape(CallOf(op[a].kind, "reread", NoMeta, 0, "none"))
    BY <1>1 DEF CallOf, CallShape
  <1>3. row' = [row EXCEPT !.meta = Written(op[a])]
    BY DEF WriteMeta, Written
  <1>4. row' \in Row /\ row'.status = row.status /\ row'.by = row.by
           /\ row'.retries = row.retries /\ row'.resp = row.resp
    BY <1>3, CallKnown, WrittenMeta, MetaWritten
  <1> QED
    BY <1>1, <1>2, <1>4, CallKnown, IdleFacts, GoStep DEF WriteMeta, Phases

\* _persist_response: the answer pays for the recovery it may make due.
LEMMA ResponseWritten ==
    ASSUME BridgeInv, NEW a \in Clients, WriteResponse(a)
    PROVE  /\ BridgeInv' /\ row'.meta = [op[a].seen EXCEPT !.ack = 0]
           /\ row'.resp = answers + 1 /\ row'.status = op[a].st
           /\ Becomes(a, CallOf("respond", "send", NoMeta, answers + 1, "none"))
  <1> DEFINE o == CallOf("respond", "send", NoMeta, answers + 1, "none")
             m == [op[a].seen EXCEPT !.ack = 0]
  <1>1. op[a].st \in Answers /\ op[a].kind = "respond"
    BY CallKnown DEF WriteResponse, CallShape
  <1>2. /\ answers + 1 \in 0..MaxAnswers /\ answers + 1 # 0 /\ answers' = answers + 1
        /\ reopened' \in 0..MaxAnswers /\ reopened' <= answers' /\ said' = op[a].st
    BY BridgeLimits DEF BridgeInv, TypeOK, WriteResponse, Persisted
  <1>3. m \in Meta
    BY CallKnown DEF Meta
  <1>4. row' = [row EXCEPT !.status = op[a].st, !.resp = answers + 1, !.meta = m]
    BY DEF WriteResponse
  <1> HIDE DEF m
  <1>5. /\ row' \in Row /\ row'.status = op[a].st /\ row'.by = row.by /\ row'.meta = m
        /\ row'.retries = row.retries /\ row'.resp = answers + 1
    BY <1>1, <1>2, <1>3, <1>4, CallKnown DEF Row, OrderStatus
  <1>6. /\ Becomes(a, o) /\ op' \in [Clients -> Call]
        /\ o.kind = "respond" /\ o.pc = "send" /\ o.n = answers + 1
    BY <1>1, <1>2, CallKnown, IdleFacts, Goes, CallFields
       DEF WriteResponse, BridgeInv, Phases, Kinds
  <1>7. CallsFit'
    <2>1. CallShape(o)
      BY <1>2, <1>6 DEF CallShape
    <2> QED
      BY <1>2, <1>5, <1>6, <2>1, CallsFitStep DEF BridgeInv
  <1>8. TypeOK'
    BY <1>1, <1>2, <1>5, <1>6 DEF BridgeInv, TypeOK, WriteResponse
  <1>9. AnsweredSticks'
    BY <1>2, <1>5 DEF AnsweredSticks
  <1>10. Charged'
    <2>1. faults' = faults /\ faults \in 0..MaxFaults /\ answers \in 0..MaxAnswers
      BY DEF WriteResponse, BridgeInv, TypeOK
    <2> QED
      BY <1>2, <1>5, <2>1, BridgeLimits, ChargedAnew DEF BridgeInv
  <1> QED
    BY <1>2, <1>5, <1>6, <1>7, <1>8, <1>9, <1>10 DEF BridgeInv, m

\* The response is written again, or not at all.
LEMMA SendResponseKeeps == ASSUME BridgeInv, NEW a \in Clients, SendResponse(a) PROVE BridgeInv'
  <1>1. op[a].kind = "respond" /\ op[a].n # 0 /\ row.resp # 0
    BY CallKnown DEF SendResponse, CallShape, CallFits
  <1>2. CallShape(CallOf(op[a].kind, "reread", NoMeta, 0, "none"))
    BY <1>1 DEF CallOf, CallShape
  <1>3. row' \in Row /\ row'.status = row.status /\ row'.by = row.by
           /\ row'.retries = row.retries /\ row'.resp # 0
    BY <1>1, CallKnown DEF SendResponse, Row
  <1> QED
    BY <1>1, <1>2, <1>3, CallKnown, IdleFacts, GoStep DEF SendResponse, Phases

\* A call that ends as its worker expects leaves the claim with its worker,
\* or else it was its answer.
LEMMA EndedKeeps ==
    ASSUME BridgeInv, NEW a \in Clients, Ended(a),
           op[a].kind = "respond" => row.resp # 0 /\ op[a].pc # "write",
           row' \in Row, row'.status = row.status, row'.by = row.by,
           row'.retries = row.retries, row'.resp = row.resp,
           run' \in [Ids -> MirrorStatus],
           UNCHANGED <<lapsed, claim, told, reports, clean, faults>>
    PROVE  BridgeInv'
  <1>1. CallsFit' /\ op' \in [Clients -> Call] /\ Becomes(a, Idle)
    BY EndStep DEF Ended
  <1>2. holds' \in SUBSET Workers
    BY CallKnown DEF BridgeInv, TypeOK, Ended, CallFits
  <1>3. TypeOK' /\ AnsweredSticks'
    BY <1>1, <1>2 DEF BridgeInv, TypeOK, AnsweredSticks
  <1>4. Charged'
    <2>0. /\ \A w \in Workers : Answering(w)' => Answering(w)
          /\ row.by \in Workers \cup {None} /\ None \notin holds /\ holds \subseteq Workers
      BY <1>1, IdleFacts, BridgeClients DEF Becomes, Answering, Clients, BridgeInv, TypeOK, Row
    <2>1. CASE a \in Workers /\ Answering(a)
      BY <2>1 DEF BridgeInv, Charged
    <2>2. CASE ~(a \in Workers /\ Answering(a))
      <3>1. a \in Workers /\ op[a].kind = "respond" => row.by # a
        BY <2>2 DEF Answering
      <3>2. op[a].kind = "claim" => a \in holds'
        BY DEF Ended
      <3>3. \A w \in Workers : w \in holds /\ w = row.by => w \in holds'
        BY <3>1 DEF Ended
      <3>4. Abandoned' => Abandoned
        BY <1>1, <2>0, <3>2, <3>3, BridgeClients DEF Becomes, Abandoned, Clients
      <3> QED
        BY <2>0, <3>4, ChargedKept DEF BridgeInv
    <2> QED
      BY <2>1, <2>2
  <1> QED
    BY <1>1, <1>3, <1>4 DEF BridgeInv

\* The identifiers alone.
LEMMA OnlyIdsMeta ==
    ASSUME NEW m \in Meta
    PROVE  OnlyIds(m) \in Meta /\ OnlyIds(m).ids = m.ids /\ OnlyIds(m).ack = 0
  <1>1. NoMeta \in Meta /\ NoMeta.ack = 0
    BY IdleFacts DEF NoMeta
  <1> QED
    BY <1>1 DEF OnlyIds, Meta

\* Whatever status a response has left, the outcome is one of the runtime store.
LEMMA OutcomeStatus == \A st \in OrderStatus : Outcomes(st) \subseteq MirrorStatus
  BY DEF OrderStatus, Outcomes, MirrorStatus

\* get_task: each call goes on with what its next phase needs.
LEMMA RereadKeeps == ASSUME BridgeInv, NEW a \in Clients, Reread(a) PROVE BridgeInv'
  <1> DEFINE ids == OnlyIds(row.meta)
             kept == [row.meta EXCEPT !.ack = 0]
  <1>1. /\ op[a].pc = "reread" /\ op[a].kind # "none"
        /\ UNCHANGED <<row, lapsed, claim, run, told, reports, clean, faults>>
    BY CallKnown DEF Reread, CallShape
  <1>2. op[a].kind = "respond" => row.resp # 0 /\ Outcomes(row.status) \subseteq MirrorStatus
    BY <1>1, CallKnown, OutcomeStatus DEF CallFits, Row, BridgeInv, TypeOK
  <1>3. ids \in Meta /\ kept \in Meta /\ ids.ids = row.meta.ids /\ kept.ids = row.meta.ids
    BY CallKnown, OnlyIdsMeta DEF Meta
  <1>g. ASSUME NEW pc \in Phases, NEW seen \in Meta, NEW st \in OrderStatus \cup MirrorStatus,
               Go(a, pc, seen, 0, st), CallShape(CallOf(op[a].kind, pc, seen, 0, st)),
               UNCHANGED holds
        PROVE  BridgeInv'
    BY <1>1, <1>2, <1>g, CallKnown, GoStep
  <1> HIDE DEF ids, kept
  <1>4. CASE op[a].kind # "partial" /\ row.meta.ids = 0 /\ Ended(a)
    BY <1>1, <1>2, <1>4, CallKnown, EndedKeeps
  <1>5. CASE op[a].kind = "partial" /\ Go(a, "write2", row.meta, 0, "none") /\ UNCHANGED holds
    <2>1. CallShape(CallOf(op[a].kind, "write2", row.meta, 0, "none"))
      BY <1>5 DEF CallOf, CallShape
    <2> QED
      BY <1>g, <1>5, <2>1, CallKnown DEF Phases
  <1>6. CASE row.meta.ids # 0 /\ UNCHANGED holds
    <2>1. CASE op[a].kind = "ackresp" /\ Go(a, "readrun", ids, 0, "none")
      <3>1. CallShape(CallOf(op[a].kind, "readrun", ids, 0, "none"))
        BY <2>1, <1>3, <1>6 DEF CallOf, CallShape
      <3> QED
        BY <1>g, <1>6, <2>1, <3>1, <1>3, CallKnown DEF Phases
    <2>2. CASE op[a].kind = "beat" /\ Go(a, "readclaim", kept, 0, "none")
      <3>1. CallShape(CallOf(op[a].kind, "readclaim", kept, 0, "none"))
        BY <2>2, <1>3, <1>6 DEF CallOf, CallShape
      <3> QED
        BY <1>g, <1>6, <2>2, <3>1, <1>3, CallKnown DEF Phases
    <2>3. ASSUME op[a].kind = "respond", NEW st \in Outcomes(row.status), Go(a, "claim", ids, 0, st)
          PROVE  BridgeInv'
      <3>1. CallShape(CallOf(op[a].kind, "claim", ids, 0, st))
        BY <2>3, <1>2, <1>3, <1>6 DEF CallOf, CallShape
      <3>2. st \in MirrorStatus
        BY <2>3, <1>2
      <3> QED
        BY <1>g, <1>6, <2>3, <3>1, <3>2, <1>3, CallKnown DEF Phases
    <2>4. CASE op[a].kind \in {"accept", "recover"} /\ Go(a, "claim", ids, 0, "none")
      <3>1. CallShape(CallOf(op[a].kind, "claim", ids, 0, "none"))
        BY <2>4, <1>1, <1>3, <1>6 DEF CallOf, CallShape
      <3> QED
        BY <1>g, <1>6, <2>4, <3>1, <1>3, CallKnown DEF Phases
    <2>5. CASE op[a].kind = "partial"
      BY <1>5, <2>5, <1>6 DEF Reread
    <2> QED
      BY <1>1, <1>4, <1>5, <1>6, <2>1, <2>2, <2>3, <2>4, <2>5 DEF Reread, ids, kept
  <1> QED
    BY <1>1, <1>4, <1>5, <1>6 DEF Reread

\* The second write of record_partial_artifact.
LEMMA WriteArtifactKeeps == ASSUME BridgeInv, NEW a \in Clients, WriteArtifact(a) PROVE BridgeInv'
  <1>1. op[a].kind = "partial"
    BY CallKnown DEF WriteArtifact, CallShape
  <1>2. /\ row' \in Row /\ row'.status = row.status /\ row'.by = row.by
        /\ row'.retries = row.retries /\ row'.resp = row.resp
    BY CallKnown, MetaWritten DEF WriteArtifact
  <1>3. CASE op[a].seen.ids = 0
    BY <1>1, <1>2, <1>3, CallKnown, EndedKeeps DEF WriteArtifact
  <1>4. CASE op[a].seen.ids # 0
    <2>1. OnlyIds(op[a].seen) \in Meta /\ OnlyIds(op[a].seen).ids # 0
      BY <1>4, CallKnown, OnlyIdsMeta
    <2>2. CallShape(CallOf(op[a].kind, "readrun", OnlyIds(op[a].seen), 0, "none"))
      BY <1>1, <2>1 DEF CallOf, CallShape
    <2> QED
      BY <1>1, <1>2, <1>4, <2>1, <2>2, CallKnown, GoStep DEF WriteArtifact, Phases
  <1> QED
    BY <1>3, <1>4

\* The status that will be written back is one of the runtime store.
LEMMA ReadMirrorKeeps == ASSUME BridgeInv, NEW a \in Clients, ReadMirror(a) PROVE BridgeInv'
  <1> DEFINE i == op[a].seen.ids
             ack == IF op[a].seen.claimAck THEN "acknowledged" ELSE claim[i]
  <1>1. op[a].pc \in {"readclaim", "readrun"} /\ i \in Ids
        /\ UNCHANGED <<row, lapsed, claim, run, holds, told, reports, clean, faults>>
    BY CallKnown, BridgeLimits DEF ReadMirror, CallShape, Meta, Ids, MaxRetries
  <1>2. ack \in MirrorStatus /\ run[i] \in MirrorStatus
    BY <1>1, CallKnown DEF MirrorStatus
  <1>3. OnlyIds(op[a].seen) \in Meta /\ OnlyIds(op[a].seen).ids # 0
    BY <1>1, CallKnown, OnlyIdsMeta DEF CallShape
  <1> HIDE DEF ack
  <1>4. CASE op[a].pc = "readclaim" /\ Go(a, "claim", OnlyIds(op[a].seen), 0, ack)
    <2>1. op[a].kind = "beat"
      BY <1>4, CallKnown DEF CallShape
    <2>2. CallShape(CallOf(op[a].kind, "claim", OnlyIds(op[a].seen), 0, ack))
      BY <1>2, <1>3, <2>1 DEF CallOf, CallShape
    <2> QED
      BY <1>1, <1>2, <1>3, <1>4, <2>1, <2>2, CallKnown, GoStep DEF Phases
  <1>5. CASE op[a].pc = "readrun" /\ Go(a, "run", op[a].seen, 0, run[i])
    <2>1. op[a].kind \in {"partial", "ackresp"} /\ op[a].seen.ids # 0
      BY <1>5, CallKnown DEF CallShape
    <2>2. CallShape(CallOf(op[a].kind, "run", op[a].seen, 0, run[i]))
      BY <1>2, <2>1 DEF CallOf, CallShape
    <2> QED
      BY <1>1, <1>2, <1>5, <2>1, <2>2, CallKnown, GoStep DEF Phases
  <1> QED
    BY <1>4, <1>5 DEF ReadMirror, ack

\* What is mirrored is a status of the runtime store.
LEMMA MirroredStatus ==
    ASSUME NEW o, CallShape(o), o.kind \in Kinds
    PROVE  /\ o.pc = "claim" => ClaimStatus(o) \in MirrorStatus
           /\ o.pc = "run" => RunStatus(o) \in MirrorStatus
           /\ o.kind = "respond" => ClaimStatus(o) = o.st /\ RunStatus(o) = o.st
           /\ o.kind \in {"partial", "ackresp"} => RunStatus(o) = o.st
  <1>1. CASE o.kind = "respond"
    BY <1>1 DEF CallShape, ClaimStatus, RunStatus, MirrorStatus
  <1>2. CASE o.kind \in {"claim", "accept", "recover"}
    BY <1>2 DEF ClaimStatus, RunStatus, MirrorStatus
  <1>3. CASE o.kind \in {"beat", "partial", "ackresp"}
    BY <1>3 DEF CallShape, ClaimStatus, RunStatus, MirrorStatus
  <1>4. CASE o.kind = "none"
    BY <1>4 DEF CallShape
  <1> QED
    BY <1>1, <1>2, <1>3, <1>4 DEF Kinds

\* The claim's mirror; a call that raises here leaves the worker its order.
LEMMA MirrorClaimKeeps == ASSUME BridgeInv, NEW a \in Clients, MirrorClaim(a) PROVE BridgeInv'
  <1> DEFINE i == op[a].seen.ids
             s == OnlyIds(op[a].seen)
  <1>1. /\ op[a].pc = "claim" /\ op[a].kind # "none" /\ i # 0
        /\ UNCHANGED <<row, lapsed, run, holds, told, reports, clean, faults>>
    BY CallKnown DEF MirrorClaim, CallShape
  <1>2. s \in Meta /\ s.ids # 0
    BY <1>1, CallKnown, OnlyIdsMeta
  <1>3. op[a].kind = "respond" => row.resp # 0
    BY <1>1, CallKnown DEF CallFits
  <1>4. claim' \in [Ids -> MirrorStatus]
    BY <1>1, CallKnown, MirroredStatus DEF MirrorClaim
  <1>5. CASE Go(a, "run", s, 0, op[a].st)
    <2>1. CallShape(CallOf(op[a].kind, "run", s, 0, op[a].st))
      BY <1>1, <1>2, CallKnown DEF CallOf, CallShape
    <2> QED
      BY <1>1, <1>2, <1>3, <1>4, <1>5, <2>1, CallKnown, GoStep DEF Phases
  <1>6. CASE op[a].kind \in {"accept", "beat"} /\ End(a)
    <2>1. CallsFit' /\ op' \in [Clients -> Call] /\ Becomes(a, Idle)
      BY <1>1, <1>6, EndStep
    <2>2. TypeOK' /\ AnsweredSticks'
      BY <1>1, <1>4, <2>1 DEF BridgeInv, TypeOK, AnsweredSticks
    <2>3. \A w \in Workers : op[w].kind = "claim" => op'[w].kind = "claim"
      BY <1>6, <2>1 DEF Becomes, Clients
    <2>4. Abandoned' => Abandoned
      BY <1>1, <2>3, NobodyGone, BridgeClients DEF BridgeInv, TypeOK, Row
    <2>5. \A w \in Workers : Answering(w)' => Answering(w)
      BY <1>1, <2>1, IdleFacts DEF Becomes, Answering, Clients
    <2>6. Charged'
      BY <1>1, <2>4, <2>5, ChargedKept DEF BridgeInv
    <2> QED
      BY <1>1, <2>1, <2>2, <2>6 DEF BridgeInv
  <1> QED
    BY <1>5, <1>6 DEF MirrorClaim

\* The run's mirror, with which a call returns.
LEMMA MirrorRunKeeps == ASSUME BridgeInv, NEW a \in Clients, MirrorRun(a) PROVE BridgeInv'
  <1>1. op[a].pc = "run" /\ run' \in [Ids -> MirrorStatus]
    BY CallKnown, MirroredStatus DEF MirrorRun
  <1>2. op[a].kind = "respond" => row.resp # 0 /\ op[a].pc # "write"
    BY <1>1, CallKnown DEF CallFits
  <1> QED
    BY <1>1, <1>2, CallKnown, EndedKeeps DEF MirrorRun

\* A call is cut short, with its worker or without: a fault is counted.
LEMMA CutShortKeeps ==
    ASSUME BridgeInv, NEW a \in Clients, Raise(a) \/ (a \in Workers /\ Crash(a))
    PROVE  BridgeInv'
  <1>1. /\ End(a) /\ Fault /\ holds' \in SUBSET Workers /\ clean' \in BOOLEAN
        /\ UNCHANGED <<row, lapsed, claim, run, told, reports>>
    BY DEF BridgeInv, TypeOK, Raise, Crash
  <1>2. CallsFit' /\ op' \in [Clients -> Call]
    BY <1>1, EndStep
  <1>3. faults' \in 0..MaxFaults /\ faults' = faults + 1 /\ faults \in 0..MaxFaults
    BY <1>1, BridgeLimits DEF Fault, BridgeInv, TypeOK
  <1>4. TypeOK' /\ AnsweredSticks'
    BY <1>1, <1>2, <1>3 DEF BridgeInv, TypeOK, AnsweredSticks
  <1>5. Charged'
    <2>1. faults' + answers' = faults + answers + 1
      BY <1>1, <1>3, BridgeLimits DEF BridgeInv, TypeOK
    <2> QED
      BY <1>1, <2>1, ChargedAnew DEF BridgeInv
  <1> QED
    BY <1>1, <1>2, <1>4, <1>5 DEF BridgeInv

\* The claim times out: of a worker that is gone, or else it is a fault.
LEMMA LapseKeeps == ASSUME BridgeInv, Lapse PROVE BridgeInv'
  <1>1. /\ faults' \in 0..MaxFaults /\ faults \in 0..MaxFaults /\ faults <= faults'
        /\ ~Abandoned => faults < faults'
    BY BridgeLimits DEF BridgeInv, TypeOK, Lapse, Fault
  <1>2. TypeOK' /\ AnsweredSticks' /\ CallsFit'
    BY <1>1 DEF BridgeInv, TypeOK, AnsweredSticks, CallsFit, CallFits, Lapse
  <1>3. Charged'
    <2>1. CASE Abandoned
      BY <1>1, <2>1, BridgeLimits
         DEF BridgeInv, TypeOK, Row, Charged, Lapse, Answering, Abandoned, MaxRetries
    <2>2. CASE ~Abandoned
      <3>1. faults' + answers' = faults + answers + 1 /\ row' = row
        BY <2>2, BridgeLimits DEF BridgeInv, TypeOK, Lapse, Fault
      <3> QED
        BY <3>1, ChargedAnew DEF BridgeInv
    <2> QED
      BY <2>1, <2>2
  <1> QED
    BY <1>2, <1>3 DEF BridgeInv, Lapse

\* Every step keeps the invariant.
LEMMA BridgeNext == BridgeInv /\ [Next]_vars => BridgeInv'
  <1> SUFFICES ASSUME BridgeInv, [Next]_vars PROVE BridgeInv'
    OBVIOUS
  <1>1. CASE Enqueue \/ Recover \/ Lapse
    BY <1>1, EnqueueKeeps, RecoverKeeps, LapseKeeps
  <1>2. CASE \/ AckResponse \/ \E w \in Workers : Partial(w) \/ Respond(w)
             \/ \E w \in Workers : \E kind \in {"accept", "beat"} : Report(w, kind)
    BY <1>2, BeginningsKeep
  <1>3. ASSUME NEW w \in Workers, Claim(w) \/ Crash(w) PROVE BridgeInv'
    BY <1>3, ClaimKeeps, CutShortKeeps DEF Clients
  <1>4. ASSUME NEW a \in Clients, CallStep(a) \/ Raise(a) PROVE BridgeInv'
    BY <1>4, SetIdsKeeps, WriteMetaKeeps, ResponseWritten, SendResponseKeeps, RereadKeeps,
       WriteArtifactKeeps, ReadMirrorKeeps, MirrorClaimKeeps, MirrorRunKeeps, CutShortKeeps
       DEF CallStep
  <1>5. CASE UNCHANGED vars
    BY <1>5 DEF vars, BridgeInv, TypeOK, CallsFit, CallFits, AnsweredSticks, Charged, Abandoned,
       Answering
  <1> QED
    BY <1>1, <1>2, <1>3, <1>4, <1>5 DEF Next

\* The invariant holds.
THEOREM BridgeInvHolds == Spec => []BridgeInv
  BY BridgeInit, BridgeNext, PTL DEF Spec

\* Every variable keeps its type: no more claims are recovered than there
\* were faults and answers, and the mirror gets statuses of the runtime store
\* and those that _runtime_completion_status does not know.
THEOREM TypeCorrect == Spec => []TypeOK
  BY BridgeInvHolds, PTL DEF BridgeInv

\* Whatever statuses workers answer with, an order that was answered for good
\* stays answered, whoever sweeps, claims or writes back what it had read before.
THEOREM AnsweredSticksHolds == Spec => []AnsweredSticks
  BY BridgeInvHolds, PTL DEF BridgeInv

-----------------------------------------------------------------------------
(* The workers on an order *)

\* How many workers may be on the order.
Allowed == row.retries + reopened + (IF Waiting THEN 0 ELSE 1)

HoldersInv == IsFiniteSet(Engaged) /\ Cardinality(Engaged) <= Allowed

\* No call changes its kind when it goes on.
LEMMA GoKind ==
    ASSUME TypeOK, NEW a \in Clients, NEW pc, NEW seen, NEW n, NEW st, Go(a, pc, seen, n, st)
    PROVE  \A b \in Clients : op'[b].kind = op[b].kind
  BY DEF TypeOK, Go, Call

\* Nor does another call when one ends.
LEMMA EndKind ==
    ASSUME TypeOK, NEW a \in Clients, End(a)
    PROVE  \A b \in Clients : op'[b].kind \in {op[b].kind, "none"}
  BY DEF TypeOK, End, Idle

\* A call that goes on or ends brings no other worker to the order.
LEMMA CallStepEngages ==
    ASSUME BridgeInv, NEW a \in Clients, CallStep(a)
    PROVE  Engaged' \subseteq Engaged
  <1>1. TypeOK
    BY DEF BridgeInv
  <1>2. op[a].kind = "claim" => a \in Workers
    BY CallKnown DEF CallFits
  <1>3. CASE Ended(a)
    BY <1>1, <1>2, <1>3, EndKind DEF Ended, Engaged, Clients
  <1>4. CASE holds' = holds /\ End(a)
    BY <1>1, <1>4, EndKind DEF Engaged, Clients
  <1>5. CASE holds' = holds /\ \E pc, seen, n, st : Go(a, pc, seen, n, st)
    BY <1>1, <1>5, GoKind DEF Engaged, Clients
  <1>6. CASE Reread(a) \/ WriteArtifact(a)
    BY <1>3, <1>5, <1>6 DEF Reread, WriteArtifact
  <1> QED
    BY <1>3, <1>4, <1>5, <1>6 DEF CallStep, SetIds, WriteMeta, WriteResponse, SendResponse,
       ReadMirror, MirrorClaim, MirrorRun

\* Nor does it lower the number that is allowed: a response that puts the
\* order back is counted.
LEMMA CallStepAllows ==
    ASSUME BridgeInv, NEW a \in Clients, CallStep(a), row.retries \in Nat, reopened \in Nat
    PROVE  Allowed <= Allowed'
  <1>1. CASE WriteResponse(a)
    <2>1. op[a].st \in Answers
      BY <1>1, CallKnown DEF WriteResponse, CallShape
    <2>2. /\ row'.retries = row.retries /\ row'.status = op[a].st
          /\ reopened' = IF op[a].st = "queued" THEN reopened + 1 ELSE reopened
      BY <1>1, CallKnown DEF WriteResponse, Persisted, Row
    <2> QED
      BY <2>1, <2>2, AnswerType DEF Allowed, Waiting
  <1>2. CASE row'.retries = row.retries /\ row'.status = row.status /\ reopened' = reopened
    BY <1>2 DEF Allowed, Waiting
  <1>3. CASE SetIds(a) \/ WriteMeta(a) \/ SendResponse(a) \/ WriteArtifact(a)
    BY <1>2, <1>3, CallKnown DEF SetIds, WriteMeta, SendResponse, WriteArtifact, Row
  <1> QED
    BY <1>1, <1>2, <1>3 DEF CallStep, Reread, ReadMirror, MirrorClaim, MirrorRun

\* Nobody joins, and as many are allowed as before.
LEMMA NobodyJoins ==
    ASSUME HoldersInv, Engaged' \subseteq Engaged, row.retries \in Nat, row'.retries \in Nat,
           reopened \in Nat, reopened' \in Nat, Allowed <= Allowed'
    PROVE  HoldersInv'
  <1>1. /\ IsFiniteSet(Engaged') /\ Cardinality(Engaged') <= Cardinality(Engaged)
        /\ Cardinality(Engaged) \in Nat /\ Cardinality(Engaged') \in Nat
    BY FS_Subset, FS_CardinalityType DEF HoldersInv
  <1>2. Allowed \in Nat /\ Allowed' \in Nat
    BY DEF Allowed
  <1> QED
    BY <1>1, <1>2 DEF HoldersInv

\* Only claim_task brings a worker, and it takes the order out of the queue.
LEMMA HoldersNext == BridgeInv /\ HoldersInv /\ [Next]_vars => HoldersInv'
  <1> SUFFICES ASSUME BridgeInv, HoldersInv, [Next]_vars PROVE HoldersInv'
    OBVIOUS
  <1>1. /\ BridgeInv' /\ TypeOK /\ row.retries \in Nat /\ row'.retries \in Nat
        /\ reopened \in Nat /\ reopened' \in Nat
    BY BridgeNext, BridgeLimits DEF BridgeInv, TypeOK, Row, MaxRetries
  <1>2. ASSUME NEW w \in Workers, Claim(w) PROVE HoldersInv'
    <2>1. /\ w \in Clients /\ row.status = "queued" /\ row'.status = "in_progress"
          /\ row'.retries = row.retries /\ reopened' = reopened
      BY <1>1, <1>2 DEF TypeOK, Row, Claim, Clients
    <2>2. Engaged' = Engaged \cup {w} /\ w \notin Engaged
      BY <1>1, <1>2, <2>1 DEF Engaged, Claim, Begin, Free, TypeOK, Clients
    <2>3. /\ IsFiniteSet(Engaged') /\ Cardinality(Engaged') = Cardinality(Engaged) + 1
          /\ Cardinality(Engaged) \in Nat
      BY <2>2, FS_AddElement, FS_CardinalityType DEF HoldersInv
    <2> QED
      BY <1>1, <2>1, <2>3 DEF HoldersInv, Allowed, Waiting
  <1>3. CASE Recover
    <2>1. /\ row.status = "in_progress" /\ row'.status = "queued"
          /\ row'.retries = row.retries + 1 /\ reopened' = reopened
      BY <1>1, <1>3 DEF TypeOK, Row, Recover
    <2>2. Engaged' \subseteq Engaged
      BY <1>1, <1>3, BridgeClients DEF Engaged, Recover, Begin, TypeOK, Clients
    <2>3. Allowed <= Allowed'
      BY <1>1, <2>1 DEF Allowed, Waiting
    <2> QED
      BY <1>1, <2>2, <2>3, NobodyJoins
  <1>4. CASE Enqueue
    <2>1. /\ row.status = "none" /\ row'.status = "queued" /\ row'.retries = row.retries
          /\ reopened' = reopened
      BY <1>1, <1>4 DEF TypeOK, Row, Enqueue
    <2>2. Engaged' = Engaged
      BY <1>4 DEF Engaged, Enqueue
    <2> QED
      BY <1>1, <2>1, <2>2, NobodyJoins DEF Allowed, Waiting
  <1>5. ASSUME NEW a \in Clients, CallStep(a) PROVE HoldersInv'
    <2>1. Engaged' \subseteq Engaged
      BY <1>5, CallStepEngages
    <2>2. Allowed <= Allowed'
      BY <1>1, <1>5, CallStepAllows
    <2> QED
      BY <1>1, <2>1, <2>2, NobodyJoins
  <1>6. ASSUME NEW a \in Clients, Raise(a) \/ (a \in Workers /\ Crash(a)) PROVE HoldersInv'
    <2>1. row' = row /\ reopened' = reopened /\ End(a) /\ holds' \subseteq holds
      BY <1>6 DEF Raise, Crash
    <2>2. Engaged' \subseteq Engaged
      BY <1>1, <2>1, EndKind DEF Engaged, Clients
    <2> QED
      BY <1>1, <2>1, <2>2, NobodyJoins DEF Allowed, Waiting
  <1>7. CASE \/ AckResponse \/ \E w \in Workers : Partial(w) \/ Respond(w)
             \/ \E w \in Workers : \E kind \in {"accept", "beat"} : Report(w, kind)
    <2>1. row' = row /\ reopened' = reopened /\ holds' = holds
      BY <1>7 DEF AckResponse, Partial, Respond, Report
    <2>2. Engaged' \subseteq Engaged
      BY <1>1, <1>7 DEF Engaged, AckResponse, Partial, Respond, Report, Begin, TypeOK, Clients
    <2> QED
      BY <1>1, <2>1, <2>2, NobodyJoins DEF Allowed, Waiting
  <1>8. CASE Lapse \/ UNCHANGED vars
    BY <1>8 DEF Lapse, vars, HoldersInv, Engaged, Allowed, Waiting
  <1> QED
    BY <1>2, <1>3, <1>4, <1>5, <1>6, <1>7, <1>8 DEF Next, Clients

\* An order is worked on by one worker, and by one more for every time its
\* claim was taken back or a response put it back into the queue: two callers
\* of claim_task never get the same claim.
THEOREM HoldersBoundedHolds == Spec => []HoldersBounded
  <1>1. Init => HoldersInv
    <2> SUFFICES ASSUME Init PROVE HoldersInv
      OBVIOUS
    <2>1. Engaged = {}
      BY DEF Init, Engaged, Idle, Clients
    <2>2. Allowed = 0
      BY DEF Init, Allowed, Waiting, NoOrder
    <2> QED
      BY <2>1, <2>2, FS_EmptySet DEF HoldersInv
  <1>2. HoldersInv => HoldersBounded
    BY DEF HoldersInv, HoldersBounded, Allowed
  <1> QED
    BY <1>1, <1>2, BridgeInvHolds, HoldersNext, PTL DEF Spec

-----------------------------------------------------------------------------
(* The acknowledgements, while nothing overlaps a response *)

Responding(a) == op[a].kind = "respond"

\* A response is given alone.
Alone == \A a, b \in Clients : Responding(a) /\ b # a => Free(b)

\* What a call will write back speaks of the response in the row.
AckFits(a) ==
    /\ ~Responding(a) /\ op[a].pc \in {"ids", "write", "write2"} => op[a].seen.ack \in {0, row.resp}
    /\ op[a].kind = "ackresp" /\ op[a].pc = "write" => op[a].n = row.resp
    /\ op[a].pc = "send" => op[a].n = row.resp

CleanInv ==
    clean => /\ Alone /\ row.meta.ack \in {0, row.resp}
             /\ \A a \in Clients : AckFits(a)

\* Call a is at phase pc of a call of this kind now, and the others stay.
NowAt(a, kind, pc, seen, n, st) ==
    /\ op'[a].kind = kind /\ op'[a].pc = pc /\ op'[a].seen = seen
    /\ op'[a].n = n /\ op'[a].st = st
    /\ \A b \in Clients \ {a} : op'[b] = op[b]

\* A call that begins.
LEMMA NowBegun ==
    ASSUME TypeOK, NEW a \in Clients, NEW kind, NEW pc, NEW seen, NEW n, NEW st,
           Begin(a, kind, pc, seen, n, st)
    PROVE  NowAt(a, kind, pc, seen, n, st) /\ clean' = (clean /\ Apart(kind))
  BY DEF TypeOK, Begin, NowAt

\* A call that goes on.
LEMMA NowGone ==
    ASSUME TypeOK, NEW a \in Clients, NEW pc, NEW seen, NEW n, NEW st, Go(a, pc, seen, n, st)
    PROVE  NowAt(a, op[a].kind, pc, seen, n, st)
  BY DEF TypeOK, Go, Call, NowAt

\* A call that ends.
LEMMA NowEnded ==
    ASSUME TypeOK, NEW a \in Clients, End(a)
    PROVE  NowAt(a, "none", "idle", NoMeta, 0, "none")
  BY DEF TypeOK, End, Idle, NowAt

\* A response stays alone while nothing new begins.
LEMMA AloneStep ==
    ASSUME Alone, NEW a \in Clients, NEW kind \in {op[a].kind, "none"}, NEW pc, NEW seen,
           NEW n, NEW st, NowAt(a, kind, pc, seen, n, st)
    PROVE  Alone'
  BY DEF Alone, Responding, Free, NowAt

\* A step of a call that leaves the response in the row.
LEMMA CleanStep ==
    ASSUME CleanInv, clean, NEW a \in Clients, NEW kind, NEW pc, NEW seen, NEW n, NEW st,
           NowAt(a, kind, pc, seen, n, st), Alone', row'.resp = row.resp,
           row'.meta.ack \in {0, row.resp},
           kind # "respond" /\ pc \in {"ids", "write", "write2"} => seen.ack \in {0, row.resp},
           kind = "ackresp" /\ pc = "write" => n = row.resp,
           pc = "send" => n = row.resp
    PROVE  CleanInv'
  <1> SUFFICES ASSUME NEW b \in Clients PROVE AckFits(b)'
    BY DEF CleanInv
  <1>1. CASE b = a
    BY <1>1 DEF NowAt, AckFits, Responding
  <1>2. CASE b # a
    BY <1>2 DEF NowAt, AckFits, Responding, CleanInv
  <1> QED
    BY <1>1, <1>2

\* A call begins apart from every response.
LEMMA CleanBegin ==
    ASSUME BridgeInv, CleanInv, clean', NEW a \in Clients, NEW kind, NEW pc, NEW seen,
           NEW n, NEW st, Free(a), Begin(a, kind, pc, seen, n, st), kind # "none",
           row'.resp = row.resp, row'.meta = row.meta,
           pc \in {"ids", "write"} => seen.ack = row.meta.ack,
           kind = "ackresp" => n = row.resp, pc \notin {"send", "write2"}
    PROVE  CleanInv' /\ clean /\ NowAt(a, kind, pc, seen, n, st) /\ Apart(kind)
  <1>1. clean /\ NowAt(a, kind, pc, seen, n, st) /\ Apart(kind)
    BY NowBegun DEF BridgeInv
  <1>2. Alone'
    BY <1>1 DEF Apart, NowAt, Alone, Responding, Free
  <1>3. row.meta.ack \in {0, row.resp}
    BY <1>1 DEF CleanInv
  <1> QED
    BY <1>1, <1>2, <1>3, CleanStep

\* The calls that begin.
LEMMA BeginsClean ==
    ASSUME BridgeInv, CleanInv, clean',
           \/ AckResponse \/ Recover
           \/ \E w \in Workers : Claim(w) \/ Partial(w) \/ Respond(w)
           \/ \E w \in Workers : \E kind \in {"accept", "beat"} : Report(w, kind)
    PROVE  CleanInv'
  <1>1. /\ Operator \in Clients /\ Sweeper \in Clients /\ Workers \subseteq Clients
        /\ row \in Row /\ row.meta \in Meta
    BY DEF BridgeInv, TypeOK, Row, Clients
  <1>2. CASE AckResponse
    BY <1>1, <1>2, CleanBegin DEF AckResponse
  <1>3. CASE Recover
    <2>1. row'.resp = row.resp /\ row'.meta = row.meta
      BY <1>1, <1>3 DEF Recover, Row
    <2> QED
      BY <1>1, <1>3, <2>1, CleanBegin DEF Recover
  <1>4. ASSUME NEW w \in Workers, Claim(w) PROVE CleanInv'
    <2> DEFINE first == row.meta.ids = 0
               pc == IF first THEN "ids" ELSE "claim"
               seen == IF first THEN [row.meta EXCEPT !.ids = row.retries + 1] ELSE row.meta
    <2>1. row'.resp = row.resp /\ row'.meta = row.meta
      BY <1>1, <1>4 DEF Claim, Row
    <2>2. seen.ack = row.meta.ack /\ pc \notin {"send", "write2", "write"}
      BY <1>1 DEF Meta
    <2>3. Free(w) /\ Begin(w, "claim", pc, seen, 0, "none")
      BY <1>4 DEF Claim
    <2> HIDE DEF pc, seen
    <2> QED
      BY <1>1, <2>1, <2>2, <2>3, CleanBegin
  <1>5. ASSUME NEW w \in Workers, Partial(w) PROVE CleanInv'
    BY <1>1, <1>5, CleanBegin DEF Partial
  <1>6. ASSUME NEW w \in Workers, Respond(w) PROVE CleanInv'
    BY <1>1, <1>6, CleanBegin DEF Respond
  <1>7. ASSUME NEW w \in Workers, NEW kind \in {"accept", "beat"}, Report(w, kind)
        PROVE  CleanInv'
    BY <1>1, <1>7, CleanBegin DEF Report
  <1> QED
    BY <1>2, <1>3, <1>4, <1>5, <1>6, <1>7

\* A call that ends.
LEMMA EndClean ==
    ASSUME BridgeInv, CleanInv, clean, NEW a \in Clients, End(a), row'.resp = row.resp,
           row'.meta = row.meta \/ row'.meta.ack \in {0, row.resp}
    PROVE  CleanInv'
  <1>1. NowAt(a, "none", "idle", NoMeta, 0, "none")
    BY NowEnded DEF BridgeInv
  <1>2. Alone'
    BY <1>1, AloneStep DEF CleanInv
  <1>3. row'.meta.ack \in {0, row.resp}
    BY DEF CleanInv
  <1> QED
    BY <1>1, <1>2, <1>3, CleanStep

\* A call that goes on.
LEMMA GoClean ==
    ASSUME BridgeInv, CleanInv, clean, NEW a \in Clients, NEW pc, NEW seen, NEW n, NEW st,
           Go(a, pc, seen, n, st), row'.resp = row.resp, row'.meta.ack \in {0, row.resp},
           pc \notin {"ids", "write", "send"}, pc = "write2" => seen.ack \in {0, row.resp}
    PROVE  CleanInv' /\ NowAt(a, op[a].kind, pc, seen, n, st)
  <1>1. NowAt(a, op[a].kind, pc, seen, n, st)
    BY NowGone DEF BridgeInv
  <1>2. Alone'
    BY <1>1, AloneStep DEF CleanInv
  <1> QED
    BY <1>1, <1>2, CleanStep

\* The steps of the calls.
LEMMA CallStepClean ==
    ASSUME BridgeInv, CleanInv, clean, NEW a \in Clients, CallStep(a)
    PROVE  CleanInv'
  <1>1. /\ TypeOK /\ row \in Row /\ row.meta \in Meta /\ row.meta.ack \in {0, row.resp}
        /\ AckFits(a) /\ CallShape(op[a]) /\ Alone
        /\ op[a].seen \in Meta /\ op[a].n \in 0..MaxAnswers
    BY CallKnown DEF CleanInv, BridgeInv
  <1>2. CASE SetIds(a)
    <2>1. op[a].kind = "claim" /\ op[a].seen.ack \in {0, row.resp}
      BY <1>1, <1>2 DEF SetIds, CallShape, AckFits, Responding
    <2>2. row'.resp = row.resp /\ row'.meta = op[a].seen
      BY <1>1, <1>2, MetaWritten DEF SetIds
    <2> QED
      BY <1>2, <2>1, <2>2, GoClean DEF SetIds
  <1>3. CASE WriteMeta(a)
    <2>1. Written(op[a]).ack \in {0, row.resp} /\ Written(op[a]) \in Meta
      BY <1>1, <1>3, WrittenMeta DEF WriteMeta, AckFits, Responding
    <2>2. row' = [row EXCEPT !.meta = Written(op[a])]
      BY <1>3 DEF WriteMeta, Written
    <2>3. row'.resp = row.resp /\ row'.meta.ack \in {0, row.resp}
      BY <1>1, <2>1, <2>2, MetaWritten
    <2> QED
      BY <1>3, <2>3, GoClean DEF WriteMeta
  <1>4. CASE WriteResponse(a)
    <2>1. /\ row'.meta.ack = 0 /\ row'.resp = answers + 1 /\ Responding(a)
          /\ NowAt(a, "respond", "send", NoMeta, answers + 1, "none")
      <3>1. op[a].kind = "respond" /\ Go(a, "send", NoMeta, answers + 1, "none")
        BY <1>4 DEF WriteResponse
      <3>2. NowAt(a, "respond", "send", NoMeta, answers + 1, "none")
        BY <1>1, <3>1, NowGone
      <3>3. row'.meta = [op[a].seen EXCEPT !.ack = 0] /\ row'.resp = answers + 1
        BY <1>4, ResponseWritten
      <3> QED
        BY <1>1, <3>1, <3>2, <3>3 DEF Responding, Meta
    <2>2. Alone'
      BY <1>1, <2>1, AloneStep DEF Responding
    <2>3. \A b \in Clients \ {a} : Free(b) /\ op'[b] = op[b] /\ op[b].pc = "idle" /\ ~Responding(b)
      BY <1>1, <2>1, CallKnown DEF Alone, Free, NowAt, CallShape, Responding
    <2>4. ASSUME NEW b \in Clients PROVE AckFits(b)'
      BY <2>1, <2>3 DEF AckFits, Responding, NowAt
    <2> QED
      BY <2>1, <2>2, <2>4 DEF CleanInv
  <1>5. CASE SendResponse(a)
    <2>1. op[a].n = row.resp
      BY <1>1, <1>5 DEF SendResponse, AckFits
    <2>2. row'.resp = row.resp /\ row'.meta = row.meta
      BY <1>1, <1>5, <2>1 DEF SendResponse, Row
    <2> QED
      BY <1>1, <1>5, <2>2, GoClean DEF SendResponse
  <1>6. CASE Reread(a)
    <2>1. op[a].pc = "reread" /\ row' = row
      BY <1>6 DEF Reread
    <2>2. CASE Ended(a)
      BY <2>1, <2>2, EndClean DEF Ended
    <2>3. CASE Go(a, "write2", row.meta, 0, "none")
      BY <1>1, <2>1, <2>3, GoClean
    <2>4. CASE \E pc \in {"readrun", "readclaim", "claim"} : \E seen, st : Go(a, pc, seen, 0, st)
      BY <1>1, <2>1, <2>4, GoClean
    <2> QED
      BY <1>6, <2>2, <2>3, <2>4 DEF Reread
  <1>7. CASE WriteArtifact(a)
    <2>1. op[a].seen.ack \in {0, row.resp}
      BY <1>1, <1>7 DEF WriteArtifact, CallShape, AckFits, Responding
    <2>2. row'.resp = row.resp /\ row'.meta = op[a].seen
      BY <1>1, <1>7, MetaWritten DEF WriteArtifact
    <2> QED
      BY <1>7, <2>1, <2>2, GoClean, EndClean DEF WriteArtifact, Ended
  <1>8. CASE ReadMirror(a)
    BY <1>1, <1>8, GoClean DEF ReadMirror
  <1>9. CASE MirrorClaim(a)
    BY <1>1, <1>9, GoClean, EndClean DEF MirrorClaim
  <1>10. CASE MirrorRun(a)
    BY <1>10, EndClean DEF MirrorRun, Ended
  <1> QED
    BY <1>2, <1>3, <1>4, <1>5, <1>6, <1>7, <1>8, <1>9, <1>10 DEF CallStep

\* Every step keeps the acknowledgements right.
LEMMA CleanNext == BridgeInv /\ CleanInv /\ [Next]_vars => CleanInv' /\ (clean' => clean)
  <1> SUFFICES ASSUME BridgeInv, CleanInv, [Next]_vars, clean' PROVE CleanInv' /\ clean
    BY DEF CleanInv
  <1>1. CASE Enqueue
    <2>1. row'.resp = row.resp /\ row'.meta = row.meta
      BY <1>1 DEF Enqueue, BridgeInv, TypeOK, Row
    <2> QED
      BY <1>1, <2>1 DEF Enqueue, CleanInv, Alone, AckFits, Responding, Free
  <1>2. CASE Lapse \/ UNCHANGED vars
    BY <1>2 DEF Lapse, vars, CleanInv, Alone, AckFits, Responding, Free
  <1>3. CASE \/ AckResponse \/ Recover
             \/ \E w \in Workers : Claim(w) \/ Partial(w) \/ Respond(w)
             \/ \E w \in Workers : \E kind \in {"accept", "beat"} : Report(w, kind)
    BY <1>3, BeginsClean DEF AckResponse, Recover, Claim, Partial, Respond, Report, Begin
  <1>4. ASSUME NEW a \in Clients, CallStep(a) PROVE CleanInv' /\ clean
    <2>1. clean
      BY <1>4 DEF CallStep, SetIds, WriteMeta, WriteResponse, SendResponse, Reread,
         WriteArtifact, ReadMirror, MirrorClaim, MirrorRun
    <2> QED
      BY <1>4, <2>1, CallStepClean
  <1>5. ASSUME NEW a \in Clients, Raise(a) \/ (a \in Workers /\ Crash(a)) PROVE CleanInv' /\ clean
    BY <1>5, EndClean DEF Raise, Crash
  <1> QED
    BY <1>1, <1>2, <1>3, <1>4, <1>5 DEF Next, Clients

\* The invariant of the acknowledgements holds.
LEMMA CleanInvHolds == Spec => []CleanInv
  <1>1. Init => CleanInv
    BY IdleFacts DEF Init, CleanInv, Alone, AckFits, Responding, Free, Idle, NoOrder, NoMeta
  <1> QED
    BY <1>1, BridgeInvHolds, CleanNext, PTL DEF Spec

\* A delivery acknowledgement stands for the response in the row, so that
\* list_unacknowledged_responses skips no response that nobody has seen.
THEOREM NoSilentDropOffHolds == Spec => []NoSilentDropOff
  <1>1. CleanInv => NoSilentDropOff
    BY DEF CleanInv, NoSilentDropOff
  <1> QED
    BY <1>1, CleanInvHolds, PTL

-----------------------------------------------------------------------------
(* The mirror in the runtime store, while nothing overlaps a response *)

Final == {"none"} \cup Outcomes(row.status)

\* What a call that runs beside an answered order may be, and will write.
CallSettles(a) ==
    /\ op[a].kind \in {"none", "partial", "ackresp", "respond"}
    /\ op[a].pc \in {"write", "write2", "readrun", "claim", "run"} =>
          op[a].seen.ids = row.meta.ids
    /\ op[a].kind \in {"partial", "ackresp"} /\ op[a].pc = "run" => op[a].st \in Final
    /\ Responding(a) /\ op[a].pc \in {"claim", "run"} => op[a].st \in Final

\* A response has not reached the claim, or the run.
ClaimDue == \E a \in Clients : Responding(a) /\ op[a].pc \in {"send", "reread", "claim"}
RunDue == \E a \in Clients : Responding(a) /\ op[a].pc \in {"send", "reread", "claim", "run"}

SettledInv ==
    clean /\ Closing(row.status) =>
        /\ \A a \in Clients : CallSettles(a)
        /\ row.meta.ids # 0 /\ ~ClaimDue => claim[row.meta.ids] \in Final
        /\ row.meta.ids # 0 /\ ~RunDue => run[row.meta.ids] \in Final

\* The calls settle after a step of one of them that leaves the outcome.
LEMMA CallsSettle ==
    ASSUME NEW a \in Clients, NEW kind, NEW pc, NEW seen, NEW n, NEW st,
           NowAt(a, kind, pc, seen, n, st), \A b \in Clients : CallSettles(b),
           row'.status = row.status, row'.meta.ids = row.meta.ids,
           kind \in {"none", "partial", "ackresp", "respond"},
           pc \in {"write", "write2", "readrun", "claim", "run"} => seen.ids = row.meta.ids,
           kind \in {"partial", "ackresp"} /\ pc = "run" => st \in Final,
           kind = "respond" /\ pc \in {"claim", "run"} => st \in Final
    PROVE  \A b \in Clients : CallSettles(b)'
  <1> SUFFICES ASSUME NEW b \in Clients PROVE CallSettles(b)'
    OBVIOUS
  <1>1. CASE b = a
    BY <1>1 DEF NowAt, CallSettles, Responding, Final
  <1>2. CASE b # a
    BY <1>2 DEF NowAt, CallSettles, Responding, Final
  <1> QED
    BY <1>1, <1>2

\* A step that leaves the outcome, the mirror and what is due.
LEMMA SettledStep ==
    ASSUME SettledInv, clean, Closing(row.status), NEW a \in Clients, NEW kind, NEW pc, NEW seen,
           NEW n, NEW st, NowAt(a, kind, pc, seen, n, st),
           row'.status = row.status, row'.meta.ids = row.meta.ids,
           claim' = claim, run' = run,
           kind \in {"none", "partial", "ackresp", "respond"},
           pc \in {"write", "write2", "readrun", "claim", "run"} => seen.ids = row.meta.ids,
           kind \in {"partial", "ackresp"} /\ pc = "run" => st \in Final,
           kind = "respond" /\ pc \in {"claim", "run"} => st \in Final,
           row.meta.ids # 0 /\ Responding(a) /\ op[a].pc \in {"send", "reread", "claim"} =>
              kind = "respond" /\ pc \in {"send", "reread", "claim"},
           ~(Responding(a) /\ op[a].pc = "run")
    PROVE  SettledInv'
  <1>1. \A b \in Clients : CallSettles(b)'
    BY CallsSettle DEF SettledInv
  <1>2. row.meta.ids # 0 /\ ClaimDue => ClaimDue'
    BY DEF ClaimDue, NowAt, Responding
  <1>3. row.meta.ids # 0 /\ RunDue => RunDue'
    BY DEF RunDue, NowAt, Responding
  <1> QED
    BY <1>1, <1>2, <1>3 DEF SettledInv, Final

\* The calls that begin beside an answered order.
LEMMA BeginsSettle ==
    ASSUME BridgeInv, SettledInv, clean', Closing(row'.status),
           \/ AckResponse \/ Recover
           \/ \E w \in Workers : Claim(w) \/ Partial(w) \/ Respond(w)
           \/ \E w \in Workers : \E kind \in {"accept", "beat"} : Report(w, kind)
    PROVE  SettledInv'
  <1>1. /\ Operator \in Clients /\ Workers \subseteq Clients /\ row \in Row /\ TypeOK
    BY DEF BridgeInv, TypeOK, Clients
  <1>2. ~Recover /\ \A w \in Workers : ~Claim(w)
    BY <1>1 DEF Row, Recover, Claim, Closing
  <1>3. Closing(row.status) /\ row.status # "in_progress"
    BY <1>2 DEF Closing, AckResponse, Partial, Respond, Report
  <1>4. ASSUME NEW a \in Clients, NEW kind \in {"partial", "ackresp", "respond"}, NEW n, NEW st,
               Free(a), Begin(a, kind, "write", row.meta, n, st),
               UNCHANGED <<row, claim, run>>
        PROVE  SettledInv'
    <2>1. clean /\ NowAt(a, kind, "write", row.meta, n, st)
      BY <1>1, <1>4, NowBegun
    <2>2. ~Responding(a)
      BY <1>4 DEF Free, Responding
    <2> QED
      BY <1>3, <1>4, <2>1, <2>2, SettledStep
  <1>5. CASE AckResponse
    BY <1>1, <1>4, <1>5 DEF AckResponse
  <1>6. ASSUME NEW w \in Workers, Partial(w) PROVE SettledInv'
    BY <1>1, <1>4, <1>6 DEF Partial
  <1>7. ASSUME NEW w \in Workers, Respond(w) PROVE SettledInv'
    BY <1>1, <1>4, <1>7 DEF Respond
  <1> QED
    BY <1>2, <1>3, <1>5, <1>6, <1>7 DEF Report, MayReport

\* A response is alone, so it is the only one that is due.
LEMMA OnlyOneDue ==
    ASSUME Alone, NEW a \in Clients, op[a].kind # "none"
    PROVE  \A b \in Clients \ {a} : ~Responding(b)
  BY DEF Alone, Responding, Free

\* record_task_claim: the claim has the outcome.
LEMMA MirrorClaimSettles ==
    ASSUME BridgeInv, CleanInv, SettledInv, clean, Closing(row.status), NEW a \in Clients,
           MirrorClaim(a)
    PROVE  SettledInv'
  <1> DEFINE i == op[a].seen.ids
  <1>1. /\ op[a].pc = "claim" /\ row' = row /\ run' = run /\ CallShape(op[a]) /\ CallSettles(a)
        /\ TypeOK /\ Alone
    BY CallKnown DEF MirrorClaim, SettledInv, CleanInv, BridgeInv
  <1>2. /\ op[a].kind = "respond" /\ op[a].st \in Final /\ i = row.meta.ids /\ i # 0
        /\ Responding(a)
    BY <1>1 DEF CallShape, CallSettles, Responding
  <1>3. Go(a, "run", OnlyIds(op[a].seen), 0, op[a].st)
    BY <1>2 DEF MirrorClaim
  <1>4. NowAt(a, "respond", "run", OnlyIds(op[a].seen), 0, op[a].st)
    BY <1>1, <1>2, <1>3, NowGone
  <1>5. OnlyIds(op[a].seen).ids = row.meta.ids
    BY <1>2, CallKnown, OnlyIdsMeta
  <1>6. \A b \in Clients : CallSettles(b)'
    BY <1>1, <1>2, <1>4, <1>5, CallsSettle DEF SettledInv
  <1>7. claim'[i] \in Final
    <2>1. ClaimStatus(op[a]) = op[a].st
      BY <1>1, <1>2, CallKnown, MirroredStatus
    <2>2. i \in Ids
      BY <1>2, CallKnown, BridgeLimits DEF Meta, Ids, MaxRetries
    <2> QED
      BY <1>1, <1>2, <2>1, <2>2 DEF MirrorClaim, Final, TypeOK
  <1>8. RunDue'
    BY <1>4 DEF RunDue, Responding, NowAt
  <1> QED
    BY <1>1, <1>2, <1>6, <1>7, <1>8 DEF SettledInv, Final

\* record_delegation_run: the run has the outcome, or keeps it.
LEMMA MirrorRunSettles ==
    ASSUME BridgeInv, CleanInv, SettledInv, clean, Closing(row.status), NEW a \in Clients,
           MirrorRun(a)
    PROVE  SettledInv'
  <1> DEFINE i == op[a].seen.ids
  <1>1. /\ op[a].pc = "run" /\ row' = row /\ claim' = claim /\ CallShape(op[a]) /\ CallSettles(a)
        /\ TypeOK /\ Alone /\ End(a)
    BY CallKnown DEF MirrorRun, Ended, SettledInv, CleanInv, BridgeInv
  <1>2. op[a].kind \in {"partial", "ackresp", "respond"} /\ i = row.meta.ids /\ i # 0
    BY <1>1 DEF CallShape, CallSettles
  <1>3. NowAt(a, "none", "idle", NoMeta, 0, "none")
    BY <1>1, NowEnded
  <1>4. \A b \in Clients : CallSettles(b)'
    BY <1>1, <1>3, CallsSettle DEF SettledInv
  <1>5. ~ClaimDue
    BY <1>1, <1>2, OnlyOneDue DEF ClaimDue
  <1>6. claim[i] \in Final
    BY <1>2, <1>5 DEF SettledInv
  <1>7. run'[i] \in Final
    <2>1. RunStatus(op[a]) \in Final
      BY <1>1, <1>2, CallKnown, MirroredStatus DEF CallSettles, Responding, Final
    <2>2. run[i] = "none" \/ run'[i] = RunStatus(op[a])
      BY <1>1, <1>2, CallKnown, BridgeLimits DEF MirrorRun, TypeOK, Meta, Ids, MaxRetries
    <2>3. run[i] = "none" => run'[i] = "none"
      BY <1>1, <1>2 DEF MirrorRun
    <2> QED
      BY <2>1, <2>2, <2>3 DEF Final
  <1> QED
    BY <1>1, <1>2, <1>4, <1>6, <1>7 DEF SettledInv, Final

\* The steps of the calls.
LEMMA CallStepSettles ==
    ASSUME BridgeInv, CleanInv, SettledInv, clean, Closing(row'.status), NEW a \in Clients,
           CallStep(a)
    PROVE  SettledInv'
  <1>1. /\ TypeOK /\ row \in Row /\ row.meta \in Meta /\ CallShape(op[a]) /\ CallFits(a) /\ Alone
        /\ op[a].seen \in Meta /\ op[a].n \in 0..MaxAnswers
    BY CallKnown DEF CleanInv, BridgeInv
  <1>2. CASE WriteResponse(a)
    <2>1. op[a].kind = "respond" /\ Go(a, "send", NoMeta, answers + 1, "none")
      BY <1>2 DEF WriteResponse
    <2>2. NowAt(a, "respond", "send", NoMeta, answers + 1, "none")
      BY <1>1, <2>1, NowGone
    <2>3. \A b \in Clients \ {a} : Free(b) /\ op'[b] = op[b] /\ op[b].pc = "idle"
      BY <1>1, <2>1, <2>2, CallKnown DEF Alone, Responding, Free, NowAt, CallShape
    <2>4. ASSUME NEW b \in Clients PROVE CallSettles(b)'
      BY <2>2, <2>3 DEF CallSettles, Responding, NowAt, Free
    <2>5. ClaimDue' /\ RunDue'
      BY <2>2 DEF ClaimDue, RunDue, NowAt, Responding
    <2> QED
      BY <2>4, <2>5 DEF SettledInv
  <1>3. CASE ~WriteResponse(a)
    <2>1. Closing(row.status)
      BY <1>1, <1>3 DEF CallStep, SetIds, WriteMeta, SendResponse, Reread, WriteArtifact,
         ReadMirror, MirrorClaim, MirrorRun, Row
    <2>2. CallSettles(a)
      BY <2>1 DEF SettledInv
    <2>3. ~SetIds(a)
      BY <1>1, <2>2 DEF SetIds, CallShape, CallSettles
    <2>4. CASE WriteMeta(a)
      <3>1. NowAt(a, op[a].kind, "reread", NoMeta, 0, "none") /\ op[a].kind # "respond"
            /\ op[a].pc = "write"
        BY <1>1, <2>4, NowGone DEF WriteMeta
      <3>2. row' = [row EXCEPT !.meta = Written(op[a])]
        BY <2>4 DEF WriteMeta, Written
      <3>3. row'.status = row.status /\ row'.meta.ids = row.meta.ids
        BY <1>1, <2>2, <3>1, <3>2, WrittenMeta, MetaWritten DEF CallSettles
      <3> QED
        BY <2>1, <2>2, <2>4, <3>1, <3>3, SettledStep DEF WriteMeta, CallSettles, Responding
    <2>5. CASE SendResponse(a)
      <3>1. NowAt(a, op[a].kind, "reread", NoMeta, 0, "none") /\ op[a].pc = "send"
            /\ op[a].kind = "respond"
        BY <1>1, <2>5, NowGone DEF SendResponse, CallShape
      <3>2. row'.status = row.status /\ row'.meta = row.meta
        BY <1>1, <2>5 DEF SendResponse, Row
      <3> QED
        BY <2>1, <2>5, <3>1, <3>2, SettledStep DEF SendResponse, Responding
    <2>6. CASE Reread(a)
      <3>1. op[a].pc = "reread" /\ UNCHANGED <<row, claim, run>>
        BY <2>6 DEF Reread
      <3>2. CASE row.meta.ids = 0 /\ Ended(a)
        <4>1. NowAt(a, "none", "idle", NoMeta, 0, "none")
          BY <1>1, <3>2, NowEnded DEF Ended
        <4> QED
          BY <2>1, <3>1, <3>2, <4>1, SettledStep
      <3>3. CASE op[a].kind = "partial" /\ Go(a, "write2", row.meta, 0, "none")
        <4>1. NowAt(a, "partial", "write2", row.meta, 0, "none")
          BY <1>1, <3>3, NowGone
        <4> QED
          BY <2>1, <3>1, <3>3, <4>1, SettledStep DEF Responding
      <3>4. CASE op[a].kind = "ackresp" /\ Go(a, "readrun", OnlyIds(row.meta), 0, "none")
        <4>1. NowAt(a, "ackresp", "readrun", OnlyIds(row.meta), 0, "none")
          BY <1>1, <3>4, NowGone
        <4>2. OnlyIds(row.meta).ids = row.meta.ids
          BY <1>1, OnlyIdsMeta
        <4> QED
          BY <2>1, <3>1, <3>4, <4>1, <4>2, SettledStep DEF Responding
      <3>5. ASSUME op[a].kind = "respond", NEW st \in Outcomes(row.status),
                   Go(a, "claim", OnlyIds(row.meta), 0, st)
            PROVE  SettledInv'
        <4>1. NowAt(a, "respond", "claim", OnlyIds(row.meta), 0, st) /\ st \in Final
          BY <1>1, <3>5, NowGone DEF Final
        <4>2. OnlyIds(row.meta).ids = row.meta.ids
          BY <1>1, OnlyIdsMeta
        <4> QED
          BY <2>1, <3>1, <3>5, <4>1, <4>2, SettledStep DEF Responding
      <3>6. op[a].kind \in {"partial", "ackresp", "respond"}
        BY <1>1, <2>2, <3>1 DEF CallSettles, CallShape
      <3> QED
        BY <2>6, <3>2, <3>3, <3>4, <3>5, <3>6 DEF Reread
    <2>7. CASE WriteArtifact(a)
      <3>1. op[a].pc = "write2" /\ op[a].kind = "partial" /\ UNCHANGED <<claim, run>>
        BY <1>1, <2>7 DEF WriteArtifact, CallShape
      <3>2. row'.status = row.status /\ row'.meta = op[a].seen
        BY <1>1, <2>7, MetaWritten DEF WriteArtifact
      <3>3. OnlyIds(op[a].seen).ids = row.meta.ids /\ op[a].seen.ids = row.meta.ids
        BY <1>1, <2>2, <3>1, OnlyIdsMeta DEF CallSettles
      <3>4. CASE op[a].seen.ids = 0
        <4>1. NowAt(a, "none", "idle", NoMeta, 0, "none")
          BY <1>1, <2>7, <3>4, NowEnded DEF WriteArtifact, Ended
        <4> QED
          BY <2>1, <3>1, <3>2, <3>3, <4>1, SettledStep DEF Responding
      <3>5. CASE op[a].seen.ids # 0
        <4>1. NowAt(a, "partial", "readrun", OnlyIds(op[a].seen), 0, "none")
          BY <1>1, <2>7, <3>1, <3>5, NowGone DEF WriteArtifact
        <4> QED
          BY <2>1, <3>1, <3>2, <3>3, <4>1, SettledStep DEF Responding
      <3> QED
        BY <3>4, <3>5
    <2>8. CASE ReadMirror(a)
      <3>1. op[a].pc = "readrun" /\ Go(a, "run", op[a].seen, 0, run[op[a].seen.ids])
            /\ UNCHANGED <<row, claim, run>>
        BY <1>1, <2>2, <2>8 DEF ReadMirror, CallShape, CallSettles
      <3>2. op[a].kind \in {"partial", "ackresp"} /\ op[a].seen.ids = row.meta.ids
            /\ row.meta.ids # 0
        BY <1>1, <2>2, <3>1 DEF CallShape, CallSettles
      <3>3. NowAt(a, op[a].kind, "run", op[a].seen, 0, run[row.meta.ids])
        BY <1>1, <3>1, <3>2, NowGone
      <3>4. ~RunDue
        BY <1>1, <3>2, OnlyOneDue DEF RunDue, Responding
      <3>5. run[row.meta.ids] \in Final
        BY <2>1, <3>2, <3>4 DEF SettledInv
      <3> QED
        BY <2>1, <3>1, <3>2, <3>3, <3>5, SettledStep DEF Responding
    <2> QED
      BY <1>3, <2>1, <2>3, <2>4, <2>5, <2>6, <2>7, <2>8, MirrorClaimSettles, MirrorRunSettles
         DEF CallStep
  <1> QED
    BY <1>2, <1>3

\* Every step keeps the mirror on its way to the outcome.
LEMMA SettledNext == BridgeInv /\ CleanInv /\ SettledInv /\ [Next]_vars => SettledInv'
  <1> SUFFICES ASSUME BridgeInv, CleanInv, SettledInv, [Next]_vars, clean', Closing(row'.status)
               PROVE  SettledInv'
    BY DEF SettledInv
  <1>1. clean /\ row \in Row /\ TypeOK
    BY CleanNext DEF BridgeInv, TypeOK
  <1>2. ~Enqueue
    BY <1>1 DEF Enqueue, Closing, Row
  <1>3. CASE Lapse \/ UNCHANGED vars
    BY <1>3 DEF Lapse, vars, SettledInv, CallSettles, ClaimDue, RunDue, Responding, Final
  <1>4. CASE \/ AckResponse \/ Recover
             \/ \E w \in Workers : Claim(w) \/ Partial(w) \/ Respond(w)
             \/ \E w \in Workers : \E kind \in {"accept", "beat"} : Report(w, kind)
    BY <1>4, BeginsSettle
  <1>5. ASSUME NEW a \in Clients, CallStep(a) PROVE SettledInv'
    BY <1>1, <1>5, CallStepSettles
  <1>6. ASSUME NEW a \in Clients, Raise(a) \/ (a \in Workers /\ Crash(a)) PROVE SettledInv'
    <2>1. End(a) /\ op[a].kind # "respond" /\ UNCHANGED <<row, claim, run>>
      BY <1>6 DEF Raise, Crash
    <2>2. NowAt(a, "none", "idle", NoMeta, 0, "none")
      BY <1>1, <2>1, NowEnded
    <2> QED
      BY <1>1, <2>1, <2>2, SettledStep DEF Responding
  <1> QED
    BY <1>2, <1>3, <1>4, <1>5, <1>6 DEF Next, Clients

\* Once an order that was answered for good is at rest, its claim and its run in the runtime
\* store have the outcome, whatever came after the response.
THEOREM RunSettledHolds == Spec => []RunSettled
  <1>1. Init => SettledInv
    BY DEF Init, SettledInv, NoOrder, Closing
  <1>2. SettledInv => RunSettled
    BY DEF SettledInv, RunSettled, ClaimDue, RunDue, Responding, Free, Final
  <1> QED
    BY <1>1, <1>2, BridgeInvHolds, CleanInvHolds, SettledNext, PTL DEF Spec

=============================================================================
