--------------------------- MODULE DurableInvoker ---------------------------
(***************************************************************************)
(* The fenced provider call of graph/durable_invoker.py over the           *)
(* idempotency_records table of runtime_state.py.                          *)
(*                                                                         *)
(* Every dispatch of one side effect (one task on one agent) derives the   *)
(* same claim key, so all of them race on ONE row.  A dispatch is one run  *)
(* of DurableInvoker.__call__; each database statement of it is a step of  *)
(* its own, because other processes run between two statements.  The       *)
(* ownership token of the row is its updated_at timestamp.                 *)
(***************************************************************************)
EXTENDS Naturals, FiniteSets

CONSTANTS
    Dispatches,     \* runs of __call__ for the one side-effect key
    Runs,           \* execution identities (run_id)
    RunOf,          \* the identity each dispatch carries
    Skew,           \* how far ahead each dispatch's clock is
    StaleAfter,     \* stale_after_seconds, in clock units
    MaxClock,       \* bound: the wall clock stops here
    MaxRetries,     \* max_retries of the task
    Faults,         \* which store calls may raise
    Prompt,         \* TRUE: a claimed call ends before its claim is stale
    None            \* no receipt, no run

ASSUME RunOfType == RunOf \in [Dispatches -> Runs]
ASSUME SkewType == Skew \in [Dispatches -> Nat]
ASSUME StaleAfterType == StaleAfter \in Nat \ {0}
ASSUME MaxClockType == MaxClock \in Nat
ASSUME MaxRetriesType == MaxRetries \in Nat
ASSUME NoneFresh == None \notin Dispatches /\ None \notin Runs
ASSUME PromptType == Prompt \in BOOLEAN

StoreCalls == {"memo", "begin", "fetch", "reclaim", "complete"}
ASSUME FaultsType == Faults \subseteq StoreCalls

RowStatus == {"none", "started", "completed", "failed", "stale"}
Phases == {"memo", "begin", "existing", "mark", "fetch", "recheck", "reclaim",
           "call", "complete", "done"}
Outcomes == {"none", "ok", "omitted", "bad", "raised"}
Answers == {"none", "fresh", "memo", "duplicate", "raised", "unprotected", "crashed"}

VARIABLES
    clock,      \* wall clock
    row,        \* the idempotency record; status "none" before the INSERT
    pc,         \* where each dispatch is in __call__
    obs,        \* status and token of the record a dispatch read last
    token,      \* claim_token: 0 is None
    result,     \* how the inner call ended
    answer,     \* what __call__ returned or raised
    replayed,   \* the dispatch whose receipt a memo hit returned
    retries,    \* retry_count each dispatch's caller has written
    clear       \* history: the dispatches that met no live claim, and whose
                \* row no other dispatch has written since

vars == <<clock, row, pc, obs, token, result, answer, replayed, retries, clear>>

NoRow == [status |-> "none", run |-> None, token |-> 0,
          receipt |-> None, omitted |-> FALSE]

-----------------------------------------------------------------------------
(* Clocks, tokens and staleness *)

Now(d) == clock + Skew[d]

Later(a, b) == IF a >= b THEN a ELSE b

\* Mutant: a takeover stamps the plain wall clock.
NextTokenIsNow(d, observed) == Now(d)

\* _next_idempotency_token: never at or below the token it replaces.
NextToken(d, observed) == Later(Now(d), observed + 1)

\* The age test, used by the store and repeated by the wrapper.
StartedStale(d, r) == /\ r.status = "started"
                      /\ Now(d) >= r.token + StaleAfter

\* A completed record whose result was stored and whose receipt names the
\* record's own run replays without a provider call.
Replayable(r) == /\ r.status = "completed"
                 /\ ~r.omitted
                 /\ r.receipt # None
                 /\ RunOf[r.receipt] = r.run

MayFail(call) == call \in Faults

-----------------------------------------------------------------------------
(* Steps of one dispatch *)

GoTo(d, p) == pc' = [pc EXCEPT ![d] = p]

Finish(d, a) == /\ GoTo(d, "done")
                /\ answer' = [answer EXCEPT ![d] = a]

Observe(d) == obs' = [obs EXCEPT ![d] = [status |-> row.status, token |-> row.token]]

\* The row as the dispatch saw it: the WHERE clause of every compare-and-set.
Matches(d) == row.status = obs[d].status /\ row.token = obs[d].token

Init ==
    /\ clock = 1
    /\ row = NoRow
    /\ pc = [d \in Dispatches |-> "memo"]
    /\ obs = [d \in Dispatches |-> [status |-> "none", token |-> 0]]
    /\ token = [d \in Dispatches |-> 0]
    /\ result = [d \in Dispatches |-> "none"]
    /\ answer = [d \in Dispatches |-> "none"]
    /\ replayed = [d \in Dispatches |-> None]
    /\ retries = [d \in Dispatches |-> 0]
    /\ clear = {}

\* Mutant: the memo probe never finds a record to replay.
CheckMemoNever(d, miss) ==
    /\ GoTo(d, miss)
    /\ UNCHANGED <<clock, row, obs, token, result, answer, replayed>>

\* _check_memo: replay, or go on to `miss' (also when the probe raises).
CheckMemo(d, miss) ==
    \/ /\ Replayable(row)
       /\ Finish(d, "memo")
       /\ replayed' = [replayed EXCEPT ![d] = row.receipt]
       /\ UNCHANGED <<clock, row, obs, token, result>>
    \/ /\ ~Replayable(row) \/ MayFail("memo")
       /\ GoTo(d, miss)
       /\ UNCHANGED <<clock, row, obs, token, result, answer, replayed>>

ProbeMemo(d) == pc[d] = "memo" /\ CheckMemo(d, "begin")

\* INSERT OR IGNORE of the claim row.  The audit receipts that follow the
\* commit may raise: then the row stays, and the call runs without a token.
BeginInserts(d) ==
    /\ pc[d] = "begin"
    /\ row.status = "none"
    /\ row' = [status |-> "started", run |-> RunOf[d], token |-> Now(d),
               receipt |-> None, omitted |-> FALSE]
    /\ \/ token' = [token EXCEPT ![d] = Now(d)]
       \/ MayFail("begin") /\ UNCHANGED token
    /\ GoTo(d, "call")
    /\ UNCHANGED <<clock, obs, result, answer, replayed>>

\* The INSERT was ignored: another dispatch holds the row.
BeginLoses(d) ==
    /\ pc[d] = "begin"
    /\ row.status # "none"
    /\ GoTo(d, "existing")
    /\ UNCHANGED <<clock, row, obs, token, result, answer, replayed>>

\* Any statement of begin may raise; the call then runs without a token.
BeginRaises(d) ==
    /\ pc[d] \in {"begin", "existing", "mark"}
    /\ MayFail("begin")
    /\ GoTo(d, "call")
    /\ UNCHANGED <<clock, row, obs, token, result, answer, replayed>>

\* _handle_existing_idempotency_record reads the record and tests its age.
HandleExisting(d) ==
    /\ pc[d] = "existing"
    /\ Observe(d)
    /\ GoTo(d, IF StartedStale(d, row) THEN "mark" ELSE "fetch")
    /\ UNCHANGED <<clock, row, token, result, answer, replayed>>

\* _mark_idempotency_record_stale: compare-and-set on the observed token.
MarkStale(d) ==
    /\ pc[d] = "mark"
    /\ row' = IF Matches(d)
              THEN [row EXCEPT !.status = "stale", !.token = NextToken(d, obs[d].token)]
              ELSE row
    /\ \/ GoTo(d, "fetch")
       \/ Matches(d) /\ MayFail("begin") /\ GoTo(d, "call")
    /\ UNCHANGED <<clock, obs, token, result, answer, replayed>>

\* Mutant: a lost begin on a completed record reclaims it without a second
\* look at the memo.
FetchNoRecheck(d) ==
    /\ pc[d] = "fetch"
    /\ Observe(d)
    /\ \/ GoTo(d, "reclaim") /\ UNCHANGED answer
       \/ /\ row.status = "started" /\ ~StartedStale(d, row)
          /\ Finish(d, "duplicate")
    /\ UNCHANGED <<clock, row, token, result, replayed>>

\* Mutant: the takeover compares with the record read before it was marked
\* stale.
FetchKeepsObs(d) ==
    /\ pc[d] = "fetch"
    /\ \/ /\ row.status = "completed"
          /\ GoTo(d, "recheck") /\ UNCHANGED answer
       \/ /\ row.status = "started" /\ ~StartedStale(d, row)
          /\ Finish(d, "duplicate")
       \/ /\ row.status \in {"stale", "failed"} \/ StartedStale(d, row)
          /\ GoTo(d, "reclaim") /\ UNCHANGED answer
    /\ UNCHANGED <<clock, row, obs, token, result, replayed>>

\* After a lost begin: refuse a live duplicate, look again at a completed
\* record, and try to take over everything else.
Fetch(d) ==
    /\ pc[d] = "fetch"
    /\ Observe(d)
    /\ \/ /\ row.status = "completed"
          /\ GoTo(d, "recheck") /\ UNCHANGED answer
       \/ /\ row.status = "started" /\ ~StartedStale(d, row)
          /\ Finish(d, "duplicate")
       \/ /\ row.status \in {"stale", "failed"} \/ StartedStale(d, row)
          /\ GoTo(d, "reclaim") /\ UNCHANGED answer
    /\ UNCHANGED <<clock, row, token, result, replayed>>

\* The record cannot be read: run the call without a token.
FetchRaises(d) ==
    /\ pc[d] = "fetch"
    /\ MayFail("fetch")
    /\ GoTo(d, "call")
    /\ UNCHANGED <<clock, row, obs, token, result, answer, replayed>>

Recheck(d) == pc[d] = "recheck" /\ CheckMemo(d, "reclaim")

\* Mutant: the takeover compares the status and not the token.
ReclaimByStatus(d) ==
    /\ pc[d] = "reclaim"
    /\ row.status = obs[d].status
    /\ row' = [row EXCEPT !.status = "started", !.run = RunOf[d],
                          !.token = NextToken(d, obs[d].token)]
    /\ GoTo(d, "call")
    /\ token' = [token EXCEPT ![d] = NextToken(d, obs[d].token)]
    /\ UNCHANGED <<clock, obs, result, answer, replayed>>

\* Mutant: the takeover leaves the previous run's identity in the row.
ReclaimKeepsRun(d) ==
    /\ pc[d] = "reclaim"
    /\ Matches(d)
    /\ row' = [row EXCEPT !.status = "started", !.token = NextToken(d, obs[d].token)]
    /\ GoTo(d, "call")
    /\ token' = [token EXCEPT ![d] = NextToken(d, obs[d].token)]
    /\ UNCHANGED <<clock, obs, result, answer, replayed>>

\* try_reclaim: the compare-and-set succeeds.  If the audit write after the
\* commit raises, the dispatch refuses to run and the row has no holder.
Reclaim(d) ==
    /\ pc[d] = "reclaim"
    /\ Matches(d)
    /\ row' = [row EXCEPT !.status = "started", !.run = RunOf[d],
                          !.token = NextToken(d, obs[d].token)]
    /\ \/ /\ GoTo(d, "call")
          /\ token' = [token EXCEPT ![d] = NextToken(d, obs[d].token)]
          /\ UNCHANGED answer
       \/ MayFail("reclaim") /\ Finish(d, "duplicate") /\ UNCHANGED token
    /\ UNCHANGED <<clock, obs, result, replayed>>

\* The compare-and-set changes no row, or raises: DuplicateDispatchInFlight.
ReclaimLoses(d) ==
    /\ pc[d] = "reclaim"
    /\ ~Matches(d) \/ MayFail("reclaim")
    /\ Finish(d, "duplicate")
    /\ UNCHANGED <<clock, row, obs, token, result, replayed>>

\* The provider call ends: ok with a result that can be stored, ok with one
\* that cannot, a receipt that is not ok (timeout), or an exception.
InnerReturns(d) ==
    /\ pc[d] = "call"
    /\ \E o \in Outcomes \ {"none"} : result' = [result EXCEPT ![d] = o]
    /\ GoTo(d, "complete")
    /\ UNCHANGED <<clock, row, obs, token, answer, replayed>>

Returns(d) == IF result[d] = "raised" THEN "raised"
              ELSE IF token[d] = 0 THEN "unprotected" ELSE "fresh"

Ok(d) == result[d] \in {"ok", "omitted"}

\* The row after d's completion; an exception stores no receipt and leaves
\* the metadata of an earlier attempt in place.
Completed(d) ==
    [row EXCEPT !.status = IF Ok(d) THEN "completed" ELSE "failed",
                !.token = NextToken(d, token[d]),
                !.receipt = IF result[d] = "raised" THEN @ ELSE d,
                !.omitted = IF result[d] = "raised" THEN @ ELSE result[d] = "omitted"]

Holds(d) == token[d] # 0 /\ row.status = "started" /\ row.token = token[d]

\* Mutant: every receipt completes the record, whatever its status.
CompleteAnyReceipt(d) ==
    /\ pc[d] = "complete"
    /\ row' = IF Holds(d) THEN [Completed(d) EXCEPT !.status = "completed"] ELSE row
    /\ Finish(d, Returns(d))
    /\ UNCHANGED <<clock, obs, token, result, replayed>>

\* Mutant: the completion is not fenced by the token.
CompleteUnfenced(d) ==
    /\ pc[d] = "complete"
    /\ row' = IF token[d] # 0 THEN Completed(d) ELSE row
    /\ Finish(d, Returns(d))
    /\ UNCHANGED <<clock, obs, token, result, replayed>>

\* _complete_fail_open: refused without a token, a lost lease or a store
\* error is swallowed, and __call__ returns or re-raises either way.
Complete(d) ==
    /\ pc[d] = "complete"
    /\ \/ Holds(d) /\ row' = Completed(d)
       \/ (~Holds(d) \/ MayFail("complete")) /\ UNCHANGED row
    /\ Finish(d, Returns(d))
    /\ UNCHANGED <<clock, obs, token, result, replayed>>

\* The process dies or the coroutine is cancelled: CancelledError is not an
\* Exception, so no completion is written and the row keeps its status.
Crash(d) ==
    /\ pc[d] # "done"
    /\ Finish(d, "crashed")
    /\ UNCHANGED <<clock, row, obs, token, result, replayed>>

\* The caller's failure handling requeues the task of a refused duplicate
\* while it has retries left; the next dispatch starts over.
Retry(d) ==
    /\ pc[d] = "done" /\ answer[d] = "duplicate"
    /\ retries[d] < MaxRetries
    /\ retries' = [retries EXCEPT ![d] = @ + 1]
    /\ GoTo(d, "memo")
    /\ answer' = [answer EXCEPT ![d] = "none"]
    /\ UNCHANGED <<clock, row, obs, token, result, replayed, clear>>

InCall(d) == pc[d] \in {"call", "complete"} /\ token[d] # 0

\* Time passes only while some claim may still expire: other ticks shift
\* every later token by the same amount.  Prompt is the caller's bound:
\* wait_for(timeout) around the call, stale_after_seconds = 2 * timeout.
Tick ==
    /\ clock < MaxClock
    /\ row.status = "started"
    /\ \E d \in Dispatches : Now(d) < row.token + StaleAfter
    /\ Prompt => \A d \in Dispatches :
                    InCall(d) => Now(d) + 1 < token[d] + StaleAfter
    /\ clock' = clock + 1
    /\ UNCHANGED <<row, pc, obs, token, result, answer, replayed, retries, clear>>

Answered(d) == pc[d] = "done" /\ (answer[d] = "duplicate" => retries[d] = MaxRetries)

AllAnswered == (\A d \in Dispatches : Answered(d)) /\ UNCHANGED vars

Step(d) ==
    \/ ProbeMemo(d) \/ BeginInserts(d) \/ BeginLoses(d) \/ BeginRaises(d)
    \/ HandleExisting(d) \/ MarkStale(d) \/ Fetch(d) \/ FetchRaises(d)
    \/ Recheck(d) \/ Reclaim(d) \/ ReclaimLoses(d)
    \/ InnerReturns(d) \/ Complete(d)

\* The claim of a holder that d's clock does not call stale yet.
LiveClaim(d) == row.status = "started" /\ Now(d) < row.token + StaleAfter

\* The history of a step of d: past the memo probe its way is clear unless it
\* met a live claim; a write of the row is in the way of all the others.  It
\* ends when d is let into its call or answered otherwise.
Watch(d) ==
    LET mine == IF pc[d] = "memo" THEN ~LiveClaim(d) ELSE d \in clear
        over == pc'[d] \in {"call", "done"} /\ answer'[d] # "duplicate"
    IN  clear' = (IF row' = row THEN clear \ {d} ELSE {})
                    \cup (IF mine /\ ~over THEN {d} ELSE {})

Next ==
    \/ \E d \in Dispatches : \/ (Step(d) \/ Crash(d)) /\ Watch(d) /\ UNCHANGED retries
                            \/ Retry(d)
    \/ Tick
    \/ AllAnswered

Spec == Init /\ [][Next]_vars

-----------------------------------------------------------------------------
(* Properties *)

\* The variables of the code, without the caller's retries and the history.
CoreOK ==
    /\ clock \in Nat \ {0}
    /\ row \in [status : RowStatus, run : Runs \cup {None}, token : Nat,
                receipt : Dispatches \cup {None}, omitted : BOOLEAN]
    /\ pc \in [Dispatches -> Phases]
    /\ obs \in [Dispatches -> [status : RowStatus, token : Nat]]
    /\ token \in [Dispatches -> Nat]
    /\ result \in [Dispatches -> Outcomes]
    /\ answer \in [Dispatches -> Answers]
    /\ replayed \in [Dispatches -> Dispatches \cup {None}]

\* Every variable has its type.
TypeOK ==
    /\ CoreOK
    /\ retries \in [Dispatches -> 0..MaxRetries]
    /\ clear \subseteq Dispatches

\* The strengthening that makes the fence inductive: tokens lie at or below
\* the row's, a started row names its holder's run, and a dispatch whose
\* receipt is stored or replayed is finished for good.
Settled(e) == pc[e] = "done" /\ answer[e] # "duplicate" /\ token[e] # 0

TokensBelowRow ==
    /\ row.status = "none" => row.token = 0
    /\ \A d \in Dispatches : token[d] <= row.token

HolderNamed == \A d \in Dispatches : Holds(d) => row.run = RunOf[d]

ReceiptsSettled ==
    /\ row.receipt # None => Settled(row.receipt)
    /\ \A d \in Dispatches : replayed[d] # None => Settled(replayed[d])

OmissionRecorded ==
    row.status = "completed" => row.omitted = (result[row.receipt] = "omitted")

\* No two dispatches ever hold the same ownership token, whatever the clocks
\* do: the token a dispatch was given names it for good (no ABA).
UniqueHolder ==
    \A d, e \in Dispatches : token[d] # 0 /\ token[d] = token[e] => d = e

\* A completed record carries the ok receipt of the very run the row names,
\* so _memo_from_record never has to fall back to delegation_runs; a call that
\* outlived its claim has not overwritten it.
CompletedRecoverable ==
    row.status = "completed" =>
        /\ row.receipt # None
        /\ RunOf[row.receipt] = row.run
        /\ Ok(row.receipt)

\* A memo hit replays only the receipt of a fenced call that ended ok with a
\* stored result, never that of a failed, timed-out or unfenced call.
MemoGenuine ==
    \A d \in Dispatches : replayed[d] # None =>
        result[replayed[d]] = "ok" /\ token[replayed[d]] # 0

\* The inductive invariant of the fence: the three properties above with
\* their strengthening.
FenceInv ==
    /\ TypeOK
    /\ TokensBelowRow
    /\ UniqueHolder
    /\ HolderNamed
    /\ ReceiptsSettled
    /\ CompletedRecoverable
    /\ OmissionRecorded
    /\ MemoGenuine

\* Ownership tokens only grow: every change of the row raises its token, and
\* the row is never deleted ("strictly increasing ownership tokens").
TokensIncrease == [][row' # row => row'.token > row.token]_row

\* At most one dispatch is inside a fenced provider call ("refusing to
\* double-execute"), given that calls end before their claim is stale.
ProviderExclusive ==
    \A d, e \in Dispatches : InCall(d) /\ InCall(e) => d = e

\* Effectively once: two dispatches never both come back with a fresh ok
\* result that could be stored; the later one must have replayed the first.
EffectivelyOnce ==
    \A d, e \in Dispatches :
        (/\ answer[d] = "fresh" /\ result[d] = "ok"
         /\ answer[e] = "fresh" /\ result[e] = "ok") => d = e

\* "exactly-once holds whenever the result is memoizable": a completed record
\* with a stored result is never reclaimed for another provider call.
MemoizableIsFinal == [][Replayable(row) => row' = row]_row

\* A dead holder is in the way only until its claim is stale, and nothing a
\* dispatch does is in its own way: one that meets no live claim, and whose row
\* nobody else writes after that, is never refused as a duplicate, through lost
\* begin, stale mark, second read and takeover.
NotRefusedAlone == \A d \in Dispatches : answer[d] = "duplicate" => d \notin clear

=============================================================================
