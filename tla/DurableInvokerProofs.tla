------------------------ MODULE DurableInvokerProofs ------------------------
(***************************************************************************)
(* Proofs about the fence of DurableInvoker, for any set of dispatches, any *)
(* clock skew, any set of failing store calls and any call duration.        *)
(***************************************************************************)
EXTENDS DurableInvoker, TLAPS

USE DEF RowStatus, Phases, Outcomes, Answers, CoreOK

\* The token written by a takeover is a natural above the one it replaces
\* (_next_idempotency_token adds a microsecond to the observed token).
LEMMA NextTokenAbove ==
    ASSUME TypeOK, NEW d \in Dispatches, NEW o \in Nat
    PROVE  NextToken(d, o) \in Nat /\ NextToken(d, o) > o
  <1>1. Now(d) \in Nat
    BY SkewType DEF TypeOK, Now
  <1> QED
    BY <1>1 DEF NextToken, Later

\* The clock a dispatch reads is a positive natural.
LEMMA NowPositive ==
    ASSUME TypeOK, NEW d \in Dispatches
    PROVE  Now(d) \in Nat /\ Now(d) > 0
  BY SkewType DEF TypeOK, Now

\* Initially the invariant holds: no row and no token exist.
LEMMA InitFence == Init => FenceInv
  BY NoneFresh, MaxRetriesType DEF Init, NoRow, FenceInv, TypeOK, TokensBelowRow, UniqueHolder,
     HolderNamed, Holds, ReceiptsSettled, CompletedRecoverable, OmissionRecorded,
     MemoGenuine

\* Every step keeps every variable in its type.
LEMMA TypeStep == TypeOK /\ [Next]_vars => TypeOK'
  <1> SUFFICES ASSUME TypeOK, [Next]_vars PROVE TypeOK'
    OBVIOUS
  <1> USE RunOfType, SkewType
  <1>0. CoreOK
    BY DEF TypeOK
  <1>1. ASSUME NEW d \in Dispatches, NEW miss \in {"begin", "reclaim"}, CheckMemo(d, miss)
        PROVE  CoreOK'
    BY <1>0, <1>1 DEF CheckMemo, Finish, GoTo
  <1>2. ASSUME NEW d \in Dispatches, ProbeMemo(d) PROVE CoreOK'
    BY <1>0, <1>1, <1>2 DEF ProbeMemo
  <1>3. ASSUME NEW d \in Dispatches, BeginInserts(d) PROVE CoreOK'
    BY <1>0, <1>3, NowPositive DEF BeginInserts, GoTo
  <1>4. ASSUME NEW d \in Dispatches, BeginLoses(d) \/ BeginRaises(d) PROVE CoreOK'
    BY <1>0, <1>4 DEF BeginLoses, BeginRaises, GoTo
  <1>5. ASSUME NEW d \in Dispatches, HandleExisting(d) PROVE CoreOK'
    BY <1>0, <1>5 DEF HandleExisting, Observe, GoTo
  <1>6. ASSUME NEW d \in Dispatches, MarkStale(d) PROVE CoreOK'
    <2>1. NextToken(d, obs[d].token) \in Nat
      BY <1>0, NextTokenAbove
    <2> QED
      BY <1>0, <1>6, <2>1 DEF MarkStale, GoTo
  <1>7. ASSUME NEW d \in Dispatches, Fetch(d) PROVE CoreOK'
    BY <1>0, <1>7 DEF Fetch, Observe, GoTo, Finish
  <1>8. ASSUME NEW d \in Dispatches, FetchRaises(d) PROVE CoreOK'
    BY <1>0, <1>8 DEF FetchRaises, GoTo
  <1>9. ASSUME NEW d \in Dispatches, Recheck(d) PROVE CoreOK'
    BY <1>0, <1>1, <1>9 DEF Recheck
  <1>10. ASSUME NEW d \in Dispatches, Reclaim(d) PROVE CoreOK'
    <2>1. NextToken(d, obs[d].token) \in Nat
      BY <1>0, NextTokenAbove
    <2>2. RunOf[d] \in Runs
      OBVIOUS
    <2>3. row' \in [status : RowStatus, run : Runs \cup {None}, token : Nat,
                    receipt : Dispatches \cup {None}, omitted : BOOLEAN]
      BY <1>0, <1>10, <2>1, <2>2 DEF Reclaim
    <2>4. /\ pc' \in [Dispatches -> Phases]
          /\ answer' \in [Dispatches -> Answers]
          /\ token' \in [Dispatches -> Nat]
      <3>1. CASE GoTo(d, "call") /\ UNCHANGED answer
                 /\ token' = [token EXCEPT ![d] = NextToken(d, obs[d].token)]
        BY <1>0, <3>1, <2>1 DEF GoTo
      <3>2. CASE Finish(d, "duplicate") /\ UNCHANGED token
        BY <1>0, <3>2 DEF Finish, GoTo
      <3> QED
        BY <1>0, <1>10, <3>1, <3>2 DEF Reclaim
    <2>5. UNCHANGED <<clock, obs, result, replayed>>
      BY <1>0, <1>10 DEF Reclaim
    <2> QED
      BY <1>0, <2>3, <2>4, <2>5
  <1>11. ASSUME NEW d \in Dispatches, ReclaimLoses(d) PROVE CoreOK'
    BY <1>0, <1>11 DEF ReclaimLoses, GoTo, Finish
  <1>12. ASSUME NEW d \in Dispatches, InnerReturns(d) PROVE CoreOK'
    BY <1>0, <1>12 DEF InnerReturns, GoTo
  <1>13. ASSUME NEW d \in Dispatches, Complete(d) PROVE CoreOK'
    <2>1. NextToken(d, token[d]) \in Nat
      BY <1>0, NextTokenAbove
    <2>2. Completed(d) \in [status : RowStatus, run : Runs \cup {None}, token : Nat,
                            receipt : Dispatches \cup {None}, omitted : BOOLEAN]
      BY <1>0, <2>1 DEF Completed, Ok
    <2>3. Returns(d) \in Answers
      BY DEF Returns
    <2> QED
      BY <1>0, <1>13, <2>2, <2>3 DEF Complete, GoTo, Finish
  <1>14. ASSUME NEW d \in Dispatches, Crash(d) \/ Retry(d) PROVE CoreOK'
    BY <1>0, <1>14 DEF Crash, Retry, GoTo, Finish
  <1>15. ASSUME Tick PROVE CoreOK'
    BY <1>0, <1>15 DEF Tick
  <1>16. ASSUME UNCHANGED vars PROVE CoreOK'
    BY <1>0, <1>16 DEF vars
  <1>17. CoreOK'
    BY <1>2, <1>3, <1>4, <1>5, <1>6, <1>7, <1>8, <1>9, <1>10, <1>11, <1>12, <1>13,
       <1>14, <1>15, <1>16 DEF Next, Step, AllAnswered
  <1> USE DEF TypeOK
  <1>18. retries' \in [Dispatches -> 0..MaxRetries]
    <2>1. ASSUME NEW d \in Dispatches, Retry(d) PROVE retries' \in [Dispatches -> 0..MaxRetries]
      <3>1. retries[d] + 1 \in 0..MaxRetries
        BY <2>1, MaxRetriesType DEF Retry
      <3> QED
        BY <2>1, <3>1 DEF Retry
    <2>2. (\E d \in Dispatches : Retry(d)) \/ UNCHANGED retries
      BY DEF Next, Tick, AllAnswered, vars
    <2> QED
      BY <2>1, <2>2
  <1>19. clear' \subseteq Dispatches
    <2>1. (\E d \in Dispatches : Watch(d)) \/ UNCHANGED clear
      BY DEF Next, Retry, Tick, AllAnswered, vars
    <2> QED
      BY <2>1 DEF Watch
  <1> QED
    BY <1>17, <1>18, <1>19

\* A step that writes neither the row nor a token keeps the invariant when it
\* leaves settled dispatches alone and replays only a replayable row.
LEMMA RowUntouched ==
    ASSUME FenceInv, TypeOK', UNCHANGED <<row, token>>,
           \A e \in Dispatches : Settled(e) => Settled(e)' /\ result'[e] = result[e],
           \A e \in Dispatches : replayed'[e] # replayed[e] =>
                                Replayable(row) /\ replayed'[e] = row.receipt
    PROVE  FenceInv'
  <1> USE DEF FenceInv
  <1>1. TokensBelowRow' /\ UniqueHolder' /\ HolderNamed'
    BY DEF TokensBelowRow, UniqueHolder, HolderNamed, Holds
  <1>2. row.receipt # None => row.receipt \in Dispatches /\ Settled(row.receipt)
    BY DEF ReceiptsSettled, TypeOK
  <1>3. Replayable(row) => /\ row.receipt \in Dispatches
                           /\ result[row.receipt] = "ok"
    BY <1>2 DEF Replayable, CompletedRecoverable, OmissionRecorded, Ok
  <1>4. CompletedRecoverable' /\ OmissionRecorded'
    BY <1>2 DEF CompletedRecoverable, OmissionRecorded, Ok
  <1>5. \A e \in Dispatches : replayed'[e] # None =>
            /\ replayed'[e] \in Dispatches
            /\ Settled(replayed'[e])
            /\ result[replayed'[e]] = "ok"
    BY <1>2, <1>3 DEF ReceiptsSettled, MemoGenuine, TypeOK, Replayable
  <1>6. ReceiptsSettled'
    BY <1>2, <1>5 DEF ReceiptsSettled
  <1>7. MemoGenuine'
    BY <1>5 DEF MemoGenuine, Settled
  <1> QED
    BY <1>1, <1>4, <1>6, <1>7

\* The common case: only the place of one unsettled dispatch changes.
LEMMA OnlyPlaces ==
    ASSUME FenceInv, TypeOK', UNCHANGED <<row, token, result, replayed>>,
           \A e \in Dispatches : Settled(e) => Settled(e)'
    PROVE  FenceInv'
  <1>1. UNCHANGED <<row, token>>
    OBVIOUS
  <1>2. \A e \in Dispatches : Settled(e) => Settled(e)' /\ result'[e] = result[e]
    OBVIOUS
  <1>3. \A e \in Dispatches : replayed'[e] # replayed[e] =>
                                Replayable(row) /\ replayed'[e] = row.receipt
    OBVIOUS
  <1> QED
    BY <1>1, <1>2, <1>3, RowUntouched

\* A dispatch that claims or expires the row writes a token above every other
\* and never completes the record: the invariant survives.  `holder' is the
\* dispatch that keeps the new token, if any.
LEMMA RowTaken ==
    ASSUME FenceInv, TypeOK', NEW d \in Dispatches, pc[d] # "done",
           UNCHANGED <<result, replayed>>,
           \A e \in Dispatches \ {d} : pc'[e] = pc[e] /\ answer'[e] = answer[e]
                                      /\ token'[e] = token[e],
           row'.token > row.token, row'.status \in {"started", "stale"},
           row'.receipt \in {row.receipt, None},
           \/ token'[d] = token[d]
           \/ token'[d] = row'.token /\ row'.run = RunOf[d]
    PROVE  FenceInv'
  <1> USE DEF FenceInv
  <1>1. \A e \in Dispatches : token[e] <= row.token /\ token[e] < row'.token
    BY DEF TokensBelowRow, TypeOK
  <1>2. TokensBelowRow'
    BY <1>1 DEF TokensBelowRow, TypeOK
  <1>3. UniqueHolder'
    <2>1. \A e, f \in Dispatches : token[e] # 0 /\ token[e] = token[f] => e = f
      BY DEF UniqueHolder
    <2>2. token'[d] = token[d] \/ \A e \in Dispatches : token'[d] # token[e]
      BY <1>1 DEF TypeOK
    <2> QED
      BY <2>1, <2>2 DEF UniqueHolder
  <1>4. HolderNamed'
    BY <1>1 DEF HolderNamed, Holds, TypeOK
  <1>5. \A e \in Dispatches : Settled(e) => Settled(e)'
    BY DEF Settled
  <1>6. ReceiptsSettled'
    BY <1>5 DEF ReceiptsSettled, TypeOK
  <1>7. CompletedRecoverable' /\ OmissionRecorded'
    BY DEF CompletedRecoverable, OmissionRecorded
  <1>8. MemoGenuine'
    BY <1>5 DEF MemoGenuine, ReceiptsSettled, Settled, TypeOK
  <1> QED
    BY <1>2, <1>3, <1>4, <1>6, <1>7, <1>8

\* The fenced completion of the row's current holder stores its own receipt.
LEMMA CompletionKeepsFence ==
    ASSUME FenceInv, TypeOK', NEW d \in Dispatches, Complete(d)
    PROVE  FenceInv'
  <1> USE DEF FenceInv
  <1>1. /\ pc[d] = "complete" /\ pc'[d] = "done" /\ answer'[d] = Returns(d)
        /\ \A e \in Dispatches \ {d} : pc'[e] = pc[e] /\ answer'[e] = answer[e]
        /\ UNCHANGED <<clock, obs, token, result, replayed>>
    BY DEF Complete, Finish, GoTo, TypeOK
  <1>2. Returns(d) # "duplicate"
    BY DEF Returns
  <1>3. \A e \in Dispatches : Settled(e) => Settled(e)'
    BY <1>1 DEF Settled
  <1>4. CASE UNCHANGED row
    BY <1>1, <1>3, <1>4, OnlyPlaces
  <1>5. CASE Holds(d) /\ row' = Completed(d)
    <2>1. /\ row'.token = NextToken(d, token[d]) /\ row'.run = row.run
          /\ row'.status = (IF Ok(d) THEN "completed" ELSE "failed")
          /\ row'.receipt = (IF result[d] = "raised" THEN row.receipt ELSE d)
          /\ row'.omitted = (IF result[d] = "raised" THEN row.omitted
                             ELSE result[d] = "omitted")
      BY <1>5 DEF Completed, TypeOK
    <2>2. row'.token \in Nat /\ row'.token > row.token /\ token[d] # 0
      BY <2>1, <1>5, NextTokenAbove DEF Holds, TypeOK
    <2>3. Settled(d)'
      BY <1>1, <1>2, <2>2 DEF Settled
    <2>4. TokensBelowRow'
      BY <1>1, <2>1, <2>2 DEF TokensBelowRow, TypeOK
    <2>5. UniqueHolder' /\ HolderNamed'
      BY <1>1, <2>1 DEF UniqueHolder, HolderNamed, Holds
    <2>6. ReceiptsSettled'
      BY <1>1, <1>3, <2>1, <2>3 DEF ReceiptsSettled, TypeOK
    <2>7. row.run = RunOf[d]
      BY <1>5 DEF HolderNamed
    <2>8. CompletedRecoverable' /\ OmissionRecorded'
      BY <1>1, <2>1, <2>7, NoneFresh DEF CompletedRecoverable, OmissionRecorded, Ok
    <2>9. MemoGenuine'
      BY <1>1 DEF MemoGenuine
    <2> QED
      BY <2>4, <2>5, <2>6, <2>8, <2>9
  <1> QED
    BY <1>4, <1>5 DEF Complete

\* Every step of the system keeps the invariant.
LEMMA FenceStep == FenceInv /\ [Next]_vars => FenceInv'
  <1> SUFFICES ASSUME FenceInv, [Next]_vars PROVE FenceInv'
    OBVIOUS
  <1>0. TypeOK /\ TypeOK'
    BY TypeStep DEF FenceInv
  <1>1. ASSUME NEW d \in Dispatches, NEW miss, pc[d] # "done", CheckMemo(d, miss)
        PROVE  FenceInv'
    <2>1. \A e \in Dispatches : Settled(e) => Settled(e)' /\ result'[e] = result[e]
      BY <1>1, <1>0 DEF CheckMemo, Finish, GoTo, Settled, TypeOK
    <2>2. \A e \in Dispatches : replayed'[e] # replayed[e] =>
                                Replayable(row) /\ replayed'[e] = row.receipt
      BY <1>1, <1>0 DEF CheckMemo, TypeOK
    <2>3. UNCHANGED <<row, token>>
      BY <1>1 DEF CheckMemo
    <2> QED
      BY <1>0, <2>1, <2>2, <2>3, RowUntouched
  <1>2. ASSUME NEW d \in Dispatches, ProbeMemo(d) \/ Recheck(d) PROVE FenceInv'
    BY <1>1, <1>2 DEF ProbeMemo, Recheck
  <1>3. ASSUME NEW d \in Dispatches, BeginInserts(d) PROVE FenceInv'
    <2>1. row.token = 0 /\ Now(d) > 0
      BY <1>3, <1>0, NowPositive DEF BeginInserts, FenceInv, TokensBelowRow
    <2>2. /\ row'.token = Now(d) /\ row'.status = "started" /\ row'.receipt = None
          /\ row'.run = RunOf[d]
      BY <1>3 DEF BeginInserts
    <2>3. token'[d] = token[d] \/ token'[d] = row'.token
      BY <1>3, <1>0, <2>2 DEF BeginInserts, TypeOK
    <2>4. \A e \in Dispatches \ {d} : pc'[e] = pc[e] /\ answer'[e] = answer[e]
                                     /\ token'[e] = token[e]
      BY <1>3, <1>0 DEF BeginInserts, GoTo, TypeOK
    <2>5. pc[d] # "done" /\ UNCHANGED <<result, replayed>>
      BY <1>3 DEF BeginInserts
    <2> QED
      BY <1>0, <2>1, <2>2, <2>3, <2>4, <2>5, RowTaken
  <1>4. ASSUME NEW d \in Dispatches,
               BeginLoses(d) \/ BeginRaises(d) \/ HandleExisting(d) \/ Fetch(d)
               \/ FetchRaises(d) \/ ReclaimLoses(d) \/ Crash(d)
        PROVE  FenceInv'
    <2>1. pc[d] # "done" /\ UNCHANGED <<row, token, result, replayed>>
      BY <1>4 DEF BeginLoses, BeginRaises, HandleExisting, Fetch, FetchRaises,
                  ReclaimLoses, Crash
    <2>2. \A e \in Dispatches \ {d} : pc'[e] = pc[e] /\ answer'[e] = answer[e]
      BY <1>4, <1>0 DEF BeginLoses, BeginRaises, HandleExisting, Fetch, FetchRaises,
                        ReclaimLoses, Crash, GoTo, Finish, TypeOK
    <2>3. \A e \in Dispatches : Settled(e) => Settled(e)'
      BY <2>1, <2>2 DEF Settled
    <2> QED
      BY <1>0, <2>1, <2>3, OnlyPlaces
  <1>5. ASSUME NEW d \in Dispatches, MarkStale(d) PROVE FenceInv'
    <2>1. /\ pc[d] = "mark" /\ UNCHANGED <<clock, obs, token, result, answer, replayed>>
          /\ \A e \in Dispatches \ {d} : pc'[e] = pc[e]
      BY <1>5, <1>0 DEF MarkStale, GoTo, TypeOK
    <2>2. CASE UNCHANGED row
      <3>1. \A e \in Dispatches : Settled(e) => Settled(e)'
        BY <2>1 DEF Settled
      <3> QED
        BY <1>0, <2>1, <2>2, <3>1, OnlyPlaces
    <2>3. CASE Matches(d) /\ row' = [row EXCEPT !.status = "stale",
                                               !.token = NextToken(d, obs[d].token)]
      <3>1. row'.status = "stale" /\ row'.receipt = row.receipt
            /\ row'.token = NextToken(d, obs[d].token)
        BY <2>3, <1>0 DEF TypeOK
      <3>2. row'.token > row.token
        BY <2>3, <3>1, <1>0, NextTokenAbove DEF Matches, TypeOK
      <3> QED
        BY <1>0, <2>1, <3>1, <3>2, RowTaken
    <2> QED
      BY <1>5, <2>2, <2>3 DEF MarkStale
  <1>6. ASSUME NEW d \in Dispatches, Reclaim(d) PROVE FenceInv'
    <2>1. /\ row'.status = "started" /\ row'.receipt = row.receipt
          /\ row'.run = RunOf[d] /\ row'.token = NextToken(d, obs[d].token)
      BY <1>6, <1>0 DEF Reclaim, TypeOK
    <2>2. row'.token > row.token
      BY <1>6, <2>1, <1>0, NextTokenAbove DEF Reclaim, Matches, TypeOK
    <2>3. token'[d] = token[d] \/ token'[d] = row'.token
      BY <1>6, <2>1, <1>0 DEF Reclaim, TypeOK
    <2>4. \A e \in Dispatches \ {d} : pc'[e] = pc[e] /\ answer'[e] = answer[e]
                                     /\ token'[e] = token[e]
      BY <1>6, <1>0 DEF Reclaim, Finish, GoTo, TypeOK
    <2>5. pc[d] # "done" /\ UNCHANGED <<result, replayed>>
      BY <1>6 DEF Reclaim
    <2> QED
      BY <1>0, <2>1, <2>2, <2>3, <2>4, <2>5, RowTaken
  <1>7. ASSUME NEW d \in Dispatches, InnerReturns(d) PROVE FenceInv'
    <2>1. \A e \in Dispatches : Settled(e) => Settled(e)' /\ result'[e] = result[e]
      BY <1>7, <1>0 DEF InnerReturns, GoTo, Settled, TypeOK
    <2>2. UNCHANGED <<row, token>>
      BY <1>7 DEF InnerReturns
    <2>3. \A e \in Dispatches : replayed'[e] # replayed[e] =>
                                Replayable(row) /\ replayed'[e] = row.receipt
      BY <1>7 DEF InnerReturns
    <2> QED
      BY <1>0, <2>1, <2>2, <2>3, RowUntouched
  <1>8. ASSUME NEW d \in Dispatches, Complete(d) PROVE FenceInv'
    BY <1>0, <1>8, CompletionKeepsFence
  <1>9. ASSUME NEW d \in Dispatches, Retry(d) PROVE FenceInv'
    <2>1. \A e \in Dispatches : Settled(e) => Settled(e)'
      BY <1>9, <1>0 DEF Retry, GoTo, Settled, TypeOK
    <2>2. UNCHANGED <<row, token, result, replayed>>
      BY <1>9 DEF Retry
    <2> QED
      BY <1>0, <2>1, <2>2, OnlyPlaces
  <1>10. CASE Tick \/ UNCHANGED vars
    <2>1. UNCHANGED <<row, pc, obs, token, result, answer, replayed>>
      BY <1>10 DEF Tick, vars
    <2>2. \A e \in Dispatches : Settled(e) => Settled(e)'
      BY <2>1 DEF Settled
    <2> QED
      BY <1>0, <2>1, <2>2, OnlyPlaces
  <1> QED
    BY <1>2, <1>3, <1>4, <1>5, <1>6, <1>7, <1>8, <1>9, <1>10 DEF Next, Step, AllAnswered

\* The fence invariant holds in every reachable state: no ownership token is
\* ever shared and a completed record always carries the ok receipt of the
\* run it names, whatever crashes, store failures and clocks do.
THEOREM FenceHolds == Spec => []FenceInv
  BY InitFence, FenceStep, PTL DEF Spec

\* Every variable of the invoker keeps its type, for any dispatches and clocks.
THEOREM DurableTypeOK == Spec => []TypeOK
  <1>1. FenceInv => TypeOK
    BY DEF FenceInv
  <1> QED
    BY <1>1, FenceHolds, PTL

\* The parts of the invariant that the callers of DurableInvoker rely on.
THEOREM UniqueHolderHolds == Spec => []UniqueHolder
  <1>1. FenceInv => UniqueHolder
    BY DEF FenceInv
  <1> QED
    BY <1>1, FenceHolds, PTL

\* A completed record can always be replayed from its own metadata.
THEOREM CompletedRecoverableHolds == Spec => []CompletedRecoverable
  <1>1. FenceInv => CompletedRecoverable
    BY DEF FenceInv
  <1> QED
    BY <1>1, FenceHolds, PTL

\* A memo hit only ever replays a fenced call that ended ok.
THEOREM MemoGenuineHolds == Spec => []MemoGenuine
  <1>1. FenceInv => MemoGenuine
    BY DEF FenceInv
  <1> QED
    BY <1>1, FenceHolds, PTL

\* One step never lowers nor keeps the token of a row it changes.
LEMMA TokenStep ==
    ASSUME FenceInv, [Next]_vars
    PROVE  row' # row => row'.token > row.token
  <1> USE DEF FenceInv
  <1>1. ASSUME NEW d \in Dispatches, BeginInserts(d) PROVE row'.token > row.token
    BY <1>1, NowPositive DEF BeginInserts, TokensBelowRow
  <1>2. ASSUME NEW d \in Dispatches, MarkStale(d), row' # row
        PROVE  row'.token > row.token
    BY <1>2, NextTokenAbove DEF MarkStale, Matches, TypeOK
  <1>3. ASSUME NEW d \in Dispatches, Reclaim(d) PROVE row'.token > row.token
    BY <1>3, NextTokenAbove DEF Reclaim, Matches, TypeOK
  <1>4. ASSUME NEW d \in Dispatches, Complete(d), row' # row
        PROVE  row'.token > row.token
    <2>1. Holds(d) /\ row' = Completed(d)
      BY <1>4 DEF Complete
    <2>2. row'.token = NextToken(d, token[d]) /\ row.token = token[d]
      BY <2>1 DEF Completed, Holds, TypeOK
    <2> QED
      BY <2>2, NextTokenAbove DEF TypeOK
  <1>5. ASSUME NEW d \in Dispatches, Step(d) \/ Crash(d) \/ Retry(d), row' # row
        PROVE  BeginInserts(d) \/ MarkStale(d) \/ Reclaim(d) \/ Complete(d)
    BY <1>5 DEF Step, ProbeMemo, CheckMemo, BeginLoses, BeginRaises, HandleExisting,
                Fetch, FetchRaises, Recheck, ReclaimLoses, InnerReturns, Crash, Retry
  <1> QED
    BY <1>1, <1>2, <1>3, <1>4, <1>5 DEF Next, Tick, AllAnswered, vars

\* Ownership tokens strictly increase along every behaviour.
THEOREM TokensIncreaseHolds == Spec => TokensIncrease
  <1>1. FenceInv /\ [Next]_vars => [row' # row => row'.token > row.token]_row
    BY TokenStep
  <1> QED
    BY <1>1, FenceHolds, PTL DEF Spec, TokensIncrease

-----------------------------------------------------------------------------
(* What a dispatch has seen when it writes *)

Seen == [status |-> row.status, token |-> row.token]

\* A dispatch touches its own variables, the row, and nothing else.
LEMMA StepsAlone ==
    ASSUME TypeOK, NEW d \in Dispatches, Step(d) \/ Crash(d) \/ Retry(d)
    PROVE  /\ clock' = clock
           /\ \A e \in Dispatches \ {d} :
                 /\ pc'[e] = pc[e] /\ obs'[e] = obs[e] /\ token'[e] = token[e]
                 /\ result'[e] = result[e] /\ answer'[e] = answer[e]
  <1> USE DEF TypeOK
  <1>1. CASE ProbeMemo(d) \/ Recheck(d)
    BY <1>1 DEF ProbeMemo, Recheck, CheckMemo, Finish, GoTo
  <1>2. CASE BeginInserts(d) \/ BeginLoses(d) \/ BeginRaises(d) \/ HandleExisting(d)
    BY <1>2 DEF BeginInserts, BeginLoses, BeginRaises, HandleExisting, Observe, GoTo
  <1>3. CASE MarkStale(d) \/ Fetch(d) \/ FetchRaises(d)
    BY <1>3 DEF MarkStale, Fetch, FetchRaises, Observe, Finish, GoTo
  <1>4. CASE Reclaim(d) \/ ReclaimLoses(d)
    BY <1>4 DEF Reclaim, ReclaimLoses, Finish, GoTo
  <1>5. CASE InnerReturns(d) \/ Complete(d) \/ Crash(d) \/ Retry(d)
    BY <1>5 DEF InnerReturns, Complete, Crash, Retry, Finish, GoTo
  <1> QED
    BY <1>1, <1>2, <1>3, <1>4, <1>5 DEF Step

\* Where a dispatch goes after it has read the record.
LEMMA StepsSee ==
    ASSUME TypeOK, NEW d \in Dispatches, Step(d) \/ Crash(d) \/ Retry(d)
    PROVE  /\ obs'[d] = obs[d] \/ (obs'[d] = Seen /\ row' = row)
           /\ pc'[d] = "mark" => obs'[d] = Seen /\ StartedStale(d, row) /\ row' = row
           /\ pc'[d] = "recheck" => obs'[d] = Seen /\ row.status = "completed" /\ row' = row
           /\ pc'[d] = "reclaim" =>
                 /\ row' = row
                 /\ \/ /\ obs'[d] = Seen
                       /\ row.status \in {"stale", "failed"} \/ StartedStale(d, row)
                    \/ /\ obs'[d] = obs[d] /\ pc[d] = "recheck"
                       /\ ~Replayable(row) \/ MayFail("memo")
  <1> USE DEF TypeOK, Seen
  <1>1. CASE ProbeMemo(d) \/ Recheck(d)
    BY <1>1 DEF ProbeMemo, Recheck, CheckMemo, Finish, GoTo
  <1>2. CASE BeginInserts(d) \/ BeginLoses(d) \/ BeginRaises(d) \/ FetchRaises(d)
    BY <1>2 DEF BeginInserts, BeginLoses, BeginRaises, FetchRaises, GoTo
  <1>3. CASE HandleExisting(d)
    BY <1>3 DEF HandleExisting, Observe, GoTo
  <1>4. CASE MarkStale(d)
    BY <1>4 DEF MarkStale, GoTo
  <1>5. CASE Fetch(d)
    BY <1>5 DEF Fetch, Observe, Finish, GoTo
  <1>6. CASE Reclaim(d) \/ ReclaimLoses(d)
    BY <1>6 DEF Reclaim, ReclaimLoses, Finish, GoTo
  <1>7. CASE InnerReturns(d) \/ Complete(d) \/ Crash(d) \/ Retry(d)
    BY <1>7 DEF InnerReturns, Complete, Crash, Retry, Finish, GoTo
  <1> QED
    BY <1>1, <1>2, <1>3, <1>4, <1>5, <1>6, <1>7 DEF Step

\* The row changes under the four writers, each with the row it has seen.
LEMMA RowWritten ==
    ASSUME NEW d \in Dispatches, Step(d) \/ Crash(d) \/ Retry(d), row' # row
    PROVE  \/ BeginInserts(d) /\ row.status = "none"
           \/ MarkStale(d) /\ pc[d] = "mark" /\ Matches(d)
           \/ Reclaim(d) /\ pc[d] = "reclaim" /\ Matches(d)
           \/ Complete(d) /\ Holds(d) /\ row' = Completed(d)
  BY DEF Step, ProbeMemo, CheckMemo, BeginInserts, BeginLoses, BeginRaises, HandleExisting,
     MarkStale, Fetch, FetchRaises, Recheck, Reclaim, ReclaimLoses, InnerReturns, Complete,
     Crash, Retry

-----------------------------------------------------------------------------
(* A stored result is final *)

\* A dispatch that goes to reclaim the record it has seen has not seen one it
\* could replay.
SeenInv ==
    \A d \in Dispatches :
        /\ obs[d].token <= row.token
        /\ pc[d] = "recheck" => obs[d].status = "completed"
        /\ pc[d] = "mark" => obs[d].status = "started"
        /\ pc[d] = "reclaim" /\ Matches(d) => ~Replayable(row)

\* Every change of the row outdates what the dispatches have seen.
LEMMA SeenStep ==
    ASSUME "memo" \notin Faults, FenceInv, SeenInv, [Next]_vars
    PROVE  SeenInv'
  <1>1. TypeOK /\ TypeOK' /\ (row' # row => row'.token > row.token)
    BY TypeStep, TokenStep DEF FenceInv
  <1>2. ASSUME NEW d \in Dispatches, Step(d) \/ Crash(d) \/ Retry(d) PROVE SeenInv'
    <2>1. \A e \in Dispatches \ {d} : pc'[e] = pc[e] /\ obs'[e] = obs[e]
      BY <1>1, <1>2, StepsAlone
    <2>2. CASE row' # row
      <3>1. obs'[d] = obs[d] /\ pc'[d] \notin {"mark", "recheck", "reclaim"}
        BY <1>1, <1>2, <2>2, StepsSee
      <3>2. \A e \in Dispatches : obs'[e].token < row'.token
        BY <1>1, <2>1, <2>2, <3>1 DEF SeenInv, TypeOK
      <3>3. \A e \in Dispatches : ~Matches(e)' /\ obs'[e].token <= row'.token
        BY <1>1, <3>2 DEF Matches, TypeOK
      <3> QED
        BY <2>1, <3>1, <3>3 DEF SeenInv
    <2>3. CASE row' = row
      <3>1. ASSUME NEW e \in Dispatches \ {d}
            PROVE  /\ obs'[e].token <= row'.token
                   /\ pc'[e] = "recheck" => obs'[e].status = "completed"
                   /\ pc'[e] = "mark" => obs'[e].status = "started"
                   /\ pc'[e] = "reclaim" /\ Matches(e)' => ~Replayable(row')
        BY <2>1, <2>3 DEF SeenInv, Matches
      <3>2. obs'[d].token <= row'.token
        BY <1>1, <1>2, <2>3, StepsSee DEF SeenInv, Seen, TypeOK
      <3>3. /\ pc'[d] = "recheck" => obs'[d].status = "completed"
            /\ pc'[d] = "mark" => obs'[d].status = "started"
        BY <1>1, <1>2, StepsSee DEF Seen, StartedStale
      <3>4. pc'[d] = "reclaim" => ~Replayable(row')
        BY <1>1, <1>2, <2>3, StepsSee DEF StartedStale, Replayable, MayFail
      <3> QED
        BY <3>1, <3>2, <3>3, <3>4 DEF SeenInv, Replayable
    <2> QED
      BY <2>2, <2>3
  <1>3. CASE Tick \/ UNCHANGED vars
    <2>1. UNCHANGED <<row, pc, obs>>
      BY <1>3 DEF Tick, vars
    <2> QED
      BY <2>1 DEF SeenInv, Matches, Replayable
  <1> QED
    BY <1>2, <1>3 DEF Next, AllAnswered

\* No step changes a record that can be replayed.
LEMMA FinalStep ==
    ASSUME FenceInv, SeenInv, [Next]_vars, Replayable(row)
    PROVE  row' = row
  <1>1. ASSUME NEW d \in Dispatches, Step(d) \/ Crash(d) \/ Retry(d), row' # row PROVE FALSE
    BY <1>1, RowWritten DEF Replayable, SeenInv, Matches, Holds
  <1> QED
    BY <1>1 DEF Next, Tick, AllAnswered, vars

\* The inductive invariant of the memo, where its probe does not fail.
LEMMA SeenHolds ==
    ASSUME "memo" \notin Faults
    PROVE  Spec => []SeenInv
  <1>1. Init => SeenInv
    BY DEF Init, SeenInv, NoRow
  <1>2. FenceInv /\ SeenInv /\ [Next]_vars => SeenInv'
    BY SeenStep
  <1> QED
    BY <1>1, <1>2, FenceHolds, PTL DEF Spec

\* Where the memo can be read, a stored result is never given up for another
\* provider call, whatever the other store calls, the clocks and the calls do.
THEOREM MemoizableIsFinalHolds ==
    ASSUME "memo" \notin Faults
    PROVE  Spec => MemoizableIsFinal
  <1>1. FenceInv /\ SeenInv /\ [Next]_vars => [Replayable(row) => row' = row]_row
    BY FinalStep
  <1> QED
    BY <1>1, FenceHolds, SeenHolds, PTL DEF Spec, MemoizableIsFinal

-----------------------------------------------------------------------------
(* One provider call at a time *)

\* Every dispatch reads the same clock.
SameClocks == \A d, e \in Dispatches : Skew[d] = Skew[e]

\* A dispatch has no token before its call, and none when it is refused.
TokenFirst ==
    \A d \in Dispatches :
        /\ pc[d] \notin {"call", "complete", "done"} => token[d] = 0
        /\ answer[d] = "duplicate" => token[d] = 0
        /\ pc[d] # "done" => answer[d] = "none"

\* A dispatch takes over a started record only when its claim is too old.
SeenStale ==
    \A d \in Dispatches :
        pc[d] \in {"mark", "recheck", "reclaim"} =>
            /\ obs[d].status # "none"
            /\ obs[d].status = "started" => obs[d].token + StaleAfter <= Now(d)

\* A fenced call owns the row, and its claim is young.
CallsHold ==
    \A d \in Dispatches : InCall(d) => Holds(d) /\ Now(d) < token[d] + StaleAfter

CallInv == TokenFirst /\ SeenStale /\ CallsHold

\* The token a dispatch gets is the row's, and is not in its past.
LEMMA TokenGiven ==
    ASSUME FenceInv, TokenFirst, NEW d \in Dispatches, Step(d) \/ Crash(d) \/ Retry(d),
           token'[d] # token[d]
    PROVE  /\ pc[d] \in {"begin", "reclaim"} /\ pc'[d] = "call" /\ answer' = answer
           /\ row'.status = "started" /\ row'.token = token'[d]
           /\ token'[d] \in Nat /\ token'[d] >= Now(d) /\ token'[d] # 0
  <1>1. TypeOK /\ Now(d) \in Nat /\ Now(d) > 0
    BY NowPositive DEF FenceInv
  <1>2. CASE BeginInserts(d)
    BY <1>1, <1>2 DEF BeginInserts, GoTo, TypeOK
  <1>3. CASE Reclaim(d)
    <2>1. obs[d].token \in Nat
      BY <1>1 DEF TypeOK
    <2>2. NextToken(d, obs[d].token) \in Nat /\ NextToken(d, obs[d].token) >= Now(d)
      BY <1>1, <2>1 DEF NextToken, Later
    <2>3. /\ token'[d] = NextToken(d, obs[d].token) /\ row'.token = NextToken(d, obs[d].token)
          /\ row'.status = "started" /\ pc[d] = "reclaim" /\ pc'[d] = "call" /\ answer' = answer
      BY <1>1, <1>3 DEF Reclaim, GoTo, TypeOK
    <2> QED
      BY <1>1, <2>2, <2>3
  <1>4. BeginInserts(d) \/ Reclaim(d)
    BY DEF Step, ProbeMemo, CheckMemo, BeginLoses, BeginRaises, HandleExisting, MarkStale, Fetch,
       FetchRaises, Recheck, ReclaimLoses, InnerReturns, Complete, Crash, Retry
  <1> QED
    BY <1>2, <1>3, <1>4

\* What a dispatch answers, and where it goes from a call.
LEMMA StepsAnswer ==
    ASSUME TypeOK, TokenFirst, NEW d \in Dispatches, Step(d) \/ Crash(d) \/ Retry(d)
    PROVE  /\ pc'[d] # "done" => answer'[d] = "none"
           /\ answer'[d] = "duplicate" => pc[d] \in {"fetch", "reclaim"}
           /\ pc'[d] \notin {"call", "complete", "done"} =>
                 pc[d] \notin {"call", "complete", "done"} \/ answer[d] = "duplicate"
           /\ pc[d] = "done" => pc'[d] # "done" /\ answer'[d] = "none"
           /\ pc'[d] = "complete" => pc[d] = "call" /\ row' = row
           /\ pc'[d] = "call" => pc[d] \notin {"call", "complete", "done"}
  <1> USE DEF TypeOK, TokenFirst
  <1>1. CASE ProbeMemo(d) \/ Recheck(d)
    BY <1>1 DEF ProbeMemo, Recheck, CheckMemo, Finish, GoTo
  <1>2. CASE BeginInserts(d) \/ BeginLoses(d) \/ BeginRaises(d) \/ FetchRaises(d) \/ HandleExisting(d)
    BY <1>2 DEF BeginInserts, BeginLoses, BeginRaises, FetchRaises, HandleExisting, GoTo
  <1>3. CASE MarkStale(d)
    BY <1>3 DEF MarkStale, GoTo
  <1>4. CASE Fetch(d)
    BY <1>4 DEF Fetch, Observe, Finish, GoTo
  <1>5. CASE Reclaim(d) \/ ReclaimLoses(d)
    BY <1>5 DEF Reclaim, ReclaimLoses, Finish, GoTo
  <1>6. CASE Complete(d)
    BY <1>6 DEF Complete, Returns, Finish, GoTo
  <1>7. CASE InnerReturns(d) \/ Crash(d) \/ Retry(d)
    BY <1>7 DEF InnerReturns, Crash, Retry, Finish, GoTo
  <1> QED
    BY <1>1, <1>2, <1>3, <1>4, <1>5, <1>6, <1>7 DEF Step

\* Tokens come with the call, for good.
LEMMA TokenFirstStep ==
    ASSUME FenceInv, TokenFirst, [Next]_vars
    PROVE  TokenFirst'
  <1>1. TypeOK
    BY DEF FenceInv
  <1>2. ASSUME NEW d \in Dispatches, Step(d) \/ Crash(d) \/ Retry(d) PROVE TokenFirst'
    <2>1. \A e \in Dispatches \ {d} : pc'[e] = pc[e] /\ token'[e] = token[e] /\ answer'[e] = answer[e]
      BY <1>1, <1>2, StepsAlone
    <2>2. pc'[d] # "done" => answer'[d] = "none"
      BY <1>1, <1>2, StepsAnswer DEF TokenFirst
    <2>3. CASE token'[d] # token[d]
      <3>1. pc'[d] = "call"
        BY <1>2, <2>3, TokenGiven
      <3> QED
        BY <2>1, <2>2, <3>1 DEF TokenFirst
    <2>4. CASE token'[d] = token[d]
      <3>1. answer'[d] = "duplicate" => token'[d] = 0
        BY <1>1, <1>2, <2>4, StepsAnswer DEF TokenFirst
      <3>2. pc'[d] \notin {"call", "complete", "done"} => token'[d] = 0
        BY <1>1, <1>2, <2>4, StepsAnswer DEF TokenFirst
      <3> QED
        BY <2>1, <2>2, <3>1, <3>2 DEF TokenFirst
    <2> QED
      BY <2>3, <2>4
  <1>3. CASE Tick \/ UNCHANGED vars
    BY <1>3 DEF Tick, vars, TokenFirst
  <1> QED
    BY <1>2, <1>3 DEF Next, AllAnswered

\* A claim that was too old when it was read stays too old.
LEMMA SeenStaleStep ==
    ASSUME FenceInv, SeenStale, [Next]_vars
    PROVE  SeenStale'
  <1>1. TypeOK /\ clock \in Nat
    BY DEF FenceInv, TypeOK
  <1>2. ASSUME NEW d \in Dispatches, Step(d) \/ Crash(d) \/ Retry(d) PROVE SeenStale'
    <2>1. /\ clock' = clock
          /\ \A e \in Dispatches \ {d} : pc'[e] = pc[e] /\ obs'[e] = obs[e]
      BY <1>1, <1>2, StepsAlone
    <2>2. ASSUME pc'[d] \in {"mark", "recheck", "reclaim"}
          PROVE  /\ obs'[d].status # "none"
                 /\ obs'[d].status = "started" => obs'[d].token + StaleAfter <= Now(d)
      BY <1>1, <1>2, <2>2, StepsSee DEF SeenStale, Seen, StartedStale, TypeOK
    <2> QED
      BY <2>1, <2>2 DEF SeenStale, Now
  <1>3. CASE Tick
    <2>1. /\ clock' = clock + 1 /\ UNCHANGED <<pc, obs>>
      BY <1>3 DEF Tick
    <2>2. \A d \in Dispatches : obs[d].token \in Nat /\ Skew[d] \in Nat
      BY <1>1, SkewType DEF TypeOK
    <2> QED
      BY <1>1, <2>1, <2>2, StaleAfterType DEF SeenStale, Now
  <1>4. CASE UNCHANGED vars
    BY <1>4 DEF vars, SeenStale, Now
  <1> QED
    BY <1>2, <1>3, <1>4 DEF Next, AllAnswered

\* Nobody takes the row from a prompt call.
LEMMA RowKept ==
    ASSUME SameClocks, FenceInv, CallInv, NEW d \in Dispatches, NEW e \in Dispatches,
           d # e, InCall(e), Step(d) \/ Crash(d) \/ Retry(d)
    PROVE  row' = row
  <1>1. TypeOK /\ UniqueHolder /\ Holds(e) /\ Now(e) < token[e] + StaleAfter
    BY DEF FenceInv, CallInv, CallsHold
  <1>2. /\ row.status = "started" /\ row.token = token[e] /\ token[e] # 0 /\ token[e] \in Nat
        /\ Now(d) = Now(e) /\ Now(e) \in Nat /\ StaleAfter \in Nat
    BY <1>1, NowPositive, StaleAfterType DEF Holds, SameClocks, Now, TypeOK
  <1>3. ASSUME pc[d] \in {"mark", "reclaim"}, Matches(d) PROVE FALSE
    <2>1. obs[d].status = "started" /\ obs[d].token = token[e]
      BY <1>2, <1>3 DEF Matches
    <2>2. token[e] + StaleAfter <= Now(d)
      BY <1>3, <2>1 DEF CallInv, SeenStale
    <2> QED
      BY <1>1, <1>2, <2>2
  <1>4. ~Holds(d)
    BY <1>1, <1>2 DEF Holds, UniqueHolder
  <1> QED
    BY <1>2, <1>3, <1>4, RowWritten

\* A fenced call keeps the row until it ends.
LEMMA CallsHoldStep ==
    ASSUME Prompt, SameClocks, FenceInv, CallInv, [Next]_vars
    PROVE  CallsHold'
  <1>1. TypeOK /\ StaleAfter \in Nat \ {0}
    BY StaleAfterType DEF FenceInv
  <1>2. ASSUME NEW d \in Dispatches, Step(d) \/ Crash(d) \/ Retry(d) PROVE CallsHold'
    <2>1. /\ clock' = clock
          /\ \A e \in Dispatches \ {d} : pc'[e] = pc[e] /\ token'[e] = token[e]
      BY <1>1, <1>2, StepsAlone
    <2>2. \A e \in Dispatches : Now(e)' = Now(e)
      BY <2>1 DEF Now
    <2>3. ASSUME NEW e \in Dispatches \ {d}, InCall(e)'
          PROVE  Holds(e)' /\ Now(e)' < token'[e] + StaleAfter
      <3>1. InCall(e) /\ token'[e] = token[e]
        BY <2>1, <2>3 DEF InCall
      <3>2. row' = row
        BY <1>2, <2>3, <3>1, RowKept
      <3>3. Holds(e) /\ Now(e) < token[e] + StaleAfter
        BY <3>1 DEF CallInv, CallsHold
      <3> QED
        BY <2>2, <3>1, <3>2, <3>3 DEF Holds
    <2>4. ASSUME InCall(d)' PROVE Holds(d)' /\ Now(d)' < token'[d] + StaleAfter
      <3>1. CASE token'[d] # token[d]
        <4>1. /\ row'.status = "started" /\ row'.token = token'[d]
              /\ token'[d] \in Nat /\ token'[d] >= Now(d) /\ token'[d] # 0
          BY <1>2, <3>1, TokenGiven DEF CallInv
        <4>2. Now(d) \in Nat
          BY <1>1, NowPositive
        <4> QED
          BY <1>1, <2>2, <4>1, <4>2 DEF Holds
      <3>2. CASE token'[d] = token[d]
        <4>1. token[d] # 0 /\ pc'[d] \in {"call", "complete"}
          BY <2>4, <3>2 DEF InCall
        <4>2. pc[d] \in {"call", "complete", "done"}
          BY <4>1 DEF CallInv, TokenFirst
        <4>3. pc'[d] = "complete" /\ pc[d] = "call" /\ row' = row
          BY <1>1, <1>2, <4>1, <4>2, StepsAnswer DEF CallInv
        <4>4. Holds(d) /\ Now(d) < token[d] + StaleAfter
          BY <4>1, <4>3 DEF CallInv, CallsHold, InCall
        <4> QED
          BY <2>2, <3>2, <4>3, <4>4 DEF Holds
      <3> QED
        BY <3>1, <3>2
    <2> QED
      BY <2>3, <2>4 DEF CallsHold
  <1>3. CASE Tick
    <2>1. /\ clock' = clock + 1 /\ UNCHANGED <<row, pc, token>>
          /\ \A d \in Dispatches : InCall(d) => Now(d) + 1 < token[d] + StaleAfter
      BY <1>3 DEF Tick
    <2>2. \A d \in Dispatches : Now(d)' = Now(d) + 1
      BY <1>1, <2>1, SkewType DEF Now, TypeOK
    <2> QED
      BY <2>1, <2>2 DEF CallsHold, CallInv, InCall, Holds
  <1>4. CASE UNCHANGED vars
    BY <1>4 DEF vars, CallsHold, CallInv, InCall, Holds, Now
  <1> QED
    BY <1>2, <1>3, <1>4 DEF Next, AllAnswered

\* The inductive invariant of the calls, where each ends before its claim is
\* stale and the dispatches read one clock.
LEMMA CallsHeld ==
    ASSUME Prompt, SameClocks
    PROVE  Spec => []CallInv
  <1>1. Init => CallInv
    BY DEF Init, CallInv, TokenFirst, SeenStale, CallsHold, InCall
  <1>2. FenceInv /\ CallInv /\ [Next]_vars => CallInv'
    BY TokenFirstStep, SeenStaleStep, CallsHoldStep DEF CallInv
  <1> QED
    BY <1>1, <1>2, FenceHolds, PTL DEF Spec

\* Never two fenced provider calls at a time, whichever store calls fail and
\* whatever crashes, where a call ends before its claim is stale and the
\* dispatches read one clock.
THEOREM ProviderExclusiveHolds ==
    ASSUME Prompt, SameClocks
    PROVE  Spec => []ProviderExclusive
  <1>1. FenceInv /\ CallInv => ProviderExclusive
    BY DEF FenceInv, CallInv, CallsHold, Holds, UniqueHolder, ProviderExclusive
  <1> QED
    BY <1>1, FenceHolds, CallsHeld, PTL

-----------------------------------------------------------------------------
(* Effectively once *)

FreshOk(d) == answer[d] = "fresh" /\ result[d] = "ok"

\* A result that was returned fresh and could be stored is the one in the row.
StoredOnce == \A d \in Dispatches : FreshOk(d) => Replayable(row) /\ row.receipt = d /\ pc[d] = "done"

\* A fenced call that returns ok stores its result for good.
LEMMA StoredStep ==
    ASSUME "complete" \notin Faults, FenceInv, SeenInv, CallInv, StoredOnce, [Next]_vars
    PROVE  StoredOnce'
  <1>1. TypeOK /\ (Replayable(row) => row' = row)
    BY FinalStep DEF FenceInv
  <1>2. ASSUME NEW d \in Dispatches, Step(d) \/ Crash(d) \/ Retry(d) PROVE StoredOnce'
    <2>1. \A e \in Dispatches \ {d} : /\ pc'[e] = pc[e] /\ result'[e] = result[e]
                                      /\ answer'[e] = answer[e]
      BY <1>1, <1>2, StepsAlone
    <2>2. ASSUME NEW e \in Dispatches \ {d}, FreshOk(e)'
          PROVE  Replayable(row') /\ row'.receipt = e /\ pc'[e] = "done"
      BY <1>1, <2>1, <2>2 DEF StoredOnce, FreshOk
    <2>3. ASSUME FreshOk(d)'
          PROVE  Replayable(row') /\ row'.receipt = d /\ pc'[d] = "done"
      <3>1. CASE Complete(d)
        <4>1. /\ pc[d] = "complete" /\ pc'[d] = "done" /\ Returns(d) = "fresh" /\ result[d] = "ok"
          BY <1>1, <2>3, <3>1 DEF Complete, Finish, GoTo, FreshOk, TypeOK
        <4>2. token[d] # 0
          BY <4>1 DEF Returns
        <4>3. Holds(d)
          BY <4>1, <4>2 DEF CallInv, CallsHold, InCall
        <4>4. row' = Completed(d)
          BY <3>1, <4>3 DEF Complete, MayFail
        <4>5. /\ row'.status = "completed" /\ row'.receipt = d /\ row'.omitted = FALSE
              /\ row'.run = row.run
          BY <1>1, <4>1, <4>4 DEF Completed, Ok, TypeOK
        <4>6. row.run = RunOf[d]
          BY <4>3 DEF FenceInv, HolderNamed
        <4> QED
          BY <4>1, <4>5, <4>6, NoneFresh DEF Replayable
      <3>2. CASE ~Complete(d)
        <4>1. answer'[d] = answer[d] /\ pc[d] # "done"
          BY <1>1, <1>2, <2>3, <3>2 DEF FreshOk, Step, ProbeMemo, CheckMemo, BeginInserts, BeginLoses,
             BeginRaises, HandleExisting, MarkStale, Fetch, FetchRaises, Recheck, Reclaim,
             ReclaimLoses, InnerReturns, Crash, Retry, Finish, TypeOK
        <4> QED
          BY <2>3, <4>1 DEF FreshOk, CallInv, TokenFirst
      <3> QED
        BY <3>1, <3>2
    <2> QED
      BY <2>2, <2>3 DEF StoredOnce, Replayable
  <1>3. CASE Tick \/ UNCHANGED vars
    BY <1>3 DEF Tick, vars, StoredOnce, FreshOk, Replayable
  <1> QED
    BY <1>2, <1>3 DEF Next, AllAnswered

\* Two dispatches never both return a fresh ok result that could be stored,
\* where the memo can be read, the completion be written, and calls are prompt.
THEOREM EffectivelyOnceHolds ==
    ASSUME Prompt, SameClocks, Faults \cap {"memo", "complete"} = {}
    PROVE  Spec => []EffectivelyOnce
  <1>1. Init => StoredOnce
    BY DEF Init, StoredOnce, FreshOk
  <1>2. FenceInv /\ SeenInv /\ CallInv /\ StoredOnce /\ [Next]_vars => StoredOnce'
    BY StoredStep
  <1>3. StoredOnce => EffectivelyOnce
    BY DEF StoredOnce, FreshOk, EffectivelyOnce
  <1>4. (Spec => []SeenInv) /\ (Spec => []CallInv)
    BY SeenHolds, CallsHeld
  <1> QED
    BY <1>1, <1>2, <1>3, <1>4, FenceHolds, PTL DEF Spec

\* What a dispatch with a clear way still has: no live claim while it may be
\* refused at its next read, and the record it read when it takes over.
WayInv ==
    \A d \in clear :
        /\ pc[d] \in {"begin", "existing", "fetch"} => ~LiveClaim(d)
        /\ pc[d] \in {"mark", "recheck", "reclaim"} => Matches(d)
        /\ answer[d] # "duplicate"

\* Before its memo probe a dispatch has no answer from an earlier round.
Restarted == \A d \in Dispatches : pc[d] = "memo" => answer[d] # "duplicate"

\* A step of d leaves the others' way as it was, or takes them off the list.
LEMMA OthersWay ==
    ASSUME TypeOK, WayInv, NEW d \in Dispatches, Watch(d), UNCHANGED clock,
           NEW e \in clear', e # d,
           pc'[e] = pc[e], obs'[e] = obs[e], answer'[e] = answer[e]
    PROVE  /\ pc'[e] \in {"begin", "existing", "fetch"} => ~LiveClaim(e)'
           /\ pc'[e] \in {"mark", "recheck", "reclaim"} => Matches(e)'
           /\ answer'[e] # "duplicate"
  <1>1. row' = row /\ e \in clear
    BY DEF Watch
  <1> QED
    BY <1>1 DEF WayInv, LiveClaim, Matches, Now

\* d's own step keeps its way clear, or ends the watch, when no takeover fails.
LEMMA OwnWay ==
    ASSUME "reclaim" \notin Faults, TypeOK, Restarted, WayInv, NEW d \in Dispatches,
           Step(d) \/ Crash(d), Watch(d), d \in clear'
    PROVE  /\ pc'[d] \in {"begin", "existing", "fetch"} => ~LiveClaim(d)'
           /\ pc'[d] \in {"mark", "recheck", "reclaim"} => Matches(d)'
           /\ answer'[d] # "duplicate"
  <1> USE DEF TypeOK
  <1>0. /\ IF pc[d] = "memo" THEN ~LiveClaim(d) ELSE d \in clear
        /\ ~(pc'[d] \in {"call", "done"} /\ answer'[d] # "duplicate")
    BY DEF Watch
  <1>1. Now(d) \in Nat /\ row.token \in Nat /\ StaleAfter \in Nat
    BY NowPositive, StaleAfterType
  <1>2. CASE ProbeMemo(d)
    BY <1>0, <1>2 DEF ProbeMemo, CheckMemo, GoTo, Finish, LiveClaim, Now, Restarted
  <1>3. CASE BeginInserts(d) \/ BeginRaises(d) \/ FetchRaises(d)
    BY <1>0, <1>3 DEF BeginInserts, BeginRaises, FetchRaises, GoTo, WayInv
  <1>4. CASE BeginLoses(d)
    BY <1>0, <1>4 DEF BeginLoses, GoTo, WayInv, LiveClaim, Now
  <1>5. CASE HandleExisting(d)
    <2>1. d \in clear /\ pc[d] = "existing" /\ UNCHANGED <<clock, row, answer>>
      BY <1>0, <1>5 DEF HandleExisting
    <2>2. pc'[d] \in {"mark", "fetch"} /\ Matches(d)'
      BY <1>5 DEF HandleExisting, GoTo, Observe, Matches
    <2> QED
      BY <2>1, <2>2 DEF WayInv, LiveClaim, Now
  <1>6. CASE MarkStale(d)
    <2>1. d \in clear /\ Matches(d) /\ answer[d] # "duplicate" /\ UNCHANGED answer
      BY <1>0, <1>6 DEF MarkStale, WayInv
    <2>2. row'.status = "stale" /\ pc'[d] \in {"fetch", "call"}
      BY <1>6, <2>1 DEF MarkStale, GoTo
    <2> QED
      BY <2>1, <2>2 DEF LiveClaim
  <1>7. CASE Fetch(d)
    <2>1. d \in clear /\ ~LiveClaim(d) /\ answer[d] # "duplicate"
      BY <1>0, <1>7 DEF Fetch, WayInv
    <2>2. ~(row.status = "started" /\ ~StartedStale(d, row))
      BY <1>1, <2>1 DEF LiveClaim, StartedStale
    <2>3. /\ pc'[d] \in {"recheck", "reclaim"} /\ UNCHANGED answer
          /\ obs'[d] = [status |-> row.status, token |-> row.token]
          /\ UNCHANGED row
      BY <1>7, <2>2 DEF Fetch, GoTo, Observe
    <2> QED
      BY <2>1, <2>3 DEF Matches
  <1>8. CASE Recheck(d)
    <2>1. d \in clear /\ Matches(d) /\ answer[d] # "duplicate"
      BY <1>0, <1>8 DEF Recheck, WayInv
    <2>2. /\ UNCHANGED <<row, obs>>
          /\ (pc'[d] = "reclaim" /\ UNCHANGED answer) \/ answer'[d] = "memo"
      BY <1>8 DEF Recheck, CheckMemo, GoTo, Finish
    <2>3. Matches(d)'
      BY <2>1, <2>2 DEF Matches
    <2>4. pc'[d] \in {"reclaim", "done"} /\ answer'[d] # "duplicate"
      BY <1>8, <2>1, <2>2 DEF Recheck, CheckMemo, GoTo, Finish
    <2> QED
      BY <2>3, <2>4
  <1>9. CASE Reclaim(d)
    <2>1. d \in clear /\ answer[d] # "duplicate"
      BY <1>0, <1>9 DEF Reclaim, WayInv
    <2>2. pc'[d] = "call" /\ UNCHANGED answer
      BY <1>9 DEF Reclaim, MayFail, GoTo
    <2> QED
      BY <1>0, <2>1, <2>2
  <1>10. CASE ReclaimLoses(d)
    BY <1>0, <1>10 DEF ReclaimLoses, WayInv, MayFail
  <1>11. CASE InnerReturns(d)
    BY <1>0, <1>11 DEF InnerReturns, WayInv, GoTo
  <1>12. CASE Complete(d)
    BY <1>0, <1>12 DEF Complete, Finish, GoTo, Returns
  <1>13. CASE Crash(d)
    BY <1>0, <1>13 DEF Crash, Finish, GoTo
  <1> QED
    BY <1>2, <1>3, <1>4, <1>5, <1>6, <1>7, <1>8, <1>9, <1>10, <1>11, <1>12, <1>13 DEF Step

\* A step of d moves nobody else.
LEMMA OthersStay ==
    ASSUME TypeOK, NEW d \in Dispatches, Step(d) \/ Crash(d), NEW e \in Dispatches, e # d
    PROVE  /\ UNCHANGED clock
           /\ pc'[e] = pc[e] /\ obs'[e] = obs[e] /\ answer'[e] = answer[e]
  <1> USE DEF TypeOK, GoTo, Finish
  <1>1. CASE ProbeMemo(d) \/ Recheck(d)
    BY <1>1 DEF ProbeMemo, Recheck, CheckMemo
  <1>2. CASE BeginInserts(d) \/ BeginLoses(d) \/ BeginRaises(d) \/ FetchRaises(d)
    BY <1>2 DEF BeginInserts, BeginLoses, BeginRaises, FetchRaises
  <1>3. CASE HandleExisting(d) \/ Fetch(d)
    BY <1>3 DEF HandleExisting, Fetch, Observe
  <1>4. CASE MarkStale(d) \/ Reclaim(d) \/ ReclaimLoses(d)
    BY <1>4 DEF MarkStale, Reclaim, ReclaimLoses
  <1>5. CASE InnerReturns(d) \/ Complete(d) \/ Crash(d)
    BY <1>5 DEF InnerReturns, Complete, Crash
  <1> QED
    BY <1>1, <1>2, <1>3, <1>4, <1>5 DEF Step

\* Only a retry goes back to the memo probe, and it clears the answer.
LEMMA RestartedStep ==
    ASSUME TypeOK, Restarted, [Next]_vars
    PROVE  Restarted'
  <1>1. ASSUME NEW d \in Dispatches, Step(d) \/ Crash(d) PROVE Restarted'
    <2>1. pc'[d] # "memo"
      BY <1>1 DEF TypeOK, Step, ProbeMemo, Recheck, CheckMemo, BeginInserts, BeginLoses,
           BeginRaises, HandleExisting, MarkStale, Fetch, FetchRaises, Reclaim,
           ReclaimLoses, InnerReturns, Complete, Crash, GoTo, Finish
    <2> QED
      BY <1>1, <2>1, OthersStay DEF Restarted
  <1>2. ASSUME NEW d \in Dispatches, Retry(d) PROVE Restarted'
    BY <1>2 DEF Retry, GoTo, Restarted, TypeOK
  <1>3. CASE Tick \/ UNCHANGED vars
    BY <1>3 DEF Tick, vars, Restarted
  <1> QED
    BY <1>1, <1>2, <1>3 DEF Next, AllAnswered

\* Every step keeps the way of the dispatches on the list.
LEMMA WayStep ==
    ASSUME "reclaim" \notin Faults, TypeOK, TypeOK', Restarted, WayInv, [Next]_vars
    PROVE  WayInv'
  <1>1. ASSUME NEW d \in Dispatches, Step(d) \/ Crash(d), Watch(d) PROVE WayInv'
    <2>1. ASSUME NEW e \in clear', e # d
          PROVE  /\ pc'[e] \in {"begin", "existing", "fetch"} => ~LiveClaim(e)'
                 /\ pc'[e] \in {"mark", "recheck", "reclaim"} => Matches(e)'
                 /\ answer'[e] # "duplicate"
      <3>1. e \in Dispatches
        BY <2>1 DEF TypeOK
      <3>2. UNCHANGED clock /\ pc'[e] = pc[e] /\ obs'[e] = obs[e] /\ answer'[e] = answer[e]
        BY <1>1, <2>1, <3>1, OthersStay
      <3> QED
        BY <1>1, <2>1, <3>2, OthersWay
    <2> QED
      BY <1>1, <2>1, OwnWay DEF WayInv
  <1>2. ASSUME NEW d \in Dispatches, Retry(d) PROVE WayInv'
    BY <1>2 DEF Retry, GoTo, WayInv, TypeOK, LiveClaim, Matches, Now
  <1>3. CASE Tick
    <2>1. ASSUME NEW d \in Dispatches, ~LiveClaim(d) PROVE ~LiveClaim(d)'
      <3>1. /\ clock \in Nat /\ clock' = clock + 1 /\ row' = row
            /\ Skew[d] \in Nat /\ row.token \in Nat /\ StaleAfter \in Nat
        BY <1>3, SkewType, StaleAfterType DEF Tick, TypeOK
      <3> QED
        BY <2>1, <3>1 DEF LiveClaim, Now
    <2> QED
      BY <1>3, <2>1 DEF Tick, WayInv, Matches, TypeOK
  <1>4. CASE UNCHANGED vars
    BY <1>4 DEF vars, WayInv, LiveClaim, Matches, Now
  <1> QED
    BY <1>1, <1>2, <1>3, <1>4 DEF Next, AllAnswered

\* When the takeover's store call does not fail, a dispatch that meets no live
\* claim and whose row nobody else writes is never refused, whatever the other
\* store calls, the clocks and the crashes of earlier holders did.
THEOREM NotRefusedAloneHolds ==
    ASSUME "reclaim" \notin Faults
    PROVE  Spec => []NotRefusedAlone
  <1>1. Init => Restarted /\ WayInv
    BY DEF Init, Restarted, WayInv
  <1>2. TypeOK /\ TypeOK' /\ Restarted /\ WayInv /\ [Next]_vars => Restarted' /\ WayInv'
    BY RestartedStep, WayStep
  <1>3. TypeOK /\ WayInv => NotRefusedAlone
    BY DEF WayInv, NotRefusedAlone
  <1> QED
    BY <1>1, <1>2, <1>3, DurableTypeOK, PTL DEF Spec

=============================================================================
