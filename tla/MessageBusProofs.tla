-------------------------- MODULE MessageBusProofs --------------------------
(***************************************************************************)
(* Proofs about the receipts of the message bus and the acknowledgements   *)
(* of the inbox, for any number of calls, keys, contents and faults.       *)
(***************************************************************************)
EXTENDS MessageBus, FiniteSetTheorems, TLAPS

USE DEF Begun, CallPhases

\* Messages, calls and records are only added to.
RowsKept ==
    \A i \in Calls : Stored(i) =>
        Stored(i)' /\ messages'[i].key = messages[i].key /\ messages'[i].body = messages[i].body
CallsKept ==
    \A d \in Calls : call[d].pc # "new" =>
        /\ call'[d].pc # "new" /\ call'[d].id = call[d].id
        /\ call'[d].key = call[d].key /\ call'[d].body = call[d].body
RecordsKept ==
    \A k \in Keys : record[k].status # "none" =>
        record'[k].status # "none" /\ record'[k].body = record[k].body

\* Call c goes on to phase p with x as the id it works on.
Moved(c, p, x) ==
    /\ call[c].pc # "new" /\ p # "new"
    /\ call'[c].pc = p /\ call'[c].ret = x /\ call'[c].id = call[c].id
    /\ call'[c].key = call[c].key /\ call'[c].body = call[c].body
    /\ call'[c].raced = call[c].raced
    /\ \A d \in Calls \ {c} : call'[d] = call[d]

\* What was sent stays sent.
LEMMA SentKept ==
    ASSUME CallsKept, NEW i, NEW k, NEW b, Sent(i, k, b)
    PROVE  Sent(i, k, b)'
  BY DEF CallsKept, Sent

\* What is stored stays stored.
LEMMA HoldsKept ==
    ASSUME RowsKept, NEW i \in Calls, NEW k, NEW b, Holds(i, k, b)
    PROVE  Holds(i, k, b)'
  BY DEF RowsKept, Holds

\* A step of a call changes its phase and the id it works on.
LEMMA GoWithMoves ==
    ASSUME TypeOK, NEW c \in Calls, NEW p \in CallPhases \ {"new"},
           NEW x \in Calls \cup {None}, call[c].pc # "new", GoWith(c, p, x)
    PROVE  Moved(c, p, x) /\ call' \in [Calls -> CallRow]
  <1>1. call[c] \in CallRow /\ call \in [Calls -> CallRow]
    BY DEF TypeOK
  <1>2. [call[c] EXCEPT !.pc = p, !.ret = x] \in CallRow
    BY <1>1 DEF CallRow
  <1>3. call'[c] = [call[c] EXCEPT !.pc = p, !.ret = x] /\ \A d \in Calls \ {c} : call'[d] = call[d]
    BY <1>1 DEF GoWith
  <1>4. Moved(c, p, x)
    BY <1>1, <1>3 DEF Moved, CallRow
  <1> QED
    BY <1>1, <1>2, <1>4 DEF GoWith

\* Or its phase only.
LEMMA GoMoves ==
    ASSUME TypeOK, NEW c \in Calls, NEW p \in CallPhases \ {"new"}, call[c].pc # "new", Go(c, p)
    PROVE  Moved(c, p, call[c].ret) /\ call' \in [Calls -> CallRow]
  <1>1. call[c] \in CallRow /\ call \in [Calls -> CallRow]
    BY DEF TypeOK
  <1>2. [call[c] EXCEPT !.pc = p] \in CallRow
    BY <1>1 DEF CallRow
  <1>3. call'[c] = [call[c] EXCEPT !.pc = p] /\ \A d \in Calls \ {c} : call'[d] = call[d]
    BY <1>1 DEF Go
  <1>4. Moved(c, p, call[c].ret)
    BY <1>1, <1>3 DEF Moved, CallRow
  <1> QED
    BY <1>1, <1>2, <1>4 DEF Go

\* A call that goes on forgets nothing.
LEMMA MovedKeeps ==
    ASSUME NEW c \in Calls, NEW p, NEW x, Moved(c, p, x)
    PROVE  CallsKept
  BY DEF Moved, CallsKept

\* What the other calls know stays true.
LEMMA OthersKnow ==
    ASSUME ReceiptInv, CallsKept, RowsKept, RecordsKept,
           NEW d \in Calls, call'[d] = call[d]
    PROVE  CallKnows(d)' /\ (call'[d].pc = "returned" =>
              call'[d].ret \in Calls /\ Holds(call[d].ret, call[d].key, call[d].body)')
  <1>1. CallKnows(d) /\ TypeOK
    BY DEF ReceiptInv
  <1>2. call[d].pc # "new" => call[d].id \in Calls /\ call'[call[d].id].pc # "new"
    BY <1>1 DEF CallKnows, CallsKept
  <1>3. call[d].pc \in {"begin", "resume", "probe", "reinsert", "complete"} => call[d].key \in Keys
    BY <1>1 DEF CallKnows
  <1>4. call[d].pc \in Begun /\ call[d].key # None =>
           record'[call[d].key].status # "none" /\ record'[call[d].key].body = call[d].body
    <2>1. call[d].key # None => call[d].key \in Keys
      BY <1>1 DEF TypeOK, CallRow
    <2> QED
      BY <1>1, <2>1 DEF CallKnows, RecordsKept
  <1>5. call[d].pc = "probe" =>
           call[d].ret \in Calls /\ Sent(call[d].ret, call[d].key, call[d].body)'
    BY <1>1, SentKept DEF CallKnows
  <1>6. call[d].pc = "complete" =>
           call[d].ret \in Calls /\ Holds(call[d].ret, call[d].key, call[d].body)'
    BY <1>1, HoldsKept DEF CallKnows
  <1>7. call[d].pc = "returned" =>
           call[d].ret \in Calls /\ Holds(call[d].ret, call[d].key, call[d].body)'
    BY HoldsKept DEF ReceiptInv, NoFabricatedReceipt
  <1> QED
    BY <1>2, <1>3, <1>4, <1>5, <1>6, <1>7 DEF CallKnows, Sent, Holds, Stored

\* The records' receipts and their messages survive every step that adds.
LEMMA RecordKept ==
    ASSUME ReceiptInv, CallsKept, RowsKept, NEW k \in Keys, record'[k] = record[k]
    PROVE  /\ record'[k].status # "none" =>
                 record'[k].id \in Calls /\ Sent(record[k].id, k, record[k].body)'
           /\ record'[k].receipt # None =>
                 record'[k].receipt \in Calls /\ Holds(record[k].receipt, k, record[k].body)'
  <1>1. record[k].status # "none" => record[k].id \in Calls /\ Sent(record[k].id, k, record[k].body)'
    BY SentKept DEF ReceiptInv, RecordsSent
  <1>2. record[k].receipt # None =>
           record[k].receipt \in Calls /\ Holds(record[k].receipt, k, record[k].body)'
    BY HoldsKept DEF ReceiptInv, NoFabricatedReceipt
  <1> QED
    BY <1>1, <1>2 DEF Sent, Holds, Stored

\* A step of a call preserves the calls' part of the invariant, if the call
\* knows in its new phase what it should.
LEMMA MovedKnows ==
    ASSUME ReceiptInv, RowsKept, RecordsKept, NEW c \in Calls, NEW p, NEW x, Moved(c, p, x),
           p \in {"begin", "resume", "probe", "reinsert", "complete"} => call[c].key \in Keys,
           p \in Begun /\ call[c].key # None =>
              record'[call[c].key].status # "none" /\ record'[call[c].key].body = call[c].body,
           p = "probe" => x \in Calls /\ Sent(x, call[c].key, call[c].body),
           p \in {"complete", "returned"} => x \in Calls /\ Holds(x, call[c].key, call[c].body)'
    PROVE  /\ \A d \in Calls : CallKnows(d)'
           /\ \A d \in Calls : call'[d].pc = "returned" =>
                 call'[d].ret \in Calls /\ Holds(call[d].ret, call[d].key, call[d].body)'
           /\ IdsAgree'
  <1>1. CallsKept
    BY MovedKeeps
  <1>2. p = "probe" => Sent(x, call[c].key, call[c].body)'
    BY <1>1, SentKept DEF Moved
  <1>3. call[c].id \in Calls /\ call'[call[c].id].pc # "new"
    BY <1>1 DEF ReceiptInv, CallKnows, Moved, CallsKept
  <1>4. CallKnows(c)'
    BY <1>2, <1>3 DEF CallKnows, Moved, Sent, Holds, Stored
  <1>5. call'[c].pc = "returned" =>
           call'[c].ret \in Calls /\ Holds(call[c].ret, call[c].key, call[c].body)'
    BY DEF Moved, Holds, Stored
  <1>6. \A d \in Calls \ {c} : call'[d] = call[d]
    BY DEF Moved
  <1>7. IdsAgree'
    <2>1. \A d \in Calls : call'[d].pc # "new" =>
             /\ call[d].pc # "new" /\ call'[d].id = call[d].id
             /\ call'[d].key = call[d].key /\ call'[d].body = call[d].body
      BY DEF Moved
    <2> QED
      BY <2>1 DEF ReceiptInv, IdsAgree
  <1> QED
    BY <1>1, <1>4, <1>5, <1>6, <1>7, OthersKnow

\* The conjuncts of the invariant about the state after a step.
LEMMA Assembled ==
    ASSUME TypeOK', \A c \in Calls : CallKnows(c)', IdsAgree', RowsSent',
           \A d \in Calls : call'[d].pc = "returned" =>
              call'[d].ret \in Calls /\ Holds(call[d].ret, call[d].key, call[d].body)',
           \A k \in Keys :
              /\ record'[k].status # "none" =>
                    record'[k].id \in Calls /\ Sent(record[k].id, k, record[k].body)'
              /\ record'[k].receipt # None =>
                    record'[k].receipt \in Calls /\ Holds(record[k].receipt, k, record[k].body)',
           \A i \in inbox'.pending : Stored(i)'
    PROVE  ReceiptInv'
  <1>1. RecordsSent'
    BY DEF RecordsSent, Sent
  <1>2. NoFabricatedReceipt'
    BY DEF NoFabricatedReceipt, Holds, Stored
  <1> QED
    BY <1>1, <1>2 DEF ReceiptInv, CallKnows, Stored, Sent, Holds


\* Rows that are still there are those of messages that were sent.
LEMMA RowsSentKept ==
    ASSUME ReceiptInv, CallsKept, messages' = messages
    PROVE  RowsSent' /\ RowsKept
  <1>1. \A i \in Calls : Stored(i) => Sent(i, messages[i].key, messages[i].body)
    BY DEF ReceiptInv, RowsSent
  <1>2. \A i \in Calls : Stored(i) => Sent(i, messages[i].key, messages[i].body)'
    BY <1>1, SentKept
  <1> QED
    BY <1>2 DEF RowsSent, RowsKept, Stored

\* Initially nothing was sent.
LEMMA InitReceipt == Init => ReceiptInv
  <1> SUFFICES ASSUME Init PROVE ReceiptInv
    OBVIOUS
  <1>1. messages \in [Calls -> Row] /\ \A i \in Calls : messages[i].status = "none"
    BY DEF Init, NoRow, Row
  <1>2. record \in [Keys -> KeyRow]
        /\ \A k \in Keys : record[k].status = "none" /\ record[k].receipt = None
    BY DEF Init, NoRecord, KeyRow
  <1>3. call \in [Calls -> CallRow] /\ \A c \in Calls : call[c].pc = "new"
    BY DEF Init, NoCall, CallRow
  <1>4. inbox \in InboxRow /\ inbox.pending = {}
    BY DEF Init, InboxRow
  <1>5. faults \in 0..MaxFaults
    BY BusLimits DEF Init
  <1>6. TypeOK
    BY <1>1, <1>2, <1>3, <1>4, <1>5 DEF TypeOK
  <1>7. \A c \in Calls : CallKnows(c)
    BY <1>3 DEF CallKnows
  <1>8. IdsAgree /\ RowsSent /\ RecordsSent /\ NoFabricatedReceipt
    BY <1>1, <1>2, <1>3 DEF IdsAgree, RowsSent, Stored, RecordsSent, NoFabricatedReceipt
  <1> QED
    BY <1>4, <1>6, <1>7, <1>8 DEF ReceiptInv

\* A new call: its own id is that of no message yet, and the id it repeats is
\* that of the same message.
LEMMA StartReceipt ==
    ASSUME ReceiptInv, NEW c \in Calls, NEW k \in Keys \cup {None}, NEW b \in Bodies,
           Start(c, k, b)
    PROVE  ReceiptInv'
  <1>1. PICK i \in {c} \cup {call[d].id : d \in {d \in Calls :
                    call[d].pc # "new" /\ call[d].key = k /\ call[d].body = b}} :
         call' = [call EXCEPT ![c] =
             [pc |-> IF k = None THEN "insert" ELSE "begin", key |-> k, body |-> b,
              id |-> i, ret |-> None,
              raced |-> \E d \in Calls : Live(d) /\ call[d].key = k]]
    BY DEF Start
  <1>2. TypeOK /\ call[c].pc = "new"
    BY DEF ReceiptInv, Start
  <1>3. i = c \/ \E d \in Calls : call[d].pc # "new" /\ call[d].key = k /\ call[d].body = b
                                  /\ i = call[d].id
    BY <1>1
  <1>4. i \in Calls /\ (i = c \/ call[i].pc # "new")
    BY <1>3 DEF ReceiptInv, CallKnows
  <1>5. call'[c].pc = (IF k = None THEN "insert" ELSE "begin") /\ call'[c].key = k
        /\ call'[c].body = b /\ call'[c].id = i /\ \A d \in Calls \ {c} : call'[d] = call[d]
    BY <1>1, <1>2 DEF TypeOK
  <1>6. CallsKept
    BY <1>2, <1>5 DEF CallsKept
  <1>7. call' \in [Calls -> CallRow]
    <2> DEFINE raced == \E d \in Calls : Live(d) /\ call[d].key = k
    <2>1. raced \in BOOLEAN
      OBVIOUS
    <2> HIDE DEF raced
    <2>2. [pc |-> IF k = None THEN "insert" ELSE "begin", key |-> k, body |-> b,
           id |-> i, ret |-> None, raced |-> raced] \in CallRow
      BY <1>4, <2>1 DEF CallRow
    <2>3. call' = [call EXCEPT ![c] =
             [pc |-> IF k = None THEN "insert" ELSE "begin", key |-> k, body |-> b,
              id |-> i, ret |-> None, raced |-> raced]]
      BY <1>1 DEF raced
    <2> QED
      BY <1>2, <2>2, <2>3 DEF TypeOK
  <1>8. messages' = messages /\ record' = record /\ inbox' = inbox /\ faults' = faults
    BY DEF Start
  <1>9. TypeOK'
    BY <1>2, <1>7, <1>8 DEF TypeOK
  <1>10. RowsSent' /\ RowsKept /\ RecordsKept
    BY <1>6, <1>8, RowsSentKept DEF RecordsKept
  <1>11. CallKnows(c)'
    BY <1>4, <1>5, <1>6, NoneIsNoKey DEF CallKnows, CallsKept
  <1>12. IdsAgree'
    <2>1. \A d \in Calls : call[d].pc # "new" /\ call[d].id = i => call[d].key = k /\ call[d].body = b
      <3> SUFFICES ASSUME NEW d \in Calls, call[d].pc # "new", call[d].id = i
                   PROVE  call[d].key = k /\ call[d].body = b
        OBVIOUS
      <3>1. call[i].pc # "new"
        BY DEF ReceiptInv, CallKnows
      <3>2. i # c
        BY <3>1, <1>2
      <3> QED
        BY <3>2, <1>3 DEF ReceiptInv, IdsAgree
    <2>2. \A d, e \in Calls : call[d].pc # "new" /\ call[e].pc # "new" /\ call[d].id = call[e].id =>
             call[d].key = call[e].key /\ call[d].body = call[e].body
      BY DEF ReceiptInv, IdsAgree
    <2>3. \A d \in Calls : d = c \/ call'[d] = call[d]
      BY <1>5
    <2> QED
      BY <2>1, <2>2, <2>3, <1>5 DEF IdsAgree
  <1>13. \A d \in Calls : CallKnows(d)'
    BY <1>5, <1>6, <1>10, <1>11, OthersKnow
  <1>14. \A d \in Calls : call'[d].pc = "returned" =>
              call'[d].ret \in Calls /\ Holds(call[d].ret, call[d].key, call[d].body)'
    BY <1>5, <1>6, <1>10, OthersKnow
  <1>15. \A i2 \in inbox'.pending : Stored(i2)'
    BY <1>8 DEF ReceiptInv, Stored
  <1> QED
    BY <1>6, <1>8, <1>9, <1>10, <1>12, <1>13, <1>14, <1>15, RecordKept, Assembled

\* A step of a call that changes neither messages nor records.
LEMMA SilentReceipt ==
    ASSUME ReceiptInv, NEW c \in Calls, NEW p, NEW x, Moved(c, p, x), call' \in [Calls -> CallRow],
           messages' = messages, record' = record, inbox' = inbox, faults' \in 0..MaxFaults,
           p \in {"begin", "resume", "probe", "reinsert", "complete"} => call[c].key \in Keys,
           p \in Begun /\ call[c].key # None =>
              record[call[c].key].status # "none" /\ record[call[c].key].body = call[c].body,
           p = "probe" => x \in Calls /\ Sent(x, call[c].key, call[c].body),
           p \in {"complete", "returned"} => x \in Calls /\ Holds(x, call[c].key, call[c].body)
    PROVE  ReceiptInv'
  <1>1. CallsKept
    BY MovedKeeps
  <1>2. RowsSent' /\ RowsKept /\ RecordsKept
    BY <1>1, RowsSentKept DEF RecordsKept
  <1>3. p \in {"complete", "returned"} => x \in Calls /\ Holds(x, call[c].key, call[c].body)'
    BY <1>2, HoldsKept DEF Moved
  <1>4. /\ \A d \in Calls : CallKnows(d)'
        /\ \A d \in Calls : call'[d].pc = "returned" =>
              call'[d].ret \in Calls /\ Holds(call[d].ret, call[d].key, call[d].body)'
        /\ IdsAgree'
    BY <1>2, <1>3, MovedKnows
  <1>5. TypeOK'
    BY DEF ReceiptInv, TypeOK
  <1>6. \A i \in inbox'.pending : Stored(i)'
    BY DEF ReceiptInv, Stored
  <1> QED
    BY <1>1, <1>2, <1>4, <1>5, <1>6, RecordKept, Assembled


\* The facts about the call that an action works with.
LEMMA CallFacts ==
    ASSUME ReceiptInv, NEW c \in Calls
    PROVE  /\ TypeOK /\ CallKnows(c)
           /\ call[c].key \in Keys \cup {None} /\ call[c].body \in Bodies \cup {None}
           /\ call[c].ret \in Calls \cup {None}
           /\ call[c].key # None => call[c].key \in Keys
  BY DEF ReceiptInv, TypeOK, CallRow

\* try_begin_idempotent_side_effect.
LEMMA BeginReceipt ==
    ASSUME ReceiptInv, NEW c \in Calls, Begin(c)
    PROVE  ReceiptInv'
  <1> DEFINE k == call[c].key
  <1>1. k \in Keys /\ call[c].pc = "begin" /\ TypeOK /\ call[c].id \in Calls
        /\ call[c].body \in Bodies \cup {None}
    BY CallFacts DEF Begin, CallKnows
  <1>2. messages' = messages /\ inbox' = inbox /\ faults' = faults
    BY DEF Begin
  <1>3. CASE record[k].status # "none" /\ record' = record
    <2>1. \/ record[k].body = call[c].body /\ Go(c, "resume")
          \/ Go(c, "raised")
      BY <1>3 DEF Begin
    <2>2. \/ record[k].body = call[c].body /\ Moved(c, "resume", call[c].ret)
          \/ Moved(c, "raised", call[c].ret)
      BY <1>1, <2>1, GoMoves
    <2>3. call' \in [Calls -> CallRow] /\ faults' \in 0..MaxFaults
      BY <1>1, <1>2, <2>1, GoMoves DEF TypeOK
    <2> QED
      BY <1>1, <1>2, <1>3, <2>2, <2>3, SilentReceipt
  <1>4. CASE record[k].status = "none" /\ Go(c, "insert")
             /\ record' = [record EXCEPT ![k] = [status |-> "started", id |-> call[c].id,
                                                 body |-> call[c].body, receipt |-> None]]
    <2>1. Moved(c, "insert", call[c].ret) /\ call' \in [Calls -> CallRow]
      BY <1>1, <1>4, GoMoves
    <2>2. /\ record'[k].status = "started" /\ record'[k].id = call[c].id
          /\ record'[k].body = call[c].body /\ record'[k].receipt = None
          /\ \A q \in Keys \ {k} : record'[q] = record[q]
      BY <1>1, <1>4 DEF TypeOK
    <2>3. record' \in [Keys -> KeyRow]
      <3>1. [status |-> "started", id |-> call[c].id, body |-> call[c].body, receipt |-> None]
               \in KeyRow
        BY <1>1 DEF KeyRow
      <3> QED
        BY <1>1, <1>4, <3>1 DEF TypeOK
    <2>4. CallsKept
      BY <2>1, MovedKeeps
    <2>5. RowsSent' /\ RowsKept /\ RecordsKept
      BY <1>1, <1>2, <1>4, <2>2, <2>4, RowsSentKept DEF RecordsKept
    <2>6. /\ \A d \in Calls : CallKnows(d)'
          /\ \A d \in Calls : call'[d].pc = "returned" =>
                call'[d].ret \in Calls /\ Holds(call[d].ret, call[d].key, call[d].body)'
          /\ IdsAgree'
      BY <1>1, <2>1, <2>2, <2>5, MovedKnows
    <2>7. TypeOK'
      BY <1>1, <1>2, <2>1, <2>3 DEF TypeOK
    <2>8. \A i \in inbox'.pending : Stored(i)'
      BY <1>2 DEF ReceiptInv, Stored
    <2>9. \A q \in Keys :
              /\ record'[q].status # "none" =>
                    record'[q].id \in Calls /\ Sent(record[q].id, q, record[q].body)'
              /\ record'[q].receipt # None =>
                    record'[q].receipt \in Calls /\ Holds(record[q].receipt, q, record[q].body)'
      <3> SUFFICES ASSUME NEW q \in Keys
                   PROVE /\ record'[q].status # "none" =>
                             record'[q].id \in Calls /\ Sent(record[q].id, q, record[q].body)'
                         /\ record'[q].receipt # None =>
                             record'[q].receipt \in Calls
                             /\ Holds(record[q].receipt, q, record[q].body)'
        OBVIOUS
      <3>1. CASE record'[q] = record[q]
        BY <3>1, <2>4, <2>5, RecordKept
      <3>2. CASE q = k
        <4>1. Sent(call[c].id, q, call[c].body)'
          BY <1>1, <3>2, <2>1, <2>2 DEF Sent, Moved
        <4>2. record'[q].id \in Calls /\ record'[q].receipt = None
          BY <3>2, <2>2, <1>1
        <4>3. record'[q].id = call'[c].id /\ record'[q].body = call'[c].body
          BY <3>2, <2>1, <2>2 DEF Moved
        <4> QED
          BY <4>1, <4>2, <4>3 DEF Sent
      <3> QED
        BY <3>1, <3>2, <2>2
    <2> QED
      BY <2>5, <2>6, <2>7, <2>8, <2>9, Assembled
  <1> QED
    BY <1>3, <1>4 DEF Begin

\* The row an insert adds is that of its call, and its id was free.
LEMMA RowAdded ==
    ASSUME ReceiptInv, NEW c \in Calls, NEW p, NEW x, Moved(c, p, x), call[c].id \in Calls,
           ~Stored(call[c].id), messages' = [messages EXCEPT ![call[c].id] = RowOf(c)]
    PROVE  /\ RowsKept /\ RowsSent' /\ messages' \in [Calls -> Row]
           /\ Holds(call[c].id, call[c].key, call[c].body)'
  <1>1. TypeOK /\ CallsKept /\ call[c].key \in Keys \cup {None} /\ call[c].body \in Bodies \cup {None}
    BY CallFacts, MovedKeeps
  <1>2. RowOf(c) \in Row
    BY <1>1 DEF RowOf, Row
  <1>3. messages' \in [Calls -> Row]
    BY <1>1, <1>2 DEF TypeOK
  <1>4. /\ messages'[call[c].id].status = "unread" /\ messages'[call[c].id].key = call[c].key
        /\ messages'[call[c].id].body = call[c].body
        /\ \A i \in Calls \ {call[c].id} : messages'[i] = messages[i]
    BY <1>1 DEF TypeOK, RowOf
  <1>5. RowsKept
    BY <1>4 DEF RowsKept, Stored
  <1>6. Holds(call[c].id, call[c].key, call[c].body)'
    BY <1>4 DEF Holds, Stored, Moved
  <1>7. RowsSent'
    <2> SUFFICES ASSUME NEW i \in Calls, Stored(i)'
                 PROVE  Sent(i, messages[i].key, messages[i].body)'
      BY DEF RowsSent
    <2>1. CASE i = call[c].id
      <3>1. call'[c].pc # "new" /\ call'[c].id = i /\ call'[c].key = messages'[i].key
            /\ call'[c].body = messages'[i].body
        BY <2>1, <1>4 DEF Moved
      <3> QED
        BY <3>1 DEF Sent
    <2>2. CASE i # call[c].id
      <3>1. messages'[i] = messages[i]
        BY <2>2, <1>4
      <3>2. Sent(i, messages[i].key, messages[i].body)
        BY <3>1 DEF ReceiptInv, RowsSent, Stored
      <3> QED
        BY <1>1, <3>1, <3>2, SentKept
    <2> QED
      BY <2>1, <2>2
  <1> QED
    BY <1>3, <1>5, <1>6, <1>7

\* A step that adds the call's row and leaves the records alone.
LEMMA AddedReceipt ==
    ASSUME ReceiptInv, NEW c \in Calls, NEW p \in {"returned", "complete"},
           Moved(c, p, call[c].id), call' \in [Calls -> CallRow], call[c].id \in Calls,
           ~Stored(call[c].id), messages' = [messages EXCEPT ![call[c].id] = RowOf(c)],
           record' = record, inbox' = inbox, faults' = faults,
           p = "complete" => call[c].key \in Keys, call[c].pc \in Begun
    PROVE  ReceiptInv'
  <1>1. /\ RowsKept /\ RowsSent' /\ messages' \in [Calls -> Row]
        /\ Holds(call[c].id, call[c].key, call[c].body)'
    BY RowAdded
  <1>2. TypeOK /\ CallKnows(c) /\ CallsKept /\ RecordsKept
    BY CallFacts, MovedKeeps DEF RecordsKept
  <1>3. call[c].key # None =>
           record'[call[c].key].status # "none" /\ record'[call[c].key].body = call[c].body
    BY <1>2 DEF CallKnows
  <1>4. /\ \A d \in Calls : CallKnows(d)'
        /\ \A d \in Calls : call'[d].pc = "returned" =>
              call'[d].ret \in Calls /\ Holds(call[d].ret, call[d].key, call[d].body)'
        /\ IdsAgree'
    BY <1>1, <1>2, <1>3, MovedKnows DEF Moved
  <1>5. TypeOK'
    BY <1>1, <1>2 DEF TypeOK
  <1>6. \A i \in inbox'.pending : Stored(i)'
    <2>1. inbox.pending \subseteq Calls
      BY <1>2 DEF TypeOK, InboxRow
    <2> QED
      BY <1>1, <2>1 DEF ReceiptInv, RowsKept
  <1> QED
    BY <1>1, <1>2, <1>4, <1>5, <1>6, RecordKept, Assembled


\* The insert of the first attempt.
LEMMA InsertReceipt ==
    ASSUME ReceiptInv, NEW c \in Calls, Insert(c)
    PROVE  ReceiptInv'
  <1>1. /\ call[c].pc = "insert" /\ TypeOK /\ call[c].id \in Calls
        /\ call[c].key # None => call[c].key \in Keys
    BY CallFacts DEF Insert, CallKnows
  <1>2. record' = record /\ inbox' = inbox /\ faults' = faults
    BY DEF Insert
  <1>3. CASE ~Stored(call[c].id)
    <2>1. PICK p \in {"returned", "complete"} :
             /\ p = (IF call[c].key = None THEN "returned" ELSE "complete")
             /\ messages' = [messages EXCEPT ![call[c].id] = RowOf(c)]
             /\ GoWith(c, p, call[c].id)
      BY <1>3 DEF Insert
    <2>2. Moved(c, p, call[c].id) /\ call' \in [Calls -> CallRow]
      BY <1>1, <2>1, GoWithMoves
    <2> QED
      BY <1>1, <1>2, <1>3, <2>1, <2>2, AddedReceipt
  <1>4. CASE Stored(call[c].id)
    <2>1. Go(c, "raised") /\ messages' = messages
      BY <1>4 DEF Insert
    <2>2. Moved(c, "raised", call[c].ret) /\ call' \in [Calls -> CallRow] /\ faults' \in 0..MaxFaults
      BY <1>1, <1>2, <2>1, GoMoves DEF TypeOK
    <2> QED
      BY <1>2, <2>1, <2>2, SilentReceipt
  <1> QED
    BY <1>3, <1>4

\* A retry finds the receipt, or the id the operation was begun with.
LEMMA ResumeReceipt ==
    ASSUME ReceiptInv, NEW c \in Calls, Resume(c)
    PROVE  ReceiptInv'
  <1> DEFINE r == record[call[c].key]
  <1>1. /\ call[c].pc = "resume" /\ TypeOK /\ call[c].key \in Keys
        /\ r.status # "none" /\ r.body = call[c].body
    BY CallFacts, NoneIsNoKey DEF Resume, CallKnows
  <1>2. messages' = messages /\ record' = record /\ inbox' = inbox /\ faults' = faults
        /\ faults' \in 0..MaxFaults
    BY <1>1 DEF Resume, TypeOK
  <1>3. r.id \in Calls /\ Sent(r.id, call[c].key, call[c].body)
    BY <1>1 DEF ReceiptInv, RecordsSent
  <1>4. r.receipt # None => r.receipt \in Calls /\ Holds(r.receipt, call[c].key, call[c].body)
    BY <1>1 DEF ReceiptInv, NoFabricatedReceipt
  <1>5. CASE r.receipt # None /\ GoWith(c, "returned", r.receipt)
    <2>1. Moved(c, "returned", r.receipt) /\ call' \in [Calls -> CallRow]
      BY <1>1, <1>4, <1>5, GoWithMoves
    <2> QED
      BY <1>2, <1>4, <1>5, <2>1, SilentReceipt
  <1>6. CASE GoWith(c, "probe", r.id)
    <2>1. Moved(c, "probe", r.id) /\ call' \in [Calls -> CallRow]
      BY <1>1, <1>3, <1>6, GoWithMoves
    <2> QED
      BY <1>1, <1>2, <1>3, <2>1, SilentReceipt
  <1> QED
    BY <1>5, <1>6 DEF Resume

\* A row of the canonical id is a row of this message.
LEMMA ProbeReceipt ==
    ASSUME ReceiptInv, NEW c \in Calls, Probe(c)
    PROVE  ReceiptInv'
  <1>1. /\ call[c].pc = "probe" /\ TypeOK /\ call[c].key \in Keys /\ call[c].ret \in Calls
        /\ record[call[c].key].status # "none" /\ record[call[c].key].body = call[c].body
        /\ Sent(call[c].ret, call[c].key, call[c].body)
    BY CallFacts, NoneIsNoKey DEF Probe, CallKnows
  <1>2. messages' = messages /\ record' = record /\ inbox' = inbox /\ faults' = faults
        /\ faults' \in 0..MaxFaults
    BY <1>1 DEF Probe, TypeOK
  <1>3. Stored(call[c].ret) => Holds(call[c].ret, call[c].key, call[c].body)
    <2> SUFFICES ASSUME Stored(call[c].ret) PROVE Holds(call[c].ret, call[c].key, call[c].body)
      OBVIOUS
    <2>1. Sent(call[c].ret, messages[call[c].ret].key, messages[call[c].ret].body)
      BY <1>1 DEF ReceiptInv, RowsSent
    <2>2. messages[call[c].ret].key = call[c].key /\ messages[call[c].ret].body = call[c].body
      BY <1>1, <2>1 DEF ReceiptInv, IdsAgree, Sent
    <2> QED
      BY <2>2 DEF Holds
  <1>4. PICK p \in {"complete", "reinsert"} :
           p = (IF Stored(call[c].ret) THEN "complete" ELSE "reinsert") /\ Go(c, p)
    BY DEF Probe
  <1>5. Moved(c, p, call[c].ret) /\ call' \in [Calls -> CallRow]
    BY <1>1, <1>4, GoMoves
  <1> QED
    BY <1>1, <1>2, <1>3, <1>4, <1>5, SilentReceipt

\* The resumed insert: a row that is already there is a row of this message.
LEMMA ReinsertReceipt ==
    ASSUME ReceiptInv, NEW c \in Calls, Reinsert(c)
    PROVE  ReceiptInv'
  <1>1. /\ call[c].pc = "reinsert" /\ TypeOK /\ call[c].key \in Keys /\ call[c].id \in Calls
        /\ record[call[c].key].status # "none" /\ record[call[c].key].body = call[c].body
    BY CallFacts, NoneIsNoKey DEF Reinsert, CallKnows
  <1>2. record' = record /\ inbox' = inbox /\ faults' = faults /\ faults' \in 0..MaxFaults
    BY <1>1 DEF Reinsert, TypeOK
  <1>3. Moved(c, "complete", call[c].id) /\ call' \in [Calls -> CallRow]
    BY <1>1, GoWithMoves DEF Reinsert
  <1>4. CASE ~Stored(call[c].id)
    <2>1. messages' = [messages EXCEPT ![call[c].id] = RowOf(c)]
      BY <1>4 DEF Reinsert
    <2> QED
      BY <1>1, <1>2, <1>3, <1>4, <2>1, AddedReceipt
  <1>5. CASE Stored(call[c].id)
    <2>1. messages' = messages
      BY <1>5 DEF Reinsert
    <2>2. Sent(call[c].id, messages[call[c].id].key, messages[call[c].id].body)
      BY <1>1, <1>5 DEF ReceiptInv, RowsSent
    <2>3. messages[call[c].id].key = call[c].key /\ messages[call[c].id].body = call[c].body
      BY <1>1, <2>2 DEF ReceiptInv, IdsAgree, Sent
    <2>4. Holds(call[c].id, call[c].key, call[c].body)
      BY <1>5, <2>3 DEF Holds
    <2> QED
      BY <1>1, <1>2, <1>3, <2>1, <2>4, SilentReceipt
  <1> QED
    BY <1>4, <1>5

\* complete_idempotent_side_effect: the receipt it writes is that of a row.
LEMMA CompleteReceipt ==
    ASSUME ReceiptInv, NEW c \in Calls, Complete(c)
    PROVE  ReceiptInv'
  <1> DEFINE k == call[c].key
             x == call[c].ret
  <1>1. /\ call[c].pc = "complete" /\ TypeOK /\ k \in Keys /\ x \in Calls
        /\ record[k].status # "none" /\ record[k].body = call[c].body
        /\ Holds(x, k, call[c].body)
    BY CallFacts, NoneIsNoKey DEF Complete, CallKnows
  <1>2. messages' = messages /\ inbox' = inbox /\ faults' = faults
    BY DEF Complete
  <1>3. Moved(c, "returned", x) /\ call' \in [Calls -> CallRow]
    BY <1>1, GoMoves DEF Complete
  <1>4. /\ record' \in [Keys -> KeyRow]
        /\ record'[k].status = "completed" /\ record'[k].id = x /\ record'[k].receipt = x
        /\ record'[k].body = record[k].body
        /\ \A q \in Keys \ {k} : record'[q] = record[q]
    <2>1. record[k] \in KeyRow /\ record \in [Keys -> KeyRow]
      BY <1>1 DEF TypeOK
    <2>2. record' = [record EXCEPT ![k] =
             [record[k] EXCEPT !.status = "completed", !.id = x, !.receipt = x]]
      BY DEF Complete
    <2>3. [record[k] EXCEPT !.status = "completed", !.id = x, !.receipt = x] \in KeyRow
      BY <1>1, <2>1 DEF KeyRow
    <2>4. /\ record' \in [Keys -> KeyRow] /\ \A q \in Keys \ {k} : record'[q] = record[q]
          /\ record'[k] = [record[k] EXCEPT !.status = "completed", !.id = x, !.receipt = x]
      BY <1>1, <2>1, <2>2, <2>3
    <2> QED
      BY <2>1, <2>4 DEF KeyRow
  <1>5. CallsKept /\ RowsSent' /\ RowsKept /\ RecordsKept
    BY <1>1, <1>2, <1>3, <1>4, MovedKeeps, RowsSentKept DEF RecordsKept
  <1>6. Holds(x, k, call[c].body)'
    BY <1>1, <1>3, <1>5, HoldsKept DEF Moved
  <1>7. /\ \A d \in Calls : CallKnows(d)'
        /\ \A d \in Calls : call'[d].pc = "returned" =>
              call'[d].ret \in Calls /\ Holds(call[d].ret, call[d].key, call[d].body)'
        /\ IdsAgree'
    BY <1>1, <1>3, <1>5, <1>6, MovedKnows DEF Moved
  <1>8. TypeOK'
    BY <1>1, <1>2, <1>3, <1>4 DEF TypeOK
  <1>9. \A q \in Keys :
           /\ record'[q].status # "none" =>
                 record'[q].id \in Calls /\ Sent(record[q].id, q, record[q].body)'
           /\ record'[q].receipt # None =>
                 record'[q].receipt \in Calls /\ Holds(record[q].receipt, q, record[q].body)'
    <2> SUFFICES ASSUME NEW q \in Keys
                 PROVE /\ record'[q].status # "none" =>
                           record'[q].id \in Calls /\ Sent(record[q].id, q, record[q].body)'
                       /\ record'[q].receipt # None =>
                           record'[q].receipt \in Calls
                           /\ Holds(record[q].receipt, q, record[q].body)'
      OBVIOUS
    <2>1. CASE record'[q] = record[q]
      BY <2>1, <1>5, RecordKept
    <2>2. CASE q = k
      <3>1. Sent(x, messages[x].key, messages[x].body)
        BY <1>1 DEF ReceiptInv, RowsSent, Holds
      <3>2. Sent(x, q, call[c].body)
        BY <1>1, <2>2, <3>1 DEF Holds
      <3>3. Sent(x, q, call[c].body)' /\ Holds(x, q, call[c].body)'
        BY <1>1, <1>3, <1>5, <2>2, <3>2, SentKept, HoldsKept DEF Moved
      <3>4. record'[q].id = x' /\ record'[q].receipt = x' /\ record'[q].body = call'[c].body
            /\ x' \in Calls
        BY <1>1, <1>3, <1>4, <2>2 DEF Moved
      <3> QED
        BY <3>3, <3>4
    <2> QED
      BY <2>1, <2>2, <1>4
  <1>10. \A i \in inbox'.pending : Stored(i)'
    BY <1>2 DEF ReceiptInv, Stored
  <1> QED
    BY <1>5, <1>7, <1>8, <1>9, <1>10, Assembled

\* A call that dies leaves what it wrote.
LEMMA FailReceipt ==
    ASSUME ReceiptInv, NEW c \in Calls, CallFails(c)
    PROVE  ReceiptInv'
  <1>1. call[c].pc \in Begun /\ TypeOK
    BY CallFacts DEF CallFails
  <1>2. messages' = messages /\ record' = record /\ inbox' = inbox
    BY DEF CallFails
  <1>3. faults' \in 0..MaxFaults
    BY <1>1, BusLimits DEF CallFails, Fault, TypeOK
  <1>4. Moved(c, "dead", call[c].ret) /\ call' \in [Calls -> CallRow]
    BY <1>1, GoMoves DEF CallFails
  <1> QED
    BY <1>2, <1>3, <1>4, SilentReceipt

\* A step of the wake only turns stored messages from unread to read.
LEMMA WakeReceipt ==
    ASSUME ReceiptInv, call' = call, record' = record, faults' \in 0..MaxFaults,
           inbox' \in InboxRow, messages' \in [Calls -> Row],
           \A i \in Calls : (Stored(i)' <=> Stored(i)) /\ messages'[i].key = messages[i].key
                            /\ messages'[i].body = messages[i].body,
           \A i \in inbox'.pending : Stored(i)
    PROVE  ReceiptInv'
  <1>1. RowsKept /\ CallsKept /\ RecordsKept
    BY DEF RowsKept, CallsKept, RecordsKept
  <1>2. TypeOK'
    BY DEF ReceiptInv, TypeOK
  <1>3. /\ \A d \in Calls : CallKnows(d)'
        /\ \A d \in Calls : call'[d].pc = "returned" =>
              call'[d].ret \in Calls /\ Holds(call[d].ret, call[d].key, call[d].body)'
    BY <1>1, OthersKnow
  <1>4. IdsAgree'
    BY DEF ReceiptInv, IdsAgree
  <1>5. RowsSent'
    <2> SUFFICES ASSUME NEW i \in Calls, Stored(i)'
                 PROVE  Sent(i, messages[i].key, messages[i].body)'
      BY DEF RowsSent
    <2>1. Sent(i, messages[i].key, messages[i].body)
      BY DEF ReceiptInv, RowsSent
    <2> QED
      BY <1>1, <2>1, SentKept
  <1>6. \A i \in inbox'.pending : Stored(i)'
    <2>1. inbox'.pending \subseteq Calls
      BY DEF InboxRow
    <2> QED
      BY <2>1
  <1> QED
    BY <1>1, <1>2, <1>3, <1>4, <1>5, <1>6, RecordKept, Assembled


\* The steps of a wake that read or fail.
LEMMA InboxReceipt ==
    ASSUME ReceiptInv,
           CheckInbox \/ CheckFails \/ LoopEnds \/ LoopBreaks \/ WakeFails \/ AckDone
              \/ \E i \in Calls : AckFails(i)
    PROVE  ReceiptInv'
  <1>1. TypeOK /\ inbox \in InboxRow /\ \A i \in inbox.pending : Stored(i)
    BY DEF ReceiptInv, TypeOK
  <1>2. call' = call /\ record' = record /\ messages' = messages
    BY DEF CheckInbox, CheckFails, LoopEnds, LoopBreaks, WakeFails, AckDone, AckFails
  <1>3. faults' \in 0..MaxFaults
    <2>1. faults' = faults \/ Fault
      BY DEF CheckInbox, CheckFails, LoopEnds, LoopBreaks, WakeFails, AckDone, AckFails
    <2> QED
      BY <1>1, <2>1, BusLimits DEF Fault, TypeOK
  <1>4. inbox' \in InboxRow /\ \A i \in inbox'.pending : Stored(i)
    <2>1. CASE CheckInbox
      <3>1. PICK S \in SUBSET Unread : inbox' = [inbox EXCEPT !.pc = "loop", !.pending = S]
        BY <2>1 DEF CheckInbox
      <3>2. S \subseteq Calls /\ \A i \in S : Stored(i)
        BY <3>1 DEF Unread, Stored
      <3> QED
        BY <1>1, <3>1, <3>2 DEF InboxRow
    <2>2. CASE CheckFails
      BY <1>1, <2>2 DEF CheckFails, InboxRow
    <2>3. CASE LoopEnds \/ LoopBreaks
      BY <1>1, <2>3 DEF LoopEnds, LoopBreaks, InboxRow
    <2>4. CASE WakeFails
      BY <1>1, <2>4 DEF WakeFails, InboxRow
    <2>5. CASE AckDone
      BY <1>1, <2>5 DEF AckDone, InboxRow
    <2>6. CASE \E i \in Calls : AckFails(i)
      BY <1>1, <2>6 DEF AckFails, InboxRow
    <2> QED
      BY <2>1, <2>2, <2>3, <2>4, <2>5, <2>6
  <1>5. \A i \in Calls : (Stored(i)' <=> Stored(i)) /\ messages'[i].key = messages[i].key
                         /\ messages'[i].body = messages[i].body
    BY <1>2 DEF Stored
  <1>6. messages' \in [Calls -> Row]
    BY <1>1, <1>2 DEF TypeOK
  <1> QED
    BY <1>2, <1>3, <1>4, <1>5, <1>6, WakeReceipt

\* mark_read of a message that is stored.
LEMMA AckReceipt ==
    ASSUME ReceiptInv, NEW i \in Calls, AckRead(i)
    PROVE  ReceiptInv'
  <1>1. TypeOK /\ inbox \in InboxRow /\ (\A j \in inbox.pending : Stored(j)) /\ Stored(i)
    BY DEF ReceiptInv, TypeOK, AckRead
  <1>2. call' = call /\ record' = record /\ faults' \in 0..MaxFaults
    BY <1>1 DEF AckRead, TypeOK
  <1>3. inbox' \in InboxRow /\ \A j \in inbox'.pending : Stored(j)
    BY <1>1 DEF AckRead, InboxRow
  <1>4. messages[i] \in Row /\ messages \in [Calls -> Row]
    BY <1>1 DEF TypeOK
  <1>5. messages' = [messages EXCEPT ![i] = [messages[i] EXCEPT !.status = "read"]]
    BY <1>4 DEF AckRead
  <1>6. [messages[i] EXCEPT !.status = "read"] \in Row
    BY <1>4 DEF Row
  <1>7. /\ messages' \in [Calls -> Row] /\ \A j \in Calls \ {i} : messages'[j] = messages[j]
        /\ messages'[i] = [messages[i] EXCEPT !.status = "read"]
    BY <1>4, <1>5, <1>6
  <1>8. messages'[i].status = "read" /\ messages'[i].key = messages[i].key
        /\ messages'[i].body = messages[i].body
    BY <1>4, <1>7 DEF Row
  <1>9. \A j \in Calls : (Stored(j)' <=> Stored(j)) /\ messages'[j].key = messages[j].key
                         /\ messages'[j].body = messages[j].body
    BY <1>1, <1>7, <1>8 DEF Stored
  <1> QED
    BY <1>2, <1>3, <1>7, <1>9, WakeReceipt

\* Every step preserves the invariant.
LEMMA NextReceipt == ReceiptInv /\ [Next]_vars => ReceiptInv'
  <1> SUFFICES ASSUME ReceiptInv, [Next]_vars PROVE ReceiptInv'
    OBVIOUS
  <1>1. ASSUME NEW c \in Calls, NEW k \in Keys \cup {None}, NEW b \in Bodies, Start(c, k, b)
        PROVE  ReceiptInv'
    BY <1>1, StartReceipt
  <1>2. ASSUME NEW c \in Calls, CallStep(c) PROVE ReceiptInv'
    BY <1>2, BeginReceipt, InsertReceipt, ResumeReceipt, ProbeReceipt, ReinsertReceipt,
       CompleteReceipt DEF CallStep
  <1>3. ASSUME NEW c \in Calls, CallFails(c) PROVE ReceiptInv'
    BY <1>3, FailReceipt
  <1>4. CASE WakeStep \/ CheckFails \/ LoopBreaks \/ WakeFails \/ \E c \in Calls : AckFails(c)
    BY <1>4, InboxReceipt, AckReceipt DEF WakeStep
  <1>5. CASE UNCHANGED vars
    BY <1>5 DEF vars, ReceiptInv, TypeOK, CallKnows, IdsAgree, RowsSent, RecordsSent,
       NoFabricatedReceipt, Sent, Holds, Stored
  <1> QED
    BY <1>1, <1>2, <1>3, <1>4, <1>5 DEF Next

\* The tables, the calls and the inbox agree in every reachable state.
THEOREM ReceiptInvHolds == Spec => []ReceiptInv
  BY InitReceipt, NextReceipt, PTL DEF Spec

\* The bus keeps its types.
THEOREM BusTypeOK == Spec => []TypeOK
  <1>1. ReceiptInv => TypeOK
    BY DEF ReceiptInv
  <1> QED
    BY ReceiptInvHolds, <1>1, PTL

\* No sequence of crashes, retries and overlapping calls makes send return,
\* or the runtime store keep, a receipt without its message.
THEOREM NoFabricatedReceiptHolds == Spec => []NoFabricatedReceipt
  <1>1. ReceiptInv => NoFabricatedReceipt
    BY DEF ReceiptInv
  <1> QED
    BY ReceiptInvHolds, <1>1, PTL

-----------------------------------------------------------------------------
(* Acknowledgements *)

\* What a wake is about to acknowledge was in the prompt of a loop that ended.
PromptInv == ReadMeansPrompted /\ (inbox.pc = "ack" => inbox.pending \subseteq inbox.prompted)

\* Initially nothing was read.
LEMMA PromptInit == Init => PromptInv
  BY DEF Init, PromptInv, ReadMeansPrompted, NoRow

\* Every step keeps it.
LEMMA PromptNext == TypeOK /\ PromptInv /\ [Next]_vars => PromptInv'
  <1> SUFFICES ASSUME TypeOK, PromptInv, [Next]_vars PROVE PromptInv'
    OBVIOUS
  <1>1. inbox \in InboxRow /\ messages \in [Calls -> Row]
    BY DEF TypeOK
  <1> DEFINE Same == \A i \in Calls : messages'[i].status = "read" => messages[i].status = "read"
  <1>2. CASE Same /\ inbox' = inbox
    BY <1>2 DEF PromptInv, ReadMeansPrompted
  <1>3. ASSUME NEW c \in Calls, NEW k \in Keys \cup {None}, NEW b \in Bodies, Start(c, k, b)
        PROVE  PromptInv'
    BY <1>2, <1>3 DEF Start
  <1>4. ASSUME NEW c \in Calls, CallStep(c) \/ CallFails(c) PROVE PromptInv'
    <2>1. inbox' = inbox
      BY <1>4 DEF CallStep, CallFails, Begin, Insert, Resume, Probe, Reinsert, Complete
    <2>2. messages' = messages \/ messages' = [messages EXCEPT ![call[c].id] = RowOf(c)]
      BY <1>4 DEF CallStep, CallFails, Begin, Insert, Resume, Probe, Reinsert, Complete
    <2>3. Same
      BY <1>1, <2>2 DEF RowOf
    <2> QED
      BY <1>2, <2>1, <2>3
  <1>5. CASE CheckInbox \/ CheckFails \/ LoopEnds \/ LoopBreaks \/ WakeFails \/ AckDone
             \/ \E i \in Calls : AckFails(i)
    <2>1. messages' = messages
      BY <1>5 DEF CheckInbox, CheckFails, LoopEnds, LoopBreaks, WakeFails, AckDone, AckFails
    <2>2. CASE CheckInbox
      <3>1. inbox'.pc = "loop" /\ inbox'.prompted = inbox.prompted
        BY <1>1, <2>2 DEF CheckInbox, InboxRow
      <3> QED
        BY <2>1, <3>1 DEF PromptInv, ReadMeansPrompted
    <2>3. CASE CheckFails \/ WakeFails
      BY <1>1, <2>1, <2>3 DEF CheckFails, WakeFails, InboxRow, PromptInv, ReadMeansPrompted
    <2>4. CASE LoopEnds \/ LoopBreaks
      BY <1>1, <2>1, <2>4 DEF LoopEnds, LoopBreaks, InboxRow, PromptInv, ReadMeansPrompted
    <2>5. CASE AckDone
      BY <1>1, <2>1, <2>5 DEF AckDone, InboxRow, PromptInv, ReadMeansPrompted
    <2>6. CASE \E i \in Calls : AckFails(i)
      BY <1>1, <2>1, <2>6 DEF AckFails, InboxRow, PromptInv, ReadMeansPrompted
    <2> QED
      BY <1>5, <2>2, <2>3, <2>4, <2>5, <2>6
  <1>6. ASSUME NEW i \in Calls, AckRead(i) PROVE PromptInv'
    <2>1. i \in inbox.prompted /\ inbox.pending \subseteq inbox.prompted
      BY <1>6 DEF AckRead, PromptInv
    <2>2. \A j \in Calls \ {i} : messages'[j] = messages[j]
      BY <1>1, <1>6 DEF AckRead
    <2>3. inbox'.prompted = inbox.prompted /\ inbox'.pending \subseteq inbox.pending
      BY <1>1, <1>6 DEF AckRead, InboxRow
    <2> QED
      BY <2>1, <2>2, <2>3 DEF PromptInv, ReadMeansPrompted
  <1>7. CASE UNCHANGED vars
    BY <1>2, <1>7 DEF vars
  <1> QED
    BY <1>3, <1>4, <1>5, <1>6, <1>7 DEF Next, WakeStep

\* Neither a crash nor a late message makes a wake mark a message read that
\* no prompt of an ended loop held.
THEOREM ReadMeansPromptedHolds == Spec => []ReadMeansPrompted
  <1>1. PromptInv => ReadMeansPrompted
    BY DEF PromptInv
  <1> QED
    BY BusTypeOK, PromptInit, PromptNext, <1>1, PTL DEF Spec


-----------------------------------------------------------------------------
(* Receipts that do not change *)

\* The phases of a call that will write a receipt.
Working == {"insert", "probe", "reinsert", "complete"}

\* While the calls of a key do not overlap there is one at most, and it works
\* only if the record has no receipt yet.
Solo(k) ==
    /\ record[k].status = "none" => record[k].receipt = None
    /\ ~Raced(k) =>
          /\ \A c, d \in Calls : Live(c) /\ Live(d) /\ call[c].key = k /\ call[d].key = k => c = d
          /\ \A c \in Calls : call[c].key = k /\ call[c].pc \in Working => record[k].receipt = None
Unraced == \A c \in Calls : call[c].pc = "new" => ~call[c].raced
SoloInv == Unraced /\ \A k \in Keys : Solo(k)

\* Initially there are no calls.
LEMMA SoloInit == Init => SoloInv
  <1> SUFFICES ASSUME Init PROVE SoloInv
    OBVIOUS
  <1>1. \A c \in Calls : call[c].pc = "new" /\ call[c].raced = FALSE
    BY DEF Init, NoCall
  <1>2. \A k \in Keys : record[k].receipt = None
    BY DEF Init, NoRecord
  <1> QED
    BY <1>1, <1>2 DEF SoloInv, Solo, Unraced, Live

\* A step of a call keeps it, if the call works on only for want of a receipt.
LEMMA SoloMoved ==
    ASSUME SoloInv, NEW c \in Calls, NEW p, NEW x, Moved(c, p, x), Live(c), NEW k \in Keys,
           record'[k].status = "none" => record'[k].receipt = None,
           call[c].key # k => record'[k] = record[k],
           call[c].key = k /\ p \in Working /\ ~Raced(k) => record'[k].receipt = None
    PROVE  Solo(k)'
  <1>1. \A d \in Calls : call'[d].key = call[d].key /\ call'[d].raced = call[d].raced
    BY DEF Moved
  <1>2. Raced(k)' => Raced(k)
    BY <1>1 DEF Raced
  <1>3. Raced(k) => Raced(k)'
    BY <1>1 DEF Raced
  <1>4. \A d \in Calls : Live(d)' => Live(d)
    BY DEF Moved, Live
  <1> SUFFICES ASSUME ~Raced(k)
               PROVE  /\ \A d, e \in Calls : Live(d)' /\ Live(e)' /\ call'[d].key = k
                                             /\ call'[e].key = k => d = e
                      /\ \A d \in Calls : call'[d].key = k /\ call'[d].pc \in Working =>
                            record'[k].receipt = None
    BY <1>3 DEF Solo
  <1>5. \A d, e \in Calls : Live(d) /\ Live(e) /\ call[d].key = k /\ call[e].key = k => d = e
    BY DEF SoloInv, Solo
  <1>6. ASSUME NEW d \in Calls, call'[d].key = k, call'[d].pc \in Working
        PROVE  record'[k].receipt = None
    <2>1. CASE d = c
      BY <1>1, <1>6, <2>1 DEF Moved
    <2>2. CASE d # c
      <3>1. call'[d] = call[d] /\ Live(d) /\ call[d].key = k
        BY <1>1, <1>6, <2>2 DEF Moved, Live, Working
      <3>2. call[c].key # k
        BY <1>5, <2>2, <3>1
      <3>3. record'[k] = record[k]
        BY <3>2
      <3> QED
        BY <1>6, <3>1, <3>3 DEF SoloInv, Solo
    <2> QED
      BY <2>1, <2>2
  <1> QED
    BY <1>1, <1>4, <1>5, <1>6

\* Every step of a call, then, and none changes a receipt of calls that do
\* not overlap.
LEMMA SoloCall ==
    ASSUME ReceiptInv, SoloInv, NEW c \in Calls, CallStep(c) \/ CallFails(c)
    PROVE  /\ SoloInv'
           /\ \A k \in Keys : record[k].receipt # None /\ ~Raced(k) =>
                 record'[k].receipt = record[k].receipt
  <1>1. TypeOK /\ CallKnows(c) /\ call[c].ret \in Calls \cup {None}
        /\ record \in [Keys -> KeyRow]
    BY CallFacts DEF TypeOK
  <1>2. Live(c)
    BY DEF Live, CallStep, CallFails, Begin, Insert, Resume, Probe, Reinsert, Complete
  <1>3. \A k \in Keys : record[k].status = "none" => record[k].receipt = None
    BY DEF SoloInv, Solo
  <1>4. \A k \in Keys : call[c].key = k /\ call[c].pc \in Working /\ ~Raced(k) =>
           record[k].receipt = None
    BY DEF SoloInv, Solo
  <1>5. ASSUME NEW p, NEW x, Moved(c, p, x),
               \A k \in Keys : record'[k].status = "none" => record'[k].receipt = None,
               \A k \in Keys : call[c].key # k => record'[k] = record[k],
               \A k \in Keys : call[c].key = k /\ p \in Working /\ ~Raced(k) =>
                                  record'[k].receipt = None
        PROVE  SoloInv'
    <2>1. \A k \in Keys : Solo(k)'
      BY <1>2, <1>5, SoloMoved
    <2>2. Unraced'
      BY <1>5 DEF Moved, Unraced, SoloInv
    <2> QED
      BY <2>1, <2>2 DEF SoloInv
  <1>6. CASE Begin(c)
    <2>1. call[c].pc = "begin" /\ call[c].key \in Keys
      BY <1>1, <1>6 DEF Begin, CallKnows
    <2>2. CASE record' = record /\ (Go(c, "resume") \/ Go(c, "raised"))
      <3>1. Moved(c, "resume", call[c].ret) \/ Moved(c, "raised", call[c].ret)
        BY <1>1, <2>1, <2>2, GoMoves
      <3> QED
        BY <1>3, <1>5, <2>2, <3>1 DEF Working
    <2>3. CASE record[call[c].key].status = "none" /\ Go(c, "insert")
               /\ record' = [record EXCEPT ![call[c].key] =
                      [status |-> "started", id |-> call[c].id,
                       body |-> call[c].body, receipt |-> None]]
      <3>1. Moved(c, "insert", call[c].ret)
        BY <1>1, <2>1, <2>3, GoMoves
      <3>2. record'[call[c].key].receipt = None
            /\ \A k \in Keys : call[c].key # k => record'[k] = record[k]
        BY <1>1, <2>1, <2>3
      <3>3. SoloInv'
        BY <1>3, <1>5, <3>1, <3>2
      <3> QED
        BY <1>3, <2>3, <3>2, <3>3
    <2> QED
      BY <1>6, <2>2, <2>3 DEF Begin
  <1>7. CASE Insert(c)
    <2>1. call[c].pc = "insert" /\ call[c].id \in Calls /\ record' = record
      BY <1>1, <1>7 DEF Insert, CallKnows
    <2>2. GoWith(c, "returned", call[c].id) \/ GoWith(c, "complete", call[c].id) \/ Go(c, "raised")
      BY <1>7 DEF Insert
    <2>3. \E p, x : Moved(c, p, x)
      BY <1>1, <2>1, <2>2, GoWithMoves, GoMoves
    <2> QED
      BY <1>3, <1>4, <1>5, <2>1, <2>3 DEF Working
  <1>8. CASE Resume(c)
    <2>1. call[c].pc = "resume" /\ call[c].key \in Keys /\ record' = record
          /\ record[call[c].key].id \in Calls \cup {None}
          /\ record[call[c].key].receipt \in Calls \cup {None}
      BY <1>1, <1>8 DEF Resume, CallKnows, KeyRow
    <2>2. CASE GoWith(c, "returned", record[call[c].key].receipt)
      <3>1. Moved(c, "returned", record[call[c].key].receipt)
        BY <1>1, <2>1, <2>2, GoWithMoves
      <3> QED
        BY <1>3, <1>5, <2>1, <3>1 DEF Working
    <2>3. CASE record[call[c].key].receipt = None /\ GoWith(c, "probe", record[call[c].key].id)
      <3>1. Moved(c, "probe", record[call[c].key].id)
        BY <1>1, <2>1, <2>3, GoWithMoves
      <3> QED
        BY <1>3, <1>5, <2>1, <2>3, <3>1
    <2> QED
      BY <1>8, <2>2, <2>3 DEF Resume
  <1>9. CASE Probe(c) \/ Reinsert(c)
    <2>1. call[c].pc \in {"probe", "reinsert"} /\ call[c].id \in Calls /\ record' = record
      BY <1>1, <1>9 DEF Probe, Reinsert, CallKnows
    <2>2. GoWith(c, "complete", call[c].id) \/ Go(c, "complete") \/ Go(c, "reinsert")
      BY <1>9 DEF Probe, Reinsert
    <2>3. \E p, x : Moved(c, p, x)
      BY <1>1, <2>1, <2>2, GoWithMoves, GoMoves
    <2> QED
      BY <1>3, <1>4, <1>5, <2>1, <2>3 DEF Working
  <1>10. CASE Complete(c)
    <2>1. call[c].pc = "complete" /\ call[c].key \in Keys
      BY <1>1, <1>10 DEF Complete, CallKnows
    <2>2. Moved(c, "returned", call[c].ret)
      BY <1>1, <1>10, <2>1, GoMoves DEF Complete
    <2>3. record' = [record EXCEPT ![call[c].key] = [record[call[c].key] EXCEPT
               !.status = "completed", !.id = call[c].ret, !.receipt = call[c].ret]]
      BY <1>10 DEF Complete
    <2>4. record'[call[c].key] = [record[call[c].key] EXCEPT
               !.status = "completed", !.id = call[c].ret, !.receipt = call[c].ret]
          /\ \A k \in Keys : call[c].key # k => record'[k] = record[k]
      BY <1>1, <2>1, <2>3
    <2>5. record'[call[c].key].status = "completed"
      BY <1>1, <2>1, <2>4 DEF KeyRow
    <2>6. SoloInv'
      <3>1. \A k \in Keys : record'[k].status = "none" => record'[k].receipt = None
        BY <1>3, <2>4, <2>5
      <3>2. \A k \in Keys : call[c].key # k => record'[k] = record[k]
        BY <2>4
      <3>3. "returned" \notin Working
        BY DEF Working
      <3> QED
        BY <1>5, <2>2, <3>1, <3>2, <3>3
    <2>7. \A k \in Keys : record[k].receipt # None /\ ~Raced(k) => call[c].key # k
      BY <1>4, <2>1 DEF Working
    <2> QED
      BY <2>4, <2>6, <2>7
  <1>11. CASE CallFails(c)
    <2>1. call[c].pc \in Begun /\ record' = record
      BY <1>11 DEF CallFails
    <2>2. Moved(c, "dead", call[c].ret)
      BY <1>1, <1>11, <2>1, GoMoves DEF CallFails
    <2> QED
      BY <1>3, <1>5, <2>1, <2>2 DEF Working
  <1> QED
    BY <1>6, <1>7, <1>8, <1>9, <1>10, <1>11 DEF CallStep

\* A new call: either it overlaps, and is marked, or it is the only one.
LEMMA SoloStart ==
    ASSUME ReceiptInv, SoloInv, NEW c \in Calls, NEW k \in Keys \cup {None}, NEW b \in Bodies,
           Start(c, k, b)
    PROVE  SoloInv'
  <1> DEFINE raced == \E d \in Calls : Live(d) /\ call[d].key = k
  <1>1. PICK i : call' = [call EXCEPT ![c] =
             [pc |-> IF k = None THEN "insert" ELSE "begin", key |-> k, body |-> b,
              id |-> i, ret |-> None, raced |-> raced]]
    BY DEF Start
  <1>2. raced \in BOOLEAN
    OBVIOUS
  <1> HIDE DEF raced
  <1>3. /\ call'[c].pc = (IF k = None THEN "insert" ELSE "begin") /\ call'[c].key = k
        /\ call'[c].raced = raced /\ \A d \in Calls \ {c} : call'[d] = call[d]
        /\ record' = record /\ call[c].pc = "new"
    BY <1>1 DEF ReceiptInv, TypeOK, Start
  <1>4. Unraced'
    BY <1>3 DEF Unraced, SoloInv
  <1>5. ASSUME NEW q \in Keys PROVE Solo(q)'
    <2>1. record[q].status = "none" => record[q].receipt = None
      BY DEF SoloInv, Solo
    <2> SUFFICES ASSUME ~Raced(q)'
                 PROVE  /\ \A d, e \in Calls : Live(d)' /\ Live(e)' /\ call'[d].key = q
                                               /\ call'[e].key = q => d = e
                        /\ \A d \in Calls : call'[d].key = q /\ call'[d].pc \in Working =>
                              record'[q].receipt = None
      BY <1>3, <2>1 DEF Solo
    <2>2. CASE q = k
      <3>1. ~raced
        BY <1>3, <2>2 DEF Raced
      <3>2. \A d \in Calls : ~(Live(d) /\ call[d].key = k)
        BY <3>1 DEF raced
      <3>3. \A d \in Calls : Live(d)' /\ call'[d].key = q => d = c
        BY <1>3, <2>2, <3>2 DEF Live
      <3>4. call'[c].pc = "begin"
        BY <1>3, <2>2, NoneIsNoKey
      <3> QED
        BY <3>3, <3>4 DEF Live, Working
    <2>3. CASE q # k
      <3>1. \A d \in Calls : call'[d].key = q => call'[d] = call[d] /\ d # c
        BY <1>3, <2>3
      <3>2. ~Raced(q)
        BY <1>3, <2>3 DEF Raced, SoloInv, Unraced
      <3>3. \A d \in Calls : Live(d)' /\ call'[d].key = q => Live(d) /\ call[d].key = q
        BY <3>1 DEF Live
      <3> QED
        BY <1>3, <3>1, <3>2, <3>3 DEF SoloInv, Solo
    <2> QED
      BY <2>2, <2>3
  <1> QED
    BY <1>4, <1>5 DEF SoloInv

\* Steps that touch neither calls nor records.
LEMMA SoloSame ==
    ASSUME SoloInv, call' = call, record' = record
    PROVE  SoloInv'
  BY DEF SoloInv, Solo, Unraced, Raced, Live

\* Every step keeps it, and the receipts.
LEMMA SoloNext ==
    ReceiptInv /\ SoloInv /\ [Next]_vars =>
        /\ SoloInv'
        /\ \A k \in Keys : record[k].receipt # None /\ ~Raced(k) =>
              record'[k].receipt = record[k].receipt
  <1> SUFFICES ASSUME ReceiptInv, SoloInv, [Next]_vars
               PROVE  /\ SoloInv'
                      /\ \A k \in Keys : record[k].receipt # None /\ ~Raced(k) =>
                            record'[k].receipt = record[k].receipt
    OBVIOUS
  <1>1. ASSUME NEW c \in Calls, NEW k \in Keys \cup {None}, NEW b \in Bodies, Start(c, k, b)
        PROVE  SoloInv' /\ record' = record
    BY <1>1, SoloStart DEF Start
  <1>2. CASE \E c \in Calls : CallStep(c) \/ CallFails(c)
    BY <1>2, SoloCall
  <1>3. CASE WakeStep \/ CheckFails \/ LoopBreaks \/ WakeFails \/ (\E c \in Calls : AckFails(c)) \/ UNCHANGED vars
    <2>1. call' = call /\ record' = record
      BY <1>3 DEF WakeStep, CheckInbox, CheckFails, LoopEnds, LoopBreaks, WakeFails, AckDone, AckFails,
         AckRead, vars
    <2> QED
      BY <2>1, SoloSame
  <1> QED
    BY <1>1, <1>2, <1>3 DEF Next

\* A receipt handed out is never replaced by another, unless calls of the
\* same key overlapped.
THEOREM ReceiptStableHolds == Spec => ReceiptStable
  <1>1. ReceiptInv /\ SoloInv /\ [Next]_vars =>
           [\A k \in Keys : record[k].receipt # None /\ ~Raced(k) =>
               record'[k].receipt = record[k].receipt]_vars
    BY SoloNext
  <1> QED
    BY ReceiptInvHolds, SoloInit, SoloNext, <1>1, PTL DEF Spec, ReceiptStable

-----------------------------------------------------------------------------
(* One row for each operation *)

\* At most one call of the key failed.
Alone(k) == \A d, e \in Failed(k) : d = e

\* While the calls of a key do not overlap and one of them failed at most, a
\* row of it is the one its record names, or the one that a resumed call is
\* about to enter there.  Only a call that follows a failed one resumes, and
\* it inserts only if there is no row.
Once(k) ==
    ~Raced(k) /\ Alone(k) =>
        /\ \A i \in Rows(k) : record[k].status # "none" /\
              \/ i = record[k].id
              \/ \E c \in Calls : call[c].key = k /\ call[c].pc = "complete" /\ call[c].ret = i
        /\ \A c \in Calls : call[c].key = k =>
              /\ call[c].pc \in {"insert", "reinsert"} => Rows(k) = {}
              /\ call[c].pc = "insert" => call[c].id = record[k].id
              /\ call[c].pc = "complete" =>
                    /\ Rows(k) \subseteq {call[c].ret}
                    /\ call[c].ret = record[k].id \/ Failed(k) # {}
              /\ call[c].pc = "probe" => call[c].ret = record[k].id
              /\ call[c].pc \in {"probe", "reinsert"} => Failed(k) # {}
        /\ record[k].status # "none" /\ record[k].receipt = None /\ Failed(k) = {} =>
              \E c \in Calls : call[c].key = k /\ call[c].pc \in {"insert", "complete"}
OnceInv == \A k \in Keys : Once(k)

\* The same, as the only call c of the key that is under way sees it.
OnceAt(c, k) ==
    /\ \A i \in Rows(k) : record[k].status # "none" /\
          (i = record[k].id \/ (call[c].pc = "complete" /\ call[c].ret = i))
    /\ call[c].pc \in {"insert", "reinsert"} => Rows(k) = {}
    /\ call[c].pc = "insert" => call[c].id = record[k].id
    /\ call[c].pc = "complete" =>
          /\ Rows(k) \subseteq {call[c].ret}
          /\ call[c].ret = record[k].id \/ Failed(k) # {}
    /\ call[c].pc = "probe" => call[c].ret = record[k].id
    /\ call[c].pc \in {"probe", "reinsert"} => Failed(k) # {}
    /\ record[k].status # "none" /\ record[k].receipt = None /\ Failed(k) = {} =>
          call[c].pc \in {"insert", "complete"}

\* Initially there is neither row nor record.
LEMMA OnceInit == Init => OnceInv
  <1> SUFFICES ASSUME Init PROVE OnceInv
    OBVIOUS
  <1>1. \A i \in Calls : ~Stored(i)
    BY DEF Init, NoRow, Stored
  <1>2. \A c \in Calls : call[c].pc = "new"
    BY DEF Init, NoCall
  <1>3. \A k \in Keys : record[k].status = "none"
    BY DEF Init, NoRecord
  <1>4. \A k \in Keys : Rows(k) = {}
    BY <1>1 DEF Rows
  <1> QED
    BY <1>2, <1>3, <1>4 DEF OnceInv, Once

\* Calls that do not overlap: what holds of the key holds of the live call.
LEMMA ToCall ==
    ASSUME SoloInv, OnceInv, NEW k \in Keys, NEW c \in Calls, Live(c), call[c].key = k,
           ~Raced(k), Alone(k)
    PROVE  OnceAt(c, k)
  <1>1. \A d \in Calls : call[d].key = k /\ call[d].pc \in Begun => d = c
    BY DEF SoloInv, Solo, Live
  <1>2. Once(k)
    BY DEF OnceInv
  <1>3. \A i \in Rows(k) : record[k].status # "none" /\
          (i = record[k].id \/ (call[c].pc = "complete" /\ call[c].ret = i))
    <2>1. \A i \in Rows(k) : record[k].status # "none" /\
              \/ i = record[k].id
              \/ \E d \in Calls : call[d].key = k /\ call[d].pc = "complete" /\ call[d].ret = i
      BY <1>2 DEF Once
    <2>2. ASSUME NEW i \in Rows(k), i # record[k].id
          PROVE  call[c].pc = "complete" /\ call[c].ret = i
      <3>1. PICK d \in Calls : call[d].key = k /\ call[d].pc = "complete" /\ call[d].ret = i
        BY <2>1, <2>2
      <3>2. d = c
        BY <1>1, <3>1
      <3> QED
        BY <3>1, <3>2
    <2> QED
      BY <2>1, <2>2
  <1>4. record[k].status # "none" /\ record[k].receipt = None /\ Failed(k) = {} =>
          call[c].pc \in {"insert", "complete"}
    BY <1>1, <1>2 DEF Once
  <1> QED
    BY <1>2, <1>3, <1>4 DEF Once, OnceAt

\* And the other way round, after a step of that call.
LEMMA FromCall ==
    ASSUME SoloInv, NEW k \in Keys, NEW c \in Calls, NEW p, NEW x, Moved(c, p, x), Live(c),
           call[c].key = k, ~Raced(k) /\ Alone(k)' => OnceAt(c, k)'
    PROVE  Once(k)'
  <1>1. ~Raced(k)' => ~Raced(k)
    BY DEF Raced, Moved
  <1> SUFFICES ASSUME ~Raced(k)', ~Raced(k), Alone(k)', OnceAt(c, k)'
               PROVE  Once(k)'
    BY <1>1 DEF Once
  <1>2. \A d \in Calls : call[d].key = k /\ call[d].pc \in Begun => d = c
    BY DEF SoloInv, Solo, Live
  <1>3. \A d \in Calls : call'[d].key = k /\ call'[d].pc \in Begun => d = c
    BY <1>2 DEF Moved
  <1>4. call'[c].key = k
    BY DEF Moved
  <1>5. \A i \in Rows(k)' : record'[k].status # "none" /\
              \/ i = record'[k].id
              \/ \E d \in Calls : call'[d].key = k /\ call'[d].pc = "complete" /\ call'[d].ret = i
    BY <1>4 DEF OnceAt
  <1>6. record'[k].status # "none" /\ record'[k].receipt = None /\ Failed(k)' = {} =>
              \E d \in Calls : call'[d].key = k /\ call'[d].pc \in {"insert", "complete"}
    BY <1>4 DEF OnceAt
  <1>7. ASSUME NEW d \in Calls, call'[d].key = k
        PROVE /\ call'[d].pc \in {"insert", "reinsert"} => Rows(k)' = {}
              /\ call'[d].pc = "insert" => call'[d].id = record'[k].id
              /\ call'[d].pc = "complete" =>
                    /\ Rows(k)' \subseteq {call'[d].ret}
                    /\ call'[d].ret = record'[k].id \/ Failed(k)' # {}
              /\ call'[d].pc = "probe" => call'[d].ret = record'[k].id
              /\ call'[d].pc \in {"probe", "reinsert"} => Failed(k)' # {}
    <2>1. CASE d = c
      BY <2>1 DEF OnceAt
    <2>2. CASE d # c
      <3>1. call'[d].pc \notin Begun
        BY <1>3, <1>7, <2>2
      <3> QED
        BY <3>1
    <2> QED
      BY <2>1, <2>2
  <1> QED
    BY <1>5, <1>6, <1>7 DEF Once

\* The failed calls after a step of a call.
LEMMA FailedMoved ==
    ASSUME NEW c \in Calls, NEW p, NEW x, Moved(c, p, x), Live(c), NEW k
    PROVE  /\ p # "dead" \/ call[c].key # k => Failed(k)' = Failed(k)
           /\ p = "dead" /\ call[c].key = k => Failed(k)' = Failed(k) \cup {c} /\ c \notin Failed(k)
  <1>1. \A d \in Calls : d # c => (d \in Failed(k)' <=> d \in Failed(k))
    BY DEF Moved, Failed
  <1>2. c \notin Failed(k)
    BY DEF Live, Failed
  <1>3. c \in Failed(k)' <=> p = "dead" /\ call[c].key = k
    BY DEF Moved, Failed
  <1>4. Failed(k) \subseteq Calls /\ Failed(k)' \subseteq Calls
    BY DEF Failed
  <1> QED
    BY <1>1, <1>2, <1>3, <1>4

\* A step of a call with another key.
LEMMA OtherOnce ==
    ASSUME OnceInv, NEW k \in Keys, NEW c \in Calls, NEW p, NEW x, Moved(c, p, x), Live(c),
           call[c].key # k, record'[k] = record[k], Rows(k)' = Rows(k)
    PROVE  Once(k)'
  <1>1. Failed(k)' = Failed(k)
    BY FailedMoved
  <1>2. \A d \in Calls : (call'[d].key = k <=> call[d].key = k) /\ (call[d].key = k => call'[d] = call[d])
    BY DEF Moved
  <1>3. Raced(k) => Raced(k)'
    BY <1>2 DEF Raced
  <1>4. Alone(k)' => Alone(k)
    BY <1>1 DEF Alone
  <1>5. Once(k)
    BY DEF OnceInv
  <1> QED
    BY <1>1, <1>2, <1>3, <1>4, <1>5 DEF Once

\* A stored message with the id of a call is one of the call's key.
LEMMA OwnRow ==
    ASSUME ReceiptInv, NEW c \in Calls, call[c].pc # "new", call[c].id \in Calls,
           Stored(call[c].id)
    PROVE  call[c].id \in Rows(call[c].key)
  <1>1. Sent(call[c].id, messages[call[c].id].key, messages[call[c].id].body)
    BY DEF ReceiptInv, RowsSent
  <1>2. messages[call[c].id].key = call[c].key
    BY <1>1 DEF Sent, ReceiptInv, IdsAgree
  <1> QED
    BY <1>2 DEF Rows

\* The rows of every key after an insert.
LEMMA RowsAdded ==
    ASSUME TypeOK, NEW c \in Calls, call[c].id \in Calls, ~Stored(call[c].id),
           messages' = [messages EXCEPT ![call[c].id] = RowOf(c)], NEW k
    PROVE  Rows(k)' = IF k = call[c].key THEN Rows(k) \cup {call[c].id} ELSE Rows(k)
  <1>1. /\ messages'[call[c].id].status = "unread" /\ messages'[call[c].id].key = call[c].key
        /\ \A i \in Calls \ {call[c].id} : messages'[i] = messages[i]
    BY DEF TypeOK, RowOf
  <1> QED
    BY <1>1 DEF Rows, Stored

\* Steps that add no row keep the rows of every key.
LEMMA RowsSame ==
    ASSUME messages' = messages, NEW k
    PROVE  Rows(k)' = Rows(k)
  BY DEF Rows, Stored

\* try_begin_idempotent_side_effect: the first call finds no row.
LEMMA OnceBegin ==
    ASSUME ReceiptInv, SoloInv, OnceInv, NEW c \in Calls, Begin(c)
    PROVE  OnceInv'
  <1>0. PICK k \in Keys : k = call[c].key
    BY CallFacts DEF Begin, CallKnows
  <1>1. TypeOK /\ call[c].pc = "begin" /\ call[c].key = k /\ Live(c) /\ messages' = messages
        /\ record \in [Keys -> KeyRow]
    BY <1>0, CallFacts DEF Begin, Live, TypeOK
  <1>2. \A q \in Keys : Rows(q)' = Rows(q)
    BY <1>1, RowsSame
  <1>3. CASE record[k].status # "none" /\ record' = record /\ (Go(c, "resume") \/ Go(c, "raised"))
    <2>1. PICK p \in {"resume", "raised"} : Moved(c, p, call[c].ret)
      BY <1>1, <1>3, GoMoves
    <2>2. \A q \in Keys : Failed(q)' = Failed(q)
      BY <1>1, <2>1, FailedMoved
    <2>3. ASSUME NEW q \in Keys, q # k PROVE Once(q)'
      BY <1>1, <1>2, <1>3, <2>1, <2>3, OtherOnce
    <2>4. Once(k)'
      <3>1. ~Raced(k) /\ Alone(k)' => OnceAt(c, k)
        BY <1>1, <2>2, ToCall DEF Alone
      <3>2. ~Raced(k) /\ Alone(k)' => OnceAt(c, k)'
        BY <1>1, <1>2, <1>3, <2>1, <2>2, <3>1 DEF OnceAt, Moved
      <3> QED
        BY <1>1, <2>1, <3>2, FromCall
    <2> QED
      BY <2>3, <2>4 DEF OnceInv
  <1>4. CASE record[k].status = "none" /\ Go(c, "insert")
             /\ record' = [record EXCEPT ![k] = [status |-> "started", id |-> call[c].id,
                                                 body |-> call[c].body, receipt |-> None]]
    <2>1. Moved(c, "insert", call[c].ret)
      BY <1>1, <1>4, GoMoves
    <2>2. record'[k].id = call[c].id /\ \A q \in Keys \ {k} : record'[q] = record[q]
      BY <1>1, <1>4
    <2>3. \A q \in Keys : Failed(q)' = Failed(q)
      BY <1>1, <2>1, FailedMoved
    <2>4. ASSUME NEW q \in Keys, q # k PROVE Once(q)'
      BY <1>1, <1>2, <2>1, <2>2, <2>4, OtherOnce
    <2>5. Once(k)'
      <3>1. ~Raced(k) /\ Alone(k)' => OnceAt(c, k)
        BY <1>1, <2>3, ToCall DEF Alone
      <3>2. ~Raced(k) /\ Alone(k)' => Rows(k)' = {}
        BY <1>1, <1>2, <1>4, <3>1 DEF OnceAt
      <3>3. ~Raced(k) /\ Alone(k)' => OnceAt(c, k)'
        BY <2>1, <2>2, <3>2 DEF OnceAt, Moved
      <3> QED
        BY <1>1, <2>1, <3>3, FromCall
    <2> QED
      BY <2>4, <2>5 DEF OnceInv
  <1> QED
    BY <1>0, <1>3, <1>4 DEF Begin

\* A step that leaves messages and records alone, if the call may go on so.
LEMMA OnceSilent ==
    ASSUME SoloInv, OnceInv, NEW c \in Calls, NEW p, NEW x, Moved(c, p, x), Live(c),
           messages' = messages, record' = record,
           \A k \in Keys : call[c].key = k /\ ~Raced(k) /\ Alone(k)' /\ OnceAt(c, k) =>
              OnceAt(c, k)'
    PROVE  OnceInv'
  <1> SUFFICES ASSUME NEW q \in Keys PROVE Once(q)'
    BY DEF OnceInv
  <1>1. Rows(q)' = Rows(q)
    BY RowsSame
  <1>2. CASE q # call[c].key
    BY <1>1, <1>2, OtherOnce
  <1>3. CASE q = call[c].key
    <2>1. Alone(q)' => Alone(q)
      BY <1>3, FailedMoved DEF Alone
    <2>2. ~Raced(q) /\ Alone(q)' => OnceAt(c, q)
      BY <1>3, <2>1, ToCall
    <2> QED
      BY <1>3, <2>2, FromCall
  <1> QED
    BY <1>2, <1>3

\* The INSERT of the first attempt and the resumed one: there was no row.
LEMMA OnceAdded ==
    ASSUME ReceiptInv, SoloInv, OnceInv, NEW c \in Calls, NEW p \in {"returned", "complete"},
           Moved(c, p, call[c].id), call[c].pc \in {"insert", "reinsert"}, call[c].id \in Calls,
           call[c].key = None => p = "returned", call[c].key # None => p = "complete",
           ~Stored(call[c].id), messages' = [messages EXCEPT ![call[c].id] = RowOf(c)],
           record' = record
    PROVE  OnceInv'
  <1> SUFFICES ASSUME NEW q \in Keys PROVE Once(q)'
    BY DEF OnceInv
  <1>1. TypeOK /\ Live(c) /\ CallKnows(c)
    BY CallFacts DEF Live
  <1>2. Rows(q)' = IF q = call[c].key THEN Rows(q) \cup {call[c].id} ELSE Rows(q)
    BY <1>1, RowsAdded
  <1>3. Failed(q)' = Failed(q)
    BY <1>1, FailedMoved
  <1>4. CASE q # call[c].key
    BY <1>1, <1>2, <1>4, OtherOnce
  <1>5. CASE q = call[c].key
    <2>1. ~Raced(q) /\ Alone(q)' => OnceAt(c, q)
      BY <1>1, <1>3, <1>5, ToCall DEF Alone
    <2>2. p = "complete" /\ record[q].status # "none"
      BY <1>1, <1>5, NoneIsNoKey DEF CallKnows
    <2>3. ~Raced(q) /\ Alone(q)' =>
             Rows(q)' = {call[c].id} /\ (call[c].id = record[q].id \/ Failed(q) # {})
      BY <1>2, <1>5, <2>1 DEF OnceAt
    <2>4. ~Raced(q) /\ Alone(q)' => OnceAt(c, q)'
      BY <1>3, <2>2, <2>3 DEF OnceAt, Moved
    <2> QED
      BY <1>1, <1>5, <2>4, FromCall
  <1> QED
    BY <1>4, <1>5

\* No call finds its own id taken: rows come from calls of the same key.
LEMMA FreeId ==
    ASSUME ReceiptInv, NEW c \in Calls, call[c].pc \in {"insert", "reinsert"},
           call[c].id \in Calls, Stored(call[c].id), NEW k \in Keys, call[c].key = k, OnceAt(c, k)
    PROVE  FALSE
  BY OwnRow DEF OnceAt

\* The INSERT of the first attempt.
LEMMA OnceInsert ==
    ASSUME ReceiptInv, SoloInv, OnceInv, NEW c \in Calls, Insert(c)
    PROVE  OnceInv'
  <1>1. TypeOK /\ call[c].pc = "insert" /\ call[c].id \in Calls /\ Live(c) /\ record' = record
    BY CallFacts DEF Insert, CallKnows, Live
  <1>2. CASE ~Stored(call[c].id)
    <2> DEFINE p == IF call[c].key = None THEN "returned" ELSE "complete"
    <2>1. GoWith(c, p, call[c].id) /\ messages' = [messages EXCEPT ![call[c].id] = RowOf(c)]
      BY <1>2 DEF Insert
    <2>2. PICK r \in {"returned", "complete"} : r = p
      OBVIOUS
    <2>3. Moved(c, r, call[c].id)
      BY <1>1, <2>1, <2>2, GoWithMoves
    <2> QED
      BY <1>1, <1>2, <2>1, <2>2, <2>3, OnceAdded
  <1>3. CASE Stored(call[c].id)
    <2>1. Go(c, "raised") /\ messages' = messages
      BY <1>3 DEF Insert
    <2>2. Moved(c, "raised", call[c].ret)
      BY <1>1, <2>1, GoMoves
    <2>3. \A k \in Keys : call[c].key = k => ~OnceAt(c, k)
      BY <1>1, <1>3, FreeId
    <2> QED
      BY <1>1, <2>1, <2>2, <2>3, OnceSilent
  <1> QED
    BY <1>2, <1>3

\* _resume_unfinished_send: without a receipt, another call has failed.
LEMMA OnceResume ==
    ASSUME ReceiptInv, SoloInv, OnceInv, NEW c \in Calls, Resume(c)
    PROVE  OnceInv'
  <1>1. TypeOK /\ call[c].pc = "resume" /\ call[c].key \in Keys /\ Live(c) /\ record' = record
        /\ messages' = messages /\ record[call[c].key].status # "none"
        /\ record[call[c].key].id \in Calls \cup {None}
        /\ record[call[c].key].receipt \in Calls \cup {None}
    BY CallFacts, NoneIsNoKey DEF Resume, CallKnows, Live, TypeOK, KeyRow
  <1>2. \A k \in Keys : Rows(k)' = Rows(k)
    BY <1>1, RowsSame
  <1>3. CASE record[call[c].key].receipt # None /\ GoWith(c, "returned", record[call[c].key].receipt)
    <2>1. Moved(c, "returned", record[call[c].key].receipt)
      BY <1>1, <1>3, GoWithMoves
    <2>2. \A k \in Keys : Failed(k)' = Failed(k)
      BY <1>1, <2>1, FailedMoved
    <2>3. \A k \in Keys : call[c].key = k /\ ~Raced(k) /\ Alone(k)' /\ OnceAt(c, k) => OnceAt(c, k)'
      BY <1>1, <1>2, <1>3, <2>1, <2>2 DEF OnceAt, Moved
    <2> QED
      BY <1>1, <2>1, <2>3, OnceSilent
  <1>4. CASE record[call[c].key].receipt = None /\ GoWith(c, "probe", record[call[c].key].id)
    <2>1. Moved(c, "probe", record[call[c].key].id)
      BY <1>1, <1>4, GoWithMoves
    <2>2. \A k \in Keys : Failed(k)' = Failed(k)
      BY <1>1, <2>1, FailedMoved
    <2>3. \A k \in Keys : call[c].key = k /\ ~Raced(k) /\ Alone(k)' /\ OnceAt(c, k) => OnceAt(c, k)'
      BY <1>1, <1>2, <1>4, <2>1, <2>2 DEF OnceAt, Moved
    <2> QED
      BY <1>1, <2>1, <2>3, OnceSilent
  <1> QED
    BY <1>3, <1>4 DEF Resume

\* _message_row_exists: the row looked for is the only one there may be.
LEMMA OnceProbe ==
    ASSUME ReceiptInv, SoloInv, OnceInv, NEW c \in Calls, Probe(c)
    PROVE  OnceInv'
  <1>1. TypeOK /\ call[c].pc = "probe" /\ call[c].ret \in Calls /\ Live(c) /\ record' = record
        /\ messages' = messages
    BY CallFacts DEF Probe, CallKnows, Live
  <1>2. \A k \in Keys : Rows(k)' = Rows(k)
    BY <1>1, RowsSame
  <1>3. CASE Stored(call[c].ret)
    <2>1. Moved(c, "complete", call[c].ret)
      BY <1>1, <1>3, GoMoves DEF Probe
    <2>2. \A k \in Keys : Failed(k)' = Failed(k)
      BY <1>1, <2>1, FailedMoved
    <2>3. \A k \in Keys : call[c].key = k /\ ~Raced(k) /\ Alone(k)' /\ OnceAt(c, k) => OnceAt(c, k)'
      BY <1>1, <1>2, <2>1, <2>2 DEF OnceAt, Moved
    <2> QED
      BY <1>1, <2>1, <2>3, OnceSilent
  <1>4. CASE ~Stored(call[c].ret)
    <2>1. Moved(c, "reinsert", call[c].ret)
      BY <1>1, <1>4, GoMoves DEF Probe
    <2>2. \A k \in Keys : Failed(k)' = Failed(k)
      BY <1>1, <2>1, FailedMoved
    <2>3. \A k \in Keys : OnceAt(c, k) => Rows(k) = {}
      BY <1>1, <1>4 DEF OnceAt, Rows
    <2>4. \A k \in Keys : call[c].key = k /\ ~Raced(k) /\ Alone(k)' /\ OnceAt(c, k) => OnceAt(c, k)'
      BY <1>1, <1>2, <2>1, <2>2, <2>3 DEF OnceAt, Moved
    <2> QED
      BY <1>1, <2>1, <2>4, OnceSilent
  <1> QED
    BY <1>3, <1>4

\* The resumed INSERT.
LEMMA OnceReinsert ==
    ASSUME ReceiptInv, SoloInv, OnceInv, NEW c \in Calls, Reinsert(c)
    PROVE  OnceInv'
  <1>1. TypeOK /\ call[c].pc = "reinsert" /\ call[c].id \in Calls /\ Live(c) /\ record' = record
        /\ GoWith(c, "complete", call[c].id) /\ call[c].key \in Keys
    BY CallFacts DEF Reinsert, CallKnows, Live
  <1>2. Moved(c, "complete", call[c].id)
    BY <1>1, GoWithMoves
  <1>3. CASE ~Stored(call[c].id)
    BY <1>1, <1>2, <1>3, OnceAdded, NoneIsNoKey DEF Reinsert
  <1>4. CASE Stored(call[c].id)
    <2>1. messages' = messages
      BY <1>4 DEF Reinsert
    <2>2. \A k \in Keys : call[c].key = k => ~OnceAt(c, k)
      BY <1>1, <1>4, FreeId
    <2> QED
      BY <1>1, <1>2, <2>1, <2>2, OnceSilent
  <1> QED
    BY <1>3, <1>4

\* complete_idempotent_side_effect: the record names the row there is.
LEMMA OnceComplete ==
    ASSUME ReceiptInv, SoloInv, OnceInv, NEW c \in Calls, Complete(c)
    PROVE  OnceInv'
  <1>1. TypeOK /\ call[c].pc = "complete" /\ call[c].ret \in Calls /\ call[c].key \in Keys
        /\ Live(c) /\ messages' = messages /\ record \in [Keys -> KeyRow]
    BY CallFacts DEF Complete, CallKnows, Live, TypeOK
  <1>2. Moved(c, "returned", call[c].ret)
    BY <1>1, GoMoves DEF Complete
  <1>3. record'[call[c].key] = [record[call[c].key] EXCEPT
             !.status = "completed", !.id = call[c].ret, !.receipt = call[c].ret]
        /\ \A k \in Keys : call[c].key # k => record'[k] = record[k]
    BY <1>1 DEF Complete
  <1>4. record'[call[c].key].status = "completed" /\ record'[call[c].key].id = call[c].ret
        /\ record'[call[c].key].receipt = call[c].ret
    BY <1>1, <1>3 DEF KeyRow
  <1> SUFFICES ASSUME NEW q \in Keys PROVE Once(q)'
    BY DEF OnceInv
  <1>5. Rows(q)' = Rows(q) /\ Failed(q)' = Failed(q)
    BY <1>1, <1>2, RowsSame, FailedMoved
  <1>6. CASE q # call[c].key
    BY <1>1, <1>2, <1>3, <1>5, <1>6, OtherOnce
  <1>7. CASE q = call[c].key
    <2>1. ~Raced(q) /\ Alone(q)' => OnceAt(c, q)
      BY <1>1, <1>5, <1>7, ToCall DEF Alone
    <2>2. ~Raced(q) /\ Alone(q)' => Rows(q)' \subseteq {record'[q].id}
      BY <1>1, <1>4, <1>5, <1>7, <2>1 DEF OnceAt
    <2>3. record'[q].receipt # None
      BY <1>1, <1>4, <1>7, NoneIsNoCall
    <2>4. ~Raced(q) /\ Alone(q)' => OnceAt(c, q)'
      BY <1>2, <1>4, <1>7, <2>2, <2>3 DEF OnceAt, Moved
    <2> QED
      BY <1>1, <1>2, <1>7, <2>4, FromCall
  <1> QED
    BY <1>6, <1>7

\* A call that dies, the first of its key to do so, worked under the id of
\* the record.
LEMMA OnceFails ==
    ASSUME ReceiptInv, SoloInv, OnceInv, NEW c \in Calls, CallFails(c)
    PROVE  OnceInv'
  <1>1. TypeOK /\ call[c].pc \in Begun /\ Live(c) /\ messages' = messages /\ record' = record
    BY CallFacts DEF CallFails, Live
  <1>2. Moved(c, "dead", call[c].ret)
    BY <1>1, GoMoves DEF CallFails
  <1>3. ASSUME NEW k \in Keys, call[c].key = k, ~Raced(k), Alone(k)', OnceAt(c, k)
        PROVE  OnceAt(c, k)'
    <2>1. Failed(k)' = Failed(k) \cup {c} /\ c \notin Failed(k)
      BY <1>1, <1>2, <1>3, FailedMoved
    <2>2. Failed(k) = {} /\ Failed(k)' # {}
      BY <1>3, <2>1 DEF Alone
    <2>3. Rows(k)' = Rows(k)
      BY <1>1, RowsSame
    <2>4. \A i \in Rows(k) : record[k].status # "none" /\ i = record[k].id
      BY <1>3, <2>2 DEF OnceAt
    <2> QED
      BY <1>1, <1>2, <2>2, <2>3, <2>4 DEF OnceAt, Moved
  <1> QED
    BY <1>1, <1>2, <1>3, OnceSilent

\* A new call has done nothing yet.
LEMMA OnceStart ==
    ASSUME ReceiptInv, SoloInv, OnceInv, NEW c \in Calls, NEW k \in Keys \cup {None},
           NEW b \in Bodies, Start(c, k, b)
    PROVE  OnceInv'
  <1> DEFINE raced == \E d \in Calls : Live(d) /\ call[d].key = k
  <1>1. PICK i : call' = [call EXCEPT ![c] =
             [pc |-> IF k = None THEN "insert" ELSE "begin", key |-> k, body |-> b,
              id |-> i, ret |-> None, raced |-> raced]]
    BY DEF Start
  <1> HIDE DEF raced
  <1>2. /\ call'[c].pc = (IF k = None THEN "insert" ELSE "begin") /\ call'[c].key = k
        /\ \A d \in Calls \ {c} : call'[d] = call[d]
        /\ record' = record /\ messages' = messages /\ call[c].pc = "new"
    BY <1>1 DEF ReceiptInv, TypeOK, Start
  <1> SUFFICES ASSUME NEW q \in Keys PROVE Once(q)'
    BY DEF OnceInv
  <1>3. Rows(q)' = Rows(q)
    BY <1>2, RowsSame
  <1>4. call'[c].key = q => call'[c].pc = "begin"
    BY <1>2, NoneIsNoKey
  <1>5. Failed(q)' = Failed(q)
    <2>1. \A d \in Calls : (call'[d].pc = "dead" /\ call'[d].key = q) <=>
                           (call[d].pc = "dead" /\ call[d].key = q)
      BY <1>2, <1>4
    <2> QED
      BY <2>1 DEF Failed
  <1>6. Raced(q) => Raced(q)'
    BY <1>2 DEF Raced, SoloInv, Unraced
  <1>7. Alone(q)' => Alone(q)
    BY <1>5 DEF Alone
  <1>8. \A d \in Calls : call[d].key = q /\ call[d].pc \in Begun => call'[d] = call[d]
    BY <1>2
  <1>9. \A d \in Calls : call'[d].key = q /\ call'[d].pc \in Begun => call'[d] = call[d]
    BY <1>2, <1>4
  <1>10. Once(q)
    BY DEF OnceInv
  <1> SUFFICES ASSUME ~Raced(q), Alone(q), ~Raced(q)', Alone(q)' PROVE Once(q)'
    BY <1>6, <1>7 DEF Once
  <1>11. \A i2 \in Rows(q) : record[q].status # "none" /\
              \/ i2 = record[q].id
              \/ \E d \in Calls : call[d].key = q /\ call[d].pc = "complete" /\ call[d].ret = i2
    BY <1>10 DEF Once
  <1>12. \A i2 \in Rows(q)' : record'[q].status # "none" /\
              \/ i2 = record'[q].id
              \/ \E d \in Calls : call'[d].key = q /\ call'[d].pc = "complete" /\ call'[d].ret = i2
    BY <1>2, <1>3, <1>8, <1>11
  <1>13. record'[q].status # "none" /\ record'[q].receipt = None /\ Failed(q)' = {} =>
              \E d \in Calls : call'[d].key = q /\ call'[d].pc \in {"insert", "complete"}
    BY <1>2, <1>5, <1>8, <1>10 DEF Once
  <1>14. ASSUME NEW d \in Calls, call'[d].key = q, call'[d].pc \in Begun
         PROVE /\ call'[d].pc \in {"insert", "reinsert"} => Rows(q)' = {}
               /\ call'[d].pc = "insert" => call'[d].id = record'[q].id
               /\ call'[d].pc = "complete" =>
                     /\ Rows(q)' \subseteq {call'[d].ret}
                     /\ call'[d].ret = record'[q].id \/ Failed(q)' # {}
               /\ call'[d].pc = "probe" => call'[d].ret = record'[q].id
               /\ call'[d].pc \in {"probe", "reinsert"} => Failed(q)' # {}
    <2>1. call'[d] = call[d]
      BY <1>9, <1>14
    <2> QED
      BY <1>2, <1>3, <1>5, <1>10, <1>14, <2>1 DEF Once
  <1> QED
    BY <1>12, <1>13, <1>14 DEF Once

\* The agent's steps keep the rows: an acknowledged message is a stored one.
LEMMA OnceInbox ==
    ASSUME ReceiptInv, OnceInv, call' = call, record' = record,
           messages' = messages \/ \E i \in Calls : AckRead(i)
    PROVE  OnceInv'
  <1>1. \A j \in Calls : messages'[j].key = messages[j].key /\ (Stored(j)' <=> Stored(j))
    <2>1. CASE messages' = messages
      BY <2>1 DEF Stored
    <2>2. ASSUME NEW i \in Calls, AckRead(i)
          PROVE  \A j \in Calls : messages'[j].key = messages[j].key /\ (Stored(j)' <=> Stored(j))
      <3>1. messages \in [Calls -> Row] /\ Stored(i)
        BY <2>2 DEF AckRead, ReceiptInv, TypeOK
      <3>2. messages' = [messages EXCEPT ![i] = [messages[i] EXCEPT !.status = "read"]]
        BY <2>2 DEF AckRead
      <3> QED
        BY <3>1, <3>2 DEF Row, Stored
    <2> QED
      BY <2>1, <2>2
  <1>2. \A k \in Keys : Rows(k)' = Rows(k) /\ Failed(k)' = Failed(k)
    BY <1>1 DEF Rows, Failed
  <1> SUFFICES ASSUME NEW k \in Keys PROVE Once(k)'
    BY DEF OnceInv
  <1>3. Once(k)
    BY DEF OnceInv
  <1>4. (Raced(k)' <=> Raced(k)) /\ (Alone(k)' <=> Alone(k))
    BY <1>2 DEF Raced, Alone
  <1> QED
    BY <1>2, <1>3, <1>4 DEF Once

\* Every step keeps it.
LEMMA OnceNext == ReceiptInv /\ SoloInv /\ OnceInv /\ [Next]_vars => OnceInv'
  <1> SUFFICES ASSUME ReceiptInv, SoloInv, OnceInv, [Next]_vars PROVE OnceInv'
    OBVIOUS
  <1>1. ASSUME NEW c \in Calls, NEW k \in Keys \cup {None}, NEW b \in Bodies, Start(c, k, b)
        PROVE  OnceInv'
    BY <1>1, OnceStart
  <1>2. ASSUME NEW c \in Calls, CallStep(c) \/ CallFails(c) PROVE OnceInv'
    BY <1>2, OnceBegin, OnceInsert, OnceResume, OnceProbe, OnceReinsert, OnceComplete, OnceFails
       DEF CallStep
  <1>3. CASE WakeStep \/ CheckFails \/ LoopBreaks \/ WakeFails \/ (\E c \in Calls : AckFails(c)) \/ UNCHANGED vars
    <2>1. call' = call /\ record' = record /\ (messages' = messages \/ \E i \in Calls : AckRead(i))
      BY <1>3 DEF WakeStep, CheckInbox, CheckFails, LoopEnds, LoopBreaks, WakeFails, AckDone, AckFails,
         AckRead, vars
    <2> QED
      BY <2>1, OnceInbox
  <1> QED
    BY <1>1, <1>2, <1>3 DEF Next

\* A set of calls has one member at most exactly if all its members are equal.
LEMMA AtMostOne ==
    ASSUME NEW S \in SUBSET Calls
    PROVE  Cardinality(S) <= 1 <=> \A d, e \in S : d = e
  <1>1. IsFiniteSet(S) /\ Cardinality(S) \in Nat
    <2>1. 1 \in Int /\ MaxCalls \in Int
      BY BusLimits
    <2>2. IsFiniteSet(1..MaxCalls)
      BY <2>1, FS_Interval
    <2>3. IsFiniteSet(S)
      BY <2>2, FS_Subset DEF Calls
    <2> QED
      BY <2>3, FS_CardinalityType
  <1>2. ASSUME NEW d \in S, NEW e \in S, d # e PROVE ~(Cardinality(S) <= 1)
    <2>1. Cardinality({d}) = 1 /\ IsFiniteSet({d})
      BY FS_Singleton
    <2>2. IsFiniteSet({d} \cup {e}) /\ Cardinality({d} \cup {e}) = 2
      BY <1>2, <2>1, FS_AddElement
    <2>3. Cardinality({d} \cup {e}) <= Cardinality(S)
      BY <1>1, FS_Subset
    <2> QED
      BY <1>1, <2>2, <2>3
  <1>3. ASSUME \A d, e \in S : d = e PROVE Cardinality(S) <= 1
    <2>1. CASE S = {}
      BY <2>1, FS_EmptySet
    <2>2. CASE S # {}
      <3>1. PICK d \in S : S = {d}
        BY <1>3, <2>2
      <3> QED
        BY <3>1, FS_Singleton
    <2> QED
      BY <2>1, <2>2
  <1> QED
    BY <1>2, <1>3

\* One operation leaves one row, though every retry may make up an id of its
\* own, as long as its calls do not overlap and one of them failed at most.
THEOREM DeliveredOnceHolds == Spec => []DeliveredOnce
  <1>1. OnceInv => DeliveredOnce
    <2> SUFFICES ASSUME OnceInv, NEW k \in Keys, ~Raced(k), Cardinality(Failed(k)) <= 1
                 PROVE  Cardinality(Rows(k)) <= 1
      BY DEF DeliveredOnce
    <2>1. Failed(k) \in SUBSET Calls /\ Rows(k) \in SUBSET Calls
      BY DEF Failed, Rows
    <2>2. Alone(k)
      BY <2>1, AtMostOne DEF Alone
    <2>3. Once(k)
      BY DEF OnceInv
    <2>4. CASE \E c \in Calls : call[c].key = k /\ call[c].pc = "complete"
      <3>1. PICK c \in Calls : call[c].key = k /\ call[c].pc = "complete"
        BY <2>4
      <3>2. Rows(k) \subseteq {call[c].ret}
        BY <2>2, <2>3, <3>1 DEF Once
      <3> QED
        BY <2>1, <3>2, AtMostOne
    <2>5. CASE ~\E c \in Calls : call[c].key = k /\ call[c].pc = "complete"
      <3>1. \A i \in Rows(k) : i = record[k].id
        BY <2>2, <2>3, <2>5 DEF Once
      <3> QED
        BY <2>1, <3>1, AtMostOne
    <2> QED
      BY <2>4, <2>5
  <1> QED
    BY ReceiptInvHolds, SoloInit, SoloNext, OnceInit, OnceNext, <1>1, PTL DEF Spec

=============================================================================
