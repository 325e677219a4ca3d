----------------------------- MODULE MessageBus -----------------------------
(***************************************************************************)
(* The messages of message_bus.py and message_bus_bsp.py: senders whose    *)
(* retries carry an idempotency key, against crashes between the writes to *)
(* two databases (messages.db and the runtime store), and the inbox of an  *)
(* autonomous agent that acknowledges what a wake has taken up.            *)
(*                                                                         *)
(* A call sends a message under a key, or under none.  Every call may make *)
(* up a message id of its own, which is the call's name, or repeat the     *)
(* message object, and so the id, of an earlier call.                      *)
(***************************************************************************)
EXTENDS Naturals, FiniteSets

CONSTANTS
    MaxCalls,       \* bound: calls of send and send_staged
    Keys,           \* idempotency key and side effect key of an operation
    StagedKeys,     \* those of send_staged with deliver_at_superstep > 0
    Bodies,         \* contents, as far as operation_hash tells them apart
    None,
    Limit,          \* messages per inbox read
    MaxFaults       \* bound: crashes and failing calls, all together

\* The calls, in the order in which they start, and the ids they make up.
Calls == 1..MaxCalls

ASSUME NoneIsNoCall == None \notin Calls
ASSUME NoneIsNoKey == None \notin Keys /\ StagedKeys \subseteq Keys
ASSUME NoneIsNoBody == None \notin Bodies
ASSUME BusLimits == MaxCalls \in Nat /\ Limit \in Nat \ {0} /\ MaxFaults \in Nat

VARIABLES
    messages,   \* messages: the row of each id
    record,     \* idempotency_records: the row of each key
    call,       \* the coroutine of each call
    inbox,      \* the agent: where its wake is, what is still to be acknowledged
                \* and (history) what the prompts of its ended loops held, and
                \* of those that ended without a provider error
    faults

vars == <<messages, record, call, inbox, faults>>

NoRow == [key |-> None, body |-> None, status |-> "none"]
NoRecord == [status |-> "none", id |-> None, body |-> None, receipt |-> None]
NoCall == [pc |-> "new", key |-> None, body |-> None, id |-> None, ret |-> None,
           raced |-> FALSE]

Init ==
    /\ messages = [i \in Calls |-> NoRow]
    /\ record = [k \in Keys |-> NoRecord]
    /\ call = [c \in Calls |-> NoCall]
    /\ inbox = [pc |-> "idle", pending |-> {}, prompted |-> {}, acted |-> {}]
    /\ faults = 0

Fault == faults < MaxFaults /\ faults' = faults + 1

Stored(i) == messages[i].status # "none"

Begun == {"insert", "resume", "probe", "reinsert", "complete"}

Live(c) == call[c].pc \in Begun \cup {"begin"}

Go(c, pc) == call' = [call EXCEPT ![c].pc = pc]

GoWith(c, pc, ret) == call' = [call EXCEPT ![c] = [@ EXCEPT !.pc = pc, !.ret = ret]]

-----------------------------------------------------------------------------
(* send and send_staged *)

\* Somebody sends, or sends again, maybe while an earlier call is under way.
\* Without an identity the insert is all there is.
Start(c, k, b) ==
    /\ call[c].pc = "new" /\ \A d \in Calls : d < c => call[d].pc # "new"
    /\ \E i \in {c} \cup {call[d].id : d \in {d \in Calls :
                    call[d].pc # "new" /\ call[d].key = k /\ call[d].body = b}} :
         call' = [call EXCEPT ![c] =
             [pc |-> IF k = None THEN "insert" ELSE "begin", key |-> k, body |-> b,
              id |-> i, ret |-> None,
              raced |-> \E d \in Calls : Live(d) /\ call[d].key = k]]
    /\ UNCHANGED <<messages, record, inbox, faults>>

\* Mutant: a record of the key is taken for one of this message.
BeginUnhashed(c) ==
    LET k == call[c].key IN
    /\ call[c].pc = "begin"
    /\ \/ /\ record[k].status = "none"
          /\ record' = [record EXCEPT ![k] = [status |-> "started", id |-> call[c].id,
                                              body |-> call[c].body, receipt |-> None]]
          /\ Go(c, "insert")
       \/ /\ record[k].status # "none"
          /\ Go(c, "resume") /\ UNCHANGED record
    /\ UNCHANGED <<messages, inbox, faults>>

\* try_begin_idempotent_side_effect: INSERT OR IGNORE; another operation
\* under the same key is a conflict and raises.
Begin(c) ==
    LET k == call[c].key IN
    /\ call[c].pc = "begin"
    /\ \/ /\ record[k].status = "none"
          /\ record' = [record EXCEPT ![k] = [status |-> "started", id |-> call[c].id,
                                              body |-> call[c].body, receipt |-> None]]
          /\ Go(c, "insert")
       \/ /\ record[k].status # "none" /\ record[k].body = call[c].body
          /\ Go(c, "resume") /\ UNCHANGED record
       \/ /\ record[k].status # "none" /\ record[k].body # call[c].body
          /\ Go(c, "raised") /\ UNCHANGED record
    /\ UNCHANGED <<messages, inbox, faults>>

RowOf(c) == [key |-> call[c].key, body |-> call[c].body, status |-> "unread"]

\* The INSERT of the first attempt; a row with this id raises.
Insert(c) ==
    /\ call[c].pc = "insert"
    /\ \/ /\ ~Stored(call[c].id)
          /\ messages' = [messages EXCEPT ![call[c].id] = RowOf(c)]
          /\ GoWith(c, IF call[c].key = None THEN "returned" ELSE "complete", call[c].id)
       \/ /\ Stored(call[c].id)
          /\ Go(c, "raised") /\ UNCHANGED messages
    /\ UNCHANGED <<record, inbox, faults>>

\* Mutant: an unfinished attempt is looked for under the id of the retry.
ResumeOwnId(c) ==
    LET r == record[call[c].key] IN
    /\ call[c].pc = "resume"
    /\ \/ r.receipt # None /\ GoWith(c, "returned", r.receipt)
       \/ r.receipt = None /\ GoWith(c, "probe", call[c].id)
    /\ UNCHANGED <<messages, record, inbox, faults>>

\* Mutant: the receipt of the record is not looked at.
ResumeAnew(c) ==
    /\ call[c].pc = "resume"
    /\ GoWith(c, "probe", call[c].id)
    /\ UNCHANGED <<messages, record, inbox, faults>>

\* _resume_unfinished_send: the receipt of the record, or else the id it was
\* begun with.
Resume(c) ==
    LET r == record[call[c].key] IN
    /\ call[c].pc = "resume"
    /\ \/ r.receipt # None /\ GoWith(c, "returned", r.receipt)
       \/ r.receipt = None /\ GoWith(c, "probe", r.id)
    /\ UNCHANGED <<messages, record, inbox, faults>>

\* Mutant: a started record is as good as a row.
ProbeTrusts(c) ==
    /\ call[c].pc = "probe"
    /\ Go(c, "complete")
    /\ UNCHANGED <<messages, record, inbox, faults>>

\* _message_row_exists.
Probe(c) ==
    /\ call[c].pc = "probe"
    /\ Go(c, IF Stored(call[c].ret) THEN "complete" ELSE "reinsert")
    /\ UNCHANGED <<messages, record, inbox, faults>>

\* The resumed INSERT, under the id of the retry; a row with this id is the
\* work of a concurrent retry.
Reinsert(c) ==
    /\ call[c].pc = "reinsert"
    /\ messages' = IF Stored(call[c].id) THEN messages
                   ELSE [messages EXCEPT ![call[c].id] = RowOf(c)]
    /\ GoWith(c, "complete", call[c].id)
    /\ UNCHANGED <<record, inbox, faults>>

\* complete_idempotent_side_effect, whoever completed it before.
Complete(c) ==
    /\ call[c].pc = "complete"
    /\ record' = [record EXCEPT ![call[c].key] =
           [@ EXCEPT !.status = "completed", !.id = call[c].ret, !.receipt = call[c].ret]]
    /\ Go(c, "returned")
    /\ UNCHANGED <<messages, inbox, faults>>

\* The process dies, or the database stays locked and the call raises.
CallFails(c) ==
    /\ call[c].pc \in Begun /\ Fault
    /\ Go(c, "dead")
    /\ UNCHANGED <<messages, record, inbox>>

CallStep(c) ==
    Begin(c) \/ Insert(c) \/ Resume(c) \/ Probe(c) \/ Reinsert(c) \/ Complete(c)

-----------------------------------------------------------------------------
(* The inbox of an agent: wake, _check_inbox and _ack_inbox *)

\* What receive may return: the agent asks for superstep 0.
Unread == {i \in Calls : messages[i].status = "unread" /\ messages[i].key \notin StagedKeys}

\* Any Limit of them: the code takes them by priority, then newest first, and
\* the model has neither.
CheckInbox ==
    /\ inbox.pc = "idle"
    /\ \E S \in SUBSET Unread :
         /\ Cardinality(S) <= Limit
         /\ S = Unread \/ Cardinality(S) = Limit
         /\ inbox' = [inbox EXCEPT !.pc = "loop", !.pending = S]
    /\ UNCHANGED <<messages, record, call, faults>>

\* The read fails; the wake goes on without an inbox.
CheckFails ==
    /\ inbox.pc = "idle" /\ Fault
    /\ inbox' = [inbox EXCEPT !.pc = "loop", !.pending = {}]
    /\ UNCHANGED <<messages, record, call>>

\* _reason_and_act came to an end, by the agent's answer or after its last
\* turn, and memory and report are saved.
LoopEnds ==
    /\ inbox.pc = "loop"
    /\ inbox' = [inbox EXCEPT !.pc = "ack", !.prompted = @ \cup inbox.pending,
                              !.acted = @ \cup inbox.pending]
    /\ UNCHANGED <<messages, record, call, faults>>

\* The provider raised: the loop breaks off without an exception, and the wake
\* goes on to save and to acknowledge as after any other loop.
LoopBreaks ==
    /\ inbox.pc = "loop" /\ Fault
    /\ inbox' = [inbox EXCEPT !.pc = "ack", !.prompted = @ \cup inbox.pending]
    /\ UNCHANGED <<messages, record, call>>

\* The wake raises before its acknowledgements, or the agent dies.  What it
\* had still to acknowledge is cleared at the latest when the next wake begins.
WakeFails ==
    /\ inbox.pc # "idle" /\ Fault
    /\ inbox' = [inbox EXCEPT !.pc = "idle", !.pending = {}]
    /\ UNCHANGED <<messages, record, call>>

\* Mutant: the bus marks everything that is unread.
AckReadAll(i) ==
    /\ inbox.pc = "ack" /\ i \in inbox.pending
    /\ messages' = [j \in Calls |-> IF messages[j].status = "unread"
                                    THEN [messages[j] EXCEPT !.status = "read"] ELSE messages[j]]
    /\ inbox' = [inbox EXCEPT !.pending = @ \ {i}]
    /\ UNCHANGED <<record, call, faults>>

\* _ack_inbox, one message: mark_read.
AckRead(i) ==
    /\ inbox.pc = "ack" /\ i \in inbox.pending
    /\ messages' = [messages EXCEPT ![i].status = "read"]
    /\ inbox' = [inbox EXCEPT !.pending = @ \ {i}]
    /\ UNCHANGED <<record, call, faults>>

\* mark_read raises: the id is kept for a retry, but the next wake starts by
\* clearing what was kept and finds the message unread.
AckFails(i) ==
    /\ inbox.pc = "ack" /\ i \in inbox.pending /\ Fault
    /\ inbox' = [inbox EXCEPT !.pending = @ \ {i}]
    /\ UNCHANGED <<messages, record, call>>

AckDone ==
    /\ inbox.pc = "ack" /\ inbox.pending = {}
    /\ inbox' = [inbox EXCEPT !.pc = "idle"]
    /\ UNCHANGED <<messages, record, call, faults>>

WakeStep == CheckInbox \/ LoopEnds \/ (\E i \in Calls : AckRead(i)) \/ AckDone

Next ==
    \/ \E c \in Calls :
          \/ \E k \in Keys \cup {None}, b \in Bodies : Start(c, k, b)
          \/ CallStep(c) \/ CallFails(c) \/ AckFails(c)
    \/ WakeStep \/ CheckFails \/ LoopBreaks \/ WakeFails

Spec == Init /\ [][Next]_vars

-----------------------------------------------------------------------------
(* Properties *)

CallPhases == Begun \cup {"new", "begin", "returned", "raised", "dead"}
Row == [key : Keys \cup {None}, body : Bodies \cup {None}, status : {"none", "unread", "read"}]
KeyRow == [status : {"none", "started", "completed"}, id : Calls \cup {None},
           body : Bodies \cup {None}, receipt : Calls \cup {None}]
CallRow == [pc : CallPhases, key : Keys \cup {None}, body : Bodies \cup {None},
            id : Calls \cup {None}, ret : Calls \cup {None}, raced : BOOLEAN]
InboxRow == [pc : {"idle", "loop", "ack"}, pending : SUBSET Calls, prompted : SUBSET Calls,
             acted : SUBSET Calls]

\* Every variable has its type.
TypeOK ==
    /\ messages \in [Calls -> Row]
    /\ record \in [Keys -> KeyRow]
    /\ call \in [Calls -> CallRow]
    /\ inbox \in InboxRow
    /\ faults \in 0..MaxFaults

\* A row of id i holds the message of key k and body b.
Holds(i, k, b) == Stored(i) /\ messages[i].key = k /\ messages[i].body = b

\* "Never fabricate a receipt": whatever a send returns, to the first caller
\* or to a retry, is the id of a stored message with the caller's own content,
\* and so is every receipt in the record, whoever crashed in between.
NoFabricatedReceipt ==
    /\ \A c \in Calls : call[c].pc = "returned" =>
          call[c].ret \in Calls /\ Holds(call[c].ret, call[c].key, call[c].body)
    /\ \A k \in Keys : record[k].receipt # None =>
          record[k].receipt \in Calls /\ Holds(record[k].receipt, k, record[k].body)

\* Some call was started for the message i, of key k and body b.
Sent(i, k, b) ==
    \E d \in Calls : call[d].pc # "new" /\ call[d].id = i /\ call[d].key = k /\ call[d].body = b

\* What a call knows at each phase: a resumed call looks for a message of its
\* own key and content, and what it is about to complete is stored.
CallKnows(c) ==
    /\ call[c].pc # "new" => call[c].id \in Calls /\ call[call[c].id].pc # "new"
    /\ call[c].pc \in {"begin", "resume", "probe", "reinsert", "complete"} =>
          call[c].key \in Keys
    /\ call[c].pc \in Begun /\ call[c].key # None =>
          record[call[c].key].status # "none" /\ record[call[c].key].body = call[c].body
    /\ call[c].pc = "probe" =>
          call[c].ret \in Calls /\ Sent(call[c].ret, call[c].key, call[c].body)
    /\ call[c].pc = "complete" =>
          call[c].ret \in Calls /\ Holds(call[c].ret, call[c].key, call[c].body)

\* An id belongs to one message, and rows and records to messages that were
\* sent.
IdsAgree ==
    \A c, d \in Calls :
        call[c].pc # "new" /\ call[d].pc # "new" /\ call[c].id = call[d].id =>
            call[c].key = call[d].key /\ call[c].body = call[d].body
RowsSent == \A i \in Calls : Stored(i) => Sent(i, messages[i].key, messages[i].body)
RecordsSent ==
    \A k \in Keys : record[k].status # "none" =>
        record[k].id \in Calls /\ Sent(record[k].id, k, record[k].body)

\* The inductive invariant under NoFabricatedReceipt.
ReceiptInv ==
    /\ TypeOK
    /\ \A c \in Calls : CallKnows(c)
    /\ IdsAgree
    /\ RowsSent
    /\ RecordsSent
    /\ NoFabricatedReceipt
    /\ \A i \in inbox.pending : Stored(i)

Rows(k) == {i \in Calls : Stored(i) /\ messages[i].key = k}
Failed(k) == {c \in Calls : call[c].pc = "dead" /\ call[c].key = k}
Raced(k) == \E c \in Calls : call[c].key = k /\ call[c].raced

\* "must resume against the row recorded at begin time, not insert a
\* duplicate": one operation leaves one row, even if every retry makes up an
\* id of its own, as long as one of its calls failed at most and none were
\* sent before the last had ended.
DeliveredOnce ==
    \A k \in Keys : ~Raced(k) /\ Cardinality(Failed(k)) <= 1 => Cardinality(Rows(k)) <= 1

\* A receipt a caller may have seen is the receipt of every later retry,
\* unless calls overlapped.
ReceiptStable ==
    [][\A k \in Keys : record[k].receipt # None /\ ~Raced(k) =>
          record'[k].receipt = record[k].receipt]_vars

\* "marked read only after the wake completes": no crash, failed wake or late
\* message makes the agent acknowledge what was in no prompt of a loop that
\* ended, by an answer or by the break after a provider error.
ReadMeansPrompted ==
    \A i \in Calls : messages[i].status = "read" => i \in inbox.prompted

\* "we mark it read only after the wake's reason+act loop completes
\* successfully", a provider error named among the failures after which "the
\* next cycle" retries: a message is read only if a loop with it in the prompt
\* ended without one.
ReadMeansActed ==
    \A i \in Calls : messages[i].status = "read" => i \in inbox.acted

=============================================================================
