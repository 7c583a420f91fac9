----------------------------- MODULE SyncQueue -----------------------------
(***************************************************************************)
(* The offline submission queue of collecta-core (sync_queue.rs): a list   *)
(* of items, which of them are due for an upload, and what the answer to   *)
(* an upload does to each of them.  There is no state here: these are the  *)
(* operators the push protocol (PushSync) is built from.                   *)
(*                                                                         *)
(* A submission is its id.  The batch of a push is kept as a function from *)
(* queue positions to ids, so the order of the batch is the order of the   *)
(* positions, and an answer is a function from those positions to          *)
(* [id, status] records.                                                   *)
(***************************************************************************)
EXTENDS Integers, Sequences, FiniteSets

CONSTANTS
    Ids,          \* submission ids
    MaxRetries,   \* SyncQueue::max_retries
    BaseBackoff,  \* the wait before the first retry (5 s in the code)
    MaxBackoff    \* the cap on the wait (300 s in the code)

ASSUME QueueAssumption ==
    /\ MaxRetries \in Nat
    /\ BaseBackoff \in Nat \ {0}
    /\ MaxBackoff \in Nat

\* "InProgress" is declared by the code and never assigned by it.
SyncStatus == {"Pending", "InProgress", "Synced", "Failed", "Abandoned"}

PushItemStatus == {"Accepted", "Duplicate", "Error"}

\* last_attempt is an Option in the code.
NoAttempt == -1

QueueItem ==
    [id: Ids, status: SyncStatus, retries: Nat, last: Nat \cup {NoAttempt}]

NewItem(id) ==
    [id |-> id, status |-> "Pending", retries |-> 0, last |-> NoAttempt]

\* Mutant: a file that cannot be read is taken for an empty queue.
MutantEnqueueAlone(queue, id) == <<NewItem(id)>>

\* Nothing looks for an item with the same id before the new one is pushed.
Enqueue(queue, id) == Append(queue, NewItem(id))

\* Mutant: a failed item is not tried again.
MutantPendingOnce(queue) == {i \in DOMAIN queue : queue[i].status = "Pending"}

\* Mutant: only the retry count decides, so a synced item goes out again.
MutantPendingAny(queue) == {i \in DOMAIN queue : queue[i].retries < MaxRetries}

\* The positions of the items still to be delivered.
Pending(queue) ==
    {i \in DOMAIN queue :
        \/ queue[i].status = "Pending"
        \/ queue[i].status = "Failed" /\ queue[i].retries < MaxRetries}

Backoff(retries) ==
    LET wait == BaseBackoff * 2 ^ retries
    IN  IF wait < MaxBackoff THEN wait ELSE MaxBackoff

\* The wait of an item: its first failure has already been counted, so the
\* exponent is one less than the count, and never below zero.
Wait(item) == Backoff(IF item.retries = 0 THEN 0 ELSE item.retries - 1)

\* Mutant: the backoff window is ignored.
MutantDueAtOnce(queue, now) == Pending(queue)

\* The positions of the items whose backoff window has passed at time now.
Due(queue, now) ==
    {i \in Pending(queue) :
        \/ queue[i].last = NoAttempt
        \/ queue[i].last + Wait(queue[i]) <= now}

BuildPushRequest(queue, now) == [i \in Due(queue, now) |-> queue[i].id]

\* find_mut: an id names the first item that carries it.
Named(queue, i) == \A j \in DOMAIN queue : j < i => queue[j].id # queue[i].id

\* The positions of the answers that name the item at position i.
AnswersTo(queue, i, response) ==
    {k \in DOMAIN response : Named(queue, i) /\ response[k].id = queue[i].id}

\* Mutant: a duplicate is taken for a refusal.
MutantDuplicateIsError(answers, response) ==
    \A k \in answers :
        response[k].status # "Accepted" =>
            \E j \in answers : j > k /\ response[j].status = "Accepted"

\* The last answer decides the status: no error but is followed by a delivery.
LastSaysDelivered(answers, response) ==
    \A k \in answers :
        response[k].status = "Error" =>
            \E j \in answers : j > k /\ response[j].status # "Error"

\* Mutant: one attempt too many before an item is abandoned.
MutantAnsweredLate(item, errors, delivered, now) ==
    [item EXCEPT !.retries = @ + errors, !.last = now,
                 !.status = IF delivered THEN "Synced"
                            ELSE IF item.retries + errors > MaxRetries THEN "Abandoned"
                            ELSE "Failed"]

\* Mutant: a failed attempt is not counted.
MutantAnsweredUncounted(item, errors, delivered, now) ==
    [item EXCEPT !.last = now,
                 !.status = IF delivered THEN "Synced"
                            ELSE IF item.retries >= MaxRetries THEN "Abandoned"
                            ELSE "Failed"]

\* One item after all its answers, one or more: every error counts an attempt.
Answered(item, errors, delivered, now) ==
    [item EXCEPT !.retries = @ + errors,
                 !.last = now,
                 !.status = IF delivered THEN "Synced"
                            ELSE IF item.retries + errors >= MaxRetries THEN "Abandoned"
                            ELSE "Failed"]

\* The queue after the per-item answers of a push, applied in the order of the
\* batch.  SyncQueueLoop holds the loop as the code writes it.
ApplyPushResponse(queue, response, now) ==
    [i \in DOMAIN queue |->
        LET answers == AnswersTo(queue, i, response)
            errors == {k \in answers : response[k].status = "Error"}
        IN  IF answers = {} THEN queue[i]
            ELSE Answered(queue[i], Cardinality(errors),
                          LastSaysDelivered(answers, response), now)]

\* Mutant: a batch that got no answer is taken for delivered.
MutantMarkBatchSynced(queue, request, now) ==
    ApplyPushResponse(queue,
        [i \in DOMAIN request |-> [id |-> request[i], status |-> "Accepted"]], now)

\* A push that got no answer: one failed attempt for every item of the batch.
MarkBatchFailed(queue, request, now) ==
    ApplyPushResponse(queue,
        [i \in DOMAIN request |-> [id |-> request[i], status |-> "Error"]], now)
=============================================================================
