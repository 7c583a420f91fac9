--------------------------- MODULE SyncQueueLoop ---------------------------
(***************************************************************************)
(* The loop of apply_push_response as the code writes it, one mark_synced  *)
(* or mark_failed at a time over whatever queue the other operations have  *)
(* built, beside the one-step ApplyPushResponse that PushSync uses.        *)
(* PushSyncProofs shows that the two agree.                                *)
(***************************************************************************)
EXTENDS SyncQueue

VARIABLES
    items,    \* the queue the loop works on
    loaded,   \* the queue the loop started from
    applied,  \* the answers applied so far, in order
    moment    \* when this push was answered

loopVars == <<items, loaded, applied, moment>>

LoopInit == items = <<>> /\ loaded = <<>> /\ applied = <<>> /\ moment = 0

Submit(id) ==
    /\ applied = <<>>
    /\ items' = Enqueue(items, id)
    /\ loaded' = items'
    /\ UNCHANGED <<applied, moment>>

MarkSynced(item) == [item EXCEPT !.status = "Synced", !.last = moment]

MarkFailed(item) ==
    [item EXCEPT !.retries = @ + 1, !.last = moment,
                 !.status = IF item.retries + 1 >= MaxRetries THEN "Abandoned"
                            ELSE "Failed"]

Mark(item, status) == IF status = "Error" THEN MarkFailed(item) ELSE MarkSynced(item)

\* One round of the loop: the first item with the id is marked; without one
\* nothing is.
ApplyOne(id, status) ==
    /\ items' = [i \in DOMAIN items |->
           IF items[i].id = id /\ Named(items, i) THEN Mark(items[i], status)
           ELSE items[i]]
    /\ applied' = Append(applied, [id |-> id, status |-> status])
    /\ UNCHANGED <<loaded, moment>>

\* The loop ends, the queue is saved and a later push loads it.
Save ==
    /\ applied # <<>>
    /\ loaded' = items
    /\ applied' = <<>>
    /\ moment' = moment + 1
    /\ UNCHANGED items

LoopNext ==
    \/ \E id \in Ids : Submit(id)
    \/ \E id \in Ids, status \in PushItemStatus : ApplyOne(id, status)
    \/ Save

LoopSpec == LoopInit /\ [][LoopNext]_loopVars

\* The loop of apply_push_response over any answers, to copies of one id and to
\* unknown ids alike, leaves the queue that one ApplyPushResponse computes.
LoopMatchesOneStep == items = ApplyPushResponse(loaded, applied, moment)
=============================================================================
