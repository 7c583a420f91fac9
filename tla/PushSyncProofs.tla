--------------------------- MODULE PushSyncProofs ---------------------------
(***************************************************************************)
(* For every set of submissions, of client runs and of handlers, and every *)
(* bound: the types, what a reported status means, that an item is         *)
(* reported synced only when the server has taken it, and that what the    *)
(* handler confirmed is synced when its answer is applied.  Then, with one *)
(* command at a time on the device, whatever is lost, killed or deleted:   *)
(* nothing queued is lost, no report is revised, uploads are bounded and   *)
(* spaced, and the protocol implements the promise of Delivery.            *)
(*                                                                         *)
(* Last, what PushSync takes the answers of a push to do in one step is    *)
(* what the loop over them does, whatever the queue and the answers.       *)
(***************************************************************************)
EXTENDS PushSync, SyncQueueLoop, FiniteSetTheorems, TLAPS

\* The answers to a push, as apply_push_response receives them.
Response(r) ==
    /\ IsFiniteSet(DOMAIN r)
    /\ DOMAIN r \subseteq Nat
    /\ r \in [DOMAIN r -> [id: Ids, status: PushItemStatus]]

\* What the status of an item says of its count (sync_queue.rs, mark_failed).
Consistent(item) ==
    /\ item.status = "Abandoned" => item.retries >= MaxRetries
    /\ item.status = "Failed" => item.retries \in 1 .. MaxRetries - 1
    /\ item.status = "Pending" => item.retries = 0 /\ item.last = NoAttempt

\* The queues a device holds: every synced item has been taken by the server.
Sound(queue, taken) ==
    \A i \in DOMAIN queue :
        /\ Consistent(queue[i])
        /\ queue[i].status = "Synced" => queue[i].id \in taken

-----------------------------------------------------------------------------
(* The queue operators.                                                    *)

\* A list of the right entries is a sequence.
LEMMA SequenceOf ==
    ASSUME NEW S, NEW n \in Nat, NEW f \in [1 .. n -> S]
    PROVE  f \in Seq(S) /\ Len(f) = n /\ DOMAIN f = 1 .. n
OBVIOUS

\* An enqueued item is pending and nothing else changes (enqueue).
LEMMA EnqueueKeeps ==
    ASSUME NEW queue \in Seq(QueueItem), NEW id \in Ids, NEW taken, Sound(queue, taken)
    PROVE  /\ Enqueue(queue, id) \in Seq(QueueItem)
           /\ Sound(Enqueue(queue, id), taken)
           /\ Enqueue(queue, id) # <<>>
<1>1. NewItem(id) \in QueueItem
    BY DEF NewItem, QueueItem, SyncStatus
<1>2. Enqueue(queue, id) \in Seq(QueueItem)
    BY <1>1 DEF Enqueue
<1>3. \A i \in DOMAIN Enqueue(queue, id) :
          Enqueue(queue, id)[i] = IF i = Len(queue) + 1 THEN NewItem(id) ELSE queue[i]
    BY <1>1 DEF Enqueue
<1>4. Len(Enqueue(queue, id)) = Len(queue) + 1 /\ DOMAIN Enqueue(queue, id) = 1 .. Len(queue) + 1
    BY <1>1 DEF Enqueue
<1>5. Consistent(NewItem(id)) /\ NewItem(id).status = "Pending" /\ NewItem(id).id = id
    BY DEF Consistent, NewItem
<1>6. Sound(Enqueue(queue, id), taken)
    <2>1. SUFFICES ASSUME NEW i \in DOMAIN Enqueue(queue, id)
                   PROVE  /\ Consistent(Enqueue(queue, id)[i])
                          /\ Enqueue(queue, id)[i].status = "Synced"
                                => Enqueue(queue, id)[i].id \in taken
        BY DEF Sound
    <2>2. CASE i = Len(queue) + 1
        BY <1>3, <1>5, <2>2
    <2>3. CASE i # Len(queue) + 1
        <3>1. i \in DOMAIN queue /\ Enqueue(queue, id)[i] = queue[i]
            BY <1>3, <1>4, <2>3
        <3> QED BY <3>1 DEF Sound
    <2> QED BY <2>2, <2>3
<1> QED BY <1>2, <1>4, <1>6

\* A batch is a set of queue positions with the ids found there.
LEMMA BatchType ==
    ASSUME NEW queue \in Seq(QueueItem), NEW now \in Nat
    PROVE  /\ Request(BuildPushRequest(queue, now))
           /\ DOMAIN BuildPushRequest(queue, now) \subseteq DOMAIN queue
<1> DEFINE batch == BuildPushRequest(queue, now)
<1>1. DOMAIN batch = Due(queue, now) /\ Due(queue, now) \subseteq DOMAIN queue
    BY DEF BuildPushRequest, Due, Pending
<1>2. Len(queue) \in Nat /\ DOMAIN queue = 1 .. Len(queue)
    OBVIOUS
<1>3. IsFiniteSet(DOMAIN batch)
    <2>1. IsFiniteSet(DOMAIN queue)
        BY <1>2, FS_Interval
    <2> HIDE DEF batch
    <2> QED BY <1>1, <2>1, FS_Subset
<1>4. ASSUME NEW i \in DOMAIN queue PROVE queue[i].id \in Ids
    <2>1. queue[i] \in QueueItem
        BY <1>2
    <2> QED BY <2>1 DEF QueueItem
<1>5. batch \in [DOMAIN batch -> Ids]
    BY <1>1, <1>4 DEF BuildPushRequest
<1> QED BY <1>1, <1>2, <1>3, <1>5 DEF Request

\* One item after its answers: the count grows by the errors, and an item is
\* synced only if one of the answers says so.
LEMMA AnsweredKeeps ==
    ASSUME NEW item \in QueueItem, NEW response, Response(response), NEW now \in Nat,
           NEW answers \in SUBSET DOMAIN response, answers # {}, Consistent(item),
           NEW errors, errors = {k \in answers : response[k].status = "Error"},
           NEW new, new = Answered(item, Cardinality(errors),
                                   LastSaysDelivered(answers, response), now)
    PROVE  /\ new \in QueueItem
           /\ Consistent(new)
           /\ new.id = item.id
           /\ new.status = "Synced" => \E k \in answers : response[k].status # "Error"
<1>1. IsFiniteSet(errors) /\ Cardinality(errors) \in Nat
    BY FS_Subset, FS_CardinalityType DEF Response
<1>2. Cardinality(errors) = 0 => errors = {}
    BY <1>1, FS_EmptySet
<1> DEFINE delivered == LastSaysDelivered(answers, response)
<1>3. ~ delivered => errors # {}
    BY DEF LastSaysDelivered
<1>4. delivered => \E k \in answers : response[k].status # "Error"
    BY DEF LastSaysDelivered
<1>5. /\ new.id = item.id /\ new.retries = item.retries + Cardinality(errors)
      /\ new.last = now
      /\ new.status = IF delivered THEN "Synced"
                      ELSE IF item.retries + Cardinality(errors) >= MaxRetries
                      THEN "Abandoned" ELSE "Failed"
    BY DEF Answered, QueueItem
<1>6. new \in QueueItem
    <2>1. new = [id |-> new.id, status |-> new.status,
                 retries |-> new.retries, last |-> new.last]
        BY DEF Answered, QueueItem
    <2>2. new.status \in SyncStatus
        BY <1>5 DEF SyncStatus
    <2>3. new.id \in Ids /\ new.retries \in Nat /\ new.last \in Nat
        BY <1>1, <1>5 DEF QueueItem
    <2> QED BY <2>1, <2>2, <2>3 DEF QueueItem
<1>7. Consistent(new)
    BY <1>1, <1>2, <1>3, <1>5, QueueAssumption DEF Consistent, QueueItem
<1> QED BY <1>4, <1>5, <1>6, <1>7

\* The queue after a push keeps its types, its length and its ids; its items are
\* consistent, and synced ones have been taken if the answers are truthful.
LEMMA ApplyKeeps ==
    ASSUME NEW queue \in Seq(QueueItem), NEW response, Response(response),
           NEW now \in Nat, NEW taken, Sound(queue, taken),
           \A k \in DOMAIN response :
               response[k].status # "Error" => response[k].id \in taken
    PROVE  /\ ApplyPushResponse(queue, response, now) \in Seq(QueueItem)
           /\ Sound(ApplyPushResponse(queue, response, now), taken)
<1> DEFINE new == ApplyPushResponse(queue, response, now)
<1>1. DOMAIN queue = 1 .. Len(queue) /\ Len(queue) \in Nat
    OBVIOUS
<1>2. ASSUME NEW i \in DOMAIN queue
      PROVE  /\ new[i] \in QueueItem
             /\ Consistent(new[i])
             /\ new[i].status = "Synced" => new[i].id \in taken
    <2> DEFINE answers == AnswersTo(queue, i, response)
               errors == {k \in answers : response[k].status = "Error"}
    <2>1. queue[i] \in QueueItem /\ Consistent(queue[i])
          /\ (queue[i].status = "Synced" => queue[i].id \in taken)
        BY <1>1 DEF Sound
    <2>2. new[i] = IF answers = {} THEN queue[i]
                   ELSE Answered(queue[i], Cardinality(errors),
                                 LastSaysDelivered(answers, response), now)
        BY DEF ApplyPushResponse
    <2>3. CASE answers = {}
        BY <2>1, <2>2, <2>3
    <2>4. CASE answers # {}
        <3>1. answers \in SUBSET DOMAIN response
            BY DEF AnswersTo
        <3>2. /\ new[i] \in QueueItem
              /\ Consistent(new[i])
              /\ new[i].id = queue[i].id
              /\ new[i].status = "Synced" => \E k \in answers : response[k].status # "Error"
            <4> HIDE DEF answers
            <4> QED BY <2>1, <2>2, <2>4, <3>1, AnsweredKeeps
        <3>3. \A k \in answers : response[k].id = queue[i].id
            BY DEF AnswersTo
        <3> QED BY <3>1, <3>2, <3>3
    <2> QED BY <2>3, <2>4
<1>3. new \in [1 .. Len(queue) -> QueueItem]
    BY <1>1, <1>2 DEF ApplyPushResponse
<1>4. new \in Seq(QueueItem) /\ DOMAIN new = DOMAIN queue
    BY <1>1, <1>3, SequenceOf
<1> QED BY <1>2, <1>4 DEF Sound

\* The same of a batch that got no answer.
LEMMA BatchFailedKeeps ==
    ASSUME NEW queue \in Seq(QueueItem), NEW batch, Request(batch),
           NEW now \in Nat, NEW taken, Sound(queue, taken)
    PROVE  /\ MarkBatchFailed(queue, batch, now) \in Seq(QueueItem)
           /\ Sound(MarkBatchFailed(queue, batch, now), taken)
<1> DEFINE response == [i \in DOMAIN batch |-> [id |-> batch[i], status |-> "Error"]]
<1>1. Response(response) /\ \A k \in DOMAIN response : response[k].status = "Error"
    BY DEF Response, Request, PushItemStatus
<1>2. MarkBatchFailed(queue, batch, now) = ApplyPushResponse(queue, response, now)
    BY DEF MarkBatchFailed
<1> HIDE DEF response
<1> QED BY <1>1, <1>2, ApplyKeeps

-----------------------------------------------------------------------------
(* The invariant.  A report in the file is sound because the answer it was *)
(* taken from was truthful when the handler gave it, and a submission the  *)
(* server has taken stays taken; so the invariant speaks of the copies in  *)
(* memory and of the results under way as well as of the file.             *)

Taken == onFile \cup removed

Truthful(r, taken) ==
    \A i \in DOMAIN r.results : r.results[i] # "Error" => r.request[i] \in taken

DeviceOK ==
    /\ file \in Seq(QueueItem) /\ Sound(file, Taken)
    /\ pc \in [Procs -> PcStates]
    /\ mem \in [Procs -> Seq(QueueItem)]
    /\ \A p \in Procs : /\ Sound(mem[p], Taken)
                        /\ pc[p] = "submitting" => mem[p] # <<>>
    /\ request = [p \in Procs |-> request[p]]
    /\ \A p \in Procs : Request(request[p])

HandlerOK ==
    /\ handler = [h \in Slots |-> handler[h]]
    /\ \A h \in Slots : Handler(handler[h]) /\ Truthful(handler[h], Taken)

RestOK ==
    /\ live \subseteq Forms /\ onFile \subseteq Ids /\ removed \subseteq Ids
    /\ clock \in Nat /\ crashes \in Nat /\ deletes \in Nat
    /\ copies \in [Ids -> Nat] /\ uploads \in [Ids -> Nat] /\ queued \subseteq Ids

Inv == DeviceOK /\ HandlerOK /\ RestOK

LEMMA InvImplies == Inv => TypeOK /\ SyncedIsOnServer /\ AbandonedMeansExhausted
BY DEF Inv, DeviceOK, HandlerOK, RestOK, TypeOK, SyncedIsOnServer, Taken,
       AbandonedMeansExhausted, Sound, Consistent

LEMMA SoundGrows ==
    ASSUME NEW queue, NEW taken, NEW more, taken \subseteq more, Sound(queue, taken)
    PROVE  Sound(queue, more)
BY DEF Sound

LEMMA EmptyQueue == \A taken : Sound(<<>>, taken) /\ <<>> \in Seq(QueueItem)
BY DEF Sound

\* A function without arguments is an empty batch and an empty set of results.
LEMMA EmptyBatch ==
    /\ DOMAIN EmptyFunction = {}
    /\ Request(EmptyFunction)
    /\ EmptyFunction \in [DOMAIN EmptyFunction -> PushItemStatus]
<1>1. DOMAIN EmptyFunction = {}
    BY DEF EmptyFunction
<1>2. IsFiniteSet({})
    BY FS_EmptySet
<1>3. EmptyFunction = [x \in {} |-> x]
    BY DEF EmptyFunction
<1> QED BY <1>1, <1>2, <1>3 DEF Request

LEMMA FreeKeeps == \A taken : Handler(Free) /\ Truthful(Free, taken)
BY EmptyBatch DEF Free, Handler, Truthful

\* Rows and deletes: nothing ever leaves the set of taken submissions.
LEMMA TakenGrows == Inv /\ [Next]_vars => Taken \subseteq Taken'
<1> SUFFICES ASSUME Inv, [Next]_vars PROVE Taken \subseteq Taken'
    OBVIOUS
<1>1. ASSUME NEW ids, Delete(ids) PROVE Taken \subseteq Taken'
    BY <1>1 DEF Delete, Taken
<1>2. CASE UNCHANGED vars
    BY <1>2 DEF vars, serverVars, deleteVars, Taken
<1>3. CASE \E p \in Procs : \/ \E id \in Ids : SubmitLoad(p, id)
                            \/ SubmitSave(p) \/ PushLoad(p)
                            \/ \E h \in Slots : Arrive(p, h)
                            \/ PushFails(p) \/ Crash(p)
    BY <1>3 DEF SubmitLoad, SubmitSave, PushLoad, Arrive, PushFails, Crash,
                serverVars, deleteVars, Taken
<1>4. CASE \E h \in Slots : CheckForm(h) \/ Insert(h) \/ StorageError(h)
                            \/ Answer(h) \/ HandlerLost(h)
    BY <1>4 DEF CheckForm, Insert, StorageError, Answer, HandlerLost, deleteVars, Taken
<1>5. CASE \E id \in Ids : DeleteSubmission(id)
    BY <1>1, <1>5 DEF DeleteSubmission
<1>6. CASE \E f \in Forms : DeleteForm(f) \/ RestoreForm(f)
    BY <1>1, <1>6 DEF DeleteForm, RestoreForm, deleteVars, Taken
<1>7. CASE Tick
    BY <1>7 DEF Tick, serverVars, deleteVars, Taken
<1> QED BY <1>2, <1>3, <1>4, <1>5, <1>6, <1>7 DEF Next

-----------------------------------------------------------------------------
(* What the actions are made of keeps the invariant.                       *)

LEMMA DeviceStutters ==
    ASSUME DeviceOK, Taken \subseteq Taken', UNCHANGED deviceVars
    PROVE  DeviceOK'
BY SoundGrows DEF DeviceOK, deviceVars

LEMMA HandlerStutters ==
    ASSUME HandlerOK, Taken \subseteq Taken', UNCHANGED handler
    PROVE  HandlerOK'
BY DEF HandlerOK, Truthful

\* A command ends, having written a sound file or none.
LEMMA ExitKeeps ==
    ASSUME DeviceOK, Taken \subseteq Taken', NEW p \in Procs, Exit(p),
           file' \in Seq(QueueItem), Sound(file', Taken')
    PROVE  DeviceOK'
<1>1. ASSUME NEW q \in Procs
      PROVE  /\ Sound(mem'[q], Taken')
             /\ pc'[q] = "submitting" => mem'[q] # <<>>
             /\ Request(request'[q])
    <2>1. CASE q = p
        BY <2>1, EmptyQueue, EmptyBatch DEF Exit, DeviceOK
    <2>2. CASE q # p
        BY <2>2, SoundGrows DEF Exit, DeviceOK
    <2> QED BY <2>1, <2>2
<1>2. pc' \in [Procs -> PcStates] /\ mem' \in [Procs -> Seq(QueueItem)]
      /\ request' = [q \in Procs |-> request'[q]]
    BY EmptyQueue DEF Exit, DeviceOK, PcStates
<1> QED BY <1>1, <1>2 DEF DeviceOK

\* One handler changes to a well-formed and truthful one.
LEMMA OneHandler ==
    ASSUME HandlerOK, Taken \subseteq Taken', NEW h \in Slots, NEW r,
           Handler(r), Truthful(r, Taken'), handler' = [handler EXCEPT ![h] = r]
    PROVE  HandlerOK'
<1>1. handler' = [g \in Slots |-> IF g = h THEN r ELSE handler[g]]
    BY DEF HandlerOK
<1> QED BY <1>1 DEF HandlerOK, Truthful

LEMMA HangUpKeeps ==
    ASSUME HandlerOK, Taken \subseteq Taken', NEW p \in Procs, HangUp(p)
    PROVE  HandlerOK'
<1>1. ASSUME NEW h \in Slots
      PROVE  Handler(handler'[h]) /\ Truthful(handler'[h], Taken')
    <2>1. Handler(handler[h]) /\ Truthful(handler[h], Taken)
        BY DEF HandlerOK
    <2>2. CASE handler[h].client = p
        <3>1. handler'[h] = [handler[h] EXCEPT !.client = NoProc]
            BY <2>2 DEF HangUp
        <3>2. handler'[h] = [step |-> handler[h].step, client |-> NoProc,
                             request |-> handler[h].request, results |-> handler[h].results]
            BY <2>1, <3>1 DEF Handler
        <3> QED BY <2>1, <3>2 DEF Handler, Truthful
    <2>3. CASE handler[h].client # p
        BY <2>1, <2>3 DEF HangUp, Truthful
    <2> QED BY <2>2, <2>3
<1>2. handler' = [h \in Slots |-> handler'[h]]
    BY DEF HangUp
<1> QED BY <1>1, <1>2 DEF HandlerOK

LEMMA AfterResult ==
    ASSUME NEW old, NEW results, Handler(old)
    PROVE  [old EXCEPT !.step = "form", !.results = results] =
               [step |-> "form", client |-> old.client,
                request |-> old.request, results |-> results]
<1>1. old = [step |-> old.step, client |-> old.client,
             request |-> old.request, results |-> old.results]
    BY DEF Handler
<1>2. ASSUME NEW s, NEW c, NEW q, NEW rs,
             old = [step |-> s, client |-> c, request |-> q, results |-> rs]
      PROVE  [old EXCEPT !.step = "form", !.results = results] =
                 [step |-> "form", client |-> c, request |-> q, results |-> results]
    <2>1. [old EXCEPT !.step = "form"] =
              [step |-> "form", client |-> c, request |-> q, results |-> rs]
        BY <1>2
    <2>2. [old EXCEPT !.step = "form", !.results = results] =
              [[old EXCEPT !.step = "form"] EXCEPT !.results = results]
        BY <1>2
    <2>3. [[step |-> "form", client |-> c, request |-> q, results |-> rs]
              EXCEPT !.results = results] =
              [step |-> "form", client |-> c, request |-> q, results |-> results]
        OBVIOUS
    <2> QED BY <2>1, <2>2, <2>3, Zenon
<1> QED BY <1>1, <1>2, Zenon

\* A handler records a truthful result of its next item.
LEMMA ResultKeeps ==
    ASSUME HandlerOK, Taken \subseteq Taken', NEW h \in Slots, NEW i \in Todo(h),
           NEW status \in PushItemStatus, Result(h, i, status),
           status # "Error" => handler[h].request[i] \in Taken'
    PROVE  HandlerOK'
<1> DEFINE old == handler[h]
           results == [j \in DOMAIN old.results \cup {i} |->
                          IF j = i THEN status ELSE old.results[j]]
           r == [step |-> "form", client |-> old.client,
                 request |-> old.request, results |-> results]
<1>1. Handler(old) /\ Truthful(old, Taken)
    BY DEF HandlerOK
<1>2. handler' = [handler EXCEPT ![h] = r]
    <2>1. [old EXCEPT !.step = "form", !.results = results] = r
        <3> HIDE DEF results
        <3> QED BY <1>1, AfterResult
    <2>2. handler' = [handler EXCEPT
              ![h] = [@ EXCEPT !.step = "form", !.results = results]]
        BY Zenon DEF Result
    <2>3. handler' = [handler EXCEPT
              ![h] = [old EXCEPT !.step = "form", !.results = results]]
        BY <2>2, Zenon
    <2> HIDE DEF r
    <2> QED BY <2>1, <2>2, <2>3
<1>3. i \in DOMAIN old.request
    BY DEF Todo
<1>4. results \in [DOMAIN results -> PushItemStatus]
    BY <1>1 DEF Handler
<1>5. Handler(r)
    BY <1>1, <1>3, <1>4 DEF Handler
<1>6. Truthful(r, Taken')
    BY <1>1 DEF Truthful
<1> HIDE DEF r
<1> QED BY <1>2, <1>5, <1>6, OneHandler

-----------------------------------------------------------------------------
(* One step.                                                               *)

LEMMA InitInv == Init => Inv
<1> SUFFICES ASSUME Init PROVE Inv
    OBVIOUS
<1>1. DeviceOK
    BY EmptyQueue, EmptyBatch DEF Init, DeviceOK, PcStates
<1>2. HandlerOK
    BY FreeKeeps DEF Init, HandlerOK
<1>3. RestOK
    BY DEF Init, RestOK
<1> QED BY <1>1, <1>2, <1>3 DEF Inv

LEMMA ClientStep ==
    ASSUME Inv, Taken \subseteq Taken', NEW p \in Procs,
           \/ \E id \in Ids : SubmitLoad(p, id)
           \/ SubmitSave(p) \/ PushLoad(p)
           \/ \E h \in Slots : Arrive(p, h)
           \/ PushFails(p) \/ Crash(p)
    PROVE  Inv'
<1> USE DEF Inv
<1>0. mem[p] \in Seq(QueueItem) /\ Sound(mem[p], Taken') /\ Request(request[p])
      /\ file \in Seq(QueueItem) /\ Sound(file, Taken')
    BY SoundGrows DEF DeviceOK
<1>1. ASSUME NEW id \in Ids, SubmitLoad(p, id) PROVE Inv'
    <2>1. Enqueue(file, id) \in Seq(QueueItem) /\ Sound(Enqueue(file, id), Taken')
          /\ Enqueue(file, id) # <<>>
        BY <1>0, EnqueueKeeps
    <2>2. DeviceOK'
        BY <1>0, <1>1, <2>1, SoundGrows DEF SubmitLoad, DeviceOK, PcStates
    <2>3. HandlerOK'
        BY <1>1, HandlerStutters DEF SubmitLoad, serverVars
    <2>4. RestOK'
        BY <1>1 DEF SubmitLoad, RestOK, serverVars, deleteVars
    <2> QED BY <2>2, <2>3, <2>4
<1>2. CASE SubmitSave(p)
    <2>1. DeviceOK'
        BY <1>0, <1>2, ExitKeeps DEF SubmitSave
    <2>2. HandlerOK'
        BY <1>2, HandlerStutters DEF SubmitSave, serverVars
    <2>3. mem[p][Len(mem[p])].id \in Ids
        <3>1. mem[p] # <<>>
            BY <1>2 DEF SubmitSave, DeviceOK
        <3>2. mem[p][Len(mem[p])] \in QueueItem
            BY <1>0, <3>1
        <3> QED BY <3>2 DEF QueueItem
    <2>4. RestOK'
        BY <1>2, <2>3 DEF SubmitSave, RestOK, serverVars, deleteVars
    <2> QED BY <2>1, <2>2, <2>4
<1>3. CASE PushLoad(p)
    <2> DEFINE batch == BuildPushRequest(file, clock)
    <2>1. clock \in Nat
        BY DEF RestOK
    <2>2. Request(batch)
        BY <1>0, <2>1, BatchType
    <2> HIDE DEF batch
    <2>3. /\ mem' = [mem EXCEPT ![p] = file]
          /\ request' = [request EXCEPT ![p] = batch]
          /\ pc' = [pc EXCEPT ![p] = "sending"]
          /\ file' = file
        BY <1>3 DEF PushLoad, batch
    <2>4. DeviceOK'
        <3>1. ASSUME NEW q \in Procs
              PROVE  /\ Sound(mem'[q], Taken')
                     /\ pc'[q] = "submitting" => mem'[q] # <<>>
                     /\ Request(request'[q])
            BY <1>0, <2>2, <2>3, SoundGrows DEF DeviceOK
        <3>2. /\ pc' \in [Procs -> PcStates] /\ mem' \in [Procs -> Seq(QueueItem)]
              /\ request' = [q \in Procs |-> request'[q]]
            BY <1>0, <2>3 DEF DeviceOK, PcStates
        <3> QED BY <1>0, <2>3, <3>1, <3>2 DEF DeviceOK
    <2>5. HandlerOK'
        BY <1>3, HandlerStutters DEF PushLoad, serverVars
    <2>6. RestOK'
        <3>1. ASSUME NEW id \in Ids
              PROVE  Cardinality({i \in DOMAIN batch : batch[i] = id}) \in Nat
            BY <2>2, FS_Subset, FS_CardinalityType DEF Request
        <3>2. uploads' \in [Ids -> Nat]
            BY <1>3, <3>1 DEF PushLoad, RestOK, batch
        <3> QED BY <1>3, <3>2 DEF PushLoad, RestOK, serverVars, submitVars, deleteVars
    <2> QED BY <2>4, <2>5, <2>6
<1>4. ASSUME NEW h \in Slots, Arrive(p, h) PROVE Inv'
    <2> DEFINE r == [step |-> "form", client |-> p,
                     request |-> request[p], results |-> EmptyFunction]
    <2>1. Handler(r) /\ Truthful(r, Taken')
        BY <1>0, EmptyBatch DEF Handler, Truthful
    <2>2. HandlerOK'
        BY <1>4, <2>1, OneHandler DEF Arrive
    <2>3. DeviceOK'
        BY <1>0, <1>4, SoundGrows DEF Arrive, DeviceOK, PcStates
    <2>4. RestOK'
        BY <1>4 DEF Arrive, RestOK, submitVars, deleteVars
    <2> QED BY <2>2, <2>3, <2>4
<1>5. CASE PushFails(p)
    <2>1. clock \in Nat
        BY DEF RestOK
    <2>2. file' \in Seq(QueueItem) /\ Sound(file', Taken')
        BY <1>0, <1>5, <2>1, BatchFailedKeeps DEF PushFails
    <2>3. DeviceOK' /\ HandlerOK'
        BY <1>5, <2>2, ExitKeeps, HangUpKeeps DEF PushFails
    <2>4. RestOK'
        BY <1>5 DEF PushFails, RestOK, submitVars, deleteVars
    <2> QED BY <2>3, <2>4
<1>6. CASE Crash(p)
    <2>1. DeviceOK' /\ HandlerOK'
        BY <1>0, <1>6, ExitKeeps, HangUpKeeps DEF Crash
    <2>2. RestOK'
        BY <1>6 DEF Crash, RestOK, submitVars, deleteVars
    <2> QED BY <2>1, <2>2
<1> QED BY <1>1, <1>2, <1>3, <1>4, <1>5, <1>6

LEMMA ServerStep ==
    ASSUME Inv, Taken \subseteq Taken', NEW h \in Slots,
           CheckForm(h) \/ Insert(h) \/ StorageError(h) \/ Answer(h) \/ HandlerLost(h)
    PROVE  Inv'
<1> USE DEF Inv
<1>0. Handler(handler[h]) /\ Truthful(handler[h], Taken)
    BY DEF HandlerOK
<1>1. CASE CheckForm(h)
    <2>1. PICK i \in Todo(h) :
              \/ handler' = [handler EXCEPT ![h].step = "insert"]
              \/ Result(h, i, "Error")
        BY <1>1 DEF CheckForm
    <2>2. ASSUME Result(h, i, "Error") PROVE HandlerOK'
        BY <2>2, ResultKeeps DEF PushItemStatus
    <2>3. ASSUME handler' = [handler EXCEPT ![h].step = "insert"] PROVE HandlerOK'
        <3> DEFINE r == [step |-> "insert", client |-> handler[h].client,
                         request |-> handler[h].request, results |-> handler[h].results]
        <3>1. Handler(r) /\ Truthful(r, Taken')
            BY <1>0 DEF Handler, Truthful
        <3>2. [handler[h] EXCEPT !.step = "insert"] = r
            BY <1>0 DEF Handler
        <3>3. handler' = [handler EXCEPT ![h] = [handler[h] EXCEPT !.step = "insert"]]
            BY <2>3
        <3> HIDE DEF r
        <3> QED BY <3>1, <3>2, <3>3, OneHandler
    <2>4. DeviceOK' /\ RestOK'
        BY <1>1, DeviceStutters DEF CheckForm, UNCHANGEDOutside, RestOK, submitVars, deleteVars
    <2> QED BY <2>1, <2>2, <2>3, <2>4
<1>2. CASE Insert(h)
    <2>1. PICK i \in Todo(h) :
              /\ onFile' = onFile \cup {handler[h].request[i]}
              /\ Result(h, i, IF handler[h].request[i] \in onFile
                              THEN "Duplicate" ELSE "Accepted")
        BY <1>2 DEF Insert
    <2>2. handler[h].request[i] \in Taken'
        BY <2>1 DEF Taken
    <2>3. HandlerOK'
        BY <2>1, <2>2, ResultKeeps DEF PushItemStatus
    <2>4. handler[h].request[i] \in Ids
        BY <1>0 DEF Handler, Request, Todo
    <2>5. DeviceOK' /\ RestOK'
        BY <1>2, <2>1, <2>4, DeviceStutters
        DEF Insert, UNCHANGEDOutside, RestOK, submitVars, deleteVars
    <2> QED BY <2>3, <2>5
<1>3. CASE StorageError(h)
    <2>1. HandlerOK'
        BY <1>3, ResultKeeps DEF StorageError, PushItemStatus
    <2>2. DeviceOK' /\ RestOK'
        BY <1>3, DeviceStutters DEF StorageError, UNCHANGEDOutside, RestOK, submitVars, deleteVars
    <2> QED BY <2>1, <2>2
<1>4. CASE Answer(h)
    <2> DEFINE p == handler[h].client
               response == [i \in DOMAIN handler[h].request |->
                               [id |-> handler[h].request[i], status |-> handler[h].results[i]]]
    <2>1. HandlerOK'
        BY <1>4, FreeKeeps, OneHandler DEF Answer
    <2>2. RestOK'
        BY <1>4 DEF Answer, RestOK, submitVars, deleteVars
    <2>3. CASE p = NoProc
        BY <1>4, <2>1, <2>2, <2>3, DeviceStutters DEF Answer
    <2>4. CASE p # NoProc
        <3>1. p \in Procs /\ clock \in Nat
            BY <1>0, <2>4 DEF Handler, RestOK
        <3>2. mem[p] \in Seq(QueueItem) /\ Sound(mem[p], Taken')
            BY <3>1, SoundGrows DEF DeviceOK
        <3>3. DOMAIN handler[h].results = DOMAIN handler[h].request
            BY <1>0, <1>4 DEF Answer, Todo, Handler
        <3>4. Response(response)
            BY <1>0, <3>3 DEF Response, Handler, Request
        <3>5. \A k \in DOMAIN response :
                  response[k].status # "Error" => response[k].id \in Taken'
            BY <1>0, <3>3 DEF Truthful
        <3>6. file' = ApplyPushResponse(mem[p], response, clock) /\ Exit(p)
            BY <1>4, <2>4 DEF Answer
        <3> HIDE DEF p, response
        <3>7. file' \in Seq(QueueItem) /\ Sound(file', Taken')
            BY <3>1, <3>2, <3>4, <3>5, <3>6, ApplyKeeps
        <3> QED BY <2>1, <2>2, <3>1, <3>6, <3>7, ExitKeeps
    <2> QED BY <2>3, <2>4
<1>5. CASE HandlerLost(h)
    <2>1. HandlerOK'
        BY <1>5, FreeKeeps, OneHandler DEF HandlerLost
    <2>2. DeviceOK' /\ RestOK'
        BY <1>5, DeviceStutters DEF HandlerLost, UNCHANGEDOutside, RestOK, submitVars, deleteVars
    <2> QED BY <2>1, <2>2
<1> QED BY <1>1, <1>2, <1>3, <1>4, <1>5

LEMMA OwnerStep ==
    ASSUME Inv, Taken \subseteq Taken',
           \/ \E id \in Ids : DeleteSubmission(id)
           \/ \E f \in Forms : DeleteForm(f) \/ RestoreForm(f)
    PROVE  Inv'
<1> USE DEF Inv
<1>1. ASSUME NEW ids, Delete(ids) PROVE DeviceOK' /\ HandlerOK' /\ (live' \subseteq Forms => RestOK')
    BY <1>1, DeviceStutters, HandlerStutters
    DEF Delete, UNCHANGEDOutside, RestOK, submitVars
<1>2. ASSUME NEW id \in Ids, DeleteSubmission(id) PROVE Inv'
    BY <1>1, <1>2 DEF DeleteSubmission, RestOK
<1>3. ASSUME NEW f \in Forms, DeleteForm(f) PROVE Inv'
    <2>1. live' \subseteq Forms /\ \E ids : Delete(ids)
        BY <1>3 DEF DeleteForm, RestOK
    <2> QED BY <1>1, <2>1
<1>4. ASSUME NEW f \in Forms, RestoreForm(f) PROVE Inv'
    BY <1>4, DeviceStutters, HandlerStutters
    DEF RestoreForm, UNCHANGEDOutside, RestOK, submitVars, deleteVars
<1> QED BY <1>2, <1>3, <1>4

LEMMA NextInv == Inv /\ [Next]_vars => Inv'
<1> SUFFICES ASSUME Inv, [Next]_vars PROVE Inv'
    OBVIOUS
<1>0. Taken \subseteq Taken'
    BY TakenGrows
<1>1. ASSUME Tick \/ UNCHANGED vars PROVE Inv'
    BY <1>0, <1>1, DeviceStutters, HandlerStutters
    DEF Inv, Tick, vars, serverVars, submitVars, deleteVars, RestOK
<1> QED BY <1>0, <1>1, ClientStep, ServerStep, OwnerStep DEF Next

\* Type correctness of the client, the queue file and the sync_push handlers,
\* for every number of them and every history of losses and crashes.
THEOREM TypeCorrect == Spec => []TypeOK
<1>1. Inv => TypeOK
    BY InvImplies
<1> QED BY <1>1, InitInv, NextInv, PTL DEF Spec

\* A device never reports a submission delivered that the server has not taken:
\* for overlapping commands, repeated submissions, lost requests and answers,
\* handlers that outlive their client, and any deletes on the server.
THEOREM DeliveryReportsAreTrue == Spec => []SyncedIsOnServer
<1>1. Inv => SyncedIsOnServer
    BY InvImplies
<1> QED BY <1>1, InitInv, NextInv, PTL DEF Spec

\* An item is given up only when its attempts are exhausted, and is not left
\* waiting once they are.
THEOREM GivesUpWhenExhausted == Spec => []AbandonedMeansExhausted
<1>1. Inv => AbandonedMeansExhausted
    BY InvImplies
<1> QED BY <1>1, InitInv, NextInv, PTL DEF Spec

-----------------------------------------------------------------------------
(* What holds besides with one command at a time on the device.            *)

OneCommand == \A p, q \in Procs : p = q

\* What a running command holds follows from the file, which nobody else writes.
Copied(p) ==
    /\ pc[p] = "submitting" => \E id \in Ids : mem[p] = Enqueue(file, id)
    /\ pc[p] \in {"sending", "waiting"} =>
        /\ mem[p] = file
        /\ DOMAIN request[p] \subseteq Pending(file)
        /\ \A i \in DOMAIN request[p] : request[p][i] = file[i].id

\* A handler that still has a client works on the batch that client waits for,
\* and one that has none on a batch that was in the file.
Serves(h) ==
    /\ handler[h].client # NoProc =>
        /\ pc[handler[h].client] = "waiting"
        /\ handler[h].request = request[handler[h].client]
    /\ \A i \in DOMAIN handler[h].request : InFile(handler[h].request[i])

OneAnswer ==
    \A g, h \in Slots : handler[g].client = handler[h].client /\ handler[g].client # NoProc => g = h

Kept ==
    /\ Inv
    /\ \A p \in Procs : Copied(p)
    /\ \A h \in Slots : Serves(h)
    /\ OneAnswer
    /\ QueuedStaysQueued

-----------------------------------------------------------------------------
(* The queue operators, on the ids and positions of the items.             *)

LEMMA EnqueueItems ==
    ASSUME NEW queue \in Seq(QueueItem), NEW id \in Ids
    PROVE  /\ DOMAIN Enqueue(queue, id) = DOMAIN queue \cup {Len(queue) + 1}
           /\ Len(queue) + 1 \notin DOMAIN queue
           /\ \A i \in DOMAIN queue : Enqueue(queue, id)[i] = queue[i]
           /\ Enqueue(queue, id)[Len(queue) + 1] = NewItem(id)
           /\ Enqueue(queue, id)[Len(Enqueue(queue, id))] = NewItem(id)
           /\ NewItem(id).id = id
<1>1. NewItem(id) \in QueueItem /\ NewItem(id).id = id
    BY DEF NewItem, QueueItem, SyncStatus
<1>2. Enqueue(queue, id) = Append(queue, NewItem(id))
    BY DEF Enqueue
<1>3. /\ Len(Append(queue, NewItem(id))) = Len(queue) + 1
      /\ DOMAIN Append(queue, NewItem(id)) = 1 .. Len(queue) + 1
      /\ \A i \in 1 .. Len(queue) : Append(queue, NewItem(id))[i] = queue[i]
      /\ Append(queue, NewItem(id))[Len(queue) + 1] = NewItem(id)
      /\ DOMAIN queue = 1 .. Len(queue) /\ Len(queue) \in Nat
    BY <1>1
<1> QED BY <1>1, <1>2, <1>3

LEMMA ApplyIds ==
    ASSUME NEW queue \in Seq(QueueItem), NEW response, NEW now
    PROVE  /\ DOMAIN ApplyPushResponse(queue, response, now) = DOMAIN queue
           /\ \A i \in DOMAIN queue : ApplyPushResponse(queue, response, now)[i].id = queue[i].id
<1>1. ASSUME NEW item \in QueueItem, NEW errors, NEW delivered
      PROVE  Answered(item, errors, delivered, now).id = item.id
    BY DEF Answered, QueueItem
<1>2. \A i \in DOMAIN queue : queue[i] \in QueueItem
    OBVIOUS
<1> QED BY <1>1, <1>2 DEF ApplyPushResponse

\* The positions of a batch are those of items that are pending.
LEMMA BatchIsPending ==
    ASSUME NEW queue, NEW now, NEW batch, batch = BuildPushRequest(queue, now)
    PROVE  DOMAIN batch \subseteq Pending(queue) /\ \A i \in DOMAIN batch : batch[i] = queue[i].id
BY DEF BuildPushRequest, Due

-----------------------------------------------------------------------------
(* The only way a push changes the file.                                   *)

\* Truthful answers to items that were pending in the file.
Answers(response) ==
    /\ Response(response)
    /\ DOMAIN response \subseteq Pending(file)
    /\ \A k \in DOMAIN response :
        /\ response[k].id = file[k].id
        /\ response[k].status # "Error" => response[k].id \in Taken

ResponseOf(h) ==
    [i \in DOMAIN handler[h].request |->
        [id |-> handler[h].request[i], status |-> handler[h].results[i]]]

LEMMA AnswerReports ==
    ASSUME Kept, NEW h \in Slots, Answer(h), handler[h].client # NoProc
    PROVE  /\ Answers(ResponseOf(h)) /\ DOMAIN handler[h].results = DOMAIN ResponseOf(h)
           /\ file' = ApplyPushResponse(file, ResponseOf(h), clock)
<1> DEFINE p == handler[h].client
<1>1. Handler(handler[h]) /\ Truthful(handler[h], Taken) /\ Serves(h)
    BY DEF Kept, Inv, HandlerOK
<1>2. p \in Procs /\ pc[p] = "waiting" /\ handler[h].request = request[p] /\ Copied(p)
    BY <1>1 DEF Handler, Serves, Kept
<1>3. DOMAIN handler[h].results = DOMAIN handler[h].request
    BY <1>1 DEF Answer, Todo, Handler
<1>4. Response(ResponseOf(h))
    BY <1>1, <1>3 DEF Response, Handler, Request, ResponseOf
<1>5. Answers(ResponseOf(h))
    BY <1>1, <1>2, <1>3, <1>4 DEF Answers, ResponseOf, Truthful, Copied
<1>6. file' = ApplyPushResponse(file, ResponseOf(h), clock)
    BY <1>2 DEF Answer, ResponseOf, Copied
<1> QED BY <1>3, <1>5, <1>6 DEF ResponseOf

FailureOf(p) == [i \in DOMAIN request[p] |-> [id |-> request[p][i], status |-> "Error"]]

LEMMA FailureReports ==
    ASSUME Kept, NEW p \in Procs, PushFails(p)
    PROVE  Answers(FailureOf(p)) /\ file' = ApplyPushResponse(file, FailureOf(p), clock)
<1>1. Request(request[p]) /\ Copied(p) /\ mem[p] = file
    BY DEF Kept, Inv, DeviceOK, Copied, PushFails
<1>2. Response(FailureOf(p))
    BY <1>1 DEF Response, Request, FailureOf, PushItemStatus
<1>3. Answers(FailureOf(p))
    BY <1>1, <1>2 DEF Answers, FailureOf, Copied, PushFails
<1> QED BY <1>1, <1>3 DEF PushFails, MarkBatchFailed, FailureOf

\* The file grows by one item,
Queued(id) == file' = Enqueue(file, id) /\ queued' = queued \cup {id}

\* or takes the answers of a push, which ends.
Reported(p) ==
    /\ Exit(p)
    /\ pc[p] \in {"sending", "waiting"}
    /\ \E response :
        /\ Answers(response) /\ DOMAIN response = DOMAIN request[p]
        /\ file' = ApplyPushResponse(file, response, clock)
    /\ UNCHANGED <<onFile, removed, clock, submitVars, uploads, crashes>>

LEMMA SaveQueues ==
    ASSUME Kept, NEW p \in Procs, SubmitSave(p), NEW id \in Ids, mem[p] = Enqueue(file, id)
    PROVE  Queued(id)
<1>1. file \in Seq(QueueItem)
    BY DEF Kept, Inv, DeviceOK
<1>2. Enqueue(file, id)[Len(Enqueue(file, id))] = NewItem(id) /\ NewItem(id).id = id
    BY <1>1, EnqueueItems
<1>3. mem[p][Len(mem[p])].id = id
    BY <1>2
<1> QED BY <1>3 DEF SubmitSave, Queued

LEMMA FailureIsReported ==
    ASSUME Kept, NEW p \in Procs, PushFails(p)
    PROVE  Reported(p)
<1>1. DOMAIN FailureOf(p) = DOMAIN request[p]
    BY DEF FailureOf
<1>2. Answers(FailureOf(p)) /\ file' = ApplyPushResponse(file, FailureOf(p), clock)
    BY FailureReports
<1> HIDE DEF FailureOf
<1> QED BY <1>1, <1>2 DEF Reported, PushFails, deleteVars

LEMMA AnswerIsReported ==
    ASSUME Kept, NEW h \in Slots, Answer(h), handler[h].client # NoProc
    PROVE  handler[h].client \in Procs /\ Reported(handler[h].client)
<1> DEFINE p == handler[h].client
<1>1. /\ p \in Procs /\ pc[p] = "waiting"
      /\ DOMAIN ResponseOf(h) = DOMAIN request[p]
    BY DEF Kept, Inv, HandlerOK, Handler, Serves, ResponseOf
<1>2. Answers(ResponseOf(h)) /\ file' = ApplyPushResponse(file, ResponseOf(h), clock)
    BY AnswerReports
<1>3. Exit(p) /\ UNCHANGED <<onFile, removed, clock, submitVars, uploads, crashes>>
    BY DEF Answer, deleteVars
<1> HIDE DEF p, ResponseOf
<1>4. Reported(p)
    BY <1>1, <1>2, <1>3 DEF Reported
<1> QED BY <1>1, <1>4 DEF p

LEMMA FileSteps ==
    ASSUME Kept, [Next]_vars
    PROVE  \/ UNCHANGED <<file, queued>>
           \/ \E p \in Procs : SubmitSave(p) \/ Reported(p)
<1>1. CASE UNCHANGED vars
    BY <1>1 DEF vars, deviceVars, submitVars
<1>2. ASSUME NEW p \in Procs,
             \/ \E id \in Ids : SubmitLoad(p, id)
             \/ PushLoad(p) \/ Crash(p)
             \/ \E h \in Slots : Arrive(p, h)
      PROVE  UNCHANGED <<file, queued>>
    BY <1>2 DEF SubmitLoad, PushLoad, Arrive, Crash, submitVars
<1>3. ASSUME NEW p \in Procs, PushFails(p) PROVE Reported(p)
    BY <1>3, FailureIsReported
<1>4. ASSUME NEW h \in Slots, CheckForm(h) \/ Insert(h) \/ StorageError(h) \/ HandlerLost(h)
      PROVE  UNCHANGED <<file, queued>>
    BY <1>4 DEF CheckForm, Insert, StorageError, HandlerLost, UNCHANGEDOutside, deviceVars, submitVars
<1>5. ASSUME NEW h \in Slots, Answer(h)
      PROVE  UNCHANGED <<file, queued>> \/ \E p \in Procs : Reported(p)
    <2> DEFINE p == handler[h].client
    <2>1. CASE p = NoProc
        BY <1>5, <2>1 DEF Answer, deviceVars, submitVars
    <2>2. CASE p # NoProc
        <3>1. p \in Procs
            BY <2>2 DEF Kept, Inv, HandlerOK, Handler
        <3> QED BY <1>5, <2>2, <3>1, AnswerIsReported
    <2> QED BY <2>1, <2>2
<1>6. ASSUME \/ \E id \in Ids : DeleteSubmission(id)
             \/ \E f \in Forms : DeleteForm(f) \/ RestoreForm(f)
             \/ Tick
      PROVE  UNCHANGED <<file, queued>>
    BY <1>6 DEF DeleteSubmission, DeleteForm, RestoreForm, Delete, Tick, UNCHANGEDOutside,
                deviceVars, submitVars
<1> QED BY <1>1, <1>2, <1>3, <1>4, <1>5, <1>6 DEF Next

LEMMA QueuedItems ==
    ASSUME Kept, NEW id \in Ids, Queued(id)
    PROVE  /\ DOMAIN file' = DOMAIN file \cup {Len(file) + 1}
           /\ Len(file) + 1 \notin DOMAIN file
           /\ \A i \in DOMAIN file : file'[i] = file[i]
           /\ file'[Len(file) + 1] = NewItem(id) /\ NewItem(id).id = id
<1>1. file \in Seq(QueueItem) /\ file' = Enqueue(file, id)
    BY DEF Kept, Inv, DeviceOK, Queued
<1> QED BY <1>1, EnqueueItems, ZenonT(30)

LEMMA ReportedIds ==
    ASSUME Kept, NEW p \in Procs, Reported(p)
    PROVE  DOMAIN file' = DOMAIN file /\ \A i \in DOMAIN file : file'[i].id = file[i].id
<1>1. file \in Seq(QueueItem)
    BY DEF Kept, Inv, DeviceOK
<1>2. PICK response : file' = ApplyPushResponse(file, response, clock)
    BY DEF Reported
<1> QED BY <1>1, <1>2, ApplyIds

\* Whatever it does, an id that is in the file stays in it.
LEMMA IdsStay ==
    ASSUME Kept, [Next]_vars
    PROVE  QueuedStaysQueued' /\ \A id : InFile(id) => InFile(id)'
<1>1. CASE UNCHANGED <<file, queued>>
    BY <1>1 DEF Kept, QueuedStaysQueued, InFile
<1>2. ASSUME NEW p \in Procs, SubmitSave(p)
      PROVE  QueuedStaysQueued' /\ \A x : InFile(x) => InFile(x)'
    <2>1. PICK id \in Ids : mem[p] = Enqueue(file, id)
        BY <1>2 DEF Kept, Copied, SubmitSave
    <2>2. Queued(id)
        BY <1>2, <2>1, SaveQueues
    <2>3. InFile(id)' /\ \A x : InFile(x) => InFile(x)'
        BY <2>2, QueuedItems DEF InFile
    <2> QED BY <2>2, <2>3 DEF Queued, Kept, QueuedStaysQueued
<1>3. ASSUME NEW p \in Procs, Reported(p)
      PROVE  QueuedStaysQueued' /\ \A x : InFile(x) => InFile(x)'
    <2>1. \A x : InFile(x) => InFile(x)'
        BY <1>3, ReportedIds DEF InFile
    <2> QED BY <1>3, <2>1 DEF Kept, QueuedStaysQueued, Reported, submitVars
<1> QED BY <1>1, <1>2, <1>3, FileSteps

-----------------------------------------------------------------------------
(* One step keeps it.                                                      *)

\* Handlers keep their batch, while their client waits for it, or lose it.
LEMMA ServesKept ==
    ASSUME Kept, \A id : InFile(id) => InFile(id)',
           \A h \in Slots :
               /\ handler'[h].request \in {EmptyFunction, handler[h].request}
               /\ handler'[h].client # NoProc =>
                     /\ handler'[h].client = handler[h].client
                     /\ handler'[h].request = handler[h].request
                     /\ pc'[handler[h].client] = pc[handler[h].client]
                     /\ request'[handler[h].client] = request[handler[h].client]
    PROVE  (\A h \in Slots : Serves(h)') /\ OneAnswer'
<1>1. ASSUME NEW h \in Slots PROVE Serves(h)'
    <2>1. Serves(h)
        BY DEF Kept
    <2>2. \A i \in DOMAIN handler'[h].request :
              \E j \in DOMAIN file' : file'[j].id = handler'[h].request[i]
        BY <2>1, EmptyBatch, SMTT(30) DEF Serves, InFile
    <2>3. handler'[h].client # NoProc =>
              /\ pc'[handler'[h].client] = "waiting"
              /\ handler'[h].request = request'[handler'[h].client]
        BY <2>1 DEF Serves
    <2> QED BY <2>2, <2>3 DEF Serves, InFile
<1>2. OneAnswer'
    BY DEF Kept, OneAnswer
<1> QED BY <1>1, <1>2

\* No answer is under way to a command that does not wait for one.
LEMMA NobodyServed ==
    ASSUME OneCommand, Kept, NEW p \in Procs, pc[p] # "waiting", NEW h \in Slots
    PROVE  handler[h].client = NoProc
<1>1. handler[h].client \in Procs \cup {NoProc} /\ Serves(h)
    BY DEF Kept, Inv, HandlerOK, Handler
<1> QED BY <1>1 DEF OneCommand, Serves

LEMMA ExitedKept ==
    ASSUME OneCommand, Kept, NEW p \in Procs, Exit(p)
    PROVE  \A q \in Procs : Copied(q)'
<1>1. \A q \in Procs : pc'[q] = "idle"
    BY DEF Exit, OneCommand, Kept, Inv, DeviceOK
<1> QED BY <1>1 DEF Copied

LEMMA ClientKept ==
    ASSUME OneCommand, Kept, \A id : InFile(id) => InFile(id)', NEW p \in Procs,
           \/ \E id \in Ids : SubmitLoad(p, id)
           \/ SubmitSave(p) \/ PushLoad(p)
           \/ \E h \in Slots : Arrive(p, h)
           \/ PushFails(p) \/ Crash(p)
    PROVE  (\A q \in Procs : Copied(q)') /\ (\A h \in Slots : Serves(h)') /\ OneAnswer'
<1>0. /\ pc \in [Procs -> PcStates] /\ mem \in [Procs -> Seq(QueueItem)]
      /\ request = [q \in Procs |-> request[q]]
      /\ handler = [h \in Slots |-> handler[h]]
      /\ \A q \in Procs : q = p
    BY DEF Kept, Inv, DeviceOK, HandlerOK, OneCommand
<1>1. ASSUME pc[p] # "waiting", UNCHANGED handler
      PROVE  (\A h \in Slots : Serves(h)') /\ OneAnswer'
    <2>1. \A h \in Slots : handler[h].client = NoProc
        BY <1>1, NobodyServed
    <2> QED BY <1>1, <2>1, ServesKept
<1>2. ASSUME HangUp(p)
      PROVE  (\A h \in Slots : Serves(h)') /\ OneAnswer'
    <2>1. ASSUME NEW h \in Slots
          PROVE  handler'[h].request = handler[h].request /\ handler'[h].client = NoProc
        <3>1. Handler(handler[h])
            BY DEF Kept, Inv, HandlerOK
        <3>2. handler[h].client = p \/ handler[h].client = NoProc
            BY <1>0, <3>1 DEF Handler
        <3> QED BY <1>2, <3>1, <3>2 DEF HangUp, Handler
    <2> QED BY <2>1, ServesKept
<1>3. ASSUME NEW id \in Ids, SubmitLoad(p, id)
      PROVE  (\A q \in Procs : Copied(q)') /\ (\A h \in Slots : Serves(h)') /\ OneAnswer'
    <2>1. pc'[p] = "submitting" /\ mem'[p] = Enqueue(file, id) /\ file' = file
        BY <1>0, <1>3 DEF SubmitLoad
    <2>2. Copied(p)'
        BY <2>1 DEF Copied
    <2> QED BY <1>0, <1>1, <1>3, <2>2 DEF SubmitLoad, serverVars
<1>4. CASE SubmitSave(p)
    BY <1>1, <1>4, ExitedKept DEF SubmitSave, serverVars
<1>5. CASE PushLoad(p)
    <2> DEFINE batch == BuildPushRequest(file, clock)
    <2>1. pc'[p] = "sending" /\ mem'[p] = file /\ request'[p] = batch /\ file' = file
        BY <1>0, <1>5 DEF PushLoad
    <2>2. DOMAIN batch \subseteq Pending(file) /\ \A i \in DOMAIN batch : batch[i] = file[i].id
        BY BatchIsPending
    <2>3. Copied(p)'
        <3> HIDE DEF batch
        <3> QED BY <2>1, <2>2 DEF Copied
    <2> QED BY <1>0, <1>1, <1>5, <2>3 DEF PushLoad, serverVars
<1>6. ASSUME NEW h \in Slots, Arrive(p, h)
      PROVE  (\A q \in Procs : Copied(q)') /\ (\A g \in Slots : Serves(g)') /\ OneAnswer'
    <2>1. /\ pc[p] = "sending" /\ pc'[p] = "waiting"
          /\ UNCHANGED <<file, mem, request>>
        BY <1>0, <1>6 DEF Arrive
    <2>2. Copied(p) /\ Copied(p)'
        BY <2>1 DEF Kept, Copied
    <2>3. \A g \in Slots : handler[g].client = NoProc
        BY <2>1, NobodyServed
    <2>4. ASSUME NEW g \in Slots, g # h PROVE handler'[g] = handler[g]
        BY <1>0, <1>6, <2>4 DEF Arrive
    <2>5. handler'[h].client = p /\ handler'[h].request = request[p]
        BY <1>0, <1>6 DEF Arrive
    <2>6. \A i \in DOMAIN request[p] : i \in DOMAIN file /\ request[p][i] = file[i].id
        BY <2>1, <2>2 DEF Copied, Pending
    <2>7. ASSUME NEW g \in Slots PROVE Serves(g)'
        <3>1. Serves(g)
            BY DEF Kept
        <3>2. CASE g = h
            BY <2>1, <2>5, <2>6, <3>2 DEF Serves, InFile
        <3>3. CASE g # h
            BY <2>3, <2>4, <3>1, <3>3 DEF Serves
        <3> QED BY <3>2, <3>3
    <2>8. OneAnswer'
        BY <2>3, <2>4 DEF OneAnswer
    <2> QED BY <1>0, <2>2, <2>7, <2>8
<1>7. CASE PushFails(p)
    BY <1>2, <1>7, ExitedKept DEF PushFails
<1>8. CASE Crash(p)
    BY <1>2, <1>8, ExitedKept DEF Crash
<1> QED BY <1>3, <1>4, <1>5, <1>6, <1>7, <1>8

LEMMA ServerKept ==
    ASSUME OneCommand, Kept, \A id : InFile(id) => InFile(id)', NEW h \in Slots,
           CheckForm(h) \/ Insert(h) \/ StorageError(h) \/ Answer(h) \/ HandlerLost(h)
    PROVE  (\A q \in Procs : Copied(q)') /\ (\A g \in Slots : Serves(g)') /\ OneAnswer'
<1>0. /\ handler = [g \in Slots |-> handler[g]] /\ Handler(handler[h])
      /\ \A g \in Slots : handler[g].client \in Procs \cup {NoProc}
    BY DEF Kept, Inv, HandlerOK, Handler
<1>1. ASSUME UNCHANGED deviceVars PROVE \A q \in Procs : Copied(q)'
    BY <1>1 DEF Kept, Copied, deviceVars
<1>2. ASSUME NEW r, handler' = [handler EXCEPT ![h] = r],
             r.client = handler[h].client, r.request = handler[h].request,
             UNCHANGED deviceVars
      PROVE  (\A g \in Slots : Serves(g)') /\ OneAnswer'
    <2>1. ASSUME NEW g \in Slots
          PROVE  handler'[g].client = handler[g].client /\ handler'[g].request = handler[g].request
        BY <1>0, <1>2
    <2> QED BY <1>2, <2>1, ServesKept DEF deviceVars
<1>3. ASSUME NEW i \in Todo(h), NEW status, Result(h, i, status), UNCHANGED deviceVars
      PROVE  (\A g \in Slots : Serves(g)') /\ OneAnswer'
    <2> DEFINE results == [j \in DOMAIN handler[h].results \cup {i} |->
                              IF j = i THEN status ELSE handler[h].results[j]]
               r == [handler[h] EXCEPT !.step = "form", !.results = results]
    <2>1. handler' = [handler EXCEPT ![h] = r]
        BY <1>3, Zenon DEF Result
    <2>2. r = [step |-> "form", client |-> handler[h].client,
               request |-> handler[h].request, results |-> results]
        <3> HIDE DEF results
        <3> QED BY <1>0, AfterResult
    <2>3. r.client = handler[h].client /\ r.request = handler[h].request
        <3> HIDE DEF r, results
        <3> QED BY <2>2
    <2> HIDE DEF r
    <2> QED BY <1>2, <1>3, <2>1, <2>3
<1>4. CASE CheckForm(h)
    <2>1. UNCHANGED deviceVars
        BY <1>4 DEF CheckForm, UNCHANGEDOutside
    <2>2. PICK i \in Todo(h) :
              \/ handler' = [handler EXCEPT ![h].step = "insert"]
              \/ Result(h, i, "Error")
        BY <1>4 DEF CheckForm
    <2>3. ASSUME handler' = [handler EXCEPT ![h].step = "insert"]
          PROVE  (\A g \in Slots : Serves(g)') /\ OneAnswer'
        <3> DEFINE r == [handler[h] EXCEPT !.step = "insert"]
        <3>1. r.client = handler[h].client /\ r.request = handler[h].request
            BY <1>0 DEF Handler
        <3>2. handler' = [handler EXCEPT ![h] = r]
            BY <2>3
        <3> HIDE DEF r
        <3> QED BY <1>2, <2>1, <3>1, <3>2
    <2> QED BY <1>1, <1>3, <2>1, <2>2, <2>3
<1>5. CASE Insert(h)
    <2>1. UNCHANGED deviceVars
        BY <1>5 DEF Insert, UNCHANGEDOutside
    <2>2. \E i \in Todo(h), status \in PushItemStatus : Result(h, i, status)
        BY <1>5 DEF Insert, PushItemStatus
    <2> QED BY <1>1, <1>3, <2>1, <2>2
<1>6. CASE StorageError(h)
    <2>1. UNCHANGED deviceVars
        BY <1>6 DEF StorageError, UNCHANGEDOutside
    <2>2. \E i \in Todo(h) : Result(h, i, "Error")
        BY <1>6 DEF StorageError
    <2> QED BY <1>1, <1>3, <2>1, <2>2
<1>7. ASSUME handler' = [handler EXCEPT ![h] = Free],
             \A g \in Slots \ {h} : handler[g].client # NoProc =>
                 /\ pc'[handler[g].client] = pc[handler[g].client]
                 /\ request'[handler[g].client] = request[handler[g].client]
      PROVE  (\A g \in Slots : Serves(g)') /\ OneAnswer'
    <2>1. handler'[h].client = NoProc /\ handler'[h].request = EmptyFunction
        BY <1>0, <1>7 DEF Free
    <2>2. \A g \in Slots \ {h} : handler'[g] = handler[g]
        BY <1>0, <1>7
    <2> QED BY <1>7, <2>1, <2>2, ServesKept
<1>8. CASE Answer(h)
    <2> DEFINE p == handler[h].client
    <2>1. CASE p = NoProc
        BY <1>1, <1>7, <1>8, <2>1 DEF Answer, deviceVars
    <2>2. CASE p # NoProc
        <3>1. p \in Procs /\ Exit(p)
            BY <1>0, <1>8, <2>2 DEF Answer
        <3>2. \A g \in Slots \ {h} : handler[g].client = NoProc
            BY <1>0, <2>2, <3>1 DEF OneCommand, Kept, OneAnswer
        <3> QED BY <1>7, <1>8, <3>1, <3>2, ExitedKept DEF Answer
    <2> QED BY <2>1, <2>2
<1>9. CASE HandlerLost(h)
    BY <1>1, <1>7, <1>9 DEF HandlerLost, UNCHANGEDOutside, deviceVars
<1> QED BY <1>4, <1>5, <1>6, <1>8, <1>9

LEMMA InitKept == Init => Kept
<1> SUFFICES ASSUME Init PROVE Kept
    OBVIOUS
<1>1. /\ \A p \in Procs : Copied(p)
      /\ \A h \in Slots : Serves(h)
      /\ OneAnswer /\ QueuedStaysQueued
    BY EmptyBatch DEF Init, Copied, Serves, OneAnswer, QueuedStaysQueued, Free
<1> QED BY <1>1, InitInv DEF Kept

LEMMA NextKept == OneCommand /\ Kept /\ [Next]_vars => Kept'
<1> SUFFICES ASSUME OneCommand, Kept, [Next]_vars PROVE Kept'
    OBVIOUS
<1>1. Inv' /\ QueuedStaysQueued' /\ \A id : InFile(id) => InFile(id)'
    BY NextInv, IdsStay DEF Kept
<1>2. ASSUME UNCHANGED <<deviceVars, handler>>
      PROVE  (\A q \in Procs : Copied(q)') /\ (\A h \in Slots : Serves(h)') /\ OneAnswer'
    BY <1>1, <1>2, ServesKept DEF Kept, Copied, deviceVars
<1>3. ASSUME UNCHANGED vars \/ Tick \/ (\E id \in Ids : DeleteSubmission(id))
             \/ \E f \in Forms : DeleteForm(f) \/ RestoreForm(f)
      PROVE  UNCHANGED <<deviceVars, handler>>
    BY <1>3 DEF vars, serverVars, Tick, DeleteSubmission, DeleteForm, RestoreForm, Delete,
                UNCHANGEDOutside
<1>4. (\A q \in Procs : Copied(q)') /\ (\A h \in Slots : Serves(h)') /\ OneAnswer'
    BY <1>1, <1>2, <1>3, ClientKept, ServerKept DEF Next
<1> QED BY <1>1, <1>4 DEF Kept

\* With one command at a time no submission that was reported queued is ever
\* missing from the queue file, whatever is lost, killed or deleted.
THEOREM NothingQueuedIsLost == OneCommand => (Spec => []QueuedStaysQueued)
<1> SUFFICES ASSUME OneCommand PROVE Spec => []QueuedStaysQueued
    OBVIOUS
<1>1. Kept => QueuedStaysQueued
    BY DEF Kept
<1>2. Kept /\ [Next]_vars => Kept'
    BY NextKept
<1> QED BY <1>1, <1>2, InitKept, PTL DEF Spec

-----------------------------------------------------------------------------
(* Submissions that are queued once: an id names one item.                 *)

Distinct == \A i, j \in DOMAIN file : file[i].id = file[j].id => i = j

Fresh(id) == copies[id] # 0 /\ ~ InFile(id)

Once ==
    /\ Distinct
    /\ \A id \in Ids : InFile(id) => copies[id] # 0
    /\ \A p \in Procs : pc[p] = "submitting" =>
           \E id \in Ids : mem[p] = Enqueue(file, id) /\ Fresh(id)

LEMMA SaveOnce ==
    ASSUME Kept, Once, NEW p \in Procs, SubmitSave(p)
    PROVE  \E id \in Ids : Queued(id) /\ Fresh(id)
<1>1. PICK id \in Ids : mem[p] = Enqueue(file, id) /\ Fresh(id)
    BY DEF Once, SubmitSave
<1>2. Queued(id)
    BY <1>1, SaveQueues
<1> QED BY <1>1, <1>2

LEMMA CopiesGrow ==
    ASSUME Kept, [Next]_vars
    PROVE  \A id \in Ids : copies[id] # 0 => copies'[id] # 0
<1>1. copies \in [Ids -> Nat]
    BY DEF Kept, Inv, RestOK
<1>2. ASSUME NEW p \in Procs, NEW id \in Ids, SubmitLoad(p, id)
      PROVE  \A x \in Ids : copies[x] # 0 => copies'[x] # 0
    BY <1>1, <1>2 DEF SubmitLoad
<1>3. ASSUME NEW p \in Procs,
             \/ SubmitSave(p) \/ PushLoad(p) \/ PushFails(p) \/ Crash(p)
             \/ \E h \in Slots : Arrive(p, h)
      PROVE  UNCHANGED copies
    BY <1>3 DEF SubmitSave, PushLoad, Arrive, PushFails, Crash, submitVars
<1>4. ASSUME NEW h \in Slots,
             CheckForm(h) \/ Insert(h) \/ StorageError(h) \/ Answer(h) \/ HandlerLost(h)
      PROVE  UNCHANGED copies
    BY <1>4 DEF CheckForm, Insert, StorageError, Answer, HandlerLost, UNCHANGEDOutside, submitVars
<1>5. ASSUME \/ \E id \in Ids : DeleteSubmission(id)
             \/ \E f \in Forms : DeleteForm(f) \/ RestoreForm(f)
             \/ Tick \/ UNCHANGED vars
      PROVE  UNCHANGED copies
    BY <1>5 DEF DeleteSubmission, DeleteForm, RestoreForm, Delete, Tick, UNCHANGEDOutside,
                submitVars, vars
<1> QED BY <1>2, <1>3, <1>4, <1>5 DEF Next

\* A command that holds a new item has just loaded it, or nothing has happened
\* to it and to the file since.
LEMMA SubmittingSteps ==
    ASSUME OneCommand, Kept, [Next]_vars, NEW p \in Procs, pc'[p] = "submitting"
    PROVE  \/ \E id \in Ids : SubmitLoad(p, id)
           \/ pc[p] = "submitting" /\ mem'[p] = mem[p] /\ UNCHANGED file
<1>0. /\ pc \in [Procs -> PcStates] /\ mem \in [Procs -> Seq(QueueItem)]
      /\ \A q \in Procs : q = p
    BY DEF Kept, Inv, DeviceOK, OneCommand
<1>1. ASSUME NEW q \in Procs, Exit(q) PROVE FALSE
    BY <1>0, <1>1 DEF Exit
<1>2. ASSUME NEW q \in Procs, SubmitSave(q) \/ PushFails(q) \/ Crash(q) PROVE FALSE
    BY <1>1, <1>2 DEF SubmitSave, PushFails, Crash
<1>3. ASSUME NEW q \in Procs, PushLoad(q) \/ \E h \in Slots : Arrive(q, h) PROVE FALSE
    BY <1>0, <1>3 DEF PushLoad, Arrive
<1>4. ASSUME UNCHANGED deviceVars
      PROVE  pc[p] = "submitting" /\ mem'[p] = mem[p] /\ UNCHANGED file
    BY <1>4 DEF deviceVars
<1>5. ASSUME NEW h \in Slots, Answer(h) PROVE UNCHANGED deviceVars
    <2>1. handler[h].client \in Procs \cup {NoProc}
        BY DEF Kept, Inv, HandlerOK, Handler
    <2> QED BY <1>1, <1>5, <2>1 DEF Answer
<1>6. ASSUME NEW h \in Slots, CheckForm(h) \/ Insert(h) \/ StorageError(h) \/ HandlerLost(h)
      PROVE  UNCHANGED deviceVars
    BY <1>6 DEF CheckForm, Insert, StorageError, HandlerLost, UNCHANGEDOutside
<1>7. ASSUME \/ \E id \in Ids : DeleteSubmission(id)
             \/ \E f \in Forms : DeleteForm(f) \/ RestoreForm(f)
             \/ Tick \/ UNCHANGED vars
      PROVE  UNCHANGED deviceVars
    BY <1>7 DEF DeleteSubmission, DeleteForm, RestoreForm, Delete, Tick, UNCHANGEDOutside, vars
<1> QED BY <1>0, <1>2, <1>3, <1>4, <1>5, <1>6, <1>7 DEF Next

LEMMA InitOnce == Init => Once
BY DEF Init, Once, Distinct, InFile

LEMMA NextOnce ==
    ASSUME OneCommand, MaxCopies <= 1, Kept, Once, [Next]_vars
    PROVE  Once'
<1>1. ASSUME UNCHANGED file
      PROVE  Distinct' /\ \A id \in Ids : InFile(id)' => copies'[id] # 0
    BY <1>1, CopiesGrow DEF Once, Distinct, InFile
<1>2. ASSUME NEW p \in Procs, SubmitSave(p)
      PROVE  Distinct' /\ \A id \in Ids : InFile(id)' => copies'[id] # 0
    <2>1. PICK id \in Ids : Queued(id) /\ Fresh(id)
        BY <1>2, SaveOnce
    <2>2. /\ DOMAIN file' = DOMAIN file \cup {Len(file) + 1}
          /\ Len(file) + 1 \notin DOMAIN file
          /\ \A i \in DOMAIN file : file'[i] = file[i]
          /\ file'[Len(file) + 1].id = id
        BY <2>1, QueuedItems
    <2>3. Distinct'
        BY <2>1, <2>2 DEF Once, Distinct, Fresh, InFile
    <2>4. \A x \in Ids : InFile(x)' => InFile(x) \/ x = id
        BY <2>2 DEF InFile
    <2> QED BY <2>1, <2>3, <2>4, CopiesGrow DEF Once, Fresh
<1>3. ASSUME NEW p \in Procs, Reported(p)
      PROVE  Distinct' /\ \A id \in Ids : InFile(id)' => copies'[id] # 0
    <2>1. DOMAIN file' = DOMAIN file /\ \A i \in DOMAIN file : file'[i].id = file[i].id
        BY <1>3, ReportedIds
    <2> QED BY <2>1, CopiesGrow DEF Once, Distinct, InFile
<1>4. ASSUME NEW p \in Procs, pc'[p] = "submitting"
      PROVE  \E id \in Ids : mem'[p] = Enqueue(file', id) /\ Fresh(id)'
    <2>1. ASSUME NEW id \in Ids, SubmitLoad(p, id) PROVE mem'[p] = Enqueue(file', id) /\ Fresh(id)'
        <3>1. copies \in [Ids -> Nat] /\ mem \in [Procs -> Seq(QueueItem)]
            BY DEF Kept, Inv, DeviceOK, RestOK
        <3>2. /\ copies[id] < MaxCopies
              /\ copies' = [copies EXCEPT ![id] = @ + 1]
              /\ mem' = [mem EXCEPT ![p] = Enqueue(file, id)]
              /\ file' = file
            BY <2>1 DEF SubmitLoad
        <3>3. copies[id] = 0 /\ copies'[id] # 0
            BY <3>1, <3>2, PushAssumption
        <3> QED BY <3>1, <3>2, <3>3 DEF Once, Fresh, InFile
    <2>2. ASSUME pc[p] = "submitting", mem'[p] = mem[p], UNCHANGED file
          PROVE  \E id \in Ids : mem'[p] = Enqueue(file', id) /\ Fresh(id)'
        BY <2>2, CopiesGrow DEF Once, Fresh, InFile
    <2> QED BY <1>4, <2>1, <2>2, SubmittingSteps
<1>5. Distinct' /\ \A id \in Ids : InFile(id)' => copies'[id] # 0
    BY <1>1, <1>2, <1>3, FileSteps
<1> QED BY <1>4, <1>5 DEF Once

\* The answers of a push settle the items of its batch, one each, and no other.
LEMMA OneAnswerEach ==
    ASSUME Kept, Once, NEW response, Answers(response), NEW i \in DOMAIN file
    PROVE  AnswersTo(file, i, response) = IF i \in DOMAIN response THEN {i} ELSE {}
<1>1. Named(file, i)
    <2>1. DOMAIN file \subseteq Nat
        <3>1. file \in Seq(QueueItem)
            BY DEF Kept, Inv, DeviceOK
        <3> QED BY <3>1
    <2> QED BY <2>1 DEF Once, Distinct, Named
<1>2. ASSUME NEW k \in DOMAIN response PROVE response[k].id = file[i].id <=> k = i
    <2>1. k \in DOMAIN file /\ response[k].id = file[k].id
        BY DEF Answers, Pending
    <2> QED BY <2>1 DEF Once, Distinct
<1> QED BY <1>1, <1>2 DEF AnswersTo

LEMMA Settled ==
    ASSUME Kept, Once, NEW response, Answers(response),
           file' = ApplyPushResponse(file, response, clock), NEW i \in DOMAIN file
    PROVE  /\ i \notin DOMAIN response => file'[i] = file[i]
           /\ i \in DOMAIN response =>
                 /\ file'[i].id = file[i].id
                 /\ response[i].status # "Error" =>
                        file'[i].status = "Synced" /\ file'[i].retries = file[i].retries
                 /\ response[i].status = "Error" =>
                        /\ file'[i].retries = file[i].retries + 1
                        /\ file'[i].status = IF file[i].retries + 1 >= MaxRetries
                                             THEN "Abandoned" ELSE "Failed"
<1> DEFINE answers == AnswersTo(file, i, response)
           errors == {k \in answers : response[k].status = "Error"}
<1>1. file'[i] = IF answers = {} THEN file[i]
                 ELSE Answered(file[i], Cardinality(errors),
                               LastSaysDelivered(answers, response), clock)
    BY DEF ApplyPushResponse
<1>2. answers = IF i \in DOMAIN response THEN {i} ELSE {}
    BY OneAnswerEach
<1>3. file[i] \in QueueItem
    <2>1. file \in Seq(QueueItem)
        BY DEF Kept, Inv, DeviceOK
    <2> QED BY <2>1
<1> HIDE DEF answers
<1>4. CASE i \notin DOMAIN response
    BY <1>1, <1>2, <1>4
<1>5. CASE i \in DOMAIN response
    <2>1. ASSUME NEW n, NEW delivered
          PROVE  /\ Answered(file[i], n, delivered, clock).id = file[i].id
                 /\ Answered(file[i], n, delivered, clock).retries = file[i].retries + n
                 /\ Answered(file[i], n, delivered, clock).status =
                        IF delivered THEN "Synced"
                        ELSE IF file[i].retries + n >= MaxRetries THEN "Abandoned" ELSE "Failed"
        BY <1>3 DEF Answered, QueueItem
    <2>2. answers = {i} /\ i \in Nat
        <3>1. DOMAIN response \subseteq Nat
            BY DEF Answers, Response
        <3> QED BY <1>2, <1>5, <3>1
    <2>3. LastSaysDelivered(answers, response) <=> response[i].status # "Error"
        BY <2>2 DEF LastSaysDelivered
    <2>4. Cardinality(errors) = IF response[i].status = "Error" THEN 1 ELSE 0
        <3>1. response[i].status = "Error" => errors = {i}
            BY <2>2
        <3>2. response[i].status # "Error" => errors = {}
            BY <2>2
        <3>3. Cardinality({i}) = 1 /\ Cardinality({}) = 0
            BY FS_Singleton, FS_EmptySet
        <3> HIDE DEF errors
        <3> QED BY <3>1, <3>2, <3>3
    <2>5. file[i].retries \in Nat
        BY <1>3 DEF QueueItem
    <2> HIDE DEF errors
    <2>6. CASE response[i].status = "Error"
        BY <1>1, <1>5, <2>1, <2>2, <2>3, <2>4, <2>6
    <2>7. CASE response[i].status # "Error"
        BY <1>1, <1>5, <2>1, <2>2, <2>3, <2>4, <2>5, <2>7
    <2> QED BY <2>6, <2>7
<1> QED BY <1>4, <1>5

\* A report is final and no counted attempt is taken back.
THEOREM NoReportIsRevised == OneCommand /\ MaxCopies <= 1 => (Spec => ReportsAreFinal)
<1> SUFFICES ASSUME OneCommand, MaxCopies <= 1 PROVE Spec => ReportsAreFinal
    OBVIOUS
<1> DEFINE Final == \A i \in DOMAIN file :
               /\ i \in DOMAIN file' /\ file'[i].id = file[i].id
               /\ file[i].status \in {"Synced", "Abandoned"} => file'[i] = file[i]
               /\ file'[i].retries >= file[i].retries
<1>1. Kept /\ Once /\ [Next]_vars => Final
    <2> SUFFICES ASSUME Kept, Once, [Next]_vars PROVE Final
        OBVIOUS
    <2>0. \A i \in DOMAIN file : file[i].retries \in Nat
        <3>1. file \in Seq(QueueItem)
            BY DEF Kept, Inv, DeviceOK
        <3>2. \A i \in DOMAIN file : file[i] \in QueueItem
            BY <3>1
        <3> QED BY <3>2 DEF QueueItem
    <2>1. CASE UNCHANGED file
        BY <2>0, <2>1
    <2>2. ASSUME NEW p \in Procs, SubmitSave(p) PROVE Final
        <3>1. PICK id \in Ids : Queued(id)
            BY <2>2, SaveOnce
        <3> QED BY <2>0, <3>1, QueuedItems
    <2>3. ASSUME NEW p \in Procs, Reported(p) PROVE Final
        <3>1. PICK response : Answers(response) /\ file' = ApplyPushResponse(file, response, clock)
            BY <2>3 DEF Reported
        <3>2. DOMAIN file' = DOMAIN file
            BY <2>3, ReportedIds
        <3>3. ASSUME NEW i \in DOMAIN file
              PROVE  /\ file'[i].id = file[i].id
                     /\ file[i].status \in {"Synced", "Abandoned"} => file'[i] = file[i]
                     /\ file'[i].retries >= file[i].retries
            <4>1. CASE i \notin DOMAIN response
                BY <2>0, <3>1, <4>1, Settled
            <4>2. CASE i \in DOMAIN response
                <5>1. file[i].status \in {"Pending", "Failed"}
                    BY <3>1, <4>2 DEF Answers, Pending
                <5> QED BY <2>0, <3>1, <4>2, <5>1, Settled
            <4> QED BY <4>1, <4>2
        <3> QED BY <3>2, <3>3
    <2> QED BY <2>1, <2>2, <2>3, FileSteps
<1>2. Kept /\ [Next]_vars => Kept'
    BY NextKept
<1>3. Kept /\ Once /\ [Next]_vars => Once'
    BY NextOnce
<1> HIDE DEF Final
<1>4. Spec => [][Final]_vars
    BY <1>1, <1>2, <1>3, InitKept, InitOnce, PTL DEF Spec
<1> QED BY <1>4 DEF ReportsAreFinal, Final

-----------------------------------------------------------------------------
(* What a push does with its answer, whichever commands overlap and however *)
(* often a submission was queued.                                          *)

\* A push asks about items of the queue it has loaded.
Asks(p) ==
    pc[p] \in {"sending", "waiting"} =>
        \A i \in DOMAIN request[p] : i \in DOMAIN mem[p] /\ request[p][i] = mem[p][i].id

\* A handler that still has a client works on the batch that client waits for.
WorksFor(h) ==
    handler[h].client # NoProc =>
        /\ pc[handler[h].client] = "waiting"
        /\ handler[h].request = request[handler[h].client]

Asked ==
    /\ Inv
    /\ \A p \in Procs : Asks(p)
    /\ \A h \in Slots : WorksFor(h)
    /\ OneAnswer

\* Every handler keeps its client, which goes on waiting, or loses it.
LEMMA ClientsStay ==
    ASSUME Asked,
           \A h \in Slots : handler'[h].client # NoProc =>
               /\ handler'[h].client = handler[h].client
               /\ handler'[h].request = handler[h].request
               /\ pc'[handler[h].client] = pc[handler[h].client]
               /\ request'[handler[h].client] = request[handler[h].client]
    PROVE  (\A h \in Slots : WorksFor(h)') /\ OneAnswer'
<1>1. ASSUME NEW h \in Slots PROVE WorksFor(h)'
    BY DEF Asked, WorksFor
<1>2. OneAnswer'
    BY DEF Asked, OneAnswer
<1> QED BY <1>1, <1>2

LEMMA ClientAsked ==
    ASSUME Asked, NEW p \in Procs,
           \/ \E id \in Ids : SubmitLoad(p, id)
           \/ SubmitSave(p) \/ PushLoad(p)
           \/ \E h \in Slots : Arrive(p, h)
           \/ PushFails(p) \/ Crash(p)
    PROVE  (\A q \in Procs : Asks(q)') /\ (\A h \in Slots : WorksFor(h)') /\ OneAnswer'
<1>0. /\ pc \in [Procs -> PcStates] /\ mem \in [Procs -> Seq(QueueItem)]
      /\ request = [q \in Procs |-> request[q]]
      /\ handler = [h \in Slots |-> handler[h]]
      /\ \A h \in Slots : Handler(handler[h]) /\ WorksFor(h)
    BY DEF Asked, Inv, DeviceOK, HandlerOK
\* The other commands stand where they stood.
<1>1. ASSUME \A q \in Procs \ {p} : /\ pc'[q] = pc[q] /\ mem'[q] = mem[q]
                                    /\ request'[q] = request[q],
             Asks(p)'
      PROVE  \A q \in Procs : Asks(q)'
    BY <1>1 DEF Asked, Asks
<1>2. ASSUME Exit(p)
      PROVE  /\ \A q \in Procs \ {p} : /\ pc'[q] = pc[q] /\ mem'[q] = mem[q]
                                       /\ request'[q] = request[q]
             /\ \A q \in Procs : Asks(q)'
    <2>1. pc'[p] = "idle"
        BY <1>0, <1>2 DEF Exit
    <2>2. \A q \in Procs \ {p} : /\ pc'[q] = pc[q] /\ mem'[q] = mem[q]
                                 /\ request'[q] = request[q]
        BY <1>0, <1>2 DEF Exit
    <2> QED BY <1>1, <2>1, <2>2 DEF Asks
<1>3. ASSUME pc[p] # "waiting", UNCHANGED handler,
             \A q \in Procs \ {p} : pc'[q] = pc[q] /\ request'[q] = request[q]
      PROVE  (\A h \in Slots : WorksFor(h)') /\ OneAnswer'
    <2>1. \A h \in Slots : handler[h].client # NoProc => handler[h].client \in Procs \ {p}
        BY <1>0, <1>3 DEF WorksFor, Handler
    <2> QED BY <1>3, <2>1, ClientsStay
<1>4. ASSUME HangUp(p), Exit(p)
      PROVE  (\A h \in Slots : WorksFor(h)') /\ OneAnswer'
    <2>1. ASSUME NEW h \in Slots, handler'[h].client # NoProc
          PROVE  handler'[h] = handler[h] /\ handler[h].client \in Procs \ {p}
        BY <1>0, <1>4, <2>1 DEF HangUp, Handler
    <2> QED BY <1>2, <1>4, <2>1, ClientsStay
<1>5. ASSUME NEW id \in Ids, SubmitLoad(p, id)
      PROVE  (\A q \in Procs : Asks(q)') /\ (\A h \in Slots : WorksFor(h)') /\ OneAnswer'
    <2>1. /\ pc[p] = "idle" /\ pc'[p] = "submitting" /\ UNCHANGED <<handler, request>>
          /\ \A q \in Procs \ {p} : pc'[q] = pc[q] /\ mem'[q] = mem[q]
        BY <1>0, <1>5 DEF SubmitLoad, serverVars
    <2>2. Asks(p)'
        BY <2>1 DEF Asks
    <2> QED BY <1>1, <1>3, <2>1, <2>2
<1>6. CASE SubmitSave(p)
    BY <1>2, <1>3, <1>6 DEF SubmitSave, serverVars
<1>7. CASE PushLoad(p)
    <2> DEFINE batch == BuildPushRequest(file, clock)
    <2>1. /\ pc[p] = "idle" /\ mem'[p] = file /\ request'[p] = batch /\ UNCHANGED handler
          /\ \A q \in Procs \ {p} : /\ pc'[q] = pc[q] /\ mem'[q] = mem[q]
                                    /\ request'[q] = request[q]
        BY <1>0, <1>7 DEF PushLoad, serverVars
    <2>2. \A i \in DOMAIN batch : i \in DOMAIN file /\ batch[i] = file[i].id
        BY BatchIsPending DEF Pending
    <2> HIDE DEF batch
    <2>3. Asks(p)'
        BY <2>1, <2>2 DEF Asks
    <2> QED BY <1>1, <1>3, <2>1, <2>3
<1>8. ASSUME NEW h \in Slots, Arrive(p, h)
      PROVE  (\A q \in Procs : Asks(q)') /\ (\A g \in Slots : WorksFor(g)') /\ OneAnswer'
    <2>1. /\ pc[p] = "sending" /\ pc'[p] = "waiting" /\ UNCHANGED <<mem, request>>
          /\ \A q \in Procs \ {p} : pc'[q] = pc[q]
          /\ handler'[h].client = p /\ handler'[h].request = request[p]
          /\ \A g \in Slots \ {h} : handler'[g] = handler[g]
        BY <1>0, <1>8 DEF Arrive
    <2>2. Asks(p)'
        BY <2>1 DEF Asked, Asks
    <2>3. ASSUME NEW g \in Slots \ {h}, handler[g].client # NoProc
          PROVE  handler[g].client \in Procs \ {p}
        BY <1>0, <2>1, <2>3 DEF WorksFor, Handler
    <2>4. ASSUME NEW g \in Slots PROVE WorksFor(g)'
        <3>1. CASE g = h
            BY <2>1, <3>1 DEF WorksFor
        <3>2. CASE g # h
            BY <1>0, <2>1, <2>3, <3>2 DEF WorksFor
        <3> QED BY <3>1, <3>2
    <2>5. OneAnswer'
        BY <2>1, <2>3 DEF Asked, OneAnswer
    <2> QED BY <1>1, <2>1, <2>2, <2>4, <2>5
<1>9. CASE PushFails(p)
    BY <1>2, <1>4, <1>9 DEF PushFails
<1>10. CASE Crash(p)
    BY <1>2, <1>4, <1>10 DEF Crash
<1> QED BY <1>5, <1>6, <1>7, <1>8, <1>9, <1>10

\* A handler that files or refuses an item, or stops.
LEMMA ServerAsked ==
    ASSUME Asked, NEW h \in Slots,
           CheckForm(h) \/ Insert(h) \/ StorageError(h) \/ Answer(h) \/ HandlerLost(h)
    PROVE  (\A q \in Procs : Asks(q)') /\ (\A g \in Slots : WorksFor(g)') /\ OneAnswer'
<1>0. /\ pc \in [Procs -> PcStates] /\ mem \in [Procs -> Seq(QueueItem)]
      /\ request = [q \in Procs |-> request[q]]
      /\ handler = [g \in Slots |-> handler[g]]
      /\ \A g \in Slots : Handler(handler[g])
    BY DEF Asked, Inv, DeviceOK, HandlerOK
<1>1. ASSUME UNCHANGED deviceVars PROVE \A q \in Procs : Asks(q)'
    BY <1>1 DEF Asked, Asks, deviceVars
<1>2. ASSUME UNCHANGED deviceVars, \A g \in Slots \ {h} : handler'[g] = handler[g],
             handler'[h].client \in {NoProc, handler[h].client},
             handler'[h].client # NoProc => handler'[h].request = handler[h].request
      PROVE  (\A g \in Slots : WorksFor(g)') /\ OneAnswer'
    BY <1>2, ClientsStay DEF deviceVars
<1>3. ASSUME NEW i \in Todo(h), NEW status, Result(h, i, status)
      PROVE  /\ \A g \in Slots \ {h} : handler'[g] = handler[g]
             /\ handler'[h].client = handler[h].client
             /\ handler'[h].request = handler[h].request
    <2> DEFINE results == [j \in DOMAIN handler[h].results \cup {i} |->
                              IF j = i THEN status ELSE handler[h].results[j]]
               r == [handler[h] EXCEPT !.step = "form", !.results = results]
    <2>1. handler' = [handler EXCEPT ![h] = r]
        BY <1>3, Zenon DEF Result
    <2>2. r = [step |-> "form", client |-> handler[h].client,
               request |-> handler[h].request, results |-> results]
        <3> HIDE DEF results
        <3> QED BY <1>0, AfterResult
    <2>3. r.client = handler[h].client /\ r.request = handler[h].request
        <3> HIDE DEF r, results
        <3> QED BY <2>2
    <2> HIDE DEF r
    <2> QED BY <1>0, <2>1, <2>3
<1>4. CASE CheckForm(h)
    <2>1. UNCHANGED deviceVars
        BY <1>4 DEF CheckForm, UNCHANGEDOutside
    <2>2. PICK i \in Todo(h) :
              \/ handler' = [handler EXCEPT ![h].step = "insert"]
              \/ Result(h, i, "Error")
        BY <1>4 DEF CheckForm
    <2>3. ASSUME handler' = [handler EXCEPT ![h].step = "insert"]
          PROVE  /\ \A g \in Slots \ {h} : handler'[g] = handler[g]
                 /\ handler'[h].client = handler[h].client
                 /\ handler'[h].request = handler[h].request
        BY <1>0, <2>3 DEF Handler
    <2> QED BY <1>1, <1>2, <1>3, <2>1, <2>2, <2>3
<1>5. CASE Insert(h) \/ StorageError(h)
    <2>1. UNCHANGED deviceVars
        BY <1>5 DEF Insert, StorageError, UNCHANGEDOutside
    <2>2. \E i \in Todo(h), status \in PushItemStatus : Result(h, i, status)
        BY <1>5 DEF Insert, StorageError, PushItemStatus
    <2> QED BY <1>1, <1>2, <1>3, <2>1, <2>2
<1>6. ASSUME handler' = [handler EXCEPT ![h] = Free]
      PROVE  handler'[h].client = NoProc /\ \A g \in Slots \ {h} : handler'[g] = handler[g]
    BY <1>0, <1>6 DEF Free
<1>7. CASE HandlerLost(h)
    BY <1>1, <1>2, <1>6, <1>7 DEF HandlerLost, UNCHANGEDOutside
<1>8. CASE Answer(h)
    <2> DEFINE p == handler[h].client
    <2>1. CASE p = NoProc
        BY <1>1, <1>2, <1>6, <1>8, <2>1 DEF Answer
    <2>2. CASE p # NoProc
        <3>1. p \in Procs /\ Exit(p) /\ handler' = [handler EXCEPT ![h] = Free]
            BY <1>0, <1>8, <2>2 DEF Answer, Handler
        <3>2. /\ pc'[p] = "idle"
              /\ \A q \in Procs \ {p} : /\ pc'[q] = pc[q] /\ mem'[q] = mem[q]
                                        /\ request'[q] = request[q]
            BY <1>0, <3>1 DEF Exit
        <3>3. ASSUME NEW q \in Procs PROVE Asks(q)'
            BY <3>2 DEF Asked, Asks
        <3>4. ASSUME NEW g \in Slots \ {h}, handler[g].client # NoProc
              PROVE  handler[g].client \in Procs \ {p}
            BY <1>0, <2>2, <3>4 DEF Asked, OneAnswer, Handler
        <3>5. (\A g \in Slots : WorksFor(g)') /\ OneAnswer'
            BY <1>6, <3>1, <3>2, <3>4, ClientsStay
        <3> QED BY <3>3, <3>5
    <2> QED BY <2>1, <2>2
<1> QED BY <1>4, <1>5, <1>7, <1>8

LEMMA InitAsked == Init => Asked
<1> SUFFICES ASSUME Init PROVE Asked
    OBVIOUS
<1>1. (\A p \in Procs : Asks(p)) /\ (\A h \in Slots : WorksFor(h)) /\ OneAnswer
    BY DEF Init, Asks, WorksFor, OneAnswer, Free
<1> QED BY <1>1, InitInv DEF Asked

LEMMA NextAsked == Asked /\ [Next]_vars => Asked'
<1> SUFFICES ASSUME Asked, [Next]_vars PROVE Asked'
    OBVIOUS
<1>1. Inv'
    BY NextInv DEF Asked
<1>2. ASSUME UNCHANGED <<deviceVars, handler>>
      PROVE  (\A q \in Procs : Asks(q)') /\ (\A h \in Slots : WorksFor(h)') /\ OneAnswer'
    BY <1>2, ClientsStay DEF Asked, Asks, deviceVars
<1>3. ASSUME UNCHANGED vars \/ Tick \/ (\E id \in Ids : DeleteSubmission(id))
             \/ \E f \in Forms : DeleteForm(f) \/ RestoreForm(f)
      PROVE  UNCHANGED <<deviceVars, handler>>
    BY <1>3 DEF vars, serverVars, Tick, DeleteSubmission, DeleteForm, RestoreForm, Delete,
                UNCHANGEDOutside
<1>4. (\A q \in Procs : Asks(q)') /\ (\A h \in Slots : WorksFor(h)') /\ OneAnswer'
    BY <1>2, <1>3, ClientAsked, ServerAsked DEF Next
<1> QED BY <1>1, <1>4 DEF Asked

\* The item a delivered answer names is synced when the answer is applied.
LEMMA NamedIsSynced ==
    ASSUME NEW queue \in Seq(QueueItem), NEW response, NEW now, DOMAIN response \subseteq Nat,
           NEW i \in DOMAIN response, response[i].status # "Error",
           \A j \in DOMAIN response :
               j > i /\ response[j].id = response[i].id => response[j].status # "Error",
           NEW k \in DOMAIN queue, queue[k].id = response[i].id, Named(queue, k)
    PROVE  ApplyPushResponse(queue, response, now)[k].status = "Synced"
<1> DEFINE answers == AnswersTo(queue, k, response)
           errors == {j \in answers : response[j].status = "Error"}
<1>1. i \in answers /\ \A j \in answers : j \in DOMAIN response /\ response[j].id = response[i].id
    BY DEF AnswersTo
<1>2. LastSaysDelivered(answers, response)
    <2>1. ASSUME NEW j \in answers, response[j].status = "Error" PROVE i > j
        BY <1>1, <2>1
    <2> QED BY <1>1, <2>1 DEF LastSaysDelivered
<1>3. ApplyPushResponse(queue, response, now)[k] =
          Answered(queue[k], Cardinality(errors), LastSaysDelivered(answers, response), now)
    BY <1>1 DEF ApplyPushResponse
<1>4. queue[k] \in QueueItem
    OBVIOUS
<1> HIDE DEF answers, errors
<1> QED BY <1>2, <1>3, <1>4 DEF Answered, QueueItem

\* When a push gets its answer, the item that a delivered id names is synced in
\* the file: for overlapping commands, and submissions queued any number of times.
THEOREM DeliveredIsSynced == Spec => DeliveredItemsAreSynced
<1> DEFINE Delivers ==
        \A h \in Slots : Answer(h) /\ handler[h].client # NoProc =>
            \A i \in DOMAIN handler[h].results : Confirmed(h, i) =>
                /\ \E k \in DOMAIN file' : file'[k].id = handler[h].request[i]
                /\ \A k \in DOMAIN file' :
                       file'[k].id = handler[h].request[i] /\ Named(file', k)
                           => file'[k].status = "Synced"
<1>1. Asked => Delivers
    <2> SUFFICES ASSUME Asked, NEW h \in Slots, Answer(h), handler[h].client # NoProc,
                        NEW i \in DOMAIN handler[h].results, Confirmed(h, i)
                 PROVE  /\ \E k \in DOMAIN file' : file'[k].id = handler[h].request[i]
                        /\ \A k \in DOMAIN file' :
                               file'[k].id = handler[h].request[i] /\ Named(file', k)
                                   => file'[k].status = "Synced"
        OBVIOUS
    <2> DEFINE p == handler[h].client
               response == ResponseOf(h)
    <2>1. Handler(handler[h]) /\ p \in Procs /\ mem[p] \in Seq(QueueItem)
        BY DEF Asked, Inv, HandlerOK, DeviceOK, Handler
    <2>2. DOMAIN handler[h].results = DOMAIN handler[h].request
        BY <2>1 DEF Answer, Todo, Handler
    <2>3. /\ DOMAIN response = DOMAIN handler[h].request /\ DOMAIN response \subseteq Nat
          /\ i \in DOMAIN response
          /\ \A j \in DOMAIN response : /\ response[j].id = handler[h].request[j]
                                        /\ response[j].status = handler[h].results[j]
        BY <2>1, <2>2 DEF ResponseOf, Handler, Request
    <2>4. file' = ApplyPushResponse(mem[p], response, clock)
        BY DEF Answer, ResponseOf
    <2>5. i \in DOMAIN mem[p] /\ mem[p][i].id = handler[h].request[i]
        BY <2>1, <2>3 DEF Asked, WorksFor, Asks
    <2> HIDE DEF p, response
    <2>6. response[i].status # "Error" /\ \A j \in DOMAIN response :
              j > i /\ response[j].id = response[i].id => response[j].status # "Error"
        BY <2>2, <2>3 DEF Confirmed
    <2>7. DOMAIN file' = DOMAIN mem[p] /\ \A j \in DOMAIN mem[p] : file'[j].id = mem[p][j].id
        BY <2>1, <2>4, ApplyIds
    <2>8. ASSUME NEW k \in DOMAIN file', file'[k].id = handler[h].request[i], Named(file', k)
          PROVE  file'[k].status = "Synced"
        <3>1. k \in DOMAIN mem[p] /\ mem[p][k].id = response[i].id /\ Named(mem[p], k)
            BY <2>3, <2>7, <2>8 DEF Named
        <3> QED BY <2>1, <2>3, <2>4, <2>6, <3>1, NamedIsSynced
    <2> QED BY <2>5, <2>7, <2>8
<1>2. Asked /\ [Next]_vars => Asked'
    BY NextAsked
<1> HIDE DEF Delivers
<1>3. Spec => [][Delivers]_vars
    BY <1>1, <1>2, InitAsked, PTL DEF Spec
<1> QED BY <1>3 DEF DeliveredItemsAreSynced, Delivers

-----------------------------------------------------------------------------
(* How often a submission goes out: once for every counted attempt, once   *)
(* for every killed command and once for the push that is under way.       *)

InFlight(i) == \E p \in Procs : pc[p] \in {"sending", "waiting"} /\ i \in DOMAIN request[p]

Allowed(i) ==
    (IF i \in Pending(file) THEN file[i].retries ELSE MaxRetries)
    + crashes + (IF InFlight(i) THEN 1 ELSE 0)

Counted ==
    /\ \A id \in Ids : ~ InFile(id) => uploads[id] = 0
    /\ \A i \in DOMAIN file : uploads[file[i].id] <= Allowed(i)

LEMMA ItemTypes ==
    ASSUME Kept
    PROVE  /\ \A i \in DOMAIN file : file[i].id \in Ids /\ file[i].retries \in Nat /\ i \in Nat
           /\ crashes \in Nat /\ uploads \in [Ids -> Nat] /\ MaxRetries \in Nat
           /\ \A i \in Pending(file) : i \in DOMAIN file
           /\ MaxRetries # 0 => \A i \in Pending(file) : file[i].retries + 1 <= MaxRetries
<1>1. file \in Seq(QueueItem) /\ Sound(file, Taken) /\ crashes \in Nat /\ uploads \in [Ids -> Nat]
    BY DEF Kept, Inv, DeviceOK, RestOK
<1>2. \A i \in DOMAIN file : file[i] \in QueueItem /\ i \in Nat
    BY <1>1
<1>3. \A i \in DOMAIN file : file[i].id \in Ids /\ file[i].retries \in Nat
    BY <1>2 DEF QueueItem
<1>4. \A i \in Pending(file) : i \in DOMAIN file
    BY DEF Pending
<1>5. MaxRetries # 0 => \A i \in Pending(file) : file[i].retries + 1 <= MaxRetries
    BY <1>1, <1>3, QueueAssumption DEF Pending, Sound, Consistent
<1> QED BY <1>1, <1>2, <1>3, <1>4, <1>5, QueueAssumption

LEMMA CountedBound ==
    ASSUME MaxRetries # 0, Kept, Counted
    PROVE  UploadsBounded
<1> SUFFICES ASSUME NEW id \in Ids PROVE uploads[id] <= MaxRetries + crashes
    BY DEF UploadsBounded
<1>1. CASE ~ InFile(id)
    BY <1>1, ItemTypes DEF Counted
<1>2. CASE InFile(id)
    <2>1. PICK i \in DOMAIN file : file[i].id = id
        BY <1>2 DEF InFile
    <2>2. uploads[id] <= Allowed(i)
        BY <2>1 DEF Counted
    <2>3. InFlight(i) => i \in Pending(file)
        BY DEF InFlight, Kept, Copied
    <2>4. Allowed(i) <= MaxRetries + crashes
        <3>1. CASE i \in Pending(file)
            BY <3>1, ItemTypes DEF Allowed
        <3>2. CASE i \notin Pending(file)
            BY <2>3, <3>2, ItemTypes DEF Allowed
        <3> QED BY <3>1, <3>2
    <2>5. Allowed(i) \in Int /\ uploads[id] \in Int
        BY <2>1, ItemTypes DEF Allowed
    <2> QED BY <2>2, <2>4, <2>5, ItemTypes
<1> QED BY <1>1, <1>2

\* Nothing happens to the file or to what is under way.
LEMMA CountedQuiet ==
    ASSUME Kept, Counted, UNCHANGED <<file, uploads>>, crashes' \in Nat, crashes' >= crashes,
           \A i : InFlight(i) /\ crashes' = crashes => InFlight(i)',
           crashes' # crashes => crashes' = crashes + 1
    PROVE  Counted'
<1>1. \A id \in Ids : ~ InFile(id)' => uploads'[id] = 0
    BY DEF Counted, InFile
<1>2. ASSUME NEW i \in DOMAIN file PROVE uploads[file[i].id] <= Allowed(i)'
    <2>1. uploads[file[i].id] <= Allowed(i) /\ uploads[file[i].id] \in Nat
        BY ItemTypes DEF Counted
    <2>2. Allowed(i)' = (IF i \in Pending(file) THEN file[i].retries ELSE MaxRetries)
                        + crashes' + (IF InFlight(i)' THEN 1 ELSE 0)
        BY DEF Allowed
    <2>3. file[i].retries \in Nat /\ crashes \in Nat /\ MaxRetries \in Nat
        BY ItemTypes
    <2>4. CASE crashes' = crashes
        BY <2>1, <2>2, <2>3, <2>4 DEF Allowed
    <2>5. CASE crashes' = crashes + 1
        BY <2>1, <2>2, <2>3, <2>5 DEF Allowed
    <2> QED BY <2>4, <2>5
<1> QED BY <1>1, <1>2 DEF Counted

LEMMA CountedSave ==
    ASSUME OneCommand, Kept, Once, Counted, NEW p \in Procs, SubmitSave(p)
    PROVE  Counted'
<1>1. PICK id \in Ids : Queued(id) /\ Fresh(id)
    BY SaveOnce
<1>2. /\ DOMAIN file' = DOMAIN file \cup {Len(file) + 1}
      /\ Len(file) + 1 \notin DOMAIN file
      /\ \A i \in DOMAIN file : file'[i] = file[i]
      /\ file'[Len(file) + 1] = NewItem(id) /\ NewItem(id).id = id
    BY <1>1, QueuedItems
<1>3. UNCHANGED <<uploads, crashes>>
    BY DEF SubmitSave
<1>4. \A i : ~ InFlight(i)
    BY DEF OneCommand, InFlight, SubmitSave
<1>5. \A i : ~ InFlight(i)'
    <2>1. \A q \in Procs : pc'[q] = "idle"
        BY DEF SubmitSave, Exit, OneCommand, Kept, Inv, DeviceOK
    <2> QED BY <2>1 DEF InFlight
<1>6. \A x \in Ids : ~ InFile(x)' => uploads'[x] = 0
    BY <1>2, <1>3 DEF Counted, InFile
<1>7. ASSUME NEW i \in DOMAIN file' PROVE uploads'[file'[i].id] <= Allowed(i)'
    <2>1. CASE i \in DOMAIN file
        <3>1. file'[i] = file[i] /\ (i \in Pending(file)' <=> i \in Pending(file))
            BY <1>2, <2>1 DEF Pending
        <3>2. Allowed(i)' = Allowed(i)
            BY <1>3, <1>4, <1>5, <3>1 DEF Allowed
        <3> QED BY <1>3, <2>1, <3>1, <3>2 DEF Counted
    <2>2. CASE i = Len(file) + 1
        <3>1. uploads'[file'[i].id] = 0
            BY <1>1, <1>2, <1>3, <2>2 DEF Counted, Fresh
        <3>2. file'[i].retries = 0
            BY <1>2, <2>2 DEF NewItem
        <3> QED BY <1>3, <1>5, <3>1, <3>2, ItemTypes DEF Allowed
    <2> QED BY <1>2, <2>1, <2>2
<1> QED BY <1>6, <1>7 DEF Counted

LEMMA CountedLoad ==
    ASSUME OneCommand, Kept, Once, Counted, NEW p \in Procs, PushLoad(p)
    PROVE  Counted'
<1> DEFINE batch == BuildPushRequest(file, clock)
           Out(id) == {i \in DOMAIN batch : batch[i] = id}
<1>1. DOMAIN batch \subseteq Pending(file) /\ \A i \in DOMAIN batch : batch[i] = file[i].id
    BY BatchIsPending
<1>2. /\ UNCHANGED <<file, crashes>> /\ pc[p] = "idle"
      /\ pc' = [pc EXCEPT ![p] = "sending"] /\ request' = [request EXCEPT ![p] = batch]
      /\ uploads' = [id \in Ids |-> uploads[id] + Cardinality(Out(id))]
    BY DEF PushLoad
<1> HIDE DEF batch
<1>3. \A i : ~ InFlight(i)
    BY <1>2 DEF OneCommand, InFlight
<1>4. \A i \in DOMAIN batch : InFlight(i)'
    <2>1. pc'[p] = "sending" /\ request'[p] = batch
        BY <1>2 DEF Kept, Inv, DeviceOK
    <2> QED BY <2>1 DEF InFlight
<1>5. \A id \in Ids : ~ InFile(id)' => uploads'[id] = 0
    <2>1. SUFFICES ASSUME NEW id \in Ids, ~ InFile(id) PROVE uploads'[id] = 0
        BY <1>2 DEF InFile
    <2>2. Out(id) = {}
        BY <1>1, <2>1, ItemTypes DEF InFile
    <2>3. uploads[id] = 0
        BY <2>1 DEF Counted
    <2> QED BY <1>2, <2>2, <2>3, FS_EmptySet
<1>6. ASSUME NEW i \in DOMAIN file PROVE uploads'[file[i].id] <= Allowed(i)'
    <2>1. uploads[file[i].id] <= Allowed(i) /\ uploads[file[i].id] \in Nat /\ file[i].id \in Ids
        BY ItemTypes DEF Counted
    <2>2. /\ Allowed(i) = (IF i \in Pending(file) THEN file[i].retries ELSE MaxRetries) + crashes
          /\ Allowed(i)' = (IF i \in Pending(file) THEN file[i].retries ELSE MaxRetries)
                           + crashes + (IF InFlight(i)' THEN 1 ELSE 0)
        BY <1>2, <1>3, ItemTypes DEF Allowed
    <2>3. file[i].retries \in Nat /\ crashes \in Nat /\ MaxRetries \in Nat
        BY ItemTypes
    <2>4. CASE i \in DOMAIN batch
        <3>1. Out(file[i].id) = {i}
            BY <1>1, <2>4, ItemTypes DEF Once, Distinct
        <3>2. uploads'[file[i].id] = uploads[file[i].id] + 1
            BY <1>2, <2>1, <3>1, FS_Singleton
        <3> QED BY <1>4, <2>1, <2>2, <2>3, <2>4, <3>2
    <2>5. CASE i \notin DOMAIN batch
        <3>1. Out(file[i].id) = {}
            BY <1>1, <2>5, ItemTypes DEF Once, Distinct
        <3>2. uploads'[file[i].id] = uploads[file[i].id]
            BY <1>2, <2>1, <3>1, FS_EmptySet
        <3> QED BY <2>1, <2>2, <2>3, <3>2
    <2> QED BY <2>4, <2>5
<1> QED BY <1>2, <1>5, <1>6 DEF Counted

LEMMA CountedReport ==
    ASSUME OneCommand, MaxRetries # 0, Kept, Once, Counted, NEW p \in Procs, Reported(p)
    PROVE  Counted'
<1>1. PICK response :
          /\ Answers(response) /\ DOMAIN response = DOMAIN request[p]
          /\ file' = ApplyPushResponse(file, response, clock)
    BY DEF Reported
<1>2. UNCHANGED <<uploads, crashes>>
    BY DEF Reported
<1>3. \A i : InFlight(i) <=> i \in DOMAIN response
    BY <1>1 DEF OneCommand, InFlight, Reported
<1>4. \A i : ~ InFlight(i)'
    <2>1. \A q \in Procs : pc'[q] = "idle"
        BY DEF Reported, Exit, OneCommand, Kept, Inv, DeviceOK
    <2> QED BY <2>1 DEF InFlight
<1>5. DOMAIN file' = DOMAIN file /\ \A i \in DOMAIN file : file'[i].id = file[i].id
    BY ReportedIds
<1>6. \A id \in Ids : ~ InFile(id)' => uploads'[id] = 0
    BY <1>2, <1>5 DEF Counted, InFile
<1>7. ASSUME NEW i \in DOMAIN file PROVE uploads[file[i].id] <= Allowed(i)'
    <2>1. uploads[file[i].id] <= Allowed(i) /\ uploads[file[i].id] \in Nat
        BY ItemTypes DEF Counted
    <2>2. file[i].retries \in Nat /\ crashes \in Nat /\ MaxRetries \in Nat
        BY ItemTypes
    <2>3. Allowed(i)' = (IF i \in Pending(file)' THEN file'[i].retries ELSE MaxRetries) + crashes
        <3>1. Allowed(i)' = (IF i \in Pending(file)' THEN file'[i].retries ELSE MaxRetries)
                            + crashes + 0
            BY <1>2, <1>4 DEF Allowed
        <3>2. i \in Pending(file)' => file'[i].retries \in Nat
            BY <1>1, <1>5, <2>2, Settled DEF Pending
        <3> QED BY <2>2, <3>1, <3>2
    <2>4. CASE i \notin DOMAIN response
        <3>1. file'[i] = file[i]
            BY <1>1, <2>4, Settled
        <3>2. i \in Pending(file)' <=> i \in Pending(file)
            BY <1>5, <3>1 DEF Pending
        <3> QED BY <1>3, <2>1, <2>2, <2>3, <2>4, <3>1, <3>2 DEF Allowed
    <2>5. CASE i \in DOMAIN response
        <3>1. i \in Pending(file) /\ file[i].retries + 1 <= MaxRetries
            BY <1>1, <2>5, ItemTypes DEF Answers
        <3>2. uploads[file[i].id] <= file[i].retries + crashes + 1
            BY <1>3, <2>1, <2>5, <3>1 DEF Allowed
        <3>3. i \in Pending(file)' => file'[i].retries = file[i].retries + 1
            BY <1>1, <2>5, Settled DEF Pending
        <3>4. CASE i \in Pending(file)'
            BY <2>1, <2>2, <2>3, <3>2, <3>3, <3>4
        <3>5. CASE i \notin Pending(file)'
            BY <2>1, <2>2, <2>3, <3>1, <3>2, <3>5
        <3> QED BY <3>4, <3>5
    <2> QED BY <2>4, <2>5
<1> QED BY <1>2, <1>5, <1>6, <1>7 DEF Counted

LEMMA InitCounted == Init => Counted
BY DEF Init, Counted, InFile

LEMMA NextCounted ==
    ASSUME OneCommand, MaxRetries # 0, Kept, Once, Counted, [Next]_vars
    PROVE  Counted'
<1>0. /\ pc \in [Procs -> PcStates] /\ request = [q \in Procs |-> request[q]]
      /\ crashes \in Nat /\ \A q, r \in Procs : q = r
    BY DEF Kept, Inv, DeviceOK, RestOK, OneCommand
<1>1. ASSUME UNCHANGED <<file, pc, request, uploads, crashes>> PROVE Counted'
    <2>1. \A i : InFlight(i) => InFlight(i)'
        BY <1>1 DEF InFlight
    <2> QED BY <1>0, <1>1, <2>1, CountedQuiet
<1>2. ASSUME NEW p \in Procs, \E id \in Ids : SubmitLoad(p, id) PROVE Counted'
    <2>1. \A i : ~ InFlight(i)
        BY <1>0, <1>2 DEF SubmitLoad, InFlight
    <2>2. UNCHANGED <<file, uploads, crashes>>
        BY <1>2 DEF SubmitLoad
    <2> QED BY <1>0, <2>1, <2>2, CountedQuiet
<1>3. ASSUME NEW p \in Procs, \E h \in Slots : Arrive(p, h) PROVE Counted'
    <2>1. \A i : InFlight(i) => InFlight(i)'
        BY <1>0, <1>3 DEF Arrive, InFlight
    <2>2. UNCHANGED <<file, uploads, crashes>>
        BY <1>3 DEF Arrive
    <2> QED BY <1>0, <2>1, <2>2, CountedQuiet
<1>4. ASSUME NEW p \in Procs, Crash(p) PROVE Counted'
    <2>1. UNCHANGED <<file, uploads>> /\ crashes' = crashes + 1
        BY <1>4 DEF Crash
    <2> QED BY <1>0, <2>1, CountedQuiet
<1>5. ASSUME NEW p \in Procs, PushFails(p) PROVE Counted'
    BY <1>5, FailureIsReported, CountedReport
<1>6. ASSUME NEW h \in Slots, Answer(h) PROVE Counted'
    <2>1. CASE handler[h].client = NoProc
        BY <1>1, <1>6, <2>1 DEF Answer, deviceVars
    <2>2. CASE handler[h].client # NoProc
        BY <1>6, <2>2, AnswerIsReported, CountedReport
    <2> QED BY <2>1, <2>2
<1>7. ASSUME NEW h \in Slots, CheckForm(h) \/ Insert(h) \/ StorageError(h) \/ HandlerLost(h)
      PROVE  UNCHANGED <<file, pc, request, uploads, crashes>>
    BY <1>7 DEF CheckForm, Insert, StorageError, HandlerLost, UNCHANGEDOutside, deviceVars
<1>8. ASSUME \/ \E id \in Ids : DeleteSubmission(id)
             \/ \E f \in Forms : DeleteForm(f) \/ RestoreForm(f)
             \/ Tick \/ UNCHANGED vars
      PROVE  UNCHANGED <<file, pc, request, uploads, crashes>>
    BY <1>8 DEF DeleteSubmission, DeleteForm, RestoreForm, Delete, Tick, UNCHANGEDOutside,
                deviceVars, vars
<1> QED BY <1>1, <1>2, <1>3, <1>4, <1>5, <1>6, <1>7, <1>8, CountedSave, CountedLoad DEF Next

\* No submission goes out more often than MaxRetries allows, but once for every
\* push that was killed before it could count the attempt.
THEOREM UploadsAreBounded ==
    OneCommand /\ MaxCopies <= 1 /\ MaxRetries # 0 => (Spec => []UploadsBounded)
<1> SUFFICES ASSUME OneCommand, MaxCopies <= 1, MaxRetries # 0 PROVE Spec => []UploadsBounded
    OBVIOUS
<1>1. Kept /\ [Next]_vars => Kept'
    BY NextKept
<1>2. Kept /\ Once /\ [Next]_vars => Once'
    BY NextOnce
<1>3. Kept /\ Once /\ Counted /\ [Next]_vars => Counted'
    BY NextCounted
<1>4. Kept /\ Counted => UploadsBounded
    BY CountedBound
<1> QED BY <1>1, <1>2, <1>3, <1>4, InitKept, InitOnce, InitCounted, PTL DEF Spec

-----------------------------------------------------------------------------
(* The waits between attempts.  The provers do not know exponentiation, so *)
(* that a power of two is a number is a premise here.                      *)

PowersAreNumbers == \A n \in Nat : 2 ^ n \in Nat

LEMMA WaitType ==
    ASSUME PowersAreNumbers, NEW item \in QueueItem
    PROVE  Wait(item) \in Nat
<1>1. ASSUME NEW n \in Nat PROVE Backoff(n) \in Nat
    <2>1. 2 ^ n \in Nat
        BY DEF PowersAreNumbers
    <2> DEFINE power == 2 ^ n
    <2> HIDE DEF power
    <2>2. power \in Nat => BaseBackoff * power \in Nat
        BY QueueAssumption
    <2>3. BaseBackoff * 2 ^ n \in Nat
        BY <2>1, <2>2 DEF power
    <2> DEFINE wait == BaseBackoff * 2 ^ n
    <2>4. Backoff(n) = IF wait < MaxBackoff THEN wait ELSE MaxBackoff
        BY DEF Backoff
    <2> HIDE DEF wait
    <2> QED BY <2>3, <2>4, QueueAssumption DEF wait
<1>2. item.retries \in Nat
    BY DEF QueueItem
<1> QED BY <1>1, <1>2 DEF Wait

Timely ==
    \A p \in Procs : pc[p] \in {"sending", "waiting"} => DOMAIN request[p] \subseteq Due(file, clock)

\* Once due, an item stays due until it is tried.
LEMMA DueStays ==
    ASSUME PowersAreNumbers, NEW queue \in Seq(QueueItem), NEW now \in Nat
    PROVE  Due(queue, now) \subseteq Due(queue, now + 1)
<1> SUFFICES ASSUME NEW i \in Due(queue, now) PROVE i \in Due(queue, now + 1)
    OBVIOUS
<1>1. queue[i] \in QueueItem
    <2>1. i \in DOMAIN queue
        BY DEF Due, Pending
    <2> QED BY <2>1
<1>2. Wait(queue[i]) \in Nat /\ queue[i].last \in Nat \cup {NoAttempt}
    BY <1>1, WaitType DEF QueueItem
<1>3. queue[i].last = NoAttempt \/ queue[i].last + Wait(queue[i]) <= now
    BY DEF Due
<1>4. queue[i].last = NoAttempt \/ queue[i].last + Wait(queue[i]) <= now + 1
    BY <1>2, <1>3
<1> QED BY <1>4 DEF Due

LEMMA NextTimely ==
    ASSUME OneCommand, PowersAreNumbers, Kept, Timely, [Next]_vars
    PROVE  Timely'
<1>0. /\ pc \in [Procs -> PcStates] /\ request = [q \in Procs |-> request[q]]
      /\ file \in Seq(QueueItem) /\ clock \in Nat /\ \A q, r \in Procs : q = r
    BY DEF Kept, Inv, DeviceOK, RestOK, OneCommand
<1>1. ASSUME NEW p \in Procs, Exit(p) PROVE Timely'
    BY <1>0, <1>1 DEF Exit, Timely
<1>2. ASSUME NEW p \in Procs, SubmitSave(p) \/ PushFails(p) \/ Crash(p) PROVE Timely'
    BY <1>1, <1>2 DEF SubmitSave, PushFails, Crash
<1>3. ASSUME NEW p \in Procs, \E id \in Ids : SubmitLoad(p, id) PROVE Timely'
    BY <1>0, <1>3 DEF SubmitLoad, Timely
<1>4. ASSUME NEW p \in Procs, PushLoad(p) PROVE Timely'
    <2> DEFINE batch == BuildPushRequest(file, clock)
    <2>1. DOMAIN batch = Due(file, clock)
        BY DEF BuildPushRequest
    <2>2. /\ request' = [request EXCEPT ![p] = batch] /\ UNCHANGED <<file, clock>>
        BY <1>4 DEF PushLoad
    <2> HIDE DEF batch
    <2> QED BY <1>0, <2>1, <2>2 DEF Timely
<1>5. ASSUME NEW p \in Procs, \E h \in Slots : Arrive(p, h) PROVE Timely'
    BY <1>0, <1>5 DEF Arrive, Timely
<1>6. ASSUME UNCHANGED <<file, pc, request>>, clock' \in {clock, clock + 1} PROVE Timely'
    <2>1. Due(file, clock) \subseteq Due(file, clock')
        BY <1>0, <1>6, DueStays
    <2> QED BY <1>6, <2>1 DEF Timely
<1>7. ASSUME NEW h \in Slots, Answer(h) PROVE Timely'
    <2>1. handler[h].client \in Procs \cup {NoProc}
        BY DEF Kept, Inv, HandlerOK, Handler
    <2> QED BY <1>1, <1>6, <1>7, <2>1 DEF Answer, deviceVars
<1>8. ASSUME NEW h \in Slots, CheckForm(h) \/ Insert(h) \/ StorageError(h) \/ HandlerLost(h)
      PROVE  UNCHANGED <<file, pc, request, clock>>
    BY <1>8 DEF CheckForm, Insert, StorageError, HandlerLost, UNCHANGEDOutside, deviceVars
<1>9. ASSUME \/ \E id \in Ids : DeleteSubmission(id)
             \/ \E f \in Forms : DeleteForm(f) \/ RestoreForm(f)
             \/ Tick \/ UNCHANGED vars
      PROVE  UNCHANGED <<file, pc, request>> /\ clock' \in {clock, clock + 1}
    BY <1>9 DEF DeleteSubmission, DeleteForm, RestoreForm, Delete, Tick, UNCHANGEDOutside,
                deviceVars, vars
<1> QED BY <1>2, <1>3, <1>4, <1>5, <1>6, <1>7, <1>8, <1>9 DEF Next

\* Two failed attempts of an item are never closer than its backoff, however
\* long the request was under way.
THEOREM RetriesWait ==
    OneCommand /\ MaxCopies <= 1 /\ PowersAreNumbers => (Spec => RetriesAreSpaced)
<1> SUFFICES ASSUME OneCommand, MaxCopies <= 1, PowersAreNumbers PROVE Spec => RetriesAreSpaced
    OBVIOUS
<1> DEFINE Spaced == \A i \in DOMAIN file \cap DOMAIN file' :
               file'[i].retries > file[i].retries /\ file[i].last # NoAttempt
                   => clock >= file[i].last + Wait(file[i])
<1>1. Kept /\ Once /\ Timely /\ [Next]_vars => Spaced
    <2> SUFFICES ASSUME Kept, Once, Timely, [Next]_vars,
                        NEW i \in DOMAIN file \cap DOMAIN file',
                        file'[i].retries > file[i].retries, file[i].last # NoAttempt
                 PROVE  clock >= file[i].last + Wait(file[i])
        OBVIOUS
    <2>1. file[i].retries \in Nat /\ file[i] \in QueueItem
        <3>1. file \in Seq(QueueItem)
            BY DEF Kept, Inv, DeviceOK
        <3> QED BY <3>1, ItemTypes
    <2>2. CASE UNCHANGED file
        BY <2>1, <2>2
    <2>3. ASSUME NEW p \in Procs, SubmitSave(p) PROVE FALSE
        <3>1. PICK id \in Ids : Queued(id)
            BY <2>3, SaveOnce
        <3>2. file'[i] = file[i]
            BY <3>1, QueuedItems
        <3> QED BY <2>1, <3>2
    <2>4. ASSUME NEW p \in Procs, Reported(p) PROVE i \in Due(file, clock)
        <3>1. PICK response :
                  /\ Answers(response) /\ DOMAIN response = DOMAIN request[p]
                  /\ file' = ApplyPushResponse(file, response, clock)
            BY <2>4 DEF Reported
        <3>2. CASE i \in DOMAIN response
            BY <2>4, <3>1, <3>2 DEF Reported, Timely
        <3>3. CASE i \notin DOMAIN response
            <4>1. file'[i] = file[i]
                BY <3>1, <3>3, Settled
            <4> QED BY <2>1, <4>1
        <3> QED BY <3>2, <3>3
    <2>5. i \in Due(file, clock)
        BY <2>1, <2>2, <2>3, <2>4, FileSteps
    <2>6. file[i].last + Wait(file[i]) <= clock
        BY <2>5 DEF Due
    <2>7. clock \in Nat /\ Wait(file[i]) \in Nat /\ file[i].last \in Nat
        BY <2>1, WaitType DEF QueueItem, Kept, Inv, RestOK
    <2> QED BY <2>6, <2>7
<1>2. Kept /\ [Next]_vars => Kept'
    BY NextKept
<1>3. Kept /\ Once /\ [Next]_vars => Once'
    BY NextOnce
<1>4. Kept /\ Timely /\ [Next]_vars => Timely'
    BY NextTimely
<1>5. Init => Timely
    BY DEF Init, Timely
<1> HIDE DEF Spaced
<1>6. Spec => [][Spaced]_vars
    BY <1>1, <1>2, <1>3, <1>4, <1>5, InitKept, InitOnce, PTL DEF Spec
<1> QED BY <1>6 DEF RetriesAreSpaced, Spaced

-----------------------------------------------------------------------------
(* The queue keeps its promise (module Delivery).                          *)

StatusPhase(status) ==
    CASE status = "Synced" -> "delivered" [] status = "Abandoned" -> "given up" [] OTHER -> "queued"

\* What a queue says of a submission.
PhaseIn(queue, id) ==
    IF ~ (\E i \in DOMAIN queue : queue[i].id = id) THEN "new"
    ELSE StatusPhase(queue[CHOOSE i \in DOMAIN queue : queue[i].id = id /\ Named(queue, i)].status)

PhasesIn(queue) == [id \in Ids |-> PhaseIn(queue, id)]

LEMMA PhaseOfItem ==
    ASSUME NEW queue \in Seq(QueueItem), NEW i \in DOMAIN queue,
           \A j, k \in DOMAIN queue : queue[j].id = queue[k].id => j = k
    PROVE  PhaseIn(queue, queue[i].id) = StatusPhase(queue[i].status)
<1> DEFINE n == CHOOSE j \in DOMAIN queue : queue[j].id = queue[i].id /\ Named(queue, j)
<1>1. DOMAIN queue \subseteq Nat
    OBVIOUS
<1>2. Named(queue, i)
    BY <1>1 DEF Named
<1>3. n \in DOMAIN queue /\ queue[n].id = queue[i].id
    BY <1>2
<1>4. n = i
    BY <1>3
<1> QED BY <1>4 DEF PhaseIn

LEMMA PhasesAre ==
    /\ [id \in Ids |-> Phase(id)] = PhasesIn(file)
    /\ ([id \in Ids |-> Phase(id)] = PhasesIn(file))'
<1>1. \A id \in Ids : Phase(id) = PhaseIn(file, id)
    BY DEF Phase, PhaseIn, StatusPhase, InFile, ItemOf
<1>2. \A id \in Ids : Phase(id)' = PhaseIn(file', id)
    BY DEF Phase, PhaseIn, StatusPhase, InFile, ItemOf
<1> QED BY <1>1, <1>2 DEF PhasesIn

\* The server takes only what a device has queued, and never while it reports.
LEMMA TakenSteps ==
    ASSUME Kept, [Next]_vars
    PROVE  \/ UNCHANGED Taken
           \/ \E id \in Ids : InFile(id) /\ Taken' = Taken \cup {id} /\ UNCHANGED file
<1>1. ASSUME NEW ids, Delete(ids) PROVE UNCHANGED Taken
    BY <1>1 DEF Delete, Taken
<1>2. CASE UNCHANGED vars
    BY <1>2 DEF vars, serverVars, deleteVars, Taken
<1>3. ASSUME NEW p \in Procs,
             \/ \E id \in Ids : SubmitLoad(p, id)
             \/ SubmitSave(p) \/ PushLoad(p) \/ PushFails(p) \/ Crash(p)
             \/ \E h \in Slots : Arrive(p, h)
      PROVE  UNCHANGED Taken
    BY <1>3 DEF SubmitLoad, SubmitSave, PushLoad, Arrive, PushFails, Crash,
                serverVars, deleteVars, Taken
<1>4. ASSUME NEW h \in Slots, CheckForm(h) \/ StorageError(h) \/ Answer(h) \/ HandlerLost(h)
      PROVE  UNCHANGED Taken
    BY <1>4 DEF CheckForm, StorageError, Answer, HandlerLost, deleteVars, Taken
<1>5. ASSUME NEW h \in Slots, Insert(h)
      PROVE  \E id \in Ids : InFile(id) /\ Taken' = Taken \cup {id} /\ UNCHANGED file
    <2>1. PICK i \in Todo(h) : onFile' = onFile \cup {handler[h].request[i]}
        BY <1>5 DEF Insert
    <2>2. /\ handler[h].request[i] \in Ids /\ InFile(handler[h].request[i])
        BY DEF Todo, Kept, Inv, HandlerOK, Handler, Request, Serves
    <2> QED BY <1>5, <2>1, <2>2 DEF Insert, deleteVars, UNCHANGEDOutside, deviceVars, Taken
<1>6. ASSUME \/ \E id \in Ids : DeleteSubmission(id)
             \/ \E f \in Forms : DeleteForm(f) \/ RestoreForm(f)
             \/ Tick
      PROVE  UNCHANGED Taken
    BY <1>1, <1>6 DEF DeleteSubmission, DeleteForm, RestoreForm, Tick, serverVars, deleteVars, Taken
<1> QED BY <1>2, <1>3, <1>4, <1>5, <1>6 DEF Next

LEMMA TakeStep ==
    ASSUME NEW id \in Ids, InFile(id), Taken' = Taken \cup {id}, UNCHANGED file
    PROVE  Abstract!Take(id)
<1>1. PhasesIn(file)[id] # "new"
    BY DEF PhasesIn, PhaseIn, StatusPhase, InFile
<1>2. PhasesIn(file') = PhasesIn(file)
    OBVIOUS
<1> QED BY <1>1, <1>2, PhasesAre DEF Abstract!Take, Taken

LEMMA QueueStep ==
    ASSUME Kept, Once, Once', file' \in Seq(QueueItem), NEW id \in Ids, Queued(id), Fresh(id),
           UNCHANGED Taken
    PROVE  Abstract!Queue(id)
<1>0. file \in Seq(QueueItem)
    BY DEF Kept, Inv, DeviceOK
<1>1. /\ DOMAIN file' = DOMAIN file \cup {Len(file) + 1}
      /\ \A i \in DOMAIN file : file'[i] = file[i]
      /\ file'[Len(file) + 1] = NewItem(id) /\ NewItem(id).id = id
    BY QueuedItems
<1>2. PhaseIn(file, id) = "new"
    BY DEF Fresh, InFile, PhaseIn
<1>3. PhaseIn(file', id) = "queued"
    <2>1. PhaseIn(file', id) = StatusPhase(NewItem(id).status)
        BY <1>1, PhaseOfItem DEF Once, Distinct
    <2> QED BY <2>1 DEF NewItem, StatusPhase
<1>4. ASSUME NEW x \in Ids, x # id PROVE PhaseIn(file', x) = PhaseIn(file, x)
    <2>1. CASE \E i \in DOMAIN file : file[i].id = x
        <3>1. PICK i \in DOMAIN file : file[i].id = x
            BY <2>1
        <3>2. PhaseIn(file, x) = StatusPhase(file[i].status)
            BY <1>0, <3>1, PhaseOfItem DEF Once, Distinct
        <3>3. i \in DOMAIN file' /\ file'[i] = file[i]
            BY <1>1
        <3>4. PhaseIn(file', x) = StatusPhase(file[i].status)
            BY <3>1, <3>3, PhaseOfItem DEF Once, Distinct
        <3> QED BY <3>2, <3>4
    <2>2. CASE ~ \E i \in DOMAIN file : file[i].id = x
        <3>1. ~ \E i \in DOMAIN file' : file'[i].id = x
            BY <1>1, <1>4, <2>2
        <3> QED BY <2>2, <3>1 DEF PhaseIn
    <2> QED BY <2>1, <2>2
<1>5. PhasesIn(file)[id] = "new" /\ PhasesIn(file') = [PhasesIn(file) EXCEPT ![id] = "queued"]
    BY <1>2, <1>3, <1>4 DEF PhasesIn
<1> QED BY <1>5, PhasesAre DEF Abstract!Queue, Taken

LEMMA ReportStep ==
    ASSUME Kept, Once, Once', file' \in Seq(QueueItem), NEW p \in Procs, Reported(p)
    PROVE  \E delivered, abandoned \in SUBSET Ids : Abstract!Report(delivered, abandoned)
<1>0. file \in Seq(QueueItem) /\ \A i \in DOMAIN file : file[i].id \in Ids
    BY ItemTypes DEF Kept, Inv, DeviceOK
<1>1. PICK response : Answers(response) /\ file' = ApplyPushResponse(file, response, clock)
    BY DEF Reported
<1>2. DOMAIN file' = DOMAIN file /\ \A i \in DOMAIN file : file'[i].id = file[i].id
    BY ReportedIds
<1> DEFINE Becomes(status) == {file[i].id : i \in {j \in DOMAIN response : file'[j].status = status}}
           delivered == Becomes("Synced")
           abandoned == Becomes("Abandoned")
<1>3. ASSUME NEW i \in DOMAIN response
      PROVE  /\ i \in DOMAIN file
             /\ file[i].status \in {"Pending", "Failed"}
             /\ file'[i].status = "Synced" => file[i].id \in Taken
             /\ file'[i].status \in {"Synced", "Abandoned", "Failed"}
    <2>1. i \in DOMAIN file /\ file[i].status \in {"Pending", "Failed"}
        BY <1>1 DEF Answers, Pending
    <2>2. /\ response[i].status # "Error" => file'[i].status = "Synced"
          /\ response[i].status = "Error" => file'[i].status \in {"Abandoned", "Failed"}
        BY <1>1, <2>1, Settled
    <2>3. response[i].status # "Error" => file[i].id \in Taken
        BY <1>1 DEF Answers
    <2> QED BY <2>1, <2>2, <2>3
<1>4. \A i \in DOMAIN file \ DOMAIN response : file'[i] = file[i]
    BY <1>1, Settled
<1>5. ASSUME NEW i \in DOMAIN file
      PROVE  /\ PhaseIn(file, file[i].id) = StatusPhase(file[i].status)
             /\ PhaseIn(file', file[i].id) = StatusPhase(file'[i].status)
    <2>1. PhaseIn(file, file[i].id) = StatusPhase(file[i].status)
        BY <1>0, PhaseOfItem DEF Once, Distinct
    <2>2. i \in DOMAIN file' /\ file'[i].id = file[i].id
        BY <1>2
    <2>3. PhaseIn(file', file'[i].id) = StatusPhase(file'[i].status)
        BY <2>2, PhaseOfItem DEF Once, Distinct
    <2> QED BY <2>1, <2>2, <2>3
<1>6. delivered \in SUBSET Ids /\ abandoned \in SUBSET Ids
    BY <1>0, <1>3
<1>7. delivered \subseteq Taken
    BY <1>3
<1>8. delivered \cap abandoned = {}
    BY <1>3 DEF Once, Distinct
<1>9. ASSUME NEW id \in delivered \cup abandoned PROVE PhasesIn(file)[id] = "queued"
    <2>1. PICK i \in DOMAIN response : file[i].id = id
        OBVIOUS
    <2>2. PhaseIn(file, id) = StatusPhase(file[i].status) /\ file[i].status \in {"Pending", "Failed"}
        BY <1>3, <1>5, <2>1
    <2> QED BY <1>6, <2>2 DEF PhasesIn, StatusPhase
<1>10. ASSUME NEW id \in Ids
       PROVE  PhaseIn(file', id) = IF id \in delivered THEN "delivered"
                                   ELSE IF id \in abandoned THEN "given up"
                                   ELSE PhaseIn(file, id)
    <2>1. CASE \E i \in DOMAIN file : file[i].id = id
        <3>1. PICK i \in DOMAIN file : file[i].id = id
            BY <2>1
        <3>2. /\ PhaseIn(file, id) = StatusPhase(file[i].status)
              /\ PhaseIn(file', id) = StatusPhase(file'[i].status)
            BY <1>5, <3>1
        <3>3. ASSUME NEW status
              PROVE  id \in Becomes(status) <=> i \in DOMAIN response /\ file'[i].status = status
            BY <1>3, <3>1 DEF Once, Distinct
        <3>4. CASE i \in DOMAIN response
            <4>1. /\ id \in delivered <=> file'[i].status = "Synced"
                  /\ id \in abandoned <=> file'[i].status = "Abandoned"
                BY <3>3, <3>4
            <4>2. /\ file[i].status \in {"Pending", "Failed"}
                  /\ file'[i].status \in {"Synced", "Abandoned", "Failed"}
                BY <1>3, <3>4
            <4> HIDE DEF Becomes
            <4> QED BY <3>2, <4>1, <4>2 DEF StatusPhase
        <3>5. CASE i \notin DOMAIN response
            <4>1. id \notin delivered /\ id \notin abandoned
                BY <3>3, <3>5
            <4>2. file'[i] = file[i]
                BY <1>4, <3>5
            <4> HIDE DEF Becomes
            <4> QED BY <3>2, <4>1, <4>2
        <3> QED BY <3>4, <3>5
    <2>2. CASE ~ \E i \in DOMAIN file : file[i].id = id
        <3>1. ~ \E i \in DOMAIN file' : file'[i].id = id
            BY <1>2, <2>2
        <3>2. PhaseIn(file', id) = PhaseIn(file, id)
            BY <2>2, <3>1 DEF PhaseIn
        <3>3. id \notin delivered /\ id \notin abandoned
            BY <1>3, <2>2
        <3> HIDE DEF Becomes
        <3> QED BY <3>2, <3>3
    <2> QED BY <2>1, <2>2
<1>11. UNCHANGED Taken
    BY DEF Reported, Taken
<1> HIDE DEF Becomes
<1>12. PhasesIn(file') = [id \in Ids |-> IF id \in delivered THEN "delivered"
                                         ELSE IF id \in abandoned THEN "given up"
                                         ELSE PhasesIn(file)[id]]
    BY <1>10 DEF PhasesIn
<1> HIDE DEF delivered, abandoned
<1>13. Abstract!Report(delivered, abandoned)
    BY <1>7, <1>8, <1>9, <1>11, <1>12, PhasesAre DEF Abstract!Report, Taken
<1> QED BY <1>6, <1>13

LEMMA StepKeepsPromise ==
    ASSUME Kept, Kept', Once, Once', [Next]_vars
    PROVE  [Abstract!Next]_(Abstract!vars)
<1>0. file' \in Seq(QueueItem)
    BY DEF Kept, Inv, DeviceOK
<1>1. CASE UNCHANGED Taken /\ UNCHANGED file
    BY <1>1, PhasesAre DEF Abstract!vars, Taken
<1>2. ASSUME NEW id \in Ids, InFile(id), Taken' = Taken \cup {id}, UNCHANGED file
      PROVE  Abstract!Next
    BY <1>2, TakeStep DEF Abstract!Next
<1>3. ASSUME NEW p \in Procs, SubmitSave(p), UNCHANGED Taken PROVE Abstract!Next
    <2>1. PICK id \in Ids : Queued(id) /\ Fresh(id)
        BY <1>3, SaveOnce
    <2>2. Abstract!Queue(id)
        BY <1>0, <1>3, <2>1, QueueStep
    <2> QED BY <2>2 DEF Abstract!Next
<1>4. ASSUME NEW p \in Procs, Reported(p) PROVE Abstract!Next
    BY <1>0, <1>4, ReportStep DEF Abstract!Next
<1> QED BY <1>1, <1>2, <1>3, <1>4, FileSteps, TakenSteps

\* With one command at a time and no submission queued twice, the protocol keeps
\* the promise of the queue: what is queued stays queued until it is delivered
\* or given up, and is delivered only once the server has taken it.
THEOREM PromiseIsKept == OneCommand /\ MaxCopies <= 1 => (Spec => KeepsPromise)
<1> SUFFICES ASSUME OneCommand, MaxCopies <= 1 PROVE Spec => KeepsPromise
    OBVIOUS
<1>1. Init => Abstract!Init
    BY DEF Init, Abstract!Init, Phase, InFile
<1>2. Kept /\ [Next]_vars => Kept'
    BY NextKept
<1>3. Kept /\ Once /\ [Next]_vars => Once'
    BY NextOnce
<1>4. Kept /\ Kept' /\ Once /\ Once' /\ [Next]_vars => [Abstract!Next]_(Abstract!vars)
    BY StepKeepsPromise
<1> QED BY <1>1, <1>2, <1>3, <1>4, InitKept, InitOnce, PTL DEF Spec, KeepsPromise, Abstract!Spec

-----------------------------------------------------------------------------
(* The loop of apply_push_response, by itself.                             *)

AnswerList == Seq([id: Ids, status: PushItemStatus])

\* The types the comparison rests on.
Typed ==
    /\ items \in Seq(QueueItem)
    /\ loaded \in Seq(QueueItem)
    /\ applied \in AnswerList
    /\ moment \in Nat

\* The fields of an item after its answers.
LEMMA AnsweredFields ==
    ASSUME NEW item \in QueueItem, NEW errors, NEW delivered, NEW time
    PROVE  Answered(item, errors, delivered, time) =
               [id |-> item.id,
                status |-> IF delivered THEN "Synced"
                           ELSE IF item.retries + errors >= MaxRetries
                           THEN "Abandoned" ELSE "Failed",
                retries |-> item.retries + errors,
                last |-> time]
<1>1. PICK new : new = Answered(item, errors, delivered, time)
    OBVIOUS
<1>2. new = [id |-> new.id, status |-> new.status,
             retries |-> new.retries, last |-> new.last]
    BY <1>1 DEF Answered, QueueItem
<1>3. /\ new.id = item.id /\ new.retries = item.retries + errors
      /\ new.last = time
      /\ new.status = IF delivered THEN "Synced"
                      ELSE IF item.retries + errors >= MaxRetries
                      THEN "Abandoned" ELSE "Failed"
    BY <1>1 DEF Answered, QueueItem
<1> QED BY <1>1, <1>2, <1>3

\* The fields of an item after one round.
LEMMA MarkFields ==
    ASSUME NEW item \in QueueItem, NEW status
    PROVE  Mark(item, status) =
               [id |-> item.id,
                status |-> IF status # "Error" THEN "Synced"
                           ELSE IF item.retries + 1 >= MaxRetries
                           THEN "Abandoned" ELSE "Failed",
                retries |-> IF status = "Error" THEN item.retries + 1 ELSE item.retries,
                last |-> moment]
<1>1. item = [id |-> item.id, status |-> item.status,
              retries |-> item.retries, last |-> item.last]
    BY DEF QueueItem
<1>2. CASE status = "Error"
    BY <1>1, <1>2 DEF Mark, MarkSynced, MarkFailed, QueueItem
<1>3. CASE status # "Error"
    BY <1>1, <1>3 DEF Mark, MarkSynced, MarkFailed, QueueItem
<1> QED BY <1>2, <1>3

\* A round and an earlier round, or several, are the answers taken together.
LEMMA MarkAfterAnswers ==
    ASSUME NEW item \in QueueItem, NEW errors \in Nat, NEW delivered \in BOOLEAN,
           NEW status, moment \in Nat
    PROVE  Mark(Answered(item, errors, delivered, moment), status) =
               Answered(item, IF status = "Error" THEN errors + 1 ELSE errors,
                        status # "Error", moment)
<1> DEFINE once == Answered(item, errors, delivered, moment)
           told == status # "Error"
           total == IF status = "Error" THEN errors + 1 ELSE errors
<1>1. /\ item.id \in Ids /\ item.retries \in Nat /\ MaxRetries \in Nat
    BY QueueAssumption DEF QueueItem
<1>2. once = [id |-> item.id,
              status |-> IF delivered THEN "Synced"
                         ELSE IF item.retries + errors >= MaxRetries
                         THEN "Abandoned" ELSE "Failed",
              retries |-> item.retries + errors,
              last |-> moment]
    BY AnsweredFields
<1>3. once \in QueueItem
    BY <1>1, <1>2 DEF QueueItem, SyncStatus
<1>4. once.id = item.id /\ once.retries = item.retries + errors
    BY <1>2
<1>5. Answered(item, total, told, moment) =
          [id |-> item.id,
           status |-> IF told THEN "Synced"
                      ELSE IF item.retries + total >= MaxRetries
                      THEN "Abandoned" ELSE "Failed",
           retries |-> item.retries + total,
           last |-> moment]
    <2>1. told \in BOOLEAN /\ total \in Nat
        OBVIOUS
    <2> HIDE DEF told, total
    <2> QED BY <2>1, AnsweredFields
<1> HIDE DEF once
<1>6. Mark(once, status) =
          [id |-> once.id,
           status |-> IF status # "Error" THEN "Synced"
                      ELSE IF once.retries + 1 >= MaxRetries
                      THEN "Abandoned" ELSE "Failed",
           retries |-> IF status = "Error" THEN once.retries + 1 ELSE once.retries,
           last |-> moment]
    BY <1>3, MarkFields
<1>7. CASE status = "Error"
    <2>1. total = errors + 1 /\ item.retries + errors + 1 = item.retries + total
        BY <1>1, <1>7
    <2> QED BY <1>4, <1>5, <1>6, <1>7, <2>1 DEF once
<1>8. CASE status # "Error"
    BY <1>4, <1>5, <1>6, <1>8 DEF once
<1> QED BY <1>7, <1>8

\* The same for an item no earlier answer named.
LEMMA MarkIsOneAnswer ==
    ASSUME NEW item \in QueueItem, NEW status
    PROVE  Mark(item, status) =
               Answered(item, IF status = "Error" THEN 1 ELSE 0, status # "Error", moment)
<1> DEFINE total == IF status = "Error" THEN 1 ELSE 0
           told == status # "Error"
<1>1. item.retries \in Nat /\ item.retries + 0 = item.retries
    BY DEF QueueItem
<1>2. Answered(item, total, told, moment) =
          [id |-> item.id,
           status |-> IF told THEN "Synced"
                      ELSE IF item.retries + total >= MaxRetries
                      THEN "Abandoned" ELSE "Failed",
           retries |-> item.retries + total,
           last |-> moment]
    <2> HIDE DEF told, total
    <2> QED BY AnsweredFields
<1>3. CASE status = "Error"
    BY <1>2, <1>3, MarkFields
<1>4. CASE status # "Error"
    BY <1>1, <1>2, <1>4, MarkFields
<1> QED BY <1>3, <1>4

\* One more answer is one more round for the item it names, and nothing for the
\* others.
LEMMA OneMoreAnswer ==
    ASSUME NEW q \in Seq(QueueItem), NEW given \in AnswerList, moment \in Nat,
           NEW one \in [id: Ids, status: PushItemStatus], NEW i \in DOMAIN q,
           NEW before, before = ApplyPushResponse(q, given, moment)[i],
           NEW after, after = ApplyPushResponse(q, Append(given, one), moment)[i]
    PROVE  after = IF q[i].id = one.id /\ Named(q, i) THEN Mark(before, one.status)
                   ELSE before
<1> DEFINE more == Append(given, one)
           last == Len(given) + 1
           old == AnswersTo(q, i, given)
           new == AnswersTo(q, i, more)
           oldErrors == {k \in old : given[k].status = "Error"}
           newErrors == {k \in new : more[k].status = "Error"}
<1>1. /\ Len(given) \in Nat /\ DOMAIN given = 1 .. Len(given)
      /\ DOMAIN more = DOMAIN given \cup {last} /\ last \notin DOMAIN given
      /\ more[last] = one
      /\ \A k \in DOMAIN given : more[k] = given[k] /\ k < last
    BY DEF AnswerList
<1>2. /\ before = IF old = {} THEN q[i]
                  ELSE Answered(q[i], Cardinality(oldErrors),
                                LastSaysDelivered(old, given), moment)
      /\ after = IF new = {} THEN q[i]
                 ELSE Answered(q[i], Cardinality(newErrors),
                               LastSaysDelivered(new, more), moment)
    BY DEF ApplyPushResponse
<1>3. old \subseteq DOMAIN given /\ \A k \in old : more[k] = given[k] /\ k < last
    BY <1>1 DEF AnswersTo
<1>4. CASE ~ (q[i].id = one.id /\ Named(q, i))
    <2>1. new = old
        BY <1>1, <1>4 DEF AnswersTo
    <2>2. newErrors = oldErrors
        BY <1>3, <2>1
    <2>3. LastSaysDelivered(new, more) = LastSaysDelivered(old, given)
        BY <1>3, <2>1 DEF LastSaysDelivered
    <2> QED BY <1>2, <1>4, <2>1, <2>2, <2>3
<1>5. CASE q[i].id = one.id /\ Named(q, i)
    <2>1. new = old \cup {last} /\ last \notin old
        BY <1>1, <1>5 DEF AnswersTo
    <2>2. newErrors = IF one.status = "Error" THEN oldErrors \cup {last} ELSE oldErrors
        BY <1>1, <1>3, <2>1
    <2>3. LastSaysDelivered(new, more) <=> one.status # "Error"
        BY <1>1, <1>3, <2>1 DEF LastSaysDelivered
    <2>4. IsFiniteSet(oldErrors) /\ Cardinality(oldErrors) \in Nat
        <3>1. IsFiniteSet(DOMAIN given)
            BY <1>1, FS_Interval
        <3> QED BY <1>3, <3>1, FS_Subset, FS_CardinalityType
    <2>5. Cardinality(newErrors) = IF one.status = "Error" THEN Cardinality(oldErrors) + 1
                                   ELSE Cardinality(oldErrors)
        <3>1. last \notin oldErrors
            BY <2>1
        <3> HIDE DEF oldErrors, newErrors, last
        <3> QED BY <2>2, <2>4, <3>1, FS_AddElement
    <2>6. after = Answered(q[i], IF one.status = "Error" THEN Cardinality(oldErrors) + 1
                                 ELSE Cardinality(oldErrors),
                           one.status # "Error", moment)
        <3>1. new # {}
            BY <2>1
        <3>2. LastSaysDelivered(new, more) = (one.status # "Error")
            BY <2>3 DEF LastSaysDelivered
        <3> HIDE DEF new, newErrors, oldErrors, more
        <3> QED BY <1>2, <2>5, <3>1, <3>2
    <2>7. q[i] \in QueueItem
        OBVIOUS
    <2>8. CASE old = {}
        <3>1. Cardinality(oldErrors) = 0 /\ before = q[i]
            BY <1>2, <2>8, FS_EmptySet
        <3> HIDE DEF old, oldErrors
        <3>2. after = Answered(q[i], IF one.status = "Error" THEN 1 ELSE 0,
                               one.status # "Error", moment)
            BY <2>6, <3>1
        <3> QED BY <1>5, <2>7, <3>1, <3>2, MarkIsOneAnswer
    <2>9. CASE old # {}
        <3>1. LastSaysDelivered(old, given) \in BOOLEAN
            BY DEF LastSaysDelivered
        <3>2. before = Answered(q[i], Cardinality(oldErrors),
                                LastSaysDelivered(old, given), moment)
            BY <1>2, <2>9
        <3> HIDE DEF old, oldErrors
        <3> QED BY <1>5, <2>4, <2>6, <2>7, <3>1, <3>2, MarkAfterAnswers
    <2> QED BY <2>8, <2>9
<1> QED BY <1>4, <1>5

\* No answers change nothing.
LEMMA NoAnswers ==
    ASSUME NEW q \in Seq(QueueItem), NEW time
    PROVE  ApplyPushResponse(q, <<>>, time) = q
<1>1. \A i \in DOMAIN q : AnswersTo(q, i, <<>>) = {}
    BY DEF AnswersTo
<1>2. ApplyPushResponse(q, <<>>, time) = [i \in DOMAIN q |-> q[i]]
    BY <1>1 DEF ApplyPushResponse
<1> QED BY <1>2

\* The comparison, with the types it rests on.
Agree == Typed /\ LoopMatchesOneStep

\* An item keeps its type and its id through a round.
LEMMA MarkKeeps ==
    ASSUME NEW item \in QueueItem, NEW status, moment \in Nat
    PROVE  Mark(item, status) \in QueueItem /\ Mark(item, status).id = item.id
BY MarkFields, QueueAssumption DEF QueueItem, SyncStatus

\* ... and through the answers of a push.
LEMMA ApplyKeepsIds ==
    ASSUME NEW q \in Seq(QueueItem), NEW given, NEW time
    PROVE  /\ DOMAIN ApplyPushResponse(q, given, time) = DOMAIN q
           /\ \A i \in DOMAIN q : ApplyPushResponse(q, given, time)[i].id = q[i].id
<1>1. DOMAIN ApplyPushResponse(q, given, time) = DOMAIN q
    BY DEF ApplyPushResponse
<1>2. ASSUME NEW i \in DOMAIN q
      PROVE  ApplyPushResponse(q, given, time)[i].id = q[i].id
    BY DEF ApplyPushResponse, Answered, QueueItem
<1> QED BY <1>1, <1>2

LEMMA ApplyOneAgrees ==
    ASSUME Agree, NEW id \in Ids, NEW status \in PushItemStatus, ApplyOne(id, status)
    PROVE  Agree'
<1> DEFINE one == [id |-> id, status |-> status]
           after == ApplyPushResponse(loaded, Append(applied, one), moment)
<1>1. /\ items \in Seq(QueueItem) /\ loaded \in Seq(QueueItem)
      /\ applied \in AnswerList /\ moment \in Nat
      /\ items = ApplyPushResponse(loaded, applied, moment)
    BY DEF Agree, Typed, LoopMatchesOneStep
<1>2. one \in [id: Ids, status: PushItemStatus] /\ one.id = id /\ one.status = status
    OBVIOUS
<1>3. /\ DOMAIN items = DOMAIN loaded
      /\ \A i \in DOMAIN loaded : items[i].id = loaded[i].id
    BY <1>1, ApplyKeepsIds
<1>4. /\ DOMAIN items' = DOMAIN items
      /\ \A i \in DOMAIN items :
            items'[i] = IF items[i].id = id /\ Named(items, i)
                        THEN Mark(items[i], status) ELSE items[i]
      /\ applied' = Append(applied, one) /\ loaded' = loaded /\ moment' = moment
    BY DEF ApplyOne
<1>5. ASSUME NEW i \in DOMAIN loaded
      PROVE  items'[i] = after[i] /\ items'[i] \in QueueItem
    <2>1. Named(items, i) <=> Named(loaded, i)
        BY <1>3 DEF Named
    <2>2. after[i] = IF loaded[i].id = id /\ Named(loaded, i)
                     THEN Mark(items[i], status) ELSE items[i]
        <3>1. items[i] = ApplyPushResponse(loaded, applied, moment)[i]
            BY <1>1
        <3>2. PICK result : result = after[i]
            OBVIOUS
        <3> HIDE DEF one
        <3> QED BY <1>1, <1>2, <3>1, <3>2, OneMoreAnswer
    <2>3. items[i] \in QueueItem
        BY <1>1, <1>3
    <2> HIDE DEF after
    <2> QED BY <1>1, <1>3, <1>4, <2>1, <2>2, <2>3, MarkKeeps
<1>6. DOMAIN after = DOMAIN loaded /\ after = [i \in DOMAIN loaded |-> after[i]]
    BY DEF ApplyPushResponse
<1>7. items' = [i \in DOMAIN loaded |-> items'[i]]
    BY <1>3, <1>4 DEF ApplyOne
<1>8. items' = after
    <2> HIDE DEF after
    <2> QED BY <1>5, <1>6, <1>7
<1>9. items' \in Seq(QueueItem)
    <2>1. items' \in [1 .. Len(loaded) -> QueueItem] /\ Len(loaded) \in Nat
        BY <1>1, <1>5, <1>7
    <2> QED BY <2>1
<1>10. applied' \in AnswerList
    BY <1>1, <1>2, <1>4 DEF AnswerList
<1>11. LoopMatchesOneStep'
    BY <1>4, <1>8 DEF LoopMatchesOneStep
<1> QED BY <1>1, <1>4, <1>9, <1>10, <1>11 DEF Agree, Typed

\* Every answer the loop of apply_push_response works through leaves the queue
\* one ApplyPushResponse would, for any queue and any answers.
THEOREM LoopIsOneStep == LoopSpec => []LoopMatchesOneStep
<1>1. LoopInit => Agree
    <2> SUFFICES ASSUME LoopInit PROVE Agree
        OBVIOUS
    <2>1. items = <<>> /\ loaded = <<>> /\ applied = <<>> /\ moment = 0
        BY DEF LoopInit
    <2>2. items \in Seq(QueueItem) /\ applied \in AnswerList
        BY <2>1 DEF AnswerList
    <2>3. LoopMatchesOneStep
        BY <2>1, <2>2, NoAnswers DEF LoopMatchesOneStep
    <2> QED BY <2>1, <2>2, <2>3 DEF Agree, Typed
<1>2. Agree /\ [LoopNext]_loopVars => Agree'
    <2> SUFFICES ASSUME Agree, [LoopNext]_loopVars PROVE Agree'
        OBVIOUS
    <2>1. ASSUME NEW id \in Ids, Submit(id) PROVE Agree'
        <3>1. NewItem(id) \in QueueItem
            BY DEF NewItem, QueueItem, SyncStatus, NoAttempt
        <3>2. items' \in Seq(QueueItem) /\ loaded' = items' /\ applied' = <<>> /\ moment' = moment
            BY <2>1, <3>1 DEF Submit, Enqueue, Agree, Typed
        <3>3. items' = ApplyPushResponse(loaded', applied', moment')
            BY <3>2, NoAnswers
        <3> QED BY <3>2, <3>3 DEF Agree, Typed, LoopMatchesOneStep, AnswerList
    <2>2. ASSUME NEW id \in Ids, NEW status \in PushItemStatus, ApplyOne(id, status)
          PROVE  Agree'
        BY <2>2, ApplyOneAgrees
    <2>3. ASSUME Save PROVE Agree'
        <3>1. /\ items' \in Seq(QueueItem) /\ loaded' = items' /\ applied' = <<>>
              /\ moment' \in Nat
            BY <2>3 DEF Save, Agree, Typed
        <3>2. items' = ApplyPushResponse(loaded', applied', moment')
            BY <3>1, NoAnswers
        <3> QED BY <3>1, <3>2 DEF Agree, Typed, LoopMatchesOneStep, AnswerList
    <2>4. CASE UNCHANGED loopVars
        BY <2>4 DEF loopVars, Agree, Typed, LoopMatchesOneStep
    <2> QED BY <2>1, <2>2, <2>3, <2>4 DEF LoopNext
<1>3. Agree => LoopMatchesOneStep
    BY DEF Agree
<1> QED BY <1>1, <1>2, <1>3, PTL DEF LoopSpec
=============================================================================
