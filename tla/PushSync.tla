------------------------------ MODULE PushSync ------------------------------
(***************************************************************************)
(* The delivery of queued submissions: runs of the collecta-cli commands   *)
(* `submit` and `push` on one device, the queue file they share, the       *)
(* request that travels to POST /api/v1/sync/push, and the handler that    *)
(* files its items one by one.                                             *)
(*                                                                         *)
(* A command loads the whole queue file, works on its copy and writes the  *)
(* whole copy back (json_file.rs: temporary file and rename, so a load     *)
(* sees one complete version); nothing locks the file between the two.     *)
(* The handler looks up an item's form in one statement and inserts the    *)
(* submission in another; deletes of forms and submissions by their owner  *)
(* fall between any two.  A request or an answer may be lost, the client   *)
(* gives up after its timeout while the handler goes on, a command may be  *)
(* killed before it writes, and the server may drop a handler at any       *)
(* point.                                                                  *)
(***************************************************************************)
EXTENDS SyncQueue

CONSTANTS
    Procs,       \* runs of the command line client that may overlap
    NoProc,      \* the client of a handler whose connection is gone
    Slots,       \* handlers the server may be running at once
    Forms,
    FormOf,      \* the form each submission is filed under
    Valid,       \* the submissions its form accepts
    MaxCopies,   \* bound: times the user runs `submit` on one submission
    MaxCrashes,  \* bound: commands killed before they write
    MaxDeletes   \* bound: forms and submissions deleted by their owner

ASSUME PushAssumption ==
    /\ NoProc \notin Procs
    /\ FormOf \in [Ids -> Forms]
    /\ Valid \subseteq Ids
    /\ MaxCopies \in Nat /\ MaxCrashes \in Nat /\ MaxDeletes \in Nat

VARIABLES
    file,      \* the queue file
    pc,        \* where each run of the client stands
    mem,       \* the queue a running command has loaded
    request,   \* the batch a push has sent
    handler,   \* the sync_push handlers on the server
    live,      \* forms that exist and are not tombstones
    onFile,    \* rows of the submissions table
    clock,     \* seconds, in units of the model's backoff
    \* Observations, which no action reads but to respect a bound:
    copies,    \* `submit` runs per submission
    queued,    \* submissions whose `submit` reported success
    uploads,   \* times each submission went out in a batch
    crashes,
    removed,   \* submissions whose row an owner deleted
    deletes

deviceVars == <<file, pc, mem, request>>
serverVars == <<handler, live, onFile>>
submitVars == <<copies, queued>>
deleteVars == <<removed, deletes>>
vars == <<deviceVars, serverVars, clock, submitVars, uploads, crashes, deleteVars>>

PcStates == {"idle", "submitting", "sending", "waiting"}

EmptyFunction == <<>>

\* A handler with no request; "form" is before the form of the next item is
\* looked up, "insert" between that and the insert.
Free == [step |-> "free", client |-> NoProc,
         request |-> EmptyFunction, results |-> EmptyFunction]

Init ==
    /\ file = <<>>
    /\ pc = [p \in Procs |-> "idle"]
    /\ mem = [p \in Procs |-> <<>>]
    /\ request = [p \in Procs |-> EmptyFunction]
    /\ handler = [h \in Slots |-> Free]
    /\ live = Forms
    /\ onFile = {}
    /\ clock = 0
    /\ copies = [id \in Ids |-> 0]
    /\ queued = {}
    /\ uploads = [id \in Ids |-> 0]
    /\ crashes = 0
    /\ removed = {}
    /\ deletes = 0

-----------------------------------------------------------------------------
(* The client.                                                             *)

\* A command ends: what it held in memory is gone.
Exit(p) ==
    /\ pc' = [pc EXCEPT ![p] = "idle"]
    /\ mem' = [mem EXCEPT ![p] = <<>>]
    /\ request' = [request EXCEPT ![p] = EmptyFunction]

\* The handler working for p, if any, has nobody to answer any more.
HangUp(p) ==
    handler' = [h \in Slots |->
        IF handler[h].client = p THEN [handler[h] EXCEPT !.client = NoProc]
        ELSE handler[h]]

\* `submit`: load the queue file and enqueue.
SubmitLoad(p, id) ==
    /\ pc[p] = "idle"
    /\ copies[id] < MaxCopies
    /\ copies' = [copies EXCEPT ![id] = @ + 1]
    /\ mem' = [mem EXCEPT ![p] = Enqueue(file, id)]
    /\ pc' = [pc EXCEPT ![p] = "submitting"]
    /\ UNCHANGED <<file, request, serverVars, clock, queued, uploads, crashes, deleteVars>>

\* ... and save it.
SubmitSave(p) ==
    /\ pc[p] = "submitting"
    /\ file' = mem[p]
    /\ queued' = queued \cup {mem[p][Len(mem[p])].id}
    /\ Exit(p)
    /\ UNCHANGED <<serverVars, clock, copies, uploads, crashes, deleteVars>>

\* `push`: load the queue file and build the batch; an empty one ends the
\* command with nothing changed.
PushLoad(p) ==
    LET batch == BuildPushRequest(file, clock)
    IN  /\ pc[p] = "idle"
        /\ DOMAIN batch # {}
        /\ mem' = [mem EXCEPT ![p] = file]
        /\ request' = [request EXCEPT ![p] = batch]
        /\ pc' = [pc EXCEPT ![p] = "sending"]
        /\ uploads' = [id \in Ids |->
               uploads[id] + Cardinality({i \in DOMAIN batch : batch[i] = id})]
        /\ UNCHANGED <<file, serverVars, clock, submitVars, crashes, deleteVars>>

\* The request reaches the server.
Arrive(p, h) ==
    /\ pc[p] = "sending"
    /\ handler[h].step = "free"
    /\ handler' = [handler EXCEPT ![h] =
           [step |-> "form", client |-> p,
            request |-> request[p], results |-> EmptyFunction]]
    /\ pc' = [pc EXCEPT ![p] = "waiting"]
    /\ UNCHANGED <<file, mem, request, live, onFile, clock, submitVars,
                   uploads, crashes, deleteVars>>

\* No usable answer: the server was not reached, refused the request, was
\* lost, or did not answer within the timeout.  The whole batch has failed.
PushFails(p) ==
    /\ pc[p] \in {"sending", "waiting"}
    /\ file' = MarkBatchFailed(mem[p], request[p], clock)
    /\ Exit(p)
    /\ HangUp(p)
    /\ UNCHANGED <<live, onFile, clock, submitVars, uploads, crashes, deleteVars>>

\* A command is killed, or cannot write the file.
Crash(p) ==
    /\ pc[p] # "idle"
    /\ crashes < MaxCrashes
    /\ crashes' = crashes + 1
    /\ Exit(p)
    /\ HangUp(p)
    /\ UNCHANGED <<file, live, onFile, clock, submitVars, uploads, deleteVars>>

-----------------------------------------------------------------------------
(* The sync_push handler.                                                  *)

Todo(h) == DOMAIN handler[h].request \ DOMAIN handler[h].results

\* The items are taken in the order of the batch.
IsNext(h, i) == i \in Todo(h) /\ \A j \in Todo(h) : i <= j

\* Mutant: the result goes to the position after the item's.
MutantResultShifted(h, i, status) ==
    LET done == handler[h].results
        more == [j \in DOMAIN done \cup {i + 1} |-> IF j = i + 1 THEN status ELSE done[j]]
    IN  handler' = [handler EXCEPT ![h] = [@ EXCEPT !.step = "form", !.results = more]]

\* The result of item i, after which the handler turns to the next one.
Result(h, i, status) ==
    LET done == handler[h].results
        more == [j \in DOMAIN done \cup {i} |-> IF j = i THEN status ELSE done[j]]
    IN  handler' = [handler EXCEPT ![h] = [@ EXCEPT !.step = "form", !.results = more]]

UNCHANGEDOutside == UNCHANGED <<deviceVars, clock, submitVars, uploads, crashes>>

\* push_one up to the insert: the form must exist and accept the submission.
CheckForm(h) ==
    /\ handler[h].step = "form"
    /\ \E i \in Todo(h) :
        LET id == handler[h].request[i]
        IN  /\ IsNext(h, i)
            /\ IF FormOf[id] \in live /\ id \in Valid
               THEN handler' = [handler EXCEPT ![h].step = "insert"]
               ELSE Result(h, i, "Error")
    /\ UNCHANGED <<live, onFile, deleteVars>> /\ UNCHANGEDOutside

\* INSERT OR IGNORE: a new id is filed, one on file is left as it is.
Insert(h) ==
    /\ handler[h].step = "insert"
    /\ \E i \in Todo(h) :
        LET id == handler[h].request[i]
        IN  /\ IsNext(h, i)
            /\ onFile' = onFile \cup {id}
            /\ Result(h, i, IF id \in onFile THEN "Duplicate" ELSE "Accepted")
    /\ UNCHANGED <<live, deleteVars>> /\ UNCHANGEDOutside

\* Mutant: an insert that failed is taken for one that found the id on file.
MutantStorageErrorIgnored(h) ==
    /\ handler[h].step \in {"form", "insert"}
    /\ \E i \in Todo(h) : IsNext(h, i) /\ Result(h, i, "Duplicate")
    /\ UNCHANGED <<live, onFile, deleteVars>> /\ UNCHANGEDOutside

\* Either statement of push_one fails; the item is answered with an error.
StorageError(h) ==
    /\ handler[h].step \in {"form", "insert"}
    /\ \E i \in Todo(h) : IsNext(h, i) /\ Result(h, i, "Error")
    /\ UNCHANGED <<live, onFile, deleteVars>> /\ UNCHANGEDOutside

\* Every item has its result.  The client, if it still waits, records the
\* results in the copy it loaded and writes that copy.
Answer(h) ==
    LET p == handler[h].client
        response == [i \in DOMAIN handler[h].request |->
                        [id |-> handler[h].request[i], status |-> handler[h].results[i]]]
    IN  /\ handler[h].step = "form"
        /\ Todo(h) = {}
        /\ handler' = [handler EXCEPT ![h] = Free]
        /\ IF p = NoProc THEN UNCHANGED deviceVars
           ELSE file' = ApplyPushResponse(mem[p], response, clock) /\ Exit(p)
        /\ UNCHANGED <<live, onFile, clock, submitVars, uploads, crashes, deleteVars>>

\* The server stops, or drops the handler of a closed connection.
HandlerLost(h) ==
    /\ handler[h].step # "free"
    /\ handler' = [handler EXCEPT ![h] = Free]
    /\ UNCHANGED <<live, onFile, deleteVars>> /\ UNCHANGEDOutside

-----------------------------------------------------------------------------
(* What else changes the rows, and time.                                   *)

Delete(ids) ==
    /\ deletes < MaxDeletes
    /\ deletes' = deletes + 1
    /\ onFile' = onFile \ ids
    /\ removed' = removed \cup (onFile \cap ids)
    /\ UNCHANGED handler /\ UNCHANGEDOutside

DeleteSubmission(id) == id \in onFile /\ Delete({id}) /\ UNCHANGED live

\* The form becomes a tombstone and its submissions go, in one transaction.
DeleteForm(f) ==
    /\ f \in live
    /\ live' = live \ {f}
    /\ Delete({id \in Ids : FormOf[id] = f})

\* Writing a form under a deleted id brings it back.
RestoreForm(f) ==
    /\ f \notin live
    /\ live' = live \cup {f}
    /\ UNCHANGED <<handler, onFile, deleteVars>> /\ UNCHANGEDOutside

\* Time matters only to an item that waits out its backoff.
Tick ==
    /\ Pending(file) # Due(file, clock)
    /\ clock' = clock + 1
    /\ UNCHANGED <<deviceVars, serverVars, submitVars, uploads, crashes, deleteVars>>

Next ==
    \/ \E p \in Procs : \/ \E id \in Ids : SubmitLoad(p, id)
                        \/ SubmitSave(p)
                        \/ PushLoad(p)
                        \/ \E h \in Slots : Arrive(p, h)
                        \/ PushFails(p)
                        \/ Crash(p)
    \/ \E h \in Slots : \/ CheckForm(h)
                        \/ Insert(h)
                        \/ StorageError(h)
                        \/ Answer(h)
                        \/ HandlerLost(h)
    \/ \E id \in Ids : DeleteSubmission(id)
    \/ \E f \in Forms : DeleteForm(f) \/ RestoreForm(f)
    \/ Tick

Spec == Init /\ [][Next]_vars

\* The user runs `push` again and again, a command that has started ends by
\* itself (http.rs puts 30 s on every request), and time goes on.  Nothing is
\* assumed of the network or the server.
ClientFairness ==
    /\ \A p \in Procs : /\ WF_vars(SubmitSave(p))
                        /\ WF_vars(PushLoad(p))
                        /\ WF_vars(PushFails(p))
    /\ WF_vars(Tick)

FairSpec == Spec /\ ClientFairness

-----------------------------------------------------------------------------
(* Properties.                                                             *)

Request(r) == IsFiniteSet(DOMAIN r) /\ DOMAIN r \subseteq Nat /\ r \in [DOMAIN r -> Ids]

Handler(r) ==
    /\ r.step \in {"free", "form", "insert"}
    /\ r.client \in Procs \cup {NoProc}
    /\ Request(r.request)
    /\ DOMAIN r.results \subseteq DOMAIN r.request
    /\ r.results \in [DOMAIN r.results -> PushItemStatus]
    /\ r = [step |-> r.step, client |-> r.client,
            request |-> r.request, results |-> r.results]

\* Every variable holds a value of its type: the queue file and every loaded
\* queue (sync_queue.rs) are lists of items, and the handlers of sync_push
\* answer only items they were asked about.
TypeOK ==
    /\ file \in Seq(QueueItem)
    /\ pc \in [Procs -> PcStates]
    /\ mem \in [Procs -> Seq(QueueItem)]
    /\ request = [p \in Procs |-> request[p]]
    /\ \A p \in Procs : Request(request[p])
    /\ handler = [h \in Slots |-> handler[h]]
    /\ \A h \in Slots : Handler(handler[h])
    /\ live \subseteq Forms
    /\ onFile \subseteq Ids
    /\ clock \in Nat
    /\ copies \in [Ids -> Nat]
    /\ queued \subseteq Ids
    /\ uploads \in [Ids -> Nat]
    /\ crashes \in Nat
    /\ removed \subseteq Ids
    /\ deletes \in Nat

\* The item an id names (find_mut).
ItemOf(id) == file[CHOOSE i \in DOMAIN file : file[i].id = id /\ Named(file, i)]

InFile(id) == \E i \in DOMAIN file : file[i].id = id

\* Whatever was lost, repeated, killed or overlapped, an item the queue file
\* calls synced is on the server, or was until an owner deleted it
\* (apply_push_response, push_one).
SyncedIsOnServer ==
    \A i \in DOMAIN file :
        file[i].status = "Synced" => file[i].id \in onFile \cup removed

\* An item is given up only after MaxRetries failed attempts, and one that
\* has had them is never left waiting for another (mark_failed, pending).
AbandonedMeansExhausted ==
    \A i \in DOMAIN file :
        /\ file[i].status = "Abandoned" => file[i].retries >= MaxRetries
        /\ file[i].status = "Failed" => file[i].retries \in 1 .. MaxRetries - 1
        /\ file[i].status = "Pending" => file[i].retries = 0 /\ file[i].last = NoAttempt

\* A submission `submit` has reported queued is in the queue file from then on
\* (main.rs:6: it "stays queued until the server has taken it").
QueuedStaysQueued == \A id \in queued : InFile(id)

\* A submission goes out at most MaxRetries times, plus once for every push
\* that was killed before it could count the attempt.
UploadsBounded == \A id \in Ids : uploads[id] <= MaxRetries + crashes

\* The handler's last word on the submission at position i is that it is there.
Confirmed(h, i) ==
    /\ handler[h].results[i] # "Error"
    /\ \A j \in DOMAIN handler[h].results :
           j > i /\ handler[h].request[j] = handler[h].request[i] => handler[h].results[j] # "Error"

\* When a push gets its answer, the item that a confirmed id names is synced in
\* the file, for Accepted and Duplicate alike (sync_queue.rs:169).  An id names
\* the first item that carries it; of a submission queued twice the second item
\* is not settled by any answer, and nothing is said of it here.
DeliveredItemsAreSynced ==
    [][\A h \in Slots : Answer(h) /\ handler[h].client # NoProc =>
        \A i \in DOMAIN handler[h].results : Confirmed(h, i) =>
            /\ \E k \in DOMAIN file' : file'[k].id = handler[h].request[i]
            /\ \A k \in DOMAIN file' :
                   file'[k].id = handler[h].request[i] /\ Named(file', k)
                       => file'[k].status = "Synced"]_vars

\* Two failed attempts of an item recorded in the file are never closer than
\* the wait its backoff imposes after the first (due, next_attempt_at).
RetriesAreSpaced ==
    [][\A i \in DOMAIN file \cap DOMAIN file' :
        file'[i].retries > file[i].retries /\ file[i].last # NoAttempt
            => clock >= file[i].last + Wait(file[i])]_vars

\* A report is final: no step takes an item out of Synced or Abandoned, and no
\* step takes back a counted attempt.
ReportsAreFinal ==
    [][\A i \in DOMAIN file :
        /\ i \in DOMAIN file' /\ file'[i].id = file[i].id
        /\ file[i].status \in {"Synced", "Abandoned"} => file'[i] = file[i]
        /\ file'[i].retries >= file[i].retries]_vars

\* Every queued submission ends up delivered or given up, whatever the network
\* and the server do, as long as the user goes on pushing.
QueueDrains ==
    \A id \in Ids :
        id \in queued ~> InFile(id) /\ ItemOf(id).status \in {"Synced", "Abandoned"}

\* With one command at a time, the push protocol keeps the queue's promise.
Phase(id) ==
    IF ~ InFile(id) THEN "new"
    ELSE CASE ItemOf(id).status = "Synced" -> "delivered"
           [] ItemOf(id).status = "Abandoned" -> "given up"
           [] OTHER -> "queued"

Abstract == INSTANCE Delivery WITH
    phase <- [id \in Ids |-> Phase(id)], taken <- onFile \cup removed

KeepsPromise == Abstract!Spec
=============================================================================
