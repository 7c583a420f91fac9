------------------------------ MODULE Publish ------------------------------
(***************************************************************************)
(* POST /api/v1/forms/{id}/publish: the submissions of one form become     *)
(* features of a dataset in ptolemy, an external service.                  *)
(*                                                                         *)
(* The first publish creates the dataset, its schema and its branch, one   *)
(* call each, and records the two ids on the form; every publish commits   *)
(* what no earlier one recorded, in batches, and records each batch after  *)
(* ptolemy accepted it.  A call to ptolemy may take effect and its answer  *)
(* be lost; the server may drop a handler anywhere; nothing keeps two      *)
(* publishes of one form apart.                                            *)
(***************************************************************************)
EXTENDS Naturals, FiniteSets

CONSTANTS
    Submissions,
    Located,       \* the ones with a geometry or a device location
    BatchSize,     \* PUBLISH_BATCH_SIZE
    Slots,         \* publish handlers the server may be running at once
    MaxFilings,    \* bound: submissions filed
    MaxDeletes,    \* bound: forms and submissions deleted
    MaxFailures    \* bound: publishes that fail

ASSUME PublishAssumption ==
    /\ Located \subseteq Submissions
    /\ BatchSize \in Nat \ {0}
    /\ MaxFilings \in Nat /\ MaxDeletes \in Nat /\ MaxFailures \in Nat

VARIABLES
    live,        \* the form exists and is not a tombstone
    rows,        \* the rowid of each submission of the form, 0 for none
    published,   \* the published_submissions table
    target,      \* the dataset recorded on the form, 0 for none
    handler,     \* the publish handlers at work
    \* ptolemy
    datasets,    \* how many datasets it has created for us
    schemas,     \* datasets with a schema
    branches,    \* datasets with a branch `main`
    features,    \* <<dataset, submission, rowid>> for every feature committed
    \* Observations, which no action reads but to respect a bound:
    resent,      \* submissions committed a second time
    freed,       \* submissions deleted while a publish held them
    filings, deletes, failures

storeVars == <<live, rows, published, target>>
ptolemyVars == <<datasets, schemas, branches, features, resent>>
bounds == <<filings, deletes, failures>>
vars == <<storeVars, handler, ptolemyVars, freed, bounds>>

\* dataset is the one this publish works on; todo what it has read and not yet
\* recorded, as pairs of a submission and its rowid.
Free == [step |-> "free", dataset |-> 0, todo |-> {}]

Init ==
    /\ live = TRUE
    /\ rows = [s \in Submissions |-> 0]
    /\ published = {}
    /\ target = 0
    /\ handler = [h \in Slots |-> Free]
    /\ datasets = 0 /\ schemas = {} /\ branches = {} /\ features = {} /\ resent = {}
    /\ freed = {}
    /\ filings = 0 /\ deletes = 0 /\ failures = 0

-----------------------------------------------------------------------------
(* The publish handler.                                                    *)

Step(h, s) == handler' = [handler EXCEPT ![h].step = s]
Done(h) == handler' = [handler EXCEPT ![h] = Free]

\* ptolemy did what it was asked; the answer arrives, or is lost or refused and
\* the publish ends with an error.
Answered(h, new) ==
    \/ handler' = [handler EXCEPT ![h] = new] /\ UNCHANGED failures
    \/ failures < MaxFailures /\ failures' = failures + 1 /\ Done(h)

\* require_owner lets the request in.
Ask(h) ==
    /\ handler[h] = Free
    /\ live
    /\ Step(h, "form")
    /\ UNCHANGED <<storeVars, ptolemyVars, bounds, freed>>

GetForm(h) ==
    /\ handler[h].step = "form"
    /\ IF live THEN Step(h, "target") ELSE Done(h)
    /\ UNCHANGED <<storeVars, ptolemyVars, bounds, freed>>

\* Mutant: the ids are read as if none were recorded.
MutantHasTarget == FALSE

\* publish_target.
HasTarget == live /\ target # 0

PublishTarget(h) ==
    /\ handler[h].step = "target"
    /\ IF HasTarget
         THEN handler' = [handler EXCEPT ![h].step = "rows", ![h].dataset = target]
         ELSE Step(h, "dataset")
    /\ UNCHANGED <<storeVars, ptolemyVars, bounds, freed>>

\* Mutant: the dataset is recorded as soon as it exists.
MutantCreateDataset(h) ==
    /\ handler[h].step = "dataset"
    /\ datasets' = datasets + 1
    /\ target' = datasets + 1
    /\ Answered(h, [handler[h] EXCEPT !.step = "schema", !.dataset = datasets + 1])
    /\ UNCHANGED <<live, rows, published, schemas, branches, features, resent, filings, deletes, freed>>

\* create_target: the dataset,
CreateDataset(h) ==
    /\ handler[h].step = "dataset"
    /\ datasets' = datasets + 1
    /\ Answered(h, [handler[h] EXCEPT !.step = "schema", !.dataset = datasets + 1])
    /\ UNCHANGED <<storeVars, schemas, branches, features, resent, filings, deletes, freed>>

\* its schema,
PutSchema(h) ==
    /\ handler[h].step = "schema"
    /\ schemas' = schemas \cup {handler[h].dataset}
    /\ Answered(h, [handler[h] EXCEPT !.step = "branch"])
    /\ UNCHANGED <<storeVars, datasets, branches, features, resent, filings, deletes, freed>>

\* and its branch.  The list of branches is asked for first; the dataset is new
\* and only this publish knows it, so the list is empty and asking is no step of
\* its own.  A publish that dies between the two calls is PublishFails.
CreateBranch(h) ==
    /\ handler[h].step = "branch"
    /\ branches' = branches \cup {handler[h].dataset}
    /\ Answered(h, [handler[h] EXCEPT !.step = "record"])
    /\ UNCHANGED <<storeVars, datasets, schemas, features, resent, filings, deletes, freed>>

SetPublishTarget(h) ==
    /\ handler[h].step = "record"
    /\ target' = handler[h].dataset
    /\ Step(h, "rows")
    /\ UNCHANGED <<live, rows, published, ptolemyVars, bounds, freed>>

Unpublished == {s \in Submissions : rows[s] # 0 /\ s \notin published}

\* Mutant: those without a geometry go out too.
MutantOperations == Unpublished

\* Mutant: nothing goes out once something was published.
MutantNoOperations == IF published = {} THEN Unpublished \cap Located ELSE {}

\* insert_operation makes none for a submission without a geometry.
Operations == Unpublished \cap Located

ReadUnpublished(h) ==
    LET todo == {<<s, rows[s]>> : s \in Operations} IN
    /\ handler[h].step = "rows"
    /\ IF todo = {} THEN Done(h)
       ELSE handler' = [handler EXCEPT ![h].step = "commit", ![h].todo = todo]
    /\ UNCHANGED <<storeVars, ptolemyVars, bounds, freed>>

\* The oldest of what is left to do.
Batch(h) ==
    LET todo == handler[h].todo IN
    {t \in todo : Cardinality({o \in todo : o[2] < t[2]}) < BatchSize}

Sent(h) == {<<handler[h].dataset, t[1], t[2]>> : t \in Batch(h)}

Commit(h) ==
    /\ handler[h].step = "commit"
    /\ features' = features \cup Sent(h)
    /\ resent' = resent \cup {f[2] : f \in features \cap Sent(h)}
    /\ Answered(h, [handler[h] EXCEPT !.step = "mark"])
    /\ UNCHANGED <<storeVars, datasets, schemas, branches, filings, deletes, freed>>

\* Mutant: everything read is marked with the first batch.
MutantMarked(h) == {t[1] : t \in handler[h].todo}

Marked(h) == {t[1] : t \in Batch(h)}

\* record_published, whether or not the rows are still there.
RecordPublished(h) ==
    LET rest == handler[h].todo \ Batch(h) IN
    /\ handler[h].step = "mark"
    /\ published' = published \cup Marked(h)
    /\ IF rest = {} THEN Done(h)
       ELSE handler' = [handler EXCEPT ![h].step = "commit", ![h].todo = rest]
    /\ UNCHANGED <<live, rows, target, ptolemyVars, bounds, freed>>

\* A refused or unreachable ptolemy, a storage error, a server that goes down.
PublishFails(h) ==
    /\ handler[h] # Free
    /\ failures < MaxFailures
    /\ failures' = failures + 1
    /\ Done(h)
    /\ UNCHANGED <<storeVars, ptolemyVars, filings, deletes, freed>>

-----------------------------------------------------------------------------
(* The rest of the server, on this form.                                   *)

FileSubmission(s) ==
    /\ live /\ rows[s] = 0
    /\ filings < MaxFilings
    /\ filings' = filings + 1
    /\ rows' = [rows EXCEPT ![s] = filings + 1]
    /\ UNCHANGED <<live, published, target, handler, ptolemyVars, freed, deletes, failures>>

Held == UNION {{t[1] : t \in handler[h].todo} : h \in Slots}

DeleteSubmission(s) ==
    /\ live /\ rows[s] # 0
    /\ deletes < MaxDeletes
    /\ deletes' = deletes + 1
    /\ rows' = [rows EXCEPT ![s] = 0]
    /\ published' = published \ {s}
    /\ freed' = freed \cup (Held \cap {s})
    /\ UNCHANGED <<live, target, handler, ptolemyVars, filings, failures>>

\* The tombstone keeps the ids of dataset and branch.
DeleteForm ==
    /\ live
    /\ deletes < MaxDeletes
    /\ deletes' = deletes + 1
    /\ live' = FALSE
    /\ rows' = [s \in Submissions |-> 0]
    /\ published' = {}
    /\ freed' = freed \cup Held
    /\ UNCHANGED <<target, handler, ptolemyVars, filings, failures>>

RestoreForm ==
    /\ ~live
    /\ live' = TRUE
    /\ UNCHANGED <<rows, published, target, handler, ptolemyVars, freed, bounds>>

Work(h) ==
    \/ GetForm(h) \/ PublishTarget(h) \/ CreateDataset(h) \/ PutSchema(h) \/ CreateBranch(h)
    \/ SetPublishTarget(h) \/ ReadUnpublished(h) \/ Commit(h) \/ RecordPublished(h)

Next ==
    \/ \E h \in Slots : Ask(h) \/ Work(h) \/ PublishFails(h)
    \/ \E s \in Submissions : FileSubmission(s) \/ DeleteSubmission(s)
    \/ DeleteForm \/ RestoreForm

Spec == Init /\ [][Next]_vars

\* The owner publishes again and again, and the server works on what it is
\* asked: nothing publishes on its own.
Fairness == \A h \in Slots : WF_vars(Ask(h)) /\ WF_vars(Work(h))

FairSpec == Spec /\ Fairness

-----------------------------------------------------------------------------
(* Properties.                                                             *)

TypeOK ==
    /\ live \in BOOLEAN
    /\ rows \in [Submissions -> 0..filings]
    /\ \A s, t \in Submissions : rows[s] = rows[t] /\ s # t => rows[s] = 0
    /\ published \subseteq Located
    /\ target \in 0..datasets
    /\ schemas \subseteq 1..datasets /\ branches \subseteq schemas
    /\ features \subseteq branches \X Located \X (1..filings)
    /\ \A h \in Slots :
        /\ handler[h].step \in {"free", "form", "target", "dataset", "schema", "branch", "record",
                                "rows", "commit", "mark"}
        /\ handler[h].dataset \in 0..datasets
        /\ handler[h].todo \subseteq Located \X (1..filings)
        /\ handler[h].step \in {"commit", "mark"} => handler[h].todo # {}

\* A submission on file that is recorded as published is a feature of the
\* dataset the form points at, as it was last filed, so that no later publish
\* need send it (record_published, unpublished_submissions).  Left out are the
\* ids deleted while a publish held them: its record outlives the delete.
PublishedIsInTheDataset ==
    \A s \in published \ freed : rows[s] # 0 => <<target, s, rows[s]>> \in features

\* The submissions on file are features of one dataset, the one recorded.
OneDataset == \A f \in features : rows[f[2]] = f[3] => f[1] = target

\* What a handler works with has its schema and its branch, and is recorded,
\* before a feature goes in: no publish that died half way leaves a target
\* that a later one would commit to without them.
TargetIsComplete ==
    /\ target # 0 => target \in schemas \cap branches
    /\ \A f \in features : f[1] \in schemas \cap branches

\* A submission is sent to ptolemy once.
SentOnce == resent = {}

\* Under the overlap of any publishes a weaker form of PublishedIsInTheDataset:
\* what is recorded as published was accepted by ptolemy as it is on file, into
\* some dataset made for the form.
RecordedWasAccepted ==
    \A s \in published \ freed : rows[s] # 0 => \E f \in features : f[2] = s /\ f[3] = rows[s]

\* The publishes that met no target are over, and the others work on the one
\* that was recorded last.
Settled ==
    /\ live /\ target # 0
    /\ \A h \in Slots :
        /\ handler[h].step \notin {"dataset", "schema", "branch", "record"}
        /\ handler[h].step \in {"rows", "commit", "mark"} => handler[h].dataset = target

\* From then on and until the form is deleted no publish makes another dataset
\* or commits to one, so that no submission gets into a second.
KeepsSettled ==
    Settled => /\ UNCHANGED <<target, datasets>>
               /\ Settled' \/ ~ live'
               /\ \A f \in features' \ features : f[1] = target
               /\ OneDataset => OneDataset'

StaysSettled == [][KeepsSettled]_vars

\* With the failures over and the owner publishing on, everything on file with
\* a location is recorded as published.
EverythingIsPublished ==
    \A s \in Located : rows[s] # 0 ~> s \in published \/ rows[s] = 0
=============================================================================
