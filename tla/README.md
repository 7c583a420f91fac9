# A TLA+ development of collecta

collecta collects data offline. A server keeps forms and the submissions filed
under them; devices pull forms, fill them in without a network, queue what they
collected and push it later; ODK Collect speaks OpenRosa to the same server; an
owner publishes the submissions of a form to an external feature store, ptolemy.

This directory holds specifications of the parts of that code whose correctness
depends on an order of events or on two computations agreeing, the TLC
configurations that check them on small instances, and proofs, checked by TLAPS,
of what holds for every instance. `PROJECT.json` lists the components, the runs,
the lines each definition translates, the hazards and the theorems. Paths below
are relative to the repository; "store.rs", "lib.rs" and the like are files of
the crate named beside them.

Contents: 1 inventory, 2 modules and plan, 3 how the modules correspond to the
code, 4 runs, 5 fairness, 6 where the code and its documents disagree, 7 what is
proved, 8 what is not modelled, 9 what comes next.

## 1. Inventory

| component | source | state it keeps | operations | what makes it correct |
|---|---|---|---|---|
| sync queue | collecta-core `sync_queue.rs`, `sync_protocol.rs` | a list of items: id, status, attempts, time of the last | enqueue, pending, mark synced / failed, apply a push response | nothing queued is lost, nothing is called synced that the server has not taken, attempts are counted, bounded and spaced |
| command line client | collecta-cli `main.rs`, `push.rs`, `pull.rs`, `json_file.rs`, `http.rs` | the queue file and the forms file, each read whole and replaced whole | submit, push, pull, status | the above across crashes, timeouts and overlapping commands |
| pulled forms | collecta-core `pulled_forms.rs` | forms and a cursor | apply a pull response | the device holds the forms of one state of the server and never goes back |
| server store and its handlers | collecta-server `store.rs`, `lib.rs`, `auth.rs` | forms with tombstones, submissions, grants, users | create/edit/delete/restore a form; file, list, delete submissions; share and revoke | only owners destroy or share; the gate's answer still holds when the handler acts; no data of a deleted form survives |
| OpenRosa submissions | collecta-server `openrosa/submission.rs`, `attachment.rs` | submissions by instanceID, attachment rows, files on disk | post an instance and its media, sweep after a delete | one submission per instance, each file once, nothing confirmed is missing, nothing listed is missing |
| OpenRosa form list and XForms | collecta-server `openrosa/mod.rs`, `xform.rs` | none | list the forms that can be rendered, render one | what the device asks is what the server checks |
| OpenRosa instances | collecta-server `openrosa/instance.rs` | while it parses: a stack of open elements, the last root, a count | build the tree from XML events, map it onto a form, type its texts | the tree is that of the document and stays within its limits; no answer is lost |
| form model and validation | collecta-core `form.rs`, `validation.rs`, `submission.rs` | none | evaluate conditions and constraints | no complete submission is refused, no incomplete one stored |
| XLSForm importer | collecta-xlsform `lib.rs` | while it reads: a stack of open groups and repeats | read a sheet into a form | every row comes into its repeat and group; its conditions mean what the sheet says |
| publishing | collecta-server `publish.rs` | dataset and branch recorded on the form, table of published submissions | create the target, commit in batches, record each batch | each submission once, in one complete dataset |
| attachment store, errors, server start | collecta-core `attachment.rs`, `error.rs`, collecta-server `main.rs` | — | — | not modelled, see 8 |

How they interact. A device talks to the server over HTTP and both sides lose
things: the client gives up after 30 s (http.rs:44) while the handler goes on.
Handlers share the SQLite store. A statement or transaction of it is atomic; a
handler is a sequence of them, and other handlers run in between. Two runs of
the client share files and no lock. The server calls ptolemy, which may do what
it was asked while its answer is lost. A form travels from the importer to the
store to the XForm to the device, and its answers come back through the instance
mapping to the validation: five readings of one `relevant` expression.

What is hard here, in the order in which it is modelled:

1. a push that is retried, killed, timed out or overlapped by another command;
2. a pull whose cursor is compared with rows that commit out of the order of
   their time stamps;
3. a handler whose permission check and whose act are two statements;
4. an OpenRosa post that is repeated while its first copy still writes, and
   deletes that sweep the disk under it;
5. a publish that dies between two calls, or loses an answer;
6. a condition evaluated on the device over paths and on the server over names;
7. a sheet, the form made of it, the instance a device writes and the tree parsed
   from it: nested, flattened, nested again and mapped back by name.

`PROJECT.json` lists forty such hazards at their lines, with the properties that
would notice them.

## 2. Modules

| module | models | builds on |
|---|---|---|
| `SyncQueue` | the queue's operations, as functions on sequences of items | |
| `SyncQueueLoop` | the loop of `apply_push_response`, one answer at a time | `SyncQueue` |
| `Delivery` | abstract: what the queue promises its user | |
| `PushSync` | submit and push, the queue file, the request, `sync_push`, deletes by the owner, time | `SyncQueue`; implements `Delivery` |
| `PushSyncProofs` | types, truth of reports, exhaustion, what an answer settles; with one command at a time nothing is lost, reports are final, uploads bounded, retries spaced, and it implements `Delivery`; the loop computes what `SyncQueue!ApplyPushResponse` says | `PushSync`, `SyncQueueLoop` |
| `Mirror` | abstract: a device goes through the server's states in their order | |
| `FormPull` | writes of the forms table, `sync_forms`, the pull command | implements `Mirror` |
| `FormPullProofs` | types; while rows are committed in the order of their stamps, nothing is skipped, and it implements `Mirror` | `FormPull` |
| `FormStore` | the JSON API's handlers over forms, submissions and grants | |
| `FormStoreProofs` | types, owners, readers, creators, rows, and what comes under a tombstone | `FormStore` |
| `OpenRosa` | posts of an instance with media, and deletes | |
| `OpenRosaProofs` | its four invariants | `OpenRosa` |
| `Publish` | publishing to ptolemy | |
| `PublishProofs` | types; targets are complete, what is recorded was accepted, and once the first publishes are over there is one dataset | `Publish` |
| `Conditions` | conditions, the expressions the importer makes them of and the comparisons they are rendered as | |
| `Validation` | constraints, validation of a submission | `Conditions` |
| `XForm` | references and rendering, mapping of an instance | `Validation` |
| `FillForm` | filling in one form on a device and sending it | `XForm` |
| `FillFormProofs` | device and server agree, for every form they can agree on | `FillForm` |
| `Nesting` | abstract: what brackets enclose, said without a stack | |
| `Importer` | `parse_survey` and its stack of groups and repeats | `Conditions`, `Nesting` |
| `Instance` | the event loop of the instance parser | `Nesting` |
| `RoundTrip` | a sheet imported, listed, filled in, written, parsed and mapped back | `XForm`, `Importer`, `Instance` |
| `RoundTripProofs` | both readers build what their input says, each alone and on the whole way | `RoundTrip` |
| `ArrivalProofs` | the instance of a form is accepted and every answer comes through | `RoundTripProofs` |
| `MC*` | small instances for TLC | the module named after `MC` |

Two modules are abstract specifications: `Delivery` (`PushSync!KeepsPromise`)
and `Mirror` (`FormPull!MirrorsServer`) are checked as PROPERTY under a
refinement mapping, and both refinements are also proved. `SyncQueueLoop` and the
one-step operators of `SyncQueue` are a refinement of another kind: the loop as
written against the function it computes, so that `PushSync` can take a whole
push response in one step. `Nesting` is the measure for the two machines that
keep a stack: what the importer and the parser build is compared with what the
rows of the sheet and the events of the document enclose, said of the whole
sequence at once and without a stack. That too is proved, in `RoundTripProofs`.

Shared modelling decisions. A statement or transaction of the store is one
action; everything between two of them is another handler's chance. Handlers,
runs of the client and requests in flight are functions from slots to records
whose `step` is the place where the next store call will run. A handler can fail
at every step: a storage error, a refused call, a connection dropped. Payloads
(XML, JSON, geometry, names) are model values. Variables under "Observations"
remember what happened for the properties' sake; apart from the counters that
enforce a bound, no guard reads them.

## 3. How the modules correspond to the code

**SyncQueue, PushSync.** `file` is the queue file, `mem[p]` the copy a running
command loaded, `request` and `handler` the batch in flight and the loop of
`sync_push` over it (`CheckForm` and `Insert` are its two statements, for the
item the handler has come to). `SubmitLoad`/`SubmitSave` are `submit`,
`PushLoad`/`Arrive`/`Answer` and the failures `push`. The answer and the save of
the queue are one step of the client. `Tick` advances time, and only while an
item waits out its backoff, since nothing else reads the clock. `HandlerLost` is
a request the server drops; `PushFails` is the client's error path, which counts
an attempt for the whole batch (`MarkBatchFailed`); `Crash` kills a command
before it saves. An item's answer is found by id, as `find_mut` does: `Named`
picks the first copy.

**FormPull.** A write stamps its row (`BeginWrite`) and commits later
(`CommitWrite`): `insert_form` reads the clock when it binds the statement
(store.rs:294), and only then waits for a connection and the write lock; or it
fails, or its request is dropped (`AbandonWrite`).
`DeleteForm` reads the clock inside its transaction. `Advance` is how far the
clock may move between two readings, 0 meaning equal readings. `Serve` is
`list_forms_since` and the client's apply; `PullSave` the save of forms and
cursor together. `history` records every state of the live forms; `asOf` is the
state a copy was taken from. `OrderedSpec` are the behaviours of `Spec` in which
every row that is committed, or made a tombstone, goes behind all rows committed
before it, as the pair of stamp and rowid that `list_forms_since` compares
(`InOrder`). Writes still overlap there, are abandoned and share a microsecond.
What is left out is an overtaken stamp, a write that shares its microsecond with
one of a younger row, and the second write of one form within a microsecond: the
code ensures none of the three, and each is missed by a cursor in between.

**FormStore.** A request arrives, is checked (`LookUpForm`, `RequireOwner`,
`RequireRead`, `HasGrant`, `UserExists`, each a statement of its own) and then
acts (`InsertSubmission`, `DeleteForm`, `DeleteSubmission`, `GrantForm`,
`RevokeForm`, `Serve`). `get_attachment` finds the form of a submission by its
attachment before it comes to the gate, so that its request arrives naming the
form. `StoreForm` is a single step, because `insert_form` tests the ownership in
the statement that writes. `shared` are the pairs an owner's `create_grant`
made, less those revoked and those of a deleted form: an observation beside the
table `grants`, so that a row that outlives its form or its revocation would
show. `Legacy` is the owner of forms stored before creators were recorded.

**OpenRosa.** `Receive` to `AddAttachment` are the steps of one post; `uuid`
numbers submissions and files in the order they are made. Deletes have a
transaction and, later, a sweep of the directory (`Sweep`), which may fail.

**Publish.** One action per call to ptolemy and per statement of the store; the
list of branches is asked for and the branch made in one (publish.rs:224-244),
the dataset being known to this publish alone.
`Answered` is either outcome of a call that took effect: its answer arrives, or
the publish ends in an error. `PublishFails` is every error without effect.
Ptolemy is modelled from the calls publish.rs makes.

**Conditions, Validation, XForm, FillForm.** A text is a sequence of words; a
field is a record of its type, required flag, constraints and the two forms of its
relevant expression, the raw text kept from the sheet and the conditions
(`ParseRelevant`) the importer could make of it. Rendering (`PathTo`) says where
each reference leads on the device. `validate_field` and `validate_instances` call
each other down a tree; `Levels` is the set of what they reach, the submission and
the rows of its repeats, each with the values its fields read, and `Validate`
collects the errors of every level. The server merges the answers of a row over
those around it (`Scope`) and evaluates conditions by name (`Evaluate`).
`MaxNesting` bounds the depth of `Levels` and of `FieldsOf`; a repeat in a row is
read as Null (`repeat_row`), so that a second level of rows is never reached from
an instance, and the theorems hold of every bound from one up.

The instance on the device, `nodes`, has a text or a list of rows for each field,
and a place is a path into it: a top-level field, or a field of a row. The device
evaluates comparisons over the places the paths lead to (`Referred`,
`DeviceHolds`), a question that is not shown having the empty text, and again
until nothing changes (`Shown`). `Enter`, `AddRow` and `DropRow` are what an
enumerator does to what is shown, `Send` the whole of mapping, coercion,
validation and storing. ODK Collect is external: its evaluation of `relevant` and
its serialisation follow what the renderer produces for it and what the instance
parser expects of it. Clients of the JSON API are taken to send values of the
declared types and to omit what nobody answered.

**Importer.** `sheet` is what was read so far and `row` the number the importer
gives the next row; `stack` is the stack of frames, one action per arm of the
match of `parse_survey`. A row is a record of its cells: the type cell a sequence
of words, the relevant cell a sequence of comparisons, `mentions` and `displayed`
the names that labels, hints and other expressions refer to. The choices sheet is
a constant, the table of lists.

**Instance.** One action per kind of event the XML library reports. `elements`
holds every element that has started, each with the one it stands in, where the
code moves an element into its parent when it ends: a document that ends with an
element open is refused, so the two trees are never told apart. The depth an
element started at is kept for the properties. `check_end_names`, which the
library applies, is part of `EndElement`. `read` is the document so far and is
only read by properties.

**RoundTrip.** `Download` takes a listed form to a device. `todo` is what the
device has still to write, as a stack of elements: those it has opened, the
outermost standing for the document, each with what is to come in it. What is to
come is an element, a piece of text or a field; a field is `ToCome` until the
enumerator gets to it (`Fill`, `AddRow`, `EndRows`), and then what
`write_instance_node` has for it comes instead (`Instead`): an element for a
question, one for each row of a repeat around the fields of its children. Each
field's element has a place, its name and those of the repeat and the row around
it; the meta block has the place of a row and its instanceID one in it.
`Document` and `Meta` are what `write_instance` writes around them. A place is a
path of names and numbers of rows, and `filled` what was answered at each.
`WriteOpen` to `WriteEof` write it all, an element without content as one tag or
two, a piece of text plainly, as CDATA or by reference. Once per instance
`WriteExtra` adds what a client is free to add, or `Slip` lets the parser meet any
event at all, or leaves out what comes next: an element, a field, a piece of text,
a start tag or an end tag. `Mapped` is the tree as `XForm!ToSubmission` reads it.

## 4. Runs

All run with `tlc -workers 2 -config <run>.cfg <module>`.

### Runs that pass

**PushOneClient** (MCPushSync, about 134,000 states, with fairness). One command at
a time on the device; two submissions, one of which its form refuses; two handler
slots, so that the handler of a push the client gave up on meets the next one;
two attempts per item, one killed command, one delete of a form or submission. A
third attempt repeats the second with a longer wait; two are the least for which
"failed, to be retried" and "given up" differ. Checked: `SyncedIsOnServer`
(an item reported synced is or was on the server), `AbandonedMeansExhausted`,
`QueuedStaysQueued`, `UploadsBounded` (one upload per attempt, plus one per
killed push), `ReportsAreFinal`, `DeliveredItemsAreSynced`, `RetriesAreSpaced`,
`QueueDrains`, and `KeepsPromise`: device and server together implement
`Delivery`. `DeliveredItemsAreSynced` is about the item an id names, the first of
its copies; a second copy is never settled, so that with copies the queue would
not drain and two more properties fail, see section 6.

**PullInOrder** (MCFormPull, about 153,000 states, with fairness,
`OrderedSpec`). Two forms, two writers that overlap and may read the same time,
up to four writes, one pull at a time that can fail at any step. Four writes let
a form be created, deleted and recreated around a write of the other, and let a
pull come between the stamp of a write and its commit. `HeldIsASnapshot`,
`MirrorsServer` (implements `Mirror`), `CatchesUp`.

**StoreOverlap** (MCFormStore, about 850,000 states). Two handlers at once, two
forms, one submission id, an admin and an editor as accounts, a grantee that
exists and one that does not. Forms are interchangeable, and so are handlers:
no definition names one of them and no property is a liveness property, hence
SYMMETRY. `StrangersReadNothing` (whoever comes to read a form's data is entitled
to it in that step: `Entitled`), `OnlyOwnersDestroy`, `CreatorIsForever`,
`RowsStayPut`. Two forms are needed for a submission to be claimed by the wrong
one; two slots for a check to go stale. Proofs cover any number of each.

**OpenRosaOverlap** (MCOpenRosa, 1.2 million states). Up to three of five posts:
the two of one series, one with other XML under the same instanceID, one of
another account, one to another form; two at work at once; one delete.
`OnlyItsOwnIsExtended`, `ListedCanBeServed`, `ConfirmedIsStored`; the unique
index is part of `TypeOK`.

**PublishInTurn** (MCPublish, about 280,000 states, with fairness). One publish at a
time; three submissions, two of them located; batches of one, so that two
batches are the usual case; up to two failures and one delete, then filing again.
`PublishedIsInTheDataset`, `OneDataset`, `TargetIsComplete`, and
`EverythingIsPublished`: in the end all with a location is recorded as published,
or deleted. Submissions deleted while a publish held them are left
out of the first (`freed`), see section 6.

**FillScoped** (MCFillForm, about 36,500 states; 263 forms). Every operator over
five types of controlling question, at four places of the two questions — side
by side with a third that depends on the second, across a repeat, in one row,
and a repeat that is itself conditional — and constraints of every kind inside
and outside a repeat; up to two rows. `SameQuestions`, `NeverStranded`,
`AcceptedIsComplete`, `AnswersAreKept`. Two assumptions of the module tie the
run to the theorems of section 7: every form of the run satisfies their
hypothesis `Agreed`, and none of the four families of section 6 does.

**RoundTripOneSlip** (MCRoundTrip, 1.55 million states). Sheets of up to six
rows out of eleven (two groups, a repeat, a question, a select with a condition,
the ends, and rows that are wrong in each way the importer knows): six rows
close three containers in each other, or hold a question between two with
another beside them, and cross the ends of any. Forms of up to four rows are
filled in, with up to two rows of a repeat; instances of one top-level field are
written with one extra or one slip. With a depth of three and seven elements, a
question in a row is as deep as an element may be and the two rows of a repeat
as many. `ImportedAsWritten`, `BalancedIsAccepted`, `TreeShape`,
`ParsedAsWritten`, `EveryAnswerArrives`, `RenderedIsAccepted`. The last two are
about forms that keep their names apart (`Usable`), see section 6.

Deadlock is checked but in six runs. `PushOneClient`/`PushLostSubmit`: a
device with nothing to push and no submission left to make has nothing to do.
`PullInOrder`/`PullMissesWrite`: the bound on writes ends them. `FillScoped`:
an instance that was sent is finished. `RoundTripOneSlip`: an import that failed
or an instance that was parsed is. `OpenRosa` has a `Quiet` step
for that instead, so that a post that is stuck would still be found.

### Runs that exhibit a disagreement

`PushLostSubmit`, `PullMissesWrite`, `StoreLateFiling`, `OpenRosaResend`,
`PublishResend`, each with one property the repository states and the
code does not keep: section 6.

## 5. Fairness

`QueueDrains` assumes of the client that a submit or push that has begun ends (a
command that is sending or waiting ends after 30 s, http.rs:44), that the user
pushes again and again, and that time advances. It assumes nothing of the network
and the server: an item that never gets through ends as given up.

`CatchesUp` assumes that a stamped write ends, committed or abandoned, that the
user pulls again and again, and that of pulls that could be answered, not all
fail (strong fairness of `Serve` and `PullSave`; a pull that always fails
delivers nothing).

`EverythingIsPublished` assumes that the owner asks again and again and that the
server works on what it was asked; failures end because they are bounded.

No other run needs fairness: its properties say what may never happen.

## 6. Where the code and its documents disagree

Five runs end in a counterexample. Each is recorded in `PROJECT.json` under
"findings" with the lines it contradicts.

| run | what happens |
|---|---|
| `PushLostSubmit` | two overlapping commands each load and save the whole queue file; the last to save drops what the other queued |
| `PullMissesWrite` | two overlapping writes commit in the opposite order of their stamps; a pull in between takes the newer one as cursor and never sees the older |
| `StoreLateFiling` | a form deleted between the lookup and the insert of a submission keeps that submission under its tombstone; one deleted between the checks of a grant and its insert keeps the grant |
| `OpenRosaResend` | a post repeated while the first is at work reads the stored names too early and stores its parts again |
| `PublishResend` | the commit took effect, its answer is lost, and the next publish sends the batch again |

The following come from the same causes or from inputs the runs above leave out.
No run claims them; the properties and instances are defined, and changing a
constant or the invariant of a run shows each.

| change | property that fails | why |
|---|---|---|
| `PushOneClient` with `MaxCopies = 2` | `UploadsBounded`, `ReportsAreFinal` | `find_mut` names the first of two copies of one submission: no answer settles the second ("both mark the item synced", sync_queue.rs:169), every push sends it again, and what fails for it is counted on the first, synced before |
| `PullInOrder` with `Spec` and one writer | `HeldIsASnapshot` | nothing overlaps, yet the second write of a form within one microsecond has the place of the first, and that of an older row the place before a younger one: a cursor taken in between does not see it |
| `OpenRosaOverlap` | `DeletesTakeAttachments` | the row of an attachment is inserted after its submission was deleted |
| `PublishInTurn` with `Slots = {h1, h2}` | `OneDataset`, `PublishedIsInTheDataset` | two first publishes each create a dataset |
| `PublishInTurn`, `PublishedIsInTheDataset` without `\ freed` | the same | a publish records an id deleted meanwhile; filed again under that id, it counts as published |
| `FillScoped` with `Forms <- LongForms` | `NeverStranded` | a relevant expression with two comparisons is left to the device (README "Anything longer ... is left for Collect"), yet the server demands the required question the device hid |
| `FillScoped` with `Forms <- ClashingForms` | `AcceptedIsComplete`, `NeverStranded` | a child of a repeat with the name of a top-level field is read as that field where its row lacks it |
| `Forms <- LocationForms` | `NeverStranded` | an answered GeoPoint has no text the condition can compare |
| `Forms <- AcrossForms` | `SameQuestions`, `NeverStranded` | a top-level question that depends on a row of a repeat: the device reads the first row, the server none |
| `FillScoped` with `OmittedIsFalse` | the same | the changelog's rule for omitted fields does not hold of comparisons with the empty text |
| `RoundTripOneSlip` with `ErrorNamesItsRow` | the same | rows without any text are dropped before the rows are counted, so an error after one names an earlier row than the sheet's (README: "naming the row") |
| `RoundTripOneSlip` with `DeeperIsRefused` | the same | a self-closing element is never on the stack, so one at depth `MAX_DEPTH` + 1 is accepted ("Deepest element nesting accepted") |
| `RoundTripOneSlip`, `EveryAnswerArrives` without `Usable` | the same | two fields of one name come to lie beside each other, also from different groups once these are flattened, and the first element answers both; a repeat in a repeat is not read |
| `RoundTripOneSlip`, `RenderedIsAccepted` without `Usable` | the same, if the question of `MCRows` is called `meta` | a question `meta` shadows the block `orx:meta`, prefixes being dropped, and no instance of the form has an instanceID; likewise a field called as an element of the client's own (`deviceID`) may be answered by that |

Three more are seen without a run. A repeat inside a row is not kept: `repeat_row`
gives it Null, whatever its rows hold. The importer's match lists `"begin group"` and
its like with a space, but the words of the type cell are split first, so those
arms never match and such a row is an unsupported type. The `relevant` of a group
is dropped when the group is flattened, though the importer's module comment
(collecta-xlsform lib.rs:6-13) says attributes it does not model are preserved.

## 7. What is proved

Every theorem below holds for all values of the constants under the assumptions
named in the module that declares them.

**Queue loop** (`LoopIsOneStep`, PushSyncProofs). After any answers, in any
order, to known, unknown or doubled ids, the queue the loop has built equals
`ApplyPushResponse` of the queue it began with. By induction along the loop's
steps: `OneMoreAnswer` says how the one-step operator changes when an answer is
appended, `MarkIsOneAnswer` that a mark does exactly that to one item. SyncQueueLoop
has no run of its own: the queue and the answers are unbounded and the theorem
covers them all.

**Push** (`TypeCorrect`, `DeliveryReportsAreTrue`, `GivesUpWhenExhausted`,
`DeliveredIsSynced`, PushSyncProofs). For any number of overlapping commands,
handlers, copies, crashes and deletes. `SyncedIsOnServer` is not inductive: a
file is replaced by a copy loaded long before, with the results of a handler.
The invariant therefore says the same of every copy in the memory of a command,
and of every handler that each result it holds other than an error names a
submission that was taken. It survives because the set of submissions taken
never shrinks (`TakenGrows`). `DeliveredIsSynced` needs that the answer a push
gets is about what it loaded: it asks about the items of its own copy (`Asks`),
and a handler that has a client works on the batch that client waits for and is
its only one (`WorksFor`, `OneAnswer`). Then the last answer to an id decides
(`NamedIsSynced`), of the item the id names; of a second copy nothing is said,
see section 6.

**Push, one command at a time** (`NothingQueuedIsLost`, `NoReportIsRevised`,
`UploadsAreBounded`, `RetriesWait`, `PromiseIsKept`,
PushSyncProofs). Assumption `OneCommand`: two runs of the client never overlap,
which nothing in the code ensures; `PushLostSubmit` shows that the first theorem
fails without it. Any number of submissions and handlers is still allowed, those
of killed and timed-out pushes too. The invariant `Kept` says that what a command
holds follows from the file (`Copied`), that the handler answering a command
works on the batch it waits for (`Serves`, `OneAnswer`), and that every batch
came from the file. The other theorems assume that a submission is queued at most
once (`MaxCopies <= 1`), for the answers then settle one item each (`Settled`);
section 6 shows what a second copy breaks. `UploadsAreBounded` needs
`MaxRetries # 0`, since a new item goes out once whatever the limit; its
invariant `Counted` keeps the attempts, the killed pushes and the push under way
apart. `RetriesWait` has the premise `PowersAreNumbers`, that a power of two is a
natural number, which the provers cannot derive. `PromiseIsKept` is the
refinement of `Delivery`, step by step.

**Pull** (`TypeCorrect`, `PullsSkipNothing`, `PullImplementsMirror`,
FormPullProofs). The types hold of any writes and any clock. The others are
about `OrderedSpec`: writes overlap, are abandoned and share a microsecond, as
long as rows are committed in the order of their stamps and rowids (`InOrder`).
The code does not ensure that order and its cursor relies on it;
`PullMissesWrite` shows that it is needed, and so does section 6 for writes that
do not overlap. The invariant `Agrees` says of each copy, in the file or in a
pull under way, that it agrees with the table on every form at or before its
cursor, and that its cursor is not past the last row; hence a row that goes last
goes behind every cursor that was ever handed out (`AheadOfCursor`), and no pull
can miss it. `PullsSkipNothing` holds for any number of overlapping pulls; the
refinement adds that there is one at a time, for otherwise an older copy can be
saved last.

**Store** (six theorems, FormStoreProofs). `OwnersOnly` is the one a reader may
doubt: the gate and the act are two statements, yet whoever passed the gate owns
the form when the act runs. `Cleared` says so of every handler past its gate and
is kept because a creator never changes and a form once stored keeps its row,
as a tombstone if need be (`CreatorsStay`, `Found`). `ReadersWereShared` rests
on `grants` being among what is `shared`, at any overlap: a delete and a revoke
take the row and the permission in one step.
`OnlyLateHandlersFill` (`DeletesAreComplete`) bounds what `StoreLateFiling` exhibits.
A delete itself leaves neither submissions nor grants, whatever runs beside it; and
under a tombstone that is empty, nothing comes once no handler is under way that
looked at the form when it was live (`Quiet`): no handler becomes one that will
fill a form but by finding it live (`FillersFoundIt`), and only such a handler
fills one (`FillersFill`).

**Publish** (`TypeCorrect`, `TargetsAreComplete`, `RecordsAreTrue`,
`TargetSettles`, PublishProofs). For any number of overlapping
publishes, failing anywhere. The invariant `Prepared` adds to `TargetIsComplete`
that a handler past `put_schema` works on a dataset with a schema, and one past
`create_branch` on one with a branch too; ptolemy never loses either. What a step
does to the record of its own publish is said once (`Effect`, `WorkEffect`), and
every later proof goes by its eight cases. `TypeCorrect` says, beyond types, that
only what has a location is published.

`RecordsAreTrue` says that what is recorded as published was accepted by ptolemy
as it is on file, into some dataset made for the form (`RecordedWasAccepted`). What
a publish read is still so or was deleted under it, and what it is about to record
is among the features (`Knows`); a record without a row is one that was deleted
under a publish, or the next filing under that id would count as published
(`Recorded`). Those, `freed`, are left out: section 6 has what becomes of them.

Two first publishes of a form may each make a dataset, and nothing in the code
keeps them apart. `TargetSettles` (`StaysSettled`) says how far that goes: once the
publishes that met no target are over, and until the form is deleted, no publish
makes another dataset or commits to another than the one recorded last, so that a
form whose submissions are in one dataset stays in one. It is proved of each
publish by itself (`OnTarget`). `OneDataset` and `PublishedIsInTheDataset`
themselves hold of one publish at a time and are model-checked there.

**OpenRosa** (`TypeCorrect`, `OwnExtended`, `ListedServed`, `ConfirmedStored`,
OpenRosaProofs). For any number of posts, deletes and sweeps overlapping and
failing anywhere. The invariant has three parts: `Tables`, that rows, lists and
files agree; `Handling`, that what a handler read is still so unless the
submission was removed (`Follows`), which holds because no step takes anything
from a submission but by deleting it (`Keeps`); and `Told`, that what was
confirmed stayed.

**Readers** (`ShapeIsKept`, `ParsedIsWritten`, `ImportIsWritten`, `ImportIsJust`,
RoundTripProofs). For any limits, tags and events, the parsed tree has the shape and
size `TreeShape` gives it and is the tree of its document: each element where the
document has it, ended by its own name, with the text directly inside it. For a
sheet of any length, the imported form has one field for every question and
repeat, in order, inside the repeat it stands in and tagged with the group around
it, and an import fails only for a reason in the sheet. None of these can be kept
while a reader is at work. The argument is the same twice: the stack lists the
openings around what is read next, and everything on it and below it holds what
was read so far of what belongs there (`Grown` and `Faithful` for the parser,
`Walked` for the importer). That the stack does list them is proved once, of
sequences of marks (`Stacked`, `AroundNext`), and so is what a new mark changes of
the order of what is enclosed (`InOrderGrows`, `InOrderConcat`). These theorems
are about each reader alone, `InstanceSpec` and `ImporterSpec`.

**The whole way** (`TypeCorrect`, `WayParses`, `ShapeOnTheWay`, `ParsedOnTheWay`,
`ImportedOnTheWay`, `BalancedOnTheWay`, RoundTripProofs). The same holds where the
one reader's output becomes the other's input. The importer takes its steps on the
way as it does alone, and what it read is past when a form is downloaded. The
parser is fed by a client, and `WayParses` says that whatever the client does, the
parser sees one event of the model at a time or none, so that the whole way
implements the parser alone. A step of the client is one of the parser only if
what it writes are tags, attributes, texts and entities the parser knows of, and
that is the invariant: `Supplied` says of everything still to be written, on every
level of the stack and in every field to come, that it is made of what may be
written. It needs that a form has no names but those of the rows of its sheet, at
any depth of repeats, which is again an invariant of the importer (`FormIsClosed`).

**Every answer arrives** (`AnswersOnTheWay`, `AcceptedOnTheWay`, ArrivalProofs).
For any form the importer can build and any number of rows: while nothing slips and
the form keeps its names apart (`Usable`; section 6 has what fails without), an
instance is refused only for a limit, and the submission an accepted one is mapped
to has each answer under its field, in its row, and nothing else. Between the
device and the submission nothing is whole: part of the form is not answered, part
is answered and not written, part is in the tree, and the texts on the top of the
stack are half written. `Carries` says how these fit. While the parser reads, some
function `at` from places to elements of the tree satisfies `Kept`, which is

- `Plan`: every place that is expected is in `at` or waits on the level of `todo`
  it belongs to, once, and what waits there is what `write_instance_node` has for
  it at this stage (`Due`): a field to come, an answered leaf, the row that is next;
- `Placed` and `RowsRise`: each place has an element of its own, under the element
  of the place around it, named as its field; elements of no place are the
  client's own (`deviceID`); the rows of a repeat are in their order;
- `Texted`: an element has the text of its answer, and the one being written has
  what was written of it with the rest still to come (`Remains`), which is where
  pieces, CDATA, entities and blank text have to amount to the same;
- `Linked` and `Rooted`: the open levels of `todo` are the stack of the parser.

There is one lemma for each kind of thing a client may do, for `todo` and for the
tree (`FillPlan`, `AddRowPlan`, `KeptOpen`, `KeptText`, `KeptClose` and so on). When the
document ends, `todo` is empty, so nothing waits and every expected place has its
element (`Finished`); there are no elements beside these but the client's own, so
that each name `to_submission` looks for among the children of an element finds the
one of its place (`Inner`), and for a repeat the rows in order. That is
`EveryAnswerArrives`; that the meta block and the form's id are found likewise is
`RenderedIsAccepted`. When the parser stops earlier it can only be for a limit.

**Filling in a form** (`TypeCorrect`, `SameQuestionsAsked`, `NoneIsStranded`,
`NoneIsIncomplete`, `AnswersAreStored`, FillFormProofs). For any set of forms, any
answers and any number of rows, device and server agree on every form that is
`Agreed`. The hypothesis says of a form: names are apart, and a row has no name
from outside it; no relevant expression depends on itself (the fields can be
ranked); a field the importer read has one comparison and its condition says it;
a condition refers to a question beside its field or outside its repeat, of a type
whose answers have a text; and constraints are of a kind that is checked for their
type. Each of the first, third and fourth is needed: the rows of section 6 for
`FillScoped` are forms that violate one of them and a property that fails. The
state invariant is slight (`Invariance`: the instance keeps its shape, and the
answer of the server is its verdict on what was sent); the argument is about what
is computed from a state:

- a reference resolves to one place, on the device by its path and on the server
  by its name (`Resolves`, `Apart`);
- what is shown no longer changes after as many rounds as there are names, by
  rank: after n rounds every field of rank up to n has settled (`ShownIsSettled`);
  this is where chains of conditions of any length come in;
- a condition the server evaluates sees the text the device sees: a question that
  is not shown has the empty text there and is absent, or Null, here (`HeldText`),
  so by the first two a field is hidden here when it is not shown there, in the
  submission and in every row (`TopAsked`, `RowAsked`);
- validation goes through the submission and its rows and nothing below
  (`TwoLevels`, `LevelsAre`), so its errors are those of what is shown, and there
  are none just when the form is filled in as it asks (`VerdictIs`); what is stored
  is read off the same two levels (`KeptIs`).

**Only model-checked.** Liveness (`QueueDrains`, `CatchesUp`,
`EverythingIsPublished`), which is out of the prover's reach; `OneDataset` and
`PublishedIsInTheDataset`, which overlapping publishes break. Every other
property of the passing runs is stated by a theorem. Beside the queue loop and
`WayParses`, three theorems state what no run checks, `OnlyLateHandlersFill`,
`TargetSettles` and `RecordsAreTrue`: TLC agrees with the first on the constants
of `StoreOverlap` and with the others on those of `PublishInTurn` with two
slots, three filings and one failure.

## 8. What is not modelled

- Passwords, tokens and their expiry: a request has the account it was
  authenticated as, and roles are fixed while it is served.
- Schema creation and migrations of older databases, which run once before the
  server listens.
- Listings that change nothing: forms, status of the queue; the XML around an
  XForm, its labels, controls and hash.
- Multipart decoding and size limits; narrowing of content types.
- Bytes and characters of XML: the library that reports events. Finding the
  sheets of a workbook, their header rows and the settings of the form; the
  choices sheet is a table that is given.
- How geometry and properties of a feature are encoded, and the schema of a
  dataset. A form recreated under a deleted id keeps the dataset of its
  predecessor; whether its schema still fits is not modelled.
- `SyncQueue::next_attempt_at` beyond `max_retries - 1` attempts, where the
  power overflows a u64 from 62 attempts on (sync_queue.rs:192).
- A clock set back. Two writes within one microsecond are modelled (`Advance`
  with 0), see section 6.
- The temporary file under which `json_file.rs` writes before it renames
  (json_file.rs:31). Its name is fixed, so two commands that save the same file at
  once share it; `SubmitSave` and `PullSave` replace the file in one step.
- collecta-core `attachment.rs`, `error.rs` and the server's `main.rs`: types no
  other code in the repository uses, names of errors, and start-up.

## 9. What comes next

In this order.

1. The sharing of a form over OpenRosa, joined to `FormStore`, so that a form
   listed to an account is one it may file under.
2. The schema of a dataset, to say what a form recreated under a deleted id does
   to the dataset of its predecessor.
