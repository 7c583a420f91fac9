------------------------------ MODULE FormPull ------------------------------
(***************************************************************************)
(* The forms pull: the forms table with its tombstones, the writers that   *)
(* stamp and change its rows, GET /api/v1/sync/forms?since=<cursor>, and   *)
(* the file in which a device keeps the forms it has pulled together with  *)
(* the cursor of its last pull (store.rs, pulled_forms.rs, pull.rs).       *)
(*                                                                         *)
(* A cursor is the pair of the timestamp and the rowid of the last row a   *)
(* pull delivered.  insert_form reads the clock before its statement runs, *)
(* so a row may be committed after another that carries a later stamp;     *)
(* delete_form reads it inside its transaction, when it already holds the  *)
(* write lock.                                                             *)
(***************************************************************************)
EXTENDS Integers, Sequences, FiniteSets

CONSTANTS
    Forms,
    Writers,    \* requests that write forms and may overlap
    Pulls,      \* runs of `pull` that may overlap on one device
    Advance,    \* by how much the clock may move between two readings
    MaxWrites   \* bound on the writes

ASSUME PullAssumption ==
    /\ Advance \subseteq Nat
    /\ MaxWrites \in Nat
    /\ IsFiniteSet(Forms)

VARIABLES
    rows,      \* the forms table; rowid 0 is a form never stored
    clock,     \* microseconds
    writes,    \* writes begun so far
    writing,   \* the write each writer has stamped and not yet committed
    file,      \* what the device has saved
    pull,      \* where each run of `pull` stands
    history    \* observation: the live forms after each change

vars == <<rows, clock, writes, writing, file, pull, history>>

NoVersion == 0   \* a form that is not there
NoForm == "none"
Origin == <<0, 0>>   \* the cursor of a device that has not pulled

NoRow == [rowid |-> 0, stamp |-> 0, version |-> NoVersion, deleted |-> FALSE]
NoWrite == [form |-> NoForm, stamp |-> 0, version |-> NoVersion]
Nothing == [f \in Forms |-> NoVersion]

\* A copy of the forms with its cursor; asOf is an observation, the state of
\* history the copy was taken from.
EmptyCopy == [held |-> Nothing, cursor |-> Origin, asOf |-> 1]
NoPull == [step |-> "idle", copy |-> EmptyCopy]

Live(table) ==
    [f \in Forms |-> IF table[f].deleted THEN NoVersion ELSE table[f].version]

Init ==
    /\ rows = [f \in Forms |-> NoRow]
    /\ clock = 1
    /\ writes = 0
    /\ writing = [w \in Writers |-> NoWrite]
    /\ file = EmptyCopy
    /\ pull = [p \in Pulls |-> NoPull]
    /\ history = <<Nothing>>

-----------------------------------------------------------------------------
(* The server.                                                             *)

Position(f) == <<rows[f].stamp, rows[f].rowid>>

\* Cursors compare as pairs.
Before(a, b) == a[1] < b[1] \/ (a[1] = b[1] /\ a[2] < b[2])

Stored == {f \in Forms : rows[f].rowid # 0}

\* A new row takes the next rowid and a row keeps the one it has: rows of the
\* forms table are never removed.
RowId(f) == IF f \in Stored THEN rows[f].rowid ELSE Cardinality(Stored) + 1

SetRow(f, row) ==
    /\ rows' = [rows EXCEPT ![f] = row]
    /\ history' = Append(history, Live(rows'))

\* insert_form: the statement is bound, and with it the timestamp.
BeginWrite(w, f) ==
    /\ writing[w] = NoWrite
    /\ writes < MaxWrites
    /\ writes' = writes + 1
    /\ \E d \in Advance : clock' = clock + d
    /\ writing' = [writing EXCEPT
           ![w] = [form |-> f, stamp |-> clock', version |-> writes']]
    /\ UNCHANGED <<rows, file, pull, history>>

\* ... and executed: the row is inserted or replaced, the tombstone cleared.
CommitWrite(w) ==
    LET write == writing[w]
        f == write.form
    IN  /\ write # NoWrite
        /\ writing' = [writing EXCEPT ![w] = NoWrite]
        /\ SetRow(f, [rowid |-> RowId(f), stamp |-> write.stamp,
                      version |-> write.version, deleted |-> FALSE])
        /\ UNCHANGED <<clock, writes, file, pull>>

\* The statement fails, or its request is dropped before it runs.
AbandonWrite(w) ==
    /\ writing[w] # NoWrite
    /\ writing' = [writing EXCEPT ![w] = NoWrite]
    /\ UNCHANGED <<rows, clock, writes, file, pull, history>>

\* Mutant: the definition goes with the form, as the submissions do.
MutantBlankForm(w, f) ==
    /\ writing[w] = NoWrite
    /\ f \in Stored
    /\ writes < MaxWrites
    /\ writes' = writes + 1
    /\ \E d \in Advance : clock' = clock + d
    /\ SetRow(f, [rowid |-> RowId(f), stamp |-> clock', version |-> NoVersion, deleted |-> TRUE])
    /\ UNCHANGED <<writing, file, pull>>

\* Mutant: the tombstone keeps the form's timestamp.
MutantDeleteForm(w, f) ==
    /\ writing[w] = NoWrite
    /\ f \in Stored
    /\ writes < MaxWrites
    /\ writes' = writes + 1
    /\ \E d \in Advance : clock' = clock + d
    /\ SetRow(f, [rows[f] EXCEPT !.deleted = TRUE])
    /\ UNCHANGED <<writing, file, pull>>

\* delete_form: the row stays as a tombstone with a new timestamp.  The form was
\* live when the handler looked; another delete may have come between.
DeleteForm(w, f) ==
    /\ writing[w] = NoWrite
    /\ f \in Stored
    /\ writes < MaxWrites
    /\ writes' = writes + 1
    /\ \E d \in Advance : clock' = clock + d
    /\ SetRow(f, [rowid |-> RowId(f), stamp |-> clock',
                  version |-> rows[f].version, deleted |-> TRUE])
    /\ UNCHANGED <<writing, file, pull>>

-----------------------------------------------------------------------------
(* The device.                                                             *)

\* `pull` loads the file and sends its cursor.
PullLoad(p) ==
    /\ pull[p].step = "idle"
    /\ pull' = [pull EXCEPT ![p] = [step |-> "sent", copy |-> file]]
    /\ UNCHANGED <<rows, clock, writes, writing, file, history>>

\* Mutant: the cursor compares by its timestamp alone.
MutantChanged(since) == {f \in Stored : since[1] < rows[f].stamp}

\* list_forms_since: the rows behind the cursor.
Changed(since) == {f \in Stored : Before(since, Position(f))}

\* Where the next pull starts: at the last row delivered, or where this one
\* started when there was none.
NextCursor(since, cursor) ==
    IF Changed(since) = {} THEN cursor = since
    ELSE \E f \in Changed(since) :
            /\ cursor = Position(f)
            /\ \A g \in Changed(since) : ~ Before(cursor, Position(g))

\* Mutant: the tombstones of the answer are not applied.
MutantApply(copy) ==
    [f \in Forms |-> IF f \in Changed(copy.cursor) /\ ~ rows[f].deleted
                     THEN rows[f].version ELSE copy.held[f]]

\* apply_pull_response: a changed form is stored or overwritten, a tombstoned
\* one dropped, the others stay.
Apply(copy) ==
    [f \in Forms |-> IF f \in Changed(copy.cursor) THEN Live(rows)[f] ELSE copy.held[f]]

\* sync_forms answers from one read of the table; the client applies the
\* answer to the copy it loaded.
Serve(p) ==
    /\ pull[p].step = "sent"
    /\ \E cursor \in {pull[p].copy.cursor} \cup {Position(f) : f \in Stored} :
        /\ NextCursor(pull[p].copy.cursor, cursor)
        /\ pull' = [pull EXCEPT ![p] =
               [step |-> "answered",
                copy |-> [held |-> Apply(pull[p].copy), cursor |-> cursor,
                          asOf |-> Len(history)]]]
    /\ UNCHANGED <<rows, clock, writes, writing, file, history>>

\* Forms and cursor are saved together.
PullSave(p) ==
    /\ pull[p].step = "answered"
    /\ file' = pull[p].copy
    /\ pull' = [pull EXCEPT ![p] = NoPull]
    /\ UNCHANGED <<rows, clock, writes, writing, history>>

\* Request or answer lost, refused or late, or the command killed.
PullFails(p) ==
    /\ pull[p].step # "idle"
    /\ pull' = [pull EXCEPT ![p] = NoPull]
    /\ UNCHANGED <<rows, clock, writes, writing, file, history>>

Next ==
    \/ \E w \in Writers : \/ \E f \in Forms : BeginWrite(w, f) \/ DeleteForm(w, f)
                          \/ CommitWrite(w) \/ AbandonWrite(w)
    \/ \E p \in Pulls : PullLoad(p) \/ Serve(p) \/ PullSave(p) \/ PullFails(p)

Spec == Init /\ [][Next]_vars

\* A row of f written with this reading of the clock goes behind every row
\* committed so far, its own old place included.
GoesLast(f, stamp) == \A g \in Stored : Before(Position(g), <<stamp, RowId(f)>>)

\* What the cursor relies on and the code does not ensure: rows are committed in
\* the order of the readings taken for them.
InOrder ==
    \A w \in Writers :
        /\ CommitWrite(w) => GoesLast(writing[w].form, writing[w].stamp)
        /\ \A f \in Forms : DeleteForm(w, f) => GoesLast(f, clock')

\* The behaviours in which it happens to hold, however the writes overlap.
OrderedSpec == Init /\ [][Next /\ InOrder]_vars

\* A write that was stamped ends; the user pulls again and again, and of the
\* pulls not all fail for ever.
Fairness ==
    /\ \A w \in Writers : WF_vars(CommitWrite(w) \/ AbandonWrite(w))
    /\ \A p \in Pulls : /\ WF_vars(PullLoad(p))
                        /\ SF_vars(Serve(p))
                        /\ SF_vars(PullSave(p))

FairOrderedSpec == OrderedSpec /\ Fairness

-----------------------------------------------------------------------------
(* Properties.                                                             *)

Versions == Nat
Cursor == Nat \X Nat
Copy == [held: [Forms -> Versions], cursor: Cursor, asOf: Nat \ {0}]

\* The types of the forms table, of the writes under way and of the copies of
\* it a device holds (store.rs, pulled_forms.rs); a stored form always has its
\* definition, a tombstone too (data is NOT NULL).
TypeOK ==
    /\ rows \in [Forms -> [rowid: Nat, stamp: Nat, version: Versions, deleted: BOOLEAN]]
    /\ \A f \in Forms : IF f \in Stored THEN rows[f].version # NoVersion ELSE rows[f] = NoRow
    /\ clock \in Nat /\ writes \in Nat
    /\ writing \in [Writers -> [form: Forms \cup {NoForm}, stamp: Nat, version: Versions]]
    /\ file \in Copy
    /\ pull \in [Pulls -> [step: {"idle", "sent", "answered"}, copy: Copy]]
    /\ history \in Seq([Forms -> Versions])

\* The forms a device holds are exactly the live forms of one past state of
\* the server: no change between two pulls is skipped, no deleted form kept
\* (list_forms_since, apply_pull_response).
HeldIsASnapshot ==
    file.asOf \in DOMAIN history /\ file.held = history[file.asOf]

\* With one pull at a time the device only moves forward: a form cannot arrive
\* after the delete that removed it (sync_protocol.rs:52).
Abstract == INSTANCE Mirror WITH held <- file.held, asOf <- file.asOf
MirrorsServer == Abstract!Spec

\* Once the forms stop changing, a device that goes on pulling ends up with
\* the live ones and stays there.
CatchesUp == <>[](file.held = Live(rows))
=============================================================================
