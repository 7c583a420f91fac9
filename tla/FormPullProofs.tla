--------------------------- MODULE FormPullProofs ---------------------------
(***************************************************************************)
(* The types of the forms pull hold however writes and pulls overlap.  In  *)
(* every behaviour whose rows are committed in the order of the readings   *)
(* taken for them, whichever writes and pulls overlap in it, no pull skips *)
(* a change: for any set of forms and any number of writers and devices'   *)
(* pulls.  With one pull at a time the device then goes through the states *)
(* of the server in their order.                                           *)
(***************************************************************************)
EXTENDS FormPull, FiniteSetTheorems, TLAPS

(* The types.                                                              *)

Typed ==
    /\ TypeOK
    /\ history # <<>>
    /\ \A w \in Writers : writing[w] # NoWrite =>
           writing[w].form \in Forms /\ writing[w].version # NoVersion

FilledRows == [rowid: Nat \ {0}, stamp: Nat, version: Versions \ {NoVersion}, deleted: BOOLEAN]

RowsTyped ==
    /\ rows \in [Forms -> [rowid: Nat, stamp: Nat, version: Versions, deleted: BOOLEAN]]
    /\ \A f \in Forms : IF f \in Stored THEN rows[f].version # NoVersion ELSE rows[f] = NoRow

LEMMA RowIdType == ASSUME TypeOK, NEW f \in Forms PROVE RowId(f) \in Nat \ {0}
<1>1. IsFiniteSet(Stored)
    BY PullAssumption, FS_Subset DEF Stored
<1>2. Cardinality(Stored) \in Nat
    BY <1>1, FS_CardinalityType
<1> QED BY <1>2 DEF RowId, Stored, TypeOK

LEMMA InitTyped == Init => Typed
<1> SUFFICES ASSUME Init PROVE Typed
    OBVIOUS
<1>1. Nothing \in [Forms -> Versions] /\ Stored = {}
    BY DEF Init, Nothing, Versions, NoVersion, NoRow, Stored
<1>2. EmptyCopy \in Copy
    BY <1>1 DEF EmptyCopy, Copy, Cursor, Origin
<1> QED BY <1>1, <1>2 DEF Init, Typed, TypeOK, NoRow, NoWrite, NoPull, NoVersion, Versions

\* A change of one row.
LEMMA TypedRow ==
    ASSUME Typed, NEW f \in Forms, NEW row \in FilledRows, SetRow(f, row)
    PROVE  /\ RowsTyped'
           /\ history' \in Seq([Forms -> Versions])
           /\ Len(history') = Len(history) + 1 /\ history'[Len(history) + 1] = Live(rows)'
           /\ \A n \in 1 .. Len(history) : history'[n] = history[n]
<1>1. rows' = [rows EXCEPT ![f] = row] /\ history' = Append(history, Live(rows)')
    BY DEF SetRow
<1>2. RowsTyped'
    BY <1>1 DEF Typed, TypeOK, Stored, RowsTyped, FilledRows
<1>3. Live(rows)' \in [Forms -> Versions] /\ history \in Seq([Forms -> Versions])
    BY <1>2 DEF Live, Versions, NoVersion, Typed, TypeOK, RowsTyped
<1> DEFINE live == Live(rows)'
<1> HIDE DEF live
<1>4. ASSUME live \in [Forms -> Versions]
      PROVE  /\ Append(history, live) \in Seq([Forms -> Versions])
             /\ Len(Append(history, live)) = Len(history) + 1
             /\ Append(history, live)[Len(history) + 1] = live
             /\ \A n \in 1 .. Len(history) : Append(history, live)[n] = history[n]
    BY <1>3, <1>4
<1> QED BY <1>1, <1>2, <1>3, <1>4 DEF live

\* The row each of the two writers of a row puts there.
Committed(w) == [rowid |-> RowId(writing[w].form), stamp |-> writing[w].stamp,
                 version |-> writing[w].version, deleted |-> FALSE]
Tombstone(f) == [rowid |-> RowId(f), stamp |-> clock',
                 version |-> rows[f].version, deleted |-> TRUE]

LEMMA CommittedRow ==
    ASSUME Typed, NEW w \in Writers, CommitWrite(w)
    PROVE  /\ writing[w].form \in Forms /\ Committed(w) \in FilledRows
           /\ SetRow(writing[w].form, Committed(w))
           /\ writing' = [writing EXCEPT ![w] = NoWrite]
           /\ UNCHANGED <<clock, writes, file, pull>>
<1>1. writing[w] # NoWrite /\ writing[w].form \in Forms /\ writing[w].version # NoVersion
    BY DEF CommitWrite, Typed
<1>2. RowId(writing[w].form) \in Nat \ {0}
    BY <1>1, RowIdType DEF Typed
<1> QED BY <1>1, <1>2 DEF CommitWrite, Committed, FilledRows, Typed, TypeOK

LEMMA TombstoneRow ==
    ASSUME Typed, NEW w \in Writers, NEW f \in Forms, DeleteForm(w, f)
    PROVE  /\ Tombstone(f) \in FilledRows
           /\ SetRow(f, Tombstone(f))
           /\ clock' \in Nat /\ writes' \in Nat
           /\ UNCHANGED <<writing, file, pull>>
<1>1. RowId(f) \in Nat \ {0}
    BY RowIdType DEF Typed
<1>2. clock' \in Nat /\ writes' \in Nat
    BY PullAssumption DEF DeleteForm, Typed, TypeOK
<1> QED BY <1>1, <1>2 DEF DeleteForm, Tombstone, FilledRows, Typed, TypeOK

LEMMA TypedWrite ==
    ASSUME Typed, NEW w \in Writers,
           \/ CommitWrite(w) \/ AbandonWrite(w)
           \/ \E f \in Forms : BeginWrite(w, f) \/ DeleteForm(w, f)
    PROVE  Typed'
<1>1. ASSUME NEW f \in Forms, BeginWrite(w, f) PROVE Typed'
    BY <1>1, PullAssumption DEF BeginWrite, Typed, TypeOK, Stored, Versions, NoVersion
<1>2. CASE AbandonWrite(w)
    BY <1>2 DEF AbandonWrite, Typed, TypeOK, Stored, NoWrite, Versions, NoVersion
<1>3. CASE CommitWrite(w)
    <2>1. /\ RowsTyped' /\ history' \in Seq([Forms -> Versions]) /\ history' # <<>>
          /\ writing' = [writing EXCEPT ![w] = NoWrite]
          /\ UNCHANGED <<clock, writes, file, pull>>
        BY <1>3, CommittedRow, TypedRow DEF Typed, TypeOK
    <2>2. writing' \in [Writers -> [form: Forms \cup {NoForm}, stamp: Nat, version: Versions]]
          /\ \A v \in Writers : writing'[v] # NoWrite =>
                 writing'[v].form \in Forms /\ writing'[v].version # NoVersion
        BY <2>1 DEF Typed, TypeOK, NoWrite, NoVersion, Versions
    <2> QED BY <2>1, <2>2 DEF Typed, TypeOK, RowsTyped
<1>4. ASSUME NEW f \in Forms, DeleteForm(w, f) PROVE Typed'
    <2>1. /\ RowsTyped' /\ history' \in Seq([Forms -> Versions]) /\ history' # <<>>
          /\ clock' \in Nat /\ writes' \in Nat
          /\ UNCHANGED <<writing, file, pull>>
        BY <1>4, TombstoneRow, TypedRow DEF Typed, TypeOK
    <2> QED BY <2>1 DEF Typed, TypeOK, RowsTyped
<1> QED BY <1>1, <1>2, <1>3, <1>4

LEMMA TypedServe ==
    ASSUME Typed, NEW p \in Pulls, Serve(p)
    PROVE  Typed'
<1> DEFINE old == pull[p].copy
<1>1. old \in Copy
    BY DEF Typed, TypeOK
<1>2. PICK cursor \in {old.cursor} \cup {Position(f) : f \in Stored} :
          pull' = [pull EXCEPT ![p] =
              [step |-> "answered",
               copy |-> [held |-> Apply(old), cursor |-> cursor, asOf |-> Len(history)]]]
    BY DEF Serve
<1>3. cursor \in Cursor
    BY <1>1, <1>2 DEF Copy, Position, Stored, Typed, TypeOK, Cursor
<1>4. Apply(old) \in [Forms -> Versions]
    BY <1>1 DEF Apply, Live, Copy, Typed, TypeOK, Versions, NoVersion
<1>5. Len(history) \in Nat \ {0}
    BY DEF Typed, TypeOK
<1> DEFINE new == [held |-> Apply(old), cursor |-> cursor, asOf |-> Len(history)]
<1>6. new \in Copy
    BY <1>3, <1>4, <1>5 DEF Copy
<1>7. pull' = [pull EXCEPT ![p] = [step |-> "answered", copy |-> new]]
    BY <1>2
<1>8. UNCHANGED <<rows, clock, writes, writing, file, history>>
    BY DEF Serve
<1> HIDE DEF new, old
<1> QED BY <1>6, <1>7, <1>8 DEF Typed, TypeOK, Stored

\* The other steps of a pull move a copy from one place to another.
LEMMA CopyMoves ==
    ASSUME Typed, NEW p \in Pulls, PullLoad(p) \/ PullSave(p) \/ PullFails(p)
    PROVE  /\ UNCHANGED <<rows, clock, writes, writing, history>>
           /\ \E where \in [step: {"idle", "sent", "answered"}, copy: Copy] :
                  /\ pull' = [pull EXCEPT ![p] = where]
                  /\ where.step # "idle" => where.copy = file
           /\ file' \in {file, pull[p].copy}
           /\ file' = file \/ pull[p].step # "idle"
<1>1. EmptyCopy \in Copy
    BY DEF EmptyCopy, Copy, Cursor, Origin, Nothing, Versions, NoVersion
<1> QED BY <1>1 DEF Typed, TypeOK, PullLoad, PullSave, PullFails, NoPull

LEMMA TypedNext == Typed /\ [Next]_vars => Typed'
<1> SUFFICES ASSUME Typed, [Next]_vars PROVE Typed'
    OBVIOUS
<1>1. CASE UNCHANGED vars
    BY <1>1 DEF vars, Typed, TypeOK, Stored
<1>2. ASSUME NEW p \in Pulls, PullLoad(p) \/ PullSave(p) \/ PullFails(p) PROVE Typed'
    BY <1>2, CopyMoves DEF Typed, TypeOK, Stored
<1> QED BY <1>1, <1>2, TypedWrite, TypedServe DEF Next

\* The forms table, the writes under way and every copy a device holds keep
\* their types, whatever writes and pulls overlap and however the clock moves.
THEOREM TypeCorrect == Spec => []TypeOK
<1>1. Typed => TypeOK
    BY DEF Typed
<1> QED BY <1>1, InitTyped, TypedNext, PTL DEF Spec

-----------------------------------------------------------------------------
(* Rows committed in the order of their readings.                          *)

\* A copy agrees with the table on every form that its cursor says it has
\* seen, and its cursor is not past the last row.
Agrees(copy) ==
    /\ copy.asOf \in 1 .. Len(history)
    /\ copy.held = history[copy.asOf]
    /\ copy.cursor = Origin \/ \E g \in Stored : ~ Before(Position(g), copy.cursor)
    /\ \A f \in Forms \ Changed(copy.cursor) : copy.held[f] = Live(rows)[f]

Inv ==
    /\ Typed
    /\ history[Len(history)] = Live(rows)
    /\ Agrees(file)
    /\ \A p \in Pulls : pull[p].step # "idle" => Agrees(pull[p].copy)

LEMMA InvImplies == Inv => HeldIsASnapshot
BY DEF Inv, Typed, TypeOK, Agrees, HeldIsASnapshot

LEMMA InitInv == Init => Inv
<1> SUFFICES ASSUME Init PROVE Inv
    OBVIOUS
<1>1. Live(rows) = Nothing
    BY DEF Init, Nothing, Live, NoRow
<1>2. Agrees(EmptyCopy)
    BY <1>1 DEF Init, Agrees, EmptyCopy
<1> QED BY <1>1, <1>2, InitTyped DEF Inv, Init, NoPull

\* The cursor of an answer is that of the request or the place of a row.
LEMMA NextCursorPlace ==
    ASSUME Typed, NEW copy \in Copy, Agrees(copy), NEW cursor,
           NextCursor(copy.cursor, cursor)
    PROVE  cursor = Origin \/ \E g \in Stored : ~ Before(Position(g), cursor)
<1>1. CASE Changed(copy.cursor) = {}
    BY <1>1 DEF NextCursor, Agrees
<1>2. CASE Changed(copy.cursor) # {}
    <2>1. PICK f \in Stored : cursor = Position(f)
        BY <1>2 DEF NextCursor, Changed
    <2>2. ~ Before(Position(f), Position(f))
        BY DEF Before, Position, Stored, Typed, TypeOK
    <2> QED BY <2>1, <2>2
<1> QED BY <1>1, <1>2

\* A pull brings the copy up to the state of the table.
LEMMA ApplyIsLive ==
    ASSUME Typed, NEW copy \in Copy, Agrees(copy)
    PROVE  Apply(copy) = Live(rows)
<1>1. \A f \in Forms : Apply(copy)[f] = Live(rows)[f]
    BY DEF Apply, Agrees
<1> QED BY <1>1 DEF Apply, Live

LEMMA ServeStep ==
    ASSUME Inv, NEW p \in Pulls, Serve(p)
    PROVE  Inv'
<1> DEFINE old == pull[p].copy
<1>1. old \in Copy /\ Agrees(old)
    BY DEF Inv, Typed, TypeOK, Serve
<1>2. PICK cursor :
          /\ NextCursor(old.cursor, cursor)
          /\ pull' = [pull EXCEPT ![p] =
                [step |-> "answered",
                 copy |-> [held |-> Apply(old), cursor |-> cursor, asOf |-> Len(history)]]]
    BY DEF Serve
<1> DEFINE new == [held |-> Apply(old), cursor |-> cursor, asOf |-> Len(history)]
<1>3. cursor = Origin \/ \E g \in Stored : ~ Before(Position(g), cursor)
    BY <1>1, <1>2, NextCursorPlace DEF Inv
<1>4. Apply(old) = Live(rows)
    BY <1>1, ApplyIsLive DEF Inv
<1>5. Len(history) \in Nat \ {0} /\ history[Len(history)] = Live(rows)
    BY DEF Inv, Typed, TypeOK
<1>6. Agrees(new)
    BY <1>3, <1>4, <1>5 DEF Agrees
<1> HIDE DEF new, old
<1>7. UNCHANGED <<rows, clock, writes, writing, file, history>>
    BY DEF Serve
<1>8. pull' = [pull EXCEPT ![p] = [step |-> "answered", copy |-> new]]
    BY <1>2 DEF new, old
<1>9. Agrees(file)'
    BY <1>7 DEF Inv, Agrees, Changed, Stored, Position
<1>10. ASSUME NEW q \in Pulls, pull'[q].step # "idle" PROVE Agrees(pull[q].copy)'
    <2>1. Agrees(pull'[q].copy)
        BY <1>6, <1>8, <1>10 DEF Inv, Typed, TypeOK
    <2> QED BY <1>7, <2>1 DEF Agrees, Changed, Stored, Position
<1>11. Typed'
    BY TypedServe DEF Inv
<1> QED BY <1>7, <1>9, <1>10, <1>11 DEF Inv

LEMMA CopyStep ==
    ASSUME Inv, NEW p \in Pulls, PullLoad(p) \/ PullSave(p) \/ PullFails(p)
    PROVE  Inv'
<1>1. Typed' /\ UNCHANGED <<rows, clock, writes, writing, history>>
    BY CopyMoves, TypedNext DEF Inv, Next
<1>2. PICK where \in [step: {"idle", "sent", "answered"}, copy: Copy] :
          /\ pull' = [pull EXCEPT ![p] = where]
          /\ where.step # "idle" => where.copy = file
    BY CopyMoves DEF Inv
<1>3. Agrees(file')
    BY CopyMoves DEF Inv
<1>4. ASSUME NEW q \in Pulls, pull'[q].step # "idle"
      PROVE  Agrees(pull'[q].copy)
    BY <1>2, <1>4 DEF Inv, Typed, TypeOK
<1>5. ASSUME NEW q \in Pulls, pull'[q].step # "idle"
      PROVE  Agrees(pull[q].copy)'
    <2>1. Agrees(pull'[q].copy)
        BY <1>4, <1>5
    <2> QED BY <1>1, <2>1 DEF Agrees, Changed, Stored, Position
<1> QED BY <1>1, <1>3, <1>5 DEF Inv, Agrees, Changed, Stored, Position

\* A row that goes last goes behind every cursor a copy can have.
LEMMA AheadOfCursor ==
    ASSUME Typed, NEW f \in Forms, NEW row \in FilledRows, row.rowid = RowId(f),
           GoesLast(f, row.stamp), NEW copy \in Copy, Agrees(copy)
    PROVE  Before(copy.cursor, <<row.stamp, row.rowid>>)
<1>1. CASE copy.cursor = Origin
    BY <1>1 DEF Origin, Before, FilledRows
<1>2. ASSUME NEW g \in Stored, ~ Before(Position(g), copy.cursor)
      PROVE  Before(copy.cursor, <<row.stamp, row.rowid>>)
    <2>1. Before(Position(g), <<row.stamp, row.rowid>>)
        BY DEF GoesLast
    <2> QED BY <1>2, <2>1 DEF Before, Position, Stored, Typed, TypeOK, Copy, Cursor, FilledRows
<1> QED BY <1>1, <1>2 DEF Agrees

LEMMA RowAgrees ==
    ASSUME Typed, NEW f \in Forms, NEW row \in FilledRows, row.rowid = RowId(f),
           SetRow(f, row), GoesLast(f, row.stamp), NEW copy \in Copy, Agrees(copy)
    PROVE  /\ copy.asOf \in 1 .. Len(history')
           /\ copy.held = history'[copy.asOf]
           /\ f \in Stored' /\ ~ Before(Position(f)', copy.cursor)
           /\ \A g \in Forms \ {h \in Stored' : Before(copy.cursor, Position(h)')} :
                  copy.held[g] = Live(rows)'[g]
<1>1. rows' = [rows EXCEPT ![f] = row]
    BY DEF SetRow
<1>2. Before(copy.cursor, <<row.stamp, row.rowid>>)
    BY AheadOfCursor
<1>3. f \in Stored' /\ Position(f)' = <<row.stamp, row.rowid>>
    BY <1>1 DEF Stored, Position, FilledRows, Typed, TypeOK
<1>4. ~ Before(Position(f)', copy.cursor)
    BY <1>2, <1>3 DEF Before, Copy, Cursor, FilledRows
<1>5. copy.asOf \in 1 .. Len(history') /\ copy.held = history'[copy.asOf]
    <2>1. Len(history') = Len(history) + 1 /\ \A n \in 1 .. Len(history) : history'[n] = history[n]
        BY TypedRow
    <2>2. Len(history) \in Nat
        BY DEF Typed, TypeOK
    <2> QED BY <2>1, <2>2 DEF Agrees
<1>6. ASSUME NEW g \in Forms, ~ (g \in Stored' /\ Before(copy.cursor, Position(g)'))
      PROVE  copy.held[g] = Live(rows)'[g]
    <2>1. g # f
        BY <1>2, <1>3, <1>6
    <2>2. rows'[g] = rows[g]
        BY <1>1, <2>1 DEF Typed, TypeOK
    <2>3. g \in Forms \ Changed(copy.cursor)
        BY <1>6, <2>2 DEF Changed, Stored, Position
    <2> QED BY <2>2, <2>3 DEF Agrees, Live
<1> QED BY <1>3, <1>4, <1>5, <1>6

LEMMA RowStep ==
    ASSUME Inv, Typed', NEW f \in Forms, NEW row \in FilledRows, row.rowid = RowId(f),
           SetRow(f, row), GoesLast(f, row.stamp), UNCHANGED <<file, pull>>
    PROVE  Inv'
<1>1. history'[Len(history')] = Live(rows)'
    BY TypedRow DEF Inv
<1>2. Agrees(file)'
    <2>1. file \in Copy /\ Agrees(file) /\ file' = file
        BY DEF Inv, Typed, TypeOK
    <2> QED BY <2>1, RowAgrees DEF Inv, Agrees, Changed
<1>3. ASSUME NEW p \in Pulls, pull'[p].step # "idle" PROVE Agrees(pull[p].copy)'
    <2>1. pull[p].copy \in Copy /\ Agrees(pull[p].copy) /\ pull'[p] = pull[p]
        BY <1>3 DEF Inv, Typed, TypeOK
    <2> QED BY <2>1, RowAgrees DEF Inv, Agrees, Changed
<1> QED BY <1>1, <1>2, <1>3 DEF Inv

LEMMA NextInv == Inv /\ [Next /\ InOrder]_vars => Inv'
<1> SUFFICES ASSUME Inv, [Next /\ InOrder]_vars PROVE Inv'
    OBVIOUS
<1>1. Typed'
    BY TypedNext DEF Inv
<1>2. ASSUME UNCHANGED <<rows, file, pull, history>> PROVE Inv'
    BY <1>1, <1>2 DEF Inv, Agrees, Changed, Stored, Position
<1>3. ASSUME NEW w \in Writers, CommitWrite(w), InOrder PROVE Inv'
    <2>1. /\ writing[w].form \in Forms /\ Committed(w) \in FilledRows
          /\ SetRow(writing[w].form, Committed(w))
          /\ UNCHANGED <<file, pull>>
        BY <1>3, CommittedRow DEF Inv
    <2>2. /\ GoesLast(writing[w].form, Committed(w).stamp)
          /\ Committed(w).rowid = RowId(writing[w].form)
        BY <1>3 DEF InOrder, Committed
    <2> QED BY <1>1, <2>1, <2>2, RowStep
<1>4. ASSUME NEW w \in Writers, NEW f \in Forms, DeleteForm(w, f), InOrder PROVE Inv'
    <2>1. Tombstone(f) \in FilledRows /\ SetRow(f, Tombstone(f)) /\ UNCHANGED <<file, pull>>
        BY <1>4, TombstoneRow DEF Inv
    <2>2. GoesLast(f, Tombstone(f).stamp) /\ Tombstone(f).rowid = RowId(f)
        BY <1>4 DEF InOrder, Tombstone
    <2> QED BY <1>1, <2>1, <2>2, RowStep
<1>5. \/ UNCHANGED <<rows, file, pull, history>>
      \/ \E w \in Writers : (CommitWrite(w) \/ \E f \in Forms : DeleteForm(w, f)) /\ InOrder
      \/ \E p \in Pulls : PullLoad(p) \/ PullSave(p) \/ PullFails(p) \/ Serve(p)
    BY DEF Next, vars, BeginWrite, AbandonWrite
<1> QED BY <1>2, <1>3, <1>4, <1>5, CopyStep, ServeStep

\* As long as rows are committed in the order of the readings taken for them, a
\* device holds exactly the forms of one state of the server, whichever writes
\* and pulls overlap, are lost or are killed.  The code does not ensure that
\* order, and without it the forms need not be those of any state.
THEOREM PullsSkipNothing == OrderedSpec => []HeldIsASnapshot
<1>1. Inv /\ [Next /\ InOrder]_vars => Inv'
    BY NextInv
<1> QED BY <1>1, InvImplies, InitInv, PTL DEF OrderedSpec

-----------------------------------------------------------------------------
(* With one pull at a time, the pull implements Mirror: the device moves   *)
(* through the states of the server in their order.                        *)

OnePull == \A p, q \in Pulls : p = q

\* What a running pull will save is no older than what the file holds.
NoOlder == \A p \in Pulls : pull[p].step # "idle" => pull[p].copy.asOf >= file.asOf

LEMMA NoOlderNext == OnePull /\ Inv /\ NoOlder /\ [Next]_vars => NoOlder'
<1> SUFFICES ASSUME OnePull, Inv, NoOlder, [Next]_vars, NEW p \in Pulls,
                    pull'[p].step # "idle"
             PROVE  pull'[p].copy.asOf >= file'.asOf
    BY DEF NoOlder
<1>0. /\ file.asOf \in Nat
      /\ pull[p].step # "idle" => pull[p].copy.asOf >= file.asOf
    BY DEF Inv, Typed, TypeOK, Copy, NoOlder
<1>1. CASE UNCHANGED <<file, pull>>
    BY <1>0, <1>1
<1>2. CASE PullLoad(p)
    BY <1>0, <1>2 DEF PullLoad, Inv, Typed, TypeOK
<1>3. CASE Serve(p)
    <2>1. pull'[p].copy.asOf = Len(history) /\ file' = file
        BY <1>3 DEF Serve, Inv, Typed, TypeOK
    <2>2. file.asOf <= Len(history)
        BY DEF Inv, Agrees
    <2> QED BY <1>0, <2>1, <2>2 DEF Inv, Typed, TypeOK
<1>4. CASE PullSave(p) \/ PullFails(p)
    BY <1>4 DEF PullSave, PullFails, NoPull, Inv, Typed, TypeOK
<1>5. \/ UNCHANGED <<file, pull>>
      \/ PullLoad(p) \/ Serve(p) \/ PullSave(p) \/ PullFails(p)
    BY DEF Next, vars, OnePull, BeginWrite, CommitWrite, AbandonWrite, DeleteForm
<1> QED BY <1>1, <1>2, <1>3, <1>4, <1>5

LEMMA MirrorStep ==
    Inv /\ Inv' /\ NoOlder /\ [Next]_vars => [Abstract!Next]_(Abstract!vars)
<1> SUFFICES ASSUME Inv, Inv', NoOlder, [Next]_vars
             PROVE  [Abstract!Next]_(Abstract!vars)
    OBVIOUS
<1>1. ASSUME NEW f, NEW row, SetRow(f, row), UNCHANGED file PROVE Abstract!Change
    <2>1. history \in Seq([Forms -> Versions]) /\ history' = Append(history, Live(rows)')
        BY <1>1 DEF SetRow, Inv, Typed, TypeOK
    <2>2. Len(history') = Len(history) + 1 /\ \A n \in 1 .. Len(history) : history'[n] = history[n]
        BY <2>1
    <2> QED BY <1>1, <2>2 DEF Abstract!Change
<1>2. ASSUME NEW p \in Pulls, PullSave(p) PROVE Abstract!Refresh
    <2>1. /\ file' = pull[p].copy /\ history' = history
          /\ pull[p].copy.asOf \in Nat /\ file.asOf \in Nat /\ pull[p].copy.asOf >= file.asOf
        BY <1>2 DEF PullSave, Inv, Typed, TypeOK, Copy, NoOlder
    <2>2. file'.asOf \in 1 .. Len(history) /\ file'.held = history[file'.asOf]
        BY <2>1 DEF Inv, Agrees
    <2>3. Len(history) \in Nat
        BY DEF Inv, Typed, TypeOK
    <2> QED BY <2>1, <2>2, <2>3 DEF Abstract!Refresh
<1>3. ASSUME UNCHANGED <<file, history>> PROVE UNCHANGED Abstract!vars
    BY <1>3 DEF Abstract!vars
<1>4. \/ UNCHANGED <<file, history>>
      \/ \E f, row : SetRow(f, row) /\ UNCHANGED file
      \/ \E p \in Pulls : PullSave(p)
    BY DEF Next, vars, BeginWrite, CommitWrite, AbandonWrite, DeleteForm, PullLoad, Serve, PullFails
<1> QED BY <1>1, <1>2, <1>3, <1>4 DEF Abstract!Next

\* Under the same condition, and with one run of `pull` at a time on a device,
\* the pull implements the abstract Mirror, step by step: the server's writes may
\* overlap, and pulls may be lost or killed anywhere.
THEOREM PullImplementsMirror == OnePull => (OrderedSpec => MirrorsServer)
<1> SUFFICES ASSUME OnePull PROVE OrderedSpec => MirrorsServer
    OBVIOUS
<1>1. Init => Abstract!Init
    BY DEF Init, Abstract!Init, EmptyCopy
<1>2. Init => NoOlder
    BY DEF Init, NoOlder, NoPull
<1>3. Inv /\ [Next /\ InOrder]_vars => Inv'
    BY NextInv
<1>4. Inv /\ NoOlder /\ [Next /\ InOrder]_vars => NoOlder'
    BY NoOlderNext
<1>5. Inv /\ Inv' /\ NoOlder /\ [Next /\ InOrder]_vars => [Abstract!Next]_(Abstract!vars)
    BY MirrorStep
<1> QED BY <1>1, <1>2, <1>3, <1>4, <1>5, InitInv, PTL DEF OrderedSpec, MirrorsServer, Abstract!Spec
=============================================================================
