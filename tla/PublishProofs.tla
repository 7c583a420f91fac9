--------------------------- MODULE PublishProofs ---------------------------
(***************************************************************************)
(* What holds of publishing for any submissions, any batch size and any    *)
(* number of publishes at work at once.                                    *)
(***************************************************************************)
EXTENDS Publish, TLAPS

Steps == {"free", "form", "target", "dataset", "schema", "branch", "record",
          "rows", "commit", "mark"}

Todos == SUBSET (Submissions \X Nat)

Handlers == [step: Steps, dataset: Nat, todo: Todos]

\* As much of the types as the argument needs.
Typed ==
    /\ handler \in [Slots -> Handlers]
    /\ rows \in [Submissions -> Nat]
    /\ datasets \in Nat /\ target \in Nat
    /\ filings \in Nat

-----------------------------------------------------------------------------
(* What one step of a publish does, said of its record before and after it. *)

BatchOf(w) == {t \in w.todo : Cardinality({o \in w.todo : o[2] < t[2]}) < BatchSize}

Goes(w, r, step) == r.step = step /\ r.dataset = w.dataset /\ r.todo = w.todo

SameStore == UNCHANGED <<live, rows, published, target, freed, filings>>
SamePtolemy == UNCHANGED <<datasets, schemas, branches, features>>

StartEffect(w, r) ==
    /\ SameStore /\ SamePtolemy
    /\ \/ r = Free
       \/ w = Free /\ live /\ Goes(w, r, "form")
       \/ w.step = "form" /\ live /\ Goes(w, r, "target")
       \/ w.step = "target" /\ ~ HasTarget /\ Goes(w, r, "dataset")
       \/ w.step = "target" /\ HasTarget /\ r.step = "rows" /\ r.dataset = target /\ r.todo = w.todo

DatasetEffect(w, r) ==
    /\ SameStore
    /\ w.step = "dataset" /\ datasets' = datasets + 1
    /\ UNCHANGED <<schemas, branches, features>>
    /\ r = Free \/ (r.step = "schema" /\ r.dataset = datasets + 1 /\ r.todo = w.todo)

SchemaEffect(w, r) ==
    /\ SameStore
    /\ w.step = "schema" /\ schemas' = schemas \cup {w.dataset}
    /\ UNCHANGED <<datasets, branches, features>>
    /\ r = Free \/ Goes(w, r, "branch")

BranchEffect(w, r) ==
    /\ SameStore
    /\ w.step = "branch" /\ branches' = branches \cup {w.dataset}
    /\ UNCHANGED <<datasets, schemas, features>>
    /\ r = Free \/ Goes(w, r, "record")

RecordEffect(w, r) ==
    /\ SamePtolemy
    /\ w.step = "record" /\ target' = w.dataset
    /\ UNCHANGED <<live, rows, published, freed, filings>>
    /\ Goes(w, r, "rows")

RowsEffect(w, r) ==
    /\ SameStore /\ SamePtolemy
    /\ w.step = "rows" /\ r.step = "commit" /\ r.dataset = w.dataset
    /\ r.todo = {<<s, rows[s]>> : s \in Operations} /\ r.todo # {}

CommitEffect(w, r) ==
    /\ SameStore
    /\ w.step = "commit"
    /\ features' = features \cup {<<w.dataset, t[1], t[2]>> : t \in BatchOf(w)}
    /\ UNCHANGED <<datasets, schemas, branches>>
    /\ r = Free \/ Goes(w, r, "mark")

MarkEffect(w, r) ==
    /\ SamePtolemy
    /\ w.step = "mark" /\ published' = published \cup {t[1] : t \in BatchOf(w)}
    /\ UNCHANGED <<live, rows, target, freed, filings>>
    /\ \/ r = Free
       \/ /\ r.step = "commit" /\ r.dataset = w.dataset
          /\ r.todo = w.todo \ BatchOf(w) /\ r.todo # {}

Effect(w, r) ==
    \/ StartEffect(w, r) \/ DatasetEffect(w, r) \/ SchemaEffect(w, r) \/ BranchEffect(w, r)
    \/ RecordEffect(w, r) \/ RowsEffect(w, r) \/ CommitEffect(w, r) \/ MarkEffect(w, r)

LEMMA StepNames ==
    /\ "form" \in Steps /\ "target" \in Steps /\ "dataset" \in Steps /\ "schema" \in Steps
    /\ "branch" \in Steps /\ "record" \in Steps /\ "rows" \in Steps /\ "commit" \in Steps
    /\ "mark" \in Steps
BY DEF Steps

LEMMA GoesOn ==
    ASSUME NEW w \in Handlers, NEW s \in Steps
    PROVE  [w EXCEPT !.step = s] \in Handlers /\ Goes(w, [w EXCEPT !.step = s], s)
BY DEF Handlers, Goes

\* Every step of a publish is one of these.
LEMMA WorkEffect ==
    ASSUME Typed, NEW h \in Slots, NEW w, w = handler[h],
           Ask(h) \/ Work(h) \/ PublishFails(h)
    PROVE  \E r \in Handlers : handler' = [handler EXCEPT ![h] = r] /\ Effect(w, r)
<1>1. w \in Handlers /\ target \in Nat /\ datasets \in Nat /\ rows \in [Submissions -> Nat]
    BY DEF Typed
<1>2. Free \in Handlers
    BY DEF Free, Handlers, Todos, Steps
<1>3. Batch(h) = BatchOf(w)
    BY DEF Batch, BatchOf
<1>4. ASSUME Done(h), Effect(w, Free)
      PROVE  \E r \in Handlers : handler' = [handler EXCEPT ![h] = r] /\ Effect(w, r)
    BY <1>2, <1>4 DEF Done
<1>5. ASSUME NEW s \in Steps, handler' = [handler EXCEPT ![h] = [w EXCEPT !.step = s]],
             \A r : Goes(w, r, s) => Effect(w, r)
      PROVE  \E r \in Handlers : handler' = [handler EXCEPT ![h] = r] /\ Effect(w, r)
    BY <1>1, <1>5, GoesOn
<1>6. ASSUME Ask(h) \/ GetForm(h) \/ PublishFails(h)
      PROVE  \E r \in Handlers : handler' = [handler EXCEPT ![h] = r] /\ Effect(w, r)
    <2>1. SameStore /\ SamePtolemy
        BY <1>6 DEF Ask, GetForm, PublishFails, storeVars, ptolemyVars, bounds, SameStore, SamePtolemy
    <2>2. CASE Done(h)
        BY <1>4, <2>1, <2>2 DEF Effect, StartEffect
    <2>3. CASE Ask(h)
        BY <1>5, <2>1, <2>3, StepNames DEF Ask, Step, Effect, StartEffect
    <2>4. CASE GetForm(h) /\ live
        BY <1>5, <2>1, <2>4, StepNames DEF GetForm, Step, Effect, StartEffect
    <2> QED BY <1>6, <2>2, <2>3, <2>4 DEF GetForm, PublishFails
<1>7. ASSUME PublishTarget(h)
      PROVE  \E r \in Handlers : handler' = [handler EXCEPT ![h] = r] /\ Effect(w, r)
    <2>1. SameStore /\ SamePtolemy /\ w.step = "target"
        BY <1>7 DEF PublishTarget, storeVars, ptolemyVars, bounds, SameStore, SamePtolemy
    <2>2. CASE ~ HasTarget
        BY <1>5, <1>7, <2>1, <2>2, StepNames DEF PublishTarget, Step, Effect, StartEffect
    <2>3. CASE HasTarget
        <3>1. PICK d : d = target
            OBVIOUS
        <3>2. PICK r : r = [w EXCEPT !.step = "rows", !.dataset = d]
            OBVIOUS
        <3>3. r \in Handlers /\ r.step = "rows" /\ r.dataset = d /\ r.todo = w.todo
            BY <1>1, <3>1, <3>2, StepNames DEF Handlers
        <3>4. handler' = [handler EXCEPT ![h] = r]
            BY <1>7, <2>3, <3>1, <3>2 DEF PublishTarget, Typed
        <3> QED BY <2>1, <2>3, <3>1, <3>3, <3>4 DEF Effect, StartEffect
    <2> QED BY <2>2, <2>3
<1>8. ASSUME CreateDataset(h)
      PROVE  \E r \in Handlers : handler' = [handler EXCEPT ![h] = r] /\ Effect(w, r)
    <2>1. PICK d : d = datasets + 1
        OBVIOUS
    <2>2. PICK r : r = [w EXCEPT !.step = "schema", !.dataset = d]
        OBVIOUS
    <2>3. d \in Nat
        BY <1>1, <2>1
    <2>4. r \in Handlers /\ r.step = "schema" /\ r.dataset = d /\ r.todo = w.todo
        BY <1>1, <2>2, <2>3, StepNames DEF Handlers
    <2>5. handler' = [handler EXCEPT ![h] = r] \/ Done(h)
        BY <1>8, <2>1, <2>2 DEF CreateDataset, Answered
    <2>6. \A q \in {r, Free} : Effect(w, q)
        BY <1>8, <2>1, <2>4 DEF CreateDataset, storeVars, SameStore, Effect, DatasetEffect
    <2> QED BY <1>4, <2>4, <2>5, <2>6
<1>9. ASSUME PutSchema(h)
      PROVE  \E r \in Handlers : handler' = [handler EXCEPT ![h] = r] /\ Effect(w, r)
    <2>1. \A r : r = Free \/ Goes(w, r, "branch") => Effect(w, r)
        BY <1>9 DEF PutSchema, storeVars, SameStore, Effect, SchemaEffect
    <2>2. handler' = [handler EXCEPT ![h] = [w EXCEPT !.step = "branch"]] \/ Done(h)
        BY <1>9 DEF PutSchema, Answered
    <2> QED BY <1>4, <1>5, <2>1, <2>2, StepNames
<1>10. ASSUME CreateBranch(h)
      PROVE  \E r \in Handlers : handler' = [handler EXCEPT ![h] = r] /\ Effect(w, r)
    <2>1. \A r : r = Free \/ Goes(w, r, "record") => Effect(w, r)
        BY <1>10 DEF CreateBranch, storeVars, SameStore, Effect, BranchEffect
    <2>2. handler' = [handler EXCEPT ![h] = [w EXCEPT !.step = "record"]] \/ Done(h)
        BY <1>10 DEF CreateBranch, Answered
    <2> QED BY <1>4, <1>5, <2>1, <2>2, StepNames
<1>11. ASSUME SetPublishTarget(h)
      PROVE  \E r \in Handlers : handler' = [handler EXCEPT ![h] = r] /\ Effect(w, r)
    <2>1. \A r : Goes(w, r, "rows") => Effect(w, r)
        BY <1>11 DEF SetPublishTarget, ptolemyVars, bounds, SamePtolemy, Effect, RecordEffect
    <2>2. handler' = [handler EXCEPT ![h] = [w EXCEPT !.step = "rows"]]
        BY <1>11 DEF SetPublishTarget, Step
    <2> QED BY <1>5, <2>1, <2>2, StepNames
<1>12. ASSUME ReadUnpublished(h)
      PROVE  \E r \in Handlers : handler' = [handler EXCEPT ![h] = r] /\ Effect(w, r)
    <2>1. SameStore /\ SamePtolemy /\ w.step = "rows"
        BY <1>12 DEF ReadUnpublished, storeVars, ptolemyVars, bounds, SameStore, SamePtolemy
    <2>2. CASE Done(h)
        BY <1>4, <2>1, <2>2 DEF Effect, StartEffect
    <2>3. PICK todo : todo = {<<s, rows[s]>> : s \in Operations}
        OBVIOUS
    <2>4. CASE /\ todo # {}
               /\ handler' = [handler EXCEPT ![h].step = "commit", ![h].todo = todo]
        <3>1. todo \in Todos
            BY <1>1, <2>3 DEF Operations, Unpublished, Todos
        <3>2. PICK r : r = [w EXCEPT !.step = "commit", !.todo = todo]
            OBVIOUS
        <3>3. r \in Handlers /\ r.step = "commit" /\ r.dataset = w.dataset /\ r.todo = todo
            BY <1>1, <3>1, <3>2, StepNames DEF Handlers
        <3>4. handler' = [handler EXCEPT ![h] = r]
            BY <2>4, <3>2 DEF Typed
        <3> QED BY <2>1, <2>3, <2>4, <3>3, <3>4 DEF Effect, RowsEffect
    <2> QED BY <1>12, <2>2, <2>3, <2>4 DEF ReadUnpublished
<1>13. ASSUME Commit(h)
      PROVE  \E r \in Handlers : handler' = [handler EXCEPT ![h] = r] /\ Effect(w, r)
    <2>1. Sent(h) = {<<w.dataset, t[1], t[2]>> : t \in BatchOf(w)}
        BY <1>3 DEF Sent
    <2>2. \A r : r = Free \/ Goes(w, r, "mark") => Effect(w, r)
        BY <1>13, <2>1 DEF Commit, storeVars, SameStore, Effect, CommitEffect
    <2>3. handler' = [handler EXCEPT ![h] = [w EXCEPT !.step = "mark"]] \/ Done(h)
        BY <1>13 DEF Commit, Answered
    <2> QED BY <1>4, <1>5, <2>2, <2>3, StepNames
<1>14. ASSUME RecordPublished(h)
      PROVE  \E r \in Handlers : handler' = [handler EXCEPT ![h] = r] /\ Effect(w, r)
    <2>1. PICK rest : rest = w.todo \ BatchOf(w)
        OBVIOUS
    <2>2. /\ SamePtolemy /\ w.step = "mark" /\ published' = published \cup {t[1] : t \in BatchOf(w)}
          /\ UNCHANGED <<live, rows, target, freed, filings>>
        BY <1>3, <1>14 DEF RecordPublished, Marked, ptolemyVars, bounds, SamePtolemy
    <2>3. CASE Done(h)
        BY <1>4, <2>2, <2>3 DEF Effect, MarkEffect
    <2>4. CASE /\ rest # {}
               /\ handler' = [handler EXCEPT ![h].step = "commit", ![h].todo = rest]
        <3>1. rest \in Todos
            BY <1>1, <2>1 DEF Handlers, Todos
        <3>2. PICK r : r = [w EXCEPT !.step = "commit", !.todo = rest]
            OBVIOUS
        <3>3. r \in Handlers /\ r.step = "commit" /\ r.dataset = w.dataset /\ r.todo = rest
            BY <1>1, <3>1, <3>2, StepNames DEF Handlers
        <3>4. handler' = [handler EXCEPT ![h] = r]
            BY <2>4, <3>2 DEF Typed
        <3> QED BY <2>1, <2>2, <2>4, <3>3, <3>4 DEF Effect, MarkEffect
    <2> QED BY <1>3, <1>14, <2>1, <2>3, <2>4 DEF RecordPublished
<1> QED BY <1>6, <1>7, <1>8, <1>9, <1>10, <1>11, <1>12, <1>13, <1>14 DEF Work

LEMMA InitTyped == Init => Typed
BY DEF Init, Typed, Free, Handlers, Todos, Steps

\* The steps of the rest of the server on this form leave ptolemy alone.
Elsewhere ==
    \/ \E s \in Submissions : FileSubmission(s) \/ DeleteSubmission(s)
    \/ DeleteForm \/ RestoreForm

LEMMA NextCases ==
    ASSUME [Next]_vars
    PROVE  \/ \E h \in Slots : Ask(h) \/ Work(h) \/ PublishFails(h)
           \/ Elsewhere
           \/ UNCHANGED vars
BY DEF Next, Elsewhere

LEMMA ElsewhereLeaves ==
    ASSUME Elsewhere \/ UNCHANGED vars
    PROVE  UNCHANGED <<handler, target, datasets, schemas, branches, features>>
BY DEF Elsewhere, FileSubmission, DeleteSubmission, DeleteForm, RestoreForm, ptolemyVars, vars, storeVars

LEMMA NextTyped == Typed /\ [Next]_vars => Typed'
<1> SUFFICES ASSUME Typed, [Next]_vars PROVE Typed'
    OBVIOUS
<1>1. ASSUME NEW h \in Slots, Ask(h) \/ Work(h) \/ PublishFails(h) PROVE Typed'
    <2>1. PICK w : w = handler[h]
        OBVIOUS
    <2>2. PICK r \in Handlers : handler' = [handler EXCEPT ![h] = r] /\ Effect(w, r)
        BY <1>1, <2>1, WorkEffect
    <2>3. w \in Handlers
        BY <2>1 DEF Typed
    <2>4. handler' \in [Slots -> Handlers]
        BY <2>2 DEF Typed
    <2>5. target' \in Nat /\ datasets' \in Nat /\ UNCHANGED <<rows, filings>>
        BY <2>2, <2>3 DEF Typed, Handlers, Effect, StartEffect, DatasetEffect, SchemaEffect,
           BranchEffect, RecordEffect, RowsEffect, CommitEffect, MarkEffect, SameStore, SamePtolemy
    <2> QED BY <2>4, <2>5 DEF Typed
<1>2. ASSUME Elsewhere PROVE Typed'
    <2>1. filings' \in Nat /\ rows' \in [Submissions -> Nat]
        <3>1. ASSUME NEW s \in Submissions, FileSubmission(s)
              PROVE  filings' \in Nat /\ rows' \in [Submissions -> Nat]
            BY <3>1 DEF FileSubmission, Typed
        <3>2. ASSUME NEW s \in Submissions, DeleteSubmission(s)
              PROVE  filings' \in Nat /\ rows' \in [Submissions -> Nat]
            BY <3>2 DEF DeleteSubmission, Typed
        <3>3. ASSUME DeleteForm \/ RestoreForm
              PROVE  filings' \in Nat /\ rows' \in [Submissions -> Nat]
            BY <3>3 DEF DeleteForm, RestoreForm, bounds, Typed
        <3> QED BY <1>2, <3>1, <3>2, <3>3 DEF Elsewhere
    <2> QED BY <1>2, <2>1, ElsewhereLeaves DEF Typed
<1>3. ASSUME UNCHANGED vars PROVE Typed'
    BY <1>3 DEF vars, storeVars, ptolemyVars, bounds, Typed
<1> QED BY <1>1, <1>2, <1>3, NextCases

-----------------------------------------------------------------------------
(* Targets are complete.                                                   *)

\* A dataset with all that create_target makes of it.
Whole(d) == d \in schemas /\ d \in branches

\* A publish that is past a call to ptolemy works on a dataset for which the
\* call took effect.
Ready(w) ==
    /\ w.step = "branch" => w.dataset \in schemas
    /\ w.step \in {"record", "rows", "commit", "mark"} => Whole(w.dataset)

\* The inductive invariant: TargetIsComplete says nothing of the publishes that
\* are going to record a target or commit to it.
Prepared == Typed /\ (\A h \in Slots : Ready(handler[h])) /\ TargetIsComplete

LEMMA InitPrepared == Init => Prepared
BY InitTyped DEF Init, Prepared, Ready, Free, TargetIsComplete

\* What the step of one publish does to its own record and to the target.
LEMMA EffectReady ==
    ASSUME Prepared, NEW w \in Handlers, NEW r \in Handlers, Ready(w), Effect(w, r)
    PROVE  /\ Ready(r)' /\ TargetIsComplete'
           /\ schemas \subseteq schemas' /\ branches \subseteq branches'
<1> USE DEF Ready, Whole, TargetIsComplete, SameStore, SamePtolemy, Goes
<1>1. CASE r = Free
    <2>1. /\ features' \subseteq features \cup {<<w.dataset, t[1], t[2]>> : t \in BatchOf(w)}
          /\ features' # features => w.step = "commit"
          /\ UNCHANGED target
          /\ schemas \subseteq schemas' /\ branches \subseteq branches'
        BY <1>1 DEF Effect, StartEffect, DatasetEffect, SchemaEffect, BranchEffect, RecordEffect,
                    RowsEffect, CommitEffect, MarkEffect, Free
    <2> QED BY <1>1, <2>1 DEF Prepared, Free
<1>2. CASE StartEffect(w, r)
    BY <1>2 DEF Prepared, StartEffect, HasTarget, Free
<1>3. CASE DatasetEffect(w, r)
    BY <1>1, <1>3 DEF Prepared, DatasetEffect
<1>4. CASE SchemaEffect(w, r)
    BY <1>1, <1>4 DEF Prepared, SchemaEffect
<1>5. CASE BranchEffect(w, r)
    BY <1>1, <1>5 DEF Prepared, BranchEffect
<1>6. CASE RecordEffect(w, r)
    BY <1>6 DEF Prepared, RecordEffect
<1>7. CASE RowsEffect(w, r) \/ MarkEffect(w, r)
    BY <1>1, <1>7 DEF Prepared, RowsEffect, MarkEffect
<1>8. CASE CommitEffect(w, r)
    BY <1>1, <1>8 DEF Prepared, CommitEffect
<1> QED BY <1>2, <1>3, <1>4, <1>5, <1>6, <1>7, <1>8 DEF Effect

LEMMA NextPrepared == Prepared /\ [Next]_vars => Prepared'
<1> SUFFICES ASSUME Prepared, [Next]_vars PROVE Prepared'
    OBVIOUS
<1>1. Typed'
    BY NextTyped DEF Prepared
<1>2. ASSUME NEW h \in Slots, Ask(h) \/ Work(h) \/ PublishFails(h) PROVE Prepared'
    <2>1. PICK w : w = handler[h]
        OBVIOUS
    <2>2. w \in Handlers /\ Ready(w)
        BY <2>1 DEF Prepared, Typed
    <2>3. PICK r \in Handlers : handler' = [handler EXCEPT ![h] = r] /\ Effect(w, r)
        BY <1>2, <2>1, WorkEffect DEF Prepared
    <2>4. /\ Ready(r)' /\ TargetIsComplete'
          /\ schemas \subseteq schemas' /\ branches \subseteq branches'
        BY <2>2, <2>3, EffectReady
    <2>5. ASSUME NEW g \in Slots PROVE Ready(handler[g])'
        <3>1. handler'[g] = IF g = h THEN r ELSE handler[g]
            BY <2>3 DEF Prepared, Typed
        <3> QED BY <2>4, <3>1 DEF Prepared, Ready, Whole
    <2> QED BY <1>1, <2>4, <2>5 DEF Prepared
<1>3. ASSUME Elsewhere \/ UNCHANGED vars PROVE Prepared'
    BY <1>1, <1>3, ElsewhereLeaves DEF Prepared, Ready, Whole, TargetIsComplete
<1> QED BY <1>2, <1>3, NextCases

LEMMA PreparedIsKept == Spec => []Prepared
<1>1. Init => Prepared
    BY InitPrepared
<1>2. Prepared /\ [Next]_vars => Prepared'
    BY NextPrepared
<1> QED BY <1>1, <1>2, PTL DEF Spec

\* However many publishes overlap and wherever they fail, no feature goes into a
\* dataset without its schema and its branch, and none such is recorded on the
\* form (create_target before set_publish_target, publish.rs:103-110).
THEOREM TargetsAreComplete == Spec => []TargetIsComplete
<1>1. Prepared => TargetIsComplete
    BY DEF Prepared
<1> QED BY <1>1, PreparedIsKept, PTL

-----------------------------------------------------------------------------
(* Types.                                                                  *)

Fits(w) ==
    /\ w.step \in Steps
    /\ w.dataset \in 0..datasets
    /\ w.todo \subseteq Located \X (1..filings)
    /\ w.step \in {"commit", "mark"} => w.todo # {}
    /\ w.step = "schema" => w.dataset # 0

FeaturesFit == features \subseteq branches \X Located \X (1..filings)

\* TypeOK without what it says of the handlers.
Stored ==
    /\ live \in BOOLEAN
    /\ rows \in [Submissions -> 0..filings]
    /\ \A s, t \in Submissions : rows[s] = rows[t] /\ s # t => rows[s] = 0
    /\ published \subseteq Located
    /\ target \in 0..datasets
    /\ schemas \subseteq 1..datasets /\ branches \subseteq schemas
    /\ FeaturesFit

Sound == Prepared /\ Stored /\ \A h \in Slots : Fits(handler[h])

LEMMA SoundTypes == Sound => TypeOK
BY DEF Sound, Prepared, Typed, Handlers, Stored, FeaturesFit, Fits, TypeOK, Steps

LEMMA InitSound == Init => Sound
BY InitPrepared, PublishAssumption DEF Init, Sound, Stored, FeaturesFit, Fits, Free, Steps

LEMMA FeaturesStayFit ==
    ASSUME FeaturesFit, features' = features, branches \subseteq branches',
           filings \in Nat, filings' \in Nat, filings <= filings'
    PROVE  FeaturesFit'
<1>1. 1..filings \subseteq 1..filings'
    OBVIOUS
<1> QED BY <1>1 DEF FeaturesFit

LEMMA BatchIsTodo ==
    ASSUME NEW w, NEW t \in BatchOf(w)
    PROVE  t \in w.todo
BY DEF BatchOf

LEMMA EffectSound ==
    ASSUME Sound, NEW w \in Handlers, NEW r \in Handlers, Ready(w), Fits(w), Effect(w, r)
    PROVE  Fits(r)' /\ Stored' /\ datasets <= datasets' /\ UNCHANGED filings
<1> USE DEF Fits, Stored, SameStore, SamePtolemy, Goes
<1>1. datasets \in Nat /\ filings \in Nat /\ target \in Nat
    BY DEF Sound, Prepared, Typed
<1>2. Fits(Free)'
    BY <1>1 DEF Free, Steps, Effect, StartEffect, DatasetEffect, SchemaEffect, BranchEffect,
       RecordEffect, RowsEffect, CommitEffect, MarkEffect
<1>3. CASE StartEffect(w, r)
    <2>1. Stored' /\ datasets <= datasets' /\ UNCHANGED filings
        BY <1>1, <1>3, FeaturesStayFit DEF Sound, StartEffect
    <2>2. r # Free => Fits(r)'
        BY <1>1, <1>3, StepNames DEF Sound, StartEffect, Free
    <2> QED BY <1>2, <2>1, <2>2
<1>4. CASE DatasetEffect(w, r)
    <2>1. Stored' /\ datasets <= datasets' /\ UNCHANGED filings
        BY <1>1, <1>4, FeaturesStayFit DEF Sound, DatasetEffect
    <2>2. r # Free => Fits(r)'
        BY <1>1, <1>4, StepNames DEF DatasetEffect
    <2> QED BY <1>2, <2>1, <2>2
<1>5. CASE SchemaEffect(w, r)
    <2>1. w.dataset \in 1..datasets
        BY <1>1, <1>5 DEF SchemaEffect
    <2>2. FeaturesFit'
        BY <1>1, <1>5, FeaturesStayFit DEF Sound, SchemaEffect
    <2>3. schemas' \subseteq 1..datasets' /\ branches' \subseteq schemas'
        BY <1>5, <2>1 DEF Sound, SchemaEffect
    <2>4. Stored' /\ datasets <= datasets' /\ UNCHANGED filings
        BY <1>1, <1>5, <2>2, <2>3 DEF Sound, SchemaEffect
    <2>5. r # Free => Fits(r)'
        BY <1>1, <1>5, StepNames DEF SchemaEffect
    <2> QED BY <1>2, <2>4, <2>5
<1>6. CASE BranchEffect(w, r)
    <2>1. w.dataset \in schemas
        BY <1>6 DEF BranchEffect, Ready
    <2>2. branches \subseteq branches'
        BY <1>6 DEF BranchEffect
    <2>3. FeaturesFit'
        BY <1>1, <1>6, <2>2, FeaturesStayFit DEF Sound, BranchEffect
    <2>4. schemas' \subseteq 1..datasets' /\ branches' \subseteq schemas'
        BY <1>6, <2>1 DEF Sound, BranchEffect
    <2>5. Stored' /\ datasets <= datasets' /\ UNCHANGED filings
        BY <1>1, <1>6, <2>3, <2>4 DEF Sound, BranchEffect
    <2>6. r # Free => Fits(r)'
        BY <1>1, <1>6, StepNames DEF BranchEffect
    <2> QED BY <1>2, <2>5, <2>6
<1>7. CASE RecordEffect(w, r)
    <2>1. Stored' /\ datasets <= datasets' /\ UNCHANGED filings
        BY <1>1, <1>7, FeaturesStayFit DEF Sound, RecordEffect
    <2>2. Fits(r)'
        BY <1>1, <1>7, StepNames DEF RecordEffect
    <2> QED BY <2>1, <2>2
<1>8. CASE RowsEffect(w, r)
    <2>1. {<<s, rows[s]>> : s \in Operations} \subseteq Located \X (1..filings)
        BY <1>1 DEF Sound, Operations, Unpublished
    <2>2. Stored' /\ datasets <= datasets' /\ UNCHANGED filings
        BY <1>1, <1>8, FeaturesStayFit DEF Sound, RowsEffect
    <2>3. Fits(r)'
        BY <1>1, <1>8, <2>1, StepNames DEF RowsEffect
    <2> QED BY <2>2, <2>3
<1>9. CASE CommitEffect(w, r)
    <2>1. w.dataset \in branches
        BY <1>9 DEF CommitEffect, Ready, Whole
    <2>2. \A t \in BatchOf(w) : t \in Located \X (1..filings)
        BY BatchIsTodo
    <2>3. \A t \in BatchOf(w) : <<w.dataset, t[1], t[2]>> \in branches \X Located \X (1..filings)
        BY <2>1, <2>2
    <2>4. FeaturesFit'
        BY <1>9, <2>3 DEF Sound, CommitEffect, FeaturesFit
    <2>5. Stored' /\ datasets <= datasets' /\ UNCHANGED filings
        BY <1>1, <1>9, <2>4 DEF Sound, CommitEffect
    <2>6. r # Free => Fits(r)'
        BY <1>1, <1>9, StepNames DEF CommitEffect
    <2> QED BY <1>2, <2>5, <2>6
<1>10. CASE MarkEffect(w, r)
    <2>1. \A t \in BatchOf(w) : t[1] \in Located
        BY BatchIsTodo
    <2>2. Stored' /\ datasets <= datasets' /\ UNCHANGED filings
        BY <1>1, <1>10, <2>1, FeaturesStayFit DEF Sound, MarkEffect
    <2>3. r # Free => Fits(r)'
        BY <1>1, <1>10, StepNames DEF MarkEffect
    <2> QED BY <1>2, <2>2, <2>3
<1> QED BY <1>3, <1>4, <1>5, <1>6, <1>7, <1>8, <1>9, <1>10 DEF Effect

LEMMA ElsewhereSound == ASSUME Sound, Elsewhere PROVE Stored' /\ \A h \in Slots : Fits(handler[h])'
<1>1. datasets \in Nat /\ filings \in Nat /\ UNCHANGED <<handler, target, datasets, schemas, branches, features>>
    BY ElsewhereLeaves DEF Sound, Prepared, Typed
<1>2. ASSUME filings' \in Nat, filings <= filings', live' \in BOOLEAN,
             rows' \in [Submissions -> 0..filings'],
             \A s, t \in Submissions : rows'[s] = rows'[t] /\ s # t => rows'[s] = 0,
             published' \subseteq published
      PROVE  Stored' /\ \A h \in Slots : Fits(handler[h])'
    <2>1. 1..filings \subseteq 1..filings'
        BY <1>1, <1>2
    <2>2. Stored'
        BY <1>1, <1>2, FeaturesStayFit DEF Sound, Stored
    <2>3. ASSUME NEW h \in Slots PROVE Fits(handler[h])'
        BY <1>1, <1>2, <2>1 DEF Sound, Fits
    <2> QED BY <2>2, <2>3
<1>3. ASSUME NEW s \in Submissions, FileSubmission(s)
      PROVE  Stored' /\ \A h \in Slots : Fits(handler[h])'
    <2>1. /\ rows' = [rows EXCEPT ![s] = filings'] /\ filings' = filings + 1
          /\ rows \in [Submissions -> 0..filings]
          /\ \A t, u \in Submissions : rows[t] = rows[u] /\ t # u => rows[t] = 0
        BY <1>3 DEF FileSubmission, Sound, Stored
    <2>2. rows' \in [Submissions -> 0..filings'] /\ filings' \in Nat /\ filings <= filings'
        BY <1>1, <2>1
    <2>3. \A t \in Submissions : rows'[t] = IF t = s THEN filings' ELSE rows[t]
        BY <2>1
    <2>4. \A t \in Submissions : rows[t] # filings'
        BY <1>1, <2>1
    <2>5. \A t, u \in Submissions : rows'[t] = rows'[u] /\ t # u => rows'[t] = 0
        BY <2>1, <2>3, <2>4
    <2>6. live' \in BOOLEAN /\ published' = published
        BY <1>3 DEF FileSubmission, Sound, Stored
    <2> QED BY <1>2, <2>2, <2>5, <2>6
<1>4. ASSUME NEW s \in Submissions, DeleteSubmission(s)
      PROVE  Stored' /\ \A h \in Slots : Fits(handler[h])'
    BY <1>1, <1>2, <1>4 DEF DeleteSubmission, Sound, Stored
<1>5. ASSUME DeleteForm \/ RestoreForm
      PROVE  Stored' /\ \A h \in Slots : Fits(handler[h])'
    <2>1. filings' = filings /\ live' \in BOOLEAN /\ published' \subseteq published
        BY <1>5 DEF DeleteForm, RestoreForm, bounds
    <2>2. rows' = rows \/ rows' = [s \in Submissions |-> 0]
        BY <1>5 DEF DeleteForm, RestoreForm
    <2>3. rows' \in [Submissions -> 0..filings']
        BY <1>1, <2>1, <2>2 DEF Sound, Stored
    <2>4. \A s, t \in Submissions : rows'[s] = rows'[t] /\ s # t => rows'[s] = 0
        BY <2>2 DEF Sound, Stored
    <2> QED BY <1>1, <1>2, <2>1, <2>3, <2>4
<1> QED BY <1>3, <1>4, <1>5 DEF Elsewhere

LEMMA NextSound == Sound /\ [Next]_vars => Sound'
<1> SUFFICES ASSUME Sound, [Next]_vars PROVE Sound'
    OBVIOUS
<1>1. Prepared'
    BY NextPrepared DEF Sound
<1>2. ASSUME NEW h \in Slots, Ask(h) \/ Work(h) \/ PublishFails(h) PROVE Sound'
    <2>1. PICK w : w = handler[h]
        OBVIOUS
    <2>2. w \in Handlers /\ Ready(w) /\ Fits(w)
        BY <2>1 DEF Sound, Prepared, Typed
    <2>3. PICK r \in Handlers : handler' = [handler EXCEPT ![h] = r] /\ Effect(w, r)
        BY <1>2, <2>1, WorkEffect DEF Sound, Prepared
    <2>4. Fits(r)' /\ Stored' /\ datasets <= datasets' /\ UNCHANGED filings
        BY <2>2, <2>3, EffectSound
    <2>5. ASSUME NEW g \in Slots PROVE Fits(handler[g])'
        <3>1. handler'[g] = IF g = h THEN r ELSE handler[g]
            BY <2>3 DEF Sound, Prepared, Typed
        <3>2. Fits(handler[g]) /\ datasets \in Nat /\ datasets' \in Nat
            BY <1>1 DEF Sound, Prepared, Typed
        <3> QED BY <2>4, <3>1, <3>2 DEF Fits
    <2> QED BY <1>1, <2>4, <2>5 DEF Sound
<1>3. ASSUME Elsewhere PROVE Sound'
    BY <1>1, <1>3, ElsewhereSound DEF Sound
<1>4. ASSUME UNCHANGED vars PROVE Sound'
    BY <1>1, <1>4 DEF Sound, Stored, FeaturesFit, Fits, vars, storeVars, ptolemyVars, bounds
<1> QED BY <1>2, <1>3, <1>4, NextCases

LEMMA SoundIsKept == Spec => []Sound
<1>1. Init => Sound
    BY InitSound
<1>2. Sound /\ [Next]_vars => Sound'
    BY NextSound
<1> QED BY <1>1, <1>2, PTL DEF Spec

\* Types, and more than types: only what has a location is published, a branch
\* belongs to a dataset with a schema and a feature to a dataset with a branch,
\* however many publishes overlap (create_target, insert_operation).
THEOREM TypeCorrect == Spec => []TypeOK
<1>1. Sound => TypeOK
    BY SoundTypes
<1> QED BY <1>1, SoundIsKept, PTL

-----------------------------------------------------------------------------
(* What is recorded was accepted.                                          *)

\* A feature of the submission as it is on file.
Accepted(s) == \E f \in features : f[2] = s /\ f[3] = rows[s]

\* What a publish knows: what it has read is still so, unless it was deleted
\* meanwhile, and what it is about to mark was accepted.
Knows(w) ==
    /\ \A t \in w.todo : rows[t[1]] = t[2] \/ t[1] \in freed
    /\ w.step = "mark" => \A t \in BatchOf(w) : <<w.dataset, t[1], t[2]>> \in features

\* A submission without a row is not recorded as published, or the next filing
\* under its id would be taken for published.
Recorded == \A s \in published \ freed : rows[s] # 0 /\ Accepted(s)

Informed == Sound /\ Recorded /\ \A h \in Slots : Knows(handler[h])

LEMMA InitInformed == Init => Informed
BY InitSound DEF Init, Informed, Recorded, Knows, Free

LEMMA TodoRows ==
    ASSUME NEW w, Fits(w), NEW t \in w.todo
    PROVE  t[1] \in Submissions /\ t[2] \in 1..filings
BY PublishAssumption DEF Fits

LEMMA EffectKnows ==
    ASSUME Sound, Recorded, NEW w \in Handlers, NEW r \in Handlers,
           Fits(w), Knows(w), Effect(w, r)
    PROVE  Knows(r)' /\ Recorded' /\ UNCHANGED <<rows, freed>> /\ features \subseteq features'
<1> USE DEF SameStore, SamePtolemy, Goes
<1>1. UNCHANGED <<rows, freed>> /\ features \subseteq features'
    BY DEF Effect, StartEffect, DatasetEffect, SchemaEffect, BranchEffect, RecordEffect,
       RowsEffect, CommitEffect, MarkEffect
<1>2. r = Free => Knows(r)'
    BY DEF Knows, Free
<1>3. ASSUME published' = published PROVE Recorded'
    BY <1>1, <1>3 DEF Recorded, Accepted
<1>4. ASSUME r.todo = w.todo, r.step # "mark" PROVE Knows(r)'
    BY <1>1, <1>4 DEF Knows
<1>5. CASE StartEffect(w, r)
    BY <1>2, <1>3, <1>4, <1>5 DEF StartEffect
<1>6. CASE DatasetEffect(w, r) \/ SchemaEffect(w, r) \/ BranchEffect(w, r)
    BY <1>2, <1>3, <1>4, <1>6 DEF DatasetEffect, SchemaEffect, BranchEffect
<1>7. CASE RecordEffect(w, r)
    BY <1>3, <1>4, <1>7 DEF RecordEffect
<1>8. CASE RowsEffect(w, r)
    <2>1. Knows(r)'
        BY <1>1, <1>8 DEF RowsEffect, Knows
    <2> QED BY <1>3, <1>8, <2>1 DEF RowsEffect
<1>9. CASE CommitEffect(w, r)
    <2>1. ASSUME r # Free PROVE Knows(r)'
        <3>1. r.step = "mark" /\ r.dataset = w.dataset /\ r.todo = w.todo
            BY <1>9, <2>1 DEF CommitEffect
        <3>2. BatchOf(r) = BatchOf(w)
            BY <3>1 DEF BatchOf
        <3>3. \A t \in BatchOf(r) : <<r.dataset, t[1], t[2]>> \in features'
            BY <1>9, <3>1, <3>2 DEF CommitEffect
        <3> QED BY <1>1, <3>1, <3>3 DEF Knows, BatchOf
    <2> QED BY <1>1, <1>2, <1>3, <1>9, <2>1 DEF CommitEffect
<1>10. CASE MarkEffect(w, r)
    <2>1. ASSUME NEW t \in BatchOf(w), t[1] \notin freed
          PROVE  rows[t[1]] # 0 /\ Accepted(t[1])
        <3>1. t \in w.todo
            BY BatchIsTodo
        <3>2. rows[t[1]] = t[2] /\ t[2] \in 1..filings
            BY <2>1, <3>1, TodoRows DEF Knows
        <3>3. <<w.dataset, t[1], t[2]>> \in features
            BY <1>10 DEF MarkEffect, Knows
        <3>4. t[2] # 0
            BY <3>2 DEF Sound, Prepared, Typed
        <3>5. PICK f \in features : f = <<w.dataset, t[1], t[2]>>
            BY <3>3
        <3>6. f[2] = t[1] /\ f[3] = rows[t[1]]
            BY <3>2, <3>5
        <3> QED BY <3>2, <3>4, <3>6 DEF Accepted
    <2>2. Recorded'
        BY <1>1, <1>10, <2>1 DEF MarkEffect, Recorded, Accepted
    <2>3. r # Free => r.step = "commit" /\ r.todo \subseteq w.todo
        BY <1>10 DEF MarkEffect
    <2> QED BY <1>1, <1>2, <2>2, <2>3 DEF Knows
<1> QED BY <1>1, <1>5, <1>6, <1>7, <1>8, <1>9, <1>10 DEF Effect

\* The rest of the server gives out fresh rowids and takes rows away.
LEMMA ElsewhereKnows == ASSUME Informed, Elsewhere PROVE Recorded' /\ \A h \in Slots : Knows(handler[h])'
<1>1. /\ filings \in Nat /\ rows \in [Submissions -> Nat] /\ published \subseteq Submissions
      /\ \A s \in Submissions : rows[s] <= filings
    BY PublishAssumption DEF Informed, Sound, Stored, Prepared, Typed
<1>2. UNCHANGED <<handler, features>>
    BY ElsewhereLeaves
<1>3. ASSUME NEW h \in Slots, NEW t \in handler[h].todo
      PROVE  t[1] \in Held /\ t[1] \in Submissions /\ t[2] \in 1..filings
    BY TodoRows DEF Informed, Sound, Held
<1>4. ASSUME \A h \in Slots, t \in UNION {handler[g].todo : g \in Slots} :
                 rows[t[1]] = t[2] \/ t[1] \in freed => rows'[t[1]] = t[2] \/ t[1] \in freed'
      PROVE  \A h \in Slots : Knows(handler[h])'
    <2>1. \A h \in Slots : BatchOf(handler'[h]) = BatchOf(handler[h])
        BY <1>2
    <2> QED BY <1>2, <1>4, <2>1 DEF Informed, Knows
<1>5. ASSUME NEW s \in Submissions, FileSubmission(s)
      PROVE  Recorded' /\ \A h \in Slots : Knows(handler[h])'
    <2>1. /\ rows[s] = 0 /\ rows' = [rows EXCEPT ![s] = filings + 1]
          /\ UNCHANGED <<published, freed>>
        BY <1>5 DEF FileSubmission
    <2>2. s \notin published \ freed
        BY <2>1 DEF Informed, Recorded
    <2>3. Recorded'
        BY <1>1, <1>2, <2>1, <2>2 DEF Informed, Recorded, Accepted
    <2>4. \A h \in Slots : \A t \in handler[h].todo : rows[t[1]] = t[2] => rows'[t[1]] = t[2]
        BY <1>1, <1>3, <2>1
    <2> QED BY <1>4, <2>1, <2>3, <2>4
<1>6. ASSUME NEW gone \in SUBSET Submissions,
             rows' = [s \in Submissions |-> IF s \in gone THEN 0 ELSE rows[s]],
             published' = published \ gone, freed' = freed \cup (Held \cap gone)
      PROVE  Recorded' /\ \A h \in Slots : Knows(handler[h])'
    <2>1. Recorded'
        BY <1>1, <1>2, <1>6 DEF Informed, Recorded, Accepted
    <2>2. \A h \in Slots : \A t \in handler[h].todo :
              rows[t[1]] = t[2] \/ t[1] \in freed => rows'[t[1]] = t[2] \/ t[1] \in freed'
        BY <1>1, <1>3, <1>6
    <2> QED BY <1>4, <2>1, <2>2
<1>7. ASSUME NEW s \in Submissions, DeleteSubmission(s)
      PROVE  Recorded' /\ \A h \in Slots : Knows(handler[h])'
    <2>1. rows' = [t \in Submissions |-> IF t \in {s} THEN 0 ELSE rows[t]]
        BY <1>1, <1>7 DEF DeleteSubmission
    <2> QED BY <1>6, <1>7, <2>1 DEF DeleteSubmission
<1>8. ASSUME DeleteForm PROVE Recorded' /\ \A h \in Slots : Knows(handler[h])'
    <2>1. Held \cap Submissions = Held
        BY <1>3 DEF Held
    <2>2. published \ Submissions = {}
        BY <1>1
    <2>3. rows' = [t \in Submissions |-> IF t \in Submissions THEN 0 ELSE rows[t]]
        BY <1>8 DEF DeleteForm
    <2> QED BY <1>6, <1>8, <2>1, <2>2, <2>3 DEF DeleteForm
<1>9. ASSUME RestoreForm PROVE Recorded' /\ \A h \in Slots : Knows(handler[h])'
    <2>1. UNCHANGED <<rows, published, freed>>
        BY <1>9 DEF RestoreForm
    <2>2. Recorded'
        BY <1>2, <2>1 DEF Informed, Recorded, Accepted
    <2> QED BY <1>4, <2>1, <2>2
<1> QED BY <1>5, <1>7, <1>8, <1>9 DEF Elsewhere

LEMMA NextInformed == Informed /\ [Next]_vars => Informed'
<1> SUFFICES ASSUME Informed, [Next]_vars PROVE Informed'
    OBVIOUS
<1>1. Sound'
    BY NextSound DEF Informed
<1>2. ASSUME NEW h \in Slots, Ask(h) \/ Work(h) \/ PublishFails(h) PROVE Informed'
    <2>1. PICK w : w = handler[h]
        OBVIOUS
    <2>2. w \in Handlers /\ Fits(w) /\ Knows(w)
        BY <2>1 DEF Informed, Sound, Prepared, Typed
    <2>3. PICK r \in Handlers : handler' = [handler EXCEPT ![h] = r] /\ Effect(w, r)
        BY <1>2, <2>1, WorkEffect DEF Informed, Sound, Prepared
    <2>4. Knows(r)' /\ Recorded' /\ UNCHANGED <<rows, freed>> /\ features \subseteq features'
        BY <2>2, <2>3, EffectKnows DEF Informed
    <2>5. ASSUME NEW g \in Slots PROVE Knows(handler[g])'
        <3>1. handler'[g] = IF g = h THEN r ELSE handler[g]
            BY <2>3 DEF Informed, Sound, Prepared, Typed
        <3>2. Knows(handler[g])
            BY DEF Informed
        <3> QED BY <2>4, <3>1, <3>2 DEF Knows, BatchOf
    <2> QED BY <1>1, <2>4, <2>5 DEF Informed
<1>3. ASSUME Elsewhere PROVE Informed'
    BY <1>1, <1>3, ElsewhereKnows DEF Informed
<1>4. ASSUME UNCHANGED vars PROVE Informed'
    BY <1>1, <1>4 DEF Informed, Recorded, Accepted, Knows, BatchOf, vars, storeVars, ptolemyVars
<1> QED BY <1>2, <1>3, <1>4, NextCases

\* However many publishes of a form overlap and wherever they fail, what is
\* recorded as published was accepted by ptolemy as it is on file: leaving it
\* out of the next publish loses nothing (record_published after the answer of
\* the commit, publish.rs:123-133).  Left out are the ids deleted while a
\* publish held them.
THEOREM RecordsAreTrue == Spec => []RecordedWasAccepted
<1>1. Init => Informed
    BY InitInformed
<1>2. Informed /\ [Next]_vars => Informed'
    BY NextInformed
<1>3. Informed => RecordedWasAccepted
    BY DEF Informed, Recorded, Accepted, RecordedWasAccepted
<1> QED BY <1>1, <1>2, <1>3, PTL DEF Spec

-----------------------------------------------------------------------------
(* Once the first publishes are over.                                      *)

\* A feature was committed of a rowid that was given out.
LEMMA FeatureRows ==
    ASSUME Sound, NEW f \in features
    PROVE  f[2] \in Submissions /\ f[3] \in 1..filings
BY PublishAssumption DEF Sound, Stored, FeaturesFit

\* The part of Settled that one publish has to keep.
OnTarget(w) ==
    /\ w.step \notin {"dataset", "schema", "branch", "record"}
    /\ w.step \in {"rows", "commit", "mark"} => w.dataset = target

LEMMA EffectSettled ==
    ASSUME Sound, Settled, NEW w \in Handlers, NEW r \in Handlers, OnTarget(w), Effect(w, r)
    PROVE  /\ UNCHANGED <<live, rows, target, datasets>> /\ OnTarget(r)
           /\ \A f \in features' \ features : f[1] = target
<1> USE DEF OnTarget, SameStore, SamePtolemy, Goes
<1>1. CASE StartEffect(w, r)
    BY <1>1 DEF StartEffect, Settled, HasTarget, Free
<1>2. CASE RowsEffect(w, r) \/ MarkEffect(w, r)
    BY <1>2 DEF RowsEffect, MarkEffect, Free
<1>3. CASE CommitEffect(w, r)
    BY <1>3 DEF CommitEffect, Free
<1> QED BY <1>1, <1>2, <1>3 DEF Effect, DatasetEffect, SchemaEffect, BranchEffect, RecordEffect

LEMMA ElsewhereSettled ==
    ASSUME Sound, Settled, Elsewhere
    PROVE  Settled' \/ ~ live'
<1>1. UNCHANGED <<handler, target>>
    BY ElsewhereLeaves
<1> QED BY <1>1 DEF Settled

LEMMA ElsewhereOneDataset ==
    ASSUME Sound, OneDataset, Elsewhere
    PROVE  OneDataset'
<1>1. /\ filings \in Nat /\ rows \in [Submissions -> Nat] /\ UNCHANGED <<features, target>>
    BY ElsewhereLeaves DEF Sound, Prepared, Typed
<1>2. \A f \in features : rows'[f[2]] = f[3] => rows[f[2]] = f[3]
    <2>1. ASSUME NEW s \in Submissions, FileSubmission(s) \/ DeleteSubmission(s), NEW f \in features
          PROVE  rows'[f[2]] = f[3] => rows[f[2]] = f[3]
        <3>1. f[2] \in Submissions /\ f[3] \in 1..filings
            BY FeatureRows
        <3>2. rows' = [rows EXCEPT ![s] = filings + 1] \/ rows' = [rows EXCEPT ![s] = 0]
            BY <2>1 DEF FileSubmission, DeleteSubmission
        <3> QED BY <1>1, <3>1, <3>2
    <2>2. ASSUME DeleteForm \/ RestoreForm, NEW f \in features
          PROVE  rows'[f[2]] = f[3] => rows[f[2]] = f[3]
        <3>1. f[2] \in Submissions /\ f[3] \in 1..filings
            BY FeatureRows
        <3>2. rows' = rows \/ rows' = [s \in Submissions |-> 0]
            BY <2>2 DEF DeleteForm, RestoreForm
        <3> QED BY <1>1, <3>1, <3>2
    <2> QED BY <2>1, <2>2 DEF Elsewhere
<1> QED BY <1>1, <1>2 DEF OneDataset

\* Two first publishes of a form may make two datasets; but once those that met
\* no target are over, however many publishes overlap, no other dataset is made
\* or written to before the form is deleted, and submissions of the form that
\* are in one dataset stay in one (publish_target, publish.rs:101-110).
THEOREM TargetSettles == Spec => StaysSettled
<1>1. ASSUME Sound, Settled, Next PROVE KeepsSettled
    <2>1. ASSUME NEW h \in Slots, Ask(h) \/ Work(h) \/ PublishFails(h) PROVE KeepsSettled
        <3>1. PICK w : w = handler[h]
            OBVIOUS
        <3>2. w \in Handlers /\ OnTarget(w)
            BY <1>1, <3>1 DEF Sound, Prepared, Typed, Settled, OnTarget
        <3>3. PICK r \in Handlers : handler' = [handler EXCEPT ![h] = r] /\ Effect(w, r)
            BY <1>1, <2>1, <3>1, WorkEffect DEF Sound, Prepared
        <3>4. /\ UNCHANGED <<live, rows, target, datasets>> /\ OnTarget(r)
              /\ \A f \in features' \ features : f[1] = target
            BY <1>1, <3>2, <3>3, EffectSettled
        <3>5. \A g \in Slots : handler'[g] = IF g = h THEN r ELSE handler[g]
            BY <1>1, <3>3 DEF Sound, Prepared, Typed
        <3>6. Settled'
            BY <1>1, <3>4, <3>5 DEF Settled, OnTarget
        <3>7. OneDataset => OneDataset'
            BY <3>4 DEF OneDataset
        <3> QED BY <3>4, <3>6, <3>7 DEF KeepsSettled
    <2>2. ASSUME Elsewhere PROVE KeepsSettled
        BY <1>1, <2>2, ElsewhereLeaves, ElsewhereSettled, ElsewhereOneDataset DEF KeepsSettled
    <2> QED BY <1>1, <2>1, <2>2 DEF Next, Elsewhere
<1>2. Sound /\ [Next]_vars => [KeepsSettled]_vars
    BY <1>1 DEF KeepsSettled
<1> QED BY <1>2, SoundIsKept, PTL DEF Spec, StaysSettled
=============================================================================
