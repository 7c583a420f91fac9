--------------------------- MODULE FillFormProofs ---------------------------
(***************************************************************************)
(* What a device asks and what the server checks are the same, for every   *)
(* form they agree on (Agreed), every answer and every way of filling in.  *)
(***************************************************************************)
EXTENDS FillForm, FiniteSetTheorems, FunctionTheorems, SequenceTheorems, TLAPS

-----------------------------------------------------------------------------
(* A condition, and the comparison its bind carries. *)

LEMMA OpIs ==
  ASSUME NEW op \in Operators \ {"IsNotEmpty"}
  PROVE  LET o == CHOOSE q \in DOMAIN ConditionOp : ConditionOp[q] = op
         IN /\ op = "Equals" <=> o = "="
            /\ op = "NotEquals" <=> o = "!="
            /\ op = "GreaterThan" <=> o = ">"
            /\ op = "LessThan" <=> o = "<"
            /\ op = "Contains" <=> o = "selected"
            /\ o \in {"=", "!=", ">", "<", "selected"}
<1>1. DOMAIN ConditionOp = {"=", "!=", ">", "<", "selected"}
    BY DEF ConditionOp
<1>2. /\ ConditionOp["="] = "Equals" /\ ConditionOp["!="] = "NotEquals"
      /\ ConditionOp[">"] = "GreaterThan" /\ ConditionOp["<"] = "LessThan"
      /\ ConditionOp["selected"] = "Contains"
    BY DEF ConditionOp
<1>3. \E q \in DOMAIN ConditionOp : ConditionOp[q] = op
    BY <1>1, <1>2 DEF Operators
<1> DEFINE o == CHOOSE q \in DOMAIN ConditionOp : ConditionOp[q] = op
<1>4. o \in DOMAIN ConditionOp /\ ConditionOp[o] = op
    BY <1>3
<1> HIDE DEF o
<1> QED BY <1>1, <1>2, <1>4 DEF o

\* The text conditions see is the one the answer has.
Textual(values, name) ==
  name \in DOMAIN values => HasText(values[name]) \/ values[name].kind = "Null"

LEMMA OneComparison ==
  ASSUME NEW c, c.op \in Operators, NEW values, Textual(values, c.field)
  PROVE  /\ Evaluate(c, values) <=> DeviceHolds(ConditionExpression(c), TextOf(values, c.field))
         /\ ConditionExpression(c).field = c.field
<1> DEFINE text == TextOf(values, c.field)
           d == ConditionExpression(c)
<1>1. CASE c.op = "IsNotEmpty"
    <2>1. d.op = "!=" /\ d.value = <<>> /\ d.field = c.field
        BY <1>1 DEF ConditionExpression
    <2>2. DeviceHolds(d, text) <=> text # <<>>
        <3> HIDE DEF d, text
        <3> QED BY <2>1 DEF DeviceHolds
    <2>3. Evaluate(c, values) <=> text # <<>>
        BY <1>1 DEF Evaluate, TextOf, Textual, HasText, Textless
    <2> QED BY <2>1, <2>2, <2>3
<1>2. CASE c.op # "IsNotEmpty"
    <2> DEFINE o == CHOOSE q \in DOMAIN ConditionOp : ConditionOp[q] = c.op
    <2>1. d.op = o /\ d.value = c.value /\ d.field = c.field
        BY <1>2 DEF ConditionExpression
    <2>2. /\ c.op = "Equals" <=> o = "="
          /\ c.op = "NotEquals" <=> o = "!="
          /\ c.op = "GreaterThan" <=> o = ">"
          /\ c.op = "LessThan" <=> o = "<"
          /\ c.op = "Contains" <=> o = "selected"
          /\ o \in {"=", "!=", ">", "<", "selected"}
        BY <1>2, OpIs
    <2> HIDE DEF o, d, text
    <2>3. Evaluate(c, values) <=> DeviceHolds(d, text)
        BY <1>2, <2>1, <2>2 DEF Evaluate, DeviceHolds, text
    <2> QED BY <2>1, <2>3 DEF d, text
<1> QED BY <1>1, <1>2

\* A comparison the importer models means what the condition made of it means.
LEMMA ImportedComparison ==
  ASSUME NEW c, NEW text, ParseRelevant(<<c>>) # {}
  PROVE  \E d : /\ ParseRelevant(<<c>>) = {d} /\ d.op \in Operators /\ d.field = c.field
                /\ DeviceHolds(ConditionExpression(d), text) <=> DeviceHolds(c, text)
<1>1. ToSet(<<c>>) = {c} /\ Len(<<c>>) = 1
    BY DEF ToSet
<1>2. c.op \in {"=", "!=", ">", "<", "selected"}
    BY <1>1 DEF ParseRelevant, ConditionOp
<1> DEFINE d == IF c.op = "!=" /\ c.value = <<>>
                THEN [op |-> "IsNotEmpty", field |-> c.field, value |-> <<>>]
                ELSE [op |-> ConditionOp[c.op], field |-> c.field, value |-> c.value]
<1>3. ParseRelevant(<<c>>) = {d}
    BY <1>1 DEF ParseRelevant
<1>4. d.field = c.field
    OBVIOUS
<1>5. CASE c.op = "!=" /\ c.value = <<>>
    <2>1. d.op = "IsNotEmpty"
        BY <1>5
    <2> HIDE DEF d
    <2>2. ConditionExpression(d).op = c.op /\ ConditionExpression(d).value = c.value
        BY <1>5, <2>1 DEF ConditionExpression
    <2>3. DeviceHolds(ConditionExpression(d), text) <=> DeviceHolds(c, text)
        BY <2>2 DEF DeviceHolds
    <2> QED BY <1>3, <1>4, <2>1, <2>3 DEF Operators
<1>6. CASE ~ (c.op = "!=" /\ c.value = <<>>)
    <2>1. d.op = ConditionOp[c.op] /\ d.value = c.value
        BY <1>6
    <2> HIDE DEF d
    <2>2. /\ c.op = "=" => d.op = "Equals"
          /\ c.op = "!=" => d.op = "NotEquals"
          /\ c.op = ">" => d.op = "GreaterThan"
          /\ c.op = "<" => d.op = "LessThan"
          /\ c.op = "selected" => d.op = "Contains"
        BY <1>2, <2>1 DEF ConditionOp
    <2>3. d.op \in Operators \ {"IsNotEmpty"}
        BY <1>2, <2>2 DEF Operators
    <2> DEFINE o == CHOOSE q \in DOMAIN ConditionOp : ConditionOp[q] = d.op
    <2>4. ConditionExpression(d).op = o /\ ConditionExpression(d).value = c.value
        BY <2>1, <2>3 DEF ConditionExpression
    <2>5. /\ d.op = "Equals" <=> o = "="
          /\ d.op = "NotEquals" <=> o = "!="
          /\ d.op = "GreaterThan" <=> o = ">"
          /\ d.op = "LessThan" <=> o = "<"
          /\ d.op = "Contains" <=> o = "selected"
        BY <2>3, OpIs
    <2> HIDE DEF o
    <2>6. o = c.op
        BY <1>2, <2>2, <2>5
    <2>7. DeviceHolds(ConditionExpression(d), text) <=> DeviceHolds(c, text)
        BY <2>4, <2>6 DEF DeviceHolds
    <2> QED BY <1>3, <1>4, <2>3, <2>7
<1> QED BY <1>5, <1>6

\* The conditions of a field hold just when its relevant expression does.
LEMMA ModelledIsMeant ==
  ASSUME NEW f, Modelled(f), NEW values, \A c \in Relevant(f) : Textual(values, c.field)
  PROVE  (~ Hidden(f, values)) <=> \A c \in Relevant(f) : DeviceHolds(c, TextOf(values, c.field))
<1>1. (~ Hidden(f, values)) <=> \A c \in f.relevant : Evaluate(c, values)
    BY DEF Hidden
<1>2. CASE f.raw = <<>>
    <2>1. Relevant(f) = {ConditionExpression(c) : c \in f.relevant}
        BY <1>2 DEF Relevant
    <2>2. ASSUME NEW c \in f.relevant
          PROVE  /\ Evaluate(c, values) <=> DeviceHolds(ConditionExpression(c), TextOf(values, c.field))
                 /\ ConditionExpression(c).field = c.field
        <3>1. c.op \in Operators
            BY DEF Modelled
        <3>2. ConditionExpression(c).field = c.field
            BY DEF ConditionExpression
        <3>3. Textual(values, c.field)
            BY <2>1, <3>2
        <3> QED BY <3>1, <3>3, OneComparison
    <2> QED BY <1>1, <2>1, <2>2
<1>3. CASE f.raw # <<>>
    <2> DEFINE c == f.raw[1]
    <2>1. f.raw = <<c>> /\ f.relevant = ParseRelevant(f.raw) /\ f.relevant # {}
        BY <1>3 DEF Modelled
    <2> HIDE DEF c
    <2>2. Relevant(f) = {c}
        <3>1. ToSet(<<c>>) = {c}
            BY DEF ToSet
        <3> QED BY <1>3, <2>1, <3>1 DEF Relevant
    <2>3. PICK d : /\ f.relevant = {d} /\ d.op \in Operators /\ d.field = c.field
                   /\ DeviceHolds(ConditionExpression(d), TextOf(values, c.field))
                         <=> DeviceHolds(c, TextOf(values, c.field))
        BY <2>1, ImportedComparison
    <2>4. Textual(values, d.field)
        BY <2>2, <2>3
    <2>5. Evaluate(d, values) <=> DeviceHolds(ConditionExpression(d), TextOf(values, d.field))
        BY <2>3, <2>4, OneComparison
    <2> QED BY <1>1, <2>2, <2>3, <2>5
<1> QED BY <1>2, <1>3

-----------------------------------------------------------------------------
(* Fields, places and references of a form. *)

\* A set of numbers that is not empty has a smallest.
LEMMA Smallest ==
  ASSUME NEW numbers \in SUBSET Nat, numbers # {}
  PROVE  \E m \in numbers : \A k \in numbers : m <= k
<1> DEFINE R == OpToRel(<, Nat)
<1>1. IsWellFoundedOn(R, Nat)
    BY NatLessThanWellFounded
<1>2. \A a, b \in Nat : <<a, b>> \in R <=> a < b
    BY DEF OpToRel
<1> HIDE DEF R
<1>3. PICK m \in numbers : \A k \in numbers : ~ (<<k, m>> \in R)
    BY <1>1, WFMin
<1>4. ASSUME NEW k \in numbers PROVE m <= k
    <2>1. m \in Nat /\ k \in Nat /\ ~ (<<k, m>> \in R)
        BY <1>3
    <2> QED BY <1>2, <2>1
<1> QED BY <1>4

Descends(fields, g) ==
  g = [n \in 0 .. MaxNesting |-> IF n = 0 THEN ToSet(fields) ELSE UNION {Children(f) : f \in g[n - 1]}]

LEMMA FieldsOfIs ==
  \A fields : FieldsOf(fields) = UNION {(CHOOSE g : Descends(fields, g))[n] : n \in 0 .. MaxNesting}
BY DEF FieldsOf, Descends

\* The fields of a form that is flat are those of its top level and of its rows.
LEMMA FieldsIn ==
  ASSUME NEW fields, Flat(fields)
  PROVE  /\ ToSet(fields) \subseteq FieldsOf(fields)
         /\ \A f \in ToSet(fields) : Children(f) \subseteq FieldsOf(fields)
<1> DEFINE below == UNION {Children(f) : f \in ToSet(fields)}
           g == [n \in 0 .. MaxNesting |-> IF n = 0 THEN ToSet(fields) ELSE IF n = 1 THEN below ELSE {}]
<1>1. \A c \in below : Children(c) = {}
    BY DEF Flat, Children
<1>2. 0 \in 0 .. MaxNesting /\ 1 \in 0 .. MaxNesting /\ MaxNesting \in Nat
    BY MaxNestingAssumption
<1>3. ASSUME NEW n \in 0 .. MaxNesting
      PROVE  g[n] = IF n = 0 THEN ToSet(fields) ELSE UNION {Children(f) : f \in g[n - 1]}
    <2>1. CASE n = 0
        BY <2>1
    <2>2. CASE n = 1
        BY <1>2, <2>2
    <2>3. CASE n \notin {0, 1}
        <3>1. n - 1 \in 0 .. MaxNesting /\ n - 1 # 0
            BY <1>2, <2>3
        <3>2. g[n] = {} /\ g[n - 1] \in {below, {}}
            BY <2>3, <3>1
        <3>3. UNION {Children(f) : f \in g[n - 1]} = {}
            <4> HIDE DEF g, below
            <4> QED BY <1>1, <3>2
        <3> QED BY <2>3, <3>2, <3>3
    <2> QED BY <2>1, <2>2, <2>3
<1>4. Descends(fields, g)
    <2> DEFINE h == [n \in 0 .. MaxNesting |->
                       IF n = 0 THEN ToSet(fields) ELSE UNION {Children(f) : f \in g[n - 1]}]
    <2>1. g = [n \in 0 .. MaxNesting |-> g[n]]
        OBVIOUS
    <2> HIDE DEF g
    <2>2. g = h
        BY <1>3, <2>1
    <2> QED BY <2>2 DEF Descends
<1> DEFINE d == CHOOSE q : Descends(fields, q)
<1>5. Descends(fields, d)
    <2> HIDE DEF g
    <2> QED BY <1>4
<1> HIDE DEF d
<1>6. d[0] = ToSet(fields)
    BY <1>2, <1>5 DEF Descends
<1>7. d[1] = UNION {Children(f) : f \in d[0]}
    <2>1. \A n \in 0 .. MaxNesting : n # 0 => d[n] = UNION {Children(f) : f \in d[n - 1]}
        BY <1>5 DEF Descends
    <2>2. 1 - 1 = 0
        OBVIOUS
    <2> QED BY <1>2, <2>1, <2>2
<1>8. FieldsOf(fields) = UNION {d[n] : n \in 0 .. MaxNesting}
    BY FieldsOfIs DEF d
<1> QED BY <1>2, <1>6, <1>7, <1>8

\* The form is one that is rendered, and that device and server agree on.
Known == Rendered(form) /\ Agreed(form)

RowPlace(f, i, g) == <<f.name, i, g.name>>

LEMMA NamesAre == \A fields : Names(fields) = {f.name : f \in ToSet(fields)}
BY DEF Names, ToSet

LEMMA NamedIs ==
  ASSUME NEW fields, Apart(fields), NEW f \in ToSet(fields)
  PROVE  Named(ToSet(fields), f.name) = f
BY DEF Named, Apart

\* Each field of the top level has one place, and each of a row one in every row.
LEMMA TopPlace ==
  ASSUME Known, NEW f \in ToSet(form)
  PROVE  /\ Top(f.name) = f /\ FieldAt(<<f.name>>) = f /\ ~ InRow(<<f.name>>)
         /\ <<f.name>> \in Places /\ At(<<f.name>>) = nodes[f.name]
<1>1. Apart(form)
    BY DEF Known, Agreed, Flat
<1>2. Top(f.name) = f
    BY <1>1, NamedIs DEF Top
<1>3. ~ InRow(<<f.name>>)
    BY DEF InRow
<1> QED BY <1>2, <1>3, NamesAre DEF FieldAt, At, Places

LEMMA RowPlaceIs ==
  ASSUME Known, NEW f \in Repeats, NEW g \in ToSet(f.children), NEW i
  PROVE  /\ FieldAt(RowPlace(f, i, g)) = g /\ InRow(RowPlace(f, i, g))
         /\ At(RowPlace(f, i, g)) = nodes[f.name][i][g.name]
         /\ i \in DOMAIN nodes[f.name] => RowPlace(f, i, g) \in Places
<1>1. f \in ToSet(form) /\ Top(f.name) = f
    BY TopPlace DEF Repeats
<1>2. Apart(f.children)
    BY <1>1 DEF Known, Agreed, Flat
<1>3. Named(ToSet(f.children), g.name) = g
    BY <1>2, NamedIs
<1>4. InRow(RowPlace(f, i, g))
    BY DEF InRow, RowPlace
<1>5. g.name \in Names(f.children)
    BY NamesAre
<1>6. i \in DOMAIN nodes[f.name] => RowPlace(f, i, g) \in Places
    BY <1>5 DEF Places, RowPlace
<1> QED BY <1>1, <1>3, <1>4, <1>6 DEF FieldAt, At, RowPlace

LEMMA PlacesAre ==
  ASSUME Known, NEW place \in Places
  PROVE  \/ \E f \in ToSet(form) : place = <<f.name>>
         \/ \E f \in Repeats : \E i \in DOMAIN nodes[f.name] : \E g \in ToSet(f.children) :
              place = RowPlace(f, i, g)
BY NamesAre DEF Places, RowPlace

-----------------------------------------------------------------------------
(* References. *)

LEMMA LocationsAre ==
  ASSUME NEW fields, NEW name
  PROVE  /\ \A f \in ToSet(fields) : f.name = name => \E l \in Locations(fields, name) : l[1] = ""
         /\ \A f \in ToSet(fields) : \A g \in ToSet(f.children) :
              f.type = "Repeat" /\ g.name = name => \E l \in Locations(fields, name) : l[1] = f.name
<1>1. ASSUME NEW f \in ToSet(fields), f.name = name
      PROVE  \E l \in Locations(fields, name) : l[1] = ""
    <2>1. PICK i \in DOMAIN fields : fields[i] = f
        BY DEF ToSet
    <2>2. <<"", i>> \in Locations(fields, name)
        BY <1>1, <2>1 DEF Locations
    <2> QED BY <2>2
<1>2. ASSUME NEW f \in ToSet(fields), NEW g \in ToSet(f.children), f.type = "Repeat", g.name = name
      PROVE  \E l \in Locations(fields, name) : l[1] = f.name
    <2>1. PICK i \in DOMAIN fields : fields[i] = f
        BY DEF ToSet
    <2>2. PICK j \in DOMAIN f.children : f.children[j] = g
        BY DEF ToSet
    <2> DEFINE Within(k) == {<<fields[k].name, n>> : n \in {m \in DOMAIN fields[k].children :
                                fields[k].children[m].name = name}}
    <2>3. <<f.name, j>> \in Within(i)
        BY <1>2, <2>1, <2>2
    <2>4. i \in {k \in DOMAIN fields : fields[k].type = "Repeat"}
        BY <1>2, <2>1
    <2>5. UNION {Within(k) : k \in {k \in DOMAIN fields : fields[k].type = "Repeat"}}
             \subseteq Locations(fields, name)
        BY DEF Locations
    <2>6. Within(i) \subseteq UNION {Within(k) : k \in {k \in DOMAIN fields : fields[k].type = "Repeat"}}
        <3> HIDE DEF Within
        <3> QED BY <2>4
    <2>7. <<f.name, j>> \in Locations(fields, name)
        <3> HIDE DEF Within
        <3> QED BY <2>3, <2>5, <2>6
    <2> QED BY <2>7
<1> QED BY <1>1, <1>2

LEMMA HomeIs ==
  ASSUME NEW fields, NEW name, Resolves(fields, name), NEW home,
         \E l \in Locations(fields, name) : l[1] = home
  PROVE  HomeOf(fields, name) = home
<1> DEFINE L == Locations(fields, name)
<1>1. PICK l \in L : L = {l}
    BY DEF Resolves
<1>2. l[1] = home
    BY <1>1
<1>3. HomeOf(fields, name) = (CHOOSE k \in L : TRUE)[1]
    BY DEF HomeOf
<1> HIDE DEF L
<1>4. (CHOOSE k \in L : TRUE) = l
    BY <1>1
<1> QED BY <1>2, <1>3, <1>4

\* Every reference of a field of the form resolves.
LEMMA Resolved ==
  ASSUME Known, NEW f \in FieldsOf(form), NEW c \in Relevant(f)
  PROVE  Resolves(form, c.field) /\ f.name # ""
<1>1. c.field \in References(f)
    BY DEF References
<1>2. IsXmlName(f.name) /\ Resolves(form, c.field)
    BY <1>1 DEF Known, Rendered
<1> QED BY <1>2, UnwritableAssumption DEF IsXmlName

\* A condition of a field of the top level reads a question of the top level.
LEMMA TopReference ==
  ASSUME Known, NEW f \in ToSet(form), NEW c \in Relevant(f)
  PROVE  \E h \in Questions(form) :
           /\ h.name = c.field /\ ValueKind(h.type) \notin Textless
           /\ Referred(<<f.name>>, c.field) = <<h.name>>
<1>1. PICK h \in Questions(form) : h.name = c.field /\ ValueKind(h.type) \notin Textless
    BY DEF Known, Agreed, Reads
<1>2. h \in ToSet(form)
    BY DEF Questions
<1>3. f \in FieldsOf(form)
    BY FieldsIn DEF Known, Agreed
<1>4. HomeOf(form, c.field) = ""
    <2>1. Resolves(form, c.field)
        BY <1>3, Resolved
    <2>2. \E l \in Locations(form, c.field) : l[1] = ""
        BY <1>1, <1>2, LocationsAre
    <2> QED BY <2>1, <2>2, HomeIs
<1>5. Referred(<<f.name>>, c.field) = <<h.name>>
    BY <1>1, <1>4 DEF Referred, PathTo
<1> QED BY <1>1, <1>5

\* A condition of a field of a row reads a question of the top level, or one of
\* the same row.
LEMMA RowReference ==
  ASSUME Known, NEW f \in Repeats, NEW g \in ToSet(f.children), NEW i, NEW c \in Relevant(g)
  PROVE  \E h : /\ h.name = c.field /\ ValueKind(h.type) \notin Textless
                /\ \/ h \in Questions(form) /\ Referred(RowPlace(f, i, g), c.field) = <<h.name>>
                   \/ h \in Questions(f.children)
                        /\ Referred(RowPlace(f, i, g), c.field) = RowPlace(f, i, h)
<1>0. f \in ToSet(form) /\ f.type = "Repeat" /\ g \in Children(f)
    BY DEF Repeats, Children
<1>1. PICK h \in Questions(form) \cup Questions(f.children) :
         h.name = c.field /\ ValueKind(h.type) \notin Textless
    BY <1>0 DEF Known, Agreed, Reads
<1>2. g \in FieldsOf(form) /\ f \in FieldsOf(form)
    BY <1>0, FieldsIn DEF Known, Agreed
<1>3. Resolves(form, c.field)
    BY <1>2, Resolved
<1>4. f.name # ""
    BY <1>2, UnwritableAssumption DEF Known, Rendered, IsXmlName
<1>5. InRow(RowPlace(f, i, g)) /\ RowPlace(f, i, g)[1] = f.name /\ RowPlace(f, i, g)[2] = i
    BY RowPlaceIs DEF RowPlace
<1>6. CASE h \in Questions(form)
    <2>1. HomeOf(form, c.field) = ""
        <3>1. h \in ToSet(form)
            BY <1>6 DEF Questions
        <3>2. \E l \in Locations(form, c.field) : l[1] = ""
            BY <1>1, <3>1, LocationsAre
        <3> QED BY <1>3, <3>2, HomeIs
    <2>2. Referred(RowPlace(f, i, g), c.field) = <<h.name>>
        BY <1>1, <2>1 DEF Referred, PathTo
    <2> QED BY <1>1, <1>6, <2>2
<1>7. CASE h \in Questions(f.children)
    <2>1. HomeOf(form, c.field) = f.name
        <3>1. h \in ToSet(f.children)
            BY <1>7 DEF Questions
        <3>2. \E l \in Locations(form, c.field) : l[1] = f.name
            BY <1>0, <1>1, <3>1, LocationsAre
        <3> QED BY <1>3, <3>2, HomeIs
    <2>2. Referred(RowPlace(f, i, g), c.field) = RowPlace(f, i, h)
        <3>1. PathTo(form, c.field, f.name) = "sibling"
            BY <1>4, <2>1 DEF PathTo
        <3>2. Referred(RowPlace(f, i, g), c.field) = <<f.name, i, c.field>>
            BY <1>5, <3>1 DEF Referred
        <3> QED BY <1>1, <3>2 DEF RowPlace
    <2> QED BY <1>1, <1>7, <2>2
<1> QED BY <1>1, <1>6, <1>7

-----------------------------------------------------------------------------
(* What the device shows is settled: a place is shown just when it shows    *)
(* among the places that are shown.                                         *)

Rounds == Cardinality(FieldNames)

Redone(places) == {place \in Places : Shows(places, place)}

Decides(m, a) == a = [n \in 0 .. m |-> IF n = 0 THEN Places ELSE Redone(a[n - 1])]

LEMMA ShownIs == Shown = (CHOOSE a : Decides(Rounds, a))[Rounds]
BY DEF Shown, Decides, Rounds, Redone

LEMMA DecidesAt ==
  ASSUME NEW m \in Nat, NEW a
  PROVE  Decides(m, a) <=> /\ a = [n \in 0 .. m |-> a[n]] /\ a[0] = Places
                           /\ \A n \in 1 .. m : a[n] = Redone(a[n - 1])
<1> DEFINE Step(n) == IF n = 0 THEN Places ELSE Redone(a[n - 1])
<1>1. ASSUME a = [n \in 0 .. m |-> Step(n)]
      PROVE  a = [n \in 0 .. m |-> a[n]] /\ a[0] = Places /\ \A n \in 1 .. m : a[n] = Redone(a[n - 1])
    <2>1. \A n \in 0 .. m : a[n] = Step(n)
        <3> HIDE DEF Step
        <3> QED BY <1>1
    <2>2. a = [n \in 0 .. m |-> a[n]]
        <3> HIDE DEF Step
        <3> QED BY <1>1
    <2>3. 0 \in 0 .. m
        OBVIOUS
    <2>4. a[0] = Places
        BY <2>1, <2>3
    <2>5. ASSUME NEW n \in 1 .. m PROVE a[n] = Redone(a[n - 1])
        <3>1. n \in 0 .. m /\ n # 0
            OBVIOUS
        <3>2. a[n] = Step(n)
            <4> HIDE DEF Step
            <4> QED BY <2>1, <3>1
        <3> QED BY <3>1, <3>2
    <2> QED BY <2>2, <2>4, <2>5
<1>2. ASSUME a = [n \in 0 .. m |-> a[n]], a[0] = Places, \A n \in 1 .. m : a[n] = Redone(a[n - 1])
      PROVE  a = [n \in 0 .. m |-> Step(n)]
    <2>1. ASSUME NEW n \in 0 .. m PROVE a[n] = Step(n)
        <3>1. CASE n = 0
            BY <1>2, <3>1
        <3>2. CASE n # 0
            <4>1. n \in 1 .. m
                BY <3>2
            <4>2. a[n] = Redone(a[n - 1])
                BY <1>2, <4>1
            <4> QED BY <3>2, <4>2
        <3> QED BY <3>1, <3>2
    <2> HIDE DEF Step
    <2> QED BY <1>2, <2>1
<1>3. Decides(m, a) <=> a = [n \in 0 .. m |-> Step(n)]
    BY DEF Decides
<1> HIDE DEF Step
<1> QED BY <1>1, <1>2, <1>3

LEMMA Decided ==
  ASSUME NEW m \in Nat
  PROVE  \E a : Decides(m, a)
<1> DEFINE Open == {n \in Nat : ~ \E a : Decides(n, a)}
<1> SUFFICES ASSUME Open # {} PROVE FALSE
    OBVIOUS
<1>1. PICK n \in Open : \A k \in Open : n <= k
    <2>1. Open \in SUBSET Nat
        OBVIOUS
    <2> HIDE DEF Open
    <2> QED BY <2>1, Smallest
<1>2. n \in Nat /\ ~ \E a : Decides(n, a)
    OBVIOUS
<1>3. CASE n = 0
    <2> DEFINE a == [k \in 0 .. 0 |-> Places]
    <2>1. a = [k \in 0 .. 0 |-> a[k]] /\ a[0] = Places
        OBVIOUS
    <2> HIDE DEF a
    <2>2. Decides(0, a)
        <3>1. 0 \in Nat /\ 1 .. 0 = {}
            OBVIOUS
        <3>2. \A k \in 1 .. 0 : a[k] = Redone(a[k - 1])
            BY <3>1
        <3> QED BY <2>1, <3>1, <3>2, DecidesAt
    <2> QED BY <1>2, <1>3, <2>2
<1>4. CASE n # 0
    <2>1. n - 1 \in Nat /\ ~ (n <= n - 1)
        BY <1>2, <1>4
    <2>2. n - 1 \notin Open
        <3> HIDE DEF Open
        <3> QED BY <1>1, <2>1
    <2>3. PICK b : Decides(n - 1, b)
        BY <2>1, <2>2
    <2>4. b[0] = Places /\ \A k \in 1 .. n - 1 : b[k] = Redone(b[k - 1])
        BY <2>1, <2>3, DecidesAt
    <2> DEFINE a == [k \in 0 .. n |-> IF k = n THEN Redone(b[n - 1]) ELSE b[k]]
    <2>5. a = [k \in 0 .. n |-> a[k]] /\ a[0] = Places
        BY <1>2, <1>4, <2>4
    <2>6. ASSUME NEW k \in 1 .. n PROVE a[k] = Redone(a[k - 1])
        <3>1. k \in 0 .. n /\ k - 1 \in 0 .. n /\ k - 1 # n
            BY <1>2
        <3>2. a[k - 1] = b[k - 1]
            BY <3>1
        <3>3. CASE k = n
            BY <3>1, <3>2, <3>3
        <3>4. CASE k # n
            <4>1. k \in 1 .. n - 1
                BY <1>2, <3>4
            <4> QED BY <2>4, <3>1, <3>2, <3>4, <4>1
        <3> QED BY <3>3, <3>4
    <2> HIDE DEF a
    <2>7. Decides(n, a)
        BY <1>2, <2>5, <2>6, DecidesAt
    <2> QED BY <1>2, <2>7
<1> QED BY <1>3, <1>4

\* The places that decide whether a place is shown.
Needs(place) ==
  {Referred(place, c.field) : c \in Relevant(FieldAt(place))}
  \cup {<<place[1]>> : r \in {row \in {place} : InRow(row)}}

LEMMA ShowsByNeeds ==
  ASSUME NEW place, NEW s, NEW t, \A q \in Needs(place) : q \in s <=> q \in t
  PROVE  Shows(s, place) <=> Shows(t, place)
<1>1. InRow(place) => (<<place[1]>> \in s <=> <<place[1]>> \in t)
    BY DEF Needs
<1>2. \A c \in Relevant(FieldAt(place)) :
        TextAt(s, Referred(place, c.field)) = TextAt(t, Referred(place, c.field))
    BY DEF Needs, TextAt
<1> QED BY <1>1, <1>2 DEF Shows

\* Where a field of the form stands, and what it needs.
LEMMA TopNeeds ==
  ASSUME Known, NEW f \in ToSet(form), NEW q \in Needs(<<f.name>>)
  PROVE  /\ q \in Places
         /\ \E c \in Relevant(f) : FieldAt(q).name = c.field
<1>1. FieldAt(<<f.name>>) = f /\ ~ InRow(<<f.name>>)
    BY TopPlace
<1>2. PICK c \in Relevant(f) : q = Referred(<<f.name>>, c.field)
    BY <1>1 DEF Needs
<1>3. PICK h \in Questions(form) : h.name = c.field /\ Referred(<<f.name>>, c.field) = <<h.name>>
    BY TopReference
<1>4. h \in ToSet(form)
    BY DEF Questions
<1>5. <<h.name>> \in Places /\ FieldAt(<<h.name>>) = h
    BY <1>4, TopPlace
<1> QED BY <1>2, <1>3, <1>5

LEMMA RowNeeds ==
  ASSUME Known, NEW f \in Repeats, NEW g \in ToSet(f.children), NEW i \in DOMAIN nodes[f.name],
         NEW q \in Needs(RowPlace(f, i, g))
  PROVE  /\ q \in Places
         /\ FieldAt(q).name = f.name \/ \E c \in Relevant(g) : FieldAt(q).name = c.field
<1>1. FieldAt(RowPlace(f, i, g)) = g /\ RowPlace(f, i, g)[1] = f.name
    BY RowPlaceIs DEF RowPlace
<1>2. CASE q = <<f.name>>
    <2>1. f \in ToSet(form)
        BY DEF Repeats
    <2> QED BY <1>2, <2>1, TopPlace
<1>3. CASE q # <<f.name>>
    <2>1. PICK c \in Relevant(g) : q = Referred(RowPlace(f, i, g), c.field)
        BY <1>1, <1>3 DEF Needs
    <2>2. PICK h : /\ h.name = c.field
                   /\ \/ h \in Questions(form) /\ q = <<h.name>>
                      \/ h \in Questions(f.children) /\ q = RowPlace(f, i, h)
        BY <2>1, RowReference
    <2>3. CASE h \in Questions(form) /\ q = <<h.name>>
        <3>1. h \in ToSet(form)
            BY <2>3 DEF Questions
        <3>2. <<h.name>> \in Places /\ FieldAt(<<h.name>>) = h
            BY <3>1, TopPlace
        <3> QED BY <2>2, <2>3, <3>2
    <2>4. CASE h \in Questions(f.children) /\ q = RowPlace(f, i, h)
        <3>1. h \in ToSet(f.children)
            BY <2>4 DEF Questions
        <3>2. RowPlace(f, i, h) \in Places /\ FieldAt(RowPlace(f, i, h)) = h
            BY <3>1, RowPlaceIs
        <3> QED BY <2>2, <2>4, <3>2
    <2> QED BY <2>2, <2>3, <2>4
<1> QED BY <1>2, <1>3

\* Places can be ranked so that each comes after those it needs.
Ranks(rank) ==
  /\ rank \in [FieldNames -> 1 .. Rounds]
  /\ \A place \in Places :
       /\ FieldAt(place).name \in FieldNames
       /\ \A q \in Needs(place) : /\ q \in Places
                                  /\ rank[FieldAt(q).name] < rank[FieldAt(place).name]

LEMMA Ranked ==
  ASSUME Known
  PROVE  Rounds \in Nat /\ \E rank : Ranks(rank)
<1>1. IsFiniteSet(FieldsOf(form))
    BY DEF Known, Agreed, Ordered
<1>2. FieldNames = {f.name : f \in FieldsOf(form)}
    BY DEF FieldNames
<1>3. IsFiniteSet(FieldNames)
    <2> DEFINE called == [f \in FieldsOf(form) |-> f.name]
    <2>1. called \in Surjection(FieldsOf(form), FieldNames)
        <3>1. called \in [FieldsOf(form) -> FieldNames]
            BY <1>2
        <3>2. \A n \in FieldNames : \E f \in FieldsOf(form) : called[f] = n
            BY <1>2
        <3> HIDE DEF called
        <3> QED BY <3>1, <3>2, Fun_IsSurj
    <2> HIDE DEF called
    <2> QED BY <1>1, <2>1, FS_Surjection
<1>4. Rounds \in Nat
    BY <1>3, FS_CardinalityType DEF Rounds
<1>5. PICK rank \in [FieldNames -> 1 .. Rounds] :
        /\ \A f \in FieldsOf(form) : \A c \in Relevant(f) : rank[c.field] < rank[f.name]
        /\ \A f \in FieldsOf(form) : \A g \in Children(f) : rank[f.name] < rank[g.name]
    BY DEF Known, Agreed, Ordered, FieldNames, Rounds
<1>6. /\ ToSet(form) \subseteq FieldsOf(form)
      /\ \A f \in ToSet(form) : Children(f) \subseteq FieldsOf(form)
    BY FieldsIn DEF Known, Agreed
<1>7. ASSUME NEW f \in ToSet(form)
      PROVE  /\ FieldAt(<<f.name>>).name \in FieldNames
             /\ \A q \in Needs(<<f.name>>) :
                  q \in Places /\ rank[FieldAt(q).name] < rank[FieldAt(<<f.name>>).name]
    <2>1. FieldAt(<<f.name>>) = f /\ f \in FieldsOf(form)
        BY <1>6, TopPlace
    <2> QED BY <1>2, <1>5, <2>1, TopNeeds
<1>8. ASSUME NEW f \in Repeats, NEW i \in DOMAIN nodes[f.name], NEW g \in ToSet(f.children)
      PROVE  /\ FieldAt(RowPlace(f, i, g)).name \in FieldNames
             /\ \A q \in Needs(RowPlace(f, i, g)) :
                  q \in Places /\ rank[FieldAt(q).name] < rank[FieldAt(RowPlace(f, i, g)).name]
    <2>1. FieldAt(RowPlace(f, i, g)) = g
        BY RowPlaceIs
    <2>2. f \in FieldsOf(form) /\ g \in Children(f) /\ g \in FieldsOf(form)
        BY <1>6 DEF Repeats, Children
    <2>3. ASSUME NEW q \in Needs(RowPlace(f, i, g))
          PROVE  q \in Places /\ rank[FieldAt(q).name] < rank[g.name]
        <3>1. q \in Places
            BY RowNeeds
        <3>2. FieldAt(q).name = f.name \/ \E c \in Relevant(g) : FieldAt(q).name = c.field
            BY RowNeeds
        <3> QED BY <1>5, <2>2, <3>1, <3>2
    <2> QED BY <1>2, <2>1, <2>2, <2>3
<1>9. Ranks(rank)
    <2>1. ASSUME NEW place \in Places
          PROVE  /\ FieldAt(place).name \in FieldNames
                 /\ \A q \in Needs(place) : /\ q \in Places
                                            /\ rank[FieldAt(q).name] < rank[FieldAt(place).name]
        BY <1>7, <1>8, PlacesAre
    <2> QED BY <1>5, <2>1 DEF Ranks
<1> QED BY <1>4, <1>9

\* Beyond its rank a place is decided the same in every round.
LEMMA Settles ==
  ASSUME Known, NEW a, Decides(Rounds, a), NEW rank, Ranks(rank)
  PROVE  \A k \in 1 .. Rounds - 1 : \A place \in Places :
           rank[FieldAt(place).name] <= k => (place \in a[k] <=> place \in a[k + 1])
<1>0. Rounds \in Nat
    BY Ranked
<1> DEFINE Bad == {k \in 1 .. Rounds - 1 : \E place \in Places :
                     rank[FieldAt(place).name] <= k /\ ~ (place \in a[k] <=> place \in a[k + 1])}
<1> SUFFICES ASSUME Bad # {} PROVE FALSE
    OBVIOUS
<1>1. PICK k \in Bad : \A n \in Bad : k <= n
    <2>1. Bad \in SUBSET Nat
        OBVIOUS
    <2> HIDE DEF Bad
    <2> QED BY <2>1, Smallest
<1>2. k \in 1 .. Rounds - 1
    OBVIOUS
<1>3. PICK place \in Places :
        rank[FieldAt(place).name] <= k /\ ~ (place \in a[k] <=> place \in a[k + 1])
    OBVIOUS
<1>4. \A n \in 1 .. Rounds : a[n] = Redone(a[n - 1])
    BY <1>0, DecidesAt
<1>5. (place \in a[k] <=> Shows(a[k - 1], place)) /\ (place \in a[k + 1] <=> Shows(a[k], place))
    <2>1. k \in 1 .. Rounds /\ k + 1 \in 1 .. Rounds /\ (k + 1) - 1 = k
        BY <1>0, <1>2
    <2>2. a[k] = Redone(a[k - 1]) /\ a[k + 1] = Redone(a[k])
        BY <1>4, <2>1
    <2> QED BY <2>2 DEF Redone
<1>6. \A q \in Needs(place) : q \in a[k - 1] <=> q \in a[k]
    <2> TAKE q \in Needs(place)
    <2>1. q \in Places /\ rank[FieldAt(q).name] < rank[FieldAt(place).name]
        BY DEF Ranks
    <2>2. rank[FieldAt(q).name] \in 1 .. Rounds /\ rank[FieldAt(place).name] \in 1 .. Rounds
        BY <2>1 DEF Ranks
    <2>3. k - 1 \in 1 .. Rounds - 1 /\ (k - 1) + 1 = k /\ rank[FieldAt(q).name] <= k - 1 /\ ~ (k <= k - 1)
        BY <1>0, <1>2, <1>3, <2>1, <2>2
    <2>4. k - 1 \notin Bad
        <3> HIDE DEF Bad
        <3> QED BY <1>1, <2>3
    <2> QED BY <2>1, <2>3, <2>4
<1>7. Shows(a[k - 1], place) <=> Shows(a[k], place)
    BY <1>6, ShowsByNeeds
<1> QED BY <1>3, <1>5, <1>7

LEMMA ShownIsSettled ==
  ASSUME Known
  PROVE  Shown \subseteq Places /\ \A place \in Places : place \in Shown <=> Shows(Shown, place)
<1> DEFINE a == CHOOSE b : Decides(Rounds, b)
<1>1. Rounds \in Nat
    BY Ranked
<1>2. PICK rank : Ranks(rank)
    BY Ranked
<1>3. Decides(Rounds, a)
    BY <1>1, Decided
<1>4. Shown = a[Rounds]
    BY ShownIs
<1> HIDE DEF a
<1>5. a[0] = Places /\ \A n \in 1 .. Rounds : a[n] = Redone(a[n - 1])
    BY <1>1, <1>3, DecidesAt
<1>6. Shown \subseteq Places
    <2>1. CASE Rounds = 0
        BY <1>4, <1>5, <2>1
    <2>2. CASE Rounds # 0
        <3>1. Rounds \in 1 .. Rounds
            BY <1>1, <2>2
        <3> QED BY <1>4, <1>5, <3>1 DEF Redone
    <2> QED BY <2>1, <2>2
<1>7. ASSUME NEW place \in Places
      PROVE  place \in Shown <=> Shows(Shown, place)
    <2> DEFINE r(q) == rank[FieldAt(q).name]
    <2>1. \A q \in Places : r(q) \in 1 .. Rounds
        BY <1>2 DEF Ranks
    <2>2. Rounds \in 1 .. Rounds
        BY <1>1, <2>1
    <2>3. place \in a[Rounds] <=> Shows(a[Rounds - 1], place)
        <3>1. a[Rounds] = Redone(a[Rounds - 1])
            BY <1>5, <2>2
        <3> QED BY <3>1 DEF Redone
    <2>4. \A q \in Needs(place) : q \in a[Rounds - 1] <=> q \in a[Rounds]
        <3> TAKE q \in Needs(place)
        <3>1. q \in Places /\ r(q) < r(place)
            BY <1>2 DEF Ranks
        <3>2. r(q) \in 1 .. Rounds /\ r(place) \in 1 .. Rounds
            BY <2>1, <3>1
        <3> HIDE DEF r
        <3>3. Rounds - 1 \in 1 .. Rounds - 1 /\ r(q) <= Rounds - 1 /\ (Rounds - 1) + 1 = Rounds
            BY <1>1, <3>1, <3>2
        <3>4. rank[FieldAt(q).name] <= Rounds - 1
            BY <3>3 DEF r
        <3>5. q \in a[Rounds - 1] <=> q \in a[(Rounds - 1) + 1]
            BY <1>2, <1>3, <3>1, <3>3, <3>4, Settles
        <3> QED BY <3>3, <3>5
    <2>5. Shows(a[Rounds - 1], place) <=> Shows(a[Rounds], place)
        BY <2>4, ShowsByNeeds
    <2> QED BY <1>4, <2>3, <2>5
<1> QED BY <1>6, <1>7

-----------------------------------------------------------------------------
(* From an instance to the answers of a submission.                         *)

Single(fields) == \A f, g \in fields : f.name = g.name => f = g

LEMMA ReadIs ==
  ASSUME NEW fields, Single(fields), NEW instance,
         \A f \in Answerable(fields, instance) : Fits(instance[f.name], f)
  PROVE  /\ DOMAIN Read(fields, instance) = {f.name : f \in Answerable(fields, instance)}
         /\ \A f \in Answerable(fields, instance) :
              Read(fields, instance)[f.name] = Coerce(instance[f.name], f)
<1> DEFINE A == Answerable(fields, instance)
           read == {f \in A : f.type = "Repeat" \/ Fits(instance[f.name], f)}
           names == {f.name : f \in read}
           Value(name) == Coerce(instance[name], Named(read, name))
<1>1. read = A
    OBVIOUS
<1>2. Read(fields, instance) = [name \in names |-> Value(name)]
    BY DEF Read
<1>3. A \subseteq fields
    BY DEF Answerable
<1> HIDE DEF A
<1>4. ASSUME NEW f \in A PROVE Named(read, f.name) = f
    <2> HIDE DEF read
    <2> QED BY <1>1, <1>3 DEF Named, Single
<1>5. ASSUME NEW f \in A PROVE Read(fields, instance)[f.name] = Coerce(instance[f.name], f)
    <2>1. f.name \in names
        BY <1>1
    <2>2. Value(f.name) = Coerce(instance[f.name], f)
        BY <1>4
    <2> HIDE DEF names, Value
    <2> QED BY <1>2, <2>1, <2>2
<1>6. DOMAIN Read(fields, instance) = {f.name : f \in A}
    <2>1. DOMAIN Read(fields, instance) = names
        <3> HIDE DEF names, Value
        <3> QED BY <1>2
    <2> HIDE DEF read
    <2> QED BY <1>1, <2>1
<1> QED BY <1>5, <1>6 DEF A

Filled(fields, instance) ==
  {f \in Answerable(ToSet(fields), instance) : f.type = "Repeat" /\ instance[f.name] # <<>>}

\* What to_submission makes of an instance in which everything fits.
Submitted(fields, instance, values) ==
  LET asked == Answerable(Questions(fields), instance)
  IN /\ DOMAIN values = {f.name : f \in asked} \cup {f.name : f \in Filled(fields, instance)}
     /\ \A f \in asked : values[f.name] = Coerce(instance[f.name], f)
     /\ \A f \in Filled(fields, instance) :
          /\ values[f.name].kind = "Repeat"
          /\ DOMAIN values[f.name].rows = DOMAIN instance[f.name]
          /\ \A i \in DOMAIN instance[f.name] :
               values[f.name].rows[i] = RepeatRow(f, instance[f.name][i])

LEMMA SubmissionIs ==
  ASSUME NEW fields, Apart(fields), NEW instance, Unfit(fields, instance) = {}
  PROVE  Submitted(fields, instance, ToSubmission(fields, instance))
<1> DEFINE values == ToSubmission(fields, instance)
           asked == Answerable(Questions(fields), instance)
           filled == Filled(fields, instance)
           read == Read(Questions(fields), instance)
           Rows(f) == [i \in DOMAIN instance[f.name] |-> RepeatRow(f, instance[f.name][i])]
           lists == [name \in {f.name : f \in filled} |->
                       [kind |-> "Repeat", rows |-> Rows(Named(filled, name))]]
<1>1. values = Over(lists, read)
    BY DEF ToSubmission, Filled
<1>2. /\ DOMAIN read = {f.name : f \in asked}
      /\ \A f \in asked : read[f.name] = Coerce(instance[f.name], f)
    <2>1. Single(Questions(fields))
        BY DEF Single, Apart, Questions
    <2>2. \A f \in asked : Fits(instance[f.name], f)
        BY DEF Unfit
    <2> QED BY <2>1, <2>2, ReadIs
<1>3. filled \subseteq ToSet(fields) /\ asked \subseteq ToSet(fields)
      /\ \A f \in filled : f.type = "Repeat" /\ \A g \in asked : g.type # "Repeat"
    BY DEF Filled, Answerable, Questions
<1> HIDE DEF filled, asked, read, values
<1>4. \A f \in filled : Named(filled, f.name) = f
    BY <1>3 DEF Named, Apart
<1>5. DOMAIN lists = {f.name : f \in filled}
    OBVIOUS
<1>6. ASSUME NEW f \in filled
      PROVE  lists[f.name] = [kind |-> "Repeat", rows |-> Rows(f)]
    <2> HIDE DEF Rows
    <2> QED BY <1>4
<1>7. ASSUME NEW f \in asked PROVE f.name \notin {g.name : g \in filled}
    BY <1>3 DEF Apart
<1> HIDE DEF lists
<1>8. DOMAIN values = {f.name : f \in asked} \cup {f.name : f \in filled}
    BY <1>1, <1>2, <1>5 DEF Over
<1>9. ASSUME NEW f \in asked PROVE values[f.name] = Coerce(instance[f.name], f)
    BY <1>1, <1>2, <1>5, <1>7 DEF Over
<1>10. ASSUME NEW f \in filled
       PROVE  /\ values[f.name].kind = "Repeat"
              /\ DOMAIN values[f.name].rows = DOMAIN instance[f.name]
              /\ \A i \in DOMAIN instance[f.name] :
                   values[f.name].rows[i] = RepeatRow(f, instance[f.name][i])
    <2>1. values[f.name] = lists[f.name]
        BY <1>1, <1>5 DEF Over
    <2>2. values[f.name] = [kind |-> "Repeat", rows |-> Rows(f)]
        <3> HIDE DEF Rows
        <3> QED BY <1>6, <2>1
    <2> DEFINE value == values[f.name]
    <2>3. value.kind = "Repeat" /\ value.rows = Rows(f)
        <3> HIDE DEF Rows, value
        <3>1. value = [kind |-> "Repeat", rows |-> Rows(f)]
            BY <2>2 DEF value
        <3> QED BY <3>1
    <2>4. /\ DOMAIN Rows(f) = DOMAIN instance[f.name]
          /\ \A i \in DOMAIN instance[f.name] : Rows(f)[i] = RepeatRow(f, instance[f.name][i])
        OBVIOUS
    <2> HIDE DEF Rows
    <2> QED BY <2>3, <2>4
<1>11. Submitted(fields, instance, values)
    BY <1>8, <1>9, <1>10 DEF Submitted, asked, filled
<1> QED BY <1>11 DEF values

-----------------------------------------------------------------------------
(* The instance on the device, and the one a client sends.                  *)

Texts == {<<>>} \cup UNION {Answers[type] : type \in DOMAIN Answers}

\* What an enumerator may have entered for a field.
Typed(text, field) ==
  text # <<>> => field.type \in DOMAIN Answers /\ text \in Answers[field.type]

RowsOf(f) ==
  {row \in [Names(f.children) -> Texts] : \A g \in ToSet(f.children) : Typed(row[g.name], g)}

Shaped ==
  /\ nodes = [name \in Names(form) |-> nodes[name]]
  /\ \A f \in Questions(form) : Typed(nodes[f.name], f)
  /\ \A f \in Repeats : nodes[f.name] \in Seq(RowsOf(f))

Sends(client, place) == place \in Shown /\ (client = "json" => At(place) # <<>>)

LEMMA ElementsSent ==
  ASSUME Known, Shaped, NEW client
  PROVE  /\ DOMAIN Instance(client) \subseteq Names(form)
         /\ \A f \in ToSet(form) : f.name \in DOMAIN Instance(client) <=> Sends(client, <<f.name>>)
         /\ \A f \in Questions(form) :
              Sends(client, <<f.name>>) => Instance(client)[f.name] = At(<<f.name>>)
<1> DEFINE names == {n \in Names(form) : Sends(client, <<n>>)}
           Row(name, i) == [child \in {c \in DOMAIN nodes[name][i] : Sends(client, <<name, i, c>>)} |->
                              nodes[name][i][child]]
           Value(name) == IF Top(name).type # "Repeat" THEN nodes[name]
                          ELSE [i \in DOMAIN nodes[name] |-> Row(name, i)]
<1>1. Instance(client) = [name \in names |-> Value(name)]
    BY DEF Instance, Sends
<1>2. DOMAIN Instance(client) = names
    <2> HIDE DEF names, Value
    <2> QED BY <1>1
<1>3. \A f \in ToSet(form) : f.name \in names <=> Sends(client, <<f.name>>)
    BY NamesAre
<1>4. ASSUME NEW f \in Questions(form), Sends(client, <<f.name>>)
      PROVE  Instance(client)[f.name] = At(<<f.name>>)
    <2>1. f \in ToSet(form) /\ f.type # "Repeat"
        BY DEF Questions
    <2>2. Top(f.name) = f /\ At(<<f.name>>) = nodes[f.name]
        BY <2>1, TopPlace
    <2>3. Value(f.name) = nodes[f.name]
        BY <2>1, <2>2
    <2>4. Instance(client)[f.name] = Value(f.name)
        <3> HIDE DEF names, Value
        <3> QED BY <1>1, <1>3, <1>4, <2>1
    <2> QED BY <2>2, <2>3, <2>4
<1>5. names \subseteq Names(form)
    OBVIOUS
<1> HIDE DEF names
<1> QED BY <1>2, <1>3, <1>4, <1>5

SentRow(client, f, i, row) ==
  /\ DOMAIN row \subseteq Names(f.children)
  /\ \A g \in ToSet(f.children) :
       /\ g.name \in DOMAIN row <=> Sends(client, RowPlace(f, i, g))
       /\ Sends(client, RowPlace(f, i, g)) => row[g.name] = At(RowPlace(f, i, g))

LEMMA RowsSent ==
  ASSUME Known, Shaped, NEW client, NEW f \in Repeats, Sends(client, <<f.name>>)
  PROVE  LET rows == Instance(client)[f.name]
         IN /\ DOMAIN rows = DOMAIN nodes[f.name]
            /\ rows = <<>> <=> DOMAIN nodes[f.name] = {}
            /\ \A i \in DOMAIN nodes[f.name] : SentRow(client, f, i, rows[i])
<1> DEFINE names == {n \in Names(form) : Sends(client, <<n>>)}
           sentOf(name, i) == {c \in DOMAIN nodes[name][i] : Sends(client, <<name, i, c>>)}
           Row(name, i) == [child \in sentOf(name, i) |-> nodes[name][i][child]]
           Rows(name) == [i \in DOMAIN nodes[name] |-> Row(name, i)]
           Value(name) == IF Top(name).type # "Repeat" THEN nodes[name] ELSE Rows(name)
           rows == Instance(client)[f.name]
<1>1. Instance(client) = [name \in names |-> Value(name)]
    BY DEF Instance, Sends
<1>2. f \in ToSet(form) /\ f.type = "Repeat" /\ Top(f.name) = f
    BY TopPlace DEF Repeats
<1>3. f.name \in names
    BY <1>2, NamesAre
<1>4. rows = Rows(f.name)
    <2>1. rows = Value(f.name)
        <3> HIDE DEF names, Value
        <3> QED BY <1>1, <1>3
    <2>2. Value(f.name) = Rows(f.name)
        <3> HIDE DEF Rows
        <3> QED BY <1>2
    <2> QED BY <2>1, <2>2
<1>5. nodes[f.name] \in Seq(RowsOf(f))
    BY DEF Shaped
<1>6. ASSUME NEW i \in DOMAIN nodes[f.name]
      PROVE  /\ DOMAIN rows[i] \subseteq Names(f.children)
             /\ \A g \in ToSet(f.children) :
                  /\ g.name \in DOMAIN rows[i] <=> Sends(client, RowPlace(f, i, g))
                  /\ Sends(client, RowPlace(f, i, g)) => rows[i][g.name] = At(RowPlace(f, i, g))
    <2>1. rows[i] = Row(f.name, i)
        <3> HIDE DEF Row, rows
        <3> QED BY <1>4
    <2>2. DOMAIN rows[i] = sentOf(f.name, i)
        <3> HIDE DEF rows, sentOf
        <3> QED BY <2>1
    <2>3. nodes[f.name][i] \in RowsOf(f)
        BY <1>5
    <2>4. DOMAIN nodes[f.name][i] = Names(f.children)
        BY <2>3 DEF RowsOf
    <2>5. ASSUME NEW g \in ToSet(f.children)
          PROVE  /\ g.name \in DOMAIN rows[i] <=> Sends(client, RowPlace(f, i, g))
                 /\ Sends(client, RowPlace(f, i, g)) => rows[i][g.name] = At(RowPlace(f, i, g))
        <3>1. g.name \in DOMAIN nodes[f.name][i]
            BY <2>4, NamesAre
        <3>2. g.name \in sentOf(f.name, i) <=> Sends(client, RowPlace(f, i, g))
            BY <3>1 DEF RowPlace
        <3>3. At(RowPlace(f, i, g)) = nodes[f.name][i][g.name]
            BY RowPlaceIs
        <3>4. g.name \in sentOf(f.name, i) => rows[i][g.name] = nodes[f.name][i][g.name]
            <4> HIDE DEF sentOf, rows
            <4> QED BY <2>1
        <3> HIDE DEF sentOf, rows
        <3> QED BY <2>2, <3>2, <3>3, <3>4
    <2>6. sentOf(f.name, i) \subseteq Names(f.children)
        BY <2>4
    <2> HIDE DEF sentOf, rows
    <2> QED BY <2>2, <2>5, <2>6
<1>7. DOMAIN rows = DOMAIN nodes[f.name]
    <2> HIDE DEF Row, rows
    <2> QED BY <1>4
<1>8. rows = <<>> <=> DOMAIN nodes[f.name] = {}
    <2>1. CASE DOMAIN nodes[f.name] = {}
        <3>1. rows = [i \in {} |-> Row(f.name, i)]
            BY <1>4, <2>1
        <3>2. rows = <<>>
            <4> HIDE DEF Row, rows
            <4> QED BY <3>1
        <3> QED BY <2>1, <3>2
    <2>2. CASE DOMAIN nodes[f.name] # {}
        <3> HIDE DEF rows
        <3> QED BY <1>7, <2>2
    <2> QED BY <2>1, <2>2
<1>9. \A i \in DOMAIN nodes[f.name] : SentRow(client, f, i, rows[i])
    <2> HIDE DEF rows
    <2> QED BY <1>6 DEF SentRow
<1> HIDE DEF rows
<1> QED BY <1>7, <1>8, <1>9 DEF rows

-----------------------------------------------------------------------------
(* What fits.                                                               *)

LEMMA EmptyFits == \A field : Fits(<<>>, field)
BY DEF Fits

LEMMA RowQuestions ==
  ASSUME Known, NEW f \in Repeats
  PROVE  /\ Questions(f.children) = ToSet(f.children) /\ Apart(f.children)
         /\ f \in ToSet(form) /\ f.type = "Repeat"
         /\ Names(f.children) \cap Names(form) = {}
<1>1. f \in ToSet(form) /\ f.type = "Repeat"
    BY DEF Repeats
<1>2. Children(f) = ToSet(f.children)
    BY <1>1 DEF Children
<1> QED BY <1>1, <1>2 DEF Known, Agreed, Flat, Questions

LEMMA RowShown ==
  ASSUME Known, NEW f \in Repeats, NEW g \in ToSet(f.children), NEW i \in DOMAIN nodes[f.name],
         RowPlace(f, i, g) \in Shown
  PROVE  <<f.name>> \in Shown
<1>1. RowPlace(f, i, g) \in Places /\ InRow(RowPlace(f, i, g)) /\ RowPlace(f, i, g)[1] = f.name
    BY RowPlaceIs DEF RowPlace
<1>2. Shows(Shown, RowPlace(f, i, g))
    BY <1>1, ShownIsSettled
<1> QED BY <1>1, <1>2 DEF Shows

\* A repeat that is shown is sent when it has rows.
LEMMA RowsAreSent ==
  ASSUME Known, Shaped, NEW client, NEW f \in Repeats, <<f.name>> \in Shown,
         NEW i \in DOMAIN nodes[f.name]
  PROVE  Sends(client, <<f.name>>)
<1>1. At(<<f.name>>) = nodes[f.name]
    BY TopPlace DEF Repeats
<1>2. nodes[f.name] # <<>>
    OBVIOUS
<1> QED BY <1>1, <1>2 DEF Sends

LEMMA TopFits ==
  ASSUME Known, Shaped, NEW client
  PROVE  Unfit(form, Instance(client)) = {}
           <=> \A f \in Questions(form) : <<f.name>> \in Shown => Fits(At(<<f.name>>), f)
<1>1. Unfit(form, Instance(client)) = {}
        <=> \A f \in Questions(form) :
              f.name \in DOMAIN Instance(client) => Fits(Instance(client)[f.name], f)
    BY DEF Unfit, Answerable
<1>2. ASSUME NEW f \in Questions(form)
      PROVE  (f.name \in DOMAIN Instance(client) => Fits(Instance(client)[f.name], f))
               <=> (<<f.name>> \in Shown => Fits(At(<<f.name>>), f))
    <2>1. f \in ToSet(form)
        BY DEF Questions
    <2>2. f.name \in DOMAIN Instance(client) <=> Sends(client, <<f.name>>)
        BY <2>1, ElementsSent
    <2>3. Sends(client, <<f.name>>) => Instance(client)[f.name] = At(<<f.name>>)
        BY ElementsSent
    <2>4. Sends(client, <<f.name>>) => <<f.name>> \in Shown
        BY DEF Sends
    <2>5. <<f.name>> \in Shown /\ ~ Sends(client, <<f.name>>) => At(<<f.name>>) = <<>>
        BY DEF Sends
    <2> QED BY <2>2, <2>3, <2>4, <2>5, EmptyFits
<1> QED BY <1>1, <1>2

LEMMA RowFits ==
  ASSUME Known, Shaped, NEW client, NEW f \in Repeats, NEW i \in DOMAIN nodes[f.name],
         Sends(client, <<f.name>>)
  PROVE  Unfit(f.children, Instance(client)[f.name][i]) = {}
           <=> \A g \in ToSet(f.children) :
                 RowPlace(f, i, g) \in Shown => Fits(At(RowPlace(f, i, g)), g)
<1> DEFINE row == Instance(client)[f.name][i]
<1>1. Unfit(f.children, row) = {}
        <=> \A g \in ToSet(f.children) : g.name \in DOMAIN row => Fits(row[g.name], g)
    BY RowQuestions DEF Unfit, Answerable
<1>2. ASSUME NEW g \in ToSet(f.children)
      PROVE  (g.name \in DOMAIN row => Fits(row[g.name], g))
               <=> (RowPlace(f, i, g) \in Shown => Fits(At(RowPlace(f, i, g)), g))
    <2>1. /\ g.name \in DOMAIN row <=> Sends(client, RowPlace(f, i, g))
          /\ Sends(client, RowPlace(f, i, g)) => row[g.name] = At(RowPlace(f, i, g))
        <3>1. SentRow(client, f, i, row)
            BY RowsSent
        <3> HIDE DEF row
        <3> QED BY <3>1 DEF SentRow
    <2>2. /\ Sends(client, RowPlace(f, i, g)) => RowPlace(f, i, g) \in Shown
          /\ RowPlace(f, i, g) \in Shown /\ ~ Sends(client, RowPlace(f, i, g))
               => At(RowPlace(f, i, g)) = <<>>
        BY DEF Sends
    <2> HIDE DEF row
    <2> QED BY <2>1, <2>2, EmptyFits
<1> QED BY <1>1, <1>2

\* The instance is refused for its types just when a question that is shown has
\* an answer that is not of its type.
LEMMA Fitting ==
  ASSUME Known, Shaped, NEW client
  PROVE  CoercionErrors(form, Instance(client)) = {}
           <=> \A place \in ShownQuestions : Fits(At(place), FieldAt(place))
<1> DEFINE OfTop == \A f \in Questions(form) : <<f.name>> \in Shown => Fits(At(<<f.name>>), f)
           OfRows == \A f \in Repeats : \A i \in DOMAIN nodes[f.name] : \A g \in ToSet(f.children) :
                      RowPlace(f, i, g) \in Shown => Fits(At(RowPlace(f, i, g)), g)
           I == Instance(client)
           sentRepeats == {g \in Answerable(ToSet(form), I) : g.type = "Repeat"}
           Of(f) == UNION {Unfit(f.children, I[f.name][i]) : i \in DOMAIN I[f.name]}
           below == UNION {Of(f) : f \in sentRepeats}
<1>1. CoercionErrors(form, I) = {} <=> Unfit(form, I) = {} /\ below = {}
    BY DEF CoercionErrors
<1>2. below = {} <=> \A f \in sentRepeats : \A i \in DOMAIN I[f.name] : Unfit(f.children, I[f.name][i]) = {}
    <2>1. \A f : Of(f) = {} <=> \A i \in DOMAIN I[f.name] : Unfit(f.children, I[f.name][i]) = {}
        <3> HIDE DEF I
        <3> QED OBVIOUS
    <2>2. below = {} <=> \A f \in sentRepeats : Of(f) = {}
        <3> HIDE DEF sentRepeats, Of
        <3> QED OBVIOUS
    <2> HIDE DEF sentRepeats, below, Of, I
    <2> QED BY <2>1, <2>2
<1>3. \A f : f \in sentRepeats <=> f \in Repeats /\ Sends(client, <<f.name>>)
    BY ElementsSent DEF Answerable, Repeats
<1> HIDE DEF sentRepeats, below
<1>4. below = {} <=> OfRows
    <2>1. ASSUME NEW f \in Repeats, Sends(client, <<f.name>>)
          PROVE  DOMAIN I[f.name] = DOMAIN nodes[f.name]
        BY <2>1, RowsSent
    <2>2. ASSUME below = {} PROVE OfRows
        <3>1. SUFFICES ASSUME NEW f \in Repeats, NEW i \in DOMAIN nodes[f.name], NEW g \in ToSet(f.children),
                              RowPlace(f, i, g) \in Shown
                       PROVE  Fits(At(RowPlace(f, i, g)), g)
            OBVIOUS
        <3>2. Sends(client, <<f.name>>)
            BY <3>1, RowShown, RowsAreSent
        <3>3. Unfit(f.children, I[f.name][i]) = {}
            BY <1>2, <1>3, <2>1, <2>2, <3>2
        <3> QED BY <3>1, <3>2, <3>3, RowFits
    <2>3. ASSUME OfRows PROVE below = {}
        <3>1. SUFFICES ASSUME NEW f \in Repeats, Sends(client, <<f.name>>), NEW i \in DOMAIN I[f.name]
                       PROVE  Unfit(f.children, I[f.name][i]) = {}
            BY <1>2, <1>3
        <3>2. i \in DOMAIN nodes[f.name]
            BY <2>1, <3>1
        <3>3. \A g \in ToSet(f.children) : RowPlace(f, i, g) \in Shown => Fits(At(RowPlace(f, i, g)), g)
            BY <2>3, <3>2
        <3> QED BY <3>1, <3>2, <3>3, RowFits
    <2> QED BY <2>2, <2>3
<1>5. Unfit(form, I) = {} <=> OfTop
    BY TopFits
<1>6. (\A place \in ShownQuestions : Fits(At(place), FieldAt(place))) <=> OfTop /\ OfRows
    <2>1. ASSUME \A place \in ShownQuestions : Fits(At(place), FieldAt(place))
          PROVE  OfTop /\ OfRows
        <3>1. ASSUME NEW f \in Questions(form), <<f.name>> \in Shown PROVE Fits(At(<<f.name>>), f)
            <4>1. f \in ToSet(form) /\ f.type # "Repeat"
                BY DEF Questions
            <4>2. FieldAt(<<f.name>>) = f
                BY <4>1, TopPlace
            <4> QED BY <2>1, <3>1, <4>1, <4>2 DEF ShownQuestions
        <3>2. ASSUME NEW f \in Repeats, NEW i \in DOMAIN nodes[f.name], NEW g \in ToSet(f.children),
                     RowPlace(f, i, g) \in Shown
              PROVE  Fits(At(RowPlace(f, i, g)), g)
            <4>1. FieldAt(RowPlace(f, i, g)) = g
                BY RowPlaceIs
            <4>2. g.type # "Repeat"
                BY RowQuestions DEF Questions
            <4> QED BY <2>1, <3>2, <4>1, <4>2 DEF ShownQuestions
        <3> QED BY <3>1, <3>2
    <2>2. ASSUME OfTop /\ OfRows, NEW place \in ShownQuestions
          PROVE  Fits(At(place), FieldAt(place))
        <3>1. place \in Shown /\ place \in Places /\ FieldAt(place).type # "Repeat"
            BY ShownIsSettled DEF ShownQuestions
        <3>2. CASE \E f \in ToSet(form) : place = <<f.name>>
            <4>1. PICK f \in ToSet(form) : place = <<f.name>>
                BY <3>2
            <4>2. FieldAt(place) = f
                BY <4>1, TopPlace
            <4> QED BY <2>2, <3>1, <4>1, <4>2 DEF Questions
        <3>3. CASE \E f \in Repeats : \E i \in DOMAIN nodes[f.name] : \E g \in ToSet(f.children) :
                     place = RowPlace(f, i, g)
            <4>1. PICK f \in Repeats : \E i \in DOMAIN nodes[f.name] : \E g \in ToSet(f.children) :
                                         place = RowPlace(f, i, g)
                BY <3>3
            <4>2. PICK i \in DOMAIN nodes[f.name] : \E g \in ToSet(f.children) : place = RowPlace(f, i, g)
                BY <4>1
            <4>3. PICK g \in ToSet(f.children) : place = RowPlace(f, i, g)
                BY <4>2
            <4>4. FieldAt(place) = g
                BY <4>3, RowPlaceIs
            <4> QED BY <2>2, <3>1, <4>3, <4>4
        <3> QED BY <3>1, <3>2, <3>3, PlacesAre
    <2> HIDE DEF OfTop, OfRows
    <2> QED BY <2>1, <2>2
<1> HIDE DEF OfTop, OfRows
<1> QED BY <1>1, <1>4, <1>5, <1>6 DEF I

-----------------------------------------------------------------------------
(* The answers the server reads.                                            *)

Values(client) == ToSubmission(form, Instance(client))

\* Some answers hold that of the question at a place, if it was sent.
Held(client, place, values) ==
  LET field == FieldAt(place)
  IN /\ field.name \in DOMAIN values <=> Sends(client, place)
     /\ Sends(client, place) => values[field.name] = Coerce(At(place), field)

HeldRow(client, f, i, row) ==
  /\ DOMAIN row \subseteq Names(f.children)
  /\ \A g \in ToSet(f.children) : Held(client, RowPlace(f, i, g), row)

LEMMA QuestionsAreHeld ==
  ASSUME Known, Shaped, NEW client, CoercionErrors(form, Instance(client)) = {}
  PROVE  /\ DOMAIN Values(client) \subseteq Names(form)
         /\ \A f \in Questions(form) : Held(client, <<f.name>>, Values(client))
<1> DEFINE I == Instance(client)
           values == Values(client)
           asked == Answerable(Questions(form), I)
<1>1. Unfit(form, I) = {}
    BY DEF CoercionErrors
<1>2. Apart(form)
    BY DEF Known, Agreed, Flat
<1>3. /\ DOMAIN values = {f.name : f \in asked} \cup {f.name : f \in Filled(form, I)}
      /\ \A f \in asked : values[f.name] = Coerce(I[f.name], f)
    <2>1. Submitted(form, I, values)
        BY <1>1, <1>2, SubmissionIs DEF Values
    <2> HIDE DEF values, I
    <2> QED BY <2>1 DEF Submitted
<1>4. asked \subseteq Questions(form) /\ Questions(form) \subseteq ToSet(form) /\ Filled(form, I) \subseteq ToSet(form)
    BY DEF Answerable, Filled, Questions
<1>5. DOMAIN values \subseteq Names(form)
    <2> HIDE DEF values, asked
    <2> QED BY <1>3, <1>4, NamesAre
<1>6. ASSUME NEW f \in Questions(form)
      PROVE  Held(client, <<f.name>>, values)
    <2>1. f \in ToSet(form) /\ f.type # "Repeat"
        BY DEF Questions
    <2>2. FieldAt(<<f.name>>) = f
        BY <2>1, TopPlace
    <2>3. /\ f.name \in DOMAIN I <=> Sends(client, <<f.name>>)
          /\ Sends(client, <<f.name>>) => I[f.name] = At(<<f.name>>)
        BY <2>1, ElementsSent
    <2>4. f \in asked <=> Sends(client, <<f.name>>)
        BY <2>3 DEF Answerable
    <2>5. \A g \in Filled(form, I) : g.name # f.name
        BY <1>2, <2>1 DEF Apart, Filled, Answerable
    <2>6. \A g \in asked : g.name = f.name => g = f
        BY <1>2, <1>4, <2>1 DEF Apart
    <2> HIDE DEF values, asked
    <2>7. f.name \in DOMAIN values <=> f \in asked
        BY <1>3, <2>5, <2>6
    <2>8. f \in asked => values[f.name] = Coerce(I[f.name], f)
        BY <1>3
    <2> HIDE DEF I
    <2> QED BY <2>2, <2>3, <2>4, <2>7, <2>8 DEF Held
<1> QED BY <1>5, <1>6

LEMMA RowsAreHeld ==
  ASSUME Known, Shaped, NEW client, CoercionErrors(form, Instance(client)) = {}, NEW f \in Repeats
  PROVE  /\ f.name \in DOMAIN Values(client) <=> <<f.name>> \in Shown /\ DOMAIN nodes[f.name] # {}
         /\ f.name \in DOMAIN Values(client) =>
              /\ Values(client)[f.name].kind = "Repeat"
              /\ DOMAIN Values(client)[f.name].rows = DOMAIN nodes[f.name]
              /\ \A i \in DOMAIN nodes[f.name] : HeldRow(client, f, i, Values(client)[f.name].rows[i])
<1> DEFINE I == Instance(client)
           values == Values(client)
           asked == Answerable(Questions(form), I)
           filled == Filled(form, I)
<1>1. Unfit(form, I) = {}
    BY DEF CoercionErrors
<1>2. Apart(form) /\ f \in ToSet(form) /\ f.type = "Repeat"
    BY DEF Known, Agreed, Flat, Repeats
<1>3. /\ DOMAIN values = {g.name : g \in asked} \cup {g.name : g \in filled}
      /\ \A g \in filled : /\ values[g.name].kind = "Repeat"
                           /\ DOMAIN values[g.name].rows = DOMAIN I[g.name]
                           /\ \A i \in DOMAIN I[g.name] :
                                values[g.name].rows[i] = RepeatRow(g, I[g.name][i])
    <2>1. Submitted(form, I, values)
        BY <1>1, <1>2, SubmissionIs DEF Values
    <2> HIDE DEF values, I
    <2> QED BY <2>1 DEF Submitted
<1>4. f.name \in DOMAIN I <=> Sends(client, <<f.name>>)
    BY <1>2, ElementsSent
<1>5. f \in filled <=> Sends(client, <<f.name>>) /\ I[f.name] # <<>>
    BY <1>2, <1>4 DEF Filled, Answerable
<1>6. Sends(client, <<f.name>>) => /\ DOMAIN I[f.name] = DOMAIN nodes[f.name]
                                   /\ I[f.name] = <<>> <=> DOMAIN nodes[f.name] = {}
    BY RowsSent
<1>7. f \in filled <=> <<f.name>> \in Shown /\ DOMAIN nodes[f.name] # {}
    <2>1. <<f.name>> \in Shown /\ DOMAIN nodes[f.name] # {} => Sends(client, <<f.name>>)
        BY RowsAreSent
    <2>2. Sends(client, <<f.name>>) => <<f.name>> \in Shown
        BY DEF Sends
    <2> HIDE DEF I, filled
    <2> QED BY <1>5, <1>6, <2>1, <2>2
<1>8. f.name \in DOMAIN values <=> f \in filled
    <2>1. \A g \in asked : g.name # f.name
        BY <1>2 DEF Apart, Answerable, Questions
    <2>2. \A g \in filled : g.name = f.name => g = f
        BY <1>2 DEF Apart, Filled, Answerable
    <2> HIDE DEF values, asked, filled
    <2> QED BY <1>3, <2>1, <2>2
<1>9. ASSUME f \in filled, NEW i \in DOMAIN nodes[f.name]
      PROVE  HeldRow(client, f, i, values[f.name].rows[i])
    <2> DEFINE row == I[f.name][i]
               read == RepeatRow(f, row)
    <2>1. Sends(client, <<f.name>>) /\ i \in DOMAIN I[f.name]
        BY <1>5, <1>6, <1>9
    <2>2. values[f.name].rows[i] = read
        <3> HIDE DEF values, I, filled
        <3> QED BY <1>3, <1>9, <2>1
    <2>3. SentRow(client, f, i, row)
        BY <2>1, RowsSent
    <2>4. Unfit(f.children, row) = {}
        <3>1. f \in {g \in Answerable(ToSet(form), I) : g.type = "Repeat"}
            BY <1>2, <1>9 DEF Filled
        <3> DEFINE Of(g) == UNION {Unfit(g.children, I[g.name][k]) : k \in DOMAIN I[g.name]}
        <3>2. UNION {Of(g) : g \in {g \in Answerable(ToSet(form), I) : g.type = "Repeat"}} = {}
            BY DEF CoercionErrors
        <3>3. Of(f) = {}
            <4> HIDE DEF Of
            <4> QED BY <3>1, <3>2
        <3> HIDE DEF I
        <3> QED BY <2>1, <3>3
    <2>5. Questions(f.children) = ToSet(f.children) /\ Apart(f.children)
        BY RowQuestions
    <2> HIDE DEF row
    <2>6. /\ DOMAIN read = {g.name : g \in Answerable(ToSet(f.children), row)}
          /\ \A g \in Answerable(ToSet(f.children), row) : read[g.name] = Coerce(row[g.name], g)
        <3>1. Single(ToSet(f.children))
            BY <2>5 DEF Single, Apart
        <3>2. \A g \in Answerable(ToSet(f.children), row) : Fits(row[g.name], g)
            BY <2>4, <2>5 DEF Unfit
        <3> QED BY <3>1, <3>2, ReadIs DEF RepeatRow
    <2>7. DOMAIN read \subseteq Names(f.children)
        BY <2>6, NamesAre DEF Answerable
    <2>8. ASSUME NEW g \in ToSet(f.children)
          PROVE  Held(client, RowPlace(f, i, g), read)
        <3>1. FieldAt(RowPlace(f, i, g)) = g
            BY RowPlaceIs
        <3>2. /\ g.name \in DOMAIN row <=> Sends(client, RowPlace(f, i, g))
              /\ Sends(client, RowPlace(f, i, g)) => row[g.name] = At(RowPlace(f, i, g))
            BY <2>3 DEF SentRow
        <3>3. g \in Answerable(ToSet(f.children), row) <=> g.name \in DOMAIN row
            BY DEF Answerable
        <3>4. \A h \in Answerable(ToSet(f.children), row) : h.name = g.name => h = g
            BY <2>5 DEF Apart, Answerable
        <3> HIDE DEF read
        <3>5. g.name \in DOMAIN read <=> g \in Answerable(ToSet(f.children), row)
            BY <2>6, <3>4
        <3> QED BY <2>6, <3>1, <3>2, <3>3, <3>5 DEF Held
    <2> HIDE DEF read
    <2> QED BY <2>2, <2>7, <2>8 DEF HeldRow
<1>10. f \in filled => /\ values[f.name].kind = "Repeat"
                       /\ DOMAIN values[f.name].rows = DOMAIN nodes[f.name]
    <2> HIDE DEF values, I, filled
    <2> QED BY <1>3, <1>5, <1>6
<1> HIDE DEF filled, I
<1> QED BY <1>7, <1>8, <1>9, <1>10 DEF values

-----------------------------------------------------------------------------
(* What the server asks.                                                    *)

\* A condition sees the text the device sees.
LEMMA HeldText ==
  ASSUME NEW client, NEW place, NEW values, Held(client, place, values),
         NEW field, FieldAt(place) = field,
         ValueKind(field.type) \notin Textless, Typed(At(place), field)
  PROVE  Textual(values, field.name) /\ TextOf(values, field.name) = TextAt(Shown, place)
<1> DEFINE text == At(place)
           value == Coerce(text, field)
           name == field.name
<1>1. field.type # "Repeat"
    BY DEF ValueKind, Textless
<1>2. name \in DOMAIN values <=> Sends(client, place)
    BY DEF Held
<1>3. Sends(client, place) => values[name] = value
    BY DEF Held
<1>4. CASE ~ Sends(client, place)
    <2>1. TextOf(values, name) = <<>>
        BY <1>2, <1>4 DEF TextOf
    <2>2. TextAt(Shown, place) = <<>>
        BY <1>4 DEF Sends, TextAt
    <2> QED BY <1>2, <1>4, <2>1, <2>2 DEF Textual
<1>5. CASE Sends(client, place)
    <2>1. TextAt(Shown, place) = text
        BY <1>5 DEF Sends, TextAt
    <2>2. CASE text = <<>>
        <3>1. value.kind = "Null" /\ value.text = <<>>
            BY <2>2 DEF Coerce
        <3> HIDE DEF value, text
        <3> QED BY <1>2, <1>3, <1>5, <2>1, <2>2, <3>1 DEF Textual, TextOf, HasText, Textless
    <2>3. CASE text # <<>>
        <3>1. value = [kind |-> ValueKind(field.type), text |-> Normalised(text, field)]
            BY <1>1, <2>3 DEF Coerce
        <3>2. Normalised(text, field) = text
            <4>1. field.type \in DOMAIN Answers /\ text \in Answers[field.type]
                BY <2>3 DEF Typed
            <4>2. field.type = "Boolean" => text \in {<<"true">>, <<"false">>}
                BY <4>1, AnswersAssumption
            <4> QED BY <4>2 DEF Normalised
        <3> HIDE DEF value, text
        <3>3. value.kind = ValueKind(field.type) /\ value.text = text
            BY <3>1, <3>2
        <3>4. HasText(value)
            BY <3>3 DEF HasText
        <3> QED BY <1>2, <1>3, <1>5, <2>1, <3>3, <3>4 DEF Textual, TextOf
    <2> QED BY <2>2, <2>3
<1> QED BY <1>4, <1>5

LEMMA TopTyped ==
  ASSUME Known, Shaped, NEW f \in Questions(form)
  PROVE  Typed(At(<<f.name>>), f) /\ FieldAt(<<f.name>>) = f
<1>1. f \in ToSet(form)
    BY DEF Questions
<1> QED BY <1>1, TopPlace DEF Shaped

LEMMA RowTyped ==
  ASSUME Known, Shaped, NEW f \in Repeats, NEW i \in DOMAIN nodes[f.name], NEW g \in ToSet(f.children)
  PROVE  Typed(At(RowPlace(f, i, g)), g) /\ FieldAt(RowPlace(f, i, g)) = g
<1>1. nodes[f.name][i] \in RowsOf(f)
    BY DEF Shaped
<1>2. Typed(nodes[f.name][i][g.name], g)
    BY <1>1 DEF RowsOf
<1> QED BY <1>2, RowPlaceIs

RowScope(client, f, i) == Scope(Values(client)[f.name].rows[i], Values(client))

\* A row reads its own answers, and those of the top level besides.
LEMMA RowReads ==
  ASSUME Known, Shaped, NEW client, CoercionErrors(form, Instance(client)) = {},
         NEW f \in Repeats, f.name \in DOMAIN Values(client), NEW i \in DOMAIN nodes[f.name]
  PROVE  /\ \A g \in ToSet(f.children) : Held(client, RowPlace(f, i, g), RowScope(client, f, i))
         /\ \A h \in Questions(form) : Held(client, <<h.name>>, RowScope(client, f, i))
<1> DEFINE row == Values(client)[f.name].rows[i]
           values == Values(client)
           scope == RowScope(client, f, i)
<1>1. HeldRow(client, f, i, row)
    BY RowsAreHeld
<1>2. /\ DOMAIN values \subseteq Names(form)
      /\ \A h \in Questions(form) : Held(client, <<h.name>>, values)
    BY QuestionsAreHeld
<1>3. Names(f.children) \cap Names(form) = {}
    BY RowQuestions
<1>4. /\ DOMAIN scope = DOMAIN row \cup DOMAIN values
      /\ \A n \in DOMAIN row : scope[n] = row[n]
      /\ \A n \in DOMAIN values : n \notin DOMAIN row => scope[n] = values[n]
    BY DEF RowScope, Scope, Over
<1>5. DOMAIN row \subseteq Names(f.children)
    BY <1>1 DEF HeldRow
<1> HIDE DEF row, values, scope
<1>6. ASSUME NEW g \in ToSet(f.children)
      PROVE  Held(client, RowPlace(f, i, g), scope)
    <2>1. Held(client, RowPlace(f, i, g), row)
        BY <1>1 DEF HeldRow
    <2>2. FieldAt(RowPlace(f, i, g)) = g
        BY RowPlaceIs
    <2>3. g.name \notin DOMAIN values
        BY <1>2, <1>3, NamesAre
    <2> QED BY <1>4, <2>1, <2>2, <2>3 DEF Held
<1>7. ASSUME NEW h \in Questions(form)
      PROVE  Held(client, <<h.name>>, scope)
    <2>1. Held(client, <<h.name>>, values)
        BY <1>2
    <2>2. FieldAt(<<h.name>>) = h
        BY TopTyped
    <2>3. h.name \notin DOMAIN row
        BY <1>3, <1>5, NamesAre DEF Questions
    <2> QED BY <1>4, <2>1, <2>2, <2>3 DEF Held
<1> QED BY <1>6, <1>7 DEF scope

\* The server hides a field of the top level just when the device does.
LEMMA TopAsked ==
  ASSUME Known, Shaped, NEW client, CoercionErrors(form, Instance(client)) = {}, NEW f \in ToSet(form)
  PROVE  (~ Hidden(f, Values(client))) <=> <<f.name>> \in Shown
<1> DEFINE values == Values(client)
<1>1. FieldAt(<<f.name>>) = f /\ ~ InRow(<<f.name>>) /\ <<f.name>> \in Places
    BY TopPlace
<1>2. <<f.name>> \in Shown
        <=> \A c \in Relevant(f) : DeviceHolds(c, TextAt(Shown, Referred(<<f.name>>, c.field)))
    BY <1>1, ShownIsSettled DEF Shows
<1>3. ASSUME NEW c \in Relevant(f)
      PROVE  /\ Textual(values, c.field)
             /\ TextOf(values, c.field) = TextAt(Shown, Referred(<<f.name>>, c.field))
    <2>1. PICK h \in Questions(form) : /\ h.name = c.field /\ ValueKind(h.type) \notin Textless
                                       /\ Referred(<<f.name>>, c.field) = <<h.name>>
        BY TopReference
    <2>2. Held(client, <<h.name>>, values)
        BY QuestionsAreHeld
    <2>3. Typed(At(<<h.name>>), h) /\ FieldAt(<<h.name>>) = h
        BY TopTyped
    <2> HIDE DEF values
    <2>4. Textual(values, h.name) /\ TextOf(values, h.name) = TextAt(Shown, <<h.name>>)
        BY <2>1, <2>2, <2>3, HeldText
    <2> QED BY <2>1, <2>4
<1>4. Modelled(f)
    BY FieldsIn DEF Known, Agreed
<1> HIDE DEF values
<1>5. (~ Hidden(f, values)) <=> \A c \in Relevant(f) : DeviceHolds(c, TextOf(values, c.field))
    BY <1>3, <1>4, ModelledIsMeant
<1> QED BY <1>2, <1>3, <1>5 DEF values

\* And one of a row just when the device does.
LEMMA RowAsked ==
  ASSUME Known, Shaped, NEW client, CoercionErrors(form, Instance(client)) = {},
         NEW f \in Repeats, f.name \in DOMAIN Values(client), NEW i \in DOMAIN nodes[f.name],
         NEW g \in ToSet(f.children)
  PROVE  (~ Hidden(g, RowScope(client, f, i))) <=> RowPlace(f, i, g) \in Shown
<1> DEFINE values == RowScope(client, f, i)
           place == RowPlace(f, i, g)
<1>1. FieldAt(place) = g /\ InRow(place) /\ place[1] = f.name /\ place \in Places
    BY RowPlaceIs DEF RowPlace
<1>2. <<f.name>> \in Shown
    BY RowsAreHeld
<1>3. place \in Shown <=> \A c \in Relevant(g) : DeviceHolds(c, TextAt(Shown, Referred(place, c.field)))
    BY <1>1, <1>2, ShownIsSettled DEF Shows
<1>4. ASSUME NEW c \in Relevant(g)
      PROVE  /\ Textual(values, c.field)
             /\ TextOf(values, c.field) = TextAt(Shown, Referred(place, c.field))
    <2>1. PICK h : /\ h.name = c.field /\ ValueKind(h.type) \notin Textless
                   /\ \/ h \in Questions(form) /\ Referred(place, c.field) = <<h.name>>
                      \/ h \in Questions(f.children) /\ Referred(place, c.field) = RowPlace(f, i, h)
        BY RowReference
    <2>2. CASE h \in Questions(form) /\ Referred(place, c.field) = <<h.name>>
        <3>1. Held(client, <<h.name>>, values)
            BY <2>2, RowReads
        <3>2. Typed(At(<<h.name>>), h) /\ FieldAt(<<h.name>>) = h
            BY <2>2, TopTyped
        <3> HIDE DEF values, place
        <3>3. Textual(values, h.name) /\ TextOf(values, h.name) = TextAt(Shown, <<h.name>>)
            BY <2>1, <3>1, <3>2, HeldText
        <3> QED BY <2>1, <2>2, <3>3
    <2>3. CASE h \in Questions(f.children) /\ Referred(place, c.field) = RowPlace(f, i, h)
        <3>0. h \in ToSet(f.children)
            BY <2>3 DEF Questions
        <3>1. Held(client, RowPlace(f, i, h), values)
            BY <3>0, RowReads
        <3>2. Typed(At(RowPlace(f, i, h)), h) /\ FieldAt(RowPlace(f, i, h)) = h
            BY <3>0, RowTyped
        <3> HIDE DEF values, place
        <3>3. Textual(values, h.name) /\ TextOf(values, h.name) = TextAt(Shown, RowPlace(f, i, h))
            BY <2>1, <3>1, <3>2, HeldText
        <3> QED BY <2>1, <2>3, <3>3
    <2> QED BY <2>1, <2>2, <2>3
<1>5. Modelled(g)
    <2>1. g \in Children(f) /\ f \in ToSet(form)
        BY DEF Children, Repeats
    <2>2. g \in FieldsOf(form)
        BY <2>1, FieldsIn DEF Known, Agreed
    <2> QED BY <2>2 DEF Known, Agreed
<1> HIDE DEF values, place
<1>6. (~ Hidden(g, values)) <=> \A c \in Relevant(g) : DeviceHolds(c, TextOf(values, c.field))
    BY <1>4, <1>5, ModelledIsMeant
<1> QED BY <1>3, <1>4, <1>6 DEF values, place

-----------------------------------------------------------------------------
(* The levels the server walks: the submission, and each row of a repeat    *)
(* that is shown.                                                           *)

Deepens(first, d) ==
  d = [n \in 0 .. MaxNesting |-> IF n = 0 THEN {first} ELSE UNION {RowLevels(level) : level \in d[n - 1]}]

LEMMA LevelsIs ==
  \A fields, values :
    Levels(fields, values)
      = UNION {(CHOOSE d : Deepens(Level(fields, values, values, <<>>), d))[n] : n \in 0 .. MaxNesting}
BY DEF Levels, Deepens

\* Where rows have no rows of their own, that is all.
LEMMA TwoLevels ==
  ASSUME NEW fields, NEW values, NEW first, first = Level(fields, values, values, <<>>),
         \A level \in RowLevels(first) : RowLevels(level) = {}
  PROVE  Levels(fields, values) = {first} \cup RowLevels(first)
<1> DEFINE g == [n \in 0 .. MaxNesting |->
                   IF n = 0 THEN {first} ELSE IF n = 1 THEN RowLevels(first) ELSE {}]
           d == CHOOSE q : Deepens(first, q)
<1>1. 0 \in 0 .. MaxNesting /\ 1 \in 0 .. MaxNesting /\ MaxNesting \in Nat
    BY MaxNestingAssumption
<1>2. ASSUME NEW n \in 0 .. MaxNesting
      PROVE  g[n] = IF n = 0 THEN {first} ELSE UNION {RowLevels(level) : level \in g[n - 1]}
    <2>1. CASE n = 0
        BY <2>1
    <2>2. CASE n = 1
        <3>1. g[n] = RowLevels(first) /\ g[n - 1] = {first}
            BY <1>1, <2>2
        <3> HIDE DEF g
        <3> QED BY <2>2, <3>1
    <2>3. CASE n \notin {0, 1}
        <3>1. n - 1 \in 0 .. MaxNesting /\ n - 1 # 0
            BY <1>1, <2>3
        <3>2. g[n] = {} /\ g[n - 1] \in {RowLevels(first), {}}
            BY <2>3, <3>1
        <3>3. UNION {RowLevels(level) : level \in g[n - 1]} = {}
            <4> HIDE DEF g
            <4> QED BY <3>2
        <3> HIDE DEF g
        <3> QED BY <2>3, <3>2, <3>3
    <2> QED BY <2>1, <2>2, <2>3
<1>3. Deepens(first, g)
    <2> DEFINE h == [n \in 0 .. MaxNesting |->
                       IF n = 0 THEN {first} ELSE UNION {RowLevels(level) : level \in g[n - 1]}]
    <2>1. g = [n \in 0 .. MaxNesting |-> g[n]]
        OBVIOUS
    <2> HIDE DEF g
    <2>2. g = h
        BY <1>2, <2>1
    <2> QED BY <2>2 DEF Deepens
<1>4. Deepens(first, d)
    <2> HIDE DEF g
    <2> QED BY <1>3
<1>5. Levels(fields, values) = UNION {d[n] : n \in 0 .. MaxNesting}
    BY LevelsIs DEF d
<1> HIDE DEF d, g
<1>6. d[0] = {first} /\ \A n \in 0 .. MaxNesting : n # 0 => d[n] = UNION {RowLevels(level) : level \in d[n - 1]}
    BY <1>1, <1>4 DEF Deepens
<1>7. d[1] = RowLevels(first)
    <2>1. 1 - 1 = 0 /\ 1 # 0
        OBVIOUS
    <2>2. d[1] = UNION {RowLevels(level) : level \in d[0]}
        BY <1>1, <1>6, <2>1
    <2> QED BY <1>6, <2>2
<1> DEFINE Deeper == {n \in Nat : n \in 2 .. MaxNesting /\ d[n] # {}}
<1>8. Deeper = {}
    <2> SUFFICES ASSUME Deeper # {} PROVE FALSE
        OBVIOUS
    <2>1. PICK n \in Deeper : \A k \in Deeper : n <= k
        <3>1. Deeper \in SUBSET Nat
            OBVIOUS
        <3> HIDE DEF Deeper
        <3> QED BY <3>1, Smallest
    <2>2. n \in 2 .. MaxNesting /\ d[n] # {}
        OBVIOUS
    <2>3. d[n] = UNION {RowLevels(level) : level \in d[n - 1]}
        BY <1>1, <1>6, <2>2
    <2>4. d[n - 1] \in {RowLevels(first), {}}
        <3>1. CASE n = 2
            BY <1>7, <3>1
        <3>2. CASE n # 2
            <4>1. n - 1 \in Nat /\ n - 1 \in 2 .. MaxNesting /\ ~ (n <= n - 1)
                BY <1>1, <2>2, <3>2
            <4>2. n - 1 \notin Deeper
                <5> HIDE DEF Deeper
                <5> QED BY <2>1, <4>1
            <4> QED BY <4>1, <4>2
        <3> QED BY <3>1, <3>2
    <2>5. UNION {RowLevels(level) : level \in d[n - 1]} = {}
        BY <2>4
    <2> QED BY <2>2, <2>3, <2>5
<1>9. \A n \in 0 .. MaxNesting : n = 0 \/ n = 1 \/ d[n] = {}
    <2> TAKE n \in 0 .. MaxNesting
    <2>1. n \notin {0, 1} => n \in Nat /\ n \in 2 .. MaxNesting
        BY <1>1
    <2> QED BY <1>8, <2>1
<1> QED BY <1>1, <1>5, <1>6, <1>7, <1>9

TopLevel(client) == Level(form, Values(client), Values(client), <<>>)
RowLevel(client, f, i) ==
  Level(f.children, RowScope(client, f, i), Values(client)[f.name].rows[i], <<f.name, i>>)

LEMMA LevelsAre ==
  ASSUME Known, Shaped, NEW client, CoercionErrors(form, Instance(client)) = {}
  PROVE  \A level : level \in Levels(form, Values(client))
           <=> \/ level = TopLevel(client)
               \/ \E f \in Repeats : \E i \in DOMAIN nodes[f.name] :
                    f.name \in DOMAIN Values(client) /\ level = RowLevel(client, f, i)
<1> DEFINE values == Values(client)
           first == TopLevel(client)
           RowLevelsOf(f) == {Level(f.children, Scope(values[f.name].rows[i], values), values[f.name].rows[i],
                                    <<>> \o <<f.name, i>>) : i \in DOMAIN values[f.name].rows}
           asked == {g \in ToSet(form) : /\ g.type = "Repeat" /\ ~ Hidden(g, values)
                                         /\ g.name \in DOMAIN values /\ values[g.name].kind = "Repeat"}
<1>1. first.fields = form /\ first.scope = values /\ first.path = <<>>
    BY DEF TopLevel, Level
<1>2. RowLevels(first) = UNION {RowLevelsOf(f) : f \in asked}
    <2> HIDE DEF first, values
    <2> QED BY <1>1 DEF RowLevels
<1>3. \A f : f \in asked <=> f \in Repeats /\ f.name \in DOMAIN values
    <2>1. ASSUME NEW f \in Repeats, f.name \in DOMAIN values
          PROVE  ~ Hidden(f, values) /\ values[f.name].kind = "Repeat"
        <3>1. <<f.name>> \in Shown /\ values[f.name].kind = "Repeat"
            BY <2>1, RowsAreHeld
        <3>2. f \in ToSet(form)
            BY DEF Repeats
        <3> QED BY <3>1, <3>2, TopAsked
    <2> HIDE DEF values
    <2> QED BY <2>1 DEF Repeats
<1>4. ASSUME NEW f \in Repeats, f.name \in DOMAIN values
      PROVE  RowLevelsOf(f) = {RowLevel(client, f, i) : i \in DOMAIN nodes[f.name]}
    <2>1. DOMAIN values[f.name].rows = DOMAIN nodes[f.name]
        BY <1>4, RowsAreHeld
    <2>2. \A i : <<>> \o <<f.name, i>> = <<f.name, i>>
        OBVIOUS
    <2>3. ASSUME NEW i
          PROVE  Level(f.children, Scope(values[f.name].rows[i], values), values[f.name].rows[i], <<>> \o <<f.name, i>>)
                   = RowLevel(client, f, i)
        BY <2>2 DEF RowLevel, RowScope
    <2> HIDE DEF values
    <2> QED BY <2>1, <2>3
<1> HIDE DEF first, values, asked, RowLevelsOf
<1>5. \A level : level \in RowLevels(first)
        <=> \E f \in Repeats : \E i \in DOMAIN nodes[f.name] :
              f.name \in DOMAIN values /\ level = RowLevel(client, f, i)
    BY <1>2, <1>3, <1>4
<1>6. ASSUME NEW level \in RowLevels(first) PROVE RowLevels(level) = {}
    <2>1. PICK f \in Repeats : \E i \in DOMAIN nodes[f.name] : level = RowLevel(client, f, i)
        BY <1>5
    <2>2. level.fields = f.children
        BY <2>1 DEF RowLevel, Level
    <2>3. \A g \in ToSet(f.children) : g.type # "Repeat"
        BY RowQuestions DEF Questions
    <2>4. {g \in ToSet(level.fields) :
             /\ g.type = "Repeat" /\ ~ Hidden(g, level.scope)
             /\ g.name \in DOMAIN level.scope /\ level.scope[g.name].kind = "Repeat"} = {}
        BY <2>2, <2>3
    <2> QED BY <2>4 DEF RowLevels
<1>7. Levels(form, values) = {first} \cup RowLevels(first)
    <2>1. first = Level(form, values, values, <<>>)
        BY DEF first, values, TopLevel
    <2> QED BY <1>6, <2>1, TwoLevels
<1> QED BY <1>5, <1>7 DEF first, values

LEMMA Extended ==
  ASSUME NEW T, NEW s \in Seq(T), NEW c \in T, NEW u \in Seq(T), Len(u) = Len(s) + 1,
         \A i \in 1 .. Len(s) : u[i] = s[i], u[Len(s) + 1] = c
  PROVE  Append(s, c) = u
<1>1. Append(s, c) \in Seq(T) /\ Len(Append(s, c)) = Len(s) + 1
    OBVIOUS
<1>2. \A i \in 1 .. Len(s) : Append(s, c)[i] = s[i]
    OBVIOUS
<1>3. Append(s, c)[Len(s) + 1] = c
    OBVIOUS
<1>4. \A i \in 1 .. Len(s) + 1 : Append(s, c)[i] = u[i]
    BY <1>2, <1>3
<1> QED BY <1>1, <1>4, SeqEqual

LEMMA Appended ==
  ASSUME NEW a, NEW b, NEW c
  PROVE  Append(<<a, b>>, c) = <<a, b, c>>
<1> DEFINE T == {a, b, c}
           s == <<a, b>>
           u == <<a, b, c>>
<1>1. s \in Seq(T) /\ c \in T /\ u \in Seq(T) /\ Len(s) = 2 /\ Len(u) = 3
    OBVIOUS
<1>2. s[1] = a /\ s[2] = b /\ u[1] = a /\ u[2] = b /\ u[3] = c
    OBVIOUS
<1> HIDE DEF T, s, u
<1>3. Len(u) = Len(s) + 1 /\ u[Len(s) + 1] = c /\ \A i \in 1 .. Len(s) : u[i] = s[i]
    BY <1>1, <1>2
<1>4. Append(s, c) = u
    BY <1>1, <1>3, Extended
<1> QED BY <1>4 DEF s, u

\* The server asks the questions the device shows.
LEMMA AskedIsShown ==
  ASSUME Known, Shaped, NEW client, CoercionErrors(form, Instance(client)) = {}
  PROVE  Asked(Values(client)) = ShownQuestions
<1> DEFINE values == Values(client)
           Of(level) == {Append(level.path, f.name) : f \in {g \in Questions(level.fields) : ~ Hidden(g, level.scope)}}
           first == TopLevel(client)
<1>1. Asked(values) = UNION {Of(level) : level \in Levels(form, values)}
    BY DEF Asked
<1>2. \A q : q \in Of(first) <=> \E f \in Questions(form) : <<f.name>> \in Shown /\ q = <<f.name>>
    <2>1. first.path = <<>> /\ first.fields = form /\ first.scope = values
        BY DEF TopLevel, Level
    <2>2. \A f \in Questions(form) : Append(<<>>, f.name) = <<f.name>>
        OBVIOUS
    <2>3. \A f \in Questions(form) : (~ Hidden(f, values)) <=> <<f.name>> \in Shown
        BY TopAsked DEF Questions
    <2> HIDE DEF first, values
    <2> QED BY <2>1, <2>2, <2>3
<1>3. ASSUME NEW f \in Repeats, NEW i \in DOMAIN nodes[f.name], f.name \in DOMAIN values
      PROVE  \A q : q \in Of(RowLevel(client, f, i))
                      <=> \E g \in ToSet(f.children) : RowPlace(f, i, g) \in Shown /\ q = RowPlace(f, i, g)
    <2> DEFINE level == RowLevel(client, f, i)
    <2>1. level.path = <<f.name, i>> /\ level.fields = f.children /\ level.scope = RowScope(client, f, i)
        BY DEF RowLevel, Level
    <2>2. \A g \in ToSet(f.children) : Append(<<f.name, i>>, g.name) = RowPlace(f, i, g)
        BY Appended DEF RowPlace
    <2>3. \A g \in ToSet(f.children) : (~ Hidden(g, RowScope(client, f, i))) <=> RowPlace(f, i, g) \in Shown
        BY <1>3, RowAsked
    <2>4. Questions(f.children) = ToSet(f.children)
        BY RowQuestions
    <2> HIDE DEF level
    <2>5. \A q : q \in Of(level)
                   <=> \E g \in ToSet(f.children) : RowPlace(f, i, g) \in Shown /\ q = RowPlace(f, i, g)
        BY <2>1, <2>2, <2>3, <2>4
    <2> QED BY <2>5 DEF level
<1> HIDE DEF values, Of, first
<1>4. ASSUME NEW q \in Asked(values) PROVE q \in ShownQuestions
    <2>1. PICK level \in Levels(form, values) : q \in Of(level)
        BY <1>1
    <2>2. CASE level = first
        <3>1. PICK f \in Questions(form) : <<f.name>> \in Shown /\ q = <<f.name>>
            BY <1>2, <2>1, <2>2
        <3>2. FieldAt(<<f.name>>) = f /\ f.type # "Repeat"
            BY TopTyped DEF Questions
        <3> QED BY <3>1, <3>2 DEF ShownQuestions
    <2>3. CASE level # first
        <3>1. PICK f \in Repeats : \E i \in DOMAIN nodes[f.name] :
                f.name \in DOMAIN values /\ level = RowLevel(client, f, i)
            BY <2>3, LevelsAre DEF values, first
        <3>2. PICK i \in DOMAIN nodes[f.name] : f.name \in DOMAIN values /\ level = RowLevel(client, f, i)
            BY <3>1
        <3>3. PICK g \in ToSet(f.children) : RowPlace(f, i, g) \in Shown /\ q = RowPlace(f, i, g)
            BY <1>3, <2>1, <3>2
        <3>4. FieldAt(RowPlace(f, i, g)) = g /\ g.type # "Repeat"
            BY RowTyped, RowQuestions DEF Questions
        <3> QED BY <3>3, <3>4 DEF ShownQuestions
    <2> QED BY <2>2, <2>3
<1>5. ASSUME NEW q \in ShownQuestions PROVE q \in Asked(values)
    <2>1. q \in Places /\ q \in Shown /\ FieldAt(q).type # "Repeat"
        BY ShownIsSettled DEF ShownQuestions
    <2>2. CASE \E f \in ToSet(form) : q = <<f.name>>
        <3>1. PICK f \in ToSet(form) : q = <<f.name>>
            BY <2>2
        <3>2. f \in Questions(form)
            BY <2>1, <3>1, TopPlace DEF Questions
        <3>3. q \in Of(first)
            BY <1>2, <2>1, <3>1, <3>2
        <3>4. first \in Levels(form, values)
            BY LevelsAre DEF values, first
        <3> QED BY <1>1, <3>3, <3>4
    <2>3. CASE \E f \in Repeats : \E i \in DOMAIN nodes[f.name] : \E g \in ToSet(f.children) :
                 q = RowPlace(f, i, g)
        <3>1. PICK f \in Repeats : \E i \in DOMAIN nodes[f.name] : \E g \in ToSet(f.children) : q = RowPlace(f, i, g)
            BY <2>3
        <3>2. PICK i \in DOMAIN nodes[f.name] : \E g \in ToSet(f.children) : q = RowPlace(f, i, g)
            BY <3>1
        <3>3. PICK g \in ToSet(f.children) : q = RowPlace(f, i, g)
            BY <3>2
        <3>4. <<f.name>> \in Shown
            BY <2>1, <3>3, RowShown
        <3>5. f.name \in DOMAIN values
            BY <3>4, RowsAreHeld DEF values
        <3>6. q \in Of(RowLevel(client, f, i))
            BY <1>3, <2>1, <3>3, <3>5
        <3>7. RowLevel(client, f, i) \in Levels(form, values)
            BY <3>5, LevelsAre DEF values
        <3> QED BY <1>1, <3>6, <3>7
    <2> QED BY <2>1, <2>2, <2>3, PlacesAre
<1> QED BY <1>4, <1>5 DEF values

-----------------------------------------------------------------------------
(* What the server refuses.                                                 *)

\* The value made of a text violates a constraint just when the text does not
\* meet it.
LEMMA ViolatesIs ==
  ASSUME NEW field, NEW text, text # <<>>, field.type # "Repeat", Fits(text, field), Suited(field),
         NEW k \in field.constraints, NEW value, value.kind = ValueKind(field.type), value.text = text,
         Len(text) \in Nat
  PROVE  Violates(value, k) <=> ~ Meets(text, k)
<1>1. CASE k.kind \in {"Min", "Max"}
    <2>1. k.bound \in Int /\ field.type \in {"Integer", "Decimal"}
        BY <1>1 DEF Suited
    <2>2. ToNumber(text) \in Int
        <3>1. IsNumber(text)
            BY <2>1 DEF Fits
        <3> QED BY <3>1, NumberOfAssumption DEF IsNumber, ToNumber
    <2>3. value.kind \in {"Integer", "Decimal"}
        BY <2>1 DEF ValueKind
    <2> DEFINE number == ToNumber(text)
               bound == k.bound
    <2>4. Violates(value, k) <=> \/ k.kind = "Min" /\ number < bound
                                 \/ k.kind = "Max" /\ number > bound
        BY <1>1, <2>3 DEF Violates
    <2>5. Meets(text, k) <=> IF k.kind = "Min" THEN number >= bound ELSE number <= bound
        BY <1>1 DEF Meets
    <2> HIDE DEF number, bound
    <2>6. number \in Int /\ bound \in Int
        BY <2>1, <2>2 DEF number, bound
    <2> QED BY <1>1, <2>4, <2>5, <2>6
<1>2. CASE k.kind \in {"MinLength", "MaxLength"}
    <2>1. k.bound \in Int /\ value.kind = "Text"
        BY <1>2 DEF Suited
    <2> DEFINE length == Len(text)
               bound == k.bound
    <2>2. Violates(value, k) <=> \/ k.kind = "MinLength" /\ length < bound
                                 \/ k.kind = "MaxLength" /\ length > bound
        BY <1>2, <2>1 DEF Violates
    <2>3. Meets(text, k) <=> IF k.kind = "MinLength" THEN length >= bound ELSE length <= bound
        BY <1>2 DEF Meets
    <2>4. length \in Int /\ bound \in Int
        BY <2>1
    <2> HIDE DEF length, bound
    <2> QED BY <1>2, <2>2, <2>3, <2>4
<1>3. CASE k.kind = "Pattern"
    <2>1. value.kind = "Text"
        BY <1>3 DEF Suited
    <2>2. Violates(value, k) <=> ~ Matches(k.bound, text)
        BY <1>3, <2>1 DEF Violates
    <2>3. Meets(text, k) <=> Matches(k.bound, text)
        BY <1>3 DEF Meets
    <2> QED BY <2>2, <2>3
<1>4. CASE k.kind = "OneOf"
    <2>1. value.kind \in {"Text", "Choice"}
        BY <1>4 DEF Suited
    <2>2. Violates(value, k) <=> \A word \in k.bound : text # <<word>>
        BY <1>4, <2>1 DEF Violates
    <2>3. Meets(text, k) <=> \E word \in k.bound : text = <<word>>
        BY <1>4 DEF Meets
    <2> QED BY <2>2, <2>3
<1> QED BY <1>1, <1>2, <1>3, <1>4 DEF Suited

\* What a question asks, when it is shown.
Answered(field, text) ==
  /\ field.required => text # <<>>
  /\ text # <<>> => \A k \in field.constraints : Meets(text, k)

LEMMA QuestionErrors ==
  ASSUME NEW client, NEW place, NEW level, NEW field, FieldAt(place) = field,
         Held(client, place, level.scope), (~ Hidden(field, level.scope)) <=> place \in Shown,
         Typed(At(place), field), field.type # "Repeat", Suited(field),
         place \in Shown => Fits(At(place), field)
  PROVE  FieldErrors(field, level) = {} <=> (place \in Shown => Answered(field, At(place)))
<1> DEFINE text == At(place)
           values == level.scope
           name == field.name
           value == values[name]
           broken == {k \in field.constraints : Violates(value, k)}
           here == Append(level.path, name)
           failed == {Broken("ValidationFailed", here) : c \in broken}
           asked == name \in DOMAIN values /\ value.kind # "Null"
<1>1. FieldErrors(field, level) =
        IF Hidden(field, values) THEN {}
        ELSE IF field.required /\ Unanswered(values, name) THEN {Broken("RequiredField", here)}
        ELSE IF asked THEN failed ELSE {}
    BY DEF FieldErrors
<1>0. (~ Hidden(field, values)) <=> place \in Shown
    OBVIOUS
<1>2. failed = {} <=> broken = {}
    <2> HIDE DEF broken
    <2> QED OBVIOUS
<1>3. CASE place \notin Shown
    BY <1>1, <1>3
<1>4. CASE place \in Shown
    <2>1. /\ name \in DOMAIN values <=> (client = "json" => text # <<>>)
          /\ name \in DOMAIN values => value = Coerce(text, field)
        BY <1>4 DEF Held, Sends
    <2>2. CASE text = <<>>
        <3>1. name \in DOMAIN values => value.kind = "Null"
            BY <2>1, <2>2 DEF Coerce
        <3>2. Unanswered(values, name) /\ ~ asked
            BY <3>1 DEF Unanswered
        <3>3. Answered(field, text) <=> ~ field.required
            BY <2>2 DEF Answered
        <3>4. FieldErrors(field, level) = IF field.required THEN {Broken("RequiredField", here)} ELSE {}
            <4> HIDE DEF values, asked, failed, here
            <4> QED BY <1>0, <1>1, <1>4, <3>2
        <3> HIDE DEF here
        <3> QED BY <1>4, <3>3, <3>4
    <2>3. CASE text # <<>>
        <3>1. text \in Answers[field.type] /\ field.type \in DOMAIN Answers
            BY <2>3 DEF Typed
        <3>2. Normalised(text, field) = text /\ Len(text) \in Nat
            <4>1. field.type = "Boolean" => text \in {<<"true">>, <<"false">>}
                BY <3>1, AnswersAssumption
            <4>2. Len(text) \in Nat
                BY <3>1, AnswersAssumption
            <4> QED BY <4>1, <4>2 DEF Normalised
        <3>3. value = [kind |-> ValueKind(field.type), text |-> text]
            BY <2>1, <2>3, <3>2 DEF Coerce
        <3>4. value.kind = ValueKind(field.type) /\ value.text = text
            <4> HIDE DEF value, text
            <4> QED BY <3>3
        <3>5. value.kind # "Null"
            <4>1. field.type \in QuestionTypes
                BY <3>1, AnswersAssumption
            <4>2. ValueKind(field.type) # "Null"
                BY <4>1 DEF ValueKind, QuestionTypes
            <4> QED BY <3>4, <4>2
        <3>6. name \in DOMAIN values
            BY <2>1, <2>3
        <3>7. asked /\ ~ Unanswered(values, name)
            BY <2>3, <3>4, <3>5, <3>6 DEF Unanswered
        <3>8. \A k \in field.constraints : Violates(value, k) <=> ~ Meets(text, k)
            <4> HIDE DEF value, text
            <4> QED BY <1>4, <2>3, <3>2, <3>4, ViolatesIs DEF text
        <3>9. FieldErrors(field, level) = failed
            <4> HIDE DEF values, asked, failed, here
            <4> QED BY <1>0, <1>1, <1>4, <3>7
        <3>10. broken = {} <=> Answered(field, text)
            <4> HIDE DEF value, text
            <4> QED BY <2>3, <3>8 DEF Answered
        <3> HIDE DEF broken, failed
        <3> QED BY <1>2, <1>4, <3>9, <3>10
    <2> QED BY <2>2, <2>3
<1> QED BY <1>3, <1>4

LEMMA AllSuited ==
  ASSUME Known
  PROVE  /\ \A f \in ToSet(form) : Suited(f)
         /\ \A f \in Repeats : \A g \in ToSet(f.children) : Suited(g)
<1>1. ASSUME NEW f \in Repeats, NEW g \in ToSet(f.children) PROVE g \in FieldsOf(form)
    <2>1. g \in Children(f) /\ f \in ToSet(form)
        BY DEF Children, Repeats
    <2> QED BY <2>1, FieldsIn DEF Known, Agreed
<1> QED BY <1>1, FieldsIn DEF Known, Agreed

\* The places of a question that is shown.
LEMMA ShownQuestionsAre ==
  ASSUME Known, Shaped, NEW place
  PROVE  place \in ShownQuestions
           <=> \/ \E f \in Questions(form) : <<f.name>> \in Shown /\ place = <<f.name>>
               \/ \E f \in Repeats : \E i \in DOMAIN nodes[f.name] : \E g \in ToSet(f.children) :
                    RowPlace(f, i, g) \in Shown /\ place = RowPlace(f, i, g)
<1>1. ASSUME NEW f \in Questions(form), <<f.name>> \in Shown
      PROVE  <<f.name>> \in ShownQuestions
    <2>1. FieldAt(<<f.name>>) = f /\ f.type # "Repeat"
        BY TopTyped DEF Questions
    <2> QED BY <1>1, <2>1 DEF ShownQuestions
<1>2. ASSUME NEW f \in Repeats, NEW i \in DOMAIN nodes[f.name], NEW g \in ToSet(f.children),
             RowPlace(f, i, g) \in Shown
      PROVE  RowPlace(f, i, g) \in ShownQuestions
    <2>1. FieldAt(RowPlace(f, i, g)) = g /\ g.type # "Repeat"
        BY RowTyped, RowQuestions DEF Questions
    <2> QED BY <1>2, <2>1 DEF ShownQuestions
<1>3. ASSUME place \in ShownQuestions
      PROVE  \/ \E f \in Questions(form) : <<f.name>> \in Shown /\ place = <<f.name>>
             \/ \E f \in Repeats : \E i \in DOMAIN nodes[f.name] : \E g \in ToSet(f.children) :
                  RowPlace(f, i, g) \in Shown /\ place = RowPlace(f, i, g)
    <2>1. place \in Places /\ place \in Shown /\ FieldAt(place).type # "Repeat"
        BY <1>3, ShownIsSettled DEF ShownQuestions
    <2>2. ASSUME NEW f \in ToSet(form), place = <<f.name>> PROVE f \in Questions(form)
        BY <2>1, <2>2, TopPlace DEF Questions
    <2>3. \A f \in ToSet(form) : place = <<f.name>> => <<f.name>> \in Shown
        BY <2>1
    <2> QED BY <2>1, <2>2, <2>3, PlacesAre
<1> QED BY <1>1, <1>2, <1>3

LevelIsClean(level) ==
  /\ UnknownKeys(level) = {}
  /\ \A f \in Questions(level.fields) : FieldErrors(f, level) = {}

LEMMA CleanLevels ==
  ASSUME NEW fields, NEW values
  PROVE  Validate(fields, values) = {} <=> \A level \in Levels(fields, values) : LevelIsClean(level)
<1> DEFINE OfFields(level) == UNION {FieldErrors(f, level) : f \in Questions(level.fields)}
           Of(level) == UnknownKeys(level) \cup OfFields(level)
<1>1. Validate(fields, values) = UNION {Of(level) : level \in Levels(fields, values)}
    BY DEF Validate
<1>2. \A level : OfFields(level) = {} <=> \A f \in Questions(level.fields) : FieldErrors(f, level) = {}
    OBVIOUS
<1> HIDE DEF OfFields
<1>3. \A level : Of(level) = {} <=> LevelIsClean(level)
    BY <1>2 DEF LevelIsClean
<1> HIDE DEF Of
<1> QED BY <1>1, <1>3

LEMMA TopIsClean ==
  ASSUME Known, Shaped, NEW client, CoercionErrors(form, Instance(client)) = {}
  PROVE  LevelIsClean(TopLevel(client))
           <=> \A f \in Questions(form) : <<f.name>> \in Shown => Answered(f, At(<<f.name>>))
<1> DEFINE level == TopLevel(client)
<1>1. level.fields = form /\ level.scope = Values(client) /\ level.own = Values(client)
    BY DEF TopLevel, Level
<1> HIDE DEF level
<1>2. UnknownKeys(level) = {}
    <2>1. DOMAIN Values(client) \subseteq Names(form)
        BY QuestionsAreHeld
    <2> QED BY <1>1, <2>1 DEF UnknownKeys
<1>3. ASSUME NEW f \in Questions(form)
      PROVE  FieldErrors(f, level) = {} <=> (<<f.name>> \in Shown => Answered(f, At(<<f.name>>)))
    <2>1. f \in ToSet(form) /\ f.type # "Repeat"
        BY DEF Questions
    <2>2. Held(client, <<f.name>>, level.scope)
        BY <1>1, QuestionsAreHeld
    <2>3. (~ Hidden(f, level.scope)) <=> <<f.name>> \in Shown
        BY <1>1, <2>1, TopAsked
    <2>4. Typed(At(<<f.name>>), f) /\ FieldAt(<<f.name>>) = f
        BY TopTyped
    <2>5. <<f.name>> \in Shown => Fits(At(<<f.name>>), f)
        BY TopFits DEF CoercionErrors
    <2>6. Suited(f)
        BY <2>1, AllSuited
    <2> QED BY <2>1, <2>2, <2>3, <2>4, <2>5, <2>6, QuestionErrors
<1> QED BY <1>1, <1>2, <1>3 DEF LevelIsClean, level

LEMMA RowIsClean ==
  ASSUME Known, Shaped, NEW client, CoercionErrors(form, Instance(client)) = {},
         NEW f \in Repeats, f.name \in DOMAIN Values(client), NEW i \in DOMAIN nodes[f.name]
  PROVE  LevelIsClean(RowLevel(client, f, i))
           <=> \A g \in ToSet(f.children) :
                 RowPlace(f, i, g) \in Shown => Answered(g, At(RowPlace(f, i, g)))
<1> DEFINE level == RowLevel(client, f, i)
<1>1. /\ level.fields = f.children /\ level.scope = RowScope(client, f, i)
      /\ level.own = Values(client)[f.name].rows[i]
    BY DEF RowLevel, Level
<1> HIDE DEF level
<1>2. UnknownKeys(level) = {}
    <2>1. HeldRow(client, f, i, level.own)
        BY <1>1, RowsAreHeld
    <2> QED BY <1>1, <2>1 DEF UnknownKeys, HeldRow
<1>3. Questions(level.fields) = ToSet(f.children)
    BY <1>1, RowQuestions
<1>4. ASSUME NEW g \in ToSet(f.children)
      PROVE  FieldErrors(g, level) = {} <=> (RowPlace(f, i, g) \in Shown => Answered(g, At(RowPlace(f, i, g))))
    <2> DEFINE place == RowPlace(f, i, g)
    <2>1. g.type # "Repeat"
        BY RowQuestions DEF Questions
    <2>2. Held(client, place, level.scope)
        BY <1>1, RowReads
    <2>3. (~ Hidden(g, level.scope)) <=> place \in Shown
        BY <1>1, RowAsked
    <2>4. Typed(At(place), g) /\ FieldAt(place) = g
        BY RowTyped
    <2>5. place \in Shown => Fits(At(place), g)
        <3>1. \A p \in ShownQuestions : Fits(At(p), FieldAt(p))
            BY Fitting
        <3>2. place \in Shown => place \in ShownQuestions
            BY ShownQuestionsAre
        <3> HIDE DEF place
        <3> QED BY <2>4, <3>1, <3>2
    <2>6. Suited(g)
        BY AllSuited
    <2> HIDE DEF place
    <2>7. FieldErrors(g, level) = {} <=> (place \in Shown => Answered(g, At(place)))
        BY <2>1, <2>2, <2>3, <2>4, <2>5, <2>6, QuestionErrors
    <2> QED BY <2>7 DEF place
<1> QED BY <1>2, <1>3, <1>4 DEF LevelIsClean, level

\* What is sent is valid just when every question that is shown is answered as
\* it asks.
LEMMA ValidIs ==
  ASSUME Known, Shaped, NEW client, CoercionErrors(form, Instance(client)) = {}
  PROVE  Validate(form, Values(client)) = {}
           <=> \A place \in ShownQuestions : Answered(FieldAt(place), At(place))
<1> DEFINE values == Values(client)
           OfTop == \A f \in Questions(form) : <<f.name>> \in Shown => Answered(f, At(<<f.name>>))
           OfRow(f, i) == \A g \in ToSet(f.children) :
                            RowPlace(f, i, g) \in Shown => Answered(g, At(RowPlace(f, i, g)))
           OfRows == \A f \in Repeats : \A i \in DOMAIN nodes[f.name] : OfRow(f, i)
<1>1. Validate(form, values) = {} <=> \A level \in Levels(form, values) : LevelIsClean(level)
    BY CleanLevels
<1>2. LevelIsClean(TopLevel(client)) <=> OfTop
    BY TopIsClean
<1>3. ASSUME NEW f \in Repeats, NEW i \in DOMAIN nodes[f.name]
      PROVE  /\ f.name \in DOMAIN values => (LevelIsClean(RowLevel(client, f, i)) <=> OfRow(f, i))
             /\ f.name \notin DOMAIN values => OfRow(f, i)
    <2>1. f.name \in DOMAIN values => (LevelIsClean(RowLevel(client, f, i)) <=> OfRow(f, i))
        BY RowIsClean
    <2>2. ASSUME f.name \notin DOMAIN values PROVE OfRow(f, i)
        <3>1. <<f.name>> \notin Shown
            BY <2>2, RowsAreHeld
        <3> QED BY <3>1, RowShown
    <2> QED BY <2>1, <2>2
<1>4. (\A place \in ShownQuestions : Answered(FieldAt(place), At(place))) <=> OfTop /\ OfRows
    <2>1. \A f \in Questions(form) : FieldAt(<<f.name>>) = f
        BY TopTyped
    <2>2. \A f \in Repeats : \A i \in DOMAIN nodes[f.name] : \A g \in ToSet(f.children) :
            FieldAt(RowPlace(f, i, g)) = g
        BY RowPlaceIs
    <2>3. ASSUME OfTop, OfRows, NEW place \in ShownQuestions
          PROVE  Answered(FieldAt(place), At(place))
        <3>1. CASE \E f \in Questions(form) : <<f.name>> \in Shown /\ place = <<f.name>>
            BY <2>1, <2>3, <3>1
        <3>2. CASE \E f \in Repeats : \E i \in DOMAIN nodes[f.name] : \E g \in ToSet(f.children) :
                     RowPlace(f, i, g) \in Shown /\ place = RowPlace(f, i, g)
            BY <2>2, <2>3, <3>2
        <3> QED BY <3>1, <3>2, ShownQuestionsAre
    <2>4. ASSUME \A place \in ShownQuestions : Answered(FieldAt(place), At(place))
          PROVE  OfTop /\ OfRows
        <3>1. ASSUME NEW f \in Questions(form), <<f.name>> \in Shown PROVE Answered(f, At(<<f.name>>))
            <4>1. <<f.name>> \in ShownQuestions
                BY <3>1, ShownQuestionsAre
            <4> QED BY <2>1, <2>4, <4>1
        <3>2. ASSUME NEW f \in Repeats, NEW i \in DOMAIN nodes[f.name], NEW g \in ToSet(f.children),
                     RowPlace(f, i, g) \in Shown
              PROVE  Answered(g, At(RowPlace(f, i, g)))
            <4>1. RowPlace(f, i, g) \in ShownQuestions
                BY <3>2, ShownQuestionsAre
            <4> QED BY <2>2, <2>4, <4>1
        <3> QED BY <3>1, <3>2
    <2> HIDE DEF OfTop, OfRows
    <2> QED BY <2>3, <2>4
<1> HIDE DEF values, OfTop, OfRow
<1>5. (\A level \in Levels(form, values) : LevelIsClean(level)) <=> OfTop /\ OfRows
    <2>1. \A level : level \in Levels(form, values)
            <=> \/ level = TopLevel(client)
                \/ \E f \in Repeats : \E i \in DOMAIN nodes[f.name] :
                     f.name \in DOMAIN values /\ level = RowLevel(client, f, i)
        BY LevelsAre DEF values
    <2> QED BY <1>2, <1>3, <2>1
<1> QED BY <1>1, <1>4, <1>5 DEF values

\* The server accepts an instance just when it was filled in as the form asks.
LEMMA VerdictIs ==
  ASSUME Known, Shaped, NEW client
  PROVE  Verdict(Instance(client)) = {} <=> Complete
<1> DEFINE unfit == CoercionErrors(form, Instance(client))
<1>1. unfit = {} <=> \A place \in ShownQuestions : Fits(At(place), FieldAt(place))
    BY Fitting
<1>2. unfit = {} => (Validate(form, Values(client)) = {}
                       <=> \A place \in ShownQuestions : Answered(FieldAt(place), At(place)))
    BY ValidIs
<1>3. Complete <=> /\ \A place \in ShownQuestions : Fits(At(place), FieldAt(place))
                   /\ \A place \in ShownQuestions : Answered(FieldAt(place), At(place))
    BY DEF Complete, Answered
<1>4. Verdict(Instance(client)) = {} <=> unfit = {} /\ Validate(form, Values(client)) = {}
    <2>1. CASE unfit = {}
        BY <2>1 DEF Verdict, Values
    <2>2. CASE unfit # {}
        <3>1. PICK f \in unfit : TRUE
            BY <2>2
        <3>2. Broken("Unfit", <<f.name>>) \in Verdict(Instance(client))
            BY <2>2, <3>1 DEF Verdict
        <3> QED BY <2>2, <3>2
    <2> QED BY <2>1, <2>2
<1> HIDE DEF unfit
<1> QED BY <1>1, <1>2, <1>3, <1>4

-----------------------------------------------------------------------------
(* What the server keeps.                                                   *)

LEMMA HeldIsKept ==
  ASSUME NEW client, NEW place, NEW values, NEW field, FieldAt(place) = field, field.type # "Repeat",
         Held(client, place, values), place \in Shown, Typed(At(place), field)
  PROVE  At(place) = IF field.name \in DOMAIN values THEN values[field.name].text ELSE <<>>
<1> DEFINE text == At(place)
           value == Coerce(text, field)
<1>1. field.name \in DOMAIN values <=> (client = "json" => text # <<>>)
    BY DEF Held, Sends
<1>2. field.name \in DOMAIN values => values[field.name] = value
    BY DEF Held
<1>3. value.text = text
    <2>1. CASE text = <<>>
        BY <2>1 DEF Coerce
    <2>2. CASE text # <<>>
        <3>1. value.text = Normalised(text, field)
            BY <2>2 DEF Coerce
        <3>2. field.type \in DOMAIN Answers /\ text \in Answers[field.type]
            BY <2>2 DEF Typed
        <3>3. field.type = "Boolean" => text \in {<<"true">>, <<"false">>}
            BY <3>2, AnswersAssumption
        <3> HIDE DEF value, text
        <3>4. Normalised(text, field) = text
            BY <3>3 DEF Normalised
        <3> QED BY <3>1, <3>4
    <2> QED BY <2>1, <2>2
<1> HIDE DEF value, text
<1> QED BY <1>1, <1>2, <1>3 DEF text

LEMMA KeptIs ==
  ASSUME Known, Shaped, NEW client, CoercionErrors(form, Instance(client)) = {},
         stored = Values(client), NEW place \in ShownQuestions
  PROVE  Kept(place) = At(place)
<1>1. CASE \E f \in Questions(form) : <<f.name>> \in Shown /\ place = <<f.name>>
    <2>1. PICK f \in Questions(form) : <<f.name>> \in Shown /\ place = <<f.name>>
        BY <1>1
    <2>2. /\ Typed(At(<<f.name>>), f) /\ FieldAt(<<f.name>>) = f /\ f.type # "Repeat"
          /\ Held(client, <<f.name>>, Values(client))
        BY TopTyped, QuestionsAreHeld DEF Questions
    <2>3. At(<<f.name>>) = IF f.name \in DOMAIN stored THEN stored[f.name].text ELSE <<>>
        BY <2>1, <2>2, HeldIsKept
    <2>4. ~ InRow(<<f.name>>) /\ <<f.name>>[Len(<<f.name>>)] = f.name
        BY DEF InRow
    <2> QED BY <2>1, <2>3, <2>4 DEF Kept
<1>2. CASE \E f \in Repeats : \E i \in DOMAIN nodes[f.name] : \E g \in ToSet(f.children) :
             RowPlace(f, i, g) \in Shown /\ place = RowPlace(f, i, g)
    <2>1. PICK f \in Repeats : \E i \in DOMAIN nodes[f.name] : \E g \in ToSet(f.children) :
                                 RowPlace(f, i, g) \in Shown /\ place = RowPlace(f, i, g)
        BY <1>2
    <2>2. PICK i \in DOMAIN nodes[f.name] : \E g \in ToSet(f.children) :
                 RowPlace(f, i, g) \in Shown /\ place = RowPlace(f, i, g)
        BY <2>1
    <2>3. PICK g \in ToSet(f.children) : RowPlace(f, i, g) \in Shown /\ place = RowPlace(f, i, g)
        BY <2>2
    <2> DEFINE row == stored[f.name].rows[i]
    <2>4. /\ Typed(At(place), g) /\ FieldAt(place) = g /\ g.type # "Repeat"
        BY <2>3, RowTyped, RowQuestions DEF Questions
    <2>5. <<f.name>> \in Shown
        BY <2>3, RowShown
    <2>6. HeldRow(client, f, i, row)
        BY <2>5, RowsAreHeld
    <2>7. Held(client, place, row)
        BY <2>3, <2>6 DEF HeldRow
    <2> HIDE DEF row
    <2>8. At(place) = IF g.name \in DOMAIN row THEN row[g.name].text ELSE <<>>
        BY <2>3, <2>4, <2>7, HeldIsKept
    <2>9. InRow(place) /\ place[1] = f.name /\ place[2] = i /\ place[Len(place)] = g.name
        BY <2>3 DEF InRow, RowPlace
    <2>10. Kept(place) = IF g.name \in DOMAIN row THEN row[g.name].text ELSE <<>>
        BY <2>9 DEF Kept, row
    <2> QED BY <2>8, <2>10
<1> QED BY <1>1, <1>2, ShownQuestionsAre

-----------------------------------------------------------------------------
(* The invariant: the instance has the shape of the form, and what the      *)
(* server answered is its verdict on what was sent.                         *)

IInv ==
  /\ form \in Forms /\ Rendered(form)
  /\ DOMAIN nodes = Names(form)
  /\ Agreed(form) => Shaped
  /\ sent \in Clients \cup {"none"}
  /\ sent = "none" => errors = {} /\ stored = Nothing
  /\ \A client \in Clients : sent = client =>
       errors = Verdict(Instance(client)) /\ stored = IF errors = {} THEN Values(client) ELSE Nothing

LEMMA BlankIsShaped ==
  ASSUME Rendered(form), Agreed(form), nodes = Blank(form)
  PROVE  Shaped
<1> DEFINE Value(name) == LET field == Named(ToSet(form), name)
                          IN IF field.type = "Repeat" THEN <<BlankRow(field)>> ELSE <<>>
<1>1. Apart(form)
    BY DEF Agreed, Flat
<1>2. nodes = [name \in Names(form) |-> Value(name)]
    BY DEF Blank
<1>3. nodes = [name \in Names(form) |-> nodes[name]]
    <2> HIDE DEF Value
    <2> QED BY <1>2
<1>4. ASSUME NEW f \in ToSet(form)
      PROVE  nodes[f.name] = IF f.type = "Repeat" THEN <<BlankRow(f)>> ELSE <<>>
    <2>1. Named(ToSet(form), f.name) = f /\ f.name \in Names(form)
        BY <1>1, NamedIs, NamesAre
    <2>2. Value(f.name) = IF f.type = "Repeat" THEN <<BlankRow(f)>> ELSE <<>>
        BY <2>1
    <2> HIDE DEF Value
    <2> QED BY <1>2, <2>1, <2>2
<1>5. \A f \in Questions(form) : Typed(nodes[f.name], f)
    BY <1>4 DEF Questions, Typed
<1>6. ASSUME NEW f \in Repeats PROVE nodes[f.name] \in Seq(RowsOf(f))
    <2>1. nodes[f.name] = <<BlankRow(f)>>
        BY <1>4 DEF Repeats
    <2>2. BlankRow(f) \in RowsOf(f)
        BY NamesAre DEF BlankRow, RowsOf, Texts, Typed
    <2> QED BY <2>1, <2>2
<1> QED BY <1>3, <1>5, <1>6 DEF Shaped

\* Changing what one field of the top level holds keeps the shape.
LEMMA FieldChanges ==
  ASSUME Known, Shaped, NEW f \in ToSet(form), NEW held,
         f.type # "Repeat" => Typed(held, f), f.type = "Repeat" => held \in Seq(RowsOf(f)),
         form' = form, nodes' = [nodes EXCEPT ![f.name] = held]
  PROVE  Shaped'
<1>1. Apart(form)
    BY DEF Known, Agreed, Flat
<1>2. nodes = [name \in Names(form) |-> nodes[name]] /\ f.name \in Names(form)
    BY NamesAre DEF Shaped
<1>3. nodes' = [name \in Names(form') |-> nodes'[name]]
    BY <1>2
<1>4. \A g \in ToSet(form) : nodes'[g.name] = IF g = f THEN held ELSE nodes[g.name]
    <2> TAKE g \in ToSet(form)
    <2>1. g.name \in Names(form) /\ (g.name = f.name => g = f)
        BY <1>1, NamesAre DEF Apart
    <2> QED BY <1>2, <2>1
<1>5. \A g \in Questions(form') : Typed(nodes'[g.name], g)
    BY <1>4 DEF Questions, Shaped
<1>6. Repeats' = Repeats
    BY DEF Repeats
<1>7. \A g \in Repeats' : nodes'[g.name] \in Seq(RowsOf(g))
    BY <1>4, <1>6 DEF Repeats, Shaped
<1> QED BY <1>3, <1>5, <1>7 DEF Shaped

LEMMA EnterKeepsShape ==
  ASSUME Known, Shaped, Enter
  PROVE  Shaped'
<1>1. PICK place \in ShownQuestions : \E text \in Answers[FieldAt(place).type] \cup {<<>>} :
        nodes' = With(place, text)
    BY DEF Enter
<1>2. PICK text \in Answers[FieldAt(place).type] \cup {<<>>} : nodes' = With(place, text)
    BY <1>1
<1>3. form' = form
    BY DEF Enter, Edits
<1>4. \A g \in FieldsOf(form) : g.type \in {"Repeat"} \cup DOMAIN Answers
    BY DEF Known, Agreed
<1>5. CASE \E f \in Questions(form) : <<f.name>> \in Shown /\ place = <<f.name>>
    <2>1. PICK f \in Questions(form) : place = <<f.name>>
        BY <1>5
    <2>2. f \in ToSet(form) /\ f.type # "Repeat" /\ f \in FieldsOf(form)
        BY FieldsIn DEF Questions, Known, Agreed
    <2>3. FieldAt(place) = f /\ ~ InRow(place)
        BY <2>1, <2>2, TopPlace
    <2>4. Typed(text, f)
        BY <1>2, <1>4, <2>2, <2>3 DEF Typed
    <2>5. nodes' = [nodes EXCEPT ![f.name] = text]
        BY <1>2, <2>1, <2>3 DEF With
    <2> QED BY <1>3, <2>2, <2>4, <2>5, FieldChanges
<1>6. CASE \E f \in Repeats : \E i \in DOMAIN nodes[f.name] : \E g \in ToSet(f.children) :
             RowPlace(f, i, g) \in Shown /\ place = RowPlace(f, i, g)
    <2>1. PICK f \in Repeats : \E i \in DOMAIN nodes[f.name] : \E g \in ToSet(f.children) : place = RowPlace(f, i, g)
        BY <1>6
    <2>2. PICK i \in DOMAIN nodes[f.name] : \E g \in ToSet(f.children) : place = RowPlace(f, i, g)
        BY <2>1
    <2>3. PICK g \in ToSet(f.children) : place = RowPlace(f, i, g)
        BY <2>2
    <2>4. f \in ToSet(form) /\ f.type = "Repeat" /\ g \in Children(f)
        BY DEF Repeats, Children
    <2>5. g \in FieldsOf(form) /\ g.type # "Repeat" /\ Apart(f.children)
        BY <2>4, FieldsIn, RowQuestions DEF Questions, Known, Agreed
    <2>6. FieldAt(place) = g /\ InRow(place) /\ place[1] = f.name /\ place[2] = i /\ place[3] = g.name
        BY <2>3, RowPlaceIs DEF RowPlace
    <2>7. Typed(text, g) /\ text \in Texts
        BY <1>2, <1>4, <2>5, <2>6 DEF Typed, Texts
    <2> DEFINE rows == nodes[f.name]
               row == rows[i]
               changed == [row EXCEPT ![g.name] = text]
               held == [rows EXCEPT ![i] = changed]
    <2>8. rows \in Seq(RowsOf(f)) /\ i \in 1 .. Len(rows) /\ row \in RowsOf(f)
        BY DEF Shaped
    <2>9. changed \in RowsOf(f)
        <3>1. row \in [Names(f.children) -> Texts] /\ \A h \in ToSet(f.children) : Typed(row[h.name], h)
            BY <2>8 DEF RowsOf
        <3> HIDE DEF row
        <3>2. changed \in [Names(f.children) -> Texts]
            BY <2>7, <3>1
        <3>3. ASSUME NEW h \in ToSet(f.children) PROVE Typed(changed[h.name], h)
            <4>1. h.name \in Names(f.children) /\ (h.name = g.name => h = g)
                BY <2>5, NamesAre DEF Apart
            <4>2. changed[h.name] = IF h.name = g.name THEN text ELSE row[h.name]
                BY <3>1, <4>1
            <4> QED BY <2>7, <3>1, <4>1, <4>2
        <3> HIDE DEF changed
        <3> QED BY <3>2, <3>3 DEF RowsOf
    <2>10. held \in Seq(RowsOf(f))
        <3> HIDE DEF rows, changed
        <3> QED BY <2>8, <2>9, ExceptSeq
    <2>11. nodes' = [nodes EXCEPT ![f.name] = held]
        BY <1>2, <2>6 DEF With
    <2> HIDE DEF held
    <2> QED BY <1>3, <2>4, <2>10, <2>11, FieldChanges
<1> QED BY <1>5, <1>6, ShownQuestionsAre

LEMMA RowsKeepShape ==
  ASSUME Known, Shaped, AddRow \/ DropRow
  PROVE  Shaped'
<1>1. form' = form
    BY DEF AddRow, DropRow, Edits
<1>2. ASSUME NEW f \in Repeats
      PROVE  f \in ToSet(form) /\ f.type = "Repeat" /\ f.name \in DOMAIN nodes /\ nodes[f.name] \in Seq(RowsOf(f))
    BY NamesAre DEF Repeats, Shaped
<1>3. CASE AddRow
    <2>1. PICK f \in Repeats : nodes' = [nodes EXCEPT ![f.name] = Append(@, BlankRow(f))]
        BY <1>3 DEF AddRow
    <2> DEFINE held == Append(nodes[f.name], BlankRow(f))
    <2>2. BlankRow(f) \in RowsOf(f)
        BY NamesAre DEF BlankRow, RowsOf, Texts, Typed
    <2>3. held \in Seq(RowsOf(f))
        BY <1>2, <2>2
    <2>4. nodes' = [nodes EXCEPT ![f.name] = held]
        BY <2>1
    <2> HIDE DEF held
    <2> QED BY <1>1, <1>2, <2>3, <2>4, FieldChanges
<1>4. CASE DropRow
    <2>1. PICK f \in Repeats : \E i \in DOMAIN nodes[f.name] : nodes' = [nodes EXCEPT ![f.name] = RemoveAt(@, i)]
        BY <1>4 DEF DropRow
    <2>2. PICK i \in DOMAIN nodes[f.name] : nodes' = [nodes EXCEPT ![f.name] = RemoveAt(@, i)]
        BY <2>1
    <2> DEFINE rows == nodes[f.name]
               held == RemoveAt(rows, i)
    <2>3. held \in Seq(RowsOf(f))
        <3>1. rows \in Seq(RowsOf(f)) /\ i \in 1 .. Len(rows)
            BY <1>2
        <3> HIDE DEF rows
        <3>2. SubSeq(rows, 1, i - 1) \in Seq(RowsOf(f)) /\ SubSeq(rows, i + 1, Len(rows)) \in Seq(RowsOf(f))
            BY <3>1
        <3> QED BY <3>2 DEF RemoveAt
    <2>4. nodes' = [nodes EXCEPT ![f.name] = held]
        BY <2>2
    <2> HIDE DEF held
    <2> QED BY <1>1, <1>2, <2>3, <2>4, FieldChanges
<1> QED BY <1>3, <1>4

-----------------------------------------------------------------------------
(* The theorems.                                                            *)

LEMMA VerdictKinds ==
  \A instance : \A e \in Verdict(instance) :
    e.error \in {"Unfit", "UnknownField", "RequiredField", "ValidationFailed"}
<1> DEFINE kinds == {"Unfit", "UnknownField", "RequiredField", "ValidationFailed"}
           Kind(e) == e.error \in kinds
<1> SUFFICES ASSUME NEW instance, NEW e \in Verdict(instance) PROVE Kind(e)
    OBVIOUS
<1>1. CASE CoercionErrors(form, instance) # {}
    BY <1>1 DEF Verdict, Broken
<1>2. CASE CoercionErrors(form, instance) = {}
    <2>1. e \in Validate(form, ToSubmission(form, instance))
        BY <1>2 DEF Verdict
    <2> DEFINE OfFields(level) == UNION {FieldErrors(f, level) : f \in Questions(level.fields)}
    <2>2. PICK level : e \in UnknownKeys(level) \cup OfFields(level)
        BY <2>1 DEF Validate
    <2>3. CASE e \in UnknownKeys(level)
        BY <2>3 DEF UnknownKeys, Broken
    <2>4. CASE e \in OfFields(level)
        <3>1. PICK f : e \in FieldErrors(f, level)
            BY <2>4
        <3> QED BY <3>1 DEF FieldErrors, Broken
    <2> QED BY <2>2, <2>3, <2>4
<1> QED BY <1>1, <1>2

LEMMA EditsKeep ==
  ASSUME IInv, Enter \/ AddRow \/ DropRow
  PROVE  IInv'
<1>1. sent = "none" /\ UNCHANGED <<form, sent, errors, stored>>
    BY DEF Enter, AddRow, DropRow, Edits
<1>2. DOMAIN nodes' = DOMAIN nodes
    <2>1. \A place, text : DOMAIN With(place, text) = DOMAIN nodes
        BY DEF With
    <2> QED BY <2>1 DEF Enter, AddRow, DropRow
<1>3. Agreed(form) => Shaped'
    BY EnterKeepsShape, RowsKeepShape DEF IInv, Known
<1>4. Agreed(form') = Agreed(form) /\ Rendered(form') = Rendered(form)
    BY <1>1
<1>5. sent' \notin Clients
    BY <1>1, ClientsAssumption
<1> QED BY <1>1, <1>2, <1>3, <1>4, <1>5 DEF IInv

\* What would be sent, and what the server would say to it, depend on the form
\* and on the instance on the device alone.
LEMMA SameVerdict ==
  ASSUME form' = form, nodes' = nodes, NEW client
  PROVE  Verdict(Instance(client))' = Verdict(Instance(client)) /\ Values(client)' = Values(client)
<1>1. Instance(client)' = Instance(client)
    BY DEF Instance, Shown, Places, Repeats, Top, Shows, TextAt, At, FieldAt, InRow, Referred, FieldNames
<1> QED BY <1>1 DEF Verdict, Values

LEMMA SendKeeps ==
  ASSUME IInv, NEW client \in Clients, Send(client)
  PROVE  IInv'
<1>1. /\ sent = "none" /\ sent' = client /\ form' = form /\ nodes' = nodes
      /\ errors' = Verdict(Instance(client))
      /\ stored' = IF errors' = {} THEN Values(client) ELSE Nothing
    BY DEF Send, Values
<1>2. client # "none"
    BY ClientsAssumption
<1>3. Shaped' = Shaped
    BY <1>1 DEF Shaped, Repeats
<1>4. \A c \in Clients : Verdict(Instance(c))' = Verdict(Instance(c)) /\ Values(c)' = Values(c)
    BY <1>1, SameVerdict
<1> QED BY <1>1, <1>2, <1>3, <1>4 DEF IInv

(* The instance keeps the shape of its form, and what the server answered  *)
(* is its verdict on what was sent: nothing changes once it is sent.       *)
THEOREM Invariance == Spec => []IInv
<1>1. Init => IInv
    <2> SUFFICES ASSUME Init PROVE IInv
        OBVIOUS
    <2>1. form \in Forms /\ Rendered(form) /\ nodes = Blank(form) /\ sent = "none" /\ errors = {} /\ stored = Nothing
        BY DEF Init
    <2>2. DOMAIN nodes = Names(form)
        BY <2>1 DEF Blank
    <2>3. Agreed(form) => Shaped
        BY <2>1, BlankIsShaped
    <2> QED BY <2>1, <2>2, <2>3, ClientsAssumption DEF IInv
<1>2. IInv /\ [Next]_vars => IInv'
    <2> SUFFICES ASSUME IInv, [Next]_vars PROVE IInv'
        OBVIOUS
    <2>1. CASE Enter \/ AddRow \/ DropRow
        BY <2>1, EditsKeep
    <2>2. ASSUME NEW client \in Clients, Send(client) PROVE IInv'
        BY <2>2, SendKeeps
    <2>3. CASE UNCHANGED vars
        <3>1. form' = form /\ nodes' = nodes /\ sent' = sent /\ errors' = errors /\ stored' = stored
            BY <2>3 DEF vars
        <3>2. \A c \in Clients : Verdict(Instance(c))' = Verdict(Instance(c)) /\ Values(c)' = Values(c)
            BY <3>1, SameVerdict
        <3>3. Shaped' = Shaped
            BY <3>1 DEF Shaped, Repeats
        <3> QED BY <3>1, <3>2, <3>3 DEF IInv
    <2> QED BY <2>1, <2>2, <2>3 DEF Next
<1> QED BY <1>1, <1>2, PTL DEF Spec

(* Whatever the form, what is refused is not stored, and the instance has a *)
(* place for every field of its form.                                       *)
THEOREM TypeCorrect == Spec => []TypeOK
<1>1. IInv => TypeOK
    BY VerdictKinds DEF IInv, TypeOK
<1> QED BY <1>1, Invariance, PTL

(* On a form they agree on, the server asks exactly the questions the       *)
(* device shows, whatever was answered and taken back.                      *)
THEOREM SameQuestionsAsked == Spec => [](Agreed(form) => SameQuestions)
<1>1. IInv => (Agreed(form) => SameQuestions)
    <2> SUFFICES ASSUME IInv, Agreed(form) PROVE SameQuestions
        OBVIOUS
    <2>1. Known /\ Shaped
        BY DEF IInv, Known
    <2> QED BY <2>1, AskedIsShown DEF SameQuestions, Values
<1> QED BY <1>1, Invariance, PTL

(* On such a form an instance that was filled in as the form asks is never  *)
(* refused.                                                                 *)
THEOREM NoneIsStranded == Spec => [](Agreed(form) => NeverStranded)
<1>1. IInv => (Agreed(form) => NeverStranded)
    <2> SUFFICES ASSUME IInv, Agreed(form) PROVE NeverStranded
        OBVIOUS
    <2>1. Known /\ Shaped
        BY DEF IInv, Known
    <2> QED BY <2>1, VerdictIs DEF IInv, NeverStranded
<1> QED BY <1>1, Invariance, PTL

(* And what is accepted was filled in as the form asks.                     *)
THEOREM NoneIsIncomplete == Spec => [](Agreed(form) => AcceptedIsComplete)
<1>1. IInv => (Agreed(form) => AcceptedIsComplete)
    <2> SUFFICES ASSUME IInv, Agreed(form) PROVE AcceptedIsComplete
        OBVIOUS
    <2>1. Known /\ Shaped
        BY DEF IInv, Known
    <2> QED BY <2>1, VerdictIs DEF IInv, AcceptedIsComplete
<1> QED BY <1>1, Invariance, PTL

(* And every answer that was entered and shown is the one that is stored.   *)
THEOREM AnswersAreStored == Spec => [](Agreed(form) => AnswersAreKept)
<1>1. IInv => (Agreed(form) => AnswersAreKept)
    <2> SUFFICES ASSUME IInv, Agreed(form), sent # "none", errors = {}, NEW place \in ShownQuestions
                 PROVE  Kept(place) = At(place)
        BY DEF AnswersAreKept
    <2>1. Known /\ Shaped
        BY DEF IInv, Known
    <2>2. Verdict(Instance(sent)) = {} /\ stored = Values(sent)
        BY DEF IInv
    <2>3. CoercionErrors(form, Instance(sent)) = {}
        <3>1. Complete
            BY <2>1, <2>2, VerdictIs
        <3>2. \A p \in ShownQuestions : Fits(At(p), FieldAt(p))
            BY <3>1 DEF Complete
        <3> QED BY <2>1, <3>2, Fitting
    <2> QED BY <2>1, <2>2, <2>3, KeptIs
<1> QED BY <1>1, Invariance, PTL
=============================================================================
