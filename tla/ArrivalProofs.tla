---------------------------- MODULE ArrivalProofs ---------------------------
(***************************************************************************)
(* An answer on its way, from the device through the instance and the      *)
(* parser into the submission, while nothing goes wrong.  Nothing on the   *)
(* way is whole, so the invariant says how the parts fit: what is still to *)
(* be written is what is not answered or not written yet; each place that  *)
(* was written has its element, in the element of the place around it and  *)
(* with the text it was given; and the elements being written are those on *)
(* the stack of the parser.                                                *)
(*                                                                         *)
(* First the plan, of what is still to be written, then the tree, then what*)
(* the mapping onto the form makes of it, and last the steps of the way.   *)
(***************************************************************************)
EXTENDS RoundTripProofs

Repeats(F) == {f \in ToSet(F) : f.type = "Repeat"}

\* A place that holds fields, the document or a row, and the fields it holds.
Holds(F, a, some) ==
  \/ a = <<>> /\ some = F
  \/ \E f \in Repeats(F), n \in 1 .. MaxRows : a = <<f.name, n>> /\ some = f.children

\* The places there are, beside that of the document.
IsRow(F, p) == \E f \in Repeats(F), n \in 1 .. MaxRows : p = <<f.name, n>>
AsksAt(F, p, a, f) == \E some : Holds(F, a, some) /\ f \in Questions(some) /\ p = Append(a, f.name)
IsAsked(F, p) == \E a, f : AsksAt(F, p, a, f)
BearsText(F, p) == IsAsked(F, p) \/ p = IdPlace

\* The name of the element at a place, and the place it is in.
NameAt(p) == IF Len(p) = 2 THEN p[1] ELSE p[Len(p)]
Outer(p) == IF Len(p) = 3 THEN <<p[1], p[2]>> ELSE <<>>

\* What Usable says of the fields of a form.
Fitting(F, fields) ==
  /\ MaxRows \in Nat
  /\ Closed(fields) /\ F \in Seq(fields) /\ Apart(F)
  /\ \A f, g \in ToSet(F) : f.name = g.name => f = g
  /\ \A f \in ToSet(F) :
       /\ Apart(f.children)
       /\ f.name \notin {"meta", "deviceID"}
       /\ \A c \in ToSet(f.children) : c.name # "deviceID" /\ c.type # "Repeat"
       /\ \A c, e \in ToSet(f.children) : c.name = e.name => c = e

LEMMA ToSetIs ==
  ASSUME NEW S, NEW s \in Seq(S)
  PROVE  /\ \A i \in 1 .. Len(s) : s[i] \in ToSet(s)
         /\ \A x \in ToSet(s) : x \in S /\ \E i \in 1 .. Len(s) : x = s[i]
BY DEF ToSet

LEMMA ApartIs ==
  ASSUME NEW S, NEW s \in Seq(S), Apart(s), NEW f \in ToSet(s), NEW g \in ToSet(s), f.name = g.name
  PROVE  f = g
BY DEF Apart, ToSet

LEMMA NamesIs ==
  ASSUME NEW S, NEW s \in Seq(S)
  PROVE  Names(s) = {f.name : f \in ToSet(s)}
BY DEF Names, ToSet

LEMMA UsableFits ==
  ASSUME NEW fields, Closed(fields), form \in Seq(fields), Usable
  PROVE  Fitting(form, fields)
<1>1. MaxRows \in Nat
    BY RoundTripAssumption
<1>2. \A f \in ToSet(form) : f \in fields /\ f.children \in Seq(fields) /\ f.name \in Names(form)
    BY ToSetIs, NamesIs DEF Closed
<1>3. ASSUME NEW f \in ToSet(form)
      PROVE  /\ f.name \notin {"meta", "deviceID"} /\ Apart(f.children)
             /\ \A c \in ToSet(f.children) : c.name # "deviceID" /\ c.type # "Repeat"
             /\ \A c, e \in ToSet(f.children) : c.name = e.name => c = e
    <2>1. f.children \in Seq(fields) /\ Apart(f.children) /\ "deviceID" \notin Names(f.children)
        BY <1>2, <1>3 DEF Usable
    <2>2. \A c \in ToSet(f.children) : c.name # "deviceID" /\ c.type # "Repeat"
        BY <1>3, <2>1, NamesIs DEF Usable
    <2>3. \A c, e \in ToSet(f.children) : c.name = e.name => c = e
        BY <2>1, ApartIs
    <2>4. f.name \notin {"meta", "deviceID"}
        BY <1>2, <1>3 DEF Usable
    <2> QED BY <2>1, <2>2, <2>3, <2>4
<1>4. Apart(form) /\ \A f, g \in ToSet(form) : f.name = g.name => f = g
    BY ApartIs DEF Usable
<1> QED BY <1>1, <1>3, <1>4 DEF Fitting

-----------------------------------------------------------------------------
(* Places. *)

LEMMA AtFields ==
  ASSUME NEW x
  PROVE  /\ Append(<<>>, x) = <<x>> /\ Len(<<x>>) = 1 /\ <<x>> # <<>>
         /\ NameAt(<<x>>) = x /\ Outer(<<x>>) = <<>>
<1>1. Append(<<>>, x) = <<x>>
    OBVIOUS
<1>2. Len(<<x>>) = 1 /\ Len(<<>>) = 0
    OBVIOUS
<1> QED BY <1>1, <1>2 DEF NameAt, Outer

LEMMA AtRows ==
  ASSUME NEW x, NEW y
  PROVE  /\ Append(<<x>>, y) = <<x, y>> /\ Len(<<x, y>>) = 2 /\ <<x, y>> # <<>>
         /\ NameAt(<<x, y>>) = x /\ Outer(<<x, y>>) = <<>>
<1>1. Append(<<x>>, y) = <<x, y>>
    <2>1. PICK s : s = <<x>>
        OBVIOUS
    <2>2. s = [k \in 1 .. 1 |-> s[k]]
        BY <2>1
    <2>3. Append(s, y) = [k \in 1 .. 1 + 1 |-> IF k = 1 + 1 THEN y ELSE s[k]]
        BY <2>2, AppendAny
    <2>4. <<x, y>> = [k \in 1 .. 1 + 1 |-> IF k = 1 + 1 THEN y ELSE s[k]]
        BY <2>1
    <2> QED BY <2>1, <2>3, <2>4
<1>2. Len(<<x, y>>) = 2 /\ Len(<<>>) = 0
    OBVIOUS
<1> QED BY <1>1, <1>2 DEF NameAt, Outer

LEMMA InRows ==
  ASSUME NEW x, NEW y, NEW z
  PROVE  /\ Append(<<x, y>>, z) = <<x, y, z>> /\ Len(<<x, y, z>>) = 3 /\ <<x, y, z>> # <<>>
         /\ NameAt(<<x, y, z>>) = z /\ Outer(<<x, y, z>>) = <<x, y>>
<1>1. Append(<<x, y>>, z) = <<x, y, z>>
    <2>1. PICK s : s = <<x, y>>
        OBVIOUS
    <2>2. s = [k \in 1 .. 2 |-> s[k]]
        BY <2>1
    <2>3. Append(s, z) = [k \in 1 .. 2 + 1 |-> IF k = 2 + 1 THEN z ELSE s[k]]
        BY <2>2, AppendAny
    <2>4. <<x, y, z>> = [k \in 1 .. 2 + 1 |-> IF k = 2 + 1 THEN z ELSE s[k]]
        BY <2>1
    <2> QED BY <2>1, <2>3, <2>4
<1>2. Len(<<x, y, z>>) = 3 /\ Len(<<>>) = 0
    OBVIOUS
<1> QED BY <1>1, <1>2 DEF NameAt, Outer

\* A place inside one that holds fields leads back to it and its name.
LEMMA InPlace ==
  ASSUME NEW F, NEW a, NEW some, Holds(F, a, some), NEW x
  PROVE  /\ Outer(Append(a, x)) = a /\ NameAt(Append(a, x)) = x
         /\ Append(a, x) # <<>> /\ Len(Append(a, x)) \in {1, 3}
         /\ a = <<>> => Append(a, x) = <<x>> /\ Len(Append(a, x)) = 1
         /\ a # <<>> => Len(Append(a, x)) = 3 /\ IsRow(F, a)
<1>1. ASSUME a = <<>>
      PROVE  /\ Outer(Append(a, x)) = a /\ NameAt(Append(a, x)) = x
             /\ Append(a, x) # <<>> /\ Len(Append(a, x)) = 1 /\ Append(a, x) = <<x>>
    BY <1>1, AtFields
<1>2. ASSUME NEW f \in Repeats(F), NEW n \in 1 .. MaxRows, a = <<f.name, n>>
      PROVE  /\ Outer(Append(a, x)) = a /\ NameAt(Append(a, x)) = x
             /\ Len(Append(a, x)) = 3 /\ Append(a, x) # <<>> /\ a # <<>> /\ IsRow(F, a)
    <2>1. Append(a, x) = <<f.name, n, x>>
        BY <1>2, InRows
    <2>2. IsRow(F, a)
        BY <1>2 DEF IsRow
    <2>3. a # <<>>
        BY <1>2, AtRows
    <2>4. Outer(Append(a, x)) = a /\ NameAt(Append(a, x)) = x
        BY <1>2, <2>1, InRows
    <2>5. Len(Append(a, x)) = 3 /\ Append(a, x) # <<>>
        BY <2>1, InRows
    <2> QED BY <2>2, <2>3, <2>4, <2>5
<1> QED BY <1>1, <1>2 DEF Holds

LEMMA HoldsOnce ==
  ASSUME NEW F, NEW fields, Fitting(F, fields), NEW a, NEW some, NEW other, Holds(F, a, some), Holds(F, a, other)
  PROVE  some = other
<1>1. \A x, y : <<x, y>> # <<>>
    BY AtRows
<1>2. CASE a = <<>>
    BY <1>1, <1>2 DEF Holds
<1>3. CASE a # <<>>
    <2>1. PICK f \in Repeats(F), n \in 1 .. MaxRows : a = <<f.name, n>> /\ some = f.children
        BY <1>3 DEF Holds
    <2>2. PICK g \in Repeats(F), m \in 1 .. MaxRows : a = <<g.name, m>> /\ other = g.children
        BY <1>3 DEF Holds
    <2>3. f.name = g.name
        BY <2>1, <2>2
    <2> QED BY <2>1, <2>2, <2>3 DEF Fitting, Repeats
<1> QED BY <1>2, <1>3

LEMMA HeldFields ==
  ASSUME NEW F, NEW fields, Fitting(F, fields), NEW a, NEW some, Holds(F, a, some)
  PROVE  /\ some \in Seq(fields) /\ Apart(some)
         /\ \A f, g \in ToSet(some) : f.name = g.name => f = g
         /\ \A f \in ToSet(some) :
              /\ f \in fields /\ f.name \in CellNames /\ f.name # "deviceID" /\ f.children \in Seq(fields)
              /\ a = <<>> => f.name # "meta"
              /\ a # <<>> => f.type # "Repeat"
<1>1. CASE a = <<>> /\ some = F
    <2>1. \A f \in ToSet(some) : f \in fields
        BY <1>1, ToSetIs DEF Fitting
    <2> QED BY <1>1, <2>1 DEF Fitting, Closed
<1>2. ASSUME NEW f \in Repeats(F), NEW n \in 1 .. MaxRows, a = <<f.name, n>>, some = f.children
      PROVE  /\ a # <<>> /\ some \in Seq(fields) /\ Apart(some)
             /\ \A e, g \in ToSet(some) : e.name = g.name => e = g
             /\ \A g \in ToSet(some) : /\ g \in fields /\ g.name \in CellNames /\ g.name # "deviceID"
                                       /\ g.children \in Seq(fields) /\ g.type # "Repeat"
    <2>1. f \in ToSet(F) /\ f \in fields
        BY ToSetIs DEF Repeats, Fitting
    <2>2. some \in Seq(fields)
        BY <1>2, <2>1 DEF Fitting, Closed
    <2>3. \A g \in ToSet(some) : g \in fields
        BY <2>2, ToSetIs
    <2>4. a # <<>>
        BY <1>2, AtRows
    <2> QED BY <1>2, <2>1, <2>2, <2>3, <2>4 DEF Fitting, Closed
<1> QED BY <1>1, <1>2 DEF Holds

LEMMA MetaPlaces ==
  ASSUME NEW F, NEW fields, Fitting(F, fields)
  PROVE  /\ Len(MetaPlace) = 2 /\ Outer(MetaPlace) = <<>> /\ NameAt(MetaPlace) = "meta" /\ MetaPlace # <<>>
         /\ Len(IdPlace) = 3 /\ Outer(IdPlace) = MetaPlace /\ NameAt(IdPlace) = "instanceID" /\ IdPlace # <<>>
         /\ ~ IsRow(F, MetaPlace) /\ ~ IsRow(F, IdPlace) /\ ~ IsAsked(F, MetaPlace) /\ ~ IsAsked(F, IdPlace)
         /\ MetaPlace # IdPlace /\ ~ BearsText(F, MetaPlace) /\ ~ BearsText(F, <<>>)
<1>1. Len(MetaPlace) = 2 /\ Outer(MetaPlace) = <<>> /\ NameAt(MetaPlace) = "meta" /\ MetaPlace # <<>>
    BY AtRows DEF MetaPlace
<1>2. Len(IdPlace) = 3 /\ Outer(IdPlace) = MetaPlace /\ NameAt(IdPlace) = "instanceID" /\ IdPlace # <<>>
    BY InRows DEF IdPlace, MetaPlace
<1>3. ASSUME NEW f \in Repeats(F), NEW n PROVE MetaPlace # <<f.name, n>> /\ IdPlace # <<f.name, n>>
    <2>1. f.name # "meta"
        BY DEF Fitting, Repeats
    <2>2. Len(<<f.name, n>>) = 2 /\ NameAt(<<f.name, n>>) = f.name
        BY AtRows
    <2> QED BY <1>1, <1>2, <2>1, <2>2
<1>4. ~ IsRow(F, MetaPlace) /\ ~ IsRow(F, IdPlace)
    BY <1>3 DEF IsRow
<1>5. ASSUME NEW q, IsAsked(F, q) PROVE q # <<>> /\ Len(q) \in {1, 3} /\ (Outer(q) = <<>> \/ IsRow(F, Outer(q)))
    <2>1. PICK a, f, some : Holds(F, a, some) /\ q = Append(a, f.name)
        BY <1>5 DEF IsAsked, AsksAt
    <2> QED BY <2>1, InPlace
<1>6. ~ IsAsked(F, <<>>)
    BY <1>5
<1>7. ~ IsAsked(F, MetaPlace)
    BY <1>1, <1>5
<1>8. ~ IsAsked(F, IdPlace)
    BY <1>1, <1>2, <1>4, <1>5
<1> QED BY <1>1, <1>2, <1>4, <1>6, <1>7, <1>8 DEF BearsText

LEMMA AskedPlace ==
  ASSUME NEW F, NEW fields, Fitting(F, fields), NEW p, NEW a, NEW f, AsksAt(F, p, a, f)
  PROVE  /\ p # <<>> /\ Outer(p) = a /\ NameAt(p) = f.name /\ Len(p) \in {1, 3}
         /\ IsAsked(F, p) /\ BearsText(F, p) /\ ~ IsRow(F, p) /\ p # MetaPlace /\ p # IdPlace
         /\ a = <<>> \/ IsRow(F, a)
         /\ f.type # "Repeat" /\ f \in fields /\ f.name # "deviceID" /\ p = Append(a, f.name)
         /\ \A b, g : AsksAt(F, p, b, g) => b = a /\ g = f
<1>1. PICK some : Holds(F, a, some) /\ f \in Questions(some) /\ p = Append(a, f.name)
    BY DEF AsksAt
<1>2. /\ p # <<>> /\ Outer(p) = a /\ NameAt(p) = f.name /\ Len(p) \in {1, 3}
      /\ a = <<>> \/ IsRow(F, a)
    BY <1>1, InPlace
<1>3. IsAsked(F, p) /\ BearsText(F, p)
    BY DEF IsAsked, BearsText
<1>4. ~ IsRow(F, p)
    <2>1. ASSUME NEW g \in Repeats(F), NEW n \in 1 .. MaxRows, p = <<g.name, n>> PROVE FALSE
        <3>1. Len(p) = 2
            BY <2>1, AtRows
        <3> QED BY <1>2, <3>1
    <2> QED BY <2>1 DEF IsRow
<1>5. p # MetaPlace /\ p # IdPlace
    BY <1>3, MetaPlaces
<1>6. f.type # "Repeat" /\ f \in fields /\ f.name # "deviceID"
    BY <1>1, HeldFields DEF Questions
<1>7. ASSUME NEW b, NEW g, AsksAt(F, p, b, g) PROVE b = a /\ g = f
    <2>1. PICK other : Holds(F, b, other) /\ g \in Questions(other) /\ p = Append(b, g.name)
        BY <1>7 DEF AsksAt
    <2>2. Outer(p) = b /\ NameAt(p) = g.name
        BY <2>1, InPlace
    <2>3. other = some /\ b = a /\ g.name = f.name
        BY <1>1, <1>2, <2>1, <2>2, HoldsOnce
    <2> QED BY <1>1, <2>1, <2>3, HeldFields DEF Questions
<1> QED BY <1>1, <1>2, <1>3, <1>4, <1>5, <1>6, <1>7

LEMMA RowPlace ==
  ASSUME NEW F, NEW fields, Fitting(F, fields), NEW f \in Repeats(F), NEW n \in 1 .. MaxRows, NEW p, p = <<f.name, n>>
  PROVE  /\ Holds(F, p, f.children) /\ IsRow(F, p) /\ Len(p) = 2 /\ p # <<>> /\ Outer(p) = <<>> /\ NameAt(p) = f.name
         /\ ~ BearsText(F, p) /\ ~ IsAsked(F, p) /\ p # MetaPlace /\ p # IdPlace
<1>1. Len(p) = 2 /\ p # <<>> /\ Outer(p) = <<>> /\ NameAt(p) = f.name
    BY AtRows
<1>2. Holds(F, p, f.children) /\ IsRow(F, p)
    BY DEF Holds, IsRow
<1>3. ~ IsAsked(F, p)
    BY <1>2, AskedPlace DEF IsAsked
<1>4. p # MetaPlace /\ p # IdPlace
    BY <1>2, MetaPlaces
<1> QED BY <1>1, <1>2, <1>3, <1>4 DEF BearsText

-----------------------------------------------------------------------------
(* What is still to be written.  F are the fields of the form, answers what*)
(* was filled in, work the stack of what is to be written, and S the places*)
(* that have been written, at least in part.                               *)

TheMeta == Meta(<<InstanceId>>)
TheId == Leaf(<<"orx", "instanceID">>, IdPlace, <<InstanceId>>)
TheDocument(F) == Node(<<"data">>, Identified, <<>>, Append(Fields(F, <<>>), TheMeta))
RowNode(f, n) == Node(<<f.name>>, <<>>, <<f.name, n>>, Fields(f.children, <<f.name, n>>))

Given(answers, p) == IF p = IdPlace THEN <<InstanceId>> ELSE answers[p]
Rowed(answers, f) == {n \in 1 .. MaxRows : <<f.name, n>> \in DOMAIN answers}

\* The places that are to be written.
Expected(F, answers, p) ==
  \/ IsAsked(F, p)
  \/ p \in {MetaPlace, IdPlace}
  \/ IsRow(F, p) /\ p \in DOMAIN answers

\* What may wait at a place: a question that was not come to or that was
\* answered, a repeat and how many rows it has, a row, the meta block.
QuestionDue(F, answers, j, a) ==
  \E f : AsksAt(F, j.place, a, f) /\ j = ToCome(f, j.place, 0) /\ j.place \notin DOMAIN answers
AnswerDue(F, answers, j, a) ==
  \E f : AsksAt(F, j.place, a, f) /\ j = Leaf(<<f.name>>, j.place, answers[j.place]) /\ j.place \in DOMAIN answers
RowsDue(F, answers, j, a) ==
  a = <<>> /\ \E f \in Repeats(F), n \in 0 .. MaxRows : j = ToCome(f, <<f.name>>, n) /\ Rowed(answers, f) = 1 .. n
RowDue(F, answers, j, a) ==
  a = <<>> /\ \E f \in Repeats(F), n \in 1 .. MaxRows : j = RowNode(f, n) /\ Rowed(answers, f) = 1 .. n
MetaDue(j, a) == (a = <<>> /\ j = TheMeta) \/ (a = MetaPlace /\ j = TheId)

Due(F, answers, S, j, a) ==
  \/ QuestionDue(F, answers, j, a)
  \/ RowsDue(F, answers, j, a)
  \/ j.place \notin S /\ (AnswerDue(F, answers, j, a) \/ RowDue(F, answers, j, a) \/ MetaDue(j, a))

\* An element that is being written: a row that waits is next.
Stage(F, answers, S, x, next) ==
  /\ x.place \in S
  /\ BearsText(F, x.place) => next /\ \A i \in DOMAIN x.content : x.content[i].kind = "Piece"
  /\ ~ BearsText(F, x.place) =>
       /\ \A i \in DOMAIN x.content :
            /\ Due(F, answers, S, x.content[i], x.place)
            /\ RowDue(F, answers, x.content[i], x.place) => next /\ i = 1
       /\ \A i, j \in DOMAIN x.content : x.content[i].place = x.content[j].place => i = j

WaitsIn(x, p) == \E i \in DOMAIN x.content : x.content[i].place = p
Awaited(work, p) == \E k \in 2 .. Len(work) : work[k].place = Outer(p) /\ WaitsIn(work[k], p)

AnsweredIn(F, answers, S, p) ==
  \E a, f : /\ AsksAt(F, p, a, f) /\ (a # <<>> => a \in S)
            /\ answers[p] \in Answers \cup {<<>>} /\ Fits(answers[p], f)

Outset(F, answers, work, S) ==
  /\ work[1].place = <<>>
  /\ S # {} => <<>> \in S /\ work[1].content = <<>>
  /\ S = {} => work = <<Node(<<>>, <<>>, <<>>, <<TheDocument(F)>>)>> /\ DOMAIN answers = {}
  /\ Len(work) >= 2 => work[2].place = <<>>
Staged(F, answers, work, S) == \A k \in 2 .. Len(work) : Stage(F, answers, S, work[k], k = Len(work))
OneStage(work) == \A k, l \in 2 .. Len(work) : work[k].place = work[l].place => k = l
Reached(F, answers, S) ==
  \A p \in S : p # <<>> => Expected(F, answers, p) /\ Outer(p) \in S /\ (IsAsked(F, p) => p \in DOMAIN answers)
Ahead(F, answers, work, S) ==
  \A p : Expected(F, answers, p) /\ Outer(p) \in S => p \in S \/ Awaited(work, p)
Answering(F, answers, S) == \A p \in DOMAIN answers : IsRow(F, p) \/ AnsweredIn(F, answers, S, p)
Numbered(F, answers) == \A f \in Repeats(F) : \E n \in 0 .. MaxRows : Rowed(answers, f) = 1 .. n

Plan(F, answers, work, S) ==
  /\ Outset(F, answers, work, S) /\ Staged(F, answers, work, S) /\ OneStage(work)
  /\ Reached(F, answers, S) /\ Ahead(F, answers, work, S)
  /\ Answering(F, answers, S) /\ Numbered(F, answers)

LEMMA ExpectedPlace ==
  ASSUME NEW F, NEW fields, Fitting(F, fields), NEW answers, NEW p, Expected(F, answers, p)
  PROVE  /\ p # <<>> /\ ~ BearsText(F, Outer(p))
         /\ Outer(p) = <<>> \/ IsRow(F, Outer(p)) \/ p = IdPlace
<1>1. ~ BearsText(F, <<>>) /\ ~ BearsText(F, MetaPlace)
    BY MetaPlaces
<1>2. ASSUME NEW q, IsRow(F, q) PROVE q # <<>> /\ Outer(q) = <<>> /\ ~ BearsText(F, q)
    BY <1>2, RowPlace DEF IsRow
<1>3. CASE IsAsked(F, p)
    BY <1>1, <1>2, <1>3, AskedPlace DEF IsAsked
<1>4. CASE p \in {MetaPlace, IdPlace}
    BY <1>1, <1>4, MetaPlaces
<1>5. CASE IsRow(F, p)
    BY <1>1, <1>2, <1>5
<1> QED BY <1>3, <1>4, <1>5 DEF Expected

LEMMA NodeParts ==
  ASSUME NEW tag, NEW attrs, NEW place, NEW content, NEW j, j = Node(tag, attrs, place, content)
  PROVE  j.kind = "Node" /\ j.tag = tag /\ j.attrs = attrs /\ j.place = place /\ j.content = content
BY DEF Node

LEMMA NodeKinds ==
  /\ \A tag, place, text : Leaf(tag, place, text).kind = "Node" /\ Leaf(tag, place, text).place = place
  /\ \A f, n : RowNode(f, n).kind = "Node" /\ RowNode(f, n).place = <<f.name, n>>
  /\ TheMeta.kind = "Node" /\ TheMeta.place = MetaPlace
  /\ TheId.kind = "Node" /\ TheId.place = IdPlace
<1>1. \A tag, attrs, place, content :
        Node(tag, attrs, place, content).kind = "Node" /\ Node(tag, attrs, place, content).place = place
    BY DEF Node
<1>2. ASSUME NEW tag, NEW place, NEW text
      PROVE  Leaf(tag, place, text).kind = "Node" /\ Leaf(tag, place, text).place = place
    <2>1. \E content : Leaf(tag, place, text) = Node(tag, <<>>, place, content)
        BY DEF Leaf
    <2> QED BY <1>1, <2>1
<1>3. ASSUME NEW f, NEW n
      PROVE  RowNode(f, n).kind = "Node" /\ RowNode(f, n).place = <<f.name, n>>
    <2>1. \E content : RowNode(f, n) = Node(<<f.name>>, <<>>, <<f.name, n>>, content)
        BY DEF RowNode
    <2> QED BY <1>1, <2>1
<1>4. TheMeta.kind = "Node" /\ TheMeta.place = MetaPlace
    <2>1. \E content : TheMeta = Node(<<"orx", "meta">>, <<>>, MetaPlace, content)
        BY DEF TheMeta, Meta
    <2> QED BY <1>1, <2>1
<1>5. TheId.kind = "Node" /\ TheId.place = IdPlace
    BY <1>2, Zenon DEF TheId
<1> QED BY <1>2, <1>3, <1>4, <1>5

\* What is due is a field, or an element that is not written yet.
LEMMA DueIs ==
  ASSUME NEW F, NEW answers, NEW S, NEW j, NEW a, Due(F, answers, S, j, a)
  PROVE  /\ j.kind \in {"Field", "Node"}
         /\ j.kind = "Field" /\ j.field.type # "Repeat" => QuestionDue(F, answers, j, a)
         /\ j.kind = "Field" /\ j.field.type = "Repeat" => RowsDue(F, answers, j, a)
         /\ j.kind = "Node" => /\ j.place \notin S
                               /\ AnswerDue(F, answers, j, a) \/ RowDue(F, answers, j, a) \/ MetaDue(j, a)
<1>1. CASE QuestionDue(F, answers, j, a)
    <2>1. PICK f : AsksAt(F, j.place, a, f) /\ j = ToCome(f, j.place, 0)
        BY <1>1 DEF QuestionDue
    <2>2. j.kind = "Field" /\ j.field = f
        BY <2>1 DEF ToCome
    <2>3. f.type # "Repeat"
        BY <2>1 DEF AsksAt, Questions
    <2> QED BY <1>1, <2>2, <2>3
<1>2. CASE RowsDue(F, answers, j, a)
    <2>1. PICK f \in Repeats(F), n \in 0 .. MaxRows : j = ToCome(f, <<f.name>>, n)
        BY <1>2 DEF RowsDue
    <2>2. j.kind = "Field" /\ j.field.type = "Repeat"
        BY <2>1 DEF ToCome, Repeats
    <2> QED BY <1>2, <2>2
<1>3. CASE j.place \notin S /\ (AnswerDue(F, answers, j, a) \/ RowDue(F, answers, j, a) \/ MetaDue(j, a))
    <2>1. CASE AnswerDue(F, answers, j, a)
        <3>1. PICK f : j = Leaf(<<f.name>>, j.place, answers[j.place])
            BY <2>1 DEF AnswerDue
        <3> QED BY <1>3, <3>1, NodeKinds
    <2>2. CASE RowDue(F, answers, j, a)
        <3>1. PICK f \in Repeats(F), n \in 1 .. MaxRows : j = RowNode(f, n)
            BY <2>2 DEF RowDue
        <3> QED BY <1>3, <3>1, NodeKinds
    <2>3. CASE MetaDue(j, a)
        BY <1>3, <2>3, NodeKinds DEF MetaDue
    <2> QED BY <1>3, <2>1, <2>2, <2>3
<1> QED BY <1>1, <1>2, <1>3 DEF Due

\* An element that is due is one of those expected, in the one it waits in.
LEMMA NodeIs ==
  ASSUME NEW F, NEW fields, Fitting(F, fields), NEW answers, NEW S, NEW a, NEW j,
         j.kind = "Node", Due(F, answers, S, j, a)
  PROVE  /\ j.place \notin S /\ j.place # <<>> /\ Outer(j.place) = a
         /\ Expected(F, answers, j.place) /\ (IsAsked(F, j.place) => j.place \in DOMAIN answers)
         /\ LocalName(j.tag) = NameAt(j.place) /\ j.attrs = <<>> /\ j.tag # <<"orx", "deviceID">>
<1>1. j.place \notin S /\ (AnswerDue(F, answers, j, a) \/ RowDue(F, answers, j, a) \/ MetaDue(j, a))
    BY DueIs
<1>2. \A x : LocalName(<<x>>) = x /\ <<x>> # <<"orx", "deviceID">>
    <2>1. \A x, y, z : Len(<<x>>) = 1 /\ <<x>>[1] = x /\ Len(<<y, z>>) = 2
        OBVIOUS
    <2> QED BY <2>1 DEF LocalName
<1>3. CASE AnswerDue(F, answers, j, a)
    <2>1. PICK f : AsksAt(F, j.place, a, f) /\ j = Leaf(<<f.name>>, j.place, answers[j.place]) /\ j.place \in DOMAIN answers
        BY <1>3 DEF AnswerDue
    <2>2. \E content : j = Node(<<f.name>>, <<>>, j.place, content)
        BY <2>1 DEF Leaf
    <2>3. j.tag = <<f.name>> /\ j.attrs = <<>>
        BY <2>2, NodeParts
    <2>4. j.place # <<>> /\ Outer(j.place) = a /\ NameAt(j.place) = f.name /\ IsAsked(F, j.place)
        BY <2>1, AskedPlace
    <2> QED BY <1>1, <1>2, <2>1, <2>3, <2>4 DEF Expected
<1>4. CASE RowDue(F, answers, j, a)
    <2>1. PICK f \in Repeats(F), n \in 1 .. MaxRows : a = <<>> /\ j = RowNode(f, n) /\ Rowed(answers, f) = 1 .. n
        BY <1>4 DEF RowDue
    <2>2. \E content : j = Node(<<f.name>>, <<>>, <<f.name, n>>, content)
        BY <2>1 DEF RowNode
    <2>3. j.tag = <<f.name>> /\ j.attrs = <<>> /\ j.place = <<f.name, n>>
        BY <2>2, NodeParts
    <2>4. /\ j.place # <<>> /\ Outer(j.place) = <<>> /\ NameAt(j.place) = f.name
          /\ IsRow(F, j.place) /\ ~ IsAsked(F, j.place)
        BY <2>3, RowPlace
    <2>5. <<f.name, n>> \in DOMAIN answers
        <3>1. n \in 1 .. n
            OBVIOUS
        <3>2. n \in Rowed(answers, f)
            BY <2>1, <3>1
        <3> QED BY <3>2 DEF Rowed
    <2> QED BY <1>1, <1>2, <2>1, <2>3, <2>4, <2>5 DEF Expected
<1>5. CASE MetaDue(j, a)
    <2>1. /\ LocalName(<<"orx", "meta">>) = "meta" /\ LocalName(<<"orx", "instanceID">>) = "instanceID"
          /\ <<"orx", "meta">> # <<"orx", "deviceID">> /\ <<"orx", "instanceID">> # <<"orx", "deviceID">>
        BY DEF LocalName
    <2>2. j = TheMeta => j.tag = <<"orx", "meta">> /\ j.attrs = <<>> /\ j.place = MetaPlace
        BY NodeParts DEF TheMeta, Meta
    <2>3. j = TheId => j.tag = <<"orx", "instanceID">> /\ j.attrs = <<>> /\ j.place = IdPlace
        BY NodeParts DEF TheId, Leaf
    <2> QED BY <1>1, <1>5, <2>1, <2>2, <2>3, MetaPlaces DEF MetaDue, Expected
<1> QED BY <1>1, <1>3, <1>4, <1>5

LEMMA ToComeParts ==
  ASSUME NEW f, NEW place, NEW n, NEW j, j = ToCome(f, place, n)
  PROVE  j.kind = "Field" /\ j.field = f /\ j.place = place /\ j.rows = n
BY DEF ToCome

\* What there is in a place that holds fields when it is come to.
FieldsWait(F, answers, S, a, some, c) ==
  /\ DOMAIN c = DOMAIN some /\ c \in Seq({c[i] : i \in DOMAIN some})
  /\ \A i \in DOMAIN some :
       /\ c[i].kind = "Field" /\ c[i].place = Append(a, some[i].name)
       /\ Due(F, answers, S, c[i], a)
  /\ \A i, j \in DOMAIN some : c[i].place = c[j].place => i = j
  /\ \A f \in Questions(some) : \E i \in DOMAIN some : c[i].place = Append(a, f.name)

LEMMA FreshFields ==
  ASSUME NEW F, NEW fields, Fitting(F, fields), NEW a, NEW some, Holds(F, a, some), NEW answers, NEW S,
         \A f \in Questions(some) : Append(a, f.name) \notin DOMAIN answers,
         a = <<>> => \A f \in Repeats(F) : Rowed(answers, f) = {},
         NEW c, c = Fields(some, a)
  PROVE  FieldsWait(F, answers, S, a, some, c)
<1>1. /\ some \in Seq(fields) /\ Apart(some)
      /\ \A f \in ToSet(some) : f \in fields /\ (a # <<>> => f.type # "Repeat")
    BY HeldFields
<1>2. PICK n \in Nat : n = Len(some) /\ DOMAIN some = 1 .. n
    BY <1>1
<1>3. c = [i \in 1 .. n |-> ToCome(some[i], Append(a, some[i].name), 0)]
    BY <1>2 DEF Fields
<1>4. DOMAIN c = 1 .. n /\ c = [i \in 1 .. n |-> c[i]]
    BY <1>3
<1>5. c \in Seq({c[i] : i \in 1 .. n})
    BY <1>4, AnySeq
<1>6. ASSUME NEW i \in 1 .. n
      PROVE  /\ c[i].kind = "Field" /\ c[i].place = Append(a, some[i].name)
             /\ Due(F, answers, S, c[i], a)
    <2>1. c[i] = ToCome(some[i], Append(a, some[i].name), 0)
        BY <1>3
    <2>2. c[i].kind = "Field" /\ c[i].place = Append(a, some[i].name)
        BY <2>1 DEF ToCome
    <2>3. some[i] \in ToSet(some)
        BY <1>1, <1>2, ToSetIs
    <2>4. CASE some[i].type # "Repeat"
        <3>1. some[i] \in Questions(some)
            BY <2>3, <2>4 DEF Questions
        <3>2. AsksAt(F, c[i].place, a, some[i])
            BY <2>2, <3>1 DEF AsksAt
        <3>3. c[i].place \notin DOMAIN answers
            BY <2>2, <3>1
        <3>4. QuestionDue(F, answers, c[i], a)
            BY <2>1, <2>2, <3>2, <3>3 DEF QuestionDue
        <3> QED BY <2>2, <3>4 DEF Due
    <2>5. CASE some[i].type = "Repeat"
        <3>1. a = <<>> /\ some = F
            <4>1. a = <<>>
                BY <1>1, <2>3, <2>5
            <4>2. Holds(F, a, F)
                BY <4>1 DEF Holds
            <4> QED BY <4>1, <4>2, HoldsOnce
        <3>2. some[i] \in Repeats(F)
            BY <2>3, <2>5, <3>1 DEF Repeats
        <3>3. c[i] = ToCome(some[i], <<some[i].name>>, 0)
            BY <2>1, <3>1, AtFields
        <3>4. 0 \in 0 .. MaxRows /\ 1 .. 0 = {}
            BY DEF Fitting
        <3>5. Rowed(answers, some[i]) = 1 .. 0
            BY <3>1, <3>2, <3>4
        <3>6. RowsDue(F, answers, c[i], a)
            BY <3>1, <3>2, <3>3, <3>4, <3>5 DEF RowsDue
        <3> QED BY <2>2, <3>6 DEF Due
    <2> QED BY <2>4, <2>5
<1>7. ASSUME NEW i \in 1 .. n, NEW j \in 1 .. n, c[i].place = c[j].place PROVE i = j
    <2>1. Append(a, some[i].name) = Append(a, some[j].name)
        BY <1>6, <1>7
    <2>2. some[i].name = some[j].name
        <3>1. \A x : NameAt(Append(a, x)) = x
            BY InPlace
        <3> QED BY <2>1, <3>1
    <2> QED BY <1>1, <1>2, <2>2 DEF Apart
<1>8. ASSUME NEW f \in Questions(some) PROVE \E i \in 1 .. n : c[i].place = Append(a, f.name)
    <2>1. PICK i \in 1 .. n : f = some[i]
        <3>1. f \in ToSet(some)
            BY DEF Questions
        <3> QED BY <1>1, <1>2, <3>1, ToSetIs
    <2> QED BY <1>6, <2>1
<1>10. DOMAIN c = DOMAIN some /\ c \in Seq({c[i] : i \in DOMAIN some})
    BY <1>2, <1>4, <1>5
<1>11. \A i \in DOMAIN some :
         /\ c[i].kind = "Field" /\ c[i].place = Append(a, some[i].name)
         /\ Due(F, answers, S, c[i], a)
    BY <1>2, <1>6
<1>12. \A i, j \in DOMAIN some : c[i].place = c[j].place => i = j
    BY <1>2, <1>7
<1>13. \A f \in Questions(some) : \E i \in DOMAIN some : c[i].place = Append(a, f.name)
    BY <1>2, <1>8
<1> QED BY <1>10, <1>11, <1>12, <1>13 DEF FieldsWait

\* The text of an element that is written, and of one that is being written.
TextIs(text, answer) ==
  /\ Len(text) >= Len(answer)
  /\ \A i \in DOMAIN text : text[i] = IF i <= Len(answer) THEN answer[i] ELSE Space
Remains(text, left, answer) ==
  IF left = <<>> THEN TextIs(text, answer)
  ELSE /\ Len(text) + Len(left) = Len(answer)
       /\ \A i \in DOMAIN text : text[i] = answer[i]
       /\ \A i \in DOMAIN left : left[i].piece = answer[Len(text) + i]

LEMMA LeafIs ==
  ASSUME NEW text \in Seq(Pieces), NEW tag, NEW place, NEW j, j = Leaf(tag, place, text)
  PROVE  /\ j.place = place /\ j.kind = "Node" /\ j.content \in Seq(Texts)
         /\ \A i \in DOMAIN j.content : j.content[i].kind = "Piece"
         /\ Remains(<<>>, j.content, text)
<1>1. PICK n \in Nat : n = Len(text)
    OBVIOUS
<1>2. DOMAIN text = 1 .. n /\ \A i \in 1 .. n : text[i] \in Pieces
    BY <1>1
<1> DEFINE c == [i \in DOMAIN text |-> [kind |-> "Piece", piece |-> text[i]]]
<1>3. j.place = place /\ j.kind = "Node" /\ j.content = c
    BY NodeParts DEF Leaf
<1>4. \A i \in 1 .. n : c[i] = [kind |-> "Piece", piece |-> text[i]]
    BY <1>2
<1>5. c = [i \in 1 .. n |-> c[i]]
    BY <1>2
<1> HIDE DEF c
<1>6. \A i \in 1 .. n : c[i] \in Texts /\ c[i].kind = "Piece" /\ c[i].piece = text[i]
    <2> SUFFICES ASSUME NEW i \in 1 .. n
                 PROVE  c[i] \in Texts /\ c[i].kind = "Piece" /\ c[i].piece = text[i]
        OBVIOUS
    <2>1. c[i] = [kind |-> "Piece", piece |-> text[i]] /\ text[i] \in Pieces
        BY <1>2, <1>4
    <2> QED BY <2>1 DEF Texts
<1>7. c \in Seq(Texts) /\ Len(c) = n
    BY <1>5, <1>6
<1>8. Remains(<<>>, c, text)
    <2>1. CASE c = <<>>
        <3>1. n = 0
            BY <1>7, <2>1
        <3> QED BY <1>1, <2>1, <3>1 DEF Remains, TextIs
    <2>2. CASE c # <<>>
        <3>1. Len(<<>>) = 0 /\ DOMAIN <<>> = {}
            OBVIOUS
        <3>2. Len(<<>>) + Len(c) = Len(text)
            BY <1>1, <1>7, <3>1
        <3>3. \A i \in DOMAIN c : c[i].piece = text[Len(<<>>) + i]
            BY <1>6, <1>7, <3>1
        <3> QED BY <2>2, <3>1, <3>2, <3>3 DEF Remains
    <2> QED BY <2>1, <2>2
<1> QED BY <1>3, <1>6, <1>7, <1>8

\* An element that is opened has everything in it that is expected there.
LEMMA OpensWhole ==
  ASSUME NEW F, NEW fields, Fitting(F, fields), NEW answers, NEW S, NEW a, NEW j,
         j.kind = "Node", Due(F, answers, S, j, a), NEW next, next = TRUE,
         Reached(F, answers, S), Answering(F, answers, S)
  PROVE  /\ Stage(F, answers, S \cup {j.place}, j, next)
         /\ \A q : Expected(F, answers, q) /\ Outer(q) = j.place => WaitsIn(j, q)
         /\ BearsText(F, j.place) => Remains(<<>>, j.content, Given(answers, j.place))
<1>1. j.place \notin S /\ (AnswerDue(F, answers, j, a) \/ RowDue(F, answers, j, a) \/ MetaDue(j, a))
    BY DueIs
<1>2. ASSUME BearsText(F, j.place), \A i \in DOMAIN j.content : j.content[i].kind = "Piece",
             Remains(<<>>, j.content, Given(answers, j.place))
      PROVE  /\ Stage(F, answers, S \cup {j.place}, j, next)
             /\ \A q : Expected(F, answers, q) /\ Outer(q) = j.place => WaitsIn(j, q)
             /\ BearsText(F, j.place) => Remains(<<>>, j.content, Given(answers, j.place))
    <2>1. \A q : Expected(F, answers, q) => Outer(q) # j.place
        BY <1>2, ExpectedPlace
    <2> QED BY <1>2, <2>1 DEF Stage
<1>3. CASE AnswerDue(F, answers, j, a)
    <2>1. PICK f : AsksAt(F, j.place, a, f) /\ j = Leaf(<<f.name>>, j.place, answers[j.place]) /\ j.place \in DOMAIN answers
        BY <1>3 DEF AnswerDue
    <2>2. BearsText(F, j.place) /\ ~ IsRow(F, j.place) /\ j.place # IdPlace
        BY <2>1, AskedPlace
    <2>3. answers[j.place] \in Answers \cup {<<>>}
        BY <2>1, <2>2 DEF Answering, AnsweredIn
    <2>4. answers[j.place] \in Seq(Pieces)
        BY <2>3, TextPieces
    <2>5. /\ \A i \in DOMAIN j.content : j.content[i].kind = "Piece"
          /\ Remains(<<>>, j.content, answers[j.place])
        BY <2>1, <2>4, LeafIs
    <2>6. Given(answers, j.place) = answers[j.place]
        BY <2>2 DEF Given
    <2> QED BY <1>2, <2>2, <2>5, <2>6
<1>4. CASE j = TheId
    <2>1. <<InstanceId>> \in Seq(Pieces)
        BY TextPieces
    <2>2. /\ j.place = IdPlace /\ \A i \in DOMAIN j.content : j.content[i].kind = "Piece"
          /\ Remains(<<>>, j.content, <<InstanceId>>)
        BY <1>4, <2>1, LeafIs DEF TheId
    <2> QED BY <1>2, <2>2 DEF Given, BearsText
<1>5. CASE a = <<>> /\ j = TheMeta
    <2>1. j.place = MetaPlace /\ j.content = <<TheId>>
        BY <1>5, NodeParts DEF TheMeta, Meta, TheId
    <2>2. DOMAIN j.content = {1} /\ j.content[1] = TheId /\ TheId.place = IdPlace
        BY <2>1, NodeKinds
    <2>3. IdPlace \notin S \cup {j.place}
        BY <1>1, <2>1, MetaPlaces DEF Reached
    <2>4. Due(F, answers, S \cup {j.place}, TheId, MetaPlace)
        BY <2>2, <2>3 DEF Due, MetaDue
    <2>5. ~ BearsText(F, j.place) /\ ~ RowDue(F, answers, TheId, MetaPlace)
        BY <2>1, MetaPlaces DEF RowDue
    <2>6. \A q : Expected(F, answers, q) /\ Outer(q) = j.place => WaitsIn(j, q)
        <3>1. \A q : Expected(F, answers, q) /\ Outer(q) = MetaPlace => q = IdPlace
            BY ExpectedPlace, MetaPlaces
        <3> QED BY <2>1, <2>2, <3>1 DEF WaitsIn
    <2>7. Stage(F, answers, S \cup {j.place}, j, next)
        BY <2>1, <2>2, <2>4, <2>5 DEF Stage
    <2> QED BY <2>5, <2>6, <2>7
<1>6. CASE RowDue(F, answers, j, a)
    <2>1. PICK f \in Repeats(F), n \in 1 .. MaxRows : a = <<>> /\ j = RowNode(f, n)
        BY <1>6 DEF RowDue
    <2>2. j.place = <<f.name, n>> /\ j.content = Fields(f.children, j.place)
        <3>1. j = Node(<<f.name>>, <<>>, <<f.name, n>>, Fields(f.children, <<f.name, n>>))
            BY <2>1 DEF RowNode
        <3> QED BY <3>1, NodeParts
    <2>3. /\ Holds(F, j.place, f.children) /\ IsRow(F, j.place) /\ j.place # <<>> /\ ~ BearsText(F, j.place)
          /\ Outer(j.place) = <<>> /\ j.place # MetaPlace
        BY <2>2, RowPlace
    <2>4. ASSUME NEW g \in Questions(f.children) PROVE Append(j.place, g.name) \notin DOMAIN answers
        <3>1. AsksAt(F, Append(j.place, g.name), j.place, g)
            BY <2>3 DEF AsksAt
        <3>2. /\ ~ IsRow(F, Append(j.place, g.name))
              /\ \A b, h : AsksAt(F, Append(j.place, g.name), b, h) => b = j.place
            BY <3>1, AskedPlace
        <3> QED BY <1>1, <2>3, <3>2 DEF Answering, AnsweredIn
    <2> DEFINE T == S \cup {j.place}
               c == Fields(f.children, j.place)
    <2>6. j.content = c /\ j.place \in T
        BY <2>2
    <2>7. T = S \cup {j.place}
        OBVIOUS
    <2> HIDE DEF T
    <2>11. c = Fields(f.children, j.place)
        OBVIOUS
    <2> HIDE DEF c
    <2>12. FieldsWait(F, answers, T, j.place, f.children, c)
        BY <2>3, <2>4, <2>11, FreshFields
    <2>5. /\ DOMAIN c = DOMAIN f.children
          /\ \A i \in DOMAIN f.children : Due(F, answers, T, c[i], j.place)
          /\ \A i, k \in DOMAIN f.children : c[i].place = c[k].place => i = k
          /\ \A g \in Questions(f.children) : \E i \in DOMAIN f.children : c[i].place = Append(j.place, g.name)
        BY <2>12 DEF FieldsWait
    <2>8. \A i : ~ RowDue(F, answers, c[i], j.place)
        BY <2>3 DEF RowDue
    <2>9. Stage(F, answers, T, j, next)
        BY <2>3, <2>5, <2>6, <2>8 DEF Stage
    <2>10. ASSUME NEW q, Expected(F, answers, q), Outer(q) = j.place
           PROVE  WaitsIn(j, q)
        <3>1. IsAsked(F, q)
            <4>1. ~ IsRow(F, q)
                <5>1. \A p : IsRow(F, p) => Outer(p) = <<>>
                    BY RowPlace DEF IsRow
                <5> QED BY <2>3, <2>10, <5>1
            <4>2. q \notin {MetaPlace, IdPlace}
                BY <2>3, <2>10, MetaPlaces
            <4> QED BY <2>10, <4>1, <4>2 DEF Expected
        <3>2. PICK b, g : AsksAt(F, q, b, g)
            BY <3>1 DEF IsAsked
        <3>3. b = j.place
            BY <2>10, <3>2, AskedPlace
        <3>4. PICK some : Holds(F, b, some) /\ g \in Questions(some) /\ q = Append(b, g.name)
            BY <3>2 DEF AsksAt
        <3>5. some = f.children
            BY <2>3, <3>3, <3>4, HoldsOnce
        <3> QED BY <2>5, <2>6, <3>3, <3>4, <3>5 DEF WaitsIn
    <2> QED BY <2>3, <2>7, <2>9, <2>10
<1> QED BY <1>1, <1>3, <1>4, <1>5, <1>6 DEF MetaDue

-----------------------------------------------------------------------------
(* The plan through the steps of the writer. *)

\* The stack with other content in the innermost element.
Retopped(work, c, other) ==
  /\ Len(other) = Len(work)
  /\ \A k \in 1 .. Len(work) - 1 : other[k] = work[k]
  /\ other[Len(work)].place = work[Len(work)].place
  /\ other[Len(work)].tag = work[Len(work)].tag
  /\ other[Len(work)].content = c

LEMMA HeadChanged ==
  ASSUME NEW T, NEW s \in Seq(T), s # <<>>, NEW y, NEW c, c = <<y>> \o Tail(s)
  PROVE  /\ DOMAIN c = DOMAIN s /\ c[1] = y
         /\ \A i \in DOMAIN s : i # 1 => c[i] = s[i]
<1>1. PICK n \in Nat : n = Len(s)
    OBVIOUS
<1>2. n # 0 /\ Tail(s) \in Seq(T) /\ Len(Tail(s)) = n - 1 /\ \A i \in 1 .. n - 1 : Tail(s)[i] = s[i + 1]
    BY <1>1, TailIs
<1>3. PICK t : t = Tail(s)
    OBVIOUS
<1>4. t = [k \in 1 .. n - 1 |-> t[k]] /\ <<y>> = [k \in 1 .. 1 |-> <<y>>[k]] /\ n - 1 \in Nat
    <2>1. t \in Seq(T) /\ Len(t) = n - 1 /\ n - 1 \in Nat
        BY <1>1, <1>2, <1>3
    <2>2. t = [k \in 1 .. n - 1 |-> t[k]]
        BY <2>1
    <2>3. <<y>> = [k \in 1 .. 1 |-> <<y>>[k]]
        OBVIOUS
    <2> QED BY <2>1, <2>2, <2>3
<1>5. <<y>> \o t = [k \in 1 .. 1 + (n - 1) |-> IF k <= 1 THEN <<y>>[k] ELSE t[k - 1]]
    BY <1>4, ConcatAny
<1>6. c = [k \in 1 .. n |-> IF k <= 1 THEN y ELSE t[k - 1]]
    BY <1>1, <1>2, <1>3, <1>5
<1>7. ASSUME NEW i \in 2 .. n PROVE c[i] = s[i]
    <2>1. c[i] = t[i - 1] /\ i - 1 \in 1 .. n - 1
        BY <1>6
    <2> QED BY <1>2, <1>3, <2>1
<1> QED BY <1>1, <1>2, <1>6, <1>7

\* What comes next, and where.
ComesIn(work, x, j) == work # <<>> /\ x = work[Len(work)] /\ x.content # <<>> /\ j = x.content[1]

TopFacts(F, fields, answers, S, work, x, j) ==
  /\ x = work[Len(work)] /\ j = x.content[1] /\ x.content # <<>>
  /\ Len(work) \in Nat /\ Len(work) >= 2 /\ S # {} /\ x \in Underway(fields)
  /\ x.content \in Seq(Jobs(fields)) /\ Len(x.content) \in Nat \ {0} /\ 1 \in DOMAIN x.content
  /\ x.place \in S /\ Stage(F, answers, S, x, TRUE)
  /\ BearsText(F, x.place) => j.kind = "Piece"
  /\ ~ BearsText(F, x.place) => Due(F, answers, S, j, x.place) /\ j.kind # "Piece"

LEMMA TopJob ==
  ASSUME NEW F, NEW fields, NEW answers, NEW S,
         NEW work \in Seq(Underway(fields)), Plan(F, answers, work, S),
         NEW x, NEW j, ComesIn(work, x, j), j.kind # "Node" \/ S # {}
  PROVE  TopFacts(F, fields, answers, S, work, x, j)
<1> USE DEF ComesIn
<1>1. PICK n \in Nat : n = Len(work) /\ n # 0
    OBVIOUS
<1>2. x \in Underway(fields) /\ x.content \in Seq(Jobs(fields))
    <2>1. x \in Underway(fields)
        BY <1>1
    <2> QED BY <2>1 DEF Underway, NodesOf
<1>3. Len(x.content) \in Nat \ {0} /\ 1 \in DOMAIN x.content
    BY <1>2
<1>4. S # {}
    <2>1. ASSUME S = {} PROVE FALSE
        <3>1. work = <<Node(<<>>, <<>>, <<>>, <<TheDocument(F)>>)>>
            BY <2>1 DEF Plan, Outset
        <3>2. x = Node(<<>>, <<>>, <<>>, <<TheDocument(F)>>)
            BY <3>1
        <3>3. x.content = <<TheDocument(F)>>
            BY <3>2, NodeParts
        <3>4. j.kind = "Node"
            BY <3>3, NodeParts DEF TheDocument
        <3> QED BY <2>1, <3>4
    <2> QED BY <2>1
<1>5. n >= 2
    <2>1. work[1].content = <<>>
        BY <1>4 DEF Plan, Outset
    <2>2. n # 1
        BY <1>1, <2>1
    <2> QED BY <1>1, <2>2
<1>6. Stage(F, answers, S, x, TRUE)
    <2>1. Stage(F, answers, S, x, n = Len(work))
        BY <1>1, <1>5 DEF Plan, Staged
    <2> QED BY <1>1, <2>1
<1>7. x.place \in S
    BY <1>6 DEF Stage
<1>8. BearsText(F, x.place) => j.kind = "Piece"
    BY <1>3, <1>6 DEF Stage
<1>9. ~ BearsText(F, x.place) => Due(F, answers, S, j, x.place)
    BY <1>3, <1>6 DEF Stage
<1>10. Due(F, answers, S, j, x.place) => j.kind # "Piece"
    BY DueIs
<1> QED BY <1>1, <1>2, <1>3, <1>4, <1>5, <1>6, <1>7, <1>8, <1>9, <1>10 DEF TopFacts

\* One more answer leaves what is due to the rest.
MoreBy(F, answers, p, more) ==
  /\ p \notin DOMAIN answers /\ ~ IsRow(F, p)
  /\ DOMAIN more = DOMAIN answers \cup {p} /\ \A q \in DOMAIN answers : more[q] = answers[q]

LEMMA DueStays ==
  ASSUME NEW F, NEW answers, NEW p, NEW more, MoreBy(F, answers, p, more), NEW S, NEW y, NEW a
  PROVE  /\ Due(F, answers, S, y, a) /\ (QuestionDue(F, answers, y, a) => y.place # p) => Due(F, more, S, y, a)
         /\ RowDue(F, more, y, a) => RowDue(F, answers, y, a)
         /\ Numbered(F, answers) => Numbered(F, more)
<1> USE DEF MoreBy
<1>1. ASSUME NEW f \in Repeats(F) PROVE Rowed(more, f) = Rowed(answers, f)
    <2>1. \A n \in 1 .. MaxRows : <<f.name, n>> # p
        BY DEF IsRow
    <2> QED BY <2>1 DEF Rowed
<1>2. y.place # p /\ QuestionDue(F, answers, y, a) => QuestionDue(F, more, y, a)
    BY DEF QuestionDue
<1>3. RowsDue(F, answers, y, a) => RowsDue(F, more, y, a)
    BY <1>1 DEF RowsDue
<1>4. AnswerDue(F, answers, y, a) => AnswerDue(F, more, y, a)
    BY DEF AnswerDue
<1>5. RowDue(F, answers, y, a) <=> RowDue(F, more, y, a)
    BY <1>1 DEF RowDue
<1>6. Numbered(F, answers) => Numbered(F, more)
    BY <1>1 DEF Numbered
<1> QED BY <1>2, <1>3, <1>4, <1>5, <1>6 DEF Due

AnswerAdded(answers, place, text, more) ==
  more = [p \in DOMAIN answers \cup {place} |-> IF p = place THEN text ELSE answers[p]]

AnswerGiven(answers, j, text, more, leaf) ==
  /\ text \in Answers \cup {<<>>} /\ Fits(text, j.field)
  /\ AnswerAdded(answers, j.place, text, more) /\ leaf = Leaf(<<j.field.name>>, j.place, text)

LEMMA FillPlan ==
  ASSUME NEW F, NEW fields, Fitting(F, fields), NEW answers, NEW S,
         NEW work \in Seq(Underway(fields)), Plan(F, answers, work, S),
         NEW x, NEW j, ComesIn(work, x, j), j.kind = "Field", j.field.type # "Repeat",
         NEW text, NEW more, NEW leaf, AnswerGiven(answers, j, text, more, leaf),
         NEW other, Retopped(work, <<leaf>> \o Tail(x.content), other)
  PROVE  /\ Plan(F, more, other, S)
         /\ j.place \notin S /\ ~ BearsText(F, x.place) /\ S # {} /\ Len(work) >= 2
<1> DEFINE p == j.place
           c == <<leaf>> \o Tail(x.content)
<1>27. /\ text \in Answers \cup {<<>>} /\ Fits(text, j.field)
       /\ AnswerAdded(answers, j.place, text, more) /\ leaf = Leaf(<<j.field.name>>, j.place, text)
    BY DEF AnswerGiven
<1>25. TopFacts(F, fields, answers, S, work, x, j)
    BY TopJob
<1>1. /\ x = work[Len(work)] /\ j = x.content[1] /\ x.content # <<>>
      /\ Len(work) \in Nat /\ Len(work) >= 2 /\ S # {}
      /\ x.content \in Seq(Jobs(fields)) /\ 1 \in DOMAIN x.content
      /\ x.place \in S /\ Stage(F, answers, S, x, TRUE)
      /\ ~ BearsText(F, x.place) /\ Due(F, answers, S, j, x.place)
    BY <1>25 DEF TopFacts
<1>2. PICK n \in Nat : n = Len(work) /\ n >= 2 /\ x = work[n]
    BY <1>1
<1>3. PICK f : AsksAt(F, p, x.place, f) /\ j = ToCome(f, p, 0) /\ p \notin DOMAIN answers
    BY <1>1, DueIs DEF QuestionDue
<1>4. /\ IsAsked(F, p) /\ ~ IsRow(F, p) /\ p # <<>>
      /\ \A b, g : AsksAt(F, p, b, g) => b = x.place
    BY <1>3, AskedPlace
<1>5. p \notin S
    BY <1>3, <1>4 DEF Plan, Reached
<1>6. j.field = f /\ leaf = Leaf(<<f.name>>, p, text)
    BY <1>3, <1>27, ToComeParts
<1>7. leaf.place = p
    BY <1>27, NodeKinds
<1>8. c[1] = leaf /\ DOMAIN c = DOMAIN x.content /\ \A i \in DOMAIN x.content : i # 1 => c[i] = x.content[i]
    BY <1>1, HeadChanged
<1>9. Retopped(work, c, other)
    OBVIOUS
<1> HIDE DEF c
<1>10. DOMAIN more = DOMAIN answers \cup {p} /\ more[p] = text /\ \A q \in DOMAIN answers : more[q] = answers[q]
    BY <1>3, <1>27 DEF AnswerAdded
<1>11. AnswerDue(F, more, leaf, x.place)
    BY <1>3, <1>6, <1>7, <1>10 DEF AnswerDue
<1>12. Due(F, more, S, leaf, x.place)
    BY <1>5, <1>7, <1>11 DEF Due
<1>26. MoreBy(F, answers, p, more)
    BY <1>3, <1>4, <1>10 DEF MoreBy
<1>13. \A y, a : /\ Due(F, answers, S, y, a) /\ (QuestionDue(F, answers, y, a) => y.place # p) => Due(F, more, S, y, a)
                 /\ RowDue(F, more, y, a) => RowDue(F, answers, y, a)
    BY <1>26, DueStays
<1>14. Numbered(F, more)
    BY <1>26, DueStays DEF Plan
<1>15. /\ Len(other) = n /\ (\A k \in 1 .. n - 1 : other[k] = work[k])
       /\ other[n].place = x.place /\ other[n].content = c
    BY <1>1, <1>2, <1>9 DEF Retopped
<1>16. Stage(F, more, S, other[n], TRUE)
    <2>1. ASSUME NEW i \in DOMAIN c
          PROVE  Due(F, more, S, c[i], x.place) /\ (RowDue(F, more, c[i], x.place) => i = 1)
        <3>1. CASE i = 1
            BY <1>8, <1>12, <3>1
        <3>2. CASE i # 1
            <4>1. c[i] = x.content[i] /\ i \in DOMAIN x.content
                BY <1>8, <3>2
            <4>2. /\ Due(F, answers, S, c[i], x.place) /\ c[i].place # p
                  /\ (RowDue(F, answers, c[i], x.place) => i = 1)
                BY <1>1, <3>2, <4>1 DEF Stage
            <4> QED BY <1>13, <4>2
        <3> QED BY <3>1, <3>2
    <2>2. \A i \in DOMAIN c : c[i].place = x.content[i].place
        BY <1>1, <1>7, <1>8
    <2>3. \A i, k \in DOMAIN c : c[i].place = c[k].place => i = k
        BY <1>1, <1>8, <2>2 DEF Stage
    <2> QED BY <1>1, <1>15, <2>1, <2>3 DEF Stage
<1>17. ASSUME NEW k \in 2 .. n - 1 PROVE Stage(F, more, S, other[k], FALSE)
    <2>1. Stage(F, answers, S, work[k], FALSE)
        <3>1. k \in 2 .. Len(work) /\ (k = Len(work)) = FALSE
            BY <1>2
        <3> QED BY <3>1 DEF Plan, Staged
    <2>2. other[k] = work[k]
        BY <1>15
    <2>3. work[k].place # x.place
        <3>1. k \in 2 .. Len(work) /\ Len(work) \in 2 .. Len(work) /\ k # Len(work)
            BY <1>2
        <3> QED BY <1>2, <3>1 DEF Plan, OneStage
    <2>4. ASSUME NEW i \in DOMAIN work[k].content, ~ BearsText(F, work[k].place)
          PROVE  Due(F, more, S, work[k].content[i], work[k].place) /\ ~ RowDue(F, more, work[k].content[i], work[k].place)
        <3>1. Due(F, answers, S, work[k].content[i], work[k].place) /\ ~ RowDue(F, answers, work[k].content[i], work[k].place)
            BY <2>1, <2>4 DEF Stage
        <3>2. QuestionDue(F, answers, work[k].content[i], work[k].place) => work[k].content[i].place # p
            BY <1>4, <2>3 DEF QuestionDue
        <3> QED BY <1>13, <3>1, <3>2
    <2> QED BY <2>1, <2>2, <2>4 DEF Stage
<1>18. Staged(F, more, other, S)
    <2> SUFFICES ASSUME NEW k \in 2 .. n PROVE Stage(F, more, S, other[k], k = n)
        BY <1>15 DEF Staged
    <2>1. CASE k = n
        BY <1>16, <2>1
    <2>2. CASE k # n
        <3>1. k \in 2 .. n - 1 /\ (k = n) = FALSE
            BY <1>2, <2>2
        <3> QED BY <1>17, <3>1
    <2> QED BY <2>1, <2>2
<1>19. OneStage(other)
    <2>1. \A k \in 2 .. n : other[k].place = work[k].place
        BY <1>2, <1>15
    <2> QED BY <1>2, <1>15, <2>1 DEF Plan, OneStage
<1>20. Outset(F, more, other, S)
    <2>1. other[1] = work[1] /\ other[2].place = work[2].place
        BY <1>2, <1>15
    <2> QED BY <1>1, <1>2, <1>15, <2>1 DEF Plan, Outset
<1>21. \A q : Expected(F, answers, q) <=> Expected(F, more, q)
    BY <1>4, <1>10 DEF Expected
<1>22. Reached(F, more, S)
    BY <1>10, <1>21 DEF Plan, Reached
<1>23. Ahead(F, more, other, S)
    <2> SUFFICES ASSUME NEW q, Awaited(work, q) PROVE Awaited(other, q)
        BY <1>21 DEF Plan, Ahead
    <2>1. PICK k \in 2 .. n : work[k].place = Outer(q) /\ WaitsIn(work[k], q)
        BY <1>2 DEF Awaited
    <2>2. CASE k # n
        <3>1. other[k] = work[k]
            BY <1>2, <1>15, <2>2
        <3> QED BY <1>15, <2>1, <3>1 DEF Awaited
    <2>3. CASE k = n
        <3>1. WaitsIn(other[n], q)
            BY <1>1, <1>2, <1>7, <1>8, <1>15, <2>1, <2>3 DEF WaitsIn
        <3> QED BY <1>2, <1>15, <2>1, <2>3, <3>1 DEF Awaited
    <2> QED BY <2>2, <2>3
<1>24. Answering(F, more, S)
    <2>1. AnsweredIn(F, more, S, p)
        BY <1>1, <1>3, <1>6, <1>10, <1>27 DEF AnsweredIn
    <2>2. \A q \in DOMAIN answers : AnsweredIn(F, answers, S, q) => AnsweredIn(F, more, S, q)
        BY <1>10 DEF AnsweredIn
    <2> QED BY <1>10, <2>1, <2>2 DEF Plan, Answering
<1> QED BY <1>1, <1>5, <1>14, <1>18, <1>19, <1>20, <1>22, <1>23, <1>24 DEF Plan

\* The place of a repeat is that of no element.
LEMMA RepeatIsNoPlace ==
  ASSUME NEW F, NEW fields, Fitting(F, fields), NEW answers, NEW f \in Repeats(F)
  PROVE  ~ Expected(F, answers, <<f.name>>)
<1>1. Len(<<f.name>>) = 1 /\ NameAt(<<f.name>>) = f.name /\ Outer(<<f.name>>) = <<>>
    BY AtFields
<1>2. ~ IsRow(F, <<f.name>>)
    <2>1. \A p : IsRow(F, p) => Len(p) = 2
        BY RowPlace DEF IsRow
    <2> QED BY <1>1, <2>1
<1>3. <<f.name>> \notin {MetaPlace, IdPlace}
    BY <1>1, MetaPlaces
<1>4. ~ IsAsked(F, <<f.name>>)
    <2> SUFFICES ASSUME NEW a, NEW g, AsksAt(F, <<f.name>>, a, g) PROVE FALSE
        BY DEF IsAsked
    <2>1. a = <<>> /\ g.name = f.name
        BY <1>1, AskedPlace
    <2>2. PICK some : Holds(F, a, some) /\ g \in Questions(some)
        BY DEF AsksAt
    <2>3. Holds(F, a, F)
        BY <2>1 DEF Holds
    <2>4. some = F
        BY <2>2, <2>3, HoldsOnce
    <2>5. g \in ToSet(F) /\ g.type # "Repeat" /\ f \in ToSet(F) /\ f.type = "Repeat"
        BY <2>2, <2>4 DEF Questions, Repeats
    <2> QED BY <2>1, <2>5 DEF Fitting
<1> QED BY <1>2, <1>3, <1>4 DEF Expected

LEMMA EndRowsPlan ==
  ASSUME NEW F, NEW fields, Fitting(F, fields), NEW answers, NEW S,
         NEW work \in Seq(Underway(fields)), Plan(F, answers, work, S),
         NEW x, NEW j, ComesIn(work, x, j), j.kind = "Field", j.field.type = "Repeat",
         NEW other, Retopped(work, Tail(x.content), other)
  PROVE  /\ Plan(F, answers, other, S)
         /\ ~ BearsText(F, x.place) /\ S # {} /\ Len(work) >= 2
<1>1. TopFacts(F, fields, answers, S, work, x, j)
    BY TopJob
<1>2. PICK n \in Nat : n = Len(work) /\ n >= 2 /\ x = work[n] /\ S # {} /\ j = x.content[1] /\ x.content # <<>>
    BY <1>1 DEF TopFacts
<1>3. /\ x.content \in Seq(Jobs(fields))
      /\ Stage(F, answers, S, x, TRUE)
      /\ ~ BearsText(F, x.place) /\ Due(F, answers, S, j, x.place)
    BY <1>1 DEF TopFacts
<1>4. PICK f \in Repeats(F), m \in 0 .. MaxRows : j = ToCome(f, <<f.name>>, m)
    <2>1. RowsDue(F, answers, j, x.place)
        BY <1>3, DueIs
    <2> QED BY <2>1 DEF RowsDue
<1>5. j.place = <<f.name>>
    BY <1>4, ToComeParts
<1>6. PICK l \in Nat \ {0} : l = Len(x.content) /\ DOMAIN x.content = 1 .. l
    BY <1>2, <1>3
<1>7. PICK c : c = Tail(x.content)
    OBVIOUS
<1>8. DOMAIN c = 1 .. l - 1 /\ \A i \in 1 .. l - 1 : c[i] = x.content[i + 1]
    <2>1. c \in Seq(Jobs(fields)) /\ Len(c) = l - 1 /\ \A i \in 1 .. l - 1 : c[i] = x.content[i + 1]
        BY <1>2, <1>3, <1>6, <1>7, TailIs
    <2> QED BY <2>1
<1>9. /\ Len(other) = n /\ (\A k \in 1 .. n - 1 : other[k] = work[k])
      /\ other[n].place = x.place /\ other[n].content = c
    BY <1>2, <1>7 DEF Retopped
<1>10. Stage(F, answers, S, other[n], TRUE)
    <2>1. ASSUME NEW i \in DOMAIN c
          PROVE  Due(F, answers, S, c[i], x.place) /\ (RowDue(F, answers, c[i], x.place) => i = 1)
        <3>1. c[i] = x.content[i + 1] /\ i + 1 \in DOMAIN x.content /\ i + 1 # 1
            BY <1>6, <1>8
        <3> QED BY <1>3, <3>1 DEF Stage
    <2>2. ASSUME NEW i \in DOMAIN c, NEW k \in DOMAIN c, c[i].place = c[k].place PROVE i = k
        <3>1. c[i] = x.content[i + 1] /\ i + 1 \in DOMAIN x.content /\ c[k] = x.content[k + 1] /\ k + 1 \in DOMAIN x.content
            BY <1>6, <1>8
        <3>2. i + 1 = k + 1
            BY <1>3, <2>2, <3>1 DEF Stage
        <3> QED BY <1>8, <3>2
    <2> QED BY <1>3, <1>9, <2>1, <2>2 DEF Stage
<1>11. Staged(F, answers, other, S)
    <2> SUFFICES ASSUME NEW k \in 2 .. n PROVE Stage(F, answers, S, other[k], k = n)
        BY <1>9 DEF Staged
    <2>1. CASE k = n
        BY <1>10, <2>1
    <2>2. CASE k # n
        <3>1. other[k] = work[k] /\ k \in 2 .. Len(work)
            BY <1>2, <1>9, <2>2
        <3> QED BY <1>2, <3>1 DEF Plan, Staged
    <2> QED BY <2>1, <2>2
<1>12. OneStage(other)
    <2>1. \A k \in 2 .. n : other[k].place = work[k].place
        BY <1>2, <1>9
    <2> QED BY <1>2, <1>9, <2>1 DEF Plan, OneStage
<1>13. Outset(F, answers, other, S)
    <2>1. other[1] = work[1] /\ other[2].place = work[2].place
        BY <1>2, <1>9
    <2> QED BY <1>2, <1>9, <2>1 DEF Plan, Outset
<1>14. Ahead(F, answers, other, S)
    <2> SUFFICES ASSUME NEW q, Expected(F, answers, q), Awaited(work, q) PROVE Awaited(other, q)
        BY DEF Plan, Ahead
    <2>1. PICK k \in 2 .. n : work[k].place = Outer(q) /\ WaitsIn(work[k], q)
        BY <1>2 DEF Awaited
    <2>2. CASE k # n
        <3>1. other[k] = work[k]
            BY <1>2, <1>9, <2>2
        <3> QED BY <1>9, <2>1, <3>1 DEF Awaited
    <2>3. CASE k = n
        <3>1. PICK i \in 1 .. l : x.content[i].place = q
            BY <1>2, <1>6, <2>1, <2>3 DEF WaitsIn
        <3>2. i # 1
            BY <1>2, <1>5, <2>1, <3>1, RepeatIsNoPlace
        <3>3. i - 1 \in 1 .. l - 1 /\ (i - 1) + 1 = i
            BY <3>2
        <3>4. c[i - 1].place = q /\ i - 1 \in DOMAIN c
            BY <1>8, <3>1, <3>3
        <3>5. WaitsIn(other[n], q)
            BY <1>9, <3>4 DEF WaitsIn
        <3> QED BY <1>2, <1>9, <2>1, <2>3, <3>5 DEF Awaited
    <2> QED BY <2>2, <2>3
<1> QED BY <1>2, <1>3, <1>11, <1>12, <1>13, <1>14 DEF Plan

LEMMA HeadSplit ==
  ASSUME NEW T, NEW s \in Seq(T), s # <<>>, NEW y, NEW z, NEW c, c = <<y, z>> \o Tail(s)
  PROVE  /\ DOMAIN c = 1 .. Len(s) + 1 /\ c[1] = y /\ c[2] = z
         /\ \A i \in 3 .. Len(s) + 1 : i - 1 \in DOMAIN s /\ c[i] = s[i - 1]
<1>1. PICK n \in Nat : n = Len(s)
    OBVIOUS
<1>2. n # 0 /\ Tail(s) \in Seq(T) /\ Len(Tail(s)) = n - 1 /\ \A i \in 1 .. n - 1 : Tail(s)[i] = s[i + 1]
    BY <1>1, TailIs
<1>3. PICK t : t = Tail(s)
    OBVIOUS
<1>4. PICK h : h = <<y, z>>
    OBVIOUS
<1>5. t = [k \in 1 .. n - 1 |-> t[k]] /\ n - 1 \in Nat
    <2>1. t \in Seq(T) /\ Len(t) = n - 1 /\ n - 1 \in Nat
        BY <1>1, <1>2, <1>3
    <2> QED BY <2>1
<1>6. h = [k \in 1 .. 2 |-> h[k]] /\ h[1] = y /\ h[2] = z
    BY <1>4
<1>7. h \o t = [k \in 1 .. 2 + (n - 1) |-> IF k <= 2 THEN h[k] ELSE t[k - 2]]
    BY <1>5, <1>6, ConcatAny
<1>8. c = [k \in 1 .. n + 1 |-> IF k <= 2 THEN h[k] ELSE t[k - 2]]
    BY <1>1, <1>2, <1>3, <1>4, <1>7
<1>9. DOMAIN c = 1 .. n + 1 /\ c[1] = y /\ c[2] = z
    BY <1>1, <1>2, <1>6, <1>8
<1>10. ASSUME NEW i \in 3 .. n + 1 PROVE i - 1 \in 1 .. n /\ c[i] = s[i - 1]
    <2>1. c[i] = t[i - 2] /\ i - 2 \in 1 .. n - 1 /\ (i - 2) + 1 = i - 1
        BY <1>8
    <2> QED BY <1>2, <1>3, <2>1
<1> QED BY <1>1, <1>9, <1>10

\* One more row leaves what is due to the rest.
MoreRows(F, answers, f, m, p, more) ==
  /\ f \in Repeats(F) /\ m \in 1 .. MaxRows /\ p = <<f.name, m>> /\ p \notin DOMAIN answers
  /\ DOMAIN more = DOMAIN answers \cup {p} /\ \A q \in DOMAIN answers : more[q] = answers[q]

LEMMA DueBesideRow ==
  ASSUME NEW F, NEW fields, Fitting(F, fields), NEW answers, NEW p, NEW f, NEW m, NEW more,
         MoreRows(F, answers, f, m, p, more), NEW S, NEW y, NEW a,
         Due(F, answers, S, y, a), ~ RowDue(F, answers, y, a), y.place # <<f.name>>
  PROVE  Due(F, more, S, y, a) /\ ~ RowDue(F, more, y, a) /\ y.place # p
<1> USE DEF MoreRows
<1>1. ASSUME NEW g \in Repeats(F), g.name # f.name PROVE Rowed(more, g) = Rowed(answers, g)
    <2>1. \A n \in 1 .. MaxRows : <<g.name, n>> # p
        <3>1. \A x, z : NameAt(<<x, z>>) = x
            BY AtRows
        <3> QED BY <1>1, <3>1
    <2> QED BY <2>1 DEF Rowed
<1>2. ~ IsAsked(F, p) /\ IsRow(F, p) /\ p # MetaPlace /\ p # IdPlace /\ Len(p) = 2
    BY RowPlace
<1>3. CASE QuestionDue(F, answers, y, a)
    <2>1. PICK g : AsksAt(F, y.place, a, g) /\ y = ToCome(g, y.place, 0) /\ y.place \notin DOMAIN answers
        BY <1>3 DEF QuestionDue
    <2>2. y.place # p
        BY <1>2, <2>1 DEF IsAsked
    <2>3. QuestionDue(F, more, y, a)
        BY <2>1, <2>2 DEF QuestionDue
    <2>4. y.kind = "Field"
        BY <2>1, ToComeParts
    <2>5. ~ RowDue(F, more, y, a)
        BY <2>4, NodeKinds DEF RowDue
    <2> QED BY <2>2, <2>3, <2>5 DEF Due
<1>4. CASE RowsDue(F, answers, y, a)
    <2>1. PICK g \in Repeats(F), n \in 0 .. MaxRows :
            a = <<>> /\ y = ToCome(g, <<g.name>>, n) /\ Rowed(answers, g) = 1 .. n
        BY <1>4 DEF RowsDue
    <2>2. y.kind = "Field" /\ y.place = <<g.name>>
        BY <2>1, ToComeParts
    <2>3. Rowed(more, g) = Rowed(answers, g)
        BY <1>1, <2>2
    <2>4. RowsDue(F, more, y, a)
        BY <2>1, <2>3 DEF RowsDue
    <2>5. ~ RowDue(F, more, y, a)
        BY <2>2, NodeKinds DEF RowDue
    <2>6. y.place # p
        BY <1>2, <2>2, AtFields
    <2> QED BY <2>4, <2>5, <2>6 DEF Due
<1>5. CASE y.place \notin S /\ AnswerDue(F, answers, y, a)
    <2>1. PICK g : AsksAt(F, y.place, a, g) /\ y = Leaf(<<g.name>>, y.place, answers[y.place]) /\ y.place \in DOMAIN answers
        BY <1>5 DEF AnswerDue
    <2>2. y.place # p /\ ~ IsRow(F, y.place)
        BY <1>2, <2>1, AskedPlace DEF IsAsked
    <2>3. AnswerDue(F, more, y, a)
        BY <2>1 DEF AnswerDue
    <2>4. ~ RowDue(F, more, y, a)
        BY <2>2, NodeKinds DEF RowDue, IsRow
    <2> QED BY <1>5, <2>2, <2>3, <2>4 DEF Due
<1>6. CASE y.place \notin S /\ MetaDue(y, a)
    <2>1. y.place \in {MetaPlace, IdPlace}
        BY <1>6, NodeKinds DEF MetaDue
    <2>2. y.place # p /\ ~ IsRow(F, y.place)
        BY <1>2, <2>1, MetaPlaces
    <2>3. ~ RowDue(F, more, y, a)
        BY <2>2, NodeKinds DEF RowDue, IsRow
    <2> QED BY <1>6, <2>2, <2>3 DEF Due
<1> QED BY <1>3, <1>4, <1>5, <1>6 DEF Due

RowAdded(answers, j, p, more, r, t) ==
  /\ p = Append(j.place, j.rows + 1)
  /\ more = [q \in DOMAIN answers \cup {p} |-> IF q = p THEN <<>> ELSE answers[q]]
  /\ r = Node(<<j.field.name>>, <<>>, p, Fields(j.field.children, p))
  /\ t = ToCome(j.field, j.place, j.rows + 1)

LEMMA AddRowPlan ==
  ASSUME NEW F, NEW fields, Fitting(F, fields), NEW answers, NEW S,
         NEW work \in Seq(Underway(fields)), Plan(F, answers, work, S),
         NEW x, NEW j, ComesIn(work, x, j), j.kind = "Field", j.field.type = "Repeat", j.rows < MaxRows,
         NEW p, NEW more, NEW r, NEW t, RowAdded(answers, j, p, more, r, t),
         NEW other, Retopped(work, <<r, t>> \o Tail(x.content), other)
  PROVE  /\ Plan(F, more, other, S)
         /\ p \notin S /\ ~ BearsText(F, x.place) /\ S # {} /\ Len(work) >= 2 /\ IsRow(F, p)
<1>1. TopFacts(F, fields, answers, S, work, x, j)
    BY TopJob
<1>2. PICK n \in Nat : n = Len(work) /\ n >= 2 /\ x = work[n] /\ S # {} /\ j = x.content[1] /\ x.content # <<>>
    BY <1>1 DEF TopFacts
<1>3. /\ x.content \in Seq(Jobs(fields)) /\ 1 \in DOMAIN x.content
      /\ Stage(F, answers, S, x, TRUE)
      /\ ~ BearsText(F, x.place) /\ Due(F, answers, S, j, x.place)
    BY <1>1 DEF TopFacts
<1>4. PICK f \in Repeats(F), m \in 0 .. MaxRows :
        x.place = <<>> /\ j = ToCome(f, <<f.name>>, m) /\ Rowed(answers, f) = 1 .. m
    <2>1. RowsDue(F, answers, j, x.place)
        BY <1>3, DueIs
    <2> QED BY <2>1 DEF RowsDue
<1>5. j.place = <<f.name>> /\ j.field = f /\ j.rows = m
    BY <1>4, ToComeParts
<1>6. m + 1 \in 1 .. MaxRows /\ m + 1 \in 0 .. MaxRows /\ p = <<f.name, m + 1>>
    <2>1. m + 1 \in 1 .. MaxRows /\ m + 1 \in 0 .. MaxRows
        BY <1>5 DEF Fitting
    <2> QED BY <1>5, <2>1, AtRows DEF RowAdded
<1>7. IsRow(F, p) /\ ~ IsAsked(F, p) /\ p # MetaPlace /\ p # IdPlace /\ Outer(p) = <<>> /\ p # <<>> /\ Len(p) = 2
    BY <1>6, RowPlace
<1>8. p \notin DOMAIN answers
    <2>1. m + 1 \notin 1 .. m
        BY <1>4
    <2> QED BY <1>4, <1>6, <2>1 DEF Rowed
<1>9. p \notin S
    BY <1>7, <1>8 DEF Plan, Reached, Expected
<1>10. DOMAIN more = DOMAIN answers \cup {p} /\ \A q \in DOMAIN answers : more[q] = answers[q]
    BY <1>8 DEF RowAdded
<1>11. Rowed(more, f) = 1 .. m + 1
    <2>1. \A i \in 1 .. MaxRows : <<f.name, i>> = p <=> i = m + 1
        BY <1>6
    <2>2. Rowed(more, f) = Rowed(answers, f) \cup {m + 1}
        BY <1>6, <1>10, <2>1 DEF Rowed
    <2> QED BY <1>4, <2>2
<1>12. \A g \in Repeats(F) : g.name # f.name => Rowed(more, g) = Rowed(answers, g)
    <2> SUFFICES ASSUME NEW g \in Repeats(F), g.name # f.name PROVE Rowed(more, g) = Rowed(answers, g)
        OBVIOUS
    <2>1. \A i \in 1 .. MaxRows : <<g.name, i>> # p
        <3>1. \A a, z : NameAt(<<a, z>>) = a
            BY AtRows
        <3> QED BY <1>6, <3>1
    <2> QED BY <1>10, <2>1 DEF Rowed
<1>13. r = RowNode(f, m + 1) /\ r.place = p /\ r.kind = "Node"
    <2>1. r = RowNode(f, m + 1)
        BY <1>5, <1>6 DEF RowNode, RowAdded
    <2> QED BY <1>6, <2>1, NodeKinds
<1>14. RowDue(F, more, r, <<>>)
    BY <1>6, <1>11, <1>13 DEF RowDue
<1>15. Due(F, more, S, r, <<>>)
    BY <1>9, <1>13, <1>14 DEF Due
<1>16. t = ToCome(f, <<f.name>>, m + 1) /\ t.kind = "Field" /\ t.place = <<f.name>>
    BY <1>5, ToComeParts DEF RowAdded
<1>17. Due(F, more, S, t, <<>>) /\ ~ RowDue(F, more, t, <<>>)
    <2>1. RowsDue(F, more, t, <<>>)
        BY <1>6, <1>11, <1>16 DEF RowsDue
    <2>2. ~ RowDue(F, more, t, <<>>)
        BY <1>16, NodeKinds DEF RowDue
    <2> QED BY <2>1, <2>2 DEF Due
<1>18. PICK l \in Nat \ {0} : l = Len(x.content) /\ DOMAIN x.content = 1 .. l
    BY <1>2, <1>3
<1>19. PICK c : c = <<r, t>> \o Tail(x.content)
    OBVIOUS
<1>20. /\ DOMAIN c = 1 .. l + 1 /\ c[1] = r /\ c[2] = t
       /\ \A i \in 3 .. l + 1 : i - 1 \in 2 .. l /\ c[i] = x.content[i - 1]
    <2>1. /\ DOMAIN c = 1 .. l + 1 /\ c[1] = r /\ c[2] = t
          /\ \A i \in 3 .. l + 1 : c[i] = x.content[i - 1]
        BY <1>2, <1>3, <1>18, <1>19, HeadSplit
    <2> QED BY <1>18, <2>1
<1>21. /\ Len(other) = n /\ (\A k \in 1 .. n - 1 : other[k] = work[k])
       /\ other[n].place = x.place /\ other[n].content = c
    BY <1>2, <1>19 DEF Retopped
<1>22. n = 2
    <2>1. work[2].place = <<>> /\ 2 \in 2 .. Len(work) /\ n \in 2 .. Len(work)
        BY <1>2 DEF Plan, Outset
    <2> QED BY <1>2, <1>4, <2>1 DEF Plan, OneStage
<1>34. MoreRows(F, answers, f, m + 1, p, more)
    BY <1>6, <1>8, <1>10 DEF MoreRows
<1>23. ASSUME NEW i \in 2 .. l
       PROVE  /\ Due(F, more, S, x.content[i], <<>>) /\ ~ RowDue(F, more, x.content[i], <<>>)
              /\ x.content[i].place # p /\ x.content[i].place # <<f.name>>
    <2>1. i \in DOMAIN x.content /\ i # 1
        BY <1>18
    <2>2. Due(F, answers, S, x.content[i], <<>>) /\ ~ RowDue(F, answers, x.content[i], <<>>)
        BY <1>3, <1>4, <2>1 DEF Stage
    <2>3. x.content[i].place # <<f.name>>
        BY <1>2, <1>3, <1>5, <2>1 DEF Stage
    <2>4. Due(F, more, S, x.content[i], <<>>) /\ ~ RowDue(F, more, x.content[i], <<>>) /\ x.content[i].place # p
        BY <1>34, <2>2, <2>3, DueBesideRow
    <2> QED BY <2>3, <2>4
<1>24. p # <<f.name>>
    BY <1>7, AtFields
<1>25. Stage(F, more, S, other[2], TRUE)
    <2>1. ASSUME NEW i \in 1 .. l + 1
          PROVE  Due(F, more, S, c[i], <<>>) /\ (RowDue(F, more, c[i], <<>>) => i = 1)
        <3>1. CASE i = 1
            BY <1>15, <1>20, <3>1
        <3>2. CASE i = 2
            BY <1>17, <1>20, <3>2
        <3>3. CASE i \in 3 .. l + 1
            BY <1>20, <1>23, <3>3
        <3> QED BY <3>1, <3>2, <3>3
    <2>2. ASSUME NEW i \in 1 .. l + 1, NEW k \in 1 .. l + 1, c[i].place = c[k].place, i < k PROVE FALSE
        <3>1. CASE i = 1 /\ k = 2
            BY <1>13, <1>16, <1>20, <1>24, <2>2, <3>1
        <3>2. CASE i \in {1, 2} /\ k \in 3 .. l + 1
            <4>1. x.content[k - 1].place # p /\ x.content[k - 1].place # <<f.name>> /\ c[k] = x.content[k - 1]
                BY <1>20, <1>23, <3>2
            <4> QED BY <1>13, <1>16, <1>20, <2>2, <3>2, <4>1
        <3>3. CASE i \in 3 .. l + 1 /\ k \in 3 .. l + 1
            <4>1. c[i] = x.content[i - 1] /\ c[k] = x.content[k - 1] /\ i - 1 \in DOMAIN x.content /\ k - 1 \in DOMAIN x.content
                BY <1>18, <1>20, <3>3
            <4>2. i - 1 = k - 1
                BY <1>3, <2>2, <4>1 DEF Stage
            <4> QED BY <2>2, <4>2
        <3> QED BY <2>2, <3>1, <3>2, <3>3
    <2>3. \A i, k \in DOMAIN c : c[i].place = c[k].place => i = k
        <3>1. ASSUME NEW i \in 1 .. l + 1, NEW k \in 1 .. l + 1, c[i].place = c[k].place PROVE i = k
            <4>1. ~ (i < k) /\ ~ (k < i)
                BY <2>2, <3>1
            <4> QED BY <4>1
        <3> QED BY <1>20, <3>1
    <2>4. other[2].place = <<>> /\ other[2].content = c
        BY <1>4, <1>21, <1>22
    <2>5. x.place = other[2].place /\ x.place \in S
        BY <1>3, <1>4, <2>4 DEF Stage
    <2> QED BY <1>3, <1>20, <2>1, <2>3, <2>4, <2>5 DEF Stage
<1>26. Staged(F, more, other, S) /\ OneStage(other)
    <2>1. ASSUME NEW k \in 2 .. Len(other) PROVE k = 2 /\ (k = Len(other)) = TRUE
        BY <1>21, <1>22
    <2> QED BY <1>25, <2>1 DEF Staged, OneStage
<1>27. Outset(F, more, other, S)
    <2>1. other[1] = work[1] /\ other[2].place = <<>>
        BY <1>4, <1>21, <1>22
    <2> QED BY <1>2, <2>1 DEF Plan, Outset
<1>28. \A q : Expected(F, more, q) => Expected(F, answers, q) \/ q = p
    BY <1>10 DEF Expected
<1>29. \A q : Expected(F, answers, q) => Expected(F, more, q)
    BY <1>10 DEF Expected
<1>30. Reached(F, more, S)
    BY <1>10, <1>29 DEF Plan, Reached
<1>31. Ahead(F, more, other, S)
    <2>1. Awaited(other, p)
        <3>1. WaitsIn(other[2], p)
            <4>1. 1 \in DOMAIN c /\ c[1].place = p /\ other[2].content = c
                BY <1>13, <1>20, <1>21, <1>22
            <4> QED BY <4>1 DEF WaitsIn
        <3>2. other[2].place = Outer(p) /\ 2 \in 2 .. Len(other)
            BY <1>4, <1>7, <1>21, <1>22
        <3> QED BY <3>1, <3>2 DEF Awaited
    <2>2. ASSUME NEW q, Expected(F, answers, q), Awaited(work, q) PROVE Awaited(other, q)
        <3>1. Outer(q) = <<>> /\ WaitsIn(x, q)
            <4>1. PICK k \in 2 .. Len(work) : work[k].place = Outer(q) /\ WaitsIn(work[k], q)
                BY <2>2 DEF Awaited
            <4>2. k = 2
                BY <1>2, <1>22
            <4> QED BY <1>2, <1>4, <1>22, <4>1, <4>2
        <3>2. PICK i \in 1 .. l : x.content[i].place = q
            BY <1>18, <3>1 DEF WaitsIn
        <3>3. i # 1
            BY <1>2, <1>5, <2>2, <3>2, RepeatIsNoPlace
        <3>4. i + 1 \in 3 .. l + 1 /\ (i + 1) - 1 = i
            BY <3>3
        <3>5. c[i + 1].place = q /\ i + 1 \in DOMAIN c
            BY <1>20, <3>2, <3>4
        <3>6. WaitsIn(other[2], q)
            BY <1>21, <1>22, <3>5 DEF WaitsIn
        <3>7. other[2].place = Outer(q) /\ 2 \in 2 .. Len(other)
            BY <1>4, <1>21, <1>22, <3>1
        <3> QED BY <3>6, <3>7 DEF Awaited
    <2> QED BY <1>28, <2>1, <2>2 DEF Plan, Ahead
<1>32. Answering(F, more, S)
    <2>1. \A q \in DOMAIN answers : AnsweredIn(F, answers, S, q) => AnsweredIn(F, more, S, q)
        BY <1>10 DEF AnsweredIn
    <2> QED BY <1>7, <1>10, <2>1 DEF Plan, Answering
<1>33. Numbered(F, more)
    <2> SUFFICES ASSUME NEW g \in Repeats(F) PROVE \E k \in 0 .. MaxRows : Rowed(more, g) = 1 .. k
        BY DEF Numbered
    <2>1. CASE g.name = f.name
        <3>1. g = f
            BY <2>1 DEF Fitting, Repeats
        <3> QED BY <1>6, <1>11, <3>1
    <2>2. CASE g.name # f.name
        BY <1>12, <2>2 DEF Plan, Numbered
    <2> QED BY <2>1, <2>2
<1> QED BY <1>2, <1>3, <1>7, <1>9, <1>26, <1>27, <1>30, <1>31, <1>32, <1>33 DEF Plan

\* What is due when one more element is written.
LEMMA DueLater ==
  ASSUME NEW F, NEW answers, NEW S, NEW y, NEW a, NEW p,
         Due(F, answers, S, y, a), y.kind = "Node" => y.place # p
  PROVE  Due(F, answers, S \cup {p}, y, a)
<1>1. CASE y.kind = "Node"
    BY <1>1 DEF Due
<1>2. CASE y.kind # "Node"
    <2>1. y.kind = "Field"
        BY <1>2, DueIs
    <2>2. QuestionDue(F, answers, y, a) \/ RowsDue(F, answers, y, a)
        BY <2>1, DueIs
    <2> QED BY <2>2 DEF Due
<1> QED BY <1>1, <1>2

\* The stages when the next element is written.
TakenFrom(F, answers, work, S, x, j, next, y) ==
  /\ Stage(F, answers, S \cup {j.place}, y, next)
  /\ \A k \in 2 .. Len(work) - 1 : Stage(F, answers, S \cup {j.place}, work[k], FALSE)
  /\ \A q : WaitsIn(x, q) => q = j.place \/ WaitsIn(y, q)
  /\ ~ BearsText(F, x.place) /\ S # {} /\ Len(work) \in Nat /\ Len(work) >= 2
  /\ j.place \notin S /\ j.place # <<>> /\ Outer(j.place) = x.place /\ x.place \in S
  /\ x = work[Len(work)] /\ x.content # <<>> /\ j = x.content[1]
  /\ Expected(F, answers, j.place) /\ (IsAsked(F, j.place) => j.place \in DOMAIN answers)

LEMMA NodeTaken ==
  ASSUME NEW F, NEW fields, Fitting(F, fields), NEW answers, NEW S,
         NEW work \in Seq(Underway(fields)), Plan(F, answers, work, S),
         NEW x, NEW j, ComesIn(work, x, j), j.kind = "Node", S # {}, NEW next \in BOOLEAN,
         NEW y, y.place = x.place, y.content = Tail(x.content)
  PROVE  TakenFrom(F, answers, work, S, x, j, next, y)
<1>1. TopFacts(F, fields, answers, S, work, x, j)
    BY TopJob
<1>2. PICK n \in Nat : n = Len(work) /\ n >= 2 /\ x = work[n] /\ S # {} /\ j = x.content[1] /\ x.content # <<>>
    BY <1>1 DEF TopFacts
<1>3. /\ x.content \in Seq(Jobs(fields)) /\ 1 \in DOMAIN x.content /\ x.place \in S
      /\ Stage(F, answers, S, x, TRUE)
      /\ ~ BearsText(F, x.place) /\ Due(F, answers, S, j, x.place)
    BY <1>1 DEF TopFacts
<1>4. /\ j.place \notin S /\ j.place # <<>> /\ Outer(j.place) = x.place
      /\ Expected(F, answers, j.place) /\ (IsAsked(F, j.place) => j.place \in DOMAIN answers)
    BY <1>3, NodeIs
<1>5. PICK l \in Nat \ {0} : l = Len(x.content) /\ DOMAIN x.content = 1 .. l
    BY <1>2, <1>3
<1>6. PICK c : c = Tail(x.content)
    OBVIOUS
<1>7. DOMAIN c = 1 .. l - 1 /\ \A i \in 1 .. l - 1 : c[i] = x.content[i + 1]
    <2>1. c \in Seq(Jobs(fields)) /\ Len(c) = l - 1 /\ \A i \in 1 .. l - 1 : c[i] = x.content[i + 1]
        BY <1>2, <1>3, <1>5, <1>6, TailIs
    <2> QED BY <2>1
<1>8. Stage(F, answers, S \cup {j.place}, y, next)
    <2>1. ASSUME NEW i \in DOMAIN c
          PROVE  Due(F, answers, S \cup {j.place}, c[i], x.place) /\ ~ RowDue(F, answers, c[i], x.place)
        <3>1. c[i] = x.content[i + 1] /\ i + 1 \in DOMAIN x.content /\ i + 1 # 1
            BY <1>5, <1>7
        <3>2. Due(F, answers, S, c[i], x.place) /\ ~ RowDue(F, answers, c[i], x.place) /\ c[i].place # j.place
            BY <1>2, <1>3, <3>1 DEF Stage
        <3> QED BY <3>2, DueLater
    <2>2. ASSUME NEW i \in DOMAIN c, NEW k \in DOMAIN c, c[i].place = c[k].place PROVE i = k
        <3>1. c[i] = x.content[i + 1] /\ i + 1 \in DOMAIN x.content /\ c[k] = x.content[k + 1] /\ k + 1 \in DOMAIN x.content
            BY <1>5, <1>7
        <3>2. i + 1 = k + 1
            BY <1>3, <2>2, <3>1 DEF Stage
        <3> QED BY <1>7, <3>2
    <2>3. y.content = c
        BY <1>6
    <2> QED BY <1>3, <2>1, <2>2, <2>3 DEF Stage
<1>9. ASSUME NEW k \in 2 .. n - 1 PROVE Stage(F, answers, S \cup {j.place}, work[k], FALSE)
    <2>1. Stage(F, answers, S, work[k], FALSE)
        <3>1. k \in 2 .. Len(work) /\ (k = Len(work)) = FALSE
            BY <1>2
        <3> QED BY <3>1 DEF Plan, Staged
    <2>2. work[k].place # x.place
        <3>1. k \in 2 .. Len(work) /\ Len(work) \in 2 .. Len(work) /\ k # Len(work)
            BY <1>2
        <3> QED BY <1>2, <3>1 DEF Plan, OneStage
    <2>3. ASSUME NEW i \in DOMAIN work[k].content, ~ BearsText(F, work[k].place)
          PROVE  Due(F, answers, S \cup {j.place}, work[k].content[i], work[k].place)
        <3>1. Due(F, answers, S, work[k].content[i], work[k].place)
            BY <2>1, <2>3 DEF Stage
        <3>2. work[k].content[i].kind = "Node" => work[k].content[i].place # j.place
            BY <1>4, <2>2, <3>1, NodeIs
        <3> QED BY <3>1, <3>2, DueLater
    <2> QED BY <2>1, <2>3 DEF Stage
<1>10. ASSUME NEW q, WaitsIn(x, q) PROVE q = j.place \/ WaitsIn(y, q)
    <2>1. PICK i \in 1 .. l : x.content[i].place = q
        BY <1>5, <1>10 DEF WaitsIn
    <2>2. CASE i = 1
        BY <1>2, <2>1, <2>2
    <2>3. CASE i # 1
        <3>1. i - 1 \in 1 .. l - 1 /\ (i - 1) + 1 = i
            BY <2>3
        <3>2. c[i - 1].place = q /\ i - 1 \in DOMAIN c
            BY <1>7, <2>1, <3>1
        <3> QED BY <1>6, <3>2 DEF WaitsIn
    <2> QED BY <2>2, <2>3
<1> QED BY <1>2, <1>3, <1>4, <1>8, <1>9, <1>10 DEF TakenFrom

Pushed(work, c, j, other) ==
  /\ Len(other) = Len(work) + 1
  /\ \A k \in 1 .. Len(work) - 1 : other[k] = work[k]
  /\ other[Len(work)].place = work[Len(work)].place
  /\ other[Len(work)].tag = work[Len(work)].tag
  /\ other[Len(work)].content = c
  /\ other[Len(work) + 1] = j

LEMMA OpenPlan ==
  ASSUME NEW F, NEW fields, Fitting(F, fields), NEW answers, NEW S,
         NEW work \in Seq(Underway(fields)), Plan(F, answers, work, S),
         NEW x, NEW j, ComesIn(work, x, j), j.kind = "Node", S # {},
         NEW other, Pushed(work, Tail(x.content), j, other)
  PROVE  Plan(F, answers, other, S \cup {j.place})
<1>1. PICK T : T = S \cup {j.place}
    OBVIOUS
<1>2. PICK n \in Nat : n = Len(work) /\ n >= 2 /\ x = work[n]
    <2>1. TopFacts(F, fields, answers, S, work, x, j)
        BY TopJob
    <2> QED BY <2>1 DEF TopFacts
<1>3. /\ Len(other) = n + 1 /\ (\A k \in 1 .. n - 1 : other[k] = work[k])
      /\ other[n].place = x.place /\ other[n].content = Tail(x.content) /\ other[n + 1] = j
    BY <1>2 DEF Pushed
<1>4. TakenFrom(F, answers, work, S, x, j, FALSE, other[n])
    BY <1>3, NodeTaken
<1>5. /\ Stage(F, answers, T, other[n], FALSE)
      /\ \A k \in 2 .. n - 1 : Stage(F, answers, T, work[k], FALSE)
      /\ \A q : WaitsIn(x, q) => q = j.place \/ WaitsIn(other[n], q)
      /\ j.place \notin S /\ j.place # <<>> /\ Outer(j.place) = x.place /\ x.place \in S
      /\ Expected(F, answers, j.place) /\ (IsAsked(F, j.place) => j.place \in DOMAIN answers)
    BY <1>1, <1>2, <1>4 DEF TakenFrom
<1>6. /\ Stage(F, answers, T, j, TRUE)
      /\ \A q : Expected(F, answers, q) /\ Outer(q) = j.place => WaitsIn(j, q)
    <2>1. Due(F, answers, S, j, x.place)
        <3>1. TopFacts(F, fields, answers, S, work, x, j)
            BY TopJob
        <3> QED BY <1>4, <3>1 DEF TopFacts, TakenFrom
    <2> QED BY <1>1, <2>1, OpensWhole DEF Plan
<1>7. Staged(F, answers, other, T)
    <2> SUFFICES ASSUME NEW k \in 2 .. n + 1 PROVE Stage(F, answers, T, other[k], k = n + 1)
        BY <1>3 DEF Staged
    <2>1. CASE k = n + 1
        BY <1>3, <1>6, <2>1
    <2>2. CASE k = n
        <3>1. (k = n + 1) = FALSE
            BY <2>2
        <3> QED BY <1>5, <2>2, <3>1
    <2>3. CASE k \in 2 .. n - 1
        <3>1. (k = n + 1) = FALSE /\ other[k] = work[k]
            BY <1>3, <2>3
        <3> QED BY <1>5, <2>3, <3>1
    <2> QED BY <2>1, <2>2, <2>3
<1>8. \A k \in 2 .. n : other[k].place = work[k].place /\ work[k].place # j.place
    <2> SUFFICES ASSUME NEW k \in 2 .. n PROVE other[k].place = work[k].place /\ work[k].place # j.place
        OBVIOUS
    <2>1. other[k].place = work[k].place
        BY <1>2, <1>3
    <2>2. work[k].place \in S
        <3>1. Stage(F, answers, S, work[k], k = Len(work))
            BY <1>2 DEF Plan, Staged
        <3> QED BY <3>1 DEF Stage
    <2> QED BY <1>5, <2>1, <2>2
<1>9. OneStage(other)
    <2> SUFFICES ASSUME NEW k \in 2 .. n + 1, NEW l \in 2 .. n + 1, other[k].place = other[l].place PROVE k = l
        BY <1>3 DEF OneStage
    <2>1. CASE k = n + 1 /\ l = n + 1
        BY <2>1
    <2>2. CASE k \in 2 .. n /\ l \in 2 .. n
        BY <1>2, <1>8, <2>2 DEF Plan, OneStage
    <2>3. CASE k = n + 1 /\ l \in 2 .. n
        BY <1>3, <1>8, <2>3
    <2>4. CASE l = n + 1 /\ k \in 2 .. n
        BY <1>3, <1>8, <2>4
    <2> QED BY <2>1, <2>2, <2>3, <2>4
<1>10. Outset(F, answers, other, T)
    <2>1. other[1] = work[1] /\ other[2].place = work[2].place
        BY <1>2, <1>3, <1>8
    <2> QED BY <1>1, <1>2, <1>3, <2>1 DEF Plan, Outset
<1>11. Reached(F, answers, T)
    BY <1>1, <1>5 DEF Plan, Reached
<1>12. Ahead(F, answers, other, T)
    <2> SUFFICES ASSUME NEW q, Expected(F, answers, q), Outer(q) \in T PROVE q \in T \/ Awaited(other, q)
        BY DEF Ahead
    <2>1. CASE Outer(q) = j.place
        <3>1. WaitsIn(other[n + 1], q) /\ other[n + 1].place = Outer(q) /\ n + 1 \in 2 .. Len(other)
            BY <1>2, <1>3, <1>6, <2>1
        <3> QED BY <3>1 DEF Awaited
    <2>2. CASE Outer(q) # j.place
        <3>1. q \in S \/ Awaited(work, q)
            BY <1>1, <2>2 DEF Plan, Ahead
        <3>2. ASSUME Awaited(work, q) PROVE q \in T \/ Awaited(other, q)
            <4>1. PICK k \in 2 .. n : work[k].place = Outer(q) /\ WaitsIn(work[k], q)
                BY <1>2, <3>2 DEF Awaited
            <4>2. other[k].place = Outer(q) /\ k \in 2 .. Len(other)
                BY <1>3, <1>8, <4>1
            <4>3. CASE k # n
                <5>1. other[k] = work[k]
                    BY <1>3, <4>3
                <5> QED BY <4>1, <4>2, <5>1 DEF Awaited
            <4>4. CASE k = n
                <5>1. q = j.place \/ WaitsIn(other[k], q)
                    BY <1>2, <1>5, <4>1, <4>4
                <5> QED BY <1>1, <4>2, <5>1 DEF Awaited
            <4> QED BY <4>3, <4>4
        <3> QED BY <1>1, <3>1, <3>2
    <2> QED BY <2>1, <2>2
<1>13. Answering(F, answers, T)
    <2>1. \A q : AnsweredIn(F, answers, S, q) => AnsweredIn(F, answers, T, q)
        BY <1>1 DEF AnsweredIn
    <2> QED BY <2>1 DEF Plan, Answering
<1>14. Plan(F, answers, other, T)
    BY <1>7, <1>9, <1>10, <1>11, <1>12, <1>13 DEF Plan
<1> QED BY <1>1, <1>14

LEMMA EmptyPlan ==
  ASSUME NEW F, NEW fields, Fitting(F, fields), NEW answers, NEW S,
         NEW work \in Seq(Underway(fields)), Plan(F, answers, work, S),
         NEW x, NEW j, ComesIn(work, x, j), j.kind = "Node", S # {}, j.content = <<>>,
         NEW other, Retopped(work, Tail(x.content), other)
  PROVE  Plan(F, answers, other, S \cup {j.place})
<1>1. PICK T : T = S \cup {j.place}
    OBVIOUS
<1>2. PICK n \in Nat : n = Len(work) /\ n >= 2 /\ x = work[n]
    <2>1. TopFacts(F, fields, answers, S, work, x, j)
        BY TopJob
    <2> QED BY <2>1 DEF TopFacts
<1>3. /\ Len(other) = n /\ (\A k \in 1 .. n - 1 : other[k] = work[k])
      /\ other[n].place = x.place /\ other[n].content = Tail(x.content)
    BY <1>2 DEF Retopped
<1>4. TakenFrom(F, answers, work, S, x, j, TRUE, other[n])
    BY <1>3, NodeTaken
<1>5. /\ Stage(F, answers, T, other[n], TRUE)
      /\ \A k \in 2 .. n - 1 : Stage(F, answers, T, work[k], FALSE)
      /\ \A q : WaitsIn(x, q) => q = j.place \/ WaitsIn(other[n], q)
      /\ j.place \notin S /\ j.place # <<>> /\ Outer(j.place) = x.place /\ x.place \in S
      /\ Expected(F, answers, j.place) /\ (IsAsked(F, j.place) => j.place \in DOMAIN answers)
    BY <1>1, <1>2, <1>4 DEF TakenFrom
<1>6. \A q : Expected(F, answers, q) => Outer(q) # j.place
    <2>1. Due(F, answers, S, j, x.place)
        <3>1. TopFacts(F, fields, answers, S, work, x, j)
            BY TopJob
        <3> QED BY <1>4, <3>1 DEF TopFacts, TakenFrom
    <2>2. \A q : Expected(F, answers, q) /\ Outer(q) = j.place => WaitsIn(j, q)
        BY <2>1, OpensWhole DEF Plan
    <2>3. \A q : ~ WaitsIn(j, q)
        BY DEF WaitsIn
    <2> QED BY <2>2, <2>3
<1>7. Staged(F, answers, other, T)
    <2> SUFFICES ASSUME NEW k \in 2 .. n PROVE Stage(F, answers, T, other[k], k = n)
        BY <1>3 DEF Staged
    <2>1. CASE k = n
        BY <1>5, <2>1
    <2>2. CASE k # n
        <3>1. k \in 2 .. n - 1 /\ (k = n) = FALSE /\ other[k] = work[k]
            BY <1>3, <2>2
        <3> QED BY <1>5, <3>1
    <2> QED BY <2>1, <2>2
<1>8. \A k \in 2 .. n : other[k].place = work[k].place
    BY <1>2, <1>3
<1>9. OneStage(other)
    BY <1>2, <1>3, <1>8 DEF Plan, OneStage
<1>10. Outset(F, answers, other, T)
    <2>1. other[1] = work[1] /\ other[2].place = work[2].place
        BY <1>2, <1>3, <1>8
    <2> QED BY <1>1, <1>2, <1>3, <2>1 DEF Plan, Outset
<1>11. Reached(F, answers, T)
    BY <1>1, <1>5 DEF Plan, Reached
<1>12. Ahead(F, answers, other, T)
    <2> SUFFICES ASSUME NEW q, Expected(F, answers, q), Outer(q) \in T PROVE q \in T \/ Awaited(other, q)
        BY DEF Ahead
    <2>1. q \in S \/ Awaited(work, q)
        BY <1>1, <1>6 DEF Plan, Ahead
    <2>2. ASSUME Awaited(work, q) PROVE q \in T \/ Awaited(other, q)
        <3>1. PICK k \in 2 .. n : work[k].place = Outer(q) /\ WaitsIn(work[k], q)
            BY <1>2, <2>2 DEF Awaited
        <3>2. other[k].place = Outer(q) /\ k \in 2 .. Len(other)
            BY <1>3, <1>8, <3>1
        <3>3. CASE k # n
            <4>1. other[k] = work[k]
                BY <1>3, <3>3
            <4> QED BY <3>1, <3>2, <4>1 DEF Awaited
        <3>4. CASE k = n
            <4>1. q = j.place \/ WaitsIn(other[k], q)
                BY <1>2, <1>5, <3>1, <3>4
            <4> QED BY <1>1, <3>2, <4>1 DEF Awaited
        <3> QED BY <3>3, <3>4
    <2> QED BY <1>1, <2>1, <2>2
<1>13. Answering(F, answers, T)
    <2>1. \A q : AnsweredIn(F, answers, S, q) => AnsweredIn(F, answers, T, q)
        BY <1>1 DEF AnsweredIn
    <2> QED BY <2>1 DEF Plan, Answering
<1>14. Plan(F, answers, other, T)
    BY <1>7, <1>9, <1>10, <1>11, <1>12, <1>13 DEF Plan
<1> QED BY <1>1, <1>14

LEMMA TextPlan ==
  ASSUME NEW F, NEW fields, Fitting(F, fields), NEW answers, NEW S,
         NEW work \in Seq(Underway(fields)), Plan(F, answers, work, S),
         NEW x, NEW j, ComesIn(work, x, j), j.kind = "Piece",
         NEW other, Retopped(work, Tail(x.content), other)
  PROVE  Plan(F, answers, other, S) /\ BearsText(F, x.place) /\ x.place \in S /\ S # {} /\ Len(work) >= 2
<1>1. TopFacts(F, fields, answers, S, work, x, j)
    BY TopJob
<1>2. PICK n \in Nat : n = Len(work) /\ n >= 2 /\ x = work[n] /\ S # {} /\ x.content # <<>>
    BY <1>1 DEF TopFacts
<1>3. /\ x.content \in Seq(Jobs(fields)) /\ x.place \in S
      /\ Stage(F, answers, S, x, TRUE) /\ BearsText(F, x.place)
    BY <1>1 DEF TopFacts
<1>5. PICK l \in Nat \ {0} : l = Len(x.content) /\ DOMAIN x.content = 1 .. l
    BY <1>2, <1>3
<1>6. PICK c : c = Tail(x.content)
    OBVIOUS
<1>7. DOMAIN c = 1 .. l - 1 /\ \A i \in 1 .. l - 1 : c[i] = x.content[i + 1]
    <2>1. c \in Seq(Jobs(fields)) /\ Len(c) = l - 1 /\ \A i \in 1 .. l - 1 : c[i] = x.content[i + 1]
        BY <1>2, <1>3, <1>5, <1>6, TailIs
    <2> QED BY <2>1
<1>8. /\ Len(other) = n /\ (\A k \in 1 .. n - 1 : other[k] = work[k])
      /\ other[n].place = x.place /\ other[n].content = c
    BY <1>2, <1>6 DEF Retopped
<1>9. Stage(F, answers, S, other[n], TRUE)
    <2>1. ASSUME NEW i \in DOMAIN c PROVE c[i].kind = "Piece"
        <3>1. c[i] = x.content[i + 1] /\ i + 1 \in DOMAIN x.content
            BY <1>5, <1>7
        <3> QED BY <1>3, <3>1 DEF Stage
    <2> QED BY <1>3, <1>8, <2>1 DEF Stage
<1>10. Staged(F, answers, other, S)
    <2> SUFFICES ASSUME NEW k \in 2 .. n PROVE Stage(F, answers, S, other[k], k = n)
        BY <1>8 DEF Staged
    <2>1. CASE k = n
        BY <1>9, <2>1
    <2>2. CASE k # n
        <3>1. other[k] = work[k] /\ k \in 2 .. Len(work)
            BY <1>2, <1>8, <2>2
        <3> QED BY <1>2, <3>1 DEF Plan, Staged
    <2> QED BY <2>1, <2>2
<1>11. \A k \in 2 .. n : other[k].place = work[k].place
    BY <1>2, <1>8
<1>12. OneStage(other)
    BY <1>2, <1>8, <1>11 DEF Plan, OneStage
<1>13. Outset(F, answers, other, S)
    <2>1. other[1] = work[1] /\ other[2].place = work[2].place
        BY <1>2, <1>8, <1>11
    <2> QED BY <1>2, <1>8, <2>1 DEF Plan, Outset
<1>14. Ahead(F, answers, other, S)
    <2> SUFFICES ASSUME NEW q, Expected(F, answers, q), Awaited(work, q) PROVE Awaited(other, q)
        BY DEF Plan, Ahead
    <2>1. PICK k \in 2 .. n : work[k].place = Outer(q) /\ WaitsIn(work[k], q)
        BY <1>2 DEF Awaited
    <2>2. k # n
        BY <1>2, <1>3, <2>1, ExpectedPlace
    <2>3. other[k] = work[k]
        BY <1>8, <2>2
    <2> QED BY <1>8, <2>1, <2>3 DEF Awaited
<1> QED BY <1>2, <1>3, <1>10, <1>12, <1>13, <1>14 DEF Plan

LEMMA ClosePlan ==
  ASSUME NEW F, NEW fields, NEW answers, NEW S,
         NEW work \in Seq(Underway(fields)), Plan(F, answers, work, S),
         Len(work) > 1, work[Len(work)].content = <<>>,
         NEW other, Len(other) = Len(work) - 1, \A k \in 1 .. Len(work) - 1 : other[k] = work[k]
  PROVE  Plan(F, answers, other, S) /\ S # {}
<1>1. PICK n \in Nat : n = Len(work) /\ n >= 2
    <2>1. Len(work) \in Nat
        OBVIOUS
    <2> QED BY <2>1
<1>2. S # {}
    <2>1. ASSUME S = {} PROVE FALSE
        <3>1. work = <<Node(<<>>, <<>>, <<>>, <<TheDocument(F)>>)>>
            BY <2>1 DEF Plan, Outset
        <3>2. Len(work) = 1
            BY <3>1
        <3> QED BY <3>2
    <2> QED BY <2>1
<1>3. Len(other) = n - 1 /\ \A k \in 1 .. n - 1 : other[k] = work[k]
    BY <1>1
<1>4. Staged(F, answers, other, S)
    <2> SUFFICES ASSUME NEW k \in 2 .. n - 1 PROVE Stage(F, answers, S, work[k], k = n - 1)
        BY <1>1, <1>3 DEF Staged
    <2>1. k \in 2 .. Len(work) /\ (k = Len(work)) = FALSE
        BY <1>1
    <2>2. Stage(F, answers, S, work[k], FALSE)
        BY <2>1 DEF Plan, Staged
    <2> QED BY <2>2 DEF Stage
<1>5. OneStage(other)
    BY <1>1, <1>3 DEF Plan, OneStage
<1>6. Outset(F, answers, other, S)
    <2>1. other[1] = work[1] /\ (n - 1 >= 2 => other[2] = work[2])
        BY <1>1, <1>3
    <2> QED BY <1>1, <1>2, <1>3, <2>1 DEF Plan, Outset
<1>7. Ahead(F, answers, other, S)
    <2> SUFFICES ASSUME NEW q, Expected(F, answers, q), Awaited(work, q) PROVE Awaited(other, q)
        BY DEF Plan, Ahead
    <2>1. PICK k \in 2 .. n : work[k].place = Outer(q) /\ WaitsIn(work[k], q)
        BY <1>1 DEF Awaited
    <2>2. k # n
        BY <1>1, <2>1 DEF WaitsIn
    <2>3. other[k] = work[k] /\ k \in 2 .. n - 1
        BY <1>3, <2>2
    <2> QED BY <1>3, <2>1, <2>3 DEF Awaited
<1> QED BY <1>2, <1>4, <1>5, <1>6, <1>7 DEF Plan

LEMMA DocumentParts ==
  ASSUME NEW F, NEW j, j = TheDocument(F)
  PROVE  /\ j.kind = "Node" /\ j.place = <<>> /\ j.tag = <<"data">> /\ j.attrs = Identified
         /\ j.content = Append(Fields(F, <<>>), TheMeta)
<1>1. PICK c : c = Append(Fields(F, <<>>), TheMeta)
    OBVIOUS
<1>2. j = Node(<<"data">>, Identified, <<>>, c)
    BY <1>1 DEF TheDocument
<1>3. j.kind = "Node" /\ j.place = <<>> /\ j.tag = <<"data">> /\ j.attrs = Identified /\ j.content = c
    BY <1>2, NodeParts
<1> QED BY <1>1, <1>3, Zenon

LEMMA DocumentPlan ==
  ASSUME NEW F, NEW fields, Fitting(F, fields), NEW answers,
         NEW work, Plan(F, answers, work, {}),
         NEW x, NEW j, ComesIn(work, x, j),
         NEW other, Pushed(work, Tail(x.content), j, other)
  PROVE  /\ Plan(F, answers, other, {<<>>})
         /\ Len(work) = 1 /\ j = TheDocument(F) /\ ~ BearsText(F, <<>>) /\ j.content # <<>>
<1>1. work = <<Node(<<>>, <<>>, <<>>, <<TheDocument(F)>>)>> /\ DOMAIN answers = {}
    BY DEF Plan, Outset
<1>2. Len(work) = 1 /\ x = Node(<<>>, <<>>, <<>>, <<TheDocument(F)>>)
    BY <1>1 DEF ComesIn
<1>3. x.place = <<>> /\ x.content = <<TheDocument(F)>>
    BY <1>2, NodeParts
<1>4. j = TheDocument(F) /\ Tail(x.content) = <<>> /\ x = work[1]
    <2>1. x = work[1] /\ j = x.content[1]
        BY <1>2 DEF ComesIn
    <2>2. \A y : Tail(<<y>>) = <<>> /\ <<y>>[1] = y
        OBVIOUS
    <2> QED BY <1>3, <2>1, <2>2
<1>5. PICK c : c = Fields(F, <<>>)
    OBVIOUS
<1>6. FieldsWait(F, answers, {<<>>}, <<>>, F, c)
    <2>1. Holds(F, <<>>, F)
        BY DEF Holds
    <2>2. \A f \in Repeats(F) : Rowed(answers, f) = {}
        BY <1>1 DEF Rowed
    <2> QED BY <1>1, <1>5, <2>1, <2>2, FreshFields
<1>7. PICK n \in Nat : n = Len(F) /\ DOMAIN F = 1 .. n
    <2>1. F \in Seq(fields)
        BY DEF Fitting
    <2> QED BY <2>1
<1>8. /\ j.place = <<>> /\ j.content = Append(c, TheMeta)
    BY <1>4, <1>5, DocumentParts
<1>9. PICK d : d = j.content
    OBVIOUS
<1>10. /\ DOMAIN d = 1 .. n + 1 /\ d[n + 1] = TheMeta /\ \A i \in 1 .. n : d[i] = c[i]
    <2>1. c = [i \in 1 .. n |-> c[i]]
        <3>1. c \in Seq({c[i] : i \in DOMAIN F}) /\ DOMAIN c = 1 .. n
            BY <1>6, <1>7 DEF FieldsWait
        <3> QED BY <3>1
    <2>2. Append(c, TheMeta) = [k \in 1 .. n + 1 |-> IF k = n + 1 THEN TheMeta ELSE c[k]]
        BY <2>1, AppendAny
    <2>3. d = [k \in 1 .. n + 1 |-> IF k = n + 1 THEN TheMeta ELSE c[k]]
        BY <1>8, <1>9, <2>2
    <2> QED BY <2>3
<1>11. TheMeta.place = MetaPlace /\ TheMeta.kind = "Node" /\ MetaPlace # <<>> /\ Len(MetaPlace) = 2
    BY NodeKinds, MetaPlaces
<1>12. ASSUME NEW i \in 1 .. n
       PROVE  /\ Due(F, answers, {<<>>}, d[i], <<>>) /\ ~ RowDue(F, answers, d[i], <<>>)
              /\ d[i].place = Append(<<>>, F[i].name) /\ d[i].place # MetaPlace
    <2>1. d[i].kind = "Field" /\ d[i].place = Append(<<>>, F[i].name) /\ Due(F, answers, {<<>>}, d[i], <<>>)
        BY <1>6, <1>7, <1>10 DEF FieldsWait
    <2>2. ~ RowDue(F, answers, d[i], <<>>)
        BY <2>1, NodeKinds DEF RowDue
    <2>3. Len(d[i].place) = 1
        BY <2>1, AtFields
    <2> QED BY <1>11, <2>1, <2>2, <2>3
<1>13. Due(F, answers, {<<>>}, TheMeta, <<>>) /\ ~ RowDue(F, answers, TheMeta, <<>>)
    <2>1. Due(F, answers, {<<>>}, TheMeta, <<>>)
        <3>1. MetaDue(TheMeta, <<>>)
            BY Zenon DEF MetaDue
        <3>2. TheMeta.place \notin {<<>>}
            BY <1>11
        <3> QED BY <3>1, <3>2 DEF Due
    <2>2. ~ IsRow(F, MetaPlace)
        BY MetaPlaces
    <2>3. ~ RowDue(F, answers, TheMeta, <<>>)
        BY <1>11, <2>2, NodeKinds DEF RowDue, IsRow
    <2> QED BY <2>1, <2>3
<1>14. ~ BearsText(F, <<>>)
    BY MetaPlaces
<1>15. Stage(F, answers, {<<>>}, j, TRUE)
    <2>1. ASSUME NEW i \in DOMAIN d PROVE Due(F, answers, {<<>>}, d[i], <<>>) /\ ~ RowDue(F, answers, d[i], <<>>)
        <3>1. i \in 1 .. n \/ i = n + 1
            BY <1>10
        <3> QED BY <1>10, <1>12, <1>13, <3>1
    <2>2. ASSUME NEW i \in DOMAIN d, NEW k \in DOMAIN d, d[i].place = d[k].place PROVE i = k
        <3>1. (i \in 1 .. n \/ i = n + 1) /\ (k \in 1 .. n \/ k = n + 1)
            BY <1>10
        <3>2. CASE i \in 1 .. n /\ k \in 1 .. n
            BY <1>6, <1>7, <1>10, <2>2, <3>2 DEF FieldsWait
        <3>3. CASE i = n + 1 /\ k \in 1 .. n
            BY <1>10, <1>11, <1>12, <2>2, <3>3
        <3>4. CASE k = n + 1 /\ i \in 1 .. n
            BY <1>10, <1>11, <1>12, <2>2, <3>4
        <3> QED BY <3>1, <3>2, <3>3, <3>4
    <2> QED BY <1>8, <1>9, <1>14, <2>1, <2>2 DEF Stage
<1>16. /\ Len(other) = 2 /\ other[1].place = <<>> /\ other[1].content = <<>> /\ other[2] = j
    <2>1. /\ Len(other) = 1 + 1 /\ other[1].place = work[1].place
          /\ other[1].content = Tail(x.content) /\ other[1 + 1] = j
        BY <1>2 DEF Pushed
    <2>2. 1 + 1 = 2
        OBVIOUS
    <2> QED BY <1>3, <1>4, <2>1, <2>2, Zenon
<1>17. Staged(F, answers, other, {<<>>}) /\ OneStage(other)
    <2>1. ASSUME NEW k \in 2 .. Len(other) PROVE k = 2 /\ (k = Len(other)) = TRUE
        BY <1>16
    <2> QED BY <1>15, <1>16, <2>1 DEF Staged, OneStage
<1>18. Outset(F, answers, other, {<<>>})
    BY <1>8, <1>16 DEF Outset
<1>19. Ahead(F, answers, other, {<<>>})
    <2> SUFFICES ASSUME NEW q, Expected(F, answers, q), Outer(q) = <<>> PROVE WaitsIn(j, q)
        <3>1. \A q : WaitsIn(j, q) /\ Outer(q) = <<>> => Awaited(other, q)
            BY <1>8, <1>16 DEF Awaited
        <3> QED BY <3>1 DEF Ahead
    <2>1. CASE IsAsked(F, q)
        <3>1. PICK a, g : AsksAt(F, q, a, g)
            BY <2>1 DEF IsAsked
        <3>2. a = <<>>
            BY <3>1, AskedPlace
        <3>3. PICK some : Holds(F, a, some) /\ g \in Questions(some) /\ q = Append(a, g.name)
            BY <3>1 DEF AsksAt
        <3>4. Holds(F, <<>>, F)
            BY DEF Holds
        <3>5. some = F
            BY <3>2, <3>3, <3>4, HoldsOnce
        <3>6. PICK i \in 1 .. n : c[i].place = q
            BY <1>6, <1>7, <3>2, <3>3, <3>5 DEF FieldsWait
        <3>7. d[i].place = q /\ i \in DOMAIN d
            BY <1>10, <3>6
        <3> QED BY <1>9, <3>7 DEF WaitsIn
    <2>2. CASE q = MetaPlace
        <3>1. d[n + 1].place = q /\ n + 1 \in DOMAIN d
            BY <1>10, <1>11, <2>2
        <3> QED BY <1>9, <3>1 DEF WaitsIn
    <2>3. q # IdPlace
        BY MetaPlaces
    <2> QED BY <1>1, <2>1, <2>2, <2>3 DEF Expected
<1>20. Reached(F, answers, {<<>>}) /\ Answering(F, answers, {<<>>}) /\ Numbered(F, answers)
    BY <1>1 DEF Plan, Reached, Answering
<1>21. j.content # <<>>
    <2>1. n + 1 \in DOMAIN d
        BY <1>10
    <2> QED BY <1>9, <2>1
<1> QED BY <1>2, <1>4, <1>14, <1>17, <1>18, <1>19, <1>20, <1>21 DEF Plan

-----------------------------------------------------------------------------
(* The tree so far: at maps each place that was written to its element.    *)

Placed(at, tree) ==
  /\ \A p \in DOMAIN at : at[p] \in 1 .. Len(tree)
  /\ \A p, q \in DOMAIN at : at[p] = at[q] => p = q
  /\ \A p \in DOMAIN at : p # <<>> =>
       /\ Outer(p) \in DOMAIN at /\ tree[at[p]].parent = at[Outer(p)]
       /\ LocalName(tree[at[p]].tag) = NameAt(p)
  /\ <<>> \in DOMAIN at => tree[at[<<>>]].attrs = Identified
  /\ \A e \in 1 .. Len(tree) : tree[e].tag = <<"orx", "deviceID">> \/ \E p \in DOMAIN at : at[p] = e

\* The rows of a repeat have their elements in their order.
RowsRise(F, at) ==
  \A f \in Repeats(F), m, n \in 1 .. MaxRows :
    m < n /\ <<f.name, m>> \in DOMAIN at /\ <<f.name, n>> \in DOMAIN at => at[<<f.name, m>>] < at[<<f.name, n>>]

Texted(F, answers, work, at, tree) ==
  \A p \in DOMAIN at : BearsText(F, p) =>
    IF work[Len(work)].place = p THEN Remains(tree[at[p]].text, work[Len(work)].content, Given(answers, p))
    ELSE TextIs(tree[at[p]].text, Given(answers, p))

Rooted(work, at, last) == DOMAIN at # {} /\ Len(work) = 1 => last = at[<<>>]

\* What is being written is on the stack of the parser.
Linked(work, at, tree, chain) ==
  /\ Len(chain) = Len(work) - 1
  /\ \A k \in 2 .. Len(work) : chain[k - 1] = at[work[k].place] /\ tree[at[work[k].place]].tag = work[k].tag

Kept(F, answers, work, at, tree, chain, last) ==
  /\ Plan(F, answers, work, DOMAIN at)
  /\ Placed(at, tree) /\ RowsRise(F, at) /\ Texted(F, answers, work, at, tree)
  /\ Rooted(work, at, last) /\ Linked(work, at, tree, chain)

Also(at, p, e) == [q \in DOMAIN at \cup {p} |-> IF q = p THEN e ELSE at[q]]

Longer(tree, e, more) ==
  /\ Len(tree) \in Nat /\ Len(more) = Len(tree) + 1 /\ more[Len(tree) + 1] = e
  /\ \A i \in 1 .. Len(tree) : more[i] = tree[i]

LEMMA AlsoIs ==
  ASSUME NEW at, NEW p, NEW e
  PROVE  /\ DOMAIN Also(at, p, e) = DOMAIN at \cup {p} /\ Also(at, p, e)[p] = e
         /\ \A q \in DOMAIN at : q # p => Also(at, p, e)[q] = at[q]
BY DEF Also

LEMMA PlacedMore ==
  ASSUME NEW at, NEW tree, Placed(at, tree), NEW e, NEW more, Longer(tree, e, more),
         NEW p, p \notin DOMAIN at,
         p = <<>> => e.attrs = Identified,
         p # <<>> => Outer(p) \in DOMAIN at /\ e.parent = at[Outer(p)] /\ LocalName(e.tag) = NameAt(p)
  PROVE  Placed(Also(at, p, Len(tree) + 1), more)
<1>1. PICK n \in Nat : n = Len(tree)
    BY DEF Longer
<1>2. Len(more) = n + 1 /\ more[n + 1] = e /\ \A i \in 1 .. n : more[i] = tree[i]
    BY <1>1 DEF Longer
<1>3. PICK to : to = Also(at, p, n + 1)
    OBVIOUS
<1>4. DOMAIN to = DOMAIN at \cup {p} /\ to[p] = n + 1 /\ \A q \in DOMAIN at : to[q] = at[q]
    <2>1. \A q \in DOMAIN at : q # p
        OBVIOUS
    <2>2. DOMAIN to = DOMAIN at \cup {p}
        BY <1>3, AlsoIs
    <2>3. to[p] = n + 1
        BY <1>3 DEF Also
    <2>4. \A q \in DOMAIN at : to[q] = at[q]
        BY <1>3, <2>1 DEF Also
    <2> QED BY <2>2, <2>3, <2>4
<1>5. \A q \in DOMAIN at : at[q] \in 1 .. n
    BY <1>1 DEF Placed
<1>6. \A q \in DOMAIN to : to[q] \in 1 .. n + 1
    BY <1>4, <1>5
<1>7. \A q, r \in DOMAIN to : to[q] = to[r] => q = r
    <2> SUFFICES ASSUME NEW q \in DOMAIN to, NEW r \in DOMAIN to, to[q] = to[r] PROVE q = r
        OBVIOUS
    <2>1. CASE q \in DOMAIN at /\ r \in DOMAIN at
        BY <1>4, <2>1 DEF Placed
    <2>2. \A t \in DOMAIN at : to[t] # to[p]
        <3>1. \A t \in DOMAIN at : to[t] \in 1 .. n
            BY <1>4, <1>5
        <3> QED BY <1>4, <3>1
    <2>3. CASE q = p /\ r \in DOMAIN at
        BY <2>2, <2>3
    <2>4. CASE r = p /\ q \in DOMAIN at
        BY <2>2, <2>4
    <2> QED BY <1>4, <2>1, <2>3, <2>4
<1>8. ASSUME NEW q \in DOMAIN to, q # <<>>
      PROVE  /\ Outer(q) \in DOMAIN to /\ more[to[q]].parent = to[Outer(q)]
             /\ LocalName(more[to[q]].tag) = NameAt(q)
    <2>1. CASE q = p
        BY <1>2, <1>4, <1>8, <2>1
    <2>2. CASE q \in DOMAIN at
        <3>1. Outer(q) \in DOMAIN at /\ tree[at[q]].parent = at[Outer(q)] /\ LocalName(tree[at[q]].tag) = NameAt(q)
            BY <1>8, <2>2 DEF Placed
        <3>2. more[to[q]] = tree[at[q]]
            BY <1>2, <1>4, <1>5, <2>2
        <3> QED BY <1>4, <3>1, <3>2
    <2> QED BY <1>4, <2>1, <2>2
<1>9. <<>> \in DOMAIN to => more[to[<<>>]].attrs = Identified
    <2>1. CASE <<>> = p
        BY <1>2, <1>4, <2>1
    <2>2. CASE <<>> \in DOMAIN at
        BY <1>2, <1>4, <1>5, <2>2 DEF Placed
    <2> QED BY <1>4, <2>1, <2>2
<1>10. ASSUME NEW i \in 1 .. n + 1
       PROVE  more[i].tag = <<"orx", "deviceID">> \/ \E q \in DOMAIN to : to[q] = i
    <2>1. CASE i = n + 1
        BY <1>4, <2>1
    <2>2. CASE i \in 1 .. n
        BY <1>1, <1>2, <1>4, <2>2 DEF Placed
    <2> QED BY <2>1, <2>2
<1>11. Placed(to, more)
    BY <1>2, <1>6, <1>7, <1>8, <1>9, <1>10 DEF Placed
<1> QED BY <1>1, <1>3, <1>11

\* An element that belongs to no place.
LEMMA PlacedStray ==
  ASSUME NEW at, NEW tree, Placed(at, tree), NEW e, NEW more, Longer(tree, e, more),
         e.tag = <<"orx", "deviceID">>
  PROVE  Placed(at, more)
<1>1. PICK n \in Nat : n = Len(tree)
    BY DEF Longer
<1>2. Len(more) = n + 1 /\ more[n + 1] = e /\ \A i \in 1 .. n : more[i] = tree[i]
    BY <1>1 DEF Longer
<1>3. \A q \in DOMAIN at : at[q] \in 1 .. n /\ at[q] \in 1 .. n + 1
    BY <1>1 DEF Placed
<1>4. \A q \in DOMAIN at : more[at[q]] = tree[at[q]]
    BY <1>2, <1>3
<1>5. ASSUME NEW i \in 1 .. n + 1
      PROVE  more[i].tag = <<"orx", "deviceID">> \/ \E q \in DOMAIN at : at[q] = i
    <2>1. CASE i = n + 1
        BY <1>2, <2>1
    <2>2. CASE i \in 1 .. n
        BY <1>1, <1>2, <2>2 DEF Placed
    <2> QED BY <2>1, <2>2
<1> QED BY <1>2, <1>3, <1>4, <1>5 DEF Placed

\* Text is added to an element.
Reworded(tree, e, text, other) ==
  /\ Len(other) = Len(tree)
  /\ \A i \in 1 .. Len(tree) :
       /\ other[i].tag = tree[i].tag /\ other[i].attrs = tree[i].attrs /\ other[i].parent = tree[i].parent
       /\ other[i].text = IF i = e THEN text ELSE tree[i].text

LEMMA PlacedText ==
  ASSUME NEW at, NEW tree, Placed(at, tree), NEW e, NEW text, NEW other, Reworded(tree, e, text, other)
  PROVE  Placed(at, other)
<1>1. \A q \in DOMAIN at : at[q] \in 1 .. Len(tree)
    BY DEF Placed
<1>2. \A q \in DOMAIN at :
        /\ other[at[q]].tag = tree[at[q]].tag /\ other[at[q]].attrs = tree[at[q]].attrs
        /\ other[at[q]].parent = tree[at[q]].parent
    BY <1>1 DEF Reworded
<1>3. Len(other) = Len(tree) /\ \A i \in 1 .. Len(tree) : other[i].tag = tree[i].tag
    BY DEF Reworded
<1> QED BY <1>1, <1>2, <1>3 DEF Placed

-----------------------------------------------------------------------------
(* The tree through the steps of the writer. *)

\* What has been written stays where it is.
Onward(at, tree, to, more) ==
  \A p \in DOMAIN at : p \in DOMAIN to /\ to[p] = at[p] /\ more[at[p]].tag = tree[at[p]].tag

LEMMA StaysOnward ==
  ASSUME NEW at, NEW tree, Placed(at, tree)
  PROVE  Onward(at, tree, at, tree)
BY DEF Onward

LEMMA MoreOnward ==
  ASSUME NEW at, NEW tree, Placed(at, tree), NEW e, NEW more, Longer(tree, e, more), NEW p, p \notin DOMAIN at
  PROVE  /\ Onward(at, tree, Also(at, p, Len(tree) + 1), more)
         /\ Onward(at, tree, at, more)
         /\ \A q \in DOMAIN at : q # p /\ more[at[q]] = tree[at[q]]
<1>1. \A q \in DOMAIN at : more[at[q]] = tree[at[q]] /\ q # p
    BY DEF Longer, Placed
<1>2. \A q \in DOMAIN at : q \in DOMAIN Also(at, p, Len(tree) + 1) /\ Also(at, p, Len(tree) + 1)[q] = at[q]
    BY <1>1 DEF Also
<1> QED BY <1>1, <1>2 DEF Onward

LEMMA StagesPlaces ==
  ASSUME NEW F, NEW answers, NEW work, NEW S, Plan(F, answers, work, S)
  PROVE  \A k \in 2 .. Len(work) : work[k].place \in S
BY DEF Plan, Staged, Stage

LEMMA LinkedOn ==
  ASSUME NEW work, Len(work) \in Nat, NEW at, NEW tree, NEW chain, Linked(work, at, tree, chain),
         \A k \in 2 .. Len(work) : work[k].place \in DOMAIN at,
         NEW to, NEW more, Onward(at, tree, to, more), NEW c, NEW other, Retopped(work, c, other)
  PROVE  Linked(other, to, more, chain)
<1>1. \A k \in 2 .. Len(work) : other[k].place = work[k].place /\ other[k].tag = work[k].tag
    BY DEF Retopped
<1>2. Len(other) = Len(work)
    BY DEF Retopped
<1> QED BY <1>1, <1>2 DEF Linked, Onward

\* What is filled in, where nothing is written.
LEMMA KeptFields ==
  ASSUME NEW F, NEW answers, NEW work, NEW at, NEW tree, NEW chain, NEW last,
         Kept(F, answers, work, at, tree, chain, last), Len(work) \in Nat, Len(work) >= 2,
         ~ BearsText(F, work[Len(work)].place),
         NEW more, NEW other, NEW c, Plan(F, more, other, DOMAIN at), Retopped(work, c, other),
         \A p \in DOMAIN at : BearsText(F, p) => Given(more, p) = Given(answers, p)
  PROVE  Kept(F, more, other, at, tree, chain, last)
<1>1. Linked(other, at, tree, chain)
    BY LinkedOn, StaysOnward, StagesPlaces DEF Kept
<1>2. Rooted(other, at, last)
    BY DEF Rooted, Retopped
<1>3. Texted(F, more, other, at, tree)
    <2>1. other[Len(other)].place = work[Len(work)].place
        BY DEF Retopped
    <2>2. \A p \in DOMAIN at : BearsText(F, p) => TextIs(tree[at[p]].text, Given(answers, p))
        BY DEF Kept, Texted
    <2> QED BY <2>1, <2>2 DEF Texted
<1> QED BY <1>1, <1>2, <1>3 DEF Kept

\* A row that is written is the last of its repeat so far.
LEMMA RowIsLast ==
  ASSUME NEW F, NEW fields, Fitting(F, fields), NEW answers, NEW S, NEW a, NEW j,
         j.kind = "Node", Due(F, answers, S, j, a),
         NEW f \in Repeats(F), NEW n \in 1 .. MaxRows, j.place = <<f.name, n>>
  PROVE  Rowed(answers, f) = 1 .. n
<1>1. IsRow(F, j.place)
    BY DEF IsRow
<1>2. ~ IsAsked(F, j.place) /\ j.place # MetaPlace /\ j.place # IdPlace
    BY RowPlace
<1>3. ~ AnswerDue(F, answers, j, a)
    BY <1>2, AskedPlace DEF AnswerDue
<1>4. ~ MetaDue(j, a)
    BY <1>2, NodeKinds DEF MetaDue
<1>5. RowDue(F, answers, j, a)
    BY <1>3, <1>4, DueIs
<1>6. PICK g \in Repeats(F), m \in 1 .. MaxRows : j = RowNode(g, m) /\ Rowed(answers, g) = 1 .. m
    BY <1>5 DEF RowDue
<1>7. j.place = <<g.name, m>>
    BY <1>6, NodeKinds
<1>8. g.name = f.name /\ m = n
    BY <1>7
<1>9. g = f
    BY <1>8 DEF Fitting, Repeats
<1> QED BY <1>6, <1>8, <1>9

LEMMA RowsRiseMore ==
  ASSUME NEW F, NEW fields, Fitting(F, fields), NEW answers, NEW at, NEW tree, Placed(at, tree), Len(tree) \in Nat,
         RowsRise(F, at), Reached(F, answers, DOMAIN at),
         NEW p, p \notin DOMAIN at,
         \A f \in Repeats(F), n \in 1 .. MaxRows : p = <<f.name, n>> => Rowed(answers, f) = 1 .. n
  PROVE  RowsRise(F, Also(at, p, Len(tree) + 1))
<1>1. PICK to : to = Also(at, p, Len(tree) + 1)
    OBVIOUS
<1>2. DOMAIN to = DOMAIN at \cup {p} /\ to[p] = Len(tree) + 1 /\ \A q \in DOMAIN at : to[q] = at[q]
    <2>1. \A q \in DOMAIN at : q # p
        OBVIOUS
    <2>2. DOMAIN to = DOMAIN at \cup {p}
        BY <1>1, AlsoIs
    <2>3. to[p] = Len(tree) + 1
        BY <1>1 DEF Also
    <2>4. \A q \in DOMAIN at : to[q] = at[q]
        BY <1>1, <2>1 DEF Also
    <2> QED BY <2>2, <2>3, <2>4
<1>3. ASSUME NEW f \in Repeats(F), NEW m \in 1 .. MaxRows, NEW n \in 1 .. MaxRows, m < n,
             NEW q, q = <<f.name, m>>, NEW r, r = <<f.name, n>>, q \in DOMAIN to, r \in DOMAIN to
      PROVE  to[q] < to[r]
    <2>1. m \in Nat /\ n \in Nat
        BY DEF Fitting
    <2>2. CASE q = p
        <3>1. Rowed(answers, f) = 1 .. m
            BY <1>3, <2>2
        <3>2. q # r
            BY <1>3, <2>1
        <3>3. r \in DOMAIN at
            BY <1>2, <1>3, <2>2, <3>2
        <3>4. IsRow(F, r) /\ ~ IsAsked(F, r) /\ r \notin {MetaPlace, IdPlace} /\ r # <<>>
            BY <1>3, RowPlace
        <3>5. r \in DOMAIN answers
            BY <3>3, <3>4 DEF Reached, Expected
        <3>6. n \in Rowed(answers, f)
            BY <1>3, <3>5 DEF Rowed
        <3> QED BY <1>3, <2>1, <3>1, <3>6
    <2>3. CASE q \in DOMAIN at /\ r = p
        BY <1>2, <2>3 DEF Placed
    <2>4. CASE q \in DOMAIN at /\ r \in DOMAIN at
        BY <1>2, <1>3, <2>4 DEF RowsRise
    <2> QED BY <1>2, <1>3, <2>2, <2>3, <2>4
<1>4. RowsRise(F, to)
    BY <1>3 DEF RowsRise
<1> QED BY <1>1, <1>4

\* The element that is written at a place.
WrittenAs(e, j, parent) == e.tag = j.tag /\ e.attrs = j.attrs /\ e.text = <<>> /\ e.parent = parent

\* What the next element is when it is come to.
NodeFacts(F, answers, work, at, tree, chain, x, j) ==
  /\ Len(work) \in Nat /\ Len(work) >= 2 /\ x = work[Len(work)] /\ x.place \in DOMAIN at
  /\ ~ BearsText(F, x.place) /\ Due(F, answers, DOMAIN at, j, x.place)
  /\ j.place \notin DOMAIN at /\ j.place # <<>> /\ Outer(j.place) = x.place
  /\ LocalName(j.tag) = NameAt(j.place)
  /\ chain[Len(work) - 1] = at[x.place] /\ Len(chain) = Len(work) - 1
  /\ BearsText(F, j.place) => Remains(<<>>, j.content, Given(answers, j.place))
  /\ \A q \in DOMAIN at : BearsText(F, q) => TextIs(tree[at[q]].text, Given(answers, q))

LEMMA NextNode ==
  ASSUME NEW F, NEW fields, Fitting(F, fields), NEW answers, NEW work \in Seq(Underway(fields)),
         NEW at, NEW tree, NEW chain, NEW last, Kept(F, answers, work, at, tree, chain, last),
         NEW x, NEW j, ComesIn(work, x, j), j.kind = "Node", DOMAIN at # {}
  PROVE  NodeFacts(F, answers, work, at, tree, chain, x, j)
<1>1. TopFacts(F, fields, answers, DOMAIN at, work, x, j)
    BY TopJob DEF Kept
<1>2. /\ Len(work) \in Nat /\ Len(work) >= 2 /\ x = work[Len(work)] /\ x.place \in DOMAIN at
      /\ ~ BearsText(F, x.place) /\ Due(F, answers, DOMAIN at, j, x.place)
    BY <1>1 DEF TopFacts
<1>3. /\ j.place \notin DOMAIN at /\ j.place # <<>> /\ Outer(j.place) = x.place
      /\ LocalName(j.tag) = NameAt(j.place)
    BY <1>2, NodeIs
<1>4. chain[Len(work) - 1] = at[x.place] /\ Len(chain) = Len(work) - 1
    <2>1. Len(work) \in 2 .. Len(work)
        BY <1>2
    <2> QED BY <1>2, <2>1 DEF Kept, Linked
<1>5. BearsText(F, j.place) => Remains(<<>>, j.content, Given(answers, j.place))
    BY <1>2, OpensWhole DEF Kept, Plan
<1>6. \A q \in DOMAIN at : BearsText(F, q) => TextIs(tree[at[q]].text, Given(answers, q))
    BY <1>2 DEF Kept, Texted
<1> QED BY <1>2, <1>3, <1>4, <1>5, <1>6 DEF NodeFacts

\* The tree when it is written, whatever is left to write then.
NodeWritten(F, at, tree, j, e, to, more) ==
  /\ Placed(to, more) /\ RowsRise(F, to)
  /\ DOMAIN to = DOMAIN at \cup {j.place} /\ to[j.place] = Len(tree) + 1 /\ more[to[j.place]] = e
  /\ \A q \in DOMAIN at : q # j.place /\ to[q] = at[q] /\ more[at[q]] = tree[at[q]]
  /\ Onward(at, tree, to, more)

LEMMA NodePlaced ==
  ASSUME NEW F, NEW fields, Fitting(F, fields), NEW answers, NEW work \in Seq(Underway(fields)),
         NEW at, NEW tree, NEW chain, NEW last, Kept(F, answers, work, at, tree, chain, last),
         NEW x, NEW j, ComesIn(work, x, j), j.kind = "Node", DOMAIN at # {},
         NEW e, WrittenAs(e, j, chain[Len(chain)]), NEW more, Longer(tree, e, more),
         NEW to, to = Also(at, j.place, Len(tree) + 1)
  PROVE  NodeWritten(F, at, tree, j, e, to, more)
<1>1. /\ x.place \in DOMAIN at /\ Len(work) \in Nat /\ Len(work) >= 2
      /\ j.place \notin DOMAIN at /\ j.place # <<>> /\ Outer(j.place) = x.place
      /\ LocalName(j.tag) = NameAt(j.place) /\ Due(F, answers, DOMAIN at, j, x.place)
      /\ chain[Len(work) - 1] = at[x.place] /\ Len(chain) = Len(work) - 1
    <2>1. NodeFacts(F, answers, work, at, tree, chain, x, j)
        BY NextNode
    <2> QED BY <2>1 DEF NodeFacts
<1>2. e.tag = j.tag /\ e.parent = at[Outer(j.place)]
    BY <1>1 DEF WrittenAs
<1>3. Placed(at, tree)
    BY DEF Kept
<1>4. LocalName(e.tag) = NameAt(j.place)
    BY <1>1, <1>2
<1>5. Placed(to, more)
    BY <1>1, <1>2, <1>3, <1>4, PlacedMore
<1>6. \A f \in Repeats(F), n \in 1 .. MaxRows : j.place = <<f.name, n>> => Rowed(answers, f) = 1 .. n
    BY <1>1, RowIsLast
<1>7. Len(tree) \in Nat /\ more[Len(tree) + 1] = e
    BY DEF Longer
<1>8. RowsRise(F, to)
    BY <1>1, <1>3, <1>6, <1>7, RowsRiseMore DEF Kept, Plan
<1>9. DOMAIN to = DOMAIN at \cup {j.place} /\ to[j.place] = Len(tree) + 1
    BY DEF Also
<1>10. Onward(at, tree, to, more)
    BY <1>1, <1>3, MoreOnward
<1>11. \A q \in DOMAIN at : q # j.place /\ to[q] = at[q] /\ more[at[q]] = tree[at[q]]
    <2>1. \A q \in DOMAIN at : q # j.place /\ more[at[q]] = tree[at[q]]
        BY <1>1, <1>3, MoreOnward
    <2>2. \A q \in DOMAIN at : to[q] = at[q]
        BY <1>10 DEF Onward
    <2> QED BY <2>1, <2>2
<1> QED BY <1>5, <1>7, <1>8, <1>9, <1>10, <1>11 DEF NodeWritten

LEMMA KeptOpen ==
  ASSUME NEW F, NEW fields, Fitting(F, fields), NEW answers, NEW work \in Seq(Underway(fields)),
         NEW at, NEW tree, NEW chain, NEW last, Kept(F, answers, work, at, tree, chain, last),
         NEW x, NEW j, ComesIn(work, x, j), j.kind = "Node", DOMAIN at # {},
         NEW e, WrittenAs(e, j, chain[Len(chain)]), NEW more, Longer(tree, e, more),
         NEW higher, Longer(chain, Len(tree) + 1, higher),
         NEW other, Pushed(work, Tail(x.content), j, other)
  PROVE  \E to : Kept(F, answers, other, to, more, higher, last)
<1>1. PICK to : to = Also(at, j.place, Len(tree) + 1)
    OBVIOUS
<1>2. /\ Placed(to, more) /\ RowsRise(F, to)
      /\ DOMAIN to = DOMAIN at \cup {j.place} /\ to[j.place] = Len(tree) + 1 /\ more[to[j.place]] = e
      /\ \A q \in DOMAIN at : q # j.place /\ to[q] = at[q] /\ more[at[q]] = tree[at[q]]
    <2>1. NodeWritten(F, at, tree, j, e, to, more)
        BY <1>1, NodePlaced
    <2> QED BY <2>1 DEF NodeWritten
<1>3. /\ x.place \in DOMAIN at /\ x = work[Len(work)]
      /\ BearsText(F, j.place) => Remains(<<>>, j.content, Given(answers, j.place))
      /\ \A q \in DOMAIN at : BearsText(F, q) => TextIs(tree[at[q]].text, Given(answers, q))
    <2>1. NodeFacts(F, answers, work, at, tree, chain, x, j)
        BY NextNode
    <2> QED BY <2>1 DEF NodeFacts
<1>4. PICK n \in Nat : n = Len(work) /\ n >= 2
    <2>1. NodeFacts(F, answers, work, at, tree, chain, x, j)
        BY NextNode
    <2> QED BY <2>1 DEF NodeFacts
<1>5. Plan(F, answers, other, DOMAIN to)
    BY <1>2, OpenPlan DEF Kept
<1>6. /\ Len(other) = n + 1 /\ (\A k \in 1 .. n - 1 : other[k] = work[k])
      /\ other[n].place = x.place /\ other[n].tag = x.tag /\ other[n + 1] = j
    BY <1>3, <1>4 DEF Pushed
<1>7. Rooted(other, to, last)
    <2>1. Len(other) # 1
        BY <1>4, <1>6
    <2> QED BY <2>1 DEF Rooted
<1>8. Texted(F, answers, other, to, more)
    <2> SUFFICES ASSUME NEW q \in DOMAIN to, BearsText(F, q)
                 PROVE  IF j.place = q THEN Remains(more[to[q]].text, j.content, Given(answers, q))
                        ELSE TextIs(more[to[q]].text, Given(answers, q))
        BY <1>6 DEF Texted
    <2>1. CASE q = j.place
        BY <1>2, <1>3, <2>1 DEF WrittenAs
    <2>2. CASE q \in DOMAIN at
        BY <1>2, <1>3, <2>2
    <2> QED BY <1>2, <2>1, <2>2
<1>9. Linked(other, to, more, higher)
    <2>1. /\ Len(chain) = n - 1 /\ Len(higher) = n /\ higher[n] = Len(tree) + 1
          /\ \A k \in 2 .. n : higher[k - 1] = chain[k - 1]
        <3>1. Len(chain) = n - 1
            BY <1>4 DEF Kept, Linked
        <3>2. Len(higher) = n /\ higher[n] = Len(tree) + 1 /\ \A k \in 1 .. n - 1 : higher[k] = chain[k]
            BY <1>4, <3>1 DEF Longer
        <3> QED BY <1>4, <3>1, <3>2
    <2>2. \A k \in 2 .. n : work[k].place \in DOMAIN at
        BY <1>4, StagesPlaces DEF Kept
    <2>3. ASSUME NEW k \in 2 .. n
          PROVE  higher[k - 1] = to[other[k].place] /\ more[to[other[k].place]].tag = other[k].tag
        <3>1. other[k].place = work[k].place /\ other[k].tag = work[k].tag
            <4>1. k = n \/ k \in 1 .. n - 1
                OBVIOUS
            <4> QED BY <1>3, <1>4, <1>6, <4>1
        <3>2. chain[k - 1] = at[work[k].place] /\ tree[at[work[k].place]].tag = work[k].tag
            BY <1>4 DEF Kept, Linked
        <3> QED BY <1>2, <2>1, <2>2, <3>1, <3>2
    <2>4. higher[(n + 1) - 1] = to[other[n + 1].place] /\ more[to[other[n + 1].place]].tag = other[n + 1].tag
        BY <1>2, <1>4, <1>6, <2>1 DEF WrittenAs
    <2>5. ASSUME NEW k \in 2 .. n + 1
          PROVE  higher[k - 1] = to[other[k].place] /\ more[to[other[k].place]].tag = other[k].tag
        <3>1. k = n + 1 \/ k \in 2 .. n
            BY <1>4
        <3> QED BY <2>3, <2>4, <3>1
    <2>6. Len(higher) = Len(other) - 1
        BY <1>4, <1>6, <2>1
    <2> QED BY <1>6, <2>5, <2>6 DEF Linked
<1> QED BY <1>2, <1>5, <1>7, <1>8, <1>9 DEF Kept

LEMMA KeptEmpty ==
  ASSUME NEW F, NEW fields, Fitting(F, fields), NEW answers, NEW work \in Seq(Underway(fields)),
         NEW at, NEW tree, NEW chain, NEW last, Kept(F, answers, work, at, tree, chain, last),
         NEW x, NEW j, ComesIn(work, x, j), j.kind = "Node", DOMAIN at # {}, j.content = <<>>,
         NEW e, WrittenAs(e, j, chain[Len(chain)]), NEW more, Longer(tree, e, more),
         NEW other, Retopped(work, Tail(x.content), other)
  PROVE  \E to : Kept(F, answers, other, to, more, chain, last)
<1>1. PICK to : to = Also(at, j.place, Len(tree) + 1)
    OBVIOUS
<1>2. /\ Placed(to, more) /\ RowsRise(F, to)
      /\ DOMAIN to = DOMAIN at \cup {j.place} /\ to[j.place] = Len(tree) + 1 /\ more[to[j.place]] = e
      /\ \A q \in DOMAIN at : q # j.place /\ to[q] = at[q] /\ more[at[q]] = tree[at[q]]
      /\ Onward(at, tree, to, more)
    <2>1. NodeWritten(F, at, tree, j, e, to, more)
        BY <1>1, NodePlaced
    <2> QED BY <2>1 DEF NodeWritten
<1>3. /\ x.place \in DOMAIN at /\ x = work[Len(work)] /\ ~ BearsText(F, x.place)
      /\ BearsText(F, j.place) => Remains(<<>>, j.content, Given(answers, j.place))
      /\ \A q \in DOMAIN at : BearsText(F, q) => TextIs(tree[at[q]].text, Given(answers, q))
    <2>1. NodeFacts(F, answers, work, at, tree, chain, x, j)
        BY NextNode
    <2> QED BY <2>1 DEF NodeFacts
<1>4. PICK n \in Nat : n = Len(work) /\ n >= 2
    <2>1. NodeFacts(F, answers, work, at, tree, chain, x, j)
        BY NextNode
    <2> QED BY <2>1 DEF NodeFacts
<1>5. Plan(F, answers, other, DOMAIN to)
    BY <1>2, EmptyPlan DEF Kept
<1>6. Len(other) = n /\ other[n].place = x.place
    BY <1>3, <1>4 DEF Retopped
<1>7. Rooted(other, to, last)
    <2>1. Len(other) # 1
        BY <1>4, <1>6
    <2> QED BY <2>1 DEF Rooted
<1>8. Texted(F, answers, other, to, more)
    <2> SUFFICES ASSUME NEW q \in DOMAIN to, BearsText(F, q)
                 PROVE  TextIs(more[to[q]].text, Given(answers, q))
        BY <1>3, <1>6 DEF Texted
    <2>1. CASE q = j.place
        BY <1>2, <1>3, <2>1 DEF WrittenAs, Remains
    <2>2. CASE q \in DOMAIN at
        BY <1>2, <1>3, <2>2
    <2> QED BY <1>2, <2>1, <2>2
<1>9. Linked(other, to, more, chain)
    BY <1>2, <1>4, LinkedOn, StagesPlaces DEF Kept
<1> QED BY <1>2, <1>5, <1>7, <1>8, <1>9 DEF Kept

LEMMA KeptDocument ==
  ASSUME NEW F, NEW fields, Fitting(F, fields), NEW answers, NEW work,
         NEW at, NEW tree, NEW chain, NEW last, Kept(F, answers, work, at, tree, chain, last),
         NEW x, NEW j, ComesIn(work, x, j), DOMAIN at = {},
         NEW e, NEW parent, WrittenAs(e, j, parent), NEW more, Longer(tree, e, more),
         NEW higher, Longer(chain, Len(tree) + 1, higher),
         NEW other, Pushed(work, Tail(x.content), j, other)
  PROVE  \E to : Kept(F, answers, other, to, more, higher, last)
<1>1. PICK to : to = Also(at, <<>>, Len(tree) + 1)
    OBVIOUS
<1>2. Plan(F, answers, work, {}) /\ Placed(at, tree)
    BY DEF Kept
<1>3. Plan(F, answers, other, {<<>>}) /\ Len(work) = 1 /\ j = TheDocument(F) /\ ~ BearsText(F, <<>>)
    BY <1>2, DocumentPlan
<1>4. j.place = <<>> /\ j.attrs = Identified
    BY <1>3, DocumentParts
<1>5. DOMAIN to = {<<>>} /\ to[<<>>] = Len(tree) + 1 /\ more[Len(tree) + 1] = e
    BY <1>1 DEF Also, Longer
<1>6. e.attrs = Identified /\ e.tag = j.tag
    BY <1>4 DEF WrittenAs
<1>7. Placed(to, more)
    BY <1>1, <1>2, <1>6, PlacedMore
<1>8. RowsRise(F, to)
    <2>1. \A f, n : <<f.name, n>> # <<>>
        OBVIOUS
    <2> QED BY <1>5, <2>1 DEF RowsRise
<1>9. Len(other) = 2 /\ other[2] = j
    BY <1>3 DEF Pushed
<1>10. Rooted(other, to, last)
    <2>1. Len(other) # 1
        BY <1>9
    <2> QED BY <2>1 DEF Rooted
<1>11. Texted(F, answers, other, to, more)
    BY <1>3, <1>5 DEF Texted
<1>12. Linked(other, to, more, higher)
    <2>1. Len(chain) = 0
        BY <1>3 DEF Kept, Linked
    <2>2. Len(higher) = 1 /\ higher[1] = Len(tree) + 1
        BY <2>1 DEF Longer
    <2>3. higher[2 - 1] = to[other[2].place] /\ more[to[other[2].place]].tag = other[2].tag
        BY <1>4, <1>5, <1>6, <1>9, <2>2
    <2>4. \A k \in 2 .. 2 : k = 2
        OBVIOUS
    <2>5. Len(higher) = Len(other) - 1
        BY <1>9, <2>2
    <2> QED BY <1>9, <2>3, <2>4, <2>5 DEF Linked
<1> QED BY <1>3, <1>5, <1>7, <1>8, <1>10, <1>11, <1>12 DEF Kept

\* The last is taken off, and of the parser's stack remembered if it was the only one.
Shorter(seq, less) == Len(less) = Len(seq) - 1 /\ \A k \in 1 .. Len(seq) - 1 : less[k] = seq[k]
TakenOff(chain, last, lower, then) ==
  /\ Shorter(chain, lower)
  /\ then = IF Len(chain) = 1 THEN chain[Len(chain)] ELSE last

LEMMA KeptClose ==
  ASSUME NEW F, NEW fields, Fitting(F, fields), NEW answers, NEW work \in Seq(Underway(fields)),
         NEW at, NEW tree, NEW chain, NEW last, Kept(F, answers, work, at, tree, chain, last),
         Len(work) > 1, work[Len(work)].content = <<>>,
         NEW other, Shorter(work, other), NEW lower, NEW then, TakenOff(chain, last, lower, then)
  PROVE  Kept(F, answers, other, at, tree, lower, then)
<1>9. Len(other) = Len(work) - 1 /\ \A k \in 1 .. Len(work) - 1 : other[k] = work[k]
    BY DEF Shorter
<1>10. /\ Len(lower) = Len(chain) - 1 /\ \A k \in 1 .. Len(chain) - 1 : lower[k] = chain[k]
       /\ Len(chain) = 1 => then = chain[Len(chain)]
    BY DEF TakenOff, Shorter
<1>1. PICK n \in Nat : n = Len(work) /\ n >= 2
    <2>1. Len(work) \in Nat
        OBVIOUS
    <2> QED BY <2>1
<1>2. Plan(F, answers, other, DOMAIN at) /\ DOMAIN at # {}
    BY <1>9, ClosePlan DEF Kept
<1>3. Len(other) = n - 1 /\ \A k \in 1 .. n - 1 : other[k] = work[k]
    BY <1>1, <1>9
<1>4. Len(chain) = n - 1 /\ \A k \in 2 .. n : chain[k - 1] = at[work[k].place] /\ tree[at[work[k].place]].tag = work[k].tag
    BY <1>1 DEF Kept, Linked
<1>5. Linked(other, at, tree, lower)
    <2>1. Len(lower) = (n - 1) - 1 /\ \A k \in 1 .. n - 2 : lower[k] = chain[k]
        BY <1>4, <1>10
    <2>2. \A k \in 2 .. n - 1 : other[k] = work[k] /\ lower[k - 1] = chain[k - 1] /\ k \in 2 .. n
        BY <1>3, <2>1
    <2> QED BY <1>3, <1>4, <2>1, <2>2 DEF Linked
<1>6. Rooted(other, at, then)
    <2> SUFFICES ASSUME Len(other) = 1 PROVE then = at[<<>>]
        BY DEF Rooted
    <2>0. n = 2
        <3>1. n - 1 = 1 /\ n \in Nat
            BY <1>3
        <3> QED BY <3>1
    <2>1. Len(chain) = 1 /\ then = chain[1]
        BY <1>4, <1>10, <2>0
    <2>2. 2 \in 2 .. n /\ work[2].place = <<>>
        BY <1>1 DEF Kept, Plan, Outset
    <2>3. chain[2 - 1] = at[work[2].place]
        BY <1>4, <2>2
    <2> QED BY <2>1, <2>2, <2>3
<1>7. ~ BearsText(F, other[n - 1].place)
    <2>1. CASE n - 1 = 1
        <3>1. other[1].place = <<>>
            BY <1>2 DEF Plan, Outset
        <3> QED BY <2>1, <3>1, MetaPlaces
    <2>2. CASE n - 1 # 1
        <3>1. n - 1 \in 2 .. Len(work) /\ (n - 1 = Len(work)) = FALSE /\ other[n - 1] = work[n - 1]
            BY <1>1, <1>3, <2>2
        <3>2. Stage(F, answers, DOMAIN at, work[n - 1], FALSE)
            BY <3>1 DEF Kept, Plan, Staged
        <3> QED BY <3>1, <3>2 DEF Stage
    <2> QED BY <2>1, <2>2
<1>8. Texted(F, answers, other, at, tree)
    <2> SUFFICES ASSUME NEW p \in DOMAIN at, BearsText(F, p) PROVE TextIs(tree[at[p]].text, Given(answers, p))
        BY <1>3, <1>7 DEF Texted
    <2>1. IF work[n].place = p THEN Remains(tree[at[p]].text, work[n].content, Given(answers, p))
          ELSE TextIs(tree[at[p]].text, Given(answers, p))
        BY <1>1 DEF Kept, Texted
    <2> QED BY <1>1, <2>1 DEF Remains
<1> QED BY <1>2, <1>5, <1>6, <1>8 DEF Kept

-----------------------------------------------------------------------------
(* The text. *)

LEMMA GivenText ==
  ASSUME NEW F, NEW fields, Fitting(F, fields), NEW answers, NEW work, NEW S, Plan(F, answers, work, S),
         NEW p \in S, BearsText(F, p)
  PROVE  Given(answers, p) \in Seq(Pieces) /\ Given(answers, p) \in Seq(Pieces \ {Space})
<1>1. <<>> \in Seq(Pieces \ {Space}) /\ <<InstanceId>> \in Seq(Pieces \ {Space})
    <2>1. InstanceId \in Pieces \ {Space}
        BY RoundTripAssumption
    <2> QED BY <2>1
<1>2. Answers \cup {<<>>} \subseteq Seq(Pieces \ {Space})
    BY <1>1, RoundTripAssumption
<1>3. Seq(Pieces \ {Space}) \subseteq Seq(Pieces)
    OBVIOUS
<1>4. CASE p = IdPlace
    BY <1>1, <1>3, <1>4 DEF Given
<1>5. CASE p # IdPlace
    <2>1. IsAsked(F, p)
        BY <1>5 DEF BearsText
    <2>2. ~ IsRow(F, p) /\ p # <<>>
        BY <2>1, AskedPlace DEF IsAsked
    <2>3. p \in DOMAIN answers
        BY <2>1, <2>2 DEF Plan, Reached
    <2>4. answers[p] \in Answers \cup {<<>>}
        BY <2>2, <2>3 DEF Plan, Answering, AnsweredIn
    <2> QED BY <1>2, <1>3, <1>5, <2>4 DEF Given
<1> QED BY <1>4, <1>5

LEMMA Appended ==
  ASSUME NEW S, NEW s \in Seq(S), NEW y \in S, NEW t, t = Append(s, y)
  PROVE  t \in Seq(S) /\ Len(t) = Len(s) + 1 /\ t[Len(s) + 1] = y /\ \A i \in 1 .. Len(s) : t[i] = s[i]
OBVIOUS

LEMMA RemainsTaken ==
  ASSUME NEW text \in Seq(Pieces), NEW answer \in Seq(Pieces), NEW T, NEW left \in Seq(T), left # <<>>,
         Remains(text, left, answer), NEW piece \in Pieces, left[1].piece = piece,
         NEW more, more = Append(text, piece)
  PROVE  Remains(more, Tail(left), answer)
<1>1. PICK n \in Nat, l \in Nat, m \in Nat : n = Len(text) /\ l = Len(left) /\ m = Len(answer)
    OBVIOUS
<1>2. /\ n + l = m /\ (\A i \in 1 .. n : text[i] = answer[i]) /\ l # 0
      /\ \A i \in 1 .. l : left[i].piece = answer[n + i]
    <2>1. DOMAIN text = 1 .. n /\ DOMAIN left = 1 .. l /\ l # 0
        BY <1>1
    <2>2. /\ Len(text) + Len(left) = Len(answer)
          /\ \A i \in DOMAIN text : text[i] = answer[i]
          /\ \A i \in DOMAIN left : left[i].piece = answer[Len(text) + i]
        BY DEF Remains
    <2> QED BY <1>1, <2>1, <2>2
<1>3. more \in Seq(Pieces) /\ Len(more) = n + 1 /\ more[n + 1] = piece /\ \A i \in 1 .. n : more[i] = text[i]
    BY <1>1, Appended
<1>4. \A i \in 1 .. n + 1 : more[i] = answer[i]
    <2>1. more[n + 1] = answer[n + 1]
        BY <1>2, <1>3
    <2> QED BY <1>2, <1>3, <2>1
<1>5. PICK t : t = Tail(left)
    OBVIOUS
<1>6. t \in Seq(T) /\ Len(t) = l - 1 /\ \A i \in 1 .. l - 1 : t[i] = left[i + 1]
    BY <1>1, <1>5, TailIs
<1>7. CASE t = <<>>
    <2>1. l = 1 /\ m = n + 1
        BY <1>2, <1>6, <1>7
    <2>2. DOMAIN more = 1 .. n + 1
        BY <1>3
    <2> QED BY <1>1, <1>3, <1>4, <1>5, <1>7, <2>1, <2>2 DEF Remains, TextIs
<1>8. CASE t # <<>>
    <2>1. (n + 1) + (l - 1) = m
        BY <1>2
    <2>2. ASSUME NEW i \in 1 .. l - 1 PROVE t[i].piece = answer[(n + 1) + i]
        <3>1. i + 1 \in 1 .. l /\ n + (i + 1) = (n + 1) + i
            OBVIOUS
        <3> QED BY <1>2, <1>6, <3>1
    <2>3. DOMAIN more = 1 .. n + 1 /\ DOMAIN t = 1 .. l - 1
        BY <1>3, <1>6
    <2> QED BY <1>1, <1>3, <1>4, <1>5, <1>6, <1>8, <2>1, <2>2, <2>3 DEF Remains
<1> QED BY <1>7, <1>8

LEMMA TextSpaced ==
  ASSUME NEW text \in Seq(Pieces), NEW answer \in Seq(Pieces), TextIs(text, answer),
         NEW more, more = Append(text, Space)
  PROVE  TextIs(more, answer)
<1>1. PICK n \in Nat, m \in Nat : n = Len(text) /\ m = Len(answer)
    OBVIOUS
<1>2. m <= n /\ \A i \in 1 .. n : text[i] = IF i <= m THEN answer[i] ELSE Space
    BY <1>1 DEF TextIs
<1>3. more \in Seq(Pieces) /\ Len(more) = n + 1 /\ more[n + 1] = Space /\ \A i \in 1 .. n : more[i] = text[i]
    BY <1>1, Appended, RoundTripAssumption
<1>4. \A i \in 1 .. n + 1 : more[i] = IF i <= m THEN answer[i] ELSE Space
    <2>1. \A i \in 1 .. n : more[i] = IF i <= m THEN answer[i] ELSE Space
        BY <1>2, <1>3
    <2>2. more[n + 1] = IF n + 1 <= m THEN answer[n + 1] ELSE Space
        BY <1>2, <1>3
    <2>3. \A i \in 1 .. n + 1 : i = n + 1 \/ i \in 1 .. n
        OBVIOUS
    <2> QED BY <2>1, <2>2, <2>3
<1>5. DOMAIN more = 1 .. n + 1
    BY <1>3
<1> QED BY <1>1, <1>2, <1>3, <1>4, <1>5 DEF TextIs

LEMMA KeptText ==
  ASSUME NEW F, NEW fields, Fitting(F, fields), NEW answers, NEW work \in Seq(Underway(fields)),
         NEW at, NEW tree, NEW chain, NEW last, Kept(F, answers, work, at, tree, chain, last),
         NEW x, NEW j, ComesIn(work, x, j), j.kind = "Piece", j.piece \in Pieces,
         NEW text \in Seq(Pieces), text = tree[chain[Len(chain)]].text,
         NEW more, Reworded(tree, chain[Len(chain)], Append(text, j.piece), more),
         NEW other, Retopped(work, Tail(x.content), other)
  PROVE  Kept(F, answers, other, at, more, chain, last)
<1>1. /\ Plan(F, answers, other, DOMAIN at) /\ BearsText(F, x.place) /\ x.place \in DOMAIN at
      /\ DOMAIN at # {} /\ Len(work) >= 2
    BY TextPlan DEF Kept
<1>2. PICK n \in Nat : n = Len(work) /\ n >= 2 /\ x = work[n]
    <2>1. Len(work) \in Nat
        OBVIOUS
    <2> QED BY <1>1, <2>1 DEF ComesIn
<1>3. chain[Len(chain)] = at[x.place]
    <2>1. Len(chain) = n - 1 /\ n \in 2 .. n
        BY <1>2 DEF Kept, Linked
    <2>2. chain[n - 1] = at[work[n].place]
        BY <1>2, <2>1 DEF Kept, Linked
    <2> QED BY <1>2, <2>1, <2>2
<1>4. PICK e : e = at[x.place]
    OBVIOUS
<1>5. Reworded(tree, e, Append(text, j.piece), more) /\ text = tree[e].text
    BY <1>3, <1>4
<1>6. Placed(at, tree) /\ Placed(at, more)
    BY <1>5, PlacedText DEF Kept
<1>7. \A q \in DOMAIN at : /\ more[at[q]].tag = tree[at[q]].tag
                           /\ more[at[q]].text = IF at[q] = e THEN Append(text, j.piece) ELSE tree[at[q]].text
    BY <1>5, <1>6 DEF Placed, Reworded
<1>8. Linked(other, at, more, chain)
    <2>1. Onward(at, tree, at, more)
        BY <1>7 DEF Onward
    <2> QED BY <1>2, <2>1, LinkedOn, StagesPlaces DEF Kept
<1>9. Rooted(other, at, last)
    <2>1. Len(other) = n
        BY <1>2 DEF Retopped
    <2>2. Len(other) # 1
        BY <1>2, <2>1
    <2> QED BY <2>2 DEF Rooted
<1>10. other[Len(other)].place = x.place /\ other[Len(other)].content = Tail(x.content)
    BY <1>2 DEF Retopped
<1>11. Remains(more[at[x.place]].text, Tail(x.content), Given(answers, x.place))
    <2>1. Remains(text, x.content, Given(answers, x.place))
        BY <1>1, <1>2, <1>4, <1>5 DEF Kept, Texted
    <2>2. Given(answers, x.place) \in Seq(Pieces)
        BY <1>1, GivenText DEF Kept
    <2>3. x.content \in Seq(Jobs(fields)) /\ x.content # <<>> /\ j = x.content[1]
        <3>1. x \in Underway(fields)
            BY <1>2
        <3> QED BY <3>1 DEF Underway, NodesOf, ComesIn
    <2>4. more[at[x.place]].text = Append(text, j.piece)
        BY <1>1, <1>4, <1>7
    <2> QED BY <2>1, <2>2, <2>3, <2>4, RemainsTaken
<1>12. Texted(F, answers, other, at, more)
    <2> SUFFICES ASSUME NEW p \in DOMAIN at, BearsText(F, p), p # x.place
                 PROVE  TextIs(more[at[p]].text, Given(answers, p))
        BY <1>10, <1>11 DEF Texted
    <2>1. at[p] # e
        BY <1>1, <1>4, <1>6 DEF Placed
    <2>2. TextIs(tree[at[p]].text, Given(answers, p))
        BY <1>2 DEF Kept, Texted
    <2> QED BY <1>7, <2>1, <2>2
<1> QED BY <1>1, <1>6, <1>8, <1>9, <1>12 DEF Kept
\* White space around what is written.
LEMMA KeptSpace ==
  ASSUME NEW F, NEW fields, Fitting(F, fields), NEW answers, NEW work \in Seq(Underway(fields)),
         NEW at, NEW tree, NEW chain, NEW last, Kept(F, answers, work, at, tree, chain, last),
         NEW x, x = work[Len(work)], Len(work) >= 2,
         x.content = <<>> \/ x.content[1].kind = "Node",
         NEW text \in Seq(Pieces), text = tree[chain[Len(chain)]].text,
         NEW more, Reworded(tree, chain[Len(chain)], Append(text, Space), more)
  PROVE  Kept(F, answers, work, at, more, chain, last)
<1>1. PICK n \in Nat : n = Len(work) /\ n >= 2 /\ x = work[n]
    <2>1. Len(work) \in Nat
        OBVIOUS
    <2> QED BY <2>1
<1>2. Stage(F, answers, DOMAIN at, x, TRUE) /\ x.place \in DOMAIN at
    <2>1. (n = Len(work)) = TRUE /\ n \in 2 .. n
        BY <1>1
    <2>2. Stage(F, answers, DOMAIN at, work[n], TRUE)
        BY <1>1, <2>1 DEF Kept, Plan, Staged
    <2> QED BY <1>1, <2>2 DEF Stage
<1>3. chain[Len(chain)] = at[x.place]
    <2>1. Len(chain) = n - 1 /\ n \in 2 .. n
        BY <1>1 DEF Kept, Linked
    <2>2. chain[n - 1] = at[work[n].place]
        BY <1>1, <2>1 DEF Kept, Linked
    <2> QED BY <1>1, <2>1, <2>2
<1>4. PICK e : e = at[x.place]
    OBVIOUS
<1>5. Reworded(tree, e, Append(text, Space), more) /\ text = tree[e].text
    BY <1>3, <1>4
<1>6. Placed(at, tree) /\ Placed(at, more)
    BY <1>5, PlacedText DEF Kept
<1>7. \A q \in DOMAIN at : /\ more[at[q]].tag = tree[at[q]].tag
                           /\ more[at[q]].text = IF at[q] = e THEN Append(text, Space) ELSE tree[at[q]].text
    BY <1>5, <1>6 DEF Placed, Reworded
<1>8. Linked(work, at, more, chain)
    <2>1. \A k \in 2 .. Len(work) : work[k].place \in DOMAIN at
        BY StagesPlaces DEF Kept
    <2> QED BY <1>7, <2>1 DEF Kept, Linked
<1>9. BearsText(F, x.place) => x.content = <<>>
    <2> SUFFICES ASSUME BearsText(F, x.place), x.content # <<>> PROVE FALSE
        OBVIOUS
    <2>1. x \in Underway(fields)
        BY <1>1
    <2>2. x.content \in Seq(Jobs(fields))
        BY <2>1 DEF Underway, NodesOf
    <2>3. 1 \in DOMAIN x.content
        BY <2>2, TailIs
    <2>4. x.content[1].kind = "Piece"
        BY <1>2, <2>3 DEF Stage
    <2> QED BY <2>4
<1>10. ASSUME NEW p \in DOMAIN at, BearsText(F, p)
       PROVE  TextIs(more[at[p]].text, Given(answers, p)) /\ (p = x.place => x.content = <<>>)
    <2>1. p = x.place => x.content = <<>>
        BY <1>9, <1>10
    <2>2. TextIs(tree[at[p]].text, Given(answers, p))
        BY <1>1, <1>10, <2>1 DEF Kept, Texted, Remains
    <2>3. CASE at[p] = e
        <3>1. Given(answers, p) \in Seq(Pieces)
            BY <1>10, GivenText DEF Kept
        <3>2. text = tree[at[p]].text /\ more[at[p]].text = Append(text, Space)
            BY <1>5, <1>7, <2>3
        <3> QED BY <2>1, <2>2, <3>1, <3>2, TextSpaced
    <2>4. CASE at[p] # e
        BY <1>7, <2>1, <2>2, <2>4
    <2> QED BY <2>3, <2>4
<1>11. Texted(F, answers, work, at, more)
    BY <1>1, <1>10 DEF Texted, Remains
<1> QED BY <1>6, <1>8, <1>11 DEF Kept

\* An element of the client's own.
LEMMA KeptStray ==
  ASSUME NEW F, NEW fields, NEW answers, NEW work \in Seq(Underway(fields)),
         NEW at, NEW tree, NEW chain, NEW last, Kept(F, answers, work, at, tree, chain, last),
         NEW e, e.tag = <<"orx", "deviceID">>, NEW more, Longer(tree, e, more),
         work # <<>>, work[Len(work)].content # <<>> \/ Len(work) > 1,
         NEW then, Len(work) > 1 => then = last
  PROVE  Kept(F, answers, work, at, more, chain, then)
<1>1. Placed(at, tree) /\ Placed(at, more)
    BY PlacedStray DEF Kept
<1>2. \A q \in DOMAIN at : more[at[q]] = tree[at[q]]
    BY <1>1 DEF Placed, Longer
<1>3. Linked(work, at, more, chain)
    <2>1. \A k \in 2 .. Len(work) : work[k].place \in DOMAIN at
        BY StagesPlaces DEF Kept
    <2> QED BY <1>2, <2>1 DEF Kept, Linked
<1>4. Texted(F, answers, work, at, more)
    BY <1>2 DEF Kept, Texted
<1>5. Rooted(work, at, then)
    <2> SUFFICES ASSUME DOMAIN at # {}, Len(work) = 1 PROVE FALSE
        <3>1. Len(work) \in Nat \ {0}
            OBVIOUS
        <3> QED BY <3>1 DEF Kept, Rooted
    <2>1. work[Len(work)].content = <<>>
        BY DEF Kept, Plan, Outset
    <2> QED BY <2>1
<1> QED BY <1>1, <1>3, <1>4, <1>5 DEF Kept

-----------------------------------------------------------------------------
(* Reading it back. *)

\* Numbers that rise are in their order.
Rising(g, n, l) == /\ \A k \in 1 .. n : g[k] \in 1 .. l
                   /\ \A a, b \in 1 .. n : a < b => g[a] < g[b]

LEMMA RisingCount ==
  ASSUME NEW n \in Nat, NEW l \in Nat, NEW g, Rising(g, n, l)
  PROVE  Cardinality({g[k] : k \in 1 .. n}) = n
<1>1. PICK S : S = {g[k] : k \in 1 .. n}
    OBVIOUS
<1>2. PICK h : h = [k \in 1 .. n |-> g[k]]
    OBVIOUS
<1>3. h \in [1 .. n -> S]
    BY <1>1, <1>2
<1>4. \A a, b \in 1 .. n : h[a] = h[b] => a = b
    <2> SUFFICES ASSUME NEW a \in 1 .. n, NEW b \in 1 .. n, g[a] = g[b] PROVE a = b
        BY <1>2
    <2>1. g[a] \in Nat /\ g[b] \in Nat
        BY DEF Rising
    <2>2. ~ a < b /\ ~ b < a
        BY <2>1 DEF Rising
    <2> QED BY <2>2
<1>5. \A t \in S : \E k \in 1 .. n : h[k] = t
    BY <1>1, <1>2
<1>6. h \in Bijection(1 .. n, S)
    BY <1>3, <1>4, <1>5 DEF Bijection, Injection, Surjection, IsInjective
<1>7. ExistsBijection(1 .. n, S)
    BY <1>6 DEF ExistsBijection
<1> QED BY <1>1, <1>7, FS_CountingElements

LEMMA InOrderMaps ==
  ASSUME NEW numbers
  PROVE  InOrder(numbers) = [k \in 1 .. Cardinality(numbers) |-> InOrder(numbers)[k]]
BY DEF InOrder

LEMMA InOrderRising ==
  ASSUME NEW n \in Nat, NEW l \in Nat, NEW g, Rising(g, n, l),
         NEW numbers, numbers = {g[k] : k \in 1 .. n}
  PROVE  InOrder(numbers) = [k \in 1 .. n |-> g[k]]
<1>1. numbers \in SUBSET (1 .. l) /\ Cardinality(numbers) = n
    <2>1. numbers \in SUBSET (1 .. l)
        BY DEF Rising
    <2>2. Cardinality(numbers) = n
        <3>1. Cardinality({g[k] : k \in 1 .. n}) = n
            BY RisingCount
        <3> QED BY <3>1
    <2> QED BY <2>1, <2>2
<1>2. ASSUME NEW k \in 1 .. n PROVE Rank(numbers, g[k]) = k
    <2>1. {j \in numbers : j <= g[k]} = {g[m] : m \in 1 .. k}
        <3>1. ASSUME NEW m \in 1 .. n PROVE g[m] <= g[k] <=> m <= k
            <4>1. g[m] \in Nat /\ g[k] \in Nat
                BY DEF Rising
            <4>2. CASE m < k
                BY <4>1, <4>2 DEF Rising
            <4>3. CASE m = k
                BY <4>1, <4>3
            <4>4. CASE k < m
                BY <4>1, <4>4 DEF Rising
            <4> QED BY <4>2, <4>3, <4>4
        <3> QED BY <3>1
    <2>2. Rising(g, k, l) /\ k \in Nat
        BY DEF Rising
    <2> QED BY <2>1, <2>2, RisingCount DEF Rank
<1>3. \A i \in numbers : InOrder(numbers)[Rank(numbers, i)] = i
    BY <1>1, InOrderIs
<1>4. \A k \in 1 .. n : InOrder(numbers)[k] = g[k]
    BY <1>2, <1>3
<1>5. InOrder(numbers) = [k \in 1 .. n |-> InOrder(numbers)[k]]
    <2>1. InOrder(numbers) = [k \in 1 .. Cardinality(numbers) |-> InOrder(numbers)[k]]
        BY InOrderMaps
    <2> QED BY <1>1, <2>1
<1> QED BY <1>4, <1>5

LEMMA MinIs ==
  ASSUME NEW numbers \in SUBSET Int, NEW m \in numbers, \A k \in numbers : m <= k
  PROVE  Min(numbers) = m
<1>1. \E x \in numbers : \A y \in numbers : x <= y
    OBVIOUS
<1>2. Min(numbers) \in numbers /\ \A y \in numbers : Min(numbers) <= y
    BY <1>1 DEF Min
<1>3. Min(numbers) \in Int /\ m \in Int /\ Min(numbers) >= m /\ Min(numbers) <= m
    BY <1>2
<1> QED BY <1>3

\* An answer has no white space, so it is what is left of its text.
LEMMA TrimmedIs ==
  ASSUME NEW text \in Seq(Pieces), NEW answer \in Seq(Pieces \ {Space}), TextIs(text, answer)
  PROVE  Trimmed(text) = answer
<1>1. PICK n \in Nat, m \in Nat : n = Len(text) /\ m = Len(answer)
    OBVIOUS
<1>2. m <= n /\ \A i \in 1 .. n : text[i] = IF i <= m THEN answer[i] ELSE Space
    BY <1>1 DEF TextIs
<1>3. \A i \in 1 .. m : answer[i] # Space
    BY <1>1
<1>4. PICK inked : inked = {i \in DOMAIN text : text[i] # Space}
    OBVIOUS
<1>5. inked = 1 .. m
    BY <1>1, <1>2, <1>3, <1>4
<1>6. Trimmed(text) = IF inked = {} THEN <<>> ELSE SubSeq(text, Min(inked), Max(inked))
    BY <1>4 DEF Trimmed
<1>7. CASE m = 0
    <2>1. inked = {}
        BY <1>5, <1>7
    <2>2. answer = <<>>
        <3>1. Len(answer) = 0
            BY <1>1, <1>7
        <3> QED BY <3>1, EmptySeq
    <2> QED BY <1>6, <2>1, <2>2
<1>8. CASE m # 0
    <2>1. 1 \in inked /\ m \in inked /\ inked \in SUBSET Int /\ \A i \in inked : 1 <= i /\ i <= m
        BY <1>5, <1>8
    <2>2. Min(inked) = 1 /\ Max(inked) = m
        BY <2>1, MinIs, MaxIs
    <2>3. SubSeq(text, 1, m) = answer
        <3>1. SubSeq(text, 1, m) \in Seq(Pieces) /\ Len(SubSeq(text, 1, m)) = m
              /\ \A i \in 1 .. m : SubSeq(text, 1, m)[i] = text[i]
            BY <1>1, <1>2
        <3>2. \A i \in 1 .. m : SubSeq(text, 1, m)[i] = answer[i]
            BY <1>2, <3>1
        <3>3. answer \in Seq(Pieces)
            OBVIOUS
        <3> QED BY <1>1, <3>1, <3>2, <3>3
    <2> QED BY <1>6, <2>1, <2>2, <2>3
<1> QED BY <1>7, <1>8

-----------------------------------------------------------------------------
(* The tree when everything is written. *)

\* Every place that is expected was written, and has its text.
Finished(F, answers, at, tree, last) ==
  /\ <<>> \in DOMAIN at /\ last = at[<<>>]
  /\ \A p : Expected(F, answers, p) /\ Outer(p) \in DOMAIN at => p \in DOMAIN at
  /\ Reached(F, answers, DOMAIN at) /\ Numbered(F, answers)
  /\ Placed(at, tree) /\ RowsRise(F, at)
  /\ \A p \in DOMAIN at : BearsText(F, p) =>
       TextIs(tree[at[p]].text, Given(answers, p)) /\ Given(answers, p) \in Seq(Pieces \ {Space})
  /\ \A p \in DOMAIN at : IsAsked(F, p) => \A f : AsksAt(F, p, Outer(p), f) => Fits(answers[p], f)

LEMMA KeptIsFinished ==
  ASSUME NEW F, NEW fields, Fitting(F, fields), NEW answers, NEW work \in Seq(Underway(fields)),
         NEW at, NEW tree, NEW chain, NEW last, Kept(F, answers, work, at, tree, chain, last),
         Len(work) = 1, work[Len(work)].content = <<>>
  PROVE  Finished(F, answers, at, tree, last) /\ Len(chain) = 0
<1>1. Plan(F, answers, work, DOMAIN at)
    BY DEF Kept
<1>2. DOMAIN at # {}
    <2>1. ASSUME DOMAIN at = {} PROVE FALSE
        <3>1. work = <<Node(<<>>, <<>>, <<>>, <<TheDocument(F)>>)>>
            BY <1>1, <2>1 DEF Plan, Outset
        <3>2. PICK y : y = work[Len(work)]
            OBVIOUS
        <3>3. y = Node(<<>>, <<>>, <<>>, <<TheDocument(F)>>)
            BY <3>1, <3>2
        <3>4. y.content = <<TheDocument(F)>>
            BY <3>3, NodeParts
        <3>5. \A z : <<z>> # <<>>
            OBVIOUS
        <3> QED BY <3>2, <3>4, <3>5
    <2> QED BY <2>1
<1>3. <<>> \in DOMAIN at /\ work[1].place = <<>>
    BY <1>1, <1>2 DEF Plan, Outset
<1>4. last = at[<<>>]
    BY <1>2 DEF Kept, Rooted
<1>5. \A p : Expected(F, answers, p) /\ Outer(p) \in DOMAIN at => p \in DOMAIN at
    <2>1. \A p : ~ Awaited(work, p)
        BY DEF Awaited
    <2> QED BY <1>1, <2>1 DEF Plan, Ahead
<1>6. ASSUME NEW p \in DOMAIN at, BearsText(F, p)
      PROVE  TextIs(tree[at[p]].text, Given(answers, p)) /\ Given(answers, p) \in Seq(Pieces \ {Space})
    <2>1. p # <<>>
        BY <1>6, MetaPlaces
    <2>2. TextIs(tree[at[p]].text, Given(answers, p))
        BY <1>3, <1>6, <2>1 DEF Kept, Texted
    <2> QED BY <1>1, <1>6, <2>2, GivenText
<1>7. ASSUME NEW p \in DOMAIN at, IsAsked(F, p), NEW f, AsksAt(F, p, Outer(p), f)
      PROVE  Fits(answers[p], f)
    <2>1. ~ IsRow(F, p) /\ p # <<>> /\ \A b, g : AsksAt(F, p, b, g) => g = f
        BY <1>7, AskedPlace
    <2>2. p \in DOMAIN answers
        BY <1>1, <1>7, <2>1 DEF Plan, Reached
    <2>3. AnsweredIn(F, answers, DOMAIN at, p)
        BY <1>1, <2>1, <2>2 DEF Plan, Answering
    <2> QED BY <2>1, <2>3 DEF AnsweredIn
<1>8. Len(chain) = 0
    BY DEF Kept, Linked
<1>9. Reached(F, answers, DOMAIN at) /\ Numbered(F, answers) /\ Placed(at, tree) /\ RowsRise(F, at)
    BY <1>1 DEF Plan, Kept
<1> QED BY <1>3, <1>4, <1>5, <1>6, <1>7, <1>8, <1>9 DEF Finished

\* The children of the element at a place are at the places in it.
Inner(at, a, name) == {q \in DOMAIN at : q # <<>> /\ Outer(q) = a /\ NameAt(q) = name}

LEMMA KidsAre ==
  ASSUME Grown, NEW at, Finished(form, filled, at, elements, root), NEW a \in DOMAIN at, NEW name, name # "deviceID"
  PROVE  ChildrenNamed(at[a], name) = {at[q] : q \in Inner(at, a, name)}
<1>1. Placed(at, elements) /\ <<>> \in DOMAIN at /\ root = at[<<>>]
    BY DEF Finished
<1>2. \A q \in DOMAIN at : at[q] \in 1 .. Len(elements) /\ at[q] # 0
    BY <1>1 DEF Placed
<1>3. elements[at[<<>>]].parent = 0
    BY <1>1, <1>2 DEF Grown
<1>4. DOMAIN elements = 1 .. Len(elements)
    BY DEF Grown, Typed
<1>5. ASSUME NEW q \in Inner(at, a, name) PROVE at[q] \in ChildrenNamed(at[a], name)
    BY <1>1, <1>2, <1>4 DEF Inner, ChildrenNamed, Placed
<1>6. ASSUME NEW k \in ChildrenNamed(at[a], name) PROVE \E q \in Inner(at, a, name) : k = at[q]
    <2>1. k \in 1 .. Len(elements) /\ elements[k].parent = at[a] /\ LocalName(elements[k].tag) = name
        BY <1>4 DEF ChildrenNamed
    <2>2. LocalName(<<"orx", "deviceID">>) = "deviceID"
        BY DEF LocalName
    <2>3. elements[k].tag # <<"orx", "deviceID">>
        BY <2>1, <2>2
    <2>4. PICK q \in DOMAIN at : at[q] = k
        BY <1>1, <2>1, <2>3 DEF Placed
    <2>5. q # <<>>
        BY <1>2, <1>3, <2>1, <2>4
    <2>6. Outer(q) \in DOMAIN at /\ at[Outer(q)] = at[a] /\ NameAt(q) = name
        BY <1>1, <2>1, <2>4, <2>5 DEF Placed
    <2>7. Outer(q) = a
        BY <1>1, <2>6 DEF Placed
    <2> QED BY <2>4, <2>5, <2>6, <2>7 DEF Inner
<1> QED BY <1>5, <1>6

LEMMA OnlyChild ==
  ASSUME NEW i, NEW name, NEW k \in Nat, ChildrenNamed(i, name) = {k}
  PROVE  Child(i, name) = k
BY DEF Child

\* What is at a place with that name.
LEMMA InnerIs ==
  ASSUME NEW F, NEW fields, Fitting(F, fields), NEW answers, NEW at, Reached(F, answers, DOMAIN at),
         NEW a, NEW name, NEW q \in Inner(at, a, name)
  PROVE  \/ \E f : AsksAt(F, q, a, f) /\ f.name = name
         \/ a = <<>> /\ \E f \in Repeats(F) : f.name = name /\ \E n \in Rowed(answers, f) : q = <<f.name, n>>
         \/ a = <<>> /\ name = "meta" /\ q = MetaPlace
         \/ a = MetaPlace /\ name = "instanceID" /\ q = IdPlace
<1>1. q \in DOMAIN at /\ q # <<>> /\ Outer(q) = a /\ NameAt(q) = name
    BY DEF Inner
<1>2. Expected(F, answers, q)
    BY <1>1 DEF Reached
<1>3. CASE IsAsked(F, q)
    <2>1. PICK b, f : AsksAt(F, q, b, f)
        BY <1>3 DEF IsAsked
    <2>2. b = a /\ f.name = name
        BY <1>1, <2>1, AskedPlace
    <2> QED BY <2>1, <2>2
<1>4. CASE q \in {MetaPlace, IdPlace}
    BY <1>1, <1>4, MetaPlaces
<1>5. CASE IsRow(F, q) /\ q \in DOMAIN answers
    <2>1. PICK f \in Repeats(F), n \in 1 .. MaxRows : q = <<f.name, n>>
        BY <1>5 DEF IsRow
    <2>2. n \in Rowed(answers, f)
        BY <1>5, <2>1 DEF Rowed
    <2>3. Outer(q) = <<>> /\ NameAt(q) = f.name
        BY <2>1, RowPlace
    <2> QED BY <1>1, <2>1, <2>2, <2>3
<1> QED BY <1>2, <1>3, <1>4, <1>5 DEF Expected

\* A question has one element, with its answer.
LEMMA AskedChild ==
  ASSUME Grown, NEW fields, Fitting(form, fields), NEW at, Finished(form, filled, at, elements, root),
         NEW a \in DOMAIN at, NEW some, Holds(form, a, some), NEW f \in Questions(some)
  PROVE  /\ ChildrenNamed(at[a], f.name) # {}
         /\ Trimmed(elements[Child(at[a], f.name)].text) = filled[Append(a, f.name)]
         /\ Fits(filled[Append(a, f.name)], f)
<1>1. PICK p : p = Append(a, f.name)
    OBVIOUS
<1>2. AsksAt(form, p, a, f)
    BY <1>1 DEF AsksAt
<1>3. /\ p # <<>> /\ Outer(p) = a /\ NameAt(p) = f.name /\ IsAsked(form, p) /\ BearsText(form, p)
      /\ p # MetaPlace /\ p # IdPlace /\ f.name # "deviceID" /\ f.type # "Repeat"
    BY <1>2, AskedPlace
<1>4. p \in DOMAIN at
    BY <1>3 DEF Finished, Expected
<1>5. Reached(form, filled, DOMAIN at) /\ Placed(at, elements)
    BY DEF Finished
<1>6. Inner(at, a, f.name) = {p}
    <2>1. p \in Inner(at, a, f.name)
        BY <1>3, <1>4 DEF Inner
    <2> SUFFICES ASSUME NEW q \in Inner(at, a, f.name) PROVE q = p
        BY <2>1
    <2>2. f \in ToSet(some) /\ (a = <<>> => f.name # "meta")
        BY HeldFields DEF Questions
    <2>3. CASE \E g : AsksAt(form, q, a, g) /\ g.name = f.name
        BY <1>1, <2>3, AskedPlace
    <2>4. ASSUME a = <<>>, NEW g \in Repeats(form), g.name = f.name PROVE FALSE
        <3>1. Holds(form, a, form)
            BY <2>4 DEF Holds
        <3>2. some = form
            BY <3>1, HoldsOnce
        <3>3. g \in ToSet(some) /\ g.type = "Repeat"
            BY <3>2 DEF Repeats
        <3> QED BY <1>3, <2>2, <2>4, <3>3, HeldFields
    <2>5. ~ Holds(form, MetaPlace, some)
        <3>1. \A x : Holds(form, x, some) => x = <<>> \/ IsRow(form, x)
            BY DEF Holds, IsRow
        <3> QED BY <3>1, MetaPlaces
    <2> QED BY <1>5, <2>2, <2>3, <2>4, <2>5, InnerIs
<1>7. ChildrenNamed(at[a], f.name) = {at[p]}
    BY <1>3, <1>6, KidsAre
<1>8. at[p] \in 1 .. Len(elements) /\ elements \in Seq(Nodes)
    BY <1>4, <1>5 DEF Placed, Grown, Typed
<1>9. Child(at[a], f.name) = at[p]
    BY <1>7, <1>8, OnlyChild
<1>10. TextIs(elements[at[p]].text, filled[p]) /\ filled[p] \in Seq(Pieces \ {Space})
    BY <1>3, <1>4 DEF Finished, Given
<1>11. elements[at[p]].text \in Seq(Pieces)
    <2>1. elements[at[p]] \in Nodes
        BY <1>8
    <2> QED BY <2>1 DEF Nodes
<1>12. Trimmed(elements[at[p]].text) = filled[p]
    BY <1>10, <1>11, TrimmedIs
<1>13. Fits(filled[p], f)
    BY <1>2, <1>3, <1>4 DEF Finished
<1> QED BY <1>1, <1>7, <1>9, <1>12, <1>13

\* The form and the instance are found.
LEMMA FindsForm ==
  ASSUME NEW at, Finished(form, filled, at, elements, root)
  PROVE  HasFormId
<1>1. elements[root].attrs = Identified
    BY DEF Finished, Placed
<1>2. PICK attrs : attrs = elements[root].attrs
    OBVIOUS
<1>3. /\ DOMAIN attrs = 1 .. 1 /\ attrs[1].key = <<"id">> /\ attrs[1].value = FormId
    BY <1>1, <1>2 DEF Identified
<1>4. LocalName(<<"id">>) = "id"
    BY DEF LocalName
<1>5. HasAttr(root, "id")
    BY <1>2, <1>3, <1>4 DEF HasAttr
<1>6. Attr(root, "id") = FormId
    <2>1. PICK k : k = CHOOSE n \in DOMAIN attrs :
                         /\ LocalName(attrs[n].key) = "id"
                         /\ \A m \in 1 .. n - 1 : LocalName(attrs[m].key) # "id"
        OBVIOUS
    <2>2. LocalName(attrs[1].key) = "id" /\ \A m \in 1 .. 1 - 1 : LocalName(attrs[m].key) # "id"
        BY <1>3, <1>4
    <2>3. k = 1
        BY <1>3, <2>1, <2>2
    <2>4. Attr(root, "id") = attrs[k].value
        BY <1>2, <2>1 DEF Attr
    <2> QED BY <1>3, <2>3, <2>4
<1> QED BY <1>5, <1>6, RoundTripAssumption DEF HasFormId

LEMMA FindsInstance ==
  ASSUME Grown, NEW fields, Fitting(form, fields), NEW at, Finished(form, filled, at, elements, root)
  PROVE  HasInstanceId
<1>1. Reached(form, filled, DOMAIN at) /\ Placed(at, elements) /\ <<>> \in DOMAIN at /\ root = at[<<>>]
    BY DEF Finished
<1>2. MetaPlace \in DOMAIN at
    BY <1>1, MetaPlaces DEF Finished, Expected
<1>3. IdPlace \in DOMAIN at
    BY <1>2, MetaPlaces DEF Finished, Expected
<1>4. Inner(at, <<>>, "meta") = {MetaPlace}
    <2>1. MetaPlace \in Inner(at, <<>>, "meta")
        BY <1>2, MetaPlaces DEF Inner
    <2> SUFFICES ASSUME NEW q \in Inner(at, <<>>, "meta") PROVE q = MetaPlace
        BY <2>1
    <2>2. ASSUME NEW f, AsksAt(form, q, <<>>, f) PROVE f.name # "meta"
        <3>1. PICK some : Holds(form, <<>>, some) /\ f \in Questions(some)
            BY <2>2 DEF AsksAt
        <3> QED BY <3>1, HeldFields DEF Questions
    <2>3. ASSUME NEW f \in Repeats(form) PROVE f.name # "meta"
        BY DEF Repeats, Fitting
    <2> QED BY <1>1, <2>2, <2>3, InnerIs
<1>5. Inner(at, MetaPlace, "instanceID") = {IdPlace}
    <2>1. IdPlace \in Inner(at, MetaPlace, "instanceID")
        BY <1>3, MetaPlaces DEF Inner
    <2> SUFFICES ASSUME NEW q \in Inner(at, MetaPlace, "instanceID") PROVE q = IdPlace
        BY <2>1
    <2>2. MetaPlace # <<>> /\ ~ IsRow(form, MetaPlace)
        BY MetaPlaces
    <2>3. ~ \E f : AsksAt(form, q, MetaPlace, f)
        BY <2>2, AskedPlace
    <2> QED BY <1>1, <2>2, <2>3, InnerIs
<1>6. at[MetaPlace] \in Nat /\ at[IdPlace] \in 1 .. Len(elements)
    BY <1>1, <1>2, <1>3 DEF Placed
<1>7. ChildrenNamed(root, "meta") = {at[MetaPlace]} /\ Child(root, "meta") = at[MetaPlace]
    <2>1. ChildrenNamed(at[<<>>], "meta") = {at[MetaPlace]}
        BY <1>1, <1>4, KidsAre
    <2> QED BY <1>1, <1>6, <2>1, OnlyChild
<1>8. ChildrenNamed(at[MetaPlace], "instanceID") = {at[IdPlace]} /\ Child(at[MetaPlace], "instanceID") = at[IdPlace]
    <2>1. ChildrenNamed(at[MetaPlace], "instanceID") = {at[IdPlace]}
        BY <1>2, <1>5, KidsAre
    <2> QED BY <1>6, <2>1, OnlyChild
<1>9. ~ IsWhite(elements[at[IdPlace]].text)
    <2>1. PICK text : text = elements[at[IdPlace]].text
        OBVIOUS
    <2>2. TextIs(text, <<InstanceId>>)
        BY <1>3, <2>1 DEF Finished, BearsText, Given
    <2>3. text \in Seq(Pieces)
        <3>1. elements[at[IdPlace]] \in Nodes
            BY <1>6 DEF Grown, Typed
        <3> QED BY <2>1, <3>1 DEF Nodes
    <2>4. Len(<<InstanceId>>) = 1 /\ <<InstanceId>>[1] = InstanceId
        OBVIOUS
    <2>5. Len(text) >= 1 /\ Len(text) \in Nat /\ DOMAIN text = 1 .. Len(text)
        BY <2>2, <2>3, <2>4 DEF TextIs
    <2>6. 1 \in DOMAIN text
        BY <2>5
    <2>7. text[1] = InstanceId
        BY <2>2, <2>4, <2>6 DEF TextIs
    <2>8. InstanceId # Space
        BY RoundTripAssumption
    <2> QED BY <2>1, <2>6, <2>7, <2>8 DEF IsWhite
<1> QED BY <1>7, <1>8, <1>9 DEF HasInstanceId

-----------------------------------------------------------------------------
(* What the mapping onto the form makes of it. *)

LEMMA NamedIs ==
  ASSUME NEW fields, NEW f \in fields, \A e, g \in fields : e.name = g.name => e = g
  PROVE  Named(fields, f.name) = f
BY DEF Named

ReadingIs(fields, instance, answers) ==
  /\ DOMAIN answers \subseteq {f.name : f \in fields} \cap DOMAIN instance
  /\ \A f \in fields : f.name \in DOMAIN instance /\ (f.type = "Repeat" \/ Fits(instance[f.name], f)) =>
       f.name \in DOMAIN answers /\ answers[f.name] = Coerce(instance[f.name], f)

LEMMA ReadIs ==
  ASSUME NEW fields, \A e, g \in fields : e.name = g.name => e = g, NEW instance
  PROVE  ReadingIs(fields, instance, Read(fields, instance))
<1>1. PICK held : held = {f \in Answerable(fields, instance) : f.type = "Repeat" \/ Fits(instance[f.name], f)}
    OBVIOUS
<1>2. Read(fields, instance) = [name \in {f.name : f \in held} |-> Coerce(instance[name], Named(held, name))]
    BY <1>1 DEF Read
<1>3. held \subseteq fields /\ \A f \in held : f.name \in DOMAIN instance
    BY <1>1 DEF Answerable
<1>4. \A f \in held : Named(held, f.name) = f
    BY <1>3, NamedIs
<1>5. DOMAIN Read(fields, instance) \subseteq {f.name : f \in fields} \cap DOMAIN instance
    BY <1>2, <1>3
<1>6. ASSUME NEW f \in fields, f.name \in DOMAIN instance, f.type = "Repeat" \/ Fits(instance[f.name], f)
      PROVE  /\ f.name \in DOMAIN Read(fields, instance)
             /\ Read(fields, instance)[f.name] = Coerce(instance[f.name], f)
    <2>1. f \in held
        BY <1>1, <1>6 DEF Answerable
    <2> QED BY <1>2, <1>4, <2>1
<1> QED BY <1>5, <1>6 DEF ReadingIs

\* The rows and the answers of a submission.
SubmissionIs(F, instance, answers) ==
  /\ DOMAIN answers \subseteq {f.name : f \in ToSet(F)} \cap DOMAIN instance
  /\ \A f \in Questions(F) : f.name \in DOMAIN instance /\ Fits(instance[f.name], f) =>
       f.name \in DOMAIN answers /\ answers[f.name] = Coerce(instance[f.name], f)
  /\ \A f \in Repeats(F) : f.name \in DOMAIN instance /\ instance[f.name] # <<>> =>
       /\ f.name \in DOMAIN answers
       /\ answers[f.name] = [kind |-> "Repeat",
                             rows |-> [i \in DOMAIN instance[f.name] |-> RepeatRow(f, instance[f.name][i])]]

LEMMA ToSubmissionIs ==
  ASSUME NEW F, \A e, g \in ToSet(F) : e.name = g.name => e = g, NEW instance
  PROVE  SubmissionIs(F, instance, ToSubmission(F, instance))
<1>1. PICK held : held = {f \in Answerable(ToSet(F), instance) : f.type = "Repeat" /\ instance[f.name] # <<>>}
    OBVIOUS
<1> DEFINE RowsOf(f) == [i \in DOMAIN instance[f.name] |-> RepeatRow(f, instance[f.name][i])]
           lists == [name \in {f.name : f \in held} |-> [kind |-> "Repeat", rows |-> RowsOf(Named(held, name))]]
<1>2. ToSubmission(F, instance) = Over(lists, Read(Questions(F), instance))
    BY <1>1 DEF ToSubmission
<1>3. held \subseteq Repeats(F) /\ (\A f \in held : f.name \in DOMAIN instance)
      /\ \A f \in Repeats(F) : f.name \in DOMAIN instance /\ instance[f.name] # <<>> => f \in held
    BY <1>1 DEF Answerable, Repeats
<1>4. Repeats(F) \subseteq ToSet(F) /\ Questions(F) \subseteq ToSet(F) /\ \A f \in Repeats(F), g \in Questions(F) : f.name # g.name
    BY DEF Repeats, Questions
<1>5. \A f \in held : Named(held, f.name) = f
    BY <1>3, <1>4, NamedIs
<1>6. DOMAIN lists = {f.name : f \in held}
    OBVIOUS
<1>7. \A f \in held : lists[f.name] = [kind |-> "Repeat", rows |-> RowsOf(f)]
    BY <1>5
<1> HIDE DEF lists
<1>8. PICK others : others = Read(Questions(F), instance)
    OBVIOUS
<1>9. /\ DOMAIN others \subseteq {f.name : f \in Questions(F)} \cap DOMAIN instance
      /\ \A f \in Questions(F) : f.name \in DOMAIN instance /\ Fits(instance[f.name], f) =>
           f.name \in DOMAIN others /\ others[f.name] = Coerce(instance[f.name], f)
    <2>1. \A e, g \in Questions(F) : e.name = g.name => e = g
        BY <1>4
    <2>2. ReadingIs(Questions(F), instance, others)
        BY <1>8, <2>1, ReadIs
    <2> QED BY <2>2 DEF ReadingIs
<1>10. PICK answers : answers = Over(lists, others)
    OBVIOUS
<1>11. /\ DOMAIN answers = DOMAIN lists \cup DOMAIN others
       /\ \A name \in DOMAIN lists : answers[name] = lists[name]
       /\ \A name \in DOMAIN others : name \notin DOMAIN lists => answers[name] = others[name]
    BY <1>10 DEF Over
<1>12. DOMAIN answers \subseteq {f.name : f \in ToSet(F)} \cap DOMAIN instance
    BY <1>3, <1>4, <1>6, <1>9, <1>11
<1>13. \A f \in Questions(F) : f.name \notin DOMAIN lists
    BY <1>3, <1>4, <1>6
<1>14. \A f \in Questions(F) : f.name \in DOMAIN instance /\ Fits(instance[f.name], f) =>
         f.name \in DOMAIN answers /\ answers[f.name] = Coerce(instance[f.name], f)
    BY <1>9, <1>11, <1>13
<1>15. \A f \in Repeats(F) : f.name \in DOMAIN instance /\ instance[f.name] # <<>> =>
         /\ f.name \in DOMAIN answers
         /\ answers[f.name] = [kind |-> "Repeat", rows |-> RowsOf(f)]
    BY <1>3, <1>6, <1>7, <1>11
<1> QED BY <1>2, <1>8, <1>10, <1>12, <1>14, <1>15 DEF SubmissionIs

\* Every question around a place is answered as it was filled in.
AnsweredAs(answers, instance, a, some) ==
  \A f \in Questions(some) :
    /\ f.name \in DOMAIN instance /\ instance[f.name] = answers[Append(a, f.name)]
    /\ Fits(answers[Append(a, f.name)], f)

LEMMA AnsweredIs ==
  ASSUME Grown, NEW fields, Fitting(form, fields), NEW at, Finished(form, filled, at, elements, root),
         NEW a \in DOMAIN at, NEW some, Holds(form, a, some)
  PROVE  AnsweredAs(filled, Answered(some, at[a]), a, some)
<1>1. some \in Seq(fields)
    BY HeldFields
<1>2. Names(some) = {f.name : f \in ToSet(some)}
    BY <1>1, NamesIs
<1> SUFFICES ASSUME NEW f \in Questions(some)
             PROVE  /\ f.name \in DOMAIN Answered(some, at[a])
                    /\ Answered(some, at[a])[f.name] = filled[Append(a, f.name)]
                    /\ Fits(filled[Append(a, f.name)], f)
    BY DEF AnsweredAs
<1>3. /\ ChildrenNamed(at[a], f.name) # {}
      /\ Trimmed(elements[Child(at[a], f.name)].text) = filled[Append(a, f.name)]
      /\ Fits(filled[Append(a, f.name)], f)
    BY AskedChild
<1>4. f.name \in Names(some)
    BY <1>2 DEF Questions
<1>5. f.name \in DOMAIN Answered(some, at[a])
    BY <1>3, <1>4 DEF Answered
<1>6. Answered(some, at[a])[f.name] = Trimmed(elements[Child(at[a], f.name)].text)
    BY <1>3, <1>4 DEF Answered
<1> QED BY <1>3, <1>5, <1>6

\* The rows of a repeat are found, in their order.
RowsFound(at, f, n) ==
  /\ \A m \in 1 .. n : <<f.name, m>> \in DOMAIN at
  /\ ChildrenNamed(root, f.name) = {at[<<f.name, m>>] : m \in 1 .. n}
  /\ InOrder(ChildrenNamed(root, f.name)) = [m \in 1 .. n |-> at[<<f.name, m>>]]

LEMMA RowsAreFound ==
  ASSUME Grown, NEW fields, Fitting(form, fields), NEW at, Finished(form, filled, at, elements, root),
         NEW f \in Repeats(form), NEW n \in 0 .. MaxRows, Rowed(filled, f) = 1 .. n
  PROVE  RowsFound(at, f, n)
<1>1. Reached(form, filled, DOMAIN at) /\ Placed(at, elements) /\ <<>> \in DOMAIN at /\ root = at[<<>>]
    BY DEF Finished
<1>2. MaxRows \in Nat /\ n \in Nat /\ f.name # "deviceID" /\ f.name # "meta"
    <2>1. \A g \in ToSet(form) : g.name # "deviceID"
        <3>1. Holds(form, <<>>, form)
            BY DEF Holds
        <3> QED BY <3>1, HeldFields
    <2>2. f \in ToSet(form)
        BY DEF Repeats
    <2>3. MaxRows \in Nat /\ f.name # "meta"
        BY <2>2 DEF Fitting
    <2> QED BY <2>1, <2>2, <2>3
<1>3. ASSUME NEW m \in 1 .. n
      PROVE  /\ m \in 1 .. MaxRows /\ <<f.name, m>> \in DOMAIN at /\ <<f.name, m>> # <<>>
             /\ Outer(<<f.name, m>>) = <<>> /\ NameAt(<<f.name, m>>) = f.name
    <2>1. m \in Rowed(filled, f) /\ m \in 1 .. MaxRows
        BY <1>2
    <2>2. PICK p : p = <<f.name, m>>
        OBVIOUS
    <2>3. IsRow(form, p) /\ p # <<>> /\ Outer(p) = <<>> /\ NameAt(p) = f.name
        BY <2>1, <2>2, RowPlace
    <2>4. p \in DOMAIN filled
        BY <2>1, <2>2 DEF Rowed
    <2>5. p \in DOMAIN at
        BY <1>1, <2>3, <2>4 DEF Finished, Expected
    <2> QED BY <2>1, <2>2, <2>3, <2>5
<1>4. Inner(at, <<>>, f.name) = {<<f.name, m>> : m \in 1 .. n}
    <2>1. \A m \in 1 .. n : <<f.name, m>> \in Inner(at, <<>>, f.name)
        BY <1>3 DEF Inner
    <2> SUFFICES ASSUME NEW q \in Inner(at, <<>>, f.name) PROVE \E m \in 1 .. n : q = <<f.name, m>>
        BY <2>1
    <2>2. ~ \E g : AsksAt(form, q, <<>>, g) /\ g.name = f.name
        <3> SUFFICES ASSUME NEW g, AsksAt(form, q, <<>>, g), g.name = f.name PROVE FALSE
            OBVIOUS
        <3>1. PICK some : Holds(form, <<>>, some) /\ g \in Questions(some)
            BY DEF AsksAt
        <3>2. Holds(form, <<>>, form)
            BY DEF Holds
        <3>3. some = form
            BY <3>1, <3>2, HoldsOnce
        <3> QED BY <3>1, <3>3 DEF Questions, Repeats, Fitting
    <2>3. <<>> # MetaPlace
        BY MetaPlaces
    <2>4. PICK g \in Repeats(form) : g.name = f.name /\ \E m \in Rowed(filled, g) : q = <<g.name, m>>
        BY <1>1, <1>2, <2>2, <2>3, InnerIs
    <2>5. g = f
        BY <2>4 DEF Repeats, Fitting
    <2> QED BY <2>4, <2>5
<1>5. ChildrenNamed(root, f.name) = {at[<<f.name, m>>] : m \in 1 .. n}
    <2>1. ChildrenNamed(at[<<>>], f.name) = {at[q] : q \in Inner(at, <<>>, f.name)}
        BY <1>1, <1>2, KidsAre
    <2> QED BY <1>1, <1>4, <2>1
<1>6. PICK g : g = [m \in 1 .. n |-> at[<<f.name, m>>]]
    OBVIOUS
<1>7. Rising(g, n, Len(elements))
    <2>1. \A m \in 1 .. n : g[m] \in 1 .. Len(elements)
        BY <1>1, <1>3, <1>6 DEF Placed
    <2>2. ASSUME NEW a \in 1 .. n, NEW b \in 1 .. n, a < b PROVE g[a] < g[b]
        <3>1. at[<<f.name, a>>] < at[<<f.name, b>>]
            BY <1>3, <2>2 DEF Finished, RowsRise
        <3> QED BY <1>6, <3>1
    <2> QED BY <2>1, <2>2 DEF Rising
<1>8. Len(elements) \in Nat
    BY DEF Grown, Typed
<1>9. ChildrenNamed(root, f.name) = {g[m] : m \in 1 .. n}
    BY <1>5, <1>6
<1>10. InOrder(ChildrenNamed(root, f.name)) = [m \in 1 .. n |-> g[m]]
    BY <1>2, <1>7, <1>8, <1>9, InOrderRising
<1>11. InOrder(ChildrenNamed(root, f.name)) = [m \in 1 .. n |-> at[<<f.name, m>>]]
    BY <1>6, <1>10
<1> QED BY <1>3, <1>5, <1>11 DEF RowsFound

LEMMA MappedIs ==
  ASSUME Grown, NEW fields, Fitting(form, fields), NEW at, Finished(form, filled, at, elements, root),
         NEW instance, instance = Mapped
  PROVE  /\ AnsweredAs(filled, instance, <<>>, form)
         /\ \A f \in Repeats(form), n \in 0 .. MaxRows : Rowed(filled, f) = 1 .. n =>
              /\ n = 0 => f.name \notin DOMAIN instance
              /\ n # 0 => /\ f.name \in DOMAIN instance
                          /\ instance[f.name] = [m \in 1 .. n |-> Answered(f.children, at[<<f.name, m>>])]
<1>1. <<>> \in DOMAIN at /\ root = at[<<>>] /\ Holds(form, <<>>, form)
    BY DEF Finished, Holds
<1>2. form \in Seq(fields) /\ \A e, g \in ToSet(form) : e.name = g.name => e = g
    BY HeldFields, <1>1
<1>3. Names(form) = {f.name : f \in ToSet(form)}
    BY <1>2, NamesIs
<1>4. \A f \in ToSet(form) : Named(ToSet(form), f.name) = f
    BY <1>2, NamedIs
<1>5. DOMAIN instance = {n \in Names(form) : ChildrenNamed(root, n) # {}}
    BY DEF Mapped
<1>6. ASSUME NEW f \in ToSet(form), f.name \in DOMAIN instance
      PROVE  instance[f.name] =
               IF f.type # "Repeat" THEN Answered(form, root)[f.name]
               ELSE [n \in DOMAIN InOrder(ChildrenNamed(root, f.name)) |->
                       Answered(f.children, InOrder(ChildrenNamed(root, f.name))[n])]
    BY <1>4, <1>5, <1>6 DEF Mapped
<1>7. AnsweredAs(filled, instance, <<>>, form)
    <2> SUFFICES ASSUME NEW f \in Questions(form)
                 PROVE  /\ f.name \in DOMAIN instance /\ instance[f.name] = filled[Append(<<>>, f.name)]
                        /\ Fits(filled[Append(<<>>, f.name)], f)
        BY DEF AnsweredAs
    <2>1. /\ f.name \in DOMAIN Answered(form, root)
          /\ Answered(form, root)[f.name] = filled[Append(<<>>, f.name)]
          /\ Fits(filled[Append(<<>>, f.name)], f)
        <3>1. AnsweredAs(filled, Answered(form, at[<<>>]), <<>>, form)
            BY <1>1, AnsweredIs
        <3> QED BY <1>1, <3>1 DEF AnsweredAs
    <2>2. f \in ToSet(form) /\ f.type # "Repeat"
        BY DEF Questions
    <2>3. f.name \in DOMAIN instance
        BY <1>5, <2>1 DEF Answered
    <2> QED BY <1>6, <2>1, <2>2, <2>3
<1>8. ASSUME NEW f \in Repeats(form), NEW n \in 0 .. MaxRows, Rowed(filled, f) = 1 .. n
      PROVE  /\ n = 0 => f.name \notin DOMAIN instance
             /\ n # 0 => /\ f.name \in DOMAIN instance
                         /\ instance[f.name] = [m \in 1 .. n |-> Answered(f.children, at[<<f.name, m>>])]
    <2>1. RowsFound(at, f, n)
        BY <1>8, RowsAreFound
    <2>2. f \in ToSet(form) /\ f.type = "Repeat" /\ n \in Nat
        BY DEF Repeats, Fitting
    <2>3. n = 0 => ChildrenNamed(root, f.name) = {}
        BY <2>1 DEF RowsFound
    <2>4. n # 0 => ChildrenNamed(root, f.name) # {}
        <3>1. n # 0 => 1 \in 1 .. n
            BY <2>2
        <3> QED BY <2>1, <3>1 DEF RowsFound
    <2>5. PICK rows : rows = InOrder(ChildrenNamed(root, f.name))
        OBVIOUS
    <2>6. rows = [m \in 1 .. n |-> at[<<f.name, m>>]]
        BY <2>1, <2>5 DEF RowsFound
    <2>7. ASSUME n # 0
          PROVE  /\ f.name \in DOMAIN instance
                 /\ instance[f.name] = [m \in 1 .. n |-> Answered(f.children, at[<<f.name, m>>])]
        <3>1. f.name \in DOMAIN instance
            BY <1>3, <1>5, <2>2, <2>4, <2>7
        <3>2. instance[f.name] = [m \in DOMAIN rows |-> Answered(f.children, rows[m])]
            BY <1>6, <2>2, <2>5, <3>1
        <3>3. DOMAIN rows = 1 .. n /\ \A m \in 1 .. n : rows[m] = at[<<f.name, m>>]
            BY <2>6
        <3>4. [m \in DOMAIN rows |-> Answered(f.children, rows[m])] = [m \in 1 .. n |-> Answered(f.children, at[<<f.name, m>>])]
            BY <3>3
        <3> QED BY <3>1, <3>2, <3>4
    <2>8. n = 0 => f.name \notin DOMAIN instance
        BY <1>5, <2>3
    <2> QED BY <2>7, <2>8
<1> QED BY <1>7, <1>8

\* What was answered around a place arrives.
LEMMA RowArrives ==
  ASSUME Grown, NEW fields, Fitting(form, fields), NEW at, Finished(form, filled, at, elements, root),
         NEW f \in Repeats(form), NEW m \in 1 .. MaxRows, <<f.name, m>> \in DOMAIN at,
         NEW instance, instance = Answered(f.children, at[<<f.name, m>>])
  PROVE  Arrived(f.children, <<f.name, m>>, RepeatRow(f, instance))
<1>1. PICK a : a = <<f.name, m>>
    OBVIOUS
<1>2. Holds(form, a, f.children)
    BY <1>1 DEF Holds
<1>3. f.children \in Seq(fields)
    BY <1>2, HeldFields
<1>4. \A c, e \in ToSet(f.children) : c.name = e.name => c = e
    BY DEF Fitting, Repeats
<1>5. \A c \in ToSet(f.children) : c.type # "Repeat"
    BY DEF Fitting, Repeats
<1>6. AnsweredAs(filled, instance, a, f.children)
    BY <1>1, <1>2, AnsweredIs
<1>7. PICK answers : answers = RepeatRow(f, instance)
    OBVIOUS
<1>8. ReadingIs(ToSet(f.children), instance, answers)
    BY <1>4, <1>7, ReadIs DEF RepeatRow
<1>9. Names(f.children) = {c.name : c \in ToSet(f.children)}
    BY <1>3, NamesIs
<1>10. DOMAIN answers \subseteq Names(f.children)
    BY <1>8, <1>9 DEF ReadingIs
<1>11. ASSUME NEW c \in Questions(f.children)
       PROVE  c.name \in DOMAIN answers /\ answers[c.name] = Coerce(filled[Append(a, c.name)], c)
    <2>1. c \in ToSet(f.children)
        BY DEF Questions
    <2>2. /\ c.name \in DOMAIN instance /\ instance[c.name] = filled[Append(a, c.name)]
          /\ Fits(instance[c.name], c)
        BY <1>6 DEF AnsweredAs
    <2> QED BY <1>8, <2>1, <2>2 DEF ReadingIs
<1> QED BY <1>1, <1>7, <1>10, <1>11 DEF Arrived

LEMMA RowsArrive ==
  ASSUME Grown, NEW fields, Fitting(form, fields), NEW at, Finished(form, filled, at, elements, root),
         NEW f \in Repeats(form), NEW n \in 0 .. MaxRows, Rowed(filled, f) = 1 .. n,
         NEW answers, answers = ToSubmission(form, Mapped)
  PROVE  RowsArrived(f, answers)
<1>1. PICK instance : instance = Mapped
    OBVIOUS
<1>2. /\ n = 0 => f.name \notin DOMAIN instance
      /\ n # 0 => /\ f.name \in DOMAIN instance
                  /\ instance[f.name] = [m \in 1 .. n |-> Answered(f.children, at[<<f.name, m>>])]
    BY <1>1, MappedIs
<1>3. \A e, g \in ToSet(form) : e.name = g.name => e = g
    BY DEF Fitting
<1>4. SubmissionIs(form, instance, answers)
    BY <1>1, <1>3, ToSubmissionIs
<1>5. n \in Nat /\ MaxRows \in Nat
    BY DEF Fitting
<1>6. {m \in 1 .. MaxRows : <<f.name, m>> \in DOMAIN filled} = 1 .. n
    BY DEF Rowed
<1>7. CASE n = 0
    <2>1. f.name \notin DOMAIN answers
        BY <1>2, <1>4, <1>7 DEF SubmissionIs
    <2>2. 1 .. n = {}
        BY <1>7
    <2> QED BY <1>6, <2>1, <2>2 DEF RowsArrived
<1>8. CASE n # 0
    <2>1. 1 \in 1 .. n
        BY <1>5, <1>8
    <2>2. PICK rows : rows = [m \in 1 .. n |-> Answered(f.children, at[<<f.name, m>>])]
        OBVIOUS
    <2>3. DOMAIN rows = 1 .. n /\ \A m \in 1 .. n : rows[m] = Answered(f.children, at[<<f.name, m>>])
        BY <2>2
    <2>4. rows # <<>>
        <3>1. DOMAIN <<>> = 1 .. 0
            OBVIOUS
        <3>2. 1 \notin 1 .. 0
            OBVIOUS
        <3> QED BY <2>1, <2>3, <3>1, <3>2
    <2>5. f.name \in DOMAIN instance /\ instance[f.name] = rows
        BY <1>2, <1>8, <2>2
    <2>6. /\ f.name \in DOMAIN answers
          /\ answers[f.name] = [kind |-> "Repeat", rows |-> [m \in DOMAIN rows |-> RepeatRow(f, rows[m])]]
        BY <1>4, <2>4, <2>5 DEF SubmissionIs
    <2>7. PICK value : value = answers[f.name]
        OBVIOUS
    <2>8. value.kind = "Repeat" /\ value.rows = [m \in 1 .. n |-> RepeatRow(f, rows[m])]
        BY <2>3, <2>6, <2>7
    <2>9. DOMAIN value.rows = 1 .. n /\ \A m \in 1 .. n : value.rows[m] = RepeatRow(f, rows[m])
        BY <2>8
    <2>10. ASSUME NEW m \in 1 .. n PROVE Arrived(f.children, <<f.name, m>>, value.rows[m])
        <3>1. m \in 1 .. MaxRows
            BY <1>5
        <3>2. RowsFound(at, f, n)
            BY RowsAreFound
        <3>3. <<f.name, m>> \in DOMAIN at
            BY <3>2 DEF RowsFound
        <3>4. Arrived(f.children, <<f.name, m>>, RepeatRow(f, rows[m]))
            BY <2>3, <3>1, <3>3, RowArrives
        <3> QED BY <2>9, <3>4
    <2>11. 1 .. n # {}
        BY <2>1
    <2> QED BY <1>6, <2>6, <2>7, <2>8, <2>9, <2>10, <2>11 DEF RowsArrived
<1> QED BY <1>7, <1>8

\* All that was answered arrives.
AllArrives ==
  LET answers == ToSubmission(form, Mapped)
  IN /\ Arrived(form, <<>>, answers)
     /\ \A f \in ToSet(form) : f.type = "Repeat" => RowsArrived(f, answers)

LEMMA FinishedArrives ==
  ASSUME Grown, NEW fields, Fitting(form, fields), NEW at, Finished(form, filled, at, elements, root)
  PROVE  AllArrives
<1>1. PICK instance : instance = Mapped
    OBVIOUS
<1>2. PICK answers : answers = ToSubmission(form, instance)
    OBVIOUS
<1>3. AnsweredAs(filled, instance, <<>>, form)
    BY <1>1, MappedIs
<1>4. \A e, g \in ToSet(form) : e.name = g.name => e = g
    BY DEF Fitting
<1>5. SubmissionIs(form, instance, answers)
    BY <1>2, <1>4, ToSubmissionIs
<1>6. Names(form) = {c.name : c \in ToSet(form)}
    <2>1. form \in Seq(fields)
        BY DEF Fitting
    <2> QED BY <2>1, NamesIs
<1>7. Arrived(form, <<>>, answers)
    <2>1. DOMAIN answers \subseteq Names(form)
        BY <1>5, <1>6 DEF SubmissionIs
    <2>2. ASSUME NEW c \in Questions(form)
          PROVE  c.name \in DOMAIN answers /\ answers[c.name] = Coerce(filled[Append(<<>>, c.name)], c)
        <3>1. /\ c.name \in DOMAIN instance /\ instance[c.name] = filled[Append(<<>>, c.name)]
              /\ Fits(instance[c.name], c)
            BY <1>3 DEF AnsweredAs
        <3> QED BY <1>5, <3>1 DEF SubmissionIs
    <2> QED BY <2>1, <2>2 DEF Arrived
<1>8. ASSUME NEW f \in ToSet(form), f.type = "Repeat" PROVE RowsArrived(f, answers)
    <2>1. f \in Repeats(form)
        BY <1>8 DEF Repeats
    <2>2. PICK n \in 0 .. MaxRows : Rowed(filled, f) = 1 .. n
        BY <2>1 DEF Finished, Numbered
    <2> QED BY <1>1, <1>2, <2>1, <2>2, RowsArrive
<1> QED BY <1>1, <1>2, <1>7, <1>8 DEF AllArrives

-----------------------------------------------------------------------------
(* The steps.                                                              *)

\* An instance is being written, and nothing has gone wrong.
Proceeds(fields, at) ==
  /\ Grown /\ outcome = "reading"
  /\ Closed(fields) /\ Written(fields) /\ Fitting(form, fields) /\ todo # <<>>
  /\ Kept(form, filled, todo, at, elements, open, root)

\* It still is; or it was too large, or arrived.
StillProceeds == outcome = "reading" /\ \E at : Kept(form, filled, todo, at, elements, open, root)
Concluded ==
  \/ outcome = "TooLarge" /\ Len(elements) = MaxElements
  \/ outcome = "TooDeep" /\ Len(open) > MaxDepth
  \/ outcome = "parsed" /\ AllArrives

LEMMA WhatProceeds ==
  ASSUME NEW fields, NEW at, Proceeds(fields, at)
  PROVE  /\ form \in Seq(fields) /\ todo \in Seq(Underway(fields)) /\ todo # <<>>
         /\ Plan(form, filled, todo, DOMAIN at) /\ Linked(todo, at, elements, open)
         /\ elements \in Seq(Nodes) /\ open \in Seq(Nat) /\ Len(elements) \in Nat /\ Len(open) \in Nat
         /\ Len(elements) <= MaxElements
         /\ Len(todo) \in Nat \ {0} /\ Innermost = todo[Len(todo)] /\ Innermost \in Underway(fields)
         /\ Innermost.content \in Seq(Jobs(fields))
<1>1. form \in Seq(fields) /\ todo \in Seq(Underway(fields)) /\ todo # <<>>
    BY DEF Proceeds, Written
<1>2. /\ Len(todo) \in Nat \ {0} /\ Innermost = todo[Len(todo)] /\ Innermost \in Underway(fields)
      /\ Innermost.content \in Seq(Jobs(fields))
    BY <1>1, InnermostIs
<1>3. Plan(form, filled, todo, DOMAIN at) /\ Linked(todo, at, elements, open)
    BY DEF Proceeds, Kept
<1>4. /\ elements \in Seq(Nodes) /\ open \in Seq(Nat) /\ Len(elements) \in Nat /\ Len(open) \in Nat
      /\ Len(elements) <= MaxElements
    BY DEF Proceeds, Grown, Typed
<1> QED BY <1>1, <1>2, <1>3, <1>4

LEMMA WithRetops ==
  ASSUME NEW fields, todo \in Seq(Underway(fields)), todo # <<>>, NEW content \in Seq(Jobs(fields))
  PROVE  Retopped(todo, content, With(content))
<1>1. /\ Len(With(content)) = Len(todo)
      /\ \A k \in 1 .. Len(todo) - 1 : With(content)[k] = todo[k]
      /\ With(content)[Len(todo)] = [Innermost EXCEPT !.content = content]
    BY WithIs
<1>2. Innermost \in Underway(fields) /\ Innermost = todo[Len(todo)]
    BY InnermostIs
<1>3. PICK x : x = Innermost
    OBVIOUS
<1>4. PICK y : y = [x EXCEPT !.content = content]
    OBVIOUS
<1>5. y.place = x.place /\ y.tag = x.tag /\ y.content = content
    BY <1>2, <1>3, <1>4 DEF Underway, NodesOf
<1>6. PICK other : other = With(content)
    OBVIOUS
<1>7. other[Len(todo)] = y
    BY <1>1, <1>3, <1>4, <1>6
<1> QED BY <1>1, <1>2, <1>3, <1>5, <1>6, <1>7 DEF Retopped

LEMMA EnteredPushes ==
  ASSUME NEW fields, Closed(fields), todo \in Seq(Underway(fields)), todo # <<>>, Innermost.content # <<>>,
         Job.kind = "Node"
  PROVE  Pushed(todo, Others, Job, Entered(Job))
<1>1. Others \in Seq(Jobs(fields)) /\ Job \in Underway(fields)
    BY JobIs, NextJob
<1>2. PICK w : w = With(Others)
    OBVIOUS
<1>3. Retopped(todo, Others, w) /\ w \in Seq(Underway(fields)) /\ Len(todo) \in Nat \ {0}
    BY <1>1, <1>2, WithRetops, WithIs, InnermostIs
<1>4. PICK other : other = Append(w, Job)
    OBVIOUS
<1>5. Len(other) = Len(w) + 1 /\ other[Len(w) + 1] = Job /\ \A k \in 1 .. Len(w) : other[k] = w[k]
    BY <1>1, <1>3, <1>4, Appended
<1>6. Len(w) = Len(todo) /\ \A k \in 1 .. Len(todo) : other[k] = w[k]
    BY <1>3, <1>5 DEF Retopped
<1>7. \A k \in 1 .. Len(todo) - 1 : k \in 1 .. Len(todo)
    BY <1>3
<1>8. Len(todo) \in 1 .. Len(todo)
    BY <1>3
<1>9. Pushed(todo, Others, Job, other)
    BY <1>3, <1>5, <1>6, <1>7, <1>8 DEF Retopped, Pushed
<1> QED BY <1>2, <1>4, <1>9 DEF Entered

LEMMA JobComes ==
  ASSUME todo # <<>>, Innermost.content # <<>>
  PROVE  ComesIn(todo, Innermost, Job) /\ Others = Tail(Innermost.content)
BY DEF ComesIn, Innermost, Job, Others

\* What is given at a place that bears text does not change with another place.
LEMMA GivenStays ==
  ASSUME NEW F, NEW fields, Fitting(F, fields), NEW answers, NEW work, NEW S, Plan(F, answers, work, S),
         NEW r, r \notin S, NEW t,
         NEW more, AnswerAdded(answers, r, t, more),
         NEW p \in S, BearsText(F, p)
  PROVE  Given(more, p) = Given(answers, p)
<1>1. p # <<>> /\ p # r
    BY MetaPlaces
<1>2. CASE p = IdPlace
    BY <1>2 DEF Given
<1>3. CASE p # IdPlace
    <2>1. p \in DOMAIN answers
        BY <1>1, <1>3 DEF BearsText, Plan, Reached
    <2> QED BY <1>1, <1>3, <2>1 DEF Given, AnswerAdded
<1> QED BY <1>2, <1>3

LEMMA FillKeeps ==
  ASSUME NEW fields, NEW at, Proceeds(fields, at), Fill
  PROVE  StillProceeds'
<1>1. /\ todo \in Seq(Underway(fields)) /\ todo # <<>> /\ Plan(form, filled, todo, DOMAIN at)
      /\ Fitting(form, fields) /\ Kept(form, filled, todo, at, elements, open, root)
    BY WhatProceeds DEF Proceeds
<1>2. Innermost.content # <<>> /\ Job.kind = "Field" /\ Job.field.type # "Repeat"
    BY DEF Fill, Comes
<1>3. PICK text \in Answers \cup {<<>>} :
        /\ Fits(text, Job.field)
        /\ Instead(<<Leaf(<<Job.field.name>>, Job.place, text)>>, Job.place, text)
    BY DEF Fill
<1>4. PICK x : x = Innermost
    OBVIOUS
<1>5. PICK j : j = Job
    OBVIOUS
<1>6. PICK c : c = <<Leaf(<<j.field.name>>, j.place, text)>> \o Tail(x.content)
    OBVIOUS
<1>7. ComesIn(todo, x, j) /\ Others = Tail(x.content)
    BY <1>1, <1>2, <1>4, <1>5, JobComes
<1>8. c \in Seq(Jobs(fields))
    <2>1. j.place \in Place /\ <<j.field.name>> \in Tags /\ text \in Seq(Pieces)
        BY <1>1, <1>2, <1>5, NextJob, TextPieces DEF Proceeds
    <2>2. PICK leaf : leaf = Leaf(<<j.field.name>>, j.place, text)
        OBVIOUS
    <2>3. leaf \in Jobs(fields)
        BY <2>1, <2>2, LeafJob
    <2>4. PICK tail : tail = Tail(x.content)
        OBVIOUS
    <2>5. tail \in Seq(Jobs(fields))
        BY <1>1, <1>2, <1>7, <2>4, JobIs
    <2>6. <<leaf>> \o tail \in Seq(Jobs(fields))
        BY <2>3, <2>5
    <2> QED BY <1>6, <2>2, <2>4, <2>6
<1>9. /\ todo' = With(c)
      /\ AnswerAdded(filled, j.place, text, filled')
      /\ outcome' = "reading" /\ form' = form /\ elements' = elements /\ open' = open /\ root' = root
    BY <1>3, <1>5, <1>6, <1>7 DEF Instead, AnswerAdded, importVars, instanceVars
<1>10. Retopped(todo, c, todo')
    BY <1>1, <1>8, <1>9, WithRetops
<1>11. /\ Plan(form, filled', todo', DOMAIN at)
       /\ j.place \notin DOMAIN at /\ ~ BearsText(form, x.place) /\ Len(todo) >= 2
    <2>1. PICK other : other = todo'
        OBVIOUS
    <2>2. PICK more : more = filled'
        OBVIOUS
    <2>7. PICK leaf : leaf = Leaf(<<j.field.name>>, j.place, text)
        OBVIOUS
    <2>3. Retopped(todo, <<leaf>> \o Tail(x.content), other)
        BY <1>6, <1>10, <2>1, <2>7
    <2>4. AnswerAdded(filled, j.place, text, more)
        BY <1>9, <2>2
    <2>5. j.kind = "Field" /\ j.field.type # "Repeat"
        BY <1>2, <1>5
    <2>8. AnswerGiven(filled, j, text, more, leaf)
        BY <1>3, <1>5, <2>4, <2>7 DEF AnswerGiven
    <2>6. /\ Plan(form, more, other, DOMAIN at)
          /\ j.place \notin DOMAIN at /\ ~ BearsText(form, x.place) /\ Len(todo) >= 2
        BY <1>1, <1>7, <2>3, <2>5, <2>8, FillPlan
    <2> QED BY <2>1, <2>2, <2>6
<1>12. \A p \in DOMAIN at : BearsText(form, p) => Given(filled', p) = Given(filled, p)
    <2>1. PICK more : more = filled'
        OBVIOUS
    <2>2. AnswerAdded(filled, j.place, text, more)
        BY <1>9, <2>1
    <2>3. \A p \in DOMAIN at : BearsText(form, p) => Given(more, p) = Given(filled, p)
        BY <1>1, <1>11, <2>2, GivenStays
    <2> QED BY <2>1, <2>3
<1>13. ~ BearsText(form, todo[Len(todo)].place) /\ Len(todo) \in Nat
    BY <1>4, <1>11, WhatProceeds
<1>14. Kept(form, filled', todo', at, elements, open, root)
    BY <1>1, <1>10, <1>11, <1>12, <1>13, KeptFields
<1> QED BY <1>9, <1>14 DEF StillProceeds

LEMMA AddRowKeeps ==
  ASSUME NEW fields, NEW at, Proceeds(fields, at), AddRow
  PROVE  StillProceeds'
<1>1. /\ todo \in Seq(Underway(fields)) /\ todo # <<>> /\ Plan(form, filled, todo, DOMAIN at)
      /\ Fitting(form, fields) /\ Closed(fields) /\ Kept(form, filled, todo, at, elements, open, root)
    BY WhatProceeds DEF Proceeds
<1>2. Innermost.content # <<>> /\ Job.kind = "Field" /\ Job.field.type = "Repeat" /\ Job.rows < MaxRows
    BY DEF AddRow, Comes
<1>3. PICK x : x = Innermost
    OBVIOUS
<1>4. PICK j : j = Job
    OBVIOUS
<1>5. PICK p : p = Append(j.place, j.rows + 1)
    OBVIOUS
<1>6. PICK r : r = Node(<<j.field.name>>, <<>>, p, Fields(j.field.children, p))
    OBVIOUS
<1>7. PICK t : t = ToCome(j.field, j.place, j.rows + 1)
    OBVIOUS
<1>8. ComesIn(todo, x, j) /\ Others = Tail(x.content)
    BY <1>1, <1>2, <1>3, <1>4, JobComes
<1>9. PICK tail : tail = Tail(x.content)
    OBVIOUS
<1>10. PICK c : c = <<r, t>> \o tail
    OBVIOUS
<1>11. Instead(<<r, t>>, p, <<>>)
    BY <1>4, <1>5, <1>6, <1>7 DEF AddRow
<1>12. /\ todo' = With(c)
       /\ filled' = [q \in DOMAIN filled \cup {p} |-> IF q = p THEN <<>> ELSE filled[q]]
       /\ outcome' = "reading" /\ form' = form /\ elements' = elements /\ open' = open /\ root' = root
    BY <1>8, <1>9, <1>10, <1>11 DEF Instead, importVars, instanceVars
<1>13. c \in Seq(Jobs(fields))
    <2>1. /\ j.field \in fields /\ j.place \in Place /\ j.rows \in Nat /\ <<j.field.name>> \in Tags
          /\ j.field.children \in Seq(fields)
        BY <1>1, <1>2, <1>4, NextJob
    <2>2. p \in Place /\ j.rows + 1 \in Nat
        BY <1>5, <2>1 DEF Place
    <2>3. r \in Jobs(fields)
        BY <1>1, <1>6, <2>1, <2>2, RowJob
    <2>4. t \in Jobs(fields)
        BY <1>7, <2>1, <2>2, FieldJob DEF Jobs
    <2>5. tail \in Seq(Jobs(fields))
        BY <1>1, <1>2, <1>8, <1>9, JobIs
    <2> QED BY <1>10, <2>3, <2>4, <2>5
<1>14. Retopped(todo, c, todo')
    BY <1>1, <1>12, <1>13, WithRetops
<1>15. PICK more : more = filled'
    OBVIOUS
<1>16. RowAdded(filled, j, p, more, r, t)
    BY <1>5, <1>6, <1>7, <1>12, <1>15 DEF RowAdded
<1>17. /\ Plan(form, more, todo', DOMAIN at)
       /\ p \notin DOMAIN at /\ ~ BearsText(form, x.place) /\ Len(todo) >= 2
    <2>1. PICK other : other = todo'
        OBVIOUS
    <2>2. Retopped(todo, <<r, t>> \o Tail(x.content), other)
        BY <1>9, <1>10, <1>14, <2>1
    <2>3. j.kind = "Field" /\ j.field.type = "Repeat" /\ j.rows < MaxRows
        BY <1>2, <1>4
    <2>4. /\ Plan(form, more, other, DOMAIN at)
          /\ p \notin DOMAIN at /\ ~ BearsText(form, x.place) /\ Len(todo) >= 2
        BY <1>1, <1>8, <1>16, <2>2, <2>3, AddRowPlan
    <2> QED BY <2>1, <2>4
<1>18. \A q \in DOMAIN at : BearsText(form, q) => Given(more, q) = Given(filled, q)
    <2>1. PICK text : text = <<>>
        OBVIOUS
    <2>2. AnswerAdded(filled, p, text, more)
        BY <1>12, <1>15, <2>1 DEF AnswerAdded
    <2> QED BY <1>1, <1>17, <2>2, GivenStays
<1>19. ~ BearsText(form, todo[Len(todo)].place) /\ Len(todo) \in Nat
    BY <1>3, <1>17, WhatProceeds
<1>20. Kept(form, more, todo', at, elements, open, root)
    BY <1>1, <1>14, <1>17, <1>18, <1>19, KeptFields
<1> QED BY <1>12, <1>15, <1>20 DEF StillProceeds

LEMMA EndRowsKeeps ==
  ASSUME NEW fields, NEW at, Proceeds(fields, at), EndRows
  PROVE  StillProceeds'
<1>1. /\ todo \in Seq(Underway(fields)) /\ todo # <<>> /\ Plan(form, filled, todo, DOMAIN at)
      /\ Fitting(form, fields) /\ Closed(fields) /\ Kept(form, filled, todo, at, elements, open, root)
    BY WhatProceeds DEF Proceeds
<1>2. Innermost.content # <<>> /\ Job.kind = "Field" /\ Job.field.type = "Repeat"
    BY DEF EndRows, Comes
<1>3. PICK x : x = Innermost
    OBVIOUS
<1>4. PICK j : j = Job
    OBVIOUS
<1>5. ComesIn(todo, x, j) /\ Others = Tail(x.content)
    BY <1>1, <1>2, <1>3, <1>4, JobComes
<1>6. /\ todo' = With(Others) /\ filled' = filled
      /\ outcome' = "reading" /\ form' = form /\ elements' = elements /\ open' = open /\ root' = root
    BY DEF EndRows, importVars, instanceVars
<1>7. Retopped(todo, Tail(x.content), todo')
    BY <1>1, <1>2, <1>5, <1>6, JobIs, WithRetops
<1>8. j.kind = "Field" /\ j.field.type = "Repeat"
    BY <1>2, <1>4
<1>9. Plan(form, filled, todo', DOMAIN at) /\ ~ BearsText(form, x.place) /\ Len(todo) >= 2
    <2>1. PICK other : other = todo'
        OBVIOUS
    <2>2. Retopped(todo, Tail(x.content), other)
        BY <1>7, <2>1
    <2>3. Plan(form, filled, other, DOMAIN at) /\ ~ BearsText(form, x.place) /\ Len(todo) >= 2
        BY <1>1, <1>5, <1>8, <2>2, EndRowsPlan
    <2> QED BY <2>1, <2>3
<1>10. ~ BearsText(form, todo[Len(todo)].place) /\ Len(todo) \in Nat
    BY <1>3, <1>9, WhatProceeds
<1>11. Kept(form, filled, todo', at, elements, open, root)
    BY <1>1, <1>7, <1>9, <1>10, KeptFields
<1> QED BY <1>6, <1>11 DEF StillProceeds

-----------------------------------------------------------------------------
(* The steps that write. *)

LEMMA Lengthened ==
  ASSUME NEW S, NEW s \in Seq(S), NEW y, NEW t, t = Append(s, y)
  PROVE  Longer(s, y, t)
<1>1. s = [k \in 1 .. Len(s) |-> s[k]] /\ Len(s) \in Nat
    OBVIOUS
<1>2. t = [k \in 1 .. Len(s) + 1 |-> IF k = Len(s) + 1 THEN y ELSE s[k]]
    BY <1>1, AppendAny
<1>3. Len(t) = Len(s) + 1
    BY <1>1, <1>2, AnySeq
<1> QED BY <1>1, <1>2, <1>3 DEF Longer

\* The attributes of the elements of an instance are well-formed.
LEMMA WellFormed ==
  ASSUME NEW fields, NEW at, Proceeds(fields, at), NEW j, ComesIn(todo, Innermost, j), j.kind = "Node"
  PROVE  Distinct(j.attrs)
<1>1. Fitting(form, fields) /\ todo \in Seq(Underway(fields)) /\ Plan(form, filled, todo, DOMAIN at)
    BY WhatProceeds DEF Proceeds
<1>2. PICK x : x = Innermost
    OBVIOUS
<1>3. Distinct(<<>>)
    BY DEF Distinct
<1>4. Distinct(Identified)
    BY DEF Distinct, Identified
<1>5. CASE DOMAIN at # {}
    <2>1. TopFacts(form, fields, filled, DOMAIN at, todo, x, j)
        BY <1>1, <1>2, <1>5, TopJob
    <2>2. Due(form, filled, DOMAIN at, j, x.place)
        BY <2>1 DEF TopFacts
    <2>3. j.attrs = <<>>
        BY <1>1, <2>2, NodeIs
    <2> QED BY <1>3, <2>3
<1>6. CASE DOMAIN at = {}
    <2>1. todo = <<Node(<<>>, <<>>, <<>>, <<TheDocument(form)>>)>>
        BY <1>1, <1>6 DEF Plan, Outset
    <2>2. PICK y : y = Node(<<>>, <<>>, <<>>, <<TheDocument(form)>>)
        OBVIOUS
    <2>3. Innermost = y
        BY <2>1, <2>2 DEF Innermost
    <2>4. y.content = <<TheDocument(form)>>
        BY <2>2, NodeParts
    <2>5. j = TheDocument(form)
        BY <2>3, <2>4 DEF ComesIn
    <2>6. j.attrs = Identified
        BY <2>5, DocumentParts
    <2> QED BY <1>4, <2>6
<1> QED BY <1>5, <1>6

LEMMA NewElement ==
  ASSUME NEW j, NEW e, e = Element(j.tag, j.attrs)
  PROVE  /\ WrittenAs(e, j, Top) /\ e.tag = j.tag
         /\ open # <<>> => Top = open[Len(open)]
BY DEF Element, WrittenAs, Top

LEMMA OpenKeeps ==
  ASSUME NEW fields, NEW at, Proceeds(fields, at), Comes("Node"),
         StartElement(Job.tag, Job.attrs), todo' = Entered(Job), form' = form, filled' = filled
  PROVE  StillProceeds' \/ Concluded'
<1>1. /\ todo \in Seq(Underway(fields)) /\ todo # <<>> /\ Plan(form, filled, todo, DOMAIN at)
      /\ Fitting(form, fields) /\ Closed(fields) /\ Kept(form, filled, todo, at, elements, open, root)
      /\ elements \in Seq(Nodes) /\ open \in Seq(Nat) /\ Len(elements) \in Nat /\ Len(open) \in Nat
      /\ Len(elements) <= MaxElements
    BY WhatProceeds DEF Proceeds
<1>2. Innermost.content # <<>> /\ Job.kind = "Node"
    BY DEF Comes
<1>3. PICK x : x = Innermost
    OBVIOUS
<1>4. PICK j : j = Job
    OBVIOUS
<1>5. ComesIn(todo, x, j) /\ Others = Tail(x.content)
    BY <1>1, <1>2, <1>3, <1>4, JobComes
<1>6. Distinct(Job.attrs)
    BY <1>2, <1>3, <1>4, <1>5, WellFormed
<1>7. CASE Conclude("TooLarge") /\ Len(elements) >= MaxElements
    <2>1. outcome' = "TooLarge" /\ elements' = elements
        BY <1>7 DEF Conclude
    <2>2. Len(elements) = MaxElements
        BY <1>1, <1>7, LimitsAssumption
    <2> QED BY <2>1, <2>2 DEF Concluded
<1>8. CASE /\ Len(elements) < MaxElements
           /\ elements' = Append(elements, Element(Job.tag, Job.attrs))
           /\ open' = Append(open, Len(elements) + 1)
           /\ outcome' = IF Len(open) >= MaxDepth THEN "TooDeep" ELSE "reading"
           /\ UNCHANGED root
    <2>1. PICK e : e = Element(j.tag, j.attrs)
        OBVIOUS
    <2>2. PICK higher : higher = open'
        OBVIOUS
    <2>3. Longer(open, Len(elements) + 1, higher)
        BY <1>1, <1>8, <2>2, Lengthened
    <2>4. CASE Len(open) >= MaxDepth
        <3>1. outcome' = "TooDeep"
            BY <1>8, <2>4
        <3>2. Len(higher) > MaxDepth
            BY <1>1, <2>3, <2>4, LimitsAssumption DEF Longer
        <3> QED BY <2>2, <3>1, <3>2 DEF Concluded
    <2>5. CASE ~ (Len(open) >= MaxDepth)
        <3>1. outcome' = "reading"
            BY <1>8, <2>5
        <3>2. PICK more : more = elements'
            OBVIOUS
        <3>3. Longer(elements, e, more)
            BY <1>1, <1>4, <1>8, <2>1, <3>2, Lengthened
        <3>4. PICK other : other = todo'
            OBVIOUS
        <3>5. Pushed(todo, Tail(x.content), j, other)
            BY <1>1, <1>2, <1>4, <1>5, <3>4, EnteredPushes
        <3>6. WrittenAs(e, j, Top) /\ (open # <<>> => Top = open[Len(open)])
            BY <2>1, NewElement
        <3>7. j.kind = "Node"
            BY <1>2, <1>4
        <3>8. CASE DOMAIN at = {}
            <4>1. \E to : Kept(form, filled, other, to, more, higher, root)
                BY <1>1, <1>5, <2>3, <3>3, <3>5, <3>6, <3>8, KeptDocument
            <4> QED BY <1>8, <2>2, <3>1, <3>2, <3>4, <4>1 DEF StillProceeds
        <3>9. CASE DOMAIN at # {}
            <4>2. Len(todo) \in Nat /\ Len(todo) >= 2 /\ Len(open) = Len(todo) - 1
                <5>1. NodeFacts(form, filled, todo, at, elements, open, x, j)
                    BY <1>1, <1>5, <3>7, <3>9, NextNode
                <5> QED BY <5>1 DEF NodeFacts
            <4>3. open # <<>>
                <5>1. Len(open) # 0
                    BY <4>2
                <5> QED BY <5>1
            <4>4. WrittenAs(e, j, open[Len(open)])
                BY <3>6, <4>3
            <4>5. \E to : Kept(form, filled, other, to, more, higher, root)
                BY <1>1, <1>5, <2>3, <3>3, <3>5, <3>7, <3>9, <4>4, KeptOpen
            <4> QED BY <1>8, <2>2, <3>1, <3>2, <3>4, <4>5 DEF StillProceeds
        <3> QED BY <3>8, <3>9
    <2> QED BY <2>4, <2>5
<1> QED BY <1>1, <1>6, <1>7, <1>8, LimitsAssumption DEF StartElement

LEMMA EmptyKeeps ==
  ASSUME NEW fields, NEW at, Proceeds(fields, at), Comes("Node"), Job.content = <<>>,
         EmptyElement(Job.tag, Job.attrs), todo' = With(Others), form' = form, filled' = filled
  PROVE  StillProceeds' \/ Concluded'
<1>1. /\ todo \in Seq(Underway(fields)) /\ todo # <<>> /\ Plan(form, filled, todo, DOMAIN at)
      /\ Fitting(form, fields) /\ Closed(fields) /\ Kept(form, filled, todo, at, elements, open, root)
      /\ elements \in Seq(Nodes) /\ open \in Seq(Nat) /\ Len(elements) \in Nat /\ Len(open) \in Nat
      /\ Len(elements) <= MaxElements /\ outcome = "reading"
    BY WhatProceeds DEF Proceeds
<1>2. Innermost.content # <<>> /\ Job.kind = "Node"
    BY DEF Comes
<1>3. PICK x : x = Innermost
    OBVIOUS
<1>4. PICK j : j = Job
    OBVIOUS
<1>5. ComesIn(todo, x, j) /\ Others = Tail(x.content) /\ j.kind = "Node" /\ j.content = <<>>
    BY <1>1, <1>2, <1>3, <1>4, JobComes
<1>6. Distinct(Job.attrs)
    BY <1>2, <1>3, <1>4, <1>5, WellFormed
<1>7. CASE Conclude("TooLarge") /\ Len(elements) >= MaxElements
    <2>1. outcome' = "TooLarge" /\ elements' = elements
        BY <1>7 DEF Conclude
    <2>2. Len(elements) = MaxElements
        BY <1>1, <1>7, LimitsAssumption
    <2> QED BY <2>1, <2>2 DEF Concluded
<1>8. CASE /\ Len(elements) < MaxElements
           /\ elements' = Append(elements, Element(Job.tag, Job.attrs))
           /\ root' = IF open = <<>> THEN Len(elements) + 1 ELSE root
           /\ UNCHANGED <<open, outcome>>
    <2>1. DOMAIN at # {}
        <3> SUFFICES ASSUME DOMAIN at = {} PROVE FALSE
            OBVIOUS
        <3>1. PICK other : other = Entered(Job)
            OBVIOUS
        <3>2. Pushed(todo, Tail(x.content), j, other)
            BY <1>1, <1>2, <1>4, <1>5, <3>1, EnteredPushes
        <3>3. j.content # <<>>
            BY <1>1, <1>5, <3>2, DocumentPlan
        <3> QED BY <1>5, <3>3
    <2>2. PICK e : e = Element(j.tag, j.attrs)
        OBVIOUS
    <2>3. PICK more : more = elements'
        OBVIOUS
    <2>4. Longer(elements, e, more)
        BY <1>1, <1>4, <1>8, <2>2, <2>3, Lengthened
    <2>5. PICK other : other = todo'
        OBVIOUS
    <2>6. Retopped(todo, Tail(x.content), other)
        BY <1>1, <1>2, <1>5, <2>5, JobIs, WithRetops
    <2>7. Len(open) # 0
        <3>1. NodeFacts(form, filled, todo, at, elements, open, x, j)
            BY <1>1, <1>5, <2>1, NextNode
        <3> QED BY <3>1 DEF NodeFacts
    <2>8. open # <<>>
        BY <2>7
    <2>9. WrittenAs(e, j, open[Len(open)])
        BY <2>2, <2>8, NewElement
    <2>10. \E to : Kept(form, filled, other, to, more, open, root)
        BY <1>1, <1>5, <2>1, <2>4, <2>6, <2>9, KeptEmpty
    <2>11. root' = root /\ open' = open /\ outcome' = "reading"
        BY <1>1, <1>8, <2>8
    <2> QED BY <2>3, <2>5, <2>10, <2>11 DEF StillProceeds
<1> QED BY <1>1, <1>6, <1>7, <1>8, LimitsAssumption DEF EmptyElement

LEMMA WriteOpenKeeps ==
  ASSUME NEW fields, NEW at, Proceeds(fields, at), WriteOpen
  PROVE  StillProceeds' \/ Concluded'
<1>1. Comes("Node") /\ form' = form /\ filled' = filled
    BY DEF WriteOpen, importVars
<1>2. CASE StartElement(Job.tag, Job.attrs) /\ todo' = Entered(Job)
    BY <1>1, <1>2, OpenKeeps
<1>3. CASE Job.content = <<>> /\ EmptyElement(Job.tag, Job.attrs) /\ todo' = With(Others)
    BY <1>1, <1>3, EmptyKeeps
<1> QED BY <1>2, <1>3 DEF WriteOpen

\* Text that is added to the element on top.
TextAdded(piece, text) ==
  /\ text \in Seq(Pieces) /\ text = elements[open[Len(open)]].text
  /\ Reworded(elements, open[Len(open)], Append(text, piece), elements')
  /\ UNCHANGED <<open, root, outcome>>

LEMMA AddedText ==
  ASSUME NEW fields, NEW at, Proceeds(fields, at), open # <<>>, NEW piece \in Pieces, AddText(piece)
  PROVE  \E text : TextAdded(piece, text)
<1>1. PICK top : top = open[Len(open)]
    OBVIOUS
<1>2. elements \in Seq(Nodes) /\ Top = top /\ top \in DOMAIN elements
    BY <1>1, WhatProceeds, TopOfStack DEF Proceeds, Top
<1>3. PICK e : e = elements[top]
    OBVIOUS
<1>4. e \in Nodes
    BY <1>2, <1>3
<1>5. e.text \in Seq(Pieces)
    BY <1>4 DEF Nodes
<1>6. PICK text : text = e.text
    OBVIOUS
<1>7. PICK new : new = [e EXCEPT !.text = Append(text, piece)]
    OBVIOUS
<1>8. new.tag = e.tag /\ new.attrs = e.attrs /\ new.parent = e.parent /\ new.text = Append(text, piece)
    BY <1>4, <1>7 DEF Nodes
<1>9. elements' = [elements EXCEPT ![top] = new]
    BY <1>2, <1>3, <1>6, <1>7 DEF AddText
<1>10. new \in Nodes
    <2>1. Append(text, piece) \in Seq(Pieces)
        BY <1>5, <1>6
    <2> QED BY <1>4, <1>7, <2>1 DEF Nodes
<1>11. /\ Len(elements') = Len(elements)
       /\ \A i \in 1 .. Len(elements) : elements'[i] = IF i = top THEN new ELSE elements[i]
    BY <1>2, <1>9, <1>10
<1>12. Reworded(elements, top, Append(text, piece), elements')
    BY <1>3, <1>8, <1>11 DEF Reworded
<1>13. UNCHANGED <<open, root, outcome>>
    BY DEF AddText
<1> QED BY <1>1, <1>3, <1>5, <1>6, <1>12, <1>13 DEF TextAdded

LEMMA WriteTextKeeps ==
  ASSUME NEW fields, NEW at, Proceeds(fields, at), WriteText
  PROVE  StillProceeds'
<1>1. /\ todo \in Seq(Underway(fields)) /\ todo # <<>> /\ Plan(form, filled, todo, DOMAIN at)
      /\ Fitting(form, fields) /\ Closed(fields) /\ Kept(form, filled, todo, at, elements, open, root)
      /\ Linked(todo, at, elements, open) /\ Len(todo) \in Nat /\ outcome = "reading"
    BY WhatProceeds DEF Proceeds
<1>2. Innermost.content # <<>> /\ Job.kind = "Piece"
    BY DEF WriteText, Comes
<1>3. PICK x : x = Innermost
    OBVIOUS
<1>4. PICK j : j = Job
    OBVIOUS
<1>5. ComesIn(todo, x, j) /\ Others = Tail(x.content) /\ j.kind = "Piece"
    BY <1>1, <1>2, <1>3, <1>4, JobComes
<1>6. j.piece \in Pieces
    BY <1>1, <1>2, <1>4, NextJob
<1>7. todo' = With(Others) /\ filled' = filled /\ form' = form
    BY DEF WriteText, importVars
<1>8. AddText(j.piece)
    <2>1. CASE Text("Text", Job.piece) \/ Text("CData", Job.piece)
        BY <1>4, <2>1 DEF Text
    <2>2. ASSUME NEW name \in DOMAIN Entities, Entities[name] = Job.piece, GeneralRef(name) PROVE AddText(j.piece)
        BY <1>4, <2>2 DEF GeneralRef
    <2> QED BY <2>1, <2>2 DEF WriteText
<1>9. PICK other : other = todo'
    OBVIOUS
<1>10. Retopped(todo, Tail(x.content), other)
    BY <1>1, <1>2, <1>5, <1>7, <1>9, JobIs, WithRetops
<1>11. Len(todo) >= 2
    BY <1>1, <1>5, <1>10, TextPlan
<1>12. open # <<>>
    <2>1. Len(open) # 0
        BY <1>1, <1>11 DEF Linked
    <2> QED BY <2>1
<1>13. PICK text : TextAdded(j.piece, text)
    BY <1>6, <1>8, <1>12, AddedText
<1>14. PICK more : more = elements'
    OBVIOUS
<1>15. Kept(form, filled, other, at, more, open, root)
    BY <1>1, <1>5, <1>6, <1>10, <1>13, <1>14, KeptText DEF TextAdded
<1>16. open' = open /\ root' = root /\ outcome' = "reading"
    BY <1>1, <1>13 DEF TextAdded
<1> QED BY <1>7, <1>9, <1>14, <1>15, <1>16 DEF StillProceeds

LEMMA WriteCloseKeeps ==
  ASSUME NEW fields, NEW at, Proceeds(fields, at), WriteClose
  PROVE  StillProceeds'
<1>1. /\ todo \in Seq(Underway(fields)) /\ todo # <<>> /\ Plan(form, filled, todo, DOMAIN at)
      /\ Fitting(form, fields) /\ Kept(form, filled, todo, at, elements, open, root)
      /\ Linked(todo, at, elements, open) /\ Len(todo) \in Nat /\ Len(open) \in Nat /\ outcome = "reading"
      /\ open \in Seq(Nat) /\ Innermost = todo[Len(todo)]
    BY WhatProceeds DEF Proceeds
<1>2. Len(todo) > 1 /\ todo[Len(todo)].content = <<>>
    BY <1>1 DEF WriteClose, IsWritten
<1>3. EndElement(Innermost.tag) /\ todo' = Left /\ filled' = filled /\ form' = form
    BY DEF WriteClose, importVars
<1>4. Len(open) = Len(todo) - 1 /\ elements[open[Len(todo) - 1]].tag = todo[Len(todo)].tag
    <2>1. Len(todo) \in 2 .. Len(todo)
        BY <1>1, <1>2
    <2> QED BY <1>1, <2>1 DEF Linked
<1>5. open # <<>>
    <2>1. Len(open) # 0
        BY <1>1, <1>2, <1>4
    <2> QED BY <2>1
<1>6. Top = open[Len(open)]
    BY <1>5 DEF Top
<1>7. elements[Top].tag = Innermost.tag
    BY <1>1, <1>4, <1>6
<1>8. /\ open' = SubSeq(open, 1, Len(open) - 1) /\ root' = IF Len(open) = 1 THEN open[Len(open)] ELSE root
      /\ elements' = elements /\ outcome' = "reading"
    BY <1>1, <1>3, <1>5, <1>6, <1>7 DEF EndElement
<1>9. PICK lower : lower = open'
    OBVIOUS
<1>10. Shorter(open, lower)
    BY <1>1, <1>5, <1>8, <1>9, AllButLast DEF Shorter
<1>11. PICK other : other = todo'
    OBVIOUS
<1>12. Shorter(todo, other)
    <2>1. PICK n : n = Len(todo) - 1
        OBVIOUS
    <2>2. n \in Nat /\ n < Len(todo) /\ other = SubSeq(todo, 1, n)
        BY <1>1, <1>2, <1>3, <1>11, <2>1 DEF Left
    <2>3. Len(other) = n /\ \A k \in 1 .. n : other[k] = todo[k]
        BY <1>1, <2>2
    <2> QED BY <2>1, <2>3 DEF Shorter
<1>13. PICK then : then = root'
    OBVIOUS
<1>14. TakenOff(open, root, lower, then)
    BY <1>8, <1>10, <1>13 DEF TakenOff
<1>15. Kept(form, filled, other, at, elements, lower, then)
    BY <1>1, <1>2, <1>12, <1>14, KeptClose
<1> QED BY <1>3, <1>8, <1>9, <1>11, <1>13, <1>15 DEF StillProceeds

\* What arrives does not change when nothing of it changes.
LEMMA ArrivesStill ==
  ASSUME AllArrives, UNCHANGED <<form, filled, elements, root>>
  PROVE  AllArrives'
<1>1. form' = form /\ filled' = filled /\ elements' = elements /\ root' = root
    OBVIOUS
<1>2. \A fields, i : Answered(fields, i)' = Answered(fields, i)
    BY <1>1 DEF Answered, ChildrenNamed, Child
<1>3. Mapped' = Mapped
    BY <1>1, <1>2 DEF Mapped, ChildrenNamed
<1>4. \A fields, around, answers : Arrived(fields, around, answers)' <=> Arrived(fields, around, answers)
    BY <1>1 DEF Arrived
<1>5. \A field, answers : RowsArrived(field, answers)' <=> RowsArrived(field, answers)
    BY <1>1, <1>4 DEF RowsArrived
<1>6. ToSubmission(form, Mapped)' = ToSubmission(form, Mapped)
    BY <1>1, <1>3
<1> QED BY <1>1, <1>4, <1>5, <1>6 DEF AllArrives

LEMMA WriteEofKeeps ==
  ASSUME NEW fields, NEW at, Proceeds(fields, at), WriteEof
  PROVE  Concluded'
<1>1. /\ todo \in Seq(Underway(fields)) /\ Fitting(form, fields) /\ Grown
      /\ Kept(form, filled, todo, at, elements, open, root) /\ Innermost = todo[Len(todo)]
      /\ open \in Seq(Nat)
    BY WhatProceeds DEF Proceeds
<1>2. Len(todo) = 1 /\ todo[Len(todo)].content = <<>>
    BY <1>1 DEF WriteEof
<1>3. Finished(form, filled, at, elements, root) /\ Len(open) = 0
    BY <1>1, <1>2, KeptIsFinished
<1>4. open = <<>>
    BY <1>1, <1>3
<1>5. HasFormId /\ HasInstanceId
    BY <1>1, <1>3, FindsForm, FindsInstance
<1>6. root # 0
    <2>1. root = at[<<>>] /\ <<>> \in DOMAIN at /\ Placed(at, elements)
        BY <1>3 DEF Finished
    <2>2. root \in 1 .. Len(elements)
        BY <2>1 DEF Placed
    <2> QED BY <2>2
<1>7. AllArrives
    BY <1>1, <1>3, FinishedArrives
<1>8. outcome' = "parsed" /\ UNCHANGED <<form, filled, elements, root>>
    BY <1>4, <1>5, <1>6 DEF WriteEof, Eof, Conclude, importVars
<1>9. AllArrives'
    BY <1>7, <1>8, ArrivesStill
<1> QED BY <1>8, <1>9 DEF Concluded

LEMMA WriteExtraKeeps ==
  ASSUME NEW fields, NEW at, Proceeds(fields, at), WriteExtra
  PROVE  StillProceeds' \/ Concluded'
<1>1. /\ todo \in Seq(Underway(fields)) /\ todo # <<>>
      /\ Fitting(form, fields) /\ Kept(form, filled, todo, at, elements, open, root)
      /\ elements \in Seq(Nodes) /\ open \in Seq(Nat) /\ Len(elements) \in Nat /\ Len(open) \in Nat
      /\ Linked(todo, at, elements, open) /\ Len(todo) \in Nat \ {0} /\ Innermost = todo[Len(todo)]
      /\ Len(elements) <= MaxElements /\ outcome = "reading"
    BY WhatProceeds DEF Proceeds
<1>2. todo' = todo /\ filled' = filled /\ form' = form
    BY DEF WriteExtra, importVars
<1>3. PICK x : x = todo[Len(todo)]
    OBVIOUS
<1>4. \/ x.content # <<>> /\ x.content[1].kind = "Node"
      \/ Len(todo) > 1 /\ x.content = <<>>
    BY <1>1, <1>3 DEF WriteExtra, Comes, IsWritten, Job
<1>5. Len(open) = Len(todo) - 1
    BY <1>1 DEF Linked
<1>6. CASE Other
    BY <1>1, <1>2, <1>6 DEF Other, StillProceeds
<1>7. CASE Text("Text", Space)
    <2>1. AddText(Space)
        BY <1>7 DEF Text
    <2>2. CASE open = <<>>
        <3>1. elements' = elements /\ open' = open /\ root' = root /\ outcome' = "reading"
            BY <1>1, <2>1, <2>2 DEF AddText
        <3> QED BY <1>1, <1>2, <3>1 DEF StillProceeds
    <2>3. CASE open # <<>>
        <3>1. Len(todo) >= 2
            <4>1. Len(open) # 0
                BY <1>1, <2>3
            <4> QED BY <1>1, <1>5, <4>1
        <3>2. Space \in Pieces
            BY RoundTripAssumption
        <3>3. PICK text : TextAdded(Space, text)
            BY <2>1, <2>3, <3>2, AddedText
        <3>4. PICK more : more = elements'
            OBVIOUS
        <3>5. x.content = <<>> \/ x.content[1].kind = "Node"
            BY <1>4
        <3>6. Kept(form, filled, todo, at, more, open, root)
            BY <1>1, <1>3, <3>1, <3>3, <3>4, <3>5, KeptSpace DEF TextAdded
        <3>7. open' = open /\ root' = root /\ outcome' = "reading"
            BY <1>1, <3>3 DEF TextAdded
        <3> QED BY <1>2, <3>4, <3>6, <3>7 DEF StillProceeds
    <2> QED BY <2>2, <2>3
<1>8. CASE EmptyElement(<<"orx", "deviceID">>, <<>>)
    <2>1. Distinct(<<>>)
        BY DEF Distinct
    <2>2. CASE Conclude("TooLarge") /\ Len(elements) >= MaxElements
        <3>1. outcome' = "TooLarge" /\ elements' = elements
            BY <2>2 DEF Conclude
        <3>2. Len(elements) = MaxElements
            BY <1>1, <2>2, LimitsAssumption
        <3> QED BY <3>1, <3>2 DEF Concluded
    <2>3. CASE /\ elements' = Append(elements, Element(<<"orx", "deviceID">>, <<>>))
               /\ root' = IF open = <<>> THEN Len(elements) + 1 ELSE root
               /\ UNCHANGED <<open, outcome>>
        <3>1. PICK e : e = Element(<<"orx", "deviceID">>, <<>>)
            OBVIOUS
        <3>2. e.tag = <<"orx", "deviceID">>
            BY <3>1 DEF Element
        <3>3. PICK more : more = elements'
            OBVIOUS
        <3>4. Longer(elements, e, more)
            BY <1>1, <2>3, <3>1, <3>3, Lengthened
        <3>5. PICK then : then = root'
            OBVIOUS
        <3>6. Len(todo) > 1 => then = root
            <4>1. Len(<<>>) = 0
                OBVIOUS
            <4>2. Len(todo) > 1 => open # <<>>
                BY <1>1, <1>5, <4>1
            <4> QED BY <2>3, <3>5, <4>2
        <3>7. todo[Len(todo)].content # <<>> \/ Len(todo) > 1
            BY <1>3, <1>4
        <3>8. Kept(form, filled, todo, at, more, open, then)
            BY <1>1, <3>2, <3>4, <3>6, <3>7, KeptStray
        <3> QED BY <1>1, <1>2, <2>3, <3>3, <3>5, <3>8 DEF StillProceeds
    <2> QED BY <1>1, <1>8, <2>1, <2>2, <2>3, LimitsAssumption DEF EmptyElement
<1> QED BY <1>6, <1>7, <1>8 DEF WriteExtra

-----------------------------------------------------------------------------
(* The invariant, and the properties.                                      *)

\* While nothing goes wrong with a form that keeps its names apart.
Carries ==
  import = "past" /\ slip # "fault" /\ Usable => StillProceeds \/ Concluded

\* A form is downloaded: nothing is written yet, nothing answered.
LEMMA DownloadCarries ==
  ASSUME Supplied, Download
  PROVE  Carries'
<1> SUFFICES ASSUME slip' # "fault" PROVE StillProceeds'
    BY DEF Carries
<1>1. import = "imported"
    BY DEF Download, Listed
<1>2. filled = Nothing /\ elements = <<>> /\ open = <<>> /\ root = 0 /\ outcome = "reading"
    BY <1>1 DEF Supplied, Untouched, InstanceInit
<1>3. /\ form' = form /\ filled' = Nothing /\ elements' = <<>> /\ open' = <<>> /\ root' = 0
      /\ outcome' = "reading"
    BY <1>2 DEF Download, instanceVars
<1>4. todo' = <<Node(<<>>, <<>>, <<>>, <<TheDocument(form)>>)>>
    BY DEF Download, TheDocument, TheMeta, Document
<1>5. PICK work : work = <<Node(<<>>, <<>>, <<>>, <<TheDocument(form)>>)>>
    OBVIOUS
<1>6. PICK x : x = Node(<<>>, <<>>, <<>>, <<TheDocument(form)>>)
    OBVIOUS
<1>7. Len(work) = 1 /\ work[1] = x /\ x.place = <<>> /\ work # <<>>
    BY <1>5, <1>6, NodeParts
<1>8. PICK at : at = [p \in {} |-> 0]
    OBVIOUS
<1>9. DOMAIN at = {} /\ DOMAIN Nothing = {}
    BY <1>8 DEF Nothing
<1>10. MaxRows \in Nat
    BY RoundTripAssumption
<1>11. Plan(form, Nothing, work, DOMAIN at)
    <2>1. Outset(form, Nothing, work, {})
        BY <1>5, <1>7, <1>9 DEF Outset
    <2>2. Staged(form, Nothing, work, {}) /\ OneStage(work)
        BY <1>7 DEF Staged, OneStage
    <2>3. Reached(form, Nothing, {}) /\ Ahead(form, Nothing, work, {}) /\ Answering(form, Nothing, {})
        BY <1>9 DEF Reached, Ahead, Answering
    <2>4. Numbered(form, Nothing)
        <3>1. PICK none : none = Nothing
            OBVIOUS
        <3>2. \A f : Rowed(none, f) = {}
            BY <1>9, <3>1 DEF Rowed
        <3>3. 1 .. 0 = {} /\ 0 \in 0 .. MaxRows
            BY <1>10
        <3> QED BY <3>1, <3>2, <3>3 DEF Numbered
    <2> QED BY <1>9, <2>1, <2>2, <2>3, <2>4 DEF Plan
<1>12. Placed(at, <<>>) /\ RowsRise(form, at)
    BY <1>9 DEF Placed, RowsRise
<1>13. Texted(form, Nothing, work, at, <<>>) /\ Rooted(work, at, 0) /\ Linked(work, at, <<>>, <<>>)
    BY <1>7, <1>9 DEF Texted, Rooted, Linked
<1>14. Kept(form, Nothing, work, at, <<>>, <<>>, 0)
    BY <1>11, <1>12, <1>13 DEF Kept
<1> QED BY <1>3, <1>4, <1>5, <1>14 DEF StillProceeds

LEMMA WriterCarries ==
  ASSUME Supplied, Grown, Carries,
         Fill \/ AddRow \/ EndRows \/ WriteOpen \/ WriteText \/ WriteClose \/ WriteEof \/ WriteExtra
  PROVE  Carries'
<1> SUFFICES ASSUME import' = "past", slip' # "fault", Usable' PROVE StillProceeds' \/ Concluded'
    BY DEF Carries
<1>1. import' = import /\ form' = form
    BY DEF Fill, AddRow, EndRows, Instead, WriteOpen, WriteText, WriteClose, WriteEof, WriteExtra, importVars
<1>2. slip # "fault"
    BY DEF Fill, AddRow, EndRows, Instead, WriteOpen, WriteText, WriteClose, WriteEof, WriteExtra
<1>3. Usable
    BY <1>1 DEF Usable, Apart
<1>4. outcome = "reading"
    BY DEF Fill, AddRow, EndRows, Instead, WriteOpen, WriteText, WriteClose, WriteEof, WriteExtra,
           StartElement, EmptyElement, EndElement, Text, GeneralRef, Eof, Other, Reads
<1>5. PICK at : Kept(form, filled, todo, at, elements, open, root)
    BY <1>1, <1>2, <1>3, <1>4 DEF Carries, Concluded, StillProceeds
<1>6. PICK fields : Closed(fields) /\ Written(fields)
    BY <1>1 DEF Supplied
<1>7. Fitting(form, fields)
    BY <1>3, <1>6, UsableFits DEF Written
<1>8. Proceeds(fields, at)
    BY <1>1, <1>4, <1>5, <1>6, <1>7 DEF Proceeds, Supplied
<1>9. CASE Fill \/ AddRow \/ EndRows
    BY <1>8, <1>9, FillKeeps, AddRowKeeps, EndRowsKeeps
<1>10. CASE WriteOpen \/ WriteText \/ WriteClose
    BY <1>8, <1>10, WriteOpenKeeps, WriteTextKeeps, WriteCloseKeeps
<1>11. CASE WriteEof \/ WriteExtra
    BY <1>8, <1>11, WriteEofKeeps, WriteExtraKeeps
<1> QED BY <1>9, <1>10, <1>11

LEMMA NextCarries == Supplied /\ Grown /\ Carries /\ [Next]_vars => Carries'
<1> SUFFICES ASSUME Supplied, Grown, Carries, [Next]_vars PROVE Carries'
    OBVIOUS
<1>1. CASE Import /\ UNCHANGED <<instanceVars, filled, todo, slip>>
    <2>1. import # "past"
        BY <1>1 DEF Import, SkipRow, BeginGroup, EndGroup, BeginRepeat, EndRepeat, Question, EndSheet, ComesTo
    <2>2. todo' = <<>>
        BY <1>1, <2>1 DEF Supplied, Untouched
    <2>3. Supplied'
        BY NextSupplied
    <2>4. import' # "past"
        BY <2>2, <2>3 DEF Supplied
    <2> QED BY <2>4 DEF Carries
<1>2. CASE Download
    BY <1>2, DownloadCarries
<1>3. CASE Fill \/ AddRow \/ EndRows \/ WriteOpen \/ WriteText \/ WriteClose \/ WriteEof \/ WriteExtra
    BY <1>3, WriterCarries
<1>4. CASE Slip
    BY <1>4 DEF Slip, Carries
<1>5. CASE UNCHANGED vars
    <2>1. /\ form' = form /\ filled' = filled /\ todo' = todo /\ elements' = elements /\ open' = open
          /\ root' = root /\ outcome' = outcome /\ import' = import /\ slip' = slip
        BY <1>5 DEF vars, importVars, instanceVars
    <2>2. Usable' => Usable
        BY <2>1 DEF Usable, Apart
    <2>3. StillProceeds => StillProceeds'
        BY <2>1 DEF StillProceeds
    <2>4. Concluded => Concluded'
        BY <2>1, ArrivesStill DEF Concluded
    <2> QED BY <2>1, <2>2, <2>3, <2>4 DEF Carries
<1> QED BY <1>1, <1>2, <1>3, <1>4, <1>5 DEF Next

LEMMA InitCarries == Init => Carries
BY DEF Init, ImporterInit, Carries

LEMMA CarriedArrives == Supplied /\ Carries => EveryAnswerArrives /\ RenderedIsAccepted
<1> SUFFICES ASSUME Supplied, Carries PROVE EveryAnswerArrives /\ RenderedIsAccepted
    OBVIOUS
<1>1. outcome # "reading" => import = "past"
    BY DEF Supplied, Untouched, InstanceInit
<1>2. outcome # "reading" /\ slip # "fault" /\ Usable => Concluded
    BY <1>1 DEF Carries, StillProceeds
<1>3. EveryAnswerArrives
    BY <1>2 DEF EveryAnswerArrives, Concluded, AllArrives
<1>4. RenderedIsAccepted
    BY <1>2 DEF RenderedIsAccepted, Concluded
<1> QED BY <1>3, <1>4

\* The inductive invariant of both.
LEMMA AlwaysCarries == Spec => [](Supplied /\ Carries)
<1>1. Init => Supplied /\ Grown /\ Carries
    BY InitSupplied, InitGrown, InitCarries DEF Init
<1>2. Supplied /\ Grown /\ Carries /\ [Next]_vars => (Supplied /\ Grown /\ Carries)'
    BY NextSupplied, ParserSteps, EventGrown, NextCarries
<1> QED BY <1>1, <1>2, PTL DEF Spec

(* The answers of an accepted instance are those the device was given, in  *)
(* every row and whatever the encoding: what write_instance lets a client  *)
(* fill in, parse reads and to_submission maps back by the same names, for *)
(* forms, rows and answers of any number.                                  *)
THEOREM AnswersOnTheWay == Spec => []EveryAnswerArrives
<1> QED BY AlwaysCarries, CarriedArrives, PTL

(* The instance of a form that was listed is refused only for the limits:  *)
(* nothing write_instance has a client write is malformed, and the form    *)
(* and the instance it is of are always found (parse).                     *)
THEOREM AcceptedOnTheWay == Spec => []RenderedIsAccepted
<1> QED BY AlwaysCarries, CarriedArrives, PTL
=============================================================================
