------------------------------- MODULE FillForm ------------------------------
(***************************************************************************)
(* Filling in one form: the server renders it, an enumerator answers,      *)
(* changes and clears answers and adds and drops rows, in any order, and   *)
(* the client sends what it holds.  The server maps the instance onto the  *)
(* form, validates the answers and stores or refuses them.                 *)
(*                                                                         *)
(* The device is ODK Collect, which shows a question while its relevant    *)
(* expression holds and sends an element for every question it shows; or a *)
(* client of the JSON API, which leaves a question nobody answered out.    *)
(* Neither sends the answer of a question that is no longer shown.         *)
(***************************************************************************)
EXTENDS XForm

CONSTANTS Forms,    \* the forms a server may hold
          Clients,  \* the kinds of client: "collect", "json"
          Answers,  \* for each type of question, the texts an enumerator enters
          MaxRows   \* bound: the rows of a repeat

ASSUME ClientsAssumption == Clients \subseteq {"collect", "json"}
ASSUME MaxRowsAssumption == MaxRows \in Nat
ASSUME AnswersAssumption ==
  /\ DOMAIN Answers \subseteq QuestionTypes
  /\ \A type \in DOMAIN Answers : \A text \in Answers[type] :
       /\ Len(text) \in Nat
       /\ type = "Boolean" => text \in {<<"true">>, <<"false">>}

VARIABLES form,    \* the form being filled in
          nodes,   \* the instance on the device
          sent,    \* which client sent it, "none" while it is filled in
          errors,  \* what the server refused it for
          stored   \* the answers of the submission it stored

vars == <<form, nodes, sent, errors, stored>>

Nothing == [name \in {} |-> <<>>]

-----------------------------------------------------------------------------
(* The instance on the device: for each field of the form the text of a    *)
(* question, or the rows of a repeat.  A place is the path to a field: its *)
(* name, or those of a repeat and of its child around the number of a row. *)
(* A repeat in a row has no rows of its own here; the server reads none.   *)

BlankRow(repeat) == [name \in Names(repeat.children) |-> <<>>]

(* write_instance: an empty element for a question, one row for a repeat. *)
Blank(fields) ==
  [name \in Names(fields) |->
     LET field == Named(ToSet(fields), name)
     IN IF field.type = "Repeat" THEN <<BlankRow(field)>> ELSE <<>>]

Top(name) == Named(ToSet(form), name)
Repeats == {f \in ToSet(form) : f.type = "Repeat"}

Places ==
  {<<name>> : name \in Names(form)}
  \cup UNION {{<<f.name, i, name>> : i \in DOMAIN nodes[f.name], name \in Names(f.children)}
              : f \in Repeats}

InRow(place) == Len(place) = 3
FieldAt(place) ==
  IF InRow(place) THEN Named(ToSet(Top(place[1]).children), place[3]) ELSE Top(place[1])
At(place) ==
  IF InRow(place) THEN nodes[place[1]][place[2]][place[3]] ELSE nodes[place[1]]

(* What the instance becomes with this text at a place. *)
With(place, text) ==
  IF InRow(place) THEN [nodes EXCEPT ![place[1]][place[2]][place[3]] = text]
  ELSE [nodes EXCEPT ![place[1]] = text]

-----------------------------------------------------------------------------
(* What the device shows. *)

(* A comparison as XPath makes it, on the text a reference leads to. *)
DeviceHolds(comparison, text) ==
  LET literal == comparison.value
      numbers == IsNumber(text) /\ IsNumber(literal)
  IN CASE comparison.op = "=" -> text = literal
       [] comparison.op = "!=" -> text # literal
       [] comparison.op = ">" -> numbers /\ ToNumber(text) > ToNumber(literal)
       [] comparison.op = "<" -> numbers /\ ToNumber(text) < ToNumber(literal)
       [] comparison.op = "selected" -> \E i \in DOMAIN text : <<text[i]>> = literal

(* The place the path of a reference leads to, seen from another. *)
Referred(place, name) ==
  LET scope == IF InRow(place) THEN place[1] ELSE ""
      path == PathTo(form, name, scope)
  IN CASE path = "top" -> <<name>>
       [] path = "sibling" -> <<place[1], place[2], name>>
       [] path = "first row" -> <<HomeOf(form, name), 1, name>>

(* The text of a question that is not shown is empty. *)
TextAt(shown, place) == IF place \in shown THEN At(place) ELSE <<>>

(* What is shown, if these places are: what stands in a repeat that is, and *)
(* whose relevant expression holds.                                         *)
Shows(shown, place) ==
  /\ InRow(place) => <<place[1]>> \in shown
  /\ \A c \in Relevant(FieldAt(place)) : DeviceHolds(c, TextAt(shown, Referred(place, c.field)))

(* The device decides again until nothing changes: where no expression     *)
(* depends on itself, once for every field is enough.                      *)
FieldNames == {f.name : f \in FieldsOf(form)}
Shown ==
  LET After[n \in 0 .. Cardinality(FieldNames)] ==
        IF n = 0 THEN Places
        ELSE LET before == After[n - 1] IN {place \in Places : Shows(before, place)}
  IN After[Cardinality(FieldNames)]

ShownQuestions == {place \in Shown : FieldAt(place).type # "Repeat"}

(* The instance a client sends: what is shown, but a json client leaves    *)
(* out what is empty.                                                      *)
Instance(client) ==
  LET shown == Shown
      Sends(place) == place \in shown /\ (client = "json" => At(place) # <<>>)
      RowSent(name, i) ==
        LET row == nodes[name][i]
        IN [child \in {c \in DOMAIN row : Sends(<<name, i, c>>)} |-> row[child]]
  IN [name \in {n \in Names(form) : Sends(<<n>>)} |->
        IF Top(name).type # "Repeat" THEN nodes[name]
        ELSE [i \in DOMAIN nodes[name] |-> RowSent(name, i)]]

-----------------------------------------------------------------------------
Init ==
  /\ form \in {f \in Forms : Rendered(f)}
  /\ nodes = Blank(form)
  /\ sent = "none"
  /\ errors = {}
  /\ stored = Nothing

Edits == sent = "none" /\ UNCHANGED <<form, sent, errors, stored>>

(* A shown question is answered, or its answer changed or cleared. *)
Enter ==
  /\ Edits
  /\ \E place \in ShownQuestions :
       \E text \in Answers[FieldAt(place).type] \cup {<<>>} :
         /\ text # At(place)
         /\ nodes' = With(place, text)

AddRow ==
  /\ Edits
  /\ \E f \in Repeats :
       /\ <<f.name>> \in Shown
       /\ Len(nodes[f.name]) < MaxRows
       /\ nodes' = [nodes EXCEPT ![f.name] = Append(@, BlankRow(f))]

DropRow ==
  /\ Edits
  /\ \E f \in Repeats :
       /\ <<f.name>> \in Shown
       /\ \E i \in DOMAIN nodes[f.name] :
            nodes' = [nodes EXCEPT ![f.name] = RemoveAt(@, i)]

(* What the server answers to an instance: what does not fit its type is   *)
(* refused before anything is validated.                                   *)
Verdict(instance) ==
  IF CoercionErrors(form, instance) # {}
  THEN {Broken("Unfit", <<f.name>>) : f \in CoercionErrors(form, instance)}
  ELSE Validate(form, ToSubmission(form, instance))

MutantSend(client) ==
  /\ sent = "none"
  /\ sent' = client
  /\ errors' = Verdict(Instance(client))
  /\ stored' = ToSubmission(form, Instance(client))
  /\ UNCHANGED <<form, nodes>>

(* The values a json client sends are of the declared types already. *)
Send(client) ==
  /\ sent = "none"
  /\ client = "json" => CoercionErrors(form, Instance(client)) = {}
  /\ sent' = client
  /\ errors' = Verdict(Instance(client))
  /\ stored' = IF errors' = {} THEN ToSubmission(form, Instance(client)) ELSE Nothing
  /\ UNCHANGED <<form, nodes>>

Next == Enter \/ AddRow \/ DropRow \/ \E client \in Clients : Send(client)

Spec == Init /\ [][Next]_vars

-----------------------------------------------------------------------------
(* What the properties relate. *)

(* The questions the server takes as asked. *)
Asked(values) ==
  UNION {{Append(level.path, f.name) : f \in {g \in Questions(level.fields) : ~ Hidden(g, level.scope)}}
         : level \in Levels(form, values)}

(* What a constraint asks of an answer of the type it is made for. *)
Meets(text, constraint) ==
  LET bound == constraint.bound
  IN CASE constraint.kind = "OneOf" -> \E word \in bound : text = <<word>>
       [] constraint.kind = "Min" -> ToNumber(text) >= bound
       [] constraint.kind = "Max" -> ToNumber(text) <= bound
       [] constraint.kind = "MinLength" -> Len(text) >= bound
       [] constraint.kind = "MaxLength" -> Len(text) <= bound
       [] constraint.kind = "Pattern" -> Matches(bound, text)

(* The form is filled in as it asks: what is required is answered, and     *)
(* every answer is of its type and meets the constraints.                  *)
Complete ==
  \A place \in ShownQuestions :
    LET field == FieldAt(place)
        text == At(place)
    IN /\ field.required => text # <<>>
       /\ Fits(text, field)
       /\ text # <<>> => \A k \in field.constraints : Meets(text, k)

(* The text a submission keeps for the question of a place. *)
Kept(place) ==
  LET values == IF InRow(place) THEN stored[place[1]].rows[place[2]] ELSE stored
      name == place[Len(place)]
  IN IF name \in DOMAIN values THEN values[name].text ELSE <<>>

-----------------------------------------------------------------------------
(* The forms device and server agree on.                                   *)

(* A repeat stands in no repeat, a row has no names from outside, and no    *)
(* two fields beside each other have the same.                              *)
Apart(fields) == \A f, g \in ToSet(fields) : f.name = g.name => f = g
Flat(fields) ==
  /\ Apart(fields)
  /\ \A f \in ToSet(fields) :
       /\ Apart(f.children)
       /\ f.type = "Repeat" => Names(f.children) \cap Names(fields) = {}
       /\ \A g \in Children(f) : g.type # "Repeat"

(* No relevant expression depends on itself: fields can be ranked so that   *)
(* each comes after those it refers to, and a row's after their repeat.     *)
Ordered(fields) ==
  LET all == FieldsOf(fields)
      names == {f.name : f \in all}
  IN /\ IsFiniteSet(all)
     /\ \E rank \in [names -> 1 .. Cardinality(names)] :
          /\ \A f \in all : \A c \in Relevant(f) : rank[c.field] < rank[f.name]
          /\ \A f \in all : \A g \in Children(f) : rank[f.name] < rank[g.name]

(* A field the importer read has one comparison, and its condition says it. *)
Operators == {"Equals", "NotEquals", "GreaterThan", "LessThan", "Contains", "IsNotEmpty"}
Modelled(field) ==
  /\ \A c \in field.relevant : c.op \in Operators
  /\ field.raw # <<>> => /\ field.raw = <<field.raw[1]>>
                         /\ field.relevant = ParseRelevant(field.raw) /\ field.relevant # {}

(* It refers to questions whose answers have a text. *)
Reads(field, others) ==
  \A c \in Relevant(field) :
    \E g \in others : g.name = c.field /\ ValueKind(g.type) \notin Textless

(* Its constraints are ones that are checked for its type. *)
Suited(field) ==
  \A k \in field.constraints :
    \/ k.kind \in {"Min", "Max"} /\ k.bound \in Int /\ field.type \in {"Integer", "Decimal"}
    \/ k.kind \in {"MinLength", "MaxLength"} /\ k.bound \in Int /\ ValueKind(field.type) = "Text"
    \/ k.kind = "Pattern" /\ ValueKind(field.type) = "Text"
    \/ k.kind = "OneOf" /\ ValueKind(field.type) \in {"Text", "Choice"}

Agreed(fields) ==
  /\ Flat(fields) /\ Ordered(fields)
  /\ \A f \in FieldsOf(fields) : /\ Modelled(f) /\ Suited(f)
                                  /\ f.type \in {"Repeat"} \cup DOMAIN Answers
  /\ \A f \in ToSet(fields) :
       /\ Reads(f, Questions(fields))
       /\ \A g \in Children(f) : Reads(g, Questions(fields) \cup Questions(f.children))

-----------------------------------------------------------------------------
(* Properties. *)

(* The state has the shape declared: what is refused is not stored, and an *)
(* instance has a place for every field of its form.                       *)
TypeOK ==
  /\ form \in Forms
  /\ DOMAIN nodes = Names(form)
  /\ sent \in Clients \cup {"none"}
  /\ \A e \in errors : e.error \in {"Unfit", "UnknownField", "RequiredField", "ValidationFailed"}
  /\ sent = "none" \/ errors # {} => stored = Nothing

(* The conditions the server evaluates hide the questions the device hides *)
(* and no others, in every row and through chains of conditions, whatever  *)
(* was answered and taken back (Condition::evaluate over the scope of      *)
(* validate_instances, against the relevant attribute of write_bind).      *)
SameQuestions ==
  \A client \in Clients :
    CoercionErrors(form, Instance(client)) = {} =>
      Asked(ToSubmission(form, Instance(client))) = ShownQuestions

(* An instance filled in as the form asks is never refused: the device has *)
(* accepted it, and a refusal strands it there.                            *)
NeverStranded == sent # "none" /\ Complete => errors = {}

(* What the server stores was filled in as the form asks: every required   *)
(* question that was shown is answered, in every row, and every answer     *)
(* meets its constraints.                                                  *)
AcceptedIsComplete == sent # "none" /\ errors = {} => Complete

(* Every answer of a stored submission is the one that was entered, and    *)
(* none is lost on the way (to_submission, repeat_row, coerce).            *)
AnswersAreKept ==
  sent # "none" /\ errors = {} =>
    \A place \in ShownQuestions : Kept(place) = At(place)

(* "a condition on a field the submission omits is false for every         *)
(* operator except NotEquals" (CHANGELOG).                                 *)
OmittedIsFalse ==
  \A client \in Clients :
    LET values == ToSubmission(form, Instance(client))
    IN \A f \in ToSet(form) : \A c \in f.relevant :
         c.field \notin DOMAIN values /\ c.op # "NotEquals" => ~ Evaluate(c, values)
=============================================================================
