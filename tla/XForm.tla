-------------------------------- MODULE XForm -------------------------------
(***************************************************************************)
(* A form on its way to ODK Collect and an instance on its way back: the   *)
(* relevant expressions the importer models as conditions, the binds of    *)
(* the XForm the server renders, and the mapping of a posted instance onto *)
(* the fields of the form.                                                 *)
(*                                                                         *)
(* A relevant expression is a sequence of comparisons that all have to     *)
(* hold; the empty sequence is no expression.  An instance is a function   *)
(* from element names to texts, and to sequences of instances for a        *)
(* repeat.                                                                 *)
(***************************************************************************)
EXTENDS Validation

CONSTANT Unwritable   \* the names that are no names of XML elements

ASSUME UnwritableAssumption == "" \in Unwritable

(* The relevant attribute of a bind: the raw expression if there is one,   *)
(* the condition otherwise.                                                *)
Relevant(field) ==
  IF field.raw # <<>> THEN ToSet(field.raw)
  ELSE {ConditionExpression(c) : c \in field.relevant}

-----------------------------------------------------------------------------
(* References.  The top level is the scope "". *)

Children(field) == IF field.type = "Repeat" THEN ToSet(field.children) ELSE {}

(* FieldIndex::build: where the fields of a name sit, at the top level and *)
(* in the repeats of the top level.                                        *)
Locations(form, name) ==
  {<<"", i>> : i \in {j \in DOMAIN form : form[j].name = name}}
  \cup UNION {{<<form[i].name, j>> : j \in {k \in DOMAIN form[i].children :
                 form[i].children[k].name = name}}
              : i \in {k \in DOMAIN form : form[k].type = "Repeat"}}

(* FieldIndex::resolve: a reference has a path when one field has the name. *)
Resolves(form, name) ==
  \E l \in Locations(form, name) : Locations(form, name) = {l}

(* The repeat the field of that name sits in. *)
HomeOf(form, name) == (CHOOSE l \in Locations(form, name) : TRUE)[1]

(* The path of a reference seen from a scope: the sibling in the same row, *)
(* or the absolute path, which leads to the first row of a repeat.         *)
MutantPathTo(form, name, scope) ==
  LET home == HomeOf(form, name)
  IN IF home = "" THEN "top" ELSE "first row"

PathTo(form, name, scope) ==
  LET home == HomeOf(form, name)
  IN IF home = "" THEN "top" ELSE IF home = scope THEN "sibling" ELSE "first row"

(* The fields at any depth. *)
FieldsOf(form) ==
  LET Deep[n \in 0 .. MaxNesting] ==
        IF n = 0 THEN ToSet(form) ELSE UNION {Children(f) : f \in Deep[n - 1]}
  IN UNION {Deep[n] : n \in 0 .. MaxNesting}

(* The names an expression, a label or a hint of a field refers to:
   rewrite_expression and, for what is displayed, write_display_text. *)
References(field) == {c.field : c \in Relevant(field)} \cup field.mentions

(* xml_name *)
IsXmlName(name) == name \notin Unwritable

(* checked_text: an attribute that is only displayed holds no reference. *)
IsPlain(field) == field.displayed = {}

(* render: a form is rendered when every field of it can be. *)
Rendered(form) ==
  \A f \in FieldsOf(form) :
    IsXmlName(f.name) /\ IsPlain(f) /\ \A name \in References(f) : Resolves(form, name)

-----------------------------------------------------------------------------
(* From a posted instance to the answers of a submission. *)

(* FieldType, but for repeats. *)
QuestionTypes ==
  {"Text", "TextArea", "Integer", "Decimal", "Date", "DateTime", "Time", "Select", "MultiSelect",
   "GeoPoint", "GeoTrace", "GeoShape", "Photo", "Audio", "Video", "File", "Barcode", "Signature",
   "Boolean", "Note"}

(* The kind of value each type of field is given. *)
ValueKind(type) ==
  CASE type \in {"Text", "TextArea", "Note", "Photo", "Audio", "Video", "File", "Signature"} -> "Text"
    [] type = "Select" -> "Choice"
    [] type = "MultiSelect" -> "MultiChoice"
    [] type = "Repeat" -> "Null"
    [] OTHER -> type

(* geopoint: a latitude and a longitude, each in its range, and what follows. *)
IsPoint(text) ==
  /\ Len(text) >= 2
  /\ \A i \in 1 .. 2 : text[i] \in DOMAIN NumberOf
  /\ NumberOf[text[1]] \in -90 .. 90
  /\ NumberOf[text[2]] \in -180 .. 180

(* geopoints: every piece between semicolons that is not empty is a point. *)
ArePoints(text) ==
  \A i, j \in DOMAIN text :
    LET border == {0, Len(text) + 1} \cup {k \in DOMAIN text : text[k] = ";"}
    IN i <= j /\ {i - 1, j + 1} \subseteq border /\ i .. j \cap border = {}
       => IsPoint(SubSeq(text, i, j))

(* Whether the text of an element can be read as a value of the field's type. *)
Fits(text, field) ==
  \/ text = <<>>
  \/ field.type \notin {"Integer", "Decimal", "Boolean", "GeoPoint", "GeoTrace", "GeoShape"}
  \/ field.type \in {"Integer", "Decimal"} /\ IsNumber(text)
  \/ field.type = "Boolean" /\ text \in {<<"true">>, <<"1">>, <<"false">>, <<"0">>}
  \/ field.type = "GeoPoint" /\ IsPoint(text)
  \/ field.type \in {"GeoTrace", "GeoShape"} /\ ArePoints(text)

(* A boolean is kept as what it means, and compares as that. *)
Normalised(text, field) ==
  IF field.type # "Boolean" THEN text
  ELSE IF text \in {<<"true">>, <<"1">>} THEN <<"true">> ELSE <<"false">>

Coerce(text, field) ==
  IF text = <<>> \/ field.type = "Repeat" THEN [kind |-> "Null", text |-> <<>>]
  ELSE [kind |-> ValueKind(field.type), text |-> Normalised(text, field)]

(* Those of the fields an instance has an element for.  Elements of no     *)
(* field are ignored.                                                      *)
Answerable(fields, instance) == {f \in fields : f.name \in DOMAIN instance}

(* The one of these fields that has that name. *)
Named(fields, name) == CHOOSE f \in fields : f.name = name

(* The answers of those fields that can be read. *)
Read(fields, instance) ==
  LET read == {f \in Answerable(fields, instance) :
                 f.type = "Repeat" \/ Fits(instance[f.name], f)}
  IN [name \in {f.name : f \in read} |-> Coerce(instance[name], Named(read, name))]

(* repeat_row: a repeat inside a row is read like a question, as Null. *)
RepeatRow(field, row) == Read(ToSet(field.children), row)

(* to_submission: a repeat is its rows, and is left out when it has none. *)
ToSubmission(form, instance) ==
  LET filled == {f \in Answerable(ToSet(form), instance) : f.type = "Repeat" /\ instance[f.name] # <<>>}
      RowsOf(f) == [i \in DOMAIN instance[f.name] |-> RepeatRow(f, instance[f.name][i])]
      lists == [name \in {f.name : f \in filled} |->
                  [kind |-> "Repeat", rows |-> RowsOf(Named(filled, name))]]
  IN Over(lists, Read(Questions(form), instance))

(* The values that do not fit their type, at the top level and in the rows, *)
(* each reported.                                                           *)
Unfit(fields, instance) ==
  {f \in Answerable(Questions(fields), instance) : ~ Fits(instance[f.name], f)}

MutantCoercionErrors(form, instance) == Unfit(form, instance)

CoercionErrors(form, instance) ==
  Unfit(form, instance)
  \cup UNION {UNION {Unfit(f.children, instance[f.name][i]) : i \in DOMAIN instance[f.name]}
              : f \in {g \in Answerable(ToSet(form), instance) : g.type = "Repeat"}}
=============================================================================
