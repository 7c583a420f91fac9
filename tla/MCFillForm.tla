------------------------------ MODULE MCFillForm -----------------------------
(***************************************************************************)
(* Small families of forms for FillForm: a controlling question, and a     *)
(* required question whose relevant expression refers to it, over every    *)
(* operator and at every place relative to each other.                     *)
(***************************************************************************)
EXTENDS FillForm

MCNumberOf == [w \in {"1", "2"} |-> IF w = "1" THEN 1 ELSE 2]

MCAnswers ==
  [type \in {"Text", "Integer", "Select", "MultiSelect", "Boolean", "GeoPoint", "GeoTrace"} |->
     CASE type = "Text" -> {<<"yes">>, <<"no", "yes">>}
       [] type = "Integer" -> {<<"1">>, <<"2">>, <<"no">>}
       [] type = "Select" -> {<<"yes">>, <<"no">>, <<"2">>}
       [] type = "MultiSelect" -> {<<"yes">>, <<"no">>, <<"yes", "no">>}
       [] type = "Boolean" -> {<<"true">>, <<"false">>}
       [] type = "GeoPoint" -> {<<"1", "2">>, <<"1", "no">>}
       [] type = "GeoTrace" -> {<<"1", "2", ";", "2", "1", ";">>, <<"1", "2", ";", "1">>}]

Field(name, type) ==
  [name |-> name, type |-> type, required |-> FALSE, raw |-> <<>>, relevant |-> {},
   mentions |-> {}, displayed |-> {}, children |-> <<>>, constraints |-> {}]
Required(field) == [field EXCEPT !.required = TRUE]
Limited(field, kind, bound) ==
  [field EXCEPT !.constraints = {[kind |-> kind, bound |-> bound]}]

Compare(name, op, value) == [op |-> op, field |-> name, value |-> value]
(* The row of an imported form, and the same field of a form built through the API. *)
Imported(field, expression) ==
  [field EXCEPT !.raw = expression, !.relevant = ParseRelevant(expression)]
Built(field, expression) == [field EXCEPT !.relevant = ParseRelevant(expression)]

Repeat(name, children) == [Field(name, "Repeat") EXCEPT !.children = children]

Controls ==
  {Field("control", "Text"), Field("control", "Integer"), Field("control", "MultiSelect"),
   Field("control", "Boolean"), Limited(Field("control", "Select"), "OneOf", {"yes", "no"})}

Comparisons ==
  {Compare("control", "=", <<"yes">>), Compare("control", "!=", <<"yes">>),
   Compare("control", "=", <<>>), Compare("control", "!=", <<>>),
   Compare("control", ">", <<"1">>), Compare("control", "<", <<"2">>),
   Compare("control", "selected", <<"yes">>)}

(* A question that is asked when the comparison holds, and must be answered. *)
Details(c) == {Required(Imported(Field("detail", "Text"), <<c>>)),
               Required(Built(Field("detail", "Text"), <<c>>))}
Chained(d) == Required(Imported(Field("last", "Boolean"), <<Compare("detail", "!=", <<"yes">>)>>))

(* The places of the two: side by side, the second in a repeat, both in one *)
(* row, and a repeat that is asked for itself.                              *)
Placed(control, c) ==
  UNION {{<<control, d, Chained(d)>>,
          <<control, Repeat("rows", <<d>>)>>,
          <<Repeat("rows", <<control, d>>)>>} : d \in Details(c)}
  \cup {<<control, Required(Imported(Repeat("rows", <<Required(Field("child", "Boolean"))>>), <<c>>))>>}

(* Constraints of every kind, in and out of a repeat. *)
Ends(star) == [star |-> star, rest |-> <<"yes">>]
Constrained ==
  UNION {{<<f>>, <<Repeat("rows", <<Required(f)>>)>>} : f \in
    {Limited(Field("detail", "Integer"), "Min", 2), Limited(Field("detail", "Integer"), "Max", 1),
     Field("detail", "GeoTrace"), Field("detail", "GeoPoint"),
     Limited(Field("detail", "Text"), "MinLength", 2), Limited(Field("detail", "Text"), "MaxLength", 1)}
    \cup {Limited(Field("detail", "Text"), "Pattern", Ends(star)) : star \in {"leading", "trailing", "none"}}}

ScopedForms == UNION {Placed(control, c) : control \in Controls, c \in Comparisons} \cup Constrained

ASSUME AgreedAssumption == \A fields \in ScopedForms : Agreed(fields)

(* Forms on which device and server do not agree.  A child of a repeat with *)
(* the name of a top-level field.                                           *)
ClashingForms ==
  {<<Field("detail", "Text"), Repeat("rows", <<Required(Field("detail", "Text"))>>)>>,
   <<Limited(Field("detail", "Integer"), "Max", 1),
     Repeat("rows", <<Limited(Field("detail", "Integer"), "Min", 2)>>)>>}

(* A required note for when there is no location. *)
LocationForms ==
  {<<Field("location", "GeoPoint"),
     Required(Imported(Field("detail", "Text"), <<Compare("location", "=", <<>>)>>))>>}

(* A top-level question that depends on a row of a repeat. *)
AcrossForms ==
  {<<Repeat("rows", <<Field("control", "Text")>>),
     Required(Imported(Field("detail", "Text"), <<Compare("control", "!=", <<"yes">>)>>))>>}

(* A required question with a relevant expression of two comparisons. *)
LongForms ==
  {<<Field("control", "Text"), Field("other", "Integer"),
     Required(Imported(Field("detail", "Text"),
       <<Compare("control", "=", <<"yes">>), Compare("other", ">", <<"1">>)>>))>>}

ASSUME DisagreedAssumption ==
  \A fields \in ClashingForms \cup LocationForms \cup AcrossForms \cup LongForms : ~ Agreed(fields)
=============================================================================
