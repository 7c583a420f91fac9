------------------------------- MODULE Importer ------------------------------
(***************************************************************************)
(* The importer of XLSForms: it walks the rows of a survey sheet and keeps *)
(* a stack of the groups and repeats that are open.  Groups are flattened, *)
(* repeats become fields with children.                                    *)
(*                                                                         *)
(* A row is a record of its cells; a type cell is a sequence of words, and *)
(* the empty one of a text cell is "".                                     *)
(***************************************************************************)
EXTENDS Conditions, Nesting

CONSTANTS Rows,         \* the rows a survey sheet may have
          ChoiceLists,  \* the choices sheet: for each list, the values it offers
          MaxRead       \* bound: the rows of a sheet

ASSUME MaxReadAssumption == MaxRead \in Nat

VARIABLES sheet,   \* the rows read so far (only properties read its rows)
          row,     \* the number the importer gives the row it has come to
          stack,   \* the containers being filled, the root first
          form,    \* the fields of the imported form
          import   \* "reading", "imported" or the error it failed with

importVars == <<sheet, row, stack, form, import>>

(* cell_text, read_records: a row none of whose cells has text is dropped. *)
IsBlank(r) ==
  /\ r.type = <<>> /\ r.name = "" /\ r.required = "" /\ r.relevant = <<>>
  /\ r.mentions = {} /\ r.displayed = {}

(* The first word of the type cell names the type, the second the list.    *)
Base(r) == IF r.type = <<>> THEN "" ELSE Head(r.type)
ListName(r) == IF Len(r.type) < 2 THEN "" ELSE r.type[2]

(* map_type: the questions the importer supports. *)
TypeOf ==
  [base \in {"text", "string", "integer", "int", "decimal", "date", "time", "datetime", "dateTime",
             "note", "geopoint", "geotrace", "geoshape", "image", "photo", "audio", "video", "file",
             "barcode", "signature", "select_one", "select_multiple", "select_multi"} |->
     CASE base \in {"text", "string"} -> "Text"
       [] base \in {"integer", "int"} -> "Integer"
       [] base = "decimal" -> "Decimal"
       [] base = "date" -> "Date"
       [] base = "time" -> "Time"
       [] base \in {"datetime", "dateTime"} -> "DateTime"
       [] base = "note" -> "Note"
       [] base = "geopoint" -> "GeoPoint"
       [] base = "geotrace" -> "GeoTrace"
       [] base = "geoshape" -> "GeoShape"
       [] base \in {"image", "photo"} -> "Photo"
       [] base = "audio" -> "Audio"
       [] base = "video" -> "Video"
       [] base = "file" -> "File"
       [] base = "barcode" -> "Barcode"
       [] base = "signature" -> "Signature"
       [] base = "select_one" -> "Select"
       [] base \in {"select_multiple", "select_multi"} -> "MultiSelect"]

(* The containers, and what opens and closes each. *)
Begins == [base \in {"begin_group", "begin_repeat"} |-> IF base = "begin_group" THEN "Group" ELSE "Repeat"]
Ends == [base \in {"end_group", "end_repeat"} |-> IF base = "end_group" THEN "Group" ELSE "Repeat"]

(* parse_bool *)
ParseBool(cell) == cell \in {"yes", "true", "1"}

(* build_field: the field of a row, its relevant expression kept and, where *)
(* the engine can, modelled as a condition.  A select_one is limited to its *)
(* list.                                                                    *)
BuildField(r, type) ==
  [name |-> r.name, type |-> type, required |-> ParseBool(r.required),
   raw |-> r.relevant, relevant |-> ParseRelevant(r.relevant),
   mentions |-> r.mentions, displayed |-> r.displayed, children |-> <<>>, group |-> "",
   constraints |-> IF type # "Select" THEN {}
                   ELSE {[kind |-> "OneOf", bound |-> ChoiceLists[ListName(r)]]}]

(* The group a field is tagged with: the innermost, which is closed first. *)
MutantTagged(field, group) == [field EXCEPT !.group = group]

Tagged(field, group) == IF field.group # "" THEN field ELSE [field EXCEPT !.group = group]

(* The stack with these fields added to the container on top. *)
Filled(frames, fields) == [frames EXCEPT ![Len(frames)].fields = @ \o fields]

Frame(kind, field) == [kind |-> kind, field |-> field, fields |-> <<>>]

-----------------------------------------------------------------------------
ImporterInit ==
  /\ sheet = <<>>
  /\ row = 1
  /\ stack = <<Frame("Root", <<>>)>>
  /\ form = <<>>
  /\ import = "reading"

(* The importer comes to a row.  It counts the rows that were kept. *)
ComesTo(r) ==
  /\ import = "reading"
  /\ Len(sheet) < MaxRead
  /\ sheet' = Append(sheet, r)
  /\ row' = IF IsBlank(r) THEN row ELSE row + 1
  /\ UNCHANGED form

Fail(error) == import' = error /\ UNCHANGED stack
Put(frames) == stack' = frames /\ UNCHANGED import

SkipRow(r) ==
  /\ ComesTo(r)
  /\ r.type = <<>>
  /\ UNCHANGED <<stack, import>>

(* Of a group only the name is kept. *)
BeginGroup(r) ==
  /\ ComesTo(r)
  /\ Base(r) = "begin_group"
  /\ IF r.name = "" THEN Fail("MissingName")
     ELSE Put(Append(stack, Frame("Group", r.name)))

EndGroup(r) ==
  /\ ComesTo(r)
  /\ Base(r) = "end_group"
  /\ LET frame == Last(stack)
     IN IF frame.kind # "Group" THEN Fail("UnbalancedGroup")
        ELSE Put(Filled(Front(stack),
                        [i \in DOMAIN frame.fields |-> Tagged(frame.fields[i], frame.field)]))

BeginRepeat(r) ==
  /\ ComesTo(r)
  /\ Base(r) = "begin_repeat"
  /\ IF r.name = "" THEN Fail("MissingName")
     ELSE Put(Append(stack, Frame("Repeat", BuildField(r, "Repeat"))))

EndRepeat(r) ==
  /\ ComesTo(r)
  /\ Base(r) = "end_repeat"
  /\ LET frame == Last(stack)
     IN IF frame.kind # "Repeat" THEN Fail("UnbalancedGroup")
        ELSE Put(Filled(Front(stack), <<[frame.field EXCEPT !.children = frame.fields]>>))

Question(r) ==
  /\ ComesTo(r)
  /\ r.type # <<>>
  /\ Base(r) \notin DOMAIN Begins \cup DOMAIN Ends
  /\ CASE Base(r) \notin DOMAIN TypeOf -> Fail("UnsupportedType")
       [] Base(r) \in DOMAIN TypeOf /\ r.name = "" -> Fail("MissingName")
       [] OTHER ->
            IF /\ TypeOf[Base(r)] \in {"Select", "MultiSelect"}
               /\ ListName(r) \notin DOMAIN ChoiceLists
            THEN Fail("MissingChoiceList")
            ELSE Put(Filled(stack, <<BuildField(r, TypeOf[Base(r)])>>))

(* The sheet ends: every container must have been closed. *)
MutantEndSheet ==
  /\ import = "reading"
  /\ import' = "imported"
  /\ form' = stack[1].fields
  /\ UNCHANGED <<sheet, row, stack>>

EndSheet ==
  /\ import = "reading"
  /\ import' = IF Len(stack) = 1 THEN "imported" ELSE "UnbalancedGroup"
  /\ form' = IF Len(stack) = 1 THEN stack[1].fields ELSE <<>>
  /\ UNCHANGED <<sheet, row, stack>>

Import ==
  \/ \E r \in Rows : \/ SkipRow(r) \/ BeginGroup(r) \/ EndGroup(r)
                     \/ BeginRepeat(r) \/ EndRepeat(r) \/ Question(r)
  \/ EndSheet

ImporterSpec == ImporterInit /\ [][Import]_importVars

-----------------------------------------------------------------------------
(* What the rows of a sheet say, read without a stack. *)

Opens(r) == Base(r) \in DOMAIN Begins
Closes(r) == Base(r) \in DOMAIN Ends
SheetMarks(rows) ==
  [i \in DOMAIN rows |-> IF Opens(rows[i]) THEN 1 ELSE IF Closes(rows[i]) THEN -1 ELSE 0]

(* The row that opens the innermost container of row i, 0 for the root. *)
ContainerOf(rows, i) == Encloser(SheetMarks(rows), i)

(* The row that opens the innermost repeat around row i. *)
RepeatOf(rows, i) ==
  Max({0} \cup {j \in Around(SheetMarks(rows), i) : Base(rows[j]) = "begin_repeat"})

(* The group row i is in, "" if it is directly in a repeat or in nothing. *)
GroupOf(rows, i) ==
  LET container == ContainerOf(rows, i)
  IN IF container # 0 /\ Base(rows[container]) = "begin_group" THEN rows[container].name ELSE ""

(* The rows that become fields of the repeat row j opens. *)
IsField(r) == Base(r) \in DOMAIN TypeOf \cup {"begin_repeat"}
FieldRows(rows, j) == {i \in DOMAIN rows : IsField(rows[i]) /\ RepeatOf(rows, i) = j}

(* What a row becomes, with these children and this group. *)
FieldOf(r, children, group) ==
  [BuildField(r, IF Opens(r) THEN "Repeat" ELSE TypeOf[Base(r)])
     EXCEPT !.children = children, !.group = group]

(* The fields of the form: those of the root, each repeat with its own. *)
FormOf(rows) ==
  LET FieldsIn[j \in 0 .. Len(rows)] ==
        LET inside == InOrder(FieldRows(rows, j))
        IN [n \in DOMAIN inside |->
              FieldOf(rows[inside[n]], FieldsIn[inside[n]], GroupOf(rows, inside[n]))]
  IN FieldsIn[0]

(* Every row can be read for itself. *)
IsSound(r) ==
  \/ Closes(r)
  \/ r.type = <<>>
  \/ r.name # "" /\ \/ Opens(r)
                    \/ /\ Base(r) \in DOMAIN TypeOf
                       /\ Base(r) \in {"select_one", "select_multiple", "select_multi"}
                          => ListName(r) \in DOMAIN ChoiceLists

(* Every container is closed once, by an end of its own kind. *)
EndFits(rows, i) ==
  Closes(rows[i]) => Begins[Base(rows[ContainerOf(rows, i)])] = Ends[Base(rows[i])]
Matched(rows) == Balanced(SheetMarks(rows)) /\ \A i \in DOMAIN rows : EndFits(rows, i)

-----------------------------------------------------------------------------
(* Properties. *)

(* Every row of an imported sheet is one field, in its order, inside the   *)
(* repeat it stands in and tagged with the group directly around it, at    *)
(* any nesting of groups and repeats (parse_survey, "Each inner field      *)
(* keeps its group name under metadata.group").                            *)
ImportedAsWritten == import = "imported" => form = FormOf(sheet)

(* A sheet is imported just when each of its rows can be read and every    *)
(* group and repeat is closed by its own kind of end (the frames of        *)
(* parse_survey, UnbalancedGroup).                                         *)
BalancedIsAccepted ==
  /\ import = "imported" => Matched(sheet) /\ \A i \in DOMAIN sheet : IsSound(sheet[i])
  /\ import = "UnbalancedGroup" => ~ Matched(sheet)
  /\ import \in {"MissingName", "UnsupportedType", "MissingChoiceList"} => ~ IsSound(Last(sheet))

(* "fails the import with a 422 naming the row" (README). *)
ErrorNamesItsRow ==
  import \in {"MissingName", "UnsupportedType", "MissingChoiceList"} => row = Len(sheet) + 1
=============================================================================
