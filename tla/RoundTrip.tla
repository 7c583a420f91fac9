------------------------------ MODULE RoundTrip ------------------------------
(***************************************************************************)
(* The whole way of a form: a sheet is imported, the form is listed and    *)
(* downloaded, a device fills it in and writes the instance, the server    *)
(* parses what arrives and maps it onto the form.                          *)
(*                                                                         *)
(* The writer is an OpenRosa client.  It writes the elements of the form   *)
(* in their order and the meta block, in any of the encodings XML has for  *)
(* them.  Once in an instance it may add what a client is free to add, or  *)
(* slip: write what does not belong there, leave something out, break off. *)
(***************************************************************************)
EXTENDS XForm, Importer, Instance

CONSTANTS Answers,          \* the texts a question may be answered with
          MaxRows,          \* bound: the rows of a repeat
          MaxFilled,        \* bound: the rows of a sheet whose form is filled in
          MaxSlipped,       \* bound: the top-level fields of an instance in which the writer slips
          StrayTags,        \* the tags and
          StrayAttributes,  \* the attributes of elements that belong to no form
          Markup,           \* the pieces XML does not allow as plain text
          InstanceId,       \* the piece an instanceID is
          FormId            \* the id the form is stored under

Identified == <<[key |-> <<"id">>, value |-> FormId]>>

ASSUME RoundTripAssumption ==
  /\ {MaxRows, MaxFilled, MaxSlipped} \subseteq Nat
  /\ FormId \in FormIds
  /\ Answers \subseteq Seq(Pieces \ {Space}) /\ {InstanceId} \subseteq Pieces \ {Space}
  /\ Space \in Pieces

(* What is written is something that can be read. *)
ASSUME TagsAssumption ==
  /\ {<<r.name>> : r \in Rows} \cup StrayTags \subseteq Tags
  /\ {<<"data">>, <<"orx", "meta">>, <<"orx", "instanceID">>, <<"orx", "deviceID">>} \subseteq Tags
  /\ {<<>>, Identified} \cup StrayAttributes \subseteq Attributes
  /\ DOMAIN Entities \subseteq RefNames

VARIABLES filled,  \* what was answered: the text at each place, and the rows of repeats
          todo,    \* what the writer has still to write
          slip     \* "none", "extra" or "fault": what it did beside

vars == <<importVars, instanceVars, filled, todo, slip>>

Nothing == [place \in {} |-> <<>>]

-----------------------------------------------------------------------------
(* The form list. *)

(* form_list, download_form: a form that cannot be rendered is not listed, *)
(* and its download fails.                                                 *)
MutantListed == import = "imported"

Listed == import = "imported" /\ Rendered(form)

-----------------------------------------------------------------------------
(* The device.  What it has to write is elements with their content, and   *)
(* fields it has not come to.  A place is the path to a field or to a row: *)
(* the names on the way, each repeat's with the number of the row.  The    *)
(* meta block has the place of a row, the only one of its name.            *)

Node(tag, attrs, place, content) ==
  [kind |-> "Node", tag |-> tag, attrs |-> attrs, place |-> place, content |-> content]
Leaf(tag, place, text) ==
  Node(tag, <<>>, place, [i \in DOMAIN text |-> [kind |-> "Piece", piece |-> text[i]]])
ToCome(field, place, rows) == [kind |-> "Field", field |-> field, place |-> place, rows |-> rows]
Fields(fields, around) == [i \in DOMAIN fields |-> ToCome(fields[i], Append(around, fields[i].name), 0)]

(* write_instance: the fields, then the meta block. *)
MetaPlace == <<"meta", 1>>
IdPlace == <<"meta", 1, "instanceID">>
Meta(id) == Node(<<"orx", "meta">>, <<>>, MetaPlace, <<Leaf(<<"orx", "instanceID">>, IdPlace, id)>>)
Document(attrs, id) == Node(<<"data">>, attrs, <<>>, Append(Fields(form, <<>>), Meta(id)))

(* A form is downloaded; a client may get the ids wrong.  What the         *)
(* importer read is past.                                                  *)
Download ==
  /\ Listed
  /\ Len(sheet) <= MaxFilled
  /\ \E attrs \in {Identified} \cup StrayAttributes, id \in {<<>>, <<Space>>, <<InstanceId>>} :
       /\ attrs = Identified \/ id = <<InstanceId>>
       /\ attrs # Identified \/ id # <<InstanceId>> => Len(form) <= MaxSlipped
       /\ todo' = <<Node(<<>>, <<>>, <<>>, <<Document(attrs, id)>>)>>
       /\ slip' = IF attrs = Identified /\ id = <<InstanceId>> THEN "none" ELSE "fault"
  /\ import' = "past" /\ sheet' = <<>> /\ row' = 1 /\ stack' = <<>>
  /\ UNCHANGED <<form, instanceVars, filled>>

(* The element being written, the outermost standing for the document, and *)
(* what comes next in it.                                                  *)
Innermost == todo[Len(todo)]
Job == Innermost.content[1]
Comes(kind) == todo # <<>> /\ Innermost.content # <<>> /\ Job.kind = kind
IsWritten == Len(todo) > 1 /\ Innermost.content = <<>>

With(content) == [todo EXCEPT ![Len(todo)].content = content]
Others == Tail(Innermost.content)

(* What comes instead of a field: write_instance_node has an element for a *)
(* question, which is answered or not, and one for each row of a repeat    *)
(* around those of its children.                                           *)
Instead(jobs, place, text) ==
  /\ outcome = "reading"
  /\ todo' = With(jobs \o Others)
  /\ filled' = [p \in DOMAIN filled \cup {place} |-> IF p = place THEN text ELSE filled[p]]
  /\ UNCHANGED <<importVars, instanceVars, slip>>

Fill ==
  /\ Comes("Field") /\ Job.field.type # "Repeat"
  /\ \E text \in Answers \cup {<<>>} :
       /\ Fits(text, Job.field)
       /\ Instead(<<Leaf(<<Job.field.name>>, Job.place, text)>>, Job.place, text)

AddRow ==
  /\ Comes("Field") /\ Job.field.type = "Repeat"
  /\ Job.rows < MaxRows
  /\ LET place == Append(Job.place, Job.rows + 1)
     IN Instead(<<Node(<<Job.field.name>>, <<>>, place, Fields(Job.field.children, place)),
                  ToCome(Job.field, Job.place, Job.rows + 1)>>, place, <<>>)

EndRows ==
  /\ Comes("Field") /\ Job.field.type = "Repeat"
  /\ outcome = "reading"
  /\ todo' = With(Others)
  /\ UNCHANGED <<importVars, instanceVars, filled, slip>>

Entered(element) == Append(With(Others), element)
Left == SubSeq(todo, 1, Len(todo) - 1)

WriteOpen ==
  /\ Comes("Node")
  /\ \/ StartElement(Job.tag, Job.attrs) /\ todo' = Entered(Job)
     \/ Job.content = <<>> /\ EmptyElement(Job.tag, Job.attrs) /\ todo' = With(Others)
  /\ UNCHANGED <<importVars, filled, slip>>

WriteText ==
  /\ Comes("Piece")
  /\ \/ Job.piece \notin Markup /\ Text("Text", Job.piece)
     \/ Job.piece \in Markup /\ Text("CData", Job.piece)
     \/ \E name \in DOMAIN Entities : Entities[name] = Job.piece /\ GeneralRef(name)
  /\ todo' = With(Others)
  /\ UNCHANGED <<importVars, filled, slip>>

WriteClose ==
  /\ IsWritten
  /\ EndElement(Innermost.tag)
  /\ todo' = Left
  /\ UNCHANGED <<importVars, filled, slip>>

WriteEof ==
  /\ Len(todo) = 1 /\ Innermost.content = <<>>
  /\ Eof
  /\ UNCHANGED <<importVars, filled, todo, slip>>

(* What is no part of the form and does it no harm: a comment, white space *)
(* around what is written, an element of the client's own.                 *)
WriteExtra ==
  /\ Comes("Node") \/ IsWritten
  /\ slip = "none" /\ Len(form) <= MaxSlipped
  /\ slip' = "extra"
  /\ Other \/ Text("Text", Space) \/ EmptyElement(<<"orx", "deviceID">>, <<>>)
  /\ UNCHANGED <<importVars, filled, todo>>

(* Anything, anywhere; or something is not written: a whole element, a     *)
(* field or a piece, a start tag, an end tag.                              *)
Slip ==
  /\ import = "past"
  /\ slip = "none" /\ Len(form) <= MaxSlipped
  /\ slip' = "fault"
  /\ \/ EventOf(StrayTags, StrayAttributes) /\ UNCHANGED todo
     \/ Innermost.content # <<>> /\ todo' = With(Others) /\ UNCHANGED instanceVars
     \/ Comes("Node") /\ todo' = Entered(Job) /\ UNCHANGED instanceVars
     \/ IsWritten /\ todo' = Left /\ UNCHANGED instanceVars
  /\ UNCHANGED <<importVars, filled>>

Init == ImporterInit /\ InstanceInit /\ filled = Nothing /\ todo = <<>> /\ slip = "none"

Next ==
  \/ Import /\ UNCHANGED <<instanceVars, filled, todo, slip>>
  \/ Download \/ Fill \/ AddRow \/ EndRows \/ WriteOpen \/ WriteText \/ WriteClose \/ WriteEof \/ WriteExtra \/ Slip

Spec == Init /\ [][Next]_vars

-----------------------------------------------------------------------------
(* The tree as the mapping onto the form reads it. *)

(* coerce trims the text of an element. *)
Trimmed(text) ==
  LET inked == {i \in DOMAIN text : text[i] # Space}
  IN IF inked = {} THEN <<>> ELSE SubSeq(text, Min(inked), Max(inked))

(* to_submission, repeat_row: the text of the first element of each name.  *)
Answered(fields, i) ==
  [name \in {n \in Names(fields) : ChildrenNamed(i, n) # {}} |->
     Trimmed(elements[Child(i, name)].text)]

(* For a repeat of the form every element is a row. *)
Mapped ==
  [name \in {n \in Names(form) : ChildrenNamed(root, n) # {}} |->
     LET field == Named(ToSet(form), name)
         rows == InOrder(ChildrenNamed(root, name))
     IN IF field.type # "Repeat" THEN Answered(form, root)[name]
        ELSE [n \in DOMAIN rows |-> Answered(field.children, rows[n])]]

-----------------------------------------------------------------------------
(* What the properties relate. *)

(* The names a form has to keep apart for an instance to be read back:     *)
(* those beside each other, that of the meta block, and that of what a     *)
(* client adds.  A repeat in a repeat is not read.                         *)
Apart(fields) == \A i, j \in DOMAIN fields : fields[i].name = fields[j].name => i = j
Usable ==
  /\ Apart(form) /\ {"meta", "deviceID"} \cap Names(form) = {}
  /\ \A f \in ToSet(form) :
       /\ Apart(f.children) /\ "deviceID" \notin Names(f.children)
       /\ \A c \in ToSet(f.children) : c.type # "Repeat"

(* Each question of these fields, answered around this place, is in the    *)
(* answers under its name with its answer, and nothing else is.            *)
Arrived(fields, around, answers) ==
  /\ DOMAIN answers \subseteq Names(fields)
  /\ \A f \in Questions(fields) :
       /\ f.name \in DOMAIN answers
       /\ answers[f.name] = Coerce(filled[Append(around, f.name)], f)

(* A repeat has the rows that were added, and is left out when none was. *)
RowsArrived(field, answers) ==
  LET rows == {n \in 1 .. MaxRows : <<field.name, n>> \in DOMAIN filled}
  IN IF rows = {} THEN field.name \notin DOMAIN answers
     ELSE /\ field.name \in DOMAIN answers
          /\ LET value == answers[field.name]
             IN /\ value.kind = "Repeat" /\ DOMAIN value.rows = rows
                /\ \A n \in rows : Arrived(field.children, <<field.name, n>>, value.rows[n])

-----------------------------------------------------------------------------
(* Properties. *)

(* The state has the shape declared, and nothing is written or parsed      *)
(* before a form that can be rendered is there.                            *)
TypeOK ==
  /\ sheet \in Seq(Rows) /\ Len(sheet) <= MaxRead /\ row \in 1 .. MaxRead + 1
  /\ import \in {"reading", "imported", "past", "MissingName", "UnsupportedType",
                 "MissingChoiceList", "UnbalancedGroup"}
  /\ import \notin {"imported", "past"} => form = <<>>
  /\ import = "reading" => stack # <<>> /\ stack[1].kind = "Root"
  /\ outcome \in {"reading", "parsed", "Malformed", "DocTypeRejected", "UnknownEntity",
                  "TooDeep", "TooLarge", "MissingFormId", "MissingInstanceId"}
  /\ slip \in {"none", "extra", "fault"}
  /\ import # "past" => todo = <<>> /\ read = <<>>
  /\ import = "past" => Rendered(form)

(* The answers of an accepted instance are those the device was given, in  *)
(* every row and whatever the encoding, if the form keeps its names apart  *)
(* (the importer's names, write_instance and to_submission agree: "the     *)
(* submission parser maps incoming elements back by the same name").       *)
EveryAnswerArrives ==
  outcome = "parsed" /\ slip # "fault" /\ Usable =>
    LET answers == ToSubmission(form, Mapped)
    IN /\ Arrived(form, <<>>, answers)
       /\ \A f \in ToSet(form) : f.type = "Repeat" => RowsArrived(f, answers)

(* The instance of a form that was listed and keeps its names apart is     *)
(* never refused, but for the limits (write_instance against parse).       *)
RenderedIsAccepted ==
  outcome # "reading" /\ slip # "fault" /\ Usable =>
    \/ outcome = "parsed"
    \/ outcome = "TooLarge" /\ Len(elements) = MaxElements
    \/ outcome = "TooDeep" /\ Len(open) > MaxDepth
=============================================================================
