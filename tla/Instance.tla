------------------------------- MODULE Instance ------------------------------
(***************************************************************************)
(* The parser of a posted instance: quick-xml reports the document as      *)
(* events, the parser builds the tree of elements from them and then looks *)
(* for the form and the instance it is of.                                 *)
(*                                                                         *)
(* The tree is kept bottom-up: the elements in the order they start in,    *)
(* each with the element it stands in, 0 for none.  An element that has    *)
(* not ended hangs in nothing yet in the code; since a document that ends  *)
(* with one open is refused, nobody sees the difference.  A tag is a       *)
(* sequence of its prefixes and its local name; a text is a sequence of    *)
(* pieces.                                                                 *)
(***************************************************************************)
EXTENDS Nesting

CONSTANTS Tags,         \* names of elements, with their prefixes
          Attributes,   \* the attributes an element may come with
          Pieces,       \* pieces of text
          Space,        \* the piece that is white space
          Entities,     \* what &name; stands for: predefined, or a character
          RefNames,     \* the names references are made to
          FormIds,      \* the values of an id attribute that are the id of a form
          MaxDepth,     \* MAX_DEPTH
          MaxElements   \* MAX_ELEMENTS

ASSUME EntitiesAssumption == \A name \in DOMAIN Entities : Entities[name] \in Pieces
ASSUME LimitsAssumption == MaxDepth \in Nat /\ MaxElements \in Nat

VARIABLES elements,  \* every element that started: tag, attributes, text, parent
                     \* (and, for the properties, how deep it started)
          open,      \* the stack: those that have not ended
          root,      \* the last element outside all others that ended, 0 for none
          outcome,   \* "reading", "parsed" or the error
          read       \* Observation: the events so far

instanceVars == <<elements, open, root, outcome, read>>

-----------------------------------------------------------------------------
(* The tree. *)

(* local_name: what follows the last colon. *)
MutantLocalName(tag) == tag[1]

LocalName(tag) == tag[Len(tag)]

(* Node::attr: the value of the first attribute of that name. *)
HasAttr(i, key) == \E k \in DOMAIN elements[i].attrs : LocalName(elements[i].attrs[k].key) = key
Attr(i, key) ==
  LET k == CHOOSE n \in DOMAIN elements[i].attrs :
             /\ LocalName(elements[i].attrs[n].key) = key
             /\ \A m \in 1 .. n - 1 : LocalName(elements[i].attrs[m].key) # key
  IN elements[i].attrs[k].value

(* The children of an element with that name. *)
ChildrenNamed(i, name) ==
  {j \in DOMAIN elements : elements[j].parent = i /\ LocalName(elements[j].tag) = name}

(* Node::child: the first of them. *)
Child(i, name) == CHOOSE j \in ChildrenNamed(i, name) : \A k \in ChildrenNamed(i, name) : j <= k

IsWhite(text) == \A i \in DOMAIN text : text[i] = Space

-----------------------------------------------------------------------------
InstanceInit ==
  /\ elements = <<>>
  /\ open = <<>>
  /\ root = 0
  /\ outcome = "reading"
  /\ read = <<>>

Top == IF open = <<>> THEN 0 ELSE open[Len(open)]

Element(tag, attrs) ==
  [tag |-> tag, attrs |-> attrs, text |-> <<>>, parent |-> Top, depth |-> Len(open) + 1]

Reads(event) == outcome = "reading" /\ read' = Append(read, event)

Conclude(error) == outcome' = error /\ UNCHANGED <<elements, open, root>>

(* node_from: an attribute given twice is malformed. *)
Distinct(attrs) == \A i, j \in DOMAIN attrs : attrs[i].key = attrs[j].key => i = j

(* The depth is looked at when the element is on the stack. *)
StartElement(tag, attrs) ==
  /\ Reads([kind |-> "Start", tag |-> tag, attrs |-> attrs])
  /\ CASE Len(elements) >= MaxElements -> Conclude("TooLarge")
       [] Len(elements) < MaxElements /\ ~ Distinct(attrs) -> Conclude("Malformed")
       [] OTHER -> /\ elements' = Append(elements, Element(tag, attrs))
                   /\ open' = Append(open, Len(elements) + 1)
                   /\ outcome' = IF Len(open) >= MaxDepth THEN "TooDeep" ELSE "reading"
                   /\ UNCHANGED root

(* An element that is whole in one tag never is on the stack. *)
MutantEmptyElement(tag, attrs) ==
  /\ Reads([kind |-> "Empty", tag |-> tag, attrs |-> attrs])
  /\ IF ~ Distinct(attrs) THEN Conclude("Malformed")
     ELSE /\ elements' = Append(elements, Element(tag, attrs))
          /\ root' = IF open = <<>> THEN Len(elements) + 1 ELSE root
          /\ UNCHANGED <<open, outcome>>

EmptyElement(tag, attrs) ==
  /\ Reads([kind |-> "Empty", tag |-> tag, attrs |-> attrs])
  /\ CASE Len(elements) >= MaxElements -> Conclude("TooLarge")
       [] Len(elements) < MaxElements /\ ~ Distinct(attrs) -> Conclude("Malformed")
       [] OTHER -> /\ elements' = Append(elements, Element(tag, attrs))
                   /\ root' = IF open = <<>> THEN Len(elements) + 1 ELSE root
                   /\ UNCHANGED <<open, outcome>>

(* check_end_names: the reader refuses an end that is not the end of the   *)
(* element on top, or of none.                                             *)
EndElement(tag) ==
  /\ Reads([kind |-> "End", tag |-> tag])
  /\ IF open = <<>> \/ elements[Top].tag # tag THEN Conclude("Malformed")
     ELSE /\ open' = SubSeq(open, 1, Len(open) - 1)
          /\ root' = IF Len(open) = 1 THEN Top ELSE root
          /\ UNCHANGED <<elements, outcome>>

(* Text belongs to the element on top; outside all elements it is dropped. *)
MutantAddText(piece) ==
  /\ elements' = IF open = <<>> THEN elements ELSE [elements EXCEPT ![Top].text = <<piece>>]
  /\ UNCHANGED <<open, root, outcome>>

AddText(piece) ==
  /\ elements' = IF open = <<>> THEN elements
                 ELSE [elements EXCEPT ![Top].text = Append(@, piece)]
  /\ UNCHANGED <<open, root, outcome>>

(* Text and CDATA, in the encoding of the document. *)
Text(kind, piece) ==
  /\ Reads([kind |-> kind, piece |-> piece])
  /\ AddText(piece)

(* A reference stands for its character or is refused, wherever it is. *)
GeneralRef(name) ==
  /\ Reads([kind |-> "Ref", name |-> name])
  /\ IF name \notin DOMAIN Entities THEN Conclude("UnknownEntity")
     ELSE AddText(Entities[name])

DocType ==
  /\ Reads([kind |-> "DocType"])
  /\ Conclude("DocTypeRejected")

(* Comments, declarations and processing instructions. *)
Other ==
  /\ Reads([kind |-> "Other"])
  /\ UNCHANGED <<elements, open, root, outcome>>

(* What the reader cannot read, or the parser not decode. *)
Unreadable ==
  /\ Reads([kind |-> "Unreadable"])
  /\ Conclude("Malformed")

(* parse: of the root, the form it names and the instance its meta block   *)
(* identifies.                                                             *)
HasFormId == HasAttr(root, "id") /\ Attr(root, "id") \in FormIds

HasInstanceId ==
  /\ ChildrenNamed(root, "meta") # {}
  /\ LET meta == Child(root, "meta")
     IN /\ ChildrenNamed(meta, "instanceID") # {}
        /\ ~ IsWhite(elements[Child(meta, "instanceID")].text)

MutantEof ==
  /\ Reads([kind |-> "Eof"])
  /\ Conclude(CASE root = 0 -> "Malformed"
              [] root # 0 /\ ~ HasFormId -> "MissingFormId"
              [] root # 0 /\ HasFormId /\ ~ HasInstanceId -> "MissingInstanceId"
              [] OTHER -> "parsed")

Eof ==
  /\ Reads([kind |-> "Eof"])
  /\ Conclude(CASE open # <<>> \/ root = 0 -> "Malformed"
              [] open = <<>> /\ root # 0 /\ ~ HasFormId -> "MissingFormId"
              [] open = <<>> /\ root # 0 /\ HasFormId /\ ~ HasInstanceId -> "MissingInstanceId"
              [] OTHER -> "parsed")

(* Any event, with elements of these names and attributes. *)
EventOf(tags, attributes) ==
  \/ \E tag \in tags : \/ \E attrs \in attributes : \/ StartElement(tag, attrs)
                                                    \/ EmptyElement(tag, attrs)
                       \/ EndElement(tag)
  \/ \E kind \in {"Text", "CData"}, piece \in Pieces : Text(kind, piece)
  \/ \E name \in RefNames : GeneralRef(name)
  \/ DocType \/ Other \/ Unreadable \/ Eof

Event == EventOf(Tags, Attributes)

InstanceSpec == InstanceInit /\ [][Event]_instanceVars

-----------------------------------------------------------------------------
(* What a document says, as the sequence of its events: without a stack or *)
(* a tree.                                                                 *)

(* The marks of the tree. *)
MarkOf(event) == CASE event.kind = "Start" -> 1 [] event.kind = "End" -> -1 [] OTHER -> 0
TreeMarks(events) == [i \in DOMAIN events |-> MarkOf(events[i])]

(* The event of the element that event i is directly in, 0 for none. *)
Parent(events, i) == Encloser(TreeMarks(events), i)

(* The events of elements, in the order of the elements. *)
Begun(events) == {i \in DOMAIN events : events[i].kind \in {"Start", "Empty"}}
ElementEvents(events) == InOrder(Begun(events))

(* The pieces of text directly in the element event i starts. *)
Inside(events, i) ==
  {k \in DOMAIN events : events[k].kind \in {"Text", "CData", "Ref"} /\ Parent(events, k) = i}
PieceOf(event) == IF event.kind = "Ref" THEN Entities[event.name] ELSE event.piece
PiecesIn(events, i) ==
  LET inside == InOrder(Inside(events, i))
  IN [n \in DOMAIN inside |-> PieceOf(events[inside[n]])]

(* What may be read: an end of its own element, a reference to something. *)
EventFits(events, i) ==
  LET parent == Parent(events, i)
  IN /\ events[i].kind \notin {"DocType", "Unreadable"}
     /\ events[i].kind = "End" => parent # 0 /\ events[parent].tag = events[i].tag
     /\ events[i].kind = "Ref" => events[i].name \in DOMAIN Entities

(* Element k of a tree is what its event says, in the element that event   *)
(* is in.                                                                  *)
ElementFits(tree, events, k) ==
  LET i == ElementEvents(events)[k]
      parent == tree[k].parent
  IN /\ tree[k].tag = events[i].tag /\ tree[k].attrs = events[i].attrs
     /\ Parent(events, i) = IF parent = 0 THEN 0 ELSE ElementEvents(events)[parent]
     /\ tree[k].text = IF events[i].kind = "Empty" THEN <<>> ELSE PiecesIn(events, i)

-----------------------------------------------------------------------------
(* Properties. *)

(* Whatever the events, the stack is the chain of ancestors of what is     *)
(* read next, every element stands in one that started before it, one      *)
(* deeper, and the tree never outgrows the limits: no more than            *)
(* MAX_ELEMENTS, none deeper than MAX_DEPTH and an empty element below it  *)
(* (parse_tree, against documents made to exhaust it).                     *)
TreeShape ==
  /\ Len(elements) <= MaxElements
  /\ \A i \in DOMAIN elements :
       LET parent == elements[i].parent
       IN /\ parent \in 0 .. i - 1
          /\ elements[i].depth = IF parent = 0 THEN 1 ELSE elements[parent].depth + 1
          /\ elements[i].depth <= MaxDepth + 1
  /\ \A k \in DOMAIN open :
       /\ open[k] \in DOMAIN elements
       /\ elements[open[k]].parent = IF k = 1 THEN 0 ELSE open[k - 1]
  /\ root # 0 => root \in DOMAIN elements /\ elements[root].parent = 0
  /\ outcome = "parsed" => root # 0 /\ open = <<>>

(* "Deepest element nesting accepted" (MAX_DEPTH). *)
DeeperIsRefused == outcome = "parsed" => \A i \in DOMAIN elements : elements[i].depth <= MaxDepth

(* The tree of a parsed instance is that of its document: every element is *)
(* closed by an end of its own name and stands where the document has it,  *)
(* with the text directly inside it and no other, and nothing that was     *)
(* broken off, declared a DTD or named an unknown entity comes so far      *)
(* (parse_tree, whatever the client sends).                                *)
ParsedAsWritten ==
  outcome = "parsed" =>
    /\ Balanced(TreeMarks(read))
    /\ \A i \in DOMAIN read : EventFits(read, i)
    /\ Len(elements) = Len(ElementEvents(read))
    /\ \A k \in DOMAIN elements : ElementFits(elements, read, k)
    /\ root = Max({k \in DOMAIN elements : elements[k].parent = 0})
=============================================================================
