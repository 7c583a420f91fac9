----------------------------- MODULE Conditions -----------------------------
(***************************************************************************)
(* Conditions: when a field is asked.  What a condition says of the        *)
(* answers of a submission, which relevant expressions the importer models *)
(* as conditions, and the comparison a bind carries for one.               *)
(*                                                                         *)
(* A text is a sequence of words: the code compares texts for equality,    *)
(* splits them on white space, parses them as numbers and matches their    *)
(* ends.  Lengths and patterns are counted in words.  A value is a record  *)
(* with the kind of FieldValue it is and the text it was made from, or the *)
(* rows of a repeat; the answers of a submission are a function from field *)
(* names to values.  A relevant expression is a sequence of comparisons    *)
(* that all have to hold; the empty sequence is no expression.             *)
(***************************************************************************)
EXTENDS Integers, Sequences, FiniteSets, SequencesExt

CONSTANT NumberOf  \* the number each numeric word is parsed as

ASSUME NumberOfAssumption == \A word \in DOMAIN NumberOf : NumberOf[word] \in Int

IsNumber(text) == Len(text) = 1 /\ text[1] \in DOMAIN NumberOf

ToNumber(text) == NumberOf[text[1]]

-----------------------------------------------------------------------------
(* Conditions. *)

(* The kinds an answer has no text for: field_text is None. *)
Textless == {"GeoPoint", "GeoTrace", "GeoShape", "Attachment", "Repeat", "Null"}

(* Mutant: several choices have no text to look in. *)
MutantHasText(value) == value.kind \notin Textless \cup {"MultiChoice"}

HasText(value) == value.kind \notin Textless

(* The text a condition compares: empty when the field is not answered. *)
TextOf(values, name) ==
  IF name \in DOMAIN values /\ HasText(values[name])
  THEN values[name].text ELSE <<>>

Evaluate(condition, values) ==
  LET text == TextOf(values, condition.field)
      expected == condition.value
      numbers == IsNumber(text) /\ IsNumber(expected)
  IN \/ condition.op = "Equals" /\ text = expected
     \/ condition.op = "NotEquals" /\ text # expected
     \/ condition.op = "GreaterThan" /\ numbers /\ ToNumber(text) > ToNumber(expected)
     \/ condition.op = "LessThan" /\ numbers /\ ToNumber(text) < ToNumber(expected)
     \/ condition.op = "Contains" /\ \E i \in DOMAIN text : expected = <<text[i]>>
     \/ /\ condition.op = "IsNotEmpty"
        /\ condition.field \in DOMAIN values
        /\ LET answer == values[condition.field]
           IN answer.kind # "Null" /\ (HasText(answer) => answer.text # <<>>)

(* A field is hidden when it has a condition and the condition fails. *)
Hidden(field, values) == \E c \in field.relevant : ~ Evaluate(c, values)

-----------------------------------------------------------------------------
(* Relevant expressions. *)

(* The comparisons the importer reads, and the operator of each. *)
ConditionOp ==
  [o \in {"=", "!=", ">", "<", "selected"} |->
     CASE o = "=" -> "Equals" [] o = "!=" -> "NotEquals" [] o = ">" -> "GreaterThan"
       [] o = "<" -> "LessThan" [] o = "selected" -> "Contains"]

(* parse_relevant: one comparison of a modelled shape becomes a condition; *)
(* a longer expression, >= and <= become none.                             *)
ParseRelevant(expression) ==
  {IF c.op = "!=" /\ c.value = <<>>
   THEN [op |-> "IsNotEmpty", field |-> c.field, value |-> <<>>]
   ELSE [op |-> ConditionOp[c.op], field |-> c.field, value |-> c.value]
   : c \in {k \in ToSet(expression) : /\ Len(expression) = 1
                                      /\ k.op \in DOMAIN ConditionOp
                                      /\ k.op \in {">", "<"} => IsNumber(k.value)}}

(* condition_expression: a condition as the comparison its bind carries. *)
ConditionExpression(condition) ==
  IF condition.op = "IsNotEmpty"
  THEN [op |-> "!=", field |-> condition.field, value |-> <<>>]
  ELSE [op |-> CHOOSE o \in DOMAIN ConditionOp : ConditionOp[o] = condition.op,
        field |-> condition.field, value |-> condition.value]
=============================================================================
