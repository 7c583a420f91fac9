----------------------------- MODULE Validation -----------------------------
(***************************************************************************)
(* The form model and the validation engine of collecta-core: which errors *)
(* the engine finds in the answers of a submission.                        *)
(***************************************************************************)
EXTENDS Conditions

CONSTANT MaxNesting  \* bound: how deep repeats may stand in each other

ASSUME MaxNestingAssumption == MaxNesting \in Nat \ {0}

-----------------------------------------------------------------------------
(* Constraints. *)

Matches(pattern, text) ==
  \/ pattern.star = "leading" /\ IsSuffix(pattern.rest, text)
  \/ pattern.star = "trailing" /\ IsPrefix(pattern.rest, text)
  \/ pattern.star = "none" /\ pattern.rest = text

(* check_constraint: a constraint says nothing of a value of another kind. *)
Violates(value, constraint) ==
  LET numeric == value.kind \in {"Integer", "Decimal"}
      textual == value.kind = "Text"
      bound == constraint.bound
  IN \/ constraint.kind = "Min" /\ numeric /\ ToNumber(value.text) < bound
     \/ constraint.kind = "Max" /\ numeric /\ ToNumber(value.text) > bound
     \/ constraint.kind = "MinLength" /\ textual /\ Len(value.text) < bound
     \/ constraint.kind = "MaxLength" /\ textual /\ Len(value.text) > bound
     \/ constraint.kind = "Pattern" /\ textual /\ ~ Matches(bound, value.text)
     \/ /\ constraint.kind = "OneOf"
        /\ textual \/ value.kind = "Choice"
        /\ \A word \in bound : value.text # <<word>>

-----------------------------------------------------------------------------
(* The engine. *)

(* Mutant: an empty answer counts. *)
MutantUnanswered(values, name) == name \notin DOMAIN values

(* None, Null and an empty text are no answer to a required question. *)
Unanswered(values, name) ==
  \/ name \notin DOMAIN values
  \/ values[name].kind = "Null"
  \/ values[name].kind = "Text" /\ values[name].text = <<>>

(* Some answers, and those of the others that are not among them. *)
Over(answers, others) ==
  [name \in DOMAIN answers \cup DOMAIN others |->
     IF name \in DOMAIN answers THEN answers[name] ELSE others[name]]

(* What a child of a repeat reads: its own row first, then what is outside. *)
Scope(row, outer) == Over(row, outer)

Broken(error, path) == [error |-> error, path |-> path]

Names(fields) == {fields[i].name : i \in DOMAIN fields}

(* What validate_field recurses into: the submission or a row of a repeat, *)
(* with the values its fields read (scope) and those that are its own.     *)
Level(fields, scope, own, path) ==
  [fields |-> fields, scope |-> scope, own |-> own, path |-> path]

(* validate_instances: the rows of the repeats of a level. *)
RowLevels(level) ==
  UNION {LET rows == level.scope[f.name].rows
         IN {Level(f.children, Scope(rows[i], level.scope), rows[i], level.path \o <<f.name, i>>)
             : i \in DOMAIN rows}
         : f \in {g \in ToSet(level.fields) :
                    /\ g.type = "Repeat" /\ ~ Hidden(g, level.scope)
                    /\ g.name \in DOMAIN level.scope /\ level.scope[g.name].kind = "Repeat"}}

Levels(fields, values) ==
  LET Deep[n \in 0 .. MaxNesting] ==
        IF n = 0 THEN {Level(fields, values, values, <<>>)}
        ELSE UNION {RowLevels(level) : level \in Deep[n - 1]}
  IN UNION {Deep[n] : n \in 0 .. MaxNesting}

(* The keys that no field of the form, or of the repeat, declares. *)
UnknownKeys(level) ==
  {Broken("UnknownField", Append(level.path, name)) : name \in DOMAIN level.own \ Names(level.fields)}

(* validate_field, of a question. *)
FieldErrors(field, level) ==
  LET here == Append(level.path, field.name)
      values == level.scope
  IN IF Hidden(field, values) THEN {}
     ELSE IF field.required /\ Unanswered(values, field.name) THEN {Broken("RequiredField", here)}
     ELSE IF field.name \in DOMAIN values /\ values[field.name].kind # "Null" THEN
       {Broken("ValidationFailed", here) : c \in {k \in field.constraints : Violates(values[field.name], k)}}
     ELSE {}

Questions(fields) == {f \in ToSet(fields) : f.type # "Repeat"}

Validate(fields, values) ==
  UNION {UnknownKeys(level) \cup UNION {FieldErrors(f, level) : f \in Questions(level.fields)}
         : level \in Levels(fields, values)}
=============================================================================
