------------------------------- MODULE Nesting ------------------------------
(***************************************************************************)
(* What brackets in a sequence enclose, said without a stack: the measure  *)
(* that readers which keep a stack are held to.  Of a sequence of marks, 1 *)
(* opens, -1 closes and 0 does neither.                                    *)
(***************************************************************************)
EXTENDS Integers, Sequences, FiniteSetsExt

(* How many brackets are open after the first i marks. *)
Depth(marks, i) ==
  Cardinality({k \in 1 .. i : marks[k] = 1}) - Cardinality({k \in 1 .. i : marks[k] = -1})

Balanced(marks) ==
  /\ \A i \in DOMAIN marks : Depth(marks, i) >= 0
  /\ Depth(marks, Len(marks)) = 0

(* The opening brackets before position i that are not closed before it. *)
Around(marks, i) ==
  {j \in 1 .. i - 1 : marks[j] = 1 /\ \A k \in j .. i - 1 : Depth(marks, k) >= Depth(marks, j)}

(* The opening bracket of the innermost pair around position i, or the one *)
(* that a closing bracket at i closes; 0 if there is none.                 *)
Encloser(marks, i) == Max({0} \cup Around(marks, i))

(* The numbers of a finite set, in their order. *)
InOrder(numbers) ==
  [k \in 1 .. Cardinality(numbers) |->
     CHOOSE i \in numbers : Cardinality({j \in numbers : j <= i}) = k]
=============================================================================
