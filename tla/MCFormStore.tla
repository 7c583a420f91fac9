---------------------------- MODULE MCFormStore ----------------------------
EXTENDS FormStore, TLC

CONSTANTS a, e, v, x, f1, f2

MCRoleOf ==
    [u \in Accounts |-> CASE u = a -> "admin" [] u = e -> "editor" [] OTHER -> "viewer"]

\* Nothing tells one form, or one handler, from another.
Alike == Permutations(Forms) \cup Permutations(Slots)
=============================================================================
