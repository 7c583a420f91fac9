----------------------------- MODULE MCFormPull -----------------------------
(* Small instances of FormPull.                                            *)
EXTENDS FormPull

Strict == {1}    \* no two readings of the clock are equal
Loose == {0, 1}  \* writes may share a microsecond
=============================================================================
