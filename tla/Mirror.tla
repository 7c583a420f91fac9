------------------------------- MODULE Mirror -------------------------------
(***************************************************************************)
(* What the forms pull promises a device: the forms it holds are exactly   *)
(* the forms that were live on the server at some moment, and that moment  *)
(* never moves back.                                                       *)
(***************************************************************************)
EXTENDS Naturals, Sequences

VARIABLES
    history,  \* the states the server's forms have gone through
    held,     \* the forms on the device
    asOf      \* the state the device has seen, as an index of history

vars == <<history, held, asOf>>

Init ==
    /\ Len(history) = 1
    /\ held = history[1]
    /\ asOf = 1

Change ==
    /\ Len(history') = Len(history) + 1
    /\ \A n \in 1 .. Len(history) : history'[n] = history[n]
    /\ UNCHANGED <<held, asOf>>

Refresh ==
    /\ asOf' \in asOf .. Len(history)
    /\ held' = history[asOf']
    /\ UNCHANGED history

Next == Change \/ Refresh

Spec == Init /\ [][Next]_vars
=============================================================================
