------------------------------ MODULE Delivery ------------------------------
(***************************************************************************)
(* What the offline queue promises its user: a submission that was queued  *)
(* stays queued until the server has taken it or the device gives up on    *)
(* it; it is reported delivered only when the server has taken it; and     *)
(* either report is final.                                                 *)
(***************************************************************************)
EXTENDS Naturals

CONSTANT Ids

VARIABLES
    phase,  \* what the device says of a submission
    taken   \* the submissions the server has taken

vars == <<phase, taken>>

Phases == {"new", "queued", "delivered", "given up"}

TypeOK == phase \in [Ids -> Phases] /\ taken \subseteq Ids

Init == phase = [id \in Ids |-> "new"] /\ taken = {}

\* The user's command returns: the submission is in the device's keeping.
Queue(id) ==
    /\ phase[id] = "new"
    /\ phase' = [phase EXCEPT ![id] = "queued"]
    /\ UNCHANGED taken

\* The server takes a submission, before any report of it to the device.
Take(id) ==
    /\ phase[id] # "new"
    /\ taken' = taken \cup {id}
    /\ UNCHANGED phase

\* One push reports on several submissions at once.
Report(delivered, abandoned) ==
    /\ delivered \subseteq taken
    /\ delivered \cap abandoned = {}
    /\ \A id \in delivered \cup abandoned : phase[id] = "queued"
    /\ phase' = [id \in Ids |-> IF id \in delivered THEN "delivered"
                                ELSE IF id \in abandoned THEN "given up"
                                ELSE phase[id]]
    /\ UNCHANGED taken

Next ==
    \/ \E id \in Ids : Queue(id) \/ Take(id)
    \/ \E delivered, abandoned \in SUBSET Ids : Report(delivered, abandoned)

Spec == Init /\ [][Next]_vars
=============================================================================
