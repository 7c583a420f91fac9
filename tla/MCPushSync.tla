----------------------------- MODULE MCPushSync -----------------------------
(* Small instances of PushSync: every submission under one form, all of    *)
(* them acceptable to it but, in OneInvalid, one.                          *)
EXTENDS PushSync

OneForm == [id \in Ids |-> CHOOSE f \in Forms : TRUE]
AllValid == Ids
OneInvalid == Ids \ {CHOOSE id \in Ids : TRUE}
=============================================================================
