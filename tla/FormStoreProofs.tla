-------------------------- MODULE FormStoreProofs --------------------------
(***************************************************************************)
(* Theorems about FormStore, for any forms, submissions and accounts and   *)
(* any number of handlers at work at once.                                 *)
(*                                                                         *)
(* What makes the two-statement handlers safe is that the creator of a form*)
(* never changes: a gate passed once stays passed.  Cleared is that fact,  *)
(* and the inductive part of everything said of owners below.              *)
(***************************************************************************)
EXTENDS FormStore, TLAPS

\* A handler past the gate of an owner's operation serves an owner.
Cleared ==
    \A h \in Slots :
        /\ handler[h].step = "act" /\ handler[h].request.op \in OwnerOps
              => Owns(handler[h].request.caller, handler[h].request.form)
        /\ handler[h].step = "user"
              => /\ handler[h].request.op = "create_grant"
                 /\ Owns(handler[h].request.caller, handler[h].request.form)
        /\ handler[h].step = "act" /\ handler[h].request.op = "create_grant"
              => handler[h].request.arg \in Accounts

\* A form some handler looked up exists, live or as a tombstone.
Found ==
    \A h \in Slots :
        handler[h].step \in {"act", "user", "grant"} => state[handler[h].request.form] # "absent"

Sound == TypeOK /\ Cleared /\ Found

-----------------------------------------------------------------------------

\* A handler in a request of an account about a form, as Requests has it.
LEMMA RequestType ==
    ASSUME TypeOK, NEW h \in Slots, handler[h] # Free
    PROVE  /\ handler[h] \in [step : {"gate", "grant", "user", "act"}, request : Requests]
           /\ handler[h].request \in Requests
           /\ handler[h].request.form \in Forms
           /\ handler[h].request.caller \in Accounts
           /\ handler[h].step # "free"
BY DEF TypeOK, Requests

\* A handler at some step is at work.
LEMMA AtIsBusy ==
    ASSUME NEW h \in Slots, NEW step, NEW ops, At(h, step, ops), step # "free"
    PROVE  handler[h] # Free /\ handler[h].step = step /\ handler[h].request.op \in ops
BY DEF At, Free

LEMMA InitSound == Init => Sound
<1> SUFFICES ASSUME Init PROVE Sound
  OBVIOUS
<1>1. PICK upgraded \in SUBSET Forms :
        /\ state = [f \in Forms |-> IF f \in upgraded THEN "live" ELSE "absent"]
        /\ creator = [f \in Forms |-> IF f \in upgraded THEN Legacy ELSE Nothing]
  BY DEF Init
<1>2. /\ state \in [Forms -> {"absent", "live", "deleted"}]
      /\ creator \in [Forms -> Accounts \cup {Legacy, Nothing}]
      /\ \A f \in Forms : creator[f] = Nothing <=> state[f] = "absent"
  BY <1>1, StoreAssumption
<1>3. TypeOK
  BY <1>2 DEF Init, TypeOK
<1>4. Cleared /\ Found
  BY DEF Init, Cleared, Found, Free
<1> QED
  BY <1>3, <1>4 DEF Sound

\* A handler goes on with its request, or is done; creators stay, and no row of
\* the forms table goes away.
LEMMA HandlerMoves ==
    ASSUME Sound, NEW h \in Slots, UNCHANGED creator,
           \A f \in Forms : state[f] # "absent" => state'[f] # "absent",
           NEW new, handler' = [handler EXCEPT ![h] = new],
           \/ new = Free
           \/ /\ new \in [step : {"gate", "grant", "user", "act"}, request : Requests]
              /\ new.step # "gate" => state[new.request.form] # "absent"
              /\ new.step = "act" /\ new.request.op \in OwnerOps
                    => Owns(new.request.caller, new.request.form)
              /\ new.step = "user"
                    => /\ new.request.op = "create_grant"
                       /\ Owns(new.request.caller, new.request.form)
              /\ new.step = "act" /\ new.request.op = "create_grant"
                    => new.request.arg \in Accounts
    PROVE  /\ handler' \in [Slots -> {Free} \cup [step : {"gate", "grant", "user", "act"}, request : Requests]]
           /\ Cleared' /\ Found'
<1>1. handler \in [Slots -> {Free} \cup [step : {"gate", "grant", "user", "act"}, request : Requests]]
  BY DEF Sound, TypeOK
<1>2. handler' \in [Slots -> {Free} \cup [step : {"gate", "grant", "user", "act"}, request : Requests]]
  BY <1>1
<1>3. \A u, f : Owns(u, f)' <=> Owns(u, f)
  BY DEF Owns
<1>4. \A i \in Slots : handler'[i] = IF i = h THEN new ELSE handler[i]
  BY <1>1
<1>5. Cleared'
  BY <1>3, <1>4 DEF Cleared, Sound, Free
<1>6. \A i \in Slots : i # h /\ handler'[i].step \in {"act", "user", "grant"}
        => state'[handler'[i].request.form] # "absent"
  <2> SUFFICES ASSUME NEW i \in Slots, i # h, handler[i].step \in {"act", "user", "grant"}
               PROVE  state'[handler[i].request.form] # "absent"
    BY <1>4
  <2>1. handler[i] # Free
    BY DEF Free
  <2> QED
    BY <2>1, RequestType DEF Sound, Found
<1>7. handler'[h].step \in {"act", "user", "grant"} => state'[handler'[h].request.form] # "absent"
  BY <1>4 DEF Free, Requests
<1>8. Found'
  BY <1>6, <1>7 DEF Found
<1> QED
  BY <1>2, <1>5, <1>8

\* The forms change, and no handler moves: creators stay what they were.
LEMMA StoreFormSound ==
    ASSUME Sound, NEW u \in Accounts, NEW f \in Forms, StoreForm(u, f)
    PROVE  Sound'
<1>1. /\ state' = [state EXCEPT ![f] = "live"]
      /\ creator' = IF state[f] = "absent" THEN [creator EXCEPT ![f] = u] ELSE creator
      /\ UNCHANGED <<rows, grants, handler, shared>>
  BY DEF StoreForm, InsertForm
<1>2. TypeOK
  BY DEF Sound
<1>3. TypeOK'
  BY <1>1, <1>2, StoreAssumption DEF TypeOK
<1>4. \A g \in Forms : state[g] # "absent" => state'[g] # "absent" /\ creator'[g] = creator[g]
  BY <1>1, <1>2 DEF TypeOK
<1>5. \A h \in Slots : handler[h].step \in {"act", "user", "grant"}
        => handler[h].request.form \in Forms /\ state[handler[h].request.form] # "absent"
  <2> TAKE h \in Slots
  <2> HAVE handler[h].step \in {"act", "user", "grant"}
  <2>1. handler[h] # Free
    BY DEF Free
  <2> QED
    BY <1>2, <2>1, RequestType DEF Sound, Found
<1>6. Cleared'
  BY <1>1, <1>4, <1>5 DEF Cleared, Sound, Owns
<1>7. Found'
  BY <1>1, <1>4, <1>5 DEF Found
<1> QED
  BY <1>3, <1>6, <1>7 DEF Sound

LEMMA ArriveSound ==
    ASSUME Sound, NEW h \in Slots, NEW r \in Requests, Arrive(h, r)
    PROVE  Sound'
<1> DEFINE new == [step |-> "gate", request |-> r]
<1>1. handler' = [handler EXCEPT ![h] = new] /\ UNCHANGED <<state, creator, rows, grants, shared>>
  BY DEF Arrive
<1>2. /\ new \in [step : {"gate", "grant", "user", "act"}, request : Requests]
      /\ new.step = "gate"
  OBVIOUS
<1> HIDE DEF new
<1>3. /\ handler' \in [Slots -> {Free} \cup [step : {"gate", "grant", "user", "act"}, request : Requests]]
      /\ Cleared' /\ Found'
  BY <1>1, <1>2, HandlerMoves
<1> QED
  BY <1>1, <1>3 DEF Sound, TypeOK

\* What an answered request leaves behind.
LEMMA ReturnSound ==
    ASSUME Sound, NEW h \in Slots, Return(h), UNCHANGED creator,
           \A f \in Forms : state[f] # "absent" => state'[f] # "absent"
    PROVE  /\ handler' \in [Slots -> {Free} \cup [step : {"gate", "grant", "user", "act"}, request : Requests]]
           /\ Cleared' /\ Found'
BY HandlerMoves DEF Return

\* What a question answered with yes leaves behind.
LEMMA GotoSound ==
    ASSUME Sound, NEW h \in Slots, handler[h] # Free, UNCHANGED <<state, creator>>,
           NEW step \in {"grant", "user", "act"}, Goto(h, step),
           state[handler[h].request.form] # "absent",
           step = "act" /\ handler[h].request.op \in OwnerOps
              => Owns(handler[h].request.caller, handler[h].request.form),
           step = "user" => /\ handler[h].request.op = "create_grant"
                            /\ Owns(handler[h].request.caller, handler[h].request.form),
           step = "act" /\ handler[h].request.op = "create_grant"
              => handler[h].request.arg \in Accounts
    PROVE  /\ handler' \in [Slots -> {Free} \cup [step : {"gate", "grant", "user", "act"}, request : Requests]]
           /\ Cleared' /\ Found'
<1> DEFINE new == [step |-> step, request |-> handler[h].request]
<1>1. handler' = [handler EXCEPT ![h] = new]
  BY DEF Goto
<1>2. handler[h].request \in Requests
  BY RequestType DEF Sound
<1>3. /\ new \in [step : {"gate", "grant", "user", "act"}, request : Requests]
      /\ new.step = step /\ new.request = handler[h].request
  BY <1>2
<1> HIDE DEF new
<1> QED
  BY <1>1, <1>3, HandlerMoves

\* The questions asked before a handler acts; none of them changes a table.
LEMMA QuestionSound ==
    ASSUME Sound, NEW h \in Slots,
           LookUpForm(h) \/ RequireOwner(h) \/ RequireRead(h) \/ HasGrant(h) \/ UserExists(h)
    PROVE  Sound'
<1>1. UNCHANGED <<state, creator, rows, grants, shared>>
  BY DEF LookUpForm, RequireOwner, RequireRead, HasGrant, UserExists
<1> DEFINE Kept == /\ handler' \in [Slots -> {Free} \cup [step : {"gate", "grant", "user", "act"}, request : Requests]]
                   /\ Cleared' /\ Found'
<1> SUFFICES Kept
  BY <1>1 DEF Sound, TypeOK
<1>2. handler[h] # Free
  BY AtIsBusy DEF LookUpForm, RequireOwner, RequireRead, HasGrant, UserExists
<1>3. Return(h) => Kept
  BY <1>1, ReturnSound
<1>4. CASE LookUpForm(h)
  <2>1. CASE state[handler[h].request.form] = "live" /\ Goto(h, "act")
    <3>1. handler[h].request.op \notin OwnerOps /\ handler[h].request.op # "create_grant"
      BY <1>4 DEF LookUpForm, At, FilingOps, OwnerOps
    <3> QED
      BY <1>1, <1>2, <2>1, <3>1, GotoSound
  <2> QED
    BY <1>3, <1>4, <2>1 DEF LookUpForm
<1>5. CASE RequireOwner(h)
  <2>1. CASE Owned(h)
    <3>1. /\ state[handler[h].request.form] # "absent"
          /\ Owns(handler[h].request.caller, handler[h].request.form)
      BY <2>1 DEF Owned
    <3>2. CASE handler[h].request.op = "create_grant"
      <4>1. Goto(h, "user")
        BY <1>5, <2>1, <3>2 DEF RequireOwner
      <4> QED
        BY <1>1, <1>2, <3>1, <3>2, <4>1, GotoSound
    <3>3. CASE handler[h].request.op # "create_grant"
      <4>1. Goto(h, "act")
        BY <1>5, <2>1, <3>3 DEF RequireOwner
      <4> QED
        BY <1>1, <1>2, <3>1, <3>3, <4>1, GotoSound
    <3> QED
      BY <3>2, <3>3
  <2> QED
    BY <1>3, <1>5, <2>1 DEF RequireOwner
<1>6. CASE RequireRead(h)
  <2>0. handler[h].request.op \notin OwnerOps /\ handler[h].request.op # "create_grant"
    BY <1>6 DEF RequireRead, At, ReadOps, OwnerOps
  <2>1. CASE Owned(h)
    <3>1. Goto(h, "act") /\ state[handler[h].request.form] # "absent"
      BY <1>6, <2>1 DEF RequireRead, Owned
    <3> QED
      BY <1>1, <1>2, <2>0, <3>1, GotoSound
  <2>2. CASE ~Owned(h) /\ state[handler[h].request.form] = "live"
    <3>1. Goto(h, "grant")
      BY <1>6, <2>2 DEF RequireRead
    <3> QED
      BY <1>1, <1>2, <2>2, <3>1, GotoSound
  <2> QED
    BY <1>3, <1>6, <2>1, <2>2 DEF RequireRead
<1>7. CASE HasGrant(h)
  <2>0. handler[h].request.op \notin OwnerOps /\ handler[h].request.op # "create_grant"
    BY <1>7 DEF HasGrant, At, ReadOps, OwnerOps
  <2>1. state[handler[h].request.form] # "absent"
    BY <1>7 DEF HasGrant, At, Sound, Found
  <2>2. CASE HoldsGrant(handler[h].request.form, handler[h].request.caller)
    <3>1. Goto(h, "act")
      BY <1>7, <2>2 DEF HasGrant
    <3> QED
      BY <1>1, <1>2, <2>0, <2>1, <3>1, GotoSound
  <2> QED
    BY <1>3, <1>7, <2>2 DEF HasGrant
<1>8. CASE UserExists(h)
  <2>1. /\ state[handler[h].request.form] # "absent"
        /\ Owns(handler[h].request.caller, handler[h].request.form)
    BY <1>8 DEF UserExists, At, Sound, Found, Cleared
  <2>2. CASE IsAccount(handler[h].request.arg)
    <3>1. Goto(h, "act") /\ handler[h].request.arg \in Accounts
      BY <1>8, <2>2 DEF UserExists, IsAccount
    <3> QED
      BY <1>1, <1>2, <2>1, <3>1, GotoSound
  <2> QED
    BY <1>3, <1>8, <2>2 DEF UserExists
<1> QED
  BY <1>4, <1>5, <1>6, <1>7, <1>8

\* What a handler past its gate does to the tables.
LEMMA ActSound ==
    ASSUME Sound, NEW h \in Slots,
           \/ InsertSubmission(h) \/ DeleteForm(h) \/ DeleteSubmission(h)
           \/ GrantForm(h) \/ RevokeForm(h) \/ Serve(h) \/ HandlerFails(h)
    PROVE  Sound'
<1>1. handler[h] # Free /\ Return(h) /\ UNCHANGED creator
  BY AtIsBusy DEF InsertSubmission, DeleteForm, DeleteSubmission, GrantForm, RevokeForm, Serve, HandlerFails
<1> DEFINE r == handler[h].request
<1>2. /\ r \in Requests /\ r.form \in Forms /\ r.caller \in Accounts
      /\ r.arg \in Submissions \cup Grantees \cup {Nothing}
  BY <1>1, RequestType DEF Sound, Requests
<1>3. TypeOK
  BY DEF Sound
<1>4. /\ state' \in [Forms -> {"absent", "live", "deleted"}]
      /\ \A f \in Forms : (state'[f] = "absent") <=> (state[f] = "absent")
  <2>1. CASE DeleteForm(h)
    <3>1. state' = [state EXCEPT ![r.form] = "deleted"] /\ state[r.form] # "absent"
      BY <2>1 DEF DeleteForm, At, Sound, Found
    <3> QED
      BY <1>2, <1>3, <3>1 DEF TypeOK
  <2>2. CASE UNCHANGED state
    BY <1>3, <2>2 DEF TypeOK
  <2> QED
    BY <2>1, <2>2 DEF InsertSubmission, DeleteSubmission, GrantForm, RevokeForm, Serve, HandlerFails
<1>5. /\ handler' \in [Slots -> {Free} \cup [step : {"gate", "grant", "user", "act"}, request : Requests]]
      /\ Cleared' /\ Found'
  BY <1>1, <1>4, ReturnSound
<1>6. rows' \in [Submissions -> Row \cup {NoRow}]
  <2>1. rows \in [Submissions -> Row \cup {NoRow}] /\ [form |-> r.form, collector |-> r.caller] \in Row
    BY <1>2, <1>3 DEF TypeOK, Row
  <2>2. CASE InsertSubmission(h)
    BY <2>1, <2>2 DEF InsertSubmission, File
  <2>3. CASE DeleteForm(h)
    BY <2>1, <2>3 DEF DeleteForm, RowsAfterDelete
  <2>4. CASE DeleteSubmission(h)
    BY <2>1, <2>4 DEF DeleteSubmission
  <2>5. CASE UNCHANGED rows
    BY <2>1, <2>5
  <2> QED
    BY <2>2, <2>3, <2>4, <2>5 DEF GrantForm, RevokeForm, Serve, HandlerFails
<1>7. grants' \subseteq Forms \X Accounts /\ shared' \subseteq Forms \X Accounts
  <2>1. grants \subseteq Forms \X Accounts /\ shared \subseteq Forms \X Accounts
    BY <1>3 DEF TypeOK
  <2>2. CASE GrantForm(h)
    <3>1. r.arg \in Accounts
      BY <2>2 DEF GrantForm, At, Sound, Cleared
    <3> QED
      BY <1>2, <2>1, <2>2, <3>1 DEF GrantForm
  <2>3. CASE ~GrantForm(h)
    <3>1. grants' \subseteq grants /\ shared' \subseteq shared
      BY <2>3 DEF InsertSubmission, DeleteForm, DeleteSubmission, RevokeForm, Serve, HandlerFails,
         GrantsAfterDelete
    <3> QED
      BY <2>1, <3>1
  <2> QED
    BY <2>2, <2>3
<1>8. TypeOK'
  BY <1>1, <1>3, <1>4, <1>5, <1>6, <1>7 DEF TypeOK
<1> QED
  BY <1>5, <1>8 DEF Sound

LEMMA StepSound == Sound /\ [Next]_vars => Sound'
<1> SUFFICES ASSUME Sound, [Next]_vars PROVE Sound'
  OBVIOUS
<1>1. CASE UNCHANGED vars
  BY <1>1 DEF vars, Sound, TypeOK, Cleared, Found, Owns
<1>2. ASSUME NEW u \in Accounts, NEW f \in Forms, StoreForm(u, f) PROVE Sound'
  BY <1>2, StoreFormSound
<1>3. ASSUME NEW h \in Slots, NEW r \in Requests, Arrive(h, r) PROVE Sound'
  BY <1>3, ArriveSound
<1>4. ASSUME NEW h \in Slots,
             LookUpForm(h) \/ RequireOwner(h) \/ RequireRead(h) \/ HasGrant(h) \/ UserExists(h)
      PROVE  Sound'
  BY <1>4, QuestionSound
<1>5. ASSUME NEW h \in Slots,
             \/ InsertSubmission(h) \/ DeleteForm(h) \/ DeleteSubmission(h)
             \/ GrantForm(h) \/ RevokeForm(h) \/ Serve(h) \/ HandlerFails(h)
      PROVE  Sound'
  BY <1>5, ActSound
<1> QED
  BY <1>1, <1>2, <1>3, <1>4, <1>5 DEF Next

LEMMA AlwaysSound == Spec => []Sound
BY InitSound, StepSound, PTL DEF Spec

-----------------------------------------------------------------------------

\* Types of the tables and the handlers, for any instance: in particular every
\* grant names an account, though the question and the insert are apart.
THEOREM TypeCorrect == Spec => []TypeOK
<1>1. Sound => TypeOK
  BY DEF Sound
<1> QED
  BY <1>1, AlwaysSound, PTL

\* The creator of a form never changes: what makes a gate passed stay passed.
THEOREM CreatorsStay == Spec => CreatorIsForever
<1> DEFINE Stays == \A f \in Forms :
        state[f] # "absent" => state'[f] # "absent" /\ creator'[f] = creator[f]
<1>1. Sound /\ [Next]_vars => [Stays]_vars
  <2> SUFFICES ASSUME Sound, Next, NEW f \in Forms, state[f] # "absent"
               PROVE  state'[f] # "absent" /\ creator'[f] = creator[f]
    OBVIOUS
  <2>1. state \in [Forms -> {"absent", "live", "deleted"}]
    BY DEF Sound, TypeOK
  <2>2. ASSUME NEW u \in Accounts, NEW g \in Forms, StoreForm(u, g)
        PROVE  state'[f] # "absent" /\ creator'[f] = creator[f]
    BY <2>1, <2>2 DEF StoreForm, InsertForm, Sound, TypeOK
  <2>3. ASSUME NEW h \in Slots, DeleteForm(h)
        PROVE  state'[f] # "absent" /\ creator'[f] = creator[f]
    BY <2>1, <2>3 DEF DeleteForm
  <2>4. CASE UNCHANGED <<state, creator>>
    BY <2>4
  <2> QED
    BY <2>2, <2>3, <2>4 DEF Next, Arrive, LookUpForm, RequireOwner, RequireRead, HasGrant,
       UserExists, InsertSubmission, DeleteSubmission, GrantForm, RevokeForm, Serve, HandlerFails
<1> QED
  BY <1>1, AlwaysSound, PTL DEF Spec, CreatorIsForever

\* No form, submission or grant is taken away, and nothing is shared, but by a
\* handler whose caller owns the form in that very step.
THEOREM OwnersOnly == Spec => OnlyOwnersDestroy
<1> DEFINE Touched(f) == \/ state[f] = "live" /\ state'[f] # "live"
                         \/ \E s \in RowsOf(f) : rows'[s] # rows[s]
                         \/ {g \in grants' : g[1] = f} # GrantsOn(f)
           ByOwner(f) == \E h \in Slots :
                            /\ handler[h].step = "act" /\ handler'[h] = Free
                            /\ handler[h].request.form = f
                            /\ Owns(handler[h].request.caller, f)
           Allowed == \A f \in Forms : Touched(f) => ByOwner(f)
<1>1. Sound /\ [Next]_vars => [Allowed]_vars
  <2> SUFFICES ASSUME Sound, Next, NEW f \in Forms, Touched(f)
               PROVE  ByOwner(f)
    OBVIOUS
  <2>0. TypeOK
    BY DEF Sound
  <2>1. ASSUME NEW h \in Slots, handler[h].step = "act", handler[h].request.op \in OwnerOps,
               Return(h), handler[h].request.form = f
        PROVE  ByOwner(f)
    <3>1. Owns(handler[h].request.caller, f)
      BY <2>1 DEF Sound, Cleared
    <3>2. handler'[h] = Free
      BY <2>0, <2>1 DEF Return, TypeOK
    <3> QED
      BY <2>1, <3>1, <3>2
  <2>2. ASSUME NEW u \in Accounts, NEW g \in Forms, StoreForm(u, g) PROVE FALSE
    <3>1. UNCHANGED <<rows, grants>> /\ state' = [state EXCEPT ![g] = "live"]
      BY <2>2 DEF StoreForm, InsertForm
    <3>2. state'[f] = "live" \/ state'[f] = state[f]
      BY <2>0, <3>1 DEF TypeOK
    <3> QED
      BY <3>1, <3>2 DEF GrantsOn
  <2>3. ASSUME NEW h \in Slots, InsertSubmission(h) PROVE FALSE
    <3>1. UNCHANGED <<state, grants>>
      BY <2>3 DEF InsertSubmission
    <3>2. PICK s \in RowsOf(f) : rows'[s] # rows[s]
      BY <3>1 DEF GrantsOn
    <3>3. rows[s] # NoRow /\ s \in Submissions
      BY <3>2, StoreAssumption DEF RowsOf, NoRow
    <3> QED
      BY <2>0, <2>3, <3>2, <3>3 DEF InsertSubmission, File, TypeOK
  <2>4. ASSUME NEW h \in Slots, DeleteForm(h) PROVE ByOwner(f)
    <3>1. handler[h].step = "act" /\ handler[h].request.op \in OwnerOps /\ Return(h)
      BY <2>4 DEF DeleteForm, At, OwnerOps
    <3>2. handler[h].request.form = f
      <4> SUFFICES ASSUME handler[h].request.form # f PROVE FALSE
        OBVIOUS
      <4>1. state'[f] = state[f]
        BY <2>0, <2>4 DEF DeleteForm, TypeOK
      <4>2. \A s \in RowsOf(f) : rows'[s] = rows[s]
        BY <2>4 DEF DeleteForm, RowsAfterDelete, RowsOf
      <4>3. {g \in grants' : g[1] = f} = GrantsOn(f)
        BY <2>4 DEF DeleteForm, GrantsAfterDelete, GrantsOn
      <4> QED
        BY <4>1, <4>2, <4>3
    <3> QED
      BY <2>1, <3>1, <3>2
  <2>5. ASSUME NEW h \in Slots, DeleteSubmission(h) PROVE ByOwner(f)
    <3>1. /\ handler[h].step = "act" /\ handler[h].request.op \in OwnerOps /\ Return(h)
          /\ UNCHANGED <<state, grants>>
      BY <2>5 DEF DeleteSubmission, At, OwnerOps
    <3>2. PICK s \in RowsOf(f) : rows'[s] # rows[s]
      BY <3>1 DEF GrantsOn
    <3>3. handler[h].request.form = f
      BY <2>0, <2>5, <3>2 DEF DeleteSubmission, Matches, RowsOf, TypeOK
    <3> QED
      BY <2>1, <3>1, <3>3
  <2>6. ASSUME NEW h \in Slots, GrantForm(h) \/ RevokeForm(h) PROVE ByOwner(f)
    <3>1. /\ handler[h].step = "act" /\ handler[h].request.op \in OwnerOps /\ Return(h)
          /\ UNCHANGED <<state, rows>>
      BY <2>6 DEF GrantForm, RevokeForm, At, OwnerOps
    <3>2. {g \in grants' : g[1] = f} # GrantsOn(f)
      BY <3>1
    <3>3. handler[h].request.form = f
      BY <2>6, <3>2 DEF GrantForm, RevokeForm, GrantsOn
    <3> QED
      BY <2>1, <3>1, <3>3
  <2>7. CASE UNCHANGED <<state, rows, grants>>
    BY <2>7 DEF GrantsOn
  <2> QED
    BY <2>2, <2>3, <2>4, <2>5, <2>6, <2>7 DEF Next, Arrive, LookUpForm, RequireOwner, RequireRead,
       HasGrant, UserExists, Serve, HandlerFails
<1> QED
  BY <1>1, AlwaysSound, PTL DEF Spec, OnlyOwnersDestroy

\* A submission on file stays as it was filed until it is deleted.
THEOREM RowsStay == Spec => RowsStayPut
<1> DEFINE Stay == \A s \in Submissions : rows[s] # NoRow => rows'[s] \in {rows[s], NoRow}
<1>1. Sound /\ [Next]_vars => [Stay]_vars
  <2> SUFFICES ASSUME Sound, Next, NEW s \in Submissions, rows[s] # NoRow
               PROVE  rows'[s] \in {rows[s], NoRow}
    OBVIOUS
  <2>0. rows \in [Submissions -> Row \cup {NoRow}]
    BY DEF Sound, TypeOK
  <2>1. ASSUME NEW h \in Slots, InsertSubmission(h) PROVE rows'[s] = rows[s]
    BY <2>0, <2>1 DEF InsertSubmission, File
  <2>2. ASSUME NEW h \in Slots, DeleteForm(h) PROVE rows'[s] \in {rows[s], NoRow}
    BY <2>0, <2>2 DEF DeleteForm, RowsAfterDelete
  <2>3. ASSUME NEW h \in Slots, DeleteSubmission(h) PROVE rows'[s] \in {rows[s], NoRow}
    BY <2>0, <2>3 DEF DeleteSubmission
  <2>4. CASE UNCHANGED rows
    BY <2>4
  <2> QED
    BY <2>1, <2>2, <2>3, <2>4 DEF Next, StoreForm, Arrive, LookUpForm, RequireOwner, RequireRead,
       HasGrant, UserExists, GrantForm, RevokeForm, Serve, HandlerFails
<1> QED
  BY <1>1, AlwaysSound, PTL DEF Spec, RowsStayPut

\* A form's data is read for an admin, for its creator, or for an account that
\* form is shared with when the grant is asked for, however many handlers share,
\* revoke and delete beside it.
THEOREM ReadersWereShared == Spec => StrangersReadNothing
<1> DEFINE Inv == grants \subseteq shared
<1>1. Init => Inv
  BY DEF Init
<1>2. Sound /\ Inv /\ [Next]_vars => Inv'
  BY DEF Next, vars, StoreForm, Arrive, LookUpForm, RequireOwner, RequireRead, HasGrant, UserExists,
     InsertSubmission, DeleteForm, DeleteSubmission, GrantForm, RevokeForm, Serve, HandlerFails,
     GrantsAfterDelete, GrantsOn
<1>3. Sound /\ Inv /\ [Next]_vars => [OnlyEntitledRead]_vars
  <2> DEFINE Served(h) == Entitled(handler[h].request.caller, handler[h].request.form)
  <2> SUFFICES ASSUME Sound, Inv, Next, NEW h \in Slots,
                      At(h, "act", ReadOps)', ~ At(h, "act", ReadOps)
               PROVE  Served(h)
    BY DEF OnlyEntitledRead
  <2>1. handler \in [Slots -> {Free} \cup [step : {"gate", "grant", "user", "act"}, request : Requests]]
    BY DEF Sound, TypeOK
  <2>2. /\ handler'[h].step = "act" /\ handler'[h].request.op \in ReadOps
        /\ handler'[h] # handler[h]
    BY DEF At
  <2>3. ASSUME NEW i \in Slots, Return(i) PROVE FALSE
    BY <2>1, <2>2, <2>3 DEF Return, Free
  <2>4. ASSUME NEW i \in Slots, NEW r \in Requests, Arrive(i, r) PROVE FALSE
    BY <2>1, <2>2, <2>4 DEF Arrive
  <2>5. ASSUME NEW i \in Slots, NEW step, Goto(i, step)
        PROVE  i = h /\ step = "act" /\ handler[h].request.op \in ReadOps
    BY <2>1, <2>2, <2>5 DEF Goto
  <2>6. ASSUME NEW i \in Slots, LookUpForm(i) \/ RequireOwner(i) \/ UserExists(i) PROVE FALSE
    <3>1. PICK step : Goto(i, step)
      BY <2>3, <2>6 DEF LookUpForm, RequireOwner, UserExists
    <3>2. i = h /\ handler[h].request.op \in ReadOps
      BY <2>5, <3>1
    <3> QED
      BY <2>6, <3>2 DEF LookUpForm, RequireOwner, UserExists, At, FilingOps, OwnerOps, ReadOps
  <2>7. ASSUME NEW i \in Slots, RequireRead(i) PROVE Served(h)
    <3>1. ~ Return(i)
      BY <2>3
    <3>2. Owned(i)
      BY <2>5, <2>7, <3>1 DEF RequireRead
    <3>3. i = h
      BY <2>5, <2>7, <3>2 DEF RequireRead
    <3> QED
      BY <3>2, <3>3 DEF Owned, Entitled
  <2>8. ASSUME NEW i \in Slots, HasGrant(i) PROVE Served(h)
    <3>1. Goto(i, "act") /\ HoldsGrant(handler[i].request.form, handler[i].request.caller)
      BY <2>3, <2>8 DEF HasGrant
    <3>2. i = h
      BY <2>5, <3>1
    <3> QED
      BY <3>1, <3>2 DEF HoldsGrant, Entitled
  <2>9. ASSUME NEW i \in Slots,
               \/ InsertSubmission(i) \/ DeleteForm(i) \/ DeleteSubmission(i)
               \/ GrantForm(i) \/ RevokeForm(i) \/ Serve(i) \/ HandlerFails(i)
        PROVE  FALSE
    BY <2>3, <2>9 DEF InsertSubmission, DeleteForm, DeleteSubmission, GrantForm, RevokeForm,
       Serve, HandlerFails
  <2>10. CASE UNCHANGED handler
    BY <2>2, <2>10
  <2> QED
    BY <2>4, <2>6, <2>7, <2>8, <2>9, <2>10 DEF Next, StoreForm
<1> QED
  BY <1>1, <1>2, <1>3, AlwaysSound, PTL DEF Spec, StrangersReadNothing

-----------------------------------------------------------------------------
(* What a delete leaves.                                                   *)

\* Whoever comes to fill a form from here on has found it live.
LEMMA FillersFoundIt ==
    ASSUME Sound, Next, NEW f \in Forms, NEW h \in Slots, WillFill(h, f)', ~ WillFill(h, f)
    PROVE  state[f] = "live" /\ state'[f] = "live"
<1> DEFINE Fills(q) == /\ q.request.form = f
                       /\ \/ q.step = "act" /\ q.request.op \in FilingOps
                          \/ q.step \in {"user", "act"} /\ q.request.op = "create_grant"
<1>1. handler \in [Slots -> {Free} \cup [step : {"gate", "grant", "user", "act"}, request : Requests]]
  BY DEF Sound, TypeOK
<1>2. Fills(handler'[h]) /\ ~ Fills(handler[h]) /\ handler'[h] # handler[h]
  BY DEF WillFill, At
<1>3. ASSUME NEW i \in Slots, Return(i) PROVE FALSE
  BY <1>1, <1>2, <1>3 DEF Return, Free
<1>4. ASSUME NEW i \in Slots, NEW r \in Requests, Arrive(i, r) PROVE FALSE
  BY <1>1, <1>2, <1>4 DEF Arrive
<1>5. ASSUME NEW i \in Slots, NEW step, Goto(i, step)
      PROVE  /\ i = h /\ handler[h].request.form = f /\ step \in {"user", "act"}
             /\ handler[h].request.op \in FilingOps \cup {"create_grant"}
  BY <1>1, <1>2, <1>5 DEF Goto
<1>6. ASSUME NEW i \in Slots, LookUpForm(i) PROVE state[f] = "live" /\ UNCHANGED state
  <2>1. state[handler[i].request.form] = "live" /\ Goto(i, "act") /\ UNCHANGED state
    BY <1>3, <1>6 DEF LookUpForm
  <2> QED
    BY <1>5, <2>1
<1>7. ASSUME NEW i \in Slots, RequireOwner(i) PROVE state[f] = "live" /\ UNCHANGED state
  <2>1. Owned(i) /\ UNCHANGED state
    BY <1>3, <1>7 DEF RequireOwner
  <2>2. \E step : Goto(i, step)
    BY <1>7, <2>1 DEF RequireOwner
  <2> QED
    BY <1>5, <2>1, <2>2 DEF Owned
<1>8. ASSUME NEW i \in Slots, RequireRead(i) \/ HasGrant(i) PROVE FALSE
  <2>1. \E step : Goto(i, step)
    BY <1>3, <1>8 DEF RequireRead, HasGrant
  <2> QED
    BY <1>5, <1>8, <2>1 DEF RequireRead, HasGrant, At, ReadOps, FilingOps
<1>9. ASSUME NEW i \in Slots, UserExists(i) PROVE FALSE
  <2>1. Goto(i, "act") /\ handler[i].step = "user"
    BY <1>3, <1>9 DEF UserExists, At
  <2>2. handler[h].step = "user" /\ handler[h].request.op = "create_grant"
    BY <1>5, <2>1 DEF Sound, Cleared
  <2> QED
    BY <1>2, <1>5, <2>1, <2>2
<1>10. ASSUME NEW i \in Slots,
              \/ InsertSubmission(i) \/ DeleteForm(i) \/ DeleteSubmission(i)
              \/ GrantForm(i) \/ RevokeForm(i) \/ Serve(i) \/ HandlerFails(i)
       PROVE  FALSE
  BY <1>3, <1>10 DEF InsertSubmission, DeleteForm, DeleteSubmission, GrantForm, RevokeForm,
     Serve, HandlerFails
<1>11. CASE UNCHANGED handler
  BY <1>2, <1>11
<1> QED
  BY <1>4, <1>6, <1>7, <1>8, <1>9, <1>10, <1>11 DEF Next, StoreForm

\* Only they put anything under it.
LEMMA FillersFill ==
    ASSUME Sound, Next, NEW f \in Forms, Empty(f), Quiet(f)
    PROVE  Empty(f)'
<1>1. rows \in [Submissions -> Row \cup {NoRow}] /\ Nothing \notin Forms
  BY StoreAssumption DEF Sound, TypeOK
<1>2. ASSUME \A s \in Submissions : rows'[s] \in {rows[s], NoRow}, grants' \subseteq grants
      PROVE  Empty(f)'
  BY <1>1, <1>2 DEF Empty, RowsOf, GrantsOn, NoRow
<1>3. ASSUME NEW h \in Slots, InsertSubmission(h) PROVE Empty(f)'
  <2>1. handler[h].request.form # f /\ UNCHANGED grants
    BY <1>3 DEF InsertSubmission, Quiet, WillFill, At
  <2>2. \A s \in Submissions : rows'[s] = rows[s] \/ rows'[s].form # f
    BY <1>1, <1>3, <2>1 DEF InsertSubmission, File
  <2> QED
    BY <1>1, <2>1, <2>2 DEF Empty, RowsOf, GrantsOn
<1>4. ASSUME NEW h \in Slots, GrantForm(h) PROVE Empty(f)'
  <2>1. handler[h].request.form # f /\ UNCHANGED rows
    BY <1>4 DEF GrantForm, Quiet, WillFill, At
  <2>2. \A g \in grants' : g \in grants \/ g[1] # f
    BY <1>4, <2>1 DEF GrantForm
  <2> QED
    BY <2>1, <2>2 DEF Empty, RowsOf, GrantsOn
<1>5. ASSUME NEW h \in Slots, DeleteForm(h) PROVE Empty(f)'
  BY <1>1, <1>2, <1>5 DEF DeleteForm, RowsAfterDelete, GrantsAfterDelete
<1>6. ASSUME NEW h \in Slots, DeleteSubmission(h) \/ RevokeForm(h) PROVE Empty(f)'
  BY <1>1, <1>2, <1>6 DEF DeleteSubmission, RevokeForm
<1>7. CASE UNCHANGED <<rows, grants>>
  BY <1>7 DEF Empty, RowsOf, GrantsOn
<1> QED
  BY <1>3, <1>4, <1>5, <1>6, <1>7 DEF Next, StoreForm, Arrive, LookUpForm, RequireOwner, RequireRead,
     HasGrant, UserExists, Serve, HandlerFails

\* Whatever handlers overlap with it, a delete takes the submissions and grants
\* of its form with it, and only handlers that looked at the form before can
\* still put something under it until it is recreated: submit and push_one
\* (lib.rs:341, 555) and create_grant (lib.rs:467) do, as StoreLateFiling shows.
THEOREM OnlyLateHandlersFill == Spec => DeletesAreComplete
<1>1. ASSUME Sound, Next, NEW f \in Forms, state[f] = "live", state'[f] # "live" PROVE Empty(f)'
  <2>1. /\ rows \in [Submissions -> Row \cup {NoRow}] /\ Nothing \notin Forms
        /\ state \in [Forms -> {"absent", "live", "deleted"}]
    BY <1>1, StoreAssumption DEF Sound, TypeOK
  <2>2. ASSUME NEW u \in Accounts, NEW g \in Forms, StoreForm(u, g) PROVE FALSE
    BY <1>1, <2>1, <2>2 DEF StoreForm, InsertForm
  <2>3. ASSUME NEW h \in Slots, DeleteForm(h) PROVE Empty(f)'
    <3>1. handler[h].request.form = f
      BY <1>1, <2>1, <2>3 DEF DeleteForm
    <3>2. \A s \in Submissions : rows'[s].form # f
      BY <2>1, <2>3, <3>1 DEF DeleteForm, RowsAfterDelete, RowsOf, NoRow
    <3>3. \A g \in grants' : g[1] # f
      BY <2>3, <3>1 DEF DeleteForm, GrantsAfterDelete, GrantsOn
    <3> QED
      BY <3>2, <3>3 DEF Empty, RowsOf, GrantsOn
  <2>4. CASE UNCHANGED state
    BY <1>1, <2>4
  <2> QED
    BY <1>1, <2>2, <2>3, <2>4 DEF Next, Arrive, LookUpForm, RequireOwner, RequireRead, HasGrant,
       UserExists, InsertSubmission, DeleteSubmission, GrantForm, RevokeForm, Serve, HandlerFails
<1>2. ASSUME Sound, Next, NEW f \in Forms, state[f] = "deleted", Empty(f), Quiet(f)
      PROVE  Empty(f)' /\ Quiet(f)'
  <2>1. Empty(f)'
    BY <1>2, FillersFill
  <2>2. ASSUME NEW h \in Slots, WillFill(h, f)' PROVE FALSE
    <3>1. ~ WillFill(h, f)
      BY <1>2 DEF Quiet
    <3>2. state[f] = "live"
      BY <1>2, <2>2, <3>1, FillersFoundIt
    <3> QED
      BY <1>2, <3>2
  <2> QED
    BY <2>1, <2>2 DEF Quiet
<1>3. Sound /\ [Next]_vars => [DeleteClears]_vars
  BY <1>1, <1>2 DEF DeleteClears
<1> QED
  BY <1>3, AlwaysSound, PTL DEF Spec, DeletesAreComplete
=============================================================================
