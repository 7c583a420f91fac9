----------------------------- MODULE FormStore -----------------------------
(***************************************************************************)
(* Who may do what to a form and to the data collected under it: the forms,*)
(* submissions and grants tables of collecta-server, and the handlers of   *)
(* its JSON API over them.                                                 *)
(*                                                                         *)
(* Statements of the store are atomic; handlers are not.  A handler runs   *)
(* its gate (`require_owner`, `require_read`, or the lookup of the form) in*)
(* one statement and what it came to do in a later one, and the handlers   *)
(* of other requests run in between.  Only the write of a form tests the   *)
(* ownership inside the statement that writes.                             *)
(***************************************************************************)
EXTENDS Naturals

CONSTANTS
    Forms,
    Submissions,
    Accounts,     \* ids in the users table
    RoleOf,       \* the role in the token of each account
    Grantees,     \* ids an owner may name in a grant, typing errors included
    Legacy,       \* the owner of a form stored before creators were recorded
    Nothing,      \* no row, no creator, no argument
    Slots         \* handlers the server may be running at once

Roles == {"admin", "editor", "viewer"}

ASSUME StoreAssumption ==
    /\ RoleOf \in [Accounts -> Roles]
    /\ Legacy \notin Accounts
    /\ Nothing \notin Accounts
    /\ Nothing \notin Forms /\ Nothing \notin Submissions /\ Nothing \notin Grantees
    /\ Legacy # Nothing

IsAdmin(u) == RoleOf[u] = "admin"
CanWrite(u) == RoleOf[u] \in {"admin", "editor"}

VARIABLES
    state,       \* of each form: absent, live, or the tombstone of a deleted one
    creator,     \* creator_id of each form
    rows,        \* the submissions table
    grants,      \* the form_grants table
    handler,     \* the handlers at work
    shared       \* observation: what owners shared, while it was neither
                 \* revoked nor its form deleted

vars == <<state, creator, rows, grants, handler, shared>>

NoRow == [form |-> Nothing, collector |-> Nothing]
Row == [form : Forms, collector : Accounts]

-----------------------------------------------------------------------------
(* The requests, as the routes and their layers let them through.          *)

FilingOps == {"submit", "push"}
OwnerOps == {"delete_form", "delete_submission", "create_grant", "revoke_grant",
             "list_grants"}
ReadOps == {"list_submissions", "get_attachment"}
UnguardedOps == ReadOps \cup {"list_grants"}   \* open to a viewer

ArgumentsOf(op) ==
    CASE op \in FilingOps \cup {"delete_submission"} -> Submissions
      [] op \in {"create_grant", "revoke_grant"} -> Grantees
      [] OTHER -> {Nothing}

Admitted(op, u) == op \in UnguardedOps \/ CanWrite(u)

Requests ==
    [op : FilingOps \cup OwnerOps \cup ReadOps, caller : Accounts, form : Forms,
     arg : Submissions \cup Grantees \cup {Nothing}]

NoRequest == [op |-> "none", caller |-> Nothing, form |-> Nothing, arg |-> Nothing]

\* "gate" is before the form is looked up; "grant" and "user" are the second
\* questions of require_read and of create_grant; "act" is past them all.
Free == [step |-> "free", request |-> NoRequest]

Init ==
    /\ \E upgraded \in SUBSET Forms :
        /\ state = [f \in Forms |-> IF f \in upgraded THEN "live" ELSE "absent"]
        /\ creator = [f \in Forms |-> IF f \in upgraded THEN Legacy ELSE Nothing]
    /\ rows = [s \in Submissions |-> NoRow]
    /\ grants = {}
    /\ handler = [h \in Slots |-> Free]
    /\ shared = {}

Owns(u, f) == IsAdmin(u) \/ creator[f] = u

RowsOf(f) == {s \in Submissions : rows[s].form = f}
GrantsOn(f) == {g \in grants : g[1] = f}

\* Mutant: the write of an admin takes the form over.
MutantInsertForm(u, f) ==
    /\ state[f] = "absent" \/ Owns(u, f)
    /\ state' = [state EXCEPT ![f] = "live"]
    /\ creator' = [creator EXCEPT ![f] = u]

\* insert_form: insert, or update under the ownership test, tombstones
\* included; the creator is set on insert only.
InsertForm(u, f) ==
    /\ state[f] = "absent" \/ Owns(u, f)
    /\ state' = [state EXCEPT ![f] = "live"]
    /\ creator' = IF state[f] = "absent" THEN [creator EXCEPT ![f] = u] ELSE creator

StoreForm(u, f) ==
    /\ CanWrite(u)
    /\ InsertForm(u, f)
    /\ UNCHANGED <<rows, grants, handler, shared>>

-----------------------------------------------------------------------------
(* The handlers.                                                           *)

At(h, step, ops) == handler[h].step = step /\ handler[h].request.op \in ops

Goto(h, step) == handler' = [handler EXCEPT ![h] = [step |-> step, request |-> handler[h].request]]
Return(h) == handler' = [handler EXCEPT ![h] = Free]

Arrive(h, r) ==
    /\ handler[h] = Free
    /\ Admitted(r.op, r.caller)
    /\ r.arg \in ArgumentsOf(r.op)
    /\ handler' = [handler EXCEPT ![h] = [step |-> "gate", request |-> r]]
    /\ UNCHANGED <<state, creator, rows, grants, shared>>

\* submit and push_one read the form and validate against it: there may be no
\* such form, or the submission may not fit.
LookUpForm(h) ==
    /\ At(h, "gate", FilingOps)
    /\ \/ state[handler[h].request.form] = "live" /\ Goto(h, "act")
       \/ Return(h)
    /\ UNCHANGED <<state, creator, rows, grants, shared>>

\* form_owner and owns.
Owned(h) ==
    LET r == handler[h].request IN state[r.form] = "live" /\ Owns(r.caller, r.form)

RequireOwner(h) ==
    /\ At(h, "gate", OwnerOps)
    /\ IF Owned(h)
         THEN Goto(h, IF handler[h].request.op = "create_grant" THEN "user" ELSE "act")
         ELSE Return(h)
    /\ UNCHANGED <<state, creator, rows, grants, shared>>

\* form_owner, which ends the request of a form that is not there, and owns.
\* The form of get_attachment is the one an earlier statement found for the
\* attachment (find_attachment); none found ends the request (HandlerFails).
RequireRead(h) ==
    /\ At(h, "gate", ReadOps)
    /\ IF Owned(h) THEN Goto(h, "act")
       ELSE IF state[handler[h].request.form] = "live" THEN Goto(h, "grant")
       ELSE Return(h)
    /\ UNCHANGED <<state, creator, rows, grants, shared>>

HoldsGrant(f, u) == <<f, u>> \in grants

HasGrant(h) ==
    LET r == handler[h].request IN
    /\ At(h, "grant", ReadOps)
    /\ IF HoldsGrant(r.form, r.caller) THEN Goto(h, "act") ELSE Return(h)
    /\ UNCHANGED <<state, creator, rows, grants, shared>>

\* Mutant: no question is asked of the id.
MutantIsAccount(u) == TRUE

IsAccount(u) == u \in Accounts

UserExists(h) ==
    /\ At(h, "user", OwnerOps)
    /\ IF IsAccount(handler[h].request.arg) THEN Goto(h, "act") ELSE Return(h)
    /\ UNCHANGED <<state, creator, rows, grants, shared>>

\* Mutant: insert or replace.
MutantFile(s, f, u) == rows' = [rows EXCEPT ![s] = [form |-> f, collector |-> u]]

\* insert_submission and insert_submission_if_new: the primary key decides, and
\* the row on file stays as it is (answered as a conflict or a duplicate).
File(s, f, u) ==
    rows' = IF rows[s] = NoRow THEN [rows EXCEPT ![s] = [form |-> f, collector |-> u]]
            ELSE rows

InsertSubmission(h) ==
    LET r == handler[h].request IN
    /\ At(h, "act", FilingOps)
    /\ File(r.arg, r.form, r.caller)
    /\ Return(h)
    /\ UNCHANGED <<state, creator, grants, shared>>

\* Mutant: the grants stay.
MutantGrantsAfterDelete(f) == grants

GrantsAfterDelete(f) == grants \ GrantsOn(f)

RowsAfterDelete(f) == [s \in Submissions |-> IF s \in RowsOf(f) THEN NoRow ELSE rows[s]]

\* delete_form, one transaction; it does not look at the owner again.
DeleteForm(h) ==
    LET f == handler[h].request.form IN
    /\ At(h, "act", {"delete_form"})
    /\ rows' = RowsAfterDelete(f)
    /\ grants' = GrantsAfterDelete(f)
    /\ state' = [state EXCEPT ![f] = "deleted"]
    /\ shared' = {g \in shared : g[1] # f}
    /\ Return(h)
    /\ UNCHANGED creator

\* Mutant: the form is not part of the match.
MutantMatches(s, f) == rows[s] # NoRow

Matches(s, f) == rows[s].form = f

DeleteSubmission(h) ==
    LET r == handler[h].request IN
    /\ At(h, "act", {"delete_submission"})
    /\ rows' = IF Matches(r.arg, r.form) THEN [rows EXCEPT ![r.arg] = NoRow] ELSE rows
    /\ Return(h)
    /\ UNCHANGED <<state, creator, grants, shared>>

GrantForm(h) ==
    LET r == handler[h].request IN
    /\ At(h, "act", {"create_grant"})
    /\ grants' = grants \cup {<<r.form, r.arg>>}
    /\ shared' = shared \cup {<<r.form, r.arg>>}
    /\ Return(h)
    /\ UNCHANGED <<state, creator, rows>>

RevokeForm(h) ==
    LET r == handler[h].request IN
    /\ At(h, "act", {"revoke_grant"})
    /\ grants' = grants \ {<<r.form, r.arg>>}
    /\ shared' = shared \ {<<r.form, r.arg>>}
    /\ Return(h)
    /\ UNCHANGED <<state, creator, rows>>

\* list_submissions and list_grants answer with the rows of the form,
\* get_attachment with the bytes of one attachment under it.
Serve(h) ==
    /\ At(h, "act", ReadOps \cup {"list_grants"})
    /\ Return(h)
    /\ UNCHANGED <<state, creator, rows, grants, shared>>

\* A storage error, or the handler dropped with its connection.
HandlerFails(h) ==
    /\ handler[h] # Free
    /\ Return(h)
    /\ UNCHANGED <<state, creator, rows, grants, shared>>

Next ==
    \/ \E u \in Accounts, f \in Forms : StoreForm(u, f)
    \/ \E h \in Slots :
        \/ \E r \in Requests : Arrive(h, r)
        \/ LookUpForm(h) \/ RequireOwner(h) \/ RequireRead(h) \/ HasGrant(h) \/ UserExists(h)
        \/ InsertSubmission(h) \/ DeleteForm(h) \/ DeleteSubmission(h)
        \/ GrantForm(h) \/ RevokeForm(h) \/ Serve(h) \/ HandlerFails(h)

Spec == Init /\ [][Next]_vars

-----------------------------------------------------------------------------
(* Properties.                                                             *)

\* Types, and what the columns say of each other: a form has a creator exactly
\* when it has a row, and a submission has a collector when it has a form.
TypeOK ==
    /\ state \in [Forms -> {"absent", "live", "deleted"}]
    /\ creator \in [Forms -> Accounts \cup {Legacy, Nothing}]
    /\ \A f \in Forms : creator[f] = Nothing <=> state[f] = "absent"
    /\ rows \in [Submissions -> Row \cup {NoRow}]
    /\ grants \subseteq Forms \X Accounts
    /\ shared \subseteq Forms \X Accounts
    /\ handler \in [Slots -> {Free} \cup [step : {"gate", "grant", "user", "act"}, request : Requests]]

\* Deleting a form removes the submissions collected under it: none is filed
\* under a tombstone, so a form recreated under its old id starts empty.
TombstonesHoldNoRows == \A s \in Submissions : rows[s] # NoRow => state[rows[s].form] = "live"

\* Deleting a form removes the grants on it: whoever the old form was shared
\* with does not find the data of the recreated one open.
TombstonesHoldNoGrants == \A g \in grants : state[g[1]] = "live"

\* Both: "Its submissions, their queue entries, their attachments and the
\* grants on it are removed outright" (delete_form).
TombstonesAreEmpty == TombstonesHoldNoRows /\ TombstonesHoldNoGrants

\* Whatever is taken away from a form or shared of it, the caller owns the form
\* when it happens, though the gate asked before and other requests ran since:
\* a form deleted, a submission or a grant removed, a grant made.
OnlyOwnersDestroy ==
    [][\A f \in Forms :
        \/ state[f] = "live" /\ state'[f] # "live"
        \/ \E s \in RowsOf(f) : rows'[s] # rows[s]
        \/ {g \in grants' : g[1] = f} # GrantsOn(f)
        => \E h \in Slots :
            /\ handler[h].step = "act" /\ handler'[h] = Free
            /\ handler[h].request.form = f
            /\ Owns(handler[h].request.caller, f)]_vars

\* A submission stays under the form and the collector it was filed with until
\* it is deleted, whatever form a later one with its id names.
RowsStayPut ==
    [][\A s \in Submissions : rows[s] # NoRow => rows'[s] \in {rows[s], NoRow}]_vars

\* Once a form exists, its creator is its creator for good: through edits by an
\* admin, a delete, and the id coming back.
CreatorIsForever ==
    [][\A f \in Forms : state[f] # "absent" => state'[f] # "absent" /\ creator'[f] = creator[f]]_vars

\* Whom the data of a form is open to: an admin, its creator, and who it is
\* shared with.
Entitled(u, f) == Owns(u, f) \/ <<f, u>> \in shared

\* A handler goes on to read a form's data only for somebody entitled to it at
\* that moment: not on a grant of another form, on a grant that was revoked, or
\* on one made before the form was deleted and its id came back.
OnlyEntitledRead ==
    \A h \in Slots :
        At(h, "act", ReadOps)' /\ ~ At(h, "act", ReadOps)
        => Entitled(handler[h].request.caller, handler[h].request.form)

StrangersReadNothing == [][OnlyEntitledRead]_vars

\* A handler that will file under f, or grant it, without looking at it again.
WillFill(h, f) ==
    /\ handler[h].request.form = f
    /\ At(h, "act", FilingOps) \/ At(h, "user", {"create_grant"}) \/ At(h, "act", {"create_grant"})

Quiet(f) == \A h \in Slots : ~ WillFill(h, f)

Empty(f) == RowsOf(f) = {} /\ GrantsOn(f) = {}

\* A delete takes all that is under the form with it, whatever runs beside it;
\* and once the handlers that had looked at the form before are through without
\* leaving anything, nothing comes under it again before it is recreated.
DeleteClears ==
    \A f \in Forms :
        /\ state[f] = "live" /\ state'[f] # "live" => Empty(f)'
        /\ state[f] = "deleted" /\ Empty(f) /\ Quiet(f)
              => (Empty(f) /\ Quiet(f))' \/ state'[f] = "live"

DeletesAreComplete == [][DeleteClears]_vars
=============================================================================
