------------------------------ MODULE OpenRosa ------------------------------
(***************************************************************************)
(* POST /submission: how ODK Collect delivers an instance and its media.   *)
(*                                                                         *)
(* Collect spreads the media of one instance over several posts, repeats   *)
(* the instance XML in each, and sends a post again when it got no answer; *)
(* an earlier post may still be at work then.  meta/instanceID is the      *)
(* idempotency key: the first post inserts the submission, the others find *)
(* it through the unique index and only add files.  A file goes to disk    *)
(* first, then its row goes into the attachments table and, in the same    *)
(* transaction, onto the list kept in the submission.  The owner may       *)
(* delete the submission or the form at any moment: rows in a transaction, *)
(* the directory of files after it.                                        *)
(***************************************************************************)
EXTENDS Naturals, Sequences

CONSTANTS
    Forms,
    Posts,       \* what Collect may send: see IsPost
    Slots,       \* handlers the server may be running at once
    NoPost,
    MaxPosts,    \* bound: posts in a behaviour
    MaxDeletes   \* bound: deletes by the owner

\* One post: an account, the form and instanceID of the instance, the hash of
\* its XML, and the names of the media parts in their order.
IsPost(p) ==
    /\ DOMAIN p = {"user", "form", "instance", "content", "parts"}
    /\ p.form \in Forms
    /\ p.parts \in Seq({p.parts[i] : i \in DOMAIN p.parts})

ASSUME OpenRosaAssumption ==
    /\ \A p \in Posts : IsPost(p)
    /\ NoPost \notin Posts
    /\ MaxPosts \in Nat /\ MaxDeletes \in Nat

VARIABLES
    live,          \* forms that exist and are not tombstones
    submissions,   \* rows of the submissions table filed through this route
    attachments,   \* rows of the attachments table
    directories,   \* directories under attachments/, by submission
    files,         \* files in them, as <<submission, attachment>>
    handler,       \* the posts at work
    sweeping,      \* directories a delete handler has still to remove
    uuid,          \* uuids handed out so far
    \* Observations, which no action reads but to respect a bound:
    posts, deletes,
    confirmed,     \* what a post was told is stored
    removed        \* submissions deleted by the owner

tables == <<live, submissions, attachments>>
disk == <<directories, files, sweeping>>
vars == <<tables, disk, handler, uuid, posts, deletes, confirmed, removed>>

\* "form" is before the form is read, "insert" before the insert, "find" after
\* a unique violation; "names" before the stored names are read, "mkdir" before
\* the directory is made, "write" and "row" before the file and the row of the
\* next part.
Free == [step |-> "free", post |-> NoPost, submission |-> 0, stored |-> {}, part |-> 0, file |-> 0]

Init ==
    /\ live = Forms
    /\ submissions = {} /\ attachments = {}
    /\ directories = {} /\ files = {} /\ sweeping = {}
    /\ handler = [h \in Slots |-> Free]
    /\ uuid = 0
    /\ posts = 0 /\ deletes = 0
    /\ confirmed = {} /\ removed = {}

Step(h, s) == handler' = [handler EXCEPT ![h].step = s]

\* An error answer, or the handler dropped with its connection.
Refuse(h) == handler' = [handler EXCEPT ![h] = Free]

\* The answer 201: the instance and every part of this post are stored.
Confirm(h) ==
    /\ Refuse(h)
    /\ confirmed' = confirmed \cup
        {[submission |-> handler[h].submission, post |-> handler[h].post]}

Receive(h, p) ==
    /\ handler[h] = Free
    /\ posts < MaxPosts
    /\ posts' = posts + 1
    /\ handler' = [handler EXCEPT ![h] = [Free EXCEPT !.step = "form", !.post = p]]
    /\ UNCHANGED <<tables, disk, uuid, deletes, confirmed, removed>>

\* The form is read, and the instance coerced and validated against it.
LookUpForm(h) ==
    /\ handler[h].step = "form"
    /\ \/ handler[h].post.form \in live /\ Step(h, "insert")
       \/ Refuse(h)
    /\ UNCHANGED <<tables, disk, uuid, posts, deletes, confirmed, removed>>

\* Mutant: the index is on the account's own instances.
MutantHolding(p) ==
    {s \in submissions : s.form = p.form /\ s.instance = p.instance /\ s.user = p.user}

\* The submissions the unique index holds for a post.
Holding(p) == {s \in submissions : s.form = p.form /\ s.instance = p.instance}

\* insert_instance.
InsertInstance(h) ==
    LET p == handler[h].post IN
    /\ handler[h].step = "insert"
    /\ IF Holding(p) = {}
         THEN /\ uuid' = uuid + 1
              /\ submissions' = submissions \cup
                    {[id |-> uuid + 1, form |-> p.form, instance |-> p.instance,
                      content |-> p.content, user |-> p.user, listed |-> {}]}
              /\ handler' = [handler EXCEPT ![h].step = "names", ![h].submission = uuid + 1]
         ELSE Step(h, "find") /\ UNCHANGED <<submissions, uuid>>
    /\ UNCHANGED <<live, attachments, disk, posts, deletes, confirmed, removed>>

\* Mutant: the hash of the XML is not compared.
MutantResubmission(s, p) == s.user = p.user

\* Only the very same instance, from its own submitter.
Resubmission(s, p) == s.content = p.content /\ s.user = p.user

\* find_instance, and the two conflicts; the row may be gone by now.
FindInstance(h) ==
    LET p == handler[h].post IN
    /\ handler[h].step = "find"
    /\ IF \E s \in Holding(p) : Resubmission(s, p)
         THEN \E s \in Holding(p) :
                handler' = [handler EXCEPT ![h].step = "names", ![h].submission = s.id]
         ELSE Refuse(h)
    /\ UNCHANGED <<tables, disk, uuid, posts, deletes, confirmed, removed>>

NamesOf(id) == {a.name : a \in {b \in attachments : b.submission = id}}

\* The parts of a post whose file was not stored before.
ToStore(p, stored) == {i \in 1..Len(p.parts) : p.parts[i] \notin stored}

\* Go to the first part after the i-th that is to be stored, or answer.
NextPart(h, i, stored) ==
    LET p == handler[h].post
        rest == {j \in ToStore(p, stored) : j > i}
    IN IF rest = {} THEN Confirm(h)
       ELSE /\ \E j \in rest :
                /\ \A k \in rest : j <= k
                /\ handler' = [handler EXCEPT ![h].step = "write", ![h].part = j]
            /\ UNCHANGED confirmed

\* store_attachments begins with the names stored so far, unless there is
\* nothing to store.
ReadNames(h) ==
    LET id == handler[h].submission IN
    /\ handler[h].step = "names"
    /\ IF handler[h].post.parts = <<>> THEN Confirm(h)
       ELSE /\ handler' = [handler EXCEPT ![h].step = "mkdir", ![h].stored = NamesOf(id)]
            /\ UNCHANGED confirmed
    /\ UNCHANGED <<tables, disk, uuid, posts, deletes, removed>>

MakeDirectory(h) ==
    /\ handler[h].step = "mkdir"
    /\ directories' = directories \cup {handler[h].submission}
    /\ NextPart(h, 0, handler[h].stored)
    /\ UNCHANGED <<tables, files, sweeping, uuid, posts, deletes, removed>>

\* The bytes of a part go to disk; with the directory gone that is an error.
WriteFile(h) ==
    LET id == handler[h].submission IN
    /\ handler[h].step = "write"
    /\ IF id \in directories
         THEN /\ uuid' = uuid + 1
              /\ files' = files \cup {<<id, uuid + 1>>}
              /\ handler' = [handler EXCEPT ![h].step = "row", ![h].file = uuid + 1]
         ELSE Refuse(h) /\ UNCHANGED <<uuid, files>>
    /\ UNCHANGED <<tables, directories, sweeping, posts, deletes, confirmed, removed>>

\* Mutant: the list is written from a copy read before the others landed.
MutantListed(listed, file) == {file}

Listed(listed, file) == listed \cup {file}

\* add_attachment: the row, and the submission's own list if it still exists.
AddAttachment(h) ==
    LET w == handler[h] IN
    /\ w.step = "row"
    /\ attachments' = attachments \cup
        {[id |-> w.file, submission |-> w.submission, name |-> w.post.parts[w.part]]}
    /\ submissions' = {IF s.id = w.submission THEN [s EXCEPT !.listed = Listed(@, w.file)] ELSE s :
                       s \in submissions}
    /\ NextPart(h, w.part, w.stored)
    /\ UNCHANGED <<live, disk, uuid, posts, deletes, removed>>

HandlerFails(h) ==
    /\ handler[h] # Free
    /\ Refuse(h)
    /\ UNCHANGED <<tables, disk, uuid, posts, deletes, confirmed, removed>>

-----------------------------------------------------------------------------
(* The owner.                                                              *)

\* The transaction of a delete, and what its handler has to sweep then.
Delete(ids) ==
    /\ deletes < MaxDeletes
    /\ deletes' = deletes + 1
    /\ submissions' = {s \in submissions : s.id \notin ids}
    /\ attachments' = {a \in attachments : a.submission \notin ids}
    /\ sweeping' = sweeping \cup ids
    /\ removed' = removed \cup ids
    /\ UNCHANGED <<directories, files, handler, uuid, posts, confirmed>>

DeleteSubmission(s) == Delete({s.id}) /\ UNCHANGED live

DeleteForm(f) ==
    /\ f \in live
    /\ live' = live \ {f}
    /\ Delete({s.id : s \in {t \in submissions : t.form = f}})

\* remove_attachment_files; its failure, or a crash before it, leaves the files.
Sweep(id) ==
    /\ sweeping' = sweeping \ {id}
    /\ \/ /\ directories' = directories \ {id}
          /\ files' = {f \in files : f[1] # id}
       \/ UNCHANGED <<directories, files>>
    /\ UNCHANGED <<tables, handler, uuid, posts, deletes, confirmed, removed>>

\* Collect has sent all it will, and nothing is at work: not a deadlock.
Quiet == posts = MaxPosts /\ (\A h \in Slots : handler[h] = Free) /\ UNCHANGED vars

Next ==
    \/ \E h \in Slots :
        \/ \E p \in Posts : Receive(h, p)
        \/ LookUpForm(h) \/ InsertInstance(h) \/ FindInstance(h) \/ ReadNames(h)
        \/ MakeDirectory(h) \/ WriteFile(h) \/ AddAttachment(h) \/ HandlerFails(h)
    \/ \E s \in submissions : DeleteSubmission(s)
    \/ \E f \in Forms : DeleteForm(f)
    \/ \E id \in sweeping : Sweep(id)
    \/ Quiet

Spec == Init /\ [][Next]_vars

-----------------------------------------------------------------------------
(* Properties.                                                             *)

Row == [id : 1..uuid, form : Forms, instance : {p.instance : p \in Posts},
        content : {p.content : p \in Posts}, user : {p.user : p \in Posts},
        listed : SUBSET (1..uuid)]

\* Types, and the unique index: whoever posts it, a form holds an instanceID
\* once (README: an instanceID held by another user is a conflict).
TypeOK ==
    /\ live \subseteq Forms
    /\ submissions \subseteq Row
    /\ \A s, t \in submissions : s.id = t.id \/ (s.form = t.form /\ s.instance = t.instance) => s = t
    /\ \A a \in attachments : a.id \in 1..uuid /\ a.submission \in 1..uuid
    /\ directories \subseteq 1..uuid
    /\ files \subseteq (1..uuid) \X (1..uuid)
    /\ sweeping \subseteq removed
    /\ removed \subseteq 1..uuid
    /\ \A h \in Slots : handler[h] = Free \/
        /\ handler[h].post \in Posts
        /\ handler[h].step \in {"form", "insert", "find", "names", "mkdir", "write", "row"}
        /\ handler[h].step \in {"write", "row"} => handler[h].part \in DOMAIN handler[h].post.parts

Storing == {"names", "mkdir", "write", "row"}

\* A post that adds files to a submission repeats its very XML, for the account
\* that submitted it: also after the submission was deleted and its instanceID
\* used again while the post was at work.
OnlyItsOwnIsExtended ==
    \A h \in Slots, s \in submissions :
        handler[h].step \in Storing /\ handler[h].submission = s.id
        => s.content = handler[h].post.content /\ s.user = handler[h].post.user

\* What a submission lists is what the attachments table holds for it, and the
\* bytes of each are on disk: no file landing at the same time drops another
\* from the list, and no delete takes the files of a submission that remains.
ListedCanBeServed ==
    \A s \in submissions :
        /\ s.listed = {a.id : a \in {b \in attachments : b.submission = s.id}}
        /\ \A f \in s.listed : <<s.id, f>> \in files

\* Once Collect has its 201 it forgets the instance: until the owner deletes it
\* the submission is on file as posted, with every part of that post.
ConfirmedIsStored ==
    \A c \in confirmed : c.submission \notin removed =>
        \E s \in submissions :
            /\ s.id = c.submission
            /\ [c.post EXCEPT !.parts = <<>>] =
                [user |-> s.user, form |-> s.form, instance |-> s.instance,
                 content |-> s.content, parts |-> <<>>]
            /\ \A i \in DOMAIN c.post.parts :
                \E a \in attachments :
                    /\ a.submission = s.id /\ a.name = c.post.parts[i]
                    /\ a.id \in s.listed /\ <<s.id, a.id>> \in files

\* A part sent again is not stored again.
PartsAreStoredOnce ==
    \A a, b \in attachments : a.submission = b.submission /\ a.name = b.name => a = b

\* A deleted submission leaves no attachment behind.
DeletesTakeAttachments == \A a \in attachments : a.submission \notin removed
=============================================================================
