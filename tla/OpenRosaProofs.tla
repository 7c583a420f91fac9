--------------------------- MODULE OpenRosaProofs ---------------------------
(***************************************************************************)
(* What holds of posts of instances and their media for any forms, any     *)
(* posts, any number of handlers at work at once and any deletes.          *)
(*                                                                         *)
(* A post goes on with what it read before: the submission it found, the   *)
(* names stored so far, the file it wrote.  Follows says that each is      *)
(* still so when the handler takes its next step, or that the owner has    *)
(* deleted the submission meanwhile.  Ids are not given out twice, so what *)
(* was deleted never is anything else's.                                   *)
(***************************************************************************)
EXTENDS OpenRosa, TLAPS

Steps == {"free", "form", "insert", "find", "names", "mkdir", "write", "row"}

PartNames == UNION {{p.parts[i] : i \in DOMAIN p.parts} : p \in Posts}

Stores == SUBSET PartNames

Handlers == [step : Steps, post : Posts \cup {NoPost}, submission : Nat,
             stored : Stores, part : Nat, file : Nat]

\* The submission is on file as that post has it.
Filed(id, p) ==
    \E s \in submissions :
        s.id = id /\ s.form = p.form /\ s.instance = p.instance
        /\ s.content = p.content /\ s.user = p.user

Attached(id, name) == \E a \in attachments : a.submission = id /\ a.name = name

\* What a handler read is so still, unless the submission was deleted.
Follows(w) ==
    w = Free \/
        /\ w.post \in Posts
        /\ w.step # "free"
        /\ w.step \in Storing =>
            /\ w.submission \in 1..uuid
            /\ w.submission \notin removed => Filed(w.submission, w.post)
        /\ w.step \in {"mkdir", "write", "row"} /\ w.submission \notin removed =>
            \A n \in w.stored : Attached(w.submission, n)
        /\ w.step \in {"write", "row"} =>
            /\ w.part \in DOMAIN w.post.parts
            /\ w.submission \notin removed =>
                \A i \in DOMAIN w.post.parts : i < w.part => Attached(w.submission, w.post.parts[i])
        /\ w.step = "row" =>
            /\ w.file \in 1..uuid
            /\ w.submission \notin removed => <<w.submission, w.file>> \in files

\* What a post was told.
Stored(c) ==
    /\ c.post \in Posts
    /\ c.submission \notin removed =>
        /\ Filed(c.submission, c.post)
        /\ \A i \in DOMAIN c.post.parts : Attached(c.submission, c.post.parts[i])

\* The part of TypeOK that is about the tables and the disk, and what is listed.
Tables ==
    /\ uuid \in Nat
    /\ live \subseteq Forms
    /\ submissions \subseteq Row
    /\ \A s, t \in submissions : s.id = t.id \/ (s.form = t.form /\ s.instance = t.instance) => s = t
    /\ \A s \in submissions : s.id \notin removed
    /\ \A a \in attachments : a.id \in 1..uuid /\ a.submission \in 1..uuid /\ a.name \in PartNames
    /\ directories \subseteq 1..uuid
    /\ files \subseteq (1..uuid) \X (1..uuid)
    /\ sweeping \subseteq removed
    /\ removed \subseteq 1..uuid
    /\ ListedCanBeServed

Handling == handler \in [Slots -> Handlers] /\ \A h \in Slots : Follows(handler[h])

Told == \A c \in confirmed : Stored(c)

\* The inductive invariant.
Safe == Tables /\ Handling /\ Told

\* A step that takes nothing from a submission but by deleting it.
Keeps ==
    /\ uuid \in Nat /\ uuid' \in Nat /\ uuid <= uuid'
    /\ removed \subseteq removed'
    /\ \A s \in submissions : s.id \in removed' \/
        \E t \in submissions' : /\ t.id = s.id /\ t.form = s.form /\ t.instance = s.instance
                                /\ t.content = s.content /\ t.user = s.user
    /\ \A a \in attachments : a.submission \in removed' \/ a \in attachments'
    /\ \A f \in files : f[1] \in removed' \/ f \in files'

-----------------------------------------------------------------------------
(* Lemmas about posts and handlers.                                        *)

LEMMA PostParts ==
    ASSUME NEW p \in Posts
    PROVE  /\ Len(p.parts) \in Nat /\ DOMAIN p.parts = 1..Len(p.parts)
           /\ \A i \in DOMAIN p.parts : p.parts[i] \in PartNames
           /\ p.parts = <<>> <=> DOMAIN p.parts = {}
           /\ p.form \in Forms
<1>1. IsPost(p)
    BY OpenRosaAssumption
<1>2. PICK S : p.parts \in Seq(S)
    BY <1>1 DEF IsPost
<1>3. \A i \in DOMAIN p.parts : p.parts[i] \in PartNames
    BY DEF PartNames
<1> QED BY <1>1, <1>2, <1>3 DEF IsPost

LEMMA NoPostIsNone == NoPost \notin Posts
BY OpenRosaAssumption

LEMMA FreeFollows == Free \in Handlers /\ (Follows(Free))'
<1>1. {} \in Stores
    BY DEF Stores
<1>2. Free \in Handlers
    BY <1>1 DEF Free, Handlers, Steps
<1>3. (Follows(Free))'
    BY DEF Follows
<1> QED BY <1>2, <1>3

LEMMA StepNames ==
    /\ "form" \in Steps /\ "insert" \in Steps /\ "find" \in Steps
    /\ "names" \in Steps /\ "mkdir" \in Steps /\ "write" \in Steps /\ "row" \in Steps
BY DEF Steps

\* What a handler has read outlives a step that keeps things.
LEMMA FollowsOn ==
    ASSUME Keeps, NEW w, Follows(w)
    PROVE  Follows(w)'
<1>1. CASE w = Free
    BY <1>1 DEF Follows
<1>2. CASE w # Free
    <2>1. /\ w.post \in Posts /\ w.step # "free"
          /\ w.step \in Storing =>
              /\ w.submission \in 1..uuid
              /\ w.submission \notin removed => Filed(w.submission, w.post)
        BY <1>2 DEF Follows
    <2>2. Filed(w.submission, w.post) => w.submission \in removed' \/ Filed(w.submission, w.post)'
        BY DEF Filed, Keeps
    <2>3. \A n : Attached(w.submission, n) => w.submission \in removed' \/ Attached(w.submission, n)'
        BY DEF Attached, Keeps
    <2>4. <<w.submission, w.file>> \in files =>
              w.submission \in removed' \/ <<w.submission, w.file>> \in files'
        BY DEF Keeps
    <2>5. removed \subseteq removed' /\ 1..uuid \subseteq 1..uuid'
        BY DEF Keeps
    <2> QED BY <1>2, <2>1, <2>2, <2>3, <2>4, <2>5 DEF Follows
<1> QED BY <1>1, <1>2

LEMMA StoredOn ==
    ASSUME Keeps, NEW c, Stored(c)
    PROVE  Stored(c)'
<1>1. Filed(c.submission, c.post) => c.submission \in removed' \/ Filed(c.submission, c.post)'
    BY DEF Filed, Keeps
<1>2. \A n : Attached(c.submission, n) => c.submission \in removed' \/ Attached(c.submission, n)'
    BY DEF Attached, Keeps
<1>3. removed \subseteq removed'
    BY DEF Keeps
<1> QED BY <1>1, <1>2, <1>3 DEF Stored

\* A step of one handler.
LEMMA OneHandler ==
    ASSUME Handling, Keeps, NEW h \in Slots, NEW r \in Handlers,
           handler' = [handler EXCEPT ![h] = r], Follows(r)'
    PROVE  Handling'
<1>1. handler' \in [Slots -> Handlers]
    BY DEF Handling
<1>2. ASSUME NEW g \in Slots PROVE Follows(handler[g])'
    <2>1. CASE g = h
        BY <1>1, <2>1 DEF Handling
    <2>2. CASE g # h
        <3>1. PICK w : w = handler[g]
            OBVIOUS
        <3>2. Follows(w) /\ handler'[g] = w
            BY <2>2, <3>1 DEF Handling
        <3>3. Follows(w)'
            BY <3>2, FollowsOn
        <3> QED BY <3>2, <3>3
    <2> QED BY <2>1, <2>2
<1> QED BY <1>1, <1>2 DEF Handling

LEMMA NoHandler == ASSUME Handling, Keeps, UNCHANGED handler PROVE Handling'
<1>1. ASSUME NEW g \in Slots PROVE Follows(handler[g])'
    <2>1. PICK w : w = handler[g]
        OBVIOUS
    <2>2. Follows(w) /\ handler'[g] = w
        BY <2>1 DEF Handling
    <2>3. Follows(w)'
        BY <2>2, FollowsOn
    <2> QED BY <2>2, <2>3
<1> QED BY <1>1 DEF Handling

LEMMA StillTold == ASSUME Told, Keeps, UNCHANGED confirmed PROVE Told'
BY StoredOn DEF Told

LEMMA OneMoreTold ==
    ASSUME Told, Keeps, NEW c, confirmed' = confirmed \cup {c}, Stored(c)'
    PROVE  Told'
BY StoredOn DEF Told

\* Steps that leave the tables and the disk alone.
LEMMA SameTables ==
    ASSUME Tables, UNCHANGED <<tables, disk, uuid, removed>>
    PROVE  Tables' /\ Keeps
<1>1. Tables'
    BY DEF Tables, tables, disk, Row, ListedCanBeServed
<1>2. Keeps
    BY DEF Tables, tables, disk, Keeps
<1> QED BY <1>1, <1>2

\* The handler of a slot that is at work.
LEMMA AtWork ==
    ASSUME Handling, NEW h \in Slots, handler[h].step # "free"
    PROVE  /\ handler[h] \in Handlers /\ handler[h] # Free
           /\ Follows(handler[h]) /\ handler[h].post \in Posts
BY DEF Handling, Follows, Free

-----------------------------------------------------------------------------
(* One lemma for each action.                                              *)

LEMMA ConfirmIsTold ==
    ASSUME Keeps, Handling, Told, NEW h \in Slots, NEW w, w = handler[h], Confirm(h),
           w.post \in Posts,
           (w.submission \notin removed =>
              /\ Filed(w.submission, w.post)
              /\ \A i \in DOMAIN w.post.parts : Attached(w.submission, w.post.parts[i]))'
    PROVE  Handling' /\ Told'
<1> DEFINE c == [submission |-> w.submission, post |-> w.post]
<1>1. handler' = [handler EXCEPT ![h] = Free] /\ confirmed' = confirmed \cup {c}
    BY DEF Confirm, Refuse
<1>2. c.submission = w.submission /\ c.post = w.post
    OBVIOUS
<1> HIDE DEF c
<1>3. Stored(c)'
    BY <1>2 DEF Stored
<1>4. Handling'
    BY <1>1, FreeFollows, OneHandler
<1>5. Told'
    BY <1>1, <1>3, OneMoreTold
<1> QED BY <1>4, <1>5

\* The first i parts of the post are attached, and those stored before it.
LEMMA NextPartGoesOn ==
    ASSUME Keeps, Handling, Told, NEW h \in Slots, NEW w \in Handlers, w = handler[h],
           w.post \in Posts, NEW i \in Nat, NextPart(h, i, w.stored),
           (/\ w.submission \in 1..uuid
            /\ w.submission \notin removed =>
                /\ Filed(w.submission, w.post)
                /\ \A n \in w.stored : Attached(w.submission, n)
                /\ \A j \in DOMAIN w.post.parts :
                      j <= i => Attached(w.submission, w.post.parts[j]))'
    PROVE  Handling' /\ Told'
<1> DEFINE p == w.post
           rest == {j \in ToStore(p, w.stored) : j > i}
<1>1. DOMAIN p.parts = 1..Len(p.parts) /\ Len(p.parts) \in Nat
    BY PostParts
<1>2. \A j \in DOMAIN p.parts : j \in rest \/ j <= i \/ p.parts[j] \in w.stored
    BY <1>1 DEF ToStore
<1>3. CASE rest = {}
    <2>1. Confirm(h)
        BY <1>3 DEF NextPart
    <2>2. (w.submission \notin removed =>
             /\ Filed(w.submission, w.post)
             /\ \A j \in DOMAIN w.post.parts : Attached(w.submission, w.post.parts[j]))'
        BY <1>2, <1>3
    <2> QED BY <2>1, <2>2, ConfirmIsTold
<1>4. CASE rest # {}
    <2>1. /\ UNCHANGED confirmed
          /\ \E j \in rest : /\ \A k \in rest : j <= k
                             /\ handler' = [handler EXCEPT ![h].step = "write", ![h].part = j]
        BY <1>4 DEF NextPart
    <2>2. PICK j \in rest : /\ \A k \in rest : j <= k
                            /\ handler' = [handler EXCEPT ![h].step = "write", ![h].part = j]
        BY <2>1
    <2>3. j \in DOMAIN p.parts /\ j \in Nat
        BY <1>1 DEF ToStore
    <2>4. \A k \in DOMAIN p.parts : k < j => k <= i \/ p.parts[k] \in w.stored
        BY <1>1, <1>2, <2>2, <2>3
    <2>5. PICK r : r = [w EXCEPT !.step = "write", !.part = j]
        OBVIOUS
    <2>6. /\ r \in Handlers /\ r.step = "write" /\ r.post = w.post /\ r.submission = w.submission
          /\ r.stored = w.stored /\ r.part = j
        BY <2>3, <2>5, StepNames DEF Handlers
    <2>7. handler' = [handler EXCEPT ![h] = r]
        BY <2>2, <2>5
    <2> HIDE DEF rest
    <2>8. Follows(r)'
        BY <2>3, <2>4, <2>6 DEF Follows, Storing
    <2>9. Handling'
        BY <2>6, <2>7, <2>8, OneHandler
    <2>10. Told'
        BY <2>1, StillTold
    <2> QED BY <2>9, <2>10
<1> QED BY <1>3, <1>4

LEMMA ReceiveSafe == ASSUME Safe, NEW h \in Slots, NEW p \in Posts, Receive(h, p) PROVE Safe'
<1>1. Tables' /\ Keeps
    BY SameTables DEF Safe, Receive
<1>2. PICK r : r = [Free EXCEPT !.step = "form", !.post = p]
    OBVIOUS
<1>3. r \in Handlers /\ r.step = "form" /\ r.post = p
    BY <1>2, FreeFollows DEF Handlers, Steps
<1>4. Follows(r)'
    BY <1>3 DEF Follows, Storing
<1>5. handler' = [handler EXCEPT ![h] = r]
    BY <1>2 DEF Receive
<1>6. Handling' /\ Told'
    BY <1>1, <1>3, <1>4, <1>5, OneHandler, StillTold DEF Safe, Receive
<1> QED BY <1>1, <1>6 DEF Safe

LEMMA RefuseSafe ==
    ASSUME Safe, NEW h \in Slots, Refuse(h), Tables', Keeps, UNCHANGED confirmed
    PROVE  Safe'
BY FreeFollows, OneHandler, StillTold DEF Safe, Refuse

LEMMA LookUpFormSafe == ASSUME Safe, NEW h \in Slots, LookUpForm(h) PROVE Safe'
<1>1. Tables' /\ Keeps /\ UNCHANGED confirmed
    BY SameTables DEF Safe, LookUpForm
<1>2. CASE Refuse(h)
    BY <1>1, <1>2, RefuseSafe
<1>3. CASE Step(h, "insert")
    <2>1. PICK w : w = handler[h]
        OBVIOUS
    <2>2. w \in Handlers /\ w.post \in Posts
        BY <2>1, AtWork DEF Safe, LookUpForm
    <2>3. PICK r : r = [w EXCEPT !.step = "insert"]
        OBVIOUS
    <2>4. r \in Handlers /\ r.step = "insert" /\ r.post = w.post
        BY <2>2, <2>3, StepNames DEF Handlers
    <2>5. Follows(r)'
        BY <2>2, <2>4 DEF Follows, Storing
    <2>6. handler' = [handler EXCEPT ![h] = r]
        BY <1>3, <2>1, <2>3 DEF Step
    <2> QED BY <1>1, <2>4, <2>5, <2>6, OneHandler, StillTold DEF Safe
<1> QED BY <1>2, <1>3 DEF LookUpForm

LEMMA FindInstanceSafe == ASSUME Safe, NEW h \in Slots, FindInstance(h) PROVE Safe'
<1>1. Tables' /\ Keeps /\ UNCHANGED confirmed
    BY SameTables DEF Safe, FindInstance
<1>2. CASE Refuse(h)
    BY <1>1, <1>2, RefuseSafe
<1>3. CASE /\ \E s \in Holding(handler[h].post) : Resubmission(s, handler[h].post)
           /\ \E s \in Holding(handler[h].post) :
                handler' = [handler EXCEPT ![h].step = "names", ![h].submission = s.id]
    <2>1. PICK w : w = handler[h]
        OBVIOUS
    <2>2. w \in Handlers /\ w.post \in Posts
        BY <2>1, AtWork DEF Safe, FindInstance
    <2>3. PICK s \in Holding(w.post) :
            handler' = [handler EXCEPT ![h].step = "names", ![h].submission = s.id]
        BY <1>3, <2>1
    <2>4. s \in submissions /\ s.form = w.post.form /\ s.instance = w.post.instance
        BY DEF Holding
    <2>5. s.content = w.post.content /\ s.user = w.post.user
        BY <1>3, <2>1, <2>4 DEF Holding, Resubmission, Safe, Tables
    <2>6. s.id \in 1..uuid /\ uuid' = uuid /\ s.id \in Nat
        BY <2>4 DEF Safe, Tables, Row, FindInstance
    <2>7. Filed(s.id, w.post)'
        BY <2>4, <2>5 DEF Filed, FindInstance, tables
    <2>8. PICK r : r = [w EXCEPT !.step = "names", !.submission = s.id]
        OBVIOUS
    <2>9. r \in Handlers /\ r.step = "names" /\ r.post = w.post /\ r.submission = s.id
        BY <2>2, <2>6, <2>8, StepNames DEF Handlers
    <2>10. Follows(r)'
        BY <2>2, <2>6, <2>7, <2>9 DEF Follows, Storing
    <2>11. handler' = [handler EXCEPT ![h] = r]
        BY <2>1, <2>3, <2>8
    <2> QED BY <1>1, <2>9, <2>10, <2>11, OneHandler, StillTold DEF Safe
<1> QED BY <1>2, <1>3 DEF FindInstance

LEMMA InsertInstanceSafe == ASSUME Safe, NEW h \in Slots, InsertInstance(h) PROVE Safe'
<1>1. PICK w : w = handler[h]
    OBVIOUS
<1>2. w \in Handlers /\ w.post \in Posts /\ UNCHANGED confirmed
    BY <1>1, AtWork DEF Safe, InsertInstance
<1>3. CASE Holding(w.post) # {}
    <2>1. Step(h, "find") /\ UNCHANGED <<submissions, uuid>>
        BY <1>1, <1>3 DEF InsertInstance
    <2>2. Tables' /\ Keeps
        BY <2>1, SameTables DEF Safe, InsertInstance, tables
    <2>3. PICK r : r = [w EXCEPT !.step = "find"]
        OBVIOUS
    <2>4. r \in Handlers /\ r.step = "find" /\ r.post = w.post
        BY <1>2, <2>3, StepNames DEF Handlers
    <2>5. Follows(r)'
        BY <1>2, <2>4 DEF Follows, Storing
    <2>6. handler' = [handler EXCEPT ![h] = r]
        BY <1>1, <2>1, <2>3 DEF Step
    <2> QED BY <1>2, <2>2, <2>4, <2>5, <2>6, OneHandler, StillTold DEF Safe
<1>4. CASE Holding(w.post) = {}
    <2>1. PICK new : new = [id |-> uuid + 1, form |-> w.post.form, instance |-> w.post.instance,
                            content |-> w.post.content, user |-> w.post.user, listed |-> {}]
        OBVIOUS
    <2>2. /\ uuid' = uuid + 1 /\ submissions' = submissions \cup {new}
          /\ handler' = [handler EXCEPT ![h].step = "names", ![h].submission = uuid + 1]
          /\ UNCHANGED <<live, attachments, directories, files, sweeping, removed>>
        BY <1>1, <1>4, <2>1 DEF InsertInstance, disk
    <2>3. /\ uuid \in Nat /\ removed \subseteq 1..uuid /\ submissions \subseteq Row
          /\ \A s \in submissions : s.id \in 1..uuid
        BY DEF Safe, Tables, Row
    <2>4. new.id = uuid + 1 /\ new.form = w.post.form /\ new.instance = w.post.instance
          /\ new.content = w.post.content /\ new.user = w.post.user /\ new.listed = {}
        BY <2>1
    <2>5. Keeps
        BY <2>2, <2>3 DEF Keeps
    <2>6. Tables'
        <3>1. submissions' \subseteq Row'
            <4>1. new \in Row'
                BY <1>2, <2>1, <2>2, <2>3, PostParts DEF Row
            <4>2. Row \subseteq Row'
                BY <2>2, <2>3 DEF Row
            <4> QED BY <2>2, <2>3, <4>1, <4>2
        <3>2. \A s, t \in submissions' :
                 s.id = t.id \/ (s.form = t.form /\ s.instance = t.instance) => s = t
            <4>1. \A s \in submissions : s.id # new.id
                BY <2>3, <2>4
            <4>2. \A s \in submissions : ~ (s.form = new.form /\ s.instance = new.instance)
                BY <1>4, <2>4 DEF Holding
            <4> QED BY <2>2, <4>1, <4>2 DEF Safe, Tables
        <3>3. \A s \in submissions' : s.id \notin removed'
            BY <2>2, <2>3, <2>4 DEF Safe, Tables
        <3>4. ListedCanBeServed'
            <4>1. {a.id : a \in {b \in attachments : b.submission = new.id}} = {}
                BY <2>3, <2>4 DEF Safe, Tables
            <4> QED BY <2>2, <2>4, <4>1 DEF Safe, Tables, ListedCanBeServed
        <3>5. 1..uuid \subseteq 1..uuid' /\ uuid' \in Nat
            BY <2>2, <2>3
        <3> QED BY <2>2, <3>1, <3>2, <3>3, <3>4, <3>5 DEF Safe, Tables
    <2>7. PICK n : n = uuid + 1
        OBVIOUS
    <2>8. n \in Nat
        BY <2>3, <2>7
    <2>9. PICK r : r = [w EXCEPT !.step = "names", !.submission = n]
        OBVIOUS
    <2>10. r \in Handlers /\ r.step = "names" /\ r.post = w.post /\ r.submission = n
        BY <1>2, <2>8, <2>9, StepNames DEF Handlers
    <2>11. Filed(r.submission, w.post)'
        BY <2>2, <2>4, <2>10, <2>7 DEF Filed
    <2>12. r.submission \in 1..uuid'
        BY <2>2, <2>3, <2>10, <2>7
    <2>13. Follows(r)'
        BY <1>2, <2>10, <2>11, <2>12 DEF Follows, Storing
    <2>14. handler' = [handler EXCEPT ![h] = r]
        BY <1>1, <2>2, <2>9, <2>7
    <2> QED BY <1>2, <2>5, <2>6, <2>10, <2>13, <2>14, OneHandler, StillTold DEF Safe
<1> QED BY <1>3, <1>4

LEMMA ReadNamesSafe == ASSUME Safe, NEW h \in Slots, ReadNames(h) PROVE Safe'
<1>1. Tables' /\ Keeps
    BY SameTables DEF Safe, ReadNames
<1>2. PICK w : w = handler[h]
    OBVIOUS
<1>3. /\ w \in Handlers /\ w.post \in Posts /\ w # Free /\ Follows(w) /\ w.step = "names"
      /\ UNCHANGED <<tables, disk, uuid, removed>>
    BY <1>2, AtWork DEF Safe, ReadNames
<1>4. (w.submission \in 1..uuid /\ (w.submission \notin removed => Filed(w.submission, w.post)))'
    BY <1>3 DEF Follows, Storing, Filed, tables
<1>5. CASE w.post.parts = <<>>
    <2>1. Confirm(h)
        BY <1>2, <1>5 DEF ReadNames
    <2>2. DOMAIN w.post.parts = {}
        BY <1>3, <1>5, PostParts
    <2>3. Handling' /\ Told'
        BY <1>1, <1>2, <1>3, <1>4, <2>1, <2>2, ConfirmIsTold DEF Safe
    <2> QED BY <1>1, <2>3 DEF Safe
<1>6. CASE w.post.parts # <<>>
    <2>1. PICK names : names = NamesOf(w.submission)
        OBVIOUS
    <2>2. /\ handler' = [handler EXCEPT ![h].step = "mkdir", ![h].stored = names]
          /\ UNCHANGED confirmed
        BY <1>2, <1>6, <2>1 DEF ReadNames
    <2>3. \A n \in names : Attached(w.submission, n)'
        BY <1>3, <2>1 DEF NamesOf, Attached, tables
    <2>4. names \in Stores
        BY <2>1 DEF Stores, NamesOf, Safe, Tables
    <2>5. PICK r : r = [w EXCEPT !.step = "mkdir", !.stored = names]
        OBVIOUS
    <2>6. /\ r \in Handlers /\ r.step = "mkdir" /\ r.post = w.post /\ r.submission = w.submission
          /\ r.stored = names
        BY <1>3, <2>4, <2>5, StepNames DEF Handlers
    <2>7. Follows(r)'
        BY <1>3, <1>4, <2>3, <2>6 DEF Follows, Storing
    <2>8. handler' = [handler EXCEPT ![h] = r]
        BY <1>2, <2>2, <2>5
    <2> QED BY <1>1, <2>2, <2>6, <2>7, <2>8, OneHandler, StillTold DEF Safe
<1> QED BY <1>5, <1>6

LEMMA MakeDirectorySafe == ASSUME Safe, NEW h \in Slots, MakeDirectory(h) PROVE Safe'
<1>1. PICK w : w = handler[h]
    OBVIOUS
<1>2. /\ w \in Handlers /\ w.post \in Posts /\ w # Free /\ Follows(w) /\ w.step = "mkdir"
    BY <1>1, AtWork DEF Safe, MakeDirectory
<1>3. /\ UNCHANGED <<live, submissions, attachments, files, sweeping, uuid, removed>>
      /\ directories' = directories \cup {w.submission}
      /\ NextPart(h, 0, w.stored)
    BY <1>1 DEF MakeDirectory, tables
<1>4. w.submission \in 1..uuid
    BY <1>2 DEF Follows, Storing
<1>5. Keeps
    BY <1>3 DEF Safe, Tables, Keeps
<1>6. Tables'
    BY <1>3, <1>4 DEF Safe, Tables, Row, ListedCanBeServed
<1>7. Follows(w)'
    BY <1>2, <1>5, FollowsOn
<1>8. \A j \in DOMAIN w.post.parts : ~ (j <= 0)
    BY <1>2, PostParts
<1>9. (/\ w.submission \in 1..uuid
       /\ w.submission \notin removed =>
            /\ Filed(w.submission, w.post)
            /\ \A n \in w.stored : Attached(w.submission, n)
            /\ \A j \in DOMAIN w.post.parts : j <= 0 => Attached(w.submission, w.post.parts[j]))'
    BY <1>2, <1>7, <1>8 DEF Follows, Storing
<1>10. Handling' /\ Told'
    BY <1>1, <1>2, <1>3, <1>5, <1>9, NextPartGoesOn DEF Safe
<1> QED BY <1>6, <1>10 DEF Safe

LEMMA WriteFileSafe == ASSUME Safe, NEW h \in Slots, WriteFile(h) PROVE Safe'
<1>1. PICK w : w = handler[h]
    OBVIOUS
<1>2. /\ w \in Handlers /\ w.post \in Posts /\ w # Free /\ Follows(w) /\ w.step = "write"
      /\ UNCHANGED <<tables, directories, sweeping, confirmed, removed>>
    BY <1>1, AtWork DEF Safe, WriteFile
<1>3. CASE w.submission \notin directories
    <2>1. Refuse(h) /\ UNCHANGED <<tables, disk, uuid, removed>>
        BY <1>1, <1>2, <1>3 DEF WriteFile, disk
    <2> QED BY <1>2, <2>1, SameTables, RefuseSafe DEF Safe
<1>4. CASE w.submission \in directories
    <2>1. PICK n : n = uuid + 1
        OBVIOUS
    <2>2. /\ uuid' = n /\ files' = files \cup {<<w.submission, n>>}
          /\ handler' = [handler EXCEPT ![h].step = "row", ![h].file = n]
        BY <1>1, <1>4, <2>1 DEF WriteFile
    <2>3. uuid \in Nat /\ n \in Nat /\ n \in 1..n /\ 1..uuid \subseteq 1..n /\ uuid <= n
        BY <2>1 DEF Safe, Tables
    <2>4. Keeps
        BY <1>2, <2>2, <2>3 DEF Keeps, tables
    <2>5. Follows(w)' /\ w.submission \in 1..uuid
        BY <1>2, <2>4, FollowsOn DEF Follows, Storing
    <2>6. Tables'
        <3>1. Row \subseteq Row'
            BY <2>2, <2>3 DEF Row
        <3>2. ListedCanBeServed'
            BY <1>2, <2>2 DEF Safe, Tables, ListedCanBeServed, tables
        <3>3. files' \subseteq (1..uuid') \X (1..uuid')
            BY <2>2, <2>3, <2>5 DEF Safe, Tables
        <3> QED BY <1>2, <2>2, <2>3, <3>1, <3>2, <3>3 DEF Safe, Tables, tables
    <2>7. PICK r : r = [w EXCEPT !.step = "row", !.file = n]
        OBVIOUS
    <2>8. /\ r \in Handlers /\ r.step = "row" /\ r.post = w.post /\ r.submission = w.submission
          /\ r.stored = w.stored /\ r.part = w.part /\ r.file = n
        BY <1>2, <2>3, <2>7, StepNames DEF Handlers
    <2>9. <<r.submission, r.file>> \in files' /\ r.file \in 1..uuid'
        BY <2>2, <2>3, <2>8
    <2>10. Follows(r)'
        BY <1>2, <2>5, <2>8, <2>9 DEF Follows, Storing
    <2>11. handler' = [handler EXCEPT ![h] = r]
        BY <1>1, <2>2, <2>7
    <2> QED BY <1>2, <2>4, <2>6, <2>8, <2>10, <2>11, OneHandler, StillTold DEF Safe
<1> QED BY <1>3, <1>4

\* The list of the one submission is extended; the others stay as they are.
LEMMA AddAttachmentSafe == ASSUME Safe, NEW h \in Slots, AddAttachment(h) PROVE Safe'
<1>1. PICK w : w = handler[h]
    OBVIOUS
<1>2. PICK name : name = w.post.parts[w.part]
    OBVIOUS
<1>3. PICK new : new = [id |-> w.file, submission |-> w.submission, name |-> name]
    OBVIOUS
<1>4. /\ w \in Handlers /\ w.post \in Posts /\ w # Free /\ Follows(w) /\ w.step = "row"
    BY <1>1, AtWork DEF Safe, AddAttachment
<1> DEFINE Listing(s) == IF s.id = w.submission THEN [s EXCEPT !.listed = Listed(@, w.file)] ELSE s
<1>5. /\ attachments' = attachments \cup {new}
      /\ submissions' = {Listing(s) : s \in submissions}
      /\ NextPart(h, w.part, w.stored)
      /\ UNCHANGED <<live, directories, files, sweeping, uuid, removed>>
    BY <1>1, <1>2, <1>3 DEF AddAttachment, disk
<1>6. new.id = w.file /\ new.submission = w.submission /\ new.name = name
    BY <1>3
<1>7. /\ w.submission \in 1..uuid /\ w.file \in 1..uuid /\ w.part \in DOMAIN w.post.parts
      /\ w.submission \notin removed => <<w.submission, w.file>> \in files
    BY <1>4 DEF Follows, Storing
<1>8. name \in PartNames /\ DOMAIN w.post.parts = 1..Len(w.post.parts)
      /\ Len(w.post.parts) \in Nat
    BY <1>2, <1>4, <1>7, PostParts
<1>9. ASSUME NEW s \in submissions
      PROVE  /\ Listing(s) \in Row
             /\ Listing(s).id = s.id /\ Listing(s).form = s.form
             /\ Listing(s).instance = s.instance /\ Listing(s).content = s.content
             /\ Listing(s).user = s.user
             /\ Listing(s).listed = IF s.id = w.submission THEN s.listed \cup {w.file} ELSE s.listed
    <2>1. s \in Row
        BY DEF Safe, Tables
    <2>2. PICK list : list = s.listed \cup {w.file}
        OBVIOUS
    <2>3. list \in SUBSET (1..uuid)
        BY <1>7, <2>1, <2>2 DEF Row
    <2>4. CASE s.id = w.submission
        <3>1. PICK r : r = [s EXCEPT !.listed = list]
            OBVIOUS
        <3>2. Listing(s) = r
            BY <2>2, <2>4, <3>1 DEF Listed
        <3>3. /\ r \in Row /\ r.id = s.id /\ r.form = s.form /\ r.instance = s.instance
              /\ r.content = s.content /\ r.user = s.user /\ r.listed = list
            BY <2>1, <2>3, <3>1 DEF Row
        <3> QED BY <2>2, <2>4, <3>2, <3>3
    <2>5. CASE s.id # w.submission
        BY <2>1, <2>5
    <2> QED BY <2>4, <2>5
<1> HIDE DEF Listing
<1>10. /\ \A t \in submissions' : \E s \in submissions : t = Listing(s)
       /\ \A s \in submissions : Listing(s) \in submissions'
    BY <1>5
<1>11. Keeps
    <2>1. ASSUME NEW s \in submissions
          PROVE  \E t \in submissions' : /\ t.id = s.id /\ t.form = s.form /\ t.instance = s.instance
                                         /\ t.content = s.content /\ t.user = s.user
        BY <1>9, <1>10
    <2> QED BY <1>5, <2>1 DEF Safe, Tables, Keeps
<1>12. Tables'
    <2>1. submissions' \subseteq Row /\ Row' = Row
        BY <1>5, <1>9, <1>10 DEF Row
    <2>2. \A s, t \in submissions' :
             s.id = t.id \/ (s.form = t.form /\ s.instance = t.instance) => s = t
        <3> SUFFICES ASSUME NEW s \in submissions', NEW t \in submissions',
                            s.id = t.id \/ (s.form = t.form /\ s.instance = t.instance)
                     PROVE  s = t
            OBVIOUS
        <3>1. PICK q \in submissions, r \in submissions : s = Listing(q) /\ t = Listing(r)
            BY <1>10
        <3>2. q.id = r.id \/ (q.form = r.form /\ q.instance = r.instance)
            BY <1>9, <3>1
        <3>3. q = r
            BY <3>2 DEF Safe, Tables
        <3> QED BY <3>1, <3>3
    <2>3. \A s \in submissions' : s.id \notin removed
        BY <1>9, <1>10, ZenonT(60) DEF Safe, Tables
    <2>4. \A a \in attachments' : a.id \in 1..uuid /\ a.submission \in 1..uuid /\ a.name \in PartNames
        BY <1>5, <1>6, <1>7, <1>8 DEF Safe, Tables
    <2>5. ASSUME NEW t \in submissions'
          PROVE  /\ t.listed = {a.id : a \in {b \in attachments' : b.submission = t.id}}
                 /\ \A f \in t.listed : <<t.id, f>> \in files
        <3>1. PICK s \in submissions : t = Listing(s)
            BY <1>10
        <3>2. /\ t.id = s.id
              /\ t.listed = IF s.id = w.submission THEN s.listed \cup {w.file} ELSE s.listed
            BY <1>9, <3>1
        <3>3. /\ s.listed = {a.id : a \in {b \in attachments : b.submission = s.id}}
              /\ \A f \in s.listed : <<s.id, f>> \in files
              /\ s.id \notin removed
            BY DEF Safe, Tables, ListedCanBeServed
        <3>4. {a.id : a \in {b \in attachments' : b.submission = s.id}}
                = IF s.id = w.submission
                  THEN {a.id : a \in {b \in attachments : b.submission = s.id}} \cup {w.file}
                  ELSE {a.id : a \in {b \in attachments : b.submission = s.id}}
            BY <1>5, <1>6
        <3> QED BY <1>7, <3>2, <3>3, <3>4
    <2> QED BY <1>5, <2>1, <2>2, <2>3, <2>4, <2>5 DEF Safe, Tables, ListedCanBeServed
<1>13. Follows(w)'
    BY <1>4, <1>11, FollowsOn
<1>14. Attached(w.submission, name)'
    BY <1>5, <1>6 DEF Attached
<1>15. \A j \in DOMAIN w.post.parts : j <= w.part => j < w.part \/ j = w.part
    BY <1>7, <1>8
<1>16. (/\ w.submission \in 1..uuid
        /\ w.submission \notin removed =>
             /\ Filed(w.submission, w.post)
             /\ \A n \in w.stored : Attached(w.submission, n)
             /\ \A j \in DOMAIN w.post.parts :
                   j <= w.part => Attached(w.submission, w.post.parts[j]))'
    BY <1>2, <1>4, <1>13, <1>14, <1>15 DEF Follows, Storing
<1>17. w.part \in Nat
    BY <1>4 DEF Handlers
<1>18. Handling' /\ Told'
    BY <1>1, <1>4, <1>5, <1>11, <1>16, <1>17, NextPartGoesOn DEF Safe
<1> QED BY <1>12, <1>18 DEF Safe

LEMMA HandlerFailsSafe == ASSUME Safe, NEW h \in Slots, HandlerFails(h) PROVE Safe'
BY SameTables, RefuseSafe DEF Safe, HandlerFails

\* What is deleted had been filed, and its id is now one of the removed.
LEMMA DeleteSafe ==
    ASSUME Safe, NEW ids, ids \subseteq {s.id : s \in submissions}, Delete(ids),
           live' \subseteq live
    PROVE  Safe'
<1>1. /\ submissions' = {s \in submissions : s.id \notin ids}
      /\ attachments' = {a \in attachments : a.submission \notin ids}
      /\ sweeping' = sweeping \cup ids /\ removed' = removed \cup ids
      /\ UNCHANGED <<directories, files, handler, uuid, confirmed>>
    BY DEF Delete
<1>2. ids \subseteq 1..uuid
    BY DEF Safe, Tables, Row
<1>3. Keeps
    BY <1>1 DEF Safe, Tables, Keeps
<1>4. Tables'
    <2>1. Row' = Row
        BY <1>1 DEF Row
    <2>2. ASSUME NEW s \in submissions'
          PROVE  /\ s.listed = {a.id : a \in {b \in attachments' : b.submission = s.id}}
                 /\ \A f \in s.listed : <<s.id, f>> \in files
        <3>1. s \in submissions /\ s.id \notin ids
            BY <1>1
        <3>2. {b \in attachments' : b.submission = s.id} = {b \in attachments : b.submission = s.id}
            BY <1>1, <3>1
        <3> QED BY <3>1, <3>2 DEF Safe, Tables, ListedCanBeServed
    <2> QED BY <1>1, <1>2, <2>1, <2>2 DEF Safe, Tables, ListedCanBeServed
<1>5. Handling' /\ Told'
    BY <1>1, <1>3, NoHandler, StillTold DEF Safe
<1> QED BY <1>4, <1>5 DEF Safe

LEMMA SweepSafe == ASSUME Safe, NEW id \in sweeping, Sweep(id) PROVE Safe'
<1>1. /\ sweeping' = sweeping \ {id}
      /\ directories' \subseteq directories /\ files' \subseteq files
      /\ \A f \in files : f[1] = id \/ f \in files'
      /\ UNCHANGED <<live, submissions, attachments, handler, uuid, confirmed, removed>>
    BY DEF Sweep, tables
<1>2. id \in removed
    BY DEF Safe, Tables
<1>3. Keeps
    BY <1>1, <1>2 DEF Safe, Tables, Keeps
<1>4. ListedCanBeServed'
    BY <1>1, <1>2 DEF Safe, Tables, ListedCanBeServed
<1>5. Row' = Row
    BY <1>1 DEF Row
<1>6. Tables'
    BY <1>1, <1>4, <1>5 DEF Safe, Tables
<1>7. Handling' /\ Told'
    BY <1>1, <1>3, NoHandler, StillTold DEF Safe
<1> QED BY <1>6, <1>7 DEF Safe

-----------------------------------------------------------------------------

LEMMA InitSafe == Init => Safe
<1> SUFFICES ASSUME Init PROVE Safe
    OBVIOUS
<1>1. Tables /\ Told
    BY DEF Init, Tables, Told, ListedCanBeServed
<1>2. Handling
    BY FreeFollows DEF Init, Handling, Follows
<1> QED BY <1>1, <1>2 DEF Safe

LEMMA NextSafe == Safe /\ [Next]_vars => Safe'
<1> SUFFICES ASSUME Safe, [Next]_vars PROVE Safe'
    OBVIOUS
<1>1. ASSUME NEW h \in Slots, NEW p \in Posts, Receive(h, p) PROVE Safe'
    BY <1>1, ReceiveSafe
<1>2. ASSUME NEW h \in Slots, LookUpForm(h) PROVE Safe'
    BY <1>2, LookUpFormSafe
<1>3. ASSUME NEW h \in Slots, InsertInstance(h) PROVE Safe'
    BY <1>3, InsertInstanceSafe
<1>4. ASSUME NEW h \in Slots, FindInstance(h) PROVE Safe'
    BY <1>4, FindInstanceSafe
<1>5. ASSUME NEW h \in Slots, ReadNames(h) PROVE Safe'
    BY <1>5, ReadNamesSafe
<1>6. ASSUME NEW h \in Slots, MakeDirectory(h) PROVE Safe'
    BY <1>6, MakeDirectorySafe
<1>7. ASSUME NEW h \in Slots, WriteFile(h) PROVE Safe'
    BY <1>7, WriteFileSafe
<1>8. ASSUME NEW h \in Slots, AddAttachment(h) PROVE Safe'
    BY <1>8, AddAttachmentSafe
<1>9. ASSUME NEW h \in Slots, HandlerFails(h) PROVE Safe'
    BY <1>9, HandlerFailsSafe
<1>10. ASSUME NEW s \in submissions, DeleteSubmission(s) PROVE Safe'
    <2>1. {s.id} \subseteq {t.id : t \in submissions}
        OBVIOUS
    <2> QED BY <1>10, <2>1, DeleteSafe DEF DeleteSubmission
<1>11. ASSUME NEW f \in Forms, DeleteForm(f) PROVE Safe'
    <2> DEFINE ids == {s.id : s \in {t \in submissions : t.form = f}}
    <2>1. Delete(ids) /\ live' \subseteq live
        BY <1>11 DEF DeleteForm
    <2>2. ids \subseteq {s.id : s \in submissions}
        OBVIOUS
    <2> HIDE DEF ids
    <2> QED BY <2>1, <2>2, DeleteSafe
<1>12. ASSUME NEW id \in sweeping, Sweep(id) PROVE Safe'
    BY <1>12, SweepSafe
<1>13. CASE UNCHANGED vars
    BY <1>13, SameTables, NoHandler, StillTold DEF Safe, vars
<1> QED BY <1>1, <1>2, <1>3, <1>4, <1>5, <1>6, <1>7, <1>8, <1>9, <1>10, <1>11, <1>12, <1>13
    DEF Next, Quiet

LEMMA Invariant == Spec => []Safe
<1>1. Init => Safe
    BY InitSafe
<1>2. Safe /\ [Next]_vars => Safe'
    BY NextSafe
<1> QED BY <1>1, <1>2, PTL DEF Spec

\* The types, and the unique index: two posts, of whoever, never file one
\* instance of a form twice (insert_instance, the index of store.rs).
THEOREM TypeCorrect == Spec => []TypeOK
<1>1. Safe => TypeOK
    <2> SUFFICES ASSUME Safe PROVE TypeOK
        OBVIOUS
    <2>1. ASSUME NEW h \in Slots
          PROVE  handler[h] = Free \/
                    /\ handler[h].post \in Posts
                    /\ handler[h].step \in {"form", "insert", "find", "names", "mkdir", "write", "row"}
                    /\ handler[h].step \in {"write", "row"} =>
                          handler[h].part \in DOMAIN handler[h].post.parts
        <3>1. handler[h] \in Handlers /\ Follows(handler[h])
            BY DEF Safe, Handling
        <3> QED BY <3>1 DEF Follows, Handlers, Steps
    <2> QED BY <2>1 DEF Safe, Tables, TypeOK
<1> QED BY <1>1, Invariant, PTL

\* A post only ever adds files to the submission it repeats, of the account
\* that submitted it, whatever was deleted and filed again meanwhile (submit's
\* comparison, after which store_attachments works on the id it found).
THEOREM OwnExtended == Spec => []OnlyItsOwnIsExtended
<1>1. Safe => OnlyItsOwnIsExtended
    <2> SUFFICES ASSUME Safe, NEW h \in Slots, NEW s \in submissions,
                        handler[h].step \in Storing, handler[h].submission = s.id
                 PROVE  s.content = handler[h].post.content /\ s.user = handler[h].post.user
        BY DEF OnlyItsOwnIsExtended
    <2>1. Follows(handler[h]) /\ handler[h] # Free
        BY DEF Safe, Handling, Storing, Free
    <2>2. s.id \notin removed
        BY DEF Safe, Tables
    <2>3. PICK t \in submissions : t.id = s.id /\ t.content = handler[h].post.content
                                   /\ t.user = handler[h].post.user
        BY <2>1, <2>2 DEF Follows, Filed
    <2> QED BY <2>3 DEF Safe, Tables
<1> QED BY <1>1, Invariant, PTL

\* The list in a submission, the attachments table and the disk agree, however
\* many files land and directories are swept at once (add_attachment,
\* remove_attachment_files).
THEOREM ListedServed == Spec => []ListedCanBeServed
<1>1. Safe => ListedCanBeServed
    BY DEF Safe, Tables
<1> QED BY <1>1, Invariant, PTL

\* What was answered with a 201 is stored, the instance as posted and every part
\* of the post, until its owner deletes it: Collect has forgotten it by then
\* (submit, store_attachments).
THEOREM ConfirmedStored == Spec => []ConfirmedIsStored
<1>1. Safe => ConfirmedIsStored
    <2> SUFFICES ASSUME Safe, NEW c \in confirmed, c.submission \notin removed
                 PROVE  \E s \in submissions :
                            /\ s.id = c.submission
                            /\ [c.post EXCEPT !.parts = <<>>] =
                                [user |-> s.user, form |-> s.form, instance |-> s.instance,
                                 content |-> s.content, parts |-> <<>>]
                            /\ \A i \in DOMAIN c.post.parts :
                                \E a \in attachments :
                                    /\ a.submission = s.id /\ a.name = c.post.parts[i]
                                    /\ a.id \in s.listed /\ <<s.id, a.id>> \in files
        BY DEF ConfirmedIsStored
    <2>1. Stored(c)
        BY DEF Safe, Told
    <2>2. PICK p : p = c.post
        OBVIOUS
    <2>3. IsPost(p)
        BY <2>1, <2>2, OpenRosaAssumption DEF Stored
    <2>4. PICK s \in submissions :
            /\ s.id = c.submission /\ s.form = p.form /\ s.instance = p.instance
            /\ s.content = p.content /\ s.user = p.user
        BY <2>1, <2>2 DEF Stored, Filed
    <2>5. [p EXCEPT !.parts = <<>>] =
            [user |-> s.user, form |-> s.form, instance |-> s.instance,
             content |-> s.content, parts |-> <<>>]
        BY <2>3, <2>4 DEF IsPost
    <2>6. ASSUME NEW i \in DOMAIN p.parts
          PROVE  \E a \in attachments : /\ a.submission = s.id /\ a.name = p.parts[i]
                                        /\ a.id \in s.listed /\ <<s.id, a.id>> \in files
        <3>1. PICK a \in attachments : a.submission = s.id /\ a.name = p.parts[i]
            BY <2>1, <2>2, <2>4 DEF Stored, Attached
        <3>2. a.id \in s.listed
            BY <3>1 DEF Safe, Tables, ListedCanBeServed
        <3>3. <<s.id, a.id>> \in files
            BY <3>2 DEF Safe, Tables, ListedCanBeServed
        <3> QED BY <3>1, <3>2, <3>3
    <2> QED BY <2>2, <2>4, <2>5, <2>6
<1> QED BY <1>1, Invariant, PTL
=============================================================================
