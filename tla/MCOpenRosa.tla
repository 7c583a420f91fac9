----------------------------- MODULE MCOpenRosa -----------------------------
EXTENDS OpenRosa

CONSTANTS form1, form2, ann, ben, xml1, xml2, photo, audio

Post(user, form, content, parts) ==
    [user |-> user, form |-> form, instance |-> "i1", content |-> content, parts |-> parts]

\* The series of posts of one instance, and others that claim its instanceID.
Series == {Post(ann, form1, xml1, <<photo>>), Post(ann, form1, xml1, <<audio, photo>>)}
Rivals == {Post(ann, form1, xml2, <<photo>>), Post(ben, form1, xml1, <<audio>>),
           Post(ann, form2, xml1, <<>>)}
AllPosts == Series \cup Rivals
=============================================================================
