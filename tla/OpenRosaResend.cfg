SPECIFICATION Spec
CONSTANTS
    form1 = form1
    form2 = form2
    ann = ann
    ben = ben
    xml1 = xml1
    xml2 = xml2
    photo = photo
    audio = audio
    NoPost = nopost
    Forms = {form1, form2}
    Posts <- Series
    Slots = {h1, h2}
    MaxPosts = 2
    MaxDeletes = 0
INVARIANTS PartsAreStoredOnce
