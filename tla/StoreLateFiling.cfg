SPECIFICATION Spec
CONSTANTS
    a = a
    e = e
    v = v
    x = x
    f1 = f1
    f2 = f2
    Accounts = {a, e, v}
    RoleOf <- MCRoleOf
    Grantees = {v, x}
    Legacy = legacy
    Nothing = nothing
    Forms = {f1}
    Submissions = {s1}
    Slots = {h1, h2}
INVARIANTS TombstonesAreEmpty
