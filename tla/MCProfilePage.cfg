\* Two visits to the profiles of three users, one click at a time: what two
\* clicks at a time can do is left out of both properties ("crossed").
CONSTANTS
    me = me
    b = b
    c = c
    nMe = nMe
    nB = nB
    nC = nC
    Users = {me, b, c}
    Me = me
    Nicks = {nMe, nB, nC, new}
    FirstNick <- Names
    Runs = {r1, r2}
    Calls = {k1}
    MaxVisits = 2
    MaxChanges = 1
    Null = Null
SYMMETRY PageSymmetry
SPECIFICATION Spec
INVARIANTS PageTypeOK StatusRight NickKept
CHECK_DEADLOCK FALSE
