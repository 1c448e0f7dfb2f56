SPECIFICATION Spec
CONSTANTS
    s1 = s1  u1 = u1  u2 = u2  n1 = n1
    NoKey = NoKey  NoUser = NoUser  None = None
    Script = {s1, s2, s3}
    User = {u1, u2}
    Namespace = {n1}
    Grants <- MCGrants
    Req = {q1}
    Asks <- MCAsks
    DevUser = u1
SYMMETRY ScriptSymmetry
INVARIANT ServedRightly
INVARIANT GrantsCurrent
INVARIANT WithdrawalsLast
