------------------------------ MODULE MCAccess ------------------------------
(***************************************************************************)
(* Three scripts that grant the same or different rights to one user, and  *)
(* one request that tries a key of theirs.                                 *)
(***************************************************************************)
EXTENDS Access, TLC

CONSTANTS s1, u1, u2, n1

To(user, permission, isSuper) ==
    [user |-> user, ns |-> n1, permission |-> permission, super |-> isSuper]

MCGrants == {To(u1, "read", FALSE), To(u1, "write", TRUE)}

With(key, needs) == [key |-> key, ns |-> n1, needs |-> needs]
MCAsks ==
    {With(s1, "read"), With(s1, "write"), With(s1, "superuser"), With(s1, "identity"),
     With(NoKey, "write")}

ScriptSymmetry == Permutations(Script \ {s1})

=============================================================================
