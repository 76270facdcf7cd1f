---------------------------- MODULE MCUserService ----------------------------
(* Small instances of UserService; requests are interchangeable, and so are   *)
(* emails and names.                                                          *)
EXTENDS UserService, TLC

CONSTANTS r1, r2, r3, e1, e2, n1, n2

MCSymmetry == Permutations({r1, r2, r3}) \union Permutations({e1, e2})
                 \union Permutations({n1, n2})
=============================================================================
