--------------------------- MODULE MCAuthService ---------------------------
EXTENDS AuthService, TLC
CONSTANTS ann, bob, r1, r2, c1, c2
Symmetry == Permutations({r1, r2})
=============================================================================
