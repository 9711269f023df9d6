----------------------------- MODULE MCSessions -----------------------------
(* Small instance of Sessions: two requests at a time.  The values of each  *)
(* set are interchangeable.                                                 *)
EXTENDS Sessions, TLC

Symmetry ==
    Permutations(Handlers) \cup Permutations(Tokens)
        \cup Permutations(Passwords) \cup Permutations(Codes)
=============================================================================
