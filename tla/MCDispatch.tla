----------------------------- MODULE MCDispatch -----------------------------
(* Sessions, addresses and the players that exist are interchangeable; two *)
(* addresses are enough for an object to be placed where another one was.  *)
EXTENDS Dispatch, TLC

Symmetry ==
    Permutations(Sessions) \cup Permutations(Addresses) \cup Permutations(AllPlayers)

=============================================================================
