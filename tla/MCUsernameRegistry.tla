------------------------ MODULE MCUsernameRegistry ------------------------
(***************************************************************************)
(* Three wallets, any of which may have an account older than the          *)
(* registry, and usernames of every kind the handlers tell apart.          *)
(***************************************************************************)
EXTENDS UsernameRegistry, TLC

CONSTANTS alice, bob, carol

MCWallets == {alice, bob, carol}
Name(text, capitals, tail) == [text |-> text, capitals |-> capitals, tail |-> tail]

MCUsernames ==
    { Name("ann", FALSE, 0), Name("ann", TRUE, 0), Name("ann", FALSE, 1),
      Name("bea", FALSE, 0), Name("turf", FALSE, 0), Name("x", FALSE, 0) }

\* The same text with and without bytes behind the zero byte.
MCTailedUsernames ==
    { Name("ann", FALSE, 0), Name("ann", FALSE, 1), Name("bea", FALSE, 0) }

Symmetric == Permutations(MCWallets)
=============================================================================
