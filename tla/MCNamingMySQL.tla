---------------------------- MODULE MCNamingMySQL ---------------------------
(* TLC instances of NamingMySQL: selectors are interchangeable, and so are    *)
(* server processes.                                                       *)
EXTENDS NamingMySQL, TLC

MCSymmetry == Permutations(Selector) \cup Permutations(Server)
=============================================================================
