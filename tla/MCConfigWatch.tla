---------------------------- MODULE MCConfigWatch ---------------------------
(***************************************************************************)
(* TLC instances of ConfigWatch.  b is a Bind whose type decodes every     *)
(* version but the second; w is a bare Watch that decodes all of them; d   *)
(* is a second Bind.                                                       *)
(***************************************************************************)
EXTENDS ConfigWatch, TLC

CONSTANTS b, w, d

MCDecodable ==
  [c \in Call |-> IF c = b THEN Version \ {2} ELSE Version]

\* w and d decode alike and neither is bound: they are interchangeable.
MCSymmetry == Permutations({w, d})
=============================================================================
