------------------------------ MODULE MCImdb ------------------------------
EXTENDS Imdb, TLC

CONSTANTS a, b

(* Lines of two lengths, so that what is too long for one table may still   *)
(* fit another.                                                             *)
MCLineLen == (a :> 2) @@ (b :> 3)

Symmetry == Permutations(Keys)
===========================================================================
