------------------------------ MODULE MCFifo ------------------------------
(* The ring with two slots and 3-bit indices, so that both indices wrap     *)
(* around many times; three distinct elements tell positions apart.         *)
EXTENDS Fifo
===========================================================================
