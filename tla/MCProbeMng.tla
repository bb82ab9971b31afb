---------------------------- MODULE MCProbeMng ----------------------------
(***************************************************************************)
(* One probe of each sort meets every race: the two only share the lock and *)
(* the message queue.                                                       *)
(***************************************************************************)
EXTENDS ProbeMng

CONSTANTS ext, nat, c1, c2

(* A bound: a behaviour uses one of the two probes. *)
Used == {p \in Probes : flags[p] # {} \/ conf[p] # Conf0 \/ mprobe = p}
OneProbe == Cardinality(Used) <= 1
===========================================================================
