--------------------------- MODULE MCProbeConfig ---------------------------
EXTENDS ProbeConfig

CONSTANTS pod, con1, con2, web, job

(* Process 1 runs outside containers, 2 and 3 in the containers of one pod. *)
MCCommOf == [p \in Procs |-> IF p = 1 THEN web ELSE job]
MCConOf == [p \in Procs |-> CASE p = 1 -> NoCon [] p = 2 -> con1 [] OTHER -> con2]
MCPodOf == [c \in Containers |-> pod]

Pid1 == [type |-> "procid", id |-> 1]
Web == [type |-> "app", id |-> web]
ThePod == [type |-> "pod", id |-> pod]
Con1 == [type |-> "container", id |-> con1]

MCConfLists == {<<Pid1, Web>>, <<Web, Con1>>, <<ThePod, Con1>>, <<Pid1, Web, ThePod, Con1>>}
MCWebLists == {<<Web>>}
MCPodLists == {<<ThePod>>}
=============================================================================
