---------------------------- MODULE MCDataPath ----------------------------
(***************************************************************************)
(* One extended and one native probe, lines of every kind, two settings of  *)
(* the output channels that use every sink between them, and rings so small *)
(* that some are full at times and one can hold more than one line.         *)
(***************************************************************************)
EXTENDS DataPath, TLC

CONSTANTS ext, nat, l1, l2, l3, l4, l5, l6

MCOutput == (ext :> <<l1, l2, l3, l4>>) @@ (nat :> <<l5, l6>>)
MCKind == (l1 :> "partial") @@ (l2 :> "text") @@ (l3 :> "event") @@ (l4 :> "log")
          @@ (l5 :> "metric") @@ (l6 :> "dirty")
MCFifoSize == (ext :> 2) @@ (nat :> 1) @@ ("metric" :> 1) @@ ("event" :> 1)
MCSettings ==
  {<<"web_server", "kafka", FALSE>>, <<"kafka", "logs", FALSE>>, <<"web_server", "kafka", TRUE>>}
===========================================================================
