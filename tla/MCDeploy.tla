----------------------------- MODULE MCDeploy -----------------------------
(* Instances of Deploy for TLC: three programs, one without constants, one *)
(* with constants and as many pipelines as the table has room for, and one *)
(* vm_load_program refuses.                                                *)
EXTENDS Deploy, TLC

CONSTANTS plain, full, oversized

MCProgram   == {plain, full, oversized}
MCHasConsts == {full, oversized}
MCOversized == {oversized}
MCPipelines == (plain :> 1) @@ (full :> 2) @@ (oversized :> 1)

MCFaultFree == {}
MCFaults    == {"flash", "task", "heap"}
MCTaskFault == {"task"}
MCFlashFault == {"flash"}
===========================================================================
