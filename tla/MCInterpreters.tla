--------------------------- MODULE MCInterpreters ---------------------------
(* The two interpreters of the firmware, on the instances of MCVM and       *)
(* MCLua.  They share no state: a behaviour runs bytecode or Lua, and the   *)
(* other one has nothing loaded.                                            *)
EXTENDS MCVM, MCLua

VARIABLE runs

interpreterVars == <<runs, vars, luaVars>>

BothInit ==
  /\ runs \in {"bytecode", "lua"}
  /\ Init /\ (runs = "lua" => code = <<>> /\ loaded = FALSE)
  /\ MCInit /\ (runs = "bytecode" => part = "table" /\ kind[A1] = "weakvalue")

BothNext ==
  \/ runs = "bytecode" /\ Next /\ UNCHANGED <<runs, luaVars>>
  \/ runs = "lua" /\ MCNext /\ UNCHANGED <<runs, vars>>

\* Fairness and ScriptFairness, each for the interpreter that runs.
BothFair ==
  /\ WF_vars(runs = "bytecode" /\ Loop) /\ WF_vars(runs = "bytecode" /\ Publish)
  /\ WF_scriptVars(runs = "lua" /\ Runs) /\ WF_scriptVars(runs = "lua" /\ EndFinalizer)

BothSpec == BothInit /\ [][BothNext]_interpreterVars /\ BothFair
=============================================================================
