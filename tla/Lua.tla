---------------------------------- MODULE Lua ----------------------------------
(* The Lua of the sandbox: its heap, a table, and the run of a script.  The tables of
   LuaHeap hold one entry, that of LuaTable takes no memory and the scripts of LuaScript
   compute nothing, so that a behaviour exercises one of the three. *)
EXTENDS LuaHeap, LuaTable, LuaScript

VARIABLE part

luaVars == <<part, heapVars, tableVars, scriptVars>>

LuaInit == part \in {"heap", "table", "script"} /\ HeapInit /\ TableInit /\ ScriptInit

LuaNext ==
    \/ part = "heap" /\ HeapNext /\ UNCHANGED <<part, tableVars, scriptVars>>
    \/ part = "table" /\ TableNext /\ UNCHANGED <<part, heapVars, scriptVars>>
    \/ part = "script" /\ ScriptNext /\ UNCHANGED <<part, heapVars, tableVars>>

LuaSpec == LuaInit /\ [][LuaNext]_luaVars /\ ScriptFairness

=============================================================================
