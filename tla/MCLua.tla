-------------------------------- MODULE MCLua --------------------------------
(***************************************************************************)
(* Three addresses for the heap, with the kinds that matter to each other: *)
(* a weak table of either sort, a table that may have a finalizer, and a   *)
(* closure or a string.  Two objects and three integers as keys of the      *)
(* table, which collide in hash parts of two and of four nodes.            *)
(***************************************************************************)
EXTENDS Lua, TLC

CONSTANTS A1, A2, A3, K1, K2

MCObj == {A1, A2, A3}
MCKinds == {A1 :> "weakvalue" @@ A2 :> "table" @@ A3 :> "closure",
            A1 :> "ephemeron" @@ A2 :> "table" @@ A3 :> "string"}
MCIntKeys == 1 .. 3
MCHash == K1 :> 0 @@ K2 :> 3

\* What a behaviour does not exercise stays as it was, and the heap is of one kind then.
MCInit == LuaInit /\ (part # "heap" => kind[A1] = "weakvalue")

\* A table holds three of its five keys at a time.
MaxHeld == 3
Held == {k \in Keys : map[k] # Empty}

MCNext == LuaNext /\ Cardinality(Held') <= MaxHeld

MCSpec == MCInit /\ [][MCNext]_luaVars /\ ScriptFairness

=============================================================================
