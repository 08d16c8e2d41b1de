------------------------------- MODULE LuaScript -------------------------------
(***************************************************************************)
(* One script in the sandbox (lua_sandbox.c): it calls functions, some of  *)
(* them protected, and the hardware library, and finalizers run in         *)
(* between; a hook looks at the deadline every HookCount instructions.     *)
(* What a script computes is left out: it may do anything at any moment.   *)
(* Time is counted in rounds of the hook, which take some time each.       *)
(***************************************************************************)
EXTENDS Integers, Sequences

CONSTANTS
    MaxRuntime,     \* LUA_MAX_RUNTIME_MS
    MaxDelay,       \* the longest delay a script may ask for
    HookCount,      \* instructions between two calls of the hook
    MaxFrames       \* bound on calls inside each other

ASSUME ScriptAssumption ==
    MaxRuntime \in Nat /\ MaxDelay \in Nat /\ HookCount \in Nat \ {0, 1} /\ MaxFrames \in Nat \ {0}

VARIABLES
    frames,     \* the calls: "plain", "protected" or "finalizer"; none between scripts
    hook,       \* instructions until the hook is called; 0 when it is not set
    clock,      \* time since the script was started, up to just after the deadline
    catches     \* the script protects calls

scriptVars == <<frames, hook, clock, catches>>

ScriptRuns == frames # <<>>
InFinalizer == ScriptRuns /\ frames[Len(frames)] = "finalizer"

ScriptInit == frames = <<>> /\ hook = 0 /\ clock = 0 /\ catches = FALSE

\* lua_sandbox_exec up to the call.  A text that does not compile leaves the hook set.
Exec(compiles) ==
    /\ ~ScriptRuns
    /\ hook' = HookCount /\ clock' = 0
    /\ catches' \in BOOLEAN
    /\ frames' = IF compiles THEN <<"plain">> ELSE <<>>

Passes(time) == clock' = IF clock + time > MaxRuntime THEN MaxRuntime + 1 ELSE clock + time

\* The last call returns or fails: lua_sandbox_exec takes the hook off and returns.
Leave(n, rest) ==
    /\ frames' = SubSeq(frames, 1, n)
    /\ hook' = IF n = 0 THEN 0 ELSE rest

\* An error goes to the innermost protected call, which returns it, or ends the script.
Raise(rest) ==
    LET catching == {i \in 1 .. Len(frames) : frames[i] # "plain"}
    IN  IF catching = {} THEN Leave(0, rest)
        ELSE Leave((CHOOSE i \in catching : \A j \in catching : j <= i) - 1, rest)

\* An instruction that leaves the hook where it was set; none does so in a finalizer, for
\* which hooks are off.
Counted == ~InFinalizer /\ ScriptRuns /\ hook > 1

\* A jump, an assignment, a call, or an allocation that runs a finalizer.
Instruction ==
    /\ Counted
    /\ hook' = hook - 1
    /\ \/ UNCHANGED frames
       \/ /\ Len(frames) < MaxFrames
          /\ \E kind \in {"plain", "finalizer"} \cup (IF catches THEN {"protected"} ELSE {}) :
                frames' = Append(frames, kind)
    /\ UNCHANGED <<clock, catches>>

ReturnFrame == Counted /\ Leave(Len(frames) - 1, hook - 1) /\ UNCHANGED <<clock, catches>>

\* The end of a finalizer; an error in it is only reported.
EndFinalizer == InFinalizer /\ Leave(Len(frames) - 1, hook) /\ UNCHANGED <<clock, catches>>

\* The hardware library raises an error for wrong arguments and unknown modes.
Refused == Counted /\ Raise(hook - 1) /\ UNCHANGED <<clock, catches>>

\* hw.delay, in a finalizer as well.
Delay ==
    /\ Counted \/ InFinalizer
    /\ Passes(MaxDelay)
    /\ hook' = IF InFinalizer THEN hook ELSE hook - 1
    /\ UNCHANGED <<frames, catches>>

\* Mutated form of Hook: a script that is late is only reported.
HookReports ==
    /\ ScriptRuns /\ ~InFinalizer /\ hook = 1
    /\ Passes(1)
    /\ hook' = HookCount
    /\ UNCHANGED <<frames, catches>>

\* The instruction that calls lua_deadline_hook.
Hook ==
    /\ ScriptRuns /\ ~InFinalizer /\ hook = 1
    /\ Passes(1)
    /\ IF clock > MaxRuntime THEN Raise(HookCount) ELSE hook' = HookCount /\ UNCHANGED frames
    /\ UNCHANGED catches

Runs == Instruction \/ ReturnFrame \/ Refused \/ Delay \/ Hook

ScriptNext == (\E compiles \in BOOLEAN : Exec(compiles)) \/ Runs \/ EndFinalizer

\* The task of the script gets the processor, and a finalizer ends.
ScriptFairness == WF_scriptVars(Runs) /\ WF_scriptVars(EndFinalizer)

(***************************************************************************)
(* Properties                                                              *)
(***************************************************************************)

ScriptTypeOK ==
    /\ frames \in Seq({"plain", "protected", "finalizer"}) /\ Len(frames) <= MaxFrames
    /\ hook \in 0 .. HookCount /\ (ScriptRuns => hook > 0)
    /\ clock \in 0 .. MaxRuntime + 1 /\ catches \in BOOLEAN

\* A script that protects no call ends, whatever it does: the hook ends it after its
\* deadline, provided its finalizers end by themselves.  The variables keep their types.
ScriptEnds == []ScriptTypeOK /\ ((ScriptRuns /\ ~catches) ~> ~ScriptRuns)

\* "Execution deadline enforcement": any script ends.
DeadlineEnforced == ScriptRuns ~> ~ScriptRuns

=============================================================================
