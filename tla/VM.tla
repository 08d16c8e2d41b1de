--------------------------------- MODULE VM ---------------------------------
(***************************************************************************)
(* One pipeline on the bytecode VM: the dispatch of scheduler_task         *)
(* (scheduler.c) and the interpreter loop of vm_execute (vm.c).            *)
(*                                                                         *)
(* Values are abstracted away: the stack is its depth, and a conditional   *)
(* jump may go either way.  What is kept is what bounds an execution: the  *)
(* stack checks, the program counter, the instruction cap, and the time    *)
(* that passes between two looks at the deadline.                          *)
(***************************************************************************)
EXTENDS Integers, Sequences

CONSTANTS
  Codes,      \* the instruction arrays considered
  Depth,      \* SYS_STACK_DEPTH
  Cap,        \* VM_MAX_INSTRUCTIONS_PER_EXEC
  Deadline,   \* max_execution_ms of the pipeline
  MaxCost,    \* longest time in ms of an instruction, delays aside
  MaxImm      \* largest 16-bit immediate

Op == {"nop", "load", "pop", "reduce", "swap", "jmp", "jmpif",
       "halt", "yield", "log", "delay", "start", "invalid"}

\* arg: a jump's target, a delay in ms, the max_execution_ms of a
\* PIPELINE_START, the values an operation pops.
Instructions == [op : Op, arg : 0..MaxImm]

ASSUME VMAssumption ==
  /\ Depth \in Nat \ {0}
  /\ Cap \in Nat
  /\ MaxCost \in Nat
  /\ MaxImm \in Nat
  /\ Deadline \in 0..MaxImm
  /\ Codes \subseteq Seq(Instructions)

VARIABLES
  code,      \* s_instructions
  loaded,    \* s_program_info.loaded
  first,     \* instruction_offset of the pipeline
  count,     \* instructions the compiler emitted for it
  at,        \* "wait", "loop" in vm_execute, or "done" with it
  pc,        \* ctx->pc
  sp,        \* values on the stack, ctx->sp + 1
  status,    \* ctx->status
  batch,     \* batch_counter
  elapsed,   \* now_ms() - ctx->start_tick
  maxExec    \* ctx->max_execution_ms

program == <<code, loaded, first, count>>
vars    == <<program, at, pc, sp, status, batch, elapsed, maxExec>>

CheckInterval == 8     \* VM_DEADLINE_CHECK_INTERVAL

Init ==
  /\ code \in Codes
  /\ loaded \in BOOLEAN
  /\ \E f \in 0..Len(code) : \E n \in 0..(Len(code) - f) : first = f /\ count = n
  /\ at = "wait" /\ status = "idle"
  /\ pc = first /\ sp = 0 /\ batch = 0 /\ elapsed = 0 /\ maxExec = Deadline

\* The trigger fires: vm_context_reset, then vm_execute up to its loop.
Dispatch ==
  /\ at = "wait"
  /\ pc' = first /\ sp' = 0 /\ batch' = 0 /\ elapsed' = 0 /\ maxExec' = Deadline
  /\ \/ loaded  /\ at' = "loop" /\ status' = "running"
     \/ ~loaded /\ at' = "done" /\ status' = "error"
  /\ UNCHANGED program

\* vm_execute returns; the scheduler publishes the event and waits.
Publish ==
  /\ at = "done"
  /\ at' = "wait"
  /\ UNCHANGED <<program, pc, sp, status, batch, elapsed, maxExec>>

(***************************************************************************)
(* The three checks at the head of the loop, in their order.               *)
(***************************************************************************)
Stop(s) ==
  /\ at' = "done" /\ status' = s
  /\ UNCHANGED <<program, pc, sp, batch, elapsed, maxExec>>

\* Mutated form of CheckDue: the timer is read half as often.
CheckDueSeldom == batch % (2 * CheckInterval) = 0

CheckDue == batch % CheckInterval = 0

DeadlineMissed == CheckDue /\ elapsed > Deadline

CapReached == batch >= Cap

OffTheEnd == pc >= Len(code)

TimeOut  == at = "loop" /\ DeadlineMissed /\ Stop("timeout")
HitCap   == at = "loop" /\ ~DeadlineMissed /\ CapReached /\ Stop("timeout")
RunOff   == at = "loop" /\ ~DeadlineMissed /\ ~CapReached /\ OffTheEnd /\ Stop("halted")

(***************************************************************************)
(* Fetch and execute.                                                      *)
(***************************************************************************)
Instr == code[pc + 1]

\* Mutated form of Spend: the counter restarts with every check.
SpendRestarts(delay) ==
  /\ at = "loop" /\ ~DeadlineMissed /\ ~CapReached /\ ~OffTheEnd
  /\ batch' = IF CheckDue THEN 1 ELSE batch + 1
  /\ \E c \in 0..MaxCost : elapsed' = elapsed + delay + c
  /\ UNCHANGED program

\* An instruction has been fetched and takes delay + c ms.
Spend(delay) ==
  /\ at = "loop" /\ ~DeadlineMissed /\ ~CapReached /\ ~OffTheEnd
  /\ batch' = batch + 1
  /\ \E c \in 0..MaxCost : elapsed' = elapsed + delay + c
  /\ UNCHANGED program

Continue == at' = "loop" /\ UNCHANGED status
End(s)   == at' = "done" /\ status' = s

\* Mutated form of Stack: stack_push lets one value too many in.
StackDeep(pops, pushes) ==
  \/ sp < pops  /\ sp' = 0 /\ End("error")
  \/ sp >= pops /\ IF sp - pops + pushes <= Depth + 1
                   THEN sp' = sp - pops + pushes /\ Continue
                   ELSE sp' = sp - pops /\ End("error")

\* stack_pop fails on an empty stack, stack_push on a full one; what was
\* popped before stays popped.
Stack(pops, pushes) ==
  \/ sp < pops  /\ sp' = 0 /\ End("error")
  \/ sp >= pops /\ IF sp - pops + pushes <= Depth
                   THEN sp' = sp - pops + pushes /\ Continue
                   ELSE sp' = sp - pops /\ End("error")

\* LOAD_IMM_I/F/B, LOAD_VAR, LOAD_CONST, DRV_READ; and DUP, which pushes 0
\* when the stack is empty.
Load ==
  /\ Spend(0) /\ Instr.op = "load"
  /\ Stack(0, 1)
  /\ pc' = pc + 1 /\ UNCHANGED maxExec

\* POP, STORE_VAR, DRV_WRITE, DRV_PWM, MQTT_PUB, BLE_NOTIFY, DISP_VAL.
Pop ==
  /\ Spend(0) /\ Instr.op = "pop"
  /\ Stack(1, 0)
  /\ pc' = pc + 1 /\ UNCHANGED maxExec

\* Arithmetic, comparisons and logic: arg operands, one result.
Reduce ==
  /\ Spend(0) /\ Instr.op = "reduce"
  /\ Stack(Instr.arg, 1)
  /\ pc' = pc + 1 /\ UNCHANGED maxExec

\* SWAP fails without popping anything.
Swap ==
  /\ Spend(0) /\ Instr.op = "swap"
  /\ \/ sp >= 2 /\ Continue
     \/ sp < 2  /\ End("error")
  /\ pc' = pc + 1 /\ UNCHANGED <<sp, maxExec>>

\* LOG pops up to arg values and never fails.
Log ==
  /\ Spend(0) /\ Instr.op = "log"
  /\ sp' = (IF sp >= Instr.arg THEN sp - Instr.arg ELSE 0)
  /\ pc' = pc + 1 /\ Continue /\ UNCHANGED maxExec

\* JMP: the target is an index into s_instructions.
Jump ==
  /\ Spend(0) /\ Instr.op = "jmp"
  /\ pc' = Instr.arg
  /\ Continue /\ UNCHANGED <<sp, maxExec>>

\* JMP_IF, JMP_IFNOT.
Branch ==
  /\ Spend(0) /\ Instr.op = "jmpif"
  /\ Stack(1, 0)
  /\ pc' = pc + 1 \/ (sp >= 1 /\ pc' = Instr.arg)
  /\ UNCHANGED maxExec

\* Mutated form of Ends: HALT sets the status and the loop goes on.
EndsLate ==
  /\ Spend(0)
  /\ \/ Instr.op = "halt"    /\ at' = "loop" /\ status' = "halted"
     \/ Instr.op = "yield"   /\ End("idle")
     \/ Instr.op = "invalid" /\ End("error")
  /\ pc' = pc + 1 /\ UNCHANGED <<sp, maxExec>>

\* HALT, PIPELINE_END, YIELD, and opcodes the VM does not know.
Ends ==
  /\ Spend(0)
  /\ \/ Instr.op = "halt"    /\ End("halted")
     \/ Instr.op = "yield"   /\ End("idle")
     \/ Instr.op = "invalid" /\ End("error")
  /\ pc' = pc + 1 /\ UNCHANGED <<sp, maxExec>>

\* NOP, INC_VAR, DISP_TEXT.
Plain ==
  /\ Spend(0) /\ Instr.op = "nop"
  /\ pc' = pc + 1 /\ Continue /\ UNCHANGED <<sp, maxExec>>

\* DELAY_MS blocks the scheduler task, for ctx->max_execution_ms at most.
DelayMs ==
  /\ Spend(IF Instr.arg > maxExec THEN maxExec ELSE Instr.arg) /\ Instr.op = "delay"
  /\ pc' = pc + 1 /\ Continue /\ UNCHANGED <<sp, maxExec>>

\* PIPELINE_START: the context takes over the immediate, whichever
\* pipeline it belongs to; the deadline of the execution stays.
Start ==
  /\ Spend(0) /\ Instr.op = "start"
  /\ maxExec' = Instr.arg
  /\ pc' = pc + 1 /\ Continue /\ UNCHANGED sp

Execute == Load \/ Pop \/ Reduce \/ Swap \/ Log \/ Jump \/ Branch \/ Ends
           \/ Plain \/ DelayMs \/ Start

Loop == TimeOut \/ HitCap \/ RunOff \/ Execute

Next == Dispatch \/ Loop \/ Publish

Spec == Init /\ [][Next]_vars

\* The scheduler task is ready whenever it is not delayed.
FairSpec == Spec /\ WF_vars(Loop) /\ WF_vars(Publish)

(***************************************************************************)
(* Properties.                                                             *)
(***************************************************************************)
TypeOK ==
  /\ code \in Codes
  /\ loaded \in BOOLEAN
  /\ first \in Nat /\ count \in Nat /\ first + count <= Len(code)
  /\ at \in {"wait", "loop", "done"}
  /\ pc \in 0..(MaxImm + Len(code))
  /\ sp \in 0..Depth
  /\ status \in {"idle", "running", "halted", "error", "timeout"}
  /\ batch \in 0..Cap
  /\ elapsed \in Nat
  /\ maxExec \in 0..MaxImm

\* What max_execution_ms may be while the code runs.
Allowances == {Deadline} \cup
              {code[i].arg : i \in {j \in 1..Len(code) : code[j].op = "start"}}

\* An execution holds the scheduler task for no more than CheckInterval of
\* the longest instructions beyond its deadline (vm.c:230 against vm.c:648).
OverrunBounded ==
  \A longest \in 0..MaxImm :
    (\A a \in Allowances : a <= longest)
      => elapsed <= Deadline + CheckInterval * (longest + MaxCost)

\* Where the pipeline's own instructions are.
Own == first .. first + count - 1

\* What the compiler emits ends with HALT and PIPELINE_END.
Ended == count > 0 /\ code[first + count].op = "halt"

\* What the compiler emits for one pipeline: PIPELINE_START, the nodes, the
\* end, and jumps to nodes, counted from the pipeline's own start.  They are
\* not moved when the pipelines are put one behind the other.
Emitted ==
  /\ Ended /\ code[first + 1].op = "start"
  /\ \A p \in Own : code[p + 1].op \in {"jmp", "jmpif"} => code[p + 1].arg \in 1 .. count - 1

\* The VM knows where a pipeline starts but not where it ends (vm.c:248): an
\* execution leaves a pipeline with an end only by a jump the pipeline itself
\* holds, never by going on, whatever other pipelines are loaded around it.
LeftByJump ==
  Ended /\ at = "loop" /\ pc \notin Own
    => \E p \in Own : code[p + 1].op \in {"jmp", "jmpif"} /\ code[p + 1].arg \notin Own

\* if_true is the "Node ID to jump to if condition is true"
\* (03_ir_json_schema.json:498), a node "within the pipeline" (:418): what the
\* compiler emits runs in its own pipeline.  The VM takes a target as an index
\* into the whole program (vm.c:504): this holds of the first pipeline only.
Contained == Emitted /\ at = "loop" => pc \in Own

\* Every execution path is bounded (vm.c:10): vm_execute returns.
Terminates == at = "loop" ~> at = "done"

\* No instruction is started after the deadline: "Deadline is checked every
\* instruction" (vm.c:12).
DeadlineEveryInstruction == [][Execute => elapsed <= Deadline]_vars

\* An execution goes on where a YIELD left it: "pause and resume later"
\* (vm.c:526).
YieldResumes == [][Dispatch /\ status = "idle" => pc' = pc]_vars
=============================================================================
