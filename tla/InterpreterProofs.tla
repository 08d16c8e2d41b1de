--------------------------- MODULE InterpreterProofs ---------------------------
(***************************************************************************)
(* Proofs about the two interpreters of the firmware.                      *)
(*                                                                         *)
(* VM, the bytecode interpreter: its types, how far an execution can       *)
(* overrun its deadline, and how it can leave its pipeline.                *)
(*                                                                         *)
(* LuaHeap, the heap of the Lua sandbox: that nothing in use is freed, and *)
(* what is finalized, and when.  The invariant, HeapInv, says what the     *)
(* collector may still free at each stage of a cycle: what the last atomic *)
(* step has condemned, which nothing else refers to.                       *)
(***************************************************************************)
EXTENDS VM, LuaHeap, TLAPS, FiniteSetTheorems

-----------------------------------------------------------------------------
(* The bytecode interpreter.                                                *)

\* What every instruction does besides its own work.
LEMMA FetchedInstr ==
  ASSUME TypeOK, at = "loop", ~OffTheEnd
  PROVE  /\ Instr \in Instructions /\ Instr.op \in Op /\ Instr.arg \in 0..MaxImm
         /\ pc + 1 \in 1..Len(code) /\ Instr = code[pc + 1]
  <1>1. code \in Seq(Instructions) /\ pc \in Nat
    BY VMAssumption DEF TypeOK
  <1>2. pc + 1 \in 1..Len(code)
    BY <1>1 DEF OffTheEnd
  <1>3. Instr \in Instructions
    BY <1>1, <1>2 DEF Instr
  <1> QED
    BY <1>2, <1>3 DEF Instructions, Instr

\* The cases of Execute, reduced to what they do to the stack, the program
\* counter, the clock and the context's cap.
LEMMA ExecuteCases ==
  ASSUME TypeOK, Execute
  PROVE  /\ at = "loop" /\ ~DeadlineMissed /\ ~CapReached /\ ~OffTheEnd
         /\ UNCHANGED program
         /\ batch' = batch + 1
         /\ sp' \in 0..Depth
         /\ pc' = pc + 1 \/ (Instr.op \in {"jmp", "jmpif"} /\ pc' = Instr.arg)
         /\ maxExec' = maxExec \/ (Instr.op = "start" /\ maxExec' = Instr.arg)
         /\ \E d \in 0..maxExec, c \in 0..MaxCost : elapsed' = elapsed + d + c
         /\ \/ at' = "loop" /\ status' = status /\ Instr.op # "halt"
            \/ at' = "done" /\ status' \in {"idle", "halted", "error"}
  <1>1. at = "loop" /\ ~DeadlineMissed /\ ~CapReached /\ ~OffTheEnd
    BY DEF Execute, Load, Pop, Reduce, Swap, Log, Jump, Branch, Ends, Plain, DelayMs, Start, Spend
  <1>2. /\ sp \in Nat /\ Depth \in Nat /\ sp <= Depth /\ 0 < Depth
        /\ maxExec \in Nat /\ elapsed \in Nat /\ Instr.arg \in Nat
    BY <1>1, FetchedInstr, VMAssumption DEF TypeOK
  <1>3. ASSUME NEW k \in Nat, NEW n \in {0, 1}, Stack(k, n)
        PROVE  /\ sp' \in 0..Depth
               /\ \/ at' = "loop" /\ status' = status
                  \/ at' = "done" /\ status' \in {"idle", "halted", "error"}
    BY <1>2, <1>3 DEF Stack, Continue, End
  <1>4. ASSUME Spend(0)
        PROVE  /\ UNCHANGED program /\ batch' = batch + 1
               /\ \E d \in 0..maxExec, c \in 0..MaxCost : elapsed' = elapsed + d + c
    <2>1. PICK c \in 0..MaxCost : elapsed' = elapsed + 0 + c
      BY <1>4 DEF Spend
    <2>2. 0 \in 0..maxExec
      BY <1>2
    <2> QED
      BY <1>4, <2>1, <2>2 DEF Spend
  <1>5. CASE Load \/ Pop \/ Reduce \/ Branch
    BY <1>1, <1>2, <1>3, <1>4, <1>5 DEF Load, Pop, Reduce, Branch
  <1>6. CASE Swap \/ Log \/ Jump \/ Ends \/ Plain \/ Start
    BY <1>1, <1>2, <1>4, <1>6 DEF Swap, Log, Jump, Ends, Plain, Start, Continue, End
  <1>7. CASE DelayMs
    <2> DEFINE held == IF Instr.arg > maxExec THEN maxExec ELSE Instr.arg
    <2>1. held \in 0..maxExec
      BY <1>2
    <2>2. PICK c \in 0..MaxCost : elapsed' = elapsed + held + c
      BY <1>7 DEF DelayMs, Spend
    <2>3. \E d \in 0..maxExec, e \in 0..MaxCost : elapsed' = elapsed + d + e
      BY <2>1, <2>2
    <2> QED
      BY <1>1, <1>2, <1>7, <2>3 DEF DelayMs, Spend, Continue
  <1> QED
    BY <1>5, <1>6, <1>7 DEF Execute

-----------------------------------------------------------------------------
\* Every step keeps the types: the stack stays within its array, the batch
\* counter within the cap.
LEMMA TypeStep == TypeOK /\ [Next]_vars => TypeOK'
  <1> SUFFICES ASSUME TypeOK, [Next]_vars PROVE TypeOK'
    OBVIOUS
  <1> USE VMAssumption
  <1>1. CASE Dispatch
    <2>1. first \in 0..(MaxImm + Len(code))
      BY DEF TypeOK
    <2> QED
      BY <1>1, <2>1 DEF Dispatch, TypeOK, program
  <1>2. CASE Publish
    BY <1>2 DEF Publish, TypeOK, program
  <1>3. CASE TimeOut \/ HitCap \/ RunOff
    BY <1>3 DEF TimeOut, HitCap, RunOff, Stop, TypeOK, program
  <1>4. CASE Execute
    <2>1. code \in Seq(Instructions) /\ Len(code) \in Nat
      BY DEF TypeOK
    <2>2. UNCHANGED program /\ sp' \in 0..Depth /\ batch' = batch + 1 /\ batch < Cap
      BY <1>4, ExecuteCases DEF CapReached, TypeOK
    <2>3. /\ Instr.arg \in 0..MaxImm /\ pc + 1 \in 1..Len(code)
      BY <1>4, ExecuteCases, FetchedInstr
    <2>4. pc' \in 0..(MaxImm + Len(code)) /\ maxExec' \in 0..MaxImm
      BY <1>4, ExecuteCases, <2>1, <2>3, SMTT(20) DEF TypeOK
    <2>5. elapsed' \in Nat
      BY <1>4, ExecuteCases DEF TypeOK
    <2>6. at' \in {"wait", "loop", "done"}
          /\ status' \in {"idle", "running", "halted", "error", "timeout"}
      BY <1>4, ExecuteCases DEF TypeOK
    <2> QED
      BY <2>2, <2>4, <2>5, <2>6 DEF TypeOK, program
  <1>5. CASE UNCHANGED vars
    BY <1>5 DEF vars, TypeOK, program
  <1> QED
    BY <1>1, <1>2, <1>3, <1>4, <1>5 DEF Next, Loop

\* The pipeline starts where its code is, with an empty stack.
LEMMA TypeInit == Init => TypeOK
  <1> SUFFICES ASSUME Init PROVE TypeOK
    OBVIOUS
  <1>1. Len(code) \in Nat
    BY VMAssumption DEF Init
  <1> QED
    BY <1>1, VMAssumption DEF Init, TypeOK

\* Memory safety of the interpreter for any code: the stack never leaves its
\* SYS_STACK_DEPTH entries and no execution exceeds the instruction cap.
THEOREM TypeCorrect == Spec => []TypeOK
  BY TypeInit, TypeStep, PTL DEF Spec

-----------------------------------------------------------------------------
(***************************************************************************)
(* The deadline.  Between two looks at it lie CheckInterval instructions,  *)
(* each of at most longest + MaxCost ms: after the n-th of them the        *)
(* overrun is at most n times that.                                        *)
(***************************************************************************)

\* Instructions since the deadline was last looked at.
Unchecked == IF CheckDue THEN CheckInterval ELSE batch % CheckInterval

OverrunInv(longest) ==
  /\ TypeOK
  /\ Deadline <= longest /\ maxExec <= longest
  /\ \A i \in 1..Len(code) : code[i].op = "start" => code[i].arg <= longest
  /\ elapsed <= Deadline + CheckInterval * (longest + MaxCost)
  /\ at = "loop" => elapsed <= Deadline + Unchecked * (longest + MaxCost)

\* The counter of unchecked instructions restarts with a check.
LEMMA UncheckedStep ==
  ASSUME batch \in Nat, batch' = batch + 1
  PROVE  /\ Unchecked \in 1..CheckInterval /\ Unchecked' \in 1..CheckInterval
         /\ CheckDue => Unchecked' = 1
         /\ ~CheckDue => Unchecked' = Unchecked + 1
  BY DEF Unchecked, CheckDue, CheckInterval

\* Multiples of the longest instruction are ordered as their factors are.
LEMMA TimesBound ==
  ASSUME NEW x \in Nat, NEW n \in 1..CheckInterval
  PROVE  n * x \in Nat /\ n * x <= CheckInterval * x /\ (n + 1) * x = n * x + x
  <1>1. n \in {1, 2, 3, 4, 5, 6, 7, 8}
    BY DEF CheckInterval
  <1> QED
    BY <1>1 DEF CheckInterval

\* One instruction adds at most its share to the overrun.
LEMMA OverrunStep ==
  ASSUME NEW longest \in 0..MaxImm, OverrunInv(longest), [Next]_vars
  PROVE  OverrunInv(longest)'
  <1> DEFINE share == longest + MaxCost
  <1>1. TypeOK'
    BY TypeStep DEF OverrunInv
  <1>2. share \in Nat /\ Deadline \in Nat /\ elapsed \in Nat /\ batch \in Nat
    BY VMAssumption DEF OverrunInv, TypeOK
  <1> HIDE DEF share
  <1>3. CheckInterval * share \in Nat
    BY <1>2, TimesBound DEF CheckInterval
  <1>4. CASE Execute
    <2>1. /\ at = "loop" /\ ~DeadlineMissed /\ UNCHANGED program /\ batch' = batch + 1
          /\ maxExec' = maxExec \/ (Instr.op = "start" /\ maxExec' = Instr.arg)
      BY <1>4, ExecuteCases DEF OverrunInv
    <2>2. maxExec' <= longest
      BY <1>4, <2>1, ExecuteCases, FetchedInstr DEF OverrunInv
    <2>3. PICK d \in 0..maxExec, c \in 0..MaxCost : elapsed' = elapsed + d + c
      BY <1>4, ExecuteCases DEF OverrunInv
    <2>4. elapsed' \in Nat /\ elapsed' <= elapsed + share
      BY <1>2, <2>3, VMAssumption DEF OverrunInv, TypeOK, share
    <2>5. elapsed' <= Deadline + Unchecked' * share
      <3>1. CASE CheckDue
        <4>1. elapsed <= Deadline
          BY <1>2, <2>1, <3>1 DEF DeadlineMissed
        <4>2. Unchecked' * share = share
          BY <1>2, <2>1, <3>1, UncheckedStep
        <4> QED
          BY <1>2, <2>4, <4>1, <4>2
      <3>2. CASE ~CheckDue
        <4>1. elapsed <= Deadline + Unchecked * share
          BY <2>1 DEF OverrunInv, share
        <4>2. Unchecked' = Unchecked + 1 /\ Unchecked \in 1..CheckInterval
          BY <1>2, <2>1, <3>2, UncheckedStep
        <4>3. Unchecked' * share = Unchecked * share + share /\ Unchecked * share \in Nat
          BY <1>2, <4>2, TimesBound
        <4> QED
          BY <1>2, <2>4, <4>1, <4>3
      <3> QED
        BY <3>1, <3>2
    <2>6. Unchecked' \in 1..CheckInterval
      BY <1>2, <2>1, UncheckedStep
    <2>7. Unchecked' * share <= CheckInterval * share /\ Unchecked' * share \in Nat
      BY <1>2, <2>6, TimesBound
    <2>8. elapsed' <= Deadline + CheckInterval * share
      BY <1>2, <1>3, <2>4, <2>5, <2>7
    <2> QED
      BY <1>1, <2>1, <2>2, <2>5, <2>8 DEF OverrunInv, program, share
  <1>5. CASE Dispatch
    <2>1. elapsed' = 0 /\ batch' = 0 /\ maxExec' = Deadline /\ UNCHANGED program
      BY <1>5 DEF Dispatch
    <2>2. Unchecked' = CheckInterval
      BY <2>1 DEF Unchecked, CheckDue, CheckInterval
    <2>3. Deadline <= longest
      BY DEF OverrunInv
    <2> QED
      BY <1>1, <1>2, <1>3, <2>1, <2>2, <2>3 DEF OverrunInv, program, share
  <1>6. CASE TimeOut \/ HitCap \/ RunOff \/ Publish \/ UNCHANGED vars
    <2>1. /\ UNCHANGED <<program, maxExec, elapsed, batch>>
          /\ at' = "loop" => at = "loop"
      BY <1>6 DEF TimeOut, HitCap, RunOff, Publish, Stop, vars
    <2>2. Unchecked' = Unchecked
      BY <2>1 DEF Unchecked, CheckDue
    <2> QED
      BY <1>1, <2>1, <2>2 DEF OverrunInv, program
  <1> QED
    BY <1>4, <1>5, <1>6 DEF Next, Loop

\* The overrun invariant for every bound on what the code asks for.
OverrunAll ==
  /\ TypeOK
  /\ \A longest \in 0..MaxImm :
       (\A a \in Allowances : a <= longest) => OverrunInv(longest)

\* The execution starts with no time spent.
LEMMA OverrunInit == Init => OverrunAll
  <1> SUFFICES ASSUME Init, TypeOK PROVE OverrunAll
    BY TypeInit
  <1> SUFFICES ASSUME NEW longest \in 0..MaxImm, \A a \in Allowances : a <= longest
               PROVE  OverrunInv(longest)
    BY DEF OverrunAll
  <1>1. /\ Deadline <= longest
        /\ \A i \in 1..Len(code) : code[i].op = "start" => code[i].arg <= longest
    BY DEF Allowances
  <1>2. CheckInterval * (longest + MaxCost) \in Nat /\ Deadline \in Nat
    BY VMAssumption DEF CheckInterval
  <1> QED
    BY <1>1, <1>2 DEF Init, OverrunInv

\* An execution holds the scheduler task for at most CheckInterval of the
\* longest instructions beyond its deadline, whatever the code, the deadline
\* and the delays in it.
THEOREM Overrun == Spec => []OverrunBounded
  <1>1. OverrunAll /\ [Next]_vars => OverrunAll'
    <2> SUFFICES ASSUME OverrunAll, [Next]_vars,
                        NEW longest \in 0..MaxImm, (\A a \in Allowances : a <= longest)'
                 PROVE  OverrunInv(longest)'
      BY TypeStep DEF OverrunAll
    <2>1. UNCHANGED code
      BY DEF Next, Dispatch, Loop, TimeOut, HitCap, RunOff, Stop, Execute, Load, Pop,
         Reduce, Swap, Log, Jump, Branch, Ends, Plain, DelayMs, Start, Spend, Publish,
         vars, program
    <2>2. \A a \in Allowances : a <= longest
      BY <2>1 DEF Allowances
    <2> QED
      BY <2>2, OverrunStep DEF OverrunAll
  <1>2. OverrunAll => OverrunBounded
    BY DEF OverrunAll, OverrunInv, OverrunBounded
  <1> QED
    BY OverrunInit, <1>1, <1>2, PTL DEF Spec

-----------------------------------------------------------------------------
(***************************************************************************)
(* Staying in the pipeline, or leaving it by a jump.                       *)
(***************************************************************************)
LeaveInv == TypeOK /\ LeftByJump

\* Inside the pipeline the next instruction is inside too, or the target of
\* a jump; outside nothing takes away the jump that led there.
LEMMA LeaveStep == LeaveInv /\ [Next]_vars => LeaveInv'
  <1> SUFFICES ASSUME TypeOK, LeftByJump, [Next]_vars, Ended', at' = "loop", (pc \notin Own)'
               PROVE  (\E p \in Own : code[p + 1].op \in {"jmp", "jmpif"} /\ code[p + 1].arg \notin Own)'
    BY TypeStep DEF LeaveInv, LeftByJump
  <1>1. UNCHANGED program
    BY DEF Next, Dispatch, Loop, TimeOut, HitCap, RunOff, Stop, Execute, Load, Pop,
       Reduce, Swap, Log, Jump, Branch, Ends, Plain, DelayMs, Start, Spend, Publish,
       vars, program
  <1>2. /\ UNCHANGED <<code, first, count>> /\ Own' = Own /\ Ended
        /\ first \in Nat /\ count \in Nat /\ count > 0
        /\ Own = first .. first + count - 1
    BY <1>1 DEF program, Ended, Own, TypeOK
  <1>3. SUFFICES \E p \in Own : code[p + 1].op \in {"jmp", "jmpif"} /\ code[p + 1].arg \notin Own
    BY <1>2
  <1>4. CASE Dispatch
    BY <1>2, <1>4 DEF Dispatch
  <1>5. CASE Execute
    <2>1. /\ at = "loop" /\ Instr.op # "halt" /\ Instr = code[pc + 1] /\ pc \in Nat
          /\ pc' = pc + 1 \/ (Instr.op \in {"jmp", "jmpif"} /\ pc' = Instr.arg)
      BY <1>5, ExecuteCases, FetchedInstr DEF TypeOK
    <2>2. CASE pc \notin Own
      BY <1>2, <2>1, <2>2 DEF LeftByJump
    <2>3. CASE pc \in Own
      <3>1. pc + 1 # first + count
        BY <1>2, <2>1 DEF Ended
      <3>2. pc' # pc + 1
        BY <1>2, <2>1, <2>3, <3>1
      <3> QED
        BY <1>2, <2>1, <2>3, <3>2
    <2> QED
      BY <2>2, <2>3
  <1>6. CASE TimeOut \/ HitCap \/ RunOff \/ Publish
    BY <1>6 DEF TimeOut, HitCap, RunOff, Publish, Stop
  <1>7. CASE UNCHANGED vars
    BY <1>2, <1>7 DEF vars, LeftByJump
  <1> QED
    BY <1>4, <1>5, <1>6, <1>7 DEF Next, Loop

LEMMA LeaveAlways == Spec => []LeaveInv
  <1>1. Init => LeaveInv
    BY TypeInit DEF Init, LeaveInv, LeftByJump
  <1> QED
    BY <1>1, LeaveStep, PTL DEF Spec

\* Whatever is loaded around a pipeline that has an end, an execution fetches
\* an instruction of another one only if the pipeline itself holds a jump
\* with a target outside (vm.c:248, vm.c:504).
THEOREM LeavesByJump == Spec => []LeftByJump
  <1>1. LeaveInv => LeftByJump
    BY DEF LeaveInv
  <1> QED
    BY LeaveAlways, <1>1, PTL

\* What the compiler emits as the first pipeline of a program is never left:
\* there a target counted from the pipeline's start is one into the program.
THEOREM FirstContained == Spec => [](first = 0 => Contained)
  <1>1. LeaveInv => (first = 0 => Contained)
    <2> SUFFICES ASSUME TypeOK, LeftByJump, first = 0, Emitted, at = "loop", pc \notin Own
                 PROVE  FALSE
      BY DEF LeaveInv, Contained
    <2>1. PICK p \in Own : code[p + 1].op \in {"jmp", "jmpif"} /\ code[p + 1].arg \notin Own
      BY DEF LeftByJump, Emitted
    <2>2. code[p + 1].arg \in 1 .. count - 1 /\ count \in Nat
      BY <2>1 DEF Emitted, TypeOK
    <2> QED
      BY <2>1, <2>2 DEF Own
  <1> QED
    BY LeaveAlways, <1>1, PTL

-----------------------------------------------------------------------------
(* The heap of the sandbox.                                                 *)

Whites  == {"white0", "white1"}
Stage   == {"pause", "propagate", "enteratomic", "swpallgc", "swpfinobj", "swptobefnz",
            "swpend", "callfin"}
Cell    == [col : Whites \cup {"free", "gray", "black"},
            list : {"none", "allgc", "finobj", "tobefnz"},
            key : Obj \cup {Nil}, val : Obj \cup {Nil}]

\* A heap: what is free is in no list.
IsHeap(h) == h \in [Obj -> Cell] /\ \A o \in Obj : h[o].col = "free" <=> h[o].list = "none"

\* A string has no entry, a closure no key, and an ephemeron table no entry without a key.
Shaped(h) ==
  \A o \in Obj : /\ kind[o] = "string" => h[o].key = Nil /\ h[o].val = Nil
                 /\ kind[o] = "closure" => h[o].key = Nil
                 /\ kind[o] = "ephemeron" /\ h[o].key = Nil => h[o].val = Nil

\* What the objects of S refer to is in S.
Inside(h, S) == \A o \in S : {h[o].key, h[o].val} \ {Nil} \subseteq S

\* S has what its members keep alive.
KeepsAlive(h, S) == KeptBy(h, S, {}) \subseteq S \cup {Nil}

LEMMA Palette ==
  /\ \A w \in Whites : Other(w) \in Whites /\ Other(w) # w /\ Other(Other(w)) = w
  /\ \A w \in Whites : Whites = {w, Other(w)}
  /\ "free" \notin Whites /\ "gray" \notin Whites /\ "black" \notin Whites
BY DEF Whites, Other

-----------------------------------------------------------------------------
(* What the operators do to an object.                                      *)

LEMMA MarkedObjects ==
  ASSUME NEW h, IsHeap(h), NEW S
  PROVE  /\ IsHeap(Marked(h, S))
         /\ \A o \in Obj : /\ Marked(h, S)[o].key = h[o].key /\ Marked(h, S)[o].val = h[o].val
                           /\ Marked(h, S)[o].list = h[o].list
                           /\ Marked(h, S)[o].col = IF o \in S /\ h[o].col \in Whites
                                                    THEN IF kind[o] = "string" THEN "black" ELSE "gray"
                                                    ELSE h[o].col
<1>1. ASSUME NEW o \in Obj
      PROVE  /\ Marked(h, S)[o] \in Cell
             /\ Marked(h, S)[o].key = h[o].key /\ Marked(h, S)[o].val = h[o].val
             /\ Marked(h, S)[o].list = h[o].list
             /\ Marked(h, S)[o].col = IF o \in S /\ h[o].col \in Whites
                                      THEN IF kind[o] = "string" THEN "black" ELSE "gray"
                                      ELSE h[o].col
  <2>1. h[o] \in Cell
    BY DEF IsHeap
  <2>2. Marked(h, S)[o] = IF o \in S /\ h[o].col \in Whites
                          THEN [h[o] EXCEPT !.col = IF kind[o] = "string" THEN "black" ELSE "gray"]
                          ELSE h[o]
    BY DEF Marked, IsWhite, Whites
  <2> QED
    BY <2>1, <2>2 DEF Cell
<1>2. Marked(h, S) \in [Obj -> Cell]
  BY <1>1 DEF Marked
<1>3. ASSUME NEW o \in Obj PROVE Marked(h, S)[o].col = "free" <=> Marked(h, S)[o].list = "none"
  BY <1>1 DEF IsHeap, Whites
<1> QED
  BY <1>1, <1>2, <1>3 DEF IsHeap

LEMMA SweptObjects ==
  ASSUME NEW h, IsHeap(h), NEW S, NEW w \in Whites
  PROVE  /\ IsHeap(Swept(h, S, w))
         /\ \A o \in Obj :
              IF o \in S /\ h[o].col # "free"
              THEN IF h[o].col = Other(w) THEN Swept(h, S, w)[o] = Free
                   ELSE /\ Swept(h, S, w)[o].key = h[o].key /\ Swept(h, S, w)[o].val = h[o].val
                        /\ Swept(h, S, w)[o].list = h[o].list /\ Swept(h, S, w)[o].col = w
              ELSE Swept(h, S, w)[o] = h[o]
<1> DEFINE x == Swept(h, S, w)
<1>1. ASSUME NEW o \in Obj
      PROVE  /\ x[o] \in Cell /\ (x[o].col = "free" <=> x[o].list = "none")
             /\ IF o \in S /\ h[o].col # "free"
                THEN IF h[o].col = Other(w) THEN x[o] = Free
                     ELSE x[o].key = h[o].key /\ x[o].val = h[o].val /\ x[o].list = h[o].list /\ x[o].col = w
                ELSE x[o] = h[o]
  <2>1. h[o] \in Cell /\ (h[o].col = "free" <=> h[o].list = "none")
    BY DEF IsHeap
  <2>2. x[o] = IF ~(o \in S /\ h[o].col # "free") THEN h[o]
               ELSE IF h[o].col = Other(w) THEN Free ELSE [h[o] EXCEPT !.col = w]
    BY DEF Swept, Allocated
  <2>3. Free \in Cell /\ Free.col = "free" /\ Free.list = "none"
    BY DEF Free, Cell
  <2>4. w # "free"
    BY DEF Whites
  <2> QED
    BY <2>1, <2>2, <2>3, <2>4 DEF Cell
<1>2. x \in [Obj -> Cell]
  BY <1>1 DEF Swept
<1> QED
  BY <1>1, <1>2 DEF IsHeap

LEMMA ClearedObjects ==
  ASSUME NEW h, IsHeap(h), NEW S, NEW alive
  PROVE  /\ IsHeap(ClearedByValues(h, S, alive)) /\ IsHeap(ClearedByKeys(h, S, alive))
         /\ \A o \in Obj :
              /\ ClearedByValues(h, S, alive)[o].col = h[o].col
              /\ ClearedByValues(h, S, alive)[o].list = h[o].list
              /\ IF o \in S /\ kind[o] = "weakvalue" /\ h[o].val \notin alive \cup {Nil}
                 THEN ClearedByValues(h, S, alive)[o].key = Nil /\ ClearedByValues(h, S, alive)[o].val = Nil
                 ELSE ClearedByValues(h, S, alive)[o] = h[o]
              /\ ClearedByKeys(h, S, alive)[o].col = h[o].col
              /\ ClearedByKeys(h, S, alive)[o].list = h[o].list
              /\ IF o \in S /\ kind[o] = "ephemeron" /\ h[o].key \notin alive \cup {Nil}
                 THEN ClearedByKeys(h, S, alive)[o].key = Nil /\ ClearedByKeys(h, S, alive)[o].val = Nil
                 ELSE ClearedByKeys(h, S, alive)[o] = h[o]
<1> DEFINE x == ClearedByValues(h, S, alive)
           y == ClearedByKeys(h, S, alive)
<1>1. ASSUME NEW o \in Obj
      PROVE  /\ x[o] \in Cell /\ (x[o].col = "free" <=> x[o].list = "none")
             /\ x[o].col = h[o].col /\ x[o].list = h[o].list
             /\ IF o \in S /\ kind[o] = "weakvalue" /\ h[o].val \notin alive \cup {Nil}
                THEN x[o].key = Nil /\ x[o].val = Nil ELSE x[o] = h[o]
  <2>1. h[o] \in Cell /\ (h[o].col = "free" <=> h[o].list = "none")
    BY DEF IsHeap
  <2>2. x[o] = IF o \in S /\ kind[o] = "weakvalue" /\ h[o].val \notin alive \cup {Nil}
               THEN [h[o] EXCEPT !.key = Nil, !.val = Nil] ELSE h[o]
    BY DEF ClearedByValues
  <2> QED
    BY <2>1, <2>2 DEF Cell
<1>2. ASSUME NEW o \in Obj
      PROVE  /\ y[o] \in Cell /\ (y[o].col = "free" <=> y[o].list = "none")
             /\ y[o].col = h[o].col /\ y[o].list = h[o].list
             /\ IF o \in S /\ kind[o] = "ephemeron" /\ h[o].key \notin alive \cup {Nil}
                THEN y[o].key = Nil /\ y[o].val = Nil ELSE y[o] = h[o]
  <2>1. h[o] \in Cell /\ (h[o].col = "free" <=> h[o].list = "none")
    BY DEF IsHeap
  <2>2. y[o] = IF o \in S /\ kind[o] = "ephemeron" /\ h[o].key \notin alive \cup {Nil}
               THEN [h[o] EXCEPT !.key = Nil, !.val = Nil] ELSE h[o]
    BY DEF ClearedByKeys
  <2> QED
    BY <2>1, <2>2 DEF Cell
<1>3. x \in [Obj -> Cell] /\ y \in [Obj -> Cell]
  BY <1>1, <1>2 DEF ClearedByValues, ClearedByKeys
<1> QED
  BY <1>1, <1>2, <1>3 DEF IsHeap

-----------------------------------------------------------------------------
(* Reachability.                                                            *)

LEMMA Closed ==
  ASSUME NEW h, NEW from, NEW known, NEW candidate
  PROVE  /\ from \subseteq Closure(h, from, known, candidate)
         /\ Closure(h, from, known, candidate) \subseteq from \cup candidate
         /\ KeptBy(h, Closure(h, from, known, candidate), known) \cap candidate
              \subseteq Closure(h, from, known, candidate)
<1> DEFINE C == Closure(h, from, known, candidate)
<1>1. from \subseteq C /\ C \subseteq from \cup candidate
  BY DEF Closure
<1>2. ASSUME NEW S \in SUBSET (from \cup candidate), from \subseteq S,
             KeptBy(h, S, known) \cap candidate \subseteq S
      PROVE  C \subseteq S
  BY <1>2 DEF Closure
<1>3. ASSUME NEW S, NEW T, S \subseteq T PROVE KeptBy(h, S, known) \subseteq KeptBy(h, T, known)
  BY <1>3 DEF KeptBy
<1>4. ASSUME NEW x \in KeptBy(h, C, known) \cap candidate PROVE x \in C
  <2>1. ASSUME NEW S \in SUBSET (from \cup candidate), from \subseteq S,
               KeptBy(h, S, known) \cap candidate \subseteq S
        PROVE  x \in S
    <3> HIDE DEF C
    <3> QED
      BY <1>2, <1>3, <1>4, <2>1
  <2> QED
    BY <2>1, <1>4 DEF Closure
<1> QED
  BY <1>1, <1>4

\* What the members of S keep alive, one by one.
LEMMA KeptEach ==
  ASSUME NEW h, NEW S, NEW known
  PROVE  /\ \A o \in S : Strong(h, o) \cup Keeps(h, o) \subseteq KeptBy(h, S, known)
         /\ \A o \in S : kind[o] = "ephemeron" /\ h[o].key \in S \cup known
                           => h[o].val \in KeptBy(h, S, known)
         /\ \A x \in KeptBy(h, S, known) :
              \E o \in S : \/ x \in Strong(h, o) \cup Keeps(h, o)
                           \/ kind[o] = "ephemeron" /\ h[o].key \in S \cup known /\ x = h[o].val
BY DEF KeptBy

\* A set that has the roots and what its members keep alive has all that is live.
LEMMA LiveWithin ==
  ASSUME NEW S \in SUBSET Obj, Roots \subseteq S, Roots \subseteq Obj,
         KeptBy(heap, S, {}) \cap Obj \subseteq S
  PROVE  Live \subseteq S
BY DEF Live, Closure

\* What a kind of object refers to.
LEMMA References ==
  ASSUME NEW h, NEW o
  PROVE  /\ Strong(h, o) \subseteq {h[o].key, h[o].val} \ {Nil}
         /\ Keeps(h, o) \subseteq {h[o].key, h[o].val} \ {Nil}
         /\ kind[o] = "table" => Strong(h, o) = {h[o].key, h[o].val} \ {Nil}
         /\ kind[o] = "closure" => Strong(h, o) = {h[o].val} \ {Nil}
         /\ kind[o] = "weakvalue" => Strong(h, o) = {h[o].key} \ {Nil}
         /\ kind[o] \in {"ephemeron", "string"} => Strong(h, o) = {}
         /\ kind[o] = "weakvalue" => Keeps(h, o) \subseteq {h[o].val}
         /\ kind[o] = "ephemeron" => Keeps(h, o) \subseteq {h[o].key}
         /\ kind[o] \in {"table", "closure", "string"} => Keeps(h, o) = {}
<1>1. CASE kind[o] = "table"
  BY <1>1 DEF Strong, Keeps
<1>2. CASE kind[o] = "closure"
  BY <1>2 DEF Strong, Keeps
<1>3. CASE kind[o] = "weakvalue"
  BY <1>3 DEF Strong, Keeps
<1>4. CASE kind[o] = "ephemeron"
  BY <1>4 DEF Strong, Keeps
<1>5. CASE kind[o] \notin {"table", "closure", "weakvalue", "ephemeron"}
  BY <1>5 DEF Strong, Keeps
<1> QED
  BY <1>1, <1>2, <1>3, <1>4, <1>5

\* Entries that stay or are removed.
LEMMA SameEntries ==
  ASSUME NEW h, NEW g,
         \A o \in Obj : \/ g[o].key = h[o].key /\ g[o].val = h[o].val
                        \/ g[o].key = Nil /\ g[o].val = Nil
  PROVE  /\ Shaped(h) => Shaped(g)
         /\ \A S \in SUBSET Obj : Inside(h, S) => Inside(g, S)
<1>1. Shaped(h) => Shaped(g)
  BY DEF Shaped
<1>2. ASSUME NEW S \in SUBSET Obj, Inside(h, S) PROVE Inside(g, S)
  <2> SUFFICES ASSUME NEW o \in S PROVE {g[o].key, g[o].val} \ {Nil} \subseteq S
    BY DEF Inside
  <2>1. {h[o].key, h[o].val} \ {Nil} \subseteq S /\ o \in Obj
    BY <1>2 DEF Inside
  <2>2. CASE g[o].key = h[o].key /\ g[o].val = h[o].val
    BY <2>1, <2>2
  <2>3. CASE g[o].key = Nil /\ g[o].val = Nil
    BY <2>3
  <2> QED
    BY <2>1, <2>2, <2>3
<1> QED
  BY <1>1, <1>2

LEMMA SameReferences ==
  ASSUME NEW h, NEW g, NEW o, h[o].key = g[o].key, h[o].val = g[o].val
  PROVE  Strong(h, o) = Strong(g, o) /\ Keeps(h, o) = Keeps(g, o)
BY DEF Strong, Keeps

-----------------------------------------------------------------------------
(* The atomic step.                                                         *)

Dark(h) == Allocated(h) \ White(h)
Fresh(h) == {o \in Obj : h[o].col # "black"}

\* What is marked before the objects with finalizers are looked at, from what is gray.
Reached(h, gray) == Dark(h) \cup Closure(h, gray \cup (Roots \cap White(h)), Dark(h), White(h))

Dying(h, gray) == On(h, "finobj") \ Reached(h, gray)
Cleared1(h, gray) == ClearedByValues(h, Reached(h, gray) \cap Fresh(h), Reached(h, gray))

\* What is marked in the end.
Alive(h, gray) == Reached(h, gray) \cup Resurrected(Cleared1(h, gray), Dying(h, gray), Reached(h, gray))
Cleared2(h, gray) ==
  ClearedByValues(ClearedByKeys(Cleared1(h, gray), Alive(h, gray) \cap Fresh(h), Alive(h, gray)),
                  Alive(h, gray) \ Reached(h, gray), Alive(h, gray))

\* A heap whose marking has come as far as the gray objects: a black object refers to none
\* that is white, and no weak table is black.
MarkedUpTo(h, gray) ==
  /\ IsHeap(h) /\ Shaped(h) /\ Inside(h, Allocated(h))
  /\ gray \subseteq Allocated(h) /\ Roots \subseteq Allocated(h)
  /\ \A o \in Obj : h[o].col = "gray" => o \in gray
  /\ \A o \in Obj : Weak(o) => h[o].col # "black"
  /\ \A o \in Obj : h[o].col = "black" => Strong(h, o) \cap White(h) = {}
  /\ On(h, "tobefnz") \cap White(h) = {}

LEMMA AtomicIs ==
  ASSUME NEW h, NEW gray
  PROVE  Atomic(h, gray) = [o \in Obj |-> [Cleared2(h, gray)[o] EXCEPT
            !.col  = IF o \in Alive(h, gray) THEN "black" ELSE @,
            !.list = IF o \in Dying(h, gray) THEN "tobefnz" ELSE @]]
BY DEF Atomic, Dark, Fresh, Reached, Dying, Cleared1, Alive, Cleared2

LEMMA ReachedClosed ==
  ASSUME NEW h, NEW gray, MarkedUpTo(h, gray), kind \in [Obj -> Kind]
  PROVE  /\ Reached(h, gray) \subseteq Allocated(h) /\ Dark(h) \subseteq Reached(h, gray)
         /\ Roots \subseteq Reached(h, gray) /\ On(h, "tobefnz") \subseteq Reached(h, gray)
         /\ \A x \in Reached(h, gray) : Strong(h, x) \cup Keeps(h, x) \subseteq Reached(h, gray)
         /\ \A x \in Reached(h, gray) : kind[x] = "ephemeron" /\ h[x].key \in Reached(h, gray)
              => h[x].val \in Reached(h, gray) \cup {Nil}
<1> DEFINE from == gray \cup (Roots \cap White(h))
           C == Closure(h, from, Dark(h), White(h))
           R == Reached(h, gray)
<1>1. R = Dark(h) \cup C
  BY DEF Reached
<1>2. from \subseteq C /\ C \subseteq from \cup White(h) /\ KeptBy(h, C, Dark(h)) \cap White(h) \subseteq C
  BY Closed
<1>3. White(h) \subseteq Allocated(h) /\ White(h) \subseteq Obj /\ Allocated(h) \subseteq Obj
      /\ Dark(h) = Allocated(h) \ White(h)
  BY DEF White, IsWhite, Allocated, Dark
<1>4. R \subseteq Allocated(h) /\ Dark(h) \subseteq R /\ Roots \subseteq R
  BY <1>1, <1>2, <1>3 DEF MarkedUpTo
<1>5. On(h, "tobefnz") \subseteq R
  <2>1. On(h, "tobefnz") \subseteq Allocated(h)
    BY DEF On, Allocated, MarkedUpTo, IsHeap
  <2> QED
    BY <2>1, <1>3, <1>4 DEF MarkedUpTo
<1>6. ASSUME NEW x \in R
      PROVE  /\ Strong(h, x) \cup Keeps(h, x) \subseteq Allocated(h)
             /\ h[x].val \in Allocated(h) \cup {Nil}
  <2>1. {h[x].key, h[x].val} \ {Nil} \subseteq Allocated(h)
    BY <1>4, <1>6 DEF MarkedUpTo, Inside
  <2> QED
    BY <2>1, References
<1>7. ASSUME NEW x \in R, x \notin C
      PROVE  Strong(h, x) \cap White(h) = {} /\ Keeps(h, x) = {} /\ kind[x] # "ephemeron"
  <2>1. x \in Obj /\ x \in Allocated(h) /\ x \notin White(h) /\ x \notin gray
    BY <1>1, <1>2, <1>3, <1>4, <1>7
  <2>2. h[x] \in Cell
    BY <2>1 DEF MarkedUpTo, IsHeap
  <2>3. h[x].col = "black"
    BY <2>1, <2>2 DEF MarkedUpTo, Cell, Allocated, White, IsWhite, Whites
  <2>4. ~Weak(x) /\ Strong(h, x) \cap White(h) = {}
    BY <2>1, <2>3 DEF MarkedUpTo
  <2>5. kind[x] \in {"table", "closure", "string"}
    BY <2>1, <2>4 DEF Weak, Kind
  <2> QED
    BY <2>4, <2>5, References
<1> HIDE DEF C, R, from
<1>8. ASSUME NEW x \in R PROVE Strong(h, x) \cup Keeps(h, x) \subseteq R
  <2>1. CASE x \in C
    <3>1. Strong(h, x) \cup Keeps(h, x) \subseteq KeptBy(h, C, Dark(h))
      BY <2>1, KeptEach
    <3> QED
      BY <3>1, <1>1, <1>2, <1>3, <1>6
  <2>2. CASE x \notin C
    BY <2>2, <1>4, <1>3, <1>6, <1>7
  <2> QED
    BY <2>1, <2>2
<1>9. ASSUME NEW x \in R, kind[x] = "ephemeron", h[x].key \in R PROVE h[x].val \in R \cup {Nil}
  <2>1. x \in C /\ h[x].key \in C \cup Dark(h)
    BY <1>9, <1>7, <1>1
  <2>2. h[x].val \in KeptBy(h, C, Dark(h))
    BY <2>1, <1>9, KeptEach
  <2> QED
    BY <2>2, <1>1, <1>2, <1>3, <1>6
<1> QED
  BY <1>4, <1>5, <1>8, <1>9 DEF R

LEMMA Cleared1Objects ==
  ASSUME NEW h, NEW gray, MarkedUpTo(h, gray)
  PROVE  /\ IsHeap(Cleared1(h, gray)) /\ White(Cleared1(h, gray)) = White(h)
         /\ \A o \in Obj :
              /\ Cleared1(h, gray)[o].col = h[o].col /\ Cleared1(h, gray)[o].list = h[o].list
              /\ IF o \in Reached(h, gray) /\ kind[o] = "weakvalue"
                      /\ h[o].val \notin Reached(h, gray) \cup {Nil}
                 THEN Cleared1(h, gray)[o].key = Nil /\ Cleared1(h, gray)[o].val = Nil
                 ELSE Cleared1(h, gray)[o] = h[o]
<1> DEFINE x == Cleared1(h, gray)
           R == Reached(h, gray)
<1>1. IsHeap(h) /\ \A o \in Obj : Weak(o) => o \in Fresh(h)
  BY DEF MarkedUpTo, Fresh
<1>2. x = ClearedByValues(h, R \cap Fresh(h), R)
  BY DEF Cleared1
<1> HIDE DEF x, R
<1>3. /\ IsHeap(x)
      /\ \A o \in Obj : /\ x[o].col = h[o].col /\ x[o].list = h[o].list
                        /\ IF o \in R \cap Fresh(h) /\ kind[o] = "weakvalue" /\ h[o].val \notin R \cup {Nil}
                           THEN x[o].key = Nil /\ x[o].val = Nil ELSE x[o] = h[o]
  BY <1>1, <1>2, ClearedObjects
<1>4. White(x) = White(h)
  BY <1>3 DEF White, IsWhite
<1>5. \A o \in Obj : kind[o] = "weakvalue" => o \in Fresh(h)
  BY <1>1 DEF Weak
<1> QED
  BY <1>3, <1>4, <1>5 DEF x, R

LEMMA AliveClosed ==
  ASSUME NEW h, NEW gray, MarkedUpTo(h, gray), kind \in [Obj -> Kind]
  PROVE  /\ Reached(h, gray) \subseteq Alive(h, gray) /\ Alive(h, gray) \subseteq Allocated(h)
         /\ Dying(h, gray) \subseteq Alive(h, gray)
         /\ \A x \in Alive(h, gray) : Strong(Cleared1(h, gray), x) \subseteq Alive(h, gray)
         /\ \A x \in Alive(h, gray) :
              kind[x] = "ephemeron" /\ Cleared1(h, gray)[x].key \in Alive(h, gray)
                => Cleared1(h, gray)[x].val \in Alive(h, gray) \cup {Nil}
<1> DEFINE R == Reached(h, gray)
           g == Cleared1(h, gray)
           D == Dying(h, gray)
           A == Alive(h, gray)
           from == D \cup {o \in R : kind[o] = "ephemeron"}
           C == Closure(g, from, R, White(h) \ R)
<1>1. /\ R \subseteq Allocated(h) /\ Dark(h) \subseteq R
      /\ \A x \in R : Strong(h, x) \subseteq R
  BY ReachedClosed
<1>2. /\ IsHeap(g) /\ White(g) = White(h)
      /\ \A o \in Obj : \/ g[o] = h[o]
                        \/ o \in R /\ kind[o] = "weakvalue" /\ g[o].key = Nil /\ g[o].val = Nil
  BY Cleared1Objects
<1>3. A = R \cup C
  BY <1>2 DEF Alive, Resurrected
<1>4. from \subseteq C /\ C \subseteq from \cup (White(h) \ R) /\ KeptBy(g, C, R) \cap (White(h) \ R) \subseteq C
  BY Closed
<1>5. D \subseteq Allocated(h)
  BY DEF Dying, On, Allocated, MarkedUpTo, IsHeap
<1>6. White(h) \subseteq Allocated(h) /\ Allocated(h) \subseteq Obj /\ Dark(h) = Allocated(h) \ White(h)
  BY DEF White, IsWhite, Allocated, Dark
<1>7. A \subseteq Allocated(h) /\ R \subseteq A /\ D \subseteq A
  BY <1>1, <1>3, <1>4, <1>5, <1>6
<1>8. ASSUME NEW x \in A PROVE Strong(g, x) \subseteq Allocated(h) /\ g[x].val \in Allocated(h) \cup {Nil}
  <2>1. x \in Obj /\ {h[x].key, h[x].val} \ {Nil} \subseteq Allocated(h)
    BY <1>6, <1>7, <1>8 DEF MarkedUpTo, Inside
  <2>2. {g[x].key, g[x].val} \ {Nil} \subseteq Allocated(h)
    BY <1>2, <2>1
  <2> QED
    BY <2>2, References
<1> HIDE DEF R, g, D, A, C
<1>9. ASSUME NEW x \in A PROVE Strong(g, x) \subseteq A
  <2>1. CASE x \in C
    <3>1. Strong(g, x) \subseteq KeptBy(g, C, R)
      BY <2>1, KeptEach
    <3> QED
      BY <3>1, <1>1, <1>3, <1>4, <1>6, <1>8
  <2>2. CASE x \notin C
    <3>1. x \in R /\ x \in Obj
      BY <2>2, <1>3, <1>6, <1>7
    <3>2. CASE g[x] = h[x]
      BY <3>1, <3>2, <1>1, <1>7, SameReferences
    <3>3. CASE kind[x] = "weakvalue" /\ g[x].key = Nil
      BY <3>3, References
    <3> QED
      BY <3>1, <3>2, <3>3, <1>2
  <2> QED
    BY <2>1, <2>2
<1>10. ASSUME NEW x \in A, kind[x] = "ephemeron", g[x].key \in A PROVE g[x].val \in A \cup {Nil}
  <2>1. x \in C
    BY <1>3, <1>4, <1>10
  <2>2. g[x].val \in KeptBy(g, C, R)
    BY <2>1, <1>3, <1>10, KeptEach
  <2> QED
    BY <2>2, <1>1, <1>3, <1>4, <1>6, <1>8
<1> QED
  BY <1>7, <1>9, <1>10 DEF R, g, D, A

\* What the atomic step leaves: what is alive is black, and refers to nothing else.
LEMMA AtomicObjects ==
  ASSUME NEW h, NEW gray, MarkedUpTo(h, gray), kind \in [Obj -> Kind]
  PROVE  /\ IsHeap(Atomic(h, gray))
         /\ \A o \in Obj :
              /\ Atomic(h, gray)[o].col = IF o \in Alive(h, gray) THEN "black" ELSE h[o].col
              /\ Atomic(h, gray)[o].list = IF o \in Dying(h, gray) THEN "tobefnz" ELSE h[o].list
              /\ \/ Atomic(h, gray)[o].key = h[o].key /\ Atomic(h, gray)[o].val = h[o].val
                 \/ Atomic(h, gray)[o].key = Nil /\ Atomic(h, gray)[o].val = Nil
              /\ o \in Alive(h, gray) => {Atomic(h, gray)[o].key, Atomic(h, gray)[o].val} \ {Nil} \subseteq Alive(h, gray)
              /\ o \in Reached(h, gray) /\ kind[o] = "weakvalue" => Atomic(h, gray)[o].val \in Reached(h, gray) \cup {Nil}
<1> DEFINE R == Reached(h, gray)
           D == Dying(h, gray)
           A == Alive(h, gray)
           F == Fresh(h)
           g == Cleared1(h, gray)
           k == ClearedByKeys(g, A \cap F, A)
           v == Cleared2(h, gray)
           a == Atomic(h, gray)
<1>1. /\ R \subseteq A /\ A \subseteq Allocated(h) /\ D \subseteq A
      /\ \A x \in A : Strong(g, x) \subseteq A
      /\ \A x \in A : kind[x] = "ephemeron" /\ g[x].key \in A => g[x].val \in A \cup {Nil}
  BY AliveClosed
<1>2. IsHeap(h) /\ Shaped(h) /\ \A o \in Obj : Weak(o) => o \in F
  BY DEF MarkedUpTo, Fresh
<1>3. /\ IsHeap(g)
      /\ \A o \in Obj :
           /\ g[o].col = h[o].col /\ g[o].list = h[o].list
           /\ IF o \in R /\ kind[o] = "weakvalue" /\ h[o].val \notin R \cup {Nil}
              THEN g[o].key = Nil /\ g[o].val = Nil ELSE g[o] = h[o]
  BY Cleared1Objects
<1>4. v = ClearedByValues(k, A \ R, A) /\ k = ClearedByKeys(g, A \cap F, A)
  BY DEF Cleared2
<1>5. a = [o \in Obj |-> [v[o] EXCEPT !.col  = IF o \in A THEN "black" ELSE @,
                                      !.list = IF o \in D THEN "tobefnz" ELSE @]]
  BY AtomicIs
<1>6. D \subseteq On(h, "finobj") /\ A \subseteq Obj
  BY <1>1 DEF Dying, Allocated
<1> HIDE DEF R, D, A, F, g, k, v, a
<1>7. /\ IsHeap(k)
      /\ \A o \in Obj :
           /\ k[o].col = g[o].col /\ k[o].list = g[o].list
           /\ IF o \in A \cap F /\ kind[o] = "ephemeron" /\ g[o].key \notin A \cup {Nil}
              THEN k[o].key = Nil /\ k[o].val = Nil ELSE k[o] = g[o]
  BY <1>3, <1>4, ClearedObjects
<1>8. /\ IsHeap(v)
      /\ \A o \in Obj :
           /\ v[o].col = k[o].col /\ v[o].list = k[o].list
           /\ IF o \in A \ R /\ kind[o] = "weakvalue" /\ k[o].val \notin A \cup {Nil}
              THEN v[o].key = Nil /\ v[o].val = Nil ELSE v[o] = k[o]
  <2>1. IsHeap(k)
    BY <1>7
  <2>2. PICK y : y = A \ R
    OBVIOUS
  <2>3. v = ClearedByValues(k, y, A)
    BY <1>4, <2>2
  <2> QED
    BY <2>1, <2>2, <2>3, ClearedObjects
<1>9. ASSUME NEW o \in Obj
      PROVE  /\ a[o] \in Cell /\ a[o].key = v[o].key /\ a[o].val = v[o].val
             /\ a[o].col = IF o \in A THEN "black" ELSE h[o].col
             /\ a[o].list = IF o \in D THEN "tobefnz" ELSE h[o].list
  <2>1. v[o] \in Cell
    BY <1>8 DEF IsHeap
  <2>2. a[o] = [v[o] EXCEPT !.col  = IF o \in A THEN "black" ELSE @, !.list = IF o \in D THEN "tobefnz" ELSE @]
    BY <1>5
  <2>3. v[o].col = h[o].col /\ v[o].list = h[o].list
    BY <1>3, <1>7, <1>8
  <2> QED
    BY <2>1, <2>2, <2>3 DEF Cell
<1>10. IsHeap(a)
  <2>1. a \in [Obj -> Cell]
    BY <1>5, <1>9
  <2>2. ASSUME NEW o \in Obj PROVE a[o].col = "free" <=> a[o].list = "none"
    <3>1. h[o].col = "free" <=> h[o].list = "none"
      BY <1>2 DEF IsHeap
    <3>2. o \in A => h[o].col # "free"
      BY <1>1 DEF Allocated
    <3>3. o \in D => o \in A
      BY <1>1
    <3> QED
      BY <3>1, <3>2, <3>3, <1>9
  <2> QED
    BY <2>1, <2>2 DEF IsHeap
<1>11. ASSUME NEW o \in Obj
       PROVE  (a[o].key = h[o].key /\ a[o].val = h[o].val) \/ (a[o].key = Nil /\ a[o].val = Nil)
  BY <1>3, <1>7, <1>8, <1>9
<1>12. ASSUME NEW o \in Obj, o \in A PROVE {a[o].key, a[o].val} \ {Nil} \subseteq A
  <2>1. /\ kind[o] = "string" => h[o].key = Nil /\ h[o].val = Nil
        /\ kind[o] = "closure" => h[o].key = Nil
        /\ kind[o] = "ephemeron" /\ h[o].key = Nil => h[o].val = Nil
    BY <1>2 DEF Shaped
  <2>2. CASE kind[o] = "ephemeron"
    <3>1. o \in F
      BY <2>2, <1>2 DEF Weak
    <3>2. v[o] = k[o] /\ g[o] = h[o]
      BY <2>2, <1>3, <1>8
    <3>3. CASE g[o].key \in A
      <4>1. k[o] = g[o]
        BY <3>3, <1>7
      <4> QED
        BY <4>1, <3>2, <3>3, <1>1, <1>9, <1>12, <2>2
    <3>4. CASE g[o].key = Nil
      BY <3>2, <3>4, <2>1, <2>2, <1>7, <1>9
    <3>5. CASE g[o].key \notin A \cup {Nil}
      BY <3>1, <3>2, <3>5, <2>2, <1>7, <1>9, <1>12
    <3> QED
      BY <3>3, <3>4, <3>5
  <2>3. CASE kind[o] = "weakvalue"
    <3>1. k[o] = g[o]
      BY <2>3, <1>7
    <3>2. {g[o].key} \ {Nil} \subseteq A
      BY <2>3, <1>1, <1>12, References
    <3>3. g[o].val \in A \cup {Nil} \/ o \notin R
      BY <2>3, <1>1, <1>3
    <3> QED
      BY <3>1, <3>2, <3>3, <2>3, <1>8, <1>9, <1>12
  <2>4. CASE kind[o] \in {"table", "closure", "string"}
    <3>1. v[o] = h[o] /\ g[o] = h[o]
      BY <2>4, <1>3, <1>7, <1>8
    <3>2. Strong(g, o) \subseteq A
      BY <1>1, <1>12
    <3>3. kind[o] = "table" => {g[o].key, g[o].val} \ {Nil} \subseteq A
      BY <3>2, References
    <3>4. kind[o] = "closure" => {g[o].val} \ {Nil} \subseteq A
      BY <3>2, References
    <3> QED
      BY <3>1, <3>3, <3>4, <2>1, <2>4, <1>9
  <2> QED
    BY <2>2, <2>3, <2>4 DEF Kind
<1>13. ASSUME NEW o \in Obj, o \in R, kind[o] = "weakvalue" PROVE a[o].val \in R \cup {Nil}
  BY <1>13, <1>3, <1>7, <1>8, <1>9
<1> QED
  BY <1>9, <1>10, <1>11, <1>12, <1>13 DEF R, D, A, a

-----------------------------------------------------------------------------
(* The invariant of the heap.                                               *)

\* What is allocated and not condemned by the last atomic step.
Spared == {o \in Obj : heap[o].col \notin {"free", Other(white)}}

\* What a sweep has still to turn white, or to free.
Unswept == {o \in Obj : heap[o].col \notin {"free", white}}

HeapTypes ==
  /\ kind \in [Obj -> Kind] /\ IsHeap(heap) /\ slots \in [Slots -> Obj \cup {Nil}] /\ white \in Whites
  /\ gc \in [state : Stage, gray : SUBSET Obj, again : SUBSET Obj, root : BOOLEAN, left : SUBSET Obj]
  /\ gc.left \subseteq Allocated(heap)

\* What is in use is spared, and refers to nothing else.
Safe ==
  /\ Shaped(heap) /\ Inside(heap, Spared)
  /\ Roots \subseteq Spared /\ On(heap, "finobj") \subseteq Spared /\ On(heap, "tobefnz") \subseteq Spared
  /\ gc.gray \subseteq Spared /\ gc.again \subseteq Spared

\* What is still to be swept is in the lists that are still to come.
Sweeping ==
  /\ ~SweepPhase \/ gc.state = "swpend" => gc.left = {}
  /\ gc.state \in {"pause", "callfin", "swpend"} => Unswept = {}
  /\ gc.state = "swpallgc" => Unswept \cap On(heap, "allgc") \subseteq gc.left
  /\ gc.state = "swpfinobj" => /\ Unswept \cap On(heap, "allgc") = {}
                               /\ Unswept \cap On(heap, "finobj") \subseteq gc.left
  /\ gc.state = "swptobefnz" => Unswept \subseteq gc.left

\* While objects are being marked nothing is condemned, and what is gray is known.
Marking ==
  KeepInvariant =>
    /\ \A o \in Obj : heap[o].col # Other(white)
    /\ \A o \in Obj : heap[o].col = "gray" => o \in gc.gray \cup gc.again
    /\ \A o \in Obj : Weak(o) => heap[o].col # "black"
    /\ On(heap, "tobefnz") \cap White(heap) = {}
    /\ \A o \in Obj : heap[o].col = "black" => Strong(heap, o) \cap White(heap) = {}

HeapInv == HeapTypes /\ Safe /\ Sweeping /\ Marking

LEMMA SparedIs ==
  ASSUME HeapTypes
  PROVE  /\ Spared \subseteq Allocated(heap) /\ Allocated(heap) \subseteq Obj
         /\ Nil \notin Obj
         /\ \A o \in Obj : heap[o] \in Cell /\ (o \in Spared <=> heap[o].col \in {white, "gray", "black"})
         /\ \A o \in Obj : heap[o].key \in Obj \cup {Nil} /\ heap[o].val \in Obj \cup {Nil}
<1>1. Spared \subseteq Allocated(heap) /\ Allocated(heap) \subseteq Obj /\ Nil \notin Obj
  BY HeapAssumption DEF Spared, Allocated
<1>2. ASSUME NEW o \in Obj
      PROVE  /\ heap[o] \in Cell /\ heap[o].key \in Obj \cup {Nil} /\ heap[o].val \in Obj \cup {Nil}
             /\ o \in Spared <=> heap[o].col \in {white, "gray", "black"}
  <2>1. heap[o] \in Cell
    BY DEF HeapTypes, IsHeap
  <2>2. white \in Whites /\ Whites = {white, Other(white)} /\ Other(white) # white /\ Other(white) \in Whites
    BY Palette DEF HeapTypes
  <2>3. o \in Spared <=> heap[o].col \notin {"free", Other(white)}
    BY DEF Spared
  <2>4. heap[o].col \in {white, Other(white), "free", "gray", "black"}
    BY <2>1, <2>2 DEF Cell
  <2>5. white \notin {"free", "gray", "black"} /\ Other(white) \notin {"gray", "black"}
    BY <2>2, Palette DEF Whites
  <2> QED
    BY <2>1, <2>2, <2>3, <2>4, <2>5 DEF Cell
<1> QED
  BY <1>1, <1>2

\* What is live, and what a script can read, is spared.
LEMMA LiveSpared ==
  ASSUME HeapInv
  PROVE  Live \subseteq Spared /\ Readable \subseteq Spared
<1>1. HeapTypes /\ Inside(heap, Spared) /\ Roots \subseteq Spared
  BY DEF HeapInv, Safe
<1>2. Spared \subseteq Obj
  BY DEF Spared
<1>3. ASSUME NEW x \in KeptBy(heap, Spared, {}), x \in Obj PROVE x \in Spared
  <2>1. PICK o \in Spared : x \in Strong(heap, o) \cup Keeps(heap, o) \/ x = heap[o].val
    BY <1>3, KeptEach
  <2>2. x \in {heap[o].key, heap[o].val} \ {Nil}
    BY <2>1, <1>1, <1>3, SparedIs, References
  <2> QED
    BY <1>1, <2>2 DEF Inside
<1>4. Live \subseteq Spared
  BY <1>1, <1>2, <1>3, LiveWithin
<1>5. Readable \subseteq Spared
  BY <1>1, <1>4 DEF Readable, Inside
<1> QED
  BY <1>4, <1>5

\* While objects are marked, the marking has come as far as what is gray.
LEMMA MarkedToGray ==
  ASSUME HeapInv, KeepInvariant
  PROVE  MarkedUpTo(heap, gc.gray \cup gc.again) /\ Spared = Allocated(heap)
<1>1. HeapTypes /\ Safe /\ \A o \in Obj : heap[o].col # Other(white)
  BY DEF HeapInv, Marking
<1>2. Spared = Allocated(heap)
  BY <1>1 DEF Spared, Allocated
<1> QED
  BY <1>1, <1>2 DEF HeapInv, Marking, MarkedUpTo, Safe, HeapTypes

-----------------------------------------------------------------------------
(* Marking.                                                                 *)

\* A step that changes colours only, of what is spared to gray or black.
LEMMA ColoursOnly ==
  ASSUME HeapInv, UNCHANGED <<kind, slots, white>>, IsHeap(heap'),
         gc' \in [state : Stage, gray : SUBSET Obj, again : SUBSET Obj, root : BOOLEAN, left : SUBSET Obj],
         gc'.state = "propagate", gc'.left = {}, gc'.gray \subseteq Spared, gc'.again \subseteq Spared,
         \A o \in Obj : /\ heap[o].col # Other(white)
                        /\ heap'[o].key = heap[o].key /\ heap'[o].val = heap[o].val
                        /\ heap'[o].list = heap[o].list
                        /\ \/ heap'[o].col = heap[o].col
                           \/ o \in Spared /\ heap'[o].col \in {"gray", "black"},
         \A o \in Obj : heap'[o].col = "gray" => o \in gc'.gray \cup gc'.again,
         \A o \in Obj : Weak(o) => heap'[o].col # "black",
         \A o \in On(heap, "tobefnz") : heap'[o].col \notin Whites,
         \A o \in Obj : heap'[o].col = "black" => \A x \in Strong(heap, o) : heap'[x].col \notin Whites
  PROVE  HeapInv'
<1>1. HeapTypes /\ Safe
  BY DEF HeapInv
<1>2. white' = white /\ Other(white)' = Other(white) /\ Other(white) \in Whites
  BY <1>1, Palette DEF HeapTypes, Other
<1>3. Spared' = Spared
  BY <1>2, Palette DEF Spared, Whites
<1>4. HeapTypes'
  BY <1>1 DEF HeapTypes
<1>5. Shaped(heap)' /\ Inside(heap, Spared)'
  <2>1. Spared \subseteq Obj
    BY DEF Spared
  <2>2. Shaped(heap') /\ Inside(heap', Spared)
    BY <1>1, <2>1, SameEntries DEF Safe
  <2> QED
    BY <1>3, <2>2 DEF Shaped, Inside
<1>6. On(heap, "finobj")' = On(heap, "finobj") /\ On(heap, "tobefnz")' = On(heap, "tobefnz") /\ Roots' = Roots
  BY DEF On, Roots
<1>7. Safe'
  BY <1>1, <1>3, <1>5, <1>6 DEF Safe
<1>8. Sweeping'
  BY DEF Sweeping, SweepPhase
<1>9. Marking'
  <2>1. \A o \in Obj : heap'[o].col # Other(white)
    BY <1>2, Palette DEF Whites
  <2>2. \A o \in Obj : Weak(o)' = Weak(o) /\ Strong(heap, o)' = Strong(heap, o)
    BY DEF Weak, Strong
  <2>3. \A o \in White(heap)' : heap'[o].col \in Whites
    BY DEF White, IsWhite, Whites
  <2> QED
    BY <1>2, <1>6, <2>1, <2>2, <2>3 DEF Marking
<1> QED
  BY <1>4, <1>7, <1>8, <1>9 DEF HeapInv

\* What ToGray gives is what Marked turns gray.
LEMMA Grayed ==
  ASSUME NEW h, IsHeap(h), NEW S, NEW o \in Obj, Marked(h, S)[o].col = "gray"
  PROVE  h[o].col = "gray" \/ o \in ToGray(h, S)
BY MarkedObjects DEF ToGray, IsWhite, Whites

\* No colour is left to mark in S.
LEMMA NoneWhite ==
  ASSUME NEW h, IsHeap(h), NEW S, NEW o \in Obj, o \in S
  PROVE  Marked(h, S)[o].col \notin Whites
BY MarkedObjects DEF Whites

LEMMA RestartKeeps == HeapInv /\ Restart => HeapInv'
<1> SUFFICES ASSUME HeapInv, Restart PROVE HeapInv'
  OBVIOUS
<1> DEFINE W == On(heap, "tobefnz")
<1>1. HeapTypes /\ Safe /\ Sweeping
  BY DEF HeapInv
<1>2. /\ heap' = Marked(heap, W) /\ UNCHANGED <<kind, slots, white>>
      /\ gc' = [state |-> "propagate", gray |-> ToGray(heap, W), again |-> {}, root |-> TRUE, left |-> {}]
      /\ gc.state = "pause"
  BY DEF Restart, Pause
<1>3. W \subseteq Spared /\ W \subseteq Obj /\ ToGray(heap, W) \subseteq W
  BY <1>1 DEF Safe, On, ToGray
<1>4. \A o \in Obj : heap[o].col \in {"free", white}
  BY <1>1, <1>2 DEF Sweeping, Unswept
<1>5. \A o \in Obj : heap[o].col # Other(white)
  BY <1>1, <1>4, Palette DEF HeapTypes, Whites
<1> HIDE DEF W
<1>6. /\ IsHeap(heap')
      /\ \A o \in Obj : /\ heap'[o].key = heap[o].key /\ heap'[o].val = heap[o].val /\ heap'[o].list = heap[o].list
                        /\ heap'[o].col = IF o \in W /\ heap[o].col \in Whites
                                          THEN IF kind[o] = "string" THEN "black" ELSE "gray"
                                          ELSE heap[o].col
  BY <1>1, <1>2, MarkedObjects DEF HeapTypes
<1>7. ASSUME NEW o \in Obj, heap'[o].col = "black" PROVE kind[o] = "string"
  BY <1>1, <1>4, <1>6, <1>7, Palette DEF HeapTypes
<1>8. ASSUME NEW o \in Obj, heap'[o].col = "gray" PROVE o \in gc'.gray
  <2>1. heap[o].col # "gray"
    BY <1>1, <1>4, Palette DEF HeapTypes
  <2> QED
    BY <1>1, <1>2, <1>8, <2>1, Grayed DEF HeapTypes
<1>9. \A o \in Obj : Weak(o) => heap'[o].col # "black"
  BY <1>7 DEF Weak
<1>10. \A o \in W : heap'[o].col \notin Whites
  BY <1>1, <1>2, <1>3, NoneWhite DEF HeapTypes
<1>11. \A o \in Obj : heap'[o].col = "black" => Strong(heap, o) = {}
  BY <1>7, References
<1>12. gc' \in [state : Stage, gray : SUBSET Obj, again : SUBSET Obj, root : BOOLEAN, left : SUBSET Obj]
  BY <1>2, <1>3 DEF Stage
<1>13. /\ gc'.state = "propagate" /\ gc'.left = {} /\ gc'.gray \subseteq Spared /\ gc'.again \subseteq Spared
       /\ \A o \in On(heap, "tobefnz") : heap'[o].col \notin Whites
  BY <1>2, <1>3, <1>10 DEF W
<1>14. \A o \in Obj : heap'[o].col = heap[o].col \/ (o \in Spared /\ heap'[o].col \in {"gray", "black"})
  BY <1>3, <1>6
<1> QED
  BY <1>2, <1>5, <1>6, <1>8, <1>9, <1>11, <1>12, <1>13, <1>14, ColoursOnly

LEMMA ThreadKeeps == HeapInv /\ PropagateThread => HeapInv'
<1> SUFFICES ASSUME HeapInv, PropagateThread PROVE HeapInv'
  OBVIOUS
<1>1. HeapTypes /\ Safe /\ Sweeping /\ Marking
  BY DEF HeapInv
<1>2. /\ heap' = Marked(heap, Roots) /\ UNCHANGED <<kind, slots, white>>
      /\ gc' = [gc EXCEPT !.root = FALSE, !.gray = gc.gray \cup ToGray(heap, Roots)]
      /\ gc.state = "propagate"
  BY DEF PropagateThread
<1>3. Roots \subseteq Spared /\ Spared \subseteq Obj /\ ToGray(heap, Roots) \subseteq Roots
  BY <1>1, SparedIs DEF Safe, ToGray
<1>4. /\ \A o \in Obj : heap[o].col # Other(white)
      /\ \A o \in Obj : heap[o].col = "gray" => o \in gc.gray \cup gc.again
      /\ \A o \in Obj : Weak(o) => heap[o].col # "black"
      /\ On(heap, "tobefnz") \cap White(heap) = {}
      /\ \A o \in Obj : heap[o].col = "black" => Strong(heap, o) \cap White(heap) = {}
      /\ gc.left = {}
  BY <1>1, <1>2 DEF Marking, Sweeping, KeepInvariant, SweepPhase
<1>5. /\ IsHeap(heap')
      /\ \A o \in Obj : /\ heap'[o].key = heap[o].key /\ heap'[o].val = heap[o].val /\ heap'[o].list = heap[o].list
                        /\ heap'[o].col = IF o \in Roots /\ heap[o].col \in Whites
                                          THEN IF kind[o] = "string" THEN "black" ELSE "gray"
                                          ELSE heap[o].col
  BY <1>1, <1>2, MarkedObjects DEF HeapTypes
<1>6. gc'.gray = gc.gray \cup ToGray(heap, Roots) /\ gc'.again = gc.again /\ gc'.left = {}
      /\ gc'.state = "propagate"
  BY <1>1, <1>2, <1>4 DEF HeapTypes
<1>7. gc' \in [state : Stage, gray : SUBSET Obj, again : SUBSET Obj, root : BOOLEAN, left : SUBSET Obj]
  BY <1>1, <1>2, <1>3 DEF HeapTypes
<1>8. \A o \in Obj : heap'[o].col = "gray" => o \in gc'.gray \cup gc'.again
  BY <1>1, <1>2, <1>4, <1>6, Grayed DEF HeapTypes
<1>9. \A o \in Obj : Weak(o) => heap'[o].col # "black"
  BY <1>4, <1>5 DEF Weak
<1>10. \A o \in Obj : heap'[o].col \in Whites => o \in White(heap)
  BY <1>5 DEF White, IsWhite, Whites
<1>11. ASSUME NEW o \in Obj, heap'[o].col = "black"
       PROVE  \A x \in Strong(heap, o) : heap'[x].col \notin Whites
  <2>1. Strong(heap, o) \subseteq Obj
    BY <1>1, SparedIs, References
  <2>2. heap[o].col = "black" \/ kind[o] = "string"
    BY <1>5, <1>11
  <2> QED
    BY <1>4, <1>10, <2>1, <2>2, References
<1>12. On(heap, "tobefnz") \subseteq Obj
  BY DEF On
<1>13. \A o \in On(heap, "tobefnz") : heap'[o].col \notin Whites
  BY <1>4, <1>10, <1>12
<1>14. gc'.gray \subseteq Spared /\ gc'.again \subseteq Spared
  BY <1>1, <1>3, <1>6 DEF Safe
<1> QED
  BY <1>2, <1>3, <1>4, <1>5, <1>6, <1>7, <1>8, <1>9, <1>11, <1>13, <1>14, ColoursOnly

LEMMA ObjectKeeps ==
  ASSUME HeapInv, NEW p \in Obj, PropagateObject(p)
  PROVE  HeapInv'
<1> DEFINE V == Visited(heap, p)
           m == Marked(heap, V)
           c == IF Weak(p) THEN "gray" ELSE "black"
<1>1. HeapTypes /\ Safe /\ Sweeping /\ Marking
  BY DEF HeapInv
<1>2. /\ heap' = [m EXCEPT ![p].col = c] /\ UNCHANGED <<kind, slots, white>>
      /\ gc' = [gc EXCEPT !.gray = (gc.gray \ {p}) \cup ToGray(heap, V),
                          !.again = IF Weak(p) THEN gc.again \cup {p} ELSE gc.again]
      /\ gc.state = "propagate" /\ p \in gc.gray
  BY DEF PropagateObject
<1>3. p \in Spared /\ Spared \subseteq Obj
  BY <1>1, <1>2, SparedIs DEF Safe
<1>4. V \subseteq {heap[p].key, heap[p].val} \ {Nil} /\ Strong(heap, p) \subseteq V
  BY References DEF Visited
<1>5. V \subseteq Spared /\ ToGray(heap, V) \subseteq V
  BY <1>1, <1>3, <1>4 DEF Safe, Inside, ToGray
<1>6. /\ \A o \in Obj : heap[o].col # Other(white)
      /\ \A o \in Obj : heap[o].col = "gray" => o \in gc.gray \cup gc.again
      /\ \A o \in Obj : Weak(o) => heap[o].col # "black"
      /\ On(heap, "tobefnz") \cap White(heap) = {}
      /\ \A o \in Obj : heap[o].col = "black" => Strong(heap, o) \cap White(heap) = {}
      /\ gc.left = {}
  BY <1>1, <1>2 DEF Marking, Sweeping, KeepInvariant, SweepPhase
<1> HIDE DEF V, m, c
<1>7. /\ IsHeap(m)
      /\ \A o \in Obj : /\ m[o].key = heap[o].key /\ m[o].val = heap[o].val /\ m[o].list = heap[o].list
                        /\ m[o].col = IF o \in V /\ heap[o].col \in Whites
                                      THEN IF kind[o] = "string" THEN "black" ELSE "gray"
                                      ELSE heap[o].col
  BY <1>1, MarkedObjects DEF HeapTypes, m
<1>8. c \in {"gray", "black"} /\ (c = "gray" <=> Weak(p))
  BY DEF c
<1>9. /\ heap' \in [Obj -> Cell]
      /\ \A o \in Obj : o # p => heap'[o] = m[o]
      /\ heap'[p].key = m[p].key /\ heap'[p].val = m[p].val /\ heap'[p].list = m[p].list /\ heap'[p].col = c
  BY <1>2, <1>3, <1>7, <1>8 DEF IsHeap, Cell
<1>10. \A o \in Obj : /\ heap'[o].key = heap[o].key /\ heap'[o].val = heap[o].val /\ heap'[o].list = heap[o].list
                      /\ o # p => heap'[o].col = IF o \in V /\ heap[o].col \in Whites
                                                 THEN IF kind[o] = "string" THEN "black" ELSE "gray"
                                                 ELSE heap[o].col
  BY <1>7, <1>9
<1>11. IsHeap(heap')
  <2>1. heap[p].list # "none"
    BY <1>1, <1>3 DEF HeapTypes, IsHeap, Spared
  <2>2. ASSUME NEW o \in Obj PROVE heap'[o].col = "free" <=> heap'[o].list = "none"
    BY <2>1, <1>7, <1>8, <1>9 DEF IsHeap
  <2> QED
    BY <1>9, <2>2 DEF IsHeap
<1>12. /\ gc'.gray = (gc.gray \ {p}) \cup ToGray(heap, V) /\ gc'.left = {} /\ gc'.state = "propagate"
       /\ gc'.again = IF Weak(p) THEN gc.again \cup {p} ELSE gc.again
  BY <1>1, <1>2, <1>6 DEF HeapTypes
<1>13. gc' \in [state : Stage, gray : SUBSET Obj, again : SUBSET Obj, root : BOOLEAN, left : SUBSET Obj]
  BY <1>1, <1>2, <1>3, <1>5 DEF HeapTypes
<1>14. ASSUME NEW o \in Obj, heap'[o].col = "gray" PROVE o \in gc'.gray \cup gc'.again
  <2>1. CASE o = p
    BY <2>1, <1>8, <1>9, <1>12, <1>14
  <2>2. CASE o # p
    <3>1. m[o].col = "gray"
      BY <2>2, <1>9, <1>14
    <3>2. heap[o].col = "gray" \/ o \in ToGray(heap, V)
      BY <3>1, <1>1, Grayed DEF HeapTypes, m
    <3> QED
      BY <2>2, <3>2, <1>6, <1>12
  <2> QED
    BY <2>1, <2>2
<1>15. \A o \in Obj : Weak(o) => heap'[o].col # "black"
  BY <1>6, <1>8, <1>9, <1>10 DEF Weak
<1>16. \A o \in Obj : heap'[o].col \in Whites => o \in White(heap) /\ o \notin V
  BY <1>8, <1>9, <1>10 DEF White, IsWhite, Whites
<1>17. ASSUME NEW o \in Obj, heap'[o].col = "black"
       PROVE  \A x \in Strong(heap, o) : heap'[x].col \notin Whites
  <2>1. Strong(heap, o) \subseteq Obj
    BY <1>1, SparedIs, References
  <2>2. heap[o].col = "black" \/ kind[o] = "string" \/ o = p
    BY <1>10, <1>17
  <2> QED
    BY <1>4, <1>6, <1>16, <2>1, <2>2, References
<1>18. On(heap, "tobefnz") \subseteq Obj
  BY DEF On
<1>19. \A o \in On(heap, "tobefnz") : heap'[o].col \notin Whites
  BY <1>6, <1>16, <1>18
<1>20. gc'.gray \subseteq Spared /\ gc'.again \subseteq Spared
  BY <1>1, <1>3, <1>5, <1>12 DEF Safe
<1>21. \A o \in Obj : heap'[o].col = heap[o].col \/ (o \in Spared /\ heap'[o].col \in {"gray", "black"})
  BY <1>3, <1>5, <1>8, <1>9, <1>10
<1> QED
  BY <1>2, <1>6, <1>10, <1>11, <1>12, <1>13, <1>14, <1>15, <1>17, <1>19, <1>20, <1>21, ColoursOnly

-----------------------------------------------------------------------------
(* The stages of a cycle.                                                   *)

\* A step that leaves the objects alone, and the stage at one where nothing is gray anew.
LEMMA ObjectsStay ==
  ASSUME HeapInv, UNCHANGED <<kind, heap, white>>
  PROVE  /\ Spared' = Spared /\ Unswept' = Unswept /\ Allocated(heap)' = Allocated(heap)
         /\ On(heap, "allgc")' = On(heap, "allgc") /\ On(heap, "finobj")' = On(heap, "finobj")
         /\ On(heap, "tobefnz")' = On(heap, "tobefnz") /\ White(heap)' = White(heap)
         /\ Shaped(heap)' /\ Inside(heap, Spared)' /\ Other(white)' = Other(white)
         /\ \A o \in Obj : Weak(o)' = Weak(o) /\ Strong(heap, o)' = Strong(heap, o)
<1>1. Other(white)' = Other(white)
  BY DEF Other
<1>2. Spared' = Spared /\ Unswept' = Unswept /\ Allocated(heap)' = Allocated(heap)
  BY <1>1 DEF Spared, Unswept, Allocated
<1>3. /\ On(heap, "allgc")' = On(heap, "allgc") /\ On(heap, "finobj")' = On(heap, "finobj")
      /\ On(heap, "tobefnz")' = On(heap, "tobefnz") /\ White(heap)' = White(heap)
  BY DEF On, White, IsWhite
<1>4. Shaped(heap)' /\ Inside(heap, Spared)'
  BY <1>2 DEF HeapInv, Safe, Shaped, Inside
<1>5. \A o \in Obj : Weak(o)' = Weak(o) /\ Strong(heap, o)' = Strong(heap, o)
  BY DEF Weak, Strong
<1> QED
  BY <1>1, <1>2, <1>3, <1>4, <1>5

LEMMA StagesKeep == HeapInv /\ (EndPropagate \/ NextPhase \/ EndCycle) => HeapInv'
<1> SUFFICES ASSUME HeapInv, EndPropagate \/ NextPhase \/ EndCycle PROVE HeapInv'
  OBVIOUS
<1>1. HeapTypes /\ Safe /\ Sweeping /\ Marking
  BY DEF HeapInv
<1>2. UNCHANGED <<kind, heap, slots, white>>
  BY DEF EndPropagate, NextPhase, EndCycle
<1>3. Roots' = Roots
  BY <1>2 DEF Roots
<1>4. On(heap, "finobj") \subseteq Allocated(heap) /\ On(heap, "tobefnz") \subseteq Allocated(heap)
      /\ Allocated(heap) \subseteq Obj
  BY <1>1 DEF HeapTypes, IsHeap, On, Allocated
<1>5. CASE EndPropagate
  <2>1. gc' = [gc EXCEPT !.state = "enteratomic"] /\ gc.state = "propagate"
    BY <1>5 DEF EndPropagate
  <2>2. /\ gc'.state = "enteratomic" /\ gc'.gray = gc.gray /\ gc'.again = gc.again /\ gc'.left = gc.left
        /\ gc' \in [state : Stage, gray : SUBSET Obj, again : SUBSET Obj, root : BOOLEAN, left : SUBSET Obj]
    BY <2>1, <1>1 DEF HeapTypes, Stage
  <2>3. HeapTypes' /\ Safe'
    BY <1>1, <1>2, <1>3, <2>2, ObjectsStay DEF HeapTypes, Safe
  <2>4. Sweeping'
    BY <1>1, <2>1, <2>2 DEF Sweeping, SweepPhase
  <2>5. Marking'
    BY <1>1, <1>2, <2>1, <2>2, ObjectsStay DEF Marking, KeepInvariant
  <2> QED
    BY <2>3, <2>4, <2>5 DEF HeapInv
<1>6. CASE NextPhase
  <2>1. SweepPhase /\ gc.left = {}
    BY <1>6 DEF NextPhase
  <2>2. gc.state \in {"swpallgc", "swpfinobj", "swptobefnz", "swpend"}
    BY <2>1 DEF SweepPhase
  <2>3. \/ gc.state = "swpallgc" /\ gc' = [gc EXCEPT !.state = "swpfinobj", !.left = On(heap, "finobj")]
        \/ gc.state = "swpfinobj" /\ gc' = [gc EXCEPT !.state = "swptobefnz", !.left = On(heap, "tobefnz")]
        \/ gc.state = "swptobefnz" /\ gc' = [gc EXCEPT !.state = "swpend"]
        \/ gc.state = "swpend" /\ gc' = [gc EXCEPT !.state = "callfin"]
    BY <1>6, <2>2 DEF NextPhase
  <2>4. /\ gc'.gray = gc.gray /\ gc'.again = gc.again /\ gc'.left \subseteq Allocated(heap)
        /\ gc' \in [state : Stage, gray : SUBSET Obj, again : SUBSET Obj, root : BOOLEAN, left : SUBSET Obj]
    BY <2>1, <2>3, <1>1, <1>4, ZenonT(20) DEF HeapTypes, Stage
  <2>5. \/ gc.state = "swpallgc" /\ gc'.state = "swpfinobj" /\ gc'.left = On(heap, "finobj")
        \/ gc.state = "swpfinobj" /\ gc'.state = "swptobefnz" /\ gc'.left = On(heap, "tobefnz")
        \/ gc.state = "swptobefnz" /\ gc'.state = "swpend" /\ gc'.left = {}
        \/ gc.state = "swpend" /\ gc'.state = "callfin" /\ gc'.left = {}
    BY <2>1, <2>3, <1>1 DEF HeapTypes
  <2>6. HeapTypes' /\ Safe'
    BY <1>1, <1>2, <1>3, <2>4, ObjectsStay DEF HeapTypes, Safe
  <2>7. Unswept \subseteq On(heap, "allgc") \cup On(heap, "finobj") \cup On(heap, "tobefnz")
    BY <1>1 DEF HeapTypes, IsHeap, Cell, Unswept, On
  <2>8. Sweeping'
    BY <1>1, <1>2, <2>1, <2>5, <2>7, ObjectsStay DEF Sweeping, SweepPhase
  <2>9. Marking'
    BY <2>5 DEF Marking, KeepInvariant
  <2> QED
    BY <2>6, <2>8, <2>9 DEF HeapInv
<1>7. CASE EndCycle
  <2>1. gc' = [state |-> "pause", gray |-> {}, again |-> {}, root |-> FALSE, left |-> {}] /\ gc.state = "callfin"
    BY <1>7 DEF EndCycle, Pause
  <2>2. HeapTypes' /\ Safe'
    BY <1>1, <1>2, <1>3, <2>1, ObjectsStay DEF HeapTypes, Safe, Stage
  <2>3. Sweeping' /\ Marking'
    BY <1>1, <1>2, <2>1, ObjectsStay DEF Sweeping, SweepPhase, Marking, KeepInvariant
  <2> QED
    BY <2>2, <2>3 DEF HeapInv
<1> QED
  BY <1>5, <1>6, <1>7

LEMMA AtomicKeeps == HeapInv /\ EnterAtomic => HeapInv'
<1> SUFFICES ASSUME HeapInv, EnterAtomic PROVE HeapInv'
  OBVIOUS
<1>1. PICK G : G = gc.gray \cup gc.again
  OBVIOUS
<1> DEFINE a == Atomic(heap, G)
           A == Alive(heap, G)
           D == Dying(heap, G)
<1>2. HeapTypes /\ Safe /\ Marking /\ kind \in [Obj -> Kind] /\ white \in Whites
  BY DEF HeapInv, HeapTypes
<1>3. /\ heap' = a /\ white' = Other(white) /\ UNCHANGED <<kind, slots>>
      /\ gc' = [state |-> "swpallgc", gray |-> {}, again |-> {}, root |-> FALSE, left |-> On(heap', "allgc")]
      /\ KeepInvariant
  BY <1>1 DEF EnterAtomic, Pause, KeepInvariant
<1>4. MarkedUpTo(heap, G) /\ Spared = Allocated(heap) /\ \A o \in Obj : heap[o].col # Other(white)
  BY <1>1, <1>2, <1>3, MarkedToGray DEF Marking
<1>5. /\ Dark(heap) \subseteq A /\ Roots \subseteq A /\ On(heap, "tobefnz") \subseteq A
      /\ A \subseteq Allocated(heap) /\ D \subseteq A /\ On(heap, "finobj") \subseteq A
  BY <1>2, <1>4, ReachedClosed, AliveClosed DEF Dying
<1>6. /\ IsHeap(a)
      /\ \A o \in Obj : /\ a[o].col = IF o \in A THEN "black" ELSE heap[o].col
                        /\ a[o].list = IF o \in D THEN "tobefnz" ELSE heap[o].list
                        /\ (a[o].key = heap[o].key /\ a[o].val = heap[o].val) \/ (a[o].key = Nil /\ a[o].val = Nil)
                        /\ o \in A => {a[o].key, a[o].val} \ {Nil} \subseteq A
  BY <1>2, <1>4, AtomicObjects
<1>7. A \subseteq Obj /\ Dark(heap) = Allocated(heap) \ White(heap)
  BY <1>5 DEF Allocated, Dark
<1> HIDE DEF a, A, D
<1>8. Other(white)' = white /\ white' # white /\ white \in Whites /\ Other(white) \in Whites /\ white' \in Whites
  BY <1>2, <1>3, Palette DEF Other
<1>9. ASSUME NEW o \in Obj, o \notin A PROVE heap[o].col \in {"free", white}
  <2>1. o \notin Allocated(heap) \/ o \in White(heap)
    BY <1>5, <1>7, <1>9
  <2> QED
    BY <2>1, <1>2, <1>4, Palette DEF Allocated, White, IsWhite, Whites
<1>10. Spared' = A
  <2>1. ASSUME NEW o \in Obj PROVE heap'[o].col \notin {"free", white} <=> o \in A
    BY <1>3, <1>6, <1>8, <1>9, Palette DEF Whites
  <2> QED
    BY <2>1, <1>7, <1>8 DEF Spared
<1>11. On(heap', "tobefnz") \subseteq A /\ On(heap', "finobj") \subseteq A /\ On(heap', "allgc") \subseteq Obj
  BY <1>3, <1>5, <1>6 DEF On
<1>12. HeapTypes'
  <2>1. On(heap', "allgc") \subseteq Allocated(heap')
    BY <1>3, <1>6 DEF IsHeap, On, Allocated
  <2> QED
    BY <2>1, <1>2, <1>3, <1>6, <1>8, <1>11 DEF HeapTypes, Stage
<1>13. Safe'
  <2>1. Shaped(heap')
    BY <1>3, <1>4, <1>6, SameEntries DEF MarkedUpTo
  <2>2. Shaped(heap)'
    BY <2>1, <1>3 DEF Shaped
  <2>3. Inside(heap, Spared)'
    BY <1>3, <1>6, <1>7, <1>10 DEF Inside
  <2>4. Roots' = Roots
    BY <1>3 DEF Roots
  <2> QED
    BY <2>2, <2>3, <2>4, <1>3, <1>5, <1>10, <1>11 DEF Safe, On
<1>14. Sweeping' /\ Marking'
  BY <1>3 DEF Sweeping, SweepPhase, Marking, KeepInvariant, On
<1> QED
  BY <1>12, <1>13, <1>14 DEF HeapInv

LEMMA SweepKeeps ==
  ASSUME HeapInv, NEW p \in Obj, Sweep(p)
  PROVE  HeapInv'
<1>1. HeapTypes /\ Safe /\ Sweeping
  BY DEF HeapInv
<1>2. /\ heap' = Swept(heap, {p}, white) /\ gc' = [gc EXCEPT !.left = gc.left \ {p}] /\ p \in gc.left
      /\ UNCHANGED <<kind, slots, white>>
  BY DEF Sweep
<1>3. SweepPhase /\ gc.state # "swpend"
  BY <1>1, <1>2 DEF Sweeping
<1>4. /\ white \in Whites /\ Other(white) \in Whites /\ Other(white) # white /\ Other(white)' = Other(white)
      /\ heap[p].col # "free"
  BY <1>1, <1>2, Palette DEF HeapTypes, Other, Allocated
<1>5. /\ IsHeap(heap')
      /\ \A o \in Obj : o # p => heap'[o] = heap[o]
      /\ heap[p].col = Other(white) => heap'[p] = Free
      /\ heap[p].col # Other(white) => /\ heap'[p].key = heap[p].key /\ heap'[p].val = heap[p].val
                                       /\ heap'[p].list = heap[p].list /\ heap'[p].col = white
  BY <1>1, <1>2, <1>4, SweptObjects DEF HeapTypes
<1>6. Free.key = Nil /\ Free.val = Nil /\ Free.col = "free" /\ Free.list = "none"
  BY DEF Free
<1>7. Spared' = Spared
  <2>1. ASSUME NEW o \in Obj
        PROVE  heap'[o].col \notin {"free", Other(white)} <=> heap[o].col \notin {"free", Other(white)}
    BY <1>4, <1>5, <1>6, Palette
  <2> QED
    BY <2>1, <1>4 DEF Spared
<1>8. /\ gc'.left = gc.left \ {p} /\ gc'.gray = gc.gray /\ gc'.again = gc.again /\ gc'.state = gc.state
      /\ gc' \in [state : Stage, gray : SUBSET Obj, again : SUBSET Obj, root : BOOLEAN, left : SUBSET Obj]
  BY <1>1, <1>2 DEF HeapTypes
<1>9. \A o \in Obj : heap'[o].list \in {heap[o].list, "none"}
  BY <1>5, <1>6
<1>10. HeapTypes'
  <2>1. gc'.left \subseteq Allocated(heap')
    BY <1>1, <1>5, <1>8 DEF HeapTypes, Allocated
  <2> QED
    BY <2>1, <1>1, <1>2, <1>5, <1>8 DEF HeapTypes
<1>11. Safe'
  <2>1. \A o \in Obj : \/ heap'[o].key = heap[o].key /\ heap'[o].val = heap[o].val
                       \/ heap'[o].key = Nil /\ heap'[o].val = Nil
    BY <1>5, <1>6
  <2>2. Spared \subseteq Obj
    BY DEF Spared
  <2>3. Shaped(heap') /\ Inside(heap', Spared)
    BY <1>1, <2>1, <2>2, SameEntries DEF Safe
  <2>4. Shaped(heap)' /\ Inside(heap, Spared)'
    BY <2>3, <1>2, <1>7 DEF Shaped, Inside
  <2>5. /\ Roots' = Roots /\ On(heap, "finobj")' \subseteq On(heap, "finobj")
        /\ On(heap, "tobefnz")' \subseteq On(heap, "tobefnz")
    BY <1>2, <1>9 DEF Roots, On
  <2> QED
    BY <2>4, <2>5, <1>1, <1>7, <1>8 DEF Safe
<1>12. Sweeping'
  <2>1. Unswept' = Unswept \ {p}
    <3>1. ASSUME NEW o \in Obj
          PROVE  heap'[o].col \notin {"free", white} <=> heap[o].col \notin {"free", white} /\ o # p
      BY <1>5, <1>6
    <3> QED
      BY <3>1, <1>2 DEF Unswept
  <2>2. /\ On(heap, "allgc")' \subseteq On(heap, "allgc") /\ On(heap, "finobj")' \subseteq On(heap, "finobj")
    BY <1>9 DEF On
  <2> QED
    BY <2>1, <2>2, <1>1, <1>3, <1>8 DEF Sweeping, SweepPhase
<1>13. Marking'
  BY <1>3, <1>8 DEF SweepPhase, KeepInvariant, Marking
<1> QED
  BY <1>10, <1>11, <1>12, <1>13 DEF HeapInv

-----------------------------------------------------------------------------
(* The script.                                                              *)

\* A slot is set to something that is spared.
LEMMA SlotsKeep ==
  ASSUME HeapInv, UNCHANGED <<kind, heap, white, gc>>,
         slots' \in [Slots -> Obj \cup {Nil}], \A s \in Slots : slots'[s] \in Spared \cup {Nil, slots[s]}
  PROVE  HeapInv'
<1>1. HeapTypes /\ Safe /\ Sweeping /\ Marking
  BY DEF HeapInv
<1>2. Roots' \subseteq Spared
  BY <1>1 DEF Roots, Safe
<1>3. HeapTypes' /\ Safe'
  BY <1>1, <1>2, ObjectsStay DEF HeapTypes, Safe
<1>4. Sweeping' /\ Marking'
  BY <1>1, ObjectsStay DEF Sweeping, SweepPhase, Marking, KeepInvariant
<1> QED
  BY <1>3, <1>4 DEF HeapInv

LEMMA VariablesKeep ==
  ASSUME HeapInv,
         \/ \E s \in {"global", "stack"}, v \in Readable \cup {Nil} : Copy(s, v)
         \/ EndScript \/ Return
  PROVE  HeapInv'
<1>1. slots \in [Slots -> Obj \cup {Nil}] /\ Readable \subseteq Spared /\ Spared \subseteq Obj
  BY LiveSpared DEF HeapInv, HeapTypes, Spared
<1>2. PICK s \in Slots, v \in Spared \cup {Nil} : slots' = [slots EXCEPT ![s] = v]
  BY <1>1 DEF Copy, EndScript, Return, Slots
<1>3. UNCHANGED <<kind, heap, white, gc>>
  BY DEF Copy, EndScript, Return
<1>4. slots' \in [Slots -> Obj \cup {Nil}] /\ \A t \in Slots : slots'[t] \in Spared \cup {Nil, slots[t]}
  BY <1>1, <1>2
<1> QED
  BY <1>3, <1>4, SlotsKeep

\* One object changes its place, its colour to white if at all, and keeps its entry.
LEMMA Moved ==
  ASSUME HeapInv, NEW p \in Spared, UNCHANGED <<kind, white>>, IsHeap(heap'),
         \A o \in Obj : o # p => heap'[o] = heap[o],
         heap'[p].key = heap[p].key, heap'[p].val = heap[p].val, heap'[p].col \in {heap[p].col, white}
  PROVE  /\ Spared' = Spared /\ Unswept' \subseteq Unswept /\ Other(white)' = Other(white)
         /\ Shaped(heap)' /\ Inside(heap, Spared)'
<1>1. HeapTypes /\ Safe
  BY DEF HeapInv
<1>2. Other(white)' = Other(white) /\ white \in Whites
  BY <1>1 DEF Other, HeapTypes
<1>3. Other(white) # white /\ white # "free"
  BY <1>2, Palette
<1>4. p \in Obj /\ heap[p].col \notin {"free", Other(white)}
  BY DEF Spared
<1>5. Spared' = Spared /\ Unswept' \subseteq Unswept
  BY <1>2, <1>3, <1>4 DEF Spared, Unswept
<1>6. \A o \in Obj : heap'[o].key = heap[o].key /\ heap'[o].val = heap[o].val
  BY <1>4
<1>7. Shaped(heap') /\ Inside(heap', Spared)
  <2>1. Spared \subseteq Obj
    BY DEF Spared
  <2> QED
    BY <2>1, <1>1, <1>6, SameEntries DEF Safe
<1> QED
  BY <1>2, <1>5, <1>7 DEF Shaped, Inside

LEMMA CallKeeps ==
  ASSUME HeapInv, NEW p \in Obj, CallFinalizer(p)
  PROVE  HeapInv'
<1>1. HeapTypes /\ Safe /\ Sweeping
  BY DEF HeapInv
<1>2. /\ heap' = [heap EXCEPT ![p].list = "allgc"] /\ slots' = [slots EXCEPT !["arg"] = p]
      /\ UNCHANGED <<kind, white, gc>> /\ gc.state \in {"pause", "callfin"} /\ p \in On(heap, "tobefnz")
  BY DEF CallFinalizer
<1>3. p \in Spared
  BY <1>1, <1>2 DEF Safe
<1>4. /\ heap' \in [Obj -> Cell] /\ \A o \in Obj : o # p => heap'[o] = heap[o]
      /\ heap'[p].key = heap[p].key /\ heap'[p].val = heap[p].val /\ heap'[p].col = heap[p].col
      /\ heap'[p].list = "allgc"
  BY <1>1, <1>2 DEF HeapTypes, IsHeap, Cell
<1>5. IsHeap(heap')
  <2>1. heap[p].col # "free"
    BY <1>3 DEF Spared
  <2>2. \A o \in Obj : heap'[o].col = "free" <=> heap'[o].list = "none"
    BY <2>1, <1>1, <1>4 DEF HeapTypes, IsHeap
  <2> QED
    BY <2>2, <1>4 DEF IsHeap
<1>6. /\ Spared' = Spared /\ Unswept' \subseteq Unswept
      /\ Shaped(heap)' /\ Inside(heap, Spared)'
  BY <1>2, <1>3, <1>4, <1>5, Moved
<1>7. HeapTypes'
  <2>1. slots' \in [Slots -> Obj \cup {Nil}]
    BY <1>1, <1>2 DEF HeapTypes
  <2>2. gc.left = {}
    BY <1>1, <1>2 DEF Sweeping, SweepPhase
  <2> QED
    BY <2>1, <2>2, <1>1, <1>2, <1>5 DEF HeapTypes
<1>8. Safe'
  <2>1. Roots' \subseteq Roots \cup {p}
    BY <1>1, <1>2 DEF Roots, HeapTypes
  <2>2. On(heap, "finobj")' \subseteq On(heap, "finobj") /\ On(heap, "tobefnz")' \subseteq On(heap, "tobefnz")
    BY <1>4 DEF On
  <2> QED
    BY <2>1, <2>2, <1>1, <1>2, <1>3, <1>6 DEF Safe
<1>9. Sweeping' /\ Marking'
  BY <1>1, <1>2, <1>6 DEF Sweeping, SweepPhase, Marking, KeepInvariant
<1> QED
  BY <1>7, <1>8, <1>9 DEF HeapInv

LEMMA FinalizerKeeps ==
  ASSUME HeapInv, NEW p \in Live, SetFinalizer(p)
  PROVE  HeapInv'
<1>1. HeapTypes /\ Safe /\ Sweeping /\ Marking /\ p \in Spared /\ p \in Obj
  BY LiveSpared DEF HeapInv, Spared
<1>2. /\ heap' = [heap EXCEPT ![p].list = "finobj", ![p].col = IF SweepPhase THEN white ELSE heap[p].col]
      /\ gc' = [gc EXCEPT !.left = gc.left \ {p}] /\ UNCHANGED <<kind, slots, white>>
      /\ kind[p] = "table" /\ heap[p].list = "allgc"
  BY DEF SetFinalizer
<1>3. /\ heap' \in [Obj -> Cell] /\ \A o \in Obj : o # p => heap'[o] = heap[o]
      /\ heap'[p].key = heap[p].key /\ heap'[p].val = heap[p].val
      /\ heap'[p].col = (IF SweepPhase THEN white ELSE heap[p].col)
      /\ heap'[p].list = "finobj"
  <2>1. heap \in [Obj -> Cell] /\ white \in Whites
    BY <1>1 DEF HeapTypes, IsHeap
  <2>2. PICK c : c = IF SweepPhase THEN white ELSE heap[p].col
    OBVIOUS
  <2>3. c \in Whites \cup {"free", "gray", "black"}
    BY <1>1, <2>1, <2>2 DEF Cell
  <2>4. heap' = [heap EXCEPT ![p].list = "finobj", ![p].col = c]
    BY <1>2, <2>2
  <2> QED
    BY <1>1, <2>1, <2>2, <2>3, <2>4 DEF Cell
<1>4. IsHeap(heap')
  <2>1. heap'[p].col # "free"
    BY <1>1, <1>3, Palette DEF Spared, HeapTypes
  <2>2. \A o \in Obj : heap'[o].col = "free" <=> heap'[o].list = "none"
    BY <2>1, <1>1, <1>3 DEF HeapTypes, IsHeap
  <2> QED
    BY <2>2, <1>3 DEF IsHeap
<1>5. /\ Spared' = Spared /\ Unswept' \subseteq Unswept /\ Other(white)' = Other(white)
      /\ Shaped(heap)' /\ Inside(heap, Spared)'
  BY <1>1, <1>2, <1>3, <1>4, Moved
<1>6. /\ gc'.left = gc.left \ {p} /\ gc'.gray = gc.gray /\ gc'.again = gc.again /\ gc'.state = gc.state
      /\ gc' \in [state : Stage, gray : SUBSET Obj, again : SUBSET Obj, root : BOOLEAN, left : SUBSET Obj]
  BY <1>1, <1>2 DEF HeapTypes
<1>7. HeapTypes'
  <2>1. gc'.left \subseteq Allocated(heap')
    BY <1>1, <1>3, <1>6 DEF HeapTypes, Allocated
  <2> QED
    BY <2>1, <1>1, <1>2, <1>4, <1>6 DEF HeapTypes
<1>8. /\ On(heap, "finobj")' = On(heap, "finobj") \cup {p} /\ On(heap, "tobefnz")' \subseteq On(heap, "tobefnz")
      /\ On(heap, "allgc")' = On(heap, "allgc") \ {p} /\ Roots' = Roots
  BY <1>1, <1>2, <1>3 DEF On, Roots
<1>9. Safe'
  BY <1>1, <1>5, <1>6, <1>8 DEF Safe
<1>10. Sweeping'
  <2>1. CASE SweepPhase
    <3>1. Unswept' \subseteq Unswept \ {p}
      BY <2>1, <1>2, <1>3, <1>5 DEF Unswept
    <3> QED
      BY <2>1, <3>1, <1>1, <1>6, <1>8 DEF Sweeping, SweepPhase
  <2>2. CASE ~SweepPhase
    BY <2>2, <1>1, <1>5, <1>6 DEF Sweeping, SweepPhase
  <2> QED
    BY <2>1, <2>2
<1>11. Marking'
  <2> SUFFICES ASSUME KeepInvariant PROVE Marking'
    BY <1>6 DEF KeepInvariant, Marking
  <2>1. ~SweepPhase
    BY DEF KeepInvariant, SweepPhase
  <2>2. \A o \in Obj : heap'[o].col = heap[o].col /\ heap'[o].key = heap[o].key /\ heap'[o].val = heap[o].val
    BY <2>1, <1>3
  <2>3. \A o \in Obj : Weak(o)' = Weak(o) /\ Strong(heap, o)' = Strong(heap, o)
    BY <2>2, <1>2 DEF Weak, Strong
  <2>4. White(heap)' = White(heap)
    BY <2>2 DEF White, IsWhite
  <2> QED
    BY <2>2, <2>3, <2>4, <1>1, <1>2, <1>5, <1>6, <1>8 DEF Marking
<1> QED
  BY <1>7, <1>9, <1>10, <1>11 DEF HeapInv

\* A new object.
LEMMA Born ==
  ASSUME NEW w
  PROVE  [Free EXCEPT !.col = w, !.list = "allgc"] = [col |-> w, list |-> "allgc", key |-> Nil, val |-> Nil]
<1>1. PICK f : f = [Free EXCEPT !.col = w]
  OBVIOUS
<1>2. f = [col |-> w, list |-> "none", key |-> Nil, val |-> Nil]
  BY <1>1 DEF Free
<1>3. [f EXCEPT !.list = "allgc"] = [col |-> w, list |-> "allgc", key |-> Nil, val |-> Nil]
  BY <1>2
<1>4. [Free EXCEPT !.col = w, !.list = "allgc"] = [f EXCEPT !.list = "allgc"]
  BY <1>1
<1> QED
  BY <1>3, <1>4

LEMMA NewKeeps ==
  ASSUME HeapInv, NEW p \in Obj, New(p)
  PROVE  HeapInv'
<1>1. HeapTypes /\ Safe /\ Sweeping /\ Marking /\ Nil \notin Obj
  BY HeapAssumption DEF HeapInv
<1>2. /\ heap' = [heap EXCEPT ![p] = [col |-> white, list |-> "allgc", key |-> Nil, val |-> Nil]]
      /\ slots' = [slots EXCEPT !["stack"] = p] /\ UNCHANGED <<kind, white, gc>> /\ heap[p].col = "free"
  BY Born DEF New, Place
<1>3. /\ white \in Whites /\ Other(white) # white /\ Other(white)' = Other(white)
      /\ white # "free" /\ white # "gray" /\ white # "black"
  BY <1>1, <1>2, Palette DEF HeapTypes, Other
<1>4. /\ heap' \in [Obj -> Cell] /\ \A o \in Obj : o # p => heap'[o] = heap[o]
      /\ heap'[p].key = Nil /\ heap'[p].val = Nil /\ heap'[p].col = white /\ heap'[p].list = "allgc"
  BY <1>1, <1>2, <1>3 DEF HeapTypes, IsHeap, Cell
<1>5. IsHeap(heap')
  BY <1>1, <1>3, <1>4 DEF HeapTypes, IsHeap
<1>6. Spared' = Spared \cup {p} /\ Unswept' = Unswept /\ p \notin Spared
  BY <1>2, <1>3, <1>4 DEF Spared, Unswept
<1>7. HeapTypes'
  <2>1. slots' \in [Slots -> Obj \cup {Nil}]
    BY <1>1, <1>2 DEF HeapTypes
  <2>2. Allocated(heap) \subseteq Allocated(heap')
    BY <1>2, <1>3, <1>4 DEF Allocated
  <2> QED
    BY <2>1, <2>2, <1>1, <1>2, <1>5 DEF HeapTypes
<1>8. Shaped(heap') /\ Inside(heap', Spared \cup {p})
  <2>1. Shaped(heap')
    BY <1>1, <1>4 DEF Safe, Shaped
  <2>2. Spared \subseteq Obj
    BY DEF Spared
  <2> QED
    BY <2>1, <2>2, <1>1, <1>4 DEF Safe, Inside
<1>9. /\ Roots' \subseteq Roots \cup {p} /\ On(heap, "finobj")' = On(heap, "finobj")
      /\ On(heap, "tobefnz")' = On(heap, "tobefnz") /\ On(heap, "allgc")' = On(heap, "allgc") \cup {p}
  <2>1. heap[p].list = "none"
    BY <1>1, <1>2 DEF HeapTypes, IsHeap
  <2> QED
    BY <2>1, <1>1, <1>2, <1>4 DEF Roots, On, HeapTypes
<1>10. Safe'
  <2>1. Shaped(heap)' /\ Inside(heap, Spared)'
    BY <1>2, <1>6, <1>8 DEF Shaped, Inside
  <2> QED
    BY <2>1, <1>1, <1>2, <1>6, <1>9 DEF Safe
<1>11. Sweeping'
  <2>1. p \notin Unswept
    BY <1>2, <1>3 DEF Unswept
  <2> QED
    BY <2>1, <1>1, <1>2, <1>6, <1>9 DEF Sweeping, SweepPhase
<1>12. Marking'
  <2> SUFFICES ASSUME KeepInvariant PROVE Marking'
    BY <1>2 DEF KeepInvariant, Marking
  <2>1. White(heap)' = White(heap) \cup {p}
    BY <1>3, <1>4 DEF White, IsWhite, Whites
  <2>2. ASSUME NEW o \in Obj, heap'[o].col = "black" PROVE Strong(heap, o)' \cap White(heap)' = {}
    <3>1. o # p /\ heap[o].col = "black"
      BY <1>3, <1>4, <2>2
    <3>2. Strong(heap, o)' = Strong(heap, o)
      BY <3>1, <1>2, <1>4 DEF Strong
    <3>3. o \in Spared
      BY <3>1, <1>1, SparedIs
    <3>4. p \notin Strong(heap, o)
      BY <3>3, <1>1, <1>6, References DEF Safe, Inside
    <3> QED
      BY <3>1, <3>2, <3>4, <1>1, <2>1 DEF Marking
  <2>3. p \notin On(heap, "tobefnz")
    BY <1>1, <1>6 DEF Safe
  <2>4. \A o \in Obj : Weak(o)' = Weak(o)
    BY <1>2 DEF Weak
  <2>5. \A o \in Obj : heap'[o].col # Other(white)
    BY <1>1, <1>3, <1>4 DEF Marking
  <2>6. \A o \in Obj : heap'[o].col = "gray" => o \in gc.gray \cup gc.again
    BY <1>1, <1>3, <1>4 DEF Marking
  <2>7. \A o \in Obj : Weak(o) => heap'[o].col # "black"
    BY <1>1, <1>3, <1>4 DEF Marking
  <2>8. On(heap, "tobefnz")' \cap White(heap)' = {}
    BY <2>1, <2>3, <1>1, <1>9 DEF Marking
  <2> QED
    BY <2>2, <2>4, <2>5, <2>6, <2>7, <2>8, <1>2, <1>3 DEF Marking
<1> QED
  BY <1>7, <1>10, <1>11, <1>12 DEF HeapInv

\* A heap in which nothing has been made yet.
Empty ==
  /\ kind \in [Obj -> Kind] /\ white \in Whites
  /\ heap = [o \in Obj |-> Free] /\ slots = [s \in Slots |-> Nil] /\ gc = Pause

LEMMA EmptyIs == Empty => HeapInv
<1> SUFFICES ASSUME Empty PROVE HeapInv
  OBVIOUS
<1>1. /\ kind \in [Obj -> Kind] /\ white \in Whites /\ slots = [s \in Slots |-> Nil]
      /\ heap = [o \in Obj |-> [col |-> "free", list |-> "none", key |-> Nil, val |-> Nil]]
      /\ gc = [state |-> "pause", gray |-> {}, again |-> {}, root |-> FALSE, left |-> {}]
  BY DEF Empty, Pause, Free
<1>2. heap \in [Obj -> Cell] /\ IsHeap(heap)
  BY <1>1 DEF Cell, IsHeap
<1>3. Roots = {} /\ Unswept = {} /\ Spared = {} /\ On(heap, "finobj") = {} /\ On(heap, "tobefnz") = {}
  BY <1>1 DEF Roots, Unswept, Spared, On
<1>4. HeapTypes
  BY <1>1, <1>2 DEF HeapTypes, Stage
<1>5. Safe
  BY <1>1, <1>3 DEF Safe, Shaped, Inside
<1>6. Sweeping /\ Marking
  BY <1>1, <1>3 DEF Sweeping, SweepPhase, Marking, KeepInvariant
<1> QED
  BY <1>4, <1>5, <1>6 DEF HeapInv

LEMMA ReopenKeeps == HeapInv /\ Reopen => HeapInv'
<1>1. HeapInv /\ Reopen => Empty'
  BY DEF HeapInv, HeapTypes, Reopen, Empty, Pause
<1> QED
  BY <1>1, EmptyIs, PTL

\* One object gets a new entry; colours change among those of what is spared.
LEMMA Stored ==
  ASSUME HeapInv, NEW p \in Spared, NEW k \in Spared \cup {Nil}, NEW v \in Spared \cup {Nil},
         kind[p] # "string", kind[p] = "closure" => k = Nil, kind[p] = "ephemeron" => k # Nil,
         UNCHANGED <<kind, slots, white>>, IsHeap(heap'),
         heap'[p].key = k, heap'[p].val = v,
         \A o \in Obj : o # p => heap'[o].key = heap[o].key /\ heap'[o].val = heap[o].val,
         \A o \in Obj : heap'[o].list = heap[o].list,
         \A o \in Obj : \/ heap'[o].col = heap[o].col
                        \/ o \in Spared /\ heap'[o].col \in {white, "gray", "black"},
         gc' \in [state : Stage, gray : SUBSET Obj, again : SUBSET Obj, root : BOOLEAN, left : SUBSET Obj],
         gc'.gray \subseteq Spared, gc'.again \subseteq Spared, gc'.left = gc.left
  PROVE  /\ HeapTypes' /\ Safe' /\ Spared' = Spared /\ Other(white)' = Other(white)
         /\ On(heap, "allgc")' = On(heap, "allgc") /\ On(heap, "finobj")' = On(heap, "finobj")
         /\ On(heap, "tobefnz")' = On(heap, "tobefnz")
         /\ \A o \in Obj : Weak(o)' = Weak(o) /\ (o # p => Strong(heap, o)' = Strong(heap, o))
         /\ Strong(heap, p)' \subseteq {k, v} \ {Nil}
<1>1. HeapTypes /\ Safe /\ p \in Obj /\ Spared \subseteq Obj
  BY SparedIs DEF HeapInv
<1>2. /\ white \in Whites /\ Other(white) # white /\ Other(white)' = Other(white)
      /\ white # "free" /\ Other(white) \in Whites
  BY <1>1, Palette DEF HeapTypes, Other
<1>3. Spared' = Spared
  <2>1. ASSUME NEW o \in Obj
        PROVE  heap'[o].col \notin {"free", Other(white)} <=> heap[o].col \notin {"free", Other(white)}
    <3>1. CASE heap'[o].col = heap[o].col
      BY <3>1
    <3>2. CASE o \in Spared /\ heap'[o].col \in {white, "gray", "black"}
      BY <3>2, <1>2, Palette DEF Spared
    <3> QED
      BY <3>1, <3>2
  <2> QED
    BY <2>1, <1>2 DEF Spared
<1>4. HeapTypes'
  <2>1. Allocated(heap') = Allocated(heap)
    BY <1>1 DEF HeapTypes, IsHeap, Allocated
  <2> QED
    BY <2>1, <1>1 DEF HeapTypes
<1>5. Shaped(heap)' /\ Inside(heap, Spared)'
  <2>1. Shaped(heap')
    BY <1>1 DEF Safe, Shaped
  <2>2. Inside(heap', Spared)
    BY <1>1 DEF Safe, Inside
  <2> QED
    BY <2>1, <2>2, <1>3 DEF Shaped, Inside
<1>6. /\ On(heap, "allgc")' = On(heap, "allgc") /\ On(heap, "finobj")' = On(heap, "finobj")
      /\ On(heap, "tobefnz")' = On(heap, "tobefnz") /\ Roots' = Roots
  BY DEF On, Roots
<1>7. Safe'
  BY <1>1, <1>3, <1>5, <1>6 DEF Safe
<1>8. \A o \in Obj : Weak(o)' = Weak(o) /\ (o # p => Strong(heap, o)' = Strong(heap, o))
  BY DEF Weak, Strong
<1>9. Strong(heap, p)' \subseteq {k, v} \ {Nil}
  <2>1. Strong(heap', p) \subseteq {k, v} \ {Nil}
    BY References
  <2>2. Strong(heap, p)' = Strong(heap', p)
    BY DEF Strong
  <2> QED
    BY <2>1, <2>2
<1> QED
  BY <1>2, <1>3, <1>4, <1>6, <1>7, <1>8, <1>9

LEMMA AssignKeeps ==
  ASSUME HeapInv, NEW p \in Live, NEW k \in Readable \cup {Nil}, NEW v \in Readable \cup {Nil}, Assign(p, k, v)
  PROVE  HeapInv'
<1>1. /\ HeapTypes /\ Safe /\ Sweeping /\ Marking /\ p \in Spared /\ p \in Obj /\ Nil \notin Obj
      /\ k \in Spared \cup {Nil} /\ v \in Spared \cup {Nil} /\ Spared \subseteq Obj
  BY LiveSpared, HeapAssumption DEF HeapInv, Spared
<1>2. PICK st : st = [heap EXCEPT ![p].key = k, ![p].val = v]
  OBVIOUS
<1>3. PICK x : x = IF k \in White(heap) THEN k ELSE v
  OBVIOUS
<1>4. /\ heap' = Guarded(st, p, x).heap /\ gc' = Guarded(st, p, x).gc /\ UNCHANGED <<kind, slots, white>>
      /\ kind[p] # "string" /\ (kind[p] = "closure" => k = Nil) /\ (kind[p] = "ephemeron" => k # Nil)
  BY <1>2, <1>3 DEF Assign
<1>5. /\ IsHeap(st) /\ st[p].key = k /\ st[p].val = v
      /\ \A o \in Obj : /\ o # p => st[o] = heap[o]
                        /\ st[o].col = heap[o].col /\ st[o].list = heap[o].list
  <2>a. heap \in [Obj -> Cell] /\ p \in Obj /\ k \in Obj \cup {Nil} /\ v \in Obj \cup {Nil}
    BY <1>1 DEF HeapTypes, IsHeap
  <2> DEFINE mid == [heap EXCEPT ![p].key = k]
  <2>1. st \in [Obj -> Cell] /\ st[p].key = k /\ st[p].val = v
    <3>1. mid \in [Obj -> Cell] /\ mid[p].key = k
      BY <2>a DEF Cell
    <3>2. st = [mid EXCEPT ![p].val = v]
      BY <1>2
    <3> HIDE DEF mid
    <3>3. st \in [Obj -> Cell] /\ st[p] = [mid[p] EXCEPT !.val = v]
      BY <3>1, <3>2, <2>a DEF Cell
    <3>4. mid[p] \in Cell
      BY <3>1, <2>a
    <3> QED
      BY <3>1, <3>3, <3>4 DEF Cell
  <2>2. \A o \in Obj : /\ o # p => st[o] = heap[o]
                       /\ st[o].col = heap[o].col /\ st[o].list = heap[o].list
    BY <1>1, <1>2 DEF HeapTypes, IsHeap, Cell
  <2> QED
    BY <2>1, <2>2, <1>1 DEF HeapTypes, IsHeap
<1>6. White(st) = White(heap) /\ x \in Spared \cup {Nil} /\ p \notin {Nil}
  BY <1>1, <1>3, <1>5 DEF White, IsWhite
<1>7. /\ white \in Whites /\ white # "free" /\ white # "gray" /\ white # "black" /\ white' = white
  BY <1>1, <1>4, Palette DEF HeapTypes
<1>8. KeepInvariant =>
        /\ \A o \in Obj : heap[o].col # Other(white)
        /\ \A o \in Obj : heap[o].col = "gray" => o \in gc.gray \cup gc.again
        /\ \A o \in Obj : Weak(o) => heap[o].col # "black"
        /\ On(heap, "tobefnz") \cap White(heap) = {}
        /\ \A o \in Obj : heap[o].col = "black" => Strong(heap, o) \cap White(heap) = {}
  BY <1>1 DEF Marking
<1>9. CASE x = Nil \/ heap[p].col # "black" \/ x \notin White(heap)
  <2>1. heap' = st /\ gc' = gc
    BY <1>1, <1>4, <1>5, <1>6, <1>9 DEF Guarded
  <2>2. /\ HeapTypes' /\ Safe' /\ Spared' = Spared /\ Other(white)' = Other(white)
        /\ On(heap, "allgc")' = On(heap, "allgc") /\ On(heap, "finobj")' = On(heap, "finobj")
        /\ On(heap, "tobefnz")' = On(heap, "tobefnz")
        /\ \A o \in Obj : Weak(o)' = Weak(o) /\ (o # p => Strong(heap, o)' = Strong(heap, o))
        /\ Strong(heap, p)' \subseteq {k, v} \ {Nil}
    BY <1>1, <1>4, <1>5, <2>1, Stored DEF HeapTypes, Safe
  <2>3. Unswept' = Unswept /\ White(heap)' = White(heap)
    BY <1>4, <1>5, <1>6, <2>1 DEF Unswept, White, IsWhite
  <2>4. Sweeping'
    BY <1>1, <2>1, <2>2, <2>3 DEF Sweeping, SweepPhase
  <2>5. Marking'
    <3> SUFFICES ASSUME KeepInvariant PROVE Marking'
      BY <2>1 DEF KeepInvariant, Marking
    <3>1. ASSUME NEW o \in Obj, heap'[o].col = "black" PROVE Strong(heap, o)' \cap White(heap)' = {}
      <4>1. heap[o].col = "black"
        BY <1>5, <2>1, <3>1
      <4>2. CASE o # p
        BY <4>1, <4>2, <1>8, <2>2, <2>3
      <4>3. CASE o = p
        <5>1. x = Nil \/ x \notin White(heap)
          BY <4>1, <4>3, <1>9
        <5>2. Nil \notin White(heap)
          BY <1>1 DEF White
        <5> QED
          BY <4>3, <5>1, <5>2, <1>3, <2>2, <2>3
      <4> QED
        BY <4>2, <4>3
    <3>2. \A o \in Obj : heap'[o].col = heap[o].col
      BY <1>5, <2>1
    <3> QED
      BY <3>1, <3>2, <1>8, <2>1, <2>2, <2>3 DEF Marking
  <2> QED
    BY <2>2, <2>4, <2>5 DEF HeapInv
<1>10. CASE x # Nil /\ heap[p].col = "black" /\ x \in White(heap) /\ kind[p] # "closure"
  <2>1. heap' = [st EXCEPT ![p].col = "gray"] /\ gc' = [gc EXCEPT !.again = gc.again \cup {p}]
    BY <1>1, <1>4, <1>5, <1>6, <1>10 DEF Guarded
  <2>2. /\ heap' \in [Obj -> Cell] /\ \A o \in Obj : o # p => heap'[o] = st[o]
        /\ heap'[p].key = k /\ heap'[p].val = v /\ heap'[p].list = st[p].list /\ heap'[p].col = "gray"
    BY <1>1, <1>5, <2>1 DEF IsHeap, Cell
  <2>3. IsHeap(heap')
    <3>1. heap[p].col # "free" /\ st[p].col # "free"
      BY <1>5, <1>10, <1>1
    <3> QED
      BY <3>1, <2>2, <1>5 DEF IsHeap
  <2>4. /\ gc'.again = gc.again \cup {p} /\ gc'.gray = gc.gray /\ gc'.left = gc.left /\ gc'.state = gc.state
        /\ gc' \in [state : Stage, gray : SUBSET Obj, again : SUBSET Obj, root : BOOLEAN, left : SUBSET Obj]
    BY <1>1, <2>1 DEF HeapTypes
  <2>5. /\ \A o \in Obj : o # p => heap'[o].key = heap[o].key /\ heap'[o].val = heap[o].val
        /\ \A o \in Obj : heap'[o].list = heap[o].list
        /\ \A o \in Obj : o # p => heap'[o].col = heap[o].col
    BY <1>5, <2>2
  <2>6. /\ HeapTypes' /\ Safe' /\ Spared' = Spared /\ Other(white)' = Other(white)
        /\ On(heap, "allgc")' = On(heap, "allgc") /\ On(heap, "finobj")' = On(heap, "finobj")
        /\ On(heap, "tobefnz")' = On(heap, "tobefnz")
        /\ \A o \in Obj : Weak(o)' = Weak(o) /\ (o # p => Strong(heap, o)' = Strong(heap, o))
    <3>1. gc'.gray \subseteq Spared /\ gc'.again \subseteq Spared
      BY <1>1, <2>4 DEF Safe
    <3> QED
      BY <1>1, <1>4, <2>2, <2>3, <2>4, <2>5, <3>1, Stored
  <2>7. Unswept' = Unswept /\ White(heap)' = White(heap)
    <3>1. heap[p].col = "black" /\ heap'[p].col = "gray"
      BY <1>10, <2>2
    <3> QED
      BY <3>1, <1>7, <2>5 DEF Unswept, White, IsWhite
  <2>8. Sweeping'
    BY <1>1, <2>4, <2>6, <2>7 DEF Sweeping, SweepPhase
  <2>9. Marking'
    <3> SUFFICES ASSUME KeepInvariant PROVE Marking'
      BY <2>4 DEF KeepInvariant, Marking
    <3>1. ASSUME NEW o \in Obj, heap'[o].col = "black" PROVE Strong(heap, o)' \cap White(heap)' = {}
      BY <3>1, <2>2, <2>5, <2>6, <2>7, <1>8
    <3>2. \A o \in Obj : heap'[o].col # Other(white)
      BY <1>1, <1>8, <2>2, <2>5, Palette DEF HeapTypes
    <3>3. \A o \in Obj : heap'[o].col = "gray" => o \in gc'.gray \cup gc'.again
      BY <1>8, <2>4, <2>5
    <3>4. \A o \in Obj : Weak(o) => heap'[o].col # "black"
      BY <1>8, <2>2, <2>5
    <3> QED
      BY <3>1, <3>2, <3>3, <3>4, <1>8, <2>6, <2>7 DEF Marking
  <2> QED
    BY <2>6, <2>8, <2>9 DEF HeapInv
<1>11. CASE x # Nil /\ heap[p].col = "black" /\ x \in White(heap) /\ kind[p] = "closure" /\ KeepInvariant
  <2>1. heap' = Marked(st, {x}) /\ gc' = [gc EXCEPT !.gray = gc.gray \cup ToGray(st, {x})]
    BY <1>1, <1>4, <1>5, <1>6, <1>11 DEF Guarded
  <2>2. /\ IsHeap(heap')
        /\ \A o \in Obj : /\ heap'[o].key = st[o].key /\ heap'[o].val = st[o].val /\ heap'[o].list = st[o].list
                          /\ heap'[o].col = IF o \in {x} /\ st[o].col \in Whites
                                            THEN IF kind[o] = "string" THEN "black" ELSE "gray"
                                            ELSE st[o].col
    BY <1>5, <2>1, MarkedObjects
  <2>3. x = v /\ k = Nil /\ x \in Spared /\ heap[x].col \in Whites /\ x # p
    BY <1>1, <1>3, <1>4, <1>6, <1>11 DEF White, IsWhite, Whites
  <2>4. /\ \A o \in Obj : o # p => heap'[o].key = heap[o].key /\ heap'[o].val = heap[o].val
        /\ \A o \in Obj : heap'[o].list = heap[o].list
        /\ \A o \in Obj : o # x => heap'[o].col = heap[o].col
        /\ heap'[x].col = IF kind[x] = "string" THEN "black" ELSE "gray"
        /\ heap'[p].key = k /\ heap'[p].val = v
    BY <1>1, <1>5, <2>2, <2>3
  <2>5. ToGray(st, {x}) \subseteq {x} /\ x \in Obj
    BY <1>1, <2>3 DEF ToGray
  <2>6. /\ gc'.gray = gc.gray \cup ToGray(st, {x}) /\ gc'.again = gc.again /\ gc'.left = gc.left /\ gc'.state = gc.state
        /\ gc' \in [state : Stage, gray : SUBSET Obj, again : SUBSET Obj, root : BOOLEAN, left : SUBSET Obj]
    BY <1>1, <2>1, <2>5 DEF HeapTypes
  <2>7. /\ HeapTypes' /\ Safe' /\ Spared' = Spared /\ Other(white)' = Other(white)
        /\ On(heap, "tobefnz")' = On(heap, "tobefnz")
        /\ \A o \in Obj : Weak(o)' = Weak(o) /\ (o # p => Strong(heap, o)' = Strong(heap, o))
        /\ Strong(heap, p)' \subseteq {k, v} \ {Nil}
    <3>1. gc'.gray \subseteq Spared /\ gc'.again \subseteq Spared
      BY <1>1, <2>3, <2>5, <2>6 DEF Safe
    <3>2. \A o \in Obj : heap'[o].col = heap[o].col \/ (o \in Spared /\ heap'[o].col \in {white, "gray", "black"})
      BY <2>3, <2>4
    <3>3. IsHeap(heap')
      BY <2>2
    <3>4. /\ \A o \in Obj : o # p => heap'[o].key = heap[o].key /\ heap'[o].val = heap[o].val
          /\ \A o \in Obj : heap'[o].list = heap[o].list
          /\ heap'[p].key = k /\ heap'[p].val = v
      BY <2>4
    <3>5. /\ UNCHANGED <<kind, slots, white>>
          /\ kind[p] # "string" /\ (kind[p] = "closure" => k = Nil) /\ (kind[p] = "ephemeron" => k # Nil)
      BY <1>4
    <3>6. /\ gc'.left = gc.left
          /\ gc' \in [state : Stage, gray : SUBSET Obj, again : SUBSET Obj, root : BOOLEAN, left : SUBSET Obj]
      BY <2>6
    <3> QED
      BY <1>1, <3>1, <3>2, <3>3, <3>4, <3>5, <3>6, Stored
  <2>8. White(heap)' = White(heap) \ {x}
    <3>1. heap'[x].col \notin Whites
      BY <2>4 DEF Whites
    <3> QED
      BY <3>1, <2>4 DEF White, IsWhite, Whites
  <2>9. Sweeping'
    BY <1>1, <1>11, <2>6 DEF Sweeping, SweepPhase, KeepInvariant
  <2>10. Marking'
    <3>1. ASSUME NEW o \in Obj, heap'[o].col = "black" PROVE Strong(heap, o)' \cap White(heap)' = {}
      <4>1. CASE o = p
        BY <4>1, <2>3, <2>7, <2>8
      <4>2. CASE o = x
        <5>1. kind'[o] = "string"
          BY <4>2, <2>4, <3>1, <1>4
        <5>2. Strong(heap, o)' = {}
          BY <5>1 DEF Strong
        <5> QED
          BY <5>2
      <4>3. CASE o # p /\ o # x
        BY <4>3, <3>1, <2>4, <2>7, <2>8, <1>8, <1>11
      <4> QED
        BY <4>1, <4>2, <4>3
    <3>2. \A o \in Obj : heap'[o].col # Other(white)
      BY <1>1, <1>8, <1>11, <2>4, Palette DEF HeapTypes
    <3>3. ASSUME NEW o \in Obj, heap'[o].col = "gray" PROVE o \in gc'.gray \cup gc'.again
      <4>1. CASE o = x
        <5>1. kind[x] # "string"
          BY <3>3, <4>1, <2>4
        <5>2. IsWhite(st, x)
          BY <2>3, <2>5, <1>5 DEF IsWhite, Whites
        <5> QED
          BY <4>1, <5>1, <5>2, <2>6 DEF ToGray
      <4>2. CASE o # x
        BY <3>3, <4>2, <2>4, <2>6, <1>8, <1>11
      <4> QED
        BY <4>1, <4>2
    <3>4. \A o \in Obj : Weak(o) => heap'[o].col # "black"
      BY <1>8, <1>11, <2>4 DEF Weak
    <3> QED
      BY <3>1, <3>2, <3>3, <3>4, <1>8, <1>11, <2>7, <2>8 DEF Marking
  <2> QED
    BY <2>7, <2>9, <2>10 DEF HeapInv
<1>12. CASE x # Nil /\ heap[p].col = "black" /\ x \in White(heap) /\ kind[p] = "closure" /\ ~KeepInvariant
  <2>1. PICK c : c = IF SweepPhase THEN white ELSE "black"
    OBVIOUS
  <2>2. heap' = [st EXCEPT ![p].col = c] /\ gc' = gc
    <3>1. st[p].col = "black"
      BY <1>1, <1>5, <1>12
    <3> QED
      BY <1>1, <1>4, <1>5, <1>6, <1>12, <2>1, <3>1 DEF Guarded
  <2>3. c \in {white, "black"} /\ c # "free" /\ c \in Whites \cup {"free", "gray", "black"}
    BY <2>1, <1>7
  <2>4. /\ heap' \in [Obj -> Cell] /\ \A o \in Obj : o # p => heap'[o] = st[o]
        /\ heap'[p].key = k /\ heap'[p].val = v /\ heap'[p].list = st[p].list /\ heap'[p].col = c
    BY <1>1, <1>5, <2>2, <2>3 DEF IsHeap, Cell
  <2>5. IsHeap(heap')
    <3>1. heap[p].col # "free" /\ st[p].col # "free"
      BY <1>5, <1>12, <1>1
    <3> QED
      BY <3>1, <2>3, <2>4, <1>5 DEF IsHeap
  <2>6. /\ \A o \in Obj : o # p => heap'[o].key = heap[o].key /\ heap'[o].val = heap[o].val
        /\ \A o \in Obj : heap'[o].list = heap[o].list
        /\ \A o \in Obj : o # p => heap'[o].col = heap[o].col
    BY <1>5, <2>4
  <2>7. /\ HeapTypes' /\ Safe' /\ Spared' = Spared
        /\ On(heap, "allgc")' = On(heap, "allgc") /\ On(heap, "finobj")' = On(heap, "finobj")
    <3>1. \A o \in Obj : heap'[o].col = heap[o].col \/ (o \in Spared /\ heap'[o].col \in {white, "gray", "black"})
      BY <1>1, <2>3, <2>4, <2>6
    <3>2. /\ gc'.gray \subseteq Spared /\ gc'.again \subseteq Spared /\ gc'.left = gc.left
          /\ gc' \in [state : Stage, gray : SUBSET Obj, again : SUBSET Obj, root : BOOLEAN, left : SUBSET Obj]
      BY <1>1, <2>2 DEF Safe, HeapTypes
    <3> QED
      BY <1>1, <1>4, <2>4, <2>5, <2>6, <3>1, <3>2, Stored
  <2>8. Unswept' \subseteq Unswept
    <3>1. heap[p].col = "black"
      BY <1>12
    <3> QED
      BY <3>1, <1>7, <2>6 DEF Unswept
  <2>9. Sweeping'
    BY <1>1, <2>2, <2>7, <2>8 DEF Sweeping, SweepPhase
  <2>10. Marking'
    BY <1>12, <2>2 DEF Marking, KeepInvariant
  <2> QED
    BY <2>7, <2>9, <2>10 DEF HeapInv
<1> QED
  BY <1>9, <1>10, <1>11, <1>12

-----------------------------------------------------------------------------
(* The emergency collection.                                                *)

\* What is live is reached.
LEMMA LiveReached ==
  ASSUME NEW h, NEW gray, MarkedUpTo(h, gray), kind \in [Obj -> Kind], Roots \subseteq Obj,
         \A o \in Allocated(h) : h[o].key = heap[o].key /\ h[o].val = heap[o].val
  PROVE  Live \subseteq Reached(h, gray)
<1> DEFINE R == Reached(h, gray)
<1>1. /\ R \subseteq Allocated(h) /\ Roots \subseteq R
      /\ \A x \in R : Strong(h, x) \cup Keeps(h, x) \subseteq R
      /\ \A x \in R : kind[x] = "ephemeron" /\ h[x].key \in R => h[x].val \in R \cup {Nil}
  BY ReachedClosed
<1>2. R \subseteq Obj /\ Nil \notin Obj
  BY <1>1, HeapAssumption DEF Allocated
<1> HIDE DEF R
<1>3. ASSUME NEW x \in KeptBy(heap, R, {}), x \in Obj PROVE x \in R
  <2>1. PICK o \in R : \/ x \in Strong(heap, o) \cup Keeps(heap, o)
                       \/ kind[o] = "ephemeron" /\ heap[o].key \in R /\ x = heap[o].val
    BY <1>3, KeptEach
  <2>2. h[o].key = heap[o].key /\ h[o].val = heap[o].val
    BY <1>1, <2>1
  <2>3. Strong(h, o) = Strong(heap, o) /\ Keeps(h, o) = Keeps(heap, o)
    BY <2>2, SameReferences
  <2> QED
    BY <1>1, <1>2, <1>3, <2>1, <2>2, <2>3
<1>4. Live \subseteq R
  BY <1>1, <1>2, <1>3, LiveWithin
<1> QED
  BY <1>4 DEF R

\* The heap with what is pending swept.
Clean ==
  IF KeepInvariant
  THEN [o \in Obj |-> IF heap[o].col = "free" THEN heap[o] ELSE [heap[o] EXCEPT !.col = white]]
  ELSE Swept(heap, gc.left \cup (IF gc.state = "swpallgc" THEN On(heap, "finobj") ELSE {})
                           \cup (IF SweepPhase THEN On(heap, "tobefnz") ELSE {}), white)

LEMMA FullCycleOfClean ==
  FullCycle(heap) = Swept(Atomic(Marked(Clean, On(Clean, "tobefnz")), On(Clean, "tobefnz")), Obj, Other(white))
BY DEF FullCycle, Clean

LEMMA CleanObjects ==
  ASSUME HeapInv
  PROVE  /\ IsHeap(Clean)
         /\ \A o \in Obj : /\ Clean[o].col = IF o \in Spared THEN white ELSE "free"
                           /\ o \in Spared => /\ Clean[o].key = heap[o].key /\ Clean[o].val = heap[o].val
                                              /\ Clean[o].list = heap[o].list
                           /\ \/ Clean[o].key = heap[o].key /\ Clean[o].val = heap[o].val
                              \/ Clean[o].key = Nil /\ Clean[o].val = Nil
<1>1. HeapTypes /\ Sweeping /\ Marking /\ IsHeap(heap) /\ white \in Whites
  BY DEF HeapInv, HeapTypes
<1>2. white # "free" /\ white # "gray" /\ white # "black" /\ Other(white) # white /\ Other(white) # "free"
  BY <1>1, Palette
<1>3. CASE KeepInvariant
  <2>1. \A o \in Obj : heap[o].col # Other(white)
    BY <1>1, <1>3 DEF Marking
  <2>2. ASSUME NEW o \in Obj
        PROVE  /\ Clean[o] \in Cell /\ (Clean[o].col = "free" <=> Clean[o].list = "none")
               /\ Clean[o].col = IF o \in Spared THEN white ELSE "free"
               /\ Clean[o].key = heap[o].key /\ Clean[o].val = heap[o].val /\ Clean[o].list = heap[o].list
    <3>1. Clean[o] = IF heap[o].col = "free" THEN heap[o] ELSE [heap[o] EXCEPT !.col = white]
      BY <1>3 DEF Clean
    <3>2. heap[o] \in Cell /\ (heap[o].col = "free" <=> heap[o].list = "none")
      BY <1>1 DEF IsHeap
    <3>3. o \in Spared <=> heap[o].col # "free"
      BY <2>1 DEF Spared
    <3> QED
      BY <1>1, <1>2, <3>1, <3>2, <3>3 DEF Cell
  <2>3. Clean \in [Obj -> Cell]
    BY <1>3, <2>2 DEF Clean
  <2> QED
    BY <2>2, <2>3 DEF IsHeap
<1>4. CASE ~KeepInvariant
  <2>1. PICK S : S = gc.left \cup (IF gc.state = "swpallgc" THEN On(heap, "finobj") ELSE {})
                             \cup (IF SweepPhase THEN On(heap, "tobefnz") ELSE {})
    OBVIOUS
  <2>2. Clean = Swept(heap, S, white)
    BY <1>4, <2>1 DEF Clean
  <2>3. /\ IsHeap(Clean)
        /\ \A o \in Obj :
              IF o \in S /\ heap[o].col # "free"
              THEN IF heap[o].col = Other(white) THEN Clean[o] = Free
                   ELSE /\ Clean[o].key = heap[o].key /\ Clean[o].val = heap[o].val
                        /\ Clean[o].list = heap[o].list /\ Clean[o].col = white
              ELSE Clean[o] = heap[o]
    BY <1>1, <2>2, SweptObjects
  <2>4. Unswept \subseteq S
    <3>1. Unswept \subseteq On(heap, "allgc") \cup On(heap, "finobj") \cup On(heap, "tobefnz")
      BY <1>1 DEF IsHeap, Cell, Unswept, On
    <3>2. CASE gc.state \in {"pause", "callfin", "swpend"}
      BY <3>2, <1>1 DEF Sweeping
    <3>3. CASE gc.state = "swpallgc"
      BY <3>1, <3>3, <1>1, <2>1 DEF Sweeping, SweepPhase
    <3>4. CASE gc.state = "swpfinobj"
      BY <3>1, <3>4, <1>1, <2>1 DEF Sweeping, SweepPhase
    <3>5. CASE gc.state = "swptobefnz"
      BY <3>5, <1>1, <2>1 DEF Sweeping
    <3> QED
      BY <3>2, <3>3, <3>4, <3>5, <1>1, <1>4 DEF HeapTypes, Stage, KeepInvariant
  <2>5. Free.col = "free" /\ Free.key = Nil /\ Free.val = Nil
    BY DEF Free
  <2>6. ASSUME NEW o \in Obj
        PROVE  /\ Clean[o].col = IF o \in Spared THEN white ELSE "free"
               /\ o \in Spared => /\ Clean[o].key = heap[o].key /\ Clean[o].val = heap[o].val
                                  /\ Clean[o].list = heap[o].list
               /\ \/ Clean[o].key = heap[o].key /\ Clean[o].val = heap[o].val
                  \/ Clean[o].key = Nil /\ Clean[o].val = Nil
    <3>1. o \in Spared <=> heap[o].col \notin {"free", Other(white)}
      BY DEF Spared
    <3>2. heap[o].col \notin {"free", white} => o \in S
      BY <2>4 DEF Unswept
    <3> QED
      BY <3>1, <3>2, <2>3, <2>5, <1>2
  <2> QED
    BY <2>3, <2>6
<1> QED
  BY <1>3, <1>4

\* The marking of an emergency collection begins with what waits for its finalizer.
Begun == Marked(Clean, On(Clean, "tobefnz"))

LEMMA BegunObjects ==
  ASSUME HeapInv
  PROVE  /\ MarkedUpTo(Begun, On(Clean, "tobefnz")) /\ Allocated(Begun) = Spared
         /\ On(Begun, "finobj") = On(heap, "finobj") /\ On(Begun, "tobefnz") = On(heap, "tobefnz")
         /\ \A o \in Spared : /\ Begun[o].key = heap[o].key /\ Begun[o].val = heap[o].val
                              /\ Begun[o].list = heap[o].list
         /\ \A o \in Obj : Begun[o].col \in {"free", white, "gray", "black"}
<1> DEFINE T == On(Clean, "tobefnz")
           m == Begun
<1>1. HeapTypes /\ Safe /\ white \in Whites /\ Spared \subseteq Obj /\ Nil \notin Obj
  BY HeapAssumption DEF HeapInv, HeapTypes, Spared
<1>2. white # "free" /\ white # "gray" /\ white # "black"
  BY <1>1, Palette
<1>3. PICK cl : cl = Clean
  OBVIOUS
<1>4. /\ IsHeap(cl)
      /\ \A o \in Obj : /\ cl[o].col = IF o \in Spared THEN white ELSE "free"
                        /\ o \in Spared => /\ cl[o].key = heap[o].key /\ cl[o].val = heap[o].val
                                           /\ cl[o].list = heap[o].list
                        /\ \/ cl[o].key = heap[o].key /\ cl[o].val = heap[o].val
                           \/ cl[o].key = Nil /\ cl[o].val = Nil
  BY <1>3, CleanObjects
<1>5. m = Marked(cl, T) /\ T = On(cl, "tobefnz")
  BY <1>3 DEF Begun
<1> HIDE DEF T, m
<1>6. /\ IsHeap(m)
      /\ \A o \in Obj : /\ m[o].key = cl[o].key /\ m[o].val = cl[o].val /\ m[o].list = cl[o].list
                        /\ m[o].col = IF o \in T /\ cl[o].col \in Whites
                                      THEN IF kind[o] = "string" THEN "black" ELSE "gray"
                                      ELSE cl[o].col
  BY <1>4, <1>5, MarkedObjects
<1>7. T \subseteq Spared
  <2>1. \A o \in Obj : cl[o].list # "none" => o \in Spared
    BY <1>4 DEF IsHeap
  <2> QED
    BY <2>1, <1>5 DEF On
<1>8. \A o \in Obj : m[o].col \in {"free", white, "gray", "black"} /\ (o \in Spared <=> m[o].col # "free")
  BY <1>2, <1>4, <1>6, <1>7
<1>9. Allocated(m) = Spared
  BY <1>1, <1>8 DEF Allocated
<1>10. On(m, "finobj") = On(heap, "finobj") /\ On(m, "tobefnz") = On(heap, "tobefnz") /\ T = On(m, "tobefnz")
  <2>1. ASSUME NEW o \in Obj, o \notin Spared
        PROVE  cl[o].list = "none" /\ heap[o].list \notin {"finobj", "tobefnz"}
    BY <1>1, <1>4, <2>1 DEF IsHeap, Safe, On
  <2>2. ASSUME NEW o \in Obj
        PROVE  /\ m[o].list = "finobj" <=> heap[o].list = "finobj"
               /\ m[o].list = "tobefnz" <=> heap[o].list = "tobefnz"
    BY <2>1, <1>4, <1>6
  <2> QED
    BY <2>2, <1>5, <1>6 DEF On
<1>11. \A o \in Spared : m[o].key = heap[o].key /\ m[o].val = heap[o].val /\ m[o].list = heap[o].list
  BY <1>1, <1>4, <1>6
<1>12. Shaped(m)
  <2>1. \A o \in Obj : \/ m[o].key = heap[o].key /\ m[o].val = heap[o].val
                       \/ m[o].key = Nil /\ m[o].val = Nil
    BY <1>4, <1>6
  <2> QED
    BY <2>1, <1>1, SameEntries DEF Safe
<1>13. Inside(m, Allocated(m))
  BY <1>1, <1>9, <1>11 DEF Safe, Inside
<1>14. \A o \in Obj : m[o].col = "gray" => o \in T
  BY <1>2, <1>4, <1>6
<1>15. \A o \in Obj : m[o].col = "black" => kind[o] = "string"
  BY <1>2, <1>4, <1>6
<1>16. On(m, "tobefnz") \cap White(m) = {}
  <2>1. \A o \in T : m[o].col \notin Whites
    BY <1>1, <1>4, <1>6, <1>7, Palette
  <2> QED
    BY <2>1, <1>10 DEF White, IsWhite, Whites
<1>17. MarkedUpTo(m, T)
  <2>1. \A o \in Obj : Weak(o) => m[o].col # "black"
    BY <1>15 DEF Weak
  <2>2. \A o \in Obj : m[o].col = "black" => Strong(m, o) \cap White(m) = {}
    BY <1>15, References
  <2> QED
    BY <2>1, <2>2, <1>1, <1>6, <1>7, <1>9, <1>12, <1>13, <1>14, <1>16 DEF MarkedUpTo, Safe
<1> QED
  BY <1>8, <1>9, <1>10, <1>11, <1>17 DEF T, m

\* What an emergency collection leaves: what it has reached from the roots, and what that
\* and the objects with finalizers keep alive.
LEMMA FullCycleObjects ==
  ASSUME HeapInv, NEW f, f = FullCycle(heap)
  PROVE  \E A \in SUBSET Spared : \E R \in SUBSET A :
           /\ Roots \subseteq R /\ Live \subseteq R /\ On(heap, "finobj") \subseteq A /\ On(heap, "tobefnz") \subseteq R
           /\ IsHeap(f) /\ Shaped(f) /\ Inside(f, A)
           /\ \A o \in Obj : f[o].col = IF o \in A THEN Other(white) ELSE "free"
           /\ \A o \in A : f[o].list = IF heap[o].list = "finobj" /\ o \notin R THEN "tobefnz" ELSE heap[o].list
           /\ \A o \in R : kind[o] = "weakvalue" => f[o].val \in R \cup {Nil}
<1>1. /\ HeapTypes /\ Safe /\ white \in Whites /\ Spared \subseteq Obj /\ kind \in [Obj -> Kind]
      /\ Other(white) \in Whites /\ Other(Other(white)) = white /\ Roots \subseteq Obj
  BY Palette DEF HeapInv, HeapTypes, Spared, Safe
<1>2. white # "free" /\ white # "gray" /\ white # "black" /\ Other(white) # white
  BY <1>1, Palette
<1>3. PICK m, T : m = Begun /\ T = On(Clean, "tobefnz")
  OBVIOUS
<1>4. PICK a : a = Atomic(m, T)
  OBVIOUS
<1>5. f = Swept(a, Obj, Other(white))
  BY <1>3, <1>4, FullCycleOfClean DEF Begun
<1>6. /\ MarkedUpTo(m, T) /\ Allocated(m) = Spared
      /\ On(m, "finobj") = On(heap, "finobj") /\ On(m, "tobefnz") = On(heap, "tobefnz")
      /\ \A o \in Spared : /\ m[o].key = heap[o].key /\ m[o].val = heap[o].val
                           /\ m[o].list = heap[o].list
      /\ \A o \in Obj : m[o].col \in {"free", white, "gray", "black"}
  BY <1>3, BegunObjects
<1>7. PICK A, R, D : A = Alive(m, T) /\ R = Reached(m, T) /\ D = Dying(m, T)
  OBVIOUS
<1>8. /\ R \subseteq A /\ A \subseteq Spared /\ D \subseteq A /\ Dark(m) \subseteq R /\ Roots \subseteq R
      /\ On(heap, "tobefnz") \subseteq R
  BY <1>1, <1>6, <1>7, ReachedClosed, AliveClosed
<1>9. D = On(heap, "finobj") \ R /\ On(heap, "finobj") \subseteq A
  BY <1>6, <1>7, <1>8 DEF Dying
<1>10. Live \subseteq R
  BY <1>1, <1>6, <1>7, LiveReached
<1>11. /\ IsHeap(a)
       /\ \A o \in Obj :
            /\ a[o].col = IF o \in A THEN "black" ELSE m[o].col
            /\ a[o].list = IF o \in D THEN "tobefnz" ELSE m[o].list
            /\ \/ a[o].key = m[o].key /\ a[o].val = m[o].val
               \/ a[o].key = Nil /\ a[o].val = Nil
            /\ o \in A => {a[o].key, a[o].val} \ {Nil} \subseteq A
            /\ o \in R /\ kind[o] = "weakvalue" => a[o].val \in R \cup {Nil}
  BY <1>1, <1>4, <1>6, <1>7, AtomicObjects
<1>12. ASSUME NEW o \in Obj, o \notin A PROVE a[o].col \in {"free", white}
  <2>1. o \notin Dark(m)
    BY <1>8, <1>12
  <2>2. o \notin Allocated(m) \/ o \in White(m)
    BY <2>1 DEF Dark
  <2>3. m[o].col \in {"free", white}
    BY <2>2, <1>2, <1>6 DEF Allocated, White, IsWhite
  <2> QED
    BY <2>3, <1>11, <1>12
<1>13. /\ IsHeap(f)
       /\ \A o \in Obj :
              IF o \in Obj /\ a[o].col # "free"
              THEN IF a[o].col = Other(Other(white)) THEN f[o] = Free
                   ELSE /\ f[o].key = a[o].key /\ f[o].val = a[o].val
                        /\ f[o].list = a[o].list /\ f[o].col = Other(white)
              ELSE f[o] = a[o]
  BY <1>1, <1>5, <1>11, SweptObjects
<1>14. Free.col = "free" /\ Free.key = Nil /\ Free.val = Nil
  BY DEF Free
<1>15. ASSUME NEW o \in Obj
       PROVE  /\ f[o].col = IF o \in A THEN Other(white) ELSE "free"
              /\ o \in A => f[o].key = a[o].key /\ f[o].val = a[o].val /\ f[o].list = a[o].list
              /\ (f[o].key = a[o].key /\ f[o].val = a[o].val) \/ (f[o].key = Nil /\ f[o].val = Nil)
  <2>1. CASE o \in A
    <3>1. a[o].col = "black"
      BY <2>1, <1>11
    <3> QED
      BY <2>1, <3>1, <1>1, <1>2, <1>13
  <2>2. CASE o \notin A
    BY <2>2, <1>1, <1>12, <1>13, <1>14
  <2> QED
    BY <2>1, <2>2
<1>16. Shaped(f)
  <2>1. Shaped(m) /\ Shaped(a)
    BY <1>6, <1>11, SameEntries DEF MarkedUpTo
  <2> QED
    BY <2>1, <1>15, SameEntries
<1>17. Inside(f, A) /\ A \subseteq Obj
  BY <1>1, <1>8, <1>11, <1>15 DEF Inside
<1>18. \A o \in A : f[o].list = IF heap[o].list = "finobj" /\ o \notin R THEN "tobefnz" ELSE heap[o].list
  <2>1. \A o \in A : o \in D <=> heap[o].list = "finobj" /\ o \notin R
    BY <1>9, <1>17 DEF On
  <2> QED
    BY <2>1, <1>6, <1>8, <1>11, <1>15, <1>17
<1>19. \A o \in R : kind[o] = "weakvalue" => f[o].val \in R \cup {Nil}
  BY <1>8, <1>11, <1>15, <1>17
<1>20. A \in SUBSET Spared /\ R \in SUBSET A
  BY <1>8
<1> QED
  BY <1>8, <1>9, <1>10, <1>13, <1>15, <1>16, <1>17, <1>18, <1>19, <1>20

LEMMA EmergencyKeeps == HeapInv /\ NewEmergency => HeapInv'
<1> SUFFICES ASSUME HeapInv, NewEmergency PROVE HeapInv'
  OBVIOUS
<1>1. PICK f : f = FullCycle(heap)
  OBVIOUS
<1>2. PICK A \in SUBSET Spared : \E R \in SUBSET A :
           /\ Roots \subseteq R /\ Live \subseteq R /\ On(heap, "finobj") \subseteq A /\ On(heap, "tobefnz") \subseteq R
           /\ IsHeap(f) /\ Shaped(f) /\ Inside(f, A)
           /\ \A o \in Obj : f[o].col = IF o \in A THEN Other(white) ELSE "free"
           /\ \A o \in A : f[o].list = IF heap[o].list = "finobj" /\ o \notin R THEN "tobefnz" ELSE heap[o].list
           /\ \A o \in R : kind[o] = "weakvalue" => f[o].val \in R \cup {Nil}
  BY <1>1, FullCycleObjects
<1>3. /\ HeapTypes /\ Safe /\ white \in Whites /\ A \subseteq Obj /\ kind \in [Obj -> Kind] /\ Nil \notin Obj
      /\ Other(white) \in Whites /\ Other(Other(white)) = white /\ Other(white) # white
      /\ Other(white) # "free" /\ white # "free" /\ slots \in [Slots -> Obj \cup {Nil}]
  BY Palette, HeapAssumption DEF HeapInv, HeapTypes, Spared
<1>4. /\ Roots \subseteq A /\ IsHeap(f) /\ Shaped(f) /\ Inside(f, A)
      /\ \A o \in Obj : f[o].col = IF o \in A THEN Other(white) ELSE "free"
  BY <1>2
<1>5. PICK s \in Obj \cup {Nil} :
        /\ slots' = [slots EXCEPT !["stack"] = s]
        /\ IF s = Nil THEN heap' = f
                      ELSE /\ f[s].col = "free"
                           /\ heap' = [f EXCEPT ![s] = [col |-> Other(white), list |-> "allgc", key |-> Nil, val |-> Nil]]
  <2>1. CASE heap' = f /\ slots' = [slots EXCEPT !["stack"] = Nil]
    BY <2>1
  <2>2. CASE \E p \in Obj \ Allocated(f) : Place(f, Other(white), p, "stack")
    <3>1. PICK p \in Obj \ Allocated(f) : Place(f, Other(white), p, "stack")
      BY <2>2
    <3>2. heap' = [f EXCEPT ![p] = [col |-> Other(white), list |-> "allgc", key |-> Nil, val |-> Nil]]
      BY <3>1, Born DEF Place
    <3>3. p # Nil /\ f[p].col = "free" /\ slots' = [slots EXCEPT !["stack"] = p]
      BY <3>1, <1>3 DEF Place, Allocated
    <3> QED
      BY <3>2, <3>3
  <2> QED
    BY <1>1, <2>1, <2>2 DEF NewEmergency
<1>6. /\ white' = Other(white) /\ kind' = kind
      /\ gc' = [state |-> "pause", gray |-> {}, again |-> {}, root |-> FALSE, left |-> {}]
  BY DEF NewEmergency, Pause
<1>7. PICK B : B = IF s = Nil THEN A ELSE A \cup {s}
  OBVIOUS
<1>8. A \subseteq B /\ B \subseteq Obj /\ (s # Nil => s \in B /\ s \notin A /\ s \in Obj)
  BY <1>3, <1>4, <1>5, <1>7
<1>9. /\ heap' \in [Obj -> Cell]
      /\ \A o \in Obj : o # s => heap'[o] = f[o]
      /\ s # Nil => /\ heap'[s].col = Other(white) /\ heap'[s].list = "allgc"
                    /\ heap'[s].key = Nil /\ heap'[s].val = Nil
  <2>1. CASE s = Nil
    BY <2>1, <1>4, <1>5 DEF IsHeap
  <2>2. CASE s # Nil
    <3>1. [col |-> Other(white), list |-> "allgc", key |-> Nil, val |-> Nil] \in Cell
      BY <1>3 DEF Cell
    <3>2. f \in [Obj -> Cell] /\ s \in Obj
      BY <1>4, <1>8, <2>2 DEF IsHeap
    <3>3. heap' = [f EXCEPT ![s] = [col |-> Other(white), list |-> "allgc", key |-> Nil, val |-> Nil]]
      BY <1>5, <2>2
    <3> QED
      BY <3>1, <3>2, <3>3
  <2> QED
    BY <2>1, <2>2
<1>10. \A o \in Obj : heap'[o].col = IF o \in B THEN Other(white) ELSE "free"
  BY <1>3, <1>4, <1>7, <1>8, <1>9
<1>11. IsHeap(heap')
  <2>1. \A o \in Obj : heap'[o].col = "free" <=> heap'[o].list = "none"
    BY <1>3, <1>4, <1>9 DEF IsHeap
  <2> QED
    BY <2>1, <1>9 DEF IsHeap
<1>12. Shaped(heap') /\ Inside(heap', B)
  <2>1. \A o \in Obj : \/ heap'[o].key = f[o].key /\ heap'[o].val = f[o].val
                       \/ heap'[o].key = Nil /\ heap'[o].val = Nil
    BY <1>3, <1>9
  <2>2. Shaped(heap') /\ Inside(heap', A)
    BY <2>1, <1>3, <1>4, SameEntries
  <2> QED
    BY <2>2, <1>3, <1>7, <1>8, <1>9 DEF Inside
<1>13. Spared' = B /\ Unswept' = {}
  <2>1. Other(white)' = white
    BY <1>3, <1>6 DEF Other
  <2>2. Spared' = B
    BY <2>1, <1>3, <1>8, <1>10 DEF Spared
  <2>3. Unswept' = {}
    BY <1>6, <1>10 DEF Unswept
  <2> QED
    BY <2>2, <2>3
<1>14. Roots' \subseteq B
  BY <1>3, <1>4, <1>5, <1>7 DEF Roots, Slots
<1>15. HeapTypes'
  <2>1. slots' \in [Slots -> Obj \cup {Nil}]
    BY <1>3, <1>5
  <2> QED
    BY <2>1, <1>3, <1>6, <1>11 DEF HeapTypes, Stage
<1>16. Safe'
  <2>1. Shaped(heap)' /\ Inside(heap, Spared)'
    BY <1>6, <1>12, <1>13 DEF Shaped, Inside
  <2>2. \A o \in Obj : heap'[o].list # "none" => o \in B
    BY <1>10, <1>11 DEF IsHeap
  <2>3. On(heap, "finobj")' \subseteq B /\ On(heap, "tobefnz")' \subseteq B
    BY <2>2 DEF On
  <2> QED
    BY <2>1, <2>3, <1>6, <1>13, <1>14 DEF Safe
<1>17. Sweeping' /\ Marking'
  BY <1>6, <1>13 DEF Sweeping, SweepPhase, Marking, KeepInvariant
<1> QED
  BY <1>15, <1>16, <1>17 DEF HeapInv

-----------------------------------------------------------------------------
(* Every step.                                                              *)

LEMMA HeapStarts == HeapInit => HeapInv
<1>1. HeapInit => Empty
  BY HeapAssumption DEF HeapInit, Empty, Whites
<1> QED
  BY <1>1, EmptyIs

LEMMA HeapSteps == HeapInv /\ [HeapNext]_heapVars => HeapInv'
<1> SUFFICES ASSUME HeapInv, [HeapNext]_heapVars PROVE HeapInv'
  OBVIOUS
<1>1. CASE Collect
  <2>1. CASE Restart \/ PropagateThread \/ EnterAtomic \/ EndPropagate \/ NextPhase \/ EndCycle
    BY <2>1, RestartKeeps, ThreadKeeps, AtomicKeeps, StagesKeep
  <2>2. CASE \E o \in Obj : PropagateObject(o) \/ Sweep(o) \/ CallFinalizer(o)
    BY <2>2, ObjectKeeps, SweepKeeps, CallKeeps
  <2> QED
    BY <1>1, <2>1, <2>2 DEF Collect
<1>2. CASE Script
  <2>1. CASE \E o \in Obj : New(o)
    BY <2>1, NewKeeps
  <2>2. CASE \E o \in Live : SetFinalizer(o)
    BY <2>2, FinalizerKeeps
  <2>3. CASE \E o \in Live, k, v \in Readable \cup {Nil} : Assign(o, k, v)
    BY <2>3, AssignKeeps
  <2>4. CASE \E s \in {"global", "stack"}, v \in Readable \cup {Nil} : Copy(s, v)
    BY <2>4, VariablesKeep
  <2>5. CASE NewEmergency \/ EndScript \/ Reopen
    BY <2>5, EmergencyKeeps, VariablesKeep, ReopenKeeps
  <2> QED
    BY <1>2, <2>1, <2>2, <2>3, <2>4, <2>5 DEF Script
<1>3. CASE Return
  BY <1>3, VariablesKeep
<1>4. CASE UNCHANGED heapVars
  <2>1. UNCHANGED <<kind, heap, slots, white, gc>>
    BY <1>4 DEF heapVars
  <2> QED
    BY <2>1, SlotsKeep DEF HeapInv, HeapTypes
<1> QED
  BY <1>1, <1>2, <1>3, <1>4 DEF HeapNext

LEMMA GuardedLists ==
  ASSUME NEW h, IsHeap(h), NEW p \in Obj, NEW x, NEW o \in Obj
  PROVE  Guarded(h, p, x).heap[o].list = h[o].list
<1>1. CASE x = Nil \/ h[p].col # "black" \/ x \notin White(h)
  BY <1>1 DEF Guarded
<1>2. CASE ~(x = Nil \/ h[p].col # "black" \/ x \notin White(h)) /\ kind[p] # "closure"
  <2>1. Guarded(h, p, x).heap = [h EXCEPT ![p].col = "gray"]
    BY <1>2 DEF Guarded
  <2> QED
    BY <2>1 DEF IsHeap, Cell
<1>3. CASE ~(x = Nil \/ h[p].col # "black" \/ x \notin White(h)) /\ kind[p] = "closure" /\ KeepInvariant
  <2>1. Guarded(h, p, x).heap = Marked(h, {x})
    BY <1>3 DEF Guarded
  <2> QED
    BY <2>1, MarkedObjects
<1>4. CASE ~(x = Nil \/ h[p].col # "black" \/ x \notin White(h)) /\ kind[p] = "closure" /\ ~KeepInvariant
  <2>1. PICK c : c = IF SweepPhase THEN white ELSE h[p].col
    OBVIOUS
  <2>2. Guarded(h, p, x).heap = [h EXCEPT ![p].col = c]
    BY <1>4, <2>1 DEF Guarded
  <2> QED
    BY <2>2 DEF IsHeap, Cell
<1> QED
  BY <1>1, <1>2, <1>3, <1>4

\* The steps that neither make an object nor free one, nor find one to finalize.
Quiet ==
  /\ UNCHANGED <<mem, total, kind>>
  /\ \A o \in Obj : \/ heap'[o].list = heap[o].list
                    \/ heap[o].list # "none" /\ heap'[o].list \in {"allgc", "finobj"}

LEMMA Steps ==
  ASSUME HeapInv, HeapNext
  PROVE  \/ Quiet \/ EnterAtomic \/ NewEmergency \/ Reopen
         \/ (\E o \in Obj : New(o)) \/ (\E o \in Obj : Sweep(o))
<1>1. /\ heap \in [Obj -> Cell] /\ IsHeap(heap) /\ HeapTypes
      /\ \A o \in Obj : heap[o].col = "free" <=> heap[o].list = "none"
  BY DEF HeapInv, HeapTypes, IsHeap
<1>2. ASSUME NEW S, heap' = Marked(heap, S), UNCHANGED <<mem, total, kind>> PROVE Quiet
  BY <1>1, <1>2, MarkedObjects DEF Quiet
<1>3. ASSUME UNCHANGED <<mem, total, heap, kind>> PROVE Quiet
  BY <1>3 DEF Quiet
<1>4. CASE Restart \/ PropagateThread
  BY <1>2, <1>4 DEF Restart, PropagateThread
<1>5. CASE EndPropagate \/ NextPhase \/ EndCycle \/ EndScript \/ Return
  BY <1>3, <1>5 DEF EndPropagate, NextPhase, EndCycle, EndScript, Return
<1>6. CASE \E s \in {"global", "stack"}, v \in Readable \cup {Nil} : Copy(s, v)
  BY <1>3, <1>6 DEF Copy
<1>7. ASSUME NEW p \in Obj, PropagateObject(p) PROVE Quiet
  <2>1. PICK m, c : m = Marked(heap, Visited(heap, p)) /\ c = IF Weak(p) THEN "gray" ELSE "black"
    OBVIOUS
  <2>2. heap' = [m EXCEPT ![p].col = c]
    BY <1>7, <2>1 DEF PropagateObject
  <2>3. m \in [Obj -> Cell] /\ \A o \in Obj : m[o].list = heap[o].list
    BY <1>1, <2>1, MarkedObjects DEF IsHeap
  <2>4. \A o \in Obj : heap'[o].list = heap[o].list
    BY <2>2, <2>3 DEF Cell
  <2> QED
    BY <1>7, <2>4 DEF Quiet, PropagateObject
<1>8. ASSUME NEW p \in Obj, CallFinalizer(p) PROVE Quiet
  <2>1. heap' = [heap EXCEPT ![p].list = "allgc"] /\ heap[p].list = "tobefnz"
    BY <1>8 DEF CallFinalizer, On
  <2>2. \A o \in Obj : heap'[o].list = heap[o].list \/ (heap[o].list # "none" /\ heap'[o].list = "allgc")
    BY <1>1, <2>1 DEF Cell
  <2> QED
    BY <1>8, <2>2 DEF Quiet, CallFinalizer
<1>9. ASSUME NEW p \in Live, SetFinalizer(p) PROVE Quiet
  <2>1. PICK c : c = IF SweepPhase THEN white ELSE heap[p].col
    OBVIOUS
  <2>2. heap' = [heap EXCEPT ![p].list = "finobj", ![p].col = c] /\ heap[p].list = "allgc" /\ p \in Obj
    BY <1>9, <2>1, LiveSpared DEF SetFinalizer, Spared
  <2>3. \A o \in Obj : heap'[o].list = heap[o].list \/ (heap[o].list # "none" /\ heap'[o].list = "finobj")
    BY <1>1, <2>2 DEF Cell
  <2> QED
    BY <1>9, <2>3 DEF Quiet, SetFinalizer
<1>10. ASSUME NEW p \in Live, NEW k \in Readable \cup {Nil}, NEW v \in Readable \cup {Nil}, Assign(p, k, v)
       PROVE  Quiet
  <2>1. PICK st, x : st = [heap EXCEPT ![p].key = k, ![p].val = v] /\ x = IF k \in White(heap) THEN k ELSE v
    OBVIOUS
  <2>2. heap' = Guarded(st, p, x).heap /\ UNCHANGED <<mem, total, kind>>
    BY <1>10, <2>1 DEF Assign
  <2>3. p \in Obj /\ k \in Obj \cup {Nil} /\ v \in Obj \cup {Nil}
    BY LiveSpared DEF Spared
  <2>4. st \in [Obj -> Cell] /\ \A o \in Obj : st[o].list = heap[o].list /\ st[o].col = heap[o].col
    BY <1>1, <2>1, <2>3, ZenonT(20) DEF Cell
  <2>5. IsHeap(st)
    BY <1>1, <2>4 DEF IsHeap
  <2>6. \A o \in Obj : heap'[o].list = heap[o].list
    BY <2>2, <2>3, <2>4, <2>5, GuardedLists
  <2> QED
    BY <2>2, <2>6 DEF Quiet
<1> QED
  BY <1>4, <1>5, <1>6, <1>7, <1>8, <1>9, <1>10 DEF HeapNext, Collect, Script

-----------------------------------------------------------------------------
(* The count of what is allocated.                                          *)

Counted == kind \in Kinds /\ mem \in 0 .. Word - 1 /\ total = Size * Count(heap)

LEMMA Counting ==
  ASSUME NEW h, NEW g
  PROVE  /\ Count(h) \in Nat /\ Allocated(h) \subseteq Obj
         /\ Allocated(g) = Allocated(h) => Count(g) = Count(h)
         /\ \A o \in Obj : o \notin Allocated(h) /\ Allocated(g) = Allocated(h) \cup {o} => Count(g) = Count(h) + 1
         /\ \A o \in Obj : o \in Allocated(h) /\ Allocated(g) = Allocated(h) \ {o} => Count(g) = Count(h) - 1
<1>1. IsFiniteSet(Allocated(h)) /\ IsFiniteSet(Allocated(g)) /\ Allocated(h) \subseteq Obj
  BY HeapAssumption, FS_Subset DEF Allocated
<1>2. Count(h) \in Nat
  BY <1>1, FS_CardinalityType DEF Count
<1>3. ASSUME NEW o \in Obj, o \notin Allocated(h), Allocated(g) = Allocated(h) \cup {o}
      PROVE  Count(g) = Count(h) + 1
  BY <1>1, <1>3, FS_AddElement DEF Count
<1>4. ASSUME NEW o \in Obj, o \in Allocated(h), Allocated(g) = Allocated(h) \ {o}
      PROVE  Count(g) = Count(h) - 1
  BY <1>1, <1>4, FS_RemoveElement DEF Count
<1> QED
  BY <1>1, <1>2, <1>3, <1>4 DEF Count

LEMMA Sizes ==
  /\ Size \in Nat /\ Tag \in Nat
  /\ \A n, m \in Nat : /\ Size * (n + 1) = Size * n + Size /\ Size * (n - 1) = Size * n - Size
                       /\ Size * n - Size * (n - m) = Size * m
                       /\ Size * n \in Nat /\ Size * (n - m) \in Int
  /\ \A m \in Int : m % Word \in 0 .. Word - 1
BY HeapAssumption

LEMMA Freeing ==
  ASSUME NEW h, NEW w, NEW p \in Obj
  PROVE  Freed(h, {p}, w) = IF h[p].col = Other(w) THEN 1 ELSE 0
<1>1. CASE h[p].col = Other(w)
  <2>1. {o \in {p} : h[o].col = Other(w)} = {p}
    BY <1>1
  <2> QED
    BY <1>1, <2>1, FS_Singleton DEF Freed
<1>2. CASE h[p].col # Other(w)
  <2>1. {o \in {p} : h[o].col = Other(w)} = {}
    BY <1>2
  <2> QED
    BY <1>2, <2>1, FS_EmptySet DEF Freed
<1> QED
  BY <1>1, <1>2

LEMMA CountSteps ==
  ASSUME HeapInv, Counted, [HeapNext]_heapVars
  PROVE  Counted'
<1>1. HeapInv'
  BY HeapSteps
<1>2. /\ HeapTypes /\ HeapTypes' /\ Count(heap) \in Nat /\ mem \in Int /\ total = Size * Count(heap)
      /\ Word \in Nat /\ kind \in Kinds /\ mem \in 0 .. Word - 1
  BY <1>1, Counting, HeapAssumption DEF HeapInv, Counted
<1>3. ASSUME Allocated(heap)' = Allocated(heap), UNCHANGED <<mem, total, kind>> PROVE Counted'
  <2>1. Count(heap') = Count(heap)
    BY <1>3, Counting DEF Allocated
  <2> QED
    BY <1>2, <1>3, <2>1 DEF Counted, Count, Allocated
<1>4. CASE Quiet
  <2>1. \A o \in Obj : heap'[o].col = "free" <=> heap[o].col = "free"
    BY <1>2, <1>4 DEF Quiet, HeapTypes, IsHeap
  <2>2. Allocated(heap)' = Allocated(heap)
    BY <2>1 DEF Allocated
  <2> QED
    BY <1>3, <1>4, <2>2 DEF Quiet
<1>5. CASE UNCHANGED heapVars
  BY <1>3, <1>5 DEF heapVars, Allocated
<1>6. CASE EnterAtomic
  <2>1. PICK G : G = gc.gray \cup gc.again
    OBVIOUS
  <2>2. heap' = Atomic(heap, G) /\ UNCHANGED <<mem, total, kind>> /\ KeepInvariant
    BY <1>6, <2>1 DEF EnterAtomic, KeepInvariant
  <2>3. MarkedUpTo(heap, G) /\ kind \in [Obj -> Kind]
    BY <1>2, <2>1, <2>2, MarkedToGray DEF HeapTypes
  <2>4. Alive(heap, G) \subseteq Allocated(heap)
    BY <2>3, AliveClosed
  <2>5. \A o \in Obj : heap'[o].col = IF o \in Alive(heap, G) THEN "black" ELSE heap[o].col
    BY <2>2, <2>3, AtomicObjects
  <2>6. Allocated(heap)' = Allocated(heap)
    BY <2>4, <2>5 DEF Allocated
  <2> QED
    BY <1>3, <2>2, <2>6
<1>7. ASSUME NEW p \in Obj, New(p) PROVE Counted'
  <2>1. heap' = [heap EXCEPT ![p] = [col |-> white, list |-> "allgc", key |-> Nil, val |-> Nil]]
    BY <1>7, Born DEF New, Place
  <2>2. white # "free" /\ heap \in [Obj -> Cell] /\ heap[p].col = "free"
    BY <1>2, <1>7, Palette DEF HeapTypes, IsHeap, New
  <2>3. p \notin Allocated(heap) /\ Allocated(heap') = Allocated(heap) \cup {p}
    BY <2>1, <2>2 DEF Allocated
  <2>4. Count(heap') = Count(heap) + 1
    BY <2>3, Counting
  <2>5. mem' = (mem - Tag + Size) % Word /\ total' = total + Size /\ kind' = kind
    BY <1>7 DEF New
  <2>6. mem' \in 0 .. Word - 1
    BY <1>2, <2>5, Sizes
  <2>7. total' = Size * Count(heap')
    BY <1>2, <2>4, <2>5, Sizes
  <2> QED
    BY <1>2, <2>5, <2>6, <2>7 DEF Counted, Count, Allocated
<1>8. ASSUME NEW p \in Obj, Sweep(p) PROVE Counted'
  <2>1. /\ heap' = Swept(heap, {p}, white) /\ kind' = kind /\ p \in gc.left
        /\ mem' = (mem - Size * Freed(heap, {p}, white)) % Word
        /\ total' = total - Size * Freed(heap, {p}, white)
    BY <1>8 DEF Sweep
  <2>2. /\ p \in Allocated(heap) /\ heap[p].col # "free" /\ white \in Whites /\ white # "free"
        /\ IsHeap(heap)
    BY <1>2, <2>1, Palette DEF HeapTypes, Allocated
  <2>3. \A o \in Obj :
          IF o \in {p} /\ heap[o].col # "free"
          THEN IF heap[o].col = Other(white) THEN heap'[o] = Free
               ELSE /\ heap'[o].key = heap[o].key /\ heap'[o].val = heap[o].val
                    /\ heap'[o].list = heap[o].list /\ heap'[o].col = white
          ELSE heap'[o] = heap[o]
    BY <2>1, <2>2, SweptObjects
  <2>4. Free.col = "free"
    BY DEF Free
  <2>5. CASE heap[p].col = Other(white)
    <3>1. Allocated(heap') = Allocated(heap) \ {p}
      BY <2>2, <2>3, <2>4, <2>5 DEF Allocated
    <3>2. Count(heap') = Count(heap) - 1
      BY <2>2, <3>1, Counting
    <3>3. Size * Freed(heap, {p}, white) = Size
      BY <2>5, Freeing, Sizes
    <3>4. mem' = (mem - Size) % Word /\ total' = total - Size /\ mem - Size \in Int
      BY <1>2, <2>1, <3>3, Sizes
    <3>5. mem' \in 0 .. Word - 1
      BY <3>4, Sizes
    <3>6. total' = Size * Count(heap')
      BY <1>2, <3>2, <3>4, Sizes
    <3> QED
      BY <1>2, <2>1, <3>5, <3>6 DEF Counted, Count, Allocated
  <2>6. CASE heap[p].col # Other(white)
    <3>1. Allocated(heap)' = Allocated(heap)
      BY <2>2, <2>3, <2>6 DEF Allocated
    <3>2. Size * Freed(heap, {p}, white) = 0
      <4>1. Freed(heap, {p}, white) = 0
        BY <2>6, Freeing
      <4> QED
        BY <4>1, HeapAssumption
    <3>3. mem' = mem % Word /\ total' = total
      BY <1>2, <2>1, <3>2, Sizes
    <3>4. Count(heap') = Count(heap)
      BY <3>1, Counting DEF Allocated
    <3>5. mem' \in 0 .. Word - 1
      BY <1>2, <3>3, Sizes
    <3> QED
      BY <1>2, <2>1, <3>3, <3>4, <3>5 DEF Counted, Count, Allocated
  <2> QED
    BY <2>5, <2>6
<1>9. CASE Reopen
  <2>1. heap' = [o \in Obj |-> Free] /\ mem' = 0 /\ total' = 0 /\ kind' = kind
    BY <1>9 DEF Reopen
  <2>2. Allocated(heap') = {}
    BY <2>1 DEF Allocated, Free
  <2>3. Count(heap') = 0
    BY <2>2, FS_EmptySet DEF Count
  <2>4. Size * 0 = 0 /\ 0 \in 0 .. Word - 1
    BY HeapAssumption
  <2> QED
    BY <1>2, <2>1, <2>3, <2>4 DEF Counted, Count, Allocated
<1>10. CASE NewEmergency
  <2>1. PICK h : h = FullCycle(heap)
    OBVIOUS
  <2>2. PICK freed, m : freed = Size * (Count(heap) - Count(h)) /\ m = (mem - freed) % Word
    OBVIOUS
  <2>3. Count(h) \in Nat /\ freed \in Int /\ total - freed = Size * Count(h)
    BY <1>2, <2>2, Counting, Sizes
  <2>4. m \in 0 .. Word - 1 /\ m \in Int
    BY <1>2, <2>2, <2>3, Sizes
  <2>5. kind' = kind
    BY <1>10 DEF NewEmergency
  <2>6. CASE \E o \in Obj \ Allocated(h) :
               /\ Place(h, Other(white), o, "stack")
               /\ mem' = (m - Tag + Size) % Word /\ total' = total - freed + Size
    <3>1. PICK p \in Obj \ Allocated(h) :
               /\ Place(h, Other(white), p, "stack")
               /\ mem' = (m - Tag + Size) % Word /\ total' = total - freed + Size
      BY <2>6
    <3>2. heap' = [h EXCEPT ![p] = [col |-> Other(white), list |-> "allgc", key |-> Nil, val |-> Nil]]
      BY <3>1, Born DEF Place
    <3>3. Other(white) # "free" /\ h \in [Obj -> Cell]
      BY <1>2, <2>1, Palette, FullCycleObjects DEF HeapTypes, IsHeap
    <3>4. p \notin Allocated(h) /\ Allocated(heap') = Allocated(h) \cup {p}
      BY <3>1, <3>2, <3>3 DEF Allocated
    <3>5. Count(heap') = Count(h) + 1
      BY <3>4, Counting
    <3>6. total' = Size * Count(heap')
      BY <2>3, <3>1, <3>5, Sizes
    <3>7. mem' \in 0 .. Word - 1
      BY <2>4, <3>1, Sizes
    <3> QED
      BY <1>2, <2>5, <3>6, <3>7 DEF Counted, Count, Allocated
  <2>7. CASE heap' = h /\ mem' = m /\ total' = total - freed
    <3>1. total' = Size * Count(heap')
      BY <2>3, <2>7
    <3> QED
      BY <1>2, <2>4, <2>5, <2>7, <3>1 DEF Counted, Count, Allocated
  <2> QED
    BY <1>10, <2>1, <2>2, <2>6, <2>7 DEF NewEmergency
<1> QED
  BY <1>4, <1>5, <1>6, <1>7, <1>8, <1>9, <1>10, Steps

-----------------------------------------------------------------------------
(* The properties.                                                          *)

LEMMA HeapIsSound == HeapInv /\ Counted => HeapSound
<1> SUFFICES ASSUME HeapInv, Counted PROVE HeapSound
  OBVIOUS
<1>1. HeapTypes /\ Safe /\ Marking /\ Spared \subseteq Allocated(heap) /\ Spared \subseteq Obj
  BY SparedIs DEF HeapInv, Spared
<1>2. HeapTypeOK
  <2>1. heap \in [Obj -> [col : {"free", "white0", "white1", "gray", "black"},
                          list : {"none", "allgc", "finobj", "tobefnz"},
                          key : Obj \cup {Nil}, val : Obj \cup {Nil}]]
    <3>1. Whites \cup {"free", "gray", "black"} = {"free", "white0", "white1", "gray", "black"}
      BY DEF Whites
    <3> QED
      BY <3>1, <1>1 DEF HeapTypes, IsHeap, Cell
  <2>2. gc.gray \cup gc.again \cup gc.left \subseteq Allocated(heap)
    BY <1>1 DEF Safe, HeapTypes
  <2> QED
    BY <2>1, <2>2, <1>1 DEF HeapTypeOK, HeapTypes, IsHeap, Counted
<1>3. NoDangling
  <2>1. Readable \subseteq Allocated(heap)
    BY <1>1, LiveSpared
  <2>2. ASSUME NEW x \in KeptBy(heap, Spared, {}), x \in Obj PROVE x \in Spared
    <3>1. PICK o \in Spared : x \in Strong(heap, o) \cup Keeps(heap, o) \/ x = heap[o].val
      BY <2>2, KeptEach
    <3>2. x \in {heap[o].key, heap[o].val} \ {Nil}
      BY <1>1, <2>2, <3>1, SparedIs, References
    <3> QED
      BY <1>1, <3>2 DEF Safe, Inside
  <2>3. On(heap, "tobefnz") \subseteq Spared
    BY <1>1 DEF Safe
  <2>4. Closure(heap, On(heap, "tobefnz"), {}, Obj) \subseteq Spared
    BY <1>1, <2>2, <2>3 DEF Closure
  <2> QED
    BY <1>1, <2>1, <2>4 DEF NoDangling
<1>4. TriColour
  BY <1>1 DEF TriColour, Marking
<1> QED
  BY <1>2, <1>3, <1>4 DEF HeapSound

LEMMA HeapInvAlways == HeapSpec => [](HeapInv /\ Counted)
<1>1. HeapInit => HeapInv /\ Counted
  <2>1. HeapInit => Counted
    <3> SUFFICES ASSUME HeapInit PROVE Counted
      OBVIOUS
    <3>1. Allocated(heap) = {}
      BY DEF HeapInit, Allocated, Free
    <3>2. Count(heap) = 0
      BY <3>1, FS_EmptySet DEF Count
    <3>3. Size * 0 = 0 /\ 0 \in 0 .. Word - 1
      BY HeapAssumption
    <3> QED
      BY <3>2, <3>3 DEF HeapInit, Counted
  <2> QED
    BY <2>1, HeapStarts
<1>2. HeapInv /\ Counted /\ [HeapNext]_heapVars => (HeapInv /\ Counted)'
  BY HeapSteps, CountSteps
<1> QED
  BY <1>1, <1>2, PTL DEF HeapSpec

\* The heap of the sandbox: nothing that a script can reach, or that waits for its
\* finalizer, has been freed, by a step of the collector or by an emergency collection,
\* wherever the script assigns between two steps; no black object refers to a white one
\* while the collector relies on it (lgc.c); and Lua counts what is allocated.
THEOREM HeapStaysSound == HeapSpec => []HeapSound
BY HeapInvAlways, HeapIsSound, PTL

\* What one step does for the objects that have finalizers.
LEMMA FinalizerSteps ==
  ASSUME HeapInv, HeapNext
  PROVE  /\ ~Reopen => \A o \in On(heap, "finobj") \cup On(heap, "tobefnz") : heap'[o].list # "none"
         /\ \A o \in Obj : (heap[o].list = "finobj" /\ heap'[o].list = "tobefnz") =>
              /\ o \notin Live
              /\ \A t \in Live : kind[t] = "weakvalue" => heap'[t].val # o
<1> DEFINE Fin == On(heap, "finobj") \cup On(heap, "tobefnz")
           Found == {o \in Obj : heap[o].list = "finobj" /\ heap'[o].list = "tobefnz"}
<1>1. /\ HeapTypes /\ Safe /\ Fin \subseteq Spared /\ Spared \subseteq Obj /\ Roots \subseteq Obj /\ Nil \notin Obj
      /\ white \in Whites /\ Other(white) \in Whites /\ Other(white) # "free" /\ IsHeap(heap)
  BY Palette, HeapAssumption DEF HeapInv, HeapTypes, Safe, Spared
<1>2. SUFFICES /\ ~Reopen => \A o \in Fin : heap'[o].list # "none"
               /\ \A o \in Found : o \notin Live /\ \A t \in Live : kind[t] = "weakvalue" => heap'[t].val # o
  OBVIOUS
<1>3. \A o \in Fin : heap[o].list \in {"finobj", "tobefnz"}
  BY DEF On
<1>4. CASE Quiet
  <2>1. \A o \in Fin : heap'[o].list # "none"
    BY <1>1, <1>3, <1>4 DEF Quiet
  <2>2. Found = {}
    BY <1>4 DEF Quiet
  <2> QED
    BY <2>1, <2>2
<1>5. CASE EnterAtomic
  <2>1. PICK G : G = gc.gray \cup gc.again
    OBVIOUS
  <2>2. heap' = Atomic(heap, G) /\ KeepInvariant
    BY <1>5, <2>1 DEF EnterAtomic, KeepInvariant
  <2>3. MarkedUpTo(heap, G) /\ kind \in [Obj -> Kind]
    BY <1>1, <2>1, <2>2, MarkedToGray DEF HeapTypes
  <2>4. \A o \in Obj : /\ heap'[o].list = IF o \in Dying(heap, G) THEN "tobefnz" ELSE heap[o].list
                       /\ o \in Reached(heap, G) /\ kind[o] = "weakvalue" => heap'[o].val \in Reached(heap, G) \cup {Nil}
    BY <2>2, <2>3, AtomicObjects
  <2>5. Live \subseteq Reached(heap, G)
    BY <1>1, <2>3, LiveReached
  <2>6. \A o \in Found : o \notin Reached(heap, G)
    BY <2>4 DEF Dying
  <2>7. \A t \in Live : t \in Obj
    BY <1>1, LiveSpared
  <2>8. \A o \in Fin : heap'[o].list # "none"
    BY <1>1, <1>3, <2>4
  <2>9. ASSUME NEW o \in Found, NEW t \in Live, kind[t] = "weakvalue" PROVE heap'[t].val # o
    BY <2>4, <2>5, <2>6, <2>7, <2>9, <1>1
  <2> QED
    BY <2>5, <2>6, <2>8, <2>9
<1>6. ASSUME NEW p \in Obj, New(p)
      PROVE  /\ \A o \in Fin : heap'[o].list # "none"
             /\ Found = {}
  <2>1. heap' = [heap EXCEPT ![p] = [col |-> white, list |-> "allgc", key |-> Nil, val |-> Nil]]
    BY <1>6, Born DEF New, Place
  <2>2. heap[p].list = "none"
    BY <1>1, <1>6 DEF New, IsHeap
  <2>3. \A o \in Obj : heap'[o].list = IF o = p THEN "allgc" ELSE heap[o].list
    BY <1>1, <2>1 DEF IsHeap
  <2> QED
    BY <1>1, <1>3, <2>2, <2>3
<1>7. ASSUME NEW p \in Obj, Sweep(p)
      PROVE  /\ \A o \in Fin : heap'[o].list # "none"
             /\ Found = {}
  <2>1. heap' = Swept(heap, {p}, white)
    BY <1>7 DEF Sweep
  <2>2. \A o \in Obj :
          IF o \in {p} /\ heap[o].col # "free"
          THEN IF heap[o].col = Other(white) THEN heap'[o] = Free
               ELSE /\ heap'[o].key = heap[o].key /\ heap'[o].val = heap[o].val
                    /\ heap'[o].list = heap[o].list /\ heap'[o].col = white
          ELSE heap'[o] = heap[o]
    BY <1>1, <2>1, SweptObjects
  <2>3. Free.list = "none"
    BY DEF Free
  <2>4. \A o \in Obj : \/ heap'[o].list = heap[o].list
                       \/ heap'[o].list = "none" /\ heap[o].col = Other(white)
    BY <2>2, <2>3
  <2>5. \A o \in Fin : heap[o].col # Other(white)
    BY <1>1 DEF Spared
  <2> QED
    BY <1>1, <1>3, <2>4, <2>5
<1>8. CASE Reopen
  <2>1. heap' = [o \in Obj |-> Free]
    BY <1>8 DEF Reopen
  <2>2. \A o \in Obj : heap'[o].list = "none"
    BY <2>1 DEF Free
  <2> QED
    BY <1>8, <2>2
<1>9. CASE NewEmergency
  <2>1. PICK f : f = FullCycle(heap)
    OBVIOUS
  <2>2. PICK A \in SUBSET Spared : \E R \in SUBSET A :
           /\ Roots \subseteq R /\ Live \subseteq R /\ On(heap, "finobj") \subseteq A /\ On(heap, "tobefnz") \subseteq R
           /\ IsHeap(f) /\ Shaped(f) /\ Inside(f, A)
           /\ \A o \in Obj : f[o].col = IF o \in A THEN Other(white) ELSE "free"
           /\ \A o \in A : f[o].list = IF heap[o].list = "finobj" /\ o \notin R THEN "tobefnz" ELSE heap[o].list
           /\ \A o \in R : kind[o] = "weakvalue" => f[o].val \in R \cup {Nil}
    BY <2>1, FullCycleObjects
  <2>3. PICK R \in SUBSET A :
           /\ Roots \subseteq R /\ Live \subseteq R /\ On(heap, "finobj") \subseteq A /\ On(heap, "tobefnz") \subseteq R
           /\ IsHeap(f) /\ Shaped(f) /\ Inside(f, A)
           /\ \A o \in Obj : f[o].col = IF o \in A THEN Other(white) ELSE "free"
           /\ \A o \in A : f[o].list = IF heap[o].list = "finobj" /\ o \notin R THEN "tobefnz" ELSE heap[o].list
           /\ \A o \in R : kind[o] = "weakvalue" => f[o].val \in R \cup {Nil}
    BY <2>2
  <2>4. \A o \in A : heap'[o] = f[o]
    <3>1. CASE \E p \in Obj \ Allocated(f) : Place(f, Other(white), p, "stack")
      <4>1. PICK p \in Obj \ Allocated(f) : Place(f, Other(white), p, "stack")
        BY <3>1
      <4>2. p \notin A
        BY <1>1, <2>3, <4>1 DEF Allocated
      <4> QED
        BY <1>1, <2>3, <4>1, <4>2 DEF Place, IsHeap
    <3> QED
      BY <1>9, <2>1, <3>1 DEF NewEmergency
  <2>5. Fin \subseteq A
    BY <2>3
  <2>6. \A o \in Fin : heap'[o].list # "none"
    BY <1>3, <2>3, <2>4, <2>5
  <2>7. \A o \in Found : o \in A /\ o \notin R
    BY <2>3, <2>4, <1>1 DEF On
  <2>8. ASSUME NEW o \in Found, NEW t \in Live, kind[t] = "weakvalue" PROVE heap'[t].val # o
    <3>1. t \in R /\ t \in A /\ heap'[t] = f[t]
      BY <2>3, <2>4
    <3>2. f[t].val \in R \cup {Nil}
      BY <2>3, <2>8, <3>1
    <3> QED
      BY <2>7, <3>1, <3>2, <1>1
  <2> QED
    BY <2>3, <2>6, <2>7, <2>8
<1> QED
  BY <1>4, <1>5, <1>6, <1>7, <1>8, <1>9, Steps

\* An object with a finalizer is not freed before its finalizer is called, however the
\* memory runs out meanwhile; and it is found to need its finalizer only when the script
\* can no more reach it (separatetobefnz in lgc.c, between the two clearings of the weak
\* tables).
THEOREM FinalizersAlways == HeapSpec => FinalizersRun
<1>1. HeapInv /\ [HeapNext]_heapVars =>
        [~Reopen => \A o \in On(heap, "finobj") \cup On(heap, "tobefnz") : heap'[o].list # "none"]_heapVars
  BY FinalizerSteps
<1>2. HeapInv /\ [HeapNext]_heapVars =>
        [\A o \in Obj : (heap[o].list = "finobj" /\ heap'[o].list = "tobefnz") =>
            /\ o \notin Live
            /\ \A t \in Live : kind[t] = "weakvalue" => heap'[t].val # o]_heapVars
  BY FinalizerSteps
<1>3. HeapSpec => FinalizedFirst
  BY <1>1, HeapInvAlways, PTL DEF HeapSpec, FinalizedFirst
<1>4. HeapSpec => WaitingIsGarbage
  BY <1>2, HeapInvAlways, PTL DEF HeapSpec, WaitingIsGarbage
<1> QED
  BY <1>3, <1>4 DEF FinalizersRun

=============================================================================
