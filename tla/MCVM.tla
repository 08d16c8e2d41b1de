------------------------------- MODULE MCVM -------------------------------
(* Instances of VM for TLC: every instruction array of up to MaxLen        *)
(* instructions over a small instruction set.                              *)
EXTENDS VM

CONSTANT MaxLen

I(op, arg) == [op |-> op, arg |-> arg]

\* Everything the VM knows, with the immediates that make a difference.
MCInstrs == {I("nop", 0), I("load", 0), I("pop", 0), I("swap", 0),
             I("reduce", 2), I("halt", 0), I("yield", 0), I("log", 2),
             I("invalid", 0), I("delay", 3), I("start", 2),
             I("jmp", 0), I("jmp", 2), I("jmpif", 0), I("jmpif", 2)}

\* What it takes to spend time in loops.
MCTimed == {I("nop", 0), I("load", 0), I("jmp", 0), I("jmpif", 0), I("delay", 1),
            I("delay", 3), I("start", 2)}

CodesUpTo(n, instrs) == UNION {[1..k -> instrs] : k \in 0..n}

MCCodes == CodesUpTo(MaxLen - 1, MCInstrs) \cup [1..MaxLen -> MCTimed \cup {I("halt", 0), I("jmp", 2)}]

\* Programs of the compiler: a pipeline of up to three nodes, and one that
\* compares and, if that is true, jumps to the node after it.
MCPrograms ==
  {<<I("start", 1)>> \o nodes \o
   <<I("halt", 0), I("halt", 0),
     I("start", 1), I("load", 0), I("load", 0), I("reduce", 2), I("jmpif", 5), I("nop", 0),
     I("halt", 0), I("halt", 0)>> : nodes \in CodesUpTo(3, {I("nop", 0)})}
===========================================================================
