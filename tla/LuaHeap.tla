-------------------------------- MODULE LuaHeap --------------------------------
(***************************************************************************)
(* The heap of the Lua sandbox: the incremental collector of the Lua 5.4   *)
(* that comes with the firmware (lgc.c), the allocation with its emergency *)
(* collection (lmem.c) and the limited allocator and the calls of          *)
(* lua_sandbox.c.  A script works on the heap between any two steps of the *)
(* collector; objects are abstract, with at most one entry (key, val), and *)
(* the collector's lists are sets.                                         *)
(***************************************************************************)
EXTENDS Integers, FiniteSets

CONSTANTS
    Obj,        \* addresses for objects
    Nil,        \* no object
    Kinds,      \* the kinds of objects the addresses may hold, [Obj -> Kind]
    Size,       \* what an object takes; nsize
    Tag,        \* what Lua passes as osize for a new object of one kind: its type
    MaxMemory,  \* LUA_MAX_MEMORY
    Word        \* size_t counts modulo Word

Kind == {"table", "weakvalue", "ephemeron", "closure", "string"}

ASSUME HeapAssumption ==
    /\ IsFiniteSet(Obj) /\ Nil \notin Obj /\ Kinds \subseteq [Obj -> Kind] /\ Kinds # {}
    /\ Size \in Nat \ {0} /\ Tag \in Nat /\ Tag <= Size
    /\ MaxMemory \in Nat /\ Word \in Nat /\ Word > MaxMemory

Slots == {"global", "stack", "arg"}

VARIABLES
    kind,       \* the kind of object an address holds
    heap,       \* colour, list and entry of every object
    slots,      \* the registry, the stack, the argument of a running finalizer
    white,      \* currentwhite
    gc,         \* gcstate, and what is left to do in it
    mem,        \* the sandbox's mem_used
    total       \* what Lua counts as allocated: totalbytes + GCdebt

heapVars == <<kind, heap, slots, white, gc, mem, total>>

Other(w) == IF w = "white0" THEN "white1" ELSE "white0"

Free == [col |-> "free", list |-> "none", key |-> Nil, val |-> Nil]

Allocated(h) == {o \in Obj : h[o].col # "free"}
IsWhite(h, o) == h[o].col \in {"white0", "white1"}
On(h, l) == {o \in Obj : h[o].list = l}

Pause == [state |-> "pause", gray |-> {}, again |-> {}, root |-> FALSE, left |-> {}]

HeapInit ==
    /\ kind \in Kinds
    /\ heap = [o \in Obj |-> Free]
    /\ slots = [s \in Slots |-> Nil]
    /\ white = "white0"
    /\ gc = Pause
    /\ mem = 0 /\ total = 0

(***************************************************************************)
(* What is reachable                                                       *)
(***************************************************************************)

Roots == {slots[s] : s \in Slots} \ {Nil}

\* What an object of each kind keeps alive by itself.
Strong(h, o) ==
    (CASE kind[o] = "table" -> {h[o].key, h[o].val}
       [] kind[o] = "closure" -> {h[o].val}
       [] kind[o] = "weakvalue" -> {h[o].key}
       [] OTHER -> {}) \ {Nil}

\* Strings are values: a weak table keeps them, an ephemeron table only as keys.
Keeps(h, o) == LET x == CASE kind[o] = "weakvalue" -> h[o].val
                          [] kind[o] = "ephemeron" -> h[o].key
                          [] OTHER -> Nil
               IN  IF x # Nil /\ kind[x] = "string" THEN {x} ELSE {}

\* What the objects of S keep alive; the value of an ephemeron entry with its key.  `known`
\* holds the objects that are alive already.
KeptBy(h, S, known) ==
    (UNION {Strong(h, o) \cup Keeps(h, o) : o \in S})
    \cup {h[o].val : o \in {e \in S : kind[e] = "ephemeron" /\ h[e].key \in S \cup known}}

\* The smallest set with `from` that has, of what `candidate` allows, everything its
\* members keep alive.
Closure(h, from, known, candidate) ==
    {o \in from \cup candidate : \A S \in SUBSET (from \cup candidate) :
        from \subseteq S /\ KeptBy(h, S, known) \cap candidate \subseteq S => o \in S}

Live == Closure(heap, Roots, {}, Obj)

\* What a script can read: it sees the entries of weak tables too.
Readable == Roots \cup UNION {{heap[o].key, heap[o].val} \ {Nil} : o \in Live}

(***************************************************************************)
(* Marking                                                                 *)
(***************************************************************************)

\* A string turns black at once, everything else gray.
Marked(h, S) == [o \in Obj |->
    IF o \in S /\ IsWhite(h, o)
    THEN [h[o] EXCEPT !.col = IF kind[o] = "string" THEN "black" ELSE "gray"] ELSE h[o]]

ToGray(h, S) == {o \in S : IsWhite(h, o) /\ kind[o] # "string"}

KeepInvariant == gc.state \in {"propagate", "enteratomic"}
SweepPhase == gc.state \in {"swpallgc", "swpfinobj", "swptobefnz", "swpend"}

\* Mutated form of Restart: what waits for its finalizer is not marked.
RestartForgets ==
    /\ gc.state = "pause"
    /\ gc' = [Pause EXCEPT !.state = "propagate", !.root = TRUE]
    /\ UNCHANGED <<kind, heap, slots, white, mem, total>>

\* A new cycle: the main thread and what waits for its finalizer are gray.
Restart ==
    /\ gc.state = "pause"
    /\ heap' = Marked(heap, On(heap, "tobefnz"))
    /\ gc' = [Pause EXCEPT !.state = "propagate", !.root = TRUE,
                           !.gray = ToGray(heap, On(heap, "tobefnz"))]
    /\ UNCHANGED <<kind, slots, white, mem, total>>

\* The main thread is visited, and will be again.
PropagateThread ==
    /\ gc.state = "propagate" /\ gc.root
    /\ heap' = Marked(heap, Roots)
    /\ gc' = [gc EXCEPT !.root = FALSE, !.gray = @ \cup ToGray(heap, Roots)]
    /\ UNCHANGED <<kind, slots, white, mem, total>>

\* What a visit of o marks; of an ephemeron entry the value, once the key is marked.
Visited(h, o) ==
    Strong(h, o) \cup Keeps(h, o) \cup
    {v \in {h[o].val} \ {Nil} : /\ kind[o] = "ephemeron" /\ h[o].key # Nil
                               /\ (~IsWhite(h, h[o].key) \/ kind[h[o].key] = "string")}

Weak(o) == kind[o] \in {"weakvalue", "ephemeron"}

\* Mutated form of PropagateObject: a weak table is done with when it is visited.
PropagateOnce(o) ==
    /\ gc.state = "propagate" /\ o \in gc.gray
    /\ heap' = [Marked(heap, Visited(heap, o)) EXCEPT ![o].col = "black"]
    /\ gc' = [gc EXCEPT !.gray = (@ \ {o}) \cup ToGray(heap, Visited(heap, o))]
    /\ UNCHANGED <<kind, slots, white, mem, total>>

\* A gray object is visited and turned black; a weak table is visited once more later.
PropagateObject(o) ==
    /\ gc.state = "propagate" /\ o \in gc.gray
    /\ heap' = [Marked(heap, Visited(heap, o)) EXCEPT ![o].col = IF Weak(o) THEN "gray" ELSE "black"]
    /\ gc' = [gc EXCEPT !.gray = (@ \ {o}) \cup ToGray(heap, Visited(heap, o)),
                        !.again = IF Weak(o) THEN @ \cup {o} ELSE @]
    /\ UNCHANGED <<kind, slots, white, mem, total>>

EndPropagate ==
    /\ gc.state = "propagate" /\ ~gc.root /\ gc.gray = {}
    /\ gc' = [gc EXCEPT !.state = "enteratomic"]
    /\ UNCHANGED <<kind, heap, slots, white, mem, total>>

\* Entries of the weak tables of S are removed when what they refer to weakly is not
\* among the living: by value or by key.
ClearedByValues(h, S, alive) == [o \in Obj |->
    IF o \in S /\ kind[o] = "weakvalue" /\ h[o].val \notin alive \cup {Nil}
    THEN [h[o] EXCEPT !.key = Nil, !.val = Nil] ELSE h[o]]

ClearedByKeys(h, S, alive) == [o \in Obj |->
    IF o \in S /\ kind[o] = "ephemeron" /\ h[o].key \notin alive \cup {Nil}
    THEN [h[o] EXCEPT !.key = Nil, !.val = Nil] ELSE h[o]]

White(h) == {o \in Obj : IsWhite(h, o)}

\* What the objects that are to be finalized keep alive, also by making a key of an
\* ephemeron table live again.
Resurrected(h, dying, known) ==
    Closure(h, dying \cup {o \in known : kind[o] = "ephemeron"}, known, White(h) \ known)

\* The atomic step.  Marking starts again from the roots and from all that is gray;
\* weak values are cleared before, weak keys after the objects with finalizers have
\* been brought back.  Only tables visited here are cleared.
Atomic(h, gray) ==
    LET old    == Allocated(h) \ White(h)
        strong == old \cup Closure(h, gray \cup (Roots \cap White(h)), old, White(h))
        fresh  == {o \in Obj : h[o].col # "black"}
        h1     == ClearedByValues(h, strong \cap fresh, strong)
        dying  == On(h, "finobj") \ strong
        alive  == strong \cup Resurrected(h1, dying, strong)
        h2     == ClearedByValues(ClearedByKeys(h1, alive \cap fresh, alive), alive \ strong, alive)
    IN  [o \in Obj |-> [h2[o] EXCEPT
            !.col  = IF o \in alive THEN "black" ELSE @,
            !.list = IF o \in dying THEN "tobefnz" ELSE @]]

\* Whatever has become garbage since it was marked stays until the next cycle.
EnterAtomic ==
    /\ gc.state = "enteratomic"
    /\ heap' = Atomic(heap, gc.gray \cup gc.again)
    /\ white' = Other(white)
    /\ gc' = [Pause EXCEPT !.state = "swpallgc", !.left = On(heap', "allgc")]
    /\ UNCHANGED <<kind, slots, mem, total>>

(***************************************************************************)
(* Sweeping                                                                *)
(***************************************************************************)

\* What the old white has left on an object is death; anything else is alive and white.
Swept(h, S, w) == [o \in Obj |->
    IF o \notin S \cap Allocated(h) THEN h[o]
    ELSE IF h[o].col = Other(w) THEN Free ELSE [h[o] EXCEPT !.col = w]]

Freed(h, S, w) == Cardinality({o \in S : h[o].col = Other(w)})

Sweep(o) ==
    /\ o \in gc.left
    /\ heap' = Swept(heap, {o}, white)
    /\ gc' = [gc EXCEPT !.left = @ \ {o}]
    /\ mem' = (mem - Size * Freed(heap, {o}, white)) % Word
    /\ total' = total - Size * Freed(heap, {o}, white)
    /\ UNCHANGED <<kind, slots, white>>

\* The three lists one after the other.
NextPhase ==
    /\ SweepPhase /\ gc.left = {}
    /\ gc' = CASE gc.state = "swpallgc" -> [gc EXCEPT !.state = "swpfinobj", !.left = On(heap, "finobj")]
               [] gc.state = "swpfinobj" -> [gc EXCEPT !.state = "swptobefnz", !.left = On(heap, "tobefnz")]
               [] gc.state = "swptobefnz" -> [gc EXCEPT !.state = "swpend"]
               [] OTHER -> [gc EXCEPT !.state = "callfin"]
    /\ UNCHANGED <<kind, heap, slots, white, mem, total>>

\* The next object that waits for its finalizer is an ordinary one again, and the
\* finalizer, whose argument it is, begins.  If an emergency collection has ended the cycle
\* while a finalizer ran, runafewfinalizers goes on with the next one all the same.
CallFinalizer(o) ==
    /\ \/ gc.state = "callfin" /\ slots["arg"] = Nil
       \/ gc.state = "pause" /\ slots["arg"] # Nil
    /\ o \in On(heap, "tobefnz")
    /\ heap' = [heap EXCEPT ![o].list = "allgc"]
    /\ slots' = [slots EXCEPT !["arg"] = o]
    /\ UNCHANGED <<kind, white, gc, mem, total>>

EndCycle ==
    /\ gc.state = "callfin" /\ On(heap, "tobefnz") = {}
    /\ gc' = Pause
    /\ UNCHANGED <<kind, heap, slots, white, mem, total>>

\* No step is taken while a finalizer runs (GCSTPGC).
Collect ==
    \/ /\ slots["arg"] = Nil
       /\ \/ Restart \/ PropagateThread \/ EndPropagate \/ EnterAtomic \/ NextPhase \/ EndCycle
          \/ \E o \in Obj : PropagateObject(o) \/ Sweep(o)
    \/ \E o \in Obj : CallFinalizer(o)

(***************************************************************************)
(* The script                                                              *)
(***************************************************************************)

\* The sandbox's allocator grants a block: the comparison is one of unsigned numbers.
Grants(m) == (m - Tag + Size) % Word <= MaxMemory

\* A cycle with everything in it but the finalizers: what is pending is swept, the
\* marking done from the beginning and all three lists swept.
FullCycle(h) ==
    LET clean == IF KeepInvariant
                 THEN [o \in Obj |-> IF h[o].col = "free" THEN h[o] ELSE [h[o] EXCEPT !.col = white]]
                 ELSE Swept(h, gc.left \cup (IF gc.state = "swpallgc" THEN On(h, "finobj") ELSE {})
                                  \cup (IF SweepPhase THEN On(h, "tobefnz") ELSE {}), white)
    IN  Swept(Atomic(Marked(clean, On(clean, "tobefnz")), On(clean, "tobefnz")), Obj, Other(white))

Count(h) == Cardinality(Allocated(h))

Place(h, w, o, s) ==
    /\ heap' = [h EXCEPT ![o] = [Free EXCEPT !.col = w, !.list = "allgc"]]
    /\ slots' = [slots EXCEPT ![s] = o]

\* luaM_malloc_: a new object, white, in the list of all objects and on the stack.
New(o) ==
    /\ heap[o].col = "free" /\ Grants(mem)
    /\ Place(heap, white, o, "stack")
    /\ mem' = (mem - Tag + Size) % Word
    /\ total' = total + Size
    /\ UNCHANGED <<kind, white, gc>>

\* The allocator refuses: a full collection without finalizers, and a second try,
\* which fails with an error or succeeds.
NewEmergency ==
    /\ ~Grants(mem)
    /\ \E h \in {FullCycle(heap)} :
         LET freed == Size * (Count(heap) - Count(h))
             m     == (mem - freed) % Word
         IN  IF Grants(m)
             THEN \E o \in Obj \ Allocated(h) :
                     /\ Place(h, Other(white), o, "stack")
                     /\ mem' = (m - Tag + Size) % Word /\ total' = total - freed + Size
             ELSE /\ heap' = h /\ mem' = m /\ total' = total - freed
                  /\ slots' = [slots EXCEPT !["stack"] = Nil]
    /\ white' = Other(white) /\ gc' = Pause
    /\ UNCHANGED kind

\* The barrier for v stored in o.  Tables go back to gray.  A closure's new value is
\* marked or, while everything is being swept, the closure itself is swept at once.
Guarded(h, o, v) ==
    IF v = Nil \/ h[o].col # "black" \/ v \notin White(h)
    THEN [heap |-> h, gc |-> gc]
    ELSE IF kind[o] # "closure"
    THEN [heap |-> [h EXCEPT ![o].col = "gray"], gc |-> [gc EXCEPT !.again = @ \cup {o}]]
    ELSE IF KeepInvariant
    THEN [heap |-> Marked(h, {v}), gc |-> [gc EXCEPT !.gray = @ \cup ToGray(h, {v})]]
    ELSE [heap |-> [h EXCEPT ![o].col = IF SweepPhase THEN white ELSE @], gc |-> gc]

\* An assignment, with the barrier for the key or else for the value.
Assign(o, k, v) ==
    /\ IF k = Nil THEN kind[o] \in {"table", "weakvalue", "closure"}
                  ELSE kind[o] \in {"table", "weakvalue", "ephemeron"} /\ v # Nil
    /\ LET stored == [heap EXCEPT ![o].key = k, ![o].val = v]
           after  == Guarded(stored, o, IF k \in White(heap) THEN k ELSE v)
       IN  heap' = after.heap /\ gc' = after.gc
    /\ UNCHANGED <<kind, slots, white, mem, total>>

\* A global or a local variable: the stack has no barrier.
Copy(s, v) ==
    /\ slots' = [slots EXCEPT ![s] = v]
    /\ UNCHANGED <<kind, heap, white, gc, mem, total>>

\* setmetatable with __gc: the object moves to the list of those with finalizers, and
\* counts as swept when the lists are being swept.
SetFinalizer(o) ==
    /\ kind[o] = "table" /\ heap[o].list = "allgc"
    /\ heap' = [heap EXCEPT ![o].list = "finobj", ![o].col = IF SweepPhase THEN white ELSE @]
    /\ gc' = [gc EXCEPT !.left = @ \ {o}]
    /\ UNCHANGED <<kind, slots, white, mem, total>>

\* The finalizer returns.
Return ==
    /\ slots["arg"] # Nil
    /\ slots' = [slots EXCEPT !["arg"] = Nil]
    /\ UNCHANGED <<kind, heap, white, gc, mem, total>>

\* lua_sandbox_exec: the script ends, by itself, with an error or at its deadline.
\* What it has made global remains for the next one.
EndScript ==
    /\ slots["arg"] = Nil /\ slots["stack"] # Nil
    /\ slots' = [slots EXCEPT !["stack"] = Nil]
    /\ UNCHANGED <<kind, heap, white, gc, mem, total>>

\* lua_sandbox_deinit and _init: lua_close has called what finalizers are left.
Reopen ==
    /\ slots["arg"] = Nil /\ slots["stack"] = Nil
    /\ heap' = [o \in Obj |-> Free] /\ slots' = [s \in Slots |-> Nil]
    /\ gc' = Pause /\ mem' = 0 /\ total' = 0
    /\ UNCHANGED <<kind, white>>

Script ==
    \/ \E o \in Obj : New(o)
    \/ \E o \in Live : SetFinalizer(o)
    \/ \E o \in Live, k, v \in Readable \cup {Nil} : Assign(o, k, v)
    \/ \E s \in {"global", "stack"}, v \in Readable \cup {Nil} : Copy(s, v)
    \/ NewEmergency \/ EndScript \/ Reopen

HeapNext == Collect \/ Script \/ Return

HeapSpec == HeapInit /\ [][HeapNext]_heapVars

(***************************************************************************)
(* Properties                                                              *)
(***************************************************************************)

\* The types, and what Lua counts is what is allocated.
HeapTypeOK ==
    /\ kind \in Kinds
    /\ heap \in [Obj -> [col : {"free", "white0", "white1", "gray", "black"},
                         list : {"none", "allgc", "finobj", "tobefnz"},
                         key : Obj \cup {Nil}, val : Obj \cup {Nil}]]
    /\ \A o \in Obj : heap[o].col = "free" <=> heap[o].list = "none"
    /\ slots \in [Slots -> Obj \cup {Nil}]
    /\ gc.gray \cup gc.again \cup gc.left \subseteq Allocated(heap)
    /\ mem \in 0 .. Word - 1
    /\ total = Size * Count(heap)

\* Nothing that a script can still read, weakly or strongly, or that waits for its
\* finalizer, and nothing these refer to, has been freed.
NoDangling ==
    Readable \cup Closure(heap, On(heap, "tobefnz"), {}, Obj) \subseteq Allocated(heap)

\* While objects are being marked no black object refers to a white one: the barriers
\* and the two visits of weak tables see to it.
TriColour ==
    KeepInvariant => \A o \in Obj : heap[o].col = "black" => Strong(heap, o) \cap White(heap) = {}

\* An object with a finalizer is not freed by a collection, an emergency one included,
\* before its finalizer has been called.
FinalizedFirst ==
    [][~Reopen => \A o \in On(heap, "finobj") \cup On(heap, "tobefnz") :
            heap'[o].list # "none"]_heapVars

\* An object waits for its finalizer only when a script could reach it no more except
\* as the key of a weak table: no strong reference and no weak value leads to it.
WaitingIsGarbage ==
    [][\A o \in Obj : (heap[o].list = "finobj" /\ heap'[o].list = "tobefnz") =>
            /\ o \notin Live
            /\ \A t \in Live : kind[t] = "weakvalue" => heap'[t].val # o]_heapVars

\* "Memory-limited allocator": the sandbox counts what its blocks take.
MemUsedIsHeap == mem = Size * Count(heap)

\* The heap has its type, the script reaches no freed object, and no black object
\* points to a white one while the collector relies on it.
HeapSound == HeapTypeOK /\ NoDangling /\ TriColour

\* An object that has a finalizer is finalized before it is freed, and only
\* when the script can reach it no longer.
FinalizersRun == FinalizedFirst /\ WaitingIsGarbage

=============================================================================
