------------------------------- MODULE LuaTable --------------------------------
(***************************************************************************)
(* The tables of the Lua that comes with the firmware (ltable.c): an array *)
(* part, whose size is kept as a hint that may be below it, and a hash     *)
(* part whose collisions are chained through the same vector by relative   *)
(* offsets.  A script assigns, reads, takes the length and traverses; the  *)
(* collector kills unused keys; allocations fail.                          *)
(***************************************************************************)
EXTENDS Integers, Sequences, FiniteSets, SequencesExt, Bitwise

CONSTANTS
    IntKeys,    \* the integers a script uses as keys
    ObjKeys,    \* the objects a script uses as keys
    Hash,       \* their hash values, [ObjKeys -> Nat]
    Vals,       \* values
    Empty,      \* no value, no key
    MaxInteger  \* LUA_MAXINTEGER

Keys == IntKeys \cup ObjKeys

ASSUME TableAssumption ==
    /\ MaxInteger \in Nat \ {0} /\ IntKeys \subseteq 1 .. MaxInteger
    /\ Hash \in [ObjKeys -> Nat] /\ Empty \notin Keys \cup Vals

VARIABLES
    tab,    \* the table
    map,    \* what the script has assigned
    walk    \* the traversal: the key it is at, and the fields it has met

tableVars == <<tab, map, walk>>

Unused == [key |-> Empty, dead |-> FALSE, val |-> Empty, next |-> 0]

\* setnodevector: a hash part of a power of two, or none (the dummy node).
Nodes(n) == [p \in 1 .. n |-> Unused]

PowersOfTwo == {2^i : i \in 0 .. 8}
UpToPower(n) == IF n = 0 THEN 0 ELSE CHOOSE p \in PowersOfTwo : p >= n /\ p < 2 * n
IsPower(n) == n = 0 \/ n \in PowersOfTwo

NewTable == [array |-> <<>>, alimit |-> 0, real |-> TRUE, node |-> <<>>, lastfree |-> 1]

Resting == [on |-> FALSE, at |-> Empty, seen |-> {}]

TableInit ==
    /\ tab = NewTable
    /\ map = [k \in Keys |-> Empty]
    /\ walk = Resting

(***************************************************************************)
(* The array part                                                          *)
(***************************************************************************)

LimitIsSize(t) == t.real \/ IsPower(t.alimit)

\* luaH_realasize: a limit that is not the size is above the half of it.
RealSize(t) == IF LimitIsSize(t) THEN t.alimit ELSE UpToPower(t.alimit)

WithRealSize(t) == [t EXCEPT !.alimit = RealSize(t), !.real = TRUE]

\* The limit may be moved without changing the size that is computed from it.
Movable(t) == ~t.real \/ IsPower(t.alimit)

Below(t, k) == k \in Nat \ {0} /\ k <= t.alimit

\* The "Xmilia trick" for a key above the limit: (key-1) & ~(alimit-1) < alimit.
Trick(t, k) ==
    /\ k \in Nat \ {0} /\ k > t.alimit /\ ~t.real
    /\ (k - 1) - ((k - 1) & (t.alimit - 1)) < t.alimit

InArray(t, k) == Below(t, k) \/ Trick(t, k)

(***************************************************************************)
(* The hash part                                                           *)
(***************************************************************************)

\* Integers and pointers are taken modulo (size-1)|1.
MainPosition(t, k) ==
    1 + ((IF k \in ObjKeys THEN Hash[k] ELSE k) % (IF Len(t.node) = 1 THEN 1 ELSE Len(t.node) - 1))

RECURSIVE Search(_, _, _, _)
\* The position of k in the chain from p on, or 0.  A traversal accepts dead keys.
Search(t, k, p, deadok) ==
    IF t.node[p].key = k /\ (deadok \/ ~t.node[p].dead) THEN p
    ELSE IF t.node[p].next = 0 THEN 0 ELSE Search(t, k, p + t.node[p].next, deadok)

Position(t, k, deadok) == IF t.node = <<>> THEN 0 ELSE Search(t, k, MainPosition(t, k), deadok)

Found(t, k) == InArray(t, k) \/ Position(t, k, FALSE) # 0

Value(t, k) ==
    IF InArray(t, k) THEN t.array[k]
    ELSE IF Position(t, k, FALSE) # 0 THEN t.node[Position(t, k, FALSE)].val ELSE Empty

\* luaH_getint moves the limit to a key it finds above it.
Touched(t, k) == IF Trick(t, k) THEN [t EXCEPT !.alimit = k] ELSE t

\* getfreepos: downwards from the last place given; 0 when there is none.
FreePosition(t) ==
    LET free == {p \in 1 .. t.lastfree - 1 : t.node[p].key = Empty}
    IN  IF free = {} THEN 0 ELSE CHOOSE p \in free : \A q \in free : q <= p

\* A colliding node that is not in its main position moves, and its chain with it.
Moved(t, from, to) ==
    LET prev == CHOOSE p \in 1 .. Len(t.node) : t.node[p].next # 0 /\ p + t.node[p].next = from
        next == t.node[from].next
    IN  [t EXCEPT !.node[prev].next = to - prev,
                  !.node[to] = [t.node[from] EXCEPT !.next = IF next = 0 THEN 0 ELSE next + from - to]]

\* luaH_newkey where there is a free place if one is needed.
Put(t, k, v) ==
    LET mp   == MainPosition(t, k)
        f    == FreePosition(t)
        node == t.node[mp]
        freed == [t EXCEPT !.lastfree = f]
    IN  IF node.val = Empty
        THEN [t EXCEPT !.node[mp] = [node EXCEPT !.key = k, !.dead = FALSE, !.val = v]]
        ELSE IF MainPosition(t, node.key) # mp
        THEN [Moved(freed, mp, f) EXCEPT !.node[mp] = [Unused EXCEPT !.key = k, !.val = v]]
        ELSE [freed EXCEPT
                !.node[f] = [Unused EXCEPT !.key = k, !.val = v,
                             !.next = IF node.next = 0 THEN 0 ELSE mp + node.next - f],
                !.node[mp].next = f - mp]

Full(t, k) == t.node # <<>> => t.node[MainPosition(t, k)].val # Empty /\ FreePosition(t) = 0

\* An assignment that needs no room: to a key that is there, or with a place for it.
Stored(t, k, v) ==
    IF InArray(t, k) THEN [Touched(t, k) EXCEPT !.array[k] = v]
    ELSE IF Position(t, k, FALSE) # 0 THEN [t EXCEPT !.node[Position(t, k, FALSE)].val = v]
    ELSE Put(t, k, v)

(***************************************************************************)
(* Rehash                                                                  *)
(***************************************************************************)

ArrayKeys(t) == {i \in 1 .. Len(t.array) : t.array[i] # Empty}
UsedNodes(t) == {p \in 1 .. Len(t.node) : t.node[p].val # Empty}

\* computesizes: the largest n of which more than half is used.
Optimal(ints) ==
    LET good == {n \in PowersOfTwo : Cardinality({i \in ints : i <= n}) > n \div 2}
    IN  IF good = {} THEN 0 ELSE CHOOSE n \in good : \A m \in good : m <= n

\* What has to be inserted again, in order: the vanishing slice of the array and the
\* old hash part.
Entries(t, asize) ==
    [i \in 1 .. (IF Len(t.array) > asize THEN Len(t.array) - asize ELSE 0) |->
        <<asize + i, t.array[asize + i]>>]
    \o [p \in 1 .. Len(t.node) |-> <<t.node[p].key, t.node[p].val>>]

\* luaH_resize.
Resized(t, asize, hsize) ==
    LET n     == UpToPower(hsize)
        fresh == [array    |-> [i \in 1 .. asize |-> IF i <= Len(t.array) THEN t.array[i] ELSE Empty],
                  alimit   |-> asize, real |-> TRUE,
                  node     |-> Nodes(n), lastfree |-> n + 1]
        used  == SelectSeq(Entries(t, asize), LAMBDA e : e[2] # Empty)
    IN  FoldLeft(LAMBDA u, e : Stored(u, e[1], e[2]), fresh, used)

\* rehash, for the new key k: all keys are counted and the optimal sizes computed.
Rehashed(t, k) ==
    LET ints  == ArrayKeys(t) \cup ({t.node[p].key : p \in UsedNodes(t)} \cap IntKeys) \cup ({k} \cap IntKeys)
        asize == Optimal(ints)
        total == Cardinality(ArrayKeys(t)) + Cardinality(UsedNodes(t)) + 1
    IN  Resized(WithRealSize(t), asize, total - Cardinality({i \in ints : i <= asize}))

(***************************************************************************)
(* Length                                                                  *)
(***************************************************************************)

RECURSIVE BinSearch(_, _, _)
\* A border between i, present or zero, and j, absent.
BinSearch(t, i, j) ==
    IF j - i <= 1 THEN i
    ELSE LET m == (i + j) \div 2
         IN  IF Value(t, m) = Empty THEN BinSearch(t, i, m) ELSE BinSearch(t, m, j)

RECURSIVE Doubled(_, _)
\* hash_search doubles j until it is absent or would overflow.
Doubled(t, j) ==
    LET k == IF j <= MaxInteger \div 2 THEN 2 * j ELSE MaxInteger
    IN  IF Value(t, k) = Empty THEN BinSearch(t, j, k)
        ELSE IF j > MaxInteger \div 2 THEN k ELSE Doubled(t, k)

HashSearch(t, j) == Doubled(t, IF j = 0 THEN 1 ELSE j)

\* Case (1) of luaH_getn: the limit is empty.
BorderBelow(t) ==
    LET n == t.alimit
        b == BinSearch(t, 0, n)
    IN  IF n >= 2 /\ t.array[n - 1] # Empty
        THEN [n |-> n - 1, t |-> IF Movable(t) /\ ~IsPower(n - 1)
                                 THEN [t EXCEPT !.alimit = n - 1, !.real = FALSE] ELSE t]
        ELSE [n |-> b, t |-> IF Movable(t) /\ b > RealSize(t) \div 2
                             THEN [t EXCEPT !.alimit = b, !.real = FALSE] ELSE t]

\* Case (3): the array part is full, the border is there or in the hash part.  Asking
\* for the key behind the array may not move the limit.
BorderBehind(t, n) ==
    IF t.node = <<>> \/ Value(t, n + 1) = Empty THEN [n |-> n, t |-> t]
    ELSE [n |-> HashSearch(t, n), t |-> t]

\* luaH_getn: a border, and the table with the limit it leaves.
Border(t) ==
    IF t.alimit > 0 /\ t.array[t.alimit] = Empty THEN BorderBelow(t)
    ELSE IF LimitIsSize(t) THEN BorderBehind(t, t.alimit)
    ELSE IF t.array[t.alimit + 1] = Empty THEN [n |-> t.alimit, t |-> t]
    ELSE IF t.array[RealSize(t)] = Empty
    THEN LET b == BinSearch(t, t.alimit, RealSize(t)) IN [n |-> b, t |-> [t EXCEPT !.alimit = b]]
    ELSE BorderBehind(t, RealSize(t))

(***************************************************************************)
(* Operations                                                              *)
(***************************************************************************)

\* During a traversal a script assigns to fields that are there only.
Allowed(k) == walk.on => map[k] # Empty

Recorded(k, v) ==
    /\ map' = [map EXCEPT ![k] = v]
    /\ walk' = IF v = Empty THEN [walk EXCEPT !.seen = @ \ {k}] ELSE walk

\* luaH_set.
Set(k, v) ==
    /\ Allowed(k)
    /\ Found(tab, k) \/ v = Empty \/ ~Full(tab, k)
    /\ tab' = IF v = Empty /\ ~Found(tab, k) THEN Touched(tab, k) ELSE Stored(tab, k, v)
    /\ Recorded(k, v)

\* The hash part is full: the table gets its new sizes, and then the key.
SetGrowing(k, v) ==
    /\ Allowed(k)
    /\ ~Found(tab, k) /\ v # Empty /\ Full(tab, k)
    /\ tab' = Stored(Rehashed(tab, k), k, v)
    /\ Recorded(k, v)

\* One of the two allocations fails: an error, and the table as it was.
SetFails(k, v) ==
    /\ Allowed(k)
    /\ ~Found(tab, k) /\ v # Empty /\ Full(tab, k)
    /\ tab' = [WithRealSize(tab) EXCEPT !.lastfree = 1]
    /\ UNCHANGED <<map, walk>>

\* luaH_get of an integer.
Get(k) == tab' = Touched(tab, k) /\ UNCHANGED <<map, walk>>

\* luaH_getn.
GetN == tab' = Border(tab).t /\ UNCHANGED <<map, walk>>

\* clearkey: the collector kills the key of an unused entry, which stays in its chain.
ClearKey(p) ==
    /\ tab.node[p].val = Empty /\ tab.node[p].key \in ObjKeys
    /\ tab' = [tab EXCEPT !.node[p].dead = TRUE]
    /\ UNCHANGED <<map, walk>>

(***************************************************************************)
(* Traversal: luaH_next                                                    *)
(***************************************************************************)

Begin ==
    /\ ~walk.on
    /\ walk' = [Resting EXCEPT !.on = TRUE]
    /\ UNCHANGED <<tab, map>>

\* Mutated form of FindIndex: a key that the collector has killed is not found.
FindIndexLive(t, k) ==
    IF k = Empty THEN 0
    ELSE IF k \in IntKeys /\ k <= RealSize(t) THEN k
    ELSE RealSize(t) + Position(t, k, FALSE)

\* findindex: the number of a key among the array elements and then the nodes.
FindIndex(t, k) ==
    IF k = Empty THEN 0
    ELSE IF k \in IntKeys /\ k <= RealSize(t) THEN k
    ELSE RealSize(t) + Position(t, k, TRUE)

Follows(t, k) ==
    {i \in FindIndex(t, k) + 1 .. RealSize(t) + Len(t.node) :
        IF i <= RealSize(t) THEN t.array[i] # Empty ELSE t.node[i - RealSize(t)].val # Empty}

Advance ==
    LET rest == Follows(tab, walk.at)
        i    == CHOOSE j \in rest : \A l \in rest : j <= l
        k    == IF i <= RealSize(tab) THEN i ELSE tab.node[i - RealSize(tab)].key
    IN  /\ walk.on
        /\ walk' = IF rest = {} THEN Resting
                   ELSE [walk EXCEPT !.at = k, !.seen = @ \cup {k}]
        /\ UNCHANGED <<tab, map>>

TableNext ==
    \/ \E k \in Keys, v \in Vals \cup {Empty} : Set(k, v) \/ SetGrowing(k, v) \/ SetFails(k, v)
    \/ \E k \in IntKeys : Get(k)
    \/ \E p \in 1 .. Len(tab.node) : ClearKey(p)
    \/ GetN \/ Begin \/ Advance

(***************************************************************************)
(* Properties                                                              *)
(***************************************************************************)

\* The size of the array part can be computed from the limit, and offsets stay inside.
TableTypeOK ==
    /\ RealSize(tab) = Len(tab.array)
    /\ IsPower(Len(tab.node))
    /\ \A p \in 1 .. Len(tab.node) : p + tab.node[p].next \in 1 .. Len(tab.node)

\* luaH_get finds for every key the value assigned last, wherever the key is, whatever
\* was moved, grown, killed or failed in between.
LastAssigned == \A k \in Keys : Value(tab, k) = map[k]

\* luaH_getn returns a border, "an integer index such that t[i] is present and t[i+1]
\* is absent", whatever hint the limit is.
ReturnsBorder ==
    LET n == Border(tab).n IN
    /\ n = 0 \/ (n \in IntKeys /\ map[n] # Empty)
    /\ n + 1 \in IntKeys => map[n + 1] = Empty

\* A traversal during which fields are only cleared and changed meets every field that
\* stays, and meets it once, whatever the collector, a length or a failure does meanwhile.
EachOnce ==
    [][(walk.on /\ walk' # walk /\ map' = map) =>
          IF walk'.on THEN walk'.at \notin walk.seen /\ map[walk'.at] # Empty
          ELSE walk.seen = {k \in Keys : map[k] # Empty}]_tableVars

\* The table is a map with borders, and a traversal meets each of its keys once.
TableIsMap == []TableTypeOK /\ []LastAssigned /\ []ReturnsBorder /\ EachOnce

=============================================================================
