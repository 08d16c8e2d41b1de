--------------------------- MODULE NetServersProofs ----------------------------
(***************************************************************************)
(* Until somebody stops the display server each descriptor belongs to one  *)
(* of the servers, for any number of clients, tasks and descriptors.  The  *)
(* invariant says what is behind every descriptor a task remembers: the    *)
(* numbers are given out again as soon as they are closed, so it has to    *)
(* hold of all of them at once.  And a payload is given to a deployment    *)
(* whole, although it arrives in parts.                                    *)
(***************************************************************************)
EXTENDS NetServers, TLAPS, WellFoundedInduction

LEMMA Least ==
  ASSUME NEW T \in SUBSET Nat, T # {}
  PROVE  \E x \in T : \A y \in T : x <= y
<1> DEFINE R == OpToRel(<, Nat)
<1>1. IsWellFoundedOn(R, Nat)
  BY NatLessThanWellFounded
<1>2. ASSUME NEW x \in Nat, NEW y \in Nat, y < x PROVE <<y, x>> \in R
  BY <1>2 DEF OpToRel
<1> HIDE DEF R
<1>3. PICK x \in T : \A y \in T : ~(<<y, x>> \in R)
  BY <1>1, WFMin
<1>4. ASSUME NEW y \in T PROVE x <= y
  <2>1. ~(<<y, x>> \in R)
    BY <1>3
  <2>2. ~(y < x)
    BY <2>1, <1>2
  <2> QED
    BY <2>2
<1> QED
  BY <1>4

\* The descriptor that is given out is a free one.
LEMMA LowestFree ==
  ASSUME FreeFds # {}
  PROVE  Lowest \in Fds /\ table[Lowest] = Free
<1>1. FreeFds \subseteq Fds
  BY DEF FreeFds
<1>2. FreeFds \in SUBSET Nat
  BY <1>1, NetConstants DEF Fds
<1>3. \E x \in FreeFds : \A y \in FreeFds : x <= y
  BY <1>2, Least
<1>4. Lowest \in FreeFds
  BY <1>3 DEF Lowest, Min
<1> QED
  BY <1>4 DEF FreeFds

-----------------------------------------------------------------------------
(* Types.                                                                   *)

Places == {"none", "start", "loop", "accept", "hello", "recv", "close", "forget", "end"}
MaybeFd == Fds \cup {-1}
Behinds == {Free} \cup Listeners \cup Clients
Lefts == {0} \cup UNION {0 .. n : n \in Sizes}
PeerRecord == [at : {"away", "waiting", "open", "closed", "broken", "silent"},
               left : Lefts, size : {0} \cup Sizes]

TableType == table \in [Fds -> Behinds]
PeerType == peer \in [Clients -> PeerRecord]
DdType == dd \in [running : BOOLEAN, server : MaybeFd, client : MaybeFd, mutex : {"none", "free"} \cup Callers]
TaskType == task \in [Tasks -> [pc : Places, fd : MaybeFd]]
CallType == call \in [Callers -> {"idle", "take", "send"}]
StopType == stop \in {"idle", "shutdown", "close", "server"} /\ stopped \in BOOLEAN
PayType ==
  /\ pay \in [pc : {"start", "accept", "recv", "close", "call"}, server : MaybeFd, fd : MaybeFd,
              total : 0 .. Capacity, from : Clients \cup {"nobody"}, size : {0} \cup Sizes, whole : BOOLEAN]
  /\ pay.pc = "recv" => pay.from \in Deployers

TypeInv == TableType /\ PeerType /\ DdType /\ TaskType /\ CallType /\ StopType /\ PayType

LEMMA Records ==
  /\ Away \in PeerRecord
  /\ \A n \in Sizes : n \in Lefts
  /\ \A l \in Lefts, n \in Nat : n <= l => l - n \in Lefts /\ l \in Nat
  /\ -1 \in MaybeFd
<1>1. ASSUME NEW l \in Lefts, NEW n \in Nat, n <= l PROVE l - n \in Lefts /\ l \in Nat
  <2>1. CASE l = 0
    BY <1>1, <2>1 DEF Lefts
  <2>2. ASSUME NEW m \in Sizes, l \in 0 .. m PROVE l - n \in Lefts /\ l \in Nat
    <3>1. m \in Nat
      BY NetConstants
    <3>2. l - n \in 0 .. m /\ l \in Nat
      BY <1>1, <2>2, <3>1
    <3> QED
      BY <3>2 DEF Lefts
  <2> QED
    BY <2>1, <2>2 DEF Lefts
<1>2. ASSUME NEW n \in Sizes PROVE n \in Lefts
  <2>1. n \in 0 .. n
    BY NetConstants
  <2> QED
    BY <2>1 DEF Lefts
<1> QED
  BY <1>1, <1>2 DEF Away, PeerRecord, MaybeFd, Lefts

LEMMA Openings ==
  ASSUME TableType, FreeFds # {}, NEW w \in Behinds
  PROVE  /\ Lowest \in Fds /\ Lowest \in MaybeFd
         /\ Opened(w) \in [Fds -> Behinds]
         /\ Opened(w)[Lowest] = w
         /\ \A f \in Fds : table[f] # Free => Opened(w)[f] = table[f]
         /\ \A f \in Fds : f # Lowest => Opened(w)[f] = table[f]
BY LowestFree DEF TableType, Opened, MaybeFd

LEMMA Closings ==
  ASSUME TableType, TaskType, NEW f \in MaybeFd
  PROVE  /\ Closed(f) \in [Fds -> Behinds]
         /\ \A g \in Fds : g # f => Closed(f)[g] = table[g]
         /\ f \in Fds => Closed(f)[f] = Free
         /\ Woken(f) \in [Tasks -> [pc : Places, fd : MaybeFd]]
         /\ \A t \in Tasks : Woken(f)[t].pc = task[t].pc
<1>1. /\ Closed(f) \in [Fds -> Behinds]
      /\ \A g \in Fds : g # f => Closed(f)[g] = table[g]
      /\ f \in Fds => Closed(f)[f] = Free
  BY DEF TableType, Closed, Behinds
<1>2. ASSUME NEW t \in Tasks PROVE Woken(f)[t] \in [pc : Places, fd : MaybeFd] /\ Woken(f)[t].pc = task[t].pc
  <2>1. task[t] \in [pc : Places, fd : MaybeFd] /\ -1 \in MaybeFd
    BY Records DEF TaskType
  <2>2. Woken(f)[t] = IF task[t].fd = f THEN [task[t] EXCEPT !.fd = -1] ELSE task[t]
    BY DEF Woken
  <2>3. [task[t] EXCEPT !.fd = -1] \in [pc : Places, fd : MaybeFd] /\ [task[t] EXCEPT !.fd = -1].pc = task[t].pc
    BY <2>1
  <2> QED
    BY <2>1, <2>2, <2>3
<1>3. Woken(f) \in [Tasks -> [pc : Places, fd : MaybeFd]]
  BY <1>2 DEF Woken
<1> QED
  BY <1>1, <1>2, <1>3

\* Where the other tasks are when task t goes on.
LEMMA Goings ==
  ASSUME TaskType, NEW t \in Tasks, NEW pc \in Places, NEW fd \in MaybeFd, Goto(t, pc, fd)
  PROVE  /\ TaskType'
         /\ task'[t].pc = pc
         /\ \A u \in Tasks : u # t => task'[u] = task[u]
BY DEF TaskType, Goto

LEMMA TurnedType ==
  ASSUME PeerType, NEW f
  PROVE  TurnedAway(f) \in [Clients -> PeerRecord]
BY Records DEF PeerType, TurnedAway

LEMMA PeerSteps ==
  ASSUME TypeInv,
         \E c \in Clients : Dial(c) \/ Return(c) \/ \E how \in {"closed", "broken", "silent"} : Part(c, how)
  PROVE  TypeInv'
<1>1. UNCHANGED <<table, ddVars, pay>>
  BY DEF Dial, Return, Part
<1>2. ASSUME NEW c \in Clients, Dial(c) PROVE PeerType'
  <2>1. PICK n \in {0} \cup Sizes : peer' = [peer EXCEPT ![c] = [at |-> "waiting", left |-> n, size |-> n]]
    BY <1>2 DEF Dial
  <2>2. n \in Lefts
    BY Records DEF Lefts
  <2>3. [at |-> "waiting", left |-> n, size |-> n] \in PeerRecord
    BY <2>2 DEF PeerRecord
  <2> QED
    BY <2>1, <2>3 DEF TypeInv, PeerType
<1>3. ASSUME NEW c \in Clients, Return(c) PROVE PeerType'
  BY <1>3, Records DEF Return, TypeInv, PeerType
<1>4. ASSUME NEW c \in Clients, NEW how \in {"closed", "broken", "silent"}, Part(c, how) PROVE PeerType'
  BY <1>4 DEF Part, TypeInv, PeerType, PeerRecord
<1>5. PeerType'
  BY <1>2, <1>3, <1>4
<1> QED
  BY <1>1, <1>5 DEF TypeInv, ddVars, TableType, DdType, TaskType, CallType, StopType, PayType

LEMMA PayTypes ==
  ASSUME TypeInv, PayServer
  PROVE  TypeInv'
<1> USE DEF TypeInv
<1>1. ASSUME NEW pc \in {"start", "accept"}, NEW server \in MaybeFd, pay' = Idle(pc, server) PROVE PayType'
  BY <1>1, Records, NetConstants DEF Idle, PayType
<1>2. CASE PayStart
  <2>1. /\ FreeFds # {} /\ table' = Opened("payload") /\ pay' = Idle("accept", Lowest)
        /\ UNCHANGED <<peer, ddVars>> /\ "payload" \in Behinds
    BY <1>2 DEF PayStart, Behinds, Listeners
  <2>2. TableType' /\ PayType'
    BY <2>1, <1>1, Openings DEF TableType
  <2> QED
    BY <2>1, <2>2 DEF ddVars, PeerType, DdType, TaskType, CallType, StopType
<1>3. ASSUME NEW c \in Deployers, PayAccept(c) PROVE TypeInv'
  <2>1. /\ FreeFds # {} /\ table' = Opened(c) /\ c \in Clients /\ c \in Behinds
        /\ pay' = [Idle("recv", pay.server) EXCEPT !.fd = Lowest, !.from = c, !.size = peer[c].size]
        /\ peer' = [peer EXCEPT ![c].at = "open"] /\ UNCHANGED ddVars
    BY <1>3 DEF PayAccept, Behinds, Clients
  <2>2. /\ TableType' /\ Lowest \in MaybeFd
    BY <2>1, Openings DEF TableType
  <2>3. PeerType' /\ peer[c].size \in {0} \cup Sizes
    BY <2>1 DEF PeerType, PeerRecord
  <2>4. PayType'
    <3>1. pay' = [pc |-> "recv", server |-> pay.server, fd |-> Lowest, total |-> 0, from |-> c,
                  size |-> peer[c].size, whole |-> FALSE]
      BY <2>1 DEF Idle
    <3>2. pay.server \in MaybeFd /\ 0 \in 0 .. Capacity
      BY NetConstants DEF PayType
    <3>3. c \in Clients \cup {"nobody"} /\ peer[c].size \in {0} \cup Sizes
      BY <2>1, <2>3
    <3>4. pay'.from = c
      BY <3>1
    <3> DEFINE low == Lowest
               size == peer[c].size
    <3>5. low \in MaybeFd /\ size \in {0} \cup Sizes
      BY <2>2, <3>3
    <3>6. pay' = [pc |-> "recv", server |-> pay.server, fd |-> low, total |-> 0, from |-> c,
                  size |-> size, whole |-> FALSE]
      BY <3>1
    <3> HIDE DEF low, size
    <3> QED
      BY <3>2, <3>3, <3>4, <3>5, <3>6 DEF PayType
  <2> QED
    BY <2>1, <2>2, <2>3, <2>4 DEF ddVars, DdType, TaskType, CallType, StopType
<1>4. ASSUME NEW n \in 1 .. Capacity, PayReceive(n) PROVE TypeInv'
  <2>1. /\ pay.pc = "recv" /\ n <= Capacity - pay.total /\ n \in 1 .. peer[pay.from].left
        /\ pay' = [pay EXCEPT !.total = pay.total + n,
                              !.pc = IF pay.total + n >= Capacity THEN "close" ELSE "recv"]
        /\ peer' = [peer EXCEPT ![pay.from].left = @ - n]
        /\ UNCHANGED <<table, ddVars>>
    BY <1>4 DEF PayReceive, Room
  <2>2. pay.from \in Clients /\ pay.total \in 0 .. Capacity /\ Capacity \in Nat
    BY <2>1, NetConstants DEF PayType, Clients
  <2>3. pay.total + n \in 0 .. Capacity
    BY <2>1, <2>2
  <2>4. PayType'
    <3> DEFINE total == pay.total + n
               pc == IF total >= Capacity THEN "close" ELSE "recv"
    <3>1. pay' = [pay EXCEPT !.total = total, !.pc = pc]
      BY <2>1
    <3>2. total \in 0 .. Capacity /\ pc \in {"close", "recv"}
      BY <2>3
    <3> HIDE DEF total, pc
    <3> QED
      BY <2>1, <3>1, <3>2 DEF PayType
  <2>5. PeerType'
    <3>1. peer[pay.from].left \in Lefts /\ n \in Nat
      BY <2>2 DEF PeerType, PeerRecord
    <3>2. n <= peer[pay.from].left
      BY <2>1, <3>1, Records DEF Lefts
    <3>3. peer[pay.from].left - n \in Lefts
      BY <3>1, <3>2, Records
    <3> QED
      BY <2>1, <2>2, <3>3 DEF PeerType, PeerRecord
  <2> QED
    BY <2>1, <2>4, <2>5 DEF ddVars, TableType, DdType, TaskType, CallType, StopType
<1>5. CASE PayEnd
  <2>1. /\ UNCHANGED <<table, peer, ddVars>>
        /\ pay' = [pay EXCEPT !.pc = "close"] \/ pay' = [pay EXCEPT !.pc = "close", !.whole = TRUE]
    BY <1>5 DEF PayEnd
  <2>2. PayType'
    BY <2>1 DEF PayType
  <2> QED
    BY <2>1, <2>2 DEF ddVars, TableType, PeerType, DdType, TaskType, CallType, StopType
<1>6. CASE PayClose
  <2>1. /\ table' = Closed(pay.fd) /\ task' = Woken(pay.fd) /\ pay' = [pay EXCEPT !.pc = "call"]
        /\ UNCHANGED <<peer, dd, call, stop, stopped>> /\ pay.fd \in MaybeFd
    BY <1>6 DEF PayClose, PayType
  <2>2. TableType' /\ TaskType'
    BY <2>1, Closings DEF TableType, TaskType
  <2>3. PayType'
    BY <2>1 DEF PayType
  <2> QED
    BY <2>1, <2>2, <2>3 DEF PeerType, DdType, CallType, StopType
<1>7. CASE PayCall
  <2>1. pay' = Idle("accept", pay.server) /\ UNCHANGED <<table, peer, ddVars>> /\ pay.server \in MaybeFd
    BY <1>7 DEF PayCall, PayType
  <2>2. PayType'
    BY <2>1, <1>1
  <2> QED
    BY <2>1, <2>2 DEF ddVars, TableType, PeerType, DdType, TaskType, CallType, StopType
<1> QED
  BY <1>2, <1>3, <1>4, <1>5, <1>6, <1>7 DEF PayServer

LEMMA CallTypes ==
  ASSUME TypeInv, \E c \in Callers : Begin(c) \/ CallStep(c)
  PROVE  TypeInv'
<1> USE DEF TypeInv
<1>1. UNCHANGED <<table, peer, task, stop, stopped, pay>>
  BY DEF Begin, CallStep, Take, TakeFails, Send
<1>2. ASSUME NEW c \in Callers, Begin(c) \/ TakeFails(c) PROVE DdType' /\ CallType'
  BY <1>2 DEF Begin, TakeFails, DdType, CallType
<1>3. ASSUME NEW c \in Callers, Take(c) PROVE DdType' /\ CallType'
  BY <1>3 DEF Take, DdType, CallType
<1>4. ASSUME NEW c \in Callers, Send(c) PROVE DdType' /\ CallType'
  <2>1. Give(c) \in {"none", "free"} \cup Callers
    BY DEF Give, DdType
  <2>2. dd' = [dd EXCEPT !.mutex = Give(c)] /\ call' = [call EXCEPT ![c] = "idle"]
    BY <1>4 DEF Send
  <2> QED
    BY <2>1, <2>2 DEF DdType, CallType
<1>5. DdType' /\ CallType'
  BY <1>2, <1>3, <1>4 DEF CallStep
<1> QED
  BY <1>1, <1>5 DEF TableType, PeerType, TaskType, StopType, PayType

LEMMA TaskTypes ==
  ASSUME TypeInv, NEW t \in Tasks, TaskStep(t) \/ Start(t)
  PROVE  TypeInv'
<1> USE DEF TypeInv
<1>1. dd.server \in MaybeFd /\ dd.client \in MaybeFd /\ -1 \in MaybeFd
  BY Records DEF DdType
<1>2. CASE TaskStart(t)
  <2>1. /\ FreeFds # {} /\ table' = Opened("display") /\ dd' = [dd EXCEPT !.server = Lowest]
        /\ Goto(t, "loop", -1) /\ UNCHANGED <<peer, call, stop, stopped, pay>>
        /\ "display" \in Behinds /\ "loop" \in Places
    BY <1>2 DEF TaskStart, Behinds, Listeners, Places
  <2>2. TableType' /\ DdType'
    BY <2>1, Openings DEF TableType, DdType
  <2>3. TaskType'
    BY <2>1, <1>1, Goings
  <2> QED
    BY <2>1, <2>2, <2>3 DEF PeerType, CallType, StopType, PayType
<1>3. CASE TaskGivesUp(t) \/ TaskForget(t) \/ TaskAcceptFails(t) \/ Start(t)
  <2>1. PICK pc \in {"none", "loop", "start"} : Goto(t, pc, -1)
    BY <1>3 DEF TaskGivesUp, TaskForget, TaskAcceptFails, Start
  <2>2. TaskType'
    BY <2>1, <1>1, Goings DEF Places
  <2>3. DdType'
    BY <1>3, <1>1 DEF TaskGivesUp, TaskForget, TaskAcceptFails, Start, DdType
  <2> QED
    BY <1>3, <2>2, <2>3 DEF TaskGivesUp, TaskForget, TaskAcceptFails, Start,
                            TableType, PeerType, CallType, StopType, PayType
<1>4. CASE TaskLoop(t) \/ TaskGreeted(t) \/ TaskReceiveEnds(t)
  <2>1. PICK pc \in {"accept", "end", "recv", "close"}, fd \in MaybeFd : Goto(t, pc, fd)
    BY <1>4, <1>1 DEF TaskLoop, TaskGreeted, TaskReceiveEnds
  <2>2. TaskType'
    BY <2>1, Goings DEF Places
  <2> QED
    BY <1>4, <2>2 DEF TaskLoop, TaskGreeted, TaskReceiveEnds,
                      TableType, PeerType, DdType, CallType, StopType, PayType
<1>5. ASSUME NEW p \in Phones, TaskAccept(t, p) PROVE TypeInv'
  <2>1. /\ FreeFds # {} /\ table' = Opened(p) /\ dd' = [dd EXCEPT !.client = Lowest]
        /\ peer' = [peer EXCEPT ![p].at = "open"] /\ Goto(t, "hello", -1)
        /\ call' = [call EXCEPT ![t] = "take"] /\ UNCHANGED <<stop, stopped, pay>>
        /\ p \in Clients /\ p \in Behinds /\ "hello" \in Places
    BY <1>5 DEF TaskAccept, Behinds, Clients, Places
  <2>2. TableType' /\ DdType'
    BY <2>1, Openings DEF TableType, DdType
  <2>3. TaskType'
    BY <2>1, <1>1, Goings
  <2>4. PeerType' /\ CallType'
    BY <2>1 DEF PeerType, PeerRecord, CallType
  <2> QED
    BY <2>1, <2>2, <2>3, <2>4 DEF StopType, PayType
<1>6. CASE TaskClose(t)
  <2>1. /\ table' = Closed(dd.client) /\ UNCHANGED <<peer, dd, call, stop, stopped, pay>>
        /\ task' = [Woken(dd.client) EXCEPT ![t] = [pc |-> "forget", fd |-> -1]]
    BY <1>6 DEF TaskClose
  <2>2. TableType' /\ TaskType'
    BY <2>1, <1>1, Closings DEF TableType, TaskType, Places
  <2> QED
    BY <2>1, <2>2 DEF PeerType, DdType, CallType, StopType, PayType
<1>7. CASE TaskEnd(t)
  <2>1. /\ table' = Closed(dd.server) /\ peer' = TurnedAway(dd.server)
        /\ task' = [Woken(dd.server) EXCEPT ![t] = [pc |-> "none", fd |-> -1]]
        /\ dd' = [dd EXCEPT !.server = -1] /\ UNCHANGED <<call, stop, stopped, pay>>
    BY <1>7 DEF TaskEnd
  <2>2. TableType' /\ TaskType'
    BY <2>1, <1>1, Closings DEF TableType, TaskType, Places
  <2>3. DdType' /\ PeerType'
    BY <2>1, <1>1, TurnedType DEF DdType, PeerType
  <2> QED
    BY <2>1, <2>2, <2>3 DEF CallType, StopType, PayType
<1> QED
  BY <1>2, <1>3, <1>4, <1>5, <1>6, <1>7 DEF TaskStep

LEMMA StopTypes ==
  ASSUME TypeInv, Deinit \/ DeinitShutdown \/ DeinitClose \/ DeinitServer
  PROVE  TypeInv'
<1> USE DEF TypeInv
<1>1. dd.server \in MaybeFd /\ dd.client \in MaybeFd /\ -1 \in MaybeFd
  BY Records DEF DdType
<1>2. CASE Deinit
  BY <1>2 DEF Deinit, TableType, PeerType, DdType, TaskType, CallType, StopType, PayType
<1>3. CASE DeinitShutdown
  <2>1. UNCHANGED <<table, dd, call, stopped, pay>> /\ stop' \in {"server", "close"}
    BY <1>3 DEF DeinitShutdown
  <2>2. CASE UNCHANGED <<peer, task>>
    BY <2>1, <2>2 DEF TableType, PeerType, DdType, TaskType, CallType, StopType, PayType
  <2>3. CASE /\ task' = Woken(dd.client)
             /\ peer' = [c \in Clients |-> IF Behind(dd.client) = c /\ peer[c].at = "open"
                                           THEN [peer[c] EXCEPT !.at = "broken"] ELSE peer[c]]
    <3>1. TaskType'
      BY <2>3, <1>1, Closings DEF TaskType
    <3>2. \A c \in Clients : peer[c] \in PeerRecord /\ [peer[c] EXCEPT !.at = "broken"] \in PeerRecord
      BY DEF PeerType, PeerRecord
    <3>3. PeerType'
      BY <2>3, <3>2 DEF PeerType
    <3> QED
      BY <2>1, <3>1, <3>3 DEF TableType, DdType, CallType, StopType, PayType
  <2> QED
    BY <1>3, <2>2, <2>3 DEF DeinitShutdown
<1>4. CASE DeinitClose
  <2>1. /\ table' = Closed(dd.client) /\ task' = Woken(dd.client)
        /\ dd' = [dd EXCEPT !.client = -1] /\ stop' = "server"
        /\ UNCHANGED <<peer, call, stopped, pay>>
    BY <1>4 DEF DeinitClose
  <2>2. TableType' /\ TaskType'
    BY <2>1, <1>1, Closings DEF TableType, TaskType
  <2> QED
    BY <2>1, <2>2, <1>1 DEF PeerType, DdType, CallType, StopType, PayType
<1>5. CASE DeinitServer
  <2>1. /\ table' = Closed(dd.server) /\ task' = Woken(dd.server) /\ peer' = TurnedAway(dd.server)
        /\ dd' = [dd EXCEPT !.server = -1, !.mutex = "none"] /\ stop' = "idle"
        /\ UNCHANGED <<call, stopped, pay>>
    BY <1>5 DEF DeinitServer
  <2>2. TableType' /\ TaskType'
    BY <2>1, <1>1, Closings DEF TableType, TaskType
  <2>3. DdType' /\ PeerType'
    BY <2>1, <1>1, TurnedType DEF DdType, PeerType
  <2> QED
    BY <2>1, <2>2, <2>3 DEF CallType, StopType, PayType
<1> QED
  BY <1>2, <1>3, <1>4, <1>5

LEMMA TypeStep == TypeInv /\ [Next]_vars => TypeInv'
<1> SUFFICES ASSUME TypeInv, [Next]_vars PROVE TypeInv'
  OBVIOUS
<1>1. CASE UNCHANGED vars
  BY <1>1 DEF vars, TypeInv, TableType, PeerType, DdType, TaskType, CallType, StopType, PayType
<1> QED
  BY <1>1, PeerSteps, PayTypes, CallTypes, TaskTypes, StopTypes DEF Next

LEMMA TypeStart == Init => TypeInv
<1> SUFFICES ASSUME Init PROVE TypeInv
  OBVIOUS
<1>1. TableType /\ PeerType /\ TaskType /\ CallType /\ StopType
  BY Records DEF Init, TableType, PeerType, TaskType, CallType, StopType, Behinds, Places
<1>2. DdType
  BY Records DEF Init, DdType
<1>3. PayType
  BY Records, NetConstants DEF Init, Idle, PayType
<1> QED
  BY <1>1, <1>2, <1>3 DEF TypeInv

-----------------------------------------------------------------------------
(* Ownership.                                                               *)

Serves(t) == task[t].pc \in {"hello", "recv", "close"}

PayOwns ==
  /\ pay.pc # "start" => pay.server \in Fds /\ table[pay.server] = "payload"
  /\ pay.pc \in {"recv", "close"} =>
        pay.fd \in Fds /\ pay.from \in Deployers /\ table[pay.fd] = pay.from

TasksOwn ==
  /\ stop = "idle"
  /\ ~dd.running => dd.mutex = "none" /\ \A t \in Tasks : task[t].pc = "none"
  /\ \A t, u \in Tasks : task[t].pc # "none" /\ task[u].pc # "none" => t = u
  /\ \A t \in Tasks : task[t].pc # "end"
  /\ \A t \in Tasks : Serves(t) => dd.client \in Fds /\ table[dd.client] \in Phones
  /\ \A f \in Fds : table[f] \in Phones => f = dd.client /\ \E t \in Tasks : Serves(t)

SendersOwn ==
  /\ \A c \in Callers : call[c] = "send" <=> dd.mutex = c
  /\ \A t \in Tasks : call[t] # "idle" => task[t].pc = "hello"

Own == PayOwns /\ TasksOwn /\ SendersOwn

Inv == TypeInv /\ (~stopped => Own)

\* What is behind a descriptor tells whose it is.
LEMMA Kinds ==
  /\ \A p \in Phones : p # Free /\ p # "payload" /\ p # "display" /\ p \notin Deployers
  /\ \A d \in Deployers : d # Free /\ d # "payload" /\ d # "display" /\ d \notin Phones
  /\ Free # "payload" /\ Free # "display"
  /\ \A c \in Callers : c # "free" /\ c # "none"
BY NetConstants DEF Clients, Listeners, Free

\* Nothing of the ownership is about the clients, and of the tasks only where they are.
LEMMA OwnKeeps ==
  ASSUME Own, UNCHANGED <<table, dd, call, stop, pay>>, \A t \in Tasks : task'[t].pc = task[t].pc
  PROVE  Own'
<1>1. PayOwns' /\ SendersOwn'
  BY DEF Own, PayOwns, SendersOwn
<1>2. \A t \in Tasks : Serves(t)' = Serves(t)
  BY DEF Serves
<1>3. TasksOwn'
  BY <1>2 DEF Own, TasksOwn
<1> QED
  BY <1>1, <1>3 DEF Own

\* The payload server opens and closes its own descriptors only.
LEMMA PayOpens ==
  ASSUME TypeInv, Own, FreeFds # {}, NEW w \in {"payload"} \cup Deployers, table' = Opened(w),
         UNCHANGED ddVars, PayOwns'
  PROVE  Own'
<1>1. w \in Behinds /\ w \notin Phones
  BY Kinds DEF Behinds, Listeners, Clients
<1>2. /\ Lowest \in Fds /\ table'[Lowest] = w
      /\ \A f \in Fds : table[f] # Free => table'[f] = table[f]
      /\ \A f \in Fds : f # Lowest => table'[f] = table[f]
  BY <1>1, Openings DEF TypeInv
<1>3. \A f \in Fds : table'[f] \in Phones <=> table[f] \in Phones
  BY <1>1, <1>2, Kinds, LowestFree
<1>4. \A t \in Tasks : Serves(t)' = Serves(t)
  BY DEF Serves, ddVars
<1>5. TasksOwn'
  BY <1>3, <1>4 DEF Own, TasksOwn, ddVars
<1>6. SendersOwn'
  BY DEF Own, SendersOwn, ddVars
<1> QED
  BY <1>5, <1>6 DEF Own

LEMMA PayKeeps ==
  ASSUME TypeInv, Own, PayServer
  PROVE  Own'
<1>1. CASE PayStart
  <2>1. /\ FreeFds # {} /\ table' = Opened("payload") /\ pay' = Idle("accept", Lowest)
        /\ UNCHANGED <<peer, ddVars>> /\ "payload" \in Behinds
    BY <1>1 DEF PayStart, Behinds, Listeners
  <2>2. Lowest \in Fds /\ table'[Lowest] = "payload"
    BY <2>1, Openings DEF TypeInv
  <2>3. PayOwns'
    BY <2>1, <2>2 DEF PayOwns, Idle
  <2> QED
    BY <2>1, <2>3, PayOpens
<1>2. ASSUME NEW c \in Deployers, PayAccept(c) PROVE Own'
  <2>1. /\ pay.pc = "accept" /\ FreeFds # {} /\ table' = Opened(c) /\ c \in Behinds
        /\ pay' = [Idle("recv", pay.server) EXCEPT !.fd = Lowest, !.from = c, !.size = peer[c].size]
        /\ UNCHANGED ddVars
    BY <1>2 DEF PayAccept, Behinds, Clients
  <2>2. /\ Lowest \in Fds /\ table'[Lowest] = c
        /\ \A f \in Fds : table[f] # Free => table'[f] = table[f]
    BY <2>1, Openings DEF TypeInv
  <2>3. pay'.pc = "recv" /\ pay'.server = pay.server /\ pay'.fd = Lowest /\ pay'.from = c
    BY <2>1 DEF Idle
  <2>4. pay.server \in Fds /\ table[pay.server] = "payload"
    BY <2>1 DEF Own, PayOwns
  <2>5. table'[pay.server] = "payload"
    BY <2>2, <2>4, Kinds
  <2>6. PayOwns'
    BY <2>2, <2>3, <2>4, <2>5 DEF PayOwns
  <2> QED
    BY <2>1, <2>6, PayOpens
<1>3. ASSUME (\E n \in 1 .. Capacity : PayReceive(n)) \/ PayEnd PROVE Own'
  <2>1. /\ UNCHANGED <<table, ddVars>> /\ pay.pc = "recv" /\ pay'.pc \in {"recv", "close"}
        /\ pay'.server = pay.server /\ pay'.fd = pay.fd /\ pay'.from = pay.from
    BY <1>3 DEF PayReceive, PayEnd, TypeInv, PayType
  <2>2. PayOwns'
    BY <2>1 DEF Own, PayOwns
  <2>3. TasksOwn' /\ SendersOwn'
    BY <2>1 DEF Own, TasksOwn, SendersOwn, Serves, ddVars
  <2> QED
    BY <2>2, <2>3 DEF Own
<1>4. CASE PayClose
  <2>1. /\ pay.pc = "close" /\ table' = Closed(pay.fd) /\ task' = Woken(pay.fd)
        /\ pay' = [pay EXCEPT !.pc = "call"] /\ UNCHANGED <<dd, call, stop, stopped>>
        /\ pay.fd \in Fds /\ pay.fd \in MaybeFd /\ pay.from \in Deployers /\ table[pay.fd] = pay.from
        /\ pay.server \in Fds /\ table[pay.server] = "payload"
    BY <1>4 DEF PayClose, Own, PayOwns, MaybeFd
  <2>2. /\ \A g \in Fds : g # pay.fd => table'[g] = table[g]
        /\ table'[pay.fd] = Free
        /\ \A t \in Tasks : task'[t].pc = task[t].pc
    BY <2>1, Closings DEF TypeInv
  <2>3. pay'.pc = "call" /\ pay'.server = pay.server
    BY <2>1 DEF TypeInv, PayType
  <2>4. PayOwns'
    <3>1. pay.server # pay.fd
      BY <2>1, Kinds
    <3> QED
      BY <2>1, <2>2, <2>3, <3>1 DEF PayOwns
  <2>5. \A f \in Fds : table'[f] \in Phones <=> table[f] \in Phones
    BY <2>1, <2>2, Kinds
  <2>6. \A t \in Tasks : Serves(t)' = Serves(t)
    BY <2>2 DEF Serves
  <2>7. TasksOwn'
    BY <2>1, <2>2, <2>5, <2>6 DEF Own, TasksOwn
  <2>8. SendersOwn'
    BY <2>1, <2>2 DEF Own, SendersOwn
  <2> QED
    BY <2>4, <2>7, <2>8 DEF Own
<1>5. CASE PayCall
  <2>1. /\ pay.pc = "call" /\ pay'.pc = "accept" /\ pay'.server = pay.server
        /\ UNCHANGED <<table, ddVars>>
    BY <1>5 DEF PayCall, Idle
  <2>2. PayOwns'
    BY <2>1 DEF Own, PayOwns
  <2>3. TasksOwn' /\ SendersOwn'
    BY <2>1 DEF Own, TasksOwn, SendersOwn, Serves, ddVars
  <2> QED
    BY <2>2, <2>3 DEF Own
<1> QED
  BY <1>1, <1>2, <1>3, <1>4, <1>5 DEF PayServer

LEMMA CallKeeps ==
  ASSUME TypeInv, Own, NEW c \in Callers, Begin(c) \/ CallStep(c)
  PROVE  Own'
<1>1. /\ UNCHANGED <<table, task, stop, stopped, pay>>
      /\ dd'.running = dd.running /\ dd'.client = dd.client
  BY DEF Begin, CallStep, Take, TakeFails, Send, TypeInv, DdType
<1>2. PayOwns'
  BY <1>1 DEF Own, PayOwns
<1>3. \A t \in Tasks : Serves(t)' = Serves(t)
  BY <1>1 DEF Serves
<1>4. CASE Begin(c)
  <2>1. c \in Senders /\ call[c] = "idle" /\ call' = [call EXCEPT ![c] = "take"] /\ dd' = dd
    BY <1>4 DEF Begin
  <2>2. c \notin Tasks
    BY <2>1, NetConstants
  <2>3. /\ call'[c] = "take" /\ \A d \in Callers : d # c => call'[d] = call[d]
    BY <2>1 DEF TypeInv, CallType
  <2>4. SendersOwn'
    BY <1>1, <2>1, <2>2, <2>3 DEF Own, SendersOwn, Callers
  <2>5. TasksOwn'
    BY <1>1, <1>3, <2>1 DEF Own, TasksOwn
  <2> QED
    BY <1>2, <2>4, <2>5 DEF Own
<1>5. CASE Take(c)
  <2>1. /\ call[c] = "take" /\ dd.mutex = "free"
        /\ dd' = [dd EXCEPT !.mutex = c] /\ call' = [call EXCEPT ![c] = "send"]
    BY <1>5 DEF Take
  <2>2. /\ call'[c] = "send" /\ dd'.mutex = c
        /\ \A d \in Callers : d # c => call'[d] = call[d]
    BY <2>1 DEF TypeInv, CallType, DdType
  <2>3. \A d \in Callers : call[d] # "send"
    BY <2>1, Kinds DEF Own, SendersOwn
  <2>4. dd.running
    BY <2>1 DEF Own, TasksOwn
  <2>5. SendersOwn'
    <3>1. ASSUME NEW d \in Callers PROVE call'[d] = "send" <=> dd'.mutex = d
      BY <2>2, <2>3
    <3>2. ASSUME NEW t \in Tasks, call'[t] # "idle" PROVE task[t].pc = "hello"
      <4>1. call[t] # "idle"
        BY <2>1, <2>2, <3>2 DEF Callers
      <4> QED
        BY <4>1 DEF Own, SendersOwn
    <3> QED
      BY <1>1, <3>1, <3>2 DEF SendersOwn
  <2>6. TasksOwn'
    BY <1>1, <1>3, <2>4 DEF Own, TasksOwn
  <2> QED
    BY <1>2, <2>5, <2>6 DEF Own
<1>6. CASE TakeFails(c) \/ Send(c)
  <2>1. call' = [call EXCEPT ![c] = "idle"]
    BY <1>6 DEF TakeFails, Send
  <2>2. call'[c] = "idle" /\ \A d \in Callers : d # c => call'[d] = call[d]
    BY <2>1 DEF TypeInv, CallType
  <2>3. dd'.mutex = dd.mutex \/ (dd.mutex = c /\ dd'.mutex = "free")
    BY <1>6 DEF TakeFails, Send, Give, TypeInv, DdType
  <2>4. dd'.mutex # c
    <3>1. CASE TakeFails(c)
      BY <3>1 DEF TakeFails, Own, SendersOwn
    <3>2. CASE Send(c)
      BY <3>2, Kinds DEF Send, Give, TypeInv, DdType
    <3> QED
      BY <1>6, <3>1, <3>2
  <2>5. SendersOwn'
    <3>1. ASSUME NEW d \in Callers PROVE call'[d] = "send" <=> dd'.mutex = d
      <4>1. CASE d = c
        BY <2>2, <2>4, <4>1
      <4>2. CASE d # c
        BY <2>2, <2>3, <4>2, Kinds DEF Own, SendersOwn
      <4> QED
        BY <4>1, <4>2
    <3>2. ASSUME NEW t \in Tasks, call'[t] # "idle" PROVE task[t].pc = "hello"
      BY <2>2, <3>2 DEF Own, SendersOwn, Callers
    <3> QED
      BY <1>1, <3>1, <3>2 DEF SendersOwn
  <2>6. ~dd'.running => dd'.mutex = "none"
    BY <1>1, <2>3, Kinds DEF Own, TasksOwn
  <2>7. TasksOwn'
    BY <1>1, <1>3, <2>6 DEF Own, TasksOwn
  <2> QED
    BY <1>2, <2>5, <2>7 DEF Own
<1> QED
  BY <1>4, <1>5, <1>6 DEF CallStep

\* A display task that serves nobody goes on without serving anybody.
LEMMA IdleMoves ==
  ASSUME TypeInv, Own, NEW t \in Tasks, task[t].pc # "none", ~Serves(t),
         NEW pc \in {"none", "loop", "accept"}, NEW fd \in MaybeFd, Goto(t, pc, fd),
         UNCHANGED <<call, stop>>, dd'.running = dd.running, dd'.mutex = dd.mutex, PayOwns',
         \A f \in Fds : table'[f] \in Phones => table[f] \in Phones
  PROVE  Own'
<1>1. task'[t].pc = pc /\ \A u \in Tasks : u # t => task'[u] = task[u]
  BY Goings DEF Places, TypeInv
<1>2. \A u \in Tasks : u # t => task[u].pc = "none"
  BY DEF Own, TasksOwn
<1>3. dd.running
  BY DEF Own, TasksOwn
<1>4. \A u \in Tasks : ~Serves(u) /\ ~Serves(u)'
  BY <1>1, <1>2 DEF Serves
<1>5. \A f \in Fds : table'[f] \notin Phones
  BY <1>4 DEF Own, TasksOwn
<1>6. TasksOwn'
  BY <1>1, <1>2, <1>3, <1>4, <1>5 DEF Own, TasksOwn
<1>7. SendersOwn'
  BY <1>1, <1>2, <1>4 DEF Own, SendersOwn, Serves
<1> QED
  BY <1>6, <1>7 DEF Own

\* A display task that serves a phone goes on serving it.
LEMMA ServeMoves ==
  ASSUME TypeInv, Own, NEW t \in Tasks, Serves(t), call[t] = "idle",
         NEW pc \in {"recv", "close"}, NEW fd \in MaybeFd, Goto(t, pc, fd),
         UNCHANGED <<table, dd, call, stop, pay>>
  PROVE  Own'
<1>1. task'[t].pc = pc /\ \A u \in Tasks : u # t => task'[u] = task[u]
  BY Goings DEF Places, TypeInv
<1>2. task[t].pc # "none"
  BY DEF Serves
<1>3. \A u \in Tasks : Serves(u)' = Serves(u)
  BY <1>1 DEF Serves
<1>4. TasksOwn'
  BY <1>1, <1>2, <1>3 DEF Own, TasksOwn
<1>5. SendersOwn'
  BY <1>1 DEF Own, SendersOwn
<1>6. PayOwns'
  BY DEF Own, PayOwns
<1> QED
  BY <1>4, <1>5, <1>6 DEF Own

LEMMA TaskKeeps ==
  ASSUME TypeInv, Own, NEW t \in Tasks, TaskStep(t) \/ Start(t)
  PROVE  Own'
<1>0. dd.server \in MaybeFd /\ dd.client \in MaybeFd /\ -1 \in MaybeFd
  BY Records DEF TypeInv, DdType
<1>1. CASE TaskStart(t)
  <2>1. /\ task[t].pc = "start" /\ FreeFds # {} /\ table' = Opened("display")
        /\ dd' = [dd EXCEPT !.server = Lowest] /\ Goto(t, "loop", -1)
        /\ UNCHANGED <<call, stop, pay>> /\ "display" \in Behinds
    BY <1>1 DEF TaskStart, Behinds, Listeners
  <2>2. dd'.running = dd.running /\ dd'.mutex = dd.mutex
    BY <2>1 DEF TypeInv, DdType
  <2>3. /\ Lowest \in Fds /\ table'[Lowest] = "display"
        /\ \A f \in Fds : table[f] # Free => table'[f] = table[f]
        /\ \A f \in Fds : f # Lowest => table'[f] = table[f]
    BY <2>1, Openings DEF TypeInv
  <2>4. \A f \in Fds : table'[f] \in Phones => table[f] \in Phones
    BY <2>3, Kinds
  <2>5. PayOwns'
    BY <2>1, <2>3, Kinds DEF Own, PayOwns
  <2>6. task[t].pc # "none" /\ ~Serves(t)
    BY <2>1 DEF Serves
  <2> QED
    BY <1>0, <2>1, <2>2, <2>4, <2>5, <2>6, IdleMoves
<1>2. CASE TaskGivesUp(t) \/ TaskForget(t) \/ TaskAcceptFails(t)
  <2>1. PICK pc \in {"none", "loop"} : Goto(t, pc, -1)
    BY <1>2 DEF TaskGivesUp, TaskForget, TaskAcceptFails
  <2>2. /\ task[t].pc \in {"start", "forget", "accept"} /\ UNCHANGED <<table, call, stop, pay>>
        /\ dd' = [dd EXCEPT !.server = -1] \/ dd' = [dd EXCEPT !.client = -1]
    BY <1>2 DEF TaskGivesUp, TaskForget, TaskAcceptFails
  <2>3. dd'.running = dd.running /\ dd'.mutex = dd.mutex
    BY <2>2 DEF TypeInv, DdType
  <2>4. PayOwns'
    BY <2>2 DEF Own, PayOwns
  <2>5. task[t].pc # "none" /\ ~Serves(t)
    BY <2>2 DEF Serves
  <2> QED
    BY <1>0, <2>1, <2>2, <2>3, <2>4, <2>5, IdleMoves
<1>3. CASE TaskLoop(t)
  <2>1. task[t].pc = "loop" /\ UNCHANGED <<table, dd, call, stop, pay>>
    BY <1>3 DEF TaskLoop
  <2>2. dd.running
    BY <2>1 DEF Own, TasksOwn
  <2>3. Goto(t, "accept", dd.server)
    BY <1>3, <2>2 DEF TaskLoop
  <2>4. PayOwns'
    BY <2>1 DEF Own, PayOwns
  <2>5. task[t].pc # "none" /\ ~Serves(t)
    BY <2>1 DEF Serves
  <2> QED
    BY <1>0, <2>1, <2>3, <2>4, <2>5, IdleMoves
<1>4. ASSUME NEW p \in Phones, TaskAccept(t, p) PROVE Own'
  <2>1. /\ task[t].pc = "accept" /\ FreeFds # {} /\ table' = Opened(p)
        /\ dd' = [dd EXCEPT !.client = Lowest] /\ Goto(t, "hello", -1)
        /\ call' = [call EXCEPT ![t] = "take"] /\ UNCHANGED <<stop, pay>> /\ p \in Behinds
    BY <1>4 DEF TaskAccept, Behinds, Clients
  <2>2. dd'.running = dd.running /\ dd'.mutex = dd.mutex /\ dd'.client = Lowest
    BY <2>1 DEF TypeInv, DdType
  <2>3. /\ Lowest \in Fds /\ table'[Lowest] = p
        /\ \A f \in Fds : table[f] # Free => table'[f] = table[f]
        /\ \A f \in Fds : f # Lowest => table'[f] = table[f]
    BY <2>1, Openings DEF TypeInv
  <2>4. task'[t].pc = "hello" /\ \A u \in Tasks : u # t => task'[u] = task[u]
    BY <1>0, <2>1, Goings DEF Places, TypeInv
  <2>5. dd.running /\ \A u \in Tasks : u # t => task[u].pc = "none"
    BY <2>1 DEF Own, TasksOwn
  <2>6. /\ \A f \in Fds : table[f] \notin Phones
        /\ Serves(t)' /\ \A u \in Tasks : Serves(u)' => u = t
    BY <2>1, <2>4, <2>5 DEF Own, TasksOwn, Serves
  <2>7. PayOwns'
    BY <2>1, <2>3, Kinds DEF Own, PayOwns
  <2>8. TasksOwn'
    <3>1. \A f \in Fds : table'[f] \in Phones => f = dd'.client
      BY <2>2, <2>3, <2>6
    <3>2. \A u, v \in Tasks : task'[u].pc # "none" /\ task'[v].pc # "none" => u = v
      BY <2>4, <2>5
    <3> QED
      BY <2>1, <2>2, <2>3, <2>4, <2>5, <2>6, <3>1, <3>2 DEF Own, TasksOwn
  <2>9. SendersOwn'
    <3>1. call[t] = "idle" /\ t \in Callers
      BY <2>1 DEF Own, SendersOwn, Callers
    <3>2. call'[t] = "take" /\ \A c \in Callers : c # t => call'[c] = call[c]
      BY <2>1, <3>1 DEF TypeInv, CallType
    <3>3. ASSUME NEW c \in Callers PROVE call'[c] = "send" <=> dd'.mutex = c
      BY <2>2, <3>1, <3>2 DEF Own, SendersOwn
    <3>4. ASSUME NEW u \in Tasks, call'[u] # "idle" PROVE task'[u].pc = "hello"
      BY <2>4, <3>2, <3>4 DEF Own, SendersOwn, Callers
    <3> QED
      BY <3>3, <3>4 DEF SendersOwn
  <2> QED
    BY <2>7, <2>8, <2>9 DEF Own
<1>5. CASE TaskGreeted(t)
  <2>1. /\ task[t].pc = "hello" /\ call[t] = "idle" /\ UNCHANGED <<table, dd, call, stop, pay>>
        /\ Goto(t, "recv", dd.client) \/ Goto(t, "close", -1)
    BY <1>5 DEF TaskGreeted
  <2>2. Serves(t)
    BY <2>1 DEF Serves
  <2> QED
    BY <1>0, <2>1, <2>2, ServeMoves
<1>6. CASE TaskReceiveEnds(t)
  <2>1. /\ task[t].pc = "recv" /\ UNCHANGED <<table, dd, call, stop, pay>>
        /\ Goto(t, "close", -1)
    BY <1>6 DEF TaskReceiveEnds
  <2>2. Serves(t) /\ call[t] = "idle"
    BY <2>1 DEF Serves, Own, SendersOwn
  <2> QED
    BY <1>0, <2>1, <2>2, ServeMoves
<1>7. CASE TaskClose(t)
  <2>1. /\ task[t].pc = "close" /\ table' = Closed(dd.client) /\ UNCHANGED <<dd, call, stop, pay>>
        /\ task' = [Woken(dd.client) EXCEPT ![t] = [pc |-> "forget", fd |-> -1]]
    BY <1>7 DEF TaskClose
  <2>2. dd.client \in Fds /\ table[dd.client] \in Phones
    BY <2>1 DEF Own, TasksOwn, Serves
  <2>3. /\ \A g \in Fds : g # dd.client => table'[g] = table[g]
        /\ table'[dd.client] = Free
        /\ Woken(dd.client) \in [Tasks -> [pc : Places, fd : MaybeFd]]
        /\ \A u \in Tasks : Woken(dd.client)[u].pc = task[u].pc
    BY <1>0, <2>1, <2>2, Closings DEF TypeInv
  <2>4. task'[t].pc = "forget" /\ \A u \in Tasks : u # t => task'[u].pc = task[u].pc
    BY <2>1, <2>3
  <2>5. dd.running /\ \A u \in Tasks : u # t => task[u].pc = "none"
    BY <2>1 DEF Own, TasksOwn
  <2>6. \A f \in Fds : table'[f] \notin Phones
    BY <2>2, <2>3, Kinds DEF Own, TasksOwn
  <2>7. PayOwns'
    <3>1. \A f \in Fds : table[f] \notin Phones => table'[f] = table[f]
      BY <2>2, <2>3
    <3> QED
      BY <2>1, <3>1, Kinds DEF Own, PayOwns
  <2>8. \A u \in Tasks : ~Serves(u)'
    BY <2>4, <2>5 DEF Serves
  <2>9. TasksOwn'
    <3>1. \A u, v \in Tasks : task'[u].pc # "none" /\ task'[v].pc # "none" => u = v
      BY <2>4, <2>5
    <3>2. \A u \in Tasks : task'[u].pc # "end"
      BY <2>4, <2>5
    <3> QED
      BY <2>1, <2>5, <2>6, <2>8, <3>1, <3>2 DEF Own, TasksOwn
  <2>10. SendersOwn'
    BY <2>1, <2>4 DEF Own, SendersOwn
  <2> QED
    BY <2>7, <2>9, <2>10 DEF Own
<1>8. ~TaskEnd(t)
  BY DEF TaskEnd, Own, TasksOwn
<1>9. CASE Start(t)
  <2>1. /\ ~dd.running /\ dd' = [dd EXCEPT !.running = TRUE, !.mutex = "free"]
        /\ Goto(t, "start", -1) /\ UNCHANGED <<table, call, stop, pay>>
    BY <1>9 DEF Start
  <2>2. dd'.running /\ dd'.mutex = "free" /\ dd'.client = dd.client
    BY <2>1 DEF TypeInv, DdType
  <2>3. task'[t].pc = "start" /\ \A u \in Tasks : u # t => task'[u] = task[u]
    BY <1>0, <2>1, Goings DEF Places, TypeInv
  <2>4. dd.mutex = "none" /\ \A u \in Tasks : task[u].pc = "none"
    BY <2>1 DEF Own, TasksOwn
  <2>5. \A u \in Tasks : ~Serves(u) /\ ~Serves(u)'
    BY <2>3, <2>4 DEF Serves
  <2>6. PayOwns'
    BY <2>1 DEF Own, PayOwns
  <2>7. TasksOwn'
    BY <2>1, <2>2, <2>3, <2>4, <2>5 DEF Own, TasksOwn
  <2>8. SendersOwn'
    BY <2>1, <2>2, <2>4, Kinds DEF Own, SendersOwn
  <2> QED
    BY <2>6, <2>7, <2>8 DEF Own
<1> QED
  BY <1>1, <1>2, <1>3, <1>4, <1>5, <1>6, <1>7, <1>8, <1>9 DEF TaskStep

LEMMA InvStep == Inv /\ [Next]_vars => Inv'
<1> SUFFICES ASSUME Inv, [Next]_vars PROVE Inv'
  OBVIOUS
<1>1. TypeInv /\ TypeInv'
  BY TypeStep DEF Inv
<1> SUFFICES ASSUME ~stopped' PROVE Own'
  BY <1>1 DEF Inv
<1>2. stopped' = stopped \/ stopped'
  BY DEF Next, vars, ddVars, Dial, Return, Part, PayServer, PayStart, PayAccept, PayReceive, PayEnd,
         PayClose, PayCall, Begin, CallStep, Take, TakeFails, Send, TaskStep, TaskStart, TaskGivesUp,
         TaskLoop, TaskAccept, TaskAcceptFails, TaskGreeted, TaskReceiveEnds, TaskClose, TaskForget,
         TaskEnd, Start, Deinit, DeinitShutdown, DeinitClose, DeinitServer
<1>3. ~stopped /\ Own
  BY <1>2 DEF Inv
<1>4. CASE UNCHANGED vars
  BY <1>3, <1>4, OwnKeeps DEF vars
<1>5. ASSUME NEW c \in Clients,
             Dial(c) \/ Return(c) \/ \E how \in {"closed", "broken", "silent"} : Part(c, how)
      PROVE  Own'
  <2>1. UNCHANGED <<table, ddVars, pay>>
    BY <1>5 DEF Dial, Return, Part
  <2> QED
    BY <2>1, <1>3, OwnKeeps DEF ddVars
<1>6. ~Deinit /\ ~DeinitShutdown /\ ~DeinitClose /\ ~DeinitServer
  BY <1>3 DEF Deinit, DeinitShutdown, DeinitClose, DeinitServer, Own, TasksOwn
<1> QED
  BY <1>1, <1>3, <1>4, <1>5, <1>6, PayKeeps, CallKeeps, TaskKeeps DEF Next

LEMMA InvStart == Init => Inv
<1> SUFFICES ASSUME Init PROVE Inv
  OBVIOUS
<1>1. PayOwns
  BY DEF Init, Idle, PayOwns
<1>2. \A f \in Fds : table[f] \notin Phones
  BY Kinds DEF Init
<1>3. TasksOwn
  BY <1>2 DEF Init, TasksOwn, Serves
<1>4. SendersOwn
  BY Kinds DEF Init, SendersOwn, Callers
<1> QED
  BY <1>1, <1>3, <1>4, TypeStart DEF Inv, Own

\* Until the display server is stopped, a descriptor belongs to one server, and one
\* command at a time is on its way to the phone (wifi_mgr.c:45-127,
\* dumbdisplay_srv.c:35-243).
THEOREM AlwaysKept == Spec => []DescriptorsKept
<1>1. Inv => DescriptorsKept
  <2> SUFFICES ASSUME Inv PROVE DescriptorsKept
    OBVIOUS
  <2>1. TypeOK
    BY DEF Inv, TypeInv, TableType, PeerType, DdType, TaskType, CallType, StopType, PayType, TypeOK,
           Behinds, PeerRecord, Lefts, MaybeFd, Places
  <2>2. OwnDescriptor
    <3>1. -1 \notin Fds
      BY DEF Fds
    <3> QED
      BY <3>1 DEF Inv, Own, PayOwns, TasksOwn, Serves, OwnDescriptor
  <2>3. OneSender
    BY DEF Inv, Own, SendersOwn, OneSender
  <2> QED
    BY <2>1, <2>2, <2>3 DEF DescriptorsKept
<1> QED
  BY InvStart, InvStep, <1>1, PTL DEF Spec

-----------------------------------------------------------------------------
(* What the callback is given.                                              *)

\* While the connection is behind some descriptor, what has been received of the payload
\* and what its client still has to send make up the payload.
GivenInv ==
  /\ \A c \in Deployers : peer[c].at = "waiting" => peer[c].left = peer[c].size
  /\ pay.pc = "recv" /\ (\E f \in Fds : table[f] = pay.from) =>
        pay.total + peer[pay.from].left = pay.size
  /\ pay.total <= pay.size
  /\ pay.whole => pay.pc \in {"close", "call"} /\ pay.total = pay.size

\* No deployer's connection opens, and what the deployers have left does not change.
NothingNew ==
  /\ \A f \in Fds : table'[f] \in Deployers => table'[f] = table[f]
  /\ \A c \in Deployers : /\ peer'[c].left = peer[c].left /\ peer'[c].size = peer[c].size
                          /\ peer'[c].at = "waiting" => peer[c].at = "waiting"

LEMMA GivenKeeps ==
  ASSUME TypeInv, GivenInv, NothingNew, UNCHANGED pay
  PROVE  GivenInv'
<1>1. pay.pc = "recv" => pay.from \in Deployers
  BY DEF TypeInv, PayType
<1> QED
  BY <1>1 DEF GivenInv, NothingNew

\* Descriptors given to anything but a deployer, and closed ones.
LEMMA NoDeployer ==
  ASSUME TypeInv
  PROVE  /\ FreeFds # {} => \A w \in Phones \cup Listeners, f \in Fds :
              Opened(w)[f] \in Deployers => Opened(w)[f] = table[f]
         /\ \A g \in MaybeFd, f \in Fds : Closed(g)[f] \in Deployers => Closed(g)[f] = table[f]
         /\ \A g : \A c \in Deployers : TurnedAway(g)[c] = peer[c]
<1>1. ASSUME FreeFds # {}, NEW w \in Phones \cup Listeners, NEW f \in Fds
      PROVE  Opened(w)[f] \in Deployers => Opened(w)[f] = table[f]
  <2>1. w \in Behinds /\ w \notin Deployers
    BY Kinds DEF Behinds, Clients, Listeners
  <2> QED
    BY <1>1, <2>1, Openings DEF TypeInv
<1>2. ASSUME NEW g \in MaybeFd, NEW f \in Fds
      PROVE  Closed(g)[f] \in Deployers => Closed(g)[f] = table[f]
  BY <1>2, Closings, Kinds DEF TypeInv
<1>3. ASSUME NEW g, NEW c \in Deployers PROVE TurnedAway(g)[c] = peer[c]
  BY <1>3, Kinds DEF TurnedAway, Clients
<1> QED
  BY <1>1, <1>2, <1>3

\* A payload starts with nothing received of it, and grows by what leaves its client.
LEMMA PayGiven ==
  ASSUME TypeInv, GivenInv, PayServer
  PROVE  GivenInv'
<1>0. /\ pay.total \in Nat /\ pay.size \in Nat /\ Capacity \in Nat
      /\ pay.pc = "recv" => pay.from \in Deployers
  <2>1. Capacity \in Nat /\ Sizes \subseteq Nat
    BY NetConstants
  <2>2. pay.total \in 0 .. Capacity /\ pay.size \in {0} \cup Sizes
    BY DEF TypeInv, PayType
  <2>3. pay.total \in Nat
    BY <2>1, <2>2
  <2>4. pay.size = 0 \/ pay.size \in Sizes
    BY <2>2
  <2>5. \A n \in Sizes : n \in Nat
    BY <2>1
  <2>6. pay.size \in Nat
    BY <2>4, <2>5
  <2> QED
    BY <2>1, <2>3, <2>6 DEF TypeInv, PayType
<1>1. ASSUME NEW pc \in {"start", "accept"}, NEW server, pay' = Idle(pc, server), UNCHANGED peer
      PROVE  GivenInv'
  BY <1>1 DEF Idle, GivenInv
<1>2. CASE PayStart \/ PayCall
  BY <1>1, <1>2 DEF PayStart, PayCall
<1>3. ASSUME NEW c \in Deployers, PayAccept(c) PROVE GivenInv'
  <2>1. /\ peer[c].at = "waiting" /\ peer' = [peer EXCEPT ![c].at = "open"]
        /\ pay' = [Idle("recv", pay.server) EXCEPT !.fd = Lowest, !.from = c, !.size = peer[c].size]
    BY <1>3 DEF PayAccept
  <2>2. /\ pay'.pc = "recv" /\ pay'.from = c /\ pay'.total = 0 /\ ~pay'.whole
        /\ pay'.size = peer[c].size
    BY <2>1 DEF Idle
  <2>3. \A d \in Deployers : /\ peer'[d].left = peer[d].left /\ peer'[d].size = peer[d].size
                             /\ peer'[d].at = "waiting" => peer[d].at = "waiting"
    BY <2>1 DEF TypeInv, PeerType, Clients, PeerRecord
  <2>4. peer'[c].left = pay'.size /\ pay'.size \in Nat
    BY <2>1, <2>2, <2>3, NetConstants DEF GivenInv, TypeInv, PeerType, Clients, PeerRecord
  <2> QED
    BY <2>2, <2>3, <2>4 DEF GivenInv
<1>4. ASSUME NEW n \in 1 .. Capacity, PayReceive(n) PROVE GivenInv'
  <2>1. /\ pay.pc = "recv" /\ Behind(pay.fd) = pay.from /\ n \in 1 .. peer[pay.from].left
        /\ peer[pay.from].at \in {"open", "closed"}
        /\ pay' = [pay EXCEPT !.total = pay.total + n,
                              !.pc = IF pay.total + n >= Capacity THEN "close" ELSE "recv"]
        /\ peer' = [peer EXCEPT ![pay.from].left = @ - n]
        /\ UNCHANGED table
    BY <1>4 DEF PayReceive
  <2>2. \E f \in Fds : table[f] = pay.from
    BY <1>0, <2>1, Kinds DEF Behind
  <2>3. /\ pay'.total = pay.total + n /\ pay'.from = pay.from /\ pay'.size = pay.size
        /\ pay'.pc \in {"recv", "close"} /\ pay'.whole = pay.whole
    BY <2>1 DEF TypeInv, PayType
  <2>4. peer[pay.from].left \in Nat
    <3>1. peer[pay.from].left \in Lefts
      BY <1>0, <2>1 DEF TypeInv, PeerType, Clients, PeerRecord
    <3>2. Lefts \subseteq Nat
      BY NetConstants DEF Lefts
    <3> QED
      BY <3>1, <3>2
  <2>5. /\ peer'[pay.from].left = peer[pay.from].left - n /\ peer'[pay.from].at # "waiting"
        /\ \A d \in Deployers : d # pay.from => peer'[d] = peer[d]
    BY <1>0, <2>1 DEF TypeInv, PeerType, Clients, PeerRecord
  <2>6. pay.total + peer[pay.from].left = pay.size /\ ~pay.whole
    BY <2>1, <2>2 DEF GivenInv
  <2>7. /\ pay'.total + peer'[pay.from].left = pay.size /\ pay'.total <= pay.size
    BY <1>0, <2>1, <2>3, <2>4, <2>5, <2>6
  <2> QED
    BY <1>0, <2>3, <2>5, <2>6, <2>7 DEF GivenInv
<1>5. CASE PayEnd
  <2>1. /\ UNCHANGED <<table, peer>> /\ pay.pc = "recv"
        /\ pay'.pc = "close" /\ pay'.total = pay.total /\ pay'.size = pay.size
    BY <1>5 DEF PayEnd, TypeInv, PayType
  <2>2. CASE pay'.whole = pay.whole
    BY <2>1, <2>2 DEF GivenInv
  <2>3. CASE Behind(pay.fd) = pay.from /\ peer[pay.from].left = 0
    <3>1. \E f \in Fds : table[f] = pay.from
      BY <1>0, <2>1, <2>3, Kinds DEF Behind
    <3>2. pay.total = pay.size
      BY <1>0, <2>1, <2>3, <3>1 DEF GivenInv
    <3> QED
      BY <1>0, <2>1, <3>2 DEF GivenInv
  <2> QED
    BY <1>5, <2>2, <2>3 DEF PayEnd, TypeInv, PayType
<1>6. CASE PayClose
  BY <1>6 DEF PayClose, GivenInv, TypeInv, PayType
<1> QED
  BY <1>2, <1>3, <1>4, <1>5, <1>6 DEF PayServer

LEMMA GivenStep ==
  ASSUME TypeInv, GivenInv, [Next]_vars
  PROVE  GivenInv'
<1>0. dd.server \in MaybeFd /\ dd.client \in MaybeFd
  BY DEF TypeInv, DdType
<1>1. CASE UNCHANGED vars
  BY <1>1 DEF vars, GivenInv
<1>2. ASSUME NEW c \in Clients, Dial(c) \/ Return(c) PROVE GivenInv'
  <2>1. /\ UNCHANGED <<table, pay>> /\ \A f \in Fds : table[f] # c
        /\ \A d \in Clients : d # c => peer'[d] = peer[d]
        /\ peer'[c].at = "waiting" => peer'[c].left = peer'[c].size
    BY <1>2 DEF Dial, Return, TypeInv, PeerType, Away
  <2> QED
    BY <2>1 DEF GivenInv, Clients, TypeInv, PayType
<1>3. ASSUME NEW c \in Clients, NEW how \in {"closed", "broken", "silent"}, Part(c, how) PROVE GivenInv'
  <2>1. NothingNew /\ UNCHANGED pay
    BY <1>3 DEF Part, NothingNew, TypeInv, PeerType, PeerRecord, Clients
  <2> QED
    BY <2>1, GivenKeeps
<1>4. ASSUME NEW c \in Callers, Begin(c) \/ CallStep(c) PROVE GivenInv'
  BY <1>4, GivenKeeps DEF Begin, CallStep, Take, TakeFails, Send, NothingNew
<1>5. ASSUME NEW t \in Tasks, TaskStep(t) \/ Start(t) PROVE GivenInv'
  <2>1. UNCHANGED pay
    BY <1>5 DEF TaskStep, TaskStart, TaskGivesUp, TaskLoop, TaskAccept, TaskAcceptFails, TaskGreeted,
                TaskReceiveEnds, TaskClose, TaskForget, TaskEnd, Start
  <2>2. CASE TaskStart(t) \/ TaskClose(t) \/ TaskEnd(t)
    <3>1. \A f \in Fds : table'[f] \in Deployers => table'[f] = table[f]
      BY <1>0, <2>2, NoDeployer DEF TaskStart, TaskClose, TaskEnd, Listeners
    <3>2. \A c \in Deployers : peer'[c] = peer[c]
      BY <2>2, NoDeployer DEF TaskStart, TaskClose, TaskEnd
    <3> QED
      BY <2>1, <3>1, <3>2, GivenKeeps DEF NothingNew
  <2>3. ASSUME NEW p \in Phones, TaskAccept(t, p) PROVE GivenInv'
    <3>1. \A f \in Fds : table'[f] \in Deployers => table'[f] = table[f]
      BY <2>3, NoDeployer DEF TaskAccept
    <3>2. \A c \in Deployers : peer'[c] = peer[c]
      BY <2>3, Kinds DEF TaskAccept, TypeInv, PeerType, Clients
    <3> QED
      BY <2>1, <3>1, <3>2, GivenKeeps DEF NothingNew
  <2>4. CASE TaskGivesUp(t) \/ TaskLoop(t) \/ TaskAcceptFails(t) \/ TaskGreeted(t)
             \/ TaskReceiveEnds(t) \/ TaskForget(t) \/ Start(t)
    BY <2>4, GivenKeeps DEF TaskGivesUp, TaskLoop, TaskAcceptFails, TaskGreeted, TaskReceiveEnds,
                            TaskForget, Start, NothingNew
  <2> QED
    BY <1>5, <2>2, <2>3, <2>4 DEF TaskStep
<1>6. CASE Deinit \/ DeinitShutdown \/ DeinitClose \/ DeinitServer
  <2>1. UNCHANGED pay
    BY <1>6 DEF Deinit, DeinitShutdown, DeinitClose, DeinitServer
  <2>2. \A f \in Fds : table'[f] \in Deployers => table'[f] = table[f]
    BY <1>0, <1>6, NoDeployer DEF Deinit, DeinitShutdown, DeinitClose, DeinitServer
  <2>3. CASE DeinitShutdown
    <3>1. \A c \in Deployers : peer'[c].left = peer[c].left /\ peer'[c].size = peer[c].size
                               /\ (peer'[c].at = "waiting" => peer[c].at = "waiting")
      BY <2>3 DEF DeinitShutdown, TypeInv, PeerType, PeerRecord, Clients
    <3> QED
      BY <2>1, <2>2, <3>1, GivenKeeps DEF NothingNew
  <2>4. CASE Deinit \/ DeinitClose \/ DeinitServer
    <3>1. \A c \in Deployers : peer'[c] = peer[c]
      BY <2>4, NoDeployer DEF Deinit, DeinitClose, DeinitServer
    <3> QED
      BY <2>1, <2>2, <3>1, GivenKeeps DEF NothingNew
  <2> QED
    BY <1>6, <2>3, <2>4
<1> QED
  BY <1>1, <1>2, <1>3, <1>4, <1>5, <1>6, PayGiven DEF Next

\* The callback of the payload server gets parts of one payload, never more than fit, and
\* all of it when its client closed the connection after sending: for any clients, payload
\* sizes and buffer, whoever takes the descriptors in between, and though the display
\* server is stopped (wifi_mgr.c:60-127).
THEOREM AlwaysGivenWhole == Spec => []GivenWhole
<1>1. Init => TypeInv /\ GivenInv
  <2> SUFFICES ASSUME Init PROVE GivenInv
    BY TypeStart
  <2> QED
    BY DEF Init, Idle, Away, GivenInv, Clients
<1>2. TypeInv /\ GivenInv /\ [Next]_vars => (TypeInv /\ GivenInv)'
  BY TypeStep, GivenStep
<1>3. TypeInv /\ GivenInv => GivenWhole
  BY NetConstants DEF TypeInv, PayType, GivenInv, GivenWhole
<1> QED
  BY <1>1, <1>2, <1>3, PTL DEF Spec
=============================================================================
