---- MODULE NetServers ----
(* The two TCP servers of the device: the receiver of deployments (comms/wifi_mgr.c) and
   the DumbDisplay server (comms/dumbdisplay_srv.c).

   Both take their descriptors from one table, which hands out the lowest free number: a
   number that one server has closed may be the connection of the other a moment later.
   Every call of a socket or of the mutex is a step, as the tasks and the callers of
   dd_send_cmd run on both cores.  A task that waits on a descriptor is woken when another
   closes it.  app_main starts both servers and never stops the display server; Deinit
   is what dd_server_deinit would do, and a new start after it.  *)
EXTENDS Integers, FiniteSets, FiniteSetsExt

CONSTANTS
    Phones,     \* clients of the display server
    Deployers,  \* clients of the payload server
    Senders,    \* tasks that call dd_send_cmd
    Tasks,      \* the display server tasks; a second one after a restart
    NumFds,     \* descriptors of the table
    Sizes,      \* payloads a deployer may send, in parts
    Capacity    \* parts that fit rx_buffer

Clients == Phones \cup Deployers
Callers == Senders \cup Tasks
Fds == 0 .. NumFds - 1
Free == "free"
Listeners == {"display", "payload"}

ASSUME NetConstants ==
    /\ NumFds \in Nat \ {0} /\ Capacity \in Nat \ {0} /\ Sizes \subseteq Nat \ {0}
    /\ Phones \cap Deployers = {} /\ Senders \cap Tasks = {}
    /\ Clients \cap ({Free} \cup Listeners) = {}
    /\ Callers \cap {"none", "free"} = {}

VARIABLES
    table,      \* what is behind every descriptor
    peer,       \* the clients: where they are, and the parts of the payload not yet received
    dd,         \* s_running, s_server_fd, s_client_fd and s_tx_mutex
    task,       \* the display server tasks: where they are, the descriptor they wait on
    call,       \* the callers of dd_send_cmd: "idle", "take" or "send"
    stop,       \* where dd_server_deinit is
    pay,        \* the payload server: where it is, server_fd, client_fd, total_rx, its client
    stopped     \* dd_server_deinit has been called

vars == <<table, peer, dd, task, call, stop, pay, stopped>>
ddVars == <<dd, task, call, stop, stopped>>

(* A client that is not there. *)
Away == [at |-> "away", left |-> 0, size |-> 0]

(* The payload server without a client. *)
Idle(pc, server) ==
    [pc |-> pc, server |-> server, fd |-> -1, total |-> 0, from |-> "nobody", size |-> 0, whole |-> FALSE]

Init ==
    /\ table = [f \in Fds |-> Free]
    /\ peer = [c \in Clients |-> Away]
    /\ dd = [running |-> FALSE, server |-> -1, client |-> -1, mutex |-> "none"]
    /\ task = [t \in Tasks |-> [pc |-> "none", fd |-> -1]]
    /\ call = [c \in Callers |-> "idle"]
    /\ stop = "idle"
    /\ pay = Idle("start", -1)
    /\ stopped = FALSE

----
(* The descriptor table. *)
FreeFds == {f \in Fds : table[f] = Free}
Lowest == Min(FreeFds)
Opened(what) == [table EXCEPT ![Lowest] = what]
Behind(f) == IF f \in Fds THEN table[f] ELSE Free
Closed(f) == IF f \in Fds THEN [table EXCEPT ![f] = Free] ELSE table

(* The display tasks that wait on f return from their call with an error. *)
Woken(f) == [t \in Tasks |-> IF task[t].fd = f THEN [task[t] EXCEPT !.fd = -1] ELSE task[t]]

(* A client connects; the backlog of a listener holds one. *)
Dial(c) ==
    /\ peer[c].at = "away" /\ \A f \in Fds : table[f] # c
    /\ LET mine == IF c \in Phones THEN Phones ELSE Deployers IN
       /\ \A o \in mine : peer[o].at # "waiting"
       /\ \E f \in Fds : table[f] = (IF c \in Phones THEN "display" ELSE "payload")
    /\ \E n \in (IF c \in Deployers THEN Sizes ELSE {0}) :
          peer' = [peer EXCEPT ![c] = [at |-> "waiting", left |-> n, size |-> n]]
    /\ UNCHANGED <<table, ddVars, pay>>

(* The client has sent everything and closes, breaks off, or is never heard of again. *)
Part(c, how) ==
    /\ peer[c].at = "open"
    /\ peer' = [peer EXCEPT ![c].at = how]
    /\ UNCHANGED <<table, ddVars, pay>>

(* A client whose connection is over may come again. *)
Return(c) ==
    /\ peer[c].at \in {"closed", "broken", "open"} /\ \A f \in Fds : table[f] # c
    /\ peer' = [peer EXCEPT ![c] = Away]
    /\ UNCHANGED <<table, ddVars, pay>>

----
(* tcp_server_task *)
PayStart ==
    /\ pay.pc = "start" /\ FreeFds # {}
    /\ table' = Opened("payload")
    /\ pay' = Idle("accept", Lowest)
    /\ UNCHANGED <<peer, ddVars>>

(* accept; while it fails, as on a descriptor that somebody has closed, the task tries
   again after a pause. *)
PayAccept(c) ==
    /\ pay.pc = "accept" /\ Behind(pay.server) = "payload" /\ peer[c].at = "waiting" /\ FreeFds # {}
    /\ table' = Opened(c)
    /\ pay' = [Idle("recv", pay.server) EXCEPT !.fd = Lowest, !.from = c, !.size = peer[c].size]
    /\ peer' = [peer EXCEPT ![c].at = "open"]
    /\ UNCHANGED <<ddVars>>

(* Mutated form of Room: the check of total_rx is off by one. *)
RoomOneMore == Capacity + 1 - pay.total

(* What recv may still write to rx_buffer. *)
Room == Capacity - pay.total

(* recv returns n parts; a full buffer ends the loop. *)
PayReceive(n) ==
    /\ pay.pc = "recv" /\ Behind(pay.fd) = pay.from /\ peer[pay.from].at \in {"open", "closed"}
    /\ n \in 1 .. peer[pay.from].left /\ n <= Room
    /\ pay' = [pay EXCEPT !.total = pay.total + n,
                          !.pc = IF pay.total + n >= Capacity THEN "close" ELSE "recv"]
    /\ peer' = [peer EXCEPT ![pay.from].left = @ - n]
    /\ UNCHANGED <<table, ddVars>>

(* recv returns 0 or an error. *)
PayEnd ==
    /\ pay.pc = "recv"
    /\ \/ /\ Behind(pay.fd) # pay.from \/ peer[pay.from].at = "broken"
          /\ pay' = [pay EXCEPT !.pc = "close"]
       \/ /\ Behind(pay.fd) = pay.from /\ peer[pay.from].at = "closed" /\ peer[pay.from].left = 0
          /\ pay' = [pay EXCEPT !.pc = "close", !.whole = TRUE]
    /\ UNCHANGED <<table, peer, ddVars>>

PayClose ==
    /\ pay.pc = "close"
    /\ table' = Closed(pay.fd) /\ task' = Woken(pay.fd)
    /\ pay' = [pay EXCEPT !.pc = "call"]
    /\ UNCHANGED <<peer, dd, call, stop, stopped>>

(* Mutated form of PayCall: the task serves one client. *)
PayCallOnce ==
    /\ pay.pc = "call"
    /\ pay' = Idle("done", pay.server)
    /\ UNCHANGED <<table, peer, ddVars>>

(* The callback gets what was received, if anything; then the next client is accepted. *)
PayCall ==
    /\ pay.pc = "call"
    /\ pay' = Idle("accept", pay.server)
    /\ UNCHANGED <<table, peer, ddVars>>

----
(* dd_send_cmd by caller c: a look at s_client_fd, then the mutex, then send. *)
Begin(c) ==
    /\ c \in Senders /\ call[c] = "idle" /\ dd.client # -1
    /\ call' = [call EXCEPT ![c] = "take"]
    /\ UNCHANGED <<table, peer, dd, task, stop, stopped, pay>>

Take(c) ==
    /\ call[c] = "take" /\ dd.mutex = "free"
    /\ dd' = [dd EXCEPT !.mutex = c]
    /\ call' = [call EXCEPT ![c] = "send"]
    /\ UNCHANGED <<table, peer, task, stop, stopped, pay>>

(* 100 ms pass while another caller holds the mutex, or the mutex is gone. *)
TakeFails(c) ==
    /\ call[c] = "take" /\ dd.mutex # "free"
    /\ call' = [call EXCEPT ![c] = "idle"]
    /\ UNCHANGED <<table, peer, dd, task, stop, stopped, pay>>

(* The mutex as caller c leaves it; one that dd_server_deinit has deleted stays so. *)
Give(c) == IF dd.mutex = c THEN "free" ELSE dd.mutex

(* send, to whatever is behind s_client_fd by now; a command that is too long, or a client
   that has gone, is an error.  Either way the mutex is given back. *)
Send(c) ==
    /\ call[c] = "send"
    /\ dd' = [dd EXCEPT !.mutex = Give(c)]
    /\ call' = [call EXCEPT ![c] = "idle"]
    /\ UNCHANGED <<table, peer, task, stop, stopped, pay>>

----
(* dd_server_task: where task t goes on, and the descriptor it waits on there. *)
Goto(t, pc, fd) == task' = [task EXCEPT ![t] = [pc |-> pc, fd |-> fd]]

TaskStart(t) ==
    /\ task[t].pc = "start" /\ FreeFds # {}
    /\ table' = Opened("display")
    /\ dd' = [dd EXCEPT !.server = Lowest]
    /\ Goto(t, "loop", -1)
    /\ UNCHANGED <<peer, call, stop, stopped, pay>>

(* socket, bind or listen fails, for want of memory, of a descriptor or of the port: the
   task ends, and the server stays marked as running. *)
TaskGivesUp(t) ==
    /\ task[t].pc = "start"
    /\ dd' = [dd EXCEPT !.server = -1]
    /\ Goto(t, "none", -1)
    /\ UNCHANGED <<table, peer, call, stop, stopped, pay>>

(* The test of the outer loop; accept is called on the descriptor s_server_fd has now. *)
TaskLoop(t) ==
    /\ task[t].pc = "loop"
    /\ IF dd.running THEN Goto(t, "accept", dd.server) ELSE Goto(t, "end", -1)
    /\ UNCHANGED <<table, peer, dd, call, stop, stopped, pay>>

(* A phone is accepted, and greeted by dd_send_cmd. *)
TaskAccept(t, p) ==
    /\ task[t].pc = "accept" /\ task[t].fd # -1 /\ FreeFds # {}
    /\ peer[p].at = "waiting"
    /\ peer' = [peer EXCEPT ![p].at = "open"]
    /\ table' = Opened(p)
    /\ dd' = [dd EXCEPT !.client = Lowest]
    /\ Goto(t, "hello", -1)
    /\ call' = [call EXCEPT ![t] = "take"]
    /\ UNCHANGED <<stop, stopped, pay>>

(* accept fails: s_client_fd takes its result all the same. *)
TaskAcceptFails(t) ==
    /\ task[t].pc = "accept" /\ (task[t].fd = -1 \/ FreeFds = {})
    /\ dd' = [dd EXCEPT !.client = -1]
    /\ Goto(t, "loop", -1)
    /\ UNCHANGED <<table, peer, call, stop, stopped, pay>>

TaskGreeted(t) ==
    /\ task[t].pc = "hello" /\ call[t] = "idle"
    /\ IF dd.running THEN Goto(t, "recv", dd.client) ELSE Goto(t, "close", -1)
    /\ UNCHANGED <<table, peer, dd, call, stop, stopped, pay>>

(* recv ends: with an error or the end of the connection, or with data after a stop. *)
TaskReceiveEnds(t) ==
    /\ task[t].pc = "recv"
    /\ ~ dd.running \/ \A c \in Clients : Behind(task[t].fd) = c => peer[c].at \in {"closed", "broken"}
    /\ Goto(t, "close", -1)
    /\ UNCHANGED <<table, peer, dd, call, stop, stopped, pay>>

(* Mutated form of TaskClose: s_client_fd is cleared before it is closed. *)
TaskCloseCleared(t) ==
    /\ task[t].pc = "close"
    /\ dd' = [dd EXCEPT !.client = -1]
    /\ Goto(t, "forget", -1)
    /\ UNCHANGED <<table, peer, call, stop, stopped, pay>>

(* close(s_client_fd), whatever the variable holds by now; then it is set to -1. *)
TaskClose(t) ==
    /\ task[t].pc = "close"
    /\ table' = Closed(dd.client)
    /\ task' = [Woken(dd.client) EXCEPT ![t] = [pc |-> "forget", fd |-> -1]]
    /\ UNCHANGED <<peer, dd, call, stop, stopped, pay>>

TaskForget(t) ==
    /\ task[t].pc = "forget"
    /\ dd' = [dd EXCEPT !.client = -1]
    /\ Goto(t, "loop", -1)
    /\ UNCHANGED <<table, peer, call, stop, stopped, pay>>

(* Phones in the backlog of a listener that is closed are turned away. *)
TurnedAway(f) ==
    [c \in Clients |-> IF f \in Fds /\ table[f] = "display" /\ c \in Phones /\ peer[c].at = "waiting"
                       THEN Away ELSE peer[c]]

TaskEnd(t) ==
    /\ task[t].pc = "end"
    /\ table' = Closed(dd.server) /\ peer' = TurnedAway(dd.server)
    /\ task' = [Woken(dd.server) EXCEPT ![t] = [pc |-> "none", fd |-> -1]]
    /\ dd' = [dd EXCEPT !.server = -1]
    /\ UNCHANGED <<call, stop, stopped, pay>>

----
(* dd_server_init; app_main calls it once. *)
Start(t) ==
    /\ ~ dd.running /\ stop = "idle" /\ task[t].pc = "none"
    /\ dd' = [dd EXCEPT !.running = TRUE, !.mutex = "free"]
    /\ Goto(t, "start", -1)
    /\ UNCHANGED <<table, peer, call, stop, stopped, pay>>

(* dd_server_deinit, step by step: the flag; shutdown of the client, which its phone and
   a waiting recv notice, and close; the listener; the mutex. *)
Deinit ==
    /\ dd.running /\ stop = "idle" /\ ~ stopped
    /\ dd' = [dd EXCEPT !.running = FALSE]
    /\ stop' = "shutdown" /\ stopped' = TRUE
    /\ UNCHANGED <<table, peer, task, call, pay>>

DeinitShutdown ==
    /\ stop = "shutdown"
    /\ IF dd.client = -1 THEN stop' = "server" /\ UNCHANGED <<peer, task>>
       ELSE /\ stop' = "close"
            /\ peer' = [c \in Clients |-> IF Behind(dd.client) = c /\ peer[c].at = "open"
                                          THEN [peer[c] EXCEPT !.at = "broken"] ELSE peer[c]]
            /\ task' = Woken(dd.client)
    /\ UNCHANGED <<table, dd, call, stopped, pay>>

DeinitClose ==
    /\ stop = "close"
    /\ table' = Closed(dd.client) /\ task' = Woken(dd.client)
    /\ dd' = [dd EXCEPT !.client = -1]
    /\ stop' = "server"
    /\ UNCHANGED <<peer, call, stopped, pay>>

DeinitServer ==
    /\ stop = "server"
    /\ table' = Closed(dd.server) /\ task' = Woken(dd.server) /\ peer' = TurnedAway(dd.server)
    /\ dd' = [dd EXCEPT !.server = -1, !.mutex = "none"]
    /\ stop' = "idle"
    /\ UNCHANGED <<call, stopped, pay>>

----
PayServer == PayStart \/ (\E c \in Deployers : PayAccept(c)) \/ (\E n \in 1 .. Capacity : PayReceive(n))
             \/ PayEnd \/ PayClose \/ PayCall

TaskStep(t) ==
    \/ TaskStart(t) \/ TaskGivesUp(t) \/ TaskLoop(t)
    \/ \E p \in Phones : TaskAccept(t, p)
    \/ TaskAcceptFails(t) \/ TaskGreeted(t) \/ TaskReceiveEnds(t)
    \/ TaskClose(t) \/ TaskForget(t) \/ TaskEnd(t)

CallStep(c) == Take(c) \/ TakeFails(c) \/ Send(c)

Next ==
    \/ \E c \in Clients : Dial(c) \/ Return(c) \/ \E how \in {"closed", "broken", "silent"} : Part(c, how)
    \/ PayServer
    \/ \E c \in Callers : Begin(c) \/ CallStep(c)
    \/ \E t \in Tasks : TaskStep(t) \/ Start(t)
    \/ Deinit \/ DeinitShutdown \/ DeinitClose \/ DeinitServer

(* Tasks that can run do, and a client that is connected finishes in its own time. *)
Fairness ==
    /\ WF_vars(PayServer)
    /\ \A c \in Callers : WF_vars(CallStep(c))
    /\ \A t \in Tasks : WF_vars(TaskStep(t))
    /\ \A c \in Clients : WF_vars(\E how \in {"closed", "broken", "silent"} : Part(c, how))

Spec == Init /\ [][Next]_vars /\ Fairness

----
TypeOK ==
    /\ table \in [Fds -> {Free} \cup Listeners \cup Clients]
    /\ peer \in [Clients -> [at : {"away", "waiting", "open", "closed", "broken", "silent"},
                             left : {0} \cup UNION {0 .. n : n \in Sizes}, size : {0} \cup Sizes]]
    /\ dd \in [running : BOOLEAN, server : Fds \cup {-1}, client : Fds \cup {-1},
               mutex : {"none", "free"} \cup Callers]
    /\ task \in [Tasks -> [pc : {"none", "start", "loop", "accept", "hello", "recv", "close", "forget", "end"},
                           fd : Fds \cup {-1}]]
    /\ call \in [Callers -> {"idle", "take", "send"}]
    /\ stop \in {"idle", "shutdown", "close", "server"}
    /\ pay.pc \in {"start", "accept", "recv", "close", "call"} /\ pay.total \in 0 .. Capacity
    /\ stopped \in BOOLEAN

(* Until somebody stops the display server, a descriptor belongs to one server: the
   payload server finds its client behind client_fd until it closes it, and a phone's
   connection is behind s_client_fd from accept to close.  The numbers are reused at once
   and s_client_fd is cleared only after the close. *)
OwnDescriptor ==
    ~ stopped =>
       /\ pay.pc \in {"recv", "close"} => table[pay.fd] = pay.from
       /\ \A f \in Fds : table[f] \in Phones => f = dd.client
       /\ \A t \in Tasks : task[t].pc \in {"hello", "recv", "close"} => dd.client # -1 /\ table[dd.client] \in Phones

(* One command at a time reaches the phone: two callers of dd_send_cmd never send at
   once, and the mutex is held by nobody who has returned. *)
OneSender ==
    ~ stopped =>
       /\ \A c, d \in Callers : call[c] = "send" /\ call[d] = "send" => c = d
       /\ dd.mutex \in Callers => call[dd.mutex] = "send"

(* The callback gets parts of one payload and never more than fit; all of it if its
   client closed the connection after sending. *)
GivenWhole ==
    pay.pc = "call" => pay.total <= Capacity /\ pay.total <= pay.size /\ (pay.whole => pay.total = pay.size)

(* A client that connects is served or turned away, unless one before it keeps its
   connection and is never heard of again: recv has no timeout. *)
ClientsServed ==
    \A c \in Clients :
       peer[c].at = "waiting" ~> (peer[c].at # "waiting" \/ stopped \/ \E o \in Clients : peer[o].at = "silent")

(* "Thread-safe": no command for the phone is sent to anybody else. *)
CommandsReachPhone ==
    ~ stopped => \A c \in Callers : call[c] = "send" => Behind(dd.client) \notin Deployers

\* The variables have their types, a descriptor belongs to one server, and one
\* command at a time is on its way to the phone.
DescriptorsKept == TypeOK /\ OwnDescriptor /\ OneSender

====
