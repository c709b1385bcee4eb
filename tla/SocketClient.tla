---------------------------- MODULE SocketClient ----------------------------
(***************************************************************************)
(* libunipoint/socketclient_interface.c under the JNI calls that guard it. *)
(* Binder threads call getcurrentmode() and setmode(); each sends its      *)
(* command and waits on a condition variable until the receive thread has  *)
(* stored the answer in retfromDaemon.  The callers share one currentcmd   *)
(* and one retfromDaemon and write both before they take ret_mutex.  The   *)
(* wait is not in a loop, so that a wake-up without a signal ends it too.  *)
(*                                                                         *)
(* Receive thread r creates socket r and connects it; reConnect() starts   *)
(* another thread without waiting for the last to end.  The daemon is      *)
(* external: it answers the first command of what recv() gives it (see     *)
(* SocketServer), may notify a mode switch and may close the connection.   *)
(* Destroying a mutex or condition variable in use is undefined in POSIX;  *)
(* the C library of the target, KitKat's bionic, refuses to destroy a held *)
(* mutex, blocks whoever locks a destroyed one, and leaves the sleepers of *)
(* a destroyed condition variable asleep until one is signalled at its     *)
(* address again.                                                          *)
(***************************************************************************)
EXTENDS Integers, Sequences

CONSTANTS
    Callers,        \* threads that call through JNI
    SetModes,       \* the modes they set
    Retries,        \* retrycounts, 2000 in the code
    MaxReceivers,   \* bound: receive threads, one more than reconnections
    MaxCalls,       \* bound: calls of all threads together
    MaxNotify,      \* bound: notifications
    FaultSets       \* bound: which of FaultKinds one behaviour may meet together

\* What else happens while threads call: a mode switch at the pad, the daemon's
\* close, the service's reConnect(), and a pthread_cond_wait that returns
\* without a signal
FaultKinds == {"NOTIFY", "CLOSE", "RECONNECT", "SPURIOUS"}

ASSUME ClientAssumption ==
    /\ SetModes \subseteq 0 .. 2
    /\ FaultSets \subseteq SUBSET FaultKinds
    /\ Retries \in Nat /\ MaxReceivers \in Nat \ {0}
    /\ MaxCalls \in Nat /\ MaxNotify \in Nat

VARIABLES
    connectedsocket, connected, loop,    \* the globals of the file,
    currentcmd, retfromDaemon,
    mutex,          \* ret_mutex: "FREE", "HELD" or "DESTROYED",
    waiting,        \*   and the callers asleep on ret_found_cond
    pc, request,    \* a caller: where it is, what it asks,
    answer, calls,  \*   its last result, the calls made,
    alone,          \*   history: no other call has met its last one
    rpc, rfd, rbuf, \* a receive thread: where it is, the socket it reads,
    rret, tries,    \*   what it read, the value to store, retrycounts
                    \*   (each as at the start where it is not read again),
    svc,            \* the service thread inside reConnect()
    receivers,      \* the receive threads started
    link,           \* each socket: "NEW", "UP", "DOWN"
    toServer, toClient,
    mode, tail,     \* the daemon: its mode, the mode left in its send buffer
    notified,       \*   and the notifications it has sent
    faults,         \* what else has happened, of FaultKinds
    told            \* history: what it answered to each caller's last request

globals == <<connectedsocket, connected, loop>>
shared == <<currentcmd, retfromDaemon>>
sync == <<mutex, waiting>>
caller == <<pc, request, answer, calls, alone>>
receiver == <<rpc, rfd, rbuf, rret, tries>>
service == <<svc, receivers>>
wires == <<link, toServer, toClient>>
daemon == <<mode, tail, notified, faults, told>>
vars == <<globals, shared, sync, caller, receiver, service, wires, daemon>>

Threads == 1 .. MaxReceivers
NoSock == 0                 \* connectedsocket == -1, or not yet created
NoCmd == "NULL"
INITIAL_RET_VALUE == -99
Unknown == -98              \* told: no answer yet
Nothing == -97              \* rret: ProcessResponse stores nothing

Requests == [cmd: {"GET"}, mode: {0}] \cup [cmd: {"SET"}, mode: SetModes]
Command == [by: Callers, ask: Requests]
Message == [kind: {"SUCCESS", "NOTIFY"}, mode: 0 .. 2]
NoMessage == [kind |-> "SUCCESS", mode |-> 0]
Closing == {"shut", "unset", "clear", "destroy", "closed"}
Receiving == {"enter", "recv", "lock", "store", "err", "close"} \cup Closing

CallersOK ==
    /\ waiting \subseteq Callers
    /\ pc \in [Callers -> {"idle", "reset", "send", "wait", "return"}]
    /\ request \in [Callers -> Requests]
    /\ answer \in [Callers -> {INITIAL_RET_VALUE} \cup -1 .. 2]
    /\ calls \in 0 .. MaxCalls
    /\ alone \in [Callers -> BOOLEAN]

ReceiversOK ==
    /\ rpc \in [Threads -> {"off", "start", "connect", "mark", "loop", "done"} \cup Receiving]
    /\ rfd \in [Threads -> Threads \cup {NoSock}]
    /\ rbuf \in [Threads -> Message]
    /\ rret \in [Threads -> {Nothing} \cup -1 .. 2]
    /\ tries \in [Threads -> -1 .. Retries]

DaemonOK ==
    /\ link \in [Threads -> {"NEW", "UP", "DOWN"}]
    /\ toServer \in [Threads -> Seq(Command)]
    /\ toClient \in [Threads -> Seq(Message)]
    /\ mode \in 0 .. 2 /\ tail \in 0 .. 2 /\ notified \in 0 .. MaxNotify
    /\ faults \subseteq FaultKinds
    /\ told \in [Callers -> {Unknown} \cup 0 .. 2]

TypeOK ==
    /\ connectedsocket \in Threads \cup {NoSock}
    /\ connected \in {0, 1} /\ loop \in {0, 1}
    /\ currentcmd \in {NoCmd, "GET", "SET"}
    /\ retfromDaemon \in {INITIAL_RET_VALUE} \cup -1 .. 2
    /\ mutex \in {"FREE", "HELD", "DESTROYED"}
    /\ svc \in {"idle"} \cup Closing /\ receivers \in Threads
    /\ CallersOK /\ ReceiversOK /\ DaemonOK

\* JNI_OnLoad has called init_clientsocket.
Init ==
    /\ connectedsocket = NoSock /\ connected = 0 /\ loop = 1
    /\ currentcmd = NoCmd /\ retfromDaemon = INITIAL_RET_VALUE
    /\ mutex = "FREE" /\ waiting = {}
    /\ pc = [c \in Callers |-> "idle"]
    /\ request = [c \in Callers |-> [cmd |-> "GET", mode |-> 0]]
    /\ answer = [c \in Callers |-> -1]
    /\ calls = 0
    /\ alone = [c \in Callers |-> TRUE]
    /\ rpc = [r \in Threads |-> IF r = 1 THEN "start" ELSE "off"]
    /\ rfd = [r \in Threads |-> NoSock]
    /\ rbuf = [r \in Threads |-> NoMessage]
    /\ rret = [r \in Threads |-> Nothing]
    /\ tries = [r \in Threads |-> Retries]
    /\ svc = "idle" /\ receivers = 1
    /\ link = [r \in Threads |-> "NEW"]
    /\ toServer = [r \in Threads |-> <<>>]
    /\ toClient = [r \in Threads |-> <<>>]
    /\ mode = 1 /\ tail = 0 /\ notified = 0 /\ faults = {}
    /\ told = [c \in Callers |-> Unknown]

-----------------------------------------------------------------------------
Up(fd) == fd # NoSock /\ link[fd] = "UP"

\* pthread_cond_signal wakes one sleeper, if there is one.
Signal == IF waiting = {} THEN UNCHANGED waiting
          ELSE \E c \in waiting : waiting' = waiting \ {c}

\* The kinds that have happened stay within one of FaultSets.
Fault(kind) == faults' = faults \cup {kind} /\ faults' \in FaultSets

Goto(r, label) == rpc' = [rpc EXCEPT ![r] = label]

\* The steps of close_clientsocket, from one label to the next.  It tests
\* connectedsocket and then uses what it is by then; after shutdown() both
\* ends of the connection see its end.
close_clientsocket(from, to) ==
    \/ /\ from = "close" /\ loop' = 0
       /\ to = IF connectedsocket # NoSock THEN "shut" ELSE "clear"
       /\ UNCHANGED <<connectedsocket, connected, mutex, link, toServer>>
    \/ /\ from = "shut" /\ to = "unset"
       /\ IF Up(connectedsocket)
          THEN /\ link' = [link EXCEPT ![connectedsocket] = "DOWN"]
               /\ toServer' = [toServer EXCEPT ![connectedsocket] = <<>>]
          ELSE UNCHANGED <<link, toServer>>
       /\ UNCHANGED <<globals, mutex>>
    \/ /\ from = "unset" /\ to = "clear" /\ connectedsocket' = NoSock
       /\ UNCHANGED <<connected, loop, mutex, link, toServer>>
    \/ /\ from = "clear" /\ to = "destroy" /\ connected' = 0
       /\ UNCHANGED <<connectedsocket, loop, mutex, link, toServer>>
    \/ /\ from = "destroy" /\ to = "closed"
       /\ mutex' = IF mutex = "FREE" THEN "DESTROYED" ELSE mutex
       /\ UNCHANGED <<globals, link, toServer>>

-----------------------------------------------------------------------------
(***************************************************************************)
(* The caller: getcurrentmode and setmode, then SendCommandAndReceive.     *)
(***************************************************************************)
CRefused(c) ==
    /\ pc[c] = "idle" /\ calls < MaxCalls
    /\ connected = 0 \/ connectedsocket = NoSock
    /\ calls' = calls + 1
    /\ answer' = [answer EXCEPT ![c] = -1]
    /\ UNCHANGED <<globals, shared, sync, pc, request, alone, receiver, service, wires,
                   daemon>>

\* No other call is under way, and nothing of an earlier one is.
Quiet(c) ==
    /\ \A d \in Callers \ {c} : pc[d] = "idle"
    /\ \A k \in Threads : /\ toServer[k] = <<>>
                          /\ \A i \in DOMAIN toClient[k] : toClient[k][i].kind = "NOTIFY"
                          /\ rpc[k] \notin {"lock", "store"}

CEnter(c) ==
    /\ pc[c] = "idle" /\ calls < MaxCalls
    /\ connected = 1 /\ connectedsocket # NoSock
    /\ \E q \in Requests :
          request' = [request EXCEPT ![c] = q] /\ currentcmd' = q.cmd
    /\ pc' = [pc EXCEPT ![c] = "reset"]
    /\ calls' = calls + 1
    /\ told' = [told EXCEPT ![c] = Unknown]
    /\ alone' = [d \in Callers |-> IF d = c THEN Quiet(c)
                                  ELSE alone[d] /\ pc[d] = "idle"]
    /\ UNCHANGED <<globals, retfromDaemon, sync, answer, receiver, service, wires,
                   mode, tail, notified, faults>>

\* Mutant: the result of the last call is left in place.
CResetSkipped(c) ==
    /\ pc[c] = "reset"
    /\ pc' = [pc EXCEPT ![c] = "send"]
    /\ UNCHANGED <<globals, shared, sync, request, answer, calls, alone, receiver, service,
                   wires, daemon>>

CReset(c) ==
    /\ pc[c] = "reset"
    /\ retfromDaemon' = INITIAL_RET_VALUE
    /\ pc' = [pc EXCEPT ![c] = "send"]
    /\ UNCHANGED <<globals, currentcmd, sync, request, answer, calls, alone, receiver,
                   service, wires, daemon>>

\* A failed send returns with the mutex held.
CSendFails(c) ==
    /\ pc[c] = "send" /\ mutex = "FREE"
    /\ ~Up(connectedsocket)
    /\ mutex' = "HELD"
    /\ answer' = [answer EXCEPT ![c] = -1]
    /\ pc' = [pc EXCEPT ![c] = "idle"]
    /\ UNCHANGED <<globals, shared, waiting, request, calls, alone, receiver, service, wires,
                   daemon>>

\* The mutex is taken, the command sent, and the wait gives the mutex back
\* (or, when there already is a result, the unlock does).
CSend(c) ==
    /\ pc[c] = "send" /\ mutex = "FREE"
    /\ Up(connectedsocket)
    /\ toServer' = [toServer EXCEPT ![connectedsocket] =
                       Append(@, [by |-> c, ask |-> request[c]])]
    /\ IF retfromDaemon = INITIAL_RET_VALUE
       THEN pc' = [pc EXCEPT ![c] = "wait"] /\ waiting' = waiting \cup {c}
       ELSE pc' = [pc EXCEPT ![c] = "return"] /\ UNCHANGED waiting
    /\ UNCHANGED <<globals, shared, mutex, request, answer, calls, alone, receiver, service,
                   link, toClient, daemon>>

\* pthread_cond_wait may return without a signal.
CSpurious(c) ==
    /\ c \in waiting /\ Fault("SPURIOUS")
    /\ waiting' = waiting \ {c}
    /\ alone' = [alone EXCEPT ![c] = FALSE]
    /\ UNCHANGED <<globals, shared, mutex, pc, request, answer, calls, receiver, service,
                   wires, mode, tail, notified, told>>

\* Awake, it takes the mutex and gives it back.
CWake(c) ==
    /\ pc[c] = "wait" /\ c \notin waiting
    /\ mutex = "FREE"
    /\ pc' = [pc EXCEPT ![c] = "return"]
    /\ UNCHANGED <<globals, shared, sync, request, answer, calls, alone, receiver, service,
                   wires, daemon>>

\* The result is read after the unlock.
CReturn(c) ==
    /\ pc[c] = "return"
    /\ answer' = [answer EXCEPT ![c] = retfromDaemon]
    /\ pc' = [pc EXCEPT ![c] = "idle"]
    /\ UNCHANGED <<globals, shared, sync, request, calls, alone, receiver, service, wires,
                   daemon>>

-----------------------------------------------------------------------------
(***************************************************************************)
(* The receive thread, socketReceivethread.                                *)
(***************************************************************************)
RSocket(r) ==
    /\ rpc[r] = "start"
    /\ connectedsocket' = r
    /\ Goto(r, "connect")
    /\ UNCHANGED <<connected, loop, shared, sync, caller, rfd, rbuf, rret, tries, service,
                   wires, daemon>>

\* connect() on whatever connectedsocket is by now, ...
RConnect(r) ==
    /\ rpc[r] = "connect"
    /\ connected = 0 /\ tries[r] >= 0
    /\ connectedsocket # NoSock /\ link[connectedsocket] = "NEW"
    /\ link' = [link EXCEPT ![connectedsocket] = "UP"]
    /\ Goto(r, "mark")
    /\ UNCHANGED <<globals, shared, sync, caller, rfd, rbuf, rret, tries, service,
                   toServer, toClient, daemon>>

\* ... then the flag.
RConnected(r) ==
    /\ rpc[r] = "mark"
    /\ connected' = 1
    /\ Goto(r, "connect")
    /\ UNCHANGED <<connectedsocket, loop, shared, sync, caller, rfd, rbuf, rret, tries,
                   service, wires, daemon>>

\* Mutant: one retry too many.
RRetryPastEnd(r) ==
    /\ rpc[r] = "connect"
    /\ connected = 0 /\ tries[r] >= -1
    /\ tries' = [tries EXCEPT ![r] = @ - 1]
    /\ UNCHANGED <<globals, shared, sync, caller, rpc, rfd, rbuf, rret, service, wires,
                   daemon>>

\* The daemon is not there yet, or the socket is not one to connect.
RRetry(r) ==
    /\ rpc[r] = "connect"
    /\ connected = 0 /\ tries[r] >= 0
    /\ tries' = [tries EXCEPT ![r] = @ - 1]
    /\ UNCHANGED <<globals, shared, sync, caller, rpc, rfd, rbuf, rret, service, wires,
                   daemon>>

\* It, or another thread, has connected, or the retries are spent.
RLeaveConnect(r) ==
    /\ rpc[r] = "connect"
    /\ connected = 1 \/ tries[r] < 0
    /\ Goto(r, IF connected = 1 THEN "loop" ELSE "done")
    /\ tries' = [tries EXCEPT ![r] = Retries]
    /\ UNCHANGED <<globals, shared, sync, caller, rfd, rbuf, rret, service, wires, daemon>>

RLoop(r) ==
    /\ rpc[r] = "loop"
    /\ Goto(r, IF loop = 1 THEN "enter" ELSE "done")
    /\ UNCHANGED <<globals, shared, sync, caller, rfd, rbuf, rret, tries, service, wires,
                   daemon>>

\* recv() is called on what connectedsocket is after the test of loop.
REnter(r) ==
    /\ rpc[r] = "enter"
    /\ rfd' = [rfd EXCEPT ![r] = connectedsocket]
    /\ Goto(r, "recv")
    /\ UNCHANGED <<globals, shared, sync, caller, rbuf, rret, tries, service, wires,
                   daemon>>

\* recv() returns all that has arrived and the thread looks at what it begins
\* with.  A notification goes up to the service, which takes no lock.
RRecv(r) ==
    /\ rpc[r] = "recv" /\ rfd[r] # NoSock
    /\ toClient[rfd[r]] # <<>>
    /\ rbuf' = [rbuf EXCEPT ![r] = Head(toClient[rfd[r]])]
    /\ toClient' = [toClient EXCEPT ![rfd[r]] = <<>>]
    /\ rfd' = [rfd EXCEPT ![r] = NoSock]
    /\ Goto(r, IF rbuf'[r].kind = "NOTIFY" THEN "loop" ELSE "lock")
    /\ UNCHANGED <<globals, shared, sync, caller, rret, tries, service, link,
                   toServer, daemon>>

\* recv() returns 0
RRecvEnd(r) ==
    /\ rpc[r] = "recv" /\ rfd[r] # NoSock
    /\ toClient[rfd[r]] = <<>> /\ link[rfd[r]] = "DOWN"
    /\ rfd' = [rfd EXCEPT ![r] = NoSock]
    /\ Goto(r, "close")
    /\ UNCHANGED <<globals, shared, sync, caller, rbuf, rret, tries, service, wires,
                   daemon>>

\* recv() fails: no socket, or one that is not connected
RRecvFails(r) ==
    /\ rpc[r] = "recv"
    /\ IF rfd[r] = NoSock THEN TRUE ELSE link[rfd[r]] = "NEW"
    /\ rfd' = [rfd EXCEPT ![r] = NoSock]
    /\ Goto(r, "err")
    /\ UNCHANGED <<globals, shared, sync, caller, rbuf, rret, tries, service, wires,
                   daemon>>

\* What ProcessResponse makes of a message the daemon sent for a command.
ProcessResponse(cmd, m) ==
    IF cmd = NoCmd THEN Nothing
    ELSE IF m.kind # "SUCCESS" THEN -1
    ELSE IF cmd = "GET" THEN m.mode ELSE 0

\* The thread takes the mutex and reads currentcmd, ...
RProcess(r) ==
    /\ rpc[r] = "lock" /\ mutex = "FREE"
    /\ mutex' = "HELD"
    /\ rret' = [rret EXCEPT ![r] = ProcessResponse(currentcmd, rbuf[r])]
    /\ rbuf' = [rbuf EXCEPT ![r] = NoMessage]
    /\ Goto(r, "store")
    /\ UNCHANGED <<globals, shared, waiting, caller, rfd, tries, service, wires,
                   daemon>>

\* Mutant: the thread signals and does not give the mutex back.
RStoreKeepsLock(r) ==
    /\ rpc[r] = "store"
    /\ IF rret[r] = Nothing THEN UNCHANGED shared
       ELSE currentcmd' = NoCmd /\ retfromDaemon' = rret[r]
    /\ Signal
    /\ rret' = [rret EXCEPT ![r] = Nothing]
    /\ Goto(r, "loop")
    /\ UNCHANGED <<globals, mutex, caller, rfd, rbuf, tries, service, wires, daemon>>

\* ... then stores the result, signals and unlocks.
RStore(r) ==
    /\ rpc[r] = "store"
    /\ IF rret[r] = Nothing THEN UNCHANGED shared
       ELSE currentcmd' = NoCmd /\ retfromDaemon' = rret[r]
    /\ Signal
    /\ mutex' = "FREE"
    /\ rret' = [rret EXCEPT ![r] = Nothing]
    /\ Goto(r, "loop")
    /\ UNCHANGED <<globals, caller, rfd, rbuf, tries, service, wires, daemon>>

\* After a failed recv() it signals without a result.
RError(r) ==
    /\ rpc[r] = "err" /\ mutex = "FREE"
    /\ Signal
    /\ Goto(r, "loop")
    /\ UNCHANGED <<globals, shared, mutex, caller, rfd, rbuf, rret, tries, service, wires,
                   daemon>>

\* Mutant: the closed connection still counts as connected.
RCloseStaysConnected(r) ==
    /\ rpc[r] = "close"
    /\ loop' = 0 /\ connectedsocket' = NoSock
    /\ Goto(r, "done")
    /\ UNCHANGED <<connected, shared, sync, caller, rfd, rbuf, rret, tries, service,
                   wires, daemon>>

\* The daemon closed the connection, or close_clientsocket did: the thread
\* closes whatever is connected now, signals nobody, ...
RClose(r) ==
    /\ \E to \in Closing : close_clientsocket(rpc[r], to) /\ Goto(r, to)
    /\ UNCHANGED <<shared, waiting, caller, rfd, rbuf, rret, tries, service, toClient,
                   daemon>>

\* ... writes connected once more and ends.
RClosed(r) ==
    /\ rpc[r] = "closed"
    /\ connected' = 0
    /\ Goto(r, "done")
    /\ UNCHANGED <<connectedsocket, loop, shared, sync, caller, rfd, rbuf, rret, tries,
                   service, wires, daemon>>

-----------------------------------------------------------------------------
(***************************************************************************)
(* The service: reConnect, which is close_clientsocket and                 *)
(* init_clientsocket.                                                      *)
(***************************************************************************)
ReconnectClose ==
    /\ \/ /\ svc = "idle" /\ receivers < MaxReceivers /\ Fault("RECONNECT")
          /\ close_clientsocket("close", svc')
       \/ close_clientsocket(svc, svc') /\ UNCHANGED faults
    /\ UNCHANGED <<shared, waiting, caller, receiver, receivers, toClient, mode, tail,
                   notified, told>>

\* Mutant: the new thread is told to loop.
ReconnectInitLoops ==
    /\ svc = "closed"
    /\ svc' = "idle"
    /\ loop' = 1 /\ mutex' = "FREE"
    /\ receivers' = receivers + 1
    /\ Goto(receivers', "start")
    /\ UNCHANGED <<connectedsocket, connected, shared, waiting, caller, rfd, rbuf, rret,
                   tries, wires, daemon>>

ReconnectInit ==
    /\ svc = "closed"
    /\ svc' = "idle"
    /\ IF connected = 0
       THEN /\ mutex' = "FREE"
            /\ receivers' = receivers + 1
            /\ Goto(receivers', "start")
       ELSE UNCHANGED <<mutex, receivers, rpc>>
    /\ UNCHANGED <<globals, shared, waiting, caller, rfd, rbuf, rret, tries, wires,
                   daemon>>

-----------------------------------------------------------------------------
(***************************************************************************)
(* The daemon (external).  It serves a connection once those before it are *)
(* over, and leaves the mode of an earlier GETMODE behind the answer to a  *)
(* SETMODE.                                                                *)
(***************************************************************************)
Serves(k) == link[k] = "UP" /\ \A j \in 1 .. k - 1 : link[j] # "UP"

Put(k, m) == toClient' = [toClient EXCEPT ![k] = Append(@, m)]

DAnswer(k) ==
    /\ Serves(k) /\ toServer[k] # <<>>
    /\ LET q == Head(toServer[k]) IN
          IF q.ask.cmd = "GET"
          THEN /\ tail' = mode
               /\ UNCHANGED mode
               /\ told' = [told EXCEPT ![q.by] = mode]
          ELSE /\ mode' = q.ask.mode
               /\ UNCHANGED tail
               /\ told' = [told EXCEPT ![q.by] = 0]
    /\ Put(k, [kind |-> "SUCCESS", mode |-> tail'])
    /\ toServer' = [toServer EXCEPT ![k] = <<>>]
    /\ UNCHANGED <<globals, shared, sync, caller, receiver, service, link,
                   notified, faults>>

DNotify(k) ==
    /\ Serves(k) /\ mode # 0 /\ notified < MaxNotify /\ Fault("NOTIFY")
    /\ mode' = 3 - mode
    /\ notified' = notified + 1
    /\ Put(k, [kind |-> "NOTIFY", mode |-> mode'])
    /\ UNCHANGED <<globals, shared, sync, caller, receiver, service, link, toServer,
                   tail, told>>

DClose(k) ==
    /\ link[k] = "UP" /\ Fault("CLOSE")
    /\ link' = [link EXCEPT ![k] = "DOWN"]
    /\ toServer' = [toServer EXCEPT ![k] = <<>>]
    /\ UNCHANGED <<globals, shared, sync, caller, receiver, service, toClient,
                   mode, tail, notified, told>>

-----------------------------------------------------------------------------
InCall(c) == CReset(c) \/ CSend(c) \/ CSendFails(c) \/ CWake(c) \/ CReturn(c)
Receive(r) == RSocket(r) \/ RConnect(r) \/ RConnected(r) \/ RRetry(r) \/ RLeaveConnect(r)
              \/ RLoop(r) \/ REnter(r) \/ RRecv(r) \/ RRecvEnd(r) \/ RRecvFails(r)
              \/ RProcess(r) \/ RStore(r) \/ RError(r) \/ RClose(r) \/ RClosed(r)
Reconnect == ReconnectClose \/ ReconnectInit

Next ==
    \/ \E c \in Callers : CRefused(c) \/ CEnter(c) \/ CSpurious(c) \/ InCall(c)
    \/ \E r \in Threads : Receive(r)
    \/ Reconnect
    \/ \E k \in Threads : DAnswer(k) \/ DNotify(k) \/ DClose(k)

\* The scheduler runs every thread, the service's once it is inside
\* reConnect(), and the daemon answers; nobody has to call, and the daemon
\* need neither notify nor close.
Fairness ==
    /\ \A c \in Callers : WF_vars(InCall(c))
    /\ \A r \in Threads : WF_vars(Receive(r))
    /\ WF_vars(svc # "idle" /\ Reconnect)
    /\ \A k \in Threads : WF_vars(DAnswer(k))

Spec == Init /\ [][Next]_vars /\ Fairness

-----------------------------------------------------------------------------
\* Properties.

\* A call that no other call meets (neither at work nor with a command, an
\* answer or a signal of its own still on its way) and that is not woken
\* without a signal returns no other result than what the daemon answered to
\* this very call: the mode to GETMODE, 0 to SETMODE.  Notifications, the end
\* of the connection and a reconnection in the middle of the call may leave it
\* without a result (-1, or -99 when recv() fails) but give it no other
\* (socketclient_interface.c:336-398).
AnswerWhenAlone ==
    \A c \in Callers :
       alone[c] /\ pc[c] = "idle" /\ answer[c] \notin {-1, INITIAL_RET_VALUE}
          => answer[c] = told[c]

\* Two receive threads are never inside the receive loop together, however
\* often the service reconnects and whoever closes at the same time, so that
\* no answer is taken by a thread that is being replaced
\* (socketclient_interface.c:196-264, :274).
OneReceiver ==
    \A r, s \in Threads : rpc[r] \in Receiving /\ rpc[s] \in Receiving => r = s

\* ret_mutex is left locked: a send has failed and returned with it.
Leaked == mutex = "HELD" /\ \A r \in Threads : rpc[r] # "store"

\* As long as reConnect() has not cleared loop, the end of the connection is
\* noticed: IsClientConnected() becomes 0 and the next call is refused instead
\* of waiting, whatever else arrives and however many calls are under way,
\* unless one of them finds the end first: its failed send keeps ret_mutex, and
\* the receive thread may wait for that (socketclient_interface.c:229-241, :357).
CloseIsNoticed ==
    \A k \in Threads :
       loop = 1 /\ link[k] = "DOWN" /\ connectedsocket = k ~> connected = 0 \/ Leaked

Disturbed == faults \ {"SPURIOUS"} # {}

\* While the daemon only answers, a call that no other call meets returns: its
\* wait does not miss the signal, whatever calls came before it
\* (socketclient_interface.c:348-387).
AloneCallReturns ==
    \A c \in Callers :
       pc[c] # "idle" /\ alone[c] ~> pc[c] = "idle" \/ ~alone[c] \/ Disturbed

-----------------------------------------------------------------------------
\* A property that two callers and an obliging daemon refute

\* A call returns a result of its own or -1
\* (socketclient_interface.c:398, "if in GETMODE command, return -1 for failure,
\* return mode when success").
AnswerIsMine ==
    \A c \in Callers :
       pc[c] = "idle" /\ answer[c] \notin {-1, INITIAL_RET_VALUE} => answer[c] = told[c]
=============================================================================
