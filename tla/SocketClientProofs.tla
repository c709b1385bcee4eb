-------------------------- MODULE SocketClientProofs ------------------------
(***************************************************************************)
(* For any set of callers and any number of calls, reconnections and       *)
(* notifications: the types are kept, there is one receiver, and a call    *)
(* that meets no other gets no other answer than its own.                  *)
(***************************************************************************)
EXTENDS SocketClient, SequenceTheorems, TLAPS

\* Only the first receive thread finds loop set; the others find that the
\* service has cleared it.
Threading ==
    /\ receivers > 1 \/ svc # "idle" => loop = 0
    /\ svc # "idle" => receivers < MaxReceivers
    /\ \A r \in Threads : r > receivers => rpc[r] = "off"
    /\ \A r \in Threads : rpc[r] \in Receiving => r = 1
    /\ \A r \in Threads : rpc[r] \in Closing => loop = 0

\* As long as loop is set the first thread has the socket it has created, and
\* its recv() does not fail.
Looping ==
    /\ loop = 1 /\ rpc[1] # "start" => connectedsocket = 1
    /\ loop = 1 /\ (connected = 1 \/ rpc[1] \in Receiving \cup {"mark", "loop"})
          => link[1] # "NEW"
    /\ loop = 1 /\ rpc[1] = "recv" => rfd[1] = 1
    /\ rpc[1] = "err" => loop = 0

\* Nobody will ever store a result again.
Over == loop = 0 /\ rpc[1] \notin {"enter", "recv", "lock", "store"}

\* The stages of an answer: asked for, on its way back, at the receive thread
Asked(k) == toServer[k] # <<>>
IsAnswer(k, i) == i \in DOMAIN toClient[k] /\ toClient[k][i].kind = "SUCCESS"
AtHand == rpc[1] \in {"lock", "store"}

\* A message is what the daemon said to the request of the caller.
Answers(m, c) == /\ m.kind = "SUCCESS" /\ told[c] \in 0 .. 2
                 /\ told[c] = IF request[c].cmd = "GET" THEN m.mode ELSE 0

\* There is one request, or one answer to it, for a caller that sleeps.
OneAnswer(c) ==
    /\ \A k \in Threads : Asked(k) =>
          /\ toServer[k] = <<[by |-> c, ask |-> request[c]]>>
          /\ \A j \in Threads : Asked(j) => j = k
          /\ \A j \in Threads, i \in Nat : ~IsAnswer(j, i)
          /\ ~AtHand /\ c \in waiting
    /\ \A k \in Threads, i \in Nat : IsAnswer(k, i) =>
          /\ Answers(toClient[k][i], c)
          /\ \A j \in Threads, l \in Nat : IsAnswer(j, l) => j = k /\ l = i
          /\ ~AtHand /\ c \in waiting
    /\ rpc[1] = "lock" => Answers(rbuf[1], c) /\ c \in waiting
    /\ rpc[1] = "store" => rret[1] = told[c] /\ told[c] \in 0 .. 2 /\ c \in waiting

\* What a caller has in its hands during a call that meets no other
Answering(c) ==
    /\ Over \/ OneAnswer(c)
    /\ c \in waiting => pc[c] = "wait" /\ retfromDaemon = INITIAL_RET_VALUE
                        /\ (Over \/ currentcmd = request[c].cmd)
    /\ pc[c] = "send" => retfromDaemon = INITIAL_RET_VALUE
    /\ pc[c] \in {"reset", "send"} => Over \/ currentcmd = request[c].cmd
    /\ pc[c] \in {"wait", "return"} /\ retfromDaemon # INITIAL_RET_VALUE =>
          retfromDaemon = told[c] /\ \A k \in Threads : ~Asked(k)

Lone(c) == alone[c] /\ pc[c] # "idle"

\* While a lone call is under way the others are idle.
Apart ==
    /\ \A c \in waiting : pc[c] = "wait"
    /\ \A c, d \in Callers : Lone(c) /\ c # d => pc[d] = "idle"

\* After it no command of the caller is left that the daemon could still answer.
NoneOf(c) == \A k \in Threads : \A i \in DOMAIN toServer[k] : toServer[k][i].by # c
Answered(c) ==
    alone[c] /\ pc[c] = "idle" /\ answer[c] \notin {-1, INITIAL_RET_VALUE} =>
       answer[c] = told[c] /\ NoneOf(c)

\* The inductive invariant
IInv == /\ TypeOK /\ Threading /\ Looping /\ Apart
        /\ \A c \in Callers : (Lone(c) => Answering(c)) /\ Answered(c)

-----------------------------------------------------------------------------
\* Constants
LEMMA Numbers ==
    /\ MaxReceivers \in Nat /\ MaxReceivers >= 1 /\ 1 \in Threads /\ 0 \notin Threads
    /\ \A r \in Threads : r \in Nat /\ r >= 1 /\ r <= MaxReceivers
    /\ Retries \in Nat /\ MaxCalls \in Nat /\ MaxNotify \in Nat
    /\ \A q \in Requests : q.cmd \in {"GET", "SET"} /\ q.mode \in 0 .. 2
    /\ <<>> \in Seq(Command) /\ <<>> \in Seq(Message)
<1>1. /\ MaxReceivers \in Nat /\ MaxReceivers >= 1 /\ 1 \in Threads /\ 0 \notin Threads
      /\ \A r \in Threads : r \in Nat /\ r >= 1 /\ r <= MaxReceivers
    BY ClientAssumption DEF Threads
<1>2. Retries \in Nat /\ MaxCalls \in Nat /\ MaxNotify \in Nat
    BY ClientAssumption
<1>3. ASSUME NEW q \in Requests PROVE q.cmd \in {"GET", "SET"} /\ q.mode \in 0 .. 2
    <2>1. CASE q \in [cmd: {"GET"}, mode: {0}]
        BY <2>1
    <2>2. CASE q \in [cmd: {"SET"}, mode: SetModes]
        <3>1. q.mode \in SetModes /\ q.cmd = "SET"
            BY <2>2
        <3> QED
            BY <3>1, ClientAssumption
    <2> QED
        BY <2>1, <2>2 DEF Requests
<1> QED
    BY <1>1, <1>2, <1>3

\* Where the caller's side, the receivers' side or the daemon's side is left
\* alone its types are kept.
LEMMA SameTypes ==
    /\ CallersOK /\ UNCHANGED <<waiting, caller>> => CallersOK'
    /\ ReceiversOK /\ UNCHANGED receiver => ReceiversOK'
    /\ DaemonOK /\ UNCHANGED <<wires, daemon>> => DaemonOK'
    /\ DaemonOK /\ UNCHANGED <<wires, mode, tail, notified, told>> /\ faults' \subseteq FaultKinds
          => DaemonOK'
BY DEF CallersOK, ReceiversOK, DaemonOK, caller, receiver, wires, daemon

\* No other kinds of fault are met than those of FaultKinds.
LEMMA FaultTypes ==
    ASSUME NEW kind, Fault(kind)
    PROVE  faults' \subseteq FaultKinds
<1>1. faults' \in FaultSets /\ FaultSets \subseteq SUBSET FaultKinds
    BY ClientAssumption DEF Fault
<1> QED
    BY <1>1

\* The types under the steps of a caller
LEMMA CallerTypes ==
    ASSUME TypeOK, NEW c \in Callers, CRefused(c) \/ CEnter(c) \/ CSpurious(c) \/ InCall(c)
    PROVE  TypeOK'
<1> USE DEF TypeOK
<1>1. CASE CRefused(c)
    <2>1. /\ UNCHANGED <<globals, shared, sync, pc, request, alone, receiver, service, wires,
                         daemon>>
          /\ answer' = [answer EXCEPT ![c] = -1]
          /\ calls' = calls + 1 /\ calls < MaxCalls
        BY <1>1 DEF CRefused
    <2>2. CallersOK'
        BY <2>1, Numbers DEF CallersOK, sync
    <2> QED
        BY <2>1, <2>2, SameTypes DEF globals, shared, sync, service
<1>2. CASE CEnter(c)
    <2>1. PICK q \in Requests :
            /\ request' = [request EXCEPT ![c] = q] /\ currentcmd' = q.cmd
            /\ pc' = [pc EXCEPT ![c] = "reset"]
            /\ calls' = calls + 1 /\ calls < MaxCalls
            /\ alone' = [d \in Callers |-> IF d = c THEN Quiet(c)
                                          ELSE alone[d] /\ pc[d] = "idle"]
            /\ told' = [told EXCEPT ![c] = Unknown]
            /\ UNCHANGED <<globals, retfromDaemon, sync, answer, receiver, service, wires,
                           mode, tail, notified, faults>>
        BY <1>2 DEF CEnter
    <2>2. CallersOK'
        <3>1. alone' \in [Callers -> BOOLEAN]
            BY <2>1 DEF CallersOK, Quiet
        <3> QED
            BY <2>1, <3>1, Numbers DEF CallersOK, sync
    <2>3. DaemonOK'
        BY <2>1 DEF DaemonOK, wires
    <2> QED
        BY <2>1, <2>2, <2>3, SameTypes, Numbers DEF globals, sync, service
<1>3. CASE CReset(c)
    <2>1. CallersOK'
        BY <1>3 DEF CReset, CallersOK, sync
    <2> QED
        BY <1>3, <2>1, SameTypes DEF CReset, globals, sync, service
<1>4. CASE CSendFails(c)
    <2>1. CallersOK'
        BY <1>4 DEF CSendFails, CallersOK
    <2> QED
        BY <1>4, <2>1, SameTypes DEF CSendFails, globals, shared, service
<1>5. CASE CSend(c)
    <2>1. CallersOK'
        BY <1>5 DEF CSend, CallersOK
    <2>2. DaemonOK'
        <3> DEFINE m == [by |-> c, ask |-> request[c]]
        <3>1. m \in Command
            BY DEF CallersOK, Command
        <3> HIDE DEF m
        <3>2. toServer' = [toServer EXCEPT ![connectedsocket] = Append(@, m)]
              /\ UNCHANGED <<link, toClient, daemon>>
            BY <1>5 DEF CSend, m
        <3>3. \A k \in Threads : Append(toServer[k], m) \in Seq(Command)
            BY <3>1 DEF DaemonOK
        <3> QED
            BY <3>2, <3>3 DEF DaemonOK, daemon
    <2> QED
        BY <1>5, <2>1, <2>2, SameTypes DEF CSend, globals, shared, service
<1>6. CASE CWake(c)
    <2>1. CallersOK'
        BY <1>6 DEF CWake, CallersOK, sync
    <2> QED
        BY <1>6, <2>1, SameTypes DEF CWake, globals, shared, sync, service
<1>7. CASE CReturn(c)
    <2>1. CallersOK'
        BY <1>7 DEF CReturn, CallersOK, sync
    <2> QED
        BY <1>7, <2>1, SameTypes DEF CReturn, globals, shared, sync, service
<1>8. CASE CSpurious(c)
    <2>1. CallersOK'
        BY <1>8 DEF CSpurious, CallersOK
    <2>2. faults' \subseteq FaultKinds
        BY <1>8, FaultTypes DEF CSpurious
    <2> QED
        BY <1>8, <2>1, <2>2, SameTypes DEF CSpurious, globals, shared, service
<1> QED
    BY <1>1, <1>2, <1>3, <1>4, <1>5, <1>6, <1>7, <1>8 DEF InCall

\* The types under close_clientsocket()
LEMMA CloseTypes ==
    ASSUME TypeOK, NEW from, NEW to, close_clientsocket(from, to),
           UNCHANGED <<shared, waiting, caller, toClient, mode, tail, notified, told>>,
           faults' \subseteq FaultKinds,
           ReceiversOK', svc' \in {"idle"} \cup Closing, UNCHANGED receivers
    PROVE  TypeOK' /\ to \in Closing
<1>1. DaemonOK'
    <2>1. /\ link' \in [Threads -> {"NEW", "UP", "DOWN"}]
          /\ toServer' \in [Threads -> Seq(Command)]
        BY Numbers DEF close_clientsocket, TypeOK, DaemonOK, Up
    <2> QED
        BY <2>1 DEF TypeOK, DaemonOK
<1>2. CallersOK'
    BY SameTypes DEF TypeOK
<1>3. /\ connectedsocket' \in Threads \cup {NoSock}
      /\ connected' \in {0, 1} /\ loop' \in {0, 1}
      /\ mutex' \in {"FREE", "HELD", "DESTROYED"} /\ to \in Closing
    BY DEF close_clientsocket, TypeOK, globals, Closing
<1> QED
    BY <1>1, <1>2, <1>3 DEF TypeOK, shared

\* The types under the steps of a receive thread
LEMMA ReceiveTypes ==
    ASSUME TypeOK, NEW r \in Threads, Receive(r)
    PROVE  TypeOK'
<1> USE DEF TypeOK, Goto
<1>1. CASE RSocket(r) \/ RConnected(r) \/ RLeaveConnect(r) \/ RLoop(r) \/ RRecvEnd(r)
           \/ RRecvFails(r) \/ RClosed(r)
    <2>1. ReceiversOK'
        <3>1. CASE RSocket(r) \/ RConnected(r) \/ RLoop(r) \/ RClosed(r)
            BY <3>1 DEF RSocket, RConnected, RLoop, RClosed, ReceiversOK, Receiving
        <3>2. CASE RLeaveConnect(r)
            <4>1. Retries \in -1 .. Retries
                BY Numbers
            <4> QED
                BY <3>2, <4>1 DEF RLeaveConnect, ReceiversOK
        <3>3. CASE RRecvEnd(r) \/ RRecvFails(r)
            BY <3>3 DEF RRecvEnd, RRecvFails, ReceiversOK, Receiving
        <3> QED
            BY <1>1, <3>1, <3>2, <3>3
    <2>3. connectedsocket' \in {connectedsocket, r} /\ connected' \in {connected, 0, 1}
        BY <1>1 DEF RSocket, RConnected, RLeaveConnect, RLoop, RRecvEnd, RRecvFails, RClosed,
                    globals
    <2>2. UNCHANGED <<loop, shared, sync, caller, service, wires, daemon>>
        BY <1>1 DEF RSocket, RConnected, RLeaveConnect, RLoop, RRecvEnd, RRecvFails, RClosed,
                    globals
    <2> QED
        BY <2>1, <2>2, <2>3, SameTypes DEF shared, sync, service
<1>2. CASE RConnect(r)
    <2>1. ReceiversOK'
        BY <1>2 DEF RConnect, ReceiversOK
    <2>2. DaemonOK'
        BY <1>2 DEF RConnect, DaemonOK, daemon
    <2> QED
        BY <1>2, <2>1, <2>2, SameTypes DEF RConnect, globals, shared, sync, service
<1>3. CASE RRetry(r)
    <2>1. ReceiversOK'
        BY <1>3, Numbers DEF RRetry, ReceiversOK
    <2> QED
        BY <1>3, <2>1, SameTypes DEF RRetry, globals, shared, sync, service
<1>4. CASE REnter(r)
    <2>1. ReceiversOK'
        BY <1>4 DEF REnter, ReceiversOK, Receiving
    <2> QED
        BY <1>4, <2>1, SameTypes DEF REnter, globals, shared, sync, service
<1>5. CASE RRecv(r)
    <2>1. Head(toClient[rfd[r]]) \in Message /\ rfd[r] \in Threads
        BY <1>5 DEF RRecv, DaemonOK, ReceiversOK
    <2>2. ReceiversOK'
        BY <1>5, <2>1 DEF RRecv, ReceiversOK, Receiving
    <2>3. DaemonOK'
        BY <1>5, <2>1, Numbers DEF RRecv, DaemonOK, daemon
    <2> QED
        BY <1>5, <2>2, <2>3, SameTypes DEF RRecv, globals, shared, sync, service
<1>6. CASE RProcess(r)
    <2>1. ProcessResponse(currentcmd, rbuf[r]) \in {Nothing} \cup -1 .. 2
        BY DEF ProcessResponse, ReceiversOK, Message
    <2>2. ReceiversOK'
        BY <1>6, <2>1 DEF RProcess, ReceiversOK, Receiving, NoMessage, Message
    <2> QED
        BY <1>6, <2>2, SameTypes DEF RProcess, globals, shared, service
<1>7. CASE RStore(r) \/ RError(r)
    <2>1. ReceiversOK'
        BY <1>7 DEF RStore, RError, ReceiversOK
    <2>2. CallersOK'
        BY <1>7 DEF RStore, RError, Signal, CallersOK, caller
    <2>3. /\ currentcmd' \in {NoCmd, "GET", "SET"}
          /\ retfromDaemon' \in {INITIAL_RET_VALUE} \cup -1 .. 2
        BY <1>7 DEF RStore, RError, shared, ReceiversOK
    <2>4. UNCHANGED <<globals, service, wires, daemon>> /\ mutex' \in {mutex, "FREE"}
        BY <1>7 DEF RStore, RError
    <2> QED
        BY <2>1, <2>2, <2>3, <2>4, SameTypes DEF globals, service
<1>8. CASE RClose(r)
    <2>1. PICK to \in Closing : close_clientsocket(rpc[r], to) /\ Goto(r, to)
        BY <1>8 DEF RClose
    <2>2. ReceiversOK'
        BY <1>8, <2>1 DEF RClose, ReceiversOK, Receiving
    <2>3. UNCHANGED <<mode, tail, notified, told, faults>> /\ faults \subseteq FaultKinds
        BY <1>8 DEF RClose, daemon, DaemonOK
    <2> QED
        BY <1>8, <2>1, <2>2, <2>3, CloseTypes DEF RClose, service
<1> QED
    BY <1>1, <1>2, <1>3, <1>4, <1>5, <1>6, <1>7, <1>8 DEF Receive

\* The types under the steps of the service
LEMMA ServiceTypes ==
    ASSUME TypeOK, Threading, ReconnectClose \/ ReconnectInit
    PROVE  TypeOK'
<1> USE DEF TypeOK
<1>1. CASE ReconnectClose
    <2>1. PICK from : close_clientsocket(from, svc')
        BY <1>1 DEF ReconnectClose
    <2>2. ReceiversOK'
        BY <1>1, SameTypes DEF ReconnectClose
    <2>3. svc' \in Closing
        BY <2>1 DEF close_clientsocket, Closing
    <2>4. faults' \subseteq FaultKinds
        BY <1>1, FaultTypes DEF ReconnectClose, DaemonOK
    <2> QED
        BY <1>1, <2>1, <2>2, <2>3, <2>4, CloseTypes DEF ReconnectClose
<1>2. CASE ReconnectInit
    <2>1. receivers + 1 \in Threads
        BY <1>2, Numbers DEF ReconnectInit, Threading, Threads
    <2>2. ReceiversOK'
        BY <1>2, <2>1 DEF ReconnectInit, ReceiversOK, Goto
    <2> QED
        BY <1>2, <2>1, <2>2, SameTypes DEF ReconnectInit, globals, shared
<1> QED
    BY <1>1, <1>2

\* The types under the steps of the daemon
LEMMA DaemonTypes ==
    ASSUME TypeOK, NEW k \in Threads, DAnswer(k) \/ DNotify(k) \/ DClose(k)
    PROVE  TypeOK'
<1> USE DEF TypeOK
<1>1. UNCHANGED <<globals, shared, sync, caller, receiver, service>>
    BY DEF DAnswer, DNotify, DClose
<1>2. DaemonOK'
    <2>1. CASE DAnswer(k)
        <3> DEFINE q == Head(toServer[k])
                   m == [kind |-> "SUCCESS", mode |-> tail']
        <3>1. q \in Command
            BY <2>1 DEF DAnswer, DaemonOK
        <3>2. q.by \in Callers /\ q.ask.mode \in 0 .. 2
            BY <3>1, Numbers DEF Command
        <3> HIDE DEF q
        <3>a. IF q.ask.cmd = "GET"
              THEN tail' = mode /\ mode' = mode /\ told' = [told EXCEPT ![q.by] = mode]
              ELSE mode' = q.ask.mode /\ tail' = tail /\ told' = [told EXCEPT ![q.by] = 0]
            BY <2>1 DEF DAnswer, q
        <3>3. /\ mode' \in 0 .. 2 /\ tail' \in 0 .. 2
              /\ told' \in [Callers -> {Unknown} \cup 0 .. 2]
            <4>1. CASE q.ask.cmd = "GET"
                BY <3>a, <3>2, <4>1 DEF DaemonOK
            <4>2. CASE q.ask.cmd # "GET"
                <5>1. /\ mode' = q.ask.mode /\ tail' = tail
                      /\ told' = [told EXCEPT ![q.by] = 0]
                    BY <3>a, <4>2
                <5>2. told \in [Callers -> {Unknown} \cup 0 .. 2] /\ tail \in 0 .. 2
                    BY DEF DaemonOK
                <5>3. told' \in [Callers -> {Unknown} \cup 0 .. 2]
                    <6>1. 0 \in {Unknown} \cup 0 .. 2
                        OBVIOUS
                    <6> QED
                        BY <5>1, <5>2, <6>1, Zenon
                <5> QED
                    BY <3>2, <5>1, <5>2, <5>3
            <4> QED
                BY <4>1, <4>2
        <3>4. m \in Message
            BY <3>3 DEF Message
        <3>5. /\ toClient' = [toClient EXCEPT ![k] = Append(@, m)]
              /\ toServer' = [toServer EXCEPT ![k] = <<>>]
              /\ UNCHANGED <<link, notified, faults>>
            BY <2>1 DEF DAnswer, Put
        <3> HIDE DEF m
        <3>6. Append(toClient[k], m) \in Seq(Message)
            BY <3>4 DEF DaemonOK
        <3> QED
            BY <3>3, <3>5, <3>6, Numbers DEF DaemonOK
    <2>2. CASE DNotify(k)
        <3> DEFINE m == [kind |-> "NOTIFY", mode |-> mode']
        <3>1. mode' \in 0 .. 2 /\ notified' \in 0 .. MaxNotify
            BY <2>2, Numbers DEF DNotify, DaemonOK
        <3>2. m \in Message
            BY <3>1 DEF Message
        <3>3. /\ toClient' = [toClient EXCEPT ![k] = Append(@, m)]
              /\ UNCHANGED <<link, toServer, tail, told>>
              /\ faults' \subseteq FaultKinds
            BY <2>2, FaultTypes DEF DNotify, Put
        <3> HIDE DEF m
        <3>4. Append(toClient[k], m) \in Seq(Message)
            BY <3>2 DEF DaemonOK
        <3> QED
            BY <3>1, <3>3, <3>4 DEF DaemonOK
    <2>3. CASE DClose(k)
        BY <2>3, Numbers, FaultTypes DEF DClose, DaemonOK
    <2> QED
        BY <2>1, <2>2, <2>3
<1> QED
    BY <1>1, <1>2, SameTypes DEF globals, shared, sync, service

-----------------------------------------------------------------------------
\* The threads under the steps that start none and leave loop alone
LEMMA SameThreading ==
    ASSUME TypeOK, Threading, Looping, UNCHANGED <<loop, connected, connectedsocket, rpc, rfd, service>>,
           \A k \in Threads : link[k] # "NEW" => link'[k] # "NEW"
    PROVE  Threading' /\ Looping'
<1>1. Threading'
    BY DEF Threading, service
<1>2. Looping'
    BY Numbers DEF Looping, Receiving
<1> QED
    BY <1>1, <1>2

\* The threads under the steps of a receive thread
LEMMA ReceiveThreading ==
    ASSUME TypeOK, Threading, Looping, NEW r \in Threads, Receive(r)
    PROVE  Threading' /\ Looping'
<1> USE DEF Goto
<1>1. receivers \in Nat /\ rpc[r] # "off" => r <= receivers
    BY Numbers DEF TypeOK, Threading
<1>2. loop = 1 /\ rpc[r] # "off" => r = 1
    BY <1>1, Numbers DEF TypeOK, Threading
<1>3. rpc \in [Threads -> {"off", "start", "connect", "mark", "loop", "done"} \cup Receiving]
      /\ rfd \in [Threads -> Threads \cup {NoSock}] /\ loop \in {0, 1}
      /\ link \in [Threads -> {"NEW", "UP", "DOWN"}]
    BY DEF TypeOK, ReceiversOK, DaemonOK
<1> DEFINE Moves(from, to) == rpc[r] = from /\ rpc' = [rpc EXCEPT ![r] = to]
<1>4. UNCHANGED service
    BY DEF Receive, RSocket, RConnect, RConnected, RRetry, RLeaveConnect, RLoop, REnter, RRecv,
           RRecvEnd, RRecvFails, RProcess, RStore, RError, RClose, RClosed
<1>5. \/ /\ Moves("start", "connect") /\ connectedsocket' = r
         /\ UNCHANGED <<connected, loop, rfd, link>>
      \/ /\ Moves("connect", "mark")
         /\ link' = [link EXCEPT ![connectedsocket] = "UP"]
         /\ UNCHANGED <<connectedsocket, connected, loop, rfd>>
      \/ /\ Moves("mark", "connect") /\ connected' = 1
         /\ UNCHANGED <<connectedsocket, loop, rfd, link>>
      \/ /\ \/ UNCHANGED rpc
            \/ Moves("connect", "done")
            \/ Moves("connect", "loop") /\ connected = 1
            \/ Moves("loop", "enter") /\ loop = 1
            \/ Moves("loop", "done")
            \/ Moves("lock", "store") \/ Moves("store", "loop") \/ Moves("err", "loop")
         /\ UNCHANGED <<connectedsocket, connected, loop, rfd, link>>
      \/ /\ \/ Moves("recv", "loop") \/ Moves("recv", "lock") \/ Moves("recv", "close")
            \/ Moves("recv", "err") /\ (rfd[r] = NoSock \/ link[rfd[r]] = "NEW")
         /\ rfd' = [rfd EXCEPT ![r] = NoSock]
         /\ UNCHANGED <<connectedsocket, connected, loop, link>>
      \/ /\ Moves("enter", "recv") /\ rfd' = [rfd EXCEPT ![r] = connectedsocket]
         /\ UNCHANGED <<connectedsocket, connected, loop, link>>
      \/ /\ rpc[r] \in Closing \cup {"close"} /\ loop' = 0 /\ UNCHANGED rfd
         /\ \E to \in Closing : rpc' = [rpc EXCEPT ![r] = to]
      \/ /\ Moves("closed", "done") /\ connected' = 0
         /\ UNCHANGED <<connectedsocket, loop, rfd, link>>
    <2>1. CASE RSocket(r)
        BY <2>1 DEF RSocket, wires
    <2>2. CASE RConnect(r) \/ RConnected(r)
        BY <2>2 DEF RConnect, RConnected, globals, wires
    <2>3. CASE RRetry(r) \/ RLeaveConnect(r) \/ RLoop(r)
        BY <2>3 DEF RRetry, RLeaveConnect, RLoop, globals, wires
    <2>4. CASE REnter(r)
        BY <2>4 DEF REnter, globals, wires
    <2>5. CASE RRecv(r) \/ RRecvEnd(r) \/ RRecvFails(r)
        BY <2>5 DEF RRecv, RRecvEnd, RRecvFails, globals, wires
    <2>6. CASE RProcess(r) \/ RStore(r) \/ RError(r)
        BY <2>6 DEF RProcess, RStore, RError, globals, wires
    <2>7. CASE RClosed(r)
        BY <2>7 DEF RClosed, wires
    <2>8. CASE RClose(r)
        <3>1. PICK to \in Closing : close_clientsocket(rpc[r], to) /\ Goto(r, to)
            BY <2>8 DEF RClose
        <3>2. rpc[r] \in Closing \cup {"close"} /\ (rpc[r] \in Closing => loop = 0)
            BY <3>1 DEF close_clientsocket, Closing, Threading
        <3>3. loop' = 0
            BY <3>1, <3>2 DEF close_clientsocket, globals, Closing
        <3> QED
            BY <2>8, <3>1, <3>2, <3>3 DEF RClose
    <2> QED
        BY <2>1, <2>2, <2>3, <2>4, <2>5, <2>6, <2>7, <2>8 DEF Receive
<1>6. Threading'
    <2>1. loop' = loop \/ loop' = 0
        BY <1>5
    <2>2. \A s \in Threads : s # r => rpc'[s] = rpc[s]
        BY <1>3, <1>5
    <2>3. rpc'[r] \in Receiving => rpc[r] \in Receiving \/ (rpc[r] = "loop" /\ loop = 1)
        BY <1>3, <1>5 DEF Receiving, Closing
    <2>4. rpc'[r] \in Receiving => r = 1
        BY <1>2, <2>3 DEF Threading
    <2>5. r > receivers => rpc'[r] = "off"
        <3>1. r > receivers => rpc[r] = "off" /\ "off" \notin Closing
            BY DEF Threading, Closing
        <3> QED
            BY <1>5, <3>1
    <2>6. rpc'[r] \in Closing => loop' = 0
        BY <1>3, <1>5 DEF Threading, Closing
    <2> QED
        BY <1>4, <2>1, <2>2, <2>4, <2>5, <2>6 DEF Threading, service
<1>7. Looping'
    <2>1. CASE loop = 0
        BY <1>3, <1>5, <2>1 DEF Looping
    <2>2. CASE loop = 1 /\ r = 1
        BY <1>3, <1>5, <2>2, Numbers DEF Looping, Receiving, Closing, NoSock
    <2>3. CASE loop = 1 /\ r # 1
        BY <1>2, <1>3, <1>5, <2>3, Numbers DEF Looping
    <2> QED
        BY <1>3, <2>1, <2>2, <2>3
<1> QED
    BY <1>6, <1>7

\* The threads under the steps of the service
LEMMA ServiceThreading ==
    ASSUME TypeOK, Threading, Looping, ReconnectClose \/ ReconnectInit
    PROVE  Threading' /\ Looping'
<1>1. receivers \in Nat /\ receivers >= 1
    BY Numbers DEF TypeOK
<1>2. CASE ReconnectClose
    <2>1. PICK from : /\ close_clientsocket(from, svc')
                      /\ \/ from = "close" /\ receivers < MaxReceivers
                         \/ from = svc
        BY <1>2 DEF ReconnectClose
    <2>2. /\ from \in {"close", "shut", "unset", "clear", "destroy"}
          /\ from = "close" => loop' = 0
          /\ from # "close" => loop' = loop
        BY <2>1 DEF close_clientsocket, globals
    <2>3. from # "close" => svc # "idle"
        BY <2>1, <2>2
    <2>4. loop' = 0 /\ receivers < MaxReceivers /\ UNCHANGED <<receivers, rpc>>
        BY <1>2, <2>1, <2>2, <2>3 DEF ReconnectClose, receiver, Threading, TypeOK, Closing
    <2> QED
        BY <2>4 DEF Threading, Looping
<1>3. CASE ReconnectInit
    <2>1. svc # "idle" /\ loop = 0 /\ loop' = loop /\ svc' = "idle"
        BY <1>3 DEF ReconnectInit, Threading, globals
    <2>2. \/ UNCHANGED <<receivers, rpc>>
          \/ receivers' = receivers + 1 /\ rpc' = [rpc EXCEPT ![receivers + 1] = "start"]
        BY <1>3 DEF ReconnectInit, Goto
    <2>3. rpc \in [Threads -> {"off", "start", "connect", "mark", "loop", "done"} \cup Receiving]
        BY DEF TypeOK, ReceiversOK
    <2>4. \A s \in Threads : rpc'[s] = rpc[s] \/ (rpc'[s] = "start" /\ s = receivers')
        BY <2>2, <2>3
    <2>5. receivers' >= receivers /\ receivers' \in Nat
        BY <1>1, <2>2
    <2>6. rpc'[1] = rpc[1]
        BY <1>1, <2>2, <2>3, Numbers
    <2>7. Threading'
        <3>1. \A s \in Threads : s > receivers' => rpc'[s] = "off"
            BY <1>1, <2>4, <2>5, Numbers DEF Threading
        <3>2. \A s \in Threads : rpc'[s] \in Receiving => s = 1
            BY <2>4 DEF Threading, Receiving, Closing
        <3>3. \A s \in Threads : rpc'[s] \in Closing => loop' = 0
            BY <2>1
        <3> QED
            BY <2>1, <3>1, <3>2, <3>3 DEF Threading
    <2> QED
        BY <2>1, <2>6, <2>7 DEF Looping
<1> QED
    BY <1>2, <1>3

-----------------------------------------------------------------------------
\* The answer of a lone call.  What is left alone by a step keeps it.
LEMMA SameAnswering ==
    ASSUME NEW c, Answering(c),
           UNCHANGED <<rpc, rbuf, rret, loop, shared, waiting, toServer, toClient>>,
           pc'[c] = pc[c], request'[c] = request[c], told'[c] = told[c]
    PROVE  Answering(c)'
<1> USE DEF shared
<1>1. OneAnswer(c)' <=> OneAnswer(c)
    BY DEF OneAnswer, Asked, IsAnswer, AtHand, Answers
<1>2. Over' <=> Over
    BY DEF Over
<1> QED
    BY <1>1, <1>2 DEF Answering, Asked

\* The result of a lone call stays its own.
LEMMA SameAnswered ==
    ASSUME TypeOK, NEW c \in Callers, Answered(c),
           alone'[c] => alone[c], pc'[c] = pc[c], answer'[c] = answer[c],
           NoneOf(c) => told'[c] = told[c] /\ NoneOf(c)'
    PROVE  Answered(c)'
BY DEF Answered

\* A call starts among idle callers: the step that accepts it
LEMMA EnterAnswering ==
    ASSUME TypeOK, NEW c \in Callers, Apart, CEnter(c), alone'[c]
    PROVE  Answering(c)'
<1>1. /\ pc \in [Callers -> {"idle", "reset", "send", "wait", "return"}]
      /\ request \in [Callers -> Requests] /\ alone \in [Callers -> BOOLEAN]
      /\ toClient \in [Threads -> Seq(Message)] /\ 1 \in Threads
    BY Numbers DEF TypeOK, CallersOK, DaemonOK
<1>2. /\ pc'[c] = "reset" /\ currentcmd' = request'[c].cmd
      /\ c \notin waiting /\ waiting' = waiting
      /\ UNCHANGED <<toServer, toClient, rpc>>
    BY <1>1 DEF CEnter, Apart, sync, receiver, wires
<1>3. Quiet(c)
    BY <1>1 DEF CEnter
<1>4. /\ \A k \in Threads : ~Asked(k)'
      /\ \A k \in Threads, i \in Nat : ~IsAnswer(k, i)'
      /\ rpc'[1] \notin {"lock", "store"}
    BY <1>1, <1>2, <1>3 DEF Quiet, Asked, IsAnswer
<1>5. OneAnswer(c)'
    BY <1>4 DEF OneAnswer
<1> QED
    BY <1>2, <1>5 DEF Answering

\* The steps of the caller itself
LEMMA CallAnswering ==
    ASSUME TypeOK, NEW c \in Callers, Apart, Lone(c), Answering(c), InCall(c)
    PROVE  (pc'[c] # "idle" => Answering(c)') /\ Answered(c)'
<1> USE DEF globals, shared, sync, caller, receiver, service, wires, daemon
<1>1. /\ Over' <=> Over
      /\ UNCHANGED <<rpc, rbuf, rret, toClient>>
    BY DEF InCall, CReset, CSend, CSendFails, CWake, CReturn, Over
<1>2. pc \in [Callers -> {"idle", "reset", "send", "wait", "return"}]
      /\ request \in [Callers -> Requests] /\ waiting \subseteq Callers
      /\ answer \in [Callers -> {INITIAL_RET_VALUE} \cup -1 .. 2]
      /\ told \in [Callers -> {Unknown} \cup 0 .. 2]
    BY DEF TypeOK, CallersOK, DaemonOK
\* Without a sleeper nothing is under way.
<1>3. Over \/ c \in waiting
      \/ (/\ \A k \in Threads : ~Asked(k)
          /\ \A k \in Threads, i \in Nat : ~IsAnswer(k, i)
          /\ ~AtHand)
    BY DEF Answering, OneAnswer, AtHand
<1>4. CASE CReturn(c)
    <2>1. /\ pc[c] = "return" /\ pc'[c] = "idle" /\ answer'[c] = retfromDaemon
          /\ UNCHANGED <<told, toServer>>
        BY <1>2, <1>4 DEF CReturn
    <2>2. retfromDaemon # INITIAL_RET_VALUE =>
             retfromDaemon = told[c] /\ \A k \in Threads : toServer[k] = <<>>
        BY <2>1 DEF Answering, Asked
    <2> QED
        BY <2>1, <2>2 DEF Answered, NoneOf
<1>5. CASE CSendFails(c)
    <2>1. pc'[c] = "idle" /\ answer'[c] = -1
        BY <1>2, <1>5 DEF CSendFails
    <2> QED
        BY <2>1 DEF Answered
<1>6. CASE CReset(c) \/ CWake(c)
    <2>1. UNCHANGED <<toServer, toClient, waiting, told, request, currentcmd>>
        BY <1>6 DEF CReset, CWake
    <2>2. OneAnswer(c) => OneAnswer(c)'
        BY <1>1, <2>1 DEF OneAnswer, Asked, IsAnswer, AtHand, Answers
    <2>3. CASE CReset(c)
        BY <1>1, <1>2, <2>1, <2>2, <2>3 DEF CReset, Answering, Asked, Answered
    <2>4. CASE CWake(c)
        BY <1>1, <1>2, <2>1, <2>2, <2>4 DEF CWake, Answering, Asked, Answered
    <2> QED
        BY <1>6, <2>3, <2>4
<1>7. CASE CSend(c)
    <2> DEFINE m == [by |-> c, ask |-> request[c]]
    <2>1. /\ pc[c] = "send" /\ retfromDaemon = INITIAL_RET_VALUE /\ c \notin waiting
          /\ pc' = [pc EXCEPT ![c] = "wait"] /\ waiting' = waiting \cup {c}
          /\ connectedsocket \in Threads
          /\ toServer' = [toServer EXCEPT ![connectedsocket] = Append(@, m)]
          /\ UNCHANGED <<retfromDaemon, currentcmd, request, told>>
        BY <1>7 DEF CSend, Answering, TypeOK, Up
    <2>2. toServer \in [Threads -> Seq(Command)]
        BY DEF TypeOK, DaemonOK
    <2>3. Append(<<>>, m) = <<m>>
        OBVIOUS
    <2>4. ASSUME ~Over PROVE OneAnswer(c)'
        <3>1. \A k \in Threads : toServer[k] = <<>>
            BY <1>3, <2>1, <2>4 DEF Asked
        <3>2. /\ toServer'[connectedsocket] = <<[by |-> c, ask |-> request[c]]>>
              /\ \A k \in Threads : k # connectedsocket => toServer'[k] = <<>>
            BY <2>1, <2>2, <2>3, <3>1
        <3>3. /\ \A k \in Threads, i \in Nat : ~IsAnswer(k, i)'
              /\ rpc'[1] \notin {"lock", "store"} /\ c \in waiting'
            BY <1>1, <1>3, <2>1, <2>4 DEF IsAnswer, AtHand
        <3> QED
            BY <2>1, <3>2, <3>3 DEF OneAnswer, Asked, AtHand
    <2>5. pc'[c] = "wait"
        BY <1>2, <2>1
    <2> QED
        BY <1>1, <2>1, <2>4, <2>5 DEF Answering, Answered
<1> QED
    BY <1>4, <1>5, <1>6, <1>7 DEF InCall

\* The steps of any caller: another one's leave the lone call alone, or end
\* its being alone.
LEMMA CallerAnswering ==
    ASSUME IInv, NEW c \in Callers, CRefused(c) \/ CEnter(c) \/ CSpurious(c) \/ InCall(c),
           NEW d \in Callers
    PROVE  (Lone(d)' => Answering(d)') /\ Answered(d)'
<1> USE DEF IInv
<1>1. /\ pc \in [Callers -> {"idle", "reset", "send", "wait", "return"}]
      /\ request \in [Callers -> Requests] /\ alone \in [Callers -> BOOLEAN]
      /\ answer \in [Callers -> {INITIAL_RET_VALUE} \cup -1 .. 2]
      /\ told \in [Callers -> {Unknown} \cup 0 .. 2]
      /\ toServer \in [Threads -> Seq(Command)]
    BY DEF TypeOK, CallersOK, DaemonOK
<1>2. CASE CRefused(c)
    <2>1. /\ UNCHANGED <<globals, shared, sync, pc, request, alone, receiver, wires, daemon>>
          /\ answer' = [answer EXCEPT ![c] = -1]
        BY <1>2 DEF CRefused
    <2>2. Lone(d)' => Answering(d)'
        BY <2>1, SameAnswering DEF Lone, globals, shared, sync, receiver, wires, daemon
    <2>3. CASE d = c
        <3>1. answer'[d] = -1
            BY <1>1, <2>1, <2>3
        <3> QED
            BY <2>2, <3>1 DEF Answered
    <2>4. CASE d # c
        <3>1. answer'[d] = answer[d]
            BY <1>1, <2>1, <2>4
        <3>2. Answered(d)'
            BY <2>1, <3>1 DEF Answered, NoneOf, wires, daemon
        <3> QED
            BY <2>2, <3>2
    <2> QED
        BY <2>3, <2>4
<1>3. CASE CEnter(c)
    <2>1. /\ pc' = [pc EXCEPT ![c] = "reset"]
          /\ alone' = [e \in Callers |-> IF e = c THEN Quiet(c)
                                        ELSE alone[e] /\ pc[e] = "idle"]
          /\ told' = [told EXCEPT ![c] = Unknown]
          /\ UNCHANGED <<answer, toServer>>
        BY <1>3 DEF CEnter, wires
    <2>2. CASE d = c
        <3>1. pc'[d] = "reset"
            BY <1>1, <2>1, <2>2
        <3>2. alone'[d] => Answering(d)'
            BY <1>3, <2>2, EnterAnswering
        <3> QED
            BY <3>1, <3>2 DEF Lone, Answered
    <2>3. CASE d # c
        <3>1. /\ pc'[d] = pc[d] /\ told'[d] = told[d] /\ answer'[d] = answer[d]
              /\ alone'[d] => alone[d] /\ pc[d] = "idle"
            BY <1>1, <2>1, <2>3
        <3>2. Answered(d)'
            BY <2>1, <3>1 DEF Answered, NoneOf
        <3> QED
            BY <3>1, <3>2 DEF Lone
    <2> QED
        BY <2>2, <2>3
<1>4. CASE CSpurious(c)
    <2>1. /\ pc[c] = "wait" /\ alone' = [alone EXCEPT ![c] = FALSE]
          /\ UNCHANGED <<pc, answer, told, toServer>>
        BY <1>4 DEF CSpurious, Apart, wires, daemon
    <2>2. CASE d = c
        <3>1. ~alone'[d]
            BY <1>1, <2>1, <2>2
        <3> QED
            BY <3>1 DEF Lone, Answered
    <2>3. CASE d # c
        <3>1. alone'[d] = alone[d] /\ ~Lone(d)
            BY <1>1, <2>1, <2>3 DEF Apart
        <3> QED
            BY <2>1, <3>1 DEF Lone, Answered, NoneOf
    <2> QED
        BY <2>2, <2>3
<1>5. CASE InCall(c)
    <2>1. pc[c] # "idle" /\ UNCHANGED <<alone, told>>
        BY <1>5 DEF InCall, CReset, CSend, CSendFails, CWake, CReturn, caller, daemon
    <2>2. CASE d = c
        <3>1. CASE alone[c]
            <4>1. Lone(c)
                BY <2>1, <3>1 DEF Lone
            <4>2. (pc'[c] # "idle" => Answering(c)') /\ Answered(c)'
                BY <1>5, <4>1, CallAnswering
            <4> QED
                BY <2>2, <4>2 DEF Lone
        <3>2. CASE ~alone[c]
            BY <2>1, <2>2, <3>2 DEF Lone, Answered
        <3> QED
            BY <3>1, <3>2
    <2>3. CASE d # c
        <3>1. ~Lone(d)
            BY <2>1, <2>3 DEF Apart
        <3>2. pc'[d] = pc[d] /\ answer'[d] = answer[d]
            BY <1>1, <1>5, <2>3 DEF InCall, CReset, CSend, CSendFails, CWake, CReturn, caller
        <3>3. NoneOf(d) => NoneOf(d)'
            <4>1. CASE CSend(c)
                <5> DEFINE m == [by |-> c, ask |-> request[c]]
                <5>1. /\ toServer' = [toServer EXCEPT ![connectedsocket] = Append(@, m)]
                      /\ m.by # d
                    BY <2>3, <4>1 DEF CSend
                <5> HIDE DEF m
                <5>2. ASSUME NEW k \in Threads, NEW i \in DOMAIN toServer'[k], NoneOf(d)
                      PROVE  toServer'[k][i].by # d
                    <6>1. CASE k # connectedsocket
                        BY <1>1, <5>1, <5>2, <6>1 DEF NoneOf
                    <6>2. CASE k = connectedsocket
                        <7>1. toServer'[k] = Append(toServer[k], m) /\ toServer[k] \in Seq(Command)
                            BY <1>1, <5>1, <6>2
                        <7>2. \/ i \in DOMAIN toServer[k] /\ toServer'[k][i] = toServer[k][i]
                              \/ toServer'[k][i] = m
                            <8>1. i \in 1 .. Len(toServer[k]) + 1
                                BY <5>2, <7>1
                            <8> QED
                                BY <7>1, <8>1
                        <7> QED
                            BY <5>1, <5>2, <7>2 DEF NoneOf
                    <6> QED
                        BY <6>1, <6>2
                <5> QED
                    BY <5>2 DEF NoneOf
            <4>2. CASE ~CSend(c)
                <5>1. UNCHANGED toServer
                    BY <1>5, <4>2 DEF InCall, CReset, CSendFails, CWake, CReturn, wires
                <5> QED
                    BY <5>1 DEF NoneOf
            <4> QED
                BY <4>1, <4>2
        <3>4. Answered(d)'
            BY <2>1, <3>2, <3>3, SameAnswered
        <3> QED
            BY <2>1, <3>1, <3>2, <3>4 DEF Lone
    <2> QED
        BY <2>2, <2>3
<1> QED
    BY <1>2, <1>3, <1>4, <1>5

\* The steps of the receive thread
LEMMA ReceiveAnswering ==
    ASSUME TypeOK, Threading, Looping, Apart, NEW c \in Callers, Lone(c), Answering(c),
           NEW r \in Threads, Receive(r)
    PROVE  Answering(c)'
<1> USE DEF Goto, globals, shared, sync, caller, receiver, service, wires, daemon
<1>1. /\ rpc \in [Threads -> {"off", "start", "connect", "mark", "loop", "done"} \cup Receiving]
      /\ rfd \in [Threads -> Threads \cup {NoSock}] /\ rbuf \in [Threads -> Message]
      /\ rret \in [Threads -> {Nothing} \cup -1 .. 2] /\ 1 \in Threads
      /\ toClient \in [Threads -> Seq(Message)] /\ toServer \in [Threads -> Seq(Command)]
      /\ waiting \subseteq Callers /\ loop \in {0, 1}
    BY Numbers DEF TypeOK, ReceiversOK, DaemonOK, CallersOK
<1>2. UNCHANGED <<pc, request, answer, told>>
    BY DEF Receive, RSocket, RConnect, RConnected, RRetry, RLeaveConnect, RLoop, REnter, RRecv,
           RRecvEnd, RRecvFails, RProcess, RStore, RError, RClose, RClosed
<1>3. rpc[r] \in Receiving => r = 1
    BY DEF Threading
<1>4. CASE RSocket(r) \/ RConnect(r) \/ RConnected(r) \/ RRetry(r) \/ RLeaveConnect(r)
           \/ RLoop(r) \/ REnter(r) \/ RRecvEnd(r) \/ RRecvFails(r) \/ RClosed(r)
    <2>1. UNCHANGED <<rbuf, rret, loop, shared, waiting, toServer, toClient>>
        BY <1>4 DEF RSocket, RConnect, RConnected, RRetry, RLeaveConnect, RLoop, REnter, RRecvEnd,
                    RRecvFails, RClosed
    <2>2. /\ AtHand' => AtHand
          /\ rpc'[1] = "lock" => rpc[1] = "lock"
          /\ rpc'[1] = "store" => rpc[1] = "store"
          /\ Over => Over'
        <3>1. CASE r = 1
            BY <1>1, <1>4, <3>1 DEF RSocket, RConnect, RConnected, RRetry, RLeaveConnect, RLoop, REnter,
                    RRecvEnd, RRecvFails, RClosed, AtHand, Over
        <3>2. CASE r # 1
            <4>1. rpc'[1] = rpc[1]
                BY <1>1, <1>4, <3>2 DEF RSocket, RConnect, RConnected, RRetry, RLeaveConnect, RLoop,
                        REnter, RRecvEnd, RRecvFails, RClosed
            <4> QED
                BY <2>1, <4>1 DEF AtHand, Over
        <3> QED
            BY <3>1, <3>2
    <2>3. OneAnswer(c) => OneAnswer(c)'
        BY <1>2, <2>1, <2>2 DEF OneAnswer, Asked, IsAnswer, Answers
    <2> QED
        BY <1>2, <2>1, <2>2, <2>3 DEF Answering, Asked
<1>5. CASE RError(r)
    <2>1. r = 1 /\ loop = 0 /\ Over /\ Over'
        BY <1>1, <1>3, <1>5 DEF RError, Receiving, Looping, Over
    <2>2. waiting' \subseteq waiting
        BY <1>5 DEF RError, Signal
    <2> QED
        BY <1>2, <1>5, <2>1, <2>2 DEF RError, Answering, Asked
<1>6. CASE RClose(r)
    <2>1. PICK to \in Closing : close_clientsocket(rpc[r], to) /\ Goto(r, to)
        BY <1>6 DEF RClose
    <2>2. r = 1 /\ (rpc[1] \in Closing => loop = 0) /\ rpc[1] \in Closing \cup {"close"}
        BY <1>3, <2>1 DEF close_clientsocket, Receiving, Closing, Threading
    <2>3. loop' = 0 /\ rpc'[1] \in Closing /\ rpc'[1] \notin {"enter", "recv", "lock", "store"}
        BY <1>1, <2>1, <2>2 DEF close_clientsocket, Closing
    <2>4. Over'
        BY <2>3 DEF Over
    <2>5. \A k \in Threads : toServer'[k] = toServer[k] \/ toServer'[k] = <<>>
        BY <1>1, <2>1 DEF close_clientsocket, Up
    <2>6. \A k \in Threads : Asked(k)' => Asked(k)
        BY <2>5 DEF Asked
    <2> QED
        BY <1>2, <1>6, <2>4, <2>6 DEF RClose, Answering
<1>7. CASE RRecv(r)
    <2> DEFINE k == rfd[r]
               m == Head(toClient[k])
    <2>1. /\ r = 1 /\ rpc[1] = "recv" /\ k \in Threads /\ toClient[k] # <<>>
          /\ rbuf' = [rbuf EXCEPT ![1] = m]
          /\ toClient' = [toClient EXCEPT ![k] = <<>>]
          /\ rpc' = [rpc EXCEPT ![1] = IF rbuf'[1].kind = "NOTIFY" THEN "loop" ELSE "lock"]
          /\ UNCHANGED <<loop, shared, waiting, toServer>>
        BY <1>1, <1>3, <1>7 DEF RRecv, Receiving
    <2> HIDE DEF k
    <2>2. m = toClient[k][1] /\ 1 \in DOMAIN toClient[k] /\ m \in Message
        <3>1. toClient[k] \in Seq(Message) /\ toClient[k] # <<>>
            BY <1>1, <2>1
        <3>2. Len(toClient[k]) \in Nat /\ Len(toClient[k]) >= 1
              /\ DOMAIN toClient[k] = 1 .. Len(toClient[k])
            BY <3>1
        <3> QED
            BY <3>1, <3>2
    <2> HIDE DEF m
    <2>3. rbuf'[1] = m
        BY <1>1, <2>1
    <2>4. ~Over /\ OneAnswer(c)
        BY <2>1 DEF Over, Answering
    <2>5. m.kind \in {"SUCCESS", "NOTIFY"}
        BY <2>2 DEF Message
    <2>6. \A j \in Threads, i \in Nat : IsAnswer(j, i)' => IsAnswer(j, i) /\ j # k
        BY <1>1, <2>1 DEF IsAnswer
    <2>7. \A j \in Threads, i \in Nat : IsAnswer(j, i)' => toClient'[j][i] = toClient[j][i]
        BY <1>1, <2>1, <2>6
    <2>8. OneAnswer(c)'
        <3>1. CASE m.kind = "NOTIFY"
            <4>1. rpc'[1] = "loop"
                BY <1>1, <2>1, <2>3, <3>1
            <4> QED
                BY <1>2, <2>1, <2>4, <2>6, <2>7, <4>1 DEF OneAnswer, Asked, AtHand, Answers
        <3>2. CASE m.kind = "SUCCESS"
            <4>1. rpc'[1] = "lock"
                BY <1>1, <2>1, <2>3, <3>2
            <4>2. IsAnswer(k, 1)
                BY <2>2, <3>2 DEF IsAnswer
            <4>3. Answers(m, c) /\ c \in waiting /\ \A j \in Threads : ~Asked(j)
                BY <2>1, <2>2, <2>4, <4>2 DEF OneAnswer
            <4>4. \A j \in Threads, i \in Nat : ~IsAnswer(j, i)'
                BY <2>1, <2>4, <2>6, <4>2 DEF OneAnswer
            <4>5. Answers(rbuf[1], c)'
                BY <1>2, <2>3, <4>3 DEF Answers
            <4>6. \A j \in Threads : ~Asked(j)'
                BY <2>1, <4>3 DEF Asked
            <4> QED
                BY <2>1, <4>1, <4>3, <4>4, <4>5, <4>6 DEF OneAnswer
        <3> QED
            BY <2>5, <3>1, <3>2
    <2> QED
        BY <1>2, <2>1, <2>4, <2>8 DEF Answering, Asked
<1>8. CASE RProcess(r)
    <2>1. /\ r = 1 /\ rpc[1] = "lock" /\ rpc' = [rpc EXCEPT ![1] = "store"]
          /\ rret' = [rret EXCEPT ![1] = ProcessResponse(currentcmd, rbuf[1])]
          /\ UNCHANGED <<loop, shared, waiting, toServer, toClient>>
        BY <1>1, <1>3, <1>8 DEF RProcess, Receiving
    <2>2. ~Over /\ OneAnswer(c) /\ Answers(rbuf[1], c) /\ c \in waiting
        BY <2>1 DEF Over, Answering, OneAnswer
    <2>3. currentcmd = request[c].cmd /\ currentcmd # NoCmd
        BY <2>2, Numbers DEF Answering, TypeOK, CallersOK, NoCmd
    <2>4. rret'[1] = told[c] /\ rpc'[1] = "store"
        BY <1>1, <2>1, <2>2, <2>3 DEF ProcessResponse, Answers
    <2>5. OneAnswer(c)'
        BY <1>2, <2>1, <2>2, <2>4 DEF OneAnswer, Asked, IsAnswer, AtHand, Answers
    <2> QED
        BY <1>2, <2>1, <2>2, <2>5 DEF Answering, Asked
<1>9. CASE RStore(r)
    <2>1. /\ r = 1 /\ rpc[1] = "store" /\ rpc' = [rpc EXCEPT ![1] = "loop"]
          /\ UNCHANGED <<loop, toServer, toClient>>
        BY <1>1, <1>3, <1>9 DEF RStore, Receiving
    <2>2. ~Over /\ OneAnswer(c) /\ c \in waiting /\ rret[1] = told[c] /\ told[c] \in 0 .. 2
        BY <2>1 DEF Over, Answering, OneAnswer
    <2>3. pc[c] = "wait"
        BY <2>2 DEF Answering
    <2>4. retfromDaemon' = told[c]
        BY <1>9, <2>1, <2>2 DEF RStore, Nothing
    <2>5. c \notin waiting'
        <3>1. \A d \in waiting : d = c
            BY <1>1 DEF Apart
        <3> QED
            BY <1>9, <2>2, <3>1 DEF RStore, Signal
    <2>6. /\ \A k \in Threads : ~Asked(k)
          /\ \A k \in Threads, i \in Nat : ~IsAnswer(k, i)
        BY <2>1, <2>2 DEF OneAnswer, AtHand
    <2>7. /\ \A k \in Threads : ~Asked(k)'
          /\ \A k \in Threads, i \in Nat : ~IsAnswer(k, i)'
        BY <2>1, <2>6 DEF Asked, IsAnswer
    <2>8. rpc'[1] = "loop"
        BY <1>1, <2>1
    <2>9. OneAnswer(c)'
        BY <2>7, <2>8 DEF OneAnswer
    <2> QED
        BY <1>2, <2>3, <2>4, <2>5, <2>7, <2>9 DEF Answering
<1> QED
    BY <1>4, <1>5, <1>6, <1>7, <1>8, <1>9 DEF Receive

\* The steps of the service
LEMMA ServiceAnswering ==
    ASSUME TypeOK, Threading, NEW c \in Callers, Answering(c), Reconnect
    PROVE  Answering(c)'
<1> USE DEF globals, shared, sync, caller, receiver, service, wires, daemon
<1>1. /\ UNCHANGED <<pc, request, answer, told, waiting, toClient, rbuf, rret>>
      /\ UNCHANGED <<currentcmd, retfromDaemon>>
    BY DEF Reconnect, ReconnectClose, ReconnectInit
<1>2. /\ rpc'[1] = rpc[1] /\ loop' \in {loop, 0}
      /\ \A k \in Threads : toServer'[k] = toServer[k] \/ toServer'[k] = <<>>
    <2>1. CASE ReconnectClose
        <3>1. PICK from : close_clientsocket(from, svc')
            BY <2>1 DEF ReconnectClose
        <3> QED
            BY <2>1, <3>1 DEF ReconnectClose, close_clientsocket, TypeOK, DaemonOK, Up
    <2>2. CASE ReconnectInit
        <3>1. receivers + 1 # 1
            BY Numbers DEF TypeOK
        <3> QED
            BY <2>2, <3>1, Numbers DEF ReconnectInit, Goto, TypeOK, ReceiversOK
    <2> QED
        BY <2>1, <2>2 DEF Reconnect
<1>3. Over => Over'
    BY <1>2 DEF Over
<1>4. \A k \in Threads : Asked(k)' => Asked(k) /\ toServer'[k] = toServer[k]
    BY <1>2 DEF Asked
<1>5. OneAnswer(c) => OneAnswer(c)'
    BY <1>1, <1>2, <1>4 DEF OneAnswer, IsAnswer, AtHand, Answers
<1> QED
    BY <1>1, <1>3, <1>4, <1>5 DEF Answering

\* The steps of the daemon
LEMMA DaemonAnswering ==
    ASSUME TypeOK, NEW c \in Callers, Answering(c),
           NEW k \in Threads, DAnswer(k) \/ DNotify(k) \/ DClose(k)
    PROVE  Answering(c)'
<1> USE DEF globals, shared, sync, caller, receiver, service, wires, daemon
<1>1. /\ toClient \in [Threads -> Seq(Message)] /\ toServer \in [Threads -> Seq(Command)]
      /\ told \in [Callers -> {Unknown} \cup 0 .. 2] /\ mode \in 0 .. 2
      /\ request \in [Callers -> Requests]
    BY DEF TypeOK, DaemonOK, CallersOK
<1>2. UNCHANGED <<rpc, rbuf, rret, loop, currentcmd, retfromDaemon, waiting, pc, request, answer>>
    BY DEF DAnswer, DNotify, DClose
<1>3. Over' <=> Over
    BY <1>2 DEF Over
<1>4. CASE DClose(k)
    <2>1. /\ UNCHANGED <<toClient, told>>
          /\ \A j \in Threads : toServer'[j] = toServer[j] \/ toServer'[j] = <<>>
        BY <1>1, <1>4 DEF DClose
    <2>2. \A j \in Threads : Asked(j)' => Asked(j) /\ toServer'[j] = toServer[j]
        BY <2>1 DEF Asked
    <2>3. OneAnswer(c) => OneAnswer(c)'
        BY <1>2, <2>1, <2>2 DEF OneAnswer, IsAnswer, AtHand, Answers
    <2> QED
        BY <1>2, <1>3, <2>1, <2>2, <2>3 DEF Answering
<1>5. CASE DNotify(k)
    <2> DEFINE m == [kind |-> "NOTIFY", mode |-> mode']
    <2>1. /\ UNCHANGED <<toServer, told>> /\ m.kind # "SUCCESS"
          /\ toClient' = [toClient EXCEPT ![k] = Append(@, m)]
        BY <1>5 DEF DNotify, Put
    <2> HIDE DEF m
    <2>2. \A j \in Threads, i \in Nat :
              IsAnswer(j, i)' => IsAnswer(j, i) /\ toClient'[j][i] = toClient[j][i]
        BY <1>1, <2>1 DEF IsAnswer
    <2>3. \A j \in Threads : Asked(j)' <=> Asked(j)
        BY <2>1 DEF Asked
    <2>4. \A j \in Threads, i \in Nat :
              IsAnswer(j, i)' /\ Answers(toClient[j][i], c) => Answers(toClient[j][i], c)'
        BY <1>2, <2>1, <2>2 DEF Answers
    <2>5. OneAnswer(c) => OneAnswer(c)'
        <3>1. Answers(rbuf[1], c) => Answers(rbuf[1], c)'
            BY <1>2, <2>1 DEF Answers
        <3>2. AtHand' <=> AtHand
            BY <1>2 DEF AtHand
        <3>3. SUFFICES ASSUME OneAnswer(c) PROVE OneAnswer(c)'
            OBVIOUS
        <3>4. ASSUME NEW j \in Threads, Asked(j)'
              PROVE  /\ toServer'[j] = <<[by |-> c, ask |-> request'[c]]>>
                     /\ \A l \in Threads : Asked(l)' => l = j
                     /\ \A l \in Threads, i \in Nat : ~IsAnswer(l, i)'
                     /\ ~AtHand' /\ c \in waiting'
            BY <1>2, <2>1, <2>2, <2>3, <3>2, <3>3, <3>4 DEF OneAnswer
        <3>5. ASSUME NEW j \in Threads, NEW i \in Nat, IsAnswer(j, i)'
              PROVE  /\ Answers(toClient[j][i], c)'
                     /\ \A h \in Threads, l \in Nat : IsAnswer(h, l)' => h = j /\ l = i
                     /\ ~AtHand' /\ c \in waiting'
            BY <1>2, <2>2, <2>4, <3>2, <3>3, <3>5 DEF OneAnswer
        <3> QED
            BY <1>2, <2>1, <3>1, <3>3, <3>4, <3>5 DEF OneAnswer
    <2> QED
        BY <1>2, <1>3, <2>1, <2>5 DEF Answering, Asked
<1>6. CASE DAnswer(k)
    <2> DEFINE q == Head(toServer[k])
               m == [kind |-> "SUCCESS", mode |-> tail']
    <2>1. /\ Asked(k) /\ m.kind = "SUCCESS" /\ m.mode = tail'
          /\ toClient' = [toClient EXCEPT ![k] = Append(@, m)]
          /\ toServer' = [toServer EXCEPT ![k] = <<>>]
        BY <1>6 DEF DAnswer, Put, Asked
    <2>2. q \in Command
        BY <1>1, <2>1 DEF Asked
    <2>4. ASSUME ~Over PROVE q.ask = request[c] /\ q.by = c
        <3>1. toServer[k] = <<[by |-> c, ask |-> request[c]]>>
            BY <2>1, <2>4 DEF Answering, OneAnswer
        <3> QED
            BY <3>1
    <2> HIDE DEF m, q
    <2>5. IF q.ask.cmd = "GET" THEN tail' = mode /\ told' = [told EXCEPT ![q.by] = mode]
          ELSE told' = [told EXCEPT ![q.by] = 0]
        BY <1>6 DEF DAnswer, q
    <2>6. ASSUME ~Over
          PROVE  /\ told'[c] \in 0 .. 2
                 /\ told'[c] = IF q.ask.cmd = "GET" THEN m.mode ELSE 0
        BY <1>1, <2>1, <2>4, <2>5, <2>6
    <2>7. \A j \in Threads : Asked(j)' => Asked(j) /\ j # k /\ toServer'[j] = toServer[j]
        BY <1>1, <2>1 DEF Asked
    <2>8. ASSUME ~Over PROVE OneAnswer(c)'
        <3>1. /\ c \in waiting /\ ~AtHand
              /\ \A j \in Threads : ~Asked(j)'
              /\ \A j \in Threads, i \in Nat : ~IsAnswer(j, i)
            BY <2>1, <2>7, <2>8 DEF Answering, OneAnswer
        <3>2. \A j \in Threads, i \in Nat :
                  IsAnswer(j, i)' => j = k /\ i = Len(toClient[k]) + 1 /\ toClient'[j][i] = m
            BY <1>1, <2>1, <3>1 DEF IsAnswer
        <3>3. told'[c] = IF request'[c].cmd = "GET" THEN m.mode ELSE 0
            BY <1>2, <2>4, <2>6, <2>8
        <3>4. \A j \in Threads, i \in Nat : IsAnswer(j, i)' => Answers(toClient[j][i], c)'
            BY <2>1, <2>6, <2>8, <3>2, <3>3 DEF Answers
        <3> QED
            BY <1>2, <3>1, <3>2, <3>4 DEF OneAnswer, AtHand
    <2>9. pc[c] \in {"wait", "return"} => retfromDaemon = INITIAL_RET_VALUE
        BY <2>1 DEF Answering
    <2> QED
        BY <1>2, <1>3, <2>8, <2>9 DEF Answering
<1> QED
    BY <1>4, <1>5, <1>6

-----------------------------------------------------------------------------
\* The invariant holds initially.
LEMMA InitIInv == Init => IInv
<1> SUFFICES ASSUME Init PROVE IInv
    OBVIOUS
<1> USE Numbers DEF Init
<1>1. CallersOK
    <2>1. [cmd |-> "GET", mode |-> 0] \in Requests
        BY DEF Requests
    <2> QED
        BY <2>1 DEF CallersOK
<1>2. ReceiversOK
    BY DEF ReceiversOK, Message, NoMessage
<1>3. DaemonOK
    BY DEF DaemonOK
<1>4. TypeOK
    BY <1>1, <1>2, <1>3 DEF TypeOK
<1>5. Threading
    BY DEF Threading, Receiving, Closing
<1>6. Looping
    BY DEF Looping, Receiving, Closing
<1>7. Apart
    BY DEF Apart, Lone
<1>8. ASSUME NEW c \in Callers PROVE (Lone(c) => Answering(c)) /\ Answered(c)
    BY DEF Lone, Answered
<1> QED
    BY <1>4, <1>5, <1>6, <1>7, <1>8 DEF IInv

\* A caller's step keeps the others of a lone call idle.
LEMMA CallerApart ==
    ASSUME IInv, NEW c \in Callers, CRefused(c) \/ CEnter(c) \/ CSpurious(c) \/ InCall(c)
    PROVE  Apart'
<1> USE DEF IInv, Apart, Lone
<1>1. /\ pc \in [Callers -> {"idle", "reset", "send", "wait", "return"}]
      /\ alone \in [Callers -> BOOLEAN] /\ waiting \subseteq Callers
    BY DEF TypeOK, CallersOK
<1>2. CASE CRefused(c)
    BY <1>2 DEF CRefused, sync
<1>3. CASE CEnter(c)
    <2>1. /\ pc[c] = "idle" /\ pc' = [pc EXCEPT ![c] = "reset"]
          /\ alone' = [d \in Callers |-> IF d = c THEN Quiet(c)
                                        ELSE alone[d] /\ pc[d] = "idle"]
          /\ waiting' = waiting
        BY <1>3 DEF CEnter, sync
    <2>2. \A d \in waiting' : pc'[d] = "wait"
        BY <1>1, <2>1
    <2>3. ASSUME NEW d \in Callers, NEW e \in Callers, Lone(d)', d # e PROVE pc'[e] = "idle"
        <3>1. CASE d = c
            <4>1. Quiet(c)
                BY <2>1, <2>3, <3>1
            <4> QED
                BY <1>1, <2>1, <2>3, <3>1, <4>1 DEF Quiet
        <3>2. CASE d # c
            BY <1>1, <2>1, <2>3, <3>2
        <3> QED
            BY <3>1, <3>2
    <2> QED
        BY <2>2, <2>3
<1>4. CASE CSpurious(c)
    <2>1. /\ UNCHANGED pc /\ waiting' \subseteq waiting
          /\ alone' = [alone EXCEPT ![c] = FALSE]
        BY <1>4 DEF CSpurious
    <2>2. \A d \in Callers : alone'[d] => alone[d]
        BY <1>1, <2>1
    <2> QED
        BY <2>1, <2>2
<1>5. CASE InCall(c)
    <2>1. /\ pc[c] # "idle" /\ UNCHANGED alone
          /\ \A d \in Callers : d # c => pc'[d] = pc[d]
        BY <1>1, <1>5 DEF InCall, CReset, CSend, CSendFails, CWake, CReturn
    <2>2. \A d \in waiting' : pc'[d] = "wait"
        BY <1>1, <1>5 DEF InCall, CReset, CSend, CSendFails, CWake, CReturn, sync
    <2>3. ASSUME NEW d \in Callers, NEW e \in Callers, Lone(d)', d # e PROVE pc'[e] = "idle"
        <3>1. d = c
            BY <2>1, <2>3
        <3> QED
            BY <2>1, <2>3, <3>1
    <2> QED
        BY <2>2, <2>3
<1> QED
    BY <1>2, <1>3, <1>4, <1>5

\* The invariant under the steps of the others, which add no command
LEMMA FewerCommands ==
    ASSUME IInv, TypeOK', Threading', Looping',
           UNCHANGED caller, waiting' \subseteq waiting,
           \A k \in Threads : toServer'[k] = toServer[k] \/ toServer'[k] = <<>>,
           \A c \in Callers : NoneOf(c) => told'[c] = told[c],
           \A c \in Callers : Lone(c) => Answering(c)'
    PROVE  IInv'
<1>1. Apart'
    BY DEF IInv, Apart, Lone, caller
<1>2. ASSUME NEW c \in Callers PROVE (Lone(c)' => Answering(c)') /\ Answered(c)'
    <2>1. NoneOf(c) => NoneOf(c)'
        BY DEF NoneOf
    <2> QED
        BY <2>1 DEF IInv, Lone, Answered, caller
<1> QED
    BY <1>1, <1>2 DEF IInv

\* Every step keeps the invariant.
LEMMA NextIInv == IInv /\ [Next]_vars => IInv'
<1> SUFFICES ASSUME IInv, [Next]_vars PROVE IInv'
    OBVIOUS
<1> USE DEF IInv
<1>1. ASSUME NEW c \in Callers, CRefused(c) \/ CEnter(c) \/ CSpurious(c) \/ InCall(c)
      PROVE  IInv'
    <2>1. TypeOK'
        BY <1>1, CallerTypes
    <2>2. Threading' /\ Looping'
        <3>1. /\ UNCHANGED <<loop, connected, connectedsocket, rpc, rfd, service>>
              /\ UNCHANGED link
            BY <1>1 DEF CRefused, CEnter, CSpurious, InCall, CReset, CSend, CSendFails, CWake,
                        CReturn, globals, receiver, wires
        <3> QED
            BY <3>1, SameThreading
    <2>3. Apart'
        BY <1>1, CallerApart
    <2>4. ASSUME NEW d \in Callers PROVE (Lone(d)' => Answering(d)') /\ Answered(d)'
        BY <1>1, CallerAnswering
    <2> QED
        BY <2>1, <2>2, <2>3, <2>4
<1>2. ASSUME NEW r \in Threads, Receive(r) PROVE IInv'
    <2>1. TypeOK' /\ Threading' /\ Looping'
        BY <1>2, ReceiveTypes, ReceiveThreading
    <2>2. UNCHANGED <<caller, told>> /\ waiting' \subseteq waiting
        BY <1>2 DEF Receive, RSocket, RConnect, RConnected, RRetry, RLeaveConnect, RLoop, REnter,
                    RRecv, RRecvEnd, RRecvFails, RProcess, RStore, RError, RClose, RClosed,
                    Signal, sync, daemon
    <2>3. \A k \in Threads : toServer'[k] = toServer[k] \/ toServer'[k] = <<>>
        <3>1. CASE RClose(r)
            <4>1. PICK to \in Closing : close_clientsocket(rpc[r], to)
                BY <3>1 DEF RClose
            <4> QED
                BY <4>1 DEF close_clientsocket, Up, TypeOK, DaemonOK
        <3>2. CASE ~RClose(r)
            BY <1>2, <3>2 DEF Receive, RSocket, RConnect, RConnected, RRetry, RLeaveConnect,
                    RLoop, REnter, RRecv, RRecvEnd, RRecvFails, RProcess, RStore, RError,
                    RClosed, wires
        <3> QED
            BY <3>1, <3>2
    <2>4. ASSUME NEW c \in Callers, Lone(c) PROVE Answering(c)'
        BY <1>2, <2>4, ReceiveAnswering
    <2> QED
        BY <2>1, <2>2, <2>3, <2>4, FewerCommands
<1>3. CASE Reconnect
    <2>1. TypeOK' /\ Threading' /\ Looping'
        BY <1>3, ServiceTypes, ServiceThreading DEF Reconnect
    <2>2. UNCHANGED <<caller, told, waiting>>
        BY <1>3 DEF Reconnect, ReconnectClose, ReconnectInit, daemon
    <2>3. \A k \in Threads : toServer'[k] = toServer[k] \/ toServer'[k] = <<>>
        <3>1. CASE ReconnectClose
            <4>1. PICK from : close_clientsocket(from, svc')
                BY <3>1 DEF ReconnectClose
            <4> QED
                BY <4>1 DEF close_clientsocket, Up, TypeOK, DaemonOK
        <3>2. CASE ReconnectInit
            BY <3>2 DEF ReconnectInit, wires
        <3> QED
            BY <1>3, <3>1, <3>2 DEF Reconnect
    <2>4. ASSUME NEW c \in Callers, Lone(c) PROVE Answering(c)'
        BY <1>3, <2>4, ServiceAnswering
    <2> QED
        BY <2>1, <2>2, <2>3, <2>4, FewerCommands
<1>4. ASSUME NEW k \in Threads, DAnswer(k) \/ DNotify(k) \/ DClose(k) PROVE IInv'
    <2>1. TypeOK'
        BY <1>4, DaemonTypes
    <2>2. Threading' /\ Looping'
        <3>1. UNCHANGED <<loop, connected, connectedsocket, rpc, rfd, service>>
            BY <1>4 DEF DAnswer, DNotify, DClose, globals, receiver
        <3>2. \A j \in Threads : link[j] # "NEW" => link'[j] # "NEW"
            BY <1>4 DEF DAnswer, DNotify, DClose, TypeOK, DaemonOK
        <3> QED
            BY <3>1, <3>2, SameThreading
    <2>3. ASSUME NEW c \in Callers, Lone(c) PROVE Answering(c)'
        BY <1>4, <2>3, DaemonAnswering
    <2>4. UNCHANGED <<caller, waiting>>
        BY <1>4 DEF DAnswer, DNotify, DClose, sync
    <2>5. \A j \in Threads : toServer'[j] = toServer[j] \/ toServer'[j] = <<>>
        BY <1>4 DEF DAnswer, DNotify, DClose, TypeOK, DaemonOK
    <2>6. ASSUME NEW c \in Callers, NoneOf(c) PROVE told'[c] = told[c]
        <3>1. CASE DAnswer(k)
            <4>1. toServer[k] \in Seq(Command) /\ toServer[k] # <<>>
                BY <3>1 DEF DAnswer, TypeOK, DaemonOK
            <4>2. 1 \in DOMAIN toServer[k] /\ Head(toServer[k]) = toServer[k][1]
                BY <4>1
            <4>3. Head(toServer[k]).by # c
                BY <2>6, <4>2 DEF NoneOf
            <4> QED
                BY <3>1, <4>3 DEF DAnswer, TypeOK, DaemonOK
        <3>2. CASE ~DAnswer(k)
            BY <1>4, <3>2 DEF DNotify, DClose, daemon
        <3> QED
            BY <3>1, <3>2
    <2> QED
        BY <2>1, <2>2, <2>3, <2>4, <2>5, <2>6, FewerCommands
<1>5. CASE UNCHANGED vars
    <2>1. UNCHANGED <<globals, shared, sync, caller, receiver, service, wires, daemon>>
        BY <1>5 DEF vars
    <2>2. TypeOK'
        BY <2>1, SameTypes DEF TypeOK, globals, shared, sync, service
    <2>3. Threading' /\ Looping'
        BY <2>1, SameThreading DEF globals, receiver, wires
    <2>4. ASSUME NEW c \in Callers, Lone(c) PROVE Answering(c)'
        BY <2>1, <2>4, SameAnswering DEF globals, sync, caller, receiver, wires, daemon
    <2> QED
        BY <2>1, <2>2, <2>3, <2>4, FewerCommands DEF sync, wires, daemon
<1> QED
    BY <1>1, <1>2, <1>3, <1>4, <1>5 DEF Next

\* The invariant always holds.
LEMMA Invariant == Spec => []IInv
BY InitIInv, NextIInv, PTL DEF Spec

\* The types are kept: no retry runs below -1, no thread is started that there
\* is no number for, and only results of the daemon are stored
\* (socketclient_interface.c:95-264).
THEOREM TypeCorrect == Spec => []TypeOK
<1>1. IInv => TypeOK
    BY DEF IInv
<1> QED
    BY <1>1, Invariant, PTL

\* However often the service reconnects, two receive threads are never inside
\* the receive loop together (socketclient_interface.c:196-264, :274).
THEOREM ReceiverCorrect == Spec => []OneReceiver
<1>1. IInv => OneReceiver
    BY DEF IInv, Threading, OneReceiver
<1> QED
    BY <1>1, Invariant, PTL

\* Whatever other calls there were and are to come, a call that meets none of
\* them gets the answer to its own command, or none
\* (socketclient_interface.c:336-398).
THEOREM AnswerCorrect == Spec => []AnswerWhenAlone
<1>1. IInv => AnswerWhenAlone
    BY DEF IInv, Answered, AnswerWhenAlone
<1> QED
    BY <1>1, Invariant, PTL
=============================================================================
