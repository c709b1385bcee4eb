---------------------------- MODULE SocketServer ----------------------------
(***************************************************************************)
(* socketserver.c and the part of statemachine.c it races with.  Two       *)
(* threads of the daemon share the mode and the client socket and take no  *)
(* lock: the socket thread serves a client's GETMODE and SETMODE, and the  *)
(* event thread, when gestures ask for it, toggles the mode and notifies   *)
(* the client.  Each access to what they share is a step.                  *)
(*                                                                         *)
(* The client connects, sends requests, reads and disconnects as it likes; *)
(* a new connection may be waiting in the backlog while the server still   *)
(* serves the old one.  A connection is a byte stream: recv() returns all  *)
(* that has arrived, and the server looks only at the command it begins    *)
(* with.  The buffer it reads into is never cleared and the client sends   *)
(* no terminating zero, so that behind a message lie the characters of the *)
(* longer ones before it.                                                  *)
(***************************************************************************)
EXTENDS Integers, Sequences, FiniteSets

CONSTANTS
    Commands,        \* the commands the client sends besides SETMODE
    SetValues,       \* the numbers it may ask for, of one or two characters
    MaxConns,        \* bound: connections in a behaviour
    MaxOutstanding,  \* requests the client sends before it reads a reply
    MaxNotify        \* bound: messages waiting for the client when the event
                     \*   thread starts a switch

ASSUME ServerAssumption ==
    /\ Commands \subseteq {"GETMODE", "POLL"}
    /\ SetValues \subseteq -9 .. 99
    /\ Commands # {} \/ SetValues # {}
    /\ MaxConns \in Nat /\ MaxOutstanding \in Nat /\ MaxNotify \in Nat

VARIABLES
    gCurMode,        \* statemachine.c:61
    clientSock,      \* socketserver.c:27
    fdOpen,          \* is the descriptor clientSock names open
    statechanged,    \* socketserver.c:26
    epc, ecur,       \* the event thread: where it is, the mode it read
    spc, sreq,       \* the socket thread: where it is, the request it serves,
    left,            \*   the digit that str holds behind a number of one
                     \*   character,
    sendstr,         \*   the reply it prepared in its buffer
    accepted,        \*   and the connections it has accepted
    alive,           \* the daemon runs
    conn,            \* the client's last connection,
    open,            \*   which of them it holds open,
    toServer, toClient,     \* what is on its way on each,
    outstanding,     \*   and its requests on the last that have no reply yet
    written, told    \* history: the modes written by the switch under way and
                     \*   since, the connection that was notified of the last

ethread == <<epc, ecur, statechanged>>
sthread == <<spc, sreq, left, sendstr, clientSock, fdOpen, accepted>>
channel == <<conn, open, toServer, toClient, outstanding>>
ghosts == <<written, told>>
vars == <<gCurMode, ethread, sthread, alive, channel, ghosts>>

MODE_NONE == 0              \* include/statemachine.h:21
MODE_NORMAL == 1
MODE_VOLUME == 2
Modes == {MODE_NONE, MODE_NORMAL, MODE_VOLUME}
Conns == 1 .. MaxConns
NoConn == 0                 \* clientSock == -1
NoTail == -1                \* no mode behind the return code in sendstr
NoDigit == -1               \* no digit behind the number in str

Requests == {[cmd |-> c, value |-> 0] : c \in Commands}
            \cup {[cmd |-> "SETMODE", value |-> v] : v \in SetValues}
Message == [kind: {"SUCCESS", "FAILURE", "NOTIFY"}, mode: Modes \cup {NoTail}]
IsReply(m) == m.kind # "NOTIFY"

TypeOK ==
    /\ gCurMode \in Modes
    /\ clientSock \in Conns \cup {NoConn}
    /\ fdOpen \in BOOLEAN
    /\ statechanged \in {0, 1}
    /\ epc \in {"frame", "read", "toggle", "notify", "getmode", "send"}
    /\ ecur \in Modes
    /\ spc \in {"accept", "recv", "get", "set", "reply", "close", "forget"}
    /\ sreq \in Requests
    /\ left \in NoDigit .. 9
    /\ sendstr \in Message
    /\ accepted \in Conns \cup {NoConn}
    /\ alive \in BOOLEAN
    /\ conn \in Conns \cup {NoConn}
    /\ open \in [Conns -> BOOLEAN]
    /\ toServer \in [Conns -> Seq(Requests)]
    /\ toClient \in [Conns -> Seq(Message)]
    /\ outstanding \in 0 .. MaxOutstanding
    /\ written \subseteq Modes /\ told \in Conns \cup {NoConn}

Init ==
    /\ gCurMode = MODE_NORMAL
    /\ clientSock = NoConn
    /\ fdOpen = FALSE
    /\ statechanged = 0
    /\ epc = "frame" /\ ecur = MODE_NORMAL
    /\ spc = "accept" /\ sreq = CHOOSE r \in Requests : TRUE
    /\ left = NoDigit
    /\ accepted = NoConn
    /\ sendstr = [kind |-> "SUCCESS", mode |-> NoTail]
    /\ alive = TRUE
    /\ conn = NoConn
    /\ open = [c \in Conns |-> FALSE]
    /\ toServer = [c \in Conns |-> <<>>]
    /\ toClient = [c \in Conns |-> <<>>]
    /\ outstanding = 0
    /\ written = {} /\ told = NoConn

-----------------------------------------------------------------------------
\* send() on clientSock: it fails on a closed descriptor, and where the client
\* has closed its end SIGPIPE, which nothing in the daemon handles, ends it.
SendFails == clientSock = NoConn \/ ~fdOpen
PeerGone == ~SendFails /\ ~open[clientSock]

Deliver(m) == toClient' = [toClient EXCEPT ![clientSock] = Append(@, m)]

Send(m) ==
    /\ IF SendFails \/ PeerGone THEN UNCHANGED toClient ELSE Deliver(m)
    /\ alive' = ~PeerGone
    /\ UNCHANGED <<conn, open, toServer, outstanding>>

-----------------------------------------------------------------------------
\* The event thread, checkAndSwitchMode: the gestures of this frame ask for a
\* switch (ModeMachine says when), and the mode is not MODE_NONE.
EFrame ==
    /\ epc = "frame"
    /\ conn # NoConn => Len(toClient[conn]) < MaxNotify
    /\ gCurMode # MODE_NONE
    /\ epc' = "read"
    /\ UNCHANGED <<gCurMode, ecur, statechanged, sthread, alive, channel, ghosts>>

\* It reads the mode once more, to see which of the two it is, ...
ERead ==
    /\ epc = "read"
    /\ ecur' = gCurMode
    /\ epc' = "toggle"
    /\ UNCHANGED <<gCurMode, statechanged, sthread, alive, channel, ghosts>>

\* Mutant: the next mode, without going round.
ToggleUp(mode) == mode + 1

Toggle(mode) == IF mode = MODE_NORMAL THEN MODE_VOLUME ELSE MODE_NORMAL

\* Mutant: the flag is not up when the notification is asked for.
EToggleFlagLate ==
    /\ epc = "toggle"
    /\ gCurMode' = IF ecur = MODE_NONE THEN gCurMode ELSE Toggle(ecur)
    /\ epc' = "notify"
    /\ written' = {gCurMode'} /\ told' = NoConn
    /\ UNCHANGED <<ecur, statechanged, sthread, alive, channel>>

\* ... and writes the other one.
EToggle ==
    /\ epc = "toggle"
    /\ gCurMode' = IF ecur = MODE_NONE THEN gCurMode ELSE Toggle(ecur)
    /\ statechanged' = 1
    /\ epc' = "notify"
    /\ written' = {gCurMode'} /\ told' = NoConn
    /\ UNCHANGED <<ecur, sthread, alive, channel>>

\* Mutant: the mode to report is the one read before the switch.
ENotifyStaleMode ==
    /\ epc = "notify"
    /\ IF clientSock = NoConn
       THEN epc' = "frame" /\ statechanged' = 0
       ELSE epc' = "send" /\ UNCHANGED statechanged
    /\ UNCHANGED <<gCurMode, ecur, sthread, alive, channel, ghosts>>

\* The functions return, and with them their variables go.
SwitchDone == epc' = "frame" /\ ecur' = MODE_NONE /\ written' = {}

\* CallBack_NotifyClientOnStateChange: without a client there is nothing to
\* do, and the caller takes statechanged back.
ENotify ==
    /\ epc = "notify"
    /\ statechanged' = IF clientSock = NoConn THEN 0 ELSE statechanged
    /\ IF clientSock = NoConn \/ statechanged = 0
       THEN SwitchDone
       ELSE epc' = "getmode" /\ UNCHANGED <<ecur, written>>
    /\ UNCHANGED <<gCurMode, sthread, alive, channel, told>>

EGetMode ==
    /\ epc = "getmode"
    /\ ecur' = gCurMode
    /\ epc' = "send"
    /\ UNCHANGED <<gCurMode, statechanged, sthread, alive, channel, ghosts>>

\* Sent or failed, statechanged is 0 afterwards.
ESend ==
    /\ epc = "send"
    /\ Send([kind |-> "NOTIFY", mode |-> ecur])
    /\ told' = IF SendFails \/ PeerGone THEN NoConn ELSE clientSock
    /\ statechanged' = 0
    /\ SwitchDone
    /\ UNCHANGED <<gCurMode, sthread>>

-----------------------------------------------------------------------------
\* The socket thread serves one connection at a time, in the order of the
\* backlog; the client may already have closed it.
SAccept ==
    /\ spc = "accept"
    /\ accepted < conn
    /\ accepted' = accepted + 1
    /\ clientSock' = accepted'
    /\ fdOpen' = TRUE
    /\ spc' = "recv"
    /\ UNCHANGED <<gCurMode, ethread, sreq, left, sendstr, alive, channel, ghosts>>

\* The second character of a number, and what recv() of a request, with more
\* requests behind it or without, leaves in its place: the last of the request
\* itself, a letter of the next one, or what was there
TwoCharacters(value) == value \notin 0 .. 9
LastDigit(value) == IF value < 0 THEN 0 - value ELSE value % 10

Behind(request, more) ==
    IF request.cmd = "SETMODE" /\ TwoCharacters(request.value) THEN LastDigit(request.value)
    ELSE IF more THEN NoDigit
    ELSE left

\* recv() returns all that has arrived; a command that is neither GETMODE nor
\* SETMODE is not answered.
SRecv ==
    /\ spc = "recv"
    /\ toServer[clientSock] # <<>>
    /\ sreq' = Head(toServer[clientSock])
    /\ left' = Behind(sreq', Len(toServer[clientSock]) > 1)
    /\ toServer' = [toServer EXCEPT ![clientSock] = <<>>]
    /\ spc' = IF sreq'.cmd = "GETMODE" THEN "get"
              ELSE IF sreq'.cmd = "SETMODE" THEN "set" ELSE "recv"
    /\ UNCHANGED <<gCurMode, ethread, sendstr, clientSock, fdOpen, accepted, alive,
                   conn, open, toClient, outstanding, ghosts>>

\* recv() returns 0: the client has closed its end
SRecvEnd ==
    /\ spc = "recv"
    /\ toServer[clientSock] = <<>>
    /\ ~open[clientSock]
    /\ spc' = "close"
    /\ UNCHANGED <<gCurMode, ethread, sreq, left, sendstr, clientSock, fdOpen, accepted,
                   alive, channel, ghosts>>

\* CMD_GETMODE
SGet ==
    /\ spc = "get"
    /\ sendstr' = [kind |-> "SUCCESS", mode |-> gCurMode]
    /\ spc' = "reply"
    /\ UNCHANGED <<gCurMode, ethread, sreq, left, clientSock, fdOpen, accepted, alive,
                   channel, ghosts>>

isValidMode(value) == value \in Modes

\* atoi(): the number of the request, and the digit left behind it
atoi(value) == IF ~TwoCharacters(value) /\ left # NoDigit THEN 10 * value + left ELSE value

\* The return code overwrites only the beginning of sendstr, so that a mode
\* behind it from an earlier GETMODE stays.
ReturnCode(code) == [kind |-> code, mode |-> sendstr.mode]

SwtichToNewMode(mode) ==
    /\ gCurMode' = mode
    /\ written' = IF epc \in {"notify", "getmode", "send"} THEN written \cup {mode}
                  ELSE written

\* Mutant: an invalid value is not answered.
SSetSilent ==
    /\ spc = "set"
    /\ IF isValidMode(atoi(sreq.value))
       THEN /\ SwtichToNewMode(atoi(sreq.value))
            /\ sendstr' = ReturnCode("SUCCESS")
            /\ spc' = "reply"
       ELSE /\ spc' = "recv"
            /\ UNCHANGED <<gCurMode, sendstr, written>>
    /\ UNCHANGED <<ethread, sreq, left, clientSock, fdOpen, accepted, alive, channel, told>>

\* CMD_SETMODE
SSet ==
    /\ spc = "set"
    /\ IF isValidMode(atoi(sreq.value))
       THEN /\ SwtichToNewMode(atoi(sreq.value))
            /\ sendstr' = ReturnCode("SUCCESS")
       ELSE /\ sendstr' = ReturnCode("FAILURE")
            /\ UNCHANGED <<gCurMode, written>>
    /\ spc' = "reply"
    /\ UNCHANGED <<ethread, sreq, left, clientSock, fdOpen, accepted, alive, channel, told>>

\* Mutant: a GETMODE is answered again and again.
SReplyAgain ==
    /\ spc = "reply"
    /\ Send(sendstr)
    /\ spc' = IF sreq.cmd = "GETMODE" THEN "reply" ELSE "recv"
    /\ UNCHANGED <<gCurMode, ethread, sreq, left, sendstr, clientSock, fdOpen, accepted,
                   ghosts>>

SReply ==
    /\ spc = "reply"
    /\ Send(sendstr)
    /\ spc' = "recv"
    /\ UNCHANGED <<gCurMode, ethread, sreq, left, sendstr, clientSock, fdOpen, accepted,
                   ghosts>>

\* closeclientsocket: close() first, then the variable
SClose ==
    /\ spc = "close"
    /\ fdOpen' = FALSE
    /\ spc' = "forget"
    /\ UNCHANGED <<gCurMode, ethread, sreq, left, sendstr, clientSock, accepted, alive,
                   channel, ghosts>>

SForget ==
    /\ spc = "forget"
    /\ clientSock' = NoConn
    /\ spc' = "accept"
    /\ UNCHANGED <<gCurMode, ethread, sreq, left, sendstr, fdOpen, accepted, alive,
                   channel, ghosts>>

-----------------------------------------------------------------------------
\* The client (external)
CConnect ==
    /\ conn < MaxConns
    /\ conn # NoConn => ~open[conn]
    /\ conn' = conn + 1
    /\ open' = [open EXCEPT ![conn + 1] = TRUE]
    /\ outstanding' = 0
    /\ UNCHANGED <<toServer, toClient>>

CSend ==
    /\ conn # NoConn /\ open[conn]
    /\ outstanding < MaxOutstanding
    /\ \E r \in Requests : toServer' = [toServer EXCEPT ![conn] = Append(@, r)]
    /\ outstanding' = outstanding + 1
    /\ UNCHANGED <<conn, open, toClient>>

CReceive ==
    /\ conn # NoConn /\ open[conn]
    /\ toClient[conn] # <<>>
    /\ outstanding' = IF IsReply(Head(toClient[conn])) THEN outstanding - 1
                      ELSE outstanding
    /\ toClient' = [toClient EXCEPT ![conn] = Tail(@)]
    /\ UNCHANGED <<conn, open, toServer>>

CDisconnect ==
    /\ conn # NoConn /\ open[conn]
    /\ open' = [open EXCEPT ![conn] = FALSE]
    /\ toClient' = [toClient EXCEPT ![conn] = <<>>]
    /\ UNCHANGED <<conn, toServer, outstanding>>

-----------------------------------------------------------------------------
SocketThread == SAccept \/ SRecv \/ SRecvEnd \/ SGet \/ SSet \/ SReply
                \/ SClose \/ SForget
daemon == <<gCurMode, ethread, sthread, alive, ghosts>>

\* A process that has ended takes no step, and with it the model ends.
Next ==
    \/ alive /\ EFrame
    \/ alive /\ ERead
    \/ alive /\ EToggle
    \/ alive /\ ENotify
    \/ alive /\ EGetMode
    \/ alive /\ ESend
    \/ alive /\ SAccept
    \/ alive /\ SRecv
    \/ alive /\ SRecvEnd
    \/ alive /\ SGet
    \/ alive /\ SSet
    \/ alive /\ SReply
    \/ alive /\ SClose
    \/ alive /\ SForget
    \/ alive /\ CConnect /\ UNCHANGED daemon
    \/ alive /\ CSend /\ UNCHANGED daemon
    \/ alive /\ CReceive /\ UNCHANGED daemon
    \/ alive /\ CDisconnect /\ UNCHANGED daemon

\* The scheduler runs both threads; a gesture need not come and the client
\* need do nothing.
Fairness ==
    /\ WF_vars(alive /\ SocketThread)
    /\ WF_vars(alive /\ (ERead \/ EToggle \/ ENotify \/ EGetMode \/ ESend))

Spec == Init /\ [][Next]_vars /\ Fairness

-----------------------------------------------------------------------------
\* Properties that hold.

\* A notification tells a mode that was written by the switch it is about or
\* after it, whatever the socket thread does meanwhile
\* (statemachine.c:186-206, socketserver.c:259).
NotifyIsNotStale == epc = "send" => ecur \in written

RepliesIn(queue) == {i \in 1 .. Len(queue) : IsReply(queue[i])}
Replies == Cardinality(RepliesIn(toClient[conn]))
Served == IF clientSock = conn /\ spc \in {"get", "set", "reply"} THEN 1 ELSE 0

\* There is at most one reply for each request: none is sent for a request of
\* an earlier connection, and a notification never stands in for one
\* (socketserver.c:127-206).
RepliesFollowRequests ==
    conn # NoConn /\ open[conn] => Replies + Served + Len(toServer[conn]) <= outstanding

\* A client that has sent requests and waits gets a reply to them, as long as
\* it stays connected, the daemon lives and the command is not CMD_POLL, which
\* the header defines and the server does not answer; to requests that are read
\* together it is one (socketserver.c:108-214).
RequestAnswered ==
    \A c \in Conns :
        conn = c /\ toServer[c] # <<>> /\ outstanding = Len(toServer[c]) /\ open[c]
            ~> \/ ~alive \/ ~open[c]
               \/ clientSock = c /\ sreq.cmd = "POLL"
               \/ \E i \in 1 .. Len(toClient[c]) : IsReply(toClient[c][i])

\* The client whose connection the server is on after a switch is sent a
\* notification on that connection, whatever the socket thread does meanwhile,
\* unless it closes the connection or the daemon ends (statemachine.c:204-212,
\* socketserver.c:233-280).  A client still in the backlog is sent none.
SwitchIsTold ==
    \A c \in Conns :
        epc = "notify" /\ clientSock = c ~> told = c \/ ~open[c] \/ ~alive

-----------------------------------------------------------------------------
\* A statement of the source that the code does not meet.

\* statemachine.c:166, "Unipoint is disabled, no mode switch allowed from
\* user": the event thread does not change the mode of a disabled pad.
NoSwitchWhileDisabled ==
    [][EToggle /\ gCurMode = MODE_NONE => gCurMode' = MODE_NONE]_vars
=============================================================================
