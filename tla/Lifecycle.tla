------------------------------ MODULE Lifecycle -----------------------------
(***************************************************************************)
(* Start-up and shutdown of the daemon: main() and its SIGINT handler, the *)
(* set-up, loop and teardown of the event thread (event_loop), and the     *)
(* frame of the socket thread, with the file descriptors they open and     *)
(* close.  A new descriptor gets the lowest free number, so that a number  *)
(* that is closed twice may have become somebody else's in between.        *)
(*                                                                         *)
(* The signal is delivered to the main thread, which the kernel prefers    *)
(* and which waits in pthread_join.  accept() and recv() are restarted     *)
(* after it and are not woken by a close() of another thread.  What the    *)
(* frames and requests do is the subject of the other modules.             *)
(***************************************************************************)
EXTENDS Integers, FiniteSets, FiniteSetsExt

CONSTANTS
    Fds,         \* bound: the descriptors of the process, a set of numbers
    MaxClients,  \* bound: connections made
    MaxSignals   \* bound: SIGINTs sent

ASSUME LifecycleAssumption ==
    /\ Fds \subseteq Nat /\ IsFiniteSet(Fds) /\ Cardinality(Fds) >= 6
    /\ MaxClients \in Nat /\ MaxSignals \in Nat

VARIABLES
    do_event_loop,  \* event_handler.c:46
    clientSock,     \* socketserver.c:27, a descriptor or -1
    fds,            \* what each descriptor refers to
    kept,           \* the descriptors the event thread and the socket thread
                    \*   keep in their locals, or -1
    handles,        \* the pointer in event_loop and the memory behind it
    main, handler, event, socket,  \* program counters
    fate,           \* the process runs, has exited or was killed
    devicePresent,  \* there is a device node
    peer, request,  \* the client's side, and has it sent a request
    clients, signals,              \* connections made, SIGINTs sent
    tested,         \* history: the connection the handler found open
    ran,            \* history: the event thread reached its loop
    hitSetup,       \* history: before that a SIGINT came or a connection was
                    \*   closed
    noMemory,       \* history: a calloc() of event_handles_init failed
    strayClose,     \* history: closeclientsocket closed something else
    late            \* history: frames and clients served after the SIGINT

vars == <<do_event_loop, clientSock, fds, kept, handles, main, handler, event,
          socket, fate, devicePresent, peer, request, clients, signals, tested, ran,
          hitSetup, noMemory, strayClose, late>>

history == <<tested, ran, hitSetup, noMemory, strayClose, late>>
outside == <<devicePresent, peer, request, clients, signals>>

File(kind) == [kind |-> kind, no |-> 0]
Client(k) == [kind |-> "client", no |-> k]
Clients == {Client(k) : k \in 1 .. MaxClients}
Files == {File(f) : f \in {"dir", "uinput", "sample", "device", "server"}} \cup Clients
Free == File("free")
Keepable == {"uinput", "device", "server"}

SetUp == {"unborn", "search", "uinput", "handles", "permission", "open"}

\* One descriptor for each open file
DescriptorsOK ==
    /\ fds \in [Fds -> Files \cup {Free}]
    /\ \A d, e \in Fds : fds[d] = fds[e] /\ fds[d] # Free => d = e

ControlOK ==
    /\ main \in {"spawn event", "spawn socket", "signal", "join event", "join socket", "done"}
    /\ handler \in {"idle", "test", "close", "forget"}
    /\ event \in SetUp \cup {"test", "poll", "close", "destroy", "free", "ended"}
    /\ socket \in {"unborn", "bind", "test", "accept", "recv", "blocked", "send",
                   "close1", "close2", "close3", "bail", "ended"}
    /\ fate \in {"running", "exited", "killed"}

TypeOK ==
    /\ DescriptorsOK /\ ControlOK
    /\ do_event_loop \in {0, 1} /\ clientSock \in Fds \cup {-1}
    /\ kept \in [Keepable -> Fds \cup {-1}]
    /\ handles \in {"NULL", "live", "dangling", "freed", "freed twice"}
    /\ peer \in {"absent", "connecting", "connected"}
    /\ clients \in 0 .. MaxClients /\ signals \in 0 .. MaxSignals

Init ==
    /\ do_event_loop = 1 /\ clientSock = -1
    /\ fds = [d \in Fds |-> Free] /\ kept = [f \in Keepable |-> -1]
    /\ handles = "NULL"
    /\ main = "spawn event" /\ handler = "idle"
    /\ event = "unborn" /\ socket = "unborn"
    /\ fate = "running"
    /\ devicePresent = FALSE /\ peer = "absent" /\ request = FALSE
    /\ clients = 0 /\ signals = 0
    /\ tested = Free /\ ran = FALSE /\ hitSetup = FALSE /\ noMemory = FALSE
    /\ strayClose = FALSE /\ late = [frames |-> 0, clients |-> 0]

-----------------------------------------------------------------------------
\* Descriptors
Lowest(table) == Min({d \in Fds : table[d] = Free})
Opened(table, file) == [table EXCEPT ![Lowest(table)] = file]
Keep(f) == kept' = [kept EXCEPT ![f] = Lowest(fds)]

\* A file is closed by its number, whatever that has become.
Closed(table, d) == IF d = -1 THEN table ELSE [table EXCEPT ![d] = Free]
IsOpen(file) == \E d \in Fds : fds[d] = file

\* What clientSock refers to
Connection == IF clientSock = -1 THEN Free ELSE fds[clientSock]

\* The three steps of closeclientsocket(): the test, close(), the assignment.
\* A message is printed between the first two, so the variable is read again.
CloseClient(expected) ==
    /\ fds' = Closed(fds, clientSock)
    /\ strayClose' = (strayClose \/ Connection \notin ({expected} \cap Clients) \cup {Free})

-----------------------------------------------------------------------------
\* main(): two threads, the handler, two joins
MainStep(from, to) ==
    /\ fate = "running" /\ handler = "idle"
    /\ main = from /\ main' = to
    /\ UNCHANGED <<do_event_loop, clientSock, fds, kept, handles, handler, outside, history>>

SpawnEvent ==
    /\ MainStep("spawn event", "spawn socket")
    /\ event' = "search"
    /\ UNCHANGED <<socket, fate>>

SpawnSocket ==
    /\ MainStep("spawn socket", "signal")
    /\ socket' = "bind"
    /\ UNCHANGED <<event, fate>>

InstallHandler ==
    /\ MainStep("signal", "join event")
    /\ UNCHANGED <<event, socket, fate>>

JoinEvent ==
    /\ event = "ended"
    /\ MainStep("join event", "join socket")
    /\ UNCHANGED <<event, socket, fate>>

JoinSocket ==
    /\ socket = "ended"
    /\ MainStep("join socket", "done")
    /\ fate' = "exited"
    /\ UNCHANGED <<event, socket>>

Main == SpawnEvent \/ SpawnSocket \/ InstallHandler \/ JoinEvent \/ JoinSocket

\* Mutant: the handler closes the connection and leaves the flag alone.
InterruptKeepsFlag ==
    /\ fate = "running" /\ signals < MaxSignals /\ handler = "idle"
    /\ main \notin {"spawn event", "spawn socket", "signal"}
    /\ signals' = signals + 1 /\ handler' = "test"
    /\ hitSetup' = (hitSetup \/ event \in SetUp)
    /\ UNCHANGED <<do_event_loop, clientSock, fds, kept, handles, main, event, socket,
                   fate, devicePresent, peer, request, clients, tested, ran, noMemory,
                   strayClose, late>>

\* SIGINT: the default action before the handler is installed; with it the
\* flag is cleared first.
Interrupt ==
    /\ fate = "running" /\ signals < MaxSignals /\ handler = "idle"
    /\ signals' = signals + 1
    /\ IF main \in {"spawn event", "spawn socket", "signal"}
       THEN fate' = "killed" /\ UNCHANGED <<do_event_loop, handler, hitSetup>>
       ELSE /\ do_event_loop' = 0 /\ handler' = "test"
            /\ hitSetup' = (hitSetup \/ event \in SetUp)
            /\ UNCHANGED fate
    /\ UNCHANGED <<clientSock, fds, kept, handles, main, event, socket, devicePresent, peer,
                   request, clients, tested, ran, noMemory, strayClose, late>>

HandlerStep ==
    /\ fate = "running"
    /\ UNCHANGED <<do_event_loop, kept, handles, main, event, socket, fate, outside,
                   ran, hitSetup, noMemory, late>>

HTest ==
    /\ handler = "test" /\ HandlerStep
    /\ handler' = IF clientSock # -1 THEN "close" ELSE "idle"
    /\ tested' = Connection
    /\ UNCHANGED <<clientSock, fds, strayClose>>

HClose ==
    /\ handler = "close" /\ HandlerStep
    /\ CloseClient(tested)
    /\ handler' = "forget"
    /\ UNCHANGED <<clientSock, tested>>

HForget ==
    /\ handler = "forget" /\ HandlerStep
    /\ clientSock' = -1 /\ handler' = "idle"
    /\ UNCHANGED <<fds, tested, strayClose>>

serverhandler == HTest \/ HClose \/ HForget

-----------------------------------------------------------------------------
\* event_loop()
EventStep(from, to) ==
    /\ fate = "running"
    /\ event = from /\ event' = to
    /\ UNCHANGED <<do_event_loop, clientSock, main, handler, socket, outside,
                   tested, hitSetup, strayClose>>

\* unipoint_dev_path: without the directory of the input devices the process
\* exits; the directory is never closed.
ESearch ==
    \/ /\ EventStep("search", "uinput")
       /\ fds' = Opened(fds, File("dir"))
       /\ UNCHANGED <<kept, handles, fate, ran, noMemory, late>>
    \/ /\ EventStep("search", "ended")
       /\ fate' = "exited"
       /\ UNCHANGED <<fds, kept, handles, ran, noMemory, late>>

\* uinput_gen_setup: the uinput device and, if asked for, a sample file.  The
\* device is closed when its capabilities cannot be set, and stays open when it
\* cannot be created.
EUinput ==
    \E result \in {"ok", "no device", "no capabilities", "not created"}, sample \in BOOLEAN :
        /\ EventStep("uinput", IF result = "ok" THEN "handles" ELSE "free")
        /\ LET first == IF result = "no device" THEN fds ELSE Opened(fds, File("uinput"))
               both  == IF sample THEN Opened(first, File("sample")) ELSE first
           IN  fds' = IF result = "no capabilities" THEN Closed(both, Lowest(fds)) ELSE both
        /\ IF result = "no device" THEN UNCHANGED kept ELSE Keep("uinput")
        /\ UNCHANGED <<handles, fate, ran, noMemory, late>>

\* event_handles_init: what it could allocate is freed when the rest fails, and
\* the caller's pointer still points to it.
EHandles ==
    \E result \in {"live", "NULL", "dangling"} :
        /\ EventStep("handles", IF result = "live" THEN "permission" ELSE "free")
        /\ handles' = result
        /\ noMemory' = (result = "dangling")
        /\ UNCHANGED <<fds, kept, fate, ran, late>>

\* update_permission: wait for the device node
EPermission ==
    /\ devicePresent
    /\ EventStep("permission", "open")
    /\ UNCHANGED <<fds, kept, handles, fate, ran, noMemory, late>>

\* event_setup_input_dev: it may fail with the stream open (setvbuf) or not
EOpen ==
    \/ /\ EventStep("open", "test")
       /\ fds' = Opened(fds, File("device")) /\ Keep("device")
       /\ ran' = TRUE
       /\ UNCHANGED <<handles, fate, noMemory, late>>
    \/ /\ EventStep("open", "free")
       /\ \/ fds' = Opened(fds, File("device")) /\ Keep("device")
          \/ UNCHANGED <<fds, kept>>
       /\ UNCHANGED <<handles, fate, ran, noMemory, late>>

ETest ==
    /\ EventStep("test", IF do_event_loop = 1 THEN "poll" ELSE "close")
    /\ UNCHANGED <<fds, kept, handles, fate, ran, noMemory, late>>

\* poll() returns, with a frame or an error, and the turn is completed
EPoll ==
    /\ EventStep("poll", "test")
    /\ late' = IF do_event_loop = 0
               THEN [frames |-> late.frames + 1, clients |-> late.clients] ELSE late
    /\ UNCHANGED <<fds, kept, handles, fate, ran, noMemory>>

EClose ==
    /\ EventStep("close", "destroy")
    /\ fds' = Closed(fds, kept["device"])
    /\ UNCHANGED <<kept, handles, fate, ran, noMemory, late>>

\* Mutant: the label in front of uinput_destroy is passed over here, too.
EDestroySkipped ==
    /\ EventStep("destroy", "free")
    /\ UNCHANGED <<fds, kept, handles, fate, ran, noMemory, late>>

EDestroy ==
    /\ EventStep("destroy", "free")
    /\ fds' = Closed(fds, kept["uinput"])
    /\ UNCHANGED <<kept, handles, fate, ran, noMemory, late>>

\* event_handles_free, for a pointer that is not NULL
EFree ==
    /\ EventStep("free", "ended")
    /\ handles' = IF handles = "NULL" THEN "NULL"
                  ELSE IF handles = "live" THEN "freed" ELSE "freed twice"
    /\ UNCHANGED <<fds, kept, fate, ran, noMemory, late>>

\* The steps that wait for nobody
Event == ESearch \/ EUinput \/ EHandles \/ EOpen \/ ETest \/ EClose \/ EDestroy \/ EFree

-----------------------------------------------------------------------------
\* socketthread()
SocketStep(from, to) ==
    /\ fate = "running"
    /\ socket = from /\ socket' = to
    /\ UNCHANGED <<do_event_loop, handles, main, handler, event, devicePresent, clients,
                   signals, tested, ran, noMemory>>
    /\ hitSetup' = (hitSetup \/ (from = "close2" /\ event \in SetUp))

\* socket(), bind(), listen()
SBind ==
    \/ /\ \E to \in {"test", "bail"} : SocketStep("bind", to)
       /\ fds' = Opened(fds, File("server")) /\ Keep("server")
       /\ UNCHANGED <<clientSock, fate, peer, request, strayClose, late>>
    \/ /\ SocketStep("bind", "ended")
       /\ UNCHANGED <<clientSock, fds, kept, fate, peer, request, strayClose, late>>

\* Mutant: while(1).
STestNever ==
    /\ SocketStep("test", "accept")
    /\ UNCHANGED <<clientSock, fds, kept, fate, peer, request, strayClose, late>>

STest ==
    /\ SocketStep("test", IF do_event_loop = 1 THEN "accept" ELSE "bail")
    /\ UNCHANGED <<clientSock, fds, kept, fate, peer, request, strayClose, late>>

SAccept ==
    \/ /\ SocketStep("accept", "recv")
       /\ peer = "connecting" /\ peer' = "connected"
       /\ fds' = Opened(fds, Client(clients))
       /\ clientSock' = Lowest(fds)
       /\ late' = IF do_event_loop = 0
                  THEN [frames |-> late.frames, clients |-> late.clients + 1] ELSE late
       /\ UNCHANGED <<kept, fate, request, strayClose>>
    \/ /\ SocketStep("accept", "bail")
       /\ peer = "connecting" /\ peer' = "absent"
       /\ clientSock' = -1
       /\ UNCHANGED <<fds, kept, fate, request, strayClose, late>>

\* Mutant: a failed recv() is tried again.
SRecvAgain ==
    /\ SocketStep("recv", IF Connection = Client(clients) THEN "blocked" ELSE "recv")
    /\ UNCHANGED <<clientSock, fds, kept, fate, peer, request, strayClose, late>>

\* recv() on a closed descriptor fails; else it blocks, and keeps the connection
\* whatever becomes of the descriptor.
SRecv ==
    /\ SocketStep("recv", IF Connection = Client(clients) THEN "blocked" ELSE "close1")
    /\ UNCHANGED <<clientSock, fds, kept, fate, peer, request, strayClose, late>>

SReceived ==
    /\ request \/ peer = "absent"
    /\ SocketStep("blocked", IF request THEN "send" ELSE "close1")
    /\ request' = FALSE
    /\ UNCHANGED <<clientSock, fds, kept, fate, peer, strayClose, late>>

\* The reply, if the command is known.  A peer that has gone ends the process by
\* SIGPIPE, a closed descriptor the service of this client.
SSend ==
    \/ /\ SocketStep("send", "recv")
       /\ UNCHANGED <<clientSock, fds, kept, fate, peer, request, strayClose, late>>
    \/ /\ Connection = Client(clients) /\ peer # "connected"
       /\ SocketStep("send", "send")
       /\ fate' = "killed"
       /\ UNCHANGED <<clientSock, fds, kept, peer, request, strayClose, late>>
    \/ /\ Connection # Client(clients)
       /\ SocketStep("send", "close1")
       /\ UNCHANGED <<clientSock, fds, kept, fate, peer, request, strayClose, late>>

SClose1 ==
    /\ SocketStep("close1", IF clientSock # -1 THEN "close2" ELSE "test")
    /\ UNCHANGED <<clientSock, fds, kept, fate, peer, request, strayClose, late>>

SClose2 ==
    /\ SocketStep("close2", "close3")
    /\ CloseClient(Client(clients))
    /\ UNCHANGED <<clientSock, kept, fate, peer, request, late>>

\* Mutant: the variable is set to zero.
SClose3Zero ==
    /\ SocketStep("close3", "test")
    /\ clientSock' = 0
    /\ UNCHANGED <<fds, kept, fate, peer, request, strayClose, late>>

SClose3 ==
    /\ SocketStep("close3", "test")
    /\ clientSock' = -1
    /\ UNCHANGED <<fds, kept, fate, peer, request, strayClose, late>>

SBail ==
    /\ SocketStep("bail", "ended")
    /\ fds' = Closed(fds, kept["server"])
    /\ UNCHANGED <<clientSock, kept, fate, peer, request, strayClose, late>>

Socket == SBind \/ STest \/ SAccept \/ SRecv \/ SReceived \/ SSend
          \/ SClose1 \/ SClose2 \/ SClose3 \/ SBail

-----------------------------------------------------------------------------
\* The outside: the device node, and one client after the other
OutsideStep ==
    /\ fate = "running"
    /\ UNCHANGED <<do_event_loop, clientSock, fds, kept, handles, main, handler, event,
                   socket, fate, signals, history>>

DeviceAppears ==
    /\ OutsideStep /\ ~devicePresent
    /\ devicePresent' = TRUE
    /\ UNCHANGED <<peer, request, clients>>

Connect ==
    /\ OutsideStep /\ peer = "absent" /\ socket = "accept" /\ clients < MaxClients
    /\ peer' = "connecting" /\ clients' = clients + 1
    /\ UNCHANGED <<devicePresent, request>>

Request ==
    /\ OutsideStep /\ peer = "connected" /\ ~request
    /\ request' = TRUE
    /\ UNCHANGED <<devicePresent, peer, clients>>

Disconnect ==
    /\ OutsideStep /\ peer = "connected"
    /\ peer' = "absent"
    /\ UNCHANGED <<devicePresent, request, clients>>

Next == Main \/ Interrupt \/ serverhandler \/ Event \/ EPermission \/ EPoll \/ Socket
        \/ DeviceAppears \/ Connect \/ Request \/ Disconnect

\* The three threads and the handler run; nobody has to send a signal, a frame
\* or a request.
Fairness == WF_vars(Main) /\ WF_vars(serverhandler) /\ WF_vars(Event)
            /\ WF_vars(EPermission) /\ WF_vars(Socket)

Spec == Init /\ [][Next]_vars /\ Fairness

-----------------------------------------------------------------------------
\* Properties that hold.

\* closeclientsocket() closes the client connection it has found open or
\* nothing, although the handler and the socket thread run it at the same time
\* and the number may have been given away in between; only if the SIGINT comes
\* or a connection is closed while the event thread still opens its files may
\* it hit one of these (socketserver.c:58-68, main.c:26-32).
ClosesWhatItTested == strayClose => hitSetup

\* An event thread that has come to its loop leaves neither device open at its
\* end, and its memory is freed once on every path but that of a failed
\* calloc() (event_handler.c:525-553, 125-179).
CleanEnd ==
    event = "ended" /\ fate = "running" =>
        /\ ran => ~IsOpen(File("device")) /\ ~IsOpen(File("uinput"))
        /\ handles \in {"NULL", "freed"} \/ noMemory

\* After the SIGINT the event thread handles at most the frame it waits for and
\* the socket thread serves at most the client it waits for
\* (event_handler.c:542, socketserver.c:108).
LittleLateWork == late.frames <= 1 /\ late.clients <= 1

\* Frames keep coming, the device node appears, and clients come and go: a
\* client is there to be accepted whenever the socket thread waits for one.
OutsideActive ==
    /\ WF_vars(DeviceAppears) /\ WF_vars(EPoll)
    /\ WF_vars(Connect) /\ WF_vars(Disconnect)
    /\ []<>(clients < MaxClients \/ socket # "accept")

\* Then a SIGINT ends the process (main.c:26-32, 80-88); without them it need
\* not, as poll(), accept() and recv() wait for ever.
EndsWhenServed == OutsideActive => (do_event_loop = 0 ~> fate # "running")
=============================================================================
