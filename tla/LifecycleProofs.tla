--------------------------- MODULE LifecycleProofs --------------------------
(***************************************************************************)
(* For any number of clients and signals and any set of at least six       *)
(* descriptors: the process never runs out of descriptors and keeps its    *)
(* types, closeclientsocket() closes no file of another thread unless it   *)
(* runs during the set-up of the event thread, the event thread cleans up  *)
(* behind itself, and little is done after the SIGINT.                     *)
(***************************************************************************)
EXTENDS Lifecycle, FiniteSetTheorems, WellFoundedInduction, TLAPS

Serving == {"recv", "blocked", "send", "close1", "close2", "close3"}

\* What may be open at a time: one file of each kind, and the last client
Places(k) == {File("dir"), File("uinput"), File("sample"), File("device"),
              File("server"), Client(k)}

\* The threads have not started before main() starts them.
Starting ==
    /\ main = "spawn event" => event = "unborn"
    /\ main \in {"spawn event", "spawn socket"} => socket = "unborn"

\* Nothing is open that has not been opened yet, and only one client.
Table ==
    /\ \A d \in Fds : fds[d] \in Places(clients) \cup {Free}
    /\ event \in {"unborn", "search"} => ~IsOpen(File("dir"))
    /\ event \in {"unborn", "search", "uinput"}
          => ~IsOpen(File("uinput")) /\ ~IsOpen(File("sample"))
    /\ event \in SetUp => ~IsOpen(File("device"))
    /\ socket \in {"unborn", "bind"} => ~IsOpen(File("server"))

\* An open file has the number its thread keeps.
Keeping == \A f \in Keepable, d \in Fds : fds[d] = File(f) => kept[f] = d

\* The variable names a descriptor only while a client is served, and the
\* client's is no other.
Socketing ==
    /\ clientSock # -1 => socket \in Serving
    /\ \A d \in Fds : fds[d] = Client(clients) => clientSock = d
    /\ peer # "absent" \/ socket \in Serving => clients > 0
    /\ socket = "close3" \/ handler = "forget" => Connection # Client(clients)

\* The handler runs after the flag is cleared; once it has seen a client the
\* socket thread accepts no other.
Handling ==
    /\ handler # "idle" => do_event_loop = 0
    /\ handler \in {"close", "forget"}
          => socket \in Serving \cup {"test", "bail", "ended"}

\* Which descriptor the handler and the socket thread may close, unless the
\* event thread was disturbed in its set-up
Undisturbed ==
    /\ do_event_loop = 0 /\ event \in SetUp => hitSetup
    /\ ~hitSetup /\ clientSock # -1 => Connection \in {Client(clients), Free}
    /\ ~hitSetup /\ clientSock # -1 /\ event \in SetUp => Connection # Free
    /\ ~hitSetup /\ handler = "close" => Connection \in {tested, Free}
    /\ ClosesWhatItTested

\* The memory and the files of the event thread at each place of its code
CleaningUp ==
    /\ event \in {"unborn", "search", "uinput", "handles"} => handles = "NULL"
    /\ event \in {"permission", "open", "test", "poll", "close", "destroy"}
          => handles = "live"
    /\ event = "free" => handles \in {"NULL", "live"} \/ noMemory
    /\ event = "ended" => handles \in {"NULL", "freed"} \/ noMemory
    /\ ran => event \notin SetUp
    /\ ran /\ event \in {"destroy", "free", "ended"} => ~IsOpen(File("device"))
    /\ ran /\ event \in {"free", "ended"} => ~IsOpen(File("uinput"))

\* The flags of the history are flags.
Flags == ran \in BOOLEAN /\ hitSetup \in BOOLEAN /\ noMemory \in BOOLEAN
         /\ strayClose \in BOOLEAN

\* What was done after the SIGINT
Late ==
    /\ late \in [frames: {0, 1}, clients: {0, 1}]
    /\ late.frames = 1 => do_event_loop = 0
                          /\ event \in {"test", "close", "destroy", "free", "ended"}
    /\ late.clients = 1 => do_event_loop = 0
                           /\ socket \in Serving \cup {"test", "bail", "ended"}

\* The inductive invariant.
IInv == TypeOK /\ Flags /\ Starting /\ Table /\ Keeping /\ Socketing /\ Handling
        /\ Undisturbed /\ CleaningUp /\ Late

-----------------------------------------------------------------------------
\* A set of natural numbers that is not empty has a least element.
LEMMA LeastNumber ==
    ASSUME NEW S \in SUBSET Nat, S # {}
    PROVE  Min(S) \in S
<1> DEFINE R == OpToRel(<, Nat)
<1>1. IsWellFoundedOn(R, Nat)
    BY NatLessThanWellFounded
<1>2. R = {ss \in Nat \X Nat : ss[1] < ss[2]}
    BY DEF OpToRel
<1> HIDE DEF R
<1>3. PICK x \in S : \A y \in S : <<y, x>> \notin R
    BY <1>1, WFMin
<1>4. ASSUME NEW y \in S PROVE x <= y
    <2>1. x \in Nat /\ y \in Nat
        OBVIOUS
    <2>2. ~(<<y, x>>[1] < <<y, x>>[2])
        BY <1>2, <1>3, <2>1
    <2> QED
        BY <2>1, <2>2
<1> QED
    BY <1>4 DEF Min

\* Files of different kinds, and clients of different numbers, differ.
LEMMA Distinct ==
    /\ \A f, g : File(f) = File(g) => f = g
    /\ \A f, k : f # "client" => File(f) # Client(k)
    /\ \A j, k : Client(j) = Client(k) => j = k
BY DEF File, Client

\* One more element
LEMMA OneMore ==
    ASSUME NEW S, NEW n \in Nat, IsFiniteSet(S), Cardinality(S) <= n, NEW x
    PROVE  IsFiniteSet(S \cup {x}) /\ Cardinality(S \cup {x}) <= n + 1
<1>1. Cardinality(S) \in Nat
    BY FS_CardinalityType
<1>2. /\ IsFiniteSet(S \cup {x})
      /\ Cardinality(S \cup {x}) = IF x \in S THEN Cardinality(S) ELSE Cardinality(S) + 1
    BY FS_AddElement
<1> QED
    BY <1>1, <1>2

\* Besides one of the files there is room for five.
LEMMA FivePlaces ==
    ASSUME NEW k, NEW f \in Places(k)
    PROVE  /\ IsFiniteSet(Places(k) \ {f})
           /\ Cardinality(Places(k) \ {f}) \in Nat
           /\ Cardinality(Places(k) \ {f}) <= 5
<1> DEFINE S1 == {File("dir")}
           S2 == S1 \cup {File("uinput")}
           S3 == S2 \cup {File("sample")}
           S4 == S3 \cup {File("device")}
           S5 == S4 \cup {File("server")}
           S6 == S5 \cup {Client(k)}
<1>1. IsFiniteSet(S1) /\ Cardinality(S1) <= 1
    <2>1. IsFiniteSet(S1) /\ Cardinality(S1) = 1
        BY FS_Singleton
    <2> QED
        BY <2>1
<1>2. IsFiniteSet(S2) /\ Cardinality(S2) <= 2
    <2> HIDE DEF S1
    <2>1. IsFiniteSet(S2) /\ Cardinality(S2) <= 1 + 1
        BY <1>1, OneMore
    <2> QED
        BY <2>1
<1>3. IsFiniteSet(S3) /\ Cardinality(S3) <= 3
    <2> HIDE DEF S2
    <2>1. IsFiniteSet(S3) /\ Cardinality(S3) <= 2 + 1
        BY <1>2, OneMore
    <2> QED
        BY <2>1
<1>4. IsFiniteSet(S4) /\ Cardinality(S4) <= 4
    <2> HIDE DEF S3
    <2>1. IsFiniteSet(S4) /\ Cardinality(S4) <= 3 + 1
        BY <1>3, OneMore
    <2> QED
        BY <2>1
<1>5. IsFiniteSet(S5) /\ Cardinality(S5) <= 5
    <2> HIDE DEF S4
    <2>1. IsFiniteSet(S5) /\ Cardinality(S5) <= 4 + 1
        BY <1>4, OneMore
    <2> QED
        BY <2>1
<1>6. IsFiniteSet(S6) /\ Cardinality(S6) <= 6
    <2> HIDE DEF S5
    <2>1. IsFiniteSet(S6) /\ Cardinality(S6) <= 5 + 1
        BY <1>5, OneMore
    <2> QED
        BY <2>1
<1>7. S6 = Places(k)
    BY DEF Places
<1> HIDE DEF S1, S2, S3, S4, S5, S6
<1>8. Cardinality(S6) \in Nat
    BY <1>6, FS_CardinalityType
<1>9. /\ IsFiniteSet(S6 \ {f})
      /\ Cardinality(S6 \ {f}) = Cardinality(S6) - 1
    BY <1>6, <1>7, FS_RemoveElement
<1>10. Cardinality(S6 \ {f}) \in Nat
    BY <1>9, FS_CardinalityType
<1> QED
    BY <1>6, <1>7, <1>8, <1>9, <1>10

\* A table with at most one descriptor for each file
Tidy(t, k) ==
    /\ t \in [Fds -> Files \cup {Free}]
    /\ \A d, e \in Fds : t[d] = t[e] /\ t[d] # Free => d = e
    /\ \A d \in Fds : t[d] \in Places(k) \cup {Free}

\* There is a descriptor for every file that is not open, and it is tidy to
\* open it.
LEMMA OpenedTable ==
    ASSUME NEW t, NEW k, Tidy(t, k), NEW f \in Places(k) \cap Files,
           \A d \in Fds : t[d] # f
    PROVE  LET d == Lowest(t)
           IN  /\ d \in Fds /\ t[d] = Free
               /\ Opened(t, f) = [t EXCEPT ![d] = f]
               /\ Tidy(Opened(t, f), k)
<1> DEFINE F == {e \in Fds : t[e] = Free}
           d == Min(F)
<1>1. F # {}
    <2>1. SUFFICES ASSUME F = {} PROVE FALSE
        OBVIOUS
    <2>2. \A e \in Fds : t[e] \in Places(k) \ {f}
        BY <2>1 DEF Tidy
    <2>3. t \in Injection(Fds, Places(k) \ {f})
        BY <2>1, <2>2 DEF Tidy, Injection, IsInjective
    <2>4. Cardinality(Fds) <= Cardinality(Places(k) \ {f})
        BY <2>3, FivePlaces, FS_Injection
    <2>5. Cardinality(Fds) \in Nat /\ Cardinality(Fds) >= 6
        BY LifecycleAssumption, FS_CardinalityType
    <2> QED
        BY <2>4, <2>5, FivePlaces
<1>2. d \in F
    BY <1>1, LifecycleAssumption, LeastNumber
<1>3. Opened(t, f) = [t EXCEPT ![d] = f]
    BY DEF Opened, Lowest
<1> HIDE DEF d
<1>4. Tidy([t EXCEPT ![d] = f], k)
    <2>1. [t EXCEPT ![d] = f] \in [Fds -> Files \cup {Free}]
        BY <1>2 DEF Tidy
    <2> QED
        BY <1>2, <2>1 DEF Tidy
<1> QED
    BY <1>2, <1>3, <1>4 DEF d, Lowest

\* It is tidy to close one.
LEMMA ClosedTable ==
    ASSUME NEW t, NEW k, Tidy(t, k), NEW d \in Fds \cup {-1}
    PROVE  /\ Tidy(Closed(t, d), k)
           /\ \A e \in Fds : Closed(t, d)[e] = IF e = d THEN Free ELSE t[e]
<1>1. -1 \notin Fds
    BY LifecycleAssumption
<1>2. \A e \in Fds : Closed(t, d)[e] = IF e = d THEN Free ELSE t[e]
    BY <1>1 DEF Closed, Tidy
<1>3. Closed(t, d) \in [Fds -> Files \cup {Free}]
    BY DEF Tidy, Closed
<1> QED
    BY <1>2, <1>3 DEF Tidy

\* The descriptors of the invariant are tidy.
LEMMA TidyFds == IInv => Tidy(fds, clients)
BY DEF IInv, TypeOK, DescriptorsOK, Table, Tidy


-----------------------------------------------------------------------------
\* The invariant holds initially.
LEMMA InitIInv == Init => IInv
<1> SUFFICES ASSUME Init PROVE IInv
    OBVIOUS
<1>1. \A f : f # "free" => ~IsOpen(File(f))
    BY Distinct DEF IsOpen, Free, Init
<1>2. Connection = Free /\ Client(clients) # Free
    BY Distinct DEF Connection, Free, Init
<1>3. TypeOK
    <2>1. fds \in [Fds -> Files \cup {Free}] /\ \A d \in Fds : fds[d] = Free
        BY DEF Init
    <2>2. do_event_loop = 1 /\ clientSock = -1 /\ clients = 0 /\ signals = 0
        BY DEF Init
    <2>3. /\ do_event_loop \in {0, 1} /\ clientSock \in Fds \cup {-1}
          /\ clients \in 0 .. MaxClients /\ signals \in 0 .. MaxSignals
        BY <2>2, LifecycleAssumption
    <2>4. /\ handles = "NULL" /\ main = "spawn event" /\ handler = "idle"
          /\ event = "unborn" /\ socket = "unborn" /\ fate = "running" /\ peer = "absent"
        BY DEF Init
    <2>5. kept \in [Keepable -> Fds \cup {-1}]
        BY DEF Init
    <2> QED
        BY <2>1, <2>3, <2>4, <2>5 DEF TypeOK, DescriptorsOK, ControlOK, SetUp
<1>4. Table
    BY <1>1 DEF Table, Init
<1>5. Socketing
    BY <1>2, Distinct DEF Socketing, Serving, Free, Init
<1>6. Handling /\ Undisturbed
    <2>1. do_event_loop = 1 /\ clientSock = -1
        BY DEF Init
    <2>2. do_event_loop # 0
        BY <2>1
    <2>3. handler = "idle" /\ ~strayClose
        BY DEF Init
    <2> QED
        BY <2>1, <2>2, <2>3 DEF Handling, Undisturbed, ClosesWhatItTested
<1>7. CleaningUp
    <2>1. ~ran /\ handles = "NULL" /\ event = "unborn"
        BY DEF Init
    <2> QED
        BY <2>1 DEF CleaningUp
<1>8. Late
    <2>1. late = [frames |-> 0, clients |-> 0]
        BY DEF Init
    <2> QED
        BY <2>1 DEF Late
<1>9. Flags /\ Starting
    BY DEF Flags, Starting, Init
<1>10. Keeping
    BY <1>1 DEF Keeping, Keepable, IsOpen
<1> QED
    BY <1>9, <1>10, <1>3, <1>4, <1>5, <1>6, <1>7, <1>8 DEF IInv

\* The steps of main()
LEMMA MainIInv == ASSUME IInv, Main PROVE IInv'
<1> USE DEF IInv
<1>1. /\ UNCHANGED <<do_event_loop, clientSock, fds, kept, handles, handler>>
      /\ UNCHANGED <<peer, clients, signals, tested, ran, hitSetup, noMemory, strayClose, late>>
    BY DEF Main, SpawnEvent, SpawnSocket, InstallHandler, JoinEvent, JoinSocket,
           MainStep, outside, history
<1>2. \/ /\ main = "spawn event" /\ main' = "spawn socket"
         /\ event' = "search" /\ UNCHANGED <<socket, fate>>
      \/ /\ main = "spawn socket" /\ main' = "signal"
         /\ socket' = "bind" /\ UNCHANGED <<event, fate>>
      \/ /\ main' \in {"join event", "join socket", "done"}
         /\ UNCHANGED <<event, socket>> /\ fate' \in {fate, "exited"}
    BY DEF Main, SpawnEvent, SpawnSocket, InstallHandler, JoinEvent, JoinSocket, MainStep
<1>3. TypeOK'
    <2>1. DescriptorsOK'
        BY <1>1, <1>2 DEF TypeOK, DescriptorsOK
    <2>0. ControlOK
        BY DEF TypeOK
    <2>2. ControlOK'
        BY <1>1, <1>2, <2>0, ZenonT(60) DEF ControlOK, SetUp
    <2>3. /\ do_event_loop' \in {0, 1} /\ clientSock' \in Fds \cup {-1}
          /\ clients' \in 0 .. MaxClients /\ signals' \in 0 .. MaxSignals
        BY <1>1, <1>2, LifecycleAssumption DEF TypeOK
    <2> QED
        BY <1>1, <1>2, <2>1, <2>2, <2>3 DEF TypeOK
<1>4. Starting'
    BY <1>1, <1>2 DEF Starting
<1>5. Table'
    BY <1>1, <1>2 DEF Table, SetUp, Places, Starting, IsOpen
<1>6. Socketing'
    BY <1>1, <1>2 DEF Socketing, Serving, Starting, Connection
<1>7. Handling'
    BY <1>1, <1>2 DEF Handling, Serving, Starting
<1>8. Undisturbed'
    BY <1>1, <1>2 DEF Undisturbed, ClosesWhatItTested, SetUp, Connection, Starting
<1>9. CleaningUp'
    BY <1>1, <1>2 DEF CleaningUp, SetUp, Starting, IsOpen
<1>10. Late'
    BY <1>1, <1>2 DEF Late, Serving, Starting
<1>11. Flags'
    BY <1>1, <1>2 DEF Flags
<1>12. Keeping'
    BY <1>1 DEF Keeping
<1> QED
    BY <1>3, <1>4, <1>5, <1>6, <1>7, <1>8, <1>9, <1>10, <1>11, <1>12

\* The SIGINT, and the handler but for its close()
LEMMA InterruptIInv == ASSUME IInv, Interrupt PROVE IInv'
<1> USE DEF IInv
<1>1. /\ UNCHANGED <<clientSock, fds, kept, handles, main, event, socket>>
      /\ UNCHANGED <<peer, clients, tested, ran, noMemory, strayClose, late>>
      /\ signals' \in 0 .. MaxSignals
    <2>a. signals \in 0 .. MaxSignals
        BY DEF TypeOK
    <2>b. MaxSignals \in Nat
        BY LifecycleAssumption
    <2>1. signals \in Int /\ signals >= 0 /\ MaxSignals \in Int
        BY <2>a, <2>b
    <2>2. signals < MaxSignals /\ signals' = signals + 1
        BY DEF Interrupt
    <2>3. signals' \in 0 .. MaxSignals
        BY <2>1, <2>2
    <2> QED
        BY <2>3 DEF Interrupt
<1>2. \/ fate' = "killed" /\ UNCHANGED <<do_event_loop, handler, hitSetup>>
      \/ /\ handler = "idle" /\ fate' = fate /\ do_event_loop' = 0 /\ handler' = "test"
         /\ hitSetup' = (hitSetup \/ event \in SetUp)
    BY DEF Interrupt
<1>3. TypeOK'
    <2>1. DescriptorsOK'
        BY <1>1, <1>2 DEF TypeOK, DescriptorsOK
    <2>0. ControlOK
        BY DEF TypeOK
    <2>2. ControlOK'
        BY <1>1, <1>2, <2>0, ZenonT(60) DEF ControlOK, SetUp
    <2>3. /\ do_event_loop' \in {0, 1} /\ clientSock' \in Fds \cup {-1}
          /\ clients' \in 0 .. MaxClients /\ signals' \in 0 .. MaxSignals
        BY <1>1, <1>2, LifecycleAssumption DEF TypeOK
    <2> QED
        BY <1>1, <1>2, <2>1, <2>2, <2>3 DEF TypeOK
<1>4. Starting'
    BY <1>1, <1>2 DEF Starting
<1>5. Table'
    BY <1>1, <1>2 DEF Table, SetUp, Places, IsOpen
<1>6. Socketing'
    BY <1>1, <1>2 DEF Socketing, Serving, Connection
<1>7. Handling'
    BY <1>1, <1>2 DEF Handling, Serving
<1>8. Undisturbed'
    BY <1>1, <1>2 DEF Undisturbed, ClosesWhatItTested, SetUp, Connection
<1>9. CleaningUp'
    BY <1>1, <1>2 DEF CleaningUp, SetUp, IsOpen
<1>10. Late'
    BY <1>1, <1>2 DEF Late, Serving
<1>11. Flags'
    BY <1>1, <1>2 DEF Flags
<1>12. Keeping'
    BY <1>1 DEF Keeping
<1> QED
    BY <1>3, <1>4, <1>5, <1>6, <1>7, <1>8, <1>9, <1>10, <1>11, <1>12

LEMMA HandlerIInv == ASSUME IInv, HTest \/ HForget PROVE IInv'
<1> USE DEF IInv
<1>1. /\ UNCHANGED <<do_event_loop, fds, kept, handles, main, event, socket, fate>>
      /\ UNCHANGED <<peer, clients, signals, ran, hitSetup, noMemory, strayClose, late>>
    BY DEF HTest, HForget, HandlerStep, outside
<1>2. \/ /\ handler = "test" /\ tested' = Connection /\ clientSock' = clientSock
         /\ \/ clientSock # -1 /\ handler' = "close"
            \/ handler' = "idle"
      \/ handler = "forget" /\ handler' = "idle" /\ clientSock' = -1 /\ tested' = tested
    BY DEF HTest, HForget
<1>3. TypeOK'
    <2>1. DescriptorsOK'
        BY <1>1, <1>2 DEF TypeOK, DescriptorsOK
    <2>0. ControlOK
        BY DEF TypeOK
    <2>2. ControlOK'
        BY <1>1, <1>2, <2>0, ZenonT(60) DEF ControlOK, SetUp
    <2>3. /\ do_event_loop' \in {0, 1} /\ clientSock' \in Fds \cup {-1}
          /\ clients' \in 0 .. MaxClients /\ signals' \in 0 .. MaxSignals
        BY <1>1, <1>2, LifecycleAssumption DEF TypeOK
    <2> QED
        BY <1>1, <1>2, <2>1, <2>2, <2>3 DEF TypeOK
<1>4. Starting'
    BY <1>1, <1>2 DEF Starting
<1>5. Table'
    BY <1>1, <1>2 DEF Table, SetUp, Places, IsOpen
<1>6. Socketing'
    BY <1>1, <1>2, Distinct, LifecycleAssumption DEF Socketing, Serving, Connection, Free
<1>7. Handling'
    BY <1>1, <1>2 DEF Handling, Serving, Socketing
<1>8. Undisturbed'
    BY <1>1, <1>2 DEF Undisturbed, ClosesWhatItTested, SetUp, Connection
<1>9. CleaningUp'
    BY <1>1, <1>2 DEF CleaningUp, SetUp, IsOpen
<1>10. Late'
    BY <1>1, <1>2 DEF Late, Serving
<1>11. Flags'
    BY <1>1, <1>2 DEF Flags
<1>12. Keeping'
    BY <1>1 DEF Keeping
<1> QED
    BY <1>3, <1>4, <1>5, <1>6, <1>7, <1>8, <1>9, <1>10, <1>11, <1>12

\* The client that is served or waits is one of the clients.
LEMMA ServedClient ==
    ASSUME IInv, peer # "absent" \/ socket \in Serving
    PROVE  Client(clients) \in Clients
<1>1. clients > 0
    BY DEF IInv, Socketing
<1>2. clients \in 0 .. MaxClients
    BY DEF IInv, TypeOK
<1>3. MaxClients \in Nat
    BY LifecycleAssumption
<1>4. clients \in 1 .. MaxClients
    BY <1>1, <1>2, <1>3
<1> QED
    BY <1>4 DEF Clients

\* What close(clientSock) does to the descriptors
LEMMA CloseEffect ==
    ASSUME IInv, NEW x, CloseClient(x)
    PROVE  /\ fds' \in [Fds -> Files \cup {Free}]
           /\ \A d \in Fds : fds'[d] = IF d = clientSock THEN Free ELSE fds[d]
           /\ strayClose' \in BOOLEAN
           /\ strayClose' => \/ strayClose
                             \/ Connection \notin ({x} \cap Clients) \cup {Free}
<1>1. fds' \in [Fds -> Files \cup {Free}]
    BY DEF IInv, CloseClient, Closed, TypeOK, DescriptorsOK
<1>2. \A d \in Fds : fds'[d] = IF d = clientSock THEN Free ELSE fds[d]
    <2>1. -1 \notin Fds
        BY LifecycleAssumption
    <2>2. CASE clientSock = -1
        BY <2>1, <2>2 DEF CloseClient, Closed
    <2>3. CASE clientSock # -1
        BY <2>3 DEF IInv, CloseClient, Closed, TypeOK, DescriptorsOK
    <2> QED
        BY <2>2, <2>3
<1>3. strayClose' = (strayClose \/ Connection \notin ({x} \cap Clients) \cup {Free})
    BY DEF CloseClient
<1> QED
    BY <1>1, <1>2, <1>3

\* The close() of the handler and that of the socket thread
LEMMA HCloseIInv == ASSUME IInv, HClose PROVE IInv'
<1>1. /\ UNCHANGED <<do_event_loop, clientSock, kept, handles, main, event, socket, fate>>
      /\ UNCHANGED <<peer, clients, signals, tested, ran, hitSetup, noMemory, late>>
      /\ handler = "close" /\ handler' = "forget"
    BY DEF HClose, HandlerStep, outside
<1>2. /\ fds' \in [Fds -> Files \cup {Free}]
      /\ \A d \in Fds : fds'[d] = IF d = clientSock THEN Free ELSE fds[d]
      /\ strayClose' \in BOOLEAN
      /\ strayClose' => strayClose \/ hitSetup
    <2>1. CloseClient(tested)
        BY DEF HClose
    <2>2. ASSUME ~hitSetup PROVE Connection \in ({tested} \cap Clients) \cup {Free}
        <3>1. Connection \in {tested, Free}
            BY <1>1, <2>2 DEF IInv, Undisturbed
        <3>2. CASE clientSock = -1
            BY <3>2 DEF Connection
        <3>3. CASE clientSock # -1
            <4>1. Client(clients) \in Clients
                BY <3>3, ServedClient DEF IInv, Socketing
            <4> QED
                BY <2>2, <3>1, <3>3, <4>1 DEF IInv, Undisturbed
        <3> QED
            BY <3>2, <3>3
    <2> QED
        BY <2>1, <2>2, CloseEffect
<1>c. Connection' = Free
    BY <1>1, <1>2 DEF Connection, IInv, TypeOK
<1> USE Distinct DEF IInv, Free
<1>3. TypeOK'
    <2>1. DescriptorsOK'
        BY <1>1, <1>2 DEF TypeOK, DescriptorsOK
    <2>0. ControlOK
        BY DEF TypeOK
    <2>2. ControlOK'
        BY <1>1, <1>2, <2>0, ZenonT(60) DEF ControlOK, SetUp
    <2>3. /\ do_event_loop' \in {0, 1} /\ clientSock' \in Fds \cup {-1}
          /\ clients' \in 0 .. MaxClients /\ signals' \in 0 .. MaxSignals
        BY <1>1, <1>2, LifecycleAssumption DEF TypeOK
    <2> QED
        BY <1>1, <1>2, <2>1, <2>2, <2>3 DEF TypeOK
<1>4. Starting'
    BY <1>1, <1>2 DEF Starting
<1>5. Table'
    BY <1>1, <1>2 DEF Table, SetUp, Places, IsOpen
<1>6. Socketing'
    BY <1>1, <1>2, <1>c DEF Socketing, Serving
<1>7. Handling'
    BY <1>1, <1>2 DEF Handling, Serving
<1>8. Undisturbed'
    BY <1>1, <1>2, <1>c DEF Undisturbed, ClosesWhatItTested, Handling
<1>9. CleaningUp'
    BY <1>1, <1>2 DEF CleaningUp, SetUp, IsOpen
<1>10. Late'
    BY <1>1, <1>2 DEF Late, Serving
<1>11. Flags'
    BY <1>1, <1>2 DEF Flags
<1>12. Keeping'
    BY <1>1, <1>2 DEF Keeping, Keepable
<1> QED
    BY <1>3, <1>4, <1>5, <1>6, <1>7, <1>8, <1>9, <1>10, <1>11, <1>12

LEMMA SClose2IInv == ASSUME IInv, SClose2 PROVE IInv'
<1>1. /\ UNCHANGED <<do_event_loop, clientSock, kept, handles, main, handler, event, fate>>
      /\ UNCHANGED <<peer, clients, signals, tested, ran, noMemory, late>>
      /\ socket = "close2" /\ socket' = "close3"
      /\ hitSetup' = (hitSetup \/ event \in SetUp)
    BY DEF SClose2, SocketStep
<1>2. /\ fds' \in [Fds -> Files \cup {Free}]
      /\ \A d \in Fds : fds'[d] = IF d = clientSock THEN Free ELSE fds[d]
      /\ strayClose' \in BOOLEAN
      /\ strayClose' => strayClose \/ hitSetup
    <2>1. CloseClient(Client(clients))
        BY DEF SClose2
    <2>2. Client(clients) \in Clients
        BY <1>1, ServedClient DEF Serving
    <2>3. ASSUME ~hitSetup
          PROVE  Connection \in ({Client(clients)} \cap Clients) \cup {Free}
        BY <2>2, <2>3 DEF IInv, Undisturbed, Connection
    <2> QED
        BY <2>1, <2>3, CloseEffect
<1>c. Connection' = Free
    BY <1>1, <1>2 DEF Connection, IInv, TypeOK
<1> USE Distinct DEF IInv, Free
<1>3. TypeOK'
    <2>1. DescriptorsOK'
        BY <1>1, <1>2 DEF TypeOK, DescriptorsOK
    <2>0. ControlOK
        BY DEF TypeOK
    <2>2. ControlOK'
        BY <1>1, <1>2, <2>0, ZenonT(60) DEF ControlOK, SetUp
    <2>3. /\ do_event_loop' \in {0, 1} /\ clientSock' \in Fds \cup {-1}
          /\ clients' \in 0 .. MaxClients /\ signals' \in 0 .. MaxSignals
        BY <1>1, <1>2, LifecycleAssumption DEF TypeOK
    <2> QED
        BY <1>1, <1>2, <2>1, <2>2, <2>3 DEF TypeOK
<1>4. Starting'
    BY <1>1, <1>2 DEF Starting
<1>5. Table'
    BY <1>1, <1>2 DEF Table, SetUp, Places, IsOpen
<1>6. Socketing'
    BY <1>1, <1>2, <1>c DEF Socketing, Serving
<1>7. Handling'
    BY <1>1, <1>2 DEF Handling, Serving
<1>8. Undisturbed'
    BY <1>1, <1>2, <1>c DEF Undisturbed, ClosesWhatItTested, Handling
<1>9. CleaningUp'
    BY <1>1, <1>2 DEF CleaningUp, SetUp, IsOpen
<1>10. Late'
    BY <1>1, <1>2 DEF Late, Serving
<1>11. Flags'
    BY <1>1, <1>2 DEF Flags
<1>12. Keeping'
    BY <1>1, <1>2 DEF Keeping, Keepable
<1> QED
    BY <1>3, <1>4, <1>5, <1>6, <1>7, <1>8, <1>9, <1>10, <1>11, <1>12

-----------------------------------------------------------------------------
\* The event thread, where it opens and closes nothing
LEMMA EventIInv ==
    ASSUME IInv, EHandles \/ EPermission \/ ETest \/ EPoll \/ EFree
                 \/ (EventStep("search", "ended") /\ fate' = "exited"
                     /\ UNCHANGED <<fds, kept, handles, ran, noMemory, late>>)
    PROVE  IInv'
<1>1. /\ UNCHANGED <<do_event_loop, clientSock, fds, kept, main, handler, socket>>
      /\ UNCHANGED <<peer, clients, signals, tested, ran, hitSetup, strayClose>>
      /\ fate' \in {fate, "exited"}
    BY DEF EHandles, EPermission, ETest, EPoll, EFree, EventStep, outside
<1>2. \/ /\ \/ event = "search" /\ event' = "ended"
            \/ event = "permission" /\ event' = "open"
            \/ event = "test" /\ event' = "poll" /\ do_event_loop # 0
            \/ event = "test" /\ event' = "close"
         /\ UNCHANGED <<handles, noMemory, late>>
      \/ /\ event = "poll" /\ event' = "test"
         /\ late' = IF do_event_loop = 0
                    THEN [frames |-> late.frames + 1, clients |-> late.clients] ELSE late
         /\ UNCHANGED <<handles, noMemory>>
      \/ /\ event = "handles"
         /\ \/ event' = "permission" /\ handles' = "live" /\ noMemory' = FALSE
            \/ event' = "free" /\ handles' = "NULL" /\ noMemory' = FALSE
            \/ event' = "free" /\ handles' = "dangling" /\ noMemory' = TRUE
         /\ late' = late
      \/ /\ event = "free" /\ event' = "ended"
         /\ handles' = IF handles = "NULL" THEN "NULL"
                       ELSE IF handles = "live" THEN "freed" ELSE "freed twice"
         /\ UNCHANGED <<noMemory, late>>
    <2>1. CASE EHandles
        BY <2>1 DEF EHandles, EventStep
    <2>2. CASE ETest
        BY <2>2 DEF ETest, EventStep
    <2>3. CASE EPoll
        BY <2>3 DEF EPoll, EventStep
    <2>4. CASE EFree
        BY <2>4 DEF EFree, EventStep
    <2> QED
        BY <2>1, <2>2, <2>3, <2>4 DEF EPermission, EventStep
<1> USE DEF IInv
<1>3. TypeOK'
    <2>1. DescriptorsOK'
        BY <1>1, <1>2 DEF TypeOK, DescriptorsOK
    <2>0. ControlOK
        BY DEF TypeOK
    <2>2. ControlOK'
        <3>1. event' \in {"ended", "open", "poll", "close", "test", "permission", "free"}
            BY <1>2, ZenonT(60)
        <3>2. event' \in SetUp \cup {"test", "poll", "close", "destroy", "free", "ended"}
            BY <3>1, ZenonT(60) DEF SetUp
        <3> QED
            BY <1>1, <2>0, <3>2 DEF ControlOK
    <2>3. /\ do_event_loop' \in {0, 1} /\ clientSock' \in Fds \cup {-1}
          /\ clients' \in 0 .. MaxClients /\ signals' \in 0 .. MaxSignals
        BY <1>1, <1>2, LifecycleAssumption DEF TypeOK
    <2> QED
        BY <1>1, <1>2, <2>1, <2>2, <2>3 DEF TypeOK
<1>4. Starting'
    BY <1>1, <1>2 DEF Starting
<1>5. Table'
    BY <1>1, <1>2 DEF Table, SetUp, Places, IsOpen
<1>6. Socketing'
    BY <1>1, <1>2 DEF Socketing, Serving, Connection
<1>7. Handling'
    BY <1>1, <1>2 DEF Handling, Serving
<1>8. Undisturbed'
    BY <1>1, <1>2 DEF Undisturbed, ClosesWhatItTested, SetUp, Connection
<1>9. CleaningUp'
    BY <1>1, <1>2 DEF CleaningUp, SetUp, IsOpen
<1>10. Late'
    <2>1. CASE event = "poll" /\ do_event_loop = 0
        <3>1. late.frames = 0 /\ late.clients \in {0, 1}
            BY <2>1 DEF Late
        <3>2. late' = [frames |-> 1, clients |-> late.clients]
            BY <1>2, <2>1, <3>1
        <3> QED
            BY <1>1, <1>2, <2>1, <3>1, <3>2 DEF Late
    <2>2. CASE late' = late
        BY <1>1, <1>2, <2>2 DEF Late
    <2> QED
        BY <1>2, <2>1, <2>2
<1>11. Flags'
    BY <1>1, <1>2 DEF Flags
<1>12. Keeping'
    BY <1>1 DEF Keeping
<1> QED
    BY <1>3, <1>4, <1>5, <1>6, <1>7, <1>8, <1>9, <1>10, <1>11, <1>12

\* The socket thread, where it opens and closes nothing
LEMMA SocketIInv ==
    ASSUME IInv, STest \/ SRecv \/ SReceived \/ SSend \/ SClose1 \/ SClose3
                 \/ (SocketStep("bind", "ended")
                     /\ UNCHANGED <<clientSock, fds, kept, fate, peer, request, strayClose, late>>)
                 \/ (SocketStep("accept", "bail") /\ peer = "connecting" /\ peer' = "absent"
                     /\ clientSock' = -1
                     /\ UNCHANGED <<fds, kept, fate, request, strayClose, late>>)
    PROVE  IInv'
<1>1. /\ UNCHANGED <<do_event_loop, fds, kept, handles, main, handler, event>>
      /\ UNCHANGED <<clients, signals, tested, ran, noMemory, strayClose, late>>
      /\ fate' \in {fate, "killed"} /\ peer' \in {peer, "absent"}
      /\ hitSetup' = hitSetup
    BY DEF STest, SRecv, SReceived, SSend, SClose1, SClose3, SocketStep, IInv, Flags
<1>2. \/ /\ socket \in {"accept", "bind"} /\ socket' \in {"bail", "ended"}
         /\ clientSock' \in {clientSock, -1}
      \/ /\ socket = "test" /\ clientSock' = clientSock
         /\ \/ socket' = "accept" /\ do_event_loop # 0
            \/ socket' = "bail"
      \/ /\ socket \in Serving /\ socket' \in Serving \ {"close3"} /\ clientSock' = clientSock
      \/ socket = "close1" /\ clientSock = -1 /\ socket' = "test" /\ clientSock' = clientSock
      \/ socket = "close3" /\ clientSock' = -1 /\ socket' = "test"
    BY DEF STest, SRecv, SReceived, SSend, SClose1, SClose3, SocketStep, Serving
<1> USE DEF IInv, Serving
<1>3. TypeOK'
    <2>1. DescriptorsOK'
        BY <1>1, <1>2 DEF TypeOK, DescriptorsOK
    <2>0. ControlOK
        BY DEF TypeOK
    <2>2. ControlOK'
        BY <1>1, <1>2, <2>0, ZenonT(60) DEF ControlOK, SetUp
    <2>3. /\ do_event_loop' \in {0, 1} /\ clientSock' \in Fds \cup {-1}
          /\ clients' \in 0 .. MaxClients /\ signals' \in 0 .. MaxSignals
        BY <1>1, <1>2, LifecycleAssumption DEF TypeOK
    <2> QED
        BY <1>1, <1>2, <2>1, <2>2, <2>3 DEF TypeOK
<1>4. Starting'
    BY <1>1, <1>2 DEF Starting
<1>5. Table'
    BY <1>1, <1>2 DEF Table, SetUp, Places, IsOpen
<1>6. Socketing'
    BY <1>1, <1>2, Distinct, LifecycleAssumption DEF Socketing, Serving, Connection, Free
<1>7. Handling'
    BY <1>1, <1>2 DEF Handling, Serving
<1>8. Undisturbed'
    BY <1>1, <1>2 DEF Undisturbed, ClosesWhatItTested, SetUp, Connection
<1>9. CleaningUp'
    BY <1>1, <1>2 DEF CleaningUp, SetUp, IsOpen
<1>10. Late'
    BY <1>1, <1>2 DEF Late, Serving
<1>11. Flags'
    BY <1>1, <1>2 DEF Flags
<1>12. Keeping'
    BY <1>1 DEF Keeping
<1> QED
    BY <1>3, <1>4, <1>5, <1>6, <1>7, <1>8, <1>9, <1>10, <1>11, <1>12

-----------------------------------------------------------------------------
\* The files that the event thread opens at a place of its code
NewFiles(from) == IF from = "search" THEN {File("dir")}
                  ELSE IF from = "uinput" THEN {File("uinput"), File("sample")}
                  ELSE {File("device")}

\* A table that grows by some files
Grows(t, u, F, k) ==
    /\ Tidy(u, k)
    /\ \A d \in Fds : u[d] # t[d] => t[d] = Free /\ u[d] \in F

\* Opening a file makes the table grow, and there is room for it.
LEMMA OpenGrows ==
    ASSUME NEW t, NEW u, NEW F, NEW k, Grows(t, u, F, k),
           NEW f \in F \cap Places(k) \cap Files, \A d \in Fds : u[d] # f,
           Free \notin F
    PROVE  /\ Grows(t, Opened(u, f), F, k)
           /\ \A d \in Fds : Opened(u, f)[d] \in {u[d], f}
<1>1. Tidy(u, k)
    BY DEF Grows
<1> DEFINE d == Lowest(u)
<1>2. /\ d \in Fds /\ u[d] = Free
      /\ Opened(u, f) = [u EXCEPT ![d] = f]
      /\ Tidy(Opened(u, f), k)
    BY <1>1, OpenedTable
<1> HIDE DEF d
<1>3. \A e \in Fds : Opened(u, f)[e] = IF e = d THEN f ELSE u[e]
    BY <1>1, <1>2 DEF Tidy
<1> QED
    BY <1>2, <1>3 DEF Grows

\* The event thread opens what it has not opened yet.
LEMMA EventOpens ==
    ASSUME IInv, ESearch \/ EUinput \/ EOpen
    PROVE  Grows(fds, fds', NewFiles(event), clients)
<1>1. Tidy(fds, clients)
    BY TidyFds
<1>2. \A F : Grows(fds, fds, F, clients)
    BY <1>1 DEF Grows
<1>3. \A f \in {"dir", "uinput", "sample", "device"} :
          File(f) \in Places(clients) \cap Files /\ File(f) # Free
    BY Distinct DEF Places, Files, Free
<1>4. CASE ESearch
    <2>1. event = "search" /\ \A d \in Fds : fds[d] # File("dir")
        BY <1>4 DEF ESearch, EventStep, IInv, Table, IsOpen
    <2>2. Grows(fds, Opened(fds, File("dir")), {File("dir")}, clients)
        BY <1>2, <1>3, <2>1, OpenGrows
    <2>3. fds' \in {fds, Opened(fds, File("dir"))}
        BY <1>4 DEF ESearch
    <2> QED
        BY <1>2, <2>1, <2>2, <2>3 DEF NewFiles
<1>5. CASE EOpen
    <2>1. event = "open" /\ \A d \in Fds : fds[d] # File("device")
        BY <1>5 DEF EOpen, EventStep, IInv, Table, IsOpen, SetUp
    <2>2. Grows(fds, Opened(fds, File("device")), {File("device")}, clients)
        BY <1>2, <1>3, <2>1, OpenGrows
    <2>3. fds' \in {fds, Opened(fds, File("device"))}
        BY <1>5 DEF EOpen
    <2> QED
        BY <1>2, <2>1, <2>2, <2>3 DEF NewFiles
<1>6. CASE EUinput
    <2> DEFINE F == {File("uinput"), File("sample")}
               Device == Opened(fds, File("uinput"))
    <2>1. /\ event = "uinput"
          /\ \A d \in Fds : fds[d] # File("uinput") /\ fds[d] # File("sample")
        BY <1>6 DEF EUinput, EventStep, IInv, Table, IsOpen
    <2>2. File("uinput") # File("sample") /\ Free \notin F
        BY <1>3, Distinct
    <2>3. /\ Grows(fds, Device, F, clients)
          /\ \A d \in Fds : Device[d] \in {fds[d], File("uinput")}
        BY <1>2, <1>3, <2>1, <2>2, OpenGrows
    <2>4. \A d \in Fds : Device[d] # File("sample")
        BY <2>1, <2>2, <2>3
    <2>5. PICK result \in {"ok", "no device", "no capabilities", "not created"},
               sample \in BOOLEAN :
          fds' = LET first == IF result = "no device" THEN fds ELSE Device
                     both  == IF sample THEN Opened(first, File("sample")) ELSE first
                 IN  IF result = "no capabilities" THEN Closed(both, Lowest(fds)) ELSE both
        BY <1>6 DEF EUinput
    <2> DEFINE first == IF result = "no device" THEN fds ELSE Device
               both  == IF sample THEN Opened(first, File("sample")) ELSE first
    <2>6. Grows(fds, first, F, clients) /\ \A d \in Fds : first[d] # File("sample")
        BY <1>2, <2>1, <2>3, <2>4
    <2>7. fds' = IF result = "no capabilities" THEN Closed(both, Lowest(fds)) ELSE both
        BY <2>5
    <2>11. Lowest(fds) \in Fds /\ fds[Lowest(fds)] = Free
        BY <1>1, <1>3, <2>1, OpenedTable
    <2> HIDE DEF first, Device
    <2>8. Grows(fds, Opened(first, File("sample")), F, clients)
        BY <1>3, <2>2, <2>6, OpenGrows
    <2>9. Grows(fds, both, F, clients)
        BY <2>6, <2>8
    <2> HIDE DEF both
    <2>10. Grows(fds, Closed(both, Lowest(fds)), F, clients)
        <3>1. /\ Tidy(Closed(both, Lowest(fds)), clients)
              /\ \A d \in Fds : Closed(both, Lowest(fds))[d]
                                   = IF d = Lowest(fds) THEN Free ELSE both[d]
            <4>1. Tidy(both, clients)
                BY <2>9 DEF Grows
            <4> QED
                BY <2>11, <4>1, ClosedTable
        <3> QED
            BY <2>1, <2>9, <2>11, <3>1 DEF Grows
    <2> QED
        BY <2>1, <2>7, <2>9, <2>10 DEF NewFiles
<1> QED
    BY <1>4, <1>5, <1>6

\* It keeps the number of what it opens.
LEMMA OpenKeeps ==
    ASSUME IInv, ESearch \/ EUinput \/ EOpen
    PROVE  kept' \in [Keepable -> Fds \cup {-1}] /\ Keeping'
<1> DEFINE l == Lowest(fds)
<1>1. Tidy(fds, clients) /\ kept \in [Keepable -> Fds \cup {-1}] /\ Keeping
    BY TidyFds DEF IInv, TypeOK
<1>2. \A f \in {"dir", "uinput", "sample", "device"} :
          File(f) \in Places(clients) \cap Files
    BY DEF Places, Files
<1>3. \A f, g \in {"dir", "uinput", "sample", "device", "server", "free"} :
          File(f) = File(g) => f = g
    BY Distinct
<1>4. ASSUME kept' = kept,
             \A f \in Keepable, d \in Fds : fds'[d] = File(f) => fds[d] = File(f)
      PROVE  kept' \in [Keepable -> Fds \cup {-1}] /\ Keeping'
    BY <1>1, <1>4 DEF Keeping
<1>5. ASSUME NEW f \in Keepable, l \in Fds, Keep(f),
             \A d \in Fds : fds'[d] = File(f) => d = l,
             \A g \in Keepable, d \in Fds :
                 g # f /\ fds'[d] = File(g) => fds[d] = File(g)
      PROVE  kept' \in [Keepable -> Fds \cup {-1}] /\ Keeping'
    <2> HIDE DEF l
    <2>1. kept' = [kept EXCEPT ![f] = l]
        BY <1>5 DEF Keep, l
    <2>2. \A g \in Keepable : kept'[g] = IF g = f THEN l ELSE kept[g]
        BY <1>1, <2>1
    <2> QED
        BY <1>1, <1>5, <2>1, <2>2 DEF Keeping
<1>6. \A f \in {"dir", "uinput", "sample", "device"} :
          (\A d \in Fds : fds[d] # File(f))
             => /\ l \in Fds /\ fds[l] = Free
                /\ Tidy(Opened(fds, File(f)), clients)
                /\ \A d \in Fds : Opened(fds, File(f))[d] = IF d = l THEN File(f) ELSE fds[d]
    <2>1. SUFFICES ASSUME NEW f \in {"dir", "uinput", "sample", "device"},
                          \A d \in Fds : fds[d] # File(f)
                   PROVE  /\ l \in Fds /\ fds[l] = Free
                          /\ Tidy(Opened(fds, File(f)), clients)
                          /\ \A d \in Fds : Opened(fds, File(f))[d]
                                               = IF d = l THEN File(f) ELSE fds[d]
        OBVIOUS
    <2>2. /\ l \in Fds /\ fds[l] = Free
          /\ Opened(fds, File(f)) = [fds EXCEPT ![l] = File(f)]
          /\ Tidy(Opened(fds, File(f)), clients)
        BY <1>1, <1>2, <2>1, OpenedTable
    <2> HIDE DEF l
    <2> QED
        BY <1>1, <2>2 DEF Tidy
<1>7. CASE ESearch
    <2>1. \A d \in Fds : fds[d] # File("dir")
        BY <1>7 DEF ESearch, EventStep, IInv, Table, IsOpen
    <2>2. kept' = kept /\ fds' \in {fds, Opened(fds, File("dir"))}
        BY <1>7 DEF ESearch
    <2> QED
        BY <1>3, <1>4, <1>6, <2>1, <2>2 DEF Keepable
<1>8. CASE EOpen
    <2>1. \A d \in Fds : fds[d] # File("device")
        BY <1>8 DEF EOpen, EventStep, IInv, Table, IsOpen, SetUp
    <2>2. \/ fds' = Opened(fds, File("device")) /\ Keep("device")
          \/ fds' = fds /\ kept' = kept
        BY <1>8 DEF EOpen
    <2>3. CASE fds' = fds /\ kept' = kept
        BY <1>4, <2>3
    <2>4. CASE fds' = Opened(fds, File("device")) /\ Keep("device")
        <3>1. l \in Fds /\ \A d \in Fds : fds'[d] = IF d = l THEN File("device") ELSE fds[d]
            BY <1>6, <2>1, <2>4
        <3> QED
            BY <1>3, <1>5, <2>1, <2>4, <3>1 DEF Keepable
    <2> QED
        BY <2>2, <2>3, <2>4
<1>9. CASE EUinput
    <2> DEFINE Device == Opened(fds, File("uinput"))
    <2>1. \A d \in Fds : fds[d] # File("uinput") /\ fds[d] # File("sample")
        BY <1>9 DEF EUinput, EventStep, IInv, Table, IsOpen
    <2>2. PICK result \in {"ok", "no device", "no capabilities", "not created"},
               sample \in BOOLEAN :
          /\ fds' = LET first == IF result = "no device" THEN fds ELSE Device
                        both  == IF sample THEN Opened(first, File("sample")) ELSE first
                    IN  IF result = "no capabilities" THEN Closed(both, l) ELSE both
          /\ IF result = "no device" THEN UNCHANGED kept ELSE Keep("uinput")
        BY <1>9 DEF EUinput
    <2> DEFINE first == IF result = "no device" THEN fds ELSE Device
               both  == IF sample THEN Opened(first, File("sample")) ELSE first
    <2>3. /\ l \in Fds /\ Tidy(Device, clients)
          /\ \A d \in Fds : Device[d] = IF d = l THEN File("uinput") ELSE fds[d]
        BY <1>6, <2>1
    <2>4. fds' = IF result = "no capabilities" THEN Closed(both, l) ELSE both
        BY <2>2
    <2> HIDE DEF l, Device
    <2>5. /\ Tidy(first, clients)
          /\ \A d \in Fds : first[d] # File("sample")
          /\ \A d \in Fds : first[d] = fds[d]
                              \/ (result # "no device" /\ d = l /\ first[d] = File("uinput"))
        BY <1>1, <1>3, <2>1, <2>3
    <2> HIDE DEF first
    <2>6. /\ Tidy(both, clients)
          /\ \A d \in Fds : both[d] \in {first[d], File("sample")}
        <3>1. CASE sample
            <4>1. LET e == Lowest(first)
                  IN  /\ e \in Fds
                      /\ Opened(first, File("sample")) = [first EXCEPT ![e] = File("sample")]
                      /\ Tidy(Opened(first, File("sample")), clients)
                BY <1>2, <2>5, OpenedTable
            <4> QED
                BY <2>5, <3>1, <4>1 DEF Tidy
        <3>2. CASE ~sample
            BY <2>5, <3>2
        <3> QED
            BY <3>1, <3>2
    <2> HIDE DEF both
    <2>7. \A d \in Fds : fds'[d] \in {both[d], Free}
        BY <2>3, <2>4, <2>6, ClosedTable
    <2>8. \A f \in Keepable, d \in Fds :
              fds'[d] = File(f) => \/ f # "uinput" /\ fds[d] = File(f)
                                   \/ f = "uinput" /\ d = l /\ result # "no device"
        BY <1>3, <2>1, <2>5, <2>6, <2>7 DEF Keepable, Free
    <2> QED
        BY <1>4, <1>5, <2>2, <2>3, <2>8 DEF l, Keepable
<1> QED
    BY <1>7, <1>8, <1>9

\* The event thread, where it opens files
LEMMA OpenIInv == ASSUME IInv, ESearch \/ EUinput \/ EOpen PROVE IInv'
<1>1. /\ UNCHANGED <<do_event_loop, clientSock, handles, main, handler, socket>>
      /\ UNCHANGED <<peer, clients, signals, tested, hitSetup, noMemory, strayClose, late>>
      /\ fate' \in {fate, "exited"}
    BY DEF ESearch, EUinput, EOpen, EventStep, outside
<1>2. /\ Tidy(fds', clients)
      /\ \A d \in Fds : fds'[d] # fds[d] => fds[d] = Free /\ fds'[d] \in NewFiles(event)
    BY EventOpens DEF Grows
<1>a. \/ event = "search" /\ event' \in {"uinput", "ended"} /\ ran' = ran
      \/ event = "uinput" /\ event' \in {"handles", "free"} /\ ran' = ran
      \/ event = "open" /\ event' = "test" /\ ran' = TRUE
      \/ event = "open" /\ event' = "free" /\ ran' = ran
    BY DEF ESearch, EUinput, EOpen, EventStep
<1>b. \A f \in NewFiles(event) :
          /\ \A k : f # Client(k)
          /\ event = "search" => f = File("dir")
          /\ event = "uinput" => f \in {File("uinput"), File("sample")}
          /\ event = "open" => f = File("device")
    BY Distinct DEF NewFiles
<1>c. \A g : (\E d \in Fds : fds'[d] = g) => g \in NewFiles(event) \/ IsOpen(g)
    BY <1>2 DEF IsOpen
<1>d. \/ Connection' = Connection
      \/ clientSock # -1 /\ Connection = Free /\ Connection' \in NewFiles(event)
    BY <1>1, <1>2 DEF Connection, IInv, TypeOK
<1>e. \A f, g \in {"dir", "uinput", "sample", "device", "server"} : File(f) = File(g) => f = g
    BY Distinct
<1> USE DEF IInv
<1>3. TypeOK'
    <2>1. DescriptorsOK'
        BY <1>1, <1>2, <1>a, <1>b DEF TypeOK, DescriptorsOK, Tidy
    <2>0. ControlOK
        BY DEF TypeOK
    <2>2. ControlOK'
        BY <1>1, <1>2, <1>a, <1>b, <2>0, ZenonT(60) DEF ControlOK, SetUp
    <2>3. /\ do_event_loop' \in {0, 1} /\ clientSock' \in Fds \cup {-1}
          /\ clients' \in 0 .. MaxClients /\ signals' \in 0 .. MaxSignals
        BY <1>1, <1>2, LifecycleAssumption DEF TypeOK
    <2> QED
        BY <1>1, <1>2, <1>a, <1>b, <2>1, <2>2, <2>3, OpenKeeps DEF TypeOK
<1>4. Starting'
    BY <1>1, <1>2, <1>a, <1>b DEF Starting
<1>5. Table'
    <2>1. \A d \in Fds : fds'[d] \in Places(clients') \cup {Free}
        BY <1>1, <1>2 DEF Tidy
    <2>3. event' \notin {"unborn", "search"}
        BY <1>a
    <2>4. event' \in {"unborn", "search", "uinput"}
             => ~IsOpen(File("uinput"))' /\ ~IsOpen(File("sample"))'
        BY <1>a, <1>b, <1>c, <1>e DEF Table, IsOpen
    <2>5. event' \in SetUp => ~IsOpen(File("device"))'
        BY <1>a, <1>b, <1>c, <1>e DEF Table, IsOpen, SetUp
    <2>6. socket' \in {"unborn", "bind"} => ~IsOpen(File("server"))'
        BY <1>1, <1>a, <1>b, <1>c, <1>e DEF Table, IsOpen
    <2> QED
        BY <2>1, <2>3, <2>4, <2>5, <2>6 DEF Table
<1>6. Socketing'
    BY <1>1, <1>2, <1>b, <1>d DEF Socketing
<1>7. Handling'
    BY <1>1, <1>2, <1>a, <1>b DEF Handling, Serving
<1>8. Undisturbed'
    <2>1. event \in SetUp
        BY <1>a DEF SetUp
    <2>2. ~hitSetup => Connection' = Connection
        BY <1>d, <2>1 DEF Undisturbed
    <2> QED
        BY <1>1, <2>1, <2>2 DEF Undisturbed, ClosesWhatItTested
<1>9. CleaningUp'
    <2>1. event \in SetUp /\ ~ran
        BY <1>a DEF SetUp, CleaningUp
    <2>2. ran' => event' = "test"
        BY <1>a, <2>1
    <2> QED
        BY <1>1, <1>a, <2>1, <2>2 DEF CleaningUp, SetUp
<1>10. Late'
    BY <1>1, <1>2, <1>a, <1>b DEF Late, Serving
<1>11. Flags'
    BY <1>1, <1>2, <1>a, <1>b DEF Flags
<1>12. Keeping'
    BY OpenKeeps
<1> QED
    BY <1>3, <1>4, <1>5, <1>6, <1>7, <1>8, <1>9, <1>10, <1>11, <1>12

\* The event thread, where it closes files
LEMMA CloseIInv == ASSUME IInv, EClose \/ EDestroy PROVE IInv'
<1>1. /\ UNCHANGED <<do_event_loop, clientSock, kept, handles, main, handler, socket, fate>>
      /\ UNCHANGED <<peer, clients, signals, tested, ran, hitSetup, noMemory, strayClose, late>>
    BY DEF EClose, EDestroy, EventStep, outside
<1>2. PICK f \in {"device", "uinput"} :
          \/ /\ event = "close" /\ event' = "destroy" /\ f = "device"
             /\ fds' = Closed(fds, kept["device"])
          \/ /\ event = "destroy" /\ event' = "free" /\ f = "uinput"
             /\ fds' = Closed(fds, kept["uinput"])
    BY DEF EClose, EDestroy, EventStep
<1>a. /\ Tidy(fds', clients)
      /\ \A d \in Fds : fds'[d] = IF d = kept[f] THEN Free ELSE fds[d]
    <2>1. kept[f] \in Fds \cup {-1} /\ fds' = Closed(fds, kept[f])
        BY <1>2 DEF IInv, TypeOK, Keepable
    <2> QED
        BY <2>1, TidyFds, ClosedTable
<1>b. File(f) # Free /\ \A k : Client(k) # Free /\ File(f) # Client(k)
    BY Distinct DEF Free
<1>c. \A g : g # Free /\ (\E d \in Fds : fds'[d] = g) => g # File(f) /\ IsOpen(g)
    BY <1>a DEF IsOpen, IInv, Keeping, Keepable
<1>d. Connection' \in {Connection, Free}
    BY <1>1, <1>a DEF Connection, IInv, TypeOK
<1>e. \A g \in {"dir", "uinput", "sample", "device", "server"} : File(g) # Free
    BY Distinct DEF Free
<1> USE DEF IInv
<1>3. TypeOK'
    <2>1. DescriptorsOK'
        BY <1>1, <1>2, <1>a, <1>b DEF TypeOK, DescriptorsOK, Tidy
    <2>0. ControlOK
        BY DEF TypeOK
    <2>2. ControlOK'
        BY <1>1, <1>2, <1>a, <1>b, <2>0, ZenonT(60) DEF ControlOK, SetUp
    <2>3. /\ do_event_loop' \in {0, 1} /\ clientSock' \in Fds \cup {-1}
          /\ clients' \in 0 .. MaxClients /\ signals' \in 0 .. MaxSignals
        BY <1>1, <1>2, LifecycleAssumption DEF TypeOK
    <2> QED
        BY <1>1, <1>2, <1>a, <1>b, <2>1, <2>2, <2>3 DEF TypeOK
<1>4. Starting'
    BY <1>1, <1>2, <1>a, <1>b DEF Starting
<1>5. Table'
    <2>1. \A d \in Fds : fds'[d] \in Places(clients') \cup {Free}
        BY <1>1, <1>a DEF Tidy
    <2>2. event' \notin SetUp
        BY <1>2 DEF SetUp
    <2>3. socket' \in {"unborn", "bind"} => ~IsOpen(File("server"))'
        BY <1>1, <1>c, <1>e DEF Table, IsOpen
    <2> QED
        BY <2>1, <2>2, <2>3 DEF Table, SetUp
<1>6. Socketing'
    BY <1>1, <1>a, <1>b, <1>d DEF Socketing
<1>7. Handling'
    BY <1>1, <1>2, <1>a, <1>b DEF Handling, Serving
<1>8. Undisturbed'
    <2>1. event' \notin SetUp
        BY <1>2 DEF SetUp
    <2> QED
        BY <1>1, <1>b, <1>d, <2>1 DEF Undisturbed, ClosesWhatItTested
<1>9. CleaningUp'
    <2>1. event' \notin SetUp
        BY <1>2 DEF SetUp
    <2>2. event' \in {"destroy", "free"}
        BY <1>2
    <2>3. ran /\ event' \in {"destroy", "free", "ended"} => ~IsOpen(File("device"))'
        BY <1>2, <1>c, <1>e DEF CleaningUp, IsOpen
    <2>4. event' \in {"free", "ended"} => ~IsOpen(File("uinput"))'
        BY <1>2, <1>c, <1>e DEF CleaningUp, IsOpen
    <2>5. handles = "live"
        BY <1>2 DEF CleaningUp
    <2> QED
        BY <1>1, <2>1, <2>2, <2>3, <2>4, <2>5 DEF CleaningUp
<1>10. Late'
    BY <1>1, <1>2, <1>a, <1>b DEF Late, Serving
<1>11. Flags'
    BY <1>1, <1>2, <1>a, <1>b DEF Flags
<1>12. Keeping'
    BY <1>1, <1>a, <1>e DEF Keeping, Keepable
<1> QED
    BY <1>3, <1>4, <1>5, <1>6, <1>7, <1>8, <1>9, <1>10, <1>11, <1>12

-----------------------------------------------------------------------------
\* The socket thread opens and closes its own socket.
LEMMA ServerIInv ==
    ASSUME IInv,
           \/ /\ \E to \in {"test", "bail"} : SocketStep("bind", to)
              /\ fds' = Opened(fds, File("server")) /\ Keep("server")
              /\ UNCHANGED <<clientSock, fate, peer, request, strayClose, late>>
           \/ SBail
    PROVE  IInv'
<1>1. /\ UNCHANGED <<do_event_loop, clientSock, handles, main, handler, event, fate>>
      /\ UNCHANGED <<peer, clients, signals, tested, ran, noMemory, strayClose, late>>
      /\ hitSetup' = hitSetup
    BY DEF SBail, SocketStep, IInv, Flags
<1>2. \/ /\ socket = "bind" /\ socket' \in {"test", "bail"}
         /\ fds' = Opened(fds, File("server")) /\ Keep("server")
      \/ /\ socket = "bail" /\ socket' = "ended"
         /\ fds' = Closed(fds, kept["server"]) /\ kept' = kept
    BY DEF SBail, SocketStep
<1>3. Tidy(fds, clients)
    BY TidyFds
<1>4. File("server") \in Places(clients) \cap Files /\ File("server") # Free
    BY Distinct DEF Places, Files, Free
<1>5. /\ Tidy(fds', clients)
      /\ \A d \in Fds : fds'[d] = fds[d] \/ fds'[d] \in {File("server"), Free}
    <2>1. CASE socket = "bind"
        <3>1. Grows(fds, fds, {File("server")}, clients)
            BY <1>3 DEF Grows
        <3>2. \A d \in Fds : fds[d] # File("server")
            BY <2>1 DEF IInv, Table, IsOpen
        <3>3. Grows(fds, Opened(fds, File("server")), {File("server")}, clients)
            BY <1>4, <3>1, <3>2, OpenGrows
        <3> QED
            BY <1>2, <2>1, <3>3 DEF Grows
    <2>2. CASE socket = "bail"
        <3>1. kept["server"] \in Fds \cup {-1}
            BY DEF IInv, TypeOK, Keepable
        <3>2. fds' = Closed(fds, kept["server"])
            BY <1>2, <2>2
        <3> QED
            BY <1>3, <3>1, <3>2, ClosedTable
    <2> QED
        BY <1>2, <2>1, <2>2
<1>6. clientSock = -1
    BY <1>2 DEF IInv, Socketing, Serving
<1>7. Connection' = Connection
    BY <1>1, <1>6 DEF Connection
<1>8. \A g : g \notin {File("server"), Free} /\ (\E d \in Fds : fds'[d] = g) => IsOpen(g)
    BY <1>5 DEF IsOpen
<1>9. \A f \in {"dir", "uinput", "sample", "device"} : File(f) \notin {File("server"), Free}
    BY Distinct DEF Free
<1>10. Client(clients) \notin {File("server"), Free}
    BY Distinct DEF Free
<1> USE DEF IInv
<1>20. kept' \in [Keepable -> Fds \cup {-1}] /\ Keeping'
    <2>1. CASE socket = "bind"
        <3>1. \A d \in Fds : fds[d] # File("server")
            BY <2>1 DEF Table, IsOpen
        <3> DEFINE l == Lowest(fds)
        <3>2. l \in Fds /\ fds' = [fds EXCEPT ![l] = File("server")]
            BY <1>2, <1>3, <1>4, <2>1, <3>1, OpenedTable
        <3>3. kept' = [kept EXCEPT !["server"] = l]
            BY <1>2, <2>1 DEF Keep
        <3> HIDE DEF l
        <3>4. \A d \in Fds : fds'[d] = IF d = l THEN File("server") ELSE fds[d]
            BY <1>3, <3>2 DEF Tidy
        <3>5. \A f \in Keepable : kept'[f] = IF f = "server" THEN l ELSE kept[f]
            BY <3>3 DEF TypeOK
        <3>6. kept' \in [Keepable -> Fds \cup {-1}]
            BY <3>2, <3>3 DEF TypeOK
        <3>7. ASSUME NEW f \in Keepable, NEW d \in Fds, fds'[d] = File(f) PROVE kept'[f] = d
            <4>1. CASE d = l
                <5>1. f = "server"
                    BY <3>4, <3>7, <4>1, Distinct
                <5> QED
                    BY <3>5, <4>1, <5>1
            <4>2. CASE d # l
                <5>1. fds[d] = File(f) /\ f # "server"
                    BY <3>1, <3>4, <3>7, <4>2
                <5> QED
                    BY <3>5, <5>1 DEF Keeping
            <4> QED
                BY <4>1, <4>2
        <3> QED
            BY <3>6, <3>7 DEF Keeping
    <2>2. CASE socket = "bail"
        <3>1. kept["server"] \in Fds \cup {-1}
            BY DEF TypeOK, Keepable
        <3>2. \A d \in Fds : fds'[d] \in {fds[d], Free}
            BY <1>2, <1>3, <2>2, <3>1, ClosedTable
        <3>3. \A f \in Keepable : File(f) # Free
            BY Distinct DEF Free, Keepable
        <3> QED
            BY <1>2, <2>2, <3>2, <3>3 DEF TypeOK, Keeping
    <2> QED
        BY <1>2, <2>1, <2>2
<1>11. TypeOK'
    <2>1. DescriptorsOK'
        BY <1>5 DEF DescriptorsOK, Tidy
    <2>0. ControlOK
        BY DEF TypeOK
    <2>2. ControlOK'
        BY <1>1, <1>2, <2>0, ZenonT(60) DEF ControlOK
    <2> QED
        BY <1>1, <1>20, <2>1, <2>2 DEF TypeOK
<1>12. Starting'
    BY <1>1, <1>2 DEF Starting
<1>13. Table'
    <2>1. \A d \in Fds : fds'[d] \in Places(clients') \cup {Free}
        BY <1>1, <1>5 DEF Tidy
    <2>2. socket' \notin {"unborn", "bind"}
        BY <1>2
    <2> QED
        BY <1>1, <1>8, <1>9, <2>1, <2>2 DEF Table, IsOpen
<1>14. Socketing'
    <2>1. \A d \in Fds : fds'[d] # Client(clients)
        BY <1>5, <1>6, <1>10, LifecycleAssumption DEF Socketing
    <2>2. socket' # "close3"
        BY <1>2
    <2>3. peer # "absent" => clients > 0
        BY DEF Socketing
    <2> QED
        BY <1>1, <1>2, <1>6, <1>7, <2>1, <2>2, <2>3 DEF Socketing, Serving
<1>15. Handling'
    BY <1>1, <1>2 DEF Handling
<1>16. Undisturbed'
    BY <1>1, <1>7 DEF Undisturbed, ClosesWhatItTested
<1>17. CleaningUp'
    BY <1>1, <1>8, <1>9 DEF CleaningUp, IsOpen
<1>18. Late'
    BY <1>1, <1>2 DEF Late
<1>19. Flags'
    BY <1>1 DEF Flags
<1> QED
    BY <1>11, <1>12, <1>13, <1>14, <1>15, <1>16, <1>17, <1>18, <1>19, <1>20

\* The socket thread accepts a client.
LEMMA AcceptIInv ==
    ASSUME IInv, SAccept, socket' = "recv"
    PROVE  IInv'
<1> DEFINE d == Lowest(fds)
<1>1. /\ UNCHANGED <<do_event_loop, kept, handles, main, handler, event, fate>>
      /\ UNCHANGED <<clients, signals, tested, ran, noMemory, strayClose>>
      /\ hitSetup' = hitSetup /\ socket = "accept"
      /\ peer = "connecting" /\ peer' = "connected"
    BY DEF SAccept, SocketStep, IInv, Flags
<1>2. /\ fds' = Opened(fds, Client(clients)) /\ clientSock' = d
      /\ late' = IF do_event_loop = 0
                 THEN [frames |-> late.frames, clients |-> late.clients + 1] ELSE late
    BY DEF SAccept, SocketStep
<1>3. clientSock = -1 /\ \A e \in Fds : fds[e] # Client(clients)
    BY <1>1, LifecycleAssumption DEF IInv, Socketing, Serving
<1>4. Client(clients) \in Places(clients) \cap Files
    BY <1>1, ServedClient DEF Places, Files
<1>5. /\ d \in Fds /\ fds[d] = Free
      /\ fds' = [fds EXCEPT ![d] = Client(clients)] /\ Tidy(fds', clients)
    BY <1>2, <1>3, <1>4, TidyFds, OpenedTable
<1> HIDE DEF d
<1>6. \A e \in Fds : fds'[e] = IF e = d THEN Client(clients) ELSE fds[e]
    BY <1>5, TidyFds DEF Tidy
<1>7. d # -1
    BY <1>5, LifecycleAssumption
<1>8. Connection' = Client(clients)
    BY <1>2, <1>5, <1>6, <1>7 DEF Connection
<1>9. \A f : f # Client(clients) /\ (\E e \in Fds : fds'[e] = f) => IsOpen(f)
    BY <1>6 DEF IsOpen
<1>10. \A f \in {"dir", "uinput", "sample", "device"} : File(f) # Client(clients)
    BY Distinct
<1> USE DEF IInv
<1>11. TypeOK'
    <2>1. DescriptorsOK'
        BY <1>5 DEF DescriptorsOK, Tidy
    <2>0. ControlOK
        BY DEF TypeOK
    <2>2. ControlOK'
        BY <1>1, <2>0, ZenonT(60) DEF ControlOK
    <2> QED
        BY <1>1, <1>2, <1>5, <2>1, <2>2 DEF TypeOK
<1>12. Starting'
    BY <1>1 DEF Starting
<1>13. Table'
    <2>1. \A e \in Fds : fds'[e] \in Places(clients') \cup {Free}
        BY <1>1, <1>5 DEF Tidy
    <2> QED
        BY <1>1, <1>9, <1>10, <2>1 DEF Table, IsOpen
<1>14. handler \notin {"close", "forget"}
    BY <1>1 DEF Handling, Serving
<1>15. Socketing'
    <2>1. \A e \in Fds : fds'[e] = Client(clients) => e = d
        BY <1>3, <1>6
    <2>2. clients > 0
        BY <1>1 DEF Socketing
    <2> QED
        BY <1>1, <1>2, <1>14, <2>1, <2>2 DEF Socketing, Serving
<1>16. Handling'
    BY <1>1, <1>14 DEF Handling
<1>17. Undisturbed'
    <2>1. Client(clients) # Free
        BY Distinct DEF Free
    <2> QED
        BY <1>1, <1>8, <1>14, <2>1 DEF Undisturbed, ClosesWhatItTested
<1>18. CleaningUp'
    BY <1>1, <1>9, <1>10 DEF CleaningUp, IsOpen
<1>19. Late'
    <2>1. late.clients = 0 /\ late.frames \in {0, 1}
        BY <1>1 DEF Late, Serving
    <2>2. CASE do_event_loop = 0
        <3>1. late' = [frames |-> late.frames, clients |-> 1]
            BY <1>2, <2>1, <2>2
        <3> QED
            BY <1>1, <2>1, <2>2, <3>1 DEF Late, Serving
    <2>3. CASE do_event_loop # 0
        BY <1>1, <1>2, <2>1, <2>3 DEF Late
    <2> QED
        BY <2>2, <2>3
<1>20. Flags'
    BY <1>1 DEF Flags
<1>21. Keeping'
    BY <1>1, <1>6, Distinct DEF Keeping, Keepable
<1> QED
    BY <1>11, <1>12, <1>13, <1>15, <1>16, <1>17, <1>18, <1>19, <1>20, <1>21

\* The outside
LEMMA OutsideIInv ==
    ASSUME IInv, DeviceAppears \/ Connect \/ Request \/ Disconnect \/ UNCHANGED vars
    PROVE  IInv'
<1>1. /\ UNCHANGED <<do_event_loop, clientSock, fds, kept, handles, main, handler, event, socket>>
      /\ UNCHANGED <<fate, signals, tested, ran, hitSetup, noMemory, strayClose, late>>
    BY DEF DeviceAppears, Connect, Request, Disconnect, OutsideStep, history, vars
<1>2. \/ clients' = clients /\ peer' \in {peer, "absent"}
      \/ /\ peer = "absent" /\ socket = "accept" /\ clients < MaxClients
         /\ peer' = "connecting" /\ clients' = clients + 1
    BY DEF DeviceAppears, Connect, Request, Disconnect, OutsideStep, vars
<1>3. clients \in Nat /\ clients' \in 0 .. MaxClients /\ clients' >= clients
    <2>1. clients \in 0 .. MaxClients
        BY DEF IInv, TypeOK
    <2>2. MaxClients \in Nat
        BY LifecycleAssumption
    <2>3. clients' = clients \/ (clients < MaxClients /\ clients' = clients + 1)
        BY <1>2
    <2> QED
        BY <2>1, <2>2, <2>3
<1>4. clients' # clients => clientSock = -1 /\ \A e \in Fds : fds[e] # Client(clients)
    BY <1>2, LifecycleAssumption DEF IInv, Socketing, Serving
<1>5. clients' # clients => clients' > 0
    BY <1>2, <1>3
<1>6. \A d \in Fds : fds[d] \in Places(clients') \cup {Free}
    BY <1>4 DEF IInv, Table, Places
<1>7. clients' # clients => \A d \in Fds : fds[d] # Client(clients')
    BY <1>4, Distinct DEF IInv, Table, Places, Free
<1>8. Connection' = Connection /\ (clientSock = -1 => Connection = Free)
    BY <1>1 DEF Connection
<1>9. Free # Client(clients')
    BY Distinct DEF Free
<1> USE DEF IInv
<1>10. TypeOK'
    <2>1. DescriptorsOK'
        BY <1>1 DEF TypeOK, DescriptorsOK
    <2>0. ControlOK
        BY DEF TypeOK
    <2>2. ControlOK'
        BY <1>1, <2>0, ZenonT(60) DEF ControlOK
    <2> QED
        BY <1>1, <1>2, <1>3, <2>1, <2>2 DEF TypeOK
<1>11. Table'
    BY <1>1, <1>6 DEF Table, IsOpen
<1>12. Socketing'
    <2>1. CASE clients' = clients
        BY <1>1, <1>2, <1>3, <1>8, <2>1 DEF Socketing
    <2>2. CASE clients' # clients
        BY <1>1, <1>4, <1>5, <1>7, <1>8, <1>9, <2>2 DEF Socketing
    <2> QED
        BY <2>1, <2>2
<1>13. Undisturbed'
    <2>1. CASE clients' = clients
        BY <1>1, <1>8, <2>1 DEF Undisturbed, ClosesWhatItTested
    <2>2. CASE clients' # clients
        BY <1>1, <1>4, <1>8, <2>2 DEF Undisturbed, ClosesWhatItTested
    <2> QED
        BY <2>1, <2>2
<1>14. Starting' /\ Handling' /\ Flags' /\ Keeping'
    BY <1>1 DEF Starting, Handling, Flags, Keeping
<1>15. CleaningUp' /\ Late'
    BY <1>1 DEF CleaningUp, Late, IsOpen
<1> QED
    BY <1>10, <1>11, <1>12, <1>13, <1>14, <1>15

-----------------------------------------------------------------------------
\* Every step keeps the invariant.
LEMMA NextIInv == IInv /\ [Next]_vars => IInv'
<1> SUFFICES ASSUME IInv, [Next]_vars PROVE IInv'
    OBVIOUS
<1>1. CASE Event \/ EPermission \/ EPoll
    BY <1>1, EventIInv, OpenIInv, CloseIInv DEF Event
<1>2. CASE SBind
    BY <1>2, ServerIInv, SocketIInv DEF SBind
<1>3. CASE SAccept
    <2>1. CASE socket' = "recv"
        BY <1>3, <2>1, AcceptIInv
    <2>2. CASE socket' # "recv"
        BY <1>3, <2>2, SocketIInv DEF SAccept, SocketStep
    <2> QED
        BY <2>1, <2>2
<1>4. CASE Socket
    BY <1>2, <1>3, <1>4, SocketIInv, SClose2IInv, ServerIInv DEF Socket
<1>5. CASE serverhandler
    BY <1>5, HandlerIInv, HCloseIInv DEF serverhandler
<1> QED
    BY <1>1, <1>4, <1>5, MainIInv, InterruptIInv, OutsideIInv DEF Next

\* The invariant always holds.
LEMMA Invariant == Spec => []IInv
BY InitIInv, NextIInv, PTL DEF Spec

\* The types are kept: a descriptor is found for everything that is opened, no
\* file is open under two numbers, and clientSock never names a number that is
\* none (socketserver.c:58-68, event_handler.c:500-553).
THEOREM TypeCorrect == Spec => []TypeOK
<1>1. IInv => TypeOK
    BY DEF IInv
<1> QED
    BY <1>1, Invariant, PTL

\* Whatever the interleaving of handler, socket thread and event thread,
\* closeclientsocket() closes the client connection it has found or nothing,
\* but for the set-up of the event thread (socketserver.c:58-68, main.c:26-32).
THEOREM ClosesCorrect == Spec => []ClosesWhatItTested
<1>1. IInv => ClosesWhatItTested
    BY DEF IInv, Undisturbed
<1> QED
    BY <1>1, Invariant, PTL

\* An event thread that was in its loop ends with both devices closed, and its
\* memory is freed once but for a failed calloc() (event_handler.c:525-553).
THEOREM CleanEndCorrect == Spec => []CleanEnd
<1>1. IInv => CleanEnd
    BY DEF IInv, CleaningUp, CleanEnd
<1> QED
    BY <1>1, Invariant, PTL

\* At most one frame and one client are served after the SIGINT
\* (event_handler.c:542, socketserver.c:108).
THEOREM LateCorrect == Spec => []LittleLateWork
<1>1. IInv => LittleLateWork
    <2>1. SUFFICES ASSUME IInv PROVE LittleLateWork
        OBVIOUS
    <2>2. late.frames \in {0, 1} /\ late.clients \in {0, 1}
        BY <2>1 DEF IInv, Late
    <2> QED
        BY <2>2 DEF LittleLateWork
<1> QED
    BY <1>1, Invariant, PTL
=============================================================================
