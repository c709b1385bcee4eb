------------------------- MODULE SocketServerProofs -------------------------
(***************************************************************************)
(* For any number of connections, of requests a client sends ahead and of  *)
(* notifications it leaves unread, and however the two threads and the     *)
(* client interleave, the server keeps its types, answers no request       *)
(* twice and notifies no stale mode.                                       *)
(***************************************************************************)
EXTENDS SocketServer, FiniteSetTheorems, SequenceTheorems, TLAPS

Serving == {"recv", "get", "set", "reply", "close", "forget"}

\* The mode at hand was written by the switch or after it until the
\* notification is out.
SwitchWritten == epc \in {"notify", "getmode"} => gCurMode \in written

\* What the socket thread knows of the request it serves.
ServedRequest ==
    /\ spc = "get" => sreq.cmd = "GETMODE"
    /\ spc = "set" => sreq.cmd = "SETMODE"
    /\ sendstr.kind # "NOTIFY"

\* The server is on a connection the client has made, and those it has not
\* made yet carry nothing.
Connections ==
    /\ spc \in Serving => clientSock # NoConn
    /\ accepted <= conn /\ clientSock <= conn
    /\ \A c \in Conns : c > conn => toServer[c] = <<>> /\ toClient[c] = <<>>

\* The inductive invariant.
IInv ==
    /\ TypeOK
    /\ SwitchWritten /\ NotifyIsNotStale
    /\ ServedRequest
    /\ Connections /\ RepliesFollowRequests

-----------------------------------------------------------------------------
\* A message put at the end of a queue adds to its replies if it is one.
LEMMA AppendReplies ==
    ASSUME NEW q \in Seq(Message), NEW m \in Message
    PROVE  /\ IsFiniteSet(RepliesIn(q))
           /\ Cardinality(RepliesIn(q)) \in Nat
           /\ Cardinality(RepliesIn(Append(q, m))) =
                 Cardinality(RepliesIn(q)) + (IF IsReply(m) THEN 1 ELSE 0)
<1>1. IsFiniteSet(1 .. Len(q))
    BY FS_Interval
<1>2. RepliesIn(q) \in SUBSET (1 .. Len(q))
    BY DEF RepliesIn
<1>3. IsFiniteSet(RepliesIn(q))
    BY <1>1, <1>2, FS_Subset
<1>4. Cardinality(RepliesIn(q)) \in Nat
    BY <1>3, FS_CardinalityType
<1>5. Len(q) + 1 \notin RepliesIn(q)
    BY DEF RepliesIn
<1>6. CASE IsReply(m)
    <2>1. RepliesIn(Append(q, m)) = RepliesIn(q) \cup {Len(q) + 1}
        BY <1>6 DEF RepliesIn
    <2> QED
        BY <1>3, <1>4, <1>5, <1>6, <2>1, FS_AddElement
<1>7. CASE ~IsReply(m)
    <2>1. RepliesIn(Append(q, m)) = RepliesIn(q)
        BY <1>7 DEF RepliesIn
    <2> QED
        BY <1>3, <1>4, <1>7, <2>1
<1> QED
    BY <1>3, <1>4, <1>6, <1>7

\* A message taken from the front of a queue was one of its replies or not.
LEMMA TailReplies ==
    ASSUME NEW q \in Seq(Message), q # <<>>
    PROVE  /\ Cardinality(RepliesIn(q)) \in Nat
           /\ Cardinality(RepliesIn(Tail(q))) \in Nat
           /\ Cardinality(RepliesIn(Tail(q))) =
                 Cardinality(RepliesIn(q)) - (IF IsReply(Head(q)) THEN 1 ELSE 0)
<1> DEFINE R == RepliesIn(q)
           T == RepliesIn(Tail(q))
           f == [i \in T |-> i + 1]
<1>1. IsFiniteSet(1 .. Len(q)) /\ R \in SUBSET (1 .. Len(q))
    BY FS_Interval DEF RepliesIn
<1>2. IsFiniteSet(R) /\ Cardinality(R) \in Nat
    BY <1>1, FS_Subset, FS_CardinalityType
<1>3. IsFiniteSet(R \ {1}) /\ Cardinality(R \ {1}) =
          IF 1 \in R THEN Cardinality(R) - 1 ELSE Cardinality(R)
    BY <1>2, FS_RemoveElement
<1>4. 1 \in R <=> IsReply(Head(q))
    BY DEF RepliesIn
<1>5. /\ Tail(q) \in Seq(Message) /\ Len(Tail(q)) = Len(q) - 1
      /\ \A i \in 1 .. Len(Tail(q)) : Tail(q)[i] = q[i + 1]
    OBVIOUS
<1>6. IsFiniteSet(1 .. Len(Tail(q))) /\ T \in SUBSET (1 .. Len(Tail(q)))
    BY <1>5, FS_Interval DEF RepliesIn
<1>7. IsFiniteSet(T) /\ Cardinality(T) \in Nat
    BY <1>6, FS_Subset, FS_CardinalityType
<1>8. f \in Bijection(T, R \ {1})
    <2>1. \A i \in T : i + 1 \in R \ {1}
        BY <1>5 DEF RepliesIn
    <2>2. \A i, j \in T : i + 1 = j + 1 => i = j
        BY <1>6
    <2>3. \A j \in R \ {1} : j - 1 \in T /\ j = (j - 1) + 1
        BY <1>5 DEF RepliesIn
    <2>4. f \in Injection(T, R \ {1})
        BY <2>1, <2>2 DEF Injection, IsInjective
    <2>5. f \in Surjection(T, R \ {1})
        BY <2>1, <2>3 DEF Surjection
    <2> QED
        BY <2>4, <2>5 DEF Bijection
<1>9. Cardinality(T) = Cardinality(R \ {1})
    BY <1>3, <1>7, <1>8, FS_Bijection DEF ExistsBijection
<1> QED
    BY <1>2, <1>3, <1>4, <1>7, <1>9

\* The commands of the requests.
LEMMA RequestFields ==
    ASSUME NEW r \in Requests
    PROVE  r.cmd \in {"GETMODE", "POLL", "SETMODE"} /\ r.value \in -9 .. 99
BY ServerAssumption DEF Requests

\* There is a request.
LEMMA SomeRequest == (CHOOSE r \in Requests : TRUE) \in Requests
<1>1. CASE Commands # {}
    BY <1>1 DEF Requests
<1>2. CASE SetValues # {}
    BY <1>2 DEF Requests
<1> QED
    BY <1>1, <1>2, ServerAssumption

\* The initial state satisfies the inductive invariant.
LEMMA InitIInv == Init => IInv
<1> SUFFICES ASSUME Init PROVE IInv
    OBVIOUS
<1> USE ServerAssumption
<1>1. TypeOK
    <2>1. sreq \in Requests
        BY SomeRequest DEF Init
    <2>2. /\ gCurMode \in Modes /\ ecur \in Modes
          /\ sendstr \in Message /\ left \in NoDigit .. 9
        BY DEF Init, Modes, Message, NoTail, NoDigit, MODE_NORMAL
    <2>3. /\ open \in [Conns -> BOOLEAN]
          /\ toServer \in [Conns -> Seq(Requests)]
          /\ toClient \in [Conns -> Seq(Message)]
        BY DEF Init
    <2>4. fdOpen \in BOOLEAN /\ alive \in BOOLEAN
        BY DEF Init
    <2> QED
        BY <2>1, <2>2, <2>3, <2>4 DEF Init, TypeOK, NoConn
<1>2. SwitchWritten /\ NotifyIsNotStale /\ ServedRequest
    BY DEF Init, SwitchWritten, NotifyIsNotStale, ServedRequest
<1>3. Connections /\ RepliesFollowRequests
    BY DEF Init, Connections, RepliesFollowRequests, Serving, Conns, NoConn
<1> QED
    BY <1>1, <1>2, <1>3 DEF IInv

\* What a send on the client socket does to the queues.
LEMMA SendQueues ==
    ASSUME TypeOK, NEW m \in Message, Send(m)
    PROVE  /\ toClient' \in [Conns -> Seq(Message)]
           /\ alive' \in BOOLEAN
           /\ UNCHANGED <<conn, open, toServer, outstanding>>
           /\ \/ UNCHANGED toClient
              \/ /\ clientSock \in Conns
                 /\ toClient' = [toClient EXCEPT ![clientSock] = Append(@, m)]
<1>1. alive' \in BOOLEAN /\ UNCHANGED <<conn, open, toServer, outstanding>>
    BY Zenon DEF Send
<1>2. toClient \in [Conns -> Seq(Message)]
    BY DEF TypeOK
<1>3. CASE SendFails \/ PeerGone
    BY <1>1, <1>2, <1>3 DEF Send
<1>4. CASE ~(SendFails \/ PeerGone)
    <2>1. clientSock \in Conns
        BY <1>4 DEF SendFails, TypeOK
    <2>2. toClient' = [toClient EXCEPT ![clientSock] = Append(@, m)]
        BY <1>4 DEF Send, Deliver
    <2>3. Append(toClient[clientSock], m) \in Seq(Message)
        BY <1>2, <2>1
    <2> QED
        BY <1>1, <1>2, <2>1, <2>2, <2>3
<1> QED
    BY <1>3, <1>4

\* Every step keeps the types; that outstanding stays positive when a reply is
\* read needs the count of the replies.
LEMMA TypeStep == IInv /\ [Next]_vars => TypeOK'
<1> SUFFICES ASSUME IInv, [Next]_vars PROVE TypeOK'
    OBVIOUS
<1> USE ServerAssumption DEF NoConn
<1>0. TypeOK
    BY DEF IInv
<1>1. CASE EFrame
    BY <1>0, <1>1 DEF TypeOK, EFrame, sthread, channel, ghosts
<1>2. CASE ERead
    BY <1>0, <1>2 DEF TypeOK, ERead, sthread, channel, ghosts
<1>3. CASE EToggle
    <2>1. gCurMode' \in Modes
        BY <1>0, <1>3 DEF TypeOK, EToggle, Toggle, Modes, MODE_NONE, MODE_NORMAL, MODE_VOLUME
    <2> QED
        BY <1>0, <1>3, <2>1 DEF TypeOK, EToggle, sthread, channel
<1>4. CASE ENotify
    <2>1. /\ epc' \in {"frame", "getmode"} /\ statechanged' \in {0, statechanged}
          /\ ecur' \in {MODE_NONE, ecur} /\ written' \in {{}, written}
        BY <1>4 DEF ENotify, SwitchDone
    <2>2. UNCHANGED <<gCurMode, sthread, alive, channel, told>>
        BY <1>4 DEF ENotify
    <2> QED
        BY <1>0, <2>1, <2>2 DEF TypeOK, Modes, sthread, channel
<1>5. CASE EGetMode
    BY <1>0, <1>5 DEF TypeOK, EGetMode, sthread, channel, ghosts
<1>6. CASE ESend
    <2> DEFINE m == [kind |-> "NOTIFY", mode |-> ecur]
    <2>1. m \in Message /\ Send(m)
        BY <1>0, <1>6 DEF TypeOK, ESend, Message
    <2>2. /\ toClient' \in [Conns -> Seq(Message)]
          /\ alive' \in BOOLEAN
          /\ UNCHANGED <<conn, open, toServer, outstanding>>
        BY <1>0, <2>1, SendQueues
    <2>3. told' \in Conns \cup {NoConn}
        BY <1>0, <1>6 DEF TypeOK, ESend
    <2> QED
        BY <1>0, <1>6, <2>2, <2>3 DEF TypeOK, ESend, SwitchDone, Modes, MODE_NONE, sthread
<1>7. CASE SAccept
    BY <1>0, <1>7 DEF TypeOK, SAccept, Conns, ethread, channel, ghosts
<1>8. CASE SRecv
    <2>1. clientSock \in Conns
        BY <1>0, <1>8 DEF IInv, Connections, Serving, SRecv, TypeOK
    <2>2. toServer[clientSock] \in Seq(Requests) /\ toServer[clientSock] # <<>>
        BY <1>0, <1>8, <2>1 DEF SRecv, TypeOK
    <2>3. sreq' \in Requests
        BY <1>8, <2>2 DEF SRecv
    <2>4. toServer' \in [Conns -> Seq(Requests)]
        <3>1. <<>> \in Seq(Requests) /\ toServer \in [Conns -> Seq(Requests)]
            BY <1>0 DEF TypeOK
        <3>2. toServer' = [toServer EXCEPT ![clientSock] = <<>>]
            BY <1>8 DEF SRecv
        <3> QED
            BY <3>1, <3>2
    <2>5. spc' \in {"get", "set", "recv"}
        BY <1>8 DEF SRecv
    <2>6. left' \in NoDigit .. 9
        <3>1. sreq'.value \in -9 .. 99
            BY <2>3, RequestFields
        <3>2. TwoCharacters(sreq'.value) => LastDigit(sreq'.value) \in 0 .. 9
            BY <3>1 DEF TwoCharacters, LastDigit
        <3>3. left \in NoDigit .. 9
            BY <1>0 DEF TypeOK
        <3>4. left' = Behind(sreq', Len(toServer[clientSock]) > 1)
            BY <1>8 DEF SRecv
        <3> QED
            BY <3>2, <3>3, <3>4 DEF Behind, NoDigit
    <2> QED
        BY <1>0, <1>8, <2>3, <2>4, <2>5, <2>6 DEF TypeOK, SRecv, ethread, ghosts
<1>9. CASE SRecvEnd
    BY <1>0, <1>9 DEF TypeOK, SRecvEnd, ethread, channel, ghosts
<1>10. CASE SGet
    BY <1>0, <1>10 DEF TypeOK, SGet, Message, ethread, channel, ghosts
<1>11. CASE SSet
    <2>1. sendstr' \in Message
        BY <1>0, <1>11 DEF TypeOK, SSet, ReturnCode, Message
    <2>2. gCurMode' \in Modes /\ written' \subseteq Modes
        BY <1>0, <1>11 DEF TypeOK, SSet, SwtichToNewMode, isValidMode
    <2> QED
        BY <1>0, <1>11, <2>1, <2>2 DEF TypeOK, SSet, ethread, channel
<1>12. CASE SReply
    <2>1. sendstr \in Message /\ Send(sendstr)
        BY <1>0, <1>12 DEF TypeOK, SReply
    <2>2. /\ toClient' \in [Conns -> Seq(Message)]
          /\ alive' \in BOOLEAN
          /\ UNCHANGED <<conn, open, toServer, outstanding>>
        BY <1>0, <2>1, SendQueues
    <2> QED
        BY <1>0, <1>12, <2>2 DEF TypeOK, SReply, ethread, ghosts
<1>13. CASE SClose
    BY <1>0, <1>13 DEF TypeOK, SClose, ethread, channel, ghosts
<1>14. CASE SForget
    BY <1>0, <1>14 DEF TypeOK, SForget, ethread, channel, ghosts
<1>15. CASE CConnect /\ UNCHANGED daemon
    BY <1>0, <1>15 DEF TypeOK, CConnect, Conns, daemon, ethread, sthread, ghosts
<1>16. CASE CSend /\ UNCHANGED daemon
    <2>1. conn \in Conns
        BY <1>0, <1>16 DEF CSend, TypeOK
    <2>2. PICK r \in Requests : toServer' = [toServer EXCEPT ![conn] = Append(@, r)]
        BY <1>16 DEF CSend
    <2>3. toServer' \in [Conns -> Seq(Requests)]
        BY <1>0, <2>1, <2>2 DEF TypeOK
    <2>4. outstanding' \in 0 .. MaxOutstanding
        BY <1>0, <1>16 DEF CSend, TypeOK
    <2> QED
        BY <1>0, <1>16, <2>3, <2>4 DEF TypeOK, CSend, daemon, ethread, sthread, ghosts
<1>17. CASE CReceive /\ UNCHANGED daemon
    <2> DEFINE q == toClient[conn]
    <2>1. conn \in Conns /\ conn # NoConn /\ open[conn]
        BY <1>0, <1>17 DEF CReceive, TypeOK
    <2>2. q \in Seq(Message) /\ q # <<>>
        BY <1>0, <1>17, <2>1 DEF CReceive, TypeOK
    <2>3. toClient' \in [Conns -> Seq(Message)]
        BY <1>0, <1>17, <2>1, <2>2 DEF CReceive, TypeOK
    <2>4. outstanding' \in 0 .. MaxOutstanding
        <3>1. CASE IsReply(Head(q))
            <4>1. Replies + Served + Len(toServer[conn]) <= outstanding
                BY <2>1 DEF IInv, RepliesFollowRequests
            <4>2. Replies \in Nat /\ Replies >= 1
                BY <2>2, <3>1, TailReplies DEF Replies
            <4>3. Served \in {0, 1} /\ Len(toServer[conn]) \in Nat
                BY <1>0, <2>1 DEF Served, TypeOK
            <4>4. outstanding \in Nat
                BY <1>0 DEF TypeOK
            <4>5. outstanding >= 1
                BY <4>1, <4>2, <4>3, <4>4, \A r, s, l, o \in Nat : r >= 1 /\ r + s + l <= o => o >= 1
            <4> QED
                BY <1>0, <1>17, <4>5 DEF CReceive, TypeOK
        <3>2. CASE ~IsReply(Head(q))
            BY <1>0, <1>17, <3>2 DEF CReceive, TypeOK
        <3> QED
            BY <3>1, <3>2
    <2> QED
        BY <1>0, <1>17, <2>3, <2>4 DEF TypeOK, CReceive, daemon, ethread, sthread, ghosts
<1>18. CASE CDisconnect /\ UNCHANGED daemon
    BY <1>0, <1>18 DEF TypeOK, CDisconnect, daemon, ethread, sthread, ghosts
<1>19. CASE UNCHANGED vars
    BY <1>0, <1>19 DEF TypeOK, vars, ethread, sthread, channel, ghosts
<1> QED
    BY <1>1, <1>2, <1>3, <1>4, <1>5, <1>6, <1>7, <1>8, <1>9, <1>10, <1>11, <1>12,
       <1>13, <1>14, <1>15, <1>16, <1>17, <1>18, <1>19 DEF Next

\* Every step keeps what is known of the mode, of the request that is served
\* and of its reply.
LEMMA ThreadStep ==
    IInv /\ [Next]_vars
        => SwitchWritten' /\ NotifyIsNotStale' /\ ServedRequest'
<1> SUFFICES ASSUME IInv, [Next]_vars
             PROVE  SwitchWritten' /\ NotifyIsNotStale' /\ ServedRequest'
    OBVIOUS
<1> USE DEF SwitchWritten, NotifyIsNotStale, ServedRequest
<1>0. SwitchWritten /\ NotifyIsNotStale /\ ServedRequest /\ TypeOK
    BY DEF IInv
<1>1. CASE EFrame
    BY <1>0, <1>1 DEF EFrame, sthread, ghosts
<1>2. CASE ERead
    BY <1>0, <1>2 DEF ERead, sthread, ghosts
<1>3. CASE EToggle
    BY <1>0, <1>3 DEF EToggle, sthread
<1>4. CASE ENotify
    BY <1>0, <1>4 DEF ENotify, SwitchDone, sthread, ghosts
<1>5. CASE EGetMode
    BY <1>0, <1>5 DEF EGetMode, sthread, ghosts
<1>6. CASE ESend
    BY <1>0, <1>6 DEF ESend, SwitchDone, sthread, ghosts
<1>7. CASE SAccept
    BY <1>0, <1>7 DEF SAccept, ethread, ghosts
<1>8. CASE SRecv
    BY <1>0, <1>8 DEF SRecv, ethread, ghosts
<1>9. CASE SRecvEnd
    BY <1>0, <1>9 DEF SRecvEnd, ethread, ghosts
<1>10. CASE SGet
    BY <1>0, <1>10 DEF SGet, ethread, ghosts
<1>11. CASE SSet
    <2>1. SwitchWritten' /\ NotifyIsNotStale'
        BY <1>0, <1>11 DEF SSet, SwtichToNewMode, ethread
    <2>2. ServedRequest'
        BY <1>0, <1>11 DEF SSet, ReturnCode, isValidMode
    <2> QED
        BY <2>1, <2>2
<1>12. CASE SReply
    BY <1>0, <1>12 DEF SReply, ethread, ghosts
<1>13. CASE SClose
    BY <1>0, <1>13 DEF SClose, ethread, ghosts
<1>14. CASE SForget
    BY <1>0, <1>14 DEF SForget, ethread, ghosts
<1>15. CASE UNCHANGED daemon
    BY <1>0, <1>15 DEF daemon, ethread, sthread, ghosts
<1>16. CASE UNCHANGED vars
    BY <1>0, <1>16 DEF vars, ethread, sthread, ghosts
<1> QED
    BY <1>1, <1>2, <1>3, <1>4, <1>5, <1>6, <1>7, <1>8, <1>9, <1>10, <1>11, <1>12,
       <1>13, <1>14, <1>15, <1>16 DEF Next

\* Every step keeps the server on a connection that was made.
LEMMA ConnectionStep == IInv /\ [Next]_vars => Connections'
<1> SUFFICES ASSUME IInv, [Next]_vars PROVE Connections'
    OBVIOUS
<1> USE ServerAssumption DEF Connections, Serving, NoConn
<1>0. Connections /\ TypeOK
    BY DEF IInv
<1>1. CASE UNCHANGED <<sthread, conn, toServer, toClient>>
    BY <1>0, <1>1 DEF sthread
<1>2. CASE ESend \/ SReply
    <2>1. PICK m \in Message : Send(m)
        BY <1>0, <1>2 DEF ESend, SReply, TypeOK, Message
    <2>2. \A c \in Conns : c > conn => toClient'[c] = toClient[c]
        <3>1. CASE UNCHANGED toClient
            BY <3>1
        <3>2. CASE /\ clientSock \in Conns
                   /\ toClient' = [toClient EXCEPT ![clientSock] = Append(@, m)]
            BY <1>0, <3>2 DEF TypeOK, Conns
        <3> QED
            BY <1>0, <2>1, <3>1, <3>2, SendQueues
    <2>3. UNCHANGED <<conn, toServer, clientSock, accepted>>
        BY <1>2, <2>1 DEF ESend, SReply, Send, sthread
    <2>4. spc' \in Serving => spc \in Serving
        BY <1>2 DEF ESend, SReply, sthread
    <2> QED
        BY <1>0, <2>2, <2>3, <2>4
<1>3. CASE SAccept
    BY <1>0, <1>3 DEF SAccept, TypeOK, Conns, channel
<1>4. CASE SRecv
    BY <1>0, <1>4 DEF SRecv, TypeOK, Conns
<1>5. CASE SRecvEnd \/ SGet \/ SSet \/ SClose
    BY <1>0, <1>5 DEF SRecvEnd, SGet, SSet, SClose, channel
<1>6. CASE SForget
    BY <1>0, <1>6 DEF SForget, TypeOK, Conns, channel
<1>7. CASE CConnect /\ UNCHANGED daemon
    <2>1. conn' = conn + 1 /\ UNCHANGED <<spc, clientSock, accepted, toServer, toClient>>
        BY <1>7 DEF CConnect, daemon, sthread
    <2>2. /\ conn \in Nat /\ clientSock \in Nat /\ accepted \in Nat
          /\ \A c \in Conns : c \in Nat
        BY <1>0 DEF TypeOK, Conns
    <2> QED
        BY <1>0, <2>1, <2>2
<1>8. CASE CSend /\ UNCHANGED daemon
    BY <1>0, <1>8 DEF CSend, TypeOK, Conns, daemon, sthread
<1>9. CASE CReceive /\ UNCHANGED daemon
    BY <1>0, <1>9 DEF CReceive, TypeOK, Conns, daemon, sthread
<1>10. CASE CDisconnect /\ UNCHANGED daemon
    BY <1>0, <1>10 DEF CDisconnect, TypeOK, Conns, daemon, sthread
<1>11. CASE EFrame \/ ERead \/ EToggle \/ ENotify \/ EGetMode \/ UNCHANGED vars
    BY <1>1, <1>11 DEF EFrame, ERead, EToggle, ENotify, EGetMode, vars, channel
<1> QED
    BY <1>2, <1>3, <1>4, <1>5, <1>6, <1>7, <1>8, <1>9, <1>10, <1>11 DEF Next

-----------------------------------------------------------------------------
\* The replies of the last connection are counted by a number.
LEMMA CountsAreNumbers ==
    ASSUME TypeOK, conn \in Conns
    PROVE  /\ Replies \in Nat /\ Served \in {0, 1}
           /\ Len(toServer[conn]) \in Nat /\ outstanding \in Nat
           /\ toClient[conn] \in Seq(Message)
<1>1. toClient[conn] \in Seq(Message) /\ toServer[conn] \in Seq(Requests)
    BY DEF TypeOK
<1>2. PICK m : m \in Message
    BY DEF TypeOK
<1>3. Replies \in Nat
    BY <1>1, <1>2, AppendReplies DEF Replies
<1> QED
    BY <1>1, <1>3, ServerAssumption DEF Served, TypeOK

\* A send adds a reply to the last connection only if it sends one and sends it
\* there.
LEMMA SendReplies ==
    ASSUME TypeOK, conn \in Conns, NEW m \in Message, Send(m)
    PROVE  \/ Replies' = Replies
           \/ IsReply(m) /\ clientSock = conn /\ Replies' = Replies + 1
<1>1. conn' = conn /\ toClient \in [Conns -> Seq(Message)]
    BY DEF Send, TypeOK
<1>2. CASE UNCHANGED toClient
    BY <1>1, <1>2 DEF Replies
<1>3. CASE /\ clientSock \in Conns
           /\ toClient' = [toClient EXCEPT ![clientSock] = Append(@, m)]
    <2>1. CASE clientSock = conn
        <3>1. toClient'[conn'] = Append(toClient[conn], m)
            BY <1>1, <1>3, <2>1
        <3>2. /\ Replies' = Replies + (IF IsReply(m) THEN 1 ELSE 0)
              /\ Replies \in Nat
            BY <1>1, <3>1, AppendReplies DEF Replies
        <3> QED
            BY <2>1, <3>2
    <2>2. CASE clientSock # conn
        BY <1>1, <1>3, <2>2 DEF Replies
    <2> QED
        BY <2>1, <2>2
<1> QED
    BY <1>2, <1>3, SendQueues

\* Every step keeps the replies within the requests.
LEMMA RepliesStep == IInv /\ [Next]_vars => RepliesFollowRequests'
<1> SUFFICES ASSUME IInv, [Next]_vars, conn' # NoConn, open'[conn']
             PROVE  (Replies + Served + Len(toServer[conn]) <= outstanding)'
    BY DEF RepliesFollowRequests
<1> USE DEF NoConn
<1>0. TypeOK /\ Connections /\ ServedRequest
    BY DEF IInv
<1>a. TypeOK'
    BY TypeStep
<1>b. conn' \in Conns
    BY <1>a DEF TypeOK
<1>c. ASSUME conn \in Conns, open[conn]
      PROVE  Replies + Served + Len(toServer[conn]) <= outstanding
    BY <1>c, ServerAssumption DEF IInv, RepliesFollowRequests, Conns
<1>1. CASE /\ UNCHANGED <<conn, open, toServer, toClient, outstanding>>
           /\ Served' <= Served
    <2>1. conn \in Conns /\ open[conn]
        BY <1>1, <1>b
    <2>2. Replies' = Replies
        BY <1>1 DEF Replies
    <2>3. Served' \in {0, 1} /\ Served \in {0, 1}
        BY DEF Served
    <2> QED
        BY <1>0, <1>1, <1>c, <2>1, <2>2, <2>3, CountsAreNumbers,
           \A r, s, t, l, o \in Nat : r + s + l <= o /\ t <= s => r + t + l <= o
<1>2. CASE EFrame \/ ERead \/ EToggle \/ ENotify \/ EGetMode
    BY <1>1, <1>2 DEF EFrame, ERead, EToggle, ENotify, EGetMode, Served, sthread, channel
<1>3. CASE SAccept \/ SRecvEnd \/ SClose \/ SForget
    <2>1. Served' = 0
        BY <1>3 DEF SAccept, SRecvEnd, SClose, SForget, Served
    <2> QED
        BY <1>1, <1>3, <2>1 DEF SAccept, SRecvEnd, SClose, SForget, channel, Served
<1>4. CASE SGet \/ SSet
    BY <1>1, <1>4 DEF SGet, SSet, Served, channel
<1>5. CASE UNCHANGED vars
    BY <1>1, <1>5 DEF vars, sthread, channel, Served
<1>6. CASE ESend
    <2> DEFINE m == [kind |-> "NOTIFY", mode |-> ecur]
    <2>1. m \in Message /\ Send(m) /\ ~IsReply(m)
        BY <1>0, <1>6 DEF TypeOK, ESend, Message, IsReply
    <2>2. UNCHANGED <<conn, open, toServer, outstanding, clientSock, spc>>
        BY <1>6, <2>1 DEF ESend, Send, sthread
    <2>3. conn \in Conns /\ open[conn]
        BY <1>b, <2>2
    <2>4. Served' = Served
        BY <2>2 DEF Served
    <2>5. Replies' = Replies
        BY <1>0, <2>1, <2>2, <2>3, SendReplies
    <2> QED
        BY <1>c, <2>2, <2>3, <2>4, <2>5
<1>7. CASE SReply
    <2>1. sendstr \in Message /\ Send(sendstr)
        BY <1>0, <1>7 DEF TypeOK, SReply
    <2>2. UNCHANGED <<conn, open, toServer, outstanding, clientSock>> /\ spc = "reply"
        BY <1>7, <2>1 DEF SReply, Send
    <2>3. conn \in Conns /\ open[conn]
        BY <1>b, <2>2
    <2>4. Served' = 0 /\ Served = IF clientSock = conn THEN 1 ELSE 0
        BY <1>7, <2>2 DEF SReply, Served
    <2>5. Replies' = Replies \/ (clientSock = conn /\ Replies' = Replies + 1)
        BY <1>0, <2>1, <2>2, <2>3, SendReplies
    <2> QED
        BY <1>0, <1>c, <2>2, <2>3, <2>4, <2>5, CountsAreNumbers,
           \A r, s, l, o \in Nat : r + s + l <= o =>
              r + 0 + l <= o /\ (s = 1 => (r + 1) + 0 + l <= o)
<1>8. CASE SRecv
    <2>1. /\ UNCHANGED <<conn, open, toClient, outstanding, clientSock>>
          /\ toServer' = [toServer EXCEPT ![clientSock] = <<>>]
          /\ toServer[clientSock] # <<>> /\ spc = "recv"
        BY <1>8 DEF SRecv
    <2>2. conn \in Conns /\ open[conn]
        BY <1>b, <2>1
    <2>3. Replies' = Replies /\ Served = 0 /\ Served' \in {0, 1}
        BY <2>1 DEF Replies, Served
    <2>4. Served' + Len(toServer'[conn]) <= Len(toServer[conn])
        <3>1. toServer \in [Conns -> Seq(Requests)]
            BY <1>0 DEF TypeOK
        <3>2. CASE clientSock = conn
            <4>1. Len(toServer'[conn]) = 0 /\ Len(toServer[conn]) \in Nat \ {0}
                BY <2>1, <2>2, <3>1, <3>2
            <4> QED
                BY <2>3, <4>1
        <3>3. CASE clientSock # conn
            <4>1. Served' = 0 /\ toServer'[conn] = toServer[conn]
                BY <2>1, <2>2, <3>1, <3>3 DEF Served
            <4> QED
                BY <1>0, <2>2, <4>1, CountsAreNumbers
        <3> QED
            BY <3>2, <3>3
    <2>5. Len(toServer'[conn]) \in Nat
        BY <1>a, <1>b, <2>1, CountsAreNumbers DEF TypeOK
    <2> QED
        BY <1>0, <1>c, <2>1, <2>2, <2>3, <2>4, <2>5, CountsAreNumbers,
           \A r, s, l, k, o \in Nat : r + 0 + l <= o /\ s + k <= l => r + s + k <= o
<1>9. CASE CConnect /\ UNCHANGED daemon
    <2>1. /\ conn' = conn + 1 /\ outstanding' = 0
          /\ UNCHANGED <<toServer, toClient, clientSock>>
        BY <1>9 DEF CConnect, daemon, sthread
    <2>2. conn \in Nat /\ clientSock \in Nat /\ clientSock <= conn
        BY <1>0, ServerAssumption DEF TypeOK, Conns, Connections
    <2>3. toServer[conn'] = <<>> /\ toClient[conn'] = <<>>
        BY <1>0, <1>b, <2>1, <2>2 DEF Connections
    <2>4. Served' = 0
        BY <2>1, <2>2 DEF Served
    <2>5. Replies' = 0
        <3>1. RepliesIn(<<>>) = {}
            BY DEF RepliesIn
        <3> QED
            BY <2>1, <2>3, <3>1, FS_EmptySet DEF Replies
    <2> QED
        BY <2>1, <2>3, <2>4, <2>5
<1>10. CASE CSend /\ UNCHANGED daemon
    <2>1. PICK sent \in Requests : toServer' = [toServer EXCEPT ![conn] = Append(@, sent)]
        BY <1>10 DEF CSend
    <2>2. /\ UNCHANGED <<conn, open, toClient, clientSock, spc>>
          /\ outstanding' = outstanding + 1
        BY <1>10 DEF CSend, daemon, sthread
    <2>3. conn \in Conns /\ open[conn]
        BY <1>b, <2>2
    <2>4. Replies' = Replies /\ Served' = Served
        BY <2>2 DEF Replies, Served
    <2>5. Len(toServer'[conn]) = Len(toServer[conn]) + 1
        BY <1>0, <2>1, <2>3 DEF TypeOK
    <2> QED
        BY <1>0, <1>c, <2>2, <2>3, <2>4, <2>5, CountsAreNumbers,
           \A r, s, l, o \in Nat : r + s + l <= o => r + s + (l + 1) <= o + 1
<1>11. CASE CReceive /\ UNCHANGED daemon
    <2> DEFINE q == toClient[conn]
    <2>1. /\ UNCHANGED <<conn, open, toServer, clientSock, spc>>
          /\ toClient' = [toClient EXCEPT ![conn] = Tail(@)]
          /\ q # <<>>
          /\ outstanding' = IF IsReply(Head(q)) THEN outstanding - 1 ELSE outstanding
        BY <1>11 DEF CReceive, daemon, sthread
    <2>2. conn \in Conns /\ open[conn]
        BY <1>b, <2>1
    <2>3. q \in Seq(Message) /\ toClient'[conn] = Tail(q)
        BY <1>0, <2>1, <2>2 DEF TypeOK
    <2>4. Replies' = Replies - (IF IsReply(Head(q)) THEN 1 ELSE 0)
        BY <2>1, <2>3, TailReplies DEF Replies
    <2>5. Served' = Served
        BY <2>1 DEF Served
    <2> QED
        BY <1>0, <1>c, <2>1, <2>2, <2>4, <2>5, CountsAreNumbers,
           \A r, s, l, o \in Nat : r + s + l <= o => (r - 1) + s + l <= o - 1
<1>12. CASE CDisconnect /\ UNCHANGED daemon
    <2>1. conn \in Conns /\ conn' = conn /\ ~open'[conn]
        BY <1>0, <1>12 DEF CDisconnect, TypeOK
    <2> QED
        BY <2>1
<1> QED
    BY <1>2, <1>3, <1>4, <1>5, <1>6, <1>7, <1>8, <1>9, <1>10, <1>11, <1>12 DEF Next

-----------------------------------------------------------------------------
\* Every step keeps the inductive invariant.
LEMMA Inductive == IInv /\ [Next]_vars => IInv'
BY TypeStep, ThreadStep, ConnectionStep, RepliesStep DEF IInv

\* The invariant holds in every behaviour of the server.
LEMMA Invariant == Spec => []IInv
BY InitIInv, Inductive, PTL DEF Spec

\* The descriptor, the queues and the counters of socketserver.c stay in their
\* ranges: outstanding never falls below zero, that is, the client is never
\* sent a reply it has not asked for.
THEOREM TypeCorrect == Spec => []TypeOK
<1>1. IInv => TypeOK
    BY DEF IInv
<1> QED
    BY <1>1, Invariant, PTL

\* Whatever the socket thread does between the switch and the notification,
\* the client is told a mode written by the switch or after it.
THEOREM NotifyCorrect == Spec => []NotifyIsNotStale
<1>1. IInv => NotifyIsNotStale
    BY DEF IInv
<1> QED
    BY <1>1, Invariant, PTL

\* For any number of connections and requests sent ahead there is at most one
\* reply for each request of the connection.
THEOREM RepliesCorrect == Spec => []RepliesFollowRequests
<1>1. IInv => RepliesFollowRequests
    BY DEF IInv
<1> QED
    BY <1>1, Invariant, PTL
=============================================================================
