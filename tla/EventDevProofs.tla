--------------------------- MODULE EventDevProofs ---------------------------
(***************************************************************************)
(* For a packet of any size, a kernel queue of any size that holds one,    *)
(* and any number of packets and losses: what the reader keeps stays in    *)
(* its buffers, poll() never waits with a whole frame read ahead, and as   *)
(* long as nothing is lost the frames are the packets, one after the       *)
(* other, and fread() does not block, until the device is removed.         *)
(***************************************************************************)
EXTENDS EventDev, SequenceTheorems, TLAPS

Events == Event \cup {Dropped}

\* A frame is complete, or there is none, with less than a frame in the buffer.
ReadAhead == pc = "poll" \/ Len(ev) = PacketEvents => Len(stdio) < PacketEvents

\* The events of d packets, and the place of event i of the packet after m.
Whole(d) == d * PacketEvents
At(m, i) == Whole(m) + i

\* The queue holds the packets after k, whole and in their order.
Behind(k) ==
    /\ Len(queue) = Whole(packets - k)
    /\ \A m \in Nat, i \in Place :
          m < packets - k => queue[At(m, i)] = <<k + m + 1, i>>

\* Where packet k, the last that has left the kernel, is: reported, in the
\* buffer, or delivered by fread().
Reported(k) ==
    /\ stdio = <<>> /\ out = Frame(k)
    /\ \/ pc = "poll" /\ (ev = <<>> \/ (k >= 1 /\ ev = Packet(k)))
       \/ pc = "fread" /\ ev = <<>> /\ k < packets
Buffered(k) ==
    k >= 1 /\ pc = "fread" /\ stdio = Packet(k) /\ ev = <<>> /\ out = Frame(k - 1)
Delivered(k) ==
    k >= 1 /\ pc = "fread" /\ stdio = <<>> /\ ev = Packet(k) /\ out = Frame(k - 1)

\* Without a loss the stream is in step with the reader.
Lossless ==
    losses = 0 => \E k \in 0 .. packets :
        Behind(k) /\ (Reported(k) \/ Buffered(k) \/ Delivered(k))

\* The inductive invariant.
IInv == TypeOK /\ ReadAhead /\ Lossless

-----------------------------------------------------------------------------
\* A packet is a sequence of as many events as it has places.
LEMMA PacketIsSeq ==
    ASSUME NEW k \in 1 .. MaxPackets
    PROVE  /\ Packet(k) \in Seq(Events)
           /\ Len(Packet(k)) = PacketEvents
           /\ \A i \in Place : Packet(k)[i] = <<k, i>>
<1>1. Packet(k) \in [1 .. PacketEvents -> Events]
    BY EventDevAssumption DEF Packet, Place, Events, Event
<1>2. PacketEvents \in Nat
    BY EventDevAssumption
<1> QED
    BY <1>1, <1>2, IsASeq DEF Packet, Place

\* The parts of a sequence of events are such sequences.
LEMMA PartIsSeq ==
    ASSUME NEW s \in Seq(Events), NEW i \in 1 .. Len(s) + 1, NEW j \in 0 .. Len(s)
    PROVE  /\ SubSeq(s, i, j) \in Seq(Events)
           /\ Len(SubSeq(s, i, j)) = IF i <= j THEN j - i + 1 ELSE 0
           /\ \A n \in 1 .. j - i + 1 : SubSeq(s, i, j)[n] = s[i + n - 1]
BY SubSeqProperties

\* Two such sequences put together.
LEMMA BothAreSeq ==
    ASSUME NEW s \in Seq(Events), NEW t \in Seq(Events)
    PROVE  /\ s \o t \in Seq(Events)
           /\ Len(s \o t) = Len(s) + Len(t)
           /\ \A n \in 1 .. Len(s) + Len(t) :
                 (s \o t)[n] = IF n <= Len(s) THEN s[n] ELSE t[n - Len(s)]
BY ConcatProperties

\* A sequence with one event left out.
LEMMA RemovedIsSeq ==
    ASSUME NEW s \in Seq(Events), NEW i \in 1 .. Len(s)
    PROVE  RemoveAt(s, i) \in Seq(Events) /\ Len(RemoveAt(s, i)) = Len(s) - 1
<1> DEFINE a == SubSeq(s, 1, i - 1)
           b == SubSeq(s, i + 1, Len(s))
<1>1. a \in Seq(Events) /\ Len(a) = i - 1
    BY PartIsSeq
<1>2. b \in Seq(Events) /\ Len(b) = Len(s) - i
    BY PartIsSeq
<1>3. RemoveAt(s, i) = a \o b
    BY DEF RemoveAt
<1> HIDE DEF a, b
<1>4. a \o b \in Seq(Events) /\ Len(a \o b) = Len(a) + Len(b)
    BY <1>1, <1>2, BothAreSeq
<1> QED
    BY <1>1, <1>2, <1>3, <1>4

-----------------------------------------------------------------------------
\* The initial state satisfies the inductive invariant.
LEMMA InitIInv == Init => IInv
<1> SUFFICES ASSUME Init PROVE IInv
    OBVIOUS
<1> USE EventDevAssumption
<1>1. <<>> \in Seq(Events) /\ Len(<<>>) = 0
    OBVIOUS
<1>2. TypeOK
    BY <1>1 DEF Init, TypeOK, Events, Buffer, input_expected
<1>3. ReadAhead
    BY <1>1 DEF Init, ReadAhead
<1>4. Behind(0) /\ Reported(0)
    <2>1. Whole(0) = 0 /\ packets = 0
        BY DEF Init, Whole
    <2> QED
        BY <1>1, <2>1 DEF Init, Behind, Reported, Frame
<1>5. 0 \in 0 .. packets
    BY DEF Init
<1>6. Lossless
    BY <1>4, <1>5 DEF Lossless
<1> QED
    BY <1>2, <1>3, <1>6 DEF IInv

\* What fread() takes from the buffer and what a read() puts there.
LEMMA TakeAndFill ==
    ASSUME TypeOK
    PROVE  /\ pc = "fread" /\ stdio # <<>> /\ Len(ev) < input_expected
                 => /\ Take \in 1 .. Len(stdio)
                    /\ Take <= PacketEvents - Len(ev)
                    /\ Len(ev) + Take = PacketEvents => Len(stdio) - Take < PacketEvents
           /\ queue # <<>> => Fill \in 1 .. Len(queue) /\ Fill <= PacketEvents
<1> USE EventDevAssumption
<1>1. /\ stdio \in Seq(Events) /\ Len(stdio) <= PacketEvents
      /\ ev \in Seq(Events) /\ Len(ev) <= PacketEvents
      /\ queue \in Seq(Events)
    BY DEF TypeOK, Buffer, input_expected, Events
<1>2. ASSUME pc = "fread", stdio # <<>>, Len(ev) < input_expected
      PROVE  /\ Take \in 1 .. Len(stdio)
             /\ Take <= PacketEvents - Len(ev)
             /\ Len(ev) + Take = PacketEvents => Len(stdio) - Take < PacketEvents
    <2>1. Len(stdio) \in Nat \ {0} /\ Len(ev) \in Nat /\ Len(ev) < PacketEvents
        BY <1>1, <1>2, EmptySeq DEF input_expected
    <2> QED
        BY <1>1, <2>1 DEF Take, input_expected
<1>3. ASSUME queue # <<>>
      PROVE  Fill \in 1 .. Len(queue) /\ Fill <= PacketEvents
    <2>1. Len(queue) \in Nat \ {0}
        BY <1>1, <1>3, EmptySeq
    <2> QED
        BY <2>1 DEF Fill, Buffer, input_expected
<1> QED
    BY <1>2, <1>3

\* Every step keeps the types and the buffer below a frame where it matters.
LEMMA TypeStep == IInv /\ [Next]_vars => TypeOK' /\ ReadAhead'
<1> SUFFICES ASSUME IInv, [Next]_vars PROVE TypeOK' /\ ReadAhead'
    OBVIOUS
<1> USE EventDevAssumption
<1>0. TypeOK /\ ReadAhead
    BY DEF IInv
<1>a. /\ queue \in Seq(Events) /\ Len(queue) <= QueueEvents
      /\ stdio \in Seq(Events) /\ Len(stdio) <= PacketEvents
      /\ ev \in Seq(Events) /\ Len(ev) <= PacketEvents
      /\ out \in Seq(Events)
      /\ packets \in 0 .. MaxPackets /\ losses \in 0 .. MaxLosses
    BY <1>0 DEF TypeOK, Events, Buffer, input_expected
<1>b. pc \in {"poll", "fread"} /\ present \in BOOLEAN
    BY <1>0 DEF TypeOK
<1>c. ASSUME queue' \in Seq(Events), Len(queue') <= QueueEvents,
             packets' \in 0 .. MaxPackets, losses' \in 0 .. MaxLosses,
             present' \in BOOLEAN, UNCHANGED <<stdio, pc, ev, out>>
      PROVE  TypeOK' /\ ReadAhead'
    BY <1>0, <1>c DEF TypeOK, ReadAhead, Events, Buffer, input_expected
<1>1. CASE SendWhole
    <2>1. packets + 1 \in 1 .. MaxPackets
        BY <1>a, <1>1 DEF SendWhole, Send
    <2>2. queue' \in Seq(Events) /\ Len(queue') <= QueueEvents
        BY <1>a, <1>1, <2>1, PacketIsSeq, BothAreSeq DEF SendWhole, Send, Fits
    <2> QED
        BY <1>a, <1>b, <1>c, <1>1, <2>1, <2>2 DEF SendWhole, Send
<1>2. CASE SendShort
    <2>1. packets + 1 \in 1 .. MaxPackets
        BY <1>a, <1>2 DEF SendShort, Send
    <2> DEFINE s == Packet(packets + 1)
    <2>2. PICK i \in 1 .. PacketEvents - 1 : Send(queue \o RemoveAt(s, i), 1)
        BY <1>2 DEF SendShort
    <2> DEFINE t == RemoveAt(s, i)
    <2>3. t \in Seq(Events) /\ Len(t) = PacketEvents - 1
        BY <2>1, PacketIsSeq, RemovedIsSeq
    <2>4. Len(queue) + PacketEvents <= QueueEvents
        BY <1>2 DEF SendShort, Fits
    <2>5. queue' = queue \o t
        BY <2>2 DEF Send
    <2> HIDE DEF t
    <2>6. queue \o t \in Seq(Events) /\ Len(queue \o t) = Len(queue) + Len(t)
        BY <1>a, <2>3, BothAreSeq
    <2>7. queue' \in Seq(Events) /\ Len(queue') <= QueueEvents
        <3>1. Len(queue') = Len(queue) + (PacketEvents - 1) /\ Len(queue) \in Nat
            BY <1>a, <2>3, <2>5, <2>6
        <3> QED
            BY <2>4, <2>5, <2>6, <3>1
    <2> QED
        BY <1>a, <1>b, <1>c, <1>2, <2>1, <2>2, <2>7 DEF SendShort, Send
<1>3. CASE SendOverflow
    <2>1. packets + 1 \in 1 .. MaxPackets
        BY <1>a, <1>3 DEF SendOverflow, Send
    <2> DEFINE s == Packet(packets + 1)
    <2>2. PICK i \in Place : Send(<<Dropped>> \o SubSeq(s, i, PacketEvents), 1)
        BY <1>3 DEF SendOverflow
    <2>3. s \in Seq(Events) /\ Len(s) = PacketEvents
        BY <2>1, PacketIsSeq
    <2>4. /\ SubSeq(s, i, PacketEvents) \in Seq(Events)
          /\ Len(SubSeq(s, i, PacketEvents)) = PacketEvents - i + 1
        BY <2>3, PartIsSeq DEF Place
    <2>5. <<Dropped>> \in Seq(Events) /\ Len(<<Dropped>>) = 1
        BY DEF Events
    <2>6. queue' \in Seq(Events) /\ Len(queue') <= QueueEvents
        BY <2>2, <2>4, <2>5, BothAreSeq DEF Send, Place
    <2> QED
        BY <1>a, <1>b, <1>c, <1>3, <2>1, <2>2, <2>6 DEF SendOverflow, Send
<1>4. CASE Poll
    <2>1. ev' = <<>> /\ Len(ev') = 0 /\ ev' \in Seq(Events)
        BY <1>4 DEF Poll
    <2> QED
        BY <1>0, <1>4, <2>1 DEF Poll, TypeOK, ReadAhead, Events
<1>5. CASE Copy
    <2>1. /\ Take \in 1 .. Len(stdio) /\ Take <= PacketEvents - Len(ev)
          /\ Len(ev) + Take = PacketEvents => Len(stdio) - Take < PacketEvents
        BY <1>0, <1>5, TakeAndFill DEF Copy
    <2>2. /\ SubSeq(stdio, 1, Take) \in Seq(Events) /\ Len(SubSeq(stdio, 1, Take)) = Take
          /\ SubSeq(stdio, Take + 1, Len(stdio)) \in Seq(Events)
          /\ Len(SubSeq(stdio, Take + 1, Len(stdio))) = Len(stdio) - Take
        <3>1. /\ 1 \in 1 .. Len(stdio) + 1 /\ Take \in 0 .. Len(stdio)
              /\ Take + 1 \in 1 .. Len(stdio) + 1 /\ Len(stdio) \in 0 .. Len(stdio)
            BY <1>a, <2>1
        <3>2. SubSeq(stdio, 1, Take) \in Seq(Events) /\ Len(SubSeq(stdio, 1, Take)) = Take
            BY <1>a, <2>1, <3>1, PartIsSeq
        <3>3. /\ SubSeq(stdio, Take + 1, Len(stdio)) \in Seq(Events)
              /\ Len(SubSeq(stdio, Take + 1, Len(stdio))) = Len(stdio) - Take
            BY <1>a, <2>1, <3>1, PartIsSeq
        <3> QED
            BY <3>2, <3>3
    <2>3. /\ ev' \in Seq(Events) /\ Len(ev') = Len(ev) + Take
          /\ stdio' \in Seq(Events) /\ Len(stdio') = Len(stdio) - Take
        BY <1>a, <1>5, <2>2, BothAreSeq DEF Copy
    <2>4. UNCHANGED <<queue, pc, out, present, packets, losses>> /\ pc = "fread"
        BY <1>5 DEF Copy
    <2> QED
        BY <1>0, <1>a, <2>1, <2>3, <2>4 DEF TypeOK, ReadAhead, Events, Buffer, input_expected
<1>6. CASE Refill
    <2>1. Fill \in 1 .. Len(queue) /\ Fill <= PacketEvents
        BY <1>0, <1>6, TakeAndFill DEF Refill
    <2>2. /\ stdio' \in Seq(Events) /\ Len(stdio') = Fill
          /\ queue' \in Seq(Events) /\ Len(queue') = Len(queue) - Fill
        BY <1>a, <1>6, <2>1, PartIsSeq DEF Refill
    <2>3. UNCHANGED <<pc, ev, out, present, packets, losses>>
          /\ pc = "fread" /\ Len(ev) < PacketEvents
        BY <1>6 DEF Refill, input_expected
    <2> QED
        BY <1>0, <1>a, <2>1, <2>2, <2>3 DEF TypeOK, ReadAhead, Events, Buffer, input_expected
<1>7. CASE event_dev_get
    <2>1. Len(ev) = PacketEvents
        BY <1>7 DEF event_dev_get, input_expected
    <2>2. evs_to_out \in Seq(Events)
        BY <1>a, <2>1, PartIsSeq DEF evs_to_out, input_expected
    <2>3. out' \in Seq(Events)
        BY <1>a, <1>7, <2>2 DEF event_dev_get
    <2> QED
        BY <1>0, <1>7, <2>1, <2>3 DEF event_dev_get, TypeOK, ReadAhead, Events
<1>8. CASE event_dev_getShort
    <2>1. Len(stdio') = 0 /\ 0 < PacketEvents
        BY <1>8 DEF event_dev_getShort
    <2> QED
        BY <1>0, <1>8, <2>1 DEF event_dev_getShort, TypeOK, ReadAhead
<1>9. CASE Unplug
    BY <1>a, <1>c, <1>9 DEF Unplug
<1>10. CASE UNCHANGED vars
    BY <1>0, <1>10 DEF vars, TypeOK, ReadAhead
<1> QED
    BY <1>1, <1>2, <1>3, <1>4, <1>5, <1>6, <1>7, <1>8, <1>9, <1>10 DEF Next, Reader

-----------------------------------------------------------------------------
\* Where a packet lies among whole packets.
LEMMA PacketPlaces ==
    ASSUME NEW d \in Nat
    PROVE  /\ Whole(d) \in Nat
           /\ Whole(0) = 0 /\ Whole(d + 1) = Whole(d) + PacketEvents
           /\ \A m \in Nat : m < d => Whole(m) + PacketEvents <= Whole(d)
<1> USE EventDevAssumption
<1>1. Whole(d) \in Nat /\ Whole(0) = 0 /\ Whole(d + 1) = Whole(d) + PacketEvents
    BY DEF Whole
<1>2. ASSUME NEW m \in Nat, m < d
      PROVE  Whole(m) + PacketEvents <= Whole(d)
    <2>1. PICK e \in Nat : d = m + 1 + e
        <3>1. d - (m + 1) \in Nat /\ d = m + 1 + (d - (m + 1))
            BY <1>2
        <3> QED
            BY <3>1
    <2>2. Whole(d) = Whole(m) + PacketEvents + Whole(e)
        BY <2>1 DEF Whole
    <2>3. Whole(e) \in Nat /\ Whole(m) \in Nat
        BY DEF Whole
    <2> QED
        BY <2>2, <2>3
<1> QED
    BY <1>1, <1>2

\* A whole packet at the end of the queue.
LEMMA WholeStep ==
    ASSUME TypeOK, NEW k \in 0 .. packets, Behind(k), SendWhole
    PROVE  Behind(k)'
<1> USE EventDevAssumption
<1>1. /\ packets \in Nat /\ packets' = packets + 1 /\ packets + 1 \in 1 .. MaxPackets
      /\ queue' = queue \o Packet(packets + 1)
      /\ queue \in Seq(Events)
    BY DEF TypeOK, SendWhole, Send, Events
<1> DEFINE p == Packet(packets + 1)
           d == packets - k
<1>2. p \in Seq(Events) /\ Len(p) = PacketEvents /\ \A i \in Place : p[i] = <<packets + 1, i>>
    BY <1>1, PacketIsSeq
<1>3. d \in Nat /\ packets' - k = d + 1 /\ k \in Nat
    BY <1>1
<1>4. Len(queue) = Whole(d)
    BY DEF Behind
<1>5. /\ queue' \in Seq(Events)
      /\ Len(queue') = Len(queue) + PacketEvents
      /\ \A n \in 1 .. Len(queue) + PacketEvents :
            queue'[n] = IF n <= Len(queue) THEN queue[n] ELSE p[n - Len(queue)]
    <2> HIDE DEF p
    <2>1. queue' = queue \o p
        BY <1>1 DEF p
    <2>2. /\ queue \o p \in Seq(Events)
          /\ Len(queue \o p) = Len(queue) + Len(p)
          /\ \A n \in 1 .. Len(queue) + Len(p) :
                (queue \o p)[n] = IF n <= Len(queue) THEN queue[n] ELSE p[n - Len(queue)]
        BY <1>1, <1>2, BothAreSeq
    <2> QED
        BY <1>2, <2>1, <2>2
<1>6. Len(queue') = Whole(packets' - k)
    BY <1>3, <1>4, <1>5, PacketPlaces
<1>7. ASSUME NEW m \in Nat, NEW i \in Place, m < packets' - k
      PROVE  queue'[At(m, i)] = <<k + m + 1, i>>
    <2> DEFINE n == At(m, i)
    <2>1. n \in Nat \ {0} /\ i \in Nat \ {0} /\ i <= PacketEvents
        <3>1. Whole(m) \in Nat
            BY PacketPlaces
        <3> QED
            BY <3>1 DEF Place, At
    <2>2. CASE m < d
        <3>1. n <= Len(queue)
            <4>1. Whole(m) + PacketEvents <= Whole(d) /\ Whole(m) \in Nat /\ Whole(d) \in Nat
                BY <1>3, <2>2, PacketPlaces
            <4> QED
                BY <1>4, <2>1, <4>1 DEF At
        <3>2. n \in 1 .. Len(queue) + PacketEvents
            BY <1>1, <2>1, <3>1
        <3>3. queue'[n] = queue[n]
            BY <1>5, <3>1, <3>2
        <3>4. queue[n] = <<k + m + 1, i>>
            BY <2>2 DEF Behind
        <3> QED
            BY <3>3, <3>4
    <2>3. CASE m = d
        <3>1. n = Len(queue) + i /\ Len(queue) \in Nat
            BY <1>1, <1>4, <2>3 DEF At
        <3> HIDE DEF n, p
        <3>2. n \in 1 .. Len(queue) + PacketEvents /\ ~(n <= Len(queue)) /\ n - Len(queue) = i
            BY <2>1, <3>1
        <3>3. queue'[n] = p[i]
            BY <1>5, <3>2
        <3>4. packets + 1 = k + m + 1
            BY <1>1, <1>3, <2>3
        <3> QED
            BY <1>2, <3>3, <3>4 DEF n
    <2> QED
        BY <1>3, <1>7, <2>2, <2>3
<1> QED
    BY <1>1, <1>6, <1>7 DEF Behind

\* A whole packet from the front of the queue into the buffer.
LEMMA RefillStep ==
    ASSUME TypeOK, NEW k \in 0 .. packets, k < packets, Behind(k), Refill
    PROVE  Behind(k + 1)' /\ stdio' = Packet(k + 1)
<1> USE EventDevAssumption
<1> DEFINE d == packets - (k + 1)
<1>1. /\ packets \in Nat /\ packets' = packets /\ k \in Nat /\ d \in Nat
      /\ k + 1 \in 1 .. MaxPackets /\ packets - k = d + 1
      /\ queue \in Seq(Events)
    BY DEF TypeOK, Refill, Events
<1>2. Len(queue) = Whole(d) + PacketEvents /\ Whole(d) \in Nat
    BY <1>1, PacketPlaces DEF Behind
<1>3. Fill = PacketEvents
    BY <1>2 DEF Fill, Buffer, input_expected
<1>4. /\ stdio' = SubSeq(queue, 1, PacketEvents)
      /\ queue' = SubSeq(queue, PacketEvents + 1, Len(queue))
    BY <1>3 DEF Refill
<1>5. PacketEvents \in 0 .. Len(queue) /\ PacketEvents + 1 \in 1 .. Len(queue) + 1
    BY <1>2
<1>6. /\ stdio' \in Seq(Events) /\ Len(stdio') = PacketEvents
      /\ \A n \in 1 .. PacketEvents : stdio'[n] = queue[n]
    BY <1>1, <1>4, <1>5, PartIsSeq
<1>7. /\ Len(queue') = Whole(d)
      /\ \A n \in 1 .. Whole(d) : queue'[n] = queue[PacketEvents + n]
    BY <1>1, <1>2, <1>4, <1>5, PartIsSeq
<1>8. stdio' = Packet(k + 1)
    <2>1. \A i \in Place : queue[At(0, i)] = <<k + 0 + 1, i>>
        BY <1>1 DEF Behind
    <2>2. \A i \in Place : i \in Nat /\ At(0, i) = i
        BY PacketPlaces DEF Place, At
    <2>3. k + 0 + 1 = k + 1
        BY <1>1
    <2>4. \A i \in Place : stdio'[i] = <<k + 1, i>>
        BY <1>6, <2>1, <2>2, <2>3 DEF Place
    <2>5. /\ Packet(k + 1) \in Seq(Events) /\ Len(Packet(k + 1)) = PacketEvents
          /\ \A i \in Place : Packet(k + 1)[i] = <<k + 1, i>>
        BY <1>1, PacketIsSeq
    <2> QED
        BY <1>6, <2>4, <2>5, SeqEqual DEF Place
<1>9. ASSUME NEW m \in Nat, NEW i \in Place, m < packets - (k + 1)
      PROVE  queue'[At(m, i)] = <<(k + 1) + m + 1, i>>
    <2> DEFINE n == At(m, i)
    <2>1. n \in 1 .. Whole(d)
        <3>1. Whole(m) + PacketEvents <= Whole(d) /\ Whole(m) \in Nat /\ Whole(d) \in Nat
            BY <1>1, <1>9, PacketPlaces
        <3> QED
            BY <3>1 DEF At, Place
    <2>2. queue'[n] = queue[PacketEvents + n]
        BY <1>7, <2>1
    <2>3. PacketEvents + n = At(m + 1, i)
        BY PacketPlaces DEF At, Place
    <2>4. queue[At(m + 1, i)] = <<k + (m + 1) + 1, i>>
        BY <1>1, <1>9 DEF Behind
    <2>5. k + (m + 1) + 1 = (k + 1) + m + 1
        BY <1>1
    <2> QED
        BY <2>2, <2>3, <2>4, <2>5
<1> QED
    BY <1>1, <1>7, <1>8, <1>9 DEF Behind

\* A read that ends reports the packet after the last, or fails for good.
ReadsNext ==
    losses = 0 /\ pc = "fread" /\ pc' = "poll"
        => \/ \E k \in 1 .. packets : out = Frame(k - 1) /\ out' = Frame(k)
           \/ ~present /\ out' = out

\* Every step without a loss keeps the stream in step with the reader.
LEMMA LosslessStep == IInv /\ [Next]_vars => Lossless' /\ ReadsNext
<1> SUFFICES ASSUME IInv, [Next]_vars
             PROVE  Lossless' /\ ReadsNext
    OBVIOUS
<1> USE EventDevAssumption
<1>0. TypeOK /\ Lossless
    BY DEF IInv
<1>a. /\ packets \in 0 .. MaxPackets /\ losses \in Nat /\ queue \in Seq(Events)
      /\ PacketEvents \in Nat /\ PacketEvents > 0
    BY <1>0 DEF TypeOK, Events
<1>1. CASE SendShort \/ SendOverflow
    <2>1. losses' = losses + 1 /\ pc' = pc
        BY <1>1 DEF SendShort, SendOverflow, Send
    <2> QED
        BY <1>a, <2>1 DEF Lossless, ReadsNext
<1>2. CASE losses # 0 /\ ~(SendShort \/ SendOverflow)
    <2>1. losses' = losses
        BY <1>a, <1>2 DEF Next, Reader, SendWhole, Send, Poll, Copy, Refill, event_dev_get,
               event_dev_getShort, Unplug, vars
    <2> QED
        BY <1>2, <2>1 DEF Lossless, ReadsNext
<1>3. CASE losses = 0 /\ ~(SendShort \/ SendOverflow)
    <2>1. PICK k \in 0 .. packets : Behind(k) /\ (Reported(k) \/ Buffered(k) \/ Delivered(k))
        BY <1>0, <1>3 DEF Lossless
    <2>2. k \in Nat /\ k <= packets /\ k <= MaxPackets /\ packets \in Nat
        BY <1>a
    <2>3. Len(<<>>) = 0 /\ (k >= 1 => Len(Packet(k)) = PacketEvents /\ Packet(k) # <<>>)
        BY <1>a, <2>2, PacketIsSeq
    <2> DEFINE Phase(j) == Reported(j) \/ Buffered(j) \/ Delivered(j)
    <2>4. CASE SendWhole
        <3>1. Behind(k)'
            BY <1>0, <2>1, <2>4, WholeStep
        <3>2. UNCHANGED <<stdio, pc, ev, out>> /\ packets' = packets + 1
            BY <2>4 DEF SendWhole, Send
        <3>3. Phase(k)'
            BY <2>1, <2>2, <3>2 DEF Reported, Buffered, Delivered
        <3> QED
            BY <2>2, <3>1, <3>2, <3>3 DEF Lossless, ReadsNext
    <2>5. CASE Poll
        <3>1. /\ pc = "poll" /\ pc' = "fread" /\ ev' = <<>> /\ queue # <<>>
              /\ UNCHANGED <<queue, stdio, out, packets>>
            BY <2>5 DEF Poll
        <3>2. k < packets
            <4>1. Len(queue) # 0
                BY <1>a, <3>1, EmptySeq
            <4>2. k = packets => Len(queue) = 0
                BY <2>1, <2>2, PacketPlaces DEF Behind
            <4> QED
                BY <2>2, <4>1, <4>2
        <3>3. Reported(k)'
            BY <2>1, <3>1, <3>2 DEF Reported, Buffered, Delivered
        <3>4. Behind(k)'
            BY <2>1, <3>1 DEF Behind
        <3> QED
            BY <2>2, <3>1, <3>3, <3>4 DEF Lossless, ReadsNext
    <2>6. CASE Copy
        <3>1. /\ pc = "fread" /\ stdio # <<>>
              /\ ev' = ev \o SubSeq(stdio, 1, Take)
              /\ stdio' = SubSeq(stdio, Take + 1, Len(stdio))
              /\ UNCHANGED <<queue, pc, out, packets>>
            BY <2>6 DEF Copy
        <3>2. Buffered(k)
            BY <2>1, <3>1 DEF Reported, Delivered
        <3>3. k \in 1 .. MaxPackets /\ stdio = Packet(k) /\ ev = <<>>
            BY <2>2, <3>2 DEF Buffered
        <3>4. Packet(k) \in Seq(Events) /\ Len(Packet(k)) = PacketEvents
            BY <3>3, PacketIsSeq
        <3>5. Take = PacketEvents
            BY <1>a, <2>3, <3>3, <3>4 DEF Take, input_expected
        <3>6. SubSeq(stdio, 1, Take) = Packet(k) /\ stdio' = <<>>
            BY <3>1, <3>3, <3>4, <3>5, SubSeqFull, SubSeqEmpty
        <3>7. ev' = Packet(k)
            BY <3>1, <3>3, <3>4, <3>6, ConcatEmptySeq
        <3>8. Delivered(k)' /\ Behind(k)'
            BY <2>1, <3>1, <3>2, <3>6, <3>7 DEF Buffered, Delivered, Behind
        <3> QED
            BY <2>2, <3>1, <3>8 DEF Lossless, ReadsNext
    <2>7. CASE Refill
        <3>1. /\ pc = "fread" /\ stdio = <<>> /\ Len(ev) < PacketEvents
              /\ UNCHANGED <<pc, ev, out, packets>>
            BY <2>7 DEF Refill, input_expected
        <3>2. Reported(k) /\ k < packets /\ ev = <<>>
            BY <1>a, <2>1, <2>3, <3>1 DEF Reported, Buffered, Delivered
        <3>3. Behind(k + 1)' /\ stdio' = Packet(k + 1)
            BY <1>0, <2>1, <2>7, <3>2, RefillStep
        <3>4. (k + 1) - 1 = k /\ k + 1 >= 1 /\ k + 1 \in 0 .. packets'
            BY <2>2, <3>1, <3>2
        <3>5. Buffered(k + 1)'
            BY <3>1, <3>2, <3>3, <3>4 DEF Reported, Buffered
        <3> QED
            BY <3>1, <3>3, <3>4, <3>5 DEF Lossless, ReadsNext
    <2>8. CASE event_dev_get
        <3>1. /\ pc = "fread" /\ Len(ev) = PacketEvents /\ pc' = "poll"
              /\ out' = IF IsAbs(ev[1]) THEN evs_to_out ELSE out
              /\ UNCHANGED <<queue, stdio, ev, packets>>
            BY <2>8 DEF event_dev_get, input_expected
        <3>2. Delivered(k)
            BY <1>a, <2>1, <2>3, <3>1 DEF Reported, Buffered
        <3>3. k \in 1 .. MaxPackets /\ ev = Packet(k)
            BY <2>2, <3>2 DEF Delivered
        <3>4. IsAbs(ev[1])
            <4>1. 1 \in Place /\ ev[1] = <<k, 1>> /\ k # 0
                BY <3>3, PacketIsSeq DEF Place
            <4> QED
                BY <4>1 DEF IsAbs, Dropped
        <3>5. out' = Frame(k)
            BY <3>1, <3>3, <3>4 DEF evs_to_out, Frame, input_expected
        <3>6. Reported(k)' /\ Behind(k)'
            BY <2>1, <3>1, <3>2, <3>5 DEF Reported, Delivered, Behind
        <3>7. Lossless'
            BY <2>2, <3>1, <3>6 DEF Lossless
        <3>8. k \in 1 .. packets /\ out = Frame(k - 1)
            BY <2>2, <3>2 DEF Delivered
        <3> QED
            BY <3>5, <3>7, <3>8 DEF ReadsNext
    <2>9. CASE event_dev_getShort
        <3>1. /\ pc = "fread" /\ stdio = <<>> /\ Len(ev) < PacketEvents /\ ~present
              /\ pc' = "poll" /\ UNCHANGED <<queue, stdio, ev, out, packets>>
            BY <2>9 DEF event_dev_getShort, input_expected
        <3>2. Reported(k) /\ ev = <<>>
            BY <1>a, <2>1, <2>3, <3>1 DEF Reported, Buffered, Delivered
        <3>3. Reported(k)' /\ Behind(k)'
            BY <2>1, <3>1, <3>2 DEF Reported, Behind
        <3> QED
            BY <2>2, <3>1, <3>3 DEF Lossless, ReadsNext
    <2>10. CASE Unplug
        <3>1. UNCHANGED <<queue, stdio, pc, ev, out, packets>>
            BY <2>10 DEF Unplug
        <3> QED
            BY <2>1, <2>2, <3>1 DEF Lossless, ReadsNext, Behind, Reported, Buffered, Delivered
    <2>11. CASE UNCHANGED vars
        BY <1>0, <2>11 DEF vars, Lossless, ReadsNext, Behind, Reported, Buffered, Delivered
    <2> QED
        BY <1>3, <2>4, <2>5, <2>6, <2>7, <2>8, <2>9, <2>10, <2>11 DEF Next, Reader
<1> QED
    BY <1>1, <1>2, <1>3

-----------------------------------------------------------------------------
\* The invariant holds in every behaviour of the reader.
LEMMA Invariant == Spec => []IInv
<1>1. IInv /\ [Next]_vars => IInv'
    BY TypeStep, LosslessStep DEF IInv
<1> QED
    BY <1>1, InitIInv, PTL DEF Spec

\* The kernel's queue, the stream's buffer and the array of event_dev_get() are
\* never overrun, however many events are lost.
THEOREM TypeCorrect == Spec => []TypeOK
<1>1. IInv => TypeOK
    BY DEF IInv
<1> QED
    BY <1>1, Invariant, PTL

\* The buffer of one packet that event_dev_open() gives the stream is what
\* keeps poll() from waiting with a frame read ahead.
THEOREM NothingHeldBackCorrect == Spec => []NothingHeldBack
<1>1. IInv => NothingHeldBack
    BY DEF IInv, ReadAhead, NothingHeldBack
<1> QED
    BY <1>1, Invariant, PTL

\* As long as nothing is lost, the frames are the packets, one after the other,
\* until the device is removed.
THEOREM InStepCorrect == Spec => InStep
<1>1. IInv /\ [Next]_vars =>
          [losses = 0 /\ pc = "fread" /\ pc' = "poll"
             => \/ \E k \in 1 .. packets : out = Frame(k - 1) /\ out' = Frame(k)
                \/ ~present /\ out' = out]_vars
    BY LosslessStep DEF ReadsNext
<1> QED
    BY <1>1, Invariant, PTL DEF Spec, InStep

\* fread() blocks only after a loss: without one it is entered only when the
\* rest of a packet is in the queue, whether the device stays or not.
THEOREM BlocksCorrect == Spec => []BlocksOnlyAfterLoss
<1>1. ASSUME IInv, pc = "fread", stdio = <<>>, queue = <<>>, Len(ev) < input_expected
      PROVE  losses > 0
    <2> USE EventDevAssumption
    <2>1. SUFFICES ASSUME losses = 0 PROVE FALSE
        BY <1>1 DEF IInv, TypeOK
    <2>2. PICK k \in 0 .. packets : Behind(k) /\ (Reported(k) \/ Buffered(k) \/ Delivered(k))
        BY <1>1, <2>1 DEF IInv, Lossless
    <2>3. k \in Nat /\ packets \in Nat /\ packets <= MaxPackets
        BY <1>1 DEF IInv, TypeOK
    <2>4. k >= 1 => Packet(k) # <<>> /\ Len(Packet(k)) = PacketEvents
        BY <2>3, PacketIsSeq
    <2>5. k < packets
        BY <1>1, <2>2, <2>4 DEF Reported, Buffered, Delivered, input_expected
    <2>6. Whole(0) + PacketEvents <= Whole(packets - k) /\ Whole(0) = 0
        BY <2>3, <2>5, PacketPlaces
    <2>7. Len(queue) = Whole(packets - k) /\ Len(queue) = 0
        BY <1>1, <2>2 DEF Behind
    <2> QED
        BY <2>6, <2>7
<1>2. IInv => BlocksOnlyAfterLoss
    BY <1>1 DEF BlocksOnlyAfterLoss
<1> QED
    BY <1>2, Invariant, PTL
=============================================================================
