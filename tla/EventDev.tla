------------------------------ MODULE EventDev ------------------------------
(***************************************************************************)
(* event_dev.c and the part of event_dispatcher() around it: how frames of *)
(* the touch pad are cut out of the stream of input events.                *)
(*                                                                         *)
(* A frame is a packet of ten EV_ABS events and an EV_SYN, which the       *)
(* kernel makes readable as a whole.  The dispatcher polls the descriptor, *)
(* and event_dev_get() reads through a buffered stream, which poll() knows *)
(* nothing of, as many events as a packet has, whatever they are.  Events  *)
(* may be lost: the kernel leaves out a value that has not changed, and    *)
(* when its own queue is full it drops what is in it and reports that with *)
(* an EV_SYN event of its own.  The device may be removed: what it has     *)
(* sent stays visible to poll(), and every read() fails from then on.      *)
(***************************************************************************)
EXTENDS Integers, Sequences, SequencesExt

CONSTANTS
    PacketEvents,  \* events of a packet, 11 for this device
    QueueEvents,   \* events the kernel keeps for a reader
    MaxPackets,    \* bound: packets the device sends
    MaxLosses      \* bound: packets that lose events

ASSUME EventDevAssumption ==
    /\ PacketEvents \in Nat /\ PacketEvents >= 3
    /\ QueueEvents \in Nat /\ QueueEvents > PacketEvents
    /\ MaxPackets \in Nat /\ MaxLosses \in Nat

VARIABLES
    queue,    \* events in the kernel
    stdio,    \* events in the buffer of the stream
    pc,       \* the event thread: in poll(), or in the fread() of event_dev_get
    ev,       \* the events fread() has delivered so far
    out,      \* the values of the last frame accepted, event_dispatcher's gs
    present,  \* the device is there
    packets,  \* packets sent
    losses    \* packets that have lost events

vars == <<queue, stdio, pc, ev, out, present, packets, losses>>

\* An event is known by its packet and its place there; the last is the EV_SYN.
Place == 1 .. PacketEvents
Event == (1 .. MaxPackets) \X Place
Dropped == <<0, 0>>                 \* the kernel's SYN_DROPPED
IsAbs(e) == e # Dropped /\ e[2] < PacketEvents
Packet(k) == [i \in Place |-> <<k, i>>]

\* Mutant: as the comment in event_dev.h:24 has it.
input_expectedTwelve == PacketEvents + 1

input_expected == PacketEvents

\* Mutant: the stream keeps the buffer it gets by default.
BufferDefault == 4 * PacketEvents

\* setvbuf in event_dev_open, in events
Buffer == input_expected

TypeOK ==
    /\ queue \in Seq(Event \cup {Dropped})
    /\ Len(queue) <= QueueEvents
    /\ stdio \in Seq(Event \cup {Dropped}) /\ Len(stdio) <= Buffer
    /\ pc \in {"poll", "fread"}
    /\ ev \in Seq(Event \cup {Dropped}) /\ Len(ev) <= PacketEvents
    /\ out \in Seq(Event \cup {Dropped})
    /\ present \in BOOLEAN
    /\ packets \in 0 .. MaxPackets
    /\ losses \in 0 .. MaxLosses

Init ==
    /\ queue = <<>> /\ stdio = <<>>
    /\ pc = "poll" /\ ev = <<>> /\ out = <<>>
    /\ present = TRUE /\ packets = 0 /\ losses = 0

-----------------------------------------------------------------------------
\* The device sends a packet (external)
Send(events, loss) ==
    /\ present /\ packets < MaxPackets /\ packets' = packets + 1
    /\ losses' = losses + loss
    /\ queue' = events
    /\ UNCHANGED <<stdio, pc, ev, out, present>>

Fits == Len(queue) + PacketEvents <= QueueEvents

SendWhole == Fits /\ Send(queue \o Packet(packets + 1), 0)

SendShort ==
    /\ Fits /\ losses < MaxLosses
    /\ \E i \in 1 .. PacketEvents - 1 :
          Send(queue \o RemoveAt(Packet(packets + 1), i), 1)

\* The queue runs over at event i of the packet.
SendOverflow ==
    /\ ~Fits /\ losses < MaxLosses
    /\ \E i \in Place :
          Send(<<Dropped>> \o SubSeq(Packet(packets + 1), i, PacketEvents), 1)

\* The device is removed (external).
Unplug ==
    /\ present /\ present' = FALSE
    /\ UNCHANGED <<queue, stdio, pc, ev, out, packets, losses>>

-----------------------------------------------------------------------------
\* poll() sees the kernel's queue alone.
Poll ==
    /\ pc = "poll" /\ queue # <<>>
    /\ pc' = "fread" /\ ev' = <<>>
    /\ UNCHANGED <<queue, stdio, out, present, packets, losses>>

\* Mutant: all that is in the buffer is delivered.
TakeAll == Len(stdio)

\* Events fread() takes from the buffer
Take == IF Len(stdio) < input_expected - Len(ev) THEN Len(stdio)
        ELSE input_expected - Len(ev)

Copy ==
    /\ pc = "fread" /\ stdio # <<>> /\ Len(ev) < input_expected
    /\ ev' = ev \o SubSeq(stdio, 1, Take)
    /\ stdio' = SubSeq(stdio, Take + 1, Len(stdio))
    /\ UNCHANGED <<queue, pc, out, present, packets, losses>>

\* A read() for the empty buffer; it blocks while there is no event.
Fill == IF Len(queue) < Buffer THEN Len(queue) ELSE Buffer

Refill ==
    /\ pc = "fread" /\ stdio = <<>> /\ Len(ev) < input_expected
    /\ present /\ queue # <<>>
    /\ stdio' = SubSeq(queue, 1, Fill)
    /\ queue' = SubSeq(queue, Fill + 1, Len(queue))
    /\ UNCHANGED <<pc, ev, out, present, packets, losses>>

evs_to_out == SubSeq(ev, 1, input_expected - 1)

\* Mutant: the test of the first event is the wrong way round.
event_dev_getWrong ==
    /\ pc = "fread" /\ Len(ev) = input_expected
    /\ pc' = "poll"
    /\ out' = IF IsAbs(ev[1]) THEN out ELSE evs_to_out
    /\ UNCHANGED <<queue, stdio, ev, present, packets, losses>>

\* Mutant: fflush() throws away what has come meanwhile.
event_dev_getFlushes ==
    /\ pc = "fread" /\ Len(ev) = input_expected
    /\ pc' = "poll"
    /\ out' = IF IsAbs(ev[1]) THEN evs_to_out ELSE out
    /\ queue' = <<>> /\ stdio' = <<>>
    /\ UNCHANGED <<ev, present, packets, losses>>

\* The events are there: they are a frame if the first is an EV_ABS.  fflush()
\* does nothing to a stream that is read.
event_dev_get ==
    /\ pc = "fread" /\ Len(ev) = input_expected
    /\ pc' = "poll"
    /\ out' = IF IsAbs(ev[1]) THEN evs_to_out ELSE out
    /\ UNCHANGED <<queue, stdio, ev, present, packets, losses>>

\* The read() for the buffer fails, and fread() returns fewer events than a
\* frame has: -EIO, and what it has delivered is lost.
event_dev_getShort ==
    /\ pc = "fread" /\ stdio = <<>> /\ Len(ev) < input_expected /\ ~present
    /\ pc' = "poll"
    /\ UNCHANGED <<queue, stdio, ev, out, present, packets, losses>>

Reader == Poll \/ Copy \/ Refill \/ event_dev_get \/ event_dev_getShort

Next == SendWhole \/ SendShort \/ SendOverflow \/ Unplug \/ Reader

\* The event thread runs; the device need not send.
Spec == Init /\ [][Next]_vars /\ WF_vars(Reader)

-----------------------------------------------------------------------------
\* Properties that hold.

\* The values of packet k, and nothing before the first
Frame(k) == IF k = 0 THEN <<>> ELSE SubSeq(Packet(k), 1, PacketEvents - 1)

\* As long as no event is lost every read ends with a frame, none is rejected,
\* and the frames are the values of the packets, one after the other: none is
\* skipped or reported twice; and a read that ends because the device has gone
\* leaves the last frame alone (event_dev.c:84-118).
InStep ==
    [][losses = 0 /\ pc = "fread" /\ pc' = "poll"
         => \/ \E k \in 1 .. packets : out = Frame(k - 1) /\ out' = Frame(k)
            \/ ~present /\ out' = out]_vars

\* While the dispatcher waits in poll() there is never a whole frame read ahead
\* into the buffer, where poll() would not see it, however many events have
\* been lost (event_dev.c:35-36, event_handler.c:389-391).
NothingHeldBack == pc = "poll" => Len(stdio) < PacketEvents

\* fread() blocks in the middle of a frame, beyond the reach of the timeout of
\* poll() on which a double tap relies, only after a loss
\* (event_dev.c:101, event_handler.c:390).
BlocksOnlyAfterLoss ==
    present /\ pc = "fread" /\ stdio = <<>> /\ queue = <<>> /\ Len(ev) < input_expected
        => losses > 0

\* A packet sent while nothing has been lost is accepted in the end, as long as
\* the device stays.
PacketReported ==
    \A k \in 1 .. MaxPackets :
        packets = k ~> losses > 0 \/ ~present \/ (out # <<>> /\ out[1][1] >= k)
=============================================================================
