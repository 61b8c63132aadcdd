--------------------------- MODULE Gb28181Framing ---------------------------
(***************************************************************************)
(* Gb28181Producer::OnRecv (producer/gb28181_producer.cpp): a device sends *)
(* RTP over TCP, each packet behind a length of two bytes, and TCP cuts    *)
(* the stream anywhere.  OnRecv appends what arrives to recv_buffer_,      *)
(* handles every packet that is complete and keeps the rest.               *)
(*                                                                         *)
(* The stream is a constant: byte i is Byte[i], packet k is at Start[k].   *)
(* One step is one call of memcpy, one turn of the loop or the move at the *)
(* end.  A device that loses its connection opens another one to the same  *)
(* port, whose bytes reach the same producer and the same buffer.          *)
(***************************************************************************)
EXTENDS Integers, Sequences

CONSTANTS
  Frames,        \* packets the device sends
  Start,         \* where each begins in the stream, and where the last one ends
  Byte,          \* the stream
  Base,          \* values of a byte (256)
  Half,          \* values of a length below its sign bit (32768)
  MaxChunk,      \* the most bytes one call brings
  MaxReconnects  \* bound: connections lost

Word(high, low) == high * Base + low
Signed(w) == IF w < Half THEN w ELSE w - 2 * Half
Size(k) == Start[k + 1] - Start[k] - 2

ASSUME StreamAssumption ==
  /\ Frames \in Nat /\ Base \in Nat /\ Half \in Nat \ {0} /\ MaxChunk \in Nat /\ MaxReconnects \in Nat
  /\ Start \in [0 .. Frames -> Nat]
  /\ \A j, k \in 0 .. Frames : j < k => Start[j] + 2 \leq Start[k]
  /\ Byte \in [0 .. Start[Frames] -> 0 .. Base - 1]
  /\ \A k \in 0 .. Frames - 1 :
       Size(k) < Half /\ Word(Byte[Start[k]], Byte[Start[k] + 1]) = Size(k)
  /\ \A h, l \in 0 .. Base - 1 : Word(h, l) \in 0 .. 2 * Half - 1

VARIABLES
  buffer,     \* recv_buffer_ up to recv_buffer_size_
  pos,        \* parse_size
  pc,         \* "idle" between calls, "loop" in OnRecv, "undefined" after a negative length
  delivered,  \* the packets handled on this connection, as the loop saw them
  received,   \* position in the stream of the next byte to come
  first_frame, \* the first packet of this connection
  torn,       \* a connection ended while the buffer held part of a packet
  reconnects

frameVars == <<buffer, pos, pc, delivered, received, first_frame, torn, reconnects>>

Bytes(from, n) == [i \in 1 .. n |-> Byte[from + i - 1]]
Payload(k) == Bytes(Start[k] + 2, Size(k))

FrameInit ==
  /\ buffer = <<>> /\ pos = 0 /\ pc = "idle" /\ delivered = <<>>
  /\ received = Start[0] /\ first_frame = 0 /\ torn = FALSE /\ reconnects = 0

-----------------------------------------------------------------------------
OnRecv(n) ==
  /\ pc = "idle"
  /\ received + n \leq Start[Frames]
  /\ buffer' = buffer \o Bytes(received, n)
  /\ received' = received + n
  /\ pos' = 0 /\ pc' = "loop"
  /\ UNCHANGED <<delivered, first_frame, torn, reconnects>>

Available == Len(buffer) - pos
PayloadSize == Signed(Word(buffer[pos + 1], buffer[pos + 2]))

\* The loop goes on while more than a length is left and the packet is all there.
Complete == Available > 2 /\ Available \geq PayloadSize + 2

\* slip: the position moves by the payload only.
AfterPacket_NoHeader == pos + PayloadSize + 1

\* slip: the length counts three bytes.
AfterPacket_Past == pos + 3 + PayloadSize

AfterPacket == pos + 2 + PayloadSize

\* One packet: RTP of type 96 goes to the demultiplexer, the rest is looked at
\* and passed over.
ParsePacket ==
  /\ pc = "loop" /\ Complete /\ PayloadSize \geq 0
  /\ delivered' = Append(delivered, SubSeq(buffer, pos + 3, pos + 2 + PayloadSize))
  /\ pos' = AfterPacket
  /\ UNCHANGED <<buffer, pc, received, first_frame, torn, reconnects>>

\* A length with its top bit set is negative: it passes the test, the view has
\* a huge size and the position goes back.
NegativeSize ==
  /\ pc = "loop" /\ Complete /\ PayloadSize < 0
  /\ pc' = "undefined"
  /\ UNCHANGED <<buffer, pos, delivered, received, first_frame, torn, reconnects>>

\* slip: the loop leaves after one packet and keeps the others for the next call.
Leaving_Early == pos > 0 \/ ~Complete

Leaving == ~Complete

\* What is left moves to the front of the buffer.
Finish ==
  /\ pc = "loop" /\ Leaving
  /\ buffer' = SubSeq(buffer, pos + 1, Len(buffer))
  /\ pos' = 0 /\ pc' = "idle"
  /\ UNCHANGED <<delivered, received, first_frame, torn, reconnects>>

\* Nothing tells the producer of a new connection.  The device starts it with
\* a whole packet; what it had written to the old one and was not received is lost.
Reconnect(k) ==
  /\ pc = "idle" /\ reconnects < MaxReconnects
  /\ Start[k] \geq received
  /\ received' = Start[k] /\ first_frame' = k /\ delivered' = <<>>
  /\ torn' = (torn \/ buffer # <<>>)
  /\ reconnects' = reconnects + 1
  /\ UNCHANGED <<buffer, pos, pc>>

FrameNext ==
  \/ \E n \in 1 .. MaxChunk : OnRecv(n)
  \/ ParsePacket \/ NegativeSize \/ Finish
  \/ \E k \in 0 .. Frames : Reconnect(k)

FrameSpec == FrameInit /\ [][FrameNext]_frameVars

-----------------------------------------------------------------------------
(* Properties                                                              *)

\* The types, and that the position never leaves the buffer.
FrameTypeOK ==
  /\ buffer \in Seq(0 .. Base - 1) /\ pos \in 0 .. Len(buffer)
  /\ pc \in {"idle", "loop", "undefined"}
  /\ delivered \in Seq(Seq(0 .. Base - 1))
  /\ received \in 0 .. Start[Frames] /\ first_frame \in 0 .. Frames
  /\ torn \in BOOLEAN /\ reconnects \in Nat

\* However TCP cuts the stream, what the loop handles are the packets the
\* device sent, whole, each once and in their order, and no length it reads is
\* taken from the middle of a packet; unless a connection was lost in the
\* middle of one, whose beginning stays in the buffer.
PacketsExact ==
  ~torn =>
    /\ pc # "undefined"
    /\ first_frame + Len(delivered) \leq Frames
    /\ \A i \in 1 .. Len(delivered) : delivered[i] = Payload(first_frame + i - 1)

\* OnRecv leaves no complete packet for later: when it returns, each packet
\* that has arrived to its last byte has been handled, but for an empty one at
\* the very end of what has arrived.
NothingWaits ==
  (~torn /\ pc = "idle") =>
    \A k \in first_frame .. Frames - 1 :
      (Start[k + 1] \leq received /\ ~(Size(k) = 0 /\ Start[k + 1] = received)) => k - first_frame < Len(delivered)

\* recv_buffer_ has a fixed size that memcpy does not check: between calls no
\* more is kept than one packet can hold, whatever garbage a torn connection
\* leaves, so a call never needs more than that and its own bytes.
LeftoverBounded ==
  /\ pc = "idle" => Len(buffer) \leq Half + 1
  /\ Len(buffer) \leq Half + 1 + MaxChunk

=============================================================================
