------------------------------ MODULE RtxCache ------------------------------
(***************************************************************************)
(* The downstream retransmission of GBServer: RtcInterface keeps the video *)
(* packets an RtcConsumer sends (AddVideoPacket) and sends those again     *)
(* that a NACK of the viewer asks for (RequestNack).  Packets are sent on  *)
(* the worker thread and NACKs arrive on the network thread; one mutex     *)
(* guards the cache, for each packet of a NACK anew.                       *)
(***************************************************************************)
EXTENDS Integers

CONSTANTS
  SeqWrap,              \* sequence numbers there are (2^16)
  Wrap32,               \* values of a uint32_t
  kMaxVideoPacketSize,
  FirstSeq,             \* video_seq_ before the first packet: 100
  MaxPackets            \* bound: packets sent

ASSUME RtxAssumption ==
  /\ {SeqWrap, Wrap32, kMaxVideoPacketSize, MaxPackets} \subseteq Nat \ {0} /\ FirstSeq \in Nat
  /\ Wrap32 % SeqWrap = 0 /\ Wrap32 > SeqWrap + kMaxVideoPacketSize /\ kMaxVideoPacketSize < SeqWrap

NoPacket == -1

VARIABLES
  video_seq,   \* video_seq_: the number of the next packet, which names it
  sending,     \* the packet the worker has sent and not yet added, or NoPacket
  cache,       \* rtp_video_packets_: sequence number -> packet
  requested    \* RequestNack: the packet it has found and not yet sent, or NoPacket

rtxVars == <<video_seq, sending, cache, requested>>

\* SetSequenceNumber takes 16 bits of the counter.
SequenceNumber(p) == p % SeqWrap

RtxInit ==
  /\ video_seq = FirstSeq
  /\ sending = NoPacket
  /\ cache = <<>>
  /\ requested = NoPacket

-----------------------------------------------------------------------------
(* RtcConsumer::OnVideoFrame, for each packet of the frame.                *)

SendPacket ==
  /\ sending = NoPacket
  /\ video_seq < FirstSeq + MaxPackets
  /\ sending' = video_seq
  /\ video_seq' = video_seq + 1
  /\ UNCHANGED <<cache, requested>>

LowerBound_16Bit(seq) == (seq - kMaxVideoPacketSize) % SeqWrap  \* slip: the difference is cut to 16 bits

\* seq_number - kMaxVideoPacketSize, both uint32_t.
LowerBound(seq) == (seq - kMaxVideoPacketSize) % Wrap32

AddVideoPacket ==
  /\ sending # NoPacket
  /\ LET seq   == SequenceNumber(sending)
         added == [s \in DOMAIN cache \cup {seq} |-> IF s = seq THEN sending ELSE cache[s]]
     IN cache' = [s \in {s \in DOMAIN added : s >= LowerBound(seq)} |-> added[s]]
  /\ sending' = NoPacket
  /\ UNCHANGED <<video_seq, requested>>

-----------------------------------------------------------------------------
(* RequestNack, for each number of the NACK.                               *)

Lookup(seq) ==
  /\ requested = NoPacket
  /\ seq \in DOMAIN cache
  /\ requested' = cache[seq]
  /\ UNCHANGED <<video_seq, sending, cache>>

\* The packet is shared: it may have left the cache by now.
SendRtx ==
  /\ requested # NoPacket
  /\ requested' = NoPacket
  /\ UNCHANGED <<video_seq, sending, cache>>

RtxNext ==
  \/ SendPacket
  \/ AddVideoPacket
  \/ \E seq \in 0 .. SeqWrap - 1 : Lookup(seq)
  \/ SendRtx

RtxSpec == RtxInit /\ [][RtxNext]_rtxVars

-----------------------------------------------------------------------------
Packets == FirstSeq .. FirstSeq + MaxPackets - 1

RtxTypeOK ==
  /\ video_seq \in FirstSeq .. FirstSeq + MaxPackets
  /\ sending \in Packets \cup {NoPacket}
  /\ DOMAIN cache \subseteq 0 .. SeqWrap - 1 /\ \A s \in DOMAIN cache : cache[s] \in Packets
  /\ requested \in Packets \cup {NoPacket}

\* A number is answered with the last packet that had it: what is left of an
\* earlier round of the sequence numbers is gone before they come round again,
\* and the cache holds no more than the latest packets.
CacheIsRecent ==
  \A s \in DOMAIN cache : SequenceNumber(cache[s]) = s /\ video_seq - cache[s] <= kMaxVideoPacketSize + 2

=============================================================================
