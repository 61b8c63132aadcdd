--------------------------- MODULE RtxCache_proofs ---------------------------
(***************************************************************************)
(* Proofs about RtxCache, for any size of the cache and any range of the   *)
(* sequence numbers that is larger.                                        *)
(***************************************************************************)
EXTENDS RtxCache, TLAPS

\* The last packet that was added.
Last == IF sending = NoPacket THEN video_seq - 1 ELSE sending - 1

\* The cached packets are of the round of sequence numbers of the last one,
\* and at most kMaxVideoPacketSize before it.
SameRound == \A s \in DOMAIN cache :
    /\ cache[s] \in FirstSeq .. Last
    /\ SequenceNumber(cache[s]) = s
    /\ Last - cache[s] = SequenceNumber(Last) - s
    /\ Last - cache[s] <= kMaxVideoPacketSize

RtxInv ==
    /\ video_seq \in Nat /\ video_seq >= FirstSeq
    /\ sending = NoPacket \/ (sending = video_seq - 1 /\ sending >= FirstSeq)
    /\ SameRound

-----------------------------------------------------------------------------
(* Arithmetic                                                              *)

LEMMA Multiples ==
  ASSUME NEW w \in Nat \ {0}, NEW d \in Int
  PROVE  /\ d >= 1 => w * d >= w
         /\ d <= -1 => w * d <= -w
OBVIOUS

LEMMA Division ==
  ASSUME NEW n \in Int, NEW w \in Nat \ {0}
  PROVE  /\ n = w * (n \div w) + (n % w)
         /\ n \div w \in Int
         /\ n % w \in 0 .. w - 1
OBVIOUS

LEMMA OneRemainder ==
  ASSUME NEW w \in Nat \ {0}, NEW q1 \in Int, NEW q2 \in Int,
         NEW r1 \in 0 .. w - 1, NEW r2 \in 0 .. w - 1, w * q1 + r1 = w * q2 + r2
  PROVE  r1 = r2
<1>1. w * (q1 - q2) = r2 - r1
  OBVIOUS
<1>2. q1 - q2 < 1 /\ q1 - q2 > -1
  BY <1>1, Multiples
<1>3. q1 = q2
  BY <1>2
<1> QED
  BY <1>3

\* The number of the next packet is one more, or the numbers begin again.
LEMMA NextNumber ==
  ASSUME NEW n \in Nat, NEW w \in Nat \ {0}
  PROVE  (n + 1) % w = 0 \/ (n + 1) % w = (n % w) + 1
<1> DEFINE q == n \div w
           r == n % w
           t == (n + 1) \div w
           u == (n + 1) % w
<1>1. n = w * q + r /\ q \in Int /\ r \in 0 .. w - 1
  BY Division
<1>2. n + 1 = w * t + u /\ t \in Int /\ u \in 0 .. w - 1
  <2> n + 1 \in Int
    OBVIOUS
  <2> QED
    BY Division
<1> HIDE DEF q, r, t, u
<1>3. CASE r + 1 < w
  <2>1. r + 1 \in 0 .. w - 1 /\ w * q + (r + 1) = w * t + u
    BY <1>1, <1>2, <1>3
  <2> QED
    BY <1>1, <1>2, <2>1, OneRemainder DEF u, r
<1>4. CASE r + 1 = w
  <2>1. 0 \in 0 .. w - 1 /\ w * (q + 1) + 0 = w * t + u /\ q + 1 \in Int
    BY <1>1, <1>2, <1>4
  <2>2. u = 0
    BY <1>2, <2>1, OneRemainder
  <2> QED
    BY <2>2 DEF u
<1> QED
  BY <1>1, <1>3, <1>4

\* A difference below zero wraps to the top of its range.
LEMMA Wraps ==
  ASSUME NEW x \in Int, NEW w \in Nat \ {0}, -w <= x, x < w
  PROVE  x % w = IF x < 0 THEN x + w ELSE x
<1>1. x = w * (x \div w) + (x % w) /\ x \div w \in Int /\ x % w \in 0 .. w - 1
  BY Division
<1>2. CASE x < 0
  <2>1. x + w \in 0 .. w - 1 /\ -1 \in Int /\ w * (-1) + (x + w) = w * (x \div w) + (x % w)
    BY <1>1, <1>2
  <2> QED
    BY <1>1, <1>2, <2>1, OneRemainder
<1>3. CASE x >= 0
  <2>1. x \in 0 .. w - 1 /\ 0 \in Int /\ w * 0 + x = w * (x \div w) + (x % w)
    BY <1>1, <1>3
  <2> QED
    BY <1>1, <1>3, <2>1, OneRemainder
<1> QED
  BY <1>2, <1>3

LEMMA Constants ==
  /\ SeqWrap \in Nat \ {0} /\ Wrap32 \in Nat \ {0} /\ kMaxVideoPacketSize \in Nat \ {0}
  /\ FirstSeq \in Nat
  /\ Wrap32 > SeqWrap + kMaxVideoPacketSize
BY RtxAssumption

LEMMA Numbers ==
  ASSUME NEW n \in Nat
  PROVE  SequenceNumber(n) \in 0 .. SeqWrap - 1
BY Constants, Division DEF SequenceNumber

\* The bound of what is kept lies above every number as long as fewer than
\* kMaxVideoPacketSize numbers of the round have gone by.
LEMMA Bound ==
  ASSUME NEW q \in 0 .. SeqWrap - 1
  PROVE  LowerBound(q) = IF q < kMaxVideoPacketSize THEN q - kMaxVideoPacketSize + Wrap32
                                                    ELSE q - kMaxVideoPacketSize
<1>1. /\ q - kMaxVideoPacketSize \in Int
      /\ -Wrap32 <= q - kMaxVideoPacketSize /\ q - kMaxVideoPacketSize < Wrap32
  BY Constants
<1> DEFINE x == q - kMaxVideoPacketSize
<1>2. x % Wrap32 = IF x < 0 THEN x + Wrap32 ELSE x
  <2> HIDE DEF x
  <2> QED
    BY <1>1, Constants, Wraps DEF x
<1> QED
  BY <1>1, <1>2, Constants DEF LowerBound

-----------------------------------------------------------------------------
(* The invariant                                                           *)

LEMMA InvInit == RtxInit => RtxInv
BY Constants DEF RtxInit, RtxInv, SameRound, NoPacket, Last

\* What a packet leaves in the cache is of its own round.
LEMMA AddKeepsRound ==
  ASSUME RtxInv, AddVideoPacket
  PROVE  RtxInv'
<1> DEFINE k   == kMaxVideoPacketSize
           p   == sending
           seq == SequenceNumber(p)
           added == [s \in DOMAIN cache \cup {seq} |-> IF s = seq THEN p ELSE cache[s]]
<1>1. /\ p = video_seq - 1 /\ p \in Nat /\ p >= FirstSeq
      /\ Last = p - 1 /\ Last' = p
  BY Constants DEF RtxInv, AddVideoPacket, Last, NoPacket
<1>2. /\ cache' = [s \in {s \in DOMAIN added : s >= LowerBound(seq)} |-> added[s]]
      /\ sending' = NoPacket /\ video_seq' = video_seq
  BY DEF AddVideoPacket
<1>3. seq \in 0 .. SeqWrap - 1
  BY <1>1, Numbers
<1>4. SameRound'
  <2> SUFFICES ASSUME NEW s \in DOMAIN cache'
               PROVE  /\ cache'[s] \in FirstSeq .. p
                      /\ SequenceNumber(cache'[s]) = s
                      /\ p - cache'[s] = seq - s
                      /\ p - cache'[s] <= k
    BY <1>1 DEF SameRound, SequenceNumber
  <2>1. s \in DOMAIN cache \cup {seq} /\ s >= LowerBound(seq)
        /\ cache'[s] = IF s = seq THEN p ELSE cache[s]
    BY <1>2
  <2>2. CASE s = seq
    BY <1>1, <1>3, <2>1, <2>2, Constants
  <2>3. CASE s # seq
    <3>1. /\ cache'[s] = cache[s] /\ cache[s] \in FirstSeq .. p - 1
          /\ SequenceNumber(cache[s]) = s
          /\ p - 1 - cache[s] = SequenceNumber(p - 1) - s
      BY <1>1, <2>1, <2>3 DEF RtxInv, SameRound
    <3>2. cache[s] \in Nat /\ p - 1 \in Nat
      BY <1>1, <3>1, Constants
    <3>3. s \in 0 .. SeqWrap - 1
      BY <3>1, <3>2, Numbers
    <3>4. seq >= k /\ s >= seq - k
      BY <1>3, <2>1, <3>3, Bound, Constants
    <3>5. seq = SequenceNumber(p - 1) + 1
      <4>1. (p - 1) + 1 = p
        BY <1>1
      <4>2. seq = 0 \/ seq = SequenceNumber(p - 1) + 1
        BY <3>2, <4>1, NextNumber, Constants DEF SequenceNumber
      <4> QED
        BY <3>4, <4>2, Constants
    <3>6. SequenceNumber(p - 1) \in 0 .. SeqWrap - 1
      BY <3>2, Numbers
    <3> QED
      BY <1>1, <1>3, <3>1, <3>2, <3>3, <3>4, <3>5, <3>6, Constants
  <2> QED
    BY <2>2, <2>3
<1> QED
  BY <1>1, <1>2, <1>4 DEF RtxInv

LEMMA InvStep == RtxInv /\ [RtxNext]_rtxVars => RtxInv'
<1> SUFFICES ASSUME RtxInv, [RtxNext]_rtxVars
             PROVE  RtxInv'
  OBVIOUS
<1>1. CASE SendPacket
  <2>1. Last' = Last /\ cache' = cache
    BY <1>1, Constants DEF SendPacket, RtxInv, Last, NoPacket
  <2>2. SameRound'
    BY <2>1 DEF RtxInv, SameRound, SequenceNumber
  <2> QED
    BY <1>1, <2>2, Constants DEF SendPacket, RtxInv
<1>2. CASE AddVideoPacket
  BY <1>2, AddKeepsRound
<1>3. ASSUME UNCHANGED <<video_seq, sending, cache>>
      PROVE  RtxInv'
  BY <1>3 DEF RtxInv, SameRound, SequenceNumber, Last
<1> QED
  BY <1>1, <1>2, <1>3 DEF RtxNext, Lookup, SendRtx, rtxVars

\* A NACK is never answered with a packet of an earlier round of the sequence
\* numbers (RtcInterface::AddVideoPacket, RequestNack), whatever the size of
\* the cache: the unsigned wrap of the bound empties the cache at the right
\* moment, and the cache holds the latest packets only.
THEOREM CacheStaysRecent == RtxSpec => []CacheIsRecent
<1>1. RtxInv => CacheIsRecent
  <2> SUFFICES ASSUME RtxInv, NEW s \in DOMAIN cache
               PROVE  /\ SequenceNumber(cache[s]) = s
                      /\ video_seq - cache[s] <= kMaxVideoPacketSize + 2
    BY DEF CacheIsRecent
  <2>1. /\ SequenceNumber(cache[s]) = s /\ cache[s] \in Int
        /\ Last - cache[s] <= kMaxVideoPacketSize
    BY DEF RtxInv, SameRound
  <2>2. video_seq - Last <= 2 /\ Last \in Int /\ video_seq \in Int
    BY DEF RtxInv, Last
  <2> QED
    BY <2>1, <2>2, Constants
<1> QED
  BY <1>1, InvInit, InvStep, PTL DEF RtxSpec

=============================================================================
