------------------------ MODULE Gb28181Framing_proofs ------------------------
(***************************************************************************)
(* Proofs about Gb28181Framing, for every stream of packets shorter than   *)
(* half the range of a length, every way of cutting it and any number of   *)
(* lost connections.                                                       *)
(***************************************************************************)
EXTENDS Gb28181Framing, SequenceTheorems, TLAPS

\* The packet whose length the loop reads next.
Current == first_frame + Len(delivered)

\* The buffer ends with the last byte received and the loop stands at the
\* beginning of a packet.
Aligned ==
  /\ pc # "undefined"
  /\ Len(buffer) \leq received
  /\ \A i \in 1 .. Len(buffer) : buffer[i] = Byte[received - Len(buffer) + i - 1]
  /\ Current \leq Frames
  /\ received - Len(buffer) + pos = Start[Current]

\* What OnRecv leaves is shorter than the packet it begins.
Rest == pc = "idle" => pos = 0 /\ (Len(buffer) > 2 => Len(buffer) < Size(Current) + 2)

FramingInv ==
  /\ FrameTypeOK
  /\ ~torn => Aligned /\ Rest
  /\ ~torn => \A i \in 1 .. Len(delivered) : delivered[i] = Payload(first_frame + i - 1)
  /\ LeftoverBounded

-----------------------------------------------------------------------------
\* A length is below Half in value, whatever its two bytes are.
LEMMA SignedBelowHalf ==
  ASSUME NEW h \in 0 .. Base - 1, NEW l \in 0 .. Base - 1
  PROVE  Signed(Word(h, l)) \in Int /\ Signed(Word(h, l)) < Half
<1>1. Word(h, l) \in 0 .. 2 * Half - 1  BY StreamAssumption
<1>2. Half \in Nat \ {0}  BY StreamAssumption
<1>. QED  BY <1>1, <1>2 DEF Signed

\* The length of a packet of the stream is what its first_frame two bytes say.
LEMMA HeaderIsSize ==
  ASSUME NEW k \in 0 .. Frames - 1
  PROVE  /\ Size(k) \in Nat
         /\ Signed(Word(Byte[Start[k]], Byte[Start[k] + 1])) = Size(k)
         /\ Start[k + 1] = Start[k] + 2 + Size(k)
         /\ Start[k + 1] \leq Start[Frames]
         /\ Start[k] \in Nat
<1>1. Frames \in Nat /\ Start[k] \in Nat /\ Start[k + 1] \in Nat /\ Start[Frames] \in Nat
  BY StreamAssumption
<1>2. Start[k] + 2 \leq Start[k + 1]  BY StreamAssumption
<1>3. k + 1 = Frames \/ k + 1 < Frames  BY <1>1
<1>4. Start[k + 1] \leq Start[Frames]  BY <1>1, <1>3, StreamAssumption
<1>5. Size(k) < Half /\ Word(Byte[Start[k]], Byte[Start[k] + 1]) = Size(k)  BY StreamAssumption
<1>. QED  BY <1>1, <1>2, <1>4, <1>5 DEF Size, Signed

\* Bytes(from, n) is a sequence of bytes when the stream is that long.
LEMMA BytesType ==
  ASSUME NEW from \in Nat, NEW n \in Nat, from + n \leq Start[Frames]
  PROVE  /\ Bytes(from, n) \in Seq(0 .. Base - 1)
         /\ Len(Bytes(from, n)) = n
         /\ \A i \in 1 .. n : Bytes(from, n)[i] = Byte[from + i - 1]
<1>1. Start[Frames] \in Nat /\ Byte \in [0 .. Start[Frames] -> 0 .. Base - 1]
  BY StreamAssumption
<1>2. \A i \in 1 .. n : Byte[from + i - 1] \in 0 .. Base - 1
  <2>1. TAKE i \in 1 .. n
  <2>2. from + i - 1 \in 0 .. Start[Frames]  BY <1>1
  <2>. QED  BY <1>1, <2>2
<1>3. Bytes(from, n) \in [1 .. n -> 0 .. Base - 1]  BY <1>2 DEF Bytes
<1>. QED  BY <1>3 DEF Bytes

-----------------------------------------------------------------------------
\* What a state of the invariant is made of, as the steps below use it.
LEMMA Parts ==
  ASSUME FramingInv
  PROVE  /\ buffer \in Seq(0 .. Base - 1) /\ Len(buffer) \in Nat
         /\ \A i \in 1 .. Len(buffer) : buffer[i] \in 0 .. Base - 1
         /\ pos \in Nat /\ pos \leq Len(buffer)
         /\ delivered \in Seq(Seq(0 .. Base - 1)) /\ Len(delivered) \in Nat
         /\ received \in Nat /\ received \leq Start[Frames] /\ Start[Frames] \in Nat
         /\ first_frame \in Nat /\ first_frame \leq Frames /\ Frames \in Nat
         /\ torn \in BOOLEAN /\ reconnects \in Nat
         /\ MaxChunk \in Nat /\ Half \in Nat \ {0}
<1>1. FrameTypeOK  BY DEF FramingInv
<1>2. buffer \in Seq(0 .. Base - 1) /\ delivered \in Seq(Seq(0 .. Base - 1))  BY <1>1 DEF FrameTypeOK
<1>3. Len(buffer) \in Nat /\ \A i \in 1 .. Len(buffer) : buffer[i] \in 0 .. Base - 1
  BY <1>2, LenProperties, ElementOfSeq
<1>4. Len(delivered) \in Nat  BY <1>2, LenProperties
<1>5. Start[Frames] \in Nat /\ Frames \in Nat /\ MaxChunk \in Nat /\ Half \in Nat \ {0}
  BY StreamAssumption
<1>. QED  BY <1>1, <1>2, <1>3, <1>4, <1>5 DEF FrameTypeOK

\* The numbers alone.
LEMMA Numbers ==
  ASSUME FramingInv
  PROVE  /\ pos \in Nat /\ Len(buffer) \in Nat /\ pos \leq Len(buffer)
         /\ received \in Nat /\ Start[Frames] \in Nat /\ received \leq Start[Frames]
         /\ first_frame \in Nat /\ Len(delivered) \in Nat /\ Frames \in Nat
         /\ MaxChunk \in Nat /\ Half \in Nat \ {0}
BY Parts

\* The loop stands at the beginning of the packet it reads next.
LEMMA Standing ==
  ASSUME FramingInv, ~torn
  PROVE  /\ received - Len(buffer) + pos = Start[Current]
         /\ Current \in Nat /\ Current \leq Frames /\ Len(buffer) \leq received
<1>1. Aligned  BY DEF FramingInv
<1>. QED  BY <1>1, Numbers DEF Aligned, Current

LEMMA InitInv == FrameInit => FramingInv
<1>. SUFFICES ASSUME FrameInit PROVE FramingInv  OBVIOUS
<1>1. Frames \in Nat /\ Half \in Nat /\ MaxChunk \in Nat /\ Start[0] \in Nat /\ Start[Frames] \in Nat
  BY StreamAssumption
<1>2. Start[0] \leq Start[Frames]
  <2>1. Frames = 0 \/ 0 < Frames  BY <1>1
  <2>. QED  BY <1>1, <2>1, StreamAssumption
<1>3. FrameTypeOK
  <2>1. buffer \in Seq(0 .. Base - 1) /\ delivered \in Seq(Seq(0 .. Base - 1)) /\ Len(buffer) = 0
    BY EmptySeq DEF FrameInit
  <2>2. pos \in 0 .. Len(buffer) /\ pc \in {"idle", "loop", "undefined"} /\ reconnects \in Nat
    BY <2>1 DEF FrameInit
  <2>4. torn \in BOOLEAN  BY Zenon DEF FrameInit
  <2>3. received \in 0 .. Start[Frames] /\ first_frame \in 0 .. Frames  BY <1>1, <1>2 DEF FrameInit
  <2>. QED  BY <2>1, <2>2, <2>3, <2>4, Zenon DEF FrameTypeOK
<1>4. Aligned /\ Rest /\ LeftoverBounded
  BY <1>1 DEF FrameInit, Aligned, Rest, Current, LeftoverBounded
<1>. QED  BY <1>3, <1>4 DEF FramingInv, FrameInit

LEMMA OnRecvInv ==
  ASSUME FramingInv, NEW n \in 1 .. MaxChunk, OnRecv(n)
  PROVE  FramingInv'
<1>0. n \in Nat /\ n \leq MaxChunk /\ received + n \leq Start[Frames] /\ pc = "idle"  BY Parts DEF OnRecv
<1>1. /\ MaxChunk \in Nat /\ Half \in Nat \ {0} /\ received \in Nat /\ Start[Frames] \in Nat
      /\ Len(buffer) \in Nat /\ pos \in Nat
  BY Parts
<1>2. /\ Bytes(received, n) \in Seq(0 .. Base - 1) /\ Len(Bytes(received, n)) = n
      /\ \A i \in 1 .. n : Bytes(received, n)[i] = Byte[received + i - 1]
  BY <1>0, <1>1, BytesType
<1>3. /\ buffer' \in Seq(0 .. Base - 1) /\ Len(buffer') = Len(buffer) + n
      /\ \A i \in 1 .. Len(buffer) : buffer'[i] = buffer[i]
      /\ \A i \in 1 .. n : buffer'[Len(buffer) + i] = Byte[received + i - 1]
  <2>. DEFINE b == Bytes(received, n)
  <2>1. buffer' = buffer \o b  BY DEF OnRecv
  <2>2. buffer \in Seq(0 .. Base - 1) /\ b \in Seq(0 .. Base - 1) /\ Len(b) = n
        /\ \A i \in 1 .. n : b[i] = Byte[received + i - 1]
    BY <1>2, Parts
  <2>. HIDE DEF b
  <2>3. /\ buffer \o b \in Seq(0 .. Base - 1) /\ Len(buffer \o b) = Len(buffer) + n
        /\ \A i \in 1 .. Len(buffer) + n : (buffer \o b)[i] = IF i \leq Len(buffer) THEN buffer[i] ELSE b[i - Len(buffer)]
    BY <2>2, ConcatProperties
  <2>4. \A i \in 1 .. Len(buffer) : (buffer \o b)[i] = buffer[i]  BY <1>0, <1>1, <2>3
  <2>5. \A i \in 1 .. n : (buffer \o b)[Len(buffer) + i] = b[i]  BY <1>0, <1>1, <2>3
  <2>. QED  BY <2>1, <2>2, <2>3, <2>4, <2>5
<1>4. FrameTypeOK'
  <2>1. received' \in 0 .. Start[Frames] /\ pos' = 0 /\ pc' = "loop"  BY <1>0, <1>1 DEF OnRecv
  <2>2. pos' \in 0 .. Len(buffer')  BY <1>0, <1>1, <1>3, <2>1
  <2>. QED  BY <1>3, <2>1, <2>2 DEF OnRecv, FrameTypeOK, FramingInv
<1>5. ~torn => Aligned' /\ Rest'
  <2>. SUFFICES ASSUME ~torn PROVE Aligned' /\ Rest'  OBVIOUS
  <2>0. Aligned /\ Rest  BY DEF FramingInv
  <2>1. \A i \in 1 .. Len(buffer') : buffer'[i] = Byte[received' - Len(buffer') + i - 1]
    <3>1. TAKE i \in 1 .. Len(buffer')
    <3>2. received' - Len(buffer') = received - Len(buffer)  BY <1>0, <1>1, <1>3 DEF OnRecv
    <3>3. CASE i \leq Len(buffer)
      <4>1. i \in 1 .. Len(buffer)  BY <1>1, <3>3
      <4>. QED  BY <1>3, <2>0, <3>2, <4>1 DEF Aligned
    <3>4. CASE i > Len(buffer)
      <4>1. i - Len(buffer) \in 1 .. n /\ i = Len(buffer) + (i - Len(buffer))  BY <1>0, <1>1, <1>3, <3>4
      <4>2. buffer'[i] = Byte[received + (i - Len(buffer)) - 1]  BY <1>3, <4>1
      <4>3. received + (i - Len(buffer)) - 1 = received' - Len(buffer') + i - 1
        BY <1>0, <1>1, <1>3, <3>2 DEF OnRecv
      <4>. QED  BY <4>2, <4>3
    <3>. QED  BY <3>3, <3>4
  <2>2. Len(buffer') \leq received' /\ Current' = Current
    BY <1>0, <1>1, <1>3, <2>0 DEF OnRecv, Aligned, Current
  <2>3. received' - Len(buffer') + pos' = Start[Current']
    BY <1>0, <1>1, <1>3, <2>0, <2>2 DEF OnRecv, Aligned, Rest
  <2>. QED  BY <2>0, <2>1, <2>2, <2>3 DEF OnRecv, Aligned, Rest
<1>6. LeftoverBounded'  BY <1>0, <1>1, <1>3 DEF OnRecv, LeftoverBounded, FramingInv
<1>7. ~torn' => \A i \in 1 .. Len(delivered') : delivered'[i] = Payload(first_frame' + i - 1)
  BY DEF OnRecv, FramingInv, Payload, Bytes, Size
<1>. QED  BY <1>4, <1>5, <1>6, <1>7 DEF OnRecv, FramingInv

LEMMA ParsePacketInv ==
  ASSUME FramingInv, ParsePacket
  PROVE  FramingInv'
<1>. DEFINE p == SubSeq(buffer, pos + 3, pos + 2 + PayloadSize)
<1>1. pos \in Nat /\ pos + 2 < Len(buffer) /\ Len(buffer) \in Nat
  BY Parts DEF ParsePacket, Complete, Available
<1>2. /\ PayloadSize \in Nat /\ pos + 2 + PayloadSize \leq Len(buffer)
  <2>1. buffer[pos + 1] \in 0 .. Base - 1 /\ buffer[pos + 2] \in 0 .. Base - 1
    BY <1>1, Parts
  <2>2. PayloadSize \in Int  BY <2>1, SignedBelowHalf DEF PayloadSize
  <2>. QED  BY <1>1, <2>2 DEF ParsePacket, Complete, Available
<1>3. p \in Seq(0 .. Base - 1) /\ Len(p) = PayloadSize /\ \A i \in 1 .. PayloadSize : p[i] = buffer[pos + 2 + i]
  <2>1. \A i \in pos + 3 .. pos + 2 + PayloadSize : buffer[i] \in 0 .. Base - 1
    BY <1>1, <1>2, Parts
  <2>2. /\ p \in Seq(0 .. Base - 1)
        /\ Len(p) = IF pos + 3 \leq pos + 2 + PayloadSize THEN (pos + 2 + PayloadSize) - (pos + 3) + 1 ELSE 0
        /\ \A i \in 1 .. (pos + 2 + PayloadSize) - (pos + 3) + 1 : p[i] = buffer[(pos + 3) + i - 1]
    BY <1>1, <1>2, <2>1, SubSeqProperties
  <2>3. (pos + 2 + PayloadSize) - (pos + 3) + 1 = PayloadSize  BY <1>1, <1>2
  <2>4. \A i \in 1 .. PayloadSize : (pos + 3) + i - 1 = pos + 2 + i  BY <1>1, <1>2
  <2>. QED  BY <1>1, <1>2, <2>2, <2>3, <2>4
<1>4. /\ delivered' = Append(delivered, p) /\ delivered' \in Seq(Seq(0 .. Base - 1))
      /\ Len(delivered') = Len(delivered) + 1
      /\ \A i \in 1 .. Len(delivered) : delivered'[i] = delivered[i]
      /\ delivered'[Len(delivered) + 1] = p
  <2>1. delivered' = Append(delivered, p)  BY DEF ParsePacket
  <2>2. p \in Seq(0 .. Base - 1) /\ delivered \in Seq(Seq(0 .. Base - 1)) /\ Len(delivered) \in Nat  BY <1>3, Parts
  <2>. HIDE DEF p
  <2>. QED  BY <2>1, <2>2, AppendProperties
<1>5. FrameTypeOK'
  <2>1. pos' \in 0 .. Len(buffer')  BY <1>1, <1>2 DEF ParsePacket, AfterPacket
  <2>. QED  BY <1>4, <2>1 DEF ParsePacket, FramingInv, FrameTypeOK
<1>6. ASSUME ~torn
      PROVE  /\ Aligned' /\ Rest'
             /\ \A i \in 1 .. Len(delivered') : delivered'[i] = Payload(first_frame' + i - 1)
  <2>0. Aligned /\ \A i \in 1 .. Len(delivered) : delivered[i] = Payload(first_frame + i - 1)
    BY <1>6 DEF FramingInv
  <2>1. /\ Current \in 0 .. Frames /\ Frames \in Nat /\ received \in Nat
        /\ received \leq Start[Frames] /\ Start[Frames] \in Nat
    BY <2>0, Parts DEF Aligned, Current
  <2>2. Current \in 0 .. Frames - 1
    <3>1. received - Len(buffer) + pos < received  BY <1>1, <2>1
    <3>2. Current # Frames  BY <2>0, <2>1, <3>1 DEF Aligned
    <3>. QED  BY <2>1, <3>2
  <2>3. /\ Size(Current) \in Nat /\ Start[Current + 1] = Start[Current] + 2 + Size(Current)
        /\ Signed(Word(Byte[Start[Current]], Byte[Start[Current] + 1])) = Size(Current)
        /\ Start[Current] \in Nat /\ Start[Current + 1] \leq Start[Frames]
    BY <2>2, HeaderIsSize
  <2>4. \A i \in 1 .. Len(buffer) - pos : buffer[pos + i] = Byte[Start[Current] + i - 1]
    <3>1. TAKE i \in 1 .. Len(buffer) - pos
    <3>2. pos + i \in 1 .. Len(buffer)  BY <1>1
    <3>3. received - Len(buffer) + (pos + i) - 1 = Start[Current] + i - 1
      BY <1>1, <2>0, <2>1 DEF Aligned
    <3>. QED  BY <2>0, <3>2, <3>3 DEF Aligned
  <2>5. PayloadSize = Size(Current)
    <3>1. buffer[pos + 1] = Byte[Start[Current]] /\ buffer[pos + 2] = Byte[Start[Current] + 1]
      <4>1. 1 \in 1 .. Len(buffer) - pos /\ 2 \in 1 .. Len(buffer) - pos  BY <1>1
      <4>2. buffer[pos + 1] = Byte[Start[Current] + 1 - 1] /\ buffer[pos + 2] = Byte[Start[Current] + 2 - 1]
        BY <2>4, <4>1
      <4>3. Start[Current] + 1 - 1 = Start[Current] /\ Start[Current] + 2 - 1 = Start[Current] + 1  BY <2>3
      <4>. QED  BY <4>2, <4>3
    <3>. QED  BY <2>3, <3>1 DEF PayloadSize
  <2>6. p = Payload(Current)
    <3>1. \A i \in 1 .. PayloadSize : p[i] = Byte[Start[Current] + 2 + i - 1]
      <4>1. TAKE i \in 1 .. PayloadSize
      <4>2. 2 + i \in 1 .. Len(buffer) - pos  BY <1>1, <1>2
      <4>3. buffer[pos + (2 + i)] = Byte[Start[Current] + (2 + i) - 1]  BY <2>4, <4>2
      <4>4. pos + (2 + i) = pos + 2 + i /\ Start[Current] + (2 + i) - 1 = Start[Current] + 2 + i - 1
        BY <1>1, <1>2, <2>3
      <4>. QED  BY <1>3, <4>3, <4>4
    <3>2. Start[Current] + 2 + Size(Current) \leq Start[Frames]  BY <2>3
    <3>3. /\ Payload(Current) \in Seq(0 .. Base - 1) /\ Len(Payload(Current)) = Size(Current)
          /\ \A i \in 1 .. Size(Current) : Payload(Current)[i] = Byte[Start[Current] + 2 + i - 1]
      <4>. DEFINE from == Start[Current] + 2
                  size == Size(Current)
      <4>1. from \in Nat /\ size \in Nat /\ from + size \leq Start[Frames]  BY <2>3, <3>2
      <4>2. Payload(Current) = Bytes(from, size)  BY DEF Payload
      <4>. HIDE DEF from, size
      <4>3. /\ Bytes(from, size) \in Seq(0 .. Base - 1) /\ Len(Bytes(from, size)) = size
            /\ \A i \in 1 .. size : Bytes(from, size)[i] = Byte[from + i - 1]
        BY <4>1, BytesType
      <4>. QED  BY <4>2, <4>3 DEF from, size
    <3>. QED  BY <1>3, <2>5, <3>1, <3>3, SeqEqual
  <2>7. Current' = Current + 1  BY <1>4, Parts DEF Current, ParsePacket
  <2>8. received' - Len(buffer') + pos' = Start[Current']
    <3>1. received' = received /\ buffer' = buffer /\ pos' = pos + 2 + Size(Current)
      BY <2>5 DEF ParsePacket, AfterPacket
    <3>2. received - Len(buffer) + pos = Start[Current]  BY <2>0 DEF Aligned
    <3>3. Start[Current'] = Start[Current] + 2 + Size(Current)  BY <2>3, <2>7
    <3>. HIDE DEF Size, Current
    <3>. QED  BY <1>1, <2>1, <2>3, <3>1, <3>2, <3>3
  <2>9. Aligned' /\ Rest'
    <3>1. Current' \leq Frames  BY <2>1, <2>2, <2>7
    <3>2. pc' = "loop" /\ received' = received /\ buffer' = buffer  BY DEF ParsePacket
    <3>. QED  BY <2>0, <1>1, <2>8, <3>1, <3>2 DEF Aligned, Rest
  <2>10. \A i \in 1 .. Len(delivered') : delivered'[i] = Payload(first_frame' + i - 1)
    <3>1. TAKE i \in 1 .. Len(delivered')
    <3>0. i \in 1 .. Len(delivered) + 1 /\ Len(delivered) \in Nat  BY <1>4, Parts
    <3>2. CASE i \leq Len(delivered)
      <4>1. i \in 1 .. Len(delivered)  BY <3>2, Parts
      <4>2. delivered'[i] = delivered[i]  BY <1>4, <4>1
      <4>. QED  BY <2>0, <4>1, <4>2 DEF ParsePacket
    <3>3. CASE i > Len(delivered)
      <4>1. i = Len(delivered) + 1  BY <3>0, <3>3
      <4>2. delivered'[i] = p  BY <1>4, <4>1
      <4>3. first_frame' + i - 1 = Current  BY <4>1, Parts DEF Current, ParsePacket
      <4>. QED  BY <2>6, <4>2, <4>3
    <3>. QED  BY <3>2, <3>3
  <2>. QED  BY <2>9, <2>10
<1>7. LeftoverBounded'  BY DEF ParsePacket, LeftoverBounded, FramingInv
<1>. QED  BY <1>5, <1>6, <1>7 DEF ParsePacket, FramingInv

LEMMA NegativeSizeInv ==
  ASSUME FramingInv, NegativeSize
  PROVE  FramingInv'
<1>1. FrameTypeOK'  BY DEF FramingInv, FrameTypeOK, NegativeSize
<1>2. LeftoverBounded'  BY DEF FramingInv, LeftoverBounded, NegativeSize
<1>3. torn
  <2>. SUFFICES ASSUME ~torn PROVE FALSE  BY Parts
  <2>1. Aligned  BY DEF FramingInv
  <2>2. pos + 2 < Len(buffer) /\ Current \in Nat /\ Current \leq Frames
    <3>1. pos + 2 < Len(buffer)  BY Numbers DEF NegativeSize, Complete, Available
    <3>. QED  BY <3>1, Standing
  <2>3. Current \in 0 .. Frames - 1
    <3>1. received - Len(buffer) + pos < Start[Frames]  BY <2>2, Numbers
    <3>2. Current # Frames  BY <3>1, Numbers, Standing
    <3>. QED  BY <2>2, <3>2, Numbers
  <2>4. /\ Size(Current) \in Nat /\ Start[Current] \in Nat
        /\ Signed(Word(Byte[Start[Current]], Byte[Start[Current] + 1])) = Size(Current)
    BY <2>3, HeaderIsSize
  <2>5. buffer[pos + 1] = Byte[Start[Current]] /\ buffer[pos + 2] = Byte[Start[Current] + 1]
    <3>1. pos + 1 \in 1 .. Len(buffer) /\ pos + 2 \in 1 .. Len(buffer)  BY <2>2, Numbers
    <3>2. /\ buffer[pos + 1] = Byte[received - Len(buffer) + (pos + 1) - 1]
          /\ buffer[pos + 2] = Byte[received - Len(buffer) + (pos + 2) - 1]
      BY <2>1, <3>1 DEF Aligned
    <3>3. /\ received - Len(buffer) + (pos + 1) - 1 = Start[Current]
          /\ received - Len(buffer) + (pos + 2) - 1 = Start[Current] + 1
      BY Numbers, Standing
    <3>. QED  BY <3>2, <3>3
  <2>. QED  BY <2>4, <2>5 DEF NegativeSize, PayloadSize
<1>. QED  BY <1>1, <1>2, <1>3 DEF FramingInv, NegativeSize

LEMMA FinishInv ==
  ASSUME FramingInv, Finish
  PROVE  FramingInv'
<1>. DEFINE n == Len(buffer) - pos
<1>1. n \in Nat /\ pos \in Nat /\ Len(buffer) \in Nat /\ pos + n = Len(buffer)  BY Parts
<1>2. /\ buffer' \in Seq(0 .. Base - 1) /\ Len(buffer') = n
      /\ \A i \in 1 .. n : buffer'[i] = buffer[pos + i]
  <2>1. \A i \in pos + 1 .. Len(buffer) : buffer[i] \in 0 .. Base - 1  BY <1>1, Parts
  <2>2. /\ SubSeq(buffer, pos + 1, Len(buffer)) \in Seq(0 .. Base - 1)
        /\ Len(SubSeq(buffer, pos + 1, Len(buffer)))
             = IF pos + 1 \leq Len(buffer) THEN Len(buffer) - (pos + 1) + 1 ELSE 0
        /\ \A i \in 1 .. Len(buffer) - (pos + 1) + 1 :
             SubSeq(buffer, pos + 1, Len(buffer))[i] = buffer[(pos + 1) + i - 1]
    BY <1>1, <2>1, SubSeqProperties
  <2>3. Len(buffer) - (pos + 1) + 1 = n  BY <1>1
  <2>4. \A i \in 1 .. n : (pos + 1) + i - 1 = pos + i  BY <1>1
  <2>5. buffer' = SubSeq(buffer, pos + 1, Len(buffer))  BY DEF Finish
  <2>6. Len(SubSeq(buffer, pos + 1, Len(buffer))) = n
    <3>1. Len(SubSeq(buffer, pos + 1, Len(buffer)))
            = IF pos + 1 \leq Len(buffer) THEN Len(buffer) - (pos + 1) + 1 ELSE 0
      BY <2>2
    <3>2. CASE pos + 1 \leq Len(buffer)  BY <2>3, <3>1, <3>2
    <3>3. CASE ~(pos + 1 \leq Len(buffer))
      <4>1. n = 0
        <5>1. pos \in Nat /\ Len(buffer) \in Nat /\ pos \leq Len(buffer)  BY Parts
        <5>. QED  BY <3>3, <5>1
      <4>. QED  BY <3>1, <3>3, <4>1
    <3>. QED  BY <3>2, <3>3
  <2>7. \A i \in 1 .. n : SubSeq(buffer, pos + 1, Len(buffer))[i] = buffer[pos + i]
    BY <1>1, <2>2, <2>3, <2>4
  <2>. QED  BY <2>2, <2>5, <2>6, <2>7
<1>3. n > 2 => PayloadSize \in Int /\ PayloadSize < Half /\ n < PayloadSize + 2
  <2>. SUFFICES ASSUME n > 2 PROVE PayloadSize \in Int /\ PayloadSize < Half /\ n < PayloadSize + 2
    OBVIOUS
  <2>1. buffer[pos + 1] \in 0 .. Base - 1 /\ buffer[pos + 2] \in 0 .. Base - 1  BY <1>1, Parts
  <2>2. PayloadSize \in Int /\ PayloadSize < Half  BY <2>1, SignedBelowHalf DEF PayloadSize
  <2>. QED  BY <1>1, <2>2 DEF Finish, Leaving, Complete, Available
<1>4. FrameTypeOK'
  <2>1. pos' = 0 /\ Len(buffer') \in Nat  BY <1>1, <1>2 DEF Finish
  <2>2. pos' \in 0 .. Len(buffer')  BY <2>1
  <2>. QED  BY <1>2, <2>2 DEF FramingInv, FrameTypeOK, Finish
<1>5. LeftoverBounded'
  <2>1. n \leq Half + 1
    <3>1. Half \in Nat \ {0}  BY Numbers
    <3>2. CASE n > 2
      <4>1. PayloadSize \in Int /\ PayloadSize < Half /\ n < PayloadSize + 2  BY <1>3, <3>2
      <4>. QED  BY <1>1, <3>1, <4>1
    <3>3. CASE ~(n > 2)  BY <1>1, <3>1, <3>3
    <3>. QED  BY <3>2, <3>3
  <2>2. n \leq Half + 1 + MaxChunk  BY <1>1, <2>1, Numbers
  <2>. QED  BY <1>2, <2>1, <2>2 DEF LeftoverBounded
<1>6. ASSUME ~torn PROVE Aligned' /\ Rest'
  <2>1. Aligned  BY <1>6 DEF FramingInv
  <2>2. /\ received' = received /\ Current' = Current /\ Current \in 0 .. Frames
        /\ received - n = Start[Current]
    <3>1. received' = received /\ Current' = Current  BY DEF Finish, Current
    <3>2. received - Len(buffer) + pos = Start[Current] /\ Current \in 0 .. Frames
      BY <1>6, Numbers, Standing
    <3>3. received - n = received - Len(buffer) + pos  BY <1>1, Numbers
    <3>. QED  BY <3>1, <3>2, <3>3
  <2>3. \A i \in 1 .. n : buffer'[i] = Byte[received' - Len(buffer') + i - 1]
    <3>1. TAKE i \in 1 .. n
    <3>2. pos + i \in 1 .. Len(buffer) /\ received - Len(buffer) + (pos + i) - 1 = received - n + i - 1
      BY <1>1, Numbers
    <3>3. buffer[pos + i] = Byte[received - Len(buffer) + (pos + i) - 1]  BY <2>1, <3>2 DEF Aligned
    <3>. QED  BY <1>2, <2>2, <3>2, <3>3
  <2>4. Aligned'
    <3>1. Len(buffer') \leq received'
      <4>1. n \leq received  BY <1>1, <1>6, Numbers, Standing
      <4>. QED  BY <1>2, <2>2, <4>1
    <3>2. received' - Len(buffer') + pos' = Start[Current']
      <4>1. pos' = 0 /\ received' = received /\ Len(buffer') = n /\ Current' = Current
        BY <1>2, <2>2 DEF Finish
      <4>2. received - n + 0 = Start[Current]  BY <1>1, <2>2, Numbers
      <4>. QED  BY <4>1, <4>2
    <3>3. pc' # "undefined"  BY DEF Finish
    <3>4. Current' \leq Frames  BY <1>6, <2>2, Standing
    <3>5. \A i \in 1 .. Len(buffer') : buffer'[i] = Byte[received' - Len(buffer') + i - 1]
      BY <1>2, <2>3
    <3>. QED  BY <3>1, <3>2, <3>3, <3>4, <3>5 DEF Aligned
  <2>5. n > 2 => n < Size(Current) + 2
    <3>. SUFFICES ASSUME n > 2 PROVE n < Size(Current) + 2  OBVIOUS
    <3>1. Current \in 0 .. Frames - 1
      <4>1. received - n < Start[Frames]  BY <1>1, Numbers
      <4>2. Current # Frames  BY <2>2, <4>1, Numbers
      <4>. QED  BY <2>2, <4>2, Numbers
    <3>2. /\ Size(Current) \in Nat /\ Start[Current] \in Nat
          /\ Signed(Word(Byte[Start[Current]], Byte[Start[Current] + 1])) = Size(Current)
      BY <3>1, HeaderIsSize
    <3>3. buffer[pos + 1] = Byte[Start[Current]] /\ buffer[pos + 2] = Byte[Start[Current] + 1]
      <4>1. 1 \in 1 .. n /\ 2 \in 1 .. n  BY <1>1
      <4>2. /\ buffer'[1] = Byte[received' - Len(buffer') + 1 - 1]
            /\ buffer'[2] = Byte[received' - Len(buffer') + 2 - 1]
        BY <2>3, <4>1
      <4>3. /\ received' - Len(buffer') + 1 - 1 = Start[Current]
            /\ received' - Len(buffer') + 2 - 1 = Start[Current] + 1
        <5>1. received' - Len(buffer') = Start[Current]  BY <1>2, <2>2
        <5>. QED  BY <3>2, <5>1
      <4>. QED  BY <1>2, <4>1, <4>2, <4>3
    <3>. QED  BY <1>3, <3>2, <3>3 DEF PayloadSize
  <2>. QED  BY <1>2, <2>2, <2>4, <2>5 DEF Rest, Finish
<1>7. ~torn' => \A i \in 1 .. Len(delivered') : delivered'[i] = Payload(first_frame' + i - 1)
  BY DEF Finish, FramingInv
<1>. QED  BY <1>4, <1>5, <1>6, <1>7 DEF FramingInv, Finish

LEMMA ReconnectInv ==
  ASSUME FramingInv, NEW k \in 0 .. Frames, Reconnect(k)
  PROVE  FramingInv'
<1>1. Start[k] \in Nat /\ Start[k] \leq Start[Frames]
  <2>1. Start[k] \in Nat /\ (k < Frames => Start[k] + 2 \leq Start[Frames])  BY StreamAssumption
  <2>2. k = Frames \/ k < Frames  BY Parts
  <2>. QED  BY <2>1, <2>2, Parts
<1>2. FrameTypeOK'
  <2>1. delivered' \in Seq(Seq(0 .. Base - 1))  BY EmptySeq DEF Reconnect
  <2>2. received' \in 0 .. Start[Frames] /\ first_frame' \in 0 .. Frames /\ reconnects' \in Nat
    BY <1>1, Parts DEF Reconnect
  <2>3. torn' \in BOOLEAN  BY Zenon DEF Reconnect
  <2>. QED  BY <2>1, <2>2, <2>3 DEF FramingInv, FrameTypeOK, Reconnect
<1>3. LeftoverBounded'  BY DEF FramingInv, LeftoverBounded, Reconnect
<1>4. ASSUME ~torn' PROVE Aligned' /\ Rest'
  <2>1. ~torn /\ buffer = <<>>  BY <1>4 DEF Reconnect
  <2>2. Len(buffer') = 0 /\ pos' = 0 /\ pc' = "idle"
    BY <2>1, EmptySeq DEF Reconnect, FramingInv, Rest
  <2>3. Current' = k /\ received' = Start[k]  BY EmptySeq DEF Current, Reconnect
  <2>. QED  BY <1>1, <2>2, <2>3, Parts DEF Aligned, Rest
<1>5. \A i \in 1 .. Len(delivered') : delivered'[i] = Payload(first_frame' + i - 1)
  BY EmptySeq DEF Reconnect
<1>. QED  BY <1>2, <1>3, <1>4, <1>5 DEF FramingInv

LEMMA StepInv == FramingInv /\ [FrameNext]_frameVars => FramingInv'
<1>. SUFFICES ASSUME FramingInv, [FrameNext]_frameVars PROVE FramingInv'  OBVIOUS
<1>1. ASSUME NEW n \in 1 .. MaxChunk, OnRecv(n) PROVE FramingInv'  BY <1>1, OnRecvInv
<1>2. CASE ParsePacket  BY <1>2, ParsePacketInv
<1>3. CASE NegativeSize  BY <1>3, NegativeSizeInv
<1>4. CASE Finish  BY <1>4, FinishInv
<1>5. ASSUME NEW k \in 0 .. Frames, Reconnect(k) PROVE FramingInv'  BY <1>5, ReconnectInv
<1>6. CASE UNCHANGED frameVars
  BY <1>6 DEF frameVars, FramingInv, FrameTypeOK, Aligned, Rest, Current, LeftoverBounded
<1>. QED  BY <1>1, <1>2, <1>3, <1>4, <1>5, <1>6 DEF FrameNext

-----------------------------------------------------------------------------
(***************************************************************************)
(* The properties.                                                         *)
(***************************************************************************)
LEMMA Invariance == FrameSpec => []FramingInv
  BY InitInv, StepInv, PTL DEF FrameSpec

\* The types hold, and the loop never leaves the bytes it has.
THEOREM TypesHold == FrameSpec => []FrameTypeOK
<1>1. FramingInv => FrameTypeOK  BY DEF FramingInv
<1>. QED  BY <1>1, Invariance, PTL

\* The packets handled are the packets sent, however the stream is cut.
THEOREM PacketsAreExact == FrameSpec => []PacketsExact
<1>1. FramingInv => PacketsExact  BY DEF FramingInv, PacketsExact, Aligned, Current
<1>. QED  BY <1>1, Invariance, PTL

\* What a call keeps back fits the buffer.
THEOREM LeftoverIsBounded == FrameSpec => []LeftoverBounded
<1>1. FramingInv => LeftoverBounded  BY DEF FramingInv
<1>. QED  BY <1>1, Invariance, PTL

\* No complete packet is kept for the next call.
THEOREM NothingIsKept == FrameSpec => []NothingWaits
<1>1. FramingInv => NothingWaits
  <2>. SUFFICES ASSUME FramingInv, ~torn, pc = "idle",
                       NEW k \in first_frame .. Frames - 1,
                       Start[k + 1] \leq received,
                       ~(Size(k) = 0 /\ Start[k + 1] = received),
                       ~(k - first_frame < Len(delivered))
                PROVE  FALSE
    BY DEF NothingWaits
  <2>1. pos = 0 /\ (Len(buffer) > 2 => Len(buffer) < Size(Current) + 2)  BY DEF FramingInv, Rest
  <2>2. Current \in 0 .. Frames - 1 /\ Current \leq k /\ k \in 0 .. Frames - 1
    <3>1. k \in Int /\ first_frame \leq k /\ k \leq Frames - 1  BY Numbers
    <3>2. Current \leq k  BY <3>1, Numbers DEF Current
    <3>. QED  BY <3>1, <3>2, Numbers, Standing
  <2>3. /\ Size(Current) \in Nat /\ Start[Current] \in Nat
        /\ Start[Current + 1] = Start[Current] + 2 + Size(Current)
    BY <2>2, HeaderIsSize
  <2>4. Start[k + 1] \in Nat
    <3>1. k + 1 \in 0 .. Frames  BY <2>2, Numbers
    <3>. QED  BY <3>1, StreamAssumption
  <2>5. Len(buffer) = received - Start[Current]
    <3>1. received - Len(buffer) + pos = Start[Current]  BY Standing
    <3>2. received \in Nat /\ Len(buffer) \in Nat  BY Numbers
    <3>. QED  BY <2>1, <2>3, <3>1, <3>2
  <2>. DEFINE here == Start[Current]
              size == Size(Current)
              held == Len(buffer)
              last == Start[k + 1]
  <2>6. /\ here \in Nat /\ size \in Nat /\ held \in Nat /\ last \in Nat /\ received \in Nat
        /\ held = received - here /\ last \leq received /\ (held > 2 => held < size + 2)
    BY <2>1, <2>3, <2>4, <2>5, Numbers
  <2>7. CASE k = Current
    <3>1. last = here + 2 + size  BY <2>3, <2>7
    <3>2. ~(size = 0 /\ last = received)  BY <2>7
    <3>. HIDE DEF here, size, held, last
    <3>. QED  BY <2>6, <3>1, <3>2
  <2>8. CASE k > Current
    <3>1. Start[Current + 1] + 2 \leq Start[k + 1]
      <4>1. Current + 1 \in 0 .. Frames /\ k + 1 \in 0 .. Frames /\ Current + 1 < k + 1
        BY <2>2, <2>8, Numbers
      <4>. QED  BY <4>1, StreamAssumption
    <3>2. here + 2 + size + 2 \leq last  BY <2>3, <3>1
    <3>. HIDE DEF here, size, held, last
    <3>. QED  BY <2>6, <3>2
  <2>. QED  BY <2>2, <2>7, <2>8
<1>. QED  BY <1>1, Invariance, PTL

=============================================================================
