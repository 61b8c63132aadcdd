-------------------------- MODULE VideoRelay_proofs --------------------------
(***************************************************************************)
(* Proofs about VideoRelay, for every set of viewers, every form of frame, *)
(* any number of parameter sets, of waiting tasks and of faults.           *)
(***************************************************************************)
EXTENDS VideoRelay, SequenceTheorems, FiniteSetTheorems, TLAPS

\* Every frame that waits for the worker and is not marked as spoilt is one the
\* publisher sent.
QueuedAsPublished ==
  \A i \in 1 .. Len(work) :
    work[i].kind = "frame" /\ ~work[i].spoilt => AsPublished(work[i].nals)

RelayInv == RelayTypeOK /\ QueuedAsPublished

-----------------------------------------------------------------------------
\* A frame is a sequence of units that is not empty.
LEMMA FrameType ==
  ASSUME NEW form \in KeyForms \cup OtherForms, NEW v \in Versions
  PROVE  /\ Nals(form, v) \in Seq(NalUnits)
         /\ Nals(form, v) # <<>>
         /\ AsPublished(Nals(form, v))
<1>1. form \in Seq(NalTypes) /\ form # <<>>  BY RelayAssumption
<1>2. DOMAIN form = 1 .. Len(form) /\ Len(form) \in Nat  BY <1>1
<1>3. \A i \in 1 .. Len(form) : form[i] \in NalTypes  BY <1>1
<1>4. \A i \in 1 .. Len(form) : [type |-> form[i], set |-> v] \in NalUnits  BY <1>3 DEF NalUnits
<1>5. Nals(form, v) = [i \in 1 .. Len(form) |-> [type |-> form[i], set |-> v]]  BY <1>2 DEF Nals
<1>6. Nals(form, v) \in [1 .. Len(form) -> NalUnits]  BY <1>4, <1>5
<1>7. Nals(form, v) \in Seq(NalUnits) /\ Len(Nals(form, v)) = Len(form)
  BY <1>2, <1>6, SeqDef
<1>8. Len(form) # 0  BY <1>1, EmptySeq
<1>9. Nals(form, v) # <<>>  BY <1>7, <1>8
<1>. QED  BY <1>7, <1>9 DEF AsPublished

\* What is left of a frame without one of its packets.
LEMMA PartType ==
  ASSUME NEW S, NEW nals \in Seq(S), NEW i \in 1 .. Len(nals), i < Len(nals)
  PROVE  RemoveAt(nals, i) \in Seq(S) /\ RemoveAt(nals, i) # <<>> /\ nals[i] \in S
<1>1. Len(nals) \in Nat /\ i \in Nat  OBVIOUS
<1>2. SubSeq(nals, 1, i - 1) \in Seq(S)  BY <1>1, SubSeqProperties
<1>3. SubSeq(nals, i + 1, Len(nals)) \in Seq(S) /\ Len(SubSeq(nals, i + 1, Len(nals))) = Len(nals) - i
  BY <1>1, SubSeqProperties
<1>4. RemoveAt(nals, i) \in Seq(S)
  BY <1>2, <1>3, ConcatProperties DEF RemoveAt
<1>5. Len(RemoveAt(nals, i)) = Len(SubSeq(nals, 1, i - 1)) + (Len(nals) - i)
  BY <1>2, <1>3, ConcatProperties DEF RemoveAt
<1>6. Len(SubSeq(nals, 1, i - 1)) \in Nat  BY <1>2
<1>7. Len(RemoveAt(nals, i)) # 0  BY <1>1, <1>5, <1>6
<1>8. RemoveAt(nals, i) # <<>>  BY <1>7
<1>. QED  BY <1>4, <1>8

\* All packets but the last.
LEMMA FrontType ==
  ASSUME NEW S, NEW nals \in Seq(S)
  PROVE  Front(nals) \in Seq(S)
BY SubSeqProperties DEF Front

LEMMA Joined ==
  ASSUME NEW S, NEW s \in Seq(S), NEW t \in Seq(S)
  PROVE  /\ s \o t \in Seq(S)
         /\ t # <<>> => s \o t # <<>>
         /\ s = <<>> => s \o t = t
<1>1. s \o t \in Seq(S) /\ Len(s \o t) = Len(s) + Len(t)  BY ConcatProperties
<1>2. Len(s) \in Nat /\ Len(t) \in Nat  OBVIOUS
<1>3. t # <<>> => Len(t) # 0  BY EmptySeq
<1>4. t # <<>> => s \o t # <<>>
  BY <1>1, <1>2, <1>3
<1>. QED  BY <1>1, <1>4

-----------------------------------------------------------------------------
\* A task that is posted keeps what is said of the tasks, if it is said of it.
LEMMA PostKeeps ==
  ASSUME RelayInv, NEW task \in WorkTasks, work' = Append(work, task),
         task.kind = "frame" /\ ~task.spoilt => AsPublished(task.nals)
  PROVE  work' \in Seq(WorkTasks) /\ QueuedAsPublished'
<1>1. work \in Seq(WorkTasks)  BY DEF RelayInv, RelayTypeOK
<1>2. work' \in Seq(WorkTasks) /\ Len(work') = Len(work) + 1  BY <1>1, AppendProperties
<1>3. \A i \in 1 .. Len(work) : work'[i] = work[i]  BY <1>1, AppendProperties
<1>4. work'[Len(work) + 1] = task  BY <1>1, AppendProperties
<1>5. Len(work) \in Nat  BY <1>1
<1>6. ASSUME NEW i \in 1 .. Len(work'), work'[i].kind = "frame", ~work'[i].spoilt
      PROVE  AsPublished(work'[i].nals)
  <2>1. CASE i \in 1 .. Len(work)  BY <1>3, <1>6, <2>1 DEF RelayInv, QueuedAsPublished
  <2>2. CASE i = Len(work) + 1  BY <1>4, <1>6, <2>2
  <2>. QED  BY <1>2, <1>5, <2>1, <2>2
<1>. QED  BY <1>2, <1>6 DEF QueuedAsPublished, AsPublished

\* So does taking the first.
LEMMA TakeKeeps ==
  ASSUME RelayInv, work # <<>>, work' = Tail(work)
  PROVE  work' \in Seq(WorkTasks) /\ QueuedAsPublished'
<1>1. work \in Seq(WorkTasks)  BY DEF RelayInv, RelayTypeOK
<1>2. work' \in Seq(WorkTasks) /\ Len(work') = Len(work) - 1
  BY <1>1, HeadTailProperties
<1>3. \A i \in 1 .. Len(work') : work'[i] = work[i + 1]  BY <1>1, HeadTailProperties
<1>4. Len(work) \in Nat  BY <1>1
<1>5. \A i \in 1 .. Len(work') : i + 1 \in 1 .. Len(work)  BY <1>2, <1>4
<1>. QED  BY <1>2, <1>3, <1>5 DEF RelayInv, QueuedAsPublished, AsPublished

-----------------------------------------------------------------------------
\* What OnSrtpRtp leaves in its buffer and posts to the worker, whatever happens
\* to the packets of the frame.
LEMMA OnSrtpRtpKeeps ==
  ASSUME RelayInv, NEW nals \in Seq(NalUnits), nals # <<>>, AsPublished(nals), OnSrtpRtp(nals)
  PROVE  /\ gathered' \in Seq(NalUnits) /\ (gathered' # <<>> => torn')
         /\ torn' \in BOOLEAN /\ faults' \in 0 .. MaxFaults
         /\ work' \in Seq(WorkTasks) /\ QueuedAsPublished'
<1>1. gathered \in Seq(NalUnits) /\ (gathered # <<>> => torn) /\ torn \in BOOLEAN
      /\ faults \in 0 .. MaxFaults /\ MaxFaults \in Nat
  BY RelayAssumption DEF RelayInv, RelayTypeOK
<1>2. \A s : Emptied(s) = <<>>  BY DEF Emptied
<1>3. Fault => faults' \in 0 .. MaxFaults  BY <1>1 DEF Fault
<1>4. <<>> \in Seq(NalUnits)  OBVIOUS
<1>5. DOMAIN nals = 1 .. Len(nals)  OBVIOUS
<1>6. ASSUME NEW units \in Seq(NalUnits), units # <<>>, NEW spoilt \in BOOLEAN,
             PostWork(FrameTaskOf(units, spoilt)), ~spoilt => AsPublished(units)
      PROVE  work' \in Seq(WorkTasks) /\ QueuedAsPublished'
  <2>1. FrameTaskOf(units, spoilt) \in WorkTasks  BY <1>6 DEF FrameTaskOf, WorkTasks
  <2>2. FrameTaskOf(units, spoilt).nals = units /\ FrameTaskOf(units, spoilt).spoilt = spoilt
    BY DEF FrameTaskOf
  <2>3. work' = Append(work, FrameTaskOf(units, spoilt))  BY <1>6 DEF PostWork
  <2>. QED  BY <1>6, <2>1, <2>2, <2>3, PostKeeps
<1>7. CASE ArrivesWhole(nals)
  <2>1. gathered \o nals \in Seq(NalUnits) /\ gathered \o nals # <<>>
        /\ (~torn => gathered \o nals = nals)
    BY <1>1, Joined
  <2>2. PostWork(FrameTaskOf(gathered \o nals, torn)) /\ gathered' = <<>> /\ torn' = FALSE
        /\ faults' = faults
    <3>1. torn \/ FALSE = torn  BY <1>1
    <3>. QED  BY <1>2, <1>7, <3>1 DEF ArrivesWhole, Complete
  <2>3. work' \in Seq(WorkTasks) /\ QueuedAsPublished'  BY <1>1, <1>6, <2>1, <2>2
  <2>. QED  BY <1>1, <1>4, <2>2, <2>3
<1>8. CASE \E i \in DOMAIN nals : ArrivesInPart(nals, i)
  <2>1. PICK i \in 1 .. Len(nals) : ArrivesInPart(nals, i)  BY <1>5, <1>8
  <2>2. i < Len(nals) /\ Fault  BY <2>1 DEF ArrivesInPart
  <2>3. RemoveAt(nals, i) \in Seq(NalUnits) /\ RemoveAt(nals, i) # <<>>  BY <2>2, PartType
  <2>4. gathered \o RemoveAt(nals, i) \in Seq(NalUnits) /\ gathered \o RemoveAt(nals, i) # <<>>
    BY <1>1, <2>3, Joined
  <2>5. PostWork(FrameTaskOf(gathered \o RemoveAt(nals, i), TRUE)) /\ gathered' = <<>> /\ torn' = FALSE
    <3>1. (torn \/ TRUE) = TRUE  OBVIOUS
    <3>. QED  BY <1>2, <2>1, <3>1 DEF ArrivesInPart, Complete
  <2>6. work' \in Seq(WorkTasks) /\ QueuedAsPublished'  BY <1>6, <2>4, <2>5
  <2>. QED  BY <1>3, <1>4, <2>2, <2>5, <2>6
<1>9. CASE \E i \in DOMAIN nals : ArrivesLate(nals, i)
  <2>1. PICK i \in 1 .. Len(nals) : ArrivesLate(nals, i)  BY <1>5, <1>9
  <2>2. i < Len(nals) /\ Fault  BY <2>1 DEF ArrivesLate
  <2>3. RemoveAt(nals, i) \in Seq(NalUnits) /\ RemoveAt(nals, i) # <<>> /\ nals[i] \in NalUnits
    BY <2>2, PartType
  <2>4. gathered \o RemoveAt(nals, i) \in Seq(NalUnits) /\ gathered \o RemoveAt(nals, i) # <<>>
    BY <1>1, <2>3, Joined
  <2>5. PostWork(FrameTaskOf(gathered \o RemoveAt(nals, i), TRUE)) /\ torn' = TRUE
        /\ gathered' = Append(<<>>, nals[i])
    BY <1>2, <2>1 DEF ArrivesLate
  <2>6. work' \in Seq(WorkTasks) /\ QueuedAsPublished'  BY <1>6, <2>4, <2>5
  <2>7. gathered' \in Seq(NalUnits)  BY <1>4, <2>3, <2>5, AppendProperties
  <2>. QED  BY <1>3, <2>2, <2>5, <2>6, <2>7
<1>10. CASE LosesMarker(nals)
  <2>1. Front(nals) \in Seq(NalUnits)  BY FrontType
  <2>2. gathered \o Front(nals) \in Seq(NalUnits)  BY <1>1, <2>1, Joined
  <2>3. gathered' = gathered \o Front(nals) /\ torn' = TRUE /\ work' = work /\ Fault
    BY <1>10 DEF LosesMarker
  <2>4. work' \in Seq(WorkTasks) /\ QueuedAsPublished'
    BY <2>3 DEF RelayInv, RelayTypeOK, QueuedAsPublished, AsPublished
  <2>. QED  BY <1>3, <2>2, <2>3, <2>4
<1>. QED  BY <1>7, <1>8, <1>9, <1>10 DEF OnSrtpRtp

\* What a viewer shows is TRUE or FALSE.
LEMMA PictureType ==
  ASSUME RelayInv, NEW task, DeliverFrame(task)
  PROVE  picture' \in [Viewers -> BOOLEAN]
<1>1. picture \in [Viewers -> BOOLEAN]  BY DEF RelayInv, RelayTypeOK
<1>2. PICK seen : picture' = [v \in Viewers |->
                      IF v \in seen /\ Sends(v, Got(v, task))
                      THEN ~task.spoilt /\ ~Got(v, task).cut /\ (picture[v] \/ Decodable(Got(v, task).nals))
                      ELSE picture[v]]
  BY DEF DeliverFrame
<1>. QED  BY <1>1, <1>2

-----------------------------------------------------------------------------
LEMMA RelayStarts == RelayInit => RelayInv
<1>. SUFFICES ASSUME RelayInit PROVE RelayInv
  OBVIOUS
<1>1. <<>> \in Seq(NalUnits) /\ <<>> \in Seq(WorkTasks)  OBVIOUS
<1>2. MaxFaults \in Nat  BY RelayAssumption
<1>3. faults \in 0 .. MaxFaults  BY <1>2 DEF RelayInit
<1>4. viewer \in [Viewers -> {"none", "new", "done", "closed"}] /\ picture \in [Viewers -> BOOLEAN]
  BY DEF RelayInit
<1>5. RelayTypeOK
  BY <1>1, <1>3, <1>4 DEF RelayInit, RelayTypeOK
<1>6. QueuedAsPublished  BY DEF RelayInit, QueuedAsPublished
<1>. QED  BY <1>5, <1>6 DEF RelayInv

LEMMA RelayKeeps ==
  ASSUME RelayInv, [RelayNext]_relayVars
  PROVE  RelayInv'
<1>. USE DEF RelayInv
<1>1. RelayTypeOK /\ QueuedAsPublished  OBVIOUS
\* The tasks, when nobody touches them.
<1>2. work' = work => work' \in Seq(WorkTasks) /\ QueuedAsPublished'
  BY DEF RelayTypeOK, QueuedAsPublished, AsPublished
\* The tasks, when one without a frame is posted.
<1>3. ASSUME AskForKeyFrame
      PROVE  work' \in Seq(WorkTasks) /\ QueuedAsPublished'
  <2>1. [kind |-> "consumer"] \in WorkTasks /\ [kind |-> "consumer"].kind # "frame"  BY DEF WorkTasks
  <2>2. work' = Append(work, [kind |-> "consumer"])  BY <1>3 DEF AskForKeyFrame, PostWork
  <2>. QED  BY <2>1, <2>2, PostKeeps
<1>4. CASE Attach
  BY <1>1, <1>2, <1>4 DEF Attach, RelayTypeOK, inputVars, viewerVars
<1>5. CASE PublisherConnected
  BY <1>1, <1>2, <1>5 DEF PublisherConnected, RelayTypeOK, inputVars, viewerVars
<1>6. CASE PliArrives
  BY <1>1, <1>2, <1>6 DEF PliArrives, RelayTypeOK, inputVars, viewerVars
<1>7. CASE LosePli
  <2>1. MaxFaults \in Nat /\ faults \in 0 .. MaxFaults  BY <1>1, RelayAssumption DEF RelayTypeOK
  <2>2. faults' \in 0 .. MaxFaults  BY <1>7, <2>1 DEF LosePli, Fault
  <2>3. pli' = FALSE /\ UNCHANGED <<publisherVars, recent, inputVars, work, viewerVars>>
    BY <1>7 DEF LosePli
  <2>. QED  BY <1>1, <1>2, <2>2, <2>3 DEF RelayTypeOK, inputVars, viewerVars, publisherVars
<1>8. CASE KeyFrameArrives
  <2>1. PICK form \in KeyForms, v \in Versions :
          OnSrtpRtp(Nals(form, v)) /\ version' = v /\ asked' = FALSE
    BY <1>8 DEF KeyFrameArrives
  <2>2. Nals(form, v) \in Seq(NalUnits) /\ Nals(form, v) # <<>> /\ AsPublished(Nals(form, v))
    BY FrameType
  <2>3. UNCHANGED <<publisher, pli, recent, viewerVars>>  BY <2>1 DEF OnSrtpRtp
  <2>4. /\ gathered' \in Seq(NalUnits) /\ (gathered' # <<>> => torn')
        /\ torn' \in BOOLEAN /\ faults' \in 0 .. MaxFaults
        /\ work' \in Seq(WorkTasks) /\ QueuedAsPublished'
    BY <2>1, <2>2, OnSrtpRtpKeeps
  <2>. QED  BY <1>1, <2>1, <2>3, <2>4 DEF RelayTypeOK, viewerVars
<1>9. CASE OtherFrameArrives
  <2>1. PICK form \in OtherForms :
          OnSrtpRtp(Nals(form, version)) /\ UNCHANGED <<version, asked>>
    BY <1>9 DEF OtherFrameArrives
  <2>2. version \in Versions  BY <1>1 DEF RelayTypeOK
  <2>3. Nals(form, version) \in Seq(NalUnits) /\ Nals(form, version) # <<>>
        /\ AsPublished(Nals(form, version))
    BY <2>2, FrameType
  <2>4. UNCHANGED <<publisher, pli, recent, viewerVars>>  BY <2>1 DEF OnSrtpRtp
  <2>5. /\ gathered' \in Seq(NalUnits) /\ (gathered' # <<>> => torn')
        /\ torn' \in BOOLEAN /\ faults' \in 0 .. MaxFaults
        /\ work' \in Seq(WorkTasks) /\ QueuedAsPublished'
    BY <2>1, <2>3, OnSrtpRtpKeeps
  <2>. QED  BY <1>1, <2>1, <2>4, <2>5 DEF RelayTypeOK, viewerVars
<1>10. ASSUME NEW v \in Viewers, Join(v)
       PROVE  RelayInv'
  BY <1>1, <1>2, <1>10 DEF Join, RelayTypeOK, inputVars, publisherVars
<1>11. ASSUME NEW v \in Viewers, ViewerConnected(v)
       PROVE  RelayInv'
  BY <1>1, <1>3, <1>11 DEF ViewerConnected, RelayTypeOK, inputVars, publisherVars
<1>12. ASSUME NEW v \in Viewers, OnSrtpRtcp(v)
       PROVE  RelayInv'
  BY <1>1, <1>3, <1>12 DEF OnSrtpRtcp, RelayTypeOK, inputVars, publisherVars, viewerVars
<1>13. ASSUME NEW v \in Viewers, Leave(v)
       PROVE  RelayInv'
  BY <1>1, <1>2, <1>13 DEF Leave, RelayTypeOK, inputVars, publisherVars
<1>14. CASE FrameTask
  <2>1. work # <<>> /\ work' = Tail(work) /\ DeliverFrame(Head(work))  BY <1>14 DEF FrameTask
  <2>2. work' \in Seq(WorkTasks) /\ QueuedAsPublished'  BY <2>1, TakeKeeps
  <2>3. picture' \in [Viewers -> BOOLEAN]  BY <2>1, PictureType
  <2>. QED  BY <1>1, <1>14, <2>2, <2>3 DEF FrameTask, RelayTypeOK, inputVars, publisherVars
<1>15. CASE ConsumerRequestKeyFrame
  <2>. DEFINE more == [kind |-> "producer"]
  <2>1. CASE work' = Tail(work)
    <3>1. work' \in Seq(WorkTasks) /\ QueuedAsPublished'
      BY <1>15, <2>1, TakeKeeps DEF ConsumerRequestKeyFrame
    <3>. QED  BY <1>1, <1>15, <3>1 DEF ConsumerRequestKeyFrame, RelayTypeOK, inputVars, viewerVars, publisherVars
  <2>2. CASE work' = Append(Tail(work), more)
    <3>1. work \in Seq(WorkTasks) /\ work # <<>>  BY <1>1, <1>15 DEF ConsumerRequestKeyFrame, RelayTypeOK
    <3>2. Tail(work) \in Seq(WorkTasks) /\ Len(Tail(work)) = Len(work) - 1
          /\ \A i \in 1 .. Len(Tail(work)) : Tail(work)[i] = work[i + 1]
      BY <3>1, HeadTailProperties
    <3>3. more \in WorkTasks /\ more.kind # "frame"  BY DEF WorkTasks
    <3>4. work' \in Seq(WorkTasks) /\ Len(work') = Len(work)
          /\ (\A i \in 1 .. Len(work) - 1 : work'[i] = work[i + 1]) /\ work'[Len(work)] = more
      <4>. HIDE DEF more
      <4>1. Append(Tail(work), more) \in Seq(WorkTasks) /\ Len(Append(Tail(work), more)) = Len(Tail(work)) + 1
            /\ (\A i \in 1 .. Len(Tail(work)) : Append(Tail(work), more)[i] = Tail(work)[i])
            /\ Append(Tail(work), more)[Len(Tail(work)) + 1] = more
        BY <3>2, <3>3, AppendProperties
      <4>2. Len(work) \in Nat  BY <3>1
      <4>3. Len(Tail(work)) + 1 = Len(work)  BY <3>2, <4>2
      <4>. QED  BY <2>2, <3>2, <4>1, <4>3
    <3>5. QueuedAsPublished'
      <4>. HIDE DEF more
      <4>1. ASSUME NEW i \in 1 .. Len(work'), work'[i].kind = "frame", ~work'[i].spoilt
            PROVE  AsPublished(work'[i].nals)
        <5>1. Len(work) \in Nat  BY <3>1
        <5>2. i # Len(work)  BY <3>3, <3>4, <4>1
        <5>3. i \in 1 .. Len(work) - 1 /\ i + 1 \in 1 .. Len(work)  BY <3>4, <5>1, <5>2
        <5>. QED  BY <1>1, <3>4, <4>1, <5>3 DEF QueuedAsPublished
      <4>. QED  BY <4>1 DEF QueuedAsPublished, AsPublished
    <3>. QED  BY <1>1, <1>15, <3>4, <3>5 DEF ConsumerRequestKeyFrame, RelayTypeOK, inputVars, viewerVars, publisherVars
  <2>. QED  BY <1>15, <2>1, <2>2 DEF ConsumerRequestKeyFrame
<1>16. CASE RequestKeyFrame
  <2>1. work' \in Seq(WorkTasks) /\ QueuedAsPublished'
    BY <1>16, TakeKeeps DEF RequestKeyFrame
  <2>2. recent' \in BOOLEAN /\ pli' \in BOOLEAN
    BY <1>1, <1>16 DEF RequestKeyFrame, RelayTypeOK
  <2>. QED  BY <1>1, <1>16, <2>1, <2>2 DEF RequestKeyFrame, RelayTypeOK, inputVars, viewerVars, publisherVars
<1>17. CASE IntervalPasses
  BY <1>1, <1>2, <1>17 DEF IntervalPasses, RelayTypeOK, inputVars, viewerVars, publisherVars
<1>18. CASE UNCHANGED relayVars
  BY <1>1, <1>2, <1>18 DEF RelayTypeOK, relayVars, inputVars, viewerVars, publisherVars
<1>. QED
  BY <1>4, <1>5, <1>6, <1>7, <1>8, <1>9, <1>10, <1>11, <1>12, <1>13, <1>14, <1>15, <1>16, <1>17, <1>18
  DEF RelayNext, Worker

\* The types, and that only a lost or late packet leaves units in the buffer.
THEOREM RelayTypes == RelaySpec => []RelayTypeOK
<1>1. RelayInv => RelayTypeOK  BY DEF RelayInv
<1>. QED  BY <1>1, RelayStarts, RelayKeeps, PTL DEF RelaySpec

\* Whatever is lost, late or put into the wrong frame: a frame that reaches the
\* worker without being spoilt has the units the publisher sent, in their order
\* (OnSrtpRtp, Session::AddVideoFrame).
THEOREM UnspoiltIsWhole == RelaySpec => []QueuedAsPublished
<1>1. RelayInv => QueuedAsPublished  BY DEF RelayInv
<1>. QED  BY <1>1, RelayStarts, RelayKeeps, PTL DEF RelaySpec

-----------------------------------------------------------------------------
(* What AddVideoFrame makes of a frame.  FoldLeft is defined by a recursive *)
(* function on the sets of positions, and the induction that needs is one   *)
(* over sets, since the theorems of NaturalsInduction take a predicate.     *)

\* Induction over the numbers, as a fact about sets.
LEMMA Induction ==
  ASSUME NEW S, 0 \in S, \A n \in Nat : n \in S => n + 1 \in S
  PROVE  Nat \subseteq S
<1>. SUFFICES ASSUME NEW b \in Nat, b \notin S PROVE FALSE
  OBVIOUS
<1>. DEFINE Out == {0 .. n : n \in Nat \ S}
<1>1. \A n \in Nat : 0 .. n \in FiniteSubsetsOf(Nat)  BY FS_Interval DEF FiniteSubsetsOf
<1>2. Out \subseteq FiniteSubsetsOf(Nat) /\ Out # {}  BY <1>1
<1>3. \E x \in Out : \A y \in Out : <<y, x>> \notin StrictSubsetOrdering(Nat)
  <2>. HIDE DEF Out
  <2>. QED  BY <1>2, FS_StrictSubsetOrderingWellFounded, WFMin
<1>4. PICK n \in Nat \ S : \A y \in Out : <<y, 0 .. n>> \notin StrictSubsetOrdering(Nat)
  BY <1>3
<1>5. n # 0 /\ n - 1 \in Nat /\ (n - 1) + 1 = n  OBVIOUS
<1>6. n - 1 \in Nat \ S  BY <1>5
<1>7. 0 .. n - 1 \in Out  BY <1>6
<1>8. 0 .. n - 1 \subseteq 0 .. n /\ 0 .. n - 1 # 0 .. n /\ 0 .. n \subseteq Nat
  <2>1. n \in 0 .. n /\ n \notin 0 .. n - 1  BY <1>5
  <2>. QED  BY <2>1
<1>9. <<0 .. n - 1, 0 .. n>> \in StrictSubsetOrdering(Nat)
  BY <1>8 DEF StrictSubsetOrdering
<1>. QED  BY <1>4, <1>7, <1>9

\* The equation by which FoldLeft defines its value on every set of positions.
Folded(f, base, nals, D) ==
  f = [s \in SUBSET D |-> IF s = {} THEN base ELSE AddNal(f[s \ {Max(s)}], nals[Max(s)])]

LEMMA LargestIs ==
  ASSUME NEW s, NEW m \in s, \A x \in s : m >= x /\ x \in Int
  PROVE  Max(s) = m
<1>1. Max(s) \in s /\ Max(s) >= m  BY DEF Max
<1>. QED  BY <1>1

\* It has a solution, ...
LEMMA FoldExists ==
  ASSUME NEW base, NEW nals, NEW n \in Nat
  PROVE  \E f : Folded(f, base, nals, 1 .. n)
<1>. DEFINE Solved == {m \in Nat : \E f : Folded(f, base, nals, 1 .. m)}
<1>1. 0 \in Solved
  <2>. DEFINE f == [s \in SUBSET (1 .. 0) |-> base]
  <2>1. \A s \in SUBSET (1 .. 0) : s = {}  OBVIOUS
  <2>2. Folded(f, base, nals, 1 .. 0)  BY <2>1 DEF Folded
  <2>. QED  BY <2>2
<1>2. ASSUME NEW m \in Nat, m \in Solved PROVE m + 1 \in Solved
  <2>1. PICK f : Folded(f, base, nals, 1 .. m)  BY <1>2
  <2>. DEFINE g == [s \in SUBSET (1 .. m + 1) |->
                     IF m + 1 \in s THEN AddNal(f[s \ {m + 1}], nals[m + 1]) ELSE f[s]]
  <2>2. ASSUME NEW s \in SUBSET (1 .. m + 1)
        PROVE  g[s] = IF s = {} THEN base ELSE AddNal(g[s \ {Max(s)}], nals[Max(s)])
    <3>1. CASE m + 1 \in s
      <4>1. Max(s) = m + 1
        <5>1. \A x \in s : m + 1 >= x /\ x \in Int  OBVIOUS
        <5>. QED  BY <3>1, <5>1, LargestIs
      <4>2. s \ {m + 1} \in SUBSET (1 .. m + 1) /\ m + 1 \notin s \ {m + 1}  OBVIOUS
      <4>3. g[s \ {m + 1}] = f[s \ {m + 1}]  BY <4>2
      <4>4. g[s] = AddNal(f[s \ {m + 1}], nals[m + 1])  BY <3>1
      <4>. QED  BY <3>1, <4>1, <4>3, <4>4
    <3>2. CASE m + 1 \notin s
      <4>1. \A t \in SUBSET (1 .. m + 1) : m + 1 \notin t => g[t] = f[t]  OBVIOUS
      <4>2. s \in SUBSET (1 .. m)  BY <3>2
      <4>3. s \ {Max(s)} \in SUBSET (1 .. m + 1) /\ m + 1 \notin s \ {Max(s)}  BY <3>2
      <4>4. f[s] = IF s = {} THEN base ELSE AddNal(f[s \ {Max(s)}], nals[Max(s)])
        BY <2>1, <4>2 DEF Folded
      <4>. QED  BY <3>2, <4>1, <4>3, <4>4
    <3>. QED  BY <3>1, <3>2
  <2>3. g = [s \in SUBSET (1 .. m + 1) |-> g[s]]  OBVIOUS
  <2>4. Folded(g, base, nals, 1 .. m + 1)
    <3>. HIDE DEF g
    <3>. QED  BY <2>2, <2>3 DEF Folded
  <2>. QED  BY <2>4
<1>. HIDE DEF Solved
<1>3. Nat \subseteq Solved  BY <1>1, <1>2, Induction
<1>. QED  BY <1>3 DEF Solved

\* ... and so AddVideoFrame goes through the units one by one.
LEMMA AddVideoFrameSteps ==
  ASSUME NEW v, NEW nals \in Seq(NalUnits)
  PROVE  \E w : /\ w[0] = [sps |-> sets[v].sps, pps |-> sets[v].pps, nals |-> <<>>, cut |-> FALSE]
                /\ \A m \in 1 .. Len(nals) : w[m] = AddNal(w[m - 1], nals[m])
                /\ AddVideoFrame(v, nals) = w[Len(nals)]
<1>. DEFINE base == [sps |-> sets[v].sps, pps |-> sets[v].pps, nals |-> <<>>, cut |-> FALSE]
            D    == 1 .. Len(nals)
            fold == CHOOSE f : Folded(f, base, nals, D)
            w    == [m \in 0 .. Len(nals) |-> fold[1 .. m]]
<1>1. DOMAIN nals = D /\ Len(nals) \in Nat  OBVIOUS
<1>2. AddVideoFrame(v, nals) = fold[D]
  BY <1>1 DEF AddVideoFrame, FoldLeft, MapThenFoldSet, Folded
<1>. HIDE DEF base
<1>3. Folded(fold, base, nals, D)  BY <1>1, FoldExists
<1>. HIDE DEF fold
<1>4. \A s \in SUBSET D : fold[s] = IF s = {} THEN base ELSE AddNal(fold[s \ {Max(s)}], nals[Max(s)])
  BY <1>3 DEF Folded
<1>5. w[0] = base
  <2>1. 0 \in 0 .. Len(nals) /\ 1 .. 0 = {} /\ {} \in SUBSET D  BY <1>1
  <2>. QED  BY <1>4, <2>1
<1>6. ASSUME NEW m \in 1 .. Len(nals) PROVE w[m] = AddNal(w[m - 1], nals[m])
  <2>1. m \in 0 .. Len(nals) /\ m - 1 \in 0 .. Len(nals) /\ m \in 1 .. m  BY <1>1
  <2>2. 1 .. m \in SUBSET D /\ 1 .. m # {}
    <3>1. \A x \in 1 .. m : x \in 1 .. Len(nals)  BY <1>1
    <3>. QED  BY <2>1, <3>1
  <2>3. Max(1 .. m) = m
    <3>1. \A x \in 1 .. m : m >= x /\ x \in Int  BY <2>1
    <3>. QED  BY <2>1, <3>1, LargestIs
  <2>4. (1 .. m) \ {m} = 1 .. m - 1  BY <2>1
  <2>. QED  BY <1>4, <2>1, <2>2, <2>3, <2>4
<1>7. w[Len(nals)] = fold[D]
  <2>1. Len(nals) \in 0 .. Len(nals)  BY <1>1
  <2>. QED  BY <2>1
<1>. HIDE DEF w
<1>. QED  BY <1>2, <1>5, <1>6, <1>7 DEF base

\* What AddVideoFrame has worked out of a frame whose end it has not cut, and
\* what a unit changes in it.
Worked(sps, pps, units) == [sps |-> sps, pps |-> pps, nals |-> units, cut |-> FALSE]

\* A frame that begins with its parameter sets and its IDR slice is left as it is,
\* whichever parameter sets the viewer had.
LEMMA KeyFrameGoesWhole ==
  ASSUME NEW v, NEW nals \in Seq(NalUnits), BeginsWithSets(nals)
  PROVE  ~AddVideoFrame(v, nals).cut /\ AddVideoFrame(v, nals).nals = nals
<1>1. PICK w : /\ w[0] = Worked(sets[v].sps, sets[v].pps, <<>>)
               /\ \A m \in 1 .. Len(nals) : w[m] = AddNal(w[m - 1], nals[m])
               /\ AddVideoFrame(v, nals) = w[Len(nals)]
  BY AddVideoFrameSteps DEF Worked
<1>2. Len(nals) \in Nat /\ Len(nals) >= 3  BY DEF BeginsWithSets
<1>3. \A m \in 1 .. Len(nals) : nals[m] \in NalUnits  OBVIOUS
<1>4. nals[1] # NoSet /\ nals[2] # NoSet  BY <1>2, <1>3, RelayAssumption
<1>5. w[1] = Worked(nals[1], sets[v].pps, <<>>)
  <2>1. w[1] = AddNal(w[0], nals[1])
    <3>1. 1 \in 1 .. Len(nals) /\ 1 - 1 = 0  BY <1>2
    <3>. QED  BY <1>1, <3>1
  <2>2. nals[1] \in NalUnits /\ nals[1].type = "sps"  BY <1>2, <1>3 DEF BeginsWithSets
  <2>3. AddNal(Worked(sets[v].sps, sets[v].pps, <<>>), nals[1]) = Worked(nals[1], sets[v].pps, <<>>)
    BY <2>2 DEF AddNal, AddIdr, Worked
  <2>. QED  BY <1>1, <2>1, <2>3
<1>6. w[2] = Worked(nals[1], nals[2], <<>>)
  <2>1. w[2] = AddNal(w[1], nals[2])
    <3>1. 2 \in 1 .. Len(nals) /\ 2 - 1 = 1  BY <1>2
    <3>. QED  BY <1>1, <3>1
  <2>2. nals[2] \in NalUnits /\ nals[2].type = "pps"  BY <1>2, <1>3 DEF BeginsWithSets
  <2>3. AddNal(Worked(nals[1], sets[v].pps, <<>>), nals[2]) = Worked(nals[1], nals[2], <<>>)
    BY <2>2 DEF AddNal, AddIdr, Worked
  <2>. QED  BY <1>5, <2>1, <2>3
<1>7. w[3] = Worked(nals[1], nals[2], SubSeq(nals, 1, 3))
  <2>1. w[3] = AddNal(w[2], nals[3])
    <3>1. 3 \in 1 .. Len(nals) /\ 3 - 1 = 2  BY <1>2
    <3>. QED  BY <1>1, <3>1
  <2>2. nals[3] \in NalUnits /\ nals[3].type = "idr"  BY <1>2, <1>3 DEF BeginsWithSets
  <2>. DEFINE three == <<>> \o IfAny(nals[1]) \o IfAny(nals[2]) \o <<nals[3]>>
  <2>4. w[3] = Worked(nals[1], nals[2], three)
    <3>1. AddNal(Worked(nals[1], nals[2], <<>>), nals[3]) = Worked(nals[1], nals[2], three)
      BY <2>2 DEF AddNal, AddIdr, Worked
    <3>. QED  BY <1>6, <2>1, <3>1
  <2>5. three = SubSeq(nals, 1, 3)
    <3>1. IfAny(nals[1]) = <<nals[1]>> /\ IfAny(nals[2]) = <<nals[2]>>  BY <1>4 DEF IfAny
    <3>2. 1 \in 1 .. Len(nals) /\ 2 \in 1 .. Len(nals) /\ 3 \in 1 .. Len(nals)  BY <1>2
    <3>3. SubSeq(nals, 1, 0) = <<>>  BY SubSeqEmpty
    <3>4. SubSeq(nals, 1, 1) = SubSeq(nals, 1, 1 - 1) \o <<nals[1]>>
      <4>1. 1 \in 1 .. Len(nals)  BY <3>2
      <4>. QED  BY <3>2, <4>1, SubSeqRecursiveSecond
    <3>5. SubSeq(nals, 1, 2) = SubSeq(nals, 1, 2 - 1) \o <<nals[2]>>  BY <3>2, SubSeqRecursiveSecond
    <3>6. SubSeq(nals, 1, 3) = SubSeq(nals, 1, 3 - 1) \o <<nals[3]>>  BY <3>2, SubSeqRecursiveSecond
    <3>7. 1 - 1 = 0 /\ 2 - 1 = 1 /\ 3 - 1 = 2  OBVIOUS
    <3>. QED  BY <3>1, <3>3, <3>4, <3>5, <3>6, <3>7
  <2>. QED  BY <2>4, <2>5
<1>. DEFINE Done(m) == w[m] = Worked(nals[1], nals[2], SubSeq(nals, 1, m))
            Fine == {m \in Nat : m + 3 <= Len(nals) => Done(m + 3)}
<1>8. 0 \in Fine  BY <1>7
<1>9. ASSUME NEW m \in Nat, m \in Fine PROVE m + 1 \in Fine
  <2>. SUFFICES ASSUME (m + 1) + 3 <= Len(nals) PROVE Done((m + 1) + 3)
    OBVIOUS
  <2>. DEFINE k == m + 3
  <2>1. k \in 3 .. Len(nals) /\ k + 1 \in 4 .. Len(nals) /\ (m + 1) + 3 = k + 1 /\ (k + 1) - 1 = k
        /\ k + 1 \in 1 .. Len(nals) /\ k <= Len(nals)
    BY <1>2
  <2>2. Done(k)  BY <1>9, <2>1
  <2>. HIDE DEF k
  <2>3. w[k + 1] = AddNal(w[k], nals[k + 1])  BY <1>1, <2>1
  <2>4. nals[k + 1] \in NalUnits /\ nals[k + 1].type \in {"slice", "sei"}
    BY <1>3, <2>1 DEF BeginsWithSets
  <2>5. w[k + 1] = Worked(nals[1], nals[2], Append(SubSeq(nals, 1, k), nals[k + 1]))
    <3>1. AddNal(Worked(nals[1], nals[2], SubSeq(nals, 1, k)), nals[k + 1])
            = Worked(nals[1], nals[2], Append(SubSeq(nals, 1, k), nals[k + 1]))
      BY <2>4 DEF AddNal, Worked
    <3>. QED  BY <2>2, <2>3, <3>1
  <2>6. SubSeq(nals, 1, k + 1) = Append(SubSeq(nals, 1, k), nals[k + 1])
    <3>1. SubSeq(nals, 1, k + 1) = SubSeq(nals, 1, k) \o <<nals[k + 1]>>
      <4>1. 1 \in 1 .. Len(nals) /\ k + 1 \in 1 .. Len(nals)  BY <1>2, <2>1
      <4>. QED  BY <2>1, <4>1, SubSeqRecursiveSecond
    <3>2. SubSeq(nals, 1, k) \in Seq(NalUnits)  BY <1>3, <2>1, SubSeqProperties
    <3>. QED  BY <2>4, <3>1, <3>2, AppendIsConcat
  <2>. QED  BY <2>1, <2>5, <2>6
<1>10. Done(Len(nals))
  <2>. HIDE DEF Done
  <2>1. Len(nals) - 3 \in Nat /\ (Len(nals) - 3) + 3 = Len(nals)  BY <1>2
  <2>2. Nat \subseteq Fine
    <3>. HIDE DEF Fine
    <3>. QED  BY <1>8, <1>9, Induction
  <2>3. Len(nals) - 3 \in Fine  BY <2>1, <2>2
  <2>. QED  BY <2>1, <2>3
<1>11. SubSeq(nals, 1, Len(nals)) = nals  BY SubSeqFull
<1>. QED  BY <1>1, <1>10, <1>11 DEF Worked

\* "rest" is what the first m units leave: IsRest, one unit at a time.
RestTo(rest, place, nals, m) ==
  /\ rest \in Seq(NalUnits)
  /\ place \in [1 .. Len(rest) -> {i \in 1 .. m : nals[i].type \notin {"sps", "pps"}}]
  /\ \A k \in 1 .. Len(rest) : rest[k] = nals[place[k]]
  /\ \A k, l \in 1 .. Len(rest) : k < l => place[k] < place[l]
  /\ \A i \in 1 .. m : nals[i].type \in {"sps", "pps"} \/ \E k \in 1 .. Len(rest) : place[k] = i

LEMMA RestAppend ==
  ASSUME NEW nals \in Seq(NalUnits), NEW m \in Nat, m + 1 \in 1 .. Len(nals),
         nals[m + 1].type \notin {"sps", "pps"},
         NEW rest, NEW place, RestTo(rest, place, nals, m)
  PROVE  \E new : RestTo(Append(rest, nals[m + 1]), new, nals, m + 1)
<1>. DEFINE n   == Len(rest)
            all == Append(rest, nals[m + 1])
            new == [k \in 1 .. n + 1 |-> IF k = n + 1 THEN m + 1 ELSE place[k]]
<1>1. rest \in Seq(NalUnits) /\ nals[m + 1] \in NalUnits /\ n \in Nat  BY DEF RestTo
<1>2. all \in Seq(NalUnits) /\ Len(all) = n + 1 /\ (\A k \in 1 .. n : all[k] = rest[k])
      /\ all[n + 1] = nals[m + 1]
  BY <1>1, AppendProperties
<1>3. \A k \in 1 .. n : place[k] \in 1 .. m /\ nals[place[k]].type \notin {"sps", "pps"}  BY DEF RestTo
<1>4. \A k \in 1 .. n : k \in 1 .. n + 1 /\ k # n + 1  BY <1>1
<1>5. (\A k \in 1 .. n : new[k] = place[k]) /\ new[n + 1] = m + 1  BY <1>1, <1>4
<1>6. \A k \in 1 .. n + 1 : k \in 1 .. n \/ k = n + 1  BY <1>1
<1>. HIDE DEF all
<1>7. new \in [1 .. n + 1 -> {i \in 1 .. m + 1 : nals[i].type \notin {"sps", "pps"}}]
  BY <1>3, <1>6
<1>. HIDE DEF new, n
<1>8. \A k \in 1 .. n + 1 : all[k] = nals[new[k]]  BY <1>2, <1>5, <1>6 DEF RestTo, n
<1>9. \A k, l \in 1 .. n + 1 : k < l => new[k] < new[l]
  <2>. SUFFICES ASSUME NEW k \in 1 .. n + 1, NEW l \in 1 .. n + 1, k < l PROVE new[k] < new[l]
    OBVIOUS
  <2>1. k \in 1 .. n  BY <1>1
  <2>2. CASE l = n + 1  BY <1>3, <1>5, <2>1, <2>2
  <2>3. CASE l \in 1 .. n
    <3>1. place[k] < place[l]  BY <2>1, <2>3 DEF RestTo, n
    <3>. QED  BY <1>5, <2>1, <2>3, <3>1
  <2>. QED  BY <1>6, <2>2, <2>3
<1>10. \A i \in 1 .. m + 1 : nals[i].type \in {"sps", "pps"} \/ \E k \in 1 .. n + 1 : new[k] = i
  <2>. SUFFICES ASSUME NEW i \in 1 .. m + 1, nals[i].type \notin {"sps", "pps"}
                PROVE  \E k \in 1 .. n + 1 : new[k] = i
    OBVIOUS
  <2>1. CASE i = m + 1  BY <1>1, <1>5, <2>1
  <2>2. CASE i \in 1 .. m
    <3>1. PICK k \in 1 .. n : place[k] = i  BY <2>2 DEF RestTo, n
    <3>. QED  BY <1>4, <1>5, <3>1
  <2>. QED  BY <2>1, <2>2
<1>11. RestTo(all, new, nals, m + 1)
  <2>1. Len(all) = n + 1  BY <1>2
  <2>2. new \in [1 .. Len(all) -> {i \in 1 .. m + 1 : nals[i].type \notin {"sps", "pps"}}]
    BY <1>7, <2>1
  <2>3. \A k \in 1 .. Len(all) : all[k] = nals[new[k]]  BY <1>8, <2>1
  <2>4. \A k, l \in 1 .. Len(all) : k < l => new[k] < new[l]  BY <1>9, <2>1
  <2>5. \A i \in 1 .. m + 1 : nals[i].type \in {"sps", "pps"} \/ \E k \in 1 .. Len(all) : new[k] = i
    BY <1>10, <2>1
  <2>. QED  BY <1>2, <2>2, <2>3, <2>4, <2>5 DEF RestTo
<1>. QED  BY <1>11 DEF all

\* A frame without an IDR slice loses its parameter sets and nothing else.
LEMMA OtherFrameGoesWhole ==
  ASSUME NEW v, NEW nals \in Seq(NalUnits), ~HasIdr(nals)
  PROVE  ~AddVideoFrame(v, nals).cut /\ IsRest(AddVideoFrame(v, nals).nals, nals)
<1>1. PICK w : /\ w[0] = Worked(sets[v].sps, sets[v].pps, <<>>)
               /\ \A m \in 1 .. Len(nals) : w[m] = AddNal(w[m - 1], nals[m])
               /\ AddVideoFrame(v, nals) = w[Len(nals)]
  BY AddVideoFrameSteps DEF Worked
<1>2. Len(nals) \in Nat /\ DOMAIN nals = 1 .. Len(nals)  OBVIOUS
<1>3. \A m \in 1 .. Len(nals) : nals[m] \in NalUnits  OBVIOUS
<1>4. \A m \in 1 .. Len(nals) : nals[m].type \in {"sps", "pps", "slice", "sei"}
  BY <1>2, <1>3 DEF NalUnits, NalTypes, HasIdr
<1>. DEFINE Done(m) == \E sps, pps, rest, place :
                         w[m] = Worked(sps, pps, rest) /\ RestTo(rest, place, nals, m)
            Fine == {m \in Nat : m <= Len(nals) => Done(m)}
<1>5. 0 \in Fine
  <2>. DEFINE none == [k \in 1 .. 0 |-> 0]
  <2>1. <<>> \in Seq(NalUnits) /\ Len(<<>>) = 0 /\ \A k \in 1 .. 0 : FALSE  OBVIOUS
  <2>2. none \in [1 .. 0 -> {i \in 1 .. 0 : nals[i].type \notin {"sps", "pps"}}]  BY <2>1
  <2>3. RestTo(<<>>, none, nals, 0)
    <3>. HIDE DEF none
    <3>. QED  BY <2>1, <2>2 DEF RestTo
  <2>4. Done(0)
    <3>. HIDE DEF none
    <3>. QED  BY <1>1, <2>3
  <2>. QED  BY <2>4
<1>6. ASSUME NEW m \in Nat, m \in Fine PROVE m + 1 \in Fine
  <2>. SUFFICES ASSUME m + 1 <= Len(nals) PROVE Done(m + 1)
    OBVIOUS
  <2>1. m + 1 \in 1 .. Len(nals) /\ (m + 1) - 1 = m /\ m <= Len(nals)  BY <1>2
  <2>2. PICK sps, pps, rest, place : w[m] = Worked(sps, pps, rest) /\ RestTo(rest, place, nals, m)
    BY <1>6, <2>1
  <2>. DEFINE nal == nals[m + 1]
  <2>3. w[m + 1] = AddNal(Worked(sps, pps, rest), nal)  BY <1>1, <2>1, <2>2
  <2>4. nal.type \in {"sps", "pps", "slice", "sei"}  BY <1>4, <2>1
  <2>. HIDE DEF nal
  <2>5. CASE nal.type \in {"sps", "pps"}
    <3>1. \E a, b : w[m + 1] = Worked(a, b, rest)
      <4>1. nal.type = "sps" => w[m + 1] = Worked(nal, pps, rest)  BY <2>3 DEF AddNal, Worked
      <4>2. nal.type = "pps" => w[m + 1] = Worked(sps, nal, rest)  BY <2>3 DEF AddNal, Worked
      <4>. QED  BY <2>5, <4>1, <4>2
    <3>2. RestTo(rest, place, nals, m + 1)
      <4>1. \A i \in 1 .. m + 1 : i \in 1 .. m \/ i = m + 1  OBVIOUS
      <4>2. {i \in 1 .. m + 1 : nals[i].type \notin {"sps", "pps"}}
              = {i \in 1 .. m : nals[i].type \notin {"sps", "pps"}}
        BY <2>5, <4>1 DEF nal
      <4>. QED  BY <2>2, <2>5, <4>1, <4>2 DEF RestTo, nal
    <3>. QED  BY <3>1, <3>2
  <2>6. CASE nal.type \in {"slice", "sei"}
    <3>1. w[m + 1] = Worked(sps, pps, Append(rest, nal))  BY <2>3, <2>6 DEF AddNal, Worked
    <3>2. nal.type \notin {"sps", "pps"}  BY <2>6
    <3>3. \E new : RestTo(Append(rest, nal), new, nals, m + 1)
      BY <2>1, <2>2, <3>2, RestAppend DEF nal
    <3>. QED  BY <3>1, <3>3
  <2>. QED  BY <2>4, <2>5, <2>6
<1>7. Done(Len(nals))
  <2>1. Nat \subseteq Fine
    <3>. HIDE DEF Fine
    <3>. QED  BY <1>5, <1>6, Induction
  <2>. QED  BY <1>2, <2>1
<1>8. PICK sps, pps, rest, place :
        w[Len(nals)] = Worked(sps, pps, rest) /\ RestTo(rest, place, nals, Len(nals))
  BY <1>7
<1>9. AddVideoFrame(v, nals).nals = rest /\ AddVideoFrame(v, nals).cut = FALSE  BY <1>1, <1>8 DEF Worked
<1>10. IsRest(rest, nals)
  <2>1. DOMAIN rest = 1 .. Len(rest)  BY <1>8 DEF RestTo
  <2>. HIDE DEF Done, Fine
  <2>2. RestTo(rest, place, nals, Len(nals))  BY <1>8
  <2>3. place \in [DOMAIN rest -> {i \in DOMAIN nals : nals[i].type \notin {"sps", "pps"}}]
    BY <1>2, <2>1, <2>2 DEF RestTo
  <2>4. \A k \in DOMAIN rest : rest[k] = nals[place[k]]  BY <2>1, <2>2 DEF RestTo
  <2>5. \A k, l \in DOMAIN rest : k < l => place[k] < place[l]  BY <2>1, <2>2 DEF RestTo
  <2>6. \A i \in DOMAIN nals : nals[i].type \in {"sps", "pps"} \/ \E k \in DOMAIN rest : place[k] = i
    BY <1>2, <2>1, <2>2 DEF RestTo
  <2>. QED  BY <2>3, <2>4, <2>5, <2>6 DEF IsRest
<1>. QED  BY <1>9, <1>10

-----------------------------------------------------------------------------
\* The frame the worker is about to deliver.
LEMMA FrameToDeliver ==
  ASSUME RelayInv, FrameTask
  PROVE  /\ Head(work).nals \in Seq(NalUnits)
         /\ ~Head(work).spoilt => AsPublished(Head(work).nals)
<1>1. work \in Seq(WorkTasks) /\ QueuedAsPublished  BY DEF RelayInv, RelayTypeOK
<1>2. work # <<>> /\ Head(work).kind = "frame"  BY DEF FrameTask
<1>3. Head(work) \in WorkTasks /\ Head(work) = work[1] /\ 1 \in 1 .. Len(work)
  <2>1. Len(work) \in Nat /\ Len(work) # 0  BY <1>1, <1>2, EmptySeq
  <2>. QED  BY <1>1, <1>2, <2>1, HeadTailProperties
<1>4. Head(work).nals \in Seq(NalUnits)
  <2>1. Head(work) \notin [kind : {"consumer", "producer"}]  BY <1>2
  <2>. QED  BY <1>3, <2>1 DEF WorkTasks
<1>5. ~Head(work).spoilt => AsPublished(Head(work).nals)
  BY <1>1, <1>2, <1>3 DEF QueuedAsPublished
<1>. QED  BY <1>4, <1>5

\* A frame no packet of which was lost or overtaken is gathered as it was
\* published, and a viewer gets an IDR slice behind the parameter sets it was
\* published with, and any other frame without its parameter sets, whatever
\* parameter sets the viewer has kept (OnSrtpRtp, AddVideoFrame).
THEOREM FramesAreWhole == RelaySpec => FramesGoWhole
<1>. DEFINE Whole(v) ==
       LET task == Head(work)
           w    == Got(v, task)
       IN FrameTask /\ ~task.spoilt /\ Sends(v, w) =>
            /\ AsPublished(task.nals)
            /\ BeginsWithSets(task.nals) => ~w.cut /\ w.nals = task.nals
            /\ ~HasIdr(task.nals) => ~w.cut /\ IsRest(w.nals, task.nals)
<1>1. ASSUME RelayInv, NEW v \in Viewers PROVE Whole(v)
  <2>. SUFFICES ASSUME FrameTask, ~Head(work).spoilt
                PROVE  LET w == Got(v, Head(work))
                       IN /\ AsPublished(Head(work).nals)
                          /\ BeginsWithSets(Head(work).nals) => ~w.cut /\ w.nals = Head(work).nals
                          /\ ~HasIdr(Head(work).nals) => ~w.cut /\ IsRest(w.nals, Head(work).nals)
    OBVIOUS
  <2>1. Head(work).nals \in Seq(NalUnits) /\ AsPublished(Head(work).nals)
    BY <1>1, FrameToDeliver
  <2>2. Got(v, Head(work)) = AddVideoFrame(v, Head(work).nals)  BY DEF Got
  <2>. QED  BY <2>1, <2>2, KeyFrameGoesWhole, OtherFrameGoesWhole
<1>2. RelayInv => [\A v \in Viewers : Whole(v)]_relayVars  BY <1>1
<1>3. RelaySpec => [][\A v \in Viewers : Whole(v)]_relayVars
  <2>. HIDE DEF Whole
  <2>. QED  BY <1>2, RelayStarts, RelayKeeps, PTL DEF RelaySpec
<1>. QED  BY <1>3 DEF FramesGoWhole

=============================================================================
