----------------------------- MODULE VideoRelay -----------------------------
(***************************************************************************)
(* The way of a video frame through GBServer, from the RTC publisher of a  *)
(* session to its RTC viewers, and of a key frame request back.            *)
(*                                                                         *)
(* RtcProducer::OnSrtpRtp (network thread) gathers packets until one has   *)
(* the marker and posts the frame; the worker hands it to every consumer,  *)
(* which sorts out parameter sets (Consumer::AddVideoFrame) and sends it   *)
(* once its DTLS is done (RtcConsumer::OnVideoFrame).  A viewer that has   *)
(* connected, or sends PLI or FIR, has a key frame requested through two   *)
(* tasks of the worker (RequestKeyFrame, ConsumerRequestKeyFrame); the     *)
(* producer passes on one request in RequestKeyFrameMs.                    *)
(*                                                                         *)
(* Packets and requests go by UDP, and some are lost or late.  A NAL unit  *)
(* is a packet.  Nothing but OnSrtpRtp looks at the packets gathered so    *)
(* far, so that the packets of a frame come in one step.  Joining and      *)
(* leaving, which MediaSession models, are one step here.                  *)
(***************************************************************************)
EXTENDS Integers, Sequences, SequencesExt

CONSTANTS
  Viewers,
  KeyForms,     \* key frames a publisher sends when it is asked: sequences of types of NAL units
  OtherForms,   \* frames it sends of its own accord
  Versions,     \* its parameter sets, in the order it uses them
  NoSet,        \* no parameter set
  MaxWork,     \* bound: tasks of the worker
  MaxFaults     \* bound: packets and requests lost or late

NalTypes == {"sps", "pps", "idr", "slice", "sei"}
NalUnits == [type : NalTypes, set : Versions]

ASSUME RelayAssumption ==
  /\ KeyForms # {} /\ KeyForms \cup OtherForms \subseteq Seq(NalTypes) \ {<<>>}
  /\ Versions \subseteq Nat /\ Versions # {} /\ NoSet \notin NalUnits
  /\ {MaxWork, MaxFaults} \subseteq Nat

VARIABLES
  publisher,  \* "none", "attached" to the session, or its DTLS is "done"
  version,    \* its parameter sets
  asked,      \* a PLI has reached it that it has not answered; an encoder begins with a key frame
  pli,        \* a PLI is on its way to it
  recent,     \* request_key_frame_ is less than RequestKeyFrameMs ago
  gathered,   \* nal_parse_->buffer_stream_: units that wait for a packet with the marker
  torn,       \* a marker was lost, or a packet came after it
  work,       \* tasks of the worker
  viewer,     \* of each viewer: "none", "new" (a consumer), "done" (its DTLS), "closed"
  sets,       \* of each viewer: sps_ and pps_
  picture,    \* the viewer decodes: a key frame has come, and nothing spoilt since
  faults

publisherVars == <<publisher, version, asked>>
inputVars == <<gathered, torn>>
viewerVars == <<viewer, sets, picture>>
relayVars == <<publisherVars, pli, recent, inputVars, work, viewerVars, faults>>

Nals(form, v) == [i \in DOMAIN form |-> [type |-> form[i], set |-> v]]

NoSets == [sps |-> NoSet, pps |-> NoSet]

RelayInit ==
  /\ publisher = "none" /\ version \in Versions /\ (\A v \in Versions : version \leq v)
  /\ asked = TRUE /\ pli = FALSE /\ recent = FALSE
  /\ gathered = <<>> /\ torn = FALSE /\ work = <<>>
  /\ viewer = [v \in Viewers |-> "none"]
  /\ sets = [v \in Viewers |-> NoSets]
  /\ picture = [v \in Viewers |-> FALSE]
  /\ faults = 0

PostWork(task) == Len(work) < MaxWork /\ work' = Append(work, task)

-----------------------------------------------------------------------------
(* The publisher and the network                                           *)

Attach ==
  /\ publisher = "none" /\ publisher' = "attached"
  /\ UNCHANGED <<version, asked, pli, recent, inputVars, work, viewerVars, faults>>

PublisherConnected ==
  /\ publisher = "attached" /\ publisher' = "done"
  /\ UNCHANGED <<version, asked, pli, recent, inputVars, work, viewerVars, faults>>

PliArrives ==
  /\ pli /\ pli' = FALSE /\ asked' = TRUE
  /\ UNCHANGED <<publisher, version, recent, inputVars, work, viewerVars, faults>>

Fault == faults < MaxFaults /\ faults' = faults + 1

LosePli ==
  /\ pli /\ Fault /\ pli' = FALSE
  /\ UNCHANGED <<publisherVars, recent, inputVars, work, viewerVars>>

-----------------------------------------------------------------------------
(* The server: network thread                                              *)

\* slip: the buffer is not emptied.
Emptied_Not(nals) == nals

Emptied(nals) == <<>>

FrameTaskOf(nals, spoilt) == [kind |-> "frame", nals |-> nals, spoilt |-> spoilt]

\* RtcProducer::OnSrtpRtp with the packets "nals" and then the marker.
Complete(nals, spoilt) ==
  /\ PostWork(FrameTaskOf(gathered \o nals, torn \/ spoilt))
  /\ gathered' = Emptied(gathered \o nals)

ArrivesWhole(nals) ==
  /\ Complete(nals, FALSE) /\ torn' = FALSE
  /\ UNCHANGED faults

\* One packet is lost, ...
ArrivesInPart(nals, i) ==
  /\ Fault /\ i < Len(nals)
  /\ Complete(RemoveAt(nals, i), TRUE) /\ torn' = FALSE

\* ... or comes after the marker ...
ArrivesLate(nals, i) ==
  /\ Fault /\ i < Len(nals)
  /\ PostWork(FrameTaskOf(gathered \o RemoveAt(nals, i), TRUE))
  /\ gathered' = Append(Emptied(gathered \o RemoveAt(nals, i)), nals[i])
  /\ torn' = TRUE

\* ... or is the one with the marker, and the frame runs into the next.
LosesMarker(nals) ==
  /\ Fault
  /\ gathered' = gathered \o Front(nals) /\ torn' = TRUE
  /\ UNCHANGED work

OnSrtpRtp(nals) ==
  /\ publisher = "done"
  /\ \/ ArrivesWhole(nals)
     \/ \E i \in DOMAIN nals : ArrivesInPart(nals, i) \/ ArrivesLate(nals, i)
     \/ LosesMarker(nals)
  /\ UNCHANGED <<publisher, pli, recent, viewerVars>>

\* An encoder sends a key frame when it is asked to; only a key frame changes
\* the parameter sets.
KeyFrameArrives ==
  \E form \in KeyForms, v \in {x \in Versions : x \geq version} :
    OnSrtpRtp(Nals(form, v)) /\ version' = v /\ asked' = FALSE

OtherFrameArrives ==
  \E form \in OtherForms :
    ~asked /\ OnSrtpRtp(Nals(form, version)) /\ UNCHANGED <<version, asked>>

\* RtcConsumer::RequestKeyFrame posts the first of two tasks.
AskForKeyFrame == PostWork([kind |-> "consumer"])

\* RtcConsumer::OnDtlsConnected.
ViewerConnected(v) ==
  /\ viewer[v] = "new" /\ viewer' = [viewer EXCEPT ![v] = "done"]
  /\ AskForKeyFrame
  /\ UNCHANGED <<publisherVars, pli, recent, inputVars, sets, picture, faults>>

\* The viewer sends PLI or FIR: RtcConsumer::OnSrtpRtcp.
OnSrtpRtcp(v) ==
  /\ viewer[v] = "done"
  /\ AskForKeyFrame
  /\ UNCHANGED <<publisherVars, pli, recent, inputVars, viewerVars, faults>>

Leave(v) ==
  /\ viewer[v] \in {"new", "done"} /\ viewer' = [viewer EXCEPT ![v] = "closed"]
  /\ sets' = [sets EXCEPT ![v] = NoSets] /\ picture' = [picture EXCEPT ![v] = FALSE]
  /\ UNCHANGED <<publisherVars, pli, recent, inputVars, work, faults>>

-----------------------------------------------------------------------------
(* The server: worker thread                                               *)

Join(v) ==
  /\ viewer[v] = "none" /\ viewer' = [viewer EXCEPT ![v] = "new"]
  /\ UNCHANGED <<publisherVars, pli, recent, inputVars, work, sets, picture, faults>>

IfAny(set) == IF set = NoSet THEN <<>> ELSE <<set>>

\* An IDR slice is put behind the parameter sets, and the buffer is set to the
\* size of the three: what stood before them pushes the end of the slice out.
\* "w" is what AddVideoFrame has worked out so far.
AddIdr(w, nal) ==
  [w EXCEPT !.nals = @ \o IfAny(w.sps) \o IfAny(w.pps) \o <<nal>>,
            !.cut = @ \/ w.nals # <<>>]

\* slip: only the first parameter set is kept.
AddNal_FirstSet(w, nal) ==
  CASE nal.type = "sps" -> IF w.sps = NoSet THEN [w EXCEPT !.sps = nal] ELSE w
    [] nal.type = "pps" -> [w EXCEPT !.pps = nal]
    [] nal.type = "idr" -> AddIdr(w, nal)
    [] OTHER -> [w EXCEPT !.nals = Append(@, nal)]

AddNal(w, nal) ==
  CASE nal.type = "sps" -> [w EXCEPT !.sps = nal]
    [] nal.type = "pps" -> [w EXCEPT !.pps = nal]
    [] nal.type = "idr" -> AddIdr(w, nal)
    [] OTHER -> [w EXCEPT !.nals = Append(@, nal)]

AddVideoFrame(v, nals) ==
  FoldLeft(AddNal, [sps |-> sets[v].sps, pps |-> sets[v].pps, nals |-> <<>>, cut |-> FALSE], nals)

Types(nals) == [i \in DOMAIN nals |-> nals[i].type]

\* What a viewer can start to decode with.
Decodable(nals) ==
  /\ Types(nals) = <<"sps", "pps", "idr">>
  /\ \A i, j \in DOMAIN nals : nals[i].set = nals[j].set

\* OnVideoFrame sends nothing before DTLS is done, and no empty frame.
Sends(v, w) == viewer[v] = "done" /\ w.nals # <<>>

\* What a viewer gets of a frame.
Got(v, task) == AddVideoFrame(v, task.nals)

DeliverFrame(task) ==
  LET seen == {v \in Viewers : viewer[v] \in {"new", "done"}}
  IN /\ sets' = [v \in Viewers |->
                   IF v \in seen THEN [sps |-> Got(v, task).sps, pps |-> Got(v, task).pps] ELSE sets[v]]
     /\ picture' = [v \in Viewers |->
                      IF v \in seen /\ Sends(v, Got(v, task))
                      THEN ~task.spoilt /\ ~Got(v, task).cut /\ (picture[v] \/ Decodable(Got(v, task).nals))
                      ELSE picture[v]]

FrameTask ==
  /\ work # <<>> /\ Head(work).kind = "frame"
  /\ work' = Tail(work)
  /\ DeliverFrame(Head(work))
  /\ UNCHANGED <<publisherVars, pli, recent, inputVars, viewer, faults>>

\* RtcConsumer::RequestKeyFrame's task: Session::ConsumerRequestKeyFrame posts
\* another if the session has a producer.
ConsumerRequestKeyFrame ==
  /\ work # <<>> /\ Head(work).kind = "consumer"
  /\ work' = IF publisher = "none" THEN Tail(work) ELSE Append(Tail(work), [kind |-> "producer"])
  /\ UNCHANGED <<publisherVars, pli, recent, inputVars, viewerVars, faults>>

\* slip: the comparison with RequestKeyFrameMs is turned round.
TooSoon_Turned == ~recent

TooSoon == recent

\* RtcProducer::RequestKeyFrame: one request in RequestKeyFrameMs; the time is
\* noted although nothing is sent before DTLS is done.
RequestKeyFrame ==
  /\ work # <<>> /\ Head(work).kind = "producer"
  /\ work' = Tail(work)
  /\ IF TooSoon THEN UNCHANGED <<recent, pli>>
                ELSE recent' = TRUE /\ pli' = (pli \/ publisher = "done")
  /\ UNCHANGED <<publisherVars, inputVars, viewerVars, faults>>

IntervalPasses ==
  /\ recent /\ recent' = FALSE
  /\ UNCHANGED <<publisherVars, pli, inputVars, work, viewerVars, faults>>

-----------------------------------------------------------------------------
Worker == FrameTask \/ ConsumerRequestKeyFrame \/ RequestKeyFrame

RelayNext ==
  \/ Attach \/ PublisherConnected \/ PliArrives \/ LosePli
  \/ KeyFrameArrives \/ OtherFrameArrives
  \/ \E v \in Viewers : Join(v) \/ ViewerConnected(v) \/ OnSrtpRtcp(v) \/ Leave(v)
  \/ Worker
  \/ IntervalPasses

\* The threads run, time passes, the network delivers what it does not lose, the
\* publisher answers a PLI, and a viewer without a picture repeats its own.
RelayFairness ==
  /\ WF_relayVars(Worker) /\ WF_relayVars(IntervalPasses) /\ WF_relayVars(PliArrives)
  /\ SF_relayVars(asked /\ KeyFrameArrives)
  /\ \A v \in Viewers : SF_relayVars(~picture[v] /\ OnSrtpRtcp(v))

RelaySpec == RelayInit /\ [][RelayNext]_relayVars /\ RelayFairness

-----------------------------------------------------------------------------
(* Properties                                                              *)

WorkTasks ==
  [kind : {"consumer", "producer"}]
    \cup [kind : {"frame"}, nals : Seq(NalUnits) \ {<<>>}, spoilt : BOOLEAN]

\* Every variable has its type.
RelayTypeOK ==
  /\ publisher \in {"none", "attached", "done"} /\ version \in Versions
  /\ {asked, pli, recent, torn} \subseteq BOOLEAN /\ faults \in 0 .. MaxFaults
  /\ gathered \in Seq(NalUnits) /\ (gathered # <<>> => torn)
  /\ work \in Seq(WorkTasks)
  /\ viewer \in [Viewers -> {"none", "new", "done", "closed"}]
  /\ picture \in [Viewers -> BOOLEAN]

\* The frame has the units the publisher sent, in their order.
AsPublished(nals) ==
  \E form \in KeyForms \cup OtherForms, set \in Versions : nals = Nals(form, set)

\* Parameter sets and an IDR slice come first, and no other of these behind.
BeginsWithSets(nals) ==
  /\ Len(nals) >= 3
  /\ nals[1].type = "sps" /\ nals[2].type = "pps" /\ nals[3].type = "idr"
  /\ \A i \in 4 .. Len(nals) : nals[i].type \in {"slice", "sei"}

HasIdr(nals) == \E i \in DOMAIN nals : nals[i].type = "idr"

\* "rest" is "nals" without the parameter sets: place[k] is where its k-th unit was.
IsRest(rest, nals) ==
  \E place \in [DOMAIN rest -> {i \in DOMAIN nals : nals[i].type \notin {"sps", "pps"}}] :
    /\ \A k \in DOMAIN rest : rest[k] = nals[place[k]]
    /\ \A k, l \in DOMAIN rest : k < l => place[k] < place[l]
    /\ \A i \in DOMAIN nals : nals[i].type \in {"sps", "pps"} \/ \E k \in DOMAIN rest : place[k] = i

\* A frame no packet of which was lost or overtaken is gathered as it was
\* published, whatever the frames before it suffered, and a viewer gets it whole:
\* an IDR slice behind the parameter sets it was published with, and any other
\* frame without its parameter sets (OnSrtpRtp, AddVideoFrame, OnVideoFrame).
\* Of an IDR frame with other units before the slice, or two such slices, the end is lost.
FramesGoWhole ==
  [][\A v \in Viewers :
       LET task == Head(work)
           w    == Got(v, task)
       IN FrameTask /\ ~task.spoilt /\ Sends(v, w) =>
            /\ AsPublished(task.nals)
            /\ BeginsWithSets(task.nals) => ~w.cut /\ w.nals = task.nals
            /\ ~HasIdr(task.nals) => ~w.cut /\ IsRest(w.nals, task.nals)]_relayVars

\* A viewer that is connected to a session whose publisher is connected sees a
\* picture in the end or leaves, although requests are dropped within
\* RequestKeyFrameMs of the last, asked too early, or lost, and frames are spoilt.
PictureComes ==
  \A v \in Viewers :
    (viewer[v] = "done" /\ publisher = "done") ~> (picture[v] \/ viewer[v] = "closed")

=============================================================================
