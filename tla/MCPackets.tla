------------------------------ MODULE MCPackets ------------------------------
(***************************************************************************)
(* Instances for TLC of the three paths that packets take: NackGenerator,  *)
(* RtxCache and Gb28181Framing.  They belong to different objects and      *)
(* share no variable, so that it is enough to let one run while the others *)
(* rest.                                                                   *)
(***************************************************************************)
EXTENDS NackGenerator, RtxCache, Gb28181Framing

\* A stream with small bytes, an empty packet and payloads that look like lengths.
MCStart == [k \in 0 .. 4 |-> <<0, 3, 5, 12, 20>>[k + 1]]
MCByte  == [i \in 0 .. 20 |-> <<0, 1, 2,  0, 0,  1, 1, 0, 0, 3, 3, 2,  1, 2, 0, 1, 3, 0, 2, 0,  0>>[i + 1]]

MCInit == NackInit /\ RtxInit /\ FrameInit

NackRests  == clock = 1 /\ dtls = "new" /\ tasks = <<>> /\ UNCHANGED nackVars
RtxRests   == video_seq = FirstSeq /\ UNCHANGED rtxVars
FrameRests == received = Start[0] /\ reconnects = 0 /\ UNCHANGED frameVars

MCNext ==
  \/ NackNext /\ RtxRests /\ FrameRests
  \/ RtxNext /\ NackRests /\ FrameRests
  \/ FrameNext /\ NackRests /\ RtxRests

MCSpec == MCInit /\ [][MCNext]_<<nackVars, rtxVars, frameVars>>

=============================================================================
