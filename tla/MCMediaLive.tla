---------------------------- MODULE MCMediaLive ----------------------------
(***************************************************************************)
(* Instances for TLC of the two parts of the media service that have to    *)
(* get somewhere: MediaSession evicts the peers that fall silent, and      *)
(* VideoRelay brings its viewers a picture.  They share no variable, and   *)
(* no fair action is enabled in the initial state of either, so that it is *)
(* enough to let one run while the other rests in it.                      *)
(***************************************************************************)
EXTENDS MediaSession, VideoRelay

MCKeyForms   == {<<"sps", "pps", "idr">>}
MCOtherForms == {<<"pps", "slice">>, <<"sei", "idr">>}

SessionsRest == created = 0 /\ UNCHANGED vars
RelayRests   == publisher = "none" /\ work = <<>> /\ (\A v \in Viewers : viewer[v] = "none") /\ UNCHANGED relayVars

MCNext ==
  \/ RelayRests /\ Next
  \/ SessionsRest /\ RelayNext

MCSpec ==
  /\ Init /\ RelayInit
  /\ [][MCNext]_<<vars, relayVars>>
  /\ Fairness /\ RelayFairness

=============================================================================
