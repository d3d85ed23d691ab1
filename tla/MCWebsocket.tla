---------------------------- MODULE MCWebsocket -----------------------------
(***************************************************************************)
(* Instances of Websocket for TLC.  Volumes are counted in steps: 2 is     *)
(* -150 dB, 3 the -100 dB of a mute, 5 is 0 dB and 7 is +50 dB.  A client  *)
(* asks for volumes beyond both ends of this range, and the limits it      *)
(* comes with for AdjustVolume reach beyond both of them too.              *)
(***************************************************************************)
EXTENDS Websocket, TLC

CONSTANTS k1, k2, p1, p2, bad, f1, f2

MCConfig       == k1 :> p1 @@ k2 :> p1
MCChanges      == {<<TRUE, 1>>, <<FALSE, 2>>}
MCAdjustLimits == {<<1, 8>>}
=============================================================================
