---------------------------- MODULE MCBroadcast ----------------------------
(* The calls on which TLC runs Broadcast.                                  *)
EXTENDS Broadcast

TwoEpochs == <<"broadcast", "broadcast", "check", "broadcast", "check">>
=============================================================================
