-------------------------------- MODULE MCHub --------------------------------
(* Hub instantiated for TLC: two broadcasters (bus handlers running        *)
(* concurrently), two subscriptions, two broadcasts each, buffer 1 (as in  *)
(* hub_test and gamify_test), so that full buffers drop events.            *)
EXTENDS Hub, TLC

CONSTANTS b1, b2

MCBroadcasters == {b1, b2}
BroadcasterSymmetry == Permutations(MCBroadcasters)
=============================================================================
