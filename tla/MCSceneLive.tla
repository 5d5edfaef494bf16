---------------------------- MODULE MCSceneLive -----------------------------
(* The live view for TLC: either the feed that brings its scene, or the      *)
(* frames that draw it; the other stays at its initial state, where nothing  *)
(* of it is due.                                                             *)
EXTENDS SceneFeed

CONSTANTS Fades, Culled, Lines, Labels, Pins, MaxTurns

VARIABLES draws, window, layer, camera, turned

frameVars == <<window, layer, camera, turned>>

F == INSTANCE Frames WITH hist <- turned

ASSUME LiveAssumption == F!FramesAssumption

LiveInit == draws \in BOOLEAN /\ Init /\ F!Init
LiveNext ==
    /\ UNCHANGED draws
    /\ \/ ~draws /\ Next /\ UNCHANGED frameVars
       \/ draws /\ F!Next /\ UNCHANGED vars
       \/ draws /\ UNCHANGED <<vars, frameVars>>    \* a hidden window rests

LiveSpec == LiveInit /\ [][LiveNext]_<<draws, vars, frameVars>> /\ Fairness /\ F!Fairness

LiveTypeOK == TypeOK /\ F!TypeOK

\* What is drawn follows its last cause: the camera its last intent, a pin the
\* last data (see Frames).
FollowsLast == F!CameraObeys /\ F!PinsPresent

\* Fades, lines, labels, pins and glides come to rest where they should.
FramesSettle == F!Settles
=============================================================================
