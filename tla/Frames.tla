------------------------------- MODULE Frames --------------------------------
(***************************************************************************)
(* How the 3D view follows its toggles and its data over time: fades and   *)
(* glides advance in animation frames, labels and pins leave by timers     *)
(* (terrain/fade.tsx, animated-line.tsx, markers.tsx, terrain-surface.tsx, *)
(* terrain-camera.tsx).  RenderGate stops the frames of a window that is   *)
(* not looked at, but for those that somebody asks for.                    *)
(*                                                                         *)
(* A level is 0 for hidden, 2 for fully shown, and away is how far a shape *)
(* is from where its data put it.                                          *)
(***************************************************************************)
EXTENDS Naturals

CONSTANTS
    Fades, Culled, Lines,   \* Fade, Fade with cull or a grid line, AnimatedLine or -Marker
    Labels, Pins,           \* FadeHtml, usePresence
    MaxTurns                \* bound: toggles, and turns of the user to the camera or away

\* A pin is nothing else.
FramesAssumption ==
    MaxTurns \in Nat /\ Pins \cap (Fades \cup Culled \cup Lines \cup Labels) = {}

Layers == Fades \cup Culled \cup Lines \cup Labels \cup Pins
Eased == Fades \cup Culled \cup Lines
Intents == {"first", "preset", "point"}

VARIABLES
    window,     \* whether it has the focus, is only visible, or is not; and whether a frame is asked for
    layer,      \* what each layer should be, and where it is
    camera,     \* the glide under way, where it looks, whose hand is on it, how long it is idle
    hist        \* history: turns, layers hidden before their first frame, and the last intent

vars == <<window, layer, camera, hist>>

TypeOK ==
    /\ window \in [is : {"focus", "visible", "hidden"}, asked : BOOLEAN]
    /\ layer \in [Layers -> [want : BOOLEAN, mounted : BOOLEAN, level : 0 .. 2, away : 0 .. 2,
                           effect : BOOLEAN, timer : BOOLEAN]]
    /\ camera \in [goal : Intents \cup {"none"}, far : BOOLEAN, at : Intents \cup {"none", "user"}, held : BOOLEAN,
                  idle : 0 .. 2]
    /\ hist \in [turns : 0 .. MaxTurns, blinked : SUBSET Fades, intent : Intents \cup {"none", "user"}]

Hidden == [want |-> FALSE, mounted |-> FALSE, level |-> 0, away |-> 0, effect |-> FALSE, timer |-> FALSE]
Init ==
    /\ window = [is |-> "focus", asked |-> FALSE]
    /\ layer = [x \in Layers |-> [Hidden EXCEPT !.mounted = x \in Culled \cup Lines]]
    /\ camera = [goal |-> "none", far |-> FALSE, at |-> "none", held |-> FALSE, idle |-> 0]
    /\ hist = [turns |-> 0, blinked |-> {}, intent |-> "none"]

Turns == hist.turns < MaxTurns
Target(x) == IF layer[x].want THEN 2 ELSE 0

-----------------------------------------------------------------------------
\* A toggle, or data that come and go.  A fade mounts its subtree at once, at
\* the level it has; a line asks for a frame; labels and pins leave it to an
\* effect that runs later, before the next render.
Toggle(x) ==
    /\ Turns /\ ~layer[x].effect
    /\ LET on == ~layer[x].want
       IN  /\ layer' = [layer EXCEPT ![x].want = on, ![x].mounted = @ \/ (on /\ x \in Fades \cup Labels),
                                     ![x].effect = x \in Labels \cup Pins]
           /\ window' = [window EXCEPT !.asked = @ \/ x \in Lines \/ (on /\ ~layer[x].mounted /\ x \in Fades)]
           /\ hist' = [hist EXCEPT !.turns = @ + 1,
                                   !.blinked = IF x \in Fades /\ ~on /\ layer[x].mounted /\ layer[x].level = 0
                                               THEN @ \cup {x} ELSE @ \ {x}]
    /\ UNCHANGED camera

\* New data put a shape elsewhere: it glides there.  A line asks for a frame.
Moved(x) ==
    /\ Turns /\ x \in Lines \cup Pins
    /\ layer' = [layer EXCEPT ![x].away = 2]
    /\ window' = [window EXCEPT !.asked = @ \/ x \in Lines]
    /\ hist' = [hist EXCEPT !.turns = @ + 1]
    /\ UNCHANGED camera

\* The label's effect first takes its last timer back; the pins' takes back the
\* timer of a pin that returns, and gives one to a pin that goes.
EffectKeeps(x) ==    \* mutant of Effect: a returning pin keeps its timer
    /\ layer[x].effect
    /\ layer' = [layer EXCEPT ![x] =
           [@ EXCEPT !.effect = FALSE,
                     !.timer = ~layer[x].want \/ (x \in Pins /\ @),
                     !.mounted = @ \/ layer[x].want,
                     !.level = IF layer[x].want /\ x \in Pins THEN 2 ELSE @]]
    /\ UNCHANGED <<window, camera, hist>>
Effect(x) ==
    LET r == layer[x]
        stays == x \in Pins /\ ~r.want /\ r.mounted
    IN  /\ r.effect
        /\ layer' = [layer EXCEPT ![x] =
               [r EXCEPT !.effect = FALSE,
                         !.timer = IF x \in Labels THEN ~r.want ELSE stays,
                         !.mounted = r.mounted \/ r.want,
                         !.level = IF x \in Labels THEN r.level ELSE IF r.want THEN 2 ELSE IF stays THEN 1 ELSE 0]]
        /\ UNCHANGED <<window, camera, hist>>

\* A pin is dropped; a label is unmounted, unless its render has seen that it
\* is wanted again.
Timer(x) ==
    /\ layer[x].timer
    /\ layer' = [layer EXCEPT ![x].timer = FALSE, ![x].mounted = x \in Labels /\ layer[x].want,
                              ![x].level = IF x \in Pins THEN 0 ELSE @]
    /\ UNCHANGED <<window, camera, hist>>

-----------------------------------------------------------------------------
\* RenderGate: "always" with the focus, else "demand"; the browser calls no
\* frame of a hidden window.
Turn(is) ==
    /\ Turns /\ is # window.is
    /\ window' = [is |-> is, asked |-> window.asked \/ is = "focus"]
    /\ hist' = [hist EXCEPT !.turns = @ + 1]
    /\ UNCHANGED <<layer, camera>>

Near(level, target) == IF level < target THEN level + 1 ELSE IF level > target THEN level - 1 ELSE level

\* A frame advances what is mounted; a fade that has gone unmounts.
Advanced(x) ==
    LET level == IF x \in Eased /\ layer[x].mounted THEN Near(layer[x].level, Target(x)) ELSE layer[x].level
    IN  [layer[x] EXCEPT !.level = level, !.away = Near(@, 0),
                         !.mounted = @ /\ ~(x \in Fades /\ level = 0 /\ layer[x].level > 0)]
Fading(x) == layer[x].level # Target(x)

\* CameraRig: the first framing snaps, others glide; left alone for a while, it
\* orbits.
Glide ==
    IF camera.goal = "none"
    THEN [camera EXCEPT !.idle = IF camera.held \/ camera.at = "none" THEN @ ELSE Near(@, 2)]
    ELSE IF camera.at = "none" \/ ~camera.far
         THEN [camera EXCEPT !.at = camera.goal, !.goal = "none", !.far = FALSE]
         ELSE [camera EXCEPT !.far = FALSE]

\* A line whose level is still on its way asks for another frame.
FrameQuiet ==    \* mutant of Frame: a line leaves the next frame to others
    /\ window.is = "focus" \/ (window.is = "visible" /\ window.asked)
    /\ layer' = [x \in Layers |-> Advanced(x)]
    /\ camera' = Glide
    /\ window' = [window EXCEPT !.asked = FALSE]
    /\ UNCHANGED hist
Frame ==
    /\ window.is = "focus" \/ (window.is = "visible" /\ window.asked)
    /\ layer' = [x \in Layers |-> Advanced(x)]
    /\ camera' = Glide
    /\ window' = [window EXCEPT !.asked = \E x \in Lines : Fading(x)]
    /\ UNCHANGED hist

-----------------------------------------------------------------------------
\* The bounds of the scene, with its first data and with every live update:
\* only the first framing follows them.
Bounds ==
    /\ hist.intent = "none"
    /\ camera' = [camera EXCEPT !.goal = "first", !.idle = 0]
    /\ hist' = [hist EXCEPT !.intent = "first"]
    /\ UNCHANGED <<window, layer>>

\* A preset, the reset, or the table's locate.
Aim(intent) ==
    /\ Turns /\ hist.intent # "none"
    /\ camera' = [camera EXCEPT !.goal = intent, !.far = TRUE, !.idle = 0]
    /\ hist' = [hist EXCEPT !.turns = @ + 1, !.intent = intent]
    /\ UNCHANGED <<window, layer>>

\* The user takes the camera, which ends a glide, and lets go of it.
Grab ==
    /\ Turns /\ ~camera.held /\ camera.at # "none"
    /\ camera' = [camera EXCEPT !.goal = "none", !.far = FALSE, !.at = "user", !.held = TRUE, !.idle = 0]
    /\ hist' = [hist EXCEPT !.turns = @ + 1, !.intent = "user"]
    /\ UNCHANGED <<window, layer>>

Release ==
    /\ camera.held
    /\ camera' = [camera EXCEPT !.held = FALSE, !.idle = 0]
    /\ UNCHANGED <<window, layer, hist>>

Next ==
    \/ \E x \in Layers : Toggle(x) \/ Moved(x) \/ Effect(x) \/ Timer(x)
    \/ \E is \in {"focus", "visible", "hidden"} : Turn(is)
    \/ Frame \/ Bounds
    \/ \E intent \in {"preset", "point"} : Aim(intent)
    \/ Grab \/ Release
Spec == Init /\ [][Next]_vars

\* The browser draws a visible window's frames, React runs effects, and timers
\* fire.
Fairness ==
    /\ WF_vars(Frame)
    /\ \A x \in Layers : WF_vars(Effect(x)) /\ WF_vars(Timer(x))
FairSpec == Spec /\ Fairness

-----------------------------------------------------------------------------
\* The camera is where it was last sent or taken, or on its way there: it holds
\* steady while data stream in; and it does not orbit in a hand or on a glide.
CameraObeys ==
    /\ hist.intent = IF camera.goal = "none" THEN camera.at ELSE camera.goal
    /\ camera.held \/ camera.goal # "none" => camera.idle = 0

\* Once its effect has run, a pin is there exactly if it is wanted or has a
\* timer that takes it away; a timer never takes a pin that is wanted.
PinsPresent ==
    \A x \in Pins : ~layer[x].effect =>
        /\ layer[x].want => layer[x].level = 2 /\ ~layer[x].timer
        /\ layer[x].mounted => layer[x].want \/ layer[x].timer

Settled(x) ==
    CASE x \in Pins \cup Labels -> layer[x].mounted = layer[x].want
      [] x \in Fades -> layer[x].level = Target(x) /\ layer[x].mounted = (layer[x].want \/ x \in hist.blinked)
      [] OTHER -> layer[x].level = Target(x)

\* Everything ends as the last toggle wants it: labels and pins in any window,
\* lines in any window that is not hidden for good, the rest in one that ends up
\* with the focus; a glide ends too.
Settles ==
    /\ \A x \in Labels \cup Pins : <>[]Settled(x)
    /\ (\A x \in Lines : <>[]Settled(x)) \/ <>[](window.is = "hidden")
    /\ <>[](window.is = "focus") =>
           <>[](camera.goal = "none" /\ \A x \in Layers : Settled(x) /\ layer[x].away = 0)
==============================================================================
