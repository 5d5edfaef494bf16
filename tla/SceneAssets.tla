----------------------------- MODULE SceneAssets -----------------------------
(***************************************************************************)
(* What the 3D view holds of the surface and the volume chosen in the      *)
(* surfaces panel (scene-view.tsx), and the ground the viewer draws of it  *)
(* (terrain-viewer.tsx).  An effect asks for an asset whenever what it is  *)
(* of changes; nothing takes an earlier question back, so its answer is    *)
(* shown too, last when it comes last.                                     *)
(*                                                                         *)
(* An asset is what it is of, the version of the surfaces it was made from *)
(* and the contour settings.  Of the volumes "pad" compares two surfaces,  *)
(* "flat" a surface with an elevation.                                     *)
(***************************************************************************)
EXTENDS Requests

CONSTANTS
    Kinds,          \* the assets looked at
    Surfaces,
    MaxChanges      \* bound: rebuilds and deletions

VARIABLES ui, db, hist

vars == <<net, ui, db, hist>>

Volumes == {"pad", "flat"}
Settings == {"off", "fine", "coarse"}
Nothing == [of |-> "none", ver |-> 0, at |-> "off"]

\* The assets of a question: a volume's three follow each other.
Held(kind) == IF kind = "volume" THEN {"heat", "solid", "finished"} ELSE {kind}
Assets == UNION {Held(k) : k \in Kinds}
Next3 == [heat |-> "solid", solid |-> "finished"]
Kind(op) == IF op \in {"heat", "solid", "finished"} THEN "volume" ELSE op
First(kind) == IF kind = "volume" THEN "heat" ELSE kind

\* What the questions are about, and when there is nothing to ask for.
Needs(u, kind) ==
    CASE kind = "mesh" -> u.surface # "none"
      [] kind = "contours" -> u.surface # "none" /\ u.contours # "off"
      [] kind = "volume" -> u.volume # "none"
      [] kind = "graded" -> u.graded /\ u.volume # "none" /\ u.composite
      [] kind = "constraints" -> TRUE
Ask(u, kind) ==
    [op |-> First(kind),
     of |-> CASE kind \in {"mesh", "contours"} -> u.surface [] kind = "constraints" -> "project" [] OTHER -> u.volume,
     at |-> IF kind = "contours" THEN u.contours ELSE "off", old |-> FALSE]

\* What the server answers: null for what is deleted, and for the solids of a
\* volume over an elevation.  A heatmap was computed once, with its volume.
Content(d, op, of, at) ==
    IF of \in d.gone \/ (op \in {"solid", "finished"} /\ of = "flat") THEN Nothing
    ELSE [of |-> of, ver |-> IF op = "heat" THEN 0 ELSE d.ver, at |-> at]

-----------------------------------------------------------------------------
Stage(op) == CASE op = "solid" -> 2 [] op = "finished" -> 3 [] OTHER -> 1
FlyingOf(kind) == {s \in Slots : net[s] # NoCall /\ Kind(net[s].op) = kind}

\* The effects of these kinds run: an earlier question of theirs is old, a new
\* one goes out, or its assets are put away at once.
Superseded(kinds) ==
    [s \in Slots |-> IF \E k \in kinds : s \in FlyingOf(k) THEN [net[s] EXCEPT !.old = TRUE] ELSE net[s]]
Effects(u, kinds) ==
    LET due == {k \in kinds \cap Kinds : Needs(u, k)}
        idle == {s \in Slots : net[s] = NoCall}
        place == CHOOSE f \in [due -> idle] : \A j, k \in due : f[j] = f[k] => j = k
        off == UNION {Held(k) : k \in kinds \ due}
    IN  /\ Cardinality(due) <= Cardinality(idle)
        /\ net' = [s \in Slots |-> IF \E k \in due : place[k] = s
                                   THEN Asked(Ask(u, CHOOSE k \in due : place[k] = s)) ELSE Superseded(kinds)[s]]
        /\ ui' = [u EXCEPT !.shown = [x \in Assets |-> IF x \in off THEN Nothing ELSE @[x]]]

Blank == [surface |-> "none", contours |-> "off", volume |-> "none", graded |-> FALSE, composite |-> FALSE,
          shown |-> [x \in Assets |-> Nothing]]
Init ==
    /\ db = [ver |-> 1, gone |-> {}, due |-> FALSE]
    /\ ui = Blank
    /\ net = [NoCalls EXCEPT ![1] = IF "constraints" \in Kinds THEN Asked(Ask(Blank, "constraints")) ELSE @]
    /\ hist = [odd |-> FALSE]

-----------------------------------------------------------------------------
\* The choices of the surfaces panel, the legend's two buttons, and the
\* composite of a scene load: a new buffer every time.
ShowSurface(id) ==
    /\ id # ui.surface
    /\ Effects([ui EXCEPT !.surface = id], {"mesh", "contours"})
    /\ UNCHANGED <<db, hist>>

SetContours(c) ==
    /\ "contours" \in Kinds /\ c # ui.contours
    /\ Effects([ui EXCEPT !.contours = c], {"contours"})
    /\ UNCHANGED <<db, hist>>

ShowVolume(id) ==
    /\ id # ui.volume
    /\ Effects([ui EXCEPT !.volume = id], {"volume", "graded"})
    /\ UNCHANGED <<db, hist>>

SetGraded(on) ==
    /\ "heat" \in Assets /\ ui.shown["heat"] # Nothing /\ on # ui.graded
    /\ Effects([ui EXCEPT !.graded = on], {"graded"})
    /\ UNCHANGED <<db, hist>>

SetComposite(on) ==
    /\ "graded" \in Kinds /\ (on \/ ui.composite)
    /\ Effects([ui EXCEPT !.composite = on], {"graded"})
    /\ UNCHANGED <<db, hist>>

\* A surface is rebuilt, or something deleted; the panel that did it says so
\* when its lists are there (surfaceReload), nobody says it of another's.
Change(gone, here) ==
    /\ db.ver + Cardinality(db.gone) <= MaxChanges
    /\ db' = [ver |-> IF gone = {} THEN db.ver + 1 ELSE db.ver, gone |-> db.gone \cup gone, due |-> here \/ db.due]
    /\ hist' = [hist EXCEPT !.odd = @ \/ ~here]
    /\ UNCHANGED <<net, ui>>

Told ==
    /\ db.due
    /\ Effects(ui, {"mesh", "contours", "volume", "graded", "constraints"})
    /\ db' = [db EXCEPT !.due = FALSE]
    /\ UNCHANGED hist

-----------------------------------------------------------------------------
Serve(s) ==
    /\ net[s].st = "sent"
    /\ Answer(s, Content(db, net[s].op, net[s].of, net[s].at))
    /\ UNCHANGED <<ui, db, hist>>

\* A volume's next asset is asked for, whatever became of this one.
Proceed(s) ==
    IF net[s].op \in DOMAIN Next3
    THEN Follow(s, [op |-> Next3[net[s].op], of |-> net[s].of, at |-> "off", old |-> net[s].old])
    ELSE Settle(s)

\* "odd": the answer is to an earlier question, and no later one is to come
\* and put it right.
Late(s) ==
    /\ net[s].old
    /\ \A t \in FlyingOf(Kind(net[s].op)) : net[t].old \/ Stage(net[t].op) > Stage(net[s].op)

Arrived(s) ==
    /\ net[s].st = "done"
    /\ ui' = [ui EXCEPT !.shown[net[s].op] = net[s].ans]
    /\ hist' = [hist EXCEPT !.odd = @ \/ Late(s)]
    /\ Proceed(s)
    /\ UNCHANGED db

Failed(s) ==
    /\ net[s].st \in {"sent", "done"}
    /\ ui' = [ui EXCEPT !.shown[net[s].op] = Nothing]
    /\ hist' = [hist EXCEPT !.odd = TRUE]
    /\ Proceed(s)
    /\ UNCHANGED db

Next ==
    \/ \E id \in Surfaces \cup {"none"} : {"mesh", "contours"} \cap Kinds # {} /\ ShowSurface(id)
    \/ \E id \in Volumes \cup {"none"} : "volume" \in Kinds /\ ShowVolume(id)
    \/ \E c \in Settings : SetContours(c)
    \/ \E on \in BOOLEAN : SetGraded(on) \/ SetComposite(on)
    \/ \E gone \in {{}} \cup {{id} : id \in Surfaces \cup Volumes}, here \in BOOLEAN : Change(gone, here)
    \/ Told
    \/ \E s \in Slots : Serve(s) \/ Arrived(s) \/ Failed(s)
Spec == Init /\ [][Next]_vars

-----------------------------------------------------------------------------
\* The ground the viewer draws, with the terrain loaded and shown and a volume
\* shown: the composite, its graded form, a ghost of it or the coarse mesh,
\* and the earthwork's bodies.
Ground(u) ==
    LET heat == u.shown["heat"] # Nothing
        solid == heat /\ ~u.graded
        carve == heat /\ u.graded
        graded == u.shown["graded"] # Nothing
    IN  (IF ~u.composite THEN IF heat THEN {} ELSE {"coarse"}
         ELSE IF solid THEN {"ghost"} ELSE IF graded THEN {"graded"} ELSE {"composite"})
        \cup (IF carve /\ ~u.composite /\ u.shown["finished"] # Nothing THEN {"finished"} ELSE {})
        \cup (IF solid /\ u.shown["solid"] # Nothing THEN {"solid"} ELSE {})

-----------------------------------------------------------------------------
TypeOK ==
    /\ ui.surface \in Surfaces \cup {"none"} /\ ui.volume \in Volumes \cup {"none"}
    /\ ui.contours \in Settings /\ {ui.graded, ui.composite} \subseteq BOOLEAN
    /\ \A x \in Assets : ui.shown[x].ver \in 0 .. db.ver
    /\ \A s \in Slots : net[s] # NoCall => Kind(net[s].op) \in Kinds

\* With nothing under way the scene holds the assets of what is chosen, as
\* they are now, unless a load failed, somebody else changed a surface, or an
\* answer came after that of a later question.
ShowsChosen ==
    Quiet /\ ~db.due /\ ~hist.odd =>
        \A k \in Kinds : \A x \in Held(k) :
            ui.shown[x] = IF Needs(ui, k) THEN Content(db, x, Ask(ui, k).of, Ask(ui, k).at) ELSE Nothing

\* The terrain gives way only to the earthwork of the volume that is chosen:
\* there is ground to see then too, and it is graded exactly as the legend's
\* pressed button says.  A volume over an elevation has no bodies: without a
\* composite nothing at all is drawn for it.
GroundShown ==
    {"volume", "graded"} \subseteq Kinds /\ Quiet /\ ~db.due /\ ~hist.odd =>
        /\ Ground(ui) = {} => ui.volume = "flat"
        /\ Ground(ui) \cap {"graded", "finished"} # {} => ui.graded /\ ui.volume # "none"
        /\ ui.graded /\ ui.volume \notin db.gone \cup {"none"} => Ground(ui) \cap {"composite", "coarse", "ghost", "solid"} = {}
=============================================================================
