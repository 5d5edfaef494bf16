------------------------------ MODULE ViewMenus -------------------------------
(***************************************************************************)
(* The menus over the 3D view and the pins they leave (scene-toolbar.tsx,  *)
(* scene-view.tsx, terrain/markers.tsx): categories come with the page,    *)
(* points and groups with the scene, and what is hidden, selected or       *)
(* switched off is kept by the view across both.  The page loads again     *)
(* after its own category changes only; the scene after every ping, and    *)
(* no change of a category sends one.                                      *)
(***************************************************************************)
EXTENDS Requests

CONSTANTS
    Pts, Cats, Groups, Layers,
    MaxChanges, MaxTurns    \* bounds: changes at the server, and of the menus

VARIABLES ui, db, hist

vars == <<net, ui, db, hist>>

Load == [op |-> "scene"]
Page == [op |-> "page"]
Site == [of : [Pts -> Cats \cup {"none"}], members : [Groups -> SUBSET Pts], groups : SUBSET Groups]
NoSite == [of |-> [p \in Pts |-> "none"], members |-> [g \in Groups |-> {}], groups |-> {}]

Init ==
    /\ \E c \in Cats, p \in Pts :
           db = [cats |-> {c}, ping |-> FALSE, changes |-> 0,
                 site |-> [NoSite EXCEPT !.of[p] = c, !.members = [g \in Groups |-> {p}], !.groups = Groups]]
    /\ ui = [scene |-> FALSE, site |-> NoSite, cats |-> {}, hidden |-> {}, filter |-> "all", layers |-> {},
             shown |-> {}, pins |-> TRUE, terrain |-> TRUE, project |-> TRUE, busy |-> FALSE]
    /\ net = [NoCalls EXCEPT ![1] = Asked(Load), ![2] = Asked(Page)]
    /\ hist = [odd |-> FALSE, turns |-> 0]

-----------------------------------------------------------------------------
Turn(u) ==
    /\ hist.turns < MaxTurns
    /\ ui' = u
    /\ hist' = [hist EXCEPT !.turns = @ + 1]
    /\ UNCHANGED <<net, db>>

Flip(set, x) == IF x \in set THEN set \ {x} ELSE set \cup {x}

ToggleCategory(c) ==
    /\ ui.scene /\ c \in ui.cats
    /\ Turn([ui EXCEPT !.hidden = Flip(@, c)])

\* "Select none" while nothing listed is hidden, else "Select all".
SelectCategories ==
    /\ ui.scene /\ ui.cats # {}
    /\ Turn([ui EXCEPT !.hidden = IF @ \cap ui.cats = {} THEN ui.cats ELSE {}])

SelectGroup(g) ==
    /\ ui.scene /\ ui.site.groups # {} /\ g \in ui.site.groups \cup {"all"}
    /\ Turn([ui EXCEPT !.filter = g])

ToggleLayer(l) ==
    /\ l \in ui.layers
    /\ Turn([ui EXCEPT !.shown = Flip(@, l)])

SelectLayers ==
    /\ ui.layers # {}
    /\ Turn([ui EXCEPT !.shown = IF ui.layers \subseteq @ THEN {} ELSE ui.layers])

TogglePins == Turn([ui EXCEPT !.pins = ~@])
ToggleTerrain == Turn([ui EXCEPT !.terrain = ~@, !.project = @ /\ ~ui.terrain])
ToggleProject == Turn([ui EXCEPT !.project = ~@, !.terrain = @ \/ ~ui.project])

\* loadOverlays is through: the layers of the visible drawings.
SetOverlays(L) ==
    /\ ui.scene /\ L # ui.layers
    /\ Turn([ui EXCEPT !.layers = L])

\* The debounced reload after a ping, and the Reload button; SceneFeed has loads
\* overlap.
Reload ==
    /\ Flying("scene") = {} /\ Send(Load)
    /\ db' = [db EXCEPT !.ping = FALSE]
    /\ UNCHANGED <<ui, hist>>

\* The page's own category dialog: one flag for both, and only "Add" minds it.
Category(op, c) ==
    /\ op = "create" => ~ui.busy
    /\ op = "delete" => c \in ui.cats
    /\ hist.turns < MaxTurns
    /\ Send([op |-> op, c |-> c])
    /\ ui' = [ui EXCEPT !.busy = TRUE]
    /\ hist' = [hist EXCEPT !.turns = @ + 1]
    /\ UNCHANGED db

-----------------------------------------------------------------------------
MayChange == db.changes < MaxChanges
Without(d, c) ==
    [d EXCEPT !.cats = @ \ {c}, !.changes = @ + 1,
              !.site.of = [p \in Pts |-> IF @[p] = c THEN "none" ELSE @[p]]]
With(d, c) == [d EXCEPT !.cats = @ \cup {c}, !.changes = @ + 1]
Used(c) == \E p \in Pts : db.site.of[p] = c

Write(s) ==
    /\ At(s, "create", "sent") \/ At(s, "delete", "sent")
    /\ MayChange
    /\ LET c == net[s].c
       IN  IF net[s].op = "create"
           THEN c \notin db.cats /\ db' = With(db, c) /\ UNCHANGED hist
           ELSE c \in db.cats /\ db' = Without(db, c) /\ hist' = [hist EXCEPT !.odd = @ \/ Used(c)]
    /\ Answer(s, TRUE)
    /\ UNCHANGED ui

Read(s) ==
    /\ At(s, "scene", "sent") \/ At(s, "page", "sent")
    /\ Answer(s, IF net[s].op = "scene" THEN db.site ELSE db.cats)
    /\ UNCHANGED <<ui, db, hist>>

\* Other sessions: points and groups, with a ping ...
Pinged(site) ==
    /\ MayChange /\ site # db.site
    /\ db' = [db EXCEPT !.site = site, !.ping = TRUE, !.changes = @ + 1]
    /\ UNCHANGED <<net, ui, hist>>
Assign(p, c) == c \in db.cats /\ Pinged([db.site EXCEPT !.of[p] = c])
SetGroup(g, members) == Pinged([db.site EXCEPT !.groups = @ \cup {g}, !.members[g] = @ \cup members])
DeleteGroup(g) ==
    g \in db.site.groups /\ Pinged([db.site EXCEPT !.groups = @ \ {g}, !.members[g] = {}])
\* ... and categories, without.
Elsewhere(d) ==
    /\ MayChange /\ d.cats # db.cats
    /\ db' = d
    /\ hist' = [hist EXCEPT !.odd = TRUE]
    /\ UNCHANGED <<net, ui>>

-----------------------------------------------------------------------------
Changed(s) ==
    /\ At(s, "create", "done") \/ At(s, "delete", "done")
    /\ Follow(s, Page)
    /\ ui' = [ui EXCEPT !.busy = FALSE]
    /\ hist' = [hist EXCEPT !.odd = @ \/ Flying("page") # {}]
    /\ UNCHANGED db

Loaded(s) ==
    /\ At(s, "scene", "done") \/ At(s, "page", "done")
    /\ Settle(s)
    /\ ui' = IF net[s].op = "page" THEN [ui EXCEPT !.cats = net[s].ans]
             ELSE [ui EXCEPT !.scene = TRUE, !.site = net[s].ans]
    /\ UNCHANGED <<db, hist>>

Failed(s) ==
    /\ net[s].st \in {"sent", "done"}
    /\ Settle(s)
    /\ ui' = [ui EXCEPT !.busy = @ /\ net[s].op \notin {"create", "delete"}]
    /\ hist' = [hist EXCEPT !.odd = TRUE]
    /\ UNCHANGED db

Next ==
    \/ \E c \in Cats : ToggleCategory(c) \/ Category("create", c) \/ Category("delete", c)
    \/ \E g \in Groups \cup {"all"} : SelectGroup(g)
    \/ \E l \in Layers : ToggleLayer(l)
    \/ \E L \in SUBSET Layers : SetOverlays(L)
    \/ SelectCategories \/ SelectLayers \/ TogglePins \/ ToggleTerrain \/ ToggleProject \/ Reload
    \/ \E p \in Pts, c \in Cats : Assign(p, c)
    \/ \E g \in Groups, members \in SUBSET Pts : SetGroup(g, members)
    \/ \E g \in Groups : DeleteGroup(g)
    \/ \E c \in Cats : Elsewhere(With(db, c)) \/ Elsewhere(Without(db, c))
    \/ \E s \in Slots : Write(s) \/ Read(s) \/ Changed(s) \/ Loaded(s) \/ Failed(s)
Spec == Init /\ [][Next]_vars

-----------------------------------------------------------------------------
\* visibleCategoryIds, visibleIds, and the pins useMarkers makes of them: a
\* category the page does not list hides its points, and a group that is gone
\* hides none.
VisibleCategories == ui.cats \ ui.hidden
VisibleIds == IF ui.filter \in ui.site.groups THEN ui.site.members[ui.filter] ELSE Pts
Markers ==
    IF ~ui.pins \/ ~ui.scene THEN {}
    ELSE {p \in VisibleIds : ui.site.of[p] = "none" \/ ui.site.of[p] \in VisibleCategories}

TypeOK ==
    /\ ui.site \in Site /\ db.site \in Site
    /\ ui.cats \subseteq Cats /\ ui.hidden \subseteq Cats /\ ui.shown \subseteq Layers
    /\ ui.filter \in Groups \cup {"all"}
    /\ ui.busy => Flying("create") \cup Flying("delete") # {}

\* The pins are the points of the server that the menus say: of the group that
\* is chosen, and without those of categories switched off; unless a load
\* failed or was overtaken, a category's points were changed without a ping, or
\* another session changed the categories.
MenuTruth ==
    Quiet /\ ~db.ping /\ ~hist.odd /\ ui.pins =>
        Markers = {p \in Pts : /\ db.site.of[p] \notin ui.hidden
                               /\ ui.filter \in db.site.groups => p \in db.site.members[ui.filter]}

\* Nothing is projected onto terrain that is switched off.
ProjectedOnShown == ui.project => ui.terrain
==============================================================================
