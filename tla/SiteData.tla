------------------------------- MODULE SiteData -------------------------------
(***************************************************************************)
(* The scene's site data: what the 3D view loads with the scene, and the   *)
(* button that fetches terrain and buildings (scene-view.tsx,              *)
(* scene-view-data.ts over schema/terrain.rs).  A scene load asks for five *)
(* contents at once when it has the scene's answer; the button's handler   *)
(* asks for one thing after the other, and loads from the same places; a   *)
(* change it publishes comes back to it as a ping and loads again.         *)
(*                                                                         *)
(* A row is the number of its fetch, 0 when there is none; a row no newer  *)
(* than "aged" was fetched seven days ago.                                 *)
(***************************************************************************)
EXTENDS Requests, Sequences

CONSTANTS
    Kinds,          \* the contents looked at
    MaxChanges      \* bound: fetches and other changes

VARIABLES ui, db, hist

vars == <<net, ui, db, hist>>

Sources == {"terrain", "buildings"}
Refreshes == [terrain |-> "refresh-terrain", buildings |-> "refresh-buildings"]
NoContent == <<0, 0>>
NoMeta == [terrain |-> 0, buildings |-> 0, overlays |-> 0]

\* SCENE_QUERY, and the contents it is followed by.
Load == [op |-> "scene", of |-> 0, had |-> {}, then |-> <<>>, site |-> FALSE, old |-> FALSE]
Content(op, of) == [Load EXCEPT !.op = op, !.of = of]

\* The composite needs the boundary and both DEMs, the sampler the coarse one.
ContentOf(d, r) ==
    CASE r.op = "terrain" -> <<d.row["terrain"], 0>>
      [] r.op = "buildings" -> <<d.row["buildings"], 0>>
      [] r.op = "overlays" -> <<r.of, 0>>
      [] r.op = "composite" -> IF d.boundary /\ d.row["terrain"] > 0 /\ d.detailed > 0
                               THEN <<d.row["terrain"], d.detailed>> ELSE NoContent
      [] r.op = "sampler" -> IF d.row["terrain"] = 0 THEN NoContent
                             ELSE <<d.row["terrain"], IF d.boundary THEN d.detailed ELSE 0>>

Blank == [scene |-> FALSE, meta |-> NoMeta, shown |-> [k \in Kinds |-> NoContent], refreshing |-> FALSE,
          cooldown |-> FALSE]
Init ==
    /\ \E sited \in {0, 1} :
           db = [row |-> [terrain |-> sited, buildings |-> 0], aged |-> 0, detailed |-> 0, boundary |-> sited = 1,
                 overlays |-> 0, changes |-> sited, ping |-> FALSE]
    /\ ui = Blank
    /\ net = [NoCalls EXCEPT ![1] = Asked(Load)]
    /\ hist = [odd |-> FALSE]

-----------------------------------------------------------------------------
\* Questions of the same kind under way are old when another is asked.
Superseded(ops) == [s \in Slots |-> IF net[s].op \in ops THEN [net[s] EXCEPT !.old = TRUE] ELSE net[s]]
Late(s) == net[s].old /\ \A t \in Flying(net[s].op) : net[t].old
Ask(r) ==
    \E s \in Slots :
        /\ net[s] = NoCall
        /\ \A t \in Slots : t < s => net[t] # NoCall
        /\ net' = [Superseded({r.op}) EXCEPT ![s] = Asked(r)]
\* The button's handler: what it found rows of at the click, it forces.
Site(had) == [Load EXCEPT !.site = TRUE, !.had = had]
\* It goes on with the next of its questions.
Onward(s, then) ==
    IF then = <<>> THEN Settle(s)
    ELSE net' = [Superseded({Head(then)}) EXCEPT
                 ![s] = Asked([Site(net[s].had) EXCEPT !.op = Head(then), !.then = Tail(then)])]

-----------------------------------------------------------------------------
\* The debounced reload after a ping, and the Reload button.
Reload ==
    /\ Ask(Load)
    /\ db' = [db EXCEPT !.ping = FALSE]
    /\ UNCHANGED <<ui, hist>>

\* FRESH_MS after a fetch the page offers it again; SPAM_COOLDOWN_MS after an
\* attempt the button is back.
Week ==
    /\ \E x \in Sources : db.row[x] > db.aged
    /\ db' = [db EXCEPT !.aged = db.changes]
    /\ ui' = [ui EXCEPT !.cooldown = FALSE]
    /\ UNCHANGED <<net, hist>>

HalfAnHour ==
    /\ ui.cooldown
    /\ ui' = [ui EXCEPT !.cooldown = FALSE]
    /\ UNCHANGED <<net, db, hist>>

Fresh(x) == ui.meta[x] > db.aged
SiteDisabled == ui.refreshing \/ ui.cooldown \/ \A x \in Sources : Fresh(x)

\* refreshSite: what it will do is settled by what the page knows at the click,
\* the boundary of the page's project among it.
Steps ==
    LET Source(x) == IF x \in Kinds /\ ~Fresh(x) THEN <<Refreshes[x], x>> ELSE <<>>
        Detail == IF db.boundary /\ {"composite", "sampler"} \cap Kinds # {} THEN <<"refresh-detailed">> ELSE <<>>
        Rest(k) == IF k \in Kinds THEN <<k>> ELSE <<>>
    IN  Source("terrain") \o Source("buildings") \o Detail \o Rest("composite") \o Rest("sampler")
RefreshSite ==
    /\ ui.scene /\ ~SiteDisabled /\ Steps # <<>>
    /\ Ask([Site({x \in Sources : ui.meta[x] > 0}) EXCEPT !.op = Head(Steps), !.then = Tail(Steps)])
    /\ ui' = [ui EXCEPT !.refreshing = TRUE]
    /\ UNCHANGED <<db, hist>>

-----------------------------------------------------------------------------
MayChange == db.changes < MaxChanges
\* refresh_cooldown: a cached row is answered unless the refresh is forced, a
\* forced one is refused for seven days.  The page forces what it has a row of.
Refresh(s, x) ==
    /\ At(s, Refreshes[x], "sent")
    /\ IF db.row[x] > 0 /\ x \notin net[s].had THEN Answer(s, db.row[x]) /\ UNCHANGED db
       ELSE /\ db.row[x] <= db.aged /\ MayChange
            /\ db' = [db EXCEPT !.row[x] = db.changes + 1, !.changes = @ + 1, !.ping = TRUE]
            /\ Answer(s, db.changes + 1)
    /\ UNCHANGED <<ui, hist>>

\* A detailed terrain is fetched once: the page never forces it, and nothing
\* is published.
RefreshDetailed(s) ==
    /\ At(s, "refresh-detailed", "sent")
    /\ db.boundary
    /\ IF db.detailed > 0 THEN UNCHANGED db
       ELSE MayChange /\ db' = [db EXCEPT !.detailed = db.changes + 1, !.changes = @ + 1]
    /\ Answer(s, 0)
    /\ UNCHANGED <<ui, hist>>

Read(s) ==
    /\ net[s].st = "sent" /\ net[s].op \in Kinds \cup {"scene"}
    /\ Answer(s, IF net[s].op = "scene" THEN Extended(db.row, [overlays |-> db.overlays]) ELSE ContentOf(db, net[s]))
    /\ UNCHANGED <<ui, db, hist>>

\* Changes that are published: a saved boundary, an overlay, and another
\* session's refresh.
Changed(what) ==
    /\ MayChange
    /\ db' = CASE what = "boundary" -> [db EXCEPT !.boundary = ~@, !.changes = @ + 1, !.ping = TRUE]
               [] what = "overlays" -> [db EXCEPT !.overlays = db.changes + 1, !.changes = @ + 1, !.ping = TRUE]
               [] OTHER -> [db EXCEPT !.row[what] = IF @ <= db.aged THEN db.changes + 1 ELSE @, !.changes = @ + 1,
                                      !.ping = TRUE]
    /\ UNCHANGED <<net, ui, hist>>

-----------------------------------------------------------------------------
\* The scene is there: the metas, and the contents there are rows of.
Loaded(s) ==
    /\ At(s, "scene", "done")
    /\ LET meta == net[s].ans
           gone == {x \in Sources : meta[x] = 0}
           asked == {k \in Kinds : k \notin gone}
           free == {t \in Slots : net[t] = NoCall} \cup {s}
           place == CHOOSE f \in [asked -> free] : \A j, k \in asked : f[j] = f[k] => j = k
       IN  /\ Cardinality(asked) <= Cardinality(free)
           /\ net' = [t \in Slots |->
                  IF \E k \in asked : place[k] = t
                  THEN LET k == CHOOSE k \in asked : place[k] = t
                       IN  Asked(Content(k, IF k = "overlays" THEN meta["overlays"] ELSE 0))
                  ELSE IF t = s THEN NoCall ELSE Superseded(Kinds)[t]]
           /\ ui' = [ui EXCEPT !.scene = TRUE, !.meta = meta,
                               !.shown = [k \in Kinds |-> IF k \in gone THEN NoContent ELSE @[k]]]
           /\ hist' = [hist EXCEPT !.odd = @ \/ \E x \in DOMAIN meta : meta[x] < ui.meta[x]]
    /\ UNCHANGED db

\* "odd": an answer to an earlier question that no later one will replace, and
\* that is not what is shown.
Shown(s) ==
    /\ net[s].st = "done" /\ net[s].op \in Kinds
    /\ ui' = [ui EXCEPT !.shown[net[s].op] = net[s].ans, !.refreshing = @ /\ ~(net[s].site /\ net[s].then = <<>>),
                        !.cooldown = @ \/ (net[s].site /\ net[s].then = <<>>)]
    /\ hist' = [hist EXCEPT !.odd = @ \/ (Late(s) /\ net[s].ans # ui.shown[net[s].op])]
    /\ Onward(s, net[s].then)
    /\ UNCHANGED db

\* A source was refreshed: its meta, and its content next.
Refreshed(s) ==
    /\ net[s].st = "done" /\ net[s].op \notin Kinds \cup {"scene"}
    /\ ui' = [ui EXCEPT !.meta = [x \in DOMAIN @ |-> IF x \in Sources /\ net[s].op = Refreshes[x]
                                                     THEN net[s].ans ELSE @[x]],
                        !.refreshing = @ /\ net[s].then # <<>>]
    /\ hist' = [hist EXCEPT !.odd = @ \/ \E x \in Sources : net[s].op = Refreshes[x] /\ net[s].ans < ui.meta[x]]
    /\ Onward(s, net[s].then)
    /\ UNCHANGED db

\* A content that fails is put away; a source that does is skipped, content
\* and all; either way the handler of the button goes on.
Failed(s) ==
    /\ net[s].st \in {"sent", "done"}
    /\ LET then == net[s].then
           skips == \E x \in Sources : net[s].op = Refreshes[x]
           left == IF skips THEN Tail(then) ELSE then
       IN  /\ ui' = [ui EXCEPT !.shown = [k \in Kinds |-> IF k = net[s].op THEN NoContent ELSE @[k]],
                               !.refreshing = @ /\ ~(net[s].site /\ left = <<>>),
                               !.cooldown = @ \/ (net[s].site /\ left = <<>>)]
           /\ Onward(s, left)
    /\ hist' = [hist EXCEPT !.odd = TRUE]
    /\ UNCHANGED db

Next ==
    \/ Reload \/ Week \/ HalfAnHour \/ RefreshSite
    \/ \E what \in {"boundary", "overlays"} \cup Sources : Changed(what)
    \/ \E s \in Slots :
        \/ \E x \in Sources : Refresh(s, x)
        \/ RefreshDetailed(s) \/ Read(s) \/ Loaded(s) \/ Shown(s) \/ Refreshed(s) \/ Failed(s)
Spec == Init /\ [][Next]_vars

-----------------------------------------------------------------------------
TypeOK ==
    /\ \A x \in Sources : db.row[x] \in 0 .. db.changes /\ ui.meta[x] \in 0 .. db.changes
    /\ db.aged \in 0 .. db.changes /\ db.changes \in 0 .. MaxChanges
    /\ ui.refreshing <=> \E s \in Slots : net[s] # NoCall /\ net[s].site
    /\ \A k \in Kinds : ui.shown[k] \in (0 .. MaxChanges) \X (0 .. MaxChanges)

\* With nothing under way and no ping on its way the scene shows the site data
\* the server has, and the button knows how old they are, however the button's
\* own steps mixed with the reloads their pings caused; unless a request
\* failed, or an answer came after that of a later question.
ShowsSite ==
    Quiet /\ ~db.ping /\ ~hist.odd =>
        /\ \A x \in Sources : ui.meta[x] = db.row[x]
        /\ \A k \in Kinds : ui.shown[k] = ContentOf(db, Content(k, db.overlays))
=============================================================================
