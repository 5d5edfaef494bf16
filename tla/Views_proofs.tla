---------------------------- MODULE Views_proofs ----------------------------
(***************************************************************************)
(* What a screen shows is the server's: the screens with one user's        *)
(* request at a time, and those that load and draw what the user chose,    *)
(* for any number of requests, rows, changes and turns.                    *)
(***************************************************************************)
EXTENDS Acts_proofs

-----------------------------------------------------------------------------
(* Screens whose user waits: one request at a time, or the run is excused. *)
RQuiet == \A s \in R!Slots : net[s] = R!NoCall
RLone(s) == \A t \in R!Slots \ {s} : net[t] = R!NoCall
RAlone == \A s \in R!Slots : net[s] # R!NoCall => RLone(s)

\* What was asked when nothing was under way is under way alone.
LEMMA RFirst ==
    ASSUME RNet, RQuiet, NEW r, R!Send(r), "op" \in DOMAIN r, {"st", "mine"} \cap DOMAIN r = {}
    PROVE  /\ RNet' /\ RAlone'
           /\ \E s \in R!Slots :
                 /\ RLone(s)' /\ net'[s] # R!NoCall
                 /\ DOMAIN net'[s] = DOMAIN r \cup {"st", "mine"}
                 /\ net'[s].st = "sent" /\ net'[s].mine = TRUE /\ \A f \in DOMAIN r : net'[s][f] = r[f]
<1>1. PICK s \in R!Slots :
         /\ Only(s) /\ net[s] = R!NoCall
         /\ DOMAIN net'[s] = DOMAIN r \cup {"st", "mine"}
         /\ net'[s].st = "sent" /\ net'[s].mine = TRUE /\ \A f \in DOMAIN r : net'[s][f] = r[f]
  BY RSent
<1>2. net'[s] # R!NoCall
  BY <1>1 DEF R!NoCall
<1>3. RLone(s)' /\ RAlone'
  BY <1>1, <1>2 DEF RQuiet, RLone, RAlone, Only
<1> QED
  BY <1>1, <1>2, <1>3, RSent

\* A step of the one request there is leaves it the only one.
LEMMA RStays ==
    ASSUME RNet, RAlone, NEW s \in R!Slots, net[s] # R!NoCall, Only(s)
    PROVE  RAlone' /\ RLone(s)' /\ RLone(s) /\ (net'[s] = R!NoCall => RQuiet')
BY DEF RAlone, RLone, RQuiet, Only

-----------------------------------------------------------------------------
(* The analyses: what is listed, selected and drawn.                       *)
NHere == DOMAIN db.list \cup {Analyses!None}
NOps == {"create", "duplicate", "remove", "load"}
\* The one request there is; what is selected is there, unless it is on its
\* way out and was selected when that was confirmed.
NAsk(s) ==
    /\ ui.mounted /\ net[s].mine = TRUE /\ net[s].op \in NOps /\ net[s].st \in {"sent", "done"}
    /\ net[s].st = "sent" => "ans" \notin DOMAIN net[s]
    /\ net[s].op = "load" => "select" \in DOMAIN net[s] /\ net[s].select \in NHere /\ (net[s].st = "done" => net[s].ans = db.list)
    /\ net[s].op \in {"create", "duplicate"} /\ net[s].st = "done" => net[s].ans \in NHere
    /\ net[s].op = "remove" => {"active", "i"} \subseteq DOMAIN net[s] /\ net[s].active \in BOOLEAN
    /\ ~(net[s].op = "remove" /\ net[s].active) => ui.selected \in NHere
    /\ net[s].op = "remove" /\ ~net[s].active /\ net[s].st = "sent" => ui.selected # net[s].i
NRest == ui.selected \in NHere /\ IF ui.mounted THEN ui.list = db.list ELSE ui.result \in NHere /\ ui.pending = Analyses!None
NCalm == RAlone /\ (\A s \in R!Slots : net[s] # R!NoCall => NAsk(s)) /\ (RQuiet => NRest)
NSeen == NInv /\ RNet /\ DOMAIN hist = {"odd"} /\ hist.odd \in BOOLEAN /\ (~hist.odd => NCalm)

LEMMA NLinks ==
    /\ Analyses!Slots = R!Slots /\ Analyses!NoCall = R!NoCall /\ Analyses!Orphaned = R!Orphaned
    /\ (Analyses!Quiet <=> RQuiet)
    /\ \A r : Analyses!Send(r) <=> R!Send(r)
    /\ \A s : Analyses!Settle(s) <=> R!Settle(s)
    /\ \A s, r : Analyses!Answer(s, r) <=> R!Answer(s, r)
BY DEF Analyses!Slots, R!Slots, Analyses!NoCall, R!NoCall, Analyses!Orphaned, R!Orphaned, Analyses!Send, R!Send,
       Analyses!Settle, R!Settle, Analyses!Answer, R!Answer, Analyses!Quiet, RQuiet,
       Analyses!Asked, R!Asked, Analyses!Extended, R!Extended

\* What is drawn as a result is what is selected, or nothing.
LEMMA NDrawn ==
    ASSUME NInv, ui.mounted, ui.selected \in NHere
    PROVE  ui.result \in NHere
BY DEF NInv, NHere, Analyses!Published, Analyses!Result

LEMMA NShow ==
    ASSUME NEW u, DOMAIN u = NFields
    PROVE  LET r == Analyses!Render(u) IN r.mounted = u.mounted /\ r.list = u.list /\ r.selected = u.selected
BY DEF Analyses!Render, NFields

\* Nothing is asked or answered, and what is listed and selected stays.
LEMMA NFrame ==
    ASSUME NSeen, NInv', net' = net, db' = db, ui'.mounted = ui.mounted, ui'.list = ui.list,
           ui'.selected = ui.selected, ui.mounted, DOMAIN hist' = {"odd"}, hist'.odd \in BOOLEAN,
           hist'.odd \/ ~hist.odd
    PROVE  NSeen'
<1>1. RNet' /\ (RAlone => RAlone') /\ (RQuiet' => RQuiet)
  BY DEF NSeen, RNet, RAlone, RLone, RQuiet
<1>2. NHere' = NHere
  BY DEF NHere
<1>3. \A s \in R!Slots : NAsk(s) => NAsk(s)'
  BY <1>2 DEF NAsk
<1>4. NCalm => NCalm'
  BY <1>1, <1>2, <1>3 DEF NCalm, NRest
<1> QED
  BY <1>1, <1>4 DEF NSeen

\* The one request goes on, or is over.
LEMMA NGoesOn ==
    ASSUME NSeen, NInv', RNet', ~hist.odd, hist' = hist, NEW s \in R!Slots, net[s] # R!NoCall, Only(s),
           net'[s] = R!NoCall => ui'.mounted /\ ui'.list = db'.list /\ ui'.selected \in NHere',
           net'[s] # R!NoCall => NAsk(s)'
    PROVE  NSeen'
<1>1. RAlone' /\ RLone(s)' /\ (net'[s] # R!NoCall => ~RQuiet')
  BY RStays DEF NSeen, NCalm, RQuiet
<1>2. RQuiet' => NRest'
  BY <1>1 DEF NRest
<1>3. \A t \in R!Slots : net'[t] # R!NoCall => t = s
  BY <1>1 DEF RLone
<1> QED
  BY <1>1, <1>2, <1>3 DEF NSeen, NCalm

LEMMA NOdd ==
    ASSUME NInv', RNet', DOMAIN hist' = {"odd"}, hist'.odd = TRUE
    PROVE  NSeen'
BY DEF NSeen

LEMMA NCrossed ==
    ASSUME NSeen, Analyses!Crossing
    PROVE  /\ DOMAIN hist' = {"odd"} /\ hist'.odd \in BOOLEAN
           /\ (hist'.odd = TRUE) \/ (hist'.odd = FALSE /\ ~hist.odd /\ RQuiet /\ NCalm /\ NRest)
BY NLinks DEF NSeen, NCalm, Analyses!Crossing
-----------------------------------------------------------------------------
\* Drawing, and looking at a row.
LEMMA NLooks ==
    ASSUME NSeen, NInv',
           \/ \E kind \in Analyses!Kinds : Analyses!ChooseKind(kind)
           \/ \E b \in DOMAIN ui.list : Analyses!AskDelete(b)
           \/ \E clicked \in BOOLEAN : Analyses!AddPoint(clicked)
           \/ Analyses!Draw \/ Analyses!DropPoint \/ Analyses!CancelDraw \/ Analyses!CancelDelete
    PROVE  NSeen'
<1>1. net' = net /\ db' = db
  BY DEF Analyses!ChooseKind, Analyses!AskDelete, Analyses!AddPoint, Analyses!Draw, Analyses!DropPoint,
         Analyses!CancelDraw, Analyses!CancelDelete
<1>2. hist' = hist \/ Analyses!Crossing
  BY DEF Analyses!ChooseKind, Analyses!AskDelete, Analyses!AddPoint, Analyses!Draw, Analyses!DropPoint,
         Analyses!CancelDraw, Analyses!CancelDelete
<1>3. DOMAIN ui = NFields
  BY DEF NSeen, NInv
<1>4. ui'.mounted = ui.mounted /\ ui'.list = ui.list /\ ui'.selected = ui.selected /\ ui'.result = ui'.result
  <2>1. CASE \E kind \in Analyses!Kinds : Analyses!ChooseKind(kind)
    BY <1>3, <2>1 DEF NFields, Analyses!ChooseKind
  <2>2. CASE (\E b \in DOMAIN ui.list : Analyses!AskDelete(b)) \/ Analyses!CancelDelete
    BY <1>3, <2>2 DEF NFields, Analyses!AskDelete, Analyses!CancelDelete
  <2>3. CASE Analyses!Draw \/ Analyses!DropPoint \/ Analyses!CancelDraw \/ \E clicked \in BOOLEAN : Analyses!AddPoint(clicked)
    <3>1. PICK c, p : ui' = Analyses!Render([ui EXCEPT !.capturing = c, !.points = p])
      <4>2. \A c : [ui EXCEPT !.capturing = c] = [ui EXCEPT !.capturing = c, !.points = ui.points]
        BY <1>3 DEF NFields
      <4>3. \A p : [ui EXCEPT !.points = p] = [ui EXCEPT !.capturing = ui.capturing, !.points = p]
        BY <1>3 DEF NFields
      <4>4. CASE Analyses!Draw
        BY <4>2, <4>4 DEF Analyses!Draw
      <4>5. CASE Analyses!DropPoint
        BY <4>3, <4>5 DEF Analyses!DropPoint
      <4>6. CASE Analyses!CancelDraw
        BY <4>6 DEF Analyses!CancelDraw
      <4>7. CASE \E clicked \in BOOLEAN : Analyses!AddPoint(clicked)
        BY <4>3, <4>7 DEF Analyses!AddPoint
      <4> QED
        BY <2>3, <4>4, <4>5, <4>6, <4>7
    <3> DEFINE u == [ui EXCEPT !.capturing = c, !.points = p]
    <3>2. DOMAIN u = NFields /\ u.mounted = ui.mounted /\ u.list = ui.list /\ u.selected = ui.selected
      BY <1>3 DEF NFields
    <3> HIDE DEF u
    <3> QED
      BY <3>1, <3>2, NShow DEF u
  <2> QED
    BY <2>1, <2>2, <2>3
<1>5. CASE ui.mounted
  BY <1>1, <1>2, <1>4, <1>5, NFrame, NCrossed DEF NSeen
<1>6. CASE ~ui.mounted
  <2>1. Analyses!CancelDelete
    BY <1>6 DEF Analyses!ChooseKind, Analyses!AskDelete, Analyses!AddPoint, Analyses!Draw, Analyses!DropPoint,
         Analyses!CancelDraw, Analyses!Here
  <2>2. hist' = hist /\ ui'.result = ui.result /\ ui'.pending = Analyses!None
    BY <1>3, <2>1 DEF NFields, Analyses!CancelDelete
  <2>3. RNet' /\ (RAlone => RAlone') /\ (RQuiet' => RQuiet) /\ NHere' = NHere
    BY <1>1 DEF NSeen, RNet, RAlone, RLone, RQuiet, NHere
  <2>4. NCalm => NCalm'
    BY <1>1, <1>4, <2>2, <2>3 DEF NCalm, NRest, NAsk
  <2> QED
    BY <2>2, <2>3, <2>4 DEF NSeen
<1> QED
  BY <1>5, <1>6

\* What is selected is of the list; a panel that goes leaves it drawn.
LEMMA NPicks ==
    ASSUME NSeen, NInv', (\E b \in DOMAIN ui.list : Analyses!Select(b)) \/ Analyses!Leave
    PROVE  NSeen'
<1>1. DOMAIN ui = NFields /\ db' = db /\ Analyses!Crossing /\ ui.mounted
  BY DEF NSeen, NInv, Analyses!Select, Analyses!Leave, Analyses!Here
<1>2. RNet' /\ (RQuiet => RQuiet')
  <2>1. CASE Analyses!Leave
    <3>1. RQuiet => \A s \in R!Slots : R!Orphaned[s] = net[s]
      BY DEF RQuiet, R!Orphaned
    <3>4. net' = R!Orphaned
      BY <2>1, NLinks DEF Analyses!Leave
    <3>5. RNet'
      BY <3>4, ROrphaned DEF NSeen
    <3> QED
      BY <3>1, <3>4, <3>5 DEF RQuiet
  <2> QED
    BY <2>1 DEF Analyses!Select, NSeen, RNet, RQuiet
<1>3. CASE hist'.odd = TRUE
  BY <1>1, <1>2, <1>3, NCrossed, NOdd
<1>4. CASE hist'.odd # TRUE
  <2>1. hist'.odd = FALSE /\ ~hist.odd /\ RQuiet /\ NCalm /\ NRest /\ RQuiet'
    BY <1>1, <1>2, <1>4, NCrossed
  <2>2. NHere' = NHere /\ RAlone' /\ ui.list = db.list
    BY <1>1, <2>1 DEF NHere, RAlone, RLone, RQuiet, NCalm, NRest
  <2>3. NRest'
    <3>1. ASSUME NEW b \in DOMAIN ui.list, Analyses!Select(b) PROVE NRest'
      <4> DEFINE u == [ui EXCEPT !.selected = IF @ = b THEN Analyses!None ELSE b]
      <4>1. DOMAIN u = NFields /\ u.mounted = ui.mounted /\ u.list = ui.list /\ u.selected \in NHere
        BY <1>1, <2>2 DEF NFields, NHere
      <4>2. ui' = Analyses!Render(u)
        BY <3>1 DEF Analyses!Select
      <4> HIDE DEF u
      <4> QED
        BY <1>1, <2>2, <4>1, <4>2, NShow DEF NRest
    <3>2. CASE Analyses!Leave
      <4> DEFINE p == [Analyses!Panel EXCEPT !.mounted = FALSE]
                 u == Analyses!Extended(p, ui)
      <4>1. DOMAIN p = NFields \ {"selected", "paths", "result"} /\ p.mounted = FALSE /\ p.pending = Analyses!None
        BY DEF Analyses!Panel, NFields
      <4> HIDE DEF p
      <4>2. DOMAIN u = NFields /\ u.mounted = FALSE /\ u.selected = ui.selected /\ u.result = ui.result /\ u.pending = Analyses!None
        BY <1>1, <4>1 DEF Analyses!Extended, NFields
      <4>3. ui' = Analyses!Render(u)
        BY <3>2 DEF Analyses!Leave, p
      <4> HIDE DEF u
      <4>4. ui'.mounted = FALSE /\ ui'.selected = ui.selected /\ ui'.result = ui.result /\ ui'.pending = Analyses!None
        BY <4>2, <4>3 DEF Analyses!Render, NFields
      <4>5. ui.result \in NHere
        BY <1>1, <2>1, NDrawn DEF NSeen, NRest
      <4> QED
        BY <2>1, <2>2, <4>4, <4>5 DEF NRest
    <3> QED
      BY <3>1, <3>2
  <2> QED
    BY <1>1, <1>2, <2>1, <2>2, <2>3, NCrossed DEF NSeen, NCalm, RQuiet
<1> QED
  BY <1>3, <1>4

-----------------------------------------------------------------------------
\* A request is sent when none is under way, or the run is excused.
LEMMA NSends ==
    ASSUME NSeen, NInv', NEW r, R!Send(r), Analyses!Crossing, db' = db,
           "op" \in DOMAIN r, {"st", "mine", "ans"} \cap DOMAIN r = {}, ui'.mounted,
           r.op = "load" => r.select = Analyses!None /\ "select" \in DOMAIN r,
           r.op \in NOps, ui'.selected = ui.selected,
           r.op = "remove" => /\ {"active", "i"} \subseteq DOMAIN r /\ r.active \in BOOLEAN
                              /\ ~r.active => ui.selected # r.i
    PROVE  NSeen'
<1>1. RNet'
  BY RSent DEF NSeen
<1>2. CASE hist'.odd = TRUE
  BY <1>1, <1>2, NCrossed, NOdd
<1>3. CASE hist'.odd # TRUE
  <2>1. hist'.odd = FALSE /\ RQuiet /\ NRest /\ DOMAIN hist' = {"odd"}
    BY <1>3, NCrossed
  <2>2. PICK s \in R!Slots :
            /\ RLone(s)' /\ net'[s] # R!NoCall
            /\ DOMAIN net'[s] = DOMAIN r \cup {"st", "mine"}
            /\ net'[s].st = "sent" /\ net'[s].mine = TRUE /\ \A f \in DOMAIN r : net'[s][f] = r[f]
    BY <2>1, RFirst DEF NSeen
  <2>3. RAlone'
    BY <2>1, RFirst DEF NSeen
  <2>4. NHere' = NHere /\ Analyses!None \in NHere
    BY DEF NHere
  <2>5. net'[s].op = r.op /\ "ans" \notin DOMAIN net'[s]
    BY <2>2
  <2>6. NAsk(s)'
    BY <2>1, <2>2, <2>4, <2>5 DEF NAsk, NRest
  <2>7. \A t \in R!Slots : net'[t] # R!NoCall => t = s
    BY <2>2 DEF RLone
  <2> QED
    BY <1>1, <2>1, <2>2, <2>3, <2>6, <2>7 DEF NSeen, NCalm, RQuiet
<1> QED
  BY <1>2, <1>3

LEMMA NRuns ==
    ASSUME NSeen, NInv', Analyses!RunDrawing \/ (\E b \in DOMAIN ui.list : Analyses!Duplicate(b)) \/ Analyses!ConfirmDelete,
           ui.mounted
    PROVE  NSeen'
<1>1. DOMAIN ui = NFields
  BY DEF NSeen, NInv
<1>2. ASSUME NEW r, Analyses!Run(r), "op" \in DOMAIN r, {"st", "mine", "ans"} \cap DOMAIN r = {},
             r.op \in {"create", "duplicate", "remove"},
             r.op = "remove" => {"active", "i"} \subseteq DOMAIN r /\ r.active \in BOOLEAN /\ (~r.active => ui.selected # r.i)
      PROVE  NSeen'
  <2>1. R!Send(r) /\ Analyses!Crossing /\ db' = db /\ ui'.mounted = ui.mounted /\ ui'.selected = ui.selected
    BY <1>1, <1>2, NLinks DEF Analyses!Run, NFields
  <2> QED
    BY <1>2, <2>1, NSends DEF NOps
<1>3. CASE Analyses!RunDrawing
  BY <1>2, <1>3 DEF Analyses!RunDrawing
<1>4. CASE \E b \in DOMAIN ui.list : Analyses!Duplicate(b)
  BY <1>2, <1>4 DEF Analyses!Duplicate
<1>5. CASE Analyses!ConfirmDelete
  BY <1>2, <1>5 DEF Analyses!ConfirmDelete
<1> QED
  BY <1>3, <1>4, <1>5

LEMMA NReturns ==
    ASSUME NSeen, NInv', Analyses!Return
    PROVE  NSeen'
<1> DEFINE u == Analyses!Extended(Analyses!Panel, ui)
           r == Analyses!FirstLoad
<1>1. DOMAIN Analyses!Panel = NFields \ {"selected", "paths", "result"} /\ Analyses!Panel.mounted = TRUE
  BY DEF Analyses!Panel, NFields
<1>2. DOMAIN u = NFields /\ u.mounted = TRUE /\ u.selected = ui.selected
  BY <1>1 DEF Analyses!Extended, NFields, NSeen, NInv
<1>3. ui' = Analyses!Render(u)
  BY DEF Analyses!Return
<1> HIDE DEF u
<1>4. ui'.mounted /\ ui'.selected = ui.selected
  BY <1>2, <1>3, NShow
<1>5. R!Send(r) /\ Analyses!Crossing /\ db' = db
  BY NLinks DEF Analyses!Return
<1>6. /\ "op" \in DOMAIN r /\ {"st", "mine", "ans"} \cap DOMAIN r = {} /\ r.op = "load"
      /\ "select" \in DOMAIN r /\ r.select = Analyses!None
  BY DEF Analyses!FirstLoad
<1> HIDE DEF r
<1> QED
  BY <1>4, <1>5, <1>6, NSends DEF NOps
-----------------------------------------------------------------------------
\* The server answers, and leaves the panel alone.
LEMMA NServes ==
    ASSUME NSeen, NEW s \in R!Slots, Analyses!Write(s) \/ Analyses!Read(s)
    PROVE  NSeen'
<1>1. ui' = ui /\ hist' = hist /\ NInv' /\ net[s].st = "sent" /\ net[s] # R!NoCall
  <2>1. ui' = ui /\ hist' = hist /\ net[s].st = "sent"
    BY DEF Analyses!Write, Analyses!Read, Analyses!At
  <2> QED
    BY <2>1, NKept DEF NSeen, NInv, NFields, R!NoCall
<1>2. PICK w : /\ R!Answer(s, w)
               /\ \/ Analyses!Write(s) /\ w = db.next
                  \/ Analyses!Read(s) /\ w = db.list /\ db' = db /\ net[s].op = "load"
  BY NLinks DEF Analyses!Write, Analyses!Read, Analyses!At
<1>3. /\ RNet' /\ Only(s) /\ DOMAIN net'[s] = DOMAIN net[s] \cup {"ans"} /\ net'[s].st = "done"
      /\ \A f \in DOMAIN net[s] \ {"st"} : net'[s][f] = net[s][f]
      /\ "ans" \notin DOMAIN net[s] => net'[s].ans = w
  BY <1>1, <1>2, RAnswered DEF NSeen
<1>4. CASE hist.odd
  BY <1>1, <1>3, <1>4, NOdd DEF NSeen
<1>5. CASE ~hist.odd
  <2>1. NAsk(s) /\ {"op", "st", "mine"} \subseteq DOMAIN net[s]
    BY <1>1, <1>5 DEF NSeen, NCalm, RNet, RShape
  <2>2. net'[s].ans = w /\ net'[s].op = net[s].op /\ net'[s].mine = TRUE /\ net'[s].st = "done"
    BY <1>1, <1>3, <2>1 DEF NAsk
  <2>3. CASE Analyses!Read(s) /\ w = db.list /\ db' = db /\ net[s].op = "load"
    <3>1. "select" \in DOMAIN net'[s] /\ net'[s].select = net[s].select /\ net[s].select \in NHere
      BY <1>3, <2>1, <2>3 DEF NAsk
    <3>2. NAsk(s)'
      BY <1>1, <1>3, <2>1, <2>2, <2>3 DEF NAsk, NHere
    <3> QED
      BY <1>1, <1>3, <1>5, <2>2, <3>2, NGoesOn DEF R!NoCall
  <2>4. CASE Analyses!Write(s) /\ w = db.next
    <3>1. net[s].op \in {"create", "duplicate", "remove"} /\ db'.list = Analyses!Written(net[s])
      BY <2>4 DEF Analyses!Write, Analyses!Changes
    <3>2. CASE net[s].op = "remove"
      <4>1. DOMAIN db'.list = DOMAIN db.list \ {net[s].i}
        BY <3>1, <3>2 DEF Analyses!Written
      <4>2. net'[s].active = net[s].active /\ net'[s].i = net[s].i
        BY <1>3, <2>1, <3>2 DEF NAsk
      <4>3. ~net[s].active => ui.selected \in NHere'
        BY <1>1, <2>1, <3>2, <4>1 DEF NAsk, NHere
      <4>4. {"active", "i"} \subseteq DOMAIN net'[s]
        BY <1>3, <2>1, <3>2 DEF NAsk
      <4>5. NAsk(s)'
        BY <1>1, <2>1, <2>2, <3>2, <4>2, <4>3, <4>4 DEF NAsk
      <4> QED
        BY <1>1, <1>3, <1>5, <2>2, <4>5, NGoesOn DEF R!NoCall
    <3>3. CASE net[s].op \in {"create", "duplicate"}
      <4>1. DOMAIN db'.list = DOMAIN db.list \cup {db.next}
        BY <3>1, <3>3 DEF Analyses!Written, Analyses!Entered
      <4>2. ui.selected \in NHere' /\ w \in NHere'
        BY <1>1, <2>1, <2>4, <3>3, <4>1 DEF NAsk, NHere
      <4>3. NAsk(s)'
        BY <1>1, <2>1, <2>2, <3>3, <4>2 DEF NAsk
      <4> QED
        BY <1>1, <1>3, <1>5, <2>2, <4>3, NGoesOn DEF R!NoCall
    <3> QED
      BY <3>1, <3>2, <3>3
  <2> QED
    BY <1>2, <2>3, <2>4
<1> QED
  BY <1>4, <1>5

-----------------------------------------------------------------------------
\* A handler of a panel that is on the screen sets what it means to.
LEMMA NSetHere ==
    ASSUME NEW s, NEW u, DOMAIN u = NFields, net[s].mine = TRUE, Analyses!Set(s, u)
    PROVE  ui'.mounted = u.mounted /\ ui'.list = u.list /\ ui'.selected = u.selected
BY NShow DEF Analyses!Set

LEMMA NReloaded ==
    ASSUME NSeen, NEW s \in R!Slots, NEW i, Analyses!Reload(s, i), net[s] # R!NoCall
    PROVE  /\ RNet' /\ Only(s) /\ net'[s].op = "load" /\ net'[s].st = "sent" /\ net'[s].select = i
           /\ net'[s].mine = net[s].mine /\ DOMAIN net'[s] = {"op", "select", "first", "st", "mine"}
<1> DEFINE q == Analyses!Extended(Analyses!Load(i), [st |-> "sent", mine |-> net[s].mine])
<1>1. Only(s) /\ net'[s] = q
  BY DEF Analyses!Reload, NSeen, RNet, Only
<1>2. /\ DOMAIN q = {"op", "select", "first", "st", "mine"} /\ q.op = "load" /\ q.st = "sent" /\ q.select = i
      /\ q.mine = net[s].mine
  BY DEF Analyses!Extended, Analyses!Load
<1> HIDE DEF q
<1>3. RNet'
  BY <1>1, <1>2 DEF NSeen, RNet, RShape, Only
<1> QED
  BY <1>1, <1>2, <1>3

\* A change is through: the list is loaded again.
LEMMA NChanged ==
    ASSUME NSeen, NInv', NEW s \in R!Slots, Analyses!Created(s) \/ Analyses!Duplicated(s) \/ Analyses!Removed(s)
    PROVE  NSeen'
<1>1. PICK i : /\ Analyses!Reload(s, i)
               /\ \/ i = net[s].ans /\ net[s].op \in {"create", "duplicate"}
                  \/ i = Analyses!None /\ net[s].op = "remove"
  BY DEF Analyses!Created, Analyses!Duplicated, Analyses!Removed, Analyses!At
<1>2. db' = db /\ hist' = hist /\ net[s] # R!NoCall /\ net[s].st = "done"
  BY DEF Analyses!Created, Analyses!Duplicated, Analyses!Removed, Analyses!At, R!NoCall
<1>3. /\ RNet' /\ Only(s) /\ net'[s].op = "load" /\ net'[s].st = "sent" /\ net'[s].select = i
      /\ net'[s].mine = net[s].mine /\ DOMAIN net'[s] = {"op", "select", "first", "st", "mine"}
  BY <1>1, <1>2, NReloaded
<1>4. CASE hist.odd
  BY <1>2, <1>3, <1>4, NOdd DEF NSeen
<1>5. CASE ~hist.odd
  <2>1. NAsk(s) /\ net[s].mine = TRUE /\ ui.mounted /\ DOMAIN ui = NFields
    BY <1>2, <1>5 DEF NSeen, NCalm, NAsk, NInv
  <2>2. PICK u : /\ Analyses!Set(s, u) /\ DOMAIN u = NFields /\ u.mounted
                 /\ u.selected = IF net[s].op = "remove" /\ net[s].active THEN Analyses!None ELSE ui.selected
    <3> DEFINE u1 == [ui EXCEPT !.capturing = FALSE, !.points = 0, !.busy = FALSE]
               u2 == [ui EXCEPT !.busy = FALSE]
               u3 == [ui EXCEPT !.busy = FALSE, !.selected = IF net[s].active THEN Analyses!None ELSE @]
    <3>1. /\ DOMAIN u1 = NFields /\ u1.mounted /\ u1.selected = ui.selected
          /\ DOMAIN u2 = NFields /\ u2.mounted /\ u2.selected = ui.selected
          /\ DOMAIN u3 = NFields /\ u3.mounted /\ u3.selected = IF net[s].active THEN Analyses!None ELSE ui.selected
      BY <2>1 DEF NFields
    <3>2. \/ Analyses!Set(s, u1) /\ net[s].op = "create"
          \/ Analyses!Set(s, u2) /\ net[s].op = "duplicate"
          \/ Analyses!Set(s, u3) /\ net[s].op = "remove"
      BY DEF Analyses!Created, Analyses!Duplicated, Analyses!Removed, Analyses!At
    <3> HIDE DEF u1, u2, u3
    <3> QED
      BY <3>1, <3>2
  <2>3. ui'.mounted /\ ui'.selected = u.selected
    BY <2>1, <2>2, NSetHere
  <2>4. NHere' = NHere /\ u.selected \in NHere /\ i \in NHere
    BY <1>1, <1>2, <2>1, <2>2 DEF NAsk, NHere
  <2>5. NAsk(s)'
    BY <1>3, <2>1, <2>3, <2>4 DEF NAsk, NOps
  <2>6. net'[s] # R!NoCall
    BY <1>3 DEF R!NoCall
  <2> QED
    BY <1>2, <1>3, <1>5, <2>5, <2>6, NGoesOn
<1> QED
  BY <1>4, <1>5

LEMMA NLoads ==
    ASSUME NSeen, NInv', NEW s \in R!Slots, Analyses!Loaded(s)
    PROVE  NSeen'
<1>1. db' = db /\ hist' = hist /\ net[s] # R!NoCall /\ net[s].st = "done" /\ net[s].op = "load"
  BY DEF Analyses!Loaded, Analyses!At, R!NoCall
<1>2. RNet' /\ Only(s) /\ net'[s] = R!NoCall
  BY NLinks, RSettled DEF Analyses!Loaded, NSeen
<1>3. CASE hist.odd
  BY <1>1, <1>2, <1>3, NOdd DEF NSeen
<1>4. CASE ~hist.odd
  <2>1. NAsk(s) /\ net[s].mine = TRUE /\ ui.mounted /\ DOMAIN ui = NFields
    BY <1>1, <1>4 DEF NSeen, NCalm, NAsk, NInv
  <2> DEFINE vehicle == ui.vehicle \/ net[s].first
             u == [ui EXCEPT !.list = net[s].ans, !.vehicle = vehicle,
                             !.selected = IF net[s].select = Analyses!None THEN @ ELSE net[s].select]
  <2>2. Analyses!Set(s, u)
    BY DEF Analyses!Loaded, Analyses!Listed
  <2> HIDE DEF vehicle
  <2>3. /\ DOMAIN u = NFields /\ u.mounted /\ u.list = net[s].ans
        /\ u.selected = IF net[s].select = Analyses!None THEN ui.selected ELSE net[s].select
    BY <2>1 DEF NFields
  <2> HIDE DEF u
  <2>4. ui'.mounted /\ ui'.list = net[s].ans /\ ui'.selected = u.selected
    BY <2>1, <2>2, <2>3, NSetHere
  <2>5. ui'.selected \in NHere' /\ ui'.list = db'.list
    BY <1>1, <2>1, <2>3, <2>4 DEF NAsk, NHere
  <2> QED
    BY <1>1, <1>2, <1>4, <2>4, <2>5, NGoesOn
<1> QED
  BY <1>3, <1>4

LEMMA NSeenStep ==
    ASSUME NSeen, [Analyses!Next]_Analyses!vars
    PROVE  NSeen'
<1>1. NInv'
  BY NStep DEF NSeen
<1>2. CASE UNCHANGED Analyses!vars
  <2>1. RNet' /\ (RAlone => RAlone') /\ (RQuiet' => RQuiet) /\ NHere' = NHere
    BY <1>2 DEF Analyses!vars, NSeen, RNet, RAlone, RLone, RQuiet, NHere
  <2> QED
    BY <1>1, <1>2, <2>1 DEF Analyses!vars, NSeen, NCalm, NRest, NAsk
<1>3. ASSUME NEW s \in R!Slots, Analyses!Failed(s) PROVE NSeen'
  <2>1. RNet' /\ DOMAIN hist' = {"odd"} /\ hist'.odd = TRUE
    BY <1>3, NLinks, RSettled DEF Analyses!Failed, NSeen
  <2> QED
    BY <1>1, <2>1, NOdd
<1>4. CASE Analyses!User
  <2>3. \/ \/ \E kind \in Analyses!Kinds : Analyses!ChooseKind(kind)
           \/ \E b \in DOMAIN ui.list : Analyses!AskDelete(b)
           \/ \E clicked \in BOOLEAN : Analyses!AddPoint(clicked)
           \/ Analyses!Draw \/ Analyses!DropPoint \/ Analyses!CancelDraw \/ Analyses!CancelDelete
        \/ (\E b \in DOMAIN ui.list : Analyses!Select(b)) \/ Analyses!Leave
        \/ Analyses!RunDrawing \/ (\E b \in DOMAIN ui.list : Analyses!Duplicate(b)) \/ Analyses!ConfirmDelete
        \/ Analyses!Return
    BY <1>4 DEF Analyses!User
  <2>4. CASE \/ \E kind \in Analyses!Kinds : Analyses!ChooseKind(kind)
             \/ \E b \in DOMAIN ui.list : Analyses!AskDelete(b)
             \/ \E clicked \in BOOLEAN : Analyses!AddPoint(clicked)
             \/ Analyses!Draw \/ Analyses!DropPoint \/ Analyses!CancelDraw \/ Analyses!CancelDelete
    <3>1. CASE \E kind \in Analyses!Kinds : Analyses!ChooseKind(kind)
      BY <1>1, <3>1, NLooks
    <3>2. CASE \E b \in DOMAIN ui.list : Analyses!AskDelete(b)
      BY <1>1, <3>2, NLooks
    <3>3. CASE \E clicked \in BOOLEAN : Analyses!AddPoint(clicked)
      BY <1>1, <3>3, NLooks
    <3>4. CASE Analyses!Draw \/ Analyses!DropPoint \/ Analyses!CancelDraw \/ Analyses!CancelDelete
      BY <1>1, <3>4, NLooks
    <3> QED
      BY <2>4, <3>1, <3>2, <3>3, <3>4
  <2>5. CASE (\E b \in DOMAIN ui.list : Analyses!Select(b)) \/ Analyses!Leave
    BY <1>1, <2>5, NPicks
  <2>6. CASE Analyses!Return
    BY <1>1, <2>6, NReturns
  <2>7. CASE Analyses!RunDrawing \/ (\E b \in DOMAIN ui.list : Analyses!Duplicate(b)) \/ Analyses!ConfirmDelete
    <3>1. CASE ui.mounted
      BY <1>1, <2>7, <3>1, NRuns
    <3>2. CASE ~ui.mounted
      <4>5. Analyses!ConfirmDelete
        BY <2>7, <3>2 DEF Analyses!RunDrawing, Analyses!Duplicate, Analyses!Here
      <4> DEFINE r == [op |-> "remove", i |-> ui.pending, active |-> ui.pending = ui.selected]
      <4>4. R!Send(r) /\ Analyses!Crossing /\ ui.pending # Analyses!None
        BY <4>5, NLinks DEF Analyses!ConfirmDelete, Analyses!Run
      <4>1. RNet' /\ Analyses!Crossing
        BY <4>4, RSent DEF NSeen
      <4>2. CASE hist'.odd = TRUE
        BY <1>1, <4>1, <4>2, NCrossed, NOdd
      <4>3. CASE hist'.odd # TRUE
        BY <3>2, <4>3, <4>4, NCrossed DEF NRest
      <4> QED
        BY <4>2, <4>3
    <3> QED
      BY <3>1, <3>2
  <2> QED
    BY <2>3, <2>4, <2>5, <2>6, <2>7
<1> QED
  BY <1>1, <1>2, <1>3, <1>4, NLinks, NServes, NChanged, NLoads DEF Analyses!Next, Analyses!Settles

LEMMA NSeenInit ==
    ASSUME Analyses!Init
    PROVE  NSeen
<1> DEFINE r == Analyses!FirstLoad
<1>1. /\ "op" \in DOMAIN r /\ {"st", "mine"} \cap DOMAIN r = {} /\ "ans" \notin DOMAIN r /\ r.op = "load"
      /\ "select" \in DOMAIN r /\ r.select = Analyses!None
  BY DEF Analyses!FirstLoad
<1>2. net = [R!NoCalls EXCEPT ![1] = R!Asked(r)]
  BY DEF Analyses!Init, Analyses!NoCalls, R!NoCalls, Analyses!Asked, R!Asked, Analyses!Extended, R!Extended,
         Analyses!Slots, R!Slots, Analyses!NoCall, R!NoCall
<1> HIDE DEF r
<1>3. 1 \in R!Slots
  BY ScreensAssumption DEF R!Slots
<1>4. RNet /\ net[1] = R!Asked(r) /\ \A s \in R!Slots \ {1} : net[s] = R!NoCall
  BY <1>1, <1>2, <1>3, RStart DEF R!NoCalls
<1>5. /\ net[1].op = "load" /\ net[1].st = "sent" /\ net[1].mine = TRUE /\ "ans" \notin DOMAIN net[1]
      /\ net[1].select = Analyses!None /\ "select" \in DOMAIN net[1]
  <2> DEFINE q == R!Asked(r)
  <2>1. /\ DOMAIN q = DOMAIN r \cup {"st", "mine"} /\ q.st = "sent" /\ q.mine = TRUE
        /\ \A f \in DOMAIN r : q[f] = r[f]
    BY <1>1, RAsked
  <2>2. net[1] = q
    BY <1>4
  <2> HIDE DEF q
  <2> QED
    BY <1>1, <2>1, <2>2
<1>6. NInv /\ DOMAIN hist = {"odd"} /\ hist.odd = FALSE
  BY NInit DEF Analyses!Init
<1>7. ui.mounted = TRUE /\ ui.selected = Analyses!None
  <2>1. Analyses!Panel.mounted = TRUE /\ DOMAIN Analyses!Panel = NFields \ {"selected", "paths", "result"}
    BY DEF Analyses!Panel, NFields
  <2>2. DOMAIN Analyses!Scene = {"selected", "paths", "result"} /\ Analyses!Scene.selected = Analyses!None
    BY DEF Analyses!Scene
  <2>3. ui = Analyses!Extended(Analyses!Panel, Analyses!Scene)
    BY DEF Analyses!Init
  <2> QED
    BY <2>1, <2>2, <2>3 DEF Analyses!Extended, NFields
<1>8. NAsk(1) /\ RAlone /\ ~RQuiet
  BY <1>3, <1>4, <1>5, <1>7 DEF NAsk, NOps, NHere, RAlone, RLone, RQuiet, R!NoCall
<1>9. \A s \in R!Slots : net[s] # R!NoCall => NAsk(s)
  BY <1>4, <1>8
<1> QED
  BY <1>4, <1>6, <1>8, <1>9 DEF NSeen, NCalm

LEMMA NSeenShows ==
    ASSUME NSeen
    PROVE  Analyses!ShowsAnalyses
<1>1. RQuiet /\ ~hist.odd => NRest /\ (ui.mounted => ui.result \in NHere)
  BY NDrawn DEF NSeen, NCalm, NRest
<1> QED
  BY <1>1, NLinks DEF Analyses!ShowsAnalyses, NRest, NHere

-----------------------------------------------------------------------------
(* The account: what the shell shows, it shows to a session.               *)
\* No account, no password and no link to use.
ABare(d) == d.row.id = 0 => d.row.password = FALSE /\ \A k \in Account!Kinds : d.row.link[k] = 0
\* What a request of this page and this session, or an answer to it, may lead to.
AWaits(r, page, who) ==
    r = Account!NoCall \/
        /\ r.mine \in BOOLEAN
        /\ r.op \in {"login", "accept"} /\ r.st = "done" => r.ans # 0
        /\ r.op = "me" => "who" \in DOMAIN r /\ (r.st = "done" => "ans" \in DOMAIN r /\ r.ans \in BOOLEAN /\ (r.ans => r.who # 0))
        /\ r.op = "me" /\ r.mine => page = "app" /\ (r.who # 0 => who # 0)
        /\ r.op \in {"signup", "forgot", "verify"} /\ r.mine => page # "app"
ACrowd(calls, page, who) == \A s \in Account!Slots : AWaits(calls[s], page, who)
AShell ==
    /\ AInv /\ ABare(db) /\ DOMAIN ui = {"page", "link", "me", "busy"} /\ Account!Guarded
    /\ ACrowd(net, ui.page, hist.who)

\* What was asked for leaves; what is asked on the way in waits for its answer.
LEMMA AAskedWaits ==
    ASSUME NEW r, "op" \in DOMAIN r, {"st", "mine", "ans"} \cap DOMAIN r = {}, NEW page, NEW who,
           r.op = "me" => "who" \in DOMAIN r /\ page = "app" /\ (r.who # 0 => who # 0),
           r.op \in {"signup", "forgot", "verify"} => page # "app"
    PROVE  AWaits(Account!Asked(r), page, who)
<1> DEFINE q == Account!Asked(r)
<1>1. DOMAIN q = DOMAIN r \cup {"st", "mine"} /\ q.st = "sent" /\ q.mine = TRUE /\ \A f \in DOMAIN r : q[f] = r[f]
  BY DEF Account!Asked, Account!Extended
<1> HIDE DEF q
<1>2. AWaits(q, page, who)
  BY <1>1 DEF AWaits
<1> QED
  BY <1>2 DEF q

LEMMA ALeftWaits ==
    ASSUME NEW d, NEW r, ASlot(d, r), r # Account!NoCall, NEW page, NEW who, AWaits(r, page, who),
           NEW other, NEW now
    PROVE  AWaits([r EXCEPT !.mine = FALSE], other, now)
<1> DEFINE q == [r EXCEPT !.mine = FALSE]
<1>1. DOMAIN q = DOMAIN r /\ \A f \in DOMAIN r \ {"mine"} : q[f] = r[f]
  OBVIOUS
<1>2. q.mine = FALSE
  BY DEF ASlot
<1> HIDE DEF q
<1>3. q.op = r.op /\ q.st = r.st /\ ("who" \in DOMAIN r => q.who = r.who)
  BY <1>1 DEF ASlot
<1>4. r.st = "done" /\ r.op \in {"login", "accept", "me"} => q.ans = r.ans
  BY <1>1 DEF ASlot, AWaits
<1>5. AWaits(q, other, now)
  BY <1>1, <1>2, <1>3, <1>4 DEF AWaits
<1> QED
  BY <1>5 DEF q

LEMMA AWayIn ==
    ASSUME NEW d, NEW calls, ACalls(d, calls), NEW old, NEW was, ACrowd(calls, old, was),
           NEW page, NEW l, NEW who, Account!Enter(calls, page, l, who), NEW now, who # 0 => now # 0
    PROVE  ACrowd(net', ui'.page, now) /\ DOMAIN ui' = {"page", "link", "me", "busy"} /\ ui'.me = FALSE
<1> DEFINE left == [s \in Account!Slots |-> IF calls[s] = Account!NoCall THEN Account!NoCall
                                            ELSE [calls[s] EXCEPT !.mine = FALSE]]
           to == IF page = "verify" /\ l = 0 THEN "refused" ELSE page
<1>1. ACrowd(left, to, now)
  <2>1. \A s \in Account!Slots : AWaits(left[s], to, now)
    <3> TAKE s \in Account!Slots
    <3>1. ASlot(d, calls[s]) /\ AWaits(calls[s], old, was)
      BY DEF ACalls, ACrowd
    <3>2. CASE calls[s] = Account!NoCall
      BY <3>2 DEF AWaits
    <3>3. CASE calls[s] # Account!NoCall
      BY <3>1, <3>3, ALeftWaits
    <3> QED
      BY <3>2, <3>3
  <2> QED
    BY <2>1 DEF ACrowd
<1>2. \/ net' = left
      \/ \E s \in Account!Slots, r \in Account!Opening(page, l, who) : net' = [left EXCEPT ![s] = Account!Asked(r)]
  BY DEF Account!Enter
<1>3. DOMAIN left = Account!Slots
  OBVIOUS
<1> HIDE DEF left
<1>4. ui'.page = to /\ ui'.me = FALSE /\ DOMAIN ui' = {"page", "link", "me", "busy"}
  BY DEF Account!Enter, Account!At0
<1>5. ASSUME NEW r \in Account!Opening(page, l, who) PROVE AWaits(Account!Asked(r), to, now)
  <2>1. /\ "op" \in DOMAIN r /\ {"st", "mine", "ans"} \cap DOMAIN r = {} /\ r.op \in {"me", "verify"}
        /\ r.op = "me" => "who" \in DOMAIN r /\ r.who = who /\ page = "app"
        /\ r.op = "verify" => page = "verify"
    BY DEF Account!Opening
  <2> QED
    BY <2>1, AAskedWaits
<1> QED
  BY <1>1, <1>2, <1>3, <1>4, <1>5 DEF ACrowd

LEMMA AVisits ==
    ASSUME NEW d, NEW calls, ACalls(d, calls), NEW old, NEW was, ACrowd(calls, old, was),
           NEW page, NEW l, NEW who, Account!Visit(calls, page, l, who), NEW now, who # 0 => now # 0
    PROVE  ACrowd(net', ui'.page, now) /\ DOMAIN ui' = {"page", "link", "me", "busy"} /\ ui'.me = FALSE
BY AWayIn DEF Account!Visit

LEMMA AFreed ==
    ASSUME AShell, NEW s
    PROVE  ACrowd(Account!Settled(s), ui.page, hist.who)
BY DEF AShell, AInv, ACalls, ACrowd, AWaits, Account!Settled
-----------------------------------------------------------------------------
LEMMA AVisitorGuarded ==
    ASSUME AShell, AInv', \/ \E page \in Account!Forms \cup {"app"} : Account!Navigate(page)
                          \/ \E m \in db.mailed : Account!FollowMail(m)
                          \/ Account!SubmitPage \/ Account!Resend \/ Account!Logout \/ Account!DeleteOrganization
    PROVE  AShell'
<1>1. db' = db /\ hist'.who = hist.who /\ ACalls(db, net) /\ ACrowd(net, ui.page, hist.who)
  <2>1. db' = db /\ Account!Turn
    BY DEF Account!Navigate, Account!FollowMail, Account!SubmitPage, Account!Submit, Account!Resend, Account!Logout,
         Account!DeleteOrganization, Account!Ask
  <2> QED
    BY <2>1, ATurned DEF AShell, AInv
<1>2. CASE \/ \E page \in Account!Forms \cup {"app"} : Account!Navigate(page)
           \/ \E m \in db.mailed : Account!FollowMail(m)
  <2>1. \E page, l : Account!Visit(net, page, l, hist.who)
    BY <1>2 DEF Account!Navigate, Account!FollowMail
  <2>2. ACrowd(net', ui'.page, hist.who) /\ DOMAIN ui' = {"page", "link", "me", "busy"} /\ ui'.me = FALSE
    BY <1>1, <2>1, AVisits
  <2> QED
    BY <1>1, <2>2 DEF AShell, ABare, Account!Guarded
<1>3. ASSUME NEW r, Account!Send(r), "op" \in DOMAIN r, {"st", "mine", "ans"} \cap DOMAIN r = {},
             r.op # "me", r.op \in {"signup", "forgot", "verify"} => ui.page # "app",
             DOMAIN ui' = DOMAIN ui, ui'.page = ui.page, ui'.me = ui.me
      PROVE  AShell'
  <2>1. AWaits(Account!Asked(r), ui.page, hist.who)
    BY <1>3, AAskedWaits
  <2>2. ACrowd(net', ui.page, hist.who)
    BY <1>1, <1>3, <2>1 DEF Account!Send, ACrowd, ACalls
  <2> QED
    BY <1>1, <1>3, <2>2 DEF AShell, ABare, Account!Guarded
<1>4. CASE Account!SubmitPage
  <2> DEFINE r == [op |-> ui.page, l |-> ui.link]
  <2>1. Account!Send(r) /\ ui' = [ui EXCEPT !.busy = TRUE]
    BY <1>4 DEF Account!SubmitPage, Account!Submit
  <2>2. /\ "op" \in DOMAIN r /\ {"st", "mine", "ans"} \cap DOMAIN r = {}
        /\ r.op = ui.page /\ r.op # "me" /\ r.op # "app"
    BY <1>4 DEF Account!SubmitPage
  <2>3. DOMAIN ui' = DOMAIN ui /\ ui'.page = ui.page /\ ui'.me = ui.me
    BY <2>1 DEF AShell
  <2> HIDE DEF r
  <2> QED
    BY <1>3, <2>1, <2>2, <2>3
<1>5. ASSUME NEW op \in {"resend", "logout", "delete"}, Account!Ask(op) PROVE AShell'
  <2> DEFINE r == [op |-> op, who |-> hist.who]
  <2>1. Account!Send(r) /\ ui' = ui
    BY <1>5 DEF Account!Ask
  <2>2. "op" \in DOMAIN r /\ {"st", "mine", "ans"} \cap DOMAIN r = {} /\ r.op = op
    OBVIOUS
  <2> HIDE DEF r
  <2> QED
    BY <1>3, <1>5, <2>1, <2>2
<1> QED
  BY <1>2, <1>4, <1>5 DEF Account!Resend, Account!Logout, Account!DeleteOrganization

\* A session is of an account: what a login or an invitation is answered with is not 0.
LEMMA AHandlersGuarded ==
    ASSUME AShell, AInv', NEW s \in Account!Slots,
           \/ Account!SignedIn(s) \/ Account!SignedOut(s) \/ Account!ToLogin(s)
           \/ Account!Shown(s) \/ Account!Ended(s) \/ Account!Failed(s)
    PROVE  AShell'
<1> DEFINE calls == Account!Settled(s)
<1>1. db' = db /\ ACalls(db, calls) /\ ACrowd(calls, ui.page, hist.who)
  BY ASettled, AFreed DEF AShell, AInv, Account!SignedIn, Account!SignedOut, Account!ToLogin, Account!Shown,
         Account!Ended, Account!Failed, Account!Mine
<1> HIDE DEF calls
<1>2. ABare(db') /\ DOMAIN hist = {"who", "turns", "lapsed"}
  BY <1>1 DEF AShell, AInv, AHist
<1>3. ASSUME NEW page, NEW l, NEW who,
             Account!Visit(calls, page, l, who) \/ Account!Enter(calls, page, l, who),
             who # 0 => hist'.who # 0
      PROVE  AShell'
  <2>1. ACrowd(net', ui'.page, hist'.who) /\ DOMAIN ui' = {"page", "link", "me", "busy"} /\ ui'.me = FALSE
    BY <1>1, <1>3, AVisits, AWayIn
  <2> QED
    BY <1>2, <2>1 DEF AShell, Account!Guarded
<1>4. CASE Account!SignedIn(s)
  <2>1. /\ net[s].op \in {"login", "accept"} /\ net[s].st = "done" /\ hist' = [hist EXCEPT !.who = net[s].ans]
        /\ IF ui.page = "app" THEN net' = calls /\ ui' = ui ELSE Account!Enter(calls, "app", 0, net[s].ans)
    BY <1>4 DEF Account!SignedIn, Account!At, Account!Cookie, calls
  <2>2. net[s].ans # 0 /\ hist'.who = net[s].ans
    BY <1>2, <2>1 DEF AShell, ACrowd, AWaits, Account!NoCall
  <2>3. CASE ui.page = "app"
    <3>1. ACrowd(net', ui'.page, hist'.who)
      BY <1>1, <2>1, <2>2, <2>3 DEF ACrowd, AWaits
    <3> QED
      BY <1>2, <2>1, <2>2, <2>3, <3>1 DEF AShell, Account!Guarded
  <2> QED
    BY <1>3, <2>1, <2>2, <2>3
<1>5. CASE Account!SignedOut(s)
  BY <1>3, <1>5 DEF Account!SignedOut, calls
<1>6. CASE Account!ToLogin(s)
  BY <1>3, <1>6 DEF Account!ToLogin, calls
<1>7. ASSUME NEW u, Account!Mine(s, u), DOMAIN u = DOMAIN ui,
             net[s].mine => /\ (u.page = "app" <=> ui.page = "app") /\ (u.page = ui.page \/ ui.page # "app")
                            /\ u.me => u.page = "app" /\ hist.who # 0
      PROVE  AShell'
  <2>1. net' = calls /\ hist' = hist /\ ui' = IF net[s].mine THEN u ELSE ui
    BY <1>7 DEF Account!Mine, calls
  <2>2. ui'.page = "app" <=> ui.page = "app"
    BY <1>7, <2>1
  <2>3. ACrowd(net', ui'.page, hist'.who)
    BY <1>1, <2>1, <2>2 DEF ACrowd, AWaits
  <2>4. DOMAIN ui' = {"page", "link", "me", "busy"} /\ (ui'.me => ui'.page = "app" /\ hist'.who # 0)
    BY <1>7, <2>1 DEF AShell, Account!Guarded
  <2> QED
    BY <1>2, <2>3, <2>4 DEF AShell, Account!Guarded
<1>8. AWaits(net[s], ui.page, hist.who) /\ DOMAIN ui = {"page", "link", "me", "busy"} /\ (ui.me => ui.page = "app" /\ hist.who # 0)
  BY DEF AShell, ACrowd, Account!Guarded
<1>9. CASE Account!Shown(s)
  <2> DEFINE u == [ui EXCEPT !.me = TRUE]
  <2>1. Account!Mine(s, u) /\ net[s].op = "me" /\ net[s].st = "done" /\ net[s].ans
    BY <1>9 DEF Account!Shown, Account!At
  <2>2. net[s].mine => ui.page = "app" /\ hist.who # 0
    BY <1>8, <2>1 DEF AWaits, Account!NoCall
  <2>3. DOMAIN u = DOMAIN ui /\ u.page = ui.page
    BY <1>8
  <2> HIDE DEF u
  <2> QED
    BY <1>7, <2>1, <2>2, <2>3
<1>10. ASSUME NEW u, Account!Mine(s, u), net[s].op \in {"signup", "forgot", "verify"},
              DOMAIN u = DOMAIN ui, u.page \in Account!Ends, u.me = ui.me
       PROVE  AShell'
  <2>1. (net[s].mine => ui.page # "app") /\ u.page # "app"
    BY <1>8, <1>10 DEF AWaits, Account!NoCall, Account!Ends
  <2> QED
    BY <1>7, <1>8, <1>10, <2>1
<1>11. ASSUME NEW u, Account!Mine(s, u), DOMAIN u = DOMAIN ui, u.page = ui.page, u.me = ui.me
       PROVE  AShell'
  BY <1>7, <1>8, <1>11
<1>12. CASE Account!Ended(s) \/ Account!Failed(s)
  <2>1. \E u : /\ Account!Mine(s, u) /\ DOMAIN u = DOMAIN ui /\ u.me = ui.me
               /\ \/ u.page = ui.page
                  \/ u.page \in Account!Ends /\ net[s].op \in {"signup", "forgot", "verify"}
    <3>1. CASE Account!Mine(s, ui)
      BY <3>1
    <3>2. CASE Account!Mine(s, [ui EXCEPT !.busy = FALSE])
      BY <1>8, <3>2
    <3>3. ASSUME NEW page \in Account!Ends, net[s].op \in {"signup", "forgot", "verify"},
                 \/ Account!Mine(s, [ui EXCEPT !.page = page, !.busy = FALSE])
                 \/ Account!Mine(s, [ui EXCEPT !.page = page])
          PROVE  \E u : Account!Mine(s, u) /\ DOMAIN u = DOMAIN ui /\ u.me = ui.me /\ u.page \in Account!Ends
      <4>1. /\ [ui EXCEPT !.page = page, !.busy = FALSE].page = page /\ [ui EXCEPT !.page = page].page = page
            /\ [ui EXCEPT !.page = page, !.busy = FALSE].me = ui.me /\ [ui EXCEPT !.page = page].me = ui.me
        BY <1>8
      <4> QED
        BY <3>3, <4>1
    <3> QED
      BY <1>12, <3>1, <3>2, <3>3 DEF Account!Ended, Account!Failed, Account!At, Account!Ends
  <2> QED
    BY <1>10, <1>11, <2>1
<1> QED
  BY <1>4, <1>5, <1>6, <1>9, <1>12

\* The row, and the server's answers: a session is asked for by its account.
LEMMA ALinkedFull ==
    ASSUME ABare(db), AInv, NEW row, NEW kind \in Account!Kinds, Account!Linked(row, kind),
           DOMAIN row = {"id", "password", "verified", "link"}, DOMAIN row.link = Account!Kinds, row.id # 0
    PROVE  ABare(db')
<1>1. db'.row = [row EXCEPT !.link[kind] = db.n + 1]
  BY DEF Account!Linked
<1>2. db'.row.id # 0
  BY <1>1
<1> QED
  BY <1>2 DEF ABare

LEMMA AOthersGuarded ==
    ASSUME AShell, AInv', \/ Account!Invite \/ Account!AdminReset \/ Account!Remove
                          \/ \E k \in Account!Kinds : Account!Expire(k)
    PROVE  AShell'
<1>1. net' = net /\ ui' = ui /\ hist'.who = hist.who /\ ARow(db) /\ db.n \in Nat
  <2>1. net' = net /\ ui' = ui
    BY DEF Account!Invite, Account!AdminReset, Account!Remove, Account!Expire
  <2>2. hist'.who = hist.who
    BY DEF AShell, AInv, AHist, Account!Turn, Account!Invite, Account!AdminReset, Account!Remove, Account!Expire
  <2> QED
    BY <2>1, <2>2 DEF AShell, AInv, ARow
<1>2. ACrowd(net', ui'.page, hist'.who) /\ DOMAIN ui' = {"page", "link", "me", "busy"} /\ Account!Guarded'
  BY <1>1 DEF AShell, Account!Guarded
<1>3. ABare(db')
  <2>1. CASE Account!Invite
    <3> DEFINE row == Account!NewRow(FALSE)
    <3>1. /\ DOMAIN row = {"id", "password", "verified", "link"} /\ DOMAIN row.link = Account!Kinds
          /\ row.id = db.n + 1
      BY DEF Account!NewRow, Account!NoRow
    <3>2. Account!Linked(row, "invite") /\ "invite" \in Account!Kinds
      BY <2>1 DEF Account!Invite, Account!Kinds
    <3> HIDE DEF row
    <3>3. row.id # 0
      BY <1>1, <3>1
    <3> QED
      BY <3>1, <3>2, <3>3, ALinkedFull DEF AShell
  <2>2. CASE Account!AdminReset
    BY <1>1, <2>2, ALinkedFull DEF Account!AdminReset, Account!Kinds, AShell, ARow
  <2>3. CASE Account!Remove
    <3>1. db'.row = Account!NoRow
      BY <1>1, <2>3 DEF Account!Remove, Account!Row, ARow
    <3> QED
      BY <3>1 DEF ABare, Account!NoRow
  <2>4. ASSUME NEW kind \in Account!Kinds, Account!Expire(kind) PROVE ABare(db')
    <3>1. db'.row = [db.row EXCEPT !.link[kind] = 0]
      BY <1>1, <2>4 DEF Account!Expire, Account!Row, ARow
    <3>2. db.row.id # 0
      BY <2>4 DEF Account!Expire, ABare, AShell
    <3>3. db'.row.id = db.row.id
      BY <3>1
    <3> QED
      BY <3>2, <3>3 DEF ABare
  <2> QED
    BY <2>1, <2>2, <2>3, <2>4
<1> QED
  BY <1>2, <1>3 DEF AShell

LEMMA AEffectBare ==
    ASSUME AShell, NEW r, Account!Effect(r)
    PROVE  ABare(db') /\ (r.op \in {"login", "accept"} => db.row.id # 0)
<1>1. ARow(db) /\ ABare(db) /\ AInv /\ db.n \in Nat
  BY DEF AShell, AInv, ARow
<1>2. CASE UNCHANGED db /\ r.op # "accept"
  <2>1. r.op = "login" => db.row.password
    BY DEF Account!Effect
  <2> QED
    BY <1>1, <1>2, <2>1 DEF ABare
<1>3. CASE r.op = "signup"
  <2> DEFINE row == Account!NewRow(TRUE)
  <2>1. /\ DOMAIN row = {"id", "password", "verified", "link"} /\ DOMAIN row.link = Account!Kinds
        /\ row.id = db.n + 1
    BY DEF Account!NewRow, Account!NoRow
  <2>2. Account!Linked(row, "verify") /\ "verify" \in Account!Kinds
    BY <1>3 DEF Account!Effect, Account!Kinds
  <2> HIDE DEF row
  <2>3. row.id # 0
    BY <1>1, <2>1
  <2> QED
    BY <1>1, <1>3, <2>1, <2>2, <2>3, ALinkedFull
<1>4. CASE r.op \in {"resend", "forgot"} /\ ~UNCHANGED db
  <2>1. PICK kind \in {"verify", "reset"} : Account!Linked(db.row, kind) /\ (db.row.id # 0 \/ db.row.password)
    BY <1>4 DEF Account!Effect
  <2>2. db.row.id # 0 /\ kind \in Account!Kinds
    BY <1>1, <2>1 DEF ABare, Account!Kinds
  <2> QED
    BY <1>1, <1>4, <2>1, <2>2, ALinkedFull DEF ARow
<1>5. CASE r.op \in {"verify", "accept", "reset"}
  <2>1. PICK row : Account!Row(row) /\ row.id = db.row.id
    <3>1. Account!Verified(db.row).id = db.row.id /\ \A k : Account!Regained(db.row, k).id = db.row.id
      BY <1>1 DEF ARow, Account!Verified, Account!Regained
    <3> QED
      BY <1>5, <3>1 DEF Account!Effect
  <2>2. \E k \in Account!Kinds : db.row.link[k] # 0
    BY <1>5 DEF Account!Effect, Account!Uses, Account!Kinds
  <2>3. db.row.id # 0 /\ db'.row = row
    BY <1>1, <2>1, <2>2 DEF ABare, Account!Row, ARow
  <2> QED
    BY <2>1, <2>3 DEF ABare
<1>6. CASE r.op = "delete" /\ ~UNCHANGED db
  <2>1. db'.row = Account!NoRow
    BY <1>1, <1>6 DEF Account!Effect, Account!Row, ARow
  <2> QED
    BY <1>6, <2>1 DEF ABare, Account!NoRow
<1>7. r.op \notin {"signup", "login", "resend", "forgot", "verify", "accept", "reset", "delete"} => UNCHANGED db
  BY DEF Account!Effect
<1>8. r.op = "login" => UNCHANGED db
  BY DEF Account!Effect
<1> QED
  BY <1>2, <1>3, <1>4, <1>5, <1>6, <1>7, <1>8

LEMMA AServeGuarded ==
    ASSUME AShell, AInv', NEW s \in Account!Slots, Account!Serve(s)
    PROVE  AShell'
<1> DEFINE w == Account!Word(net[s])
           p == [net[s] EXCEPT !.st = "done"]
           q == Account!Extended(p, [ans |-> w])
<1>1. net[s].st = "sent" /\ Account!Effect(net[s]) /\ Account!Answer(s, w) /\ hist' = hist /\ ui' = ui
  BY DEF Account!Serve
<1>2. ABare(db') /\ (net[s].op \in {"login", "accept"} => w # 0)
  BY <1>1, AEffectBare DEF Account!Word
<1>3. AWaits(net[s], ui.page, hist.who) /\ ASlot(db, net[s]) /\ net[s] # Account!NoCall
  BY <1>1 DEF AShell, AInv, ACrowd, ACalls, Account!NoCall
<1>4. DOMAIN p = DOMAIN net[s] /\ \A f \in DOMAIN p \ {"st"} : p[f] = net[s][f]
  OBVIOUS
<1>5. DOMAIN net' = Account!Slots /\ net'[s] = q /\ \A t \in Account!Slots \ {s} : net'[t] = net[t]
  BY <1>1 DEF Account!Answer, ACalls, AShell, AInv
<1>6. net[s].op = "me" => w \in BOOLEAN /\ (w => net[s].who # 0)
  BY DEF Account!Word, Account!Live
<1> HIDE DEF p, w
<1>7. DOMAIN q = DOMAIN p \cup {"ans"} /\ q.ans = w /\ \A f \in DOMAIN p : q[f] = p[f]
  BY <1>1, <1>3, <1>4 DEF Account!Extended, ASlot
<1> HIDE DEF q
<1>8. /\ {"op", "mine"} \subseteq DOMAIN net[s] /\ q.op = net[s].op /\ q.mine = net[s].mine
      /\ "who" \in DOMAIN net[s] => "who" \in DOMAIN q /\ q.who = net[s].who
  BY <1>3, <1>4, <1>7 DEF ASlot
<1>9. AWaits(q, ui.page, hist.who)
  BY <1>2, <1>3, <1>6, <1>7, <1>8 DEF AWaits
<1>10. ACrowd(net', ui'.page, hist'.who)
  BY <1>1, <1>5, <1>9 DEF ACrowd, AShell
<1> QED
  BY <1>1, <1>2, <1>10 DEF AShell, Account!Guarded

LEMMA AShellInit ==
    ASSUME Account!Init
    PROVE  AShell
<1>1. ABare(db) /\ DOMAIN ui = {"page", "link", "me", "busy"} /\ ui.me = FALSE
  BY DEF Account!Init, ABare, Account!NoRow, Account!At0
<1>2. \A s \in Account!Slots : net[s] = Account!NoCall
  BY DEF Account!Init, Account!NoCalls
<1> QED
  BY <1>1, <1>2, AInit DEF AShell, ACrowd, AWaits, Account!Guarded

LEMMA AShellStep ==
    ASSUME AShell, [Account!Next]_Account!vars
    PROVE  AShell'
<1>1. AInv'
  BY AStep DEF AShell
<1>2. CASE UNCHANGED Account!vars
  BY <1>1, <1>2 DEF Account!vars, AShell, Account!Guarded
<1>3. ASSUME NEW s \in Account!Slots,
             \/ Account!Serve(s) \/ Account!SignedIn(s) \/ Account!SignedOut(s) \/ Account!ToLogin(s)
             \/ Account!Shown(s) \/ Account!Ended(s) \/ Account!Failed(s)
      PROVE  AShell'
  BY <1>1, <1>3, AServeGuarded, AHandlersGuarded
<1>4. CASE \/ \E page \in Account!Forms \cup {"app"} : Account!Navigate(page)
           \/ \E m \in db.mailed : Account!FollowMail(m)
           \/ Account!SubmitPage \/ Account!Resend \/ Account!Logout \/ Account!DeleteOrganization
  BY <1>1, <1>4, AVisitorGuarded
<1>5. CASE \/ Account!Invite \/ Account!AdminReset \/ Account!Remove \/ \E k \in Account!Kinds : Account!Expire(k)
  BY <1>1, <1>5, AOthersGuarded
<1> QED
  BY <1>2, <1>3, <1>4, <1>5 DEF Account!Next

-----------------------------------------------------------------------------
(* The comparisons: what is open, drawn and listed.                        *)
FFields == {"mounted", "batches", "selected", "rows", "busy", "pending", "overlay"}
FOps == {"list", "open", "import", "repair", "delete", "download"}
\* A list is of all there was when it was answered.
FCall(d, r) ==
    r = R!NoCall \/
        /\ r.op \in FOps /\ {"b", "frees"} \subseteq DOMAIN r /\ r.st \in {"sent", "done"}
        /\ r.st = "sent" => "ans" \notin DOMAIN r
        /\ r.op = "delete" => "open" \in DOMAIN r
        /\ r.op = "list" /\ r.st = "done" =>
               /\ "ans" \in DOMAIN r /\ r.ans.changes \in 0 .. d.changes
               /\ r.ans.changes = d.changes => r.ans.batches = d.batches
FShape ==
    /\ RNet /\ DOMAIN ui = FFields /\ DOMAIN hist = {"faulty", "crossed", "seen"} /\ DOMAIN db = {"batches", "changes"}
    /\ {hist.faulty, hist.crossed} \subseteq BOOLEAN /\ db.changes \in Nat /\ hist.seen \in 0 .. db.changes
    /\ \A s \in R!Slots : FCall(db, net[s])
    /\ ~ui.mounted => ui.selected = Field!None /\ \A s \in R!Slots : net[s].op # "none" => net[s].mine = FALSE
FOdd == hist.faulty \/ hist.crossed

\* The request opens a comparison, or may lead to that.
FLeads(r) == r.op \notin {"none", "list"} \/ (r.op = "list" /\ r.b # Field!None)
FAgrees(u) == u.overlay = u.selected /\ u.rows = u.selected
FFits(r, u) ==
    /\ r.mine = TRUE /\ u.mounted
    /\ IF r.op = "open" THEN u.selected = r.b ELSE FAgrees(u) /\ (r.op = "delete" => r.open = u.selected)
FCalm ==
    /\ \A s, t \in R!Slots : FLeads(net[s]) /\ FLeads(net[t]) => s = t
    /\ \A s \in R!Slots : FLeads(net[s]) => FFits(net[s], ui)
    /\ (\A s \in R!Slots : ~FLeads(net[s])) => FAgrees(ui)

\* A list that shows all there is will come.
FComes(s) ==
    /\ net[s] # R!NoCall /\ net[s].mine = TRUE
    /\ \/ net[s].op \in {"import", "delete"}
       \/ net[s].op = "list" /\ (net[s].st = "done" => net[s].ans.changes = db.changes)
FPage == ui.mounted => (\E s \in R!Slots : FComes(s)) \/ (hist.seen = db.changes /\ ui.batches = db.batches)
FSeen == FShape /\ (FOdd \/ (FCalm /\ FPage))

LEMMA FLinks ==
    /\ Field!Slots = R!Slots /\ Field!NoCall = R!NoCall /\ Field!Orphaned = R!Orphaned
    /\ (Field!Quiet <=> RQuiet)
    /\ \A r : Field!Send(r) <=> R!Send(r)
    /\ \A s : Field!Settle(s) <=> R!Settle(s)
    /\ \A s, r : Field!Answer(s, r) <=> R!Answer(s, r)
BY DEF Field!Slots, R!Slots, Field!NoCall, R!NoCall, Field!Orphaned, R!Orphaned, Field!Send, R!Send,
       Field!Settle, R!Settle, Field!Answer, R!Answer, Field!Quiet, RQuiet,
       Field!Asked, R!Asked, Field!Extended, R!Extended

LEMMA FIdle == R!NoCall.op = "none" /\ R!NoCall.st = "idle" /\ ~FLeads(R!NoCall)
BY DEF R!NoCall, FLeads

\* What becomes of the one request that leads to a comparison, or of one that does not.
LEMMA FLed ==
    ASSUME FCalm, NEW s \in R!Slots, Only(s),
           \/ FLeads(net[s]) \/ \A t \in R!Slots : ~FLeads(net[t]),
           IF FLeads(net'[s]) THEN FFits(net'[s], ui') ELSE FAgrees(ui')
    PROVE  FCalm'
BY DEF FCalm, Only

LEMMA FAside ==
    ASSUME FCalm, NEW s \in R!Slots, Only(s), ~FLeads(net[s]), ~FLeads(net'[s]),
           \A f \in {"mounted", "overlay", "selected", "rows"} : ui'[f] = ui[f]
    PROVE  FCalm'
BY DEF FCalm, Only, FFits, FAgrees

LEMMA FPaged ==
    ASSUME FPage, NEW s \in R!Slots, Only(s), db' = db, ui'.mounted => ui.mounted, ui'.batches = ui.batches,
           hist'.seen = hist.seen, FComes(s) => FComes(s)'
    PROVE  FPage'
<1>1. ASSUME NEW t \in R!Slots, FComes(t) PROVE FComes(t)'
  BY <1>1 DEF FComes, Only
<1> QED
  BY <1>1 DEF FPage
-----------------------------------------------------------------------------
\* The user asks for something: it is the only thing that leads to a comparison.
LEMMA FNoted ==
    ASSUME FShape, Field!Notes
    PROVE  /\ DOMAIN hist' = DOMAIN hist /\ hist'.seen = hist.seen /\ hist'.faulty = hist.faulty
           /\ hist'.crossed = (hist.crossed \/ \E s \in R!Slots : FLeads(net[s]))
BY FLinks DEF FShape, Field!Notes, Field!Crossed, FLeads

LEMMA FSends ==
    ASSUME FSeen, NEW r, R!Send(r), Field!Notes, db' = db, DOMAIN ui' = FFields,
           {"op", "b", "frees"} \subseteq DOMAIN r, {"st", "mine", "ans"} \cap DOMAIN r = {},
           r.op \in {"open", "import", "repair", "delete", "download"}, r.op = "delete" => "open" \in DOMAIN r,
           ui.mounted, ui'.mounted, ui'.batches = ui.batches,
           IF r.op = "open" THEN ui'.selected = r.b
           ELSE /\ \A f \in {"overlay", "selected", "rows"} : ui'[f] = ui[f]
                /\ r.op = "delete" => r.open = ui.selected
    PROVE  FSeen'
<1>0. RNet /\ "op" \in DOMAIN r /\ {"st", "mine"} \cap DOMAIN r = {}
  BY DEF FSeen, FShape
<1>1. PICK s \in R!Slots :
         /\ Only(s) /\ net[s] = R!NoCall
         /\ DOMAIN net'[s] = DOMAIN r \cup {"st", "mine"}
         /\ net'[s].st = "sent" /\ net'[s].mine = TRUE /\ \A f \in DOMAIN r : net'[s][f] = r[f]
  BY <1>0, RSent
<1>2. RNet'
  BY <1>0, RSent
<1>3. net'[s].op = r.op /\ net'[s].b = r.b /\ (r.op = "delete" => net'[s].open = r.open) /\ FLeads(net'[s])
  BY <1>1 DEF FLeads
<1>4. FShape'
  <2>1. FCall(db', net'[s])
    BY <1>1, <1>3 DEF FCall, FOps
  <2>2. \A t \in R!Slots : FCall(db', net'[t])
    BY <1>1, <2>1 DEF Only, FSeen, FShape, FCall
  <2> QED
    BY <1>2, <2>2, FNoted DEF FSeen, FShape
<1>5. CASE FOdd'
  BY <1>4, <1>5 DEF FSeen
<1>6. CASE ~FOdd'
  <2>1. ~FOdd /\ \A t \in R!Slots : ~FLeads(net[t])
    BY <1>6, FNoted DEF FOdd, FSeen
  <2>2. FCalm /\ FPage
    BY <2>1 DEF FSeen
  <2>3. FAgrees(ui)
    BY <2>1, <2>2 DEF FCalm
  <2>4. FFits(net'[s], ui')
    BY <1>1, <1>3, <2>3 DEF FFits, FAgrees
  <2>5. FCalm'
    BY <1>1, <1>3, <2>1, <2>2, <2>4, FLed
  <2>6. FPage'
    BY <1>1, <2>2, FPaged, FNoted DEF FComes, FSeen
  <2> QED
    BY <1>4, <2>5, <2>6 DEF FSeen
<1> QED
  BY <1>5, <1>6

\* Nothing is asked: what is looked at changes.
LEMMA FLooks ==
    ASSUME FSeen, net' = net, db' = db, DOMAIN ui' = FFields, ui'.mounted = ui.mounted, ui'.batches = ui.batches,
           \/ hist' = hist /\ \A f \in {"overlay", "selected", "rows"} : ui'[f] = ui[f]
           \/ ui.mounted /\ Field!Notes /\ FAgrees(ui')
    PROVE  FSeen'
<1>1. DOMAIN hist' = DOMAIN hist /\ hist'.seen = hist.seen /\ hist'.faulty = hist.faulty /\ hist'.crossed \in BOOLEAN
  BY FNoted DEF FSeen, FShape
<1>2. FShape'
  <2>1. \A t \in R!Slots : FCall(db', net'[t])
    BY DEF FSeen, FShape, FCall
  <2> QED
    BY <1>1, <2>1 DEF FSeen, FShape, RNet
<1>3. CASE FOdd'
  BY <1>2, <1>3 DEF FSeen
<1>4. CASE ~FOdd'
  <2>1. FCalm /\ FPage
    BY <1>4, FNoted DEF FOdd, FSeen
  <2>2. FPage'
    BY <1>1, <2>1 DEF FPage, FComes
  <2>3. CASE hist' = hist /\ \A f \in {"overlay", "selected", "rows"} : ui'[f] = ui[f]
    BY <1>2, <2>1, <2>2, <2>3 DEF FSeen, FCalm, FFits, FAgrees
  <2>4. CASE Field!Notes /\ FAgrees(ui')
    <3>1. \A t \in R!Slots : ~FLeads(net[t])
      BY <1>4, <2>4, FNoted DEF FOdd, FSeen
    <3> QED
      BY <1>2, <2>2, <2>4, <3>1 DEF FSeen, FCalm
  <2> QED
    BY <2>3, <2>4
<1> QED
  BY <1>3, <1>4

-----------------------------------------------------------------------------
LEMMA FUserStays ==
    ASSUME FSeen, Field!User
    PROVE  FSeen'
<1>1. DOMAIN ui = FFields /\ FShape
  BY DEF FSeen, FShape
<1>2. ASSUME NEW op \in {"import", "repair", "delete", "download"}, NEW b, Field!Run(op, b) PROVE FSeen'
  <2> DEFINE r == [op |-> op, b |-> b, frees |-> TRUE, open |-> ui.selected]
  <2>1. /\ {"op", "b", "frees", "open"} \subseteq DOMAIN r /\ {"st", "mine", "ans"} \cap DOMAIN r = {}
        /\ r.op = op /\ r.open = ui.selected
    OBVIOUS
  <2>2. R!Send(r) /\ Field!Notes /\ db' = db /\ ui.mounted
    BY <1>2, FLinks DEF Field!Run
  <2>3. DOMAIN ui' = FFields /\ \A f \in {"mounted", "batches", "overlay", "selected", "rows"} : ui'[f] = ui[f]
    BY <1>1, <1>2 DEF Field!Run, FFields
  <2> HIDE DEF r
  <2> QED
    BY <2>1, <2>2, <2>3, FSends
<1>3. ASSUME NEW b, Field!ToggleComparison(b) PROVE FSeen'
  <2>1. Field!Notes /\ db' = db /\ ui.mounted
    BY <1>3 DEF Field!ToggleComparison, Field!Panel
  <2>2. CASE ui.selected = b
    <3>1. net' = net /\ ui' = [ui EXCEPT !.selected = Field!None, !.rows = Field!None, !.overlay = Field!None]
      BY <1>3, <2>2 DEF Field!ToggleComparison
    <3>2. DOMAIN ui' = FFields /\ ui'.mounted = ui.mounted /\ ui'.batches = ui.batches /\ FAgrees(ui')
      BY <1>1, <3>1 DEF FFields, FAgrees
    <3> QED
      BY <2>1, <3>1, <3>2, FLooks
  <2>3. CASE ui.selected # b
    <3> DEFINE r == [op |-> "open", b |-> b, frees |-> FALSE]
    <3>1. R!Send(r) /\ ui' = [ui EXCEPT !.selected = b]
      BY <1>3, <2>3, FLinks DEF Field!ToggleComparison
    <3>2. /\ {"op", "b", "frees"} \subseteq DOMAIN r /\ {"st", "mine", "ans"} \cap DOMAIN r = {}
          /\ r.op = "open" /\ r.b = b
      OBVIOUS
    <3>3. DOMAIN ui' = FFields /\ ui'.mounted = ui.mounted /\ ui'.batches = ui.batches /\ ui'.selected = b
      BY <1>1, <3>1 DEF FFields
    <3> HIDE DEF r
    <3> QED
      BY <2>1, <3>1, <3>2, <3>3, FSends
  <2> QED
    BY <2>2, <2>3
<1>4. CASE Field!CancelDelete \/ \E b \in Names : Field!AskDelete(b)
  <2>1. net' = net /\ db' = db /\ hist' = hist
    BY <1>4 DEF Field!CancelDelete, Field!AskDelete
  <2>2. DOMAIN ui' = FFields /\ \A f \in FFields \ {"pending"} : ui'[f] = ui[f]
    BY <1>1, <1>4 DEF Field!CancelDelete, Field!AskDelete
  <2> QED
    BY <2>1, <2>2, FLooks DEF FFields
<1>5. CASE Field!Leave
  <2>1. Field!Notes /\ db' = db /\ net' = R!Orphaned
    BY <1>5, FLinks DEF Field!Leave
  <2>2. DOMAIN ui' = FFields /\ ~ui'.mounted /\ FAgrees(ui')
    BY <1>5 DEF Field!Leave, Field!Fresh, FFields, FAgrees
  <2>3. RNet' /\ \A s \in R!Slots : net'[s] = IF net[s] = R!NoCall THEN R!NoCall ELSE [net[s] EXCEPT !.mine = FALSE]
    BY <1>1, <2>1, ROrphaned DEF FShape, R!Orphaned
  <2>4. ASSUME NEW s \in R!Slots PROVE FCall(db', net'[s]) /\ (FLeads(net'[s]) <=> FLeads(net[s]))
    <3>1. CASE net[s] = R!NoCall
      BY <2>3, <3>1 DEF FCall
    <3>2. CASE net[s] # R!NoCall
      <4> DEFINE q == [net[s] EXCEPT !.mine = FALSE]
      <4>1. DOMAIN q = DOMAIN net[s] /\ \A f \in DOMAIN q \ {"mine"} : q[f] = net[s][f]
        OBVIOUS
      <4>2. net'[s] = q
        BY <2>3, <3>2
      <4> HIDE DEF q
      <4>3. FCall(db, net[s]) /\ {"op", "st", "mine", "b"} \subseteq DOMAIN net[s]
        BY <1>1, <3>2 DEF FShape, RNet, RShape, FCall
      <4>4. q.op = net[s].op /\ q.st = net[s].st /\ q.b = net[s].b /\ ("ans" \in DOMAIN q => q.ans = net[s].ans)
        BY <4>1, <4>3
      <4> QED
        BY <2>1, <3>2, <4>1, <4>2, <4>3, <4>4 DEF FCall, FLeads
    <3> QED
      BY <3>1, <3>2
  <2>5. FShape'
    <3>1. ui'.selected = Field!None /\ \A s \in R!Slots : net'[s].op # "none" => net'[s].mine = FALSE
      <4>1. ui'.selected = Field!None
        BY <1>5 DEF Field!Leave, Field!Fresh, FFields
      <4>2. \A s \in R!Slots : net'[s].op # "none" => net'[s].mine = FALSE
        BY <1>1, <2>3, FIdle DEF FShape, RNet, RShape
      <4> QED
        BY <4>1, <4>2
    <3> QED
      BY <1>1, <2>1, <2>2, <2>3, <2>4, <3>1, FNoted DEF FShape
  <2>6. FOdd' \/ (~FOdd /\ \A s \in R!Slots : ~FLeads(net[s]))
    BY <1>1, <2>1, FNoted DEF FOdd
  <2> QED
    BY <2>2, <2>4, <2>5, <2>6 DEF FSeen, FCalm, FPage
<1>6. CASE Field!Return
  <2> DEFINE r == Field!List(Field!None, FALSE)
  <2>1. R!Send(r) /\ db' = db /\ hist' = hist /\ ~ui.mounted
    BY <1>6, FLinks DEF Field!Return
  <2>2. /\ {"op", "b", "frees"} \subseteq DOMAIN r /\ {"st", "mine", "ans"} \cap DOMAIN r = {}
        /\ r.op = "list" /\ r.b = Field!None
    BY DEF Field!List
  <2> HIDE DEF r
  <2>3. /\ DOMAIN ui' = FFields /\ ui'.mounted /\ ui'.overlay = ui.overlay /\ ui'.selected = Field!None /\ ui'.rows = Field!None
    BY <1>6 DEF Field!Return, Field!Fresh, FFields
  <2>4. PICK s \in R!Slots :
           /\ Only(s) /\ net[s] = R!NoCall
           /\ DOMAIN net'[s] = DOMAIN r \cup {"st", "mine"}
           /\ net'[s].st = "sent" /\ net'[s].mine = TRUE /\ \A f \in DOMAIN r : net'[s][f] = r[f]
    <3>1. RNet /\ "op" \in DOMAIN r /\ {"st", "mine"} \cap DOMAIN r = {}
      BY <1>1, <2>2 DEF FShape
    <3> QED
      BY <2>1, <3>1, RSent
  <2>5. net'[s].op = "list" /\ net'[s].b = Field!None /\ ~FLeads(net'[s]) /\ net'[s] # R!NoCall
    BY <2>2, <2>4, FIdle DEF FLeads
  <2>6. FShape'
    <3>1. FCall(db', net'[s])
      BY <2>2, <2>4, <2>5 DEF FCall, FOps
    <3>2. \A t \in R!Slots : FCall(db', net'[t])
      BY <1>1, <2>1, <2>4, <3>1 DEF Only, FShape
    <3>3. RNet'
      BY <1>1, <2>1, <2>2, RSent DEF FShape
    <3> QED
      BY <1>1, <2>1, <2>3, <3>2, <3>3 DEF FShape
  <2>7. CASE ~FOdd
    <3>1. \A t \in R!Slots : ~FLeads(net'[t])
      BY <2>1, <2>4, <2>5, <2>7 DEF FSeen, FCalm, FFits, Only
    <3>2. FAgrees(ui')
      <4>1. FAgrees(ui)
        BY <2>1, <2>7 DEF FSeen, FCalm, FFits
      <4>2. ui.selected = Field!None
        BY <1>1, <2>1 DEF FShape
      <4> QED
        BY <2>3, <4>1, <4>2 DEF FAgrees
    <3>3. FComes(s)'
      BY <2>4, <2>5 DEF FComes
    <3> QED
      BY <2>6, <3>1, <3>2, <3>3 DEF FSeen, FCalm, FPage
  <2> QED
    BY <2>1, <2>6, <2>7 DEF FSeen, FOdd
<1> QED
  BY <1>2, <1>3, <1>4, <1>5, <1>6 DEF Field!User, Field!Repair, Field!Export, Field!DownloadReport, Field!DeleteBatch,
       Field!Import

-----------------------------------------------------------------------------
\* The server answers with all there is, and may change it first.
LEMMA FServes ==
    ASSUME FSeen, NEW s \in R!Slots, Field!Serve(s)
    PROVE  FSeen'
<1>1. /\ net[s].st = "sent" /\ net[s].op # "none" /\ R!Answer(s, db) /\ ui' = ui /\ hist' = hist /\ FShape
      /\ net[s] # R!NoCall
  BY FLinks, FIdle DEF Field!Serve, FSeen
<1>2. /\ FCall(db, net[s]) /\ {"op", "st", "mine", "b", "frees"} \subseteq DOMAIN net[s] /\ "ans" \notin DOMAIN net[s]
      /\ RNet
  BY <1>1 DEF FShape, RNet, RShape, FCall
<1>3. /\ RNet' /\ Only(s) /\ DOMAIN net'[s] = DOMAIN net[s] \cup {"ans"} /\ net'[s].st = "done" /\ net'[s].ans = db
      /\ \A f \in DOMAIN net[s] \ {"st"} : net'[s][f] = net[s][f]
  BY <1>1, <1>2, RAnswered
<1>4. /\ net'[s].op = net[s].op /\ net'[s].mine = net[s].mine /\ net'[s].b = net[s].b /\ net'[s] # R!NoCall
      /\ net[s].op = "delete" => net'[s].open = net[s].open
  BY <1>1, <1>2, <1>3 DEF FCall, R!NoCall
<1>5. \/ db' = db
      \/ /\ net[s].op \in {"import", "delete"} /\ DOMAIN db' = {"batches", "changes"} /\ db'.changes = db.changes + 1
  BY DEF Field!Serve
<1>6. db'.changes \in Nat /\ db.changes <= db'.changes /\ DOMAIN db' = {"batches", "changes"} /\ db.changes \in Nat
  BY <1>1, <1>5 DEF FShape
<1>7. FShape'
  <2>1. FCall(db', net'[s])
    BY <1>1, <1>2, <1>3, <1>4, <1>5, <1>6 DEF FCall
  <2>2. ASSUME NEW t \in R!Slots, t # s PROVE FCall(db', net'[t])
    <3>1. net'[t] = net[t] /\ FCall(db, net[t])
      BY <1>1, <1>3, <2>2 DEF Only, FShape
    <3>2. db' = db \/ \A c \in 0 .. db.changes : c \in 0 .. db'.changes /\ c # db'.changes
      BY <1>5, <1>6
    <3> QED
      BY <3>1, <3>2 DEF FCall
  <2>3. ~ui'.mounted => \A t \in R!Slots : net'[t].op # "none" => net'[t].mine = FALSE
    BY <1>1, <1>3, <1>4 DEF FShape, Only
  <2>4. hist'.seen \in 0 .. db'.changes
    BY <1>1, <1>6 DEF FShape
  <2> QED
    BY <1>1, <1>3, <1>6, <2>1, <2>2, <2>3, <2>4 DEF FShape
<1>8. CASE FOdd
  BY <1>1, <1>7, <1>8 DEF FSeen, FOdd
<1>9. CASE ~FOdd
  <2>1. FCalm /\ FPage
    BY <1>9 DEF FSeen
  <2>2. FLeads(net'[s]) <=> FLeads(net[s])
    BY <1>4 DEF FLeads
  <2>3. FCalm'
    <3>1. CASE FLeads(net[s])
      <4>1. FFits(net'[s], ui')
        BY <1>1, <1>4, <2>1, <3>1 DEF FCalm, FFits, FAgrees
      <4> QED
        BY <1>3, <2>1, <2>2, <3>1, <4>1, FLed
    <3>2. CASE ~FLeads(net[s])
      BY <1>1, <1>3, <2>1, <2>2, <3>2, FAside
    <3> QED
      BY <3>1, <3>2
  <2>4. FPage'
    <3>1. CASE db' = db
      <4>1. FComes(s) => FComes(s)'
        BY <1>3, <1>4, <3>1 DEF FComes
      <4> QED
        BY <1>1, <1>3, <2>1, <3>1, <4>1, FPaged
    <3>2. CASE net[s].op \in {"import", "delete"}
      <4>1. FComes(s)'
        BY <1>4, <2>1, <3>2 DEF FComes, FCalm, FLeads, FFits
      <4> QED
        BY <4>1 DEF FPage
    <3> QED
      BY <1>5, <3>1, <3>2
  <2> QED
    BY <1>7, <2>3, <2>4 DEF FSeen
<1> QED
  BY <1>8, <1>9

\* The panel of a request that is not its own any more is let be.
FPuts(s, u) ==
    /\ DOMAIN ui' = FFields /\ ui'.overlay = u.overlay
    /\ \A f \in FFields \ {"overlay"} : ui'[f] = IF net[s].mine THEN u[f] ELSE ui[f]
LEMMA FSetIs ==
    ASSUME FShape, NEW s \in R!Slots, NEW u, DOMAIN u = FFields, Field!Set(s, u)
    PROVE  FPuts(s, u)
BY DEF FShape, Field!Set, FFields, FPuts

\* What a handler leaves of the request and of its panel.
LEMMA FHandled ==
    ASSUME FSeen, NEW s \in R!Slots, net[s].op # "none", net[s].st = "done" \/ hist'.faulty = TRUE, NEW u,
           DOMAIN u = FFields, FPuts(s, u),
           u.mounted = ui.mounted, RNet', Only(s), db' = db, FCall(db', net'[s]),
           net'[s].op # "none" => net'[s].mine = net[s].mine,
           DOMAIN hist' = DOMAIN hist, hist'.faulty \in BOOLEAN, hist'.crossed = hist.crossed, hist.faulty => hist'.faulty,
           hist'.seen \in 0 .. db.changes,
           ~FOdd' /\ FCalm /\ FPage =>
               /\ IF FLeads(net'[s]) THEN net[s].mine /\ FLeads(net[s]) /\ FFits(net'[s], u)
                  ELSE IF FLeads(net[s]) THEN FAgrees(u) ELSE \A f \in {"overlay", "selected", "rows"} : u[f] = ui[f]
               /\ IF net[s].op = "list" /\ net[s].mine
                  THEN hist'.seen = net[s].ans.changes /\ hist.seen <= net[s].ans.changes /\ u.batches = net[s].ans.batches
                  ELSE hist'.seen = hist.seen /\ u.batches = ui.batches /\ (FComes(s) => FComes(s)')
    PROVE  FSeen'
<1>1. /\ DOMAIN ui' = FFields /\ ui'.overlay = u.overlay
      /\ net[s].mine => ui.mounted /\ \A f \in FFields : ui'[f] = u[f]
      /\ ~net[s].mine => \A f \in FFields \ {"overlay"} : ui'[f] = ui[f]
  BY DEF FPuts, FSeen, FShape
<1>2. ui'.mounted = ui.mounted /\ net[s] # R!NoCall /\ net[s].mine \in BOOLEAN
  BY <1>1, FIdle DEF FFields, FSeen, FShape, RNet, RShape
<1>3. FShape'
  <2>1. \A t \in R!Slots : FCall(db', net'[t])
    BY DEF FSeen, FShape, Only
  <2>2. ~ui'.mounted => ui'.selected = Field!None /\ \A t \in R!Slots : net'[t].op # "none" => net'[t].mine = FALSE
    BY <1>1, <1>2 DEF FSeen, FShape, Only, FFields
  <2> QED
    BY <1>1, <2>1, <2>2 DEF FSeen, FShape
<1>4. CASE FOdd'
  BY <1>3, <1>4 DEF FSeen
<1>5. CASE ~FOdd'
  <2>1. FCalm /\ FPage
    BY <1>5 DEF FSeen, FOdd
  <2>2. FCalm'
    <3>1. CASE FLeads(net[s])
      <4>1. net[s].mine = TRUE
        BY <2>1, <3>1 DEF FCalm, FFits
      <4>2. IF FLeads(net'[s]) THEN FFits(net'[s], ui') ELSE FAgrees(ui')
        BY <1>1, <1>5, <2>1, <3>1, <4>1 DEF FFits, FAgrees, FFields
      <4> QED
        BY <2>1, <3>1, <4>2, FLed
    <3>2. CASE ~FLeads(net[s])
      <4>1. ~FLeads(net'[s]) /\ \A f \in {"overlay", "selected", "rows"} : u[f] = ui[f]
        BY <1>5, <2>1, <3>2
      <4>2. \A f \in {"mounted", "overlay", "selected", "rows"} : ui'[f] = ui[f]
        BY <1>1, <1>2, <4>1 DEF FFields
      <4> QED
        BY <2>1, <3>2, <4>1, <4>2, FAside
    <3> QED
      BY <3>1, <3>2
  <2>3. FPage'
    <3>1. CASE net[s].op = "list" /\ net[s].mine
      <4>1. /\ hist'.seen = net[s].ans.changes /\ hist.seen <= net[s].ans.changes /\ ui'.batches = net[s].ans.batches
            /\ net[s].ans.changes \in 0 .. db.changes
            /\ net[s].ans.changes = db.changes => net[s].ans.batches = db.batches
        BY <1>1, <1>2, <1>5, <2>1, <3>1 DEF FSeen, FShape, FCall, FOdd, FFields
      <4>2. CASE net[s].ans.changes = db.changes
        BY <4>1, <4>2 DEF FPage
      <4>3. CASE net[s].ans.changes # db.changes
        <5>1. ~FComes(s) /\ hist.seen # db.changes
          BY <1>5, <3>1, <4>1, <4>3 DEF FComes, FSeen, FShape, FOdd
        <5>2. ASSUME NEW t \in R!Slots, FComes(t) PROVE FComes(t)'
          BY <5>1, <5>2 DEF FComes, Only
        <5> QED
          BY <1>1, <1>2, <2>1, <3>1, <5>1, <5>2 DEF FPage
      <4> QED
        BY <4>2, <4>3
    <3>2. CASE ~(net[s].op = "list" /\ net[s].mine)
      <4>1. ui'.batches = ui.batches
        BY <1>1, <1>2, <1>5, <2>1, <3>2 DEF FFields
      <4> QED
        BY <1>2, <1>5, <2>1, <3>2, <4>1, FPaged
    <3> QED
      BY <3>1, <3>2
  <2> QED
    BY <1>3, <2>2, <2>3 DEF FSeen
<1> QED
  BY <1>4, <1>5

-----------------------------------------------------------------------------
LEMMA RPlaced ==
    ASSUME RNet, NEW s \in R!Slots, NEW q, RShape(q), net' = [net EXCEPT ![s] = q]
    PROVE  RNet' /\ Only(s) /\ net'[s] = q
<1>1. Only(s) /\ net'[s] = q
  BY DEF RNet, Only
<1> QED
  BY <1>1 DEF RNet, Only

\* A comparison is asked for, or the list, for the panel that asked before.
LEMMA FFollows ==
    ASSUME FShape, NEW s \in R!Slots, net[s].op # "none", NEW op \in {"open", "list"}, NEW b, NEW frees, NEW q,
           DOMAIN q = {"op", "b", "frees", "st", "mine"}, q.op = op, q.b = b, q.st = "sent", q.mine = net[s].mine,
           net' = [net EXCEPT ![s] = q], db' = db
    PROVE  RNet' /\ Only(s) /\ net'[s] = q /\ FCall(db', net'[s])
<1>1. RNet /\ RShape(net[s]) /\ net[s] # R!NoCall
  BY FIdle DEF FShape, RNet
<1>2. RShape(q)
  BY <1>1 DEF RShape
<1>3. FCall(db, q)
  BY DEF FCall, FOps
<1> QED
  BY <1>1, <1>2, <1>3, RPlaced

LEMMA FEnds ==
    ASSUME FShape, NEW s \in R!Slots, R!Settle(s)
    PROVE  RNet' /\ Only(s) /\ net'[s] = R!NoCall /\ net'[s].op = "none" /\ FCall(db', net'[s]) /\ ~FLeads(net'[s])
BY RSettled, FIdle DEF FShape, FCall

LEMMA FListed ==
    ASSUME FSeen, NEW s \in R!Slots, net[s].op = "list", net[s].st = "done" \/ hist'.faulty = TRUE,
           NEW u, DOMAIN u = FFields, \A f \in FFields \ {"batches"} : u[f] = ui[f], Field!Listed(s, u), db' = db,
           DOMAIN hist' = DOMAIN hist, hist'.faulty \in BOOLEAN, hist'.crossed = hist.crossed, hist.faulty => hist'.faulty,
           hist'.seen \in 0 .. db.changes,
           ~FOdd' =>
               IF net[s].mine
               THEN hist'.seen = net[s].ans.changes /\ hist.seen <= net[s].ans.changes /\ u.batches = net[s].ans.batches
               ELSE hist'.seen = hist.seen
    PROVE  FSeen'
<1>1. FShape /\ DOMAIN ui = FFields
  BY DEF FSeen, FShape
<1> DEFINE u1 == [u EXCEPT !.busy = @ /\ ~net[s].frees]
           u2 == [u EXCEPT !.selected = net[s].b, !.busy = FALSE]
<1>4. /\ DOMAIN u1 = FFields /\ u1.batches = u.batches
      /\ \A f \in {"mounted", "overlay", "selected", "rows"} : u1[f] = ui[f]
  BY DEF FFields
<1>5. /\ DOMAIN u2 = FFields /\ u2.batches = u.batches /\ u2.selected = net[s].b
      /\ \A f \in {"mounted", "overlay", "rows"} : u2[f] = ui[f]
  BY DEF FFields
<1> HIDE DEF u1, u2
<1>6. CASE net[s].b = Field!None
  <2>1. R!Settle(s) /\ FPuts(s, u1)
    BY <1>1, <1>4, <1>6, FLinks, FSetIs DEF Field!Listed, u1
  <2>2. RNet' /\ Only(s) /\ net'[s].op = "none" /\ FCall(db', net'[s]) /\ ~FLeads(net'[s])
    BY <1>1, <2>1, FEnds
  <2>3. ~FLeads(net[s]) /\ (FComes(s) => net[s].mine)
    BY <1>6 DEF FLeads, FComes
  <2>4. CASE FOdd' \/ net[s].mine
    BY <1>4, <2>1, <2>2, <2>3, <2>4, FHandled
  <2>5. CASE ~FOdd' /\ ~net[s].mine
    <3> DEFINE v == [u1 EXCEPT !.batches = ui.batches]
    <3>1. DOMAIN v = FFields /\ v.batches = ui.batches /\ \A f \in {"mounted", "overlay", "selected", "rows"} : v[f] = ui[f]
      BY <1>4 DEF FFields
    <3>2. FPuts(s, v)
      BY <1>4, <2>1, <2>5, <3>1 DEF FPuts
    <3> HIDE DEF v
    <3> QED
      BY <2>2, <2>3, <2>5, <3>1, <3>2, FHandled
  <2> QED
    BY <2>4, <2>5
<1>7. CASE net[s].b # Field!None
  <2> DEFINE q == [op |-> "open", b |-> net[s].b, frees |-> FALSE, st |-> "sent", mine |-> net[s].mine]
  <2>1. net' = [net EXCEPT ![s] = q] /\ FPuts(s, u2)
    BY <1>1, <1>5, <1>7, FSetIs DEF Field!Listed, u2, FShape, RNet
  <2>2. /\ DOMAIN q = {"op", "b", "frees", "st", "mine"} /\ q.op = "open" /\ q.b = net[s].b
        /\ q.st = "sent" /\ q.mine = net[s].mine
    OBVIOUS
  <2> HIDE DEF q
  <2>3. RNet' /\ Only(s) /\ net'[s] = q /\ FCall(db', net'[s])
    BY <1>1, <2>1, <2>2, FFollows
  <2>4. FLeads(net[s]) /\ FLeads(net'[s])
    BY <1>7, <2>2, <2>3 DEF FLeads
  <2>5. FCalm => net[s].mine = TRUE /\ ui.mounted
    BY <2>4 DEF FCalm, FFits
  <2>6. FCalm => FFits(net'[s], u2)
    BY <1>5, <2>2, <2>3, <2>5 DEF FFits
  <2> QED
    BY <1>5, <2>1, <2>2, <2>3, <2>4, <2>5, <2>6, FHandled
<1> QED
  BY <1>6, <1>7

-----------------------------------------------------------------------------
\* What the other handlers do.
LEMMA FOthersStay ==
    ASSUME FSeen, NEW s \in R!Slots,
           Field!Opened(s) \/ Field!Imported(s) \/ Field!Repaired(s) \/ Field!Deleted(s) \/ Field!Downloaded(s)
    PROVE  FSeen'
<1>1. FShape /\ DOMAIN ui = FFields /\ RNet /\ FCall(db, net[s])
  BY DEF FSeen, FShape
<1>2. db' = db /\ hist' = hist /\ net[s].st = "done" /\ net[s].op \in FOps \ {"list"} /\ FLeads(net[s])
  BY DEF Field!Opened, Field!Imported, Field!Repaired, Field!Deleted, Field!Downloaded, Field!At, FOps, FLeads
<1>3. hist'.faulty \in BOOLEAN /\ hist'.seen \in 0 .. db.changes /\ DOMAIN hist' = DOMAIN hist
  BY <1>1, <1>2 DEF FShape
<1>4. FCalm => FFits(net[s], ui) /\ net[s].mine
  BY <1>2 DEF FCalm, FFits
<1>5. CASE Field!Opened(s) \/ Field!Downloaded(s)
  <2> DEFINE u1 == [ui EXCEPT !.rows = net[s].b, !.overlay = net[s].b, !.busy = @ /\ ~net[s].frees]
             u2 == [ui EXCEPT !.busy = FALSE]
  <2>1. /\ DOMAIN u1 = FFields /\ u1.batches = ui.batches /\ u1.mounted = ui.mounted
        /\ u1.rows = net[s].b /\ u1.overlay = net[s].b /\ u1.selected = ui.selected
        /\ DOMAIN u2 = FFields /\ u2.batches = ui.batches /\ u2.mounted = ui.mounted
        /\ \A f \in {"overlay", "selected", "rows"} : u2[f] = ui[f]
    BY <1>1 DEF FFields
  <2>2. R!Settle(s) /\ \/ net[s].op = "open" /\ FPuts(s, u1)
                       \/ net[s].op = "download" /\ FPuts(s, u2)
    BY <1>1, <1>5, <2>1, FLinks, FSetIs DEF Field!Opened, Field!Downloaded, Field!At
  <2> HIDE DEF u1, u2
  <2>3. RNet' /\ Only(s) /\ net'[s].op = "none" /\ FCall(db', net'[s]) /\ ~FLeads(net'[s])
    BY <1>1, <2>2, FEnds
  <2>4. ~FComes(s)
    BY <2>2 DEF FComes
  <2>5. CASE net[s].op = "open" /\ FPuts(s, u1)
    <3>1. FCalm => FAgrees(u1)
      BY <1>4, <2>1, <2>5 DEF FFits, FAgrees
    <3> QED
      BY <1>2, <1>3, <2>1, <2>3, <2>4, <2>5, <3>1, FHandled
  <2>6. CASE net[s].op = "download" /\ FPuts(s, u2)
    <3>1. FCalm => FAgrees(u2)
      BY <1>4, <2>1, <2>6 DEF FFits, FAgrees
    <3> QED
      BY <1>2, <1>3, <2>1, <2>3, <2>4, <2>6, <3>1, FHandled
  <2> QED
    BY <2>2, <2>5, <2>6
<1>6. CASE Field!Imported(s)
  <2> DEFINE p == Field!List(net[s].b, TRUE)
             q == Field!Extended(p, [st |-> "sent", mine |-> net[s].mine])
  <2>1. net' = [net EXCEPT ![s] = q] /\ ui' = ui /\ net[s].op = "import"
    BY <1>1, <1>6 DEF Field!Imported, Field!At, FShape, RNet
  <2>2. DOMAIN p = {"op", "b", "frees"} /\ p.op = "list" /\ p.b = net[s].b
    BY DEF Field!List
  <2> HIDE DEF p
  <2>3. /\ DOMAIN q = {"op", "b", "frees", "st", "mine"} /\ q.op = "list" /\ q.b = net[s].b
        /\ q.st = "sent" /\ q.mine = net[s].mine
    BY <2>2 DEF Field!Extended
  <2> HIDE DEF q
  <2>4. RNet' /\ Only(s) /\ net'[s] = q /\ FCall(db', net'[s])
    BY <1>1, <1>2, <2>1, <2>3, FFollows DEF FOps
  <2>5. FComes(s) => FComes(s)'
    BY <2>3, <2>4, FIdle DEF FComes
  <2>6. FCalm /\ FLeads(net'[s]) => FFits(net'[s], ui)
    BY <1>4, <2>1, <2>3, <2>4 DEF FFits
  <2>7. FCalm => FAgrees(ui)
    BY <1>4, <2>1 DEF FFits
  <2>8. FPuts(s, ui)
    BY <1>1, <2>1 DEF FPuts
  <2> QED
    BY <1>1, <1>2, <1>3, <1>4, <2>1, <2>3, <2>4, <2>5, <2>6, <2>7, <2>8, FHandled
<1>7. CASE Field!Repaired(s)
  <2> DEFINE q == [op |-> "open", b |-> net[s].b, frees |-> TRUE, st |-> "sent", mine |-> net[s].mine]
             u == [ui EXCEPT !.selected = net[s].b]
  <2>1. net' = [net EXCEPT ![s] = q] /\ Field!Set(s, u) /\ net[s].op = "repair"
    BY <1>1, <1>7 DEF Field!Repaired, Field!At, FShape, RNet
  <2>2. /\ DOMAIN q = {"op", "b", "frees", "st", "mine"} /\ q.op = "open" /\ q.b = net[s].b
        /\ q.st = "sent" /\ q.mine = net[s].mine
    OBVIOUS
  <2>3. /\ DOMAIN u = FFields /\ u.batches = ui.batches /\ u.mounted = ui.mounted /\ u.selected = net[s].b
    BY <1>1 DEF FFields
  <2> HIDE DEF q, u
  <2>7. FPuts(s, u)
    BY <1>1, <2>1, <2>3, FSetIs
  <2>4. RNet' /\ Only(s) /\ net'[s] = q /\ FCall(db', net'[s])
    BY <1>1, <1>2, <2>1, <2>2, FFollows DEF FOps
  <2>5. FLeads(net'[s]) /\ ~FComes(s)
    BY <2>1, <2>2, <2>4 DEF FLeads, FComes
  <2>6. FCalm => FFits(net'[s], u)
    BY <1>4, <2>2, <2>3, <2>4 DEF FFits
  <2> QED
    BY <1>1, <1>2, <1>3, <1>4, <2>1, <2>7, <2>2, <2>3, <2>4, <2>5, <2>6, FHandled
<1>8. CASE Field!Deleted(s)
  <2> DEFINE p == Field!List(Field!None, TRUE)
             q == Field!Extended(p, [st |-> "sent", mine |-> net[s].mine])
             v == [ui EXCEPT !.selected = Field!None, !.rows = Field!None, !.overlay = Field!None]
             u == IF net[s].open = net[s].b THEN v ELSE ui
  <2>1. net' = [net EXCEPT ![s] = q] /\ Field!Set(s, u) /\ net[s].op = "delete"
    BY <1>1, <1>8 DEF Field!Deleted, Field!At, FShape, RNet
  <2>2. DOMAIN p = {"op", "b", "frees"} /\ p.op = "list" /\ p.b = Field!None
    BY DEF Field!List
  <2> HIDE DEF p
  <2>3. /\ DOMAIN q = {"op", "b", "frees", "st", "mine"} /\ q.op = "list" /\ q.b = Field!None
        /\ q.st = "sent" /\ q.mine = net[s].mine
    BY <2>2 DEF Field!Extended
  <2> HIDE DEF q
  <2>4. RNet' /\ Only(s) /\ net'[s] = q /\ FCall(db', net'[s])
    BY <1>1, <1>2, <2>1, <2>3, FFollows DEF FOps
  <2>5. (FComes(s) => FComes(s)') /\ ~FLeads(net'[s])
    BY <2>3, <2>4, FIdle DEF FComes, FLeads
  <2>6. /\ DOMAIN v = FFields /\ v.batches = ui.batches /\ v.mounted = ui.mounted /\ FAgrees(v)
    BY <1>1 DEF FFields, FAgrees
  <2> HIDE DEF v
  <2>7. /\ DOMAIN u = FFields /\ u.batches = ui.batches /\ u.mounted = ui.mounted
        /\ FCalm => FAgrees(u)
    BY <1>1, <1>4, <2>1, <2>6 DEF FFits
  <2> HIDE DEF u
  <2>8. FPuts(s, u)
    BY <1>1, <2>1, <2>7, FSetIs
  <2> QED
    BY <1>2, <1>3, <1>4, <2>1, <2>3, <2>4, <2>5, <2>7, <2>8, FHandled
<1> QED
  BY <1>5, <1>6, <1>7, <1>8

LEMMA FListsStay ==
    ASSUME FSeen, NEW s \in R!Slots, Field!ListCame(s) \/ Field!Failed(s)
    PROVE  FSeen'
<1>1. FShape /\ DOMAIN ui = FFields /\ RNet /\ FCall(db, net[s])
  BY DEF FSeen, FShape
<1>2. CASE Field!ListCame(s)
  <2>1. /\ net[s].op = "list" /\ net[s].st = "done" /\ db' = db
        /\ Field!Listed(s, [ui EXCEPT !.batches = net[s].ans.batches])
    BY <1>2 DEF Field!ListCame, Field!At
  <2>2. net[s].ans.changes \in 0 .. db.changes /\ net[s].mine \in BOOLEAN
    BY <1>1, <2>1, FIdle DEF FCall, RNet, RShape
  <2>3. /\ DOMAIN hist' = DOMAIN hist /\ hist'.crossed = hist.crossed
        /\ hist'.faulty = (hist.faulty \/ (net[s].mine /\ net[s].ans.changes < hist.seen))
        /\ hist'.seen = IF net[s].mine THEN net[s].ans.changes ELSE hist.seen
    BY <1>1, <1>2 DEF Field!ListCame, FShape
  <2>4. hist'.faulty \in BOOLEAN /\ hist'.seen \in 0 .. db.changes /\ (hist.faulty => hist'.faulty)
    BY <1>1, <2>2, <2>3 DEF FShape
  <2>5. ~FOdd' => (net[s].mine => hist.seen <= net[s].ans.changes)
    <3>1. net[s].ans.changes \in Nat /\ hist.seen \in Nat
      BY <1>1, <2>2 DEF FShape
    <3>2. ASSUME ~FOdd', net[s].mine PROVE ~(net[s].ans.changes < hist.seen)
      BY <2>3, <3>2 DEF FOdd
    <3> QED
      BY <3>1, <3>2
  <2> DEFINE u == [ui EXCEPT !.batches = net[s].ans.batches]
  <2>6. DOMAIN u = FFields /\ u.batches = net[s].ans.batches /\ \A f \in FFields \ {"batches"} : u[f] = ui[f]
    BY <1>1 DEF FFields
  <2>7. Field!Listed(s, u)
    BY <2>1
  <2> HIDE DEF u
  <2> QED
    BY <2>1, <2>3, <2>4, <2>5, <2>6, <2>7, FListed
<1>3. CASE Field!Failed(s)
  <2>1. /\ db' = db /\ hist' = [hist EXCEPT !.faulty = TRUE] /\ net[s] # R!NoCall
    BY <1>3, FIdle DEF Field!Failed
  <2>2. /\ DOMAIN hist' = DOMAIN hist /\ hist'.faulty = TRUE /\ hist'.crossed = hist.crossed
        /\ hist'.seen \in 0 .. db.changes /\ FOdd' /\ net[s].op \in FOps
    BY <1>1, <2>1 DEF FShape, FOdd, FCall
  <2>3. CASE net[s].op = "list"
    <3>1. Field!Listed(s, ui)
      BY <1>3, <2>3 DEF Field!Failed
    <3> QED
      BY <1>1, <2>1, <2>2, <2>3, <3>1, FListed
  <2>4. CASE net[s].op # "list"
    <3> DEFINE u == [ui EXCEPT !.busy = @ /\ ~net[s].frees]
    <3>2. DOMAIN u = FFields /\ u.mounted = ui.mounted
      BY <1>1 DEF FFields
    <3>1. R!Settle(s) /\ FPuts(s, u)
      BY <1>1, <1>3, <2>4, <3>2, FLinks, FSetIs DEF Field!Failed
    <3> HIDE DEF u
    <3>3. RNet' /\ Only(s) /\ net'[s].op = "none" /\ FCall(db', net'[s]) /\ net[s].op # "none"
      BY <1>1, <2>2, <3>1, FEnds DEF FOps
    <3> QED
      BY <2>1, <2>2, <3>1, <3>2, <3>3, FHandled
  <2> QED
    BY <2>3, <2>4
<1> QED
  BY <1>2, <1>3

LEMMA FSeenInit ==
    ASSUME Field!Init
    PROVE  FSeen
<1> DEFINE r == Field!List(Field!None, FALSE)
           q == R!Asked(r)
<1>1. /\ DOMAIN ui = FFields /\ ui.mounted = TRUE /\ ui.batches = {} /\ ui.selected = Field!None /\ FAgrees(ui)
      /\ hist = [faulty |-> FALSE, crossed |-> FALSE, seen |-> 0]
      /\ DOMAIN db = {"batches", "changes"} /\ db.changes = 0
  BY DEF Field!Init, Field!Fresh, FFields, FAgrees
<1>2. DOMAIN r = {"op", "b", "frees"} /\ r.op = "list" /\ r.b = Field!None
  BY DEF Field!List
<1>3. net = [R!NoCalls EXCEPT ![1] = q]
  BY DEF Field!Init, Field!NoCalls, R!NoCalls, Field!Slots, R!Slots, Field!NoCall, R!NoCall, Field!Asked, R!Asked,
         Field!Extended, R!Extended
<1> HIDE DEF r
<1>4. /\ DOMAIN q = {"op", "b", "frees", "st", "mine"} /\ q.op = "list" /\ q.b = Field!None
      /\ q.st = "sent" /\ q.mine = TRUE
  BY <1>2, RAsked
<1> HIDE DEF q
<1>5. RNet /\ 1 \in R!Slots /\ net[1] = q /\ \A t \in R!Slots \ {1} : net[t] = R!NoCall
  <2>1. 1 \in R!Slots
    BY ScreensAssumption DEF R!Slots
  <2> QED
    BY <1>3, <1>4, <2>1 DEF R!NoCalls, RNet, RShape
<1>6. \A t \in R!Slots : FCall(db, net[t]) /\ ~FLeads(net[t])
  BY <1>4, <1>5, FIdle DEF FCall, FOps, FLeads
<1>7. FShape
  BY <1>1, <1>5, <1>6 DEF FShape
<1>8. FComes(1)
  BY <1>4, <1>5, FIdle DEF FComes
<1> QED
  BY <1>1, <1>5, <1>6, <1>7, <1>8 DEF FSeen, FCalm, FPage

LEMMA FSeenStep ==
    ASSUME FSeen, [Field!Next]_(Field!vars)
    PROVE  FSeen'
<1>1. CASE UNCHANGED Field!vars
  <2>1. net' = net /\ ui' = ui /\ db' = db /\ hist' = hist
    BY <1>1 DEF Field!vars
  <2> QED
    BY <2>1 DEF FSeen, FShape, RNet, FCall, FOdd, FCalm, FFits, FAgrees, FPage, FComes
<1>2. CASE Field!User
  BY <1>2, FUserStays
<1>3. ASSUME NEW s \in R!Slots, Field!Serve(s) \/ Field!Settles(s) PROVE FSeen'
  BY <1>3, FServes, FOthersStay, FListsStay DEF Field!Settles
<1> QED
  BY <1>1, <1>2, <1>3, FLinks DEF Field!Next

LEMMA FSeenShows ==
    ASSUME FSeen
    PROVE  Field!ShowsComparison
<1>1. SUFFICES ASSUME RQuiet, ~hist.faulty, ~hist.crossed
               PROVE  ui.overlay = ui.selected /\ ui.rows = ui.selected /\ (ui.mounted => ui.batches = db.batches)
  BY FLinks DEF Field!ShowsComparison
<1>2. FCalm /\ FPage /\ \A s \in R!Slots : ~FLeads(net[s]) /\ ~FComes(s)
  BY <1>1, FIdle DEF FSeen, FOdd, RQuiet, FComes
<1> QED
  BY <1>2 DEF FCalm, FPage, FAgrees

-----------------------------------------------------------------------------
ViewInv ==
    /\ screen = "analyses" => NSeen
    /\ screen = "account" => AShell
    /\ screen = "field" => FSeen

LEMMA ViewStep ==
    ASSUME ViewInv, [Next]_vars
    PROVE  ViewInv'
<1>1. CASE screen = "analyses"
  <2>1. [Analyses!Next]_(Analyses!vars)
    BY <1>1 DEF Next, vars, Analyses!vars
  <2> QED
    BY <1>1, <2>1, NSeenStep, ScreenIsOne DEF ViewInv
<1>2. CASE screen = "account"
  <2>1. [Account!Next]_(Account!vars)
    BY <1>2 DEF Next, vars, Account!vars
  <2> QED
    BY <1>2, <2>1, AShellStep, ScreenIsOne DEF ViewInv
<1>3. CASE screen = "field"
  <2>1. [Field!Next]_(Field!vars)
    BY <1>3 DEF Next, vars, Field!vars
  <2> QED
    BY <1>3, <2>1, FSeenStep, ScreenIsOne DEF ViewInv
<1> QED
  BY <1>1, <1>2, <1>3, ScreenIsOne DEF ViewInv

Viewed == {"analyses", "account", "field"}

\* The list of analyses with what is selected and drawn of it, the way into an
\* account, and the comparison that is open with its markers over the scene are
\* the server's once nothing is under way, though panels are left and come back to
\* between requests.  For the account pages that is all; for the two panels it takes
\* that no request failed, that no older list was applied last, and that the user
\* did nothing, leaving included, while a request was under way (ShowsServer).
THEOREM ViewsAreServers == Spec => [](screen \in Viewed => ShowsServer)
<1>1. Init => ViewInv
  BY NSeenInit, AShellInit, FSeenInit DEF Init, ViewInv
<1>2. ViewInv /\ [Next]_vars => ViewInv'
  BY ViewStep
<1>3. ViewInv => (screen \in Viewed => ShowsServer)
  <2>1. screen = "analyses" /\ Analyses!ShowsAnalyses => ShowsServer
    BY DEF ShowsServer
  <2>2. screen = "account" /\ Account!Guarded => ShowsServer
    BY DEF ShowsServer
  <2>3. screen = "field" /\ Field!ShowsComparison => ShowsServer
    BY DEF ShowsServer
  <2>4. screen = "account" /\ ViewInv => Account!Guarded
    BY DEF ViewInv, AShell
  <2> QED
    BY <2>1, <2>2, <2>3, <2>4, NSeenShows, FSeenShows DEF ViewInv, Viewed
<1> QED
  BY <1>1, <1>2, <1>3, PTL DEF Spec
=============================================================================
