--------------------------- MODULE Screens_proofs ---------------------------
(***************************************************************************)
(* What is proved of the screens, for any number of requests, rows,        *)
(* changes and turns.                                                      *)
(***************************************************************************)
EXTENDS MCScreens, Sequences, TLAPS

-----------------------------------------------------------------------------
(* The calls of a screen, as every screen makes them.                      *)
R == INSTANCE Requests

RShape(r) == r = R!NoCall \/ ({"op", "st", "mine"} \subseteq DOMAIN r /\ r.mine \in BOOLEAN)
RNet == DOMAIN net = R!Slots /\ \A s \in R!Slots : RShape(net[s])

\* Nothing else happens to the requests.
Only(s) == DOMAIN net' = R!Slots /\ \A t \in R!Slots \ {s} : net'[t] = net[t]

LEMMA RAsked ==
    ASSUME NEW r, "op" \in DOMAIN r, {"st", "mine"} \cap DOMAIN r = {}
    PROVE  LET q == R!Asked(r)
           IN  /\ DOMAIN q = DOMAIN r \cup {"st", "mine"} /\ q.st = "sent" /\ q.mine = TRUE
               /\ RShape(q) /\ \A f \in DOMAIN r : q[f] = r[f]
<1> DEFINE q == R!Asked(r)
<1>1. /\ DOMAIN q = DOMAIN r \cup {"st", "mine"} /\ q.st = "sent" /\ q.mine = TRUE
      /\ \A f \in DOMAIN r : q[f] = r[f]
  BY DEF R!Asked, R!Extended
<1> HIDE DEF q
<1>2. RShape(q)
  BY <1>1 DEF RShape
<1> QED
  BY <1>1, <1>2 DEF q

LEMMA RSent ==
    ASSUME RNet, NEW r, R!Send(r), "op" \in DOMAIN r, {"st", "mine"} \cap DOMAIN r = {}
    PROVE  /\ RNet'
           /\ \E s \in R!Slots :
                 /\ Only(s) /\ net[s] = R!NoCall
                 /\ DOMAIN net'[s] = DOMAIN r \cup {"st", "mine"}
                 /\ net'[s].st = "sent" /\ net'[s].mine = TRUE /\ \A f \in DOMAIN r : net'[s][f] = r[f]
<1> DEFINE q == R!Asked(r)
<1>1. PICK s \in R!Slots : net[s] = R!NoCall /\ Only(s) /\ net'[s] = q
  BY DEF R!Send, RNet, Only
<1>2. /\ DOMAIN q = DOMAIN r \cup {"st", "mine"} /\ q.st = "sent" /\ q.mine = TRUE
      /\ RShape(q) /\ \A f \in DOMAIN r : q[f] = r[f]
  BY RAsked
<1> HIDE DEF q
<1>4. RNet'
  BY <1>1, <1>2 DEF RNet, Only, RShape
<1> QED
  BY <1>1, <1>2, <1>4

LEMMA RSettled ==
    ASSUME RNet, NEW s \in R!Slots, R!Settle(s)
    PROVE  RNet' /\ Only(s) /\ net'[s] = R!NoCall
<1>1. Only(s) /\ net'[s] = R!NoCall
  BY DEF R!Settle, RNet, Only
<1> QED
  BY <1>1 DEF RNet, Only, RShape

LEMMA RFollowed ==
    ASSUME RNet, NEW s \in R!Slots, NEW r, R!Follow(s, r), "op" \in DOMAIN r, {"st", "mine"} \cap DOMAIN r = {}
    PROVE  /\ RNet' /\ Only(s) /\ DOMAIN net'[s] = DOMAIN r \cup {"st", "mine"}
           /\ net'[s].st = "sent" /\ net'[s].mine = TRUE /\ \A f \in DOMAIN r : net'[s][f] = r[f]
<1> DEFINE q == R!Asked(r)
<1>1. Only(s) /\ net'[s] = q
  BY DEF R!Follow, RNet, Only
<1>2. /\ DOMAIN q = DOMAIN r \cup {"st", "mine"} /\ q.st = "sent" /\ q.mine = TRUE
      /\ RShape(q) /\ \A f \in DOMAIN r : q[f] = r[f]
  BY RAsked
<1> HIDE DEF q
<1>4. RNet'
  BY <1>1, <1>2 DEF RNet, Only, RShape
<1> QED
  BY <1>1, <1>2, <1>4

\* The answer comes beside what was asked.
LEMMA RAnswered ==
    ASSUME RNet, NEW s \in R!Slots, NEW w, net[s] # R!NoCall, R!Answer(s, w)
    PROVE  /\ RNet' /\ Only(s) /\ DOMAIN net'[s] = DOMAIN net[s] \cup {"ans"} /\ net'[s].st = "done"
           /\ \A f \in DOMAIN net[s] \ {"st"} : net'[s][f] = net[s][f]
           /\ "ans" \notin DOMAIN net[s] => net'[s].ans = w
<1> DEFINE p == [net[s] EXCEPT !.st = "done"]
           q == R!Extended(p, [ans |-> w])
<1>1. {"op", "st", "mine"} \subseteq DOMAIN net[s] /\ net[s].mine \in BOOLEAN
  BY DEF RNet, RShape
<1>2. Only(s) /\ net'[s] = q
  BY DEF R!Answer, RNet, Only
<1>3. DOMAIN p = DOMAIN net[s] /\ p.st = "done" /\ \A f \in DOMAIN p \ {"st"} : p[f] = net[s][f]
  BY <1>1
<1> HIDE DEF p
<1>4. /\ DOMAIN q = DOMAIN p \cup {"ans"} /\ \A f \in DOMAIN p : q[f] = p[f]
      /\ "ans" \notin DOMAIN p => q.ans = w
  BY DEF R!Extended
<1> HIDE DEF q
<1>5. /\ q.st = "done" /\ q.mine = net[s].mine /\ {"op", "st", "mine"} \subseteq DOMAIN q
      /\ \A f \in DOMAIN net[s] \ {"st"} : q[f] = net[s][f]
  BY <1>1, <1>3, <1>4
<1>6. RShape(q)
  BY <1>1, <1>5 DEF RShape
<1>7. RNet'
  BY <1>2, <1>6 DEF RNet, Only, RShape
<1> QED
  BY <1>2, <1>3, <1>4, <1>5, <1>7

\* One field of a request is set.
LEMMA RSet ==
    ASSUME NEW r, RShape(r), r # R!NoCall, NEW f \in DOMAIN r, NEW v, f = "mine" => v \in BOOLEAN
    PROVE  LET q == [r EXCEPT ![f] = v]
           IN  RShape(q) /\ DOMAIN q = DOMAIN r /\ q[f] = v /\ \A g \in DOMAIN r \ {f} : q[g] = r[g]
<1> DEFINE q == [r EXCEPT ![f] = v]
<1>1. DOMAIN q = DOMAIN r /\ q[f] = v /\ \A g \in DOMAIN r \ {f} : q[g] = r[g]
  OBVIOUS
<1> HIDE DEF q
<1>2. RShape(q)
  BY <1>1 DEF RShape
<1> QED
  BY <1>1, <1>2 DEF q

LEMMA ROrphaned ==
    ASSUME RNet, net' = R!Orphaned
    PROVE  /\ RNet'
           /\ \A s \in R!Slots :
                 /\ net'[s] = R!NoCall <=> net[s] = R!NoCall
                 /\ net[s] # R!NoCall =>
                       /\ net'[s].mine = FALSE /\ DOMAIN net'[s] = DOMAIN net[s]
                       /\ \A f \in DOMAIN net[s] \ {"mine"} : net'[s][f] = net[s][f]
<1>1. DOMAIN net' = R!Slots
  BY DEF R!Orphaned
<1>2. ASSUME NEW s \in R!Slots, net[s] # R!NoCall
      PROVE  /\ RShape(net'[s]) /\ net'[s] # R!NoCall /\ net'[s].mine = FALSE /\ DOMAIN net'[s] = DOMAIN net[s]
             /\ \A f \in DOMAIN net[s] \ {"mine"} : net'[s][f] = net[s][f]
  <2> DEFINE q == [net[s] EXCEPT !.mine = FALSE]
  <2>1. RShape(net[s]) /\ "mine" \in DOMAIN net[s]
    BY <1>2 DEF RNet, RShape
  <2>2. net'[s] = q
    BY <1>2 DEF R!Orphaned
  <2>3. /\ RShape(q) /\ DOMAIN q = DOMAIN net[s] /\ q.mine = FALSE
        /\ \A g \in DOMAIN net[s] \ {"mine"} : q[g] = net[s][g]
    BY <1>2, <2>1, RSet
  <2> HIDE DEF q
  <2>4. "mine" \notin DOMAIN R!NoCall
    BY DEF R!NoCall
  <2> QED
    BY <2>1, <2>2, <2>3, <2>4
<1>3. ASSUME NEW s \in R!Slots, net[s] = R!NoCall PROVE net'[s] = R!NoCall
  BY <1>3 DEF R!Orphaned
<1> QED
  BY <1>1, <1>2, <1>3 DEF RNet, RShape

LEMMA RThrown ==
    ASSUME RNet, NEW s \in R!Slots, net[s] # R!NoCall, R!Throw(s)
    PROVE  /\ RNet' /\ Only(s) /\ DOMAIN net'[s] = DOMAIN net[s] /\ net'[s].st = "failed"
           /\ \A f \in DOMAIN net[s] \ {"st"} : net'[s][f] = net[s][f]
<1> DEFINE q == [net[s] EXCEPT !.st = "failed"]
<1>1. RShape(net[s]) /\ "st" \in DOMAIN net[s]
  BY DEF RNet, RShape
<1>2. Only(s) /\ net'[s] = q
  BY DEF R!Throw, RNet, Only
<1>3. RShape(q) /\ DOMAIN q = DOMAIN net[s] /\ q.st = "failed" /\ \A g \in DOMAIN net[s] \ {"st"} : q[g] = net[s][g]
  BY <1>1, RSet
<1> HIDE DEF q
<1> QED
  BY <1>2, <1>3 DEF RNet, Only

LEMMA RStart ==
    ASSUME NEW r, NEW q, net = [R!NoCalls EXCEPT ![1] = R!Asked(r)] \/ net = R!NoCalls
                       \/ net = [R!NoCalls EXCEPT ![1] = R!Asked(r), ![2] = R!Asked(q)],
           "op" \in DOMAIN r, {"st", "mine"} \cap DOMAIN r = {},
           "op" \in DOMAIN q, {"st", "mine"} \cap DOMAIN q = {}
    PROVE  RNet /\ \A s \in R!Slots : net[s] \in {R!NoCall, R!Asked(r), R!Asked(q)}
<1>1. RShape(R!Asked(r)) /\ RShape(R!Asked(q)) /\ RShape(R!NoCall)
  <2>1. RShape(R!Asked(r)) /\ RShape(R!Asked(q))
    BY RAsked
  <2> QED
    BY <2>1 DEF RShape
<1>2. DOMAIN net = R!Slots /\ \A s \in R!Slots : net[s] \in {R!NoCall, R!Asked(r), R!Asked(q)}
  BY DEF R!NoCalls
<1> QED
  BY <1>1, <1>2 DEF RNet

-----------------------------------------------------------------------------
(* The utility records.                                                    *)
UFields == {"mounted", "list", "page", "filter", "mode", "type", "got", "busy", "dialog", "handler", "hint"}
ULook == {"mounted", "mode", "busy", "handler", "hint"}

Reloads(r) ==
    /\ "then" \in DOMAIN r /\ "op" \in DOMAIN r.then /\ r.then.op = "load"
    /\ {"st", "mine"} \cap DOMAIN r.then = {}
USlot(r) ==
    \/ r = Utilities!NoCall
    \/ /\ {"op", "st", "mine"} \subseteq DOMAIN r /\ r.mine \in BOOLEAN
       /\ r.op \in Utilities!Changes => Reloads(r)
UShape ==
    /\ DOMAIN ui = UFields /\ ui.mode \in {"idle", "run", "structure"} /\ ui.hint \in BOOLEAN
    /\ ~ui.mounted => ui.mode = "idle"
    /\ DOMAIN net = Utilities!Slots /\ \A s \in Utilities!Slots : USlot(net[s])

\* One capture at a time is saved, and it is of the builder on the screen.
Saving(s) == net[s].op \in {"run", "structure"} /\ net[s].mine
UOnce == \A s, t \in Utilities!Slots : Saving(s) /\ Saving(t) => s = t

UInv == UShape /\ Utilities!SaveHoldsBuilder /\ UOnce /\ Utilities!Bridge

LEMMA URendered ==
    ASSUME NEW u, DOMAIN u = UFields
    PROVE  LET r == Utilities!Render(u)
           IN  /\ DOMAIN r = UFields
               /\ \A f \in UFields \ {"handler", "hint"} : r[f] = u[f]
               /\ r.handler = IF u.mounted /\ u.mode # "idle" THEN u.mode ELSE "none"
               /\ r.hint = (u.mounted /\ u.mode # "idle")
BY DEF Utilities!Render, UFields

\* The screen looks the same, and no capture is sent.
LEMMA UKept ==
    ASSUME UInv, DOMAIN ui' = UFields, \A f \in ULook : ui'[f] = ui[f],
           DOMAIN net' = Utilities!Slots, \A s \in Utilities!Slots : USlot(net'[s]),
           \A s \in Utilities!Slots : Saving(s)' => Saving(s) /\ net'[s].op = net[s].op
    PROVE  UInv'
<1>1. UShape'
  BY DEF UInv, UShape, ULook, USlot, Reloads, Utilities!Slots, Utilities!NoCall, Utilities!Changes
<1>2. Utilities!SaveHoldsBuilder'
  BY DEF UInv, Utilities!SaveHoldsBuilder, Saving, ULook, Utilities!Slots
<1>3. UOnce'
  BY DEF UInv, UOnce, Utilities!Slots
<1>4. Utilities!Bridge'
  BY DEF UInv, Utilities!Bridge, ULook
<1> QED
  BY <1>1, <1>2, <1>3, <1>4 DEF UInv

\* No capture is being saved, and the scene follows the mode.
LEMMA URest ==
    ASSUME NEW u, DOMAIN u = UFields, u.mode \in {"idle", "run", "structure"}, ~u.mounted => u.mode = "idle",
           ui' = Utilities!Render(u),
           DOMAIN net' = Utilities!Slots, \A s \in Utilities!Slots : USlot(net'[s]) /\ ~Saving(s)'
    PROVE  UInv'
<1>1. /\ DOMAIN ui' = UFields
      /\ \A f \in UFields \ {"handler", "hint"} : ui'[f] = u[f]
      /\ ui'.handler = IF u.mounted /\ u.mode # "idle" THEN u.mode ELSE "none"
      /\ ui'.hint = (u.mounted /\ u.mode # "idle")
  BY URendered
<1>2. UShape'
  BY <1>1 DEF UShape, USlot, Reloads, Utilities!Slots, Utilities!NoCall, Utilities!Changes, UFields
<1>3. Utilities!SaveHoldsBuilder' /\ UOnce'
  BY DEF Utilities!SaveHoldsBuilder, UOnce, Saving, Utilities!Slots
<1>4. Utilities!Bridge'
  BY <1>1 DEF Utilities!Bridge, UFields
<1> QED
  BY <1>2, <1>3, <1>4 DEF UInv

\* A request is sent.
LEMMA USent ==
    ASSUME UShape, NEW r, Utilities!Send(r), "op" \in DOMAIN r, {"st", "mine"} \cap DOMAIN r = {},
           r.op \in Utilities!Changes => Reloads(r)
    PROVE  /\ DOMAIN net' = Utilities!Slots /\ \A s \in Utilities!Slots : USlot(net'[s])
           /\ \E s \in Utilities!Slots :
                 net'[s].op = r.op /\ net'[s].mine = TRUE /\ \A t \in Utilities!Slots \ {s} : net'[t] = net[t]
<1> DEFINE q == Utilities!Asked(r)
<1>1. PICK s \in Utilities!Slots :
          DOMAIN net' = Utilities!Slots /\ net'[s] = q /\ \A t \in Utilities!Slots \ {s} : net'[t] = net[t]
  BY DEF Utilities!Send, UShape
<1>2. /\ DOMAIN q = DOMAIN r \cup {"st", "mine"} /\ q.mine = TRUE
      /\ \A f \in DOMAIN r : q[f] = r[f]
  BY DEF Utilities!Asked, Utilities!Extended
<1> HIDE DEF q
<1>3. USlot(q)
  BY <1>2 DEF USlot, Reloads
<1> QED
  BY <1>1, <1>2, <1>3 DEF UShape

\* The user's steps.
UUser ==
    \/ Utilities!DropCapture \/ Utilities!MapLayer \/ Utilities!OpenImport \/ Utilities!CloseImport
    \/ Utilities!OtherFile
    \/ \E t \in Utilities!Types : Utilities!ChooseType(t)
    \/ \E clicked \in BOOLEAN : Utilities!Capture(clicked)

LEMMA UUserKeeps ==
    ASSUME UInv, UUser
    PROVE  UInv'
<1>1. DOMAIN ui = UFields /\ UShape
  BY DEF UInv, UShape
<1>2. DOMAIN ui' = UFields /\ \A f \in ULook : ui'[f] = ui[f]
  BY <1>1 DEF UUser, Utilities!DropCapture, Utilities!MapLayer, Utilities!OpenImport, Utilities!CloseImport,
              Utilities!OtherFile, Utilities!ChooseType, Utilities!Capture, UFields, ULook
<1>3. net' = net
  BY DEF UUser, Utilities!DropCapture, Utilities!MapLayer, Utilities!OpenImport, Utilities!CloseImport,
         Utilities!OtherFile, Utilities!ChooseType, Utilities!Capture
<1> QED
  BY <1>1, <1>2, <1>3, UKept DEF UShape, Saving

LEMMA UStartKeeps ==
    ASSUME UInv, NEW mode \in {"run", "structure"}, Utilities!Start(mode)
    PROVE  UInv'
<1> DEFINE u == [ui EXCEPT !.mode = mode, !.got = 0, !.dialog = Utilities!Closed]
<1>1. DOMAIN ui = UFields /\ UShape /\ ui.mounted /\ ui.mode = "idle"
  BY DEF UInv, UShape, Utilities!Start, Utilities!Page
<1>2. DOMAIN u = UFields /\ u.mode = mode /\ u.mounted = ui.mounted
  BY <1>1 DEF UFields
<1>3. ui' = Utilities!Render(u)
  BY DEF Utilities!Start
<1> HIDE DEF u
<1>4. DOMAIN net' = Utilities!Slots
  BY DEF Utilities!Start
<1>5. ASSUME NEW s \in Utilities!Slots PROVE USlot(net'[s]) /\ ~Saving(s)'
  <2>1. USlot(net[s]) /\ ~Saving(s)
    BY <1>1 DEF UInv, UShape, Utilities!SaveHoldsBuilder, Saving
  <2>2. CASE net[s].op \in {"preview", "import"}
    <3> DEFINE q == [net[s] EXCEPT !.dialog = FALSE]
    <3>1. net'[s] = q
      BY <2>2 DEF Utilities!Start
    <3>2. {"op", "st", "mine"} \subseteq DOMAIN net[s]
      BY <2>1, <2>2 DEF USlot, Utilities!NoCall
    <3>3. DOMAIN q = DOMAIN net[s] /\ \A f \in DOMAIN q \ {"dialog"} : q[f] = net[s][f]
      OBVIOUS
    <3> HIDE DEF q
    <3>4. q.op \in {"preview", "import"} /\ USlot(q)
      BY <2>1, <2>2, <3>2, <3>3 DEF USlot, Reloads, Utilities!NoCall
    <3> QED
      BY <3>1, <3>4 DEF Saving
  <2>3. CASE net[s].op \notin {"preview", "import"}
    <3>1. net'[s] = net[s]
      BY <2>3 DEF Utilities!Start
    <3> QED
      BY <2>1, <3>1 DEF Saving
  <2> QED
    BY <2>2, <2>3
<1> QED
  BY <1>1, <1>2, <1>3, <1>4, <1>5, URest

LEMMA UCancelKeeps ==
    ASSUME UInv, Utilities!Cancel
    PROVE  UInv'
<1> DEFINE u == [ui EXCEPT !.mode = "idle"]
<1>1. DOMAIN ui = UFields /\ UShape
  BY DEF UInv, UShape
<1>2. DOMAIN u = UFields /\ u.mode = "idle"
  BY <1>1 DEF UFields
<1>3. ui' = Utilities!Render(u) /\ net' = net
  BY DEF Utilities!Cancel
<1> HIDE DEF u
<1>4. \A s \in Utilities!Slots : ~Saving(s)
  BY DEF UInv, Utilities!SaveHoldsBuilder, Saving, Utilities!Cancel
<1> QED
  BY <1>1, <1>2, <1>3, <1>4, URest DEF UShape, Saving

LEMMA USaveKeeps ==
    ASSUME UInv, Utilities!Save
    PROVE  UInv'
<1> DEFINE r == [op |-> ui.mode, type |-> ui.type, then |-> Utilities!Load(ui)]
<1>1. DOMAIN ui = UFields /\ UShape /\ ui.mode \in {"run", "structure"}
  BY DEF UInv, UShape, Utilities!Save
<1>2. r.op = ui.mode /\ DOMAIN r = {"op", "type", "then"} /\ Reloads(r)
  BY DEF Reloads, Utilities!Load
<1>3. Utilities!Send(r)
  BY DEF Utilities!Save
<1> HIDE DEF r
<1>4. PICK s \in Utilities!Slots :
          /\ DOMAIN net' = Utilities!Slots /\ \A t \in Utilities!Slots : USlot(net'[t])
          /\ net'[s].op = ui.mode /\ net'[s].mine = TRUE /\ \A t \in Utilities!Slots \ {s} : net'[t] = net[t]
  BY <1>1, <1>2, <1>3, USent
<1>5. \A t \in Utilities!Slots : ~Saving(t)
  BY DEF UInv, Utilities!SaveHoldsBuilder, Saving, Utilities!Save
<1>6. DOMAIN ui' = UFields /\ ui'.busy = TRUE /\ \A f \in UFields \ {"busy"} : ui'[f] = ui[f]
  BY <1>1 DEF Utilities!Save, UFields
<1>7. UShape'
  BY <1>1, <1>4, <1>6 DEF UShape, USlot, Reloads, Utilities!Slots, Utilities!NoCall, Utilities!Changes, UFields
<1>8. Utilities!SaveHoldsBuilder' /\ UOnce'
  BY <1>4, <1>5, <1>6 DEF Utilities!SaveHoldsBuilder, UOnce, Saving, Utilities!Slots, UFields
<1>9. Utilities!Bridge'
  BY <1>6 DEF UInv, Utilities!Bridge, UFields
<1> QED
  BY <1>7, <1>8, <1>9 DEF UInv

LEMMA UKeptBySend ==
    ASSUME UInv, NEW r, Utilities!Send(r), "op" \in DOMAIN r, {"st", "mine"} \cap DOMAIN r = {},
           r.op \notin {"run", "structure"}, r.op \in Utilities!Changes => Reloads(r),
           DOMAIN ui' = UFields, \A f \in ULook : ui'[f] = ui[f]
    PROVE  UInv'
<1>1. PICK s \in Utilities!Slots :
          /\ DOMAIN net' = Utilities!Slots /\ \A t \in Utilities!Slots : USlot(net'[t])
          /\ net'[s].op = r.op /\ \A t \in Utilities!Slots \ {s} : net'[t] = net[t]
  BY USent DEF UInv
<1>2. \A t \in Utilities!Slots : Saving(t)' => Saving(t) /\ net'[t].op = net[t].op
  BY <1>1 DEF Saving
<1> QED
  BY <1>1, <1>2, UKept

LEMMA UShowKeeps ==
    ASSUME UInv, NEW u, DOMAIN u = UFields, \A f \in ULook : u[f] = ui[f], Utilities!Show(u)
    PROVE  UInv'
<1> DEFINE r == Utilities!Load(u)
<1>1. "op" \in DOMAIN r /\ {"st", "mine"} \cap DOMAIN r = {} /\ r.op = "load"
  BY DEF Utilities!Load
<1>2. Utilities!Send(r) /\ ui' = u
  BY DEF Utilities!Show
<1> HIDE DEF r
<1> QED
  BY <1>1, <1>2, UKeptBySend DEF Utilities!Changes

LEMMA UPageKeeps ==
    ASSUME UInv, \/ Utilities!Previous \/ Utilities!NextPage
                 \/ \E filter \in Utilities!Types \cup {"all"} : Utilities!SetFilter(filter)
    PROVE  UInv'
<1>1. DOMAIN ui = UFields
  BY DEF UInv, UShape
<1>2. CASE Utilities!Previous \/ Utilities!NextPage
  <2>1. PICK p : Utilities!Show([ui EXCEPT !.page = p])
    BY <1>2 DEF Utilities!Previous, Utilities!NextPage
  <2> DEFINE u == [ui EXCEPT !.page = p]
  <2>2. DOMAIN u = UFields /\ \A f \in ULook : u[f] = ui[f]
    BY <1>1 DEF UFields, ULook
  <2>3. Utilities!Show(u)
    BY <2>1
  <2> HIDE DEF u
  <2> QED
    BY <2>2, <2>3, UShowKeeps
<1>3. ASSUME NEW filter \in Utilities!Types \cup {"all"}, Utilities!SetFilter(filter) PROVE UInv'
  <2> DEFINE u == [ui EXCEPT !.filter = filter, !.page = 0]
  <2>2. DOMAIN u = UFields /\ \A f \in ULook : u[f] = ui[f]
    BY <1>1 DEF UFields, ULook
  <2>3. Utilities!Show(u)
    BY <1>3 DEF Utilities!SetFilter
  <2> HIDE DEF u
  <2> QED
    BY <2>2, <2>3, UShowKeeps
<1> QED
  BY <1>2, <1>3

LEMMA USendKeeps ==
    ASSUME UInv, \/ Utilities!Export \/ Utilities!ChooseFile \/ Utilities!CommitImport
                 \/ \E i \in ui.list.rows : Utilities!Remove(i)
    PROVE  UInv'
<1>1. DOMAIN ui = UFields
  BY DEF UInv, UShape
<1>2. DOMAIN ui' = UFields /\ \A f \in ULook : ui'[f] = ui[f]
  BY <1>1 DEF Utilities!Export, Utilities!ChooseFile, Utilities!CommitImport, Utilities!Remove, UFields, ULook
<1>3. PICK r : /\ Utilities!Send(r) /\ "op" \in DOMAIN r /\ {"st", "mine"} \cap DOMAIN r = {}
               /\ r.op \notin {"run", "structure"} /\ (r.op \in Utilities!Changes => Reloads(r))
  <2>1. CASE Utilities!Export \/ Utilities!ChooseFile
    <3>1. Utilities!Send([op |-> "export"]) \/ Utilities!Send([op |-> "preview", dialog |-> TRUE])
      BY <2>1 DEF Utilities!Export, Utilities!ChooseFile
    <3>2. "export" \notin Utilities!Changes /\ "preview" \notin Utilities!Changes
      BY DEF Utilities!Changes
    <3> QED
      BY <3>1, <3>2
  <2>2. ASSUME NEW i, Utilities!Remove(i)
        PROVE \E r : /\ Utilities!Send(r) /\ "op" \in DOMAIN r /\ {"st", "mine"} \cap DOMAIN r = {}
                     /\ r.op \notin {"run", "structure"} /\ (r.op \in Utilities!Changes => Reloads(r))
    <3> DEFINE r == [op |-> "remove", i |-> i, then |-> Utilities!Load(ui)]
    <3>1. Utilities!Send(r)
      BY <2>2 DEF Utilities!Remove
    <3>2. "op" \in DOMAIN r /\ {"st", "mine"} \cap DOMAIN r = {} /\ r.op = "remove" /\ Reloads(r)
      BY DEF Reloads, Utilities!Load
    <3> HIDE DEF r
    <3> QED
      BY <3>1, <3>2
  <2>3. ASSUME Utilities!CommitImport
        PROVE \E r : /\ Utilities!Send(r) /\ "op" \in DOMAIN r /\ {"st", "mine"} \cap DOMAIN r = {}
                     /\ r.op \notin {"run", "structure"} /\ (r.op \in Utilities!Changes => Reloads(r))
    <3>1. PICK t \in Utilities!Types :
              Utilities!Send([op |-> "import", type |-> t, dialog |-> TRUE, then |-> Utilities!Load(ui)])
      BY <2>3 DEF Utilities!CommitImport
    <3> DEFINE r == [op |-> "import", type |-> t, dialog |-> TRUE, then |-> Utilities!Load(ui)]
    <3>2. Utilities!Send(r)
      BY <3>1
    <3>3. "op" \in DOMAIN r /\ {"st", "mine"} \cap DOMAIN r = {} /\ r.op = "import" /\ Reloads(r)
      BY DEF Reloads, Utilities!Load
    <3> HIDE DEF r
    <3> QED
      BY <3>2, <3>3
  <2> QED
    BY <2>1, <2>2, <2>3
<1> QED
  BY <1>2, <1>3, UKeptBySend

LEMMA ULeaveKeeps ==
    ASSUME UInv, Utilities!Leave
    PROVE  UInv'
<1> DEFINE u == [Utilities!Panel EXCEPT !.mounted = FALSE]
<1>1. UShape /\ ui' = Utilities!Render(u) /\ DOMAIN net' = Utilities!Slots
  BY DEF UInv, Utilities!Leave, Utilities!Orphaned
<1>2. DOMAIN u = UFields /\ u.mode = "idle"
  BY DEF Utilities!Panel, UFields
<1> HIDE DEF u
<1>3. ASSUME NEW s \in Utilities!Slots PROVE USlot(net'[s]) /\ ~Saving(s)'
  <2>1. USlot(net[s])
    BY <1>1 DEF UShape
  <2>2. CASE net[s] = Utilities!NoCall
    BY <2>2 DEF Utilities!Leave, Utilities!Orphaned, Saving, USlot, Utilities!NoCall
  <2>3. CASE net[s] # Utilities!NoCall
    <3> DEFINE q == [net[s] EXCEPT !.mine = FALSE]
    <3>1. net'[s] = q
      BY <2>3 DEF Utilities!Leave, Utilities!Orphaned
    <3>2. {"op", "st", "mine"} \subseteq DOMAIN net[s]
      BY <2>1, <2>3 DEF USlot
    <3>3. DOMAIN q = DOMAIN net[s] /\ q.mine = FALSE /\ \A f \in DOMAIN q \ {"mine"} : q[f] = net[s][f]
      BY <3>2
    <3> HIDE DEF q
    <3>4. USlot(q)
      BY <2>1, <2>3, <3>2, <3>3 DEF USlot, Reloads
    <3> QED
      BY <3>1, <3>3, <3>4 DEF Saving
  <2> QED
    BY <2>2, <2>3
<1> QED
  BY <1>1, <1>2, <1>3, URest

LEMMA UReturnKeeps ==
    ASSUME UInv, Utilities!Return
    PROVE  UInv'
<1> DEFINE u == Utilities!Panel
           r == Utilities!Load(u)
<1>1. UShape /\ ui.mode = "idle"
  BY DEF UInv, UShape, Utilities!Return
<1>2. "op" \in DOMAIN r /\ {"st", "mine"} \cap DOMAIN r = {} /\ r.op = "load"
  BY DEF Utilities!Load
<1>3. Utilities!Send(r)
  BY DEF Utilities!Return
<1> HIDE DEF r
<1>4. PICK s \in Utilities!Slots :
          /\ DOMAIN net' = Utilities!Slots /\ \A t \in Utilities!Slots : USlot(net'[t])
          /\ net'[s].op = "load" /\ \A t \in Utilities!Slots \ {s} : net'[t] = net[t]
  BY <1>1, <1>2, <1>3, USent DEF Utilities!Changes
<1>5. ASSUME NEW t \in Utilities!Slots PROVE ~Saving(t)'
  BY <1>1, <1>4 DEF UInv, Saving, Utilities!SaveHoldsBuilder
<1>6. /\ DOMAIN ui' = UFields /\ ui'.mounted = TRUE /\ ui'.mode = "idle"
      /\ ui'.handler = "none" /\ ui'.hint = FALSE
  BY DEF Utilities!Return, Utilities!Panel, UFields
<1>7. UShape'
  BY <1>4, <1>6 DEF UShape, USlot, Reloads, Utilities!Slots, Utilities!NoCall, Utilities!Changes
<1> QED
  BY <1>5, <1>6, <1>7 DEF UInv, Utilities!SaveHoldsBuilder, UOnce, Saving, Utilities!Bridge, Utilities!Slots

\* The server's steps: an answer is under way, and the screen is as it was.
LEMMA UServeKeeps ==
    ASSUME UInv, NEW s \in Utilities!Slots, Utilities!Write(s) \/ Utilities!Read(s)
    PROVE  UInv'
<1>1. DOMAIN ui = UFields /\ UShape
  BY DEF UInv, UShape
<1>2. ui' = ui /\ net[s].st = "sent" /\ \E w : Utilities!Answer(s, w)
  BY DEF Utilities!Write, Utilities!Read
<1>3. PICK w : Utilities!Answer(s, w)
  BY <1>2
<1> DEFINE p == [net[s] EXCEPT !.st = "done"]
           q == Utilities!Extended(p, [ans |-> w])
<1>4. {"op", "st", "mine"} \subseteq DOMAIN net[s] /\ USlot(net[s])
  BY <1>1, <1>2 DEF UShape, USlot, Utilities!NoCall
<1>5. DOMAIN p = DOMAIN net[s] /\ \A f \in DOMAIN p \ {"st"} : p[f] = net[s][f]
  OBVIOUS
<1>6. DOMAIN net' = Utilities!Slots /\ net'[s] = q /\ \A t \in Utilities!Slots \ {s} : net'[t] = net[t]
  BY <1>1, <1>3 DEF Utilities!Answer, UShape
<1> HIDE DEF p
<1>7. DOMAIN p \subseteq DOMAIN q /\ \A f \in DOMAIN p \ {"st"} : q[f] = net[s][f]
  BY <1>5 DEF Utilities!Extended
<1> HIDE DEF q
<1>8. USlot(q) /\ q.op = net[s].op /\ q.mine = net[s].mine
  <2>1. q.op = net[s].op /\ q.mine = net[s].mine
    BY <1>4, <1>5, <1>7
  <2>2. Reloads(net[s]) => Reloads(q)
    BY <1>5, <1>7 DEF Reloads
  <2>3. net[s] # Utilities!NoCall
    BY <1>2 DEF Utilities!NoCall
  <2>4. net[s].mine \in BOOLEAN /\ (net[s].op \in Utilities!Changes => Reloads(net[s]))
    BY <1>4, <2>3 DEF USlot
  <2> QED
    BY <1>4, <1>5, <1>7, <2>1, <2>2, <2>4 DEF USlot
<1>9. \A t \in Utilities!Slots : USlot(net'[t]) /\ net'[t].op = net[t].op /\ net'[t].mine = net[t].mine
  BY <1>1, <1>6, <1>8 DEF UShape
<1> QED
  BY <1>1, <1>2, <1>6, <1>9, UKept DEF Saving, ULook

\* The slot is free again, or carries the load of the inventory.
LEMMA UFreed ==
    ASSUME UShape, NEW s \in Utilities!Slots,
           \/ Utilities!Settle(s)
           \/ Utilities!Reload(s) /\ net[s].op \in Utilities!Changes
    PROVE  /\ DOMAIN net' = Utilities!Slots /\ \A t \in Utilities!Slots : USlot(net'[t])
           /\ net'[s].op \in {"none", "load"} /\ \A t \in Utilities!Slots \ {s} : net'[t] = net[t]
<1>1. CASE Utilities!Settle(s)
  BY <1>1 DEF Utilities!Settle, UShape, USlot, Utilities!NoCall
<1>2. CASE Utilities!Reload(s) /\ net[s].op \in Utilities!Changes
  <2> DEFINE q == Utilities!Extended(net[s].then, [st |-> "sent", mine |-> net[s].mine])
  <2>1. Reloads(net[s]) /\ net[s].mine \in BOOLEAN
    BY <1>2 DEF UShape, USlot, Utilities!NoCall, Utilities!Changes
  <2>2. DOMAIN net' = Utilities!Slots /\ net'[s] = q /\ \A t \in Utilities!Slots \ {s} : net'[t] = net[t]
    BY <1>2 DEF Utilities!Reload, UShape
  <2>3. {"op", "st", "mine"} \subseteq DOMAIN q /\ q.op = "load" /\ q.mine = net[s].mine
    BY <2>1 DEF Utilities!Extended, Reloads
  <2> HIDE DEF q
  <2>4. USlot(q)
    BY <2>1, <2>3 DEF USlot, Utilities!Changes
  <2> QED
    BY <2>2, <2>3, <2>4 DEF UShape
<1> QED
  BY <1>1, <1>2

\* A handler is through that leaves the builder alone.
LEMMA UDoneKeeps ==
    ASSUME UInv, NEW s \in Utilities!Slots,
           \/ Utilities!Settle(s)
           \/ Utilities!Reload(s) /\ net[s].op \in Utilities!Changes,
           NEW u, DOMAIN u = UFields, \A f \in ULook : u[f] = ui[f], Utilities!Set(s, u) \/ ui' = ui
    PROVE  UInv'
<1>1. UShape /\ DOMAIN ui = UFields /\ Utilities!Bridge
  BY DEF UInv, UShape
<1>2. /\ DOMAIN net' = Utilities!Slots /\ \A t \in Utilities!Slots : USlot(net'[t])
      /\ net'[s].op \in {"none", "load"} /\ \A t \in Utilities!Slots \ {s} : net'[t] = net[t]
  BY <1>1, UFreed
<1>3. ASSUME NEW t \in Utilities!Slots, Saving(t)'
      PROVE  Saving(t) /\ net'[t].op = net[t].op
  BY <1>2, <1>3 DEF Saving
<1> DEFINE r == Utilities!Render(u)
<1>4. /\ DOMAIN r = UFields /\ r.mounted = u.mounted /\ r.mode = u.mode /\ r.busy = u.busy
      /\ r.handler = IF u.mounted /\ u.mode # "idle" THEN u.mode ELSE "none"
      /\ r.hint = (u.mounted /\ u.mode # "idle")
  BY URendered DEF UFields
<1>5. ui' = r \/ ui' = ui
  BY DEF Utilities!Set
<1> HIDE DEF r
<1>6. r.hint = ui.hint /\ r.handler = ui.handler
  <2>1. u.mounted = ui.mounted /\ u.mode = ui.mode
    BY DEF ULook
  <2>2. ui.hint = (ui.mounted /\ ui.mode # "idle") /\ r.handler = ui.handler
    BY <1>1, <1>4, <2>1 DEF Utilities!Bridge, UShape
  <2> QED
    BY <1>4, <2>1, <2>2
<1>7. DOMAIN ui' = UFields /\ \A f \in ULook : ui'[f] = ui[f]
  BY <1>1, <1>4, <1>5, <1>6 DEF ULook
<1> QED
  BY <1>2, <1>3, <1>7, UKept

LEMMA UAnswersKeep ==
    ASSUME UInv, NEW s \in Utilities!Slots,
           \/ Utilities!Loaded(s) \/ Utilities!Removed(s) \/ Utilities!Imported(s)
           \/ Utilities!Previewed(s) \/ Utilities!Exported(s)
    PROVE  UInv'
<1>1. DOMAIN ui = UFields
  BY DEF UInv, UShape
<1>2. CASE Utilities!Loaded(s)
  <2> DEFINE u == [ui EXCEPT !.list = net[s].ans]
  <2>1. DOMAIN u = UFields /\ \A f \in ULook : u[f] = ui[f]
    BY <1>1 DEF UFields, ULook
  <2>2. Utilities!Settle(s) /\ Utilities!Set(s, u)
    BY <1>2 DEF Utilities!Loaded
  <2> HIDE DEF u
  <2> QED
    BY <2>1, <2>2, UDoneKeeps
<1>3. CASE Utilities!Removed(s) \/ Utilities!Exported(s)
  <2>1. ui' = ui /\ (Utilities!Settle(s) \/ (Utilities!Reload(s) /\ net[s].op \in Utilities!Changes))
    BY <1>3 DEF Utilities!Removed, Utilities!Exported, Utilities!At, Utilities!Changes
  <2> QED
    BY <1>1, <2>1, UDoneKeeps
<1>4. CASE Utilities!Imported(s) \/ Utilities!Previewed(s)
  <2>1. Utilities!Settle(s) \/ (Utilities!Reload(s) /\ net[s].op \in Utilities!Changes)
    BY <1>4 DEF Utilities!Imported, Utilities!Previewed, Utilities!At, Utilities!Changes
  <2>2. PICK d : Utilities!SetDialog(s, d)
    BY <1>4 DEF Utilities!Imported, Utilities!Previewed
  <2> DEFINE u == IF net[s].dialog THEN [ui EXCEPT !.dialog = d] ELSE ui
  <2>3. Utilities!Set(s, u)
    BY <2>2 DEF Utilities!SetDialog
  <2>4. DOMAIN u = UFields /\ \A f \in ULook : u[f] = ui[f]
    BY <1>1 DEF UFields, ULook
  <2> HIDE DEF u
  <2> QED
    BY <2>1, <2>3, <2>4, UDoneKeeps
<1> QED
  BY <1>2, <1>3, <1>4

\* The builder's own request is answered or fails: no other capture is saved.
LEMMA UBuilderKeeps ==
    ASSUME UInv, NEW s \in Utilities!Slots, net[s].op \in {"run", "structure"},
           Utilities!Settle(s) \/ Utilities!Reload(s),
           NEW u, DOMAIN u = UFields, u.mode \in {"idle", ui.mode}, u.mounted = ui.mounted, Utilities!Set(s, u)
    PROVE  UInv'
<1>1. UShape /\ DOMAIN ui = UFields
  BY DEF UInv, UShape
<1>2. /\ DOMAIN net' = Utilities!Slots /\ \A t \in Utilities!Slots : USlot(net'[t])
      /\ net'[s].op \in {"none", "load"} /\ \A t \in Utilities!Slots \ {s} : net'[t] = net[t]
  BY <1>1, UFreed DEF Utilities!Changes
<1>3. net[s].mine \in BOOLEAN
  BY <1>1 DEF UShape, USlot, Utilities!NoCall
<1>4. CASE net[s].mine
  <2>1. ui' = Utilities!Render(u)
    BY <1>4 DEF Utilities!Set
  <2>2. ASSUME NEW t \in Utilities!Slots PROVE ~Saving(t)'
    BY <1>2, <1>4 DEF UInv, UOnce, Saving
  <2>3. u.mode \in {"idle", "run", "structure"} /\ (~u.mounted => u.mode = "idle")
    BY <1>1 DEF UShape
  <2> QED
    BY <1>2, <2>1, <2>2, <2>3, URest
<1>5. CASE ~net[s].mine
  <2>1. ui' = ui
    BY <1>5 DEF Utilities!Set
  <2>2. \A t \in Utilities!Slots : Saving(t)' => Saving(t) /\ net'[t].op = net[t].op
    BY <1>2 DEF Saving
  <2> QED
    BY <1>1, <1>2, <2>1, <2>2, UKept DEF ULook
<1> QED
  BY <1>3, <1>4, <1>5

LEMMA UEndsKeep ==
    ASSUME UInv, NEW s \in Utilities!Slots, Utilities!Saved(s) \/ Utilities!Failed(s)
    PROVE  UInv'
<1>1. DOMAIN ui = UFields
  BY DEF UInv, UShape
<1>2. CASE Utilities!Saved(s)
  <2> DEFINE u == [ui EXCEPT !.mode = "idle", !.busy = FALSE]
  <2>1. DOMAIN u = UFields /\ u.mode = "idle" /\ u.mounted = ui.mounted
    BY <1>1 DEF UFields
  <2>2. net[s].op \in {"run", "structure"} /\ Utilities!Reload(s) /\ Utilities!Set(s, u)
    BY <1>2 DEF Utilities!Saved
  <2> HIDE DEF u
  <2> QED
    BY <2>1, <2>2, UBuilderKeeps
<1>3. CASE Utilities!Failed(s) /\ net[s].op \in {"run", "structure"}
  <2> DEFINE u == [ui EXCEPT !.busy = FALSE]
  <2>1. DOMAIN u = UFields /\ u.mode = ui.mode /\ u.mounted = ui.mounted
    BY <1>1 DEF UFields
  <2>2. Utilities!Settle(s) /\ Utilities!Set(s, u)
    BY <1>3 DEF Utilities!Failed
  <2> HIDE DEF u
  <2> QED
    BY <1>3, <2>1, <2>2, UBuilderKeeps
<1>4. CASE Utilities!Failed(s) /\ net[s].op \in {"preview", "import"}
  <2>1. PICK d : Utilities!Settle(s) /\ Utilities!SetDialog(s, d)
    BY <1>4 DEF Utilities!Failed
  <2> DEFINE u == IF net[s].dialog THEN [ui EXCEPT !.dialog = d] ELSE ui
  <2>2. Utilities!Set(s, u)
    BY <2>1 DEF Utilities!SetDialog
  <2>3. DOMAIN u = UFields /\ \A f \in ULook : u[f] = ui[f]
    BY <1>1 DEF UFields, ULook
  <2> HIDE DEF u
  <2> QED
    BY <2>1, <2>2, <2>3, UDoneKeeps
<1>5. CASE Utilities!Failed(s) /\ net[s].op \notin {"run", "structure", "preview", "import"}
  <2>1. Utilities!Settle(s) /\ ui' = ui
    BY <1>5 DEF Utilities!Failed
  <2> QED
    BY <1>1, <2>1, UDoneKeeps
<1> QED
  BY <1>2, <1>3, <1>4, <1>5

LEMMA UInit ==
    ASSUME Utilities!Init, MaxCalls \in Nat \ {0}
    PROVE  UInv
<1> DEFINE r == Utilities!Load(Utilities!Panel)
           q == Utilities!Asked(r)
<1>1. /\ DOMAIN ui = UFields /\ ui.mounted = TRUE /\ ui.mode = "idle" /\ ui.handler = "none" /\ ui.hint = FALSE
  BY DEF Utilities!Init, Utilities!Panel, UFields
<1>2. DOMAIN r = {"op", "page", "filter", "frees"} /\ r.op = "load"
  BY DEF Utilities!Load
<1>3. net = [Utilities!NoCalls EXCEPT ![1] = q]
  BY DEF Utilities!Init
<1> HIDE DEF r
<1>4. {"op", "st", "mine"} \subseteq DOMAIN q /\ q.mine = TRUE /\ q.op = "load"
  BY <1>2 DEF Utilities!Asked, Utilities!Extended
<1> HIDE DEF q
<1>5. DOMAIN net = Utilities!Slots /\ \A s \in Utilities!Slots : net[s] \in {q, Utilities!NoCall}
  BY <1>3 DEF Utilities!NoCalls, Utilities!Slots
<1>6. \A s \in Utilities!Slots : USlot(net[s]) /\ ~Saving(s)
  <2>1. USlot(q) /\ q.op = "load" /\ USlot(Utilities!NoCall) /\ Utilities!NoCall.op = "none"
    BY <1>4 DEF USlot, Utilities!NoCall, Utilities!Changes
  <2> QED
    BY <1>5, <2>1 DEF Saving
<1> QED
  BY <1>1, <1>5, <1>6 DEF UInv, UShape, Utilities!SaveHoldsBuilder, UOnce, Saving, Utilities!Bridge

LEMMA UStep ==
    ASSUME UInv, [Utilities!Next]_Utilities!vars
    PROVE  UInv'
<1>1. CASE UNCHANGED Utilities!vars
  BY <1>1, UKept DEF UInv, UShape, Utilities!vars, Saving
<1>2. CASE Utilities!User
  <2>1. \/ UUser \/ Utilities!Cancel \/ Utilities!Save \/ Utilities!Leave \/ Utilities!Return
        \/ \E mode \in {"run", "structure"} : Utilities!Start(mode)
        \/ Utilities!Export \/ Utilities!ChooseFile \/ Utilities!CommitImport
        \/ \E i \in ui.list.rows : Utilities!Remove(i)
        \/ Utilities!Previous \/ Utilities!NextPage
        \/ \E filter \in Utilities!Types \cup {"all"} : Utilities!SetFilter(filter)
    BY <1>2 DEF Utilities!User, UUser
  <2> QED
    BY <2>1, UUserKeeps, UCancelKeeps, USaveKeeps, ULeaveKeeps, UReturnKeeps, UStartKeeps, USendKeeps, UPageKeeps
<1>3. ASSUME NEW s \in Utilities!Slots, Utilities!Write(s) \/ Utilities!Read(s) \/ Utilities!Settles(s)
      PROVE  UInv'
  BY <1>3, UServeKeeps, UAnswersKeep, UEndsKeep DEF Utilities!Settles
<1> QED
  BY <1>1, <1>2, <1>3 DEF Utilities!Next

-----------------------------------------------------------------------------
UScreen == screen \in {"utilities", "records"} => UInv

LEMMA ScreenIsOne ==
    ASSUME [Next]_vars
    PROVE  screen' = screen
BY DEF Next, vars

\* A capture of the utility records that is being saved keeps its builder, and
\* no other is saved meanwhile: its answer ends what it belongs to.
THEOREM CaptureKeepsBuilder == Spec => []SaveHoldsBuilder
<1>1. Init => UScreen
  BY ScreensAssumption, UInit DEF Init, UScreen, ScreensAssumption
<1>2. UScreen /\ [Next]_vars => UScreen'
  <2> SUFFICES ASSUME UScreen, [Next]_vars, screen' \in {"utilities", "records"} PROVE UInv'
    BY DEF UScreen
  <2>1. screen \in {"utilities", "records"} /\ UInv
    BY ScreenIsOne DEF UScreen
  <2>2. [Utilities!Next]_Utilities!vars
    BY <2>1 DEF Next, vars, Utilities!vars
  <2> QED
    BY <2>1, <2>2, UStep
<1>3. UScreen => SaveHoldsBuilder
  BY DEF UScreen, SaveHoldsBuilder, UInv
<1> QED
  BY <1>1, <1>2, <1>3, PTL DEF Spec

-----------------------------------------------------------------------------
(* The boundary.                                                           *)
BFields == {"mounted", "editing", "verts", "finding", "busy", "page", "digitizing", "pick", "draft"}

\* Only a panel on the screen hears of its parcel and of its ring.
BMine == \A s \in R!Slots : net[s].op \in {"parcel", "set"} /\ net[s].mine => ui.mounted
BShape ==
    /\ DOMAIN ui = BFields /\ {ui.mounted, ui.editing, ui.pick, ui.digitizing} \subseteq BOOLEAN
    /\ ui.editing => ui.mounted
BInv == BShape /\ RNet /\ BMine /\ Boundary!Bridge

LEMMA BCalls ==
    /\ Boundary!Slots = R!Slots /\ Boundary!NoCall = R!NoCall /\ Boundary!Orphaned = R!Orphaned
    /\ \A r : Boundary!Send(r) <=> R!Send(r)
    /\ \A s : (Boundary!Settle(s) <=> R!Settle(s)) /\ (Boundary!Throw(s) <=> R!Throw(s))
    /\ \A s, r : (Boundary!Follow(s, r) <=> R!Follow(s, r)) /\ (Boundary!Answer(s, r) <=> R!Answer(s, r))
BY DEF Boundary!Slots, R!Slots, Boundary!NoCall, R!NoCall, Boundary!Orphaned, R!Orphaned, Boundary!Send, R!Send,
       Boundary!Settle, R!Settle, Boundary!Throw, R!Throw, Boundary!Follow, R!Follow, Boundary!Answer, R!Answer,
       Boundary!Asked, R!Asked, Boundary!Extended, R!Extended

\* After each change the effects run.
LEMMA BEffects ==
    ASSUME NEW u, DOMAIN u = BFields, {u.mounted, u.editing} \subseteq BOOLEAN, u.editing => u.mounted,
           ui' = Boundary!Effects(u)
    PROVE  BShape' /\ Boundary!Bridge' /\ ui'.mounted = u.mounted
BY DEF Boundary!Effects, Boundary!Bridge, BShape, BFields

LEMMA BFields5 ==
    ASSUME BShape, Boundary!Bridge, DOMAIN ui' = BFields,
           \A f \in {"mounted", "editing", "verts", "digitizing", "pick", "draft"} : ui'[f] = ui[f]
    PROVE  BShape' /\ Boundary!Bridge' /\ ui'.mounted = ui.mounted
BY DEF BShape, Boundary!Bridge

\* The user draws.
LEMMA BDrawKeeps ==
    ASSUME BInv, \/ Boundary!StartEdit \/ Boundary!Cancel \/ \E v \in Some : Boundary!AddVertex(v)
                 \/ \E i \in DOMAIN ui.verts : Boundary!RemoveVertex(i)
    PROVE  BInv'
<1>1. PICK v, e : /\ ui' = Boundary!Effects([ui EXCEPT !.editing = e, !.verts = v])
                  /\ e \in BOOLEAN /\ (e => ui.mounted)
  <2>1. CASE Boundary!StartEdit \/ Boundary!Cancel
    BY <2>1 DEF Boundary!StartEdit, Boundary!Cancel, Boundary!Set
  <2>2. ASSUME NEW v, ui' = Boundary!Effects([ui EXCEPT !.verts = v]), ui.mounted, ui.editing
        PROVE \E w, e : /\ ui' = Boundary!Effects([ui EXCEPT !.editing = e, !.verts = w])
                        /\ e \in BOOLEAN /\ (e => ui.mounted)
    <3>1. [ui EXCEPT !.verts = v] = [ui EXCEPT !.editing = TRUE, !.verts = v]
      BY <2>2 DEF BInv, BShape, BFields
    <3> QED
      BY <2>2, <3>1
  <2>3. ui.pick => ui.mounted /\ ui.editing
    BY DEF BInv, BShape, Boundary!Bridge
  <2> QED
    BY <2>1, <2>2, <2>3 DEF Boundary!AddVertex, Boundary!RemoveVertex, Boundary!Set
<1> DEFINE u == [ui EXCEPT !.editing = e, !.verts = v]
<1>2. DOMAIN u = BFields /\ u.editing = e /\ u.mounted = ui.mounted /\ ui.mounted \in BOOLEAN
  BY DEF BInv, BShape, BFields
<1>3. ui' = Boundary!Effects(u)
  BY <1>1
<1> HIDE DEF u
<1>4. BShape' /\ Boundary!Bridge' /\ ui'.mounted = ui.mounted
  BY <1>1, <1>2, <1>3, BEffects
<1>5. net' = net
  BY DEF Boundary!StartEdit, Boundary!Cancel, Boundary!AddVertex, Boundary!RemoveVertex
<1> QED
  BY <1>4, <1>5 DEF BInv, RNet, BMine

\* The user asks.
LEMMA BAskKeeps ==
    ASSUME BInv, Boundary!FindParcel \/ Boundary!Save \/ Boundary!Clear
    PROVE  BInv'
<1>1. DOMAIN ui' = BFields /\ ui.mounted /\ ui'.mounted = ui.mounted /\ BShape' /\ Boundary!Bridge'
  <2>1. /\ DOMAIN ui' = BFields /\ ui.mounted
        /\ \A f \in {"mounted", "editing", "verts", "digitizing", "pick", "draft"} : ui'[f] = ui[f]
    BY DEF BInv, BShape, BFields, Boundary!FindParcel, Boundary!Save, Boundary!Clear, Boundary!Put
  <2> QED
    BY <2>1, BFields5 DEF BInv
<1>2. PICK r : R!Send(r) /\ "op" \in DOMAIN r /\ {"st", "mine"} \cap DOMAIN r = {}
  <2>1. Boundary!Send([op |-> "parcel"]) \/ \E ring : Boundary!Send([op |-> "set", ring |-> ring])
    BY DEF Boundary!FindParcel, Boundary!Save, Boundary!Clear, Boundary!Put
  <2>2. ASSUME NEW ring
        PROVE  LET r == [op |-> "set", ring |-> ring] IN "op" \in DOMAIN r /\ {"st", "mine"} \cap DOMAIN r = {}
    OBVIOUS
  <2>3. LET r == [op |-> "parcel"] IN "op" \in DOMAIN r /\ {"st", "mine"} \cap DOMAIN r = {}
    OBVIOUS
  <2> QED
    BY <2>1, <2>2, <2>3, BCalls
<1>3. RNet'
  BY <1>2, RSent DEF BInv
<1> QED
  BY <1>1, <1>3 DEF BInv, BMine

LEMMA BTabKeeps ==
    ASSUME BInv, Boundary!Leave \/ Boundary!Return
    PROVE  BInv'
<1>1. CASE Boundary!Leave
  <2>1. RNet' /\ \A s \in R!Slots : net'[s] = R!NoCall \/ net'[s].mine = FALSE
    BY <1>1, BCalls, ROrphaned DEF Boundary!Leave, BInv
  <2>2. BShape' /\ Boundary!Bridge'
    BY <1>1 DEF Boundary!Leave, Boundary!Fresh, BShape, BFields, Boundary!Bridge, Boundary!NoDraft
  <2> QED
    BY <2>1, <2>2 DEF BInv, BMine, R!NoCall
<1>2. CASE Boundary!Return
  BY <1>2 DEF Boundary!Return, Boundary!Fresh, BInv, BShape, BFields, BMine, RNet, Boundary!Bridge, Boundary!NoDraft
<1> QED
  BY <1>1, <1>2

\* The server, and answers that are lost.
LEMMA BServeKeeps ==
    ASSUME BInv, NEW s \in R!Slots, Boundary!Serve(s) \/ Boundary!Fail(s)
    PROVE  BInv'
<1>1. ui' = ui /\ (R!Throw(s) \/ \E w : R!Answer(s, w))
  BY BCalls DEF Boundary!Serve, Boundary!Store, Boundary!ReadPage, Boundary!AskService, Boundary!Fail
<1>2. net[s] # R!NoCall
  <2>1. net[s].st \in {"sent", "done"}
    BY DEF Boundary!Serve, Boundary!Store, Boundary!ReadPage, Boundary!AskService, Boundary!Fail, Boundary!At
  <2> QED
    BY <2>1 DEF R!NoCall
<1>3. RNet' /\ Only(s) /\ \A f \in DOMAIN net[s] \ {"st"} : net'[s][f] = net[s][f]
  BY <1>1, <1>2, RThrown, RAnswered DEF BInv
<1>4. {"op", "mine"} \subseteq DOMAIN net[s]
  BY <1>2 DEF BInv, RNet, RShape
<1> QED
  BY <1>1, <1>3, <1>4 DEF BInv, BShape, BMine, Boundary!Bridge, Only

\* What the handlers do.
LEMMA BSettlesKeep ==
    ASSUME BInv, NEW s \in R!Slots, Boundary!Settles(s)
    PROVE  BInv'
<1>1. RNet' /\ Only(s) /\ net'[s].op \in {"none", "load"}
  <2>1. R!Settle(s) \/ R!Follow(s, Boundary!Load)
    BY BCalls DEF Boundary!Settles, Boundary!ParcelCame, Boundary!Stored, Boundary!Loaded, Boundary!Failed
  <2>2. "op" \in DOMAIN Boundary!Load /\ Boundary!Load.op = "load" /\ {"st", "mine"} \cap DOMAIN Boundary!Load = {}
    BY DEF Boundary!Load
  <2>3. CASE R!Settle(s)
    BY <2>3, RSettled DEF BInv, R!NoCall
  <2>4. CASE R!Follow(s, Boundary!Load)
    <3>1. RNet' /\ Only(s) /\ \A f \in DOMAIN Boundary!Load : net'[s][f] = Boundary!Load[f]
      BY <2>2, <2>4, RFollowed DEF BInv
    <3> QED
      BY <2>2, <3>1
  <2> QED
    BY <2>1, <2>3, <2>4
<1>2. BShape /\ Boundary!Bridge /\ DOMAIN ui = BFields
  BY DEF BInv, BShape
<1>3. BShape' /\ Boundary!Bridge' /\ ui'.mounted = ui.mounted
  <2>1. ASSUME NEW u, DOMAIN u = BFields, u.mounted = ui.mounted, u.editing \in BOOLEAN, u.editing => ui.mounted,
               ui' = Boundary!Effects(u)
        PROVE  BShape' /\ Boundary!Bridge' /\ ui'.mounted = ui.mounted
    BY <1>2, <2>1, BEffects DEF BShape
  <2>2. CASE Boundary!ParcelCame(s) /\ net[s].mine /\ net[s].ans # <<>>
    <3> DEFINE u == [ui EXCEPT !.finding = FALSE, !.verts = net[s].ans, !.editing = TRUE]
    <3>1. DOMAIN u = BFields /\ u.mounted = ui.mounted /\ u.editing = TRUE
      BY <1>2 DEF BFields
    <3>2. ui' = Boundary!Effects(u) /\ ui.mounted
      BY <2>2 DEF Boundary!ParcelCame, Boundary!Set, Boundary!At, BInv, BMine
    <3> HIDE DEF u
    <3> QED
      BY <2>1, <3>1, <3>2
  <2>3. CASE Boundary!Stored(s) /\ net[s].mine
    <3> DEFINE u == [ui EXCEPT !.busy = FALSE, !.editing = FALSE, !.verts = <<>>]
    <3>1. DOMAIN u = BFields /\ u.mounted = ui.mounted /\ u.editing = FALSE
      BY <1>2 DEF BFields
    <3>2. ui' = Boundary!Effects(u)
      BY <2>3 DEF Boundary!Stored, Boundary!Set
    <3> HIDE DEF u
    <3> QED
      BY <2>1, <3>1, <3>2
  <2>4. CASE \/ Boundary!ParcelCame(s) /\ ~(net[s].mine /\ net[s].ans # <<>>)
             \/ Boundary!Stored(s) /\ ~net[s].mine
             \/ Boundary!Loaded(s) \/ Boundary!Failed(s)
    <3>1. /\ DOMAIN ui' = BFields
          /\ \A f \in {"mounted", "editing", "verts", "digitizing", "pick", "draft"} : ui'[f] = ui[f]
      BY <1>2, <2>4 DEF BFields, Boundary!ParcelCame, Boundary!Stored, Boundary!Loaded, Boundary!Failed
    <3> QED
      BY <1>2, <3>1, BFields5
  <2> QED
    BY <2>2, <2>3, <2>4 DEF Boundary!Settles
<1> QED
  BY <1>1, <1>3 DEF BInv, BMine, Only

LEMMA BInit ==
    ASSUME Boundary!Init
    PROVE  BInv
<1>1. net = R!NoCalls
  BY DEF Boundary!Init, Boundary!NoCalls, R!NoCalls, Boundary!Slots, R!Slots, Boundary!NoCall, R!NoCall
<1>2. RNet /\ \A s \in R!Slots : net[s] = R!NoCall
  BY <1>1 DEF RNet, RShape, R!NoCalls
<1>3. BShape /\ Boundary!Bridge
  BY DEF Boundary!Init, Boundary!Fresh, BShape, BFields, Boundary!Bridge, Boundary!NoDraft
<1> QED
  BY <1>2, <1>3 DEF BInv, BMine, R!NoCall

LEMMA BStep ==
    ASSUME BInv, [Boundary!Next]_Boundary!vars
    PROVE  BInv'
<1>1. CASE UNCHANGED Boundary!vars
  BY <1>1 DEF BInv, BShape, RNet, BMine, Boundary!Bridge, Boundary!vars
<1> QED
  BY <1>1, BCalls, BDrawKeeps, BAskKeeps, BTabKeeps, BServeKeeps, BSettlesKeep DEF Boundary!Next, Boundary!User

-----------------------------------------------------------------------------
(* The surfaces.                                                           *)
MFields == {"mounted", "lists", "base", "capture", "line", "points", "busy", "pending", "handler", "hint",
            "surface", "volume"}
MLook == {"mounted", "capture", "handler", "hint"}
MInv == DOMAIN ui = MFields /\ {ui.mounted, ui.hint} \subseteq BOOLEAN /\ Modelling!Bridge

LEMMA MKept ==
    ASSUME MInv, DOMAIN ui' = MFields, \A f \in MLook : ui'[f] = ui[f]
    PROVE  MInv'
BY DEF MInv, MLook, Modelling!Bridge

LEMMA MRendered ==
    ASSUME NEW u, DOMAIN u = MFields, u.mounted \in BOOLEAN, ui' = Modelling!Render(u)
    PROVE  MInv'
<1> DEFINE on == IF u.mounted THEN u.capture ELSE "none"
<1>1. ui' = [u EXCEPT !.handler = on, !.hint = on # "none"]
  BY DEF Modelling!Render
<1>2. DOMAIN ui' = MFields /\ ui'.handler = on /\ ui'.mounted = u.mounted /\ ui'.capture = u.capture
  BY <1>1 DEF MFields
<1>3. ui'.hint = (on # "none")
  BY <1>1 DEF MFields
<1> QED
  BY <1>2, <1>3 DEF MInv, Modelling!Bridge

\* The user's steps that leave the captures alone.
LEMMA MUserKeeps ==
    ASSUME MInv, \/ \E i \in 1 .. db.next : Modelling!OfRow(i)
                 \/ \E got \in BOOLEAN : Modelling!Capture(got)
                 \/ Modelling!Build \/ Modelling!BuildDesign \/ Modelling!SnapshotTerrain
                 \/ Modelling!SaveBreakline \/ Modelling!AutoBoundary \/ Modelling!ComputeVolume
                 \/ Modelling!CancelDelete \/ Modelling!ConfirmDelete \/ Modelling!Export
                 \/ Modelling!UploadDem \/ Modelling!ImportBreaklines
    PROVE  MInv'
<1>1. DOMAIN ui = MFields
  BY DEF MInv
<1>2. CASE \/ \E i \in 1 .. db.next : Modelling!OfRow(i)
           \/ \E got \in BOOLEAN : Modelling!Capture(got)
  <2>1. DOMAIN ui' = MFields /\ \A f \in MLook : ui'[f] = ui[f]
    BY <1>1, <1>2 DEF MFields, MLook, Modelling!OfRow, Modelling!ClickSurface, Modelling!ClickVolume, Modelling!Rebuild,
                      Modelling!Run, Modelling!PickBase, Modelling!AskDelete, Modelling!Capture, Modelling!Captured
  <2> QED
    BY <2>1, MKept
<1>3. CASE \/ Modelling!Build \/ Modelling!BuildDesign \/ Modelling!SnapshotTerrain
           \/ Modelling!SaveBreakline \/ Modelling!AutoBoundary \/ Modelling!ComputeVolume
           \/ Modelling!CancelDelete \/ Modelling!ConfirmDelete \/ Modelling!Export
           \/ Modelling!UploadDem \/ Modelling!ImportBreaklines
  <2>1. DOMAIN ui' = MFields /\ \A f \in MLook : ui'[f] = ui[f]
    BY <1>1, <1>3 DEF MFields, MLook, Modelling!Build, Modelling!BuildDesign, Modelling!SnapshotTerrain,
                      Modelling!SaveBreakline, Modelling!AutoBoundary, Modelling!ComputeVolume, Modelling!CancelDelete,
                      Modelling!ConfirmDelete, Modelling!Export, Modelling!UploadDem, Modelling!ImportBreaklines,
                      Modelling!Run, Modelling!Commit
  <2> QED
    BY <2>1, MKept
<1> QED
  BY <1>2, <1>3

\* Captures begin and end, and the panel comes and goes.
LEMMA MCaptureKeeps ==
    ASSUME MInv, \/ \E what \in {"line", "points"} : Modelling!StartCapture(what)
                 \/ Modelling!CancelCapture \/ Modelling!Leave \/ Modelling!Return
    PROVE  MInv'
<1>1. DOMAIN ui = MFields /\ ui.mounted \in BOOLEAN
  BY DEF MInv
<1>2. ASSUME NEW what, Modelling!StartCapture(what) PROVE MInv'
  <2> DEFINE u == [ui EXCEPT !.capture = what, !.points = @ /\ what # "points"]
  <2>1. DOMAIN u = MFields /\ u.mounted = ui.mounted
    BY <1>1 DEF MFields
  <2>2. ui' = Modelling!Render(u)
    BY <1>2 DEF Modelling!StartCapture
  <2> HIDE DEF u
  <2> QED
    BY <1>1, <2>1, <2>2, MRendered
<1>3. CASE Modelling!CancelCapture
  <2> DEFINE c == Modelling!Captured(ui, FALSE)
             u == [c EXCEPT !.capture = "none"]
  <2>1. DOMAIN c = MFields /\ c.mounted = ui.mounted
    BY <1>1 DEF MFields, Modelling!Captured
  <2>2. ui' = Modelling!Render(u)
    BY <1>3 DEF Modelling!CancelCapture
  <2> HIDE DEF c
  <2>3. DOMAIN u = MFields /\ u.mounted = ui.mounted
    BY <2>1 DEF MFields
  <2> HIDE DEF u
  <2> QED
    BY <1>1, <2>2, <2>3, MRendered
<1>4. CASE Modelling!Leave
  <2> DEFINE p == [Modelling!Panel EXCEPT !.mounted = FALSE]
             u == Modelling!Extended(p, ui)
  <2>1. DOMAIN p \subseteq MFields /\ "mounted" \in DOMAIN p /\ p.mounted = FALSE
    BY DEF MFields, Modelling!Panel
  <2>2. ui' = Modelling!Render(u)
    BY <1>4 DEF Modelling!Leave
  <2> HIDE DEF p
  <2>3. DOMAIN u = MFields /\ u.mounted = FALSE
    BY <1>1, <2>1 DEF Modelling!Extended
  <2> HIDE DEF u
  <2> QED
    BY <2>2, <2>3, MRendered
<1>5. CASE Modelling!Return
  <2>1. /\ DOMAIN Modelling!Panel = MFields \ {"surface", "volume"} /\ Modelling!Panel.mounted = TRUE
        /\ Modelling!Panel.capture = "none" /\ Modelling!Panel.handler = "none" /\ Modelling!Panel.hint = FALSE
    BY DEF MFields, Modelling!Panel
  <2>2. DOMAIN ui' = MFields /\ \A f \in MLook : ui'[f] = Modelling!Panel[f]
    BY <1>1, <1>5, <2>1 DEF Modelling!Return, Modelling!Extended, MFields, MLook
  <2> QED
    BY <2>1, <2>2 DEF MInv, MLook, Modelling!Bridge
<1> QED
  BY <1>2, <1>3, <1>4, <1>5

\* A handler sets something of the panel, if it is still there.
LEMMA MSetKeeps ==
    ASSUME MInv, NEW s, NEW u, DOMAIN u = MFields, u.mounted = ui.mounted, Modelling!Set(s, u)
    PROVE  MInv'
<1>1. DOMAIN ui = MFields /\ ui.mounted \in BOOLEAN
  BY DEF MInv
<1>2. CASE net[s].mine
  BY <1>1, <1>2, MRendered DEF Modelling!Set
<1>3. CASE ~net[s].mine
  <2>1. ui' = [ui EXCEPT !.surface = u.surface, !.volume = u.volume]
    BY <1>3 DEF Modelling!Set
  <2>2. DOMAIN ui' = MFields /\ \A f \in MLook : ui'[f] = ui[f]
    BY <1>1, <2>1 DEF MFields, MLook
  <2> QED
    BY <2>2, MKept
<1> QED
  BY <1>2, <1>3

LEMMA MShown ==
    ASSUME NEW u, NEW what, NEW i, DOMAIN u = MFields
    PROVE  LET v == Modelling!Shows(u, what, i) IN DOMAIN v = MFields /\ v.mounted = u.mounted
BY DEF Modelling!Shows, MFields

LEMMA MSettlesKeep ==
    ASSUME MInv, NEW s, Modelling!Settles(s)
    PROVE  MInv'
<1>1. DOMAIN ui = MFields
  BY DEF MInv
<1> DEFINE fr == Modelling!Freed(s)
<1>2. DOMAIN fr = MFields /\ fr.mounted = ui.mounted
  BY <1>1 DEF MFields, Modelling!Freed
<1>3. PICK u : DOMAIN u = MFields /\ u.mounted = ui.mounted /\ Modelling!Set(s, u)
  <2>1. CASE Modelling!Loaded(s)
    <3>1. PICK lists : Modelling!Set(s, Modelling!Shows(Modelling!Listed(ui, lists), net[s].what, net[s].select))
      BY <2>1 DEF Modelling!Loaded
    <3> DEFINE l == Modelling!Listed(ui, lists)
    <3>2. DOMAIN l = MFields /\ l.mounted = ui.mounted
      BY <1>1 DEF MFields, Modelling!Listed
    <3> HIDE DEF l
    <3>3. Modelling!Set(s, Modelling!Shows(l, net[s].what, net[s].select))
      BY <3>1 DEF l
    <3> QED
      BY <3>2, <3>3, MShown
  <2>2. CASE Modelling!Failed(s) /\ net[s].op = "load"
    <3> DEFINE l == Modelling!Emptied(ui, net[s].what)
    <3>1. Modelling!Set(s, Modelling!Shows(l, net[s].what, net[s].select))
      BY <2>2 DEF Modelling!Failed
    <3>2. DOMAIN l = MFields /\ l.mounted = ui.mounted
      BY <1>1 DEF MFields, Modelling!Emptied
    <3> HIDE DEF l
    <3> QED
      BY <3>1, <3>2, MShown
  <2>3. CASE Modelling!Computed(s) \/ Modelling!Exported(s) \/ (Modelling!Failed(s) /\ net[s].op # "load")
    <3>1. Modelling!Set(s, fr)
      BY <2>3 DEF Modelling!Computed, Modelling!Exported, Modelling!Failed
    <3> HIDE DEF fr
    <3> QED
      BY <1>2, <3>1
  <2>4. CASE Modelling!Built(s)
    <3>1. PICK i : \/ Modelling!Set(s, [fr EXCEPT !.points = FALSE, !.capture = IF @ = "points" THEN "none" ELSE @])
                   \/ Modelling!Set(s, [fr EXCEPT !.surface = i])
                   \/ Modelling!Set(s, fr)
      BY <2>4 DEF Modelling!Built
    <3> HIDE DEF fr
    <3> DEFINE p == [fr EXCEPT !.points = FALSE, !.capture = IF @ = "points" THEN "none" ELSE @]
               q == [fr EXCEPT !.surface = i]
    <3>2. DOMAIN p = MFields /\ p.mounted = fr.mounted /\ DOMAIN q = MFields /\ q.mounted = fr.mounted
      BY <1>2 DEF MFields
    <3>3. Modelling!Set(s, p) \/ Modelling!Set(s, q) \/ Modelling!Set(s, fr)
      BY <3>1
    <3> HIDE DEF p, q
    <3> QED
      BY <1>2, <3>2, <3>3
  <2>5. CASE Modelling!Constrained(s)
    <3> DEFINE p == [fr EXCEPT !.line = FALSE, !.capture = IF @ = "line" THEN "none" ELSE @]
    <3>1. Modelling!Set(s, p) \/ Modelling!Set(s, fr)
      BY <2>5 DEF Modelling!Constrained
    <3> HIDE DEF fr
    <3>2. DOMAIN p = MFields /\ p.mounted = fr.mounted
      BY <1>2 DEF MFields
    <3> HIDE DEF p
    <3> QED
      BY <1>2, <3>1, <3>2
  <2>6. CASE Modelling!Removed(s)
    <3> DEFINE p == [fr EXCEPT !.surface = Modelling!None]
               q == [fr EXCEPT !.volume = Modelling!None]
    <3>1. Modelling!Set(s, p) \/ Modelling!Set(s, q) \/ Modelling!Set(s, fr)
      BY <2>6 DEF Modelling!Removed
    <3> HIDE DEF fr
    <3>2. DOMAIN p = MFields /\ p.mounted = fr.mounted /\ DOMAIN q = MFields /\ q.mounted = fr.mounted
      BY <1>2 DEF MFields
    <3> HIDE DEF p, q
    <3> QED
      BY <1>2, <3>1, <3>2
  <2> QED
    BY <2>1, <2>2, <2>3, <2>4, <2>5, <2>6 DEF Modelling!Settles
<1> QED
  BY <1>3, MSetKeeps

LEMMA MInit ==
    ASSUME Modelling!Init
    PROVE  MInv
<1>1. /\ DOMAIN Modelling!Panel = MFields \ {"surface", "volume"} /\ Modelling!Panel.mounted = TRUE
      /\ Modelling!Panel.capture = "none" /\ Modelling!Panel.handler = "none" /\ Modelling!Panel.hint = FALSE
  BY DEF MFields, Modelling!Panel
<1>2. DOMAIN ui = MFields /\ \A f \in MLook : ui[f] = Modelling!Panel[f]
  BY <1>1 DEF Modelling!Init, Modelling!Extended, MFields, MLook
<1> QED
  BY <1>1, <1>2 DEF MInv, MLook, Modelling!Bridge

LEMMA MStep ==
    ASSUME MInv, [Modelling!Next]_Modelling!vars
    PROVE  MInv'
<1>1. CASE UNCHANGED ui
  BY <1>1, MKept DEF MInv
<1>2. ASSUME NEW s, Modelling!Write(s) \/ Modelling!Read(s) PROVE UNCHANGED ui
  BY <1>2 DEF Modelling!Write, Modelling!Read
<1> QED
  BY <1>1, <1>2, MUserKeeps, MCaptureKeeps, MSettlesKeep DEF Modelling!Next, Modelling!vars, Modelling!User

-----------------------------------------------------------------------------
(* The analyses.                                                           *)
NFields == {"mounted", "list", "kind", "vehicle", "capturing", "points", "busy", "pending", "handler", "hint",
            "selected", "paths", "result"}
NLook == {"mounted", "list", "capturing", "points", "handler", "hint", "selected", "paths", "result"}
NInv ==
    /\ DOMAIN ui = NFields /\ {ui.mounted, ui.handler, ui.hint} \subseteq BOOLEAN
    /\ Analyses!Bridge /\ Analyses!Published

LEMMA NKept ==
    ASSUME NInv, DOMAIN ui' = NFields, \A f \in NLook : ui'[f] = ui[f]
    PROVE  NInv'
BY DEF NInv, NLook, Analyses!Bridge, Analyses!Published, Analyses!Paths, Analyses!Result

LEMMA NRendered ==
    ASSUME NEW u, DOMAIN u = NFields, u.mounted \in BOOLEAN, ui' = Analyses!Render(u)
    PROVE  NInv'
<1> DEFINE on == u.mounted /\ u.capturing
           v == [u EXCEPT !.handler = on, !.hint = on]
<1>1. on \in BOOLEAN /\ (on <=> u.mounted /\ u.capturing)
  OBVIOUS
<1>2. ui' = IF u.mounted THEN [v EXCEPT !.paths = Analyses!Paths(u), !.result = Analyses!Result(u)] ELSE v
  BY DEF Analyses!Render
<1> HIDE DEF on
<1>3. DOMAIN v = NFields /\ v.handler = on /\ v.hint = on /\ \A f \in NFields \ {"handler", "hint"} : v[f] = u[f]
  BY DEF NFields
<1> HIDE DEF v
<1>4. /\ DOMAIN ui' = NFields /\ ui'.handler = on /\ ui'.hint = on
      /\ \A f \in NFields \ {"handler", "hint", "paths", "result"} : ui'[f] = u[f]
      /\ u.mounted => ui'.paths = Analyses!Paths(u) /\ ui'.result = Analyses!Result(u)
  BY <1>2, <1>3 DEF NFields
<1>5. Analyses!Paths(ui') = Analyses!Paths(u) /\ Analyses!Result(ui') = Analyses!Result(u)
  BY <1>4 DEF Analyses!Paths, Analyses!Result, NFields
<1>6. Analyses!Published'
  BY <1>4, <1>5 DEF Analyses!Published, Analyses!Paths, Analyses!Result, NFields
<1>7. Analyses!Bridge'
  BY <1>1, <1>4 DEF Analyses!Bridge, NFields
<1> QED
  BY <1>1, <1>4, <1>6, <1>7 DEF NInv, NFields

LEMMA NUserKeeps ==
    ASSUME NInv, Analyses!User
    PROVE  NInv'
<1>1. DOMAIN ui = NFields /\ ui.mounted \in BOOLEAN
  BY DEF NInv
<1>2. CASE \/ \E kind \in Analyses!Kinds : Analyses!ChooseKind(kind)
           \/ \E b \in DOMAIN ui.list : Analyses!Duplicate(b) \/ Analyses!AskDelete(b)
           \/ Analyses!RunDrawing \/ Analyses!CancelDelete \/ Analyses!ConfirmDelete
  <2>1. DOMAIN ui' = NFields /\ \A f \in NLook : ui'[f] = ui[f]
    BY <1>1, <1>2 DEF NFields, NLook, Analyses!ChooseKind, Analyses!Duplicate, Analyses!AskDelete, Analyses!RunDrawing,
                      Analyses!CancelDelete, Analyses!ConfirmDelete, Analyses!Run
  <2> QED
    BY <2>1, NKept
<1>3. CASE Analyses!Draw \/ Analyses!DropPoint \/ Analyses!CancelDraw \/ \E clicked \in BOOLEAN : Analyses!AddPoint(clicked)
  <2>1. ASSUME NEW u, DOMAIN u = NFields, u.mounted = ui.mounted, ui' = Analyses!Render(u) PROVE NInv'
    BY <1>1, <2>1, NRendered
  <2>2. \A c : LET u == [ui EXCEPT !.capturing = c] IN DOMAIN u = NFields /\ u.mounted = ui.mounted
    BY <1>1 DEF NFields
  <2>3. \A p : LET u == [ui EXCEPT !.points = p] IN DOMAIN u = NFields /\ u.mounted = ui.mounted
    BY <1>1 DEF NFields
  <2>4. \A c, p : LET u == [ui EXCEPT !.capturing = c, !.points = p] IN DOMAIN u = NFields /\ u.mounted = ui.mounted
    BY <1>1 DEF NFields
  <2>5. CASE Analyses!Draw
    BY <2>1, <2>2, <2>3, <2>4, <2>5 DEF Analyses!Draw
  <2>6. CASE Analyses!DropPoint
    BY <2>1, <2>2, <2>3, <2>4, <2>6 DEF Analyses!DropPoint
  <2>7. CASE Analyses!CancelDraw
    BY <2>1, <2>2, <2>3, <2>4, <2>7 DEF Analyses!CancelDraw
  <2>8. CASE \E clicked \in BOOLEAN : Analyses!AddPoint(clicked)
    BY <2>1, <2>2, <2>3, <2>4, <2>8 DEF Analyses!AddPoint
  <2> QED
    BY <1>3, <2>5, <2>6, <2>7, <2>8
<1>4. ASSUME NEW b, Analyses!Select(b) PROVE NInv'
  <2> DEFINE u == [ui EXCEPT !.selected = IF @ = b THEN Analyses!None ELSE b]
  <2>1. DOMAIN u = NFields /\ u.mounted = ui.mounted
    BY <1>1 DEF NFields
  <2>2. ui' = Analyses!Render(u)
    BY <1>4 DEF Analyses!Select
  <2> HIDE DEF u
  <2> QED
    BY <1>1, <2>1, <2>2, NRendered
<1>5. CASE Analyses!Leave \/ Analyses!Return
  <2>1. DOMAIN Analyses!Panel = NFields \ {"selected", "paths", "result"} /\ Analyses!Panel.mounted = TRUE
    BY DEF NFields, Analyses!Panel
  <2> DEFINE q == [Analyses!Panel EXCEPT !.mounted = FALSE]
  <2>2. DOMAIN q = DOMAIN Analyses!Panel /\ q.mounted = FALSE
    BY <2>1 DEF NFields
  <2>3. PICK p \in {q, Analyses!Panel} : ui' = Analyses!Render(Analyses!Extended(p, ui))
    BY <1>5 DEF Analyses!Leave, Analyses!Return
  <2> HIDE DEF q
  <2> DEFINE u == Analyses!Extended(p, ui)
  <2>4. DOMAIN p = NFields \ {"selected", "paths", "result"} /\ p.mounted \in BOOLEAN
    BY <2>1, <2>2, <2>3
  <2>5. DOMAIN u = NFields /\ u.mounted = p.mounted
    BY <1>1, <2>4 DEF Analyses!Extended, NFields
  <2> HIDE DEF u
  <2> QED
    BY <2>3, <2>4, <2>5, NRendered DEF u
<1> QED
  BY <1>2, <1>3, <1>4, <1>5 DEF Analyses!User

LEMMA NSetKeeps ==
    ASSUME NInv, NEW s, NEW u, DOMAIN u = NFields, u.mounted = ui.mounted, Analyses!Set(s, u)
    PROVE  NInv'
<1>1. DOMAIN ui = NFields /\ ui.mounted \in BOOLEAN
  BY DEF NInv
<1> DEFINE v == [ui EXCEPT !.selected = u.selected]
<1>2. ui' = Analyses!Render(u) \/ ui' = Analyses!Render(v)
  BY DEF Analyses!Set
<1>3. DOMAIN v = NFields /\ v.mounted = ui.mounted
  BY <1>1 DEF NFields
<1> HIDE DEF v
<1> QED
  BY <1>1, <1>2, <1>3, NRendered

LEMMA NSettlesKeep ==
    ASSUME NInv, NEW s, Analyses!Settles(s)
    PROVE  NInv'
<1>1. DOMAIN ui = NFields
  BY DEF NInv
<1>2. CASE Analyses!Loaded(s) \/ (Analyses!Failed(s) /\ net[s].op = "load")
  <2>1. PICK list, vehicle : Analyses!Listed(s, list, vehicle)
    BY <1>2 DEF Analyses!Loaded, Analyses!Failed
  <2> DEFINE u == [ui EXCEPT !.list = list, !.vehicle = vehicle,
                             !.selected = IF net[s].select = Analyses!None THEN @ ELSE net[s].select]
  <2>2. DOMAIN u = NFields /\ u.mounted = ui.mounted
    BY <1>1 DEF NFields
  <2>3. Analyses!Set(s, u)
    BY <2>1 DEF Analyses!Listed
  <2> HIDE DEF u
  <2> QED
    BY <2>2, <2>3, NSetKeeps
<1>3. CASE Analyses!Created(s)
  <2> DEFINE u == [ui EXCEPT !.capturing = FALSE, !.points = 0, !.busy = FALSE]
  <2>2. DOMAIN u = NFields /\ u.mounted = ui.mounted
    BY <1>1 DEF NFields
  <2>3. Analyses!Set(s, u)
    BY <1>3 DEF Analyses!Created
  <2> HIDE DEF u
  <2> QED
    BY <2>2, <2>3, NSetKeeps
<1>4. CASE Analyses!Duplicated(s) \/ (Analyses!Failed(s) /\ net[s].op # "load")
  <2> DEFINE u == [ui EXCEPT !.busy = FALSE]
  <2>2. DOMAIN u = NFields /\ u.mounted = ui.mounted
    BY <1>1 DEF NFields
  <2>3. Analyses!Set(s, u)
    BY <1>4 DEF Analyses!Duplicated, Analyses!Failed
  <2> HIDE DEF u
  <2> QED
    BY <2>2, <2>3, NSetKeeps
<1>5. CASE Analyses!Removed(s)
  <2> DEFINE u == [ui EXCEPT !.busy = FALSE, !.selected = IF net[s].active THEN Analyses!None ELSE @]
  <2>2. DOMAIN u = NFields /\ u.mounted = ui.mounted
    BY <1>1 DEF NFields
  <2>3. Analyses!Set(s, u)
    BY <1>5 DEF Analyses!Removed
  <2> HIDE DEF u
  <2> QED
    BY <2>2, <2>3, NSetKeeps
<1> QED
  BY <1>2, <1>3, <1>4, <1>5 DEF Analyses!Settles

LEMMA NInit ==
    ASSUME Analyses!Init
    PROVE  NInv
<1>1. /\ DOMAIN Analyses!Panel = NFields \ {"selected", "paths", "result"}
      /\ Analyses!Panel.mounted = TRUE /\ Analyses!Panel.list = <<>> /\ Analyses!Panel.capturing = FALSE
      /\ Analyses!Panel.points = 0 /\ Analyses!Panel.handler = FALSE /\ Analyses!Panel.hint = FALSE
  BY DEF NFields, Analyses!Panel
<1>2. /\ DOMAIN Analyses!Scene = {"selected", "paths", "result"}
      /\ Analyses!Scene.selected = 0 /\ Analyses!Scene.paths = {} /\ Analyses!Scene.result = 0
  BY DEF Analyses!Scene, Analyses!None
<1>3. ui = Analyses!Extended(Analyses!Panel, Analyses!Scene)
  BY DEF Analyses!Init
<1>4. /\ DOMAIN ui = NFields /\ ui.mounted = TRUE /\ ui.list = <<>> /\ ui.capturing = FALSE
      /\ ui.points = 0 /\ ui.handler = FALSE /\ ui.hint = FALSE
      /\ ui.selected = 0 /\ ui.paths = {} /\ ui.result = 0
  BY <1>1, <1>2, <1>3 DEF Analyses!Extended, NFields
<1>5. Analyses!Published
  BY <1>4 DEF Analyses!Published, Analyses!Paths, Analyses!Result, Analyses!None
<1> QED
  BY <1>4, <1>5 DEF NInv, Analyses!Bridge

LEMMA NStep ==
    ASSUME NInv, [Analyses!Next]_Analyses!vars
    PROVE  NInv'
<1>1. CASE UNCHANGED ui
  BY <1>1, NKept DEF NInv
<1>2. ASSUME NEW s, Analyses!Write(s) \/ Analyses!Read(s) PROVE UNCHANGED ui
  BY <1>2 DEF Analyses!Write, Analyses!Read
<1> QED
  BY <1>1, <1>2, NUserKeeps, NSettlesKeep DEF Analyses!Next, Analyses!vars

-----------------------------------------------------------------------------
(* The overlays.                                                           *)
OFields == {"mounted", "os", "rows", "busy", "aligning", "handler", "hint", "markers"}
OInv ==
    /\ DOMAIN ui = OFields /\ {ui.mounted, ui.hint} \subseteq BOOLEAN
    /\ ~ui.mounted => ui.aligning = Overlays!None /\ DOMAIN ui.rows = {}
    /\ Overlays!Bridge

\* A change that no row's capture sees.
LEMMA OKept ==
    ASSUME OInv, DOMAIN ui' = OFields, \A f \in OFields \ {"os", "busy"} : ui'[f] = ui[f]
    PROVE  OInv'
BY DEF OInv, OFields, Overlays!Bridge, Overlays!Active

\* React's commit sets up the capture of the row that aligns, and cleans up
\* that of a row that no longer does: a state that changed anything but the
\* bridge comes out in order.
LEMMA ORendered ==
    ASSUME OInv, NEW u, DOMAIN u = OFields, \A f \in {"handler", "hint", "markers"} : u[f] = ui[f],
           u.mounted \in BOOLEAN, ~u.mounted => u.aligning = Overlays!None /\ DOMAIN u.rows = {},
           ui' = Overlays!Render(u)
    PROVE  OInv'
<1> DEFINE active == Overlays!Active(u)
           picked == Len(u.rows[active].picks)
           clean == [u EXCEPT !.handler = Overlays!None, !.hint = FALSE, !.markers = 0]
           left == IF Overlays!Active(ui) \notin {Overlays!None, active} THEN clean ELSE u
           set == [left EXCEPT !.handler = active, !.hint = TRUE, !.markers = picked]
<1>1. ui' = IF active = Overlays!None THEN left ELSE set
  BY DEF Overlays!Render
<1>2. /\ DOMAIN clean = OFields /\ clean.handler = Overlays!None /\ clean.hint = FALSE /\ clean.markers = 0
      /\ \A f \in OFields \ {"handler", "hint", "markers"} : clean[f] = u[f]
  BY DEF OFields
<1> HIDE DEF clean
<1>3. DOMAIN left = OFields /\ \A f \in OFields \ {"handler", "hint", "markers"} : left[f] = u[f]
  BY <1>2
<1>4. active = Overlays!None => left.handler = Overlays!None /\ left.hint = FALSE /\ left.markers = 0
  <2>1. Overlays!Active(ui) = Overlays!None => ui.handler = Overlays!None /\ ui.hint = FALSE /\ ui.markers = 0
    BY DEF OInv, Overlays!Bridge
  <2> QED
    BY <1>2, <2>1 DEF OFields
<1> HIDE DEF left, active, picked
<1>5. /\ DOMAIN set = OFields /\ set.handler = active /\ set.hint = TRUE /\ set.markers = picked
      /\ \A f \in OFields \ {"handler", "hint", "markers"} : set[f] = u[f]
  BY <1>3 DEF OFields
<1> HIDE DEF set
<1>6. DOMAIN ui' = OFields /\ \A f \in OFields \ {"handler", "hint", "markers"} : ui'[f] = u[f]
  BY <1>1, <1>3, <1>5
<1>7. Overlays!Active(ui') = active
  BY <1>6 DEF Overlays!Active, active, OFields
<1>8. /\ ui'.handler = active /\ ui'.hint = (active # Overlays!None)
      /\ ui'.markers = IF active = Overlays!None THEN 0 ELSE picked
  BY <1>1, <1>4, <1>5
<1>9. active # Overlays!None => picked = Len(ui'.rows[active].picks)
  BY <1>6 DEF picked, OFields
<1>10. Overlays!Bridge'
  BY <1>7, <1>8, <1>9 DEF Overlays!Bridge
<1> QED
  BY <1>6, <1>8, <1>10 DEF OInv, OFields

LEMMA ORow ==
    ASSUME OInv, NEW o, NEW r, Overlays!SetRow(o, r)
    PROVE  OInv'
<1> DEFINE u == [ui EXCEPT !.rows[o] = r]
<1>1. /\ DOMAIN u = OFields /\ DOMAIN u.rows = DOMAIN ui.rows
      /\ \A f \in OFields \ {"rows"} : u[f] = ui[f]
  BY DEF OInv, OFields
<1>2. ui' = Overlays!Render(u)
  BY DEF Overlays!SetRow
<1> HIDE DEF u
<1> QED
  BY <1>1, <1>2, ORendered DEF OInv, OFields

LEMMA OUserKeeps ==
    ASSUME OInv, Overlays!User
    PROVE  OInv'
<1>1. DOMAIN ui = OFields
  BY DEF OInv
<1>2. ASSUME NEW o, Overlays!Type(o) \/ Overlays!Undo(o) \/ Overlays!ApplyAlign(o) \/ Overlays!AutoPlace(o)
                    \/ \E switch \in BOOLEAN : Overlays!Apply(o, switch)
      PROVE  OInv'
  BY <1>2, ORow DEF Overlays!Type, Overlays!Undo, Overlays!ApplyAlign, Overlays!AutoPlace, Overlays!Apply
<1>3. ASSUME NEW o \in DOMAIN ui.rows, Overlays!ToggleAlign(o) PROVE OInv'
  <2> DEFINE on == IF ui.aligning = o THEN Overlays!None ELSE o
             u == [ui EXCEPT !.aligning = on]
  <2>1. ui.mounted
    BY DEF OInv
  <2>2. DOMAIN u = OFields /\ \A f \in OFields \ {"aligning"} : u[f] = ui[f]
    BY <1>1 DEF OFields
  <2>3. ui' = Overlays!Render(u)
    BY <1>3 DEF Overlays!ToggleAlign
  <2> HIDE DEF u
  <2> QED
    BY <2>1, <2>2, <2>3, ORendered DEF OFields, OInv
<1>4. ASSUME NEW o, NEW kind, Overlays!Pick(kind, o) PROVE OInv'
  BY <1>4, ORow DEF Overlays!Pick
<1>5. ASSUME NEW o, Overlays!CancelAlign(o) PROVE OInv'
  <2> DEFINE u == [ui EXCEPT !.rows[o].picks = <<>>, !.aligning = Overlays!None]
  <2>1. /\ DOMAIN u = OFields /\ u.aligning = Overlays!None
        /\ DOMAIN u.rows = DOMAIN ui.rows /\ \A f \in OFields \ {"aligning", "rows"} : u[f] = ui[f]
    BY <1>1 DEF OFields
  <2>2. ui' = Overlays!Render(u)
    BY <1>5 DEF Overlays!CancelAlign
  <2> HIDE DEF u
  <2> QED
    BY <2>1, <2>2, ORendered DEF OFields, OInv
<1>6. ASSUME NEW o, Overlays!Upload(o) \/ Overlays!Remove(o) PROVE OInv'
  <2>1. DOMAIN ui' = OFields /\ \A f \in OFields \ {"busy"} : ui'[f] = ui[f]
    BY <1>1, <1>6 DEF OFields, Overlays!Upload, Overlays!Remove
  <2> QED
    BY <2>1, OKept
<1>7. CASE Overlays!Leave
  <2> DEFINE u == [ui EXCEPT !.mounted = FALSE, !.rows = <<>>, !.aligning = Overlays!None, !.busy = FALSE]
  <2>1. /\ DOMAIN u = OFields /\ u.aligning = Overlays!None /\ u.mounted = FALSE /\ u.rows = <<>>
        /\ \A f \in {"handler", "hint", "markers"} : u[f] = ui[f]
    BY <1>1 DEF OFields
  <2>2. ui' = Overlays!Render(u)
    BY <1>7 DEF Overlays!Leave
  <2> HIDE DEF u
  <2>3. DOMAIN << >> = {}
    OBVIOUS
  <2> QED
    BY <2>1, <2>2, <2>3, ORendered
<1>8. CASE Overlays!Return
  <2>1. /\ DOMAIN ui' = OFields /\ ui'.mounted = TRUE
        /\ \A f \in OFields \ {"mounted", "rows"} : ui'[f] = ui[f]
    BY <1>1, <1>8 DEF OFields, Overlays!Return
  <2>2. ui.aligning = Overlays!None
    BY <1>8 DEF OInv, Overlays!Return
  <2> QED
    BY <2>1, <2>2 DEF OInv, OFields, Overlays!Bridge, Overlays!Active
<1> QED
  BY <1>2, <1>3, <1>4, <1>5, <1>6, <1>7, <1>8 DEF Overlays!User, Overlays!OfRow

LEMMA OSettlesKeeps ==
    ASSUME OInv, NEW s \in Overlays!Slots, Overlays!Settles(s)
    PROVE  OInv'
<1>1. DOMAIN ui = OFields
  BY DEF OInv
<1>2. CASE Overlays!Loaded(s)
  <2> DEFINE os == net[s].ans.os
             Kept(o) == IF o \in DOMAIN ui.rows THEN ui.rows[o] ELSE Overlays!Row(os[o])
             rows == IF ui.mounted THEN [o \in DOMAIN os |-> Kept(o)] ELSE <<>>
             u == [ui EXCEPT !.os = os, !.rows = rows]
  <2>1. ui' = Overlays!Render(u)
    BY <1>2 DEF Overlays!Loaded
  <2> HIDE DEF os
  <2>2. ~ui.mounted => DOMAIN rows = {}
    OBVIOUS
  <2> HIDE DEF rows
  <2>3. DOMAIN u = OFields /\ u.rows = rows /\ \A f \in OFields \ {"os", "rows"} : u[f] = ui[f]
    BY <1>1 DEF OFields
  <2> HIDE DEF u
  <2> QED
    BY <2>1, <2>2, <2>3, ORendered DEF OFields, OInv
<1>3. CASE Overlays!Aligned(s)
  <2>1. CASE ~net[s].mine
    BY <1>1, <1>3, <2>1, OKept DEF Overlays!Aligned
  <2>2. CASE net[s].mine
    <3> DEFINE row == [ui.rows[net[s].o] EXCEPT !.place = net[s].ans, !.picks = <<>>, !.saving = FALSE]
               w == [ui EXCEPT !.rows[net[s].o] = row]
               v == IF Overlays!Here(s) THEN w ELSE ui
               u == [v EXCEPT !.aligning = Overlays!None]
    <3> HIDE DEF row
    <3>1. DOMAIN w = OFields /\ DOMAIN w.rows = DOMAIN ui.rows /\ \A f \in OFields \ {"rows"} : w[f] = ui[f]
      BY <1>1 DEF OFields
    <3>2. ui' = Overlays!Render(u)
      BY <1>3, <2>2 DEF Overlays!Aligned, row
    <3> HIDE DEF w
    <3>3. DOMAIN v = OFields /\ DOMAIN v.rows = DOMAIN ui.rows /\ \A f \in OFields \ {"rows"} : v[f] = ui[f]
      BY <1>1, <3>1
    <3> HIDE DEF v
    <3>4. /\ DOMAIN u = OFields /\ DOMAIN u.rows = DOMAIN ui.rows /\ u.aligning = Overlays!None
          /\ \A f \in OFields \ {"rows", "aligning"} : u[f] = ui[f]
      BY <3>3 DEF OFields
    <3> HIDE DEF u
    <3> QED
      BY <3>2, <3>4, ORendered DEF OFields, OInv
  <2> QED
    BY <2>1, <2>2
<1>4. CASE Overlays!Applied(s) \/ Overlays!Fitted(s)
  BY <1>1, <1>4, ORow, OKept DEF Overlays!Applied, Overlays!Fitted
<1>5. CASE Overlays!Moved(s)
  <2>1. DOMAIN ui' = OFields /\ \A f \in OFields \ {"busy"} : ui'[f] = ui[f]
    BY <1>1, <1>5 DEF OFields, Overlays!Moved
  <2> QED
    BY <2>1, OKept
<1>6. CASE Overlays!Failed(s)
  <2>1. CASE net[s].op \in {"align", "geo", "fit"}
    BY <1>1, <1>6, <2>1, ORow, OKept DEF Overlays!Failed
  <2>2. CASE net[s].op \notin {"align", "geo", "fit"}
    <3>1. DOMAIN ui' = OFields /\ \A f \in OFields \ {"busy"} : ui'[f] = ui[f]
      BY <1>1, <1>6, <2>2 DEF OFields, Overlays!Failed
    <3> QED
      BY <3>1, OKept
  <2> QED
    BY <2>1, <2>2
<1> QED
  BY <1>2, <1>3, <1>4, <1>5, <1>6 DEF Overlays!Settles

LEMMA OInit ==
    ASSUME Overlays!Init
    PROVE  OInv
<1>1. PICK os, rows : ui = [mounted |-> TRUE, os |-> os, rows |-> rows, busy |-> FALSE, aligning |-> Overlays!None,
                            handler |-> Overlays!None, hint |-> FALSE, markers |-> 0]
  BY DEF Overlays!Init
<1>2. Overlays!Active(ui) = Overlays!None
  BY <1>1 DEF Overlays!Active
<1> QED
  BY <1>1, <1>2 DEF OInv, OFields, Overlays!Bridge

LEMMA OStep ==
    ASSUME OInv, [Overlays!Next]_Overlays!vars
    PROVE  OInv'
<1>1. CASE UNCHANGED ui
  BY <1>1, OKept DEF OInv
<1>2. CASE Overlays!User
  BY <1>2, OUserKeeps
<1>3. ASSUME NEW s \in Overlays!Slots, Overlays!Serve(s) PROVE OInv'
  BY <1>1, <1>3 DEF Overlays!Serve, Overlays!ReadPlacement, Overlays!Align, Overlays!Write, Overlays!Read
<1>4. ASSUME NEW s \in Overlays!Slots, Overlays!Settles(s) PROVE OInv'
  BY <1>4, OSettlesKeeps
<1> QED
  BY <1>1, <1>2, <1>3, <1>4 DEF Overlays!Next, Overlays!vars

-----------------------------------------------------------------------------
BridgeInv ==
    /\ screen = "boundary" => BInv
    /\ screen \in {"overlay", "overlays"} => OInv
    /\ screen = "surfaces" => MInv
    /\ screen = "analyses" => NInv
    /\ UScreen

LEMMA BridgeStep ==
    ASSUME BridgeInv, [Next]_vars
    PROVE  BridgeInv'
<1>1. CASE screen = "boundary"
  <2>1. [Boundary!Next]_Boundary!vars
    BY <1>1 DEF Next, vars, Boundary!vars
  <2> QED
    BY <1>1, <2>1, BStep, ScreenIsOne DEF BridgeInv, UScreen
<1>2. CASE screen \in {"overlay", "overlays"}
  <2>1. [Overlays!Next]_Overlays!vars
    BY <1>2 DEF Next, vars, Overlays!vars
  <2> QED
    BY <1>2, <2>1, OStep, ScreenIsOne DEF BridgeInv, UScreen
<1>3. CASE screen = "surfaces"
  <2>1. [Modelling!Next]_Modelling!vars
    BY <1>3 DEF Next, vars, Modelling!vars
  <2> QED
    BY <1>3, <2>1, MStep, ScreenIsOne DEF BridgeInv, UScreen
<1>4. CASE screen = "analyses"
  <2>1. [Analyses!Next]_Analyses!vars
    BY <1>4 DEF Next, vars, Analyses!vars
  <2> QED
    BY <1>4, <2>1, NStep, ScreenIsOne DEF BridgeInv, UScreen
<1>5. CASE screen \in {"utilities", "records"}
  <2>1. [Utilities!Next]_Utilities!vars
    BY <1>5 DEF Next, vars, Utilities!vars
  <2> QED
    BY <1>5, <2>1, UStep, ScreenIsOne DEF BridgeInv, UScreen
<1> QED
  BY <1>1, <1>2, <1>3, <1>4, <1>5, ScreenIsOne DEF BridgeInv, UScreen

\* The 3D view hands its clicks to the one capture that is on the screen, and
\* to none when there is none: panels that come, go and end a capture on an
\* answer leave no handler, hint or drawing behind.
THEOREM ClicksReachCapture == Spec => []Bridge
<1>1. Init => BridgeInv
  BY ScreensAssumption, BInit, OInit, MInit, NInit, UInit DEF Init, BridgeInv, UScreen, ScreensAssumption
<1>2. BridgeInv /\ [Next]_vars => BridgeInv'
  BY BridgeStep
<1>3. BridgeInv => Bridge
  BY DEF BridgeInv, UScreen, UInv, BInv, OInv, MInv, NInv, Bridge
<1> QED
  BY <1>1, <1>2, <1>3, PTL DEF Spec

-----------------------------------------------------------------------------
(* The georeference card.                                                  *)
GFields == {"mounted", "project", "synced", "draft", "dirty", "saving"}
GInv == DOMAIN ui = GFields /\ ui.synced = ui.project /\ Georef!EditsMarked

LEMMA GStep ==
    ASSUME GInv, [Georef!Next]_Georef!vars
    PROVE  GInv'
<1>1. CASE \E v \in Names \cup {n}, slider \in BOOLEAN : Georef!Edit(v, slider)
  BY <1>1 DEF GInv, GFields, Georef!EditsMarked, Georef!Edit
<1>2. CASE Georef!Reset
  BY <1>2 DEF GInv, GFields, Georef!EditsMarked, Georef!Reset
<1>3. CASE Georef!Save
  BY <1>3 DEF GInv, GFields, Georef!EditsMarked, Georef!Save
<1>4. CASE Georef!Leave
  BY <1>4 DEF GInv, GFields, Georef!EditsMarked, Georef!Leave
<1>5. CASE Georef!Return
  BY <1>5 DEF GInv, GFields, Georef!EditsMarked, Georef!Return, Georef!Card
<1>6. ASSUME NEW s \in Georef!Slots, Georef!Saved(s) \/ Georef!Failed(s) PROVE GInv'
  BY <1>6 DEF GInv, GFields, Georef!EditsMarked, Georef!Saved, Georef!Failed
<1>7. ASSUME NEW s \in Georef!Slots, Georef!Loaded(s) PROVE GInv'
  <2> DEFINE v == net[s].ans.v
             u == [ui EXCEPT !.project = v]
  <2>1. DOMAIN u = GFields /\ u.project = v /\ \A f \in GFields \ {"project"} : u[f] = ui[f]
    BY DEF GInv, GFields
  <2>2. ui' = IF ui.mounted THEN Georef!Render(u) ELSE [ui EXCEPT !.project = v, !.synced = v, !.draft = v]
    BY <1>7 DEF Georef!Loaded
  <2> HIDE DEF u, v
  <2>3. CASE ui.mounted
    BY <2>1, <2>2, <2>3 DEF GInv, GFields, Georef!EditsMarked, Georef!Render
  <2>4. CASE ~ui.mounted
    BY <2>2, <2>4 DEF GInv, GFields, Georef!EditsMarked
  <2> QED
    BY <2>3, <2>4
<1>8. CASE UNCHANGED ui
  BY <1>8 DEF GInv, Georef!EditsMarked
<1> QED
  BY <1>1, <1>2, <1>3, <1>4, <1>5, <1>6, <1>7, <1>8
     DEF Georef!Next, Georef!vars, Georef!Reload, Georef!Elsewhere, Georef!Write, Georef!Read

-----------------------------------------------------------------------------
(* The project page.                                                       *)
CFields == {"loading", "found", "cps", "solved", "count", "tab", "tabPicked", "plan", "upgrade", "panel"}

\* A tab is chosen on a page that is there, and one that is there has had its
\* tab picked: no load picks again.
CInv ==
    /\ DOMAIN ui = CFields /\ DOMAIN hist = {"faulty", "seen", "chosen"}
    /\ ui.found => ui.tabPicked
    /\ hist.chosen # "none" => ui.tabPicked /\ ui.tab = hist.chosen

LEMMA CRendered ==
    ASSUME NEW u, DOMAIN u = CFields
    PROVE  LET r == Control!Render(u)
           IN  DOMAIN r = CFields /\ \A f \in CFields \ {"panel"} : r[f] = u[f]
BY DEF Control!Render, CFields

\* The parts of the page that decide on its tab stay.
LEMMA CKept ==
    ASSUME CInv, DOMAIN ui' = CFields, \A f \in {"found", "tab", "tabPicked"} : ui'[f] = ui[f],
           DOMAIN hist' = DOMAIN hist, hist'.chosen = hist.chosen
    PROVE  CInv'
BY DEF CInv

LEMMA CGotoKeeps ==
    ASSUME CInv, NEW tab, tab # "none", ui.found, Control!Goto(tab)
    PROVE  CInv'
<1> DEFINE u == [ui EXCEPT !.tab = tab]
<1>1. DOMAIN u = CFields /\ u.tab = tab /\ u.found = ui.found /\ u.tabPicked = ui.tabPicked
  BY DEF CInv, CFields
<1>2. ui' = Control!Render(u) /\ hist' = [hist EXCEPT !.chosen = tab]
  BY DEF Control!Goto
<1> HIDE DEF u
<1>3. DOMAIN ui' = CFields /\ \A f \in CFields \ {"panel"} : ui'[f] = u[f]
  BY <1>1, <1>2, CRendered
<1>4. ui'.tab = tab /\ ui'.found = ui.found /\ ui'.tabPicked = ui.tabPicked
  BY <1>1, <1>3 DEF CFields
<1> QED
  BY <1>2, <1>3, <1>4 DEF CInv

LEMMA CLoadedKeeps ==
    ASSUME CInv, NEW s, Control!Loaded(s)
    PROVE  CInv'
<1> DEFINE got == net[s].ans
           u == [ui EXCEPT !.loading = FALSE, !.found = TRUE, !.cps = got.cps, !.count = got.count,
                           !.solved = got.solved, !.tabPicked = TRUE,
                           !.tab = IF ui.tabPicked THEN @ ELSE IF got.solved THEN "points" ELSE "setup"]
<1>1. DOMAIN u = CFields /\ u.tabPicked = TRUE /\ (ui.tabPicked => u.tab = ui.tab)
  BY DEF CInv, CFields
<1>2. ui' = Control!Render(u) /\ DOMAIN hist' = DOMAIN hist /\ hist'.chosen = hist.chosen
  BY DEF Control!Loaded, CInv
<1> HIDE DEF u
<1>3. DOMAIN ui' = CFields /\ \A f \in CFields \ {"panel"} : ui'[f] = u[f]
  BY <1>1, <1>2, CRendered
<1>4. ui'.tab = u.tab /\ ui'.tabPicked = TRUE
  BY <1>1, <1>3 DEF CFields
<1> QED
  BY <1>1, <1>2, <1>3, <1>4 DEF CInv

LEMMA CStep ==
    ASSUME CInv, [Control!Next]_Control!vars
    PROVE  CInv'
<1>1. ASSUME NEW tab \in Control!Tabs, Control!ClickTab(tab) PROVE CInv'
  <2>1. tab # "none" /\ ui.found
    BY <1>1 DEF Control!Tabs, Control!CrewTabs, Control!ClickTab, Control!Shown
  <2>2. CASE Control!Goto(tab)
    BY <2>1, <2>2, CGotoKeeps
  <2>3. CASE ui' = [ui EXCEPT !.upgrade = TRUE] /\ UNCHANGED hist
    BY <2>3, CKept DEF CInv, CFields
  <2> QED
    BY <1>1, <2>2, <2>3 DEF Control!ClickTab
<1>2. ASSUME NEW step \in Control!Steps(ui), Control!FollowChecklist(step) PROVE CInv'
  <2>1. step[1] \in {"control", "points"}
    BY DEF Control!Steps
  <2>2. ui.found /\ Control!Goto(step[1])
    BY <1>2 DEF Control!FollowChecklist, Control!Mounted
  <2> QED
    BY <2>1, <2>2, CGotoKeeps
<1>3. CASE \/ Control!CloseUpgrade \/ Control!CloseDialog \/ Control!ConfirmDelete \/ Control!Solve
           \/ \E p \in DOMAIN ui.cps, kind \in {"form", "delete"} : Control!Open(kind, p)
           \/ Control!Open("form", "new")
           \/ \E p \in Names, tie \in {"tied", "free"} : Control!SubmitPoint(p, tie)
  <2>1. DOMAIN ui' = CFields /\ (\A f \in {"found", "tab", "tabPicked"} : ui'[f] = ui[f]) /\ hist' = hist
    BY <1>3 DEF CInv, CFields, Control!CloseUpgrade, Control!CloseDialog, Control!ConfirmDelete, Control!Solve,
                Control!Open, Control!SubmitPoint
  <2> QED
    BY <2>1, CKept
<1>4. ASSUME NEW s \in Control!Slots, Control!Serve(s) \/ Control!Fail(s) PROVE CInv'
  <2>1. ui' = ui /\ (hist' = hist \/ hist' = [hist EXCEPT !.faulty = TRUE])
    BY <1>4 DEF Control!Serve, Control!Fail, Control!Put, Control!Delete, Control!ReadTied, Control!StoreTransform,
                Control!ReadPage, Control!ReadBilling
  <2> QED
    BY <2>1, CKept DEF CInv
<1>5. ASSUME NEW s \in Control!Slots, Control!Billed(s) PROVE CInv'
  <2> DEFINE u == [ui EXCEPT !.plan = IF net[s].st = "done" THEN net[s].ans ELSE "none"]
  <2>1. DOMAIN u = CFields /\ \A f \in {"found", "tab", "tabPicked"} : u[f] = ui[f]
    BY DEF CInv, CFields
  <2>2. ui' = Control!Render(u) /\ hist' = hist
    BY <1>5 DEF Control!Billed
  <2> HIDE DEF u
  <2>3. DOMAIN ui' = CFields /\ \A f \in {"found", "tab", "tabPicked"} : ui'[f] = ui[f]
    BY <2>1, <2>2, CRendered DEF CFields
  <2> QED
    BY <2>2, <2>3, CKept
<1>6. ASSUME NEW s \in Control!Slots, Control!Changed(s) \/ Control!Solved(s) \/ Control!Failed(s) PROVE CInv'
  <2>1. DOMAIN ui' = CFields /\ (\A f \in {"found", "tab", "tabPicked"} : ui'[f] = ui[f]) /\ hist' = hist
    BY <1>6 DEF CInv, CFields, Control!Changed, Control!Solved, Control!Failed
  <2> QED
    BY <2>1, CKept
<1>7. CASE UNCHANGED Control!vars
  BY <1>7, CKept DEF CInv, Control!vars
<1> QED
  BY <1>1, <1>2, <1>3, <1>4, <1>5, <1>6, <1>7, CLoadedKeeps DEF Control!Next, Control!User, Control!Settles

LEMMA CKeepsTab ==
    ASSUME CInv
    PROVE  Control!KeepsTab
BY DEF CInv, Control!KeepsTab, Control!ActiveTab, Control!Tabs, Control!CrewTabs

-----------------------------------------------------------------------------
KScreens == (screen = "control" => CInv) /\ (screen = "georef" => GInv)

\* What the user chose or typed stays through loads: the tab of the project
\* page, and the fields of the georeference card.
THEOREM ChoicesStay == Spec => []KeepsChoices
<1>1. Init => KScreens
  BY DEF Init, KScreens, CInv, CFields, GInv, GFields, Control!Init, Georef!Init, Georef!Card, Georef!EditsMarked
<1>2. KScreens /\ [Next]_vars => KScreens'
  <2> SUFFICES ASSUME KScreens, [Next]_vars PROVE KScreens'
    OBVIOUS
  <2>1. CASE screen = "control"
    <3>1. [Control!Next]_Control!vars
      BY <2>1 DEF Next, vars, Control!vars
    <3> QED
      BY <2>1, <3>1, CStep, ScreenIsOne DEF KScreens
  <2>2. CASE screen = "georef"
    <3>1. [Georef!Next]_Georef!vars
      BY <2>2 DEF Next, vars, Georef!vars
    <3> QED
      BY <2>2, <3>1, GStep, ScreenIsOne DEF KScreens
  <2> QED
    BY <2>1, <2>2, ScreenIsOne DEF KScreens
<1>3. KScreens => KeepsChoices
  BY CKeepsTab DEF KScreens, KeepsChoices, GInv
<1> QED
  BY <1>1, <1>2, <1>3, PTL DEF Spec

-----------------------------------------------------------------------------
(* The account.                                                            *)

\* A session of this number is of an account with a password and a proved
\* address, if there still is one of that number.
Holds(d, who) ==
    /\ who \in Nat /\ who <= d.n
    /\ who # 0 /\ who = d.row.id => d.row.password /\ d.row.verified
ASlot(d, r) ==
    \/ r = Account!NoCall
    \/ /\ {"op", "st", "mine"} \subseteq DOMAIN r /\ (r.st = "sent" => "ans" \notin DOMAIN r)
       /\ r.op \in {"login", "accept"} /\ r.st = "done" => "ans" \in DOMAIN r /\ Holds(d, r.ans)
ACalls(d, calls) == DOMAIN calls = Account!Slots /\ \A s \in Account!Slots : ASlot(d, calls[s])

ARow(d) ==
    /\ DOMAIN d = {"row", "mailed", "n"} /\ d.n \in Nat
    /\ DOMAIN d.row = {"id", "password", "verified", "link"} /\ d.row.id \in Nat /\ d.row.id <= d.n
    /\ DOMAIN d.row.link = Account!Kinds
AHist == DOMAIN hist = {"who", "turns", "lapsed"}
ADoor(d, lapsed) == d.row.id # 0 => d.row.password \/ d.row.link["invite"] # 0 \/ lapsed

AInv == ARow(db) /\ AHist /\ ACalls(db, net) /\ Holds(db, hist.who) /\ ADoor(db, hist.lapsed)

\* An account that is still the same is not worse off; a new one is nobody's.
Better(d, e) ==
    /\ ARow(e) /\ d.n <= e.n
    /\ e.row.id \in {0, d.row.id} \/ e.row.id > d.n
    /\ e.row.id = d.row.id => (d.row.password => e.row.password) /\ (d.row.verified => e.row.verified)

LEMMA AHeld ==
    ASSUME NEW d, NEW e, NEW who, ARow(d), Better(d, e), Holds(d, who)
    PROVE  Holds(e, who)
<1>1. d.n \in Nat /\ e.n \in Nat /\ d.n <= e.n /\ who \in Nat /\ who <= d.n /\ e.row.id \in Nat
  BY DEF ARow, Better, Holds
<1>2. who <= e.n
  BY <1>1
<1>3. who # 0 /\ who = e.row.id => who = d.row.id
  BY <1>1 DEF Better
<1> QED
  BY <1>1, <1>2, <1>3 DEF Better, Holds

LEMMA ASlotHeld ==
    ASSUME NEW d, NEW e, NEW r, ARow(d), Better(d, e), ASlot(d, r)
    PROVE  ASlot(e, r)
BY AHeld DEF ASlot

LEMMA ACallsHeld ==
    ASSUME NEW d, NEW e, NEW calls, ARow(d), Better(d, e), ACalls(d, calls)
    PROVE  ACalls(e, calls)
BY ASlotHeld DEF ACalls

LEMMA AAsked ==
    ASSUME NEW d, NEW r, "op" \in DOMAIN r, {"st", "mine", "ans"} \cap DOMAIN r = {}
    PROVE  ASlot(d, Account!Asked(r))
<1> DEFINE q == Account!Asked(r)
<1>1. {"op", "st", "mine"} \subseteq DOMAIN q /\ q.st = "sent" /\ "ans" \notin DOMAIN q
  BY DEF Account!Asked, Account!Extended
<1> HIDE DEF q
<1>2. ASlot(d, q)
  BY <1>1 DEF ASlot
<1> QED
  BY <1>2 DEF q

LEMMA ALeft ==
    ASSUME NEW d, NEW r, ASlot(d, r), r # Account!NoCall
    PROVE  ASlot(d, [r EXCEPT !.mine = FALSE])
<1> DEFINE q == [r EXCEPT !.mine = FALSE]
<1>1. DOMAIN q = DOMAIN r /\ \A f \in DOMAIN r \ {"mine"} : q[f] = r[f]
  OBVIOUS
<1> HIDE DEF q
<1>2. {"op", "st", "mine"} \subseteq DOMAIN r /\ q.op = r.op /\ q.st = r.st
      /\ ("ans" \in DOMAIN r => q.ans = r.ans)
  BY <1>1 DEF ASlot
<1>3. ASlot(d, q)
  BY <1>1, <1>2 DEF ASlot
<1> QED
  BY <1>3 DEF q

\* Pages are entered.
LEMMA AEntered ==
    ASSUME NEW d, NEW calls, ACalls(d, calls), NEW page, NEW l, NEW who, Account!Enter(calls, page, l, who)
    PROVE  ACalls(d, net')
<1> DEFINE left == [s \in Account!Slots |-> IF calls[s] = Account!NoCall THEN Account!NoCall
                                            ELSE [calls[s] EXCEPT !.mine = FALSE]]
<1>1. ACalls(d, left)
  BY ALeft DEF ACalls, ASlot
<1>2. \/ net' = left
      \/ \E s \in Account!Slots, r \in Account!Opening(page, l, who) : net' = [left EXCEPT ![s] = Account!Asked(r)]
  BY DEF Account!Enter
<1> HIDE DEF left
<1>3. ASSUME NEW r \in Account!Opening(page, l, who) PROVE ASlot(d, Account!Asked(r))
  <2>1. "op" \in DOMAIN r /\ {"st", "mine", "ans"} \cap DOMAIN r = {}
    BY DEF Account!Opening
  <2> QED
    BY <2>1, AAsked
<1> QED
  BY <1>1, <1>2, <1>3 DEF ACalls

LEMMA AVisited ==
    ASSUME NEW d, NEW calls, ACalls(d, calls), NEW page, NEW l, NEW who, Account!Visit(calls, page, l, who)
    PROVE  ACalls(d, net')
BY AEntered DEF Account!Visit

LEMMA ASettled ==
    ASSUME NEW d, NEW s, ACalls(d, net)
    PROVE  ACalls(d, Account!Settled(s))
BY DEF ACalls, ASlot, Account!Settled

LEMMA ASentOut ==
    ASSUME NEW d, NEW r, ACalls(d, net), "op" \in DOMAIN r, {"st", "mine", "ans"} \cap DOMAIN r = {}, Account!Send(r)
    PROVE  ACalls(d, net')
<1>1. ASlot(d, Account!Asked(r))
  BY AAsked
<1> QED
  BY <1>1 DEF ACalls, Account!Send

\* The account stays as it is, and so does whose session it is.
LEMMA AKept ==
    ASSUME AInv, db' = db, ACalls(db, net'), AHist', Holds(db, hist'.who), hist'.lapsed = hist.lapsed
    PROVE  AInv'
BY DEF AInv

LEMMA ATurned ==
    ASSUME AInv, Account!Turn
    PROVE  AHist' /\ hist'.who = hist.who /\ hist'.lapsed = hist.lapsed
BY DEF AInv, AHist, Account!Turn

LEMMA AVisitorKeeps ==
    ASSUME AInv, \/ \E page \in Account!Forms \cup {"app"} : Account!Navigate(page)
                 \/ \E m \in db.mailed : Account!FollowMail(m)
                 \/ Account!SubmitPage \/ Account!Resend \/ Account!Logout \/ Account!DeleteOrganization
    PROVE  AInv'
<1>1. db' = db /\ Account!Turn
  BY DEF Account!Navigate, Account!FollowMail, Account!SubmitPage, Account!Submit, Account!Resend, Account!Logout,
         Account!DeleteOrganization, Account!Ask
<1>2. ACalls(db, net')
  <2>1. ACalls(db, net)
    BY DEF AInv
  <2>2. CASE \/ \E page \in Account!Forms \cup {"app"} : Account!Navigate(page)
             \/ \E m \in db.mailed : Account!FollowMail(m)
    <3>1. \E page, l, who : Account!Visit(net, page, l, who)
      BY <2>2 DEF Account!Navigate, Account!FollowMail
    <3> QED
      BY <2>1, <3>1, AVisited
  <2>3. CASE Account!SubmitPage
    <3> DEFINE r == [op |-> ui.page, l |-> ui.link]
    <3>1. Account!Send(r)
      BY <2>3 DEF Account!SubmitPage, Account!Submit
    <3>2. "op" \in DOMAIN r /\ {"st", "mine", "ans"} \cap DOMAIN r = {}
      OBVIOUS
    <3> HIDE DEF r
    <3> QED
      BY <2>1, <3>1, <3>2, ASentOut
  <2>4. ASSUME NEW op, Account!Ask(op) PROVE ACalls(db, net')
    <3> DEFINE r == [op |-> op, who |-> hist.who]
    <3>1. Account!Send(r)
      BY <2>4 DEF Account!Ask
    <3>2. "op" \in DOMAIN r /\ {"st", "mine", "ans"} \cap DOMAIN r = {}
      OBVIOUS
    <3> HIDE DEF r
    <3> QED
      BY <2>1, <3>1, <3>2, ASentOut
  <2> QED
    BY <2>2, <2>3, <2>4 DEF Account!Resend, Account!Logout, Account!DeleteOrganization
<1> QED
  BY <1>1, <1>2, ATurned, AKept DEF AInv

\* What the handlers do.
LEMMA AHandlersKeep ==
    ASSUME AInv, NEW s \in Account!Slots,
           \/ Account!SignedIn(s) \/ Account!SignedOut(s) \/ Account!ToLogin(s)
           \/ Account!Shown(s) \/ Account!Ended(s) \/ Account!Failed(s)
    PROVE  AInv'
<1>1. ACalls(db, net) /\ ACalls(db, Account!Settled(s)) /\ AHist
  BY ASettled DEF AInv
<1>2. db' = db
  BY DEF Account!SignedIn, Account!SignedOut, Account!ToLogin, Account!Shown, Account!Ended, Account!Failed,
         Account!Mine
<1>3. ACalls(db, net')
  <2>1. \/ net' = Account!Settled(s)
        \/ \E page, l, who : Account!Enter(Account!Settled(s), page, l, who)
        \/ \E page, l, who : Account!Visit(Account!Settled(s), page, l, who)
    BY DEF Account!SignedIn, Account!SignedOut, Account!ToLogin, Account!Shown, Account!Ended, Account!Failed,
           Account!Mine
  <2> QED
    BY <1>1, <2>1, AEntered, AVisited
<1>4. AHist' /\ hist'.lapsed = hist.lapsed /\ Holds(db, hist'.who)
  <2>1. CASE Account!SignedIn(s)
    <3>1. net[s].op \in {"login", "accept"} /\ net[s].st = "done" /\ hist' = [hist EXCEPT !.who = net[s].ans]
      BY <2>1 DEF Account!SignedIn, Account!At, Account!Cookie
    <3>2. Holds(db, net[s].ans)
      BY <1>1, <3>1 DEF ACalls, ASlot, Account!NoCall
    <3> QED
      BY <1>1, <3>1, <3>2 DEF AHist
  <2>2. CASE Account!SignedOut(s)
    <3>1. hist' = [hist EXCEPT !.who = 0]
      BY <2>2 DEF Account!SignedOut, Account!Cookie
    <3>2. Holds(db, 0)
      BY DEF Holds, AInv, ARow
    <3> QED
      BY <1>1, <3>1, <3>2 DEF AHist
  <2>3. CASE Account!ToLogin(s) \/ Account!Shown(s) \/ Account!Ended(s) \/ Account!Failed(s)
    <3>1. hist' = hist
      BY <2>3 DEF Account!ToLogin, Account!Shown, Account!Ended, Account!Failed, Account!Mine
    <3> QED
      BY <1>1, <3>1 DEF AInv, AHist
  <2> QED
    BY <2>1, <2>2, <2>3
<1> QED
  BY <1>2, <1>3, <1>4, AKept

-----------------------------------------------------------------------------
\* What is done to the row.
LEMMA ALinked ==
    ASSUME ARow(db), NEW row, NEW kind \in Account!Kinds, Account!Linked(row, kind),
           DOMAIN row = {"id", "password", "verified", "link"}, DOMAIN row.link = Account!Kinds,
           row.id \in {db.row.id, db.n + 1}, row.id = db.row.id => row = db.row
    PROVE  /\ Better(db, db') /\ ARow(db') /\ db'.n = db.n + 1
           /\ db'.row.id = row.id /\ db'.row.password = row.password /\ db'.row.verified = row.verified
           /\ db'.row.link[kind] = db.n + 1
           /\ \A k \in Account!Kinds \ {kind} : db'.row.link[k] = row.link[k]
<1> DEFINE r == [row EXCEPT !.link[kind] = db.n + 1]
<1>1. /\ DOMAIN r = DOMAIN row /\ r.id = row.id /\ r.password = row.password /\ r.verified = row.verified
      /\ DOMAIN r.link = Account!Kinds /\ r.link[kind] = db.n + 1
      /\ \A k \in Account!Kinds \ {kind} : r.link[k] = row.link[k]
  OBVIOUS
<1>2. DOMAIN db' = {"row", "mailed", "n"} /\ db'.n = db.n + 1 /\ db'.row = r
  BY DEF Account!Linked
<1> HIDE DEF r
<1>3. db.n \in Nat /\ db.row.id \in Nat /\ db.row.id <= db.n
  BY DEF ARow
<1>4. ARow(db')
  BY <1>1, <1>2, <1>3 DEF ARow
<1>5. Better(db, db')
  BY <1>1, <1>2, <1>3, <1>4 DEF Better
<1> QED
  BY <1>1, <1>2, <1>4, <1>5

LEMMA ARowed ==
    ASSUME ARow(db), NEW row, Account!Row(row),
           DOMAIN row = {"id", "password", "verified", "link"}, DOMAIN row.link = Account!Kinds,
           row.id \in {0, db.row.id},
           row.id = db.row.id => (db.row.password => row.password) /\ (db.row.verified => row.verified)
    PROVE  Better(db, db') /\ ARow(db') /\ db'.row = row /\ db'.n = db.n
<1>1. DOMAIN db' = DOMAIN db /\ db'.row = row /\ db'.n = db.n
  BY DEF Account!Row, ARow
<1>2. db.n \in Nat /\ db.row.id \in Nat /\ db.row.id <= db.n
  BY DEF ARow
<1>3. ARow(db')
  BY <1>1, <1>2 DEF ARow
<1> QED
  BY <1>1, <1>2, <1>3 DEF Better

\* A step to a better row keeps the invariant, if the way in stays.
LEMMA ABetterKeeps ==
    ASSUME AInv, Better(db, db'), ACalls(db', net'), AHist', hist'.who = hist.who, ADoor(db', hist'.lapsed)
    PROVE  AInv'
<1>1. Holds(db', hist'.who)
  BY AHeld DEF AInv
<1> QED
  BY <1>1 DEF AInv, Better

LEMMA AOthersKeep ==
    ASSUME AInv, \/ Account!Invite \/ Account!AdminReset \/ Account!Remove
                 \/ \E k \in Account!Kinds : Account!Expire(k)
    PROVE  AInv'
<1>1. ARow(db) /\ net' = net /\ ACalls(db, net) /\ AHist /\ ADoor(db, hist.lapsed)
  BY DEF AInv, Account!Invite, Account!AdminReset, Account!Remove, Account!Expire
<1>2. CASE Account!Invite
  <2> DEFINE row == Account!NewRow(FALSE)
  <2>1. /\ DOMAIN row = {"id", "password", "verified", "link"} /\ DOMAIN row.link = Account!Kinds
        /\ row.id = db.n + 1
    BY DEF Account!NewRow, Account!NoRow
  <2>2. db.row.id = 0 /\ Account!Linked(row, "invite") /\ Account!Turn
    BY <1>2 DEF Account!Invite
  <2> HIDE DEF row
  <2>3. row.id # db.row.id /\ "invite" \in Account!Kinds
    BY <1>1, <2>1, <2>2 DEF ARow, Account!Kinds
  <2>4. Better(db, db') /\ db'.row.link["invite"] = db.n + 1
    BY <1>1, <2>1, <2>2, <2>3, ALinked
  <2>5. ADoor(db', hist'.lapsed)
    BY <1>1, <2>4 DEF ADoor, ARow
  <2> QED
    BY <1>1, <2>2, <2>4, <2>5, ABetterKeeps, ATurned, ACallsHeld
<1>3. CASE Account!AdminReset
  <2>1. db.row.id # 0 /\ Account!Linked(db.row, "reset") /\ Account!Turn
    BY <1>3 DEF Account!AdminReset
  <2>2. "reset" \in Account!Kinds /\ "invite" \in Account!Kinds \ {"reset"}
    BY DEF Account!Kinds
  <2>3. /\ Better(db, db') /\ db'.row.id = db.row.id /\ db'.row.password = db.row.password
        /\ db'.row.link["invite"] = db.row.link["invite"]
    BY <1>1, <2>1, <2>2, ALinked DEF ARow
  <2>4. ADoor(db', hist'.lapsed)
    BY <1>1, <2>1, <2>3, ATurned DEF ADoor
  <2> QED
    BY <1>1, <2>1, <2>3, <2>4, ABetterKeeps, ATurned, ACallsHeld
<1>4. CASE Account!Remove
  <2>1. db.row.id # 0 /\ Account!Row(Account!NoRow) /\ Account!Turn
    BY <1>4 DEF Account!Remove
  <2>2. /\ DOMAIN Account!NoRow = {"id", "password", "verified", "link"} /\ Account!NoRow.id = 0
        /\ DOMAIN Account!NoRow.link = Account!Kinds
    BY DEF Account!NoRow
  <2>3. Better(db, db') /\ db'.row.id = 0
    BY <1>1, <2>1, <2>2, ARowed
  <2>4. ADoor(db', hist'.lapsed)
    BY <2>3 DEF ADoor
  <2> QED
    BY <1>1, <2>1, <2>3, <2>4, ABetterKeeps, ATurned, ACallsHeld
<1>5. ASSUME NEW kind \in Account!Kinds, Account!Expire(kind) PROVE AInv'
  <2> DEFINE row == [db.row EXCEPT !.link[kind] = 0]
  <2>1. /\ DOMAIN row = DOMAIN db.row /\ DOMAIN row.link = Account!Kinds /\ row.id = db.row.id
        /\ row.password = db.row.password /\ row.verified = db.row.verified
        /\ kind # "invite" => row.link["invite"] = db.row.link["invite"]
    BY <1>1 DEF ARow
  <2>2. Account!Row(row)
    BY <1>5 DEF Account!Expire
  <2> HIDE DEF row
  <2>3. Better(db, db') /\ db'.row = row
    BY <1>1, <2>1, <2>2, ARowed DEF ARow
  <2>4. AHist' /\ hist'.who = hist.who /\ hist'.lapsed = (hist.lapsed \/ kind = "invite")
    BY <1>1, <1>5 DEF Account!Expire, AHist
  <2>5. ADoor(db', hist'.lapsed)
    BY <1>1, <2>1, <2>3, <2>4 DEF ADoor
  <2> QED
    BY <1>1, <2>3, <2>4, <2>5, ABetterKeeps, ACallsHeld
<1> QED
  BY <1>2, <1>3, <1>4, <1>5

\* What the server does; a login or an accepted invitation is answered by the
\* number of an account that has a password and a proved address.
LEMMA AEffect ==
    ASSUME AInv, NEW r, Account!Effect(r)
    PROVE  /\ Better(db, db') /\ ADoor(db', hist.lapsed)
           /\ r.op \in {"login", "accept"} => Holds(db', db.row.id)
<1>1. ARow(db) /\ ADoor(db, hist.lapsed)
  BY DEF AInv
<1>2. CASE UNCHANGED db /\ (r.op = "login" => db.row.password /\ db.row.verified) /\ r.op # "accept"
  BY <1>1, <1>2 DEF ARow, Better, Holds
<1>3. CASE r.op = "signup"
  <2> DEFINE row == Account!NewRow(TRUE)
  <2>1. /\ DOMAIN row = {"id", "password", "verified", "link"} /\ DOMAIN row.link = Account!Kinds
        /\ row.id = db.n + 1 /\ row.password = TRUE
    BY DEF Account!NewRow, Account!NoRow
  <2>2. db.row.id = 0 /\ Account!Linked(row, "verify")
    BY <1>3 DEF Account!Effect
  <2> HIDE DEF row
  <2>3. row.id # db.row.id /\ "verify" \in Account!Kinds
    BY <1>1, <2>1, <2>2 DEF ARow, Account!Kinds
  <2>4. Better(db, db') /\ db'.row.password = TRUE
    BY <1>1, <2>1, <2>2, <2>3, ALinked
  <2> QED
    BY <1>3, <2>4 DEF ADoor
<1>4. ASSUME NEW kind \in {"verify", "reset"}, Account!Linked(db.row, kind), r.op \notin {"login", "accept"}
      PROVE  Better(db, db') /\ ADoor(db', hist.lapsed)
  <2>1. kind \in Account!Kinds /\ "invite" \in Account!Kinds \ {kind}
    BY DEF Account!Kinds
  <2>2. /\ Better(db, db') /\ db'.row.id = db.row.id /\ db'.row.password = db.row.password
        /\ db'.row.link["invite"] = db.row.link["invite"]
    BY <1>1, <1>4, <2>1, ALinked DEF ARow
  <2> QED
    BY <1>1, <2>2 DEF ADoor
<1>5. CASE r.op = "verify"
  <2> DEFINE row == Account!Verified(db.row)
  <2>1. /\ DOMAIN row = DOMAIN db.row /\ DOMAIN row.link = Account!Kinds /\ row.id = db.row.id
        /\ row.password = db.row.password /\ row.verified = TRUE
        /\ row.link["invite"] = db.row.link["invite"]
    BY <1>1 DEF ARow, Account!Verified, Account!Kinds
  <2>2. Account!Row(row)
    BY <1>5 DEF Account!Effect
  <2> HIDE DEF row
  <2>3. Better(db, db') /\ db'.row = row
    BY <1>1, <2>1, <2>2, ARowed DEF ARow
  <2> QED
    BY <1>1, <1>5, <2>1, <2>3 DEF ADoor
<1>6. CASE r.op \in {"accept", "reset"}
  <2>1. PICK kind \in Account!Kinds : Account!Row(Account!Regained(db.row, kind))
    BY <1>6 DEF Account!Effect, Account!Kinds
  <2> DEFINE row == Account!Regained(db.row, kind)
  <2>2. /\ DOMAIN row = DOMAIN db.row /\ DOMAIN row.link = Account!Kinds /\ row.id = db.row.id
        /\ row.password = TRUE /\ row.verified = TRUE
    BY <1>1 DEF ARow, Account!Regained
  <2>3. Account!Row(row)
    BY <2>1
  <2> HIDE DEF row
  <2>4. Better(db, db') /\ db'.row = row /\ db'.n = db.n
    BY <1>1, <2>2, <2>3, ARowed DEF ARow
  <2>5. Holds(db', db.row.id)
    BY <1>1, <2>2, <2>4 DEF Holds, ARow
  <2> QED
    BY <2>2, <2>4, <2>5 DEF ADoor
<1>7. CASE r.op = "delete" /\ ~UNCHANGED db
  <2>1. Account!Row(Account!NoRow)
    BY <1>7 DEF Account!Effect
  <2>2. /\ DOMAIN Account!NoRow = {"id", "password", "verified", "link"} /\ Account!NoRow.id = 0
        /\ DOMAIN Account!NoRow.link = Account!Kinds
    BY DEF Account!NoRow
  <2>3. db.row.id # 0
    BY <1>7 DEF Account!Effect, Account!Live
  <2>4. Better(db, db') /\ db'.row.id = 0
    BY <1>1, <2>1, <2>2, <2>3, ARowed
  <2> QED
    BY <1>7, <2>4 DEF ADoor
<1>8. CASE r.op \in {"resend", "forgot"} /\ ~UNCHANGED db
  BY <1>4, <1>8 DEF Account!Effect
<1>9. CASE r.op = "login"
  BY <1>2, <1>9 DEF Account!Effect
<1>10. CASE r.op \notin {"signup", "login", "resend", "forgot", "verify", "accept", "reset", "delete"}
  BY <1>2, <1>10 DEF Account!Effect
<1> QED
  BY <1>2, <1>3, <1>5, <1>6, <1>7, <1>8, <1>9, <1>10

LEMMA AServeKeeps ==
    ASSUME AInv, NEW s \in Account!Slots, Account!Serve(s)
    PROVE  AInv'
<1> DEFINE w == Account!Word(net[s])
           p == [net[s] EXCEPT !.st = "done"]
           q == Account!Extended(p, [ans |-> w])
<1>1. net[s].st = "sent" /\ Account!Effect(net[s]) /\ Account!Answer(s, w) /\ hist' = hist
  BY DEF Account!Serve
<1>2. /\ Better(db, db') /\ ADoor(db', hist.lapsed)
      /\ net[s].op \in {"login", "accept"} => Holds(db', db.row.id)
  BY <1>1, AEffect
<1>3. ACalls(db', net) /\ ARow(db)
  BY <1>2, ACallsHeld DEF AInv
<1>4. {"op", "st", "mine"} \subseteq DOMAIN net[s]
  BY <1>1, <1>3 DEF ACalls, ASlot, Account!NoCall
<1>5. DOMAIN p = DOMAIN net[s] /\ \A f \in DOMAIN p \ {"st"} : p[f] = net[s][f]
  OBVIOUS
<1>6. DOMAIN net' = Account!Slots /\ net'[s] = q /\ \A t \in Account!Slots \ {s} : net'[t] = net[t]
  BY <1>1, <1>3 DEF Account!Answer, ACalls
<1>7. net[s].op \in {"login", "accept"} => w = db.row.id
  BY DEF Account!Word
<1> HIDE DEF p, w
<1>8. "ans" \notin DOMAIN net[s]
  BY <1>1, <1>3 DEF ACalls, ASlot, Account!NoCall
<1>9. DOMAIN q = DOMAIN p \cup {"ans"} /\ q.ans = w /\ \A f \in DOMAIN p : q[f] = p[f]
  BY <1>5, <1>8 DEF Account!Extended
<1> HIDE DEF q
<1>10. p.st = "done"
  BY <1>4 DEF p
<1>11. q.op = net[s].op /\ q.st = "done"
  BY <1>4, <1>5, <1>9, <1>10
<1>12. ASlot(db', q)
  BY <1>2, <1>4, <1>5, <1>7, <1>9, <1>11 DEF ASlot
<1>13. ACalls(db', net')
  BY <1>3, <1>6, <1>12 DEF ACalls
<1> QED
  BY <1>1, <1>2, <1>13, ABetterKeeps DEF AInv, AHist

LEMMA AInit ==
    ASSUME Account!Init
    PROVE  AInv
<1>1. ARow(db) /\ db.row.id = 0 /\ db.n = 0
  BY DEF Account!Init, ARow, Account!NoRow
<1>2. AHist /\ hist.who = 0
  BY DEF Account!Init, AHist
<1>3. ACalls(db, net)
  BY DEF Account!Init, Account!NoCalls, ACalls, ASlot
<1> QED
  BY <1>1, <1>2, <1>3 DEF AInv, Holds, ADoor

LEMMA AStep ==
    ASSUME AInv, [Account!Next]_Account!vars
    PROVE  AInv'
<1>1. CASE UNCHANGED Account!vars
  <2>1. db' = db /\ net' = net /\ hist' = hist
    BY <1>1 DEF Account!vars
  <2> QED
    BY <2>1, AKept DEF AInv, AHist
<1>2. ASSUME NEW s \in Account!Slots,
             \/ Account!Serve(s) \/ Account!SignedIn(s) \/ Account!SignedOut(s) \/ Account!ToLogin(s)
             \/ Account!Shown(s) \/ Account!Ended(s) \/ Account!Failed(s)
      PROVE  AInv'
  BY <1>2, AServeKeeps, AHandlersKeep
<1> QED
  BY <1>1, <1>2, AVisitorKeeps, AOthersKeep DEF Account!Next

-----------------------------------------------------------------------------
AScreen == screen = "account" => AInv

\* A session is of an account with a password and a proved address, and an
\* account always has a way in, however links, logins, and removals cross.
THEOREM NobodyLockedOut == Spec => []WayIn
<1>1. Init => AScreen
  BY AInit DEF Init, AScreen
<1>2. AScreen /\ [Next]_vars => AScreen'
  <2> SUFFICES ASSUME AScreen, [Next]_vars, screen' = "account" PROVE AInv'
    BY DEF AScreen
  <2>1. screen = "account" /\ AInv
    BY ScreenIsOne DEF AScreen
  <2>2. [Account!Next]_Account!vars
    BY <2>1 DEF Next, vars, Account!vars
  <2> QED
    BY <2>1, <2>2, AStep
<1>3. AScreen => WayIn
  BY DEF AScreen, WayIn, AInv, Holds, ADoor, Account!Earned, Account!WayIn, Account!Live
<1> QED
  BY <1>1, <1>2, <1>3, PTL DEF Spec
=============================================================================
