------------------------------ MODULE SceneFeed ------------------------------
(***************************************************************************)
(* Live updates of one project's scene, from the commit of a mutation to    *)
(* the view a browser shows (pubsub.rs, schema/subscription.rs, and         *)
(* scene-subscription.ts, scene-view.tsx, survey-points-panel.tsx).         *)
(*                                                                         *)
(* A ping carries nothing: the view refetches.  The scene is its version,   *)
(* the number of the mutation committed last; a load answers one version.  *)
(***************************************************************************)
EXTENDS Integers

CONSTANTS
    Clients,     \* mounted views that load and subscribe
    Mutations,   \* resolvers that may run at once
    Silent,      \* those that never publish (refresh_detailed_terrain)
    Loads,       \* loads a view may have in flight at once
    Cap,         \* capacity of the broadcast channel, 16 in the code
    Retries,     \* retryAttempts, 6 in the code
    Crashes,     \* may a handler be dropped, or the server restart?
    MaxScene     \* bound: the last version; the first is 1

ASSUME FeedAssumption ==
    /\ Silent \subseteq Mutations
    /\ Cap \in Nat \ {0} /\ Retries \in Nat /\ MaxScene \in Nat \ {0}
    /\ Crashes \in BOOLEAN

VARIABLES
    scene,     \* the committed version
    pc,        \* where each mutation is
    conn,      \* the subscription of each view
    tries,     \* failed connection attempts in a row
    pending,   \* pings its receiver has not consumed
    lagged,    \* the receiver overflowed
    timer,     \* the debounce timer runs
    loads,     \* the loads in flight
    view,      \* the version on the screen, 0 for none
    fetched,   \* history: the newest version an answer carried
    shown,     \* history: the newest version that was on the screen
    due        \* history: the version of the last ping of this subscription,
               \* 0 once a failed load has been reported to the user

server == <<scene, pc>>
socket == <<conn, tries, pending, lagged>>
page == <<timer, loads, view, fetched, shown>>
vars == <<server, socket, page, due>>

Versions == 0..MaxScene
\* A load, and (history) the newest version that was shown when it was asked.
Load == [at : {"free", "sent", "answered"}, scene : Versions, past : Versions]
NoLoad == [at |-> "free", scene |-> 0, past |-> 0]

TypeOK ==
    /\ scene \in Versions
    /\ pc \in [Mutations -> {"idle", "committed"}]
    /\ conn \in [Clients -> {"off", "connecting", "open", "dead"}]
    /\ tries \in [Clients -> 0..Retries]
    /\ pending \in [Clients -> 0..Cap]
    /\ lagged \in [Clients -> BOOLEAN]
    /\ timer \in [Clients -> BOOLEAN]
    /\ loads \in [Clients -> [Loads -> Load]]
    /\ view \in [Clients -> Versions]
    /\ fetched \in [Clients -> Versions]
    /\ shown \in [Clients -> Versions]
    /\ due \in [Clients -> Versions]

Init ==
    /\ scene = 1
    /\ pc = [m \in Mutations |-> "idle"]
    /\ conn = [c \in Clients |-> "off"]
    /\ tries = [c \in Clients |-> 0]
    /\ pending = [c \in Clients |-> 0]
    /\ lagged = [c \in Clients |-> FALSE]
    /\ timer = [c \in Clients |-> FALSE]
    /\ loads = [c \in Clients |-> [l \in Loads |-> NoLoad]]
    /\ view = [c \in Clients |-> 0]
    /\ fetched = [c \in Clients |-> 0]
    /\ shown = [c \in Clients |-> 0]
    /\ due = [c \in Clients |-> 0]

Open == {c \in Clients : conn[c] = "open"}

-----------------------------------------------------------------------------
(* Mutations *)

\* The last statement, or the COMMIT, of a scene-affecting resolver.
Commit(m) ==
    /\ pc[m] = "idle" /\ scene < MaxScene
    /\ scene' = scene + 1
    /\ pc' = [pc EXCEPT ![m] = "committed"]
    /\ UNCHANGED <<socket, page, due>>

\* publish_scene: send(()) to every receiver; one that is full loses its oldest
\* ping and will be told that it lagged.
Publish(m) ==
    /\ m \notin Silent /\ pc[m] = "committed"
    /\ pc' = [pc EXCEPT ![m] = "idle"]
    /\ pending' = [c \in Clients |-> IF c \in Open /\ pending[c] < Cap
                                     THEN pending[c] + 1 ELSE pending[c]]
    /\ lagged' = [c \in Clients |-> lagged[c] \/ (c \in Open /\ pending[c] = Cap)]
    /\ due' = [c \in Clients |-> IF c \in Open THEN scene ELSE due[c]]
    /\ UNCHANGED <<scene, conn, tries, page>>

\* refresh_detailed_terrain answers without publishing.
AnswerSilently(m) ==
    /\ m \in Silent /\ pc[m] = "committed"
    /\ pc' = [pc EXCEPT ![m] = "idle"]
    /\ UNCHANGED <<scene, socket, page, due>>

\* The handler is dropped between its commit and its publish.
Drop(m) ==
    /\ Crashes /\ pc[m] = "committed"
    /\ pc' = [pc EXCEPT ![m] = "idle"]
    /\ UNCHANGED <<scene, socket, page, due>>

-----------------------------------------------------------------------------
(* The subscription *)

\* The receiver, with what it has buffered, goes with the socket.
Forget(C) ==
    /\ pending' = [c \in Clients |-> IF c \in C THEN 0 ELSE pending[c]]
    /\ lagged' = [c \in Clients |-> IF c \in C THEN FALSE ELSE lagged[c]]
    /\ due' = [c \in Clients |-> IF c \in C THEN 0 ELSE due[c]]
Move(C, state) == conn' = [c \in Clients |-> IF c \in C THEN state ELSE conn[c]]

\* project_changed: the project is the caller's, and the hub adds a receiver.
Subscribe(c) ==
    /\ conn[c] = "connecting"
    /\ Move({c}, "open")
    /\ tries' = [tries EXCEPT ![c] = 0]
    /\ UNCHANGED <<server, pending, lagged, page, due>>

\* The server refuses the subscription; its error callback does nothing.
Refuse(c) ==
    /\ conn[c] = "connecting"
    /\ Move({c}, "dead")
    /\ UNCHANGED <<server, tries, pending, lagged, page, due>>

\* A connection attempt fails; after Retries of them the client gives up.
FailConnect(c) ==
    /\ conn[c] = "connecting"
    /\ IF tries[c] < Retries
       THEN tries' = [tries EXCEPT ![c] = @ + 1] /\ UNCHANGED conn
       ELSE Move({c}, "dead") /\ UNCHANGED tries
    /\ UNCHANGED <<server, pending, lagged, page, due>>

\* The socket drops and the client reconnects; it does not refetch.
Lose(c) ==
    /\ conn[c] = "open"
    /\ Move({c}, "connecting")
    /\ Forget({c})
    /\ UNCHANGED <<server, tries, page>>

\* The hub and every handler live in the API process.
Restart ==
    /\ Crashes
    /\ pc' = [m \in Mutations |-> "idle"]
    /\ Move(Open, "connecting")
    /\ Forget(Open)
    /\ UNCHANGED <<scene, tries, page>>

\* The stream yields once for a ping or a lag, and the view (re)starts its
\* debounce timer.
PushOk(c) ==    \* mutant of Push: `while let Ok(())`, a lag ends the stream
    /\ conn[c] = "open" /\ (pending[c] > 0 \/ lagged[c])
    /\ IF lagged[c]
       THEN /\ Move({c}, "dead") /\ UNCHANGED timer
            /\ pending' = [pending EXCEPT ![c] = 0]
            /\ lagged' = [lagged EXCEPT ![c] = FALSE]
       ELSE /\ pending' = [pending EXCEPT ![c] = @ - 1]
            /\ timer' = [timer EXCEPT ![c] = TRUE]
            /\ UNCHANGED <<conn, lagged>>
    /\ UNCHANGED <<server, tries, loads, view, fetched, shown, due>>
PushIdle(c) ==    \* mutant of Push: a ping during a load is ignored
    /\ conn[c] = "open" /\ (pending[c] > 0 \/ lagged[c])
    /\ lagged' = [lagged EXCEPT ![c] = FALSE]
    /\ pending' = [pending EXCEPT ![c] = IF lagged[c] THEN @ ELSE @ - 1]
    /\ timer' = [timer EXCEPT ![c] = @ \/ \A l \in Loads : loads[c][l].at = "free"]
    /\ UNCHANGED <<server, conn, tries, loads, view, fetched, shown, due>>
PushNoGuard(c) ==    \* mutant of Push: counts a ping for the lag itself
    /\ conn[c] = "open" /\ (pending[c] > 0 \/ lagged[c])
    /\ pending' = [pending EXCEPT ![c] = IF lagged[c] THEN @ + 1 ELSE @ - 1]
    /\ lagged' = [lagged EXCEPT ![c] = FALSE]
    /\ timer' = [timer EXCEPT ![c] = TRUE]
    /\ UNCHANGED <<server, conn, tries, loads, view, fetched, shown, due>>
Push(c) ==
    /\ conn[c] = "open"
    /\ \/ lagged[c] /\ lagged' = [lagged EXCEPT ![c] = FALSE] /\ UNCHANGED pending
       \/ /\ ~lagged[c] /\ pending[c] > 0
          /\ pending' = [pending EXCEPT ![c] = @ - 1]
          /\ UNCHANGED lagged
    /\ timer' = [timer EXCEPT ![c] = TRUE]
    /\ UNCHANGED <<server, conn, tries, loads, view, fetched, shown, due>>

-----------------------------------------------------------------------------
(* The view *)

SetLoad(c, l, load) == loads' = [loads EXCEPT ![c][l] = load]
Send(c, l) ==
    /\ loads[c][l].at = "free"
    /\ SetLoad(c, l, [at |-> "sent", scene |-> 0, past |-> shown[c]])

\* Mounting loads and subscribes, in this order.
Mount(c, l) ==
    /\ conn[c] = "off"
    /\ Send(c, l)
    /\ Move({c}, "connecting")
    /\ UNCHANGED <<server, tries, pending, lagged, timer, view, fetched, shown, due>>

\* The effects run again (another filter or page): the old socket is closed and
\* the timer cleared, a load is sent and a new socket opened.
Resubscribe(c, l) ==
    /\ conn[c] # "off"
    /\ Send(c, l)
    /\ Move({c}, "connecting")
    /\ Forget({c})
    /\ timer' = [timer EXCEPT ![c] = FALSE]
    /\ tries' = [tries EXCEPT ![c] = 0]
    /\ UNCHANGED <<server, view, fetched, shown>>

\* The parent asks for a load (reloadNonce).
Reload(c, l) ==
    /\ conn[c] # "off"
    /\ Send(c, l)
    /\ UNCHANGED <<server, socket, timer, view, fetched, shown, due>>

\* The debounce timer fires.
FireInterval(c, l) ==    \* mutant of Fire: setInterval for setTimeout
    /\ timer[c]
    /\ Send(c, l)
    /\ UNCHANGED <<server, socket, timer, view, fetched, shown, due>>
Fire(c, l) ==
    /\ timer[c]
    /\ timer' = [timer EXCEPT ![c] = FALSE]
    /\ Send(c, l)
    /\ UNCHANGED <<server, socket, view, fetched, shown, due>>

Answer(c, l, version) ==
    /\ loads[c][l].at = "sent"
    /\ SetLoad(c, l, [at |-> "answered", scene |-> version, past |-> loads[c][l].past])
    /\ fetched' = [fetched EXCEPT ![c] = version]
    /\ UNCHANGED <<server, socket, timer, view, shown, due>>
ReadShared(c, l) ==    \* mutant of Read: takes an answer that is still on its way
    \E k \in Loads : Answer(c, l, IF loads[c][k].at = "answered" THEN loads[c][k].scene ELSE scene)
\* The server reads the scene, and the answer is on its way.
Read(c, l) == Answer(c, l, scene)

Apply(c, l, version) ==
    /\ loads[c][l].at = "answered"
    /\ view' = [view EXCEPT ![c] = version]
    /\ shown' = [shown EXCEPT ![c] = IF version > @ THEN version ELSE @]
    /\ SetLoad(c, l, NoLoad)
    /\ UNCHANGED <<server, socket, timer, fetched, due>>
ShowKept(c, l) ==    \* mutant of Show: the first answer stays on the screen
    Apply(c, l, IF view[c] = 0 THEN loads[c][l].scene ELSE view[c])
\* setScene, whatever is on the screen by now: of two loads in flight the one
\* that was read first may be applied last.
Show(c, l) == Apply(c, l, loads[c][l].scene)

\* The load fails, and a toast tells the user.
FailLoad(c, l) ==
    /\ loads[c][l].at # "free"
    /\ SetLoad(c, l, NoLoad)
    /\ due' = [due EXCEPT ![c] = 0]
    /\ UNCHANGED <<server, socket, timer, view, fetched, shown>>

\* Cleanup; answers still on their way have nothing to update.
Unmount(c) ==
    /\ conn[c] # "off"
    /\ Move({c}, "off")
    /\ Forget({c})
    /\ tries' = [tries EXCEPT ![c] = 0]
    /\ timer' = [timer EXCEPT ![c] = FALSE]
    /\ loads' = [loads EXCEPT ![c] = [l \in Loads |-> NoLoad]]
    /\ view' = [view EXCEPT ![c] = 0]
    /\ fetched' = [fetched EXCEPT ![c] = 0]
    /\ shown' = [shown EXCEPT ![c] = 0]
    /\ UNCHANGED server

-----------------------------------------------------------------------------

Serve(m) == Commit(m) \/ Publish(m) \/ AnswerSilently(m) \/ Drop(m)
Connection(c) ==
    Subscribe(c) \/ Refuse(c) \/ FailConnect(c) \/ Lose(c) \/ Push(c) \/ Unmount(c)
Loading(c, l) ==
    \/ Mount(c, l) \/ Resubscribe(c, l) \/ Reload(c, l) \/ Fire(c, l)
    \/ Read(c, l) \/ Show(c, l) \/ FailLoad(c, l)

Next ==
    \/ \E m \in Mutations : Serve(m)
    \/ \E c \in Clients : Connection(c)
    \/ \E c \in Clients, l \in Loads : Loading(c, l)
    \/ Restart

Spec == Init /\ [][Next]_vars

\* The stream of an open socket runs, a timer that no further ping restarts
\* fires (strongly fair: only the bound Loads ever disables it), and a request is
\* answered or fails.  Nothing makes a mutation publish, a socket reconnect or a
\* user do anything.
Fairness ==
    \A c \in Clients :
        /\ WF_vars(Push(c))
        /\ SF_vars(\E l \in Loads : Fire(c, l))
        /\ \A l \in Loads : WF_vars(Read(c, l)) /\ WF_vars(Show(c, l))
FairSpec == Spec /\ Fairness

-----------------------------------------------------------------------------
(* Safety *)

Behind(c) == timer[c] \/ pending[c] > 0 \/ lagged[c]
Sent(c) == \E l \in Loads : loads[c][l].at = "sent"

\* No ping is lost between the channel and the view, whatever overflows, is
\* debounced, fails or overtakes: an open subscription that has been pinged for a
\* version it never fetched has a ping, a timer or a load still to come.
Heard ==
    \A c \in Clients : fetched[c] < due[c] => Behind(c) \/ Sent(c)

\* And what was pinged reaches the screen: a version of the last ping's age has been
\* shown, or an update is on its way.  It may not stay there: of two loads in flight
\* the older answer may come last, and nothing asks again by itself.
OnItsWay(c) ==
    Behind(c) \/ Sent(c) \/ \E l \in Loads : loads[c][l].scene >= due[c]
Shown == \A c \in Clients : shown[c] < due[c] => OnItsWay(c)

\* While a view is mounted its screen changes only to an answer that is no older than
\* anything that was shown when that load was asked.  Crossed answers thus take
\* back only what came after both were asked, and asking again undoes it.
AnsweredStep ==
    \A c \in Clients : conn'[c] # "off" /\ view'[c] # view[c] =>
        \E l \in Loads :
            /\ loads[c][l].at = "answered" /\ loads'[c][l].at = "free"
            /\ view'[c] = loads[c][l].scene /\ loads[c][l].past <= view'[c]
NeverBehindAsk == [][AnsweredStep]_vars

-----------------------------------------------------------------------------
(* What a comment promises and the code does not keep *)

\* "so edits from this or another session appear without a manual reload"
\* (scene-view.tsx): with nothing on its way, a subscribed view is current.
QuietIsCurrent ==
    \A c \in Open :
        /\ \A m \in Mutations : pc[m] = "idle"
        /\ ~Behind(c)
        /\ \A l \in Loads : loads[c][l].at = "free"
        /\ view[c] > 0
        => view[c] = scene

-----------------------------------------------------------------------------
(* Liveness *)

\* Every ping's change comes to the screen of a view that stays subscribed, however
\* its loads overlap, unless a load fails and says so.
EventuallyShown ==
    \A c \in Clients : shown[c] < due[c] ~> shown[c] >= due[c]

-----------------------------------------------------------------------------
(* Channel, lag and debounce together are one dirty bit per subscription. *)

Dirty == {c \in Clients : Behind(c)}
Asking == {c \in Clients : Sent(c)}
Bit == INSTANCE DirtyBit WITH open <- Open, dirty <- Dirty, loading <- Asking

\* However the channel overflows and pings are merged, a published change is
\* forgotten only to a load that has not read the scene yet, or with its
\* subscription.
IsDirtyBit == Bit!Spec

\* And none is remembered for ever: the debounce settles every mark.
MarksSettle == Bit!Settles
=============================================================================
