# SiteLens: TLA+ models and proofs

SiteLens is a multi-tenant web application for construction surveyors: a Rust
GraphQL API (`api/`), PostgreSQL, a file store on a volume, Redis, Stripe and a
Next.js client (`web/`). This directory models the parts of it where several
actors meet - requests that interleave between two SQL statements, a database
row and a file written by separate calls, a webhook and a poll, a socket and a
fetch, a screen and the answers that reach it late - checks them with TLC on
small instances, and proves the most important facts for every size with TLAPS.

## How the system runs

* One API process (`api/src/lib.rs`): every GraphQL resolver is an async
  function on a shared pool. Each SQL statement is atomic (READ COMMITTED);
  between two awaits any other request may run. There is no transaction around a
  check and the write that follows it, except where a module says so.
* A handler can be dropped at any await (the client disconnects, a statement
  fails, the process stops). Nothing is undone, except inside a transaction.
* Files live beside the database, under keys kept in rows or derived from ids.
  No transaction spans both.
* Sessions are JWTs of seven days with org and role inside; nothing revokes them.
* Live updates are pings over a per-project broadcast channel in the process;
  the browser refetches.
* Stripe tells the API who pays, by webhooks that may be repeated or reordered,
  and the API asks Stripe when an admin returns from checkout.

* The client calls the API with `gql` (`web/src/lib/graphql.ts`) from React
  handlers. Nothing cancels a call: its answer is applied whenever it comes, by a
  handler that still holds the state of the moment it started. A component that
  was unmounted meanwhile sets nothing of its own, but what it hands to the page
  or to the scene through a callback arrives all the same.
* Nothing of the 3D view moves by itself: fades, glides and timers run in
  animation frames, which `RenderGate` stops while the window is not looked at.

So the server models use one shape: tables as functions or sets, and per request a
record with the label of its next statement and the values it has read so far.
One action is one statement (or one file operation, or one external call), and
`Abort`, `Drop` or `Crash` forgets a request at any label. The screens use another:
`ui` is what the component and its page hold, `db` what the server holds, `net` the
requests under way (`Requests`), and one action is one handler up to its next
`await`, one resolver, or one answer with all that its handler does to it.

## Inventory

| Component | State | Operations | Interacts with | What makes it correct |
|---|---|---|---|---|
| Accounts and members (`schema/auth.rs`, `auth.rs`) | orgs, users, JWTs | signup, login, invite, accept, role, remove, delete org | billing (quota), mail, files | unique address, an admin stays, tenants apart |
| Account links and sign-in (`schema/auth.rs`, `app-shell.tsx`, the forms) | one-time links, session cookie, page | verify, invite, reset, forgot, login, logout | mail | a session is of a proved account, an account keeps a way in |
| Projects and quotas (`schema/projects.rs`, `plan.rs`, `projects/page.tsx`) | projects | create, import, update, delete | billing, files | caps kept, what is offered is allowed |
| Users page (`settings/users/page.tsx`) | roles | promote, demote, remove, invite | accounts | shows who is there, offers what is allowed |
| Billing (`billing.rs`, `schema/billing.rs`, webhook in `lib.rs`, `settings/billing`) | customer, subscription, status and period of an org | checkout, portal, webhook, resync | Stripe | the row converges to what Stripe says, one customer per org |
| Live scene feed (`pubsub.rs`, `schema/subscription.rs`, `web/src/lib/scene-subscription.ts`, `scene-view.tsx`) | receivers, socket, debounce timer, loads in flight | publish, subscribe, push, refetch | every mutation | a change reaches the screen; asking again never shows less than was there |
| Rate limiter (`ratelimit.rs`) | attempts per key, in memory or in Redis | check | Redis | at most max attempts per window, no refusal without end |
| Project files (`storage.rs`, `schema/overlays.rs`, `schema/terrain.rs`, `schema/projects.rs`) | blobs, and the rows that name them | upload, delete, refresh, purge | database | a row has its file; a deleted project leaves none |
| Surfaces and volumes (`schema/surface/`, `surfaces-panel.tsx`) | surface rows with version, mesh blobs, volumes; captures and selection | build, rebuild, volume, delete, capture | files, scene | a volume's version names the mesh it was computed from; lists and scene agree |
| Grid, control points, transform (`schema/grid.rs`, `grid-editor.tsx`, `page.tsx`) | axes, control points, solved transform, the tab | edit, set axes, solve | conversion, scene | a single change touches one axis; the tab stays |
| Boundary and georeference (`boundary-panel.tsx`, `georeference-card.tsx`) | ring, draft, scale and origin | draw, find, save, clear, edit, reset | scene | clicks go to the drawing on the screen; no draft is lost |
| Points (`schema/points.rs`, `survey-points-panel.tsx`) | points, categories, groups, page, filter, selection | import, edit, bulk change and delete, group | scene | the table is its page; a dialog acts on what it shows |
| Utilities (`schema/utilities.rs`, `utilities-panel.tsx`) | records, builder, inventory | capture, delete, import | scene | a save keeps its builder; the inventory is its page |
| Field exchange (`schema/field.rs`, `field-panel.tsx`) | batches, open comparison, markers | import, compare, repair, delete | points, scene | markers and rows are of the open comparison |
| Drawings (`schema/overlays.rs`, `cad-overlay-panel.tsx`) | placements, the row that aligns | fine-tune, fit, align, delete | scene, files | one row has the clicks; a row shows its placement |
| Analyses (`schema/analysis.rs`, `analysis-panel.tsx`) | rows, drawing, selection | create, run, duplicate, delete | scene | what is drawn exists |
| 3D view (`scene-view.tsx`, `scene-view-data.ts`, `terrain/`, `terrain-camera.tsx`) | assets, site data, menus, layers, camera | choose, fetch, hide, fade, glide | feed, surfaces | the scene holds what was asked for last; motions come to rest |
| File dialogs (`import-dialog.tsx`, `surfaces/`) | chosen file, its contents | choose, read, submit | points, surfaces | a file is filed under its own name |
| Archive (`archive/`) | - | export, import in one transaction | all tables, files | import is all or nothing |
| Kernels (`geo.rs`, `crs.rs`, `convert.rs`, `surface/`, `report/`) | none | pure functions on floats | - | numeric accuracy, which is the unit tests' business |
| Mail, assets, exports, models, documentation pages | none of interest | I/O, formatting, presentation | - | - |

## Modules

| Module | What it is |
|---|---|
| `Tenancy` | orgs, users, projects, sessions and the Solo quotas, one action per SQL statement |
| `Billing` | one org's row, the pages of its admins, and Stripe as they use it |
| `SceneFeed` | the live feed, from the commit of a mutation to the screen |
| `DirtyBit` | the abstract promise of the feed, which `SceneFeed` implements |
| `Frames` | how the view follows its toggles and data in frames, effects and timers |
| `MemoryLimiter`, `RedisLimiter` | the rate limiter: a sliding window under a mutex; INCR and EXPIRE on a Redis that may fail |
| `ProjectFiles` | uploads, caches, meshes and heatmaps against the rows that name them |
| `Surfaces` | versions of a surface against its mesh and the volumes computed from it |
| `Requests` | calls of the API that overlap, fail, and are answered in any order; every screen extends it |
| `GridEditor`, `ControlTab`, `BoundaryPanel`, `GeorefCard` | the Setup, Control and Grid cards of the project page |
| `PointsPanel`, `UtilitiesPanel`, `FieldPanel`, `OverlaysPanel`, `SurfacesPanel`, `AnalysisPanel`, `ImportDialogs` | the panels of the project page, and the dialogs that import a file |
| `SceneAssets`, `SiteData`, `ViewMenus` | what the 3D view holds: assets, site data, pins |
| `ProjectsPage`, `UsersPage`, `AccountPages` | the pages around the project |
| `MCTenancy`, `MCSceneFeed`, `MCProjectFiles`, `MCSurfaces` | symmetry, and constants a configuration cannot write |
| `MCSceneLive`, `MCLimiters`, `MCStored`, `MCBilling`, `MCScreens` | compositions: several modules, or several instances of one, in one run |
| `*_proofs` | theorems: of a module, or of a composition |

The compositions put independent parts side by side: `MCSceneLive` the feed and the
frames, `MCLimiters` the two limiters, `MCStored` the files and the surfaces,
`MCScreens` all screens. An initial flag says which part moves; the other rests,
so a run has the sum of their states and not the product. Where parts do meet, one
module holds both sides: a screen has the server's side of its requests in it,
`Billing` the row and Stripe, `SceneFeed` the publisher and the socket.
`ProjectFiles` and `Surfaces` overlap in the keys of meshes: the first asks whether
a key exists, over all kinds of files and the deletion of their project, the second
which mesh is under it.

### Tenancy

`users`, `projects` and `orgs` are the tables; a row that does not exist has
`org = None`. `issued` holds the UUIDs handed out, because a UUID never comes
back. `paid` is the part of the billing state that quotas read. A user row keeps
two flags of the one-time links: `active` (login succeeds) and `invited` (an
invite link is outstanding).

Resolvers with a check and a write are split at every await:
`UpdateUserRole` (quota, for a promotion) -> `IsAdmin` -> `CountAdmins` ->
`RoleWrite`, and the same for `RemoveUser`, `InviteUser`, `Signup`,
`CreateProject`, `DeleteProject`, `DeleteOrganization`. A request carries the
claims of its JWT in `by`, so that a token that outlives a demotion, a removal or
the org itself keeps acting, as in the code. The database constraints are
separate operators (`UniqueEmail`, `OrgKey`): they are what saves the code where
its own check is stale.

`Spec` interleaves requests freely. `SerialSpec` runs one request at a time and
keeps the subscription still during it: the difference between the two is what
races do.

Runs, with the caps of a Solo plan scaled to one project, one admin and one
other member:

* `tenancy_race` (two orgs, two requests at once): `TypeOK`, `EmailUnique`,
  `RowsHaveOrg`, `SessionScope` and `TenantIsolation` hold at every interleaving.
* `tenancy_last_admin`: `OrgKeepsAdmin` fails as soon as two requests overlap. The
  code means to keep it.

Under `SerialSpec` `OrgKeepsAdmin` and `CapsKept` hold: that is proved
(`SerialKeepsAdmin`, `SerialKeepsCaps`), for any number of orgs and users, and has
no run.

Two requests are enough for every race of two check-then-write resolvers; three
users cover two admins of one org and a third member that one of them promotes.

Divergences seen while modelling, without a run of their own:

* `CapsKept` fails with two requests too: two `create_project` at once both pass
  the quota (`schema/projects.rs:176`), and the org is then over its caps and
  locked (`billing.rs:240`).
* The lock compares projects, admins and non-admins each with its own cap
  (`billing.rs:243`); `web/src/content/docs/plans.md:21` speaks of the number of
  members.
* A promotion or demotion is felt by the server when the JWT is next issued, at
  most seven days later (`auth.rs`); the pages go by the database's role.
* An org locked by its number of projects cannot delete one, since
  `delete_project` is refused by the same lock (`schema/projects.rs:346`);
  `plans.md:22` says it stays locked "until usage is brought back within the
  caps".

### Billing

`org` is the row (customer, subscription, status), `stripe` what was sold and which
snapshots wait in `outbox`. A webhook may be delivered again and again, after
later ones, or be given up; `resync` is the billing query's own question when a
paid row has no renewal date, asked of Stripe at one moment and written at another.
`ui` is the billing page of each admin: its buttons are busy while a request is
under way. The billing query is three statements: the posture (`ReadPosture`), the
id of the subscription to ask about (`ReadSubscription`), and the posture again
(`Reread`), with the question to Stripe and its answer's write in between.

`hist` remembers what excuses a difference. `sub` and `seen` are the newest state of
a subscription that was written or given up; `behind` says that the row was set from
an older one since, or that the newest was given up, and is taken back by the next
write that is not older. `double` is a second subscription bought beside a live one,
`raced` two first checkouts at the same time, `lost` any webhook given up.

* `billing`: `AccessIsPaid`: once the webhooks are in, access means that a
  subscription is paid, unless the row is `behind` or `double` was bought. So webhooks
  in another order, delivered again or lost, and a stale repair, do harm until a newer
  state is written and no longer; a checkout's link, however late, does none.
  `PortalReachesPayer`, unless `raced`, and under `FairSpec` `BusyEnds`.
  Fairness is weak fairness of each request: the Stripe client has a timeout
  (`STRIPE_HTTP_TIMEOUT`), and `fetch` answers or rejects. Nothing is assumed of
  Stripe, of webhooks or of admins.
* `billing_order`: the comment at `billing.rs:305` says that each event upserts the
  current state. Two webhooks of one subscription in the other order refute it.

`MCBilling` explores two parts of it in one run, told apart by `stripe.dated` (whether
Stripe's reports have a renewal date); each takes fewer of `Billing`'s steps, and no
others. `Alone`: one admin, two subscriptions of one customer and reports without a
date: buying, losing and buying again while the row is repaired. `Both`: two admins,
two customers, one subscription sold incomplete: two first checkouts that overlap.
The three safety properties are proved of all of `Billing`.

Divergences without a run: the resync may write the ended subscription's snapshot
over a new one bought meanwhile, since it reads the id before it asks
(`billing.rs:107`), and access is then wrong until the next webhook (`behind`); two
first checkouts at once make two customers, and the portal reaches the one that was
stored last (`billing.rs:129`, `raced`); a second checkout from a page that has not noticed the first
breaks "one Stripe Customer + one Subscription per org" (`docs/SPEC.md`, section
11); the page says "Subscription active" before any webhook is in.

### SceneFeed

The scene is a version number. A mutation commits (`Commit`) and then publishes
(`Publish`), is dropped in between (`Drop`), or never publishes
(`AnswerSilently`, for `refresh_detailed_terrain`). Each subscription has a
receiver with room for `Cap` pings; one that overflows is told it lagged. The
stream turns a ping or a lag into one push (`Push`), the view restarts its
debounce timer, the timer sends a load (`Fire`), the server reads the scene
(`Read`) and the answer is shown (`Show`) whatever is on the screen by then.
`Mount` loads and then connects; `Lose`, `FailConnect` and `Refuse` are the
socket's failures; `Resubscribe` is the effect of `survey-points-panel.tsx`
running again. A load stands for the scene query with the contents it fetches
afterwards; that one answer mixes versions while a mutation commits is not
modelled, because the commit itself leads to another load.

`fetched`, `shown` and `due` are history variables: the newest version an answer has
carried, the newest that was on the screen, and the version of the last ping of the
present subscription (0 again once a failed load has shown its toast). A load keeps
in `past` what had been shown when it was asked.

* `scene_feed_live` (two loads at a time, which may be answered in either order):
  `Heard` and `Shown`: what was pinged has been fetched and has been on the screen, or
  is on its way; `NeverBehindAsk`: the screen changes only to an answer no older than
  what was shown when its load was asked; `IsDirtyBit`: however pings are dropped and
  merged, each subscription is one bit that a published change sets and only a load
  that has not read yet clears; and, under fairness, `EventuallyShown` and
  `MarksSettle`. Fairness is assumed of the
  stream, the timer and the requests. The timer is strongly fair because only the
  bound on loads in flight disables it; that pings pause long enough for a debounce
  to expire is part of that assumption (the model has finitely many changes).
  Nothing is assumed of mutations, sockets or users. The same run has the frames.
* `scene_feed_gap`: what is published between a view's load and its subscription,
  or while it reconnects, is not fetched until the next change.

Bounds: one view is enough, as views only share the publisher; a channel of
capacity 1 overflows with two pings, as the real one does with seventeen (the run
`scene_feed_gap` has 2); two loads cross; four versions (`MaxScene`) let two mutations,
one of them silent, overlap, and a third change come while their loads are under way.
Of any number of views and loads and any capacity, `Heard`, `Shown`, `NeverBehindAsk`
and `IsDirtyBit` are proved.

Divergences without a run: of two loads in flight the older answer may be applied last
(`scene-view.tsx:440` applies whatever arrives), and stays until somebody asks again;
so `Shown` and `EventuallyShown` say that a change has been on the screen and not that
it is still there, and `NeverBehindAsk` says how far back the screen may go.
`refresh_detailed_terrain`
(`schema/terrain.rs:636`) changes the terrain without a ping, although
`schema/subscription.rs:12` lists terrain among what pings.
After six failed reconnects graphql-ws reports an error that
`scene-subscription.ts:39` ignores: the view stays deaf, which `Refuse` allows and no
property excludes.

### Frames

`layer` has, per thing that fades or glides, what is wanted, what is mounted, how
far its fade is (`level`) and how far it is from where its data put it (`away`), and
whether an effect or a timer is due. `Frame` is one animation frame: all that
advances, advances together. `Toggle` and `Moved` are what the user and the data
ask for, `Effect` and `Timer` what React and the browser run afterwards. `window`
says whether frames are drawn, and `camera` holds the goal, the hand and the idle
time of the controls. There is one layer of each kind: `Fades` unmount, `Culled` stay
mounted, `Lines` glide, `Labels` and `Pins` leave by a timer.

* `scene_feed_live`: `FollowsLast` (`CameraObeys`: the camera is where its last
  intent put it, or on its way there; `PinsPresent`: a timer never takes a pin that
  is wanted), and `FramesSettle`: with the focus kept, every fade, label, pin, line
  and glide comes to rest where it should. Fairness: of frames in a visible window,
  of each effect and of each timer.

Four turns suffice to show, hide and show again with a loss of focus in between;
five give the same result.

Divergences without a run: a `Fade` shown and hidden again with no frame in between
is never unmounted, though `fade.tsx` says that once fully hidden it costs nothing
(`hist.blinked` excludes it); `animated-line.tsx:65-66` asks for the frames a fade
needs in an idle window, but geometry and pins that glide ask for none and wait for
the focus; `terrain-camera.tsx:133` frames the scene "when the scene bounds first
become valid", but the default extent is valid at once, so that a scene opened empty
is not framed when its points arrive.

### MemoryLimiter and RedisLimiter

Both model one key, because keys share nothing. `MemoryLimiter` splits `check`
where threads can be reordered: `Stamp` is `Instant::now()`, evaluated before the
call, and `Check` is the body under the mutex. `Kept` is the `retain`, and keeps
an entry with a later stamp because `duration_since` saturates at zero. `newest`
and `late` are history variables: the newest stamp checked so far, and whether a
check was ever overtaken by one with a newer stamp. `RedisLimiter` splits `check`
at its two commands: `Incr`, then `Expire` by the attempt that counted 1, either of
which may fail. `FailOpen` lets an attempt through whose INCR Redis never saw, or
carried out without its answer arriving; `FailExpire` is also a handler dropped in
between. `creator` is a history variable: the attempt that created the key. `Tick`
drops the key when its time has come and `Flush` is a restart of Redis.

The runs are `limiters`, of both backends side by side, and `limiters_lockout`.

* In process, with checks in any order: `WindowCap` (of the window that ends at the
  newest stamp) and `RefusedForCause` hold; `EveryWindowCap`, of all windows, holds
  until a check is overtaken (`~late`). After that it may fail: the newer check has
  evicted entries that the older one should have counted, although the comment at
  `ratelimit.rs:20` says "at most `max` events per `window`" of every window.
* In Redis: `BurstCap`, the price of a fixed window, is at most twice the quota, even
  when EXPIRE is late, is lost or meets a recreated key. `TimeToLive`: a key goes
  without one only by the attempt that created it, whose EXPIRE is still to come or
  was lost, or whose INCR was counted and not answered. `BurstCap` counts
  attempts that the counter let through: while Redis is away every attempt passes, by
  design.
* `limiters_lockout`: `NeverLockedOut` (a counter that refuses expires, or is about to
  be told when) is what `ratelimit.rs:8-9` and `docs/SPEC.md:201` promise of an outage.
  It fails: one INCR counted and not answered, or one EXPIRE that is lost, leaves a
  key without a time to live, and once it has passed the quota it refuses for good.

Five attempts against a quota of two (or one) fill a window, empty it and fill it
again within the six (or five) ticks the clock has; a window of three (or two)
ticks has stamps inside, at and outside its edge.

### ProjectFiles

`rows` is the set of keys that a committed row names and `files` the set of keys
in the store. A request is at the await before its next statement or file
operation: an upload is `put` then `insert`; a removal deletes the row and then
the file, and `delete_overlay` and `delete_surface` take the keys of what the
cascade deletes (`ForeignKeys` is what the schema's references allow an INSERT);
`delete_project` purges cache by cache (`Purge`) and then deletes the row;
`delete_organization` does so for the list of projects it read before;
`import_project` writes drawings inside its transaction. `Faults` lets the store
fail. `Abort` drops a request anywhere.

`doomed` (projects whose purge has begun) and `excused` (files that the purge
could not find or remove: written later, or refused by the store) are history
variables: they say for which files a promise is made.

* `stored`: `RowHasFile`, and `Swept`: drawings and caches of a deleted project are
  gone, those without a row included.
* `files_left`: `NothingLeft` fails with one request and no fault, because the
  purge does not know the prefixes of surfaces, volumes and DEMs.

One project, one file of each kind, one cache and two requests cover every pair of
handlers that meet on one file; two requests on one project cover a purge against
each other handler. The theorems are for any number of each.

### Surfaces

A rebuild is two writes: the mesh under its fixed key (`PutMesh`), then version
and inputs (`UpdateSurface`). `compute_volume` reads, for its base and then its
compare surface, the row (`LoadSurface`) and the mesh (`GetMesh`), and stores the
volume with the versions read (`InsertVolume`). Meshes are numbered in the order
in which they are stored, so "older" is "less"; `rows[s].mesh` is the mesh that the
row's inputs describe, and `named`, a history variable, the one that each version
described when it was committed. Display solids, exports and contours, which read
one row and one mesh and store nothing, are not modelled.

* `stored`: `RowHasMesh` (a row never describes a mesh newer than the stored
  one, and never lacks one) and `NeverOlder` (a volume is computed from the mesh
  its version names or a newer one), since the version is read first.
* `surfaces_inputs`: that the stored mesh is the one the inputs built fails, by a
  rebuild dropped between its writes or by two that cross.

Three requests are two rebuilds that cross, or a build or deletion, under one
volume; three meshes are a first one and two that replace it. One surface in both
roles covers comparisons, as surfaces only meet in a volume; with two surfaces and
two requests the same properties, and the inductive invariant, hold.

### The screens

`Requests` is the shape of a call: a slot holds what was asked (`sent`), then the
answer (`done`) or a failure (`failed`), which may come after the server did the work.
`mine` says whether the component that asked is still mounted. A handler that
awaits two calls follows one by the other in its slot. All seventeen screens are
explored in the run `screens`, each alone, by `MCScreens`, which instantiates their
modules over the same few constants: `Names` are what is drawn, listed or chosen,
`Some` and `a` fewer of them, `n` none of them, and `MaxCalls`, `Few`, `Several`,
`MaxLinks` and `MaxTurns` bound requests, changes and turns. `screen` says which one
moves. Three panels are explored twice, as two screens: with two requests at a time and
little else, and in more breadth with the requests in turn (`InTurn`): the points, with
a look at the table (`Glance`) and through all its pages (`Paging`), the drawings
(uploads of a few, `OfSome`, and all of them) and the utility records (captured, and
listed); the modelled surfaces are only explored in turn. The scene's assets and the
site's data have a screen for each of three pairs of kinds. The theorems below are of all
these screens, for any value of the constants. Two requests are what it takes for one
answer to overtake another, or for one failure beside a success; a page size of one
makes a second row a second page. Nothing here is a promise about time, so no
fairness is assumed, and a screen may rest.

`ShowsServer` says: with nothing under way, the screen shows what the server holds. It
makes the exceptions the code makes, each kept in its module's `hist`:

* a request failed, or its answer was lost (the screen keeps what it had);
* an older answer, or the answer to an earlier question, was applied last: nothing
  cancels or numbers a request (`page.tsx:229`, `scene-view.tsx:262`);
* another session changed what no ping reports;
* in the panels of drawings, georeference, utilities, surfaces, analyses and
  comparisons, the user acted, or left the panel, while a request was under way.

After one of these it claims nothing, for the rest of the behaviour. So what it does
check are requests that overlap and are answered in turn, chains of
loads, refusals, other users' changes with their pings, and panels left and come back
to between requests; it is not a check of crossed or late answers, which the code does
not guard against. Where a comment or a document does promise something of an excepted
case, an operator states it and the list of divergences says what happens: the markers
of a comparison that is answered after its panel is gone stay in the scene
(`field-panel.tsx:120`, `FieldPanel!OverlayCleared`), and a solve leaves the guide with
the status of before (`setup-checklist.tsx:61-64`, `ControlTab!LiveStatus`).

`ActsOnShown` has three parts. A bulk dialog over the survey points acts on what it
shows, without exception. An import files what its dialog names: always in the two
surface dialogs, in the points dialog unless something was done while a file was being
read or a reading failed. What the users page and the projects page offer is not
refused, if no other request was under way from the click on (the page's first list
and billing answer included), none failed before, and no other session changed
anything. `create-project-dialog.tsx:85-87` promises more than the last: an org at its
cap does get the form when the billing answer comes before the list.

`OneAtATime` is of one replacement of the grid at a time, from the current list.
`Bridge`, `SaveHoldsBuilder`, `WayIn` and `KeepsChoices` hold through late, crossed and
failed answers alike.

| Module | Code | Properties, as parts of the run's |
|---|---|---|
| `GridEditor` | `grid-editor.tsx`, its dialogs, `schema/grid.rs` (two READ COMMITTED replacements) | `ShowsServer`; `OneAtATime`: a change from the current list touches no other axis |
| `ControlTab` | the project page, its tabs, control points and transform | `ShowsServer`; `KeepsChoices`: a chosen tab stays through loads |
| `GeorefCard` | `georeference-card.tsx` | `ShowsServer`; `KeepsChoices`: what is not marked as edited is the project's |
| `BoundaryPanel` | `boundary-panel.tsx` | `ShowsServer`; `Bridge`: clicks, hint and draft exist for a drawing on the screen, and only then |
| `PointsPanel` | `survey-points-panel.tsx`, its dialogs, `schema/points.rs` | `ShowsServer`: rows and total of the page it says; `ActsOnShown`: a bulk dialog acts on the selection it counts |
| `UtilitiesPanel` | `utilities-panel.tsx`, `schema/utilities.rs` | `ShowsServer`, `Bridge`, `SaveHoldsBuilder`: an answer ends no builder but its own |
| `FieldPanel` | `field-panel.tsx` | `ShowsServer`: rows and markers are of the open comparison |
| `OverlaysPanel` | `cad-overlay-panel.tsx`, its rows | `ShowsServer`; `Bridge`: the scene's clicks, hint and markers are of the one row that aligns |
| `SurfacesPanel` | `surfaces-panel.tsx`, `schema/surface` | `ShowsServer`: lists, the shown surface exists, a volume's base has a name; `Bridge` |
| `AnalysisPanel` | `analysis-panel.tsx` | `ShowsServer`; `Bridge`, with what is drawn in the scene |
| `SceneAssets` | the assets of `scene-view.tsx`, the ground of `terrain-viewer.tsx` | `ShowsServer`: the assets are of what is chosen; some ground is drawn, graded as the legend says |
| `SiteData` | `scene-view-data.ts`, the site button, `schema/terrain.rs` | `ShowsServer`: the button's own pings and reloads leave the newest data |
| `ViewMenus` | `scene-toolbar.tsx`, `markers.tsx` | `ShowsServer`: pins are those the menus say; nothing is projected on hidden terrain |
| `ImportDialogs` | the three dialogs with a file input | `ActsOnShown`: a file is imported under its own name |
| `UsersPage` | `settings/users/page.tsx` | `ShowsServer`; `ActsOnShown`: an offered demotion or removal is not refused |
| `ProjectsPage` | `projects/page.tsx`, its dialogs | `ShowsServer`; `ActsOnShown`: an offered creation is not refused |
| `AccountPages` | the forms, `app-shell.tsx`, the links of `schema/auth.rs` | `WayIn`: a session is of a proved account, no account is locked out; part of `ShowsServer`: the shell shows nothing without one |

Some modules also state what a comment says and the code does not do; the comment
at such a definition says so, and no run checks it: `GridEditor!OthersUntouched`
(`grid-axis-dialog.tsx:41-42`), `ControlTab!LiveStatus` (`setup-checklist.tsx:61-64`),
`PointsPanel!NeverStranded`, `FieldPanel!OverlayCleared` (`field-panel.tsx:120`),
`OverlaysPanel!PickedUnder` (`schema/overlays.rs:239-240`).

Divergences met on the way, by screen:

* Grid and control: a solve is not followed by a load, so the guide does not know of
  it; clearing a field of a point, a control point or a project is ignored, as the
  UPDATEs use COALESCE; that a stored transform is of the current control points
  (`grid.rs:258`) is not covered, `ControlTab` keeps only that there is one.
* Points: a page that has lost its last row stays open and empty (the utilities'
  inventory too); `delete_category` publishes nothing, and a handler reloads with
  the filter and page of its start.
* Surfaces: after a surface is deleted elsewhere the picker still names it; deleting a
  surface cascades to its volumes (`0016_surface_modeling.sql:74-77`) but the panel
  does not reload them; `useMutation` does not await `onDone`, so a Build right after
  saving a breakline leaves it out, against the comment at `surfaces-panel.tsx:321`;
  the shared busy flag is cleared by the first of two runs to end.
* Drawings: the answer to one row's alignment ends another row's capture; a click on
  any drawing's vertex is accepted; the Visible switch saves an unsaved placement.
* Utilities: a preview that lands in a closed dialog is there when it opens again.
* Analyses: the answer to a save ends a drawing that was started meanwhile.
* Scene: loads of assets are never cancelled, so that a late answer replaces a later
  question's; a volume over an elevation has no bodies (`query.rs:409`), and without a
  composite nothing is drawn; detailed terrain is fetched with `force: false` only
  (`scene-view.tsx:562`), so once, even after the boundary moved.
* Menus: a category created in another session hides its points with no switch to
  show them until the page loads; deleting a category sends no ping; the filter of a
  deleted group shows everything and still reads "Group".
* File dialogs: the points dialog names a file before it has read it
  (`import-dialog.tsx:117-118`), so a quick submit, or a second choice, imports
  contents under another name; an .xml sets the format, and a later .csv does not
  set it back; a reading that lands after a success fills the cleared form again.
* Users: the page asks for the role once, the server goes by the JWT's, so a new admin
  sees an empty table until the next login; a refresh that fails after an invitation
  says that it could not be sent.
* Projects: `create-project-dialog.tsx:85-87` means never to open the form for an org
  at its cap, but the count is 0 until the list is there; a form hidden by an import
  opens by itself after a deletion.
* Accounts: a logout that fails leads to the login page, which leads back; a login's
  answer takes a visitor along who has left the form; an invitation that ran out
  leaves an account that only an admin's reset opens (`hist.lapsed`); the page of a
  verified link, loaded again, says that verification failed.

## Proofs

All proofs are for any number of orgs, users, admins, subscriptions, requests, views,
mutations, loads, projects, files, surfaces, volumes, attempts, layers, rows, links and
turns, and any capacity, quota, page or window. They assume only what the `ASSUME` of
each module says: constants that name ids are distinct from `None` and from each other,
and the bounds are natural numbers.

* `Tenancy_proofs`: `TypeSafe`; `EmailsStayUnique`, `RowsKeepOrg`,
  `SessionsKeepScope`, `TenantsIsolated` for the interleaved `Spec`, and
  `SerialKeepsAdmin` and `SerialKeepsCaps` for `SerialSpec`. These two need an inductive
  strengthening: a request past `CountAdmins` is in an org that has a second admin, or its
  target is not an admin; and a request past a quota check is in an org that has room for
  what it will write (`QuotaInv`, by counting what a step adds to or takes from an org).
  `SerialKeepsCaps` assumes `Solo.admins = 1`, which is the code's (`plan.rs:38`): a
  demotion asks no quota, and it is the refusal to demote a last admin that keeps a free
  org from gaining a member that way.
* `Billing_proofs`: `TypeCorrect`, whose invariant (`Types`) also bounds every customer
  and subscription that is named anywhere by those there are. `AccessFollowsPayment`:
  the invariant says that without a second subscription beside a live one all but the
  last are over (`Over`), that the newest event is of the last one as it is now
  (`Newest`), that this event is still to come or is the newest that was written or
  given up (`InTime`), and that a row set from it says what Stripe does (`Right`).
  `OneCustomer`: without a race one request at most is making a customer, and every
  customer held by a request, a checkout page, a subscription or an event is the row's
  (`OneMaker`, `AllKnown`); `AccessIsPaid` and `PortalReachesPayer` follow.
* `Live_proofs`, of the feed: `FeedTypeSafe`; `NoPingLost` (`Heard`), which needs
  `DueBound` (what is due was committed, and only an open subscription owes
  anything); `PingedIsShown` (`Shown`) needs nothing more, as what was shown or
  fetched only grows; `AnswersKeepUp` (`NeverBehindAsk`) needs that an answer is no older
  than what was shown when its load was asked (`Fresh`);
  `FeedIsDirtyBit`, the refinement of `DirtyBit`, action by action.
* `Live_proofs`, of the feed beside its frames: `LiveTypeSafe` and `LiveFollowsLast`. The
  second has two invariants, each inductive given the types and that a pin is no other
  kind of layer (`LiveAssumption`): that of the camera, whose intent is in one variable
  and its way there in another, and that of the pins, which every effect has to restore.
* `Limiters_proofs`, in process: `LimiterTypeSafe`, `NewestWindowHolds`,
  `NoRefusalWithoutCause`, `EveryWindowHolds`. The inductive invariant says that
  the bucket holds at most Max attempts (`BucketCap`) and that what has left it is
  out of the newest window for good (`EvictedIsOld`); for
  every window, `OInv`: until a check is late, an admitted attempt has its own window
  as the newest, so the bound on that one carries over.
* `Limiters_proofs`, in Redis: `RedisTypeSafe`, `BurstsAreCapped`, `CreatorGivesTime`, of the
  composition. A key lives at least a window from its first INCR, as only an
  EXPIRE ends it; so a stretch of one window meets at most two lives of it, each
  of which admits at most the quota. The inductive invariant (`TwoLives`) names the
  tick at which the present life began or may begin and bounds what was counted
  since and before; `CountedOnce` and `MadeByNow` tie counts to attempts,
  `OwesExpiry` says who did not give the key its time to live.
* `Stored_proofs`, of the files: `FilesTypeSafe`, `RowsKeepFiles`, `DeletionSweeps`. The
  invariant has five parts: what kind of key each step holds (`Keyed`), that rows
  belong to projects that exist (`Belonging`), that a file about to be named is
  there and one about to be removed has no row (`Handled`), what an import holds
  before it commits (`Importing`), and that what a purge has passed is gone,
  doomed projects included (`Sweeping`).
* `Stored_proofs`, of the surfaces: `SurfacesTypeSafe`, `RowsHaveMeshes`,
  `VolumesNeverOlder`.
  The invariant relates what versions named to what is stored (`NamedOK`), says
  that a surface being built is in no other hands and that a rebuild's mesh is no
  newer than the stored one (`Handled`), and that each side of a volume in progress
  is already sound once it has its mesh (`SidesOK`). None of the safety properties
  is inductive without it: a volume in progress must be covered before it is stored.
* `Stored_proofs`, of the composition: `StoredTypeSafe`, `StoredMeshes`,
  `StoredVolumes`: each side behaves as its own specification, which carries the
  theorems of the files and of the surfaces over.
* `Screens_proofs`: four properties of the run `screens`. What every screen's calls do to
  `net` is proved once of `Requests` (the lemmas `RSent`, `RAnswered`, `RFollowed`,
  `RSettled`, `ROrphaned`), and each screen's copy of them is shown to be the same
  (`BCalls`, `JLinks`, ...). `ClicksReachCapture` (`Bridge`) has one invariant per panel
  that hands its clicks to the scene: that a capture's requests come from the mounted
  panel, and that handler, hint and markers are those of its mode (`BInv`, `OInv`,
  `MInv`, `NInv`, `UInv`). `CaptureKeepsBuilder` (`SaveHoldsBuilder`) needs that only one
  capture is being saved at a time (`UOnce`). `ChoicesStay` (`KeepsChoices`): a project on
  the page has had its tab picked (`CInv`), and the card's draft is of the project it
  last took over (`GInv`). `NobodyLockedOut` (`WayIn`): the session, and every answer that
  will open one, is of an account with a password and a proved address or of one that is
  gone (`Holds`), and an account has a password, a link of its invitation or has lapsed
  (`ADoor`).
* `Acts_proofs`: `OffersAreMeant` (`ActsOnShown`). For the table of points, one
  change of the panel is under way at most, and none beside a bulk dialog (`PBusy`), so
  that no answer changes the selection under it. For an import, the contents in the form and in every request are of the file
  that the form names, or a reading is still under way (`DInv`). For the projects and the
  users (`JInv`, `WInv`): a change that is done has the list loaded again, and until then
  what comes is the organization's list, and it is on the screen or on its way (`JListed`,
  `WListed`); the plan is asked for once (`JBilled`); whoever sees a list has an
  administrator's token (`WToken`); and a request that nothing overlaps has the server to
  itself (`JAlone`, `WAlone`). Without the middle ones the last is not inductive.
  `OthersStay` (`OneAtATime`), of the building grid: an id is of one axis wherever a page,
  a dialog or an answer knows it, and a replacement gives ids nobody has (`EIds`); so the
  list a dialog rebuilds names every other axis as often as the page has it
  (`EFormList`, `EDeleteList`, `EImportList`), and with no other replacement under way
  that stays so until the commit, whose snapshot is the whole grid (`EAlone`).
  `ListsAreServers` (`ShowsServer` of the grid, the projects, the users, the boundary,
  the georeference, the control points and the page of survey points) follows from which
  answer under way is the last to be asked for: `ESeen`, `JListed`, `WListed`; for the
  pages that reload one row after each change of it, one invariant over the part shown
  and the counter of its changes (`VInv`: what is seen is the newest, or a load that
  reads it or a change that asks for one is under way); for the survey points `PPage`,
  where the timer may be what is to come, and an answer to an older question is shown
  only while another load is under way.

* `Views_proofs`: `ViewsAreServers` (`ShowsServer` of the analyses, the account and the
  field comparison). `NSeen`, `AShell` and `FSeen` have one shape: what the server was
  asked and what it answered are described for each request on its own, and then who may
  be under way beside whom. The analyses have one request at a time unless the user did
  not wait (`NCalm`), and what is selected is there or on its way out (`NAsk`). Whoever
  leaves an account page is taken along or is let in again (`ACrowd`). Of the field
  exchange one request at most leads to a comparison, and it fits the panel (`FLeads`,
  `FFits`); and a list that shows all there is has come or will (`FComes`, `FPage`).
  That proof did not go through at first: a list that came for a panel long left lowered
  the counter of what had been seen (`seen`), so that the excuse of an overtaken answer
  was given too often. The counter is now of the panel on the screen only.

Model-checked only: everything under fairness (`EventuallyShown`, `MarksSettle`,
`FramesSettle`, `BusyEnds`), which is out of the prover's reach; of the screens
`TypeOK`; and `ShowsServer` of the other screens (overlays, surfaces, utilities, the 3D view's
assets and menus). It is one property per screen, and each needs an invariant of its own
for which of several answers under way is the last to be asked for.

## Not modelled

`PROJECT.json` lists every part with its reason. In short: the kernels (geometry,
reference systems, least squares), reports, exports and conversions are stateless
functions on floats and text; mail, the asset route and GraphQL's types are I/O and
wiring; the documentation, marketing and upgrade pages are presentation, as are
dialogs over read-only queries (export, converter, coordinate inspector). An
archive's import is one transaction: its files are in `ProjectFiles`, its rows are
data. `graphql.ts` and `gql.ts` under `lib/gql` are generated types.

Within what is modelled: the store is atomic per file (in the code `fs::write`
truncates in place, `storage.rs:51`), a statement that waits for a row lock is its
commit, JWTs do not expire, and of the records on a screen a model keeps what its
properties tell apart. The audit trail of utilities is written in the transaction of its
record.

## What is left

* The transform against the control points it was solved from (`grid.rs:258`), which
  needs a version on both.
* The screens in pairs: a panel and the 3D view beside it, over one feed.
* The archive as an abstract specification that the import of `ProjectFiles` implements.
* Theorems: `ShowsServer` of the other screens, for any number of requests.
