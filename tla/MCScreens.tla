------------------------------ MODULE MCScreens ------------------------------
(* The screens of the web client for TLC, one at a time, each with as many   *)
(* requests, users' changes and rows as its hazards take.                    *)
EXTENDS Naturals, FiniteSets

CONSTANTS
    Names, Some, a,         \* what is drawn, listed or chosen; a few of them, and one
    n,                      \* none of them
    MaxCalls,               \* requests of a screen at the same time
    PageSize, MaxRing,
    Few, Several,           \* bounds on rows, changes and turns
    MaxLinks, MaxTurns

ASSUME ScreensAssumption ==
    /\ {MaxCalls, PageSize, MaxRing, Few, Several, MaxLinks, MaxTurns} \subseteq Nat \ {0} /\ MaxCalls > 1
    /\ IsFiniteSet(Names) /\ Some \subseteq Names /\ a \in Some /\ {n, "none"} \cap Names = {}

VARIABLES screen, net, ui, db, hist

Grid == INSTANCE GridEditor WITH Labels <- Names, MaxSaves <- Several
Control == INSTANCE ControlTab WITH Pts <- Names, MaxEdits <- Few
Boundary == INSTANCE BoundaryPanel WITH Verts <- Some, MaxSaves <- Several
Points == INSTANCE PointsPanel WITH
    Pts <- 1 .. Several, MaxEdits <- Few, MaxTurns <- Several, Views <- {"all", "category", "group", "descending"}
Field == INSTANCE FieldPanel WITH Batches <- Names, MaxChanges <- Few
Overlays == INSTANCE OverlaysPanel WITH Overlays <- Names, MaxChanges <- Few
Georef == INSTANCE GeorefCard WITH Values <- Names \cup {n}, NoOrigin <- n, MaxChanges <- Several
Utilities == INSTANCE UtilitiesPanel WITH MaxItems <- Several, MaxChanges <- Few
Modelling == INSTANCE SurfacesPanel WITH MaxChanges <- Few
Analyses == INSTANCE AnalysisPanel WITH MaxChanges <- Few
Assets(Kinds, Surfaces, MaxChanges) == INSTANCE SceneAssets
SiteOf(Kinds, MaxChanges) == INSTANCE SiteData
Menus == INSTANCE ViewMenus WITH
    Pts <- {1}, Cats <- Names, Groups <- {n}, Layers <- Some, MaxChanges <- Several, MaxTurns <- Several
Users == INSTANCE UsersPage WITH
    Users <- Names, Self <- a, MaxAdmins <- Few, MaxMembers <- Few, MaxChanges <- Several
Projects == INSTANCE ProjectsPage WITH Projects <- Names, MaxProjects <- Few, MaxChanges <- Several
Dialogs == INSTANCE ImportDialogs WITH Files <- Names, Xml <- Names \ Some, MaxImports <- Several
Account == INSTANCE AccountPages

\* What is looked at of the assets, and of the site data.
Chosen == {"mesh", "contours"}
Earthwork == {"volume", "graded"}
Breaklines == {"constraints"}
Site == {"terrain", "composite"}
Ground == {"sampler", "overlays"}
Sources == {"terrain", "buildings"}

\* One request at a time.
InTurn == \A s \in DOMAIN net : s > 1 => net'[s] = net[s]

\* A look at the table of points, and paging through all of it.
Glance == hist'.turns <= Few /\ ui'.view \in {"all", "category"}
Paging == ui'.view \in {"all", "group", "descending"}

\* Some overlays only are uploaded.
OfSome == \A s \in DOMAIN net : net'[s].op = "upload" => net'[s].o \in Some

Init ==
    \/ screen = "grid" /\ Grid!Init
    \/ screen = "control" /\ Control!Init
    \/ screen = "boundary" /\ Boundary!Init
    \/ screen \in {"points", "pages"} /\ Points!Init
    \/ screen = "field" /\ Field!Init
    \/ screen = "overlay" /\ Overlays!Init /\ DOMAIN db.os \subseteq Some
    \/ screen = "overlays" /\ Overlays!Init
    \/ screen = "georef" /\ Georef!Init
    \/ screen = "utilities" /\ Utilities!Init /\ DOMAIN db.items = {}
    \/ screen = "records" /\ Utilities!Init
    \/ screen = "surfaces" /\ Modelling!Init
    \/ screen = "analyses" /\ Analyses!Init
    \/ screen = "chosen" /\ Assets(Chosen, Some, Few)!Init
    \/ screen = "earthwork" /\ Assets(Earthwork, {}, 0)!Init
    \/ screen = "breaklines" /\ Assets(Breaklines, Some, Few)!Init
    \/ screen = "site" /\ SiteOf(Site, Several)!Init
    \/ screen = "ground" /\ SiteOf(Ground, Several)!Init
    \/ screen = "sources" /\ SiteOf(Sources, Few)!Init
    \/ screen = "menus" /\ Menus!Init
    \/ screen = "users" /\ Users!Init
    \/ screen = "projects" /\ Projects!Init
    \/ screen = "dialogs" /\ Dialogs!Init
    \/ screen = "account" /\ Account!Init

Next ==
    \/ screen = "grid" /\ Grid!Next /\ UNCHANGED screen
    \/ screen = "control" /\ Control!Next /\ UNCHANGED screen
    \/ screen = "boundary" /\ Boundary!Next /\ UNCHANGED screen
    \/ screen = "points" /\ Points!Next /\ Glance /\ UNCHANGED screen
    \/ screen = "pages" /\ Points!Next /\ InTurn /\ Paging /\ UNCHANGED screen
    \/ screen = "field" /\ Field!Next /\ UNCHANGED screen
    \/ screen = "overlay" /\ Overlays!Next /\ OfSome /\ UNCHANGED screen
    \/ screen = "overlays" /\ Overlays!Next /\ InTurn /\ UNCHANGED screen
    \/ screen = "georef" /\ Georef!Next /\ UNCHANGED screen
    \/ screen = "utilities" /\ Utilities!Next /\ UNCHANGED screen
    \/ screen = "records" /\ Utilities!Next /\ InTurn /\ UNCHANGED screen
    \/ screen = "surfaces" /\ Modelling!Next /\ InTurn /\ UNCHANGED screen
    \/ screen = "analyses" /\ Analyses!Next /\ UNCHANGED screen
    \/ screen = "chosen" /\ Assets(Chosen, Some, Few)!Next /\ UNCHANGED screen
    \/ screen = "earthwork" /\ Assets(Earthwork, {}, 0)!Next /\ UNCHANGED screen
    \/ screen = "breaklines" /\ Assets(Breaklines, Some, Few)!Next /\ UNCHANGED screen
    \/ screen = "site" /\ SiteOf(Site, Several)!Next /\ UNCHANGED screen
    \/ screen = "ground" /\ SiteOf(Ground, Several)!Next /\ UNCHANGED screen
    \/ screen = "sources" /\ SiteOf(Sources, Few)!Next /\ UNCHANGED screen
    \/ screen = "menus" /\ Menus!Next /\ UNCHANGED screen
    \/ screen = "users" /\ Users!Next /\ UNCHANGED screen
    \/ screen = "projects" /\ Projects!Next /\ UNCHANGED screen
    \/ screen = "dialogs" /\ Dialogs!Next /\ UNCHANGED screen
    \/ screen = "account" /\ Account!Next /\ UNCHANGED screen

vars == <<screen, net, ui, db, hist>>
Spec == Init /\ [][Next]_vars

-----------------------------------------------------------------------------
TypeOK ==
    CASE screen = "grid" -> Grid!TypeOK
      [] screen = "control" -> Control!TypeOK
      [] screen = "boundary" -> Boundary!TypeOK
      [] screen \in {"points", "pages"} -> Points!TypeOK
      [] screen = "field" -> Field!TypeOK
      [] screen \in {"overlay", "overlays"} -> Overlays!TypeOK
      [] screen = "georef" -> Georef!TypeOK
      [] screen \in {"utilities", "records"} -> Utilities!TypeOK
      [] screen = "surfaces" -> Modelling!TypeOK
      [] screen = "analyses" -> Analyses!TypeOK
      [] screen = "chosen" -> Assets(Chosen, Some, Few)!TypeOK
      [] screen = "earthwork" -> Assets(Earthwork, {}, 0)!TypeOK
      [] screen = "breaklines" -> Assets(Breaklines, Some, Few)!TypeOK
      [] screen = "site" -> SiteOf(Site, Several)!TypeOK
      [] screen = "ground" -> SiteOf(Ground, Several)!TypeOK
      [] screen = "sources" -> SiteOf(Sources, Few)!TypeOK
      [] screen = "menus" -> Menus!TypeOK
      [] screen = "users" -> Users!TypeOK
      [] screen = "projects" -> Projects!TypeOK
      [] screen = "dialogs" -> Dialogs!TypeOK
      [] screen = "account" -> Account!TypeOK

\* With nothing under way a screen shows what the server holds.  The exceptions,
\* each kept in its module's hist, are what the code does not guard against: a
\* request failed or its answer was lost; an older answer, or the answer to an
\* earlier question, was applied last (page.tsx:229, scene-view.tsx:262); another
\* session changed what no ping reports; and in the panels of overlays,
\* georeference, utilities, surfaces, analyses and comparisons the user acted, or
\* left, while a request was under way.  After any of these nothing is claimed;
\* field-panel.tsx:120 does claim it, and the code leaves the markers of a late
\* answer.  What is checked is the rest: overlapping requests answered in turn,
\* chains of loads, refusals, the pings of other users, and panels left and come
\* back to between requests.  The account pages make no exception.
ShowsServer ==
    CASE screen = "grid" -> Grid!ShowsGrid
      [] screen = "control" -> Control!ShowsPoints
      [] screen = "boundary" -> Boundary!ShowsBoundary
      [] screen \in {"points", "pages"} -> Points!ShowsPage
      [] screen = "field" -> Field!ShowsComparison
      [] screen \in {"overlay", "overlays"} -> Overlays!RowTruth
      [] screen = "georef" -> Georef!ShowsProject
      [] screen \in {"utilities", "records"} -> Utilities!ShowsInventory
      [] screen = "surfaces" -> Modelling!ShowsLists /\ Modelling!ShownExists
      [] screen = "analyses" -> Analyses!ShowsAnalyses
      [] screen = "chosen" -> Assets(Chosen, Some, Few)!ShowsChosen
      [] screen = "earthwork" -> Assets(Earthwork, {}, 0)!ShowsChosen /\ Assets(Earthwork, {}, 0)!GroundShown
      [] screen = "breaklines" -> Assets(Breaklines, Some, Few)!ShowsChosen
      [] screen = "site" -> SiteOf(Site, Several)!ShowsSite
      [] screen = "ground" -> SiteOf(Ground, Several)!ShowsSite
      [] screen = "sources" -> SiteOf(Sources, Few)!ShowsSite
      [] screen = "menus" -> Menus!MenuTruth /\ Menus!ProjectedOnShown
      [] screen = "users" -> Users!ShowsMembers
      [] screen = "projects" -> Projects!ShowsProjects
      [] screen = "account" -> Account!Guarded
      [] screen = "dialogs" -> TRUE

\* The scene's clicks, its hint and what it draws belong to the capture on the
\* screen, and to none when there is none.
Bridge ==
    /\ screen = "boundary" => Boundary!Bridge
    /\ screen \in {"overlay", "overlays"} => Overlays!Bridge
    /\ screen \in {"utilities", "records"} => Utilities!Bridge
    /\ screen = "surfaces" => Modelling!Bridge
    /\ screen = "analyses" => Analyses!Bridge /\ Analyses!Published

\* Grid axes changed one at a time: none lost, doubled or back again.
OneAtATime == [][screen = "grid" =>
    \A s \in DOMAIN net : ~hist.stale => Grid!OnlyItsOwn(s)]_vars

\* A bulk dialog over the survey points acts on what it shows, in every case.  An
\* import files what its dialog names: always in the two surface dialogs, in the
\* points dialog unless something was done while a file was being read or a reading
\* failed.  What the pages of users and of projects offer is not refused, if no
\* other request was under way from the click on, the page's first list and billing
\* answer included, none failed before, and no other session changed anything: an
\* organization at its cap does get the form when the billing answer comes before
\* the list, which create-project-dialog.tsx:85 says it avoids.
ActsOnShown ==
    /\ screen = "users" => Users!OfferedIsAllowed
    /\ screen = "projects" => Projects!OfferedIsAllowed
    /\ screen = "dialogs" => Dialogs!FiledAsNamed
    /\ screen \in {"points", "pages"} => Points!ActsOnShown

\* A utility capture being saved keeps its builder.
SaveHoldsBuilder == screen \in {"utilities", "records"} => Utilities!SaveHoldsBuilder

\* A session is of an account with a password and a proved address, and an
\* account always has a way in.
WayIn == screen = "account" => Account!Earned /\ Account!WayIn

\* What the user chose or typed stays through loads: the tab, and the fields of
\* the georeference card, which marks as edited what is not the project's.
KeepsChoices ==
    /\ screen = "control" => Control!KeepsTab
    /\ screen = "georef" => Georef!EditsMarked
=============================================================================
