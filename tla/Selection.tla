------------------------------- MODULE Selection -------------------------------
(***************************************************************************)
(* The active workspace and trip of each tab.  Both stores are persisted   *)
(* in localStorage, each under a key of its own: a tab reads them when it  *)
(* is loaded and writes one whenever it sets it; other tabs do not notice. *)
(***************************************************************************)
EXTENDS Pages, FiniteSets

CONSTANTS
  Tabs, Workspaces, Trips,
  OpenPaths,  \* bound: the pages that are opened
  Unset       \* null

ASSUME SelectionAssumption == Unset \notin Workspaces \cup Trips /\ OpenPaths \subseteq Paths

VARIABLES
  founded,  \* the workspaces that exist
  home,     \* the workspace of each trip, Unset while there is no such trip
  path,     \* per tab: its page
  active,   \* per tab: its active workspace and trip
  storage,  \* what localStorage holds
  sent,     \* per tab: the pending creation of a workspace or trip (bound: one)
  late,     \* history: a trip was created for a workspace that its tab has left
  crossed   \* history: a trip was stored beside another tab's workspace

selVars == <<founded, home, path, active, storage, sent, late, crossed>>

Nowhere == [ws |-> Unset, trip |-> Unset]
NotSent == [what |-> "none", ws |-> Unset]

SelectionInit ==
  /\ founded \in SUBSET Workspaces
  /\ home \in [Trips -> founded \cup {Unset}]
  /\ path = [t \in Tabs |-> "/workspaces"]
  /\ active = [t \in Tabs |-> Nowhere]
  /\ storage = Nowhere
  /\ sent = [t \in Tabs |-> NotSent]
  /\ late = FALSE /\ crossed = FALSE

-----------------------------------------------------------------------------
\* A reload: requests of the old page are lost to the tab.
Load(t, p) ==
  /\ path' = [path EXCEPT ![t] = p]
  /\ active' = [active EXCEPT ![t] = storage]
  /\ sent' = [sent EXCEPT ![t] = NotSent]
  /\ UNCHANGED <<founded, home, storage, late, crossed>>

FollowLink(t, p) ==
  /\ p \in Links(path[t]) \ {path[t]}
  /\ path' = [path EXCEPT ![t] = p]
  /\ UNCHANGED <<founded, home, active, storage, sent, late, crossed>>

\* Mutant: the trip stays selected.
SetActiveWorkspaceOnly(t, w) ==
  /\ active' = [active EXCEPT ![t].ws = w]
  /\ storage' = [storage EXCEPT !.ws = w]
  /\ UNCHANGED crossed

setActiveWorkspace(t, w) ==
  /\ active' = [active EXCEPT ![t] = [ws |-> w, trip |-> Unset]]
  /\ storage' = [ws |-> w, trip |-> Unset]
  /\ UNCHANGED crossed

setActiveTrip(t, x) ==
  /\ active' = [active EXCEPT ![t].trip = x]
  /\ storage' = [storage EXCEPT !.trip = x]
  /\ crossed' = (crossed \/ storage.ws # active[t].ws)

\* What useTrips() lists in a tab.
TripsOf(t) == {x \in Trips : home[x] # Unset /\ home[x] = active[t].ws}

\* handleSelect() of /workspaces.
SelectWorkspace(t, w) ==
  /\ path[t] = "/workspaces" /\ w \in founded
  /\ setActiveWorkspace(t, w)
  /\ path' = [path EXCEPT ![t] = "/"]
  /\ UNCHANGED <<founded, home, sent, late>>

\* handleTripClick() of / and /workspace; the search of the top bar, on any page.
SelectTrip(t, x) ==
  /\ x \in TripsOf(t)
  /\ setActiveTrip(t, x)
  /\ path' \in {[path EXCEPT ![t] = p] :
                  p \in {"/itinerary"} \cup (IF path[t] = "/" THEN {"/workspace"} ELSE {})}
  /\ UNCHANGED <<founded, home, sent, late>>

\* useActiveTrip(): the first trip of the list.
AutoSelect(t) ==
  /\ Pages[path[t]].ofTrip /\ active[t].trip = Unset
  /\ \E x \in TripsOf(t) : setActiveTrip(t, x)
  /\ UNCHANGED <<founded, home, path, sent, late>>

CreateWorkspace(t) ==
  /\ path[t] = "/workspace/new" /\ sent[t] = NotSent
  /\ sent' = [sent EXCEPT ![t] = [what |-> "workspace", ws |-> Unset]]
  /\ UNCHANGED <<founded, home, path, active, storage, late, crossed>>

\* The form refuses without a workspace.
CreateTrip(t) ==
  /\ path[t] = "/trips/new" /\ sent[t] = NotSent /\ active[t].ws # Unset
  /\ sent' = [sent EXCEPT ![t] = [what |-> "trip", ws |-> active[t].ws]]
  /\ UNCHANGED <<founded, home, path, active, storage, late, crossed>>

\* An answer leads to /workspace if the form is still open.
Proceed(t, form) ==
  /\ path' = IF path[t] = form THEN [path EXCEPT ![t] = "/workspace"] ELSE path
  /\ sent' = [sent EXCEPT ![t] = NotSent]

WorkspaceCreated(t, w) ==
  /\ sent[t].what = "workspace" /\ w \notin founded
  /\ founded' = founded \cup {w}
  /\ setActiveWorkspace(t, w)
  /\ Proceed(t, "/workspace/new")
  /\ UNCHANGED <<home, late>>

\* onSuccess selects the trip, wherever the tab is by then.
TripCreated(t, x) ==
  /\ sent[t].what = "trip" /\ home[x] = Unset
  /\ home' = [home EXCEPT ![x] = sent[t].ws]
  /\ setActiveTrip(t, x)
  /\ Proceed(t, "/trips/new")
  /\ late' = (late \/ sent[t].ws # active[t].ws)
  /\ UNCHANGED founded

\* An error, after which the form may be sent again.
CreationFails(t) ==
  /\ sent[t] # NotSent
  /\ sent' = [sent EXCEPT ![t] = NotSent]
  /\ UNCHANGED <<founded, home, path, active, storage, late, crossed>>

SelectionNext ==
  \E t \in Tabs :
    \/ \E p \in OpenPaths : Load(t, p) \/ FollowLink(t, p)
    \/ \E w \in Workspaces : SelectWorkspace(t, w) \/ WorkspaceCreated(t, w)
    \/ \E x \in Trips : SelectTrip(t, x) \/ TripCreated(t, x)
    \/ AutoSelect(t) \/ CreateWorkspace(t) \/ CreateTrip(t) \/ CreationFails(t)

\* The tabs alone; TripApp composes them with the other parts.
SelectionSpec == SelectionInit /\ [][SelectionNext]_selVars

-----------------------------------------------------------------------------
SelectionTypeOK ==
  /\ founded \subseteq Workspaces
  /\ home \in [Trips -> founded \cup {Unset}]
  /\ path \in [Tabs -> Paths]
  /\ active \in [Tabs -> [ws : founded \cup {Unset}, trip : Trips \cup {Unset}]]
  /\ storage \in [ws : founded \cup {Unset}, trip : Trips \cup {Unset}]

(* "Clear trip so subpages don't show stale data from previous workspace":  *)
(* the active trip is one of the active workspace, however tabs are loaded, *)
(* switched and left, except after one of two races: the answer to a        *)
(* creation arrives when the tab has left the workspace, or a tab selects a *)
(* trip while another tab's workspace is the stored one.                    *)
ActiveTripInWorkspace ==
  ~late /\ ~crossed =>
    \A t \in Tabs : active[t].trip # Unset => home[active[t].trip] = active[t].ws
=============================================================================
