--------------------------------- MODULE Pages ---------------------------------
(***************************************************************************)
(* The pages of the client and the hooks they use.  A page shows cached    *)
(* queries, offers mutations and links to pages.  Of the identifiers in a  *)
(* query key only that there is one is kept: one workspace, one trip.      *)
(***************************************************************************)
EXTENDS SequencesExt

-----------------------------------------------------------------------------
(* Query keys.                                                             *)

OfWorkspace(name) == <<"workspaces", "id", name>>
OfTrip(name) == <<"trips", "id", name>>

qk ==
  [workspaces |-> <<"workspaces">>, workspace |-> <<"workspaces", "id">>,
   trips |-> OfWorkspace("trips"), members |-> OfWorkspace("members"),
   trip |-> <<"trips", "id">>, itinerary |-> OfTrip("itinerary"),
   bookings |-> OfTrip("bookings"), tasks |-> OfTrip("tasks"),
   documents |-> OfTrip("documents"), comments |-> OfTrip("comments"),
   proposals |-> OfTrip("proposals"), rules |-> OfTrip("rules"), audit |-> OfTrip("audit"),
   notifications |-> <<"notifications">>, unread |-> <<"notifications", "unread">>]

\* invalidateQueries({queryKey: filter}) concerns every key that it begins.
Concerns(filters, key) == \E f \in filters : IsPrefix(f, key)

-----------------------------------------------------------------------------
(* The mutations of the hooks: the lists that the endpoint changes and the  *)
(* keys that onSuccess invalidates.  The audit log is no such list: its     *)
(* entries are written after the answer, by the outbox.                     *)

Mutation(writes, invalidates) == [writes |-> writes, invalidates |-> invalidates]
Announced(keys) == Mutation(keys, keys)

workspaceHooks ==
  [createWorkspace |-> Announced({qk.workspaces}),
   updateWorkspace |-> Announced({qk.workspace, qk.workspaces}),
   inviteMember |-> Announced({qk.members}),
   updateMemberRole |-> Announced({qk.members}),
   removeMember |-> Announced({qk.members})]

tripHooks == [createTrip |-> Announced({qk.trips})]

itineraryHooks ==
  [createDay |-> Announced({qk.itinerary}), createItem |-> Announced({qk.itinerary})]

bookingHooks == [createBooking |-> Announced({qk.bookings})]

taskHooks ==
  [createTask |-> Announced({qk.tasks}), updateTask |-> Announced({qk.tasks}),
   deleteTask |-> Announced({qk.tasks})]

documentHooks ==
  [uploadDocument |-> Mutation({qk.documents}, {qk.documents, qk.audit}),
   deleteDocument |-> Mutation({qk.documents}, {qk.documents, qk.audit})]

\* The new-proposal page calls addOption without its hook.
collabHooks ==
  [createComment |-> Announced({qk.comments}), createProposal |-> Announced({qk.proposals}),
   addOption |-> Mutation({qk.proposals}, {}), vote |-> Announced({qk.proposals})]

ruleHooks == [upsertRuleSet |-> Announced({qk.rules})]

\* Two functions as one, where both are defined the first.
f ++ g == [x \in DOMAIN f \cup DOMAIN g |-> IF x \in DOMAIN f THEN f[x] ELSE g[x]]

Hooks ==
  workspaceHooks ++ tripHooks ++ itineraryHooks ++ bookingHooks ++ taskHooks ++ documentHooks
    ++ collabHooks ++ ruleHooks

\* Buttons that are not disabled while their mutation is pending.
Undisabled == {"updateMemberRole", "removeMember", "updateTask", "upsertRuleSet"}

-----------------------------------------------------------------------------
(* A page: what it shows; per mutation the page that its success leads to,  *)
(* or "stay"; its links; whether it calls useActiveTrip().                  *)

NoOffers == [op \in {} |-> "stay"]

Page(shows, offers, links, ofTrip) ==
  [shows |-> shows, offers |-> offers, links |-> links, ofTrip |-> ofTrip]

SidebarLinks ==
  {"/", "/workspace", "/itinerary", "/bookings", "/collaboration", "/tasks", "/documents",
   "/settings", "/workspaces", "/trips/new"}

TopbarLinks == {"/itinerary", "/settings"}

\* Around every page.
Layout ==
  Page({qk.workspace, qk.trips, qk.unread}, NoOffers, SidebarLinks \cup TopbarLinks, FALSE)

QuickActions == {"/trips/new", "/bookings/new", "/collaboration", "/documents/new"}

Dashboard ==
  Page({qk.trips, qk.notifications}, NoOffers, {"/workspaces", "/workspace"} \cup QuickActions,
       FALSE)

WorkspacesPage == Page({qk.workspaces}, NoOffers, {"/workspace/new"}, FALSE)

NewWorkspacePage == Page({}, [createWorkspace |-> "/workspace"], {}, FALSE)

MembersTab == [updateMemberRole |-> "stay", removeMember |-> "stay", inviteMember |-> "stay"]

SettingsTab == [updateWorkspace |-> "stay", upsertRuleSet |-> "stay"]

WorkspacePage ==
  Page({qk.workspace, qk.trips, qk.members, qk.rules}, MembersTab ++ SettingsTab,
       {"/workspaces", "/trips/new"}, TRUE)

NewTripPage == Page({}, [createTrip |-> "/workspace"], {}, FALSE)

ItineraryPage == Page({qk.trip, qk.itinerary}, NoOffers, {"/itinerary/new"}, TRUE)

NewItineraryPage ==
  Page({}, [createItem |-> "/itinerary", createDay |-> "/itinerary"], {}, TRUE)

BookingsPage == Page({qk.bookings}, NoOffers, {"/bookings/new"}, TRUE)

NewBookingPage == Page({}, [createBooking |-> "/bookings"], {}, TRUE)

CollaborationPage ==
  Page({qk.comments, qk.proposals, qk.audit, qk.members},
       [createComment |-> "stay", vote |-> "stay"], {"/collaboration/new"}, TRUE)

NewProposalPage == Page({}, [createProposal |-> "/collaboration"], {}, TRUE)

TasksPage ==
  Page({qk.tasks, qk.members},
       [createTask |-> "stay", updateTask |-> "stay", deleteTask |-> "stay"], {}, TRUE)

\* No page links to this one.
NewTaskPage == Page({}, [createTask |-> "/tasks"], {}, TRUE)

DocumentsPage ==
  Page({qk.documents}, [uploadDocument |-> "stay", deleteDocument |-> "stay"],
       {"/documents/new"}, TRUE)

NewDocumentPage == Page({}, [uploadDocument |-> "/documents"], {}, TRUE)

SettingsPage ==
  Page({qk.workspace, qk.members}, [updateWorkspace |-> "stay", removeMember |-> "stay"], {}, FALSE)

Paths ==
  {"/", "/workspaces", "/workspace/new", "/workspace", "/trips/new", "/itinerary",
   "/itinerary/new", "/bookings", "/bookings/new", "/collaboration", "/collaboration/new",
   "/tasks", "/tasks/new", "/documents", "/documents/new", "/settings"}

Pages ==
  [path \in Paths |->
     CASE path = "/" -> Dashboard
       [] path = "/workspaces" -> WorkspacesPage
       [] path = "/workspace/new" -> NewWorkspacePage
       [] path = "/workspace" -> WorkspacePage
       [] path = "/trips/new" -> NewTripPage
       [] path = "/itinerary" -> ItineraryPage
       [] path = "/itinerary/new" -> NewItineraryPage
       [] path = "/bookings" -> BookingsPage
       [] path = "/bookings/new" -> NewBookingPage
       [] path = "/collaboration" -> CollaborationPage
       [] path = "/collaboration/new" -> NewProposalPage
       [] path = "/tasks" -> TasksPage
       [] path = "/tasks/new" -> NewTaskPage
       [] path = "/documents" -> DocumentsPage
       [] path = "/documents/new" -> NewDocumentPage
       [] path = "/settings" -> SettingsPage]

Links(path) == Pages[path].links \cup Layout.links
=============================================================================
