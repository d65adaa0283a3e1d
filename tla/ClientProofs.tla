---------------------------- MODULE ClientProofs ----------------------------
(***************************************************************************)
(* Proofs about the client: which trip is active, for any number of tabs,  *)
(* workspaces and trips, and what the query cache shows after a mutation,  *)
(* for any watched list and any number of pending mutations.               *)
(***************************************************************************)
EXTENDS QueryCache, Selection, TLAPS

(* What a tab or localStorage holds is a workspace and a trip of it.  The   *)
(* workspace is there: a trip that does not exist yet has no home either.   *)
Fits(selection) ==
  selection.trip # Unset => selection.ws # Unset /\ home[selection.trip] = selection.ws

Selected == [ws : founded \cup {Unset}, trip : Trips \cup {Unset}]
Creation == [what : {"none", "workspace", "trip"}, ws : founded \cup {Unset}]

SelectionTypes ==
  /\ founded \subseteq Workspaces
  /\ home \in [Trips -> founded \cup {Unset}]
  /\ active \in [Tabs -> Selected]
  /\ storage \in Selected
  /\ sent \in [Tabs -> Creation]
  /\ late \in BOOLEAN /\ crossed \in BOOLEAN

(* A pending creation of a trip is for a workspace, and until one of the    *)
(* two races has happened everything that is selected fits, in the tabs and *)
(* in localStorage, from which a tab may be loaded at any time.             *)
SelectionInv ==
  /\ SelectionTypes
  /\ \A t \in Tabs : sent[t].what = "trip" => sent[t].ws # Unset
  /\ ~late /\ ~crossed => Fits(storage) /\ \A t \in Tabs : Fits(active[t])

-----------------------------------------------------------------------------
(* setActiveWorkspace() leaves no trip selected.                            *)
LEMMA WorkspaceSelected ==
  ASSUME NEW t \in Tabs, NEW w \in founded', SelectionInv, founded \subseteq founded',
         UNCHANGED home, setActiveWorkspace(t, w), late' = late
  PROVE  /\ active' \in [Tabs -> Selected'] /\ storage' \in Selected'
         /\ ~late' /\ ~crossed' => Fits(storage)' /\ \A u \in Tabs : Fits(active[u])'
<1>1. active' \in [Tabs -> Selected'] /\ storage' \in Selected'
  BY DEF SelectionInv, SelectionTypes, Selected, setActiveWorkspace
<1>2. Fits(storage)' /\ Fits(active[t])'
  BY DEF Fits, SelectionInv, SelectionTypes, setActiveWorkspace
<1>3. ASSUME NEW u \in Tabs, u # t, ~late', ~crossed' PROVE Fits(active[u])'
  BY <1>3 DEF Fits, SelectionInv, SelectionTypes, setActiveWorkspace
<1>. QED  BY <1>1, <1>2, <1>3

(* setActiveTrip() selects a trip of the tab's workspace, which is also the *)
(* stored one unless that is the race crossed.                              *)
LEMMA TripSelected ==
  ASSUME NEW t \in Tabs, NEW x \in Trips, SelectionInv, founded' = founded,
         \A y \in Trips : home[y] # Unset => home'[y] = home[y],
         setActiveTrip(t, x), late => late',
         ~late' => active[t].ws # Unset /\ home'[x] = active[t].ws
  PROVE  /\ active' \in [Tabs -> Selected'] /\ storage' \in Selected'
         /\ ~late' /\ ~crossed' => Fits(storage)' /\ \A u \in Tabs : Fits(active[u])'
<1>1. active' \in [Tabs -> Selected'] /\ storage' \in Selected'
  BY DEF SelectionInv, SelectionTypes, Selected, setActiveTrip
<1>. SUFFICES ASSUME ~late', ~crossed'
              PROVE  Fits(storage)' /\ \A u \in Tabs : Fits(active[u])'
  BY <1>1
<1>2. ~late /\ ~crossed /\ storage.ws = active[t].ws
  BY DEF SelectionInv, SelectionTypes, setActiveTrip
<1>3. Fits(storage)' /\ Fits(active[t])'
  BY <1>2 DEF Fits, SelectionInv, SelectionTypes, Selected, setActiveTrip
<1>4. ASSUME NEW u \in Tabs, u # t PROVE Fits(active[u])'
  <2>1. active'[u] = active[u] /\ active[u] \in Selected /\ Fits(active[u])
    BY <1>2, <1>4 DEF SelectionInv, SelectionTypes, setActiveTrip
  <2>. QED  BY <2>1 DEF Fits, Selected
<1>. QED  BY <1>3, <1>4

(* Steps that select nothing.                                               *)
LEMMA NothingSelected ==
  ASSUME SelectionInv, UNCHANGED <<founded, home, active, storage, late, crossed>>,
         sent' \in [Tabs -> Creation],
         \A t \in Tabs : sent'[t].what = "trip" => sent'[t].ws # Unset
  PROVE  SelectionInv'
BY DEF SelectionInv, SelectionTypes, Selected, Creation, Fits

LEMMA SelectionInitially == SelectionInit => SelectionInv
<1>. SUFFICES ASSUME SelectionInit PROVE SelectionInv
  OBVIOUS
<1>1. Nowhere \in Selected /\ NotSent \in Creation
  BY DEF Nowhere, NotSent, Selected, Creation
<1>2. SelectionTypes
  BY <1>1 DEF SelectionInit, SelectionTypes
<1>3. \A t \in Tabs : sent[t].what # "trip"
  BY DEF SelectionInit, NotSent
<1>4. Fits(storage) /\ \A t \in Tabs : Fits(active[t])
  BY DEF SelectionInit, Nowhere, Fits
<1>. QED  BY <1>2, <1>3, <1>4 DEF SelectionInv

(* Answers and reloads leave no creation pending in their tab.              *)
LEMMA NotSentAny ==
  ASSUME NEW t \in Tabs, SelectionInv, founded \subseteq founded',
         sent' = [sent EXCEPT ![t] = NotSent]
  PROVE  /\ sent' \in [Tabs -> Creation']
         /\ \A u \in Tabs : sent'[u].what = "trip" => sent'[u].ws # Unset
BY DEF SelectionInv, SelectionTypes, Creation, NotSent

LEMMA SelectionStep == SelectionInv /\ [SelectionNext]_selVars => SelectionInv'
<1>. SUFFICES ASSUME SelectionInv, [SelectionNext]_selVars PROVE SelectionInv'
  OBVIOUS
<1>1. ASSUME NEW t \in Tabs, NEW p \in OpenPaths, Load(t, p) PROVE SelectionInv'
  <2>1. /\ sent' \in [Tabs -> Creation']
        /\ \A u \in Tabs : sent'[u].what = "trip" => sent'[u].ws # Unset
    BY <1>1, NotSentAny DEF Load
  <2>2. SelectionTypes'
    BY <1>1, <2>1 DEF Load, SelectionInv, SelectionTypes, Selected
  <2>3. ~late' /\ ~crossed' => Fits(storage)' /\ \A u \in Tabs : Fits(active[u])'
    BY <1>1 DEF Load, SelectionInv, SelectionTypes, Fits
  <2>. QED  BY <2>1, <2>2, <2>3 DEF SelectionInv
<1>2. ASSUME NEW t \in Tabs, NEW p \in OpenPaths, FollowLink(t, p) PROVE SelectionInv'
  BY <1>2, NothingSelected DEF FollowLink, SelectionInv, SelectionTypes
<1>3. ASSUME NEW t \in Tabs, NEW w \in Workspaces, SelectWorkspace(t, w) PROVE SelectionInv'
  <2>1. setActiveWorkspace(t, w) /\ w \in founded' /\ UNCHANGED <<founded, home, sent, late>>
    BY <1>3 DEF SelectWorkspace
  <2>2. crossed' = crossed
    BY <2>1 DEF setActiveWorkspace
  <2>. QED  BY <2>1, <2>2, WorkspaceSelected DEF SelectionInv, SelectionTypes, Creation
<1>4. ASSUME NEW t \in Tabs, NEW w \in Workspaces, WorkspaceCreated(t, w) PROVE SelectionInv'
  <2>1. /\ setActiveWorkspace(t, w) /\ founded' = founded \cup {w}
        /\ sent' = [sent EXCEPT ![t] = NotSent] /\ UNCHANGED <<home, late>>
    BY <1>4 DEF WorkspaceCreated, Proceed
  <2>2. crossed' = crossed
    BY <2>1 DEF setActiveWorkspace
  <2>3. /\ active' \in [Tabs -> Selected'] /\ storage' \in Selected'
        /\ ~late' /\ ~crossed' => Fits(storage)' /\ \A u \in Tabs : Fits(active[u])'
    BY <2>1, WorkspaceSelected
  <2>4. /\ sent' \in [Tabs -> Creation']
        /\ \A u \in Tabs : sent'[u].what = "trip" => sent'[u].ws # Unset
    BY <2>1, NotSentAny
  <2>. QED  BY <2>1, <2>2, <2>3, <2>4 DEF SelectionInv, SelectionTypes
<1>5. ASSUME NEW t \in Tabs, NEW x \in Trips, SelectTrip(t, x) PROVE SelectionInv'
  <2>1. /\ setActiveTrip(t, x) /\ UNCHANGED <<founded, home, sent, late>>
        /\ home[x] # Unset /\ home[x] = active[t].ws
    BY <1>5 DEF SelectTrip, TripsOf
  <2>2. crossed' \in BOOLEAN
    BY <2>1 DEF setActiveTrip, SelectionInv, SelectionTypes
  <2>. QED  BY <2>1, <2>2, TripSelected DEF SelectionInv, SelectionTypes, Creation
<1>6. ASSUME NEW t \in Tabs, AutoSelect(t) PROVE SelectionInv'
  <2>1. PICK x \in TripsOf(t) : setActiveTrip(t, x)
    BY <1>6 DEF AutoSelect
  <2>2. /\ x \in Trips /\ home[x] # Unset /\ home[x] = active[t].ws
        /\ UNCHANGED <<founded, home, sent, late>>
    BY <1>6 DEF AutoSelect, TripsOf
  <2>3. crossed' \in BOOLEAN
    BY <2>1 DEF setActiveTrip, SelectionInv, SelectionTypes
  <2>. QED  BY <2>1, <2>2, <2>3, TripSelected DEF SelectionInv, SelectionTypes, Creation
<1>7. ASSUME NEW t \in Tabs, NEW x \in Trips, TripCreated(t, x) PROVE SelectionInv'
  <2>1. /\ setActiveTrip(t, x) /\ home' = [home EXCEPT ![x] = sent[t].ws] /\ home[x] = Unset
        /\ late' = (late \/ sent[t].ws # active[t].ws) /\ founded' = founded
        /\ sent' = [sent EXCEPT ![t] = NotSent] /\ sent[t].what = "trip"
    BY <1>7 DEF TripCreated, Proceed
  <2>2. sent[t].ws # Unset /\ sent[t].ws \in founded
    BY <2>1 DEF SelectionInv, SelectionTypes, Creation
  <2>3. /\ home' \in [Trips -> founded' \cup {Unset}] /\ home'[x] = sent[t].ws
        /\ \A y \in Trips : home[y] # Unset => home'[y] = home[y]
        /\ late' \in BOOLEAN /\ crossed' \in BOOLEAN
    BY <2>1, <2>2 DEF setActiveTrip, SelectionInv, SelectionTypes
  <2>4. /\ active' \in [Tabs -> Selected'] /\ storage' \in Selected'
        /\ ~late' /\ ~crossed' => Fits(storage)' /\ \A u \in Tabs : Fits(active[u])'
    BY <2>1, <2>2, <2>3, TripSelected
  <2>5. /\ sent' \in [Tabs -> Creation']
        /\ \A u \in Tabs : sent'[u].what = "trip" => sent'[u].ws # Unset
    BY <2>1, NotSentAny
  <2>. QED  BY <2>1, <2>3, <2>4, <2>5 DEF SelectionInv, SelectionTypes
<1>8. ASSUME NEW t \in Tabs, CreateWorkspace(t) PROVE SelectionInv'
  BY <1>8, NothingSelected DEF CreateWorkspace, SelectionInv, SelectionTypes, Creation
<1>9. ASSUME NEW t \in Tabs, CreateTrip(t) PROVE SelectionInv'
  <2>1. active[t].ws \in founded
    BY <1>9 DEF CreateTrip, SelectionInv, SelectionTypes, Selected
  <2>. QED  BY <1>9, <2>1, NothingSelected DEF CreateTrip, SelectionInv, SelectionTypes, Creation
<1>10. ASSUME NEW t \in Tabs, CreationFails(t) PROVE SelectionInv'
  BY <1>10, NothingSelected, NotSentAny DEF CreationFails, SelectionInv, SelectionTypes, Creation
<1>11. CASE UNCHANGED selVars
  BY <1>11 DEF selVars, SelectionInv, SelectionTypes, Selected, Creation, Fits
<1>. QED
  BY <1>1, <1>2, <1>3, <1>4, <1>5, <1>6, <1>7, <1>8, <1>9, <1>10, <1>11 DEF SelectionNext

LEMMA FitsIsHome == SelectionInv => ActiveTripInWorkspace
BY DEF SelectionInv, Fits, ActiveTripInWorkspace

LEMMA PathStep ==
  ASSUME path \in [Tabs -> Paths], SelectionNext PROVE path' \in [Tabs -> Paths]
<1>1. {"/", "/workspace", "/itinerary"} \subseteq Paths /\ OpenPaths \subseteq Paths
  BY SelectionAssumption DEF Paths
<1>. QED
  BY <1>1 DEF SelectionNext, Load, FollowLink, SelectWorkspace, WorkspaceCreated, SelectTrip,
              TripCreated, AutoSelect, CreateWorkspace, CreateTrip, CreationFails, Proceed

LEMMA SelectionInvTypes == SelectionInv /\ path \in [Tabs -> Paths] => SelectionTypeOK
BY DEF SelectionInv, SelectionTypes, SelectionTypeOK, Selected

-----------------------------------------------------------------------------
(* However many tabs are opened, switched and reloaded, each shows a trip   *)
(* of its own workspace until one of the two races named in the property    *)
(* has happened (setActiveWorkspace clears the trip of the old workspace).  *)
THEOREM ActiveTripInWorkspaceHolds == SelectionSpec => []ActiveTripInWorkspace
<1>. QED  BY SelectionInitially, SelectionStep, FitsIsHome, PTL DEF SelectionSpec

-----------------------------------------------------------------------------
(* The hooks: each announces what it writes, but for addOption, which is    *)
(* called without its hook.                                                 *)
Announces(hooks) ==
  \A op \in DOMAIN hooks \ {"addOption"} : hooks[op].writes \subseteq hooks[op].invalidates

LEMMA BothAnnounce ==
  ASSUME NEW f, NEW g, Announces(f), Announces(g) PROVE Announces(f ++ g)
BY DEF Announces, ++

LEMMA HooksAnnounce == Announces(Hooks)
<1>1. Announces(workspaceHooks)
  BY DEF Announces, workspaceHooks, Announced, Mutation
<1>2. Announces(tripHooks) /\ Announces(itineraryHooks) /\ Announces(bookingHooks)
  BY DEF Announces, tripHooks, itineraryHooks, bookingHooks, Announced, Mutation
<1>3. Announces(taskHooks) /\ Announces(ruleHooks)
  BY DEF Announces, taskHooks, ruleHooks, Announced, Mutation
<1>4. Announces(documentHooks)
  BY DEF Announces, documentHooks, Mutation
<1>5. Announces(collabHooks)
  BY DEF Announces, collabHooks, Announced, Mutation
<1>. QED  BY <1>1, <1>2, <1>3, <1>4, <1>5, BothAnnounce DEF Hooks

Named(hooks, op) == op \in DOMAIN hooks

LEMMA BothNamed ==
  ASSUME NEW f, NEW g, NEW op PROVE Named(f ++ g, op) <=> Named(f, op) \/ Named(g, op)
BY DEF Named, ++

LEMMA HookNames == {"addOption", "createProposal"} \subseteq DOMAIN Hooks /\ "none" \notin DOMAIN Hooks
<1>1. Named(collabHooks, "addOption") /\ Named(collabHooks, "createProposal")
  BY DEF Named, collabHooks
<1>2. /\ ~Named(workspaceHooks, "none") /\ ~Named(tripHooks, "none")
      /\ ~Named(itineraryHooks, "none") /\ ~Named(bookingHooks, "none")
      /\ ~Named(taskHooks, "none") /\ ~Named(documentHooks, "none")
      /\ ~Named(collabHooks, "none") /\ ~Named(ruleHooks, "none")
  BY DEF Named, workspaceHooks, tripHooks, itineraryHooks, bookingHooks, taskHooks,
         documentHooks, collabHooks, ruleHooks
<1>3. /\ Named(Hooks, "addOption") /\ Named(Hooks, "createProposal")
      /\ ~Named(Hooks, "none")
  BY <1>1, <1>2, BothNamed DEF Hooks
<1>. QED  BY <1>3 DEF Named

LEMMA WritesInvalidate ==
  ASSUME watched \in WatchedKeys, NEW op \in DOMAIN Hooks \ {"addOption"}, Writes(op)
  PROVE  Invalidates(op)
<1>1. watched \in Hooks[op].invalidates
  BY HooksAnnounce DEF Announces, Writes
<1>2. IsPrefix(watched, watched)
  BY QueryCacheAssumption DEF IsPrefix
<1>. QED  BY <1>1, <1>2 DEF Invalidates, Concerns

(* Where a mutation leads to is a page, and so is where a link does.        *)
LEMMA OffersLead ==
  \A p \in Paths : \A op \in DOMAIN Pages[p].offers : Pages[p].offers[op] \in Paths \cup {"stay"}
<1>. DEFINE Leads(f) == \A op \in DOMAIN f.offers : f.offers[op] \in Paths \cup {"stay"}
<1>1. Leads(Dashboard) /\ Leads(WorkspacesPage) /\ Leads(ItineraryPage) /\ Leads(BookingsPage)
  BY DEF Dashboard, WorkspacesPage, ItineraryPage, BookingsPage, Page, NoOffers
<1>2. Leads(NewWorkspacePage) /\ Leads(NewTripPage) /\ Leads(NewItineraryPage)
  BY DEF NewWorkspacePage, NewTripPage, NewItineraryPage, Page, Paths
<1>3. Leads(NewBookingPage) /\ Leads(NewProposalPage) /\ Leads(NewTaskPage) /\ Leads(NewDocumentPage)
  BY DEF NewBookingPage, NewProposalPage, NewTaskPage, NewDocumentPage, Page, Paths
<1>4. Leads(WorkspacePage)
  BY DEF WorkspacePage, Page, MembersTab, SettingsTab, ++
<1>5. Leads(CollaborationPage) /\ Leads(TasksPage) /\ Leads(DocumentsPage) /\ Leads(SettingsPage)
  BY DEF CollaborationPage, TasksPage, DocumentsPage, SettingsPage, Page
<1>6. \A p \in Paths : Leads(Pages[p])
  <2>. HIDE DEF Leads
  <2>. QED  BY <1>1, <1>2, <1>3, <1>4, <1>5 DEF Pages, Paths
<1>. QED  BY <1>6

-----------------------------------------------------------------------------
(* The query cache.  A read answer has all the writes that were answered,   *)
(* but for the two exceptions; so has data that is not marked.              *)
FetchRecord == [step : {"none", "asked", "read"}, version : Nat]
QueryRecord == [data : Nat, invalid : BOOLEAN, fetch : FetchRecord, failed : BOOLEAN]
MutationRecord ==
  [op : DOMAIN Hooks \cup {"none"}, done : BOOLEAN, here : BOOLEAN, version : Nat]

Sensible(q) ==
  /\ q \in QueryRecord /\ q.data <= server /\ q.fetch.version <= server
  /\ q.fetch.step = "read" => q.fetch.version >= 1

Current(q) ==
  ~(overtaken \/ unhooked) =>
    /\ q.data # 0 /\ ~q.invalid => q.data >= settled
    /\ q.fetch.step = "read" => q.fetch.version >= settled

Served(q, at) ==
  Mounted(at) /\ (q.data = 0 \/ q.invalid) => q.fetch # NoFetch \/ q.failed

Begun(m) ==
  /\ m \in MutationRecord /\ m.version <= server
  /\ m.op = "none" => m = NoMutation

MayLead(m, at) ==
  m.here => m.op = "addOption" \/ m.op \in DOMAIN Pages[at].offers

CacheInv ==
  /\ watched \in WatchedKeys /\ page \in Paths
  /\ server \in 1..MaxVersion /\ settled \in 0..server
  /\ overtaken \in BOOLEAN /\ unhooked \in BOOLEAN
  /\ Sensible(query) /\ Current(query) /\ Served(query, page)
  /\ pending \in [Slots -> MutationRecord]
  /\ \A s \in Slots : Begun(pending[s]) /\ MayLead(pending[s], page)

LEMMA CacheInvTypes == CacheInv => CacheTypeOK
BY DEF CacheInv, CacheTypeOK, Sensible, QueryRecord, FetchRecord, MutationRecord

LEMMA CacheInvShows == CacheInv => OwnWritesShown
BY DEF CacheInv, OwnWritesShown, Current, Served

LEMMA NoMutationBegun == server \in Nat => Begun(NoMutation) /\ NoMutation \in MutationRecord
BY DEF Begun, NoMutation, MutationRecord

(* A query that is fetched from the start.                                  *)
LEMMA FetchingServes ==
  ASSUME server \in Nat, NEW q, Sensible(q), Current(q)
  PROVE  /\ Sensible(Fetching(q)) /\ Current(Fetching(q)) /\ \A at : Served(Fetching(q), at)
         /\ Fetching(q).data = q.data /\ Fetching(q).invalid = q.invalid
         /\ Fetching(q).fetch = Asked
<1>. DEFINE f == Fetching(q)
<1>1. /\ f \in QueryRecord /\ f.data = q.data /\ f.invalid = q.invalid /\ f.fetch = Asked
  BY DEF Sensible, QueryRecord, FetchRecord, Fetching, Asked
<1>2. Asked.step = "asked" /\ Asked.version = 0 /\ Asked # NoFetch
  BY DEF Asked, NoFetch
<1>. HIDE DEF f
<1>3. Sensible(f)
  <2>1. q.fetch.version \in Nat /\ q.fetch.version <= server
    BY DEF Sensible, QueryRecord, FetchRecord
  <2>. QED  BY <1>1, <1>2, <2>1 DEF Sensible
<1>. QED  BY <1>1, <1>2, <1>3 DEF Current, Served, f

(* What invalidateQueries leaves of a query that was current.               *)
LEMMA InvalidatedQuery ==
  ASSUME server \in Nat, NEW q, Sensible(q), Current(q), Served(q, page)
  PROVE  LET i == Invalidated(q) IN
         /\ Sensible(i) /\ Current(i) /\ Served(i, page) /\ i.invalid /\ i.data = q.data
         /\ i.fetch.step = "read" => i.fetch = q.fetch /\ (~Mounted(page) \/ q.data = 0)
<1>. DEFINE i == Invalidated(q)
<1>1. CASE Mounted(page) /\ (q.data # 0 \/ q.fetch = NoFetch)
  <2>. DEFINE f == Fetching(q)
  <2>1. Sensible(f) /\ f.data = q.data /\ f.fetch = Asked
    BY FetchingServes
  <2>. HIDE DEF f
  <2>2. i = [f EXCEPT !.invalid = TRUE]
    BY <1>1 DEF Invalidated, f
  <2>3. /\ i \in QueryRecord /\ i.data = f.data /\ i.fetch = f.fetch /\ i.invalid
    BY <2>1, <2>2 DEF Sensible, QueryRecord
  <2>4. Asked # NoFetch /\ Asked.step = "asked"
    BY DEF Asked, NoFetch
  <2>. HIDE DEF i
  <2>. QED  BY <2>1, <2>3, <2>4 DEF Sensible, Current, Served, i
<1>2. CASE ~(Mounted(page) /\ (q.data # 0 \/ q.fetch = NoFetch))
  <2>2. i = [q EXCEPT !.invalid = TRUE]
    BY <1>2 DEF Invalidated
  <2>3. /\ i \in QueryRecord /\ i.data = q.data /\ i.fetch = q.fetch /\ i.invalid
        /\ i.failed = q.failed
    BY <2>2 DEF Sensible, QueryRecord
  <2>. HIDE DEF i
  <2>. QED  BY <1>2, <2>3 DEF Sensible, Current, Served, i
<1>. QED  BY <1>1, <1>2

(* The query after the success of a mutation, and what then counts as       *)
(* answered and as an exception.                                            *)
LEMMA SettledQuery ==
  ASSUME CacheInv, NEW s \in Slots, pending[s].done, Settle(pending[s])
  PROVE  LET q == AfterSuccess(pending[s]) IN
         /\ settled' \in 0..server /\ overtaken' \in BOOLEAN /\ unhooked' \in BOOLEAN
         /\ Sensible(q) /\ Served(q, page)
         /\ ~(overtaken' \/ unhooked') =>
                 /\ q.data # 0 /\ ~q.invalid => q.data >= settled'
                 /\ q.fetch.step = "read" => q.fetch.version >= settled'
<1>. DEFINE m == pending[s]
            q == AfterSuccess(m)
<1>1. /\ m \in MutationRecord /\ m.version \in 0..server /\ m.op \in DOMAIN Hooks
      /\ server \in Nat /\ settled \in 0..server
  BY QueryCacheAssumption DEF CacheInv, Begun, MutationRecord, NoMutation
<1>2. settled' \in 0..server
  BY <1>1 DEF Settle
<1>3. overtaken' \in BOOLEAN /\ unhooked' \in BOOLEAN
  BY DEF Settle, CacheInv
<1>4. Sensible(query) /\ Current(query) /\ Served(query, page)
  BY DEF CacheInv
<1>5. Sensible(q) /\ Served(q, page)
  <2>1. CASE Invalidates(m.op)
    BY <1>1, <1>4, <2>1, InvalidatedQuery DEF AfterSuccess
  <2>2. CASE ~Invalidates(m.op)
    BY <1>4, <2>2 DEF AfterSuccess
  <2>. QED  BY <2>1, <2>2
<1>6. ASSUME ~(overtaken' \/ unhooked') PROVE q.data # 0 /\ ~q.invalid => q.data >= settled'
  <2>1. CASE Invalidates(m.op)
    BY <1>1, <1>4, <2>1, InvalidatedQuery DEF AfterSuccess
  <2>2. CASE ~Invalidates(m.op)
    <3>1. q = query /\ ~(overtaken \/ unhooked)
      BY <1>6, <2>2 DEF AfterSuccess, Settle
    <3>2. CASE m.op = "addOption"
      <4>1. q.invalid
        BY <1>6, <3>2 DEF Settle
      <4>. QED  BY <4>1
    <3>3. CASE m.op # "addOption"
      <4>1. ~Writes(m.op)
        BY <1>1, <2>2, <3>3, WritesInvalidate DEF CacheInv
      <4>2. settled' = settled
        BY <4>1 DEF Settle
      <4>. QED  BY <1>4, <3>1, <4>2 DEF Current
    <3>. QED  BY <3>2, <3>3
  <2>. QED  BY <2>1, <2>2
<1>7. ASSUME ~(overtaken' \/ unhooked'), q.fetch.step = "read" PROVE q.fetch.version >= settled'
  <2>1. q.fetch.version \in Nat /\ settled' \in Nat
    BY <1>1, <1>2, <1>5 DEF Sensible, QueryRecord, FetchRecord
  <2>2. CASE Invalidates(m.op) /\ q.fetch.version < settled'
    <3>1. Mounted(page) /\ q.data # 0
      BY <1>7, <2>2 DEF Settle
    <3>2. q = Invalidated(query) /\ q.data = query.data
      BY <1>1, <1>4, <2>2, InvalidatedQuery DEF AfterSuccess
    <3>. QED  BY <1>1, <1>4, <1>7, <2>2, <3>1, <3>2, InvalidatedQuery
  <2>3. CASE ~Invalidates(m.op)
    <3>1. q = query /\ ~(overtaken \/ unhooked)
      BY <1>7, <2>3 DEF AfterSuccess, Settle
    <3>2. CASE m.op = "addOption"
      <4>1. ~(q.fetch.version < settled')
        BY <1>7, <3>2 DEF Settle
      <4>. HIDE DEF q
      <4>. QED  BY <2>1, <4>1
    <3>3. CASE m.op # "addOption"
      <4>1. ~Writes(m.op)
        BY <1>1, <2>3, <3>3, WritesInvalidate DEF CacheInv
      <4>2. settled' = settled
        BY <4>1 DEF Settle
      <4>. QED  BY <1>4, <1>7, <3>1, <4>2 DEF Current
    <3>. QED  BY <3>2, <3>3
  <2>. HIDE DEF q
  <2>. QED  BY <2>1, <2>2, <2>3
<1>. QED  BY <1>2, <1>3, <1>5, <1>6, <1>7

(* The component that began a mutation is gone, the mutation goes on.       *)
LEMMA LeftBehind ==
  ASSUME NEW m \in MutationRecord, NEW l, l = [m EXCEPT !.here = FALSE]
  PROVE  /\ l \in MutationRecord /\ ~l.here
         /\ l.op = m.op /\ l.done = m.done /\ l.version = m.version
         /\ m = NoMutation => l = NoMutation
<1>1. /\ l \in MutationRecord /\ ~l.here
      /\ l.op = m.op /\ l.done = m.done /\ l.version = m.version
  BY DEF MutationRecord
<1>2. l = [op |-> l.op, done |-> l.done, here |-> l.here, version |-> l.version]
  BY <1>1 DEF MutationRecord
<1>3. m = NoMutation => l.op = "none" /\ ~l.done /\ l.version = 0
  BY <1>1 DEF NoMutation
<1>4. l.done \in BOOLEAN /\ l.here \in BOOLEAN
  BY <1>1 DEF MutationRecord
<1>. QED  BY <1>1, <1>2, <1>3, <1>4 DEF NoMutation

(* Going to a page with a query and mutations in some state.                *)
LEMMA GoesTo ==
  ASSUME NEW to \in Paths, NEW q, NEW slots, CacheInv, Go(to, q, slots),
         watched' = watched, server' = server, settled' \in 0..server,
         overtaken' \in BOOLEAN, unhooked' \in BOOLEAN,
         Sensible(q), Served(q, page),
         ~(overtaken' \/ unhooked') =>
           /\ q.data # 0 /\ ~q.invalid => q.data >= settled'
           /\ q.fetch.step = "read" => q.fetch.version >= settled',
         slots \in [Slots -> MutationRecord],
         \A s \in Slots : Begun(slots[s]) /\ MayLead(slots[s], page)
  PROVE  CacheInv'
<1>1. page' = to /\ server \in Nat
  BY QueryCacheAssumption DEF Go, CacheInv
<1>2. CASE to = page
  <2>1. query' = q /\ pending' = slots /\ page' = page
    BY <1>2 DEF Go
  <2>2. Sensible(q)' /\ Served(q, page)' /\ Current(q)'
    BY <2>1 DEF Sensible, Served, Mounted, Current
  <2>3. \A s \in Slots : Begun(slots[s])' /\ MayLead(slots[s], page)'
    BY <2>1 DEF Begun, MayLead
  <2>. QED  BY <1>1, <2>1, <2>2, <2>3 DEF CacheInv
<1>3. CASE to # page
  <2>1. query' \in Opened(to, q) /\ pending' = Leave(slots)
    BY <1>3 DEF Go
  <2>2. pending' \in [Slots -> MutationRecord] /\ \A s \in Slots : Begun(pending[s])' /\ ~pending'[s].here
    <3>1. ASSUME NEW s \in Slots
          PROVE  /\ pending'[s] = [slots[s] EXCEPT !.here = FALSE]
                 /\ pending'[s] \in MutationRecord /\ ~pending'[s].here
      BY <2>1, LeftBehind DEF Leave
    <3>2. ASSUME NEW s \in Slots PROVE Begun(pending[s])'
      <4>1. /\ pending'[s].op = slots[s].op /\ pending'[s].done = slots[s].done
            /\ pending'[s].version = slots[s].version
            /\ slots[s] = NoMutation => pending'[s] = NoMutation
        BY <3>1, LeftBehind
      <4>2. Begun(slots[s])
        OBVIOUS
      <4>. QED  BY <3>1, <4>1, <4>2 DEF Begun
    <3>3. pending' = [s \in Slots |-> pending'[s]]
      BY <2>1 DEF Leave
    <3>. QED  BY <3>1, <3>2, <3>3
  <2>3. /\ Sensible(query)' /\ Served(query, page)'
        /\ query'.data = q.data /\ query'.invalid = q.invalid
        /\ query'.fetch.step = "read" => query'.fetch = q.fetch
    <3>1. CASE /\ query' = q
               /\ \/ watched \notin Pages[to].shows
                  \/ q.fetch # NoFetch
                  \/ q.data # 0 /\ ~q.invalid
      <4>1. Served(q, to)
        BY <3>1 DEF Served, Mounted
      <4>. QED  BY <1>1, <3>1, <4>1 DEF Sensible, Served, Mounted
    <3>2. CASE query' = Fetching(q)
      <4>. DEFINE f == Fetching(q)
      <4>1. /\ f \in QueryRecord /\ f.data = q.data /\ f.invalid = q.invalid /\ f.fetch = Asked
        BY DEF Sensible, QueryRecord, FetchRecord, Fetching, Asked
      <4>2. Asked.step = "asked" /\ Asked.version = 0 /\ Asked # NoFetch
        BY DEF Asked, NoFetch
      <4>. HIDE DEF f
      <4>3. query' = f
        BY <3>2 DEF f
      <4>. QED  BY <1>1, <4>1, <4>2, <4>3 DEF Sensible, Served
    <3>. QED  BY <2>1, <3>1, <3>2 DEF Opened
  <2>4. Current(query)'
    BY <2>3 DEF Current
  <2>5. \A s \in Slots : MayLead(pending[s], page)'
    BY <2>2 DEF MayLead
  <2>. QED  BY <1>1, <2>2, <2>3, <2>4, <2>5 DEF CacheInv
<1>. QED  BY <1>2, <1>3

-----------------------------------------------------------------------------
(* One lemma's worth per kind of step: fetches, mutations, navigation.      *)
LEMMA FetchStep ==
  ASSUME CacheInv, Refetch \/ FetchRead \/ FetchAnswered \/ FetchFails \/ Forget
  PROVE  CacheInv'
<1>1. /\ UNCHANGED <<watched, page, server, pending, settled>>
      /\ server \in Nat /\ server >= 1 /\ settled \in Nat /\ settled <= server
  BY QueryCacheAssumption DEF CacheInv, Refetch, FetchRead, FetchAnswered, FetchFails, Forget
<1>2. \A s \in Slots : Begun(pending[s])' /\ MayLead(pending[s], page)'
  BY <1>1 DEF CacheInv, Begun, MayLead
<1>. SUFFICES Sensible(query)' /\ Current(query)' /\ Served(query, page)'
              /\ overtaken' \in BOOLEAN /\ unhooked' \in BOOLEAN
  BY <1>1, <1>2 DEF CacheInv
<1>3. /\ query \in QueryRecord /\ Sensible(query) /\ Current(query) /\ Served(query, page)
      /\ overtaken \in BOOLEAN /\ unhooked \in BOOLEAN
  BY DEF CacheInv, Sensible
<1>4. /\ Asked.step = "asked" /\ Asked.version = 0 /\ Asked # NoFetch /\ Asked \in FetchRecord
      /\ NoFetch.step = "none" /\ NoFetch.version = 0 /\ NoFetch \in FetchRecord
  BY DEF Asked, NoFetch, FetchRecord
<1>5. CASE Refetch
  <2>1. /\ Sensible(Fetching(query)) /\ Current(Fetching(query)) /\ Served(Fetching(query), page)
        /\ query' = Fetching(query) /\ UNCHANGED <<overtaken, unhooked>>
    BY <1>1, <1>3, <1>5, FetchingServes DEF Refetch
  <2>. QED  BY <1>1, <1>3, <2>1 DEF Sensible, Current, Served, Mounted
<1>6. CASE FetchRead
  <2>. DEFINE f == [query EXCEPT !.fetch = [step |-> "read", version |-> server]]
  <2>1. /\ f \in QueryRecord /\ f.data = query.data /\ f.invalid = query.invalid
        /\ f.failed = query.failed /\ f.fetch.step = "read" /\ f.fetch.version = server
    BY <1>1, <1>3 DEF QueryRecord, FetchRecord
  <2>2. query' = f /\ UNCHANGED <<overtaken, unhooked>>
    BY <1>6 DEF FetchRead
  <2>. HIDE DEF f
  <2>. QED  BY <1>1, <1>3, <1>4, <2>1, <2>2 DEF Sensible, Current, Served, Mounted
<1>7. CASE FetchAnswered
  <2>. DEFINE f == [NoData EXCEPT !.data = query.fetch.version]
  <2>1. query.fetch.version \in Nat /\ query.fetch.version >= 1 /\ query.fetch.version <= server
    BY <1>3, <1>7 DEF FetchAnswered, Sensible, QueryRecord, FetchRecord
  <2>2. /\ f \in QueryRecord /\ f.data = query.fetch.version /\ ~f.invalid /\ f.fetch = NoFetch
    BY <1>4, <2>1 DEF NoData, QueryRecord
  <2>3. /\ query' = f
        /\ overtaken' = (overtaken /\ query.fetch.version < settled)
        /\ unhooked' = (unhooked /\ query.fetch.version < settled)
    BY <1>7 DEF FetchAnswered
  <2>4. ~(overtaken' \/ unhooked') => query.fetch.version >= settled
    BY <1>1, <1>3, <1>7, <2>1, <2>3 DEF Current, FetchAnswered
  <2>. HIDE DEF f
  <2>. QED  BY <1>1, <1>3, <1>4, <2>1, <2>2, <2>3, <2>4 DEF Sensible, Current, Served
<1>8. CASE FetchFails
  <2>1. PICK mark \in {query.invalid, TRUE} :
          query' = [query EXCEPT !.fetch = NoFetch, !.invalid = mark, !.failed = TRUE]
    BY <1>8 DEF FetchFails
  <2>2. /\ query' \in QueryRecord /\ query'.data = query.data /\ query'.invalid = mark
        /\ query'.failed /\ query'.fetch = NoFetch
    BY <1>3, <1>4, <2>1 DEF QueryRecord
  <2>3. UNCHANGED <<overtaken, unhooked>>
    BY <1>8 DEF FetchFails
  <2>4. ~query'.invalid => ~query.invalid
    BY <2>1, <2>2
  <2>. QED  BY <1>1, <1>3, <1>4, <2>2, <2>3, <2>4 DEF Sensible, Current, Served
<1>9. CASE Forget
  <2>1. NoData \in QueryRecord /\ NoData.data = 0 /\ NoData.fetch = NoFetch
    BY <1>4 DEF NoData, QueryRecord
  <2>2. query' = NoData /\ UNCHANGED <<overtaken, unhooked>> /\ ~Mounted(page)
    BY <1>9 DEF Forget
  <2>. QED  BY <1>1, <1>3, <1>4, <2>1, <2>2 DEF Sensible, Current, Served, Mounted
<1>. QED  BY <1>5, <1>6, <1>7, <1>8, <1>9

(* Steps that touch only one pending mutation, and the server's version.    *)
LEMMA PendingStep ==
  ASSUME CacheInv, NEW s \in Slots,
         UNCHANGED <<watched, page, query, settled, overtaken, unhooked>>,
         server' \in server..MaxVersion, NEW m \in MutationRecord, MayLead(m, page),
         m.version <= server', m.op = "none" => m = NoMutation,
         pending' = [pending EXCEPT ![s] = m]
  PROVE  CacheInv'
<1>1. /\ pending' \in [Slots -> MutationRecord] /\ pending'[s] = m
      /\ \A r \in Slots : r # s => pending'[r] = pending[r]
  BY DEF CacheInv
<1>2. server \in Nat /\ server' \in Nat /\ server <= server' /\ server' \in 1..MaxVersion
  BY QueryCacheAssumption DEF CacheInv
<1>3. \A r \in Slots : Begun(pending[r])' /\ MayLead(pending[r], page)'
  <2>1. \A r \in Slots : r # s => Begun(pending[r])'
    BY <1>1, <1>2 DEF CacheInv, Begun, MutationRecord
  <2>0. Begun(pending[s])'
    BY <1>1 DEF Begun
  <2>2. \A r \in Slots : r # s => MayLead(pending[r], page)'
    BY <1>1 DEF CacheInv, MayLead
  <2>. QED  BY <1>1, <2>0, <2>1, <2>2 DEF MayLead
<1>4. Sensible(query)'
  BY <1>2 DEF CacheInv, Sensible, QueryRecord, FetchRecord
<1>5. Current(query)' /\ Served(query, page)'
  BY DEF CacheInv, Current, Served, Mounted
<1>6. settled' \in 0..server'
  BY <1>2 DEF CacheInv
<1>. QED  BY <1>1, <1>2, <1>3, <1>4, <1>5, <1>6 DEF CacheInv

LEMMA MutationStep ==
  ASSUME CacheInv, NEW s \in Slots,
         (\E op \in DOMAIN Hooks : Mutate(s, op)) \/ Done(s) \/ MutationFails(s)
  PROVE  CacheInv'
<1>1. /\ server \in Nat /\ server \in server..MaxVersion
      /\ pending[s] \in MutationRecord /\ Begun(pending[s]) /\ MayLead(pending[s], page)
      /\ pending \in [Slots -> MutationRecord]
  BY QueryCacheAssumption DEF CacheInv
<1>2. ASSUME NEW op \in DOMAIN Hooks, Mutate(s, op) PROVE CacheInv'
  <2>. DEFINE m == [NoMutation EXCEPT !.op = op, !.here = TRUE]
  <2>1. m \in MutationRecord /\ m.op = op /\ m.version = 0
    BY DEF NoMutation, MutationRecord
  <2>2. /\ UNCHANGED <<watched, page, server, query, settled, overtaken, unhooked>>
        /\ pending' = [pending EXCEPT ![s] = m] /\ op \in DOMAIN Pages[page].offers
    BY <1>2 DEF Mutate
  <2>. HIDE DEF m
  <2>3. m.version <= server' /\ m.op # "none" /\ MayLead(m, page)
    BY <1>1, <2>1, <2>2, HookNames DEF MayLead
  <2>. QED  BY <1>1, <2>1, <2>2, <2>3, PendingStep
<1>3. CASE Done(s)
  <2>. DEFINE m == [pending[s] EXCEPT !.done = TRUE, !.version = server']
  <2>1. server' \in Nat /\ server <= server' /\ server' \in server..MaxVersion
    BY <1>1, <1>3, QueryCacheAssumption DEF Done, CacheInv
  <2>2. /\ m \in MutationRecord /\ m.op = pending[s].op /\ m.version = server'
        /\ m.here = pending[s].here
    BY <1>1, <2>1 DEF MutationRecord
  <2>3. /\ UNCHANGED <<watched, page, query, settled, overtaken, unhooked>>
        /\ pending' = [pending EXCEPT ![s] = m] /\ pending[s] # NoMutation
    BY <1>1, <1>3 DEF Done
  <2>. HIDE DEF m
  <2>4. m.version <= server' /\ m.op # "none" /\ MayLead(m, page)
    BY <1>1, <2>1, <2>2, <2>3 DEF Begun, MayLead
  <2>. QED  BY <2>1, <2>2, <2>3, <2>4, PendingStep
<1>4. CASE MutationFails(s)
  <2>1. /\ UNCHANGED <<watched, page, server, query, settled, overtaken, unhooked>>
        /\ pending' = [pending EXCEPT ![s] = NoMutation]
    BY <1>4 DEF MutationFails
  <2>2. NoMutation \in MutationRecord /\ NoMutation.version <= server' /\ MayLead(NoMutation, page)
    BY <1>1, <2>1, NoMutationBegun DEF MayLead, NoMutation
  <2>. QED  BY <1>1, <2>1, <2>2, PendingStep
<1>. QED  BY <1>2, <1>3, <1>4

LEMMA AnswerStep ==
  ASSUME CacheInv, NEW s \in Slots, Answered(s) \/ AddOption(s) \/ OptionsAdded(s)
  PROVE  CacheInv'
<1>. DEFINE m == pending[s]
            q == AfterSuccess(m)
            cleared == [pending EXCEPT ![s] = NoMutation]
<1>1. /\ m.done /\ Settle(m) /\ UNCHANGED <<watched, server>> /\ server \in Nat
      /\ m \in MutationRecord /\ Begun(m) /\ MayLead(m, page) /\ page \in Paths
      /\ pending \in [Slots -> MutationRecord]
  BY QueryCacheAssumption DEF CacheInv, Answered, AddOption, OptionsAdded
<1>2. /\ settled' \in 0..server /\ overtaken' \in BOOLEAN /\ unhooked' \in BOOLEAN
      /\ Sensible(q) /\ Served(q, page)
      /\ ~(overtaken' \/ unhooked') =>
              /\ q.data # 0 /\ ~q.invalid => q.data >= settled'
              /\ q.fetch.step = "read" => q.fetch.version >= settled'
  BY <1>1, SettledQuery
<1>3. /\ cleared \in [Slots -> MutationRecord]
      /\ \A r \in Slots : Begun(cleared[r]) /\ MayLead(cleared[r], page)
  <2>1. NoMutation \in MutationRecord /\ Begun(NoMutation) /\ MayLead(NoMutation, page)
    BY <1>1, NoMutationBegun DEF MayLead, NoMutation
  <2>. QED  BY <1>1, <2>1 DEF CacheInv
<1>. HIDE DEF q, cleared
<1>4. CASE Answered(s)
  <2>. DEFINE next == IF m.here THEN Pages[page].offers[m.op] ELSE "stay"
              to == IF next = "stay" THEN page ELSE next
  <2>1. Go(to, q, cleared) /\ ~InNewProposal(m)
    BY <1>4 DEF Answered, q, cleared
  <2>2. to \in Paths
    BY <1>1, <2>1, OffersLead DEF MayLead, InNewProposal
  <2>. HIDE DEF to
  <2>. QED  BY <1>1, <1>2, <1>3, <2>1, <2>2, GoesTo
<1>5. CASE OptionsAdded(s)
  <2>1. Go("/collaboration", q, cleared) /\ "/collaboration" \in Paths
    BY <1>5 DEF OptionsAdded, q, cleared, Paths
  <2>. QED  BY <1>1, <1>2, <1>3, <2>1, GoesTo
<1>6. CASE AddOption(s)
  <2>. DEFINE n == [NoMutation EXCEPT !.op = "addOption", !.here = m.here]
              slots == [pending EXCEPT ![s] = n]
  <2>1. n \in MutationRecord /\ n.op = "addOption" /\ n.version = 0
    BY <1>1, HookNames DEF NoMutation, MutationRecord
  <2>2. query' = q /\ pending' = slots /\ page' = page
    BY <1>6 DEF AddOption, q
  <2>. HIDE DEF n
  <2>3. Begun(n) /\ MayLead(n, page)
    BY <1>1, <2>1 DEF Begun, MayLead
  <2>4. /\ slots \in [Slots -> MutationRecord]
        /\ \A r \in Slots : Begun(slots[r]) /\ MayLead(slots[r], page)
    BY <1>1, <2>1, <2>3 DEF CacheInv
  <2>. HIDE DEF slots
  <2>5. Go(page, q, slots)
    BY <2>2 DEF Go
  <2>. QED  BY <1>1, <1>2, <2>4, <2>5, GoesTo
<1>. QED  BY <1>4, <1>5, <1>6

LEMMA VisitStep == ASSUME CacheInv, NEW to \in Paths, Visit(to) PROVE CacheInv'
<1>1. Go(to, query, pending) /\ UNCHANGED <<watched, server, settled, overtaken, unhooked>>
  BY DEF Visit
<1>2. /\ settled' \in 0..server /\ overtaken' \in BOOLEAN /\ unhooked' \in BOOLEAN
      /\ Sensible(query) /\ Served(query, page)
      /\ pending \in [Slots -> MutationRecord]
      /\ \A s \in Slots : Begun(pending[s]) /\ MayLead(pending[s], page)
  BY <1>1 DEF CacheInv
<1>3. ~(overtaken' \/ unhooked') =>
        /\ query.data # 0 /\ ~query.invalid => query.data >= settled'
        /\ query.fetch.step = "read" => query.fetch.version >= settled'
  BY <1>1 DEF CacheInv, Current
<1>. QED  BY <1>1, <1>2, <1>3, GoesTo

LEMMA CacheStep == CacheInv /\ [CacheNext]_cacheVars => CacheInv'
<1>. SUFFICES ASSUME CacheInv, [CacheNext]_cacheVars PROVE CacheInv'
  OBVIOUS
<1>1. CASE UNCHANGED cacheVars
  BY <1>1 DEF cacheVars, CacheInv, Sensible, Current, Served, Mounted, Begun, MayLead
<1>. QED  BY <1>1, FetchStep, MutationStep, AnswerStep, VisitStep DEF CacheNext

LEMMA CacheInitially == CacheInit => CacheInv
<1>. SUFFICES ASSUME CacheInit PROVE CacheInv
  OBVIOUS
<1>1. /\ watched \in WatchedKeys /\ page \in Paths /\ server = 1 /\ settled = 0
      /\ overtaken = FALSE /\ unhooked = FALSE /\ pending = [s \in Slots |-> NoMutation]
      /\ query = IF Mounted(page) THEN Fetching(NoData) ELSE NoData
  BY DEF CacheInit
<1>2. /\ NoFetch.step = "none" /\ NoFetch.version = 0 /\ NoFetch \in FetchRecord
  BY DEF NoFetch, FetchRecord
<1>3. NoData \in QueryRecord /\ NoData.data = 0 /\ NoData.fetch = NoFetch
  BY <1>2 DEF NoData, QueryRecord
<1>4. Sensible(NoData) /\ Current(NoData)
  BY <1>1, <1>2, <1>3 DEF Sensible, Current
<1>5. Sensible(query) /\ Current(query) /\ Served(query, page)
  BY <1>1, <1>4, FetchingServes DEF Served
<1>6. /\ pending \in [Slots -> MutationRecord]
      /\ \A s \in Slots : Begun(pending[s]) /\ MayLead(pending[s], page)
  BY <1>1, NoMutationBegun DEF MayLead, NoMutation
<1>7. 1 \in 1..MaxVersion /\ 0 \in 0..1
  BY QueryCacheAssumption
<1>. QED  BY <1>1, <1>5, <1>6, <1>7 DEF CacheInv
=============================================================================
