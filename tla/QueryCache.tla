------------------------------ MODULE QueryCache ------------------------------
(***************************************************************************)
(* One tab's pages over the query cache (TanStack Query as query-client.ts *)
(* configures it).  Queries do not influence each other, so that one key   *)
(* is watched, chosen at the start.  Its list on the server is a version,  *)
(* counted up by this tab's own writes; 0 is "no data".                    *)
(***************************************************************************)
EXTENDS Naturals, Pages

CONSTANTS
  WatchedKeys,  \* the query keys to choose from
  MaxVersion,   \* bound: versions of the list
  Slots         \* bound: mutations that may be pending at once

ASSUME QueryCacheAssumption == MaxVersion \in Nat \ {0} /\ WatchedKeys \subseteq Seq(STRING)

VARIABLES
  watched,
  page,       \* the path of the page
  server,     \* the version on the server
  query,      \* the cached version, whether it is marked, and the fetch in flight
  pending,    \* per slot: a pending mutation
  settled,    \* history: the newest version whose mutation was answered
  overtaken,  \* history: an older answer was under way and no invalidation stops it
  unhooked    \* history: an option was added without its hook

cacheVars == <<watched, page, server, query, pending, settled, overtaken, unhooked>>

NoFetch == [step |-> "none", version |-> 0]
Asked == [step |-> "asked", version |-> 0]
NoData == [data |-> 0, invalid |-> FALSE, fetch |-> NoFetch, failed |-> FALSE]

\* done: the server has done it; here: the page that called mutate() is still open.
NoMutation == [op |-> "none", done |-> FALSE, here |-> FALSE, version |-> 0]

Writes(op) == watched \in Hooks[op].writes
Invalidates(op) == Concerns(Hooks[op].invalidates, watched)

Mounted(path) == watched \in Pages[path].shows \cup Layout.shows

Fetching(q) == [q EXCEPT !.fetch = Asked, !.failed = FALSE]

(* Opening a page mounts its queries: without data, or with data that is    *)
(* marked, they are fetched; otherwise they are if staleTime has passed.  A *)
(* fetch in flight is not started again.                                    *)
Opened(path, q) ==
  IF watched \notin Pages[path].shows \/ q.fetch # NoFetch THEN {q}
  ELSE {Fetching(q)} \cup (IF q.data # 0 /\ ~q.invalid THEN {q} ELSE {})

CacheInit ==
  /\ watched \in WatchedKeys
  /\ page \in Paths
  /\ server = 1
  /\ query = IF Mounted(page) THEN Fetching(NoData) ELSE NoData
  /\ pending = [s \in Slots |-> NoMutation]
  /\ settled = 0
  /\ overtaken = FALSE /\ unhooked = FALSE

-----------------------------------------------------------------------------
(* Navigation.  Mutations of the page left behind stay pending; the         *)
(* callbacks that it gave to mutate() are gone.                             *)

Leave(slots) == [s \in Slots |-> [slots[s] EXCEPT !.here = FALSE]]

\* From a state q of the query and with these mutations pending to a page.
Go(path, q, slots) ==
  /\ page' = path
  /\ IF path = page
     THEN query' = q /\ pending' = slots
     ELSE query' \in Opened(path, q) /\ pending' = Leave(slots)

Visit(path) ==
  /\ path \in Links(page) \ {page}
  /\ Go(path, query, pending)
  /\ UNCHANGED <<watched, server, settled, overtaken, unhooked>>

-----------------------------------------------------------------------------
(* Fetches.                                                                 *)

\* When the window gets the focus again and the data is stale.
Refetch ==
  /\ Mounted(page) /\ query.fetch = NoFetch
  /\ query' = Fetching(query)
  /\ UNCHANGED <<watched, page, server, pending, settled, overtaken, unhooked>>

FetchRead ==
  /\ query.fetch = Asked
  /\ query' = [query EXCEPT !.fetch = [step |-> "read", version |-> server]]
  /\ UNCHANGED <<watched, page, server, pending, settled, overtaken, unhooked>>

\* Any answer clears the mark.
FetchAnswered ==
  /\ query.fetch.step = "read"
  /\ query' = [NoData EXCEPT !.data = query.fetch.version]
  /\ overtaken' = (overtaken /\ query.fetch.version < settled)
  /\ unhooked' = (unhooked /\ query.fetch.version < settled)
  /\ UNCHANGED <<watched, page, server, pending, settled>>

\* After the retries; data that is there stays, perhaps marked.
FetchFails ==
  /\ query.fetch # NoFetch
  /\ \E mark \in {query.invalid, TRUE} :
       query' = [query EXCEPT !.fetch = NoFetch, !.invalid = mark, !.failed = TRUE]
  /\ UNCHANGED <<watched, page, server, pending, settled, overtaken, unhooked>>

\* Data that nothing shows is dropped after some minutes.
Forget ==
  /\ ~Mounted(page) /\ query.fetch = NoFetch
  /\ query' = NoData
  /\ UNCHANGED <<watched, page, server, pending, settled, overtaken, unhooked>>

-----------------------------------------------------------------------------
(* Mutations; those that neither write nor invalidate the watched list only *)
(* lead to other pages and are left out.                                    *)

Mutate(s, op) ==
  /\ pending[s] = NoMutation
  /\ op \in DOMAIN Pages[page].offers
  /\ Writes(op) \/ Invalidates(op)
  /\ op \in Undisabled \/ \A r \in Slots : pending[r].here => pending[r].op # op
  /\ pending' = [pending EXCEPT ![s] = [NoMutation EXCEPT !.op = op, !.here = TRUE]]
  /\ UNCHANGED <<watched, page, server, query, settled, overtaken, unhooked>>

Done(s) ==
  /\ pending[s] # NoMutation /\ ~pending[s].done
  /\ Writes(pending[s].op) => server < MaxVersion
  /\ server' = IF Writes(pending[s].op) THEN server + 1 ELSE server
  /\ pending' = [pending EXCEPT ![s].done = TRUE, ![s].version = server']
  /\ UNCHANGED <<watched, page, query, settled, overtaken, unhooked>>

\* Mutant: a fetch in flight is left to answer.
InvalidatedUncancelled(q) ==
  IF Mounted(page) /\ q.fetch = NoFetch THEN [Fetching(q) EXCEPT !.invalid = TRUE]
  ELSE [q EXCEPT !.invalid = TRUE]

(* invalidateQueries marks the data; what is shown is fetched again.  For   *)
(* that a fetch in flight is cancelled, unless it is the first one.         *)
Invalidated(q) ==
  IF Mounted(page) /\ (q.data # 0 \/ q.fetch = NoFetch) THEN [Fetching(q) EXCEPT !.invalid = TRUE]
  ELSE [q EXCEPT !.invalid = TRUE]

AfterSuccess(m) == IF Invalidates(m.op) THEN Invalidated(query) ELSE query

(* onSuccess of the hook runs wherever the tab is by then.  Its invalidation *)
(* does not stop an older answer to a first fetch, nor to the query of a    *)
(* page that is closed; the new-proposal page's own addOption does not      *)
(* invalidate at all.                                                       *)
Settle(m) ==
  LET q == AfterSuccess(m)
      newest == IF Writes(m.op) /\ m.version > settled THEN m.version ELSE settled
      older == q.fetch.step = "read" /\ q.fetch.version < newest
  IN
  /\ settled' = newest
  /\ overtaken' = \/ overtaken
                  \/ Invalidates(m.op) /\ older /\ (~Mounted(page) \/ q.data = 0)
  /\ unhooked' = (unhooked \/ (m.op = "addOption" /\ (older \/ ~q.invalid)))

InNewProposal(m) == m.op = "addOption" \/ (m.op = "createProposal" /\ m.here)

\* onSuccess of mutate() leads on, if the page is still open.
Answered(s) ==
  LET m == pending[s]
      next == IF m.here THEN Pages[page].offers[m.op] ELSE "stay"
  IN
  /\ m.done /\ ~InNewProposal(m)
  /\ Settle(m)
  /\ Go(IF next = "stay" THEN page ELSE next, AfterSuccess(m),
        [pending EXCEPT ![s] = NoMutation])
  /\ UNCHANGED <<watched, server>>

(* handleSubmit of the new-proposal page: once the proposal is created, if  *)
(* the page is still open by then, the options are added one by one; then   *)
(* /collaboration is opened from wherever the tab is.                       *)
AddOption(s) ==
  LET m == pending[s] IN
  /\ m.done /\ InNewProposal(m)
  /\ Settle(m)
  /\ query' = AfterSuccess(m)
  /\ pending' = [pending EXCEPT ![s] = [NoMutation EXCEPT !.op = "addOption", !.here = m.here]]
  /\ UNCHANGED <<watched, page, server>>

OptionsAdded(s) ==
  LET m == pending[s] IN
  /\ m.done /\ InNewProposal(m)
  /\ Settle(m)
  /\ Go("/collaboration", AfterSuccess(m), [pending EXCEPT ![s] = NoMutation])
  /\ UNCHANGED <<watched, server>>

\* An error answer, or none: the server may have done it all the same.
MutationFails(s) ==
  /\ pending[s] # NoMutation
  /\ pending' = [pending EXCEPT ![s] = NoMutation]
  /\ UNCHANGED <<watched, page, server, query, settled, overtaken, unhooked>>

CacheNext ==
  \/ \E path \in Paths : Visit(path)
  \/ Refetch \/ FetchRead \/ FetchAnswered \/ FetchFails \/ Forget
  \/ \E s \in Slots :
       \/ \E op \in DOMAIN Hooks : Mutate(s, op)
       \/ Done(s) \/ Answered(s) \/ AddOption(s) \/ OptionsAdded(s) \/ MutationFails(s)
-----------------------------------------------------------------------------
CacheTypeOK ==
  /\ watched \in WatchedKeys /\ page \in Paths
  /\ server \in 1..MaxVersion /\ settled \in 0..server
  /\ query.data \in 0..server /\ query.fetch.version \in 0..server
  /\ \A s \in Slots : pending[s].op \in DOMAIN Hooks \cup {"none"}
  /\ overtaken \in BOOLEAN /\ unhooked \in BOOLEAN

(* A list of which the page has data when a mutation of its own tab         *)
(* succeeds is not shown as it was before: a refetch that was answered      *)
(* earlier is cancelled, whatever fetches, mutations and pages follow each  *)
(* other.  Data that is not marked for a new fetch has every answered write *)
(* of this tab, unless such an answer came to a first fetch or to a page    *)
(* that was closed, or unless an option was added without its hook; then    *)
(* the old list may stay until the next answer.  And what a page shows      *)
(* without data, or with marked data, is being fetched, or the fetch has    *)
(* failed.                                                                  *)
OwnWritesShown ==
  /\ query.data # 0 /\ ~query.invalid => query.data >= settled \/ overtaken \/ unhooked
  /\ Mounted(page) /\ (query.data = 0 \/ query.invalid) =>
       query.fetch # NoFetch \/ query.failed
=============================================================================
