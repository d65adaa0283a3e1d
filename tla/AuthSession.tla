----------------------------- MODULE AuthSession -----------------------------
(***************************************************************************)
(* One user's session in one browser: refresh tokens on the server         *)
(* (AuthService), the HttpOnly cookie the tabs share (AuthController), and *)
(* the tabs themselves, which keep the access token in memory and exchange *)
(* the cookie for a new one when it is missing (AuthGuard) or rejected     *)
(* (the axios interceptor).  Requests interleave at every await; a token   *)
(* row that was read is saved later without being read again.              *)
(***************************************************************************)
EXTENDS Naturals, FiniteSets

CONSTANTS
  Tabs,
  NumTokens,  \* bound: refresh tokens ever issued
  MaxFaults,  \* bound: failed database calls and lost responses
  None

Tokens == 1..NumTokens      \* numbered as they are issued

ASSUME AuthAssumption ==
  /\ None \notin Tokens \cup Tabs
  /\ NumTokens \in Nat
  /\ MaxFaults \in Nat

VARIABLES
  token,      \* the auth table: state of each refresh token's row
  parent,     \* history: the token that was exchanged for this one
  root,       \* history: the token issued by the login it descends from
  cookie,     \* the refresh cookie of the browser
  page,       \* is the tab inside AuthGuard or at the login page
  access,     \* the tab's access token
  req,        \* the request to /auth each tab has in flight
  ended,      \* history: roots of the sessions a completed logout has ended
  faults,     \* faults so far
  disturbed   \* history: requests have overlapped, or one has failed

vars == <<token, parent, root, cookie, page, access, req, ended, faults, disturbed>>

browser == <<cookie, page, access>>
server == <<token, parent, root>>

\* "expired": not revoked, but expiresAt has passed.
TokenState == {"absent", "live", "expired", "revoked"}

Steps == {"idle", "read", "revoke", "issue", "out.read", "out.revoke", "ok", "failed"}

Request == [pc : Steps, kind : {"none", "login", "refresh", "logout"},
            sent : Tokens \cup {None}, got : Tokens \cup {None}]

NoRequest == [pc |-> "idle", kind |-> "none", sent |-> None, got |-> None]

Init ==
  /\ token = [t \in Tokens |-> "absent"]
  /\ parent = [t \in Tokens |-> None]
  /\ root = [t \in Tokens |-> None]
  /\ cookie = None
  /\ page = [b \in Tabs |-> "login"]
  /\ access = [b \in Tabs |-> "none"]
  /\ req = [b \in Tabs |-> NoRequest]
  /\ ended = {}
  /\ faults = 0
  /\ disturbed = FALSE

Busy(b) == req[b].pc # "idle"

-----------------------------------------------------------------------------
(* The tab sends a request; the browser adds the cookie as it is now.       *)

Send(b, kind, step) ==
  /\ ~Busy(b)
  /\ req' = [req EXCEPT ![b] = [pc |-> step, kind |-> kind, sent |-> cookie, got |-> None]]
  /\ disturbed' = (disturbed \/ \E c \in Tabs \ {b} : Busy(c))
  /\ UNCHANGED <<server, browser, ended, faults>>

\* login() and register(), once the password has been accepted.
SendLogin(b) == page[b] = "login" /\ Send(b, "login", "issue")

\* AuthGuard: there is no access token after a page load.
GuardRefresh(b) ==
  page[b] = "app" /\ access[b] = "none" /\ Send(b, "refresh", "read")

\* The response interceptor: an API call came back with 401.  Calls that
\* fail meanwhile share the promise of this one.
ClientRefresh(b) ==
  page[b] = "app" /\ access[b] = "stale" /\ Send(b, "refresh", "read")

SendLogout(b) == page[b] = "app" /\ Send(b, "logout", "out.read")

-----------------------------------------------------------------------------
(* refresh(): read the row and check it, save it revoked, issue a new one.  *)

Step(b, step) == req' = [req EXCEPT ![b].pc = step]

Usable(t) == t \in Tokens /\ token[t] = "live"

Read(b) ==
  /\ req[b].pc = "read"
  /\ Step(b, IF Usable(req[b].sent) THEN "revoke" ELSE "failed")
  /\ UNCHANGED <<server, browser, ended, faults, disturbed>>

\* Mutant: the row is changed in memory and not saved.
RevokeUnsaved(b) ==
  /\ req[b].pc = "revoke"
  /\ Step(b, "issue")
  /\ UNCHANGED <<server, browser, ended, faults, disturbed>>

Revoke(b) ==
  /\ req[b].pc = "revoke"
  /\ token' = [token EXCEPT ![req[b].sent] = "revoked"]
  /\ Step(b, "issue")
  /\ UNCHANGED <<parent, root, browser, ended, faults, disturbed>>

IsNext(t) == token[t] = "absent" /\ \A u \in Tokens : u < t => token[u] # "absent"

\* Mutant: the new token is not part of the answer.
IssueNotReturned(b, t) ==
  /\ req[b].pc = "issue"
  /\ IsNext(t)
  /\ token' = [token EXCEPT ![t] = "live"]
  /\ LET old == IF req[b].kind = "refresh" THEN req[b].sent ELSE None IN
       /\ parent' = [parent EXCEPT ![t] = old]
       /\ root' = [root EXCEPT ![t] = IF old = None THEN t ELSE root[old]]
  /\ req' = [req EXCEPT ![b].pc = "ok"]
  /\ UNCHANGED <<browser, ended, faults, disturbed>>

\* Insert a fresh token: of a new session, or in exchange for the one sent.
Issue(b, t) ==
  /\ req[b].pc = "issue"
  /\ IsNext(t)
  /\ token' = [token EXCEPT ![t] = "live"]
  /\ LET old == IF req[b].kind = "refresh" THEN req[b].sent ELSE None IN
       /\ parent' = [parent EXCEPT ![t] = old]
       /\ root' = [root EXCEPT ![t] = IF old = None THEN t ELSE root[old]]
  /\ req' = [req EXCEPT ![b].pc = "ok", ![b].got = t]
  /\ UNCHANGED <<browser, ended, faults, disturbed>>

(* logout(): revoke the row if there is one; the cookie is cleared anyway.  *)

OutRead(b) ==
  /\ req[b].pc = "out.read"
  /\ Step(b, IF req[b].sent \in Tokens THEN "out.revoke" ELSE "ok")
  /\ UNCHANGED <<server, browser, ended, faults, disturbed>>

\* Mutant: logout only clears the cookie.
OutRevokeNothing(b) ==
  /\ req[b].pc = "out.revoke"
  /\ Step(b, "ok")
  /\ UNCHANGED <<server, browser, ended, faults, disturbed>>

OutRevoke(b) ==
  /\ req[b].pc = "out.revoke"
  /\ token' = [token EXCEPT ![req[b].sent] = "revoked"]
  /\ Step(b, "ok")
  /\ UNCHANGED <<parent, root, browser, ended, faults, disturbed>>

-----------------------------------------------------------------------------
(* The response arrives: the browser stores the cookie, the tab goes on.    *)

\* Mutant: only a login sets the cookie.
GotTokenOldCookie(b) ==
  /\ req[b].pc = "ok" /\ req[b].kind # "logout"
  /\ cookie' = IF req[b].kind = "login" THEN req[b].got ELSE cookie
  /\ page' = [page EXCEPT ![b] = "app"]
  /\ access' = [access EXCEPT ![b] = "fresh"]
  /\ req' = [req EXCEPT ![b] = NoRequest]
  /\ UNCHANGED <<server, ended, faults, disturbed>>

GotToken(b) ==
  /\ req[b].pc = "ok" /\ req[b].kind # "logout"
  /\ cookie' = req[b].got
  /\ page' = [page EXCEPT ![b] = "app"]
  /\ access' = [access EXCEPT ![b] = "fresh"]
  /\ req' = [req EXCEPT ![b] = NoRequest]
  /\ UNCHANGED <<server, ended, faults, disturbed>>

LoggedOut(b) ==
  /\ req[b].pc = "ok" /\ req[b].kind = "logout"
  /\ cookie' = None
  /\ page' = [page EXCEPT ![b] = "login"]
  /\ access' = [access EXCEPT ![b] = "none"]
  /\ ended' = IF req[b].sent = None THEN ended ELSE ended \cup {root[req[b].sent]}
  /\ req' = [req EXCEPT ![b] = NoRequest]
  /\ UNCHANGED <<server, faults, disturbed>>

\* Mutant: a refresh that fails leaves the tab as it was.
FailedIgnored(b) ==
  /\ req[b].pc = "failed"
  /\ req' = [req EXCEPT ![b] = NoRequest]
  /\ UNCHANGED <<server, browser, ended, faults, disturbed>>

\* A refresh that fails makes the tab drop its session; a logout or a login
\* that fails changes nothing in it.
Failed(b) ==
  /\ req[b].pc = "failed"
  /\ IF req[b].kind = "refresh"
     THEN /\ page' = [page EXCEPT ![b] = "login"]
          /\ access' = [access EXCEPT ![b] = "none"]
     ELSE UNCHANGED <<page, access>>
  /\ req' = [req EXCEPT ![b] = NoRequest]
  /\ UNCHANGED <<server, cookie, ended, faults, disturbed>>

-----------------------------------------------------------------------------
\* A database call rejects (the answer is a 500), or the answer is lost.
Fault(b) ==
  /\ faults < MaxFaults
  /\ req[b].pc \notin {"idle", "failed"}
  /\ Step(b, "failed")
  /\ faults' = faults + 1
  /\ disturbed' = TRUE
  /\ UNCHANGED <<server, browser, ended>>

\* An access token outlives JWT_ACCESS_TTL, fifteen minutes by default, a
\* refresh token and its cookie JWT_REFRESH_TTL, fourteen days.
AccessExpires(b) ==
  /\ access[b] = "fresh"
  /\ access' = [access EXCEPT ![b] = "stale"]
  /\ UNCHANGED <<server, cookie, page, req, ended, faults, disturbed>>

TokenExpires(t) ==
  /\ token[t] = "live"
  /\ \A b \in Tabs : t # req[b].sent /\ t # req[b].got
  /\ token' = [token EXCEPT ![t] = "expired"]
  /\ UNCHANGED <<parent, root, browser, req, ended, faults, disturbed>>

CookieExpires ==
  /\ cookie # None /\ token[cookie] # "live"
  /\ cookie' = None
  /\ UNCHANGED <<server, page, access, req, ended, faults, disturbed>>

\* The user loads a page: memory is lost, the cookie stays.
Load(b, p) ==
  /\ ~Busy(b)
  /\ page' = [page EXCEPT ![b] = p]
  /\ access' = [access EXCEPT ![b] = "none"]
  /\ UNCHANGED <<server, cookie, req, ended, faults, disturbed>>

-----------------------------------------------------------------------------
Serve(b) ==
  \/ Read(b) \/ Revoke(b) \/ OutRead(b) \/ OutRevoke(b)
  \/ \E t \in Tokens : Issue(b, t)

Deliver(b) == GotToken(b) \/ LoggedOut(b) \/ Failed(b)

Next ==
  \/ \E b \in Tabs :
       \/ SendLogin(b) \/ GuardRefresh(b) \/ ClientRefresh(b) \/ SendLogout(b)
       \/ Serve(b) \/ Deliver(b) \/ Fault(b)
       \/ AccessExpires(b)
       \/ \E p \in {"app", "login"} : Load(b, p)
  \/ CookieExpires \/ \E t \in Tokens : TokenExpires(t)

Spec == Init /\ [][Next]_vars

\* The server and the network answer, and AuthGuard runs when it is mounted.
Fairness ==
  /\ \A b \in Tabs : WF_vars(Serve(b)) /\ WF_vars(Deliver(b)) /\ WF_vars(GuardRefresh(b))

FairSpec == Spec /\ Fairness
-----------------------------------------------------------------------------
TypeOK ==
  /\ token \in [Tokens -> TokenState]
  /\ parent \in [Tokens -> Tokens \cup {None}]
  /\ root \in [Tokens -> Tokens \cup {None}]
  /\ cookie \in Tokens \cup {None}
  /\ page \in [Tabs -> {"app", "login"}]
  /\ access \in [Tabs -> {"none", "fresh", "stale"}]
  /\ req \in [Tabs -> Request]
  /\ \A b \in Tabs : req[b].pc = "ok" /\ req[b].kind # "logout" => req[b].got \in Tokens
  /\ ended \subseteq Tokens
  /\ faults \in 0..MaxFaults
  /\ disturbed \in BOOLEAN

Quiescent == \A b \in Tabs : req[b].pc = "idle"

(* "Rotate: revoke old and issue new" (refresh): a token that was exchanged *)
(* for another one is revoked, however requests overlap or fail.            *)
ParentRevoked ==
  \A t \in Tokens : parent[t] # None => token[parent[t]] = "revoked"

(* Undisturbed, a login has at most one live refresh token at any time.     *)
OneLivePerLogin ==
  ~disturbed =>
    \A t, u \in Tokens :
      token[t] = "live" /\ token[u] = "live" /\ root[t] = root[u] => t = u

(* Undisturbed, the browser holds the newest token of its session: the      *)
(* cookie is never one that the server has already revoked.                 *)
CookieUsable ==
  Quiescent /\ ~disturbed /\ cookie # None => token[cookie] # "revoked"

(* Undisturbed, a completed logout leaves no live token of its session,     *)
(* neither the one in the cookie nor any it was exchanged for.              *)
LogoutEndsSession ==
  ~disturbed => \A t \in Tokens : root[t] \in ended => token[t] # "live"

TokensLeft == \E t \in Tokens : token[t] = "absent"

(* A tab that AuthGuard keeps blank gets an access token or is sent to the  *)
(* login page, even when requests fail (as long as the model has tokens to  *)
(* issue).                                                                  *)
GuardSettles ==
  \A b \in Tabs :
    page[b] = "app" /\ access[b] = "none"
      ~> access[b] # "none" \/ page[b] = "login" \/ ~TokensLeft

(* "Refresh itself failed: session is dead" (client.ts): when a failed      *)
(* refresh sends a tab to the login page, the browser does not hold a live  *)
(* token of the same session.                                               *)
DeadMeansDead ==
  [][\A b \in Tabs :
       req[b].pc = "failed" /\ req[b].kind = "refresh" /\ req'[b].pc = "idle"
         => ~(Usable(cookie) /\ req[b].sent # None /\ root[req[b].sent] = root[cookie])]_vars
=============================================================================
