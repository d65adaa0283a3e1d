------------------------- MODULE AuthSessionProofs -------------------------
(* Proofs about AuthSession: types, that rotation revokes what it exchanges, *)
(* and what a session keeps while requests do not overlap, for any number   *)
(* of tabs, tokens and faults.                                              *)
EXTENDS AuthSession, TLAPS

Known(t) == t \in Tokens /\ token[t] # "absent"

(* What a request relies on while it is at the server or on its way back:   *)
(* the token it sent is in the table, and it is revoked before the one that *)
(* replaces it is inserted.                                                 *)
RequestFacts(r) ==
  /\ r.sent # None => Known(r.sent)
  /\ r.pc \in {"read", "revoke"} => r.kind = "refresh"
  /\ r.pc = "revoke" => r.sent \in Tokens
  /\ r.pc = "issue" => r.kind \in {"login", "refresh"}
  /\ r.pc = "issue" /\ r.kind = "refresh" => r.sent \in Tokens /\ token[r.sent] = "revoked"
  /\ r.pc \in {"out.read", "out.revoke"} => r.kind = "logout"
  /\ r.pc = "out.revoke" => r.sent \in Tokens
  /\ r.pc = "ok" /\ r.kind # "logout" => Known(r.got)

TokenFacts ==
  /\ cookie # None => Known(cookie)
  /\ \A t \in Tokens : token[t] # "absent" => root[t] \in Tokens

Types ==
  /\ token \in [Tokens -> TokenState]
  /\ parent \in [Tokens -> Tokens \cup {None}]
  /\ root \in [Tokens -> Tokens \cup {None}]
  /\ cookie \in Tokens \cup {None}
  /\ page \in [Tabs -> {"app", "login"}]
  /\ access \in [Tabs -> {"none", "fresh", "stale"}]
  /\ req \in [Tabs -> Request]
  /\ ended \subseteq Tokens
  /\ faults \in 0..MaxFaults
  /\ disturbed \in BOOLEAN

RotationInv ==
  /\ Types
  /\ \A b \in Tabs : RequestFacts(req[b])
  /\ TokenFacts
  /\ ParentRevoked

(* What nobody can take back: a token stays in the table and in its         *)
(* session, and once it is revoked it stays revoked.                        *)
TokensKept ==
  \A t \in Tokens :
    /\ token[t] # "absent" => token'[t] # "absent" /\ root'[t] = root[t]
    /\ token[t] = "revoked" => token'[t] = "revoked"

-----------------------------------------------------------------------------
LEMMA NoneIsNoToken == None \notin Tokens
BY AuthAssumption

(* A step of tab b that only moves its request on to s.                     *)
LEMMA StepMoves ==
  ASSUME Types, NEW b \in Tabs, NEW s \in Steps, Step(b, s)
  PROVE  /\ req' \in [Tabs -> Request]
         /\ req'[b].pc = s /\ req'[b].kind = req[b].kind
         /\ req'[b].sent = req[b].sent /\ req'[b].got = req[b].got
         /\ \A c \in Tabs \ {b} : req'[c] = req[c]
BY DEF Types, Step, Request

LEMMA ResetMoves ==
  ASSUME Types, NEW b \in Tabs, req' = [req EXCEPT ![b] = NoRequest]
  PROVE  /\ req' \in [Tabs -> Request]
         /\ RequestFacts(req[b])'
         /\ \A c \in Tabs \ {b} : req'[c] = req[c]
BY NoneIsNoToken DEF Types, NoRequest, Request, Steps, RequestFacts

LEMMA SendMoves ==
  ASSUME RotationInv, NEW b \in Tabs, NEW kind \in {"login", "refresh", "logout"},
         NEW s \in Steps, Send(b, kind, s),
         <<kind, s>> \in {<<"login", "issue">>, <<"refresh", "read">>, <<"logout", "out.read">>}
  PROVE  /\ req' \in [Tabs -> Request]
         /\ RequestFacts(req[b])'
         /\ \A c \in Tabs \ {b} : req'[c] = req[c]
         /\ disturbed' \in BOOLEAN
         /\ UNCHANGED <<server, browser, ended, faults>>
<1>1. req'[b] = [pc |-> s, kind |-> kind, sent |-> cookie, got |-> None]
  BY DEF Send, RotationInv, Types
<1>2. req'[b] \in Request
  BY <1>1 DEF Request, RotationInv, Types
<1>3. req' \in [Tabs -> Request]
  BY <1>1, <1>2 DEF Send, RotationInv, Types
<1>4. RequestFacts(req[b])'
  BY <1>1 DEF RequestFacts, RotationInv, TokenFacts, Known, Send, server
<1>. QED BY <1>3, <1>4 DEF Send, RotationInv, Types

-----------------------------------------------------------------------------
(* Facts of the other tabs' requests are kept.                              *)
LEMMA FactsKept ==
  ASSUME RotationInv, TokensKept, token' \in [Tokens -> TokenState], NEW c \in Tabs, req'[c] = req[c]
  PROVE  RequestFacts(req[c])'
BY DEF RotationInv, Types, RequestFacts, TokensKept, Known

LEMMA ParentKept ==
  ASSUME RotationInv, TokensKept, parent' = parent
  PROVE  ParentRevoked'
BY DEF RotationInv, Types, ParentRevoked, TokensKept

LEMMA TokenFactsKept ==
  ASSUME RotationInv, TokensKept, cookie' = cookie, root' = root,
         \A t \in Tokens : token[t] = "absent" => token'[t] = "absent"
  PROVE  TokenFacts'
BY DEF RotationInv, Types, TokenFacts, TokensKept, Known

(* A step that leaves the server and the cookie alone needs to be right     *)
(* about its own request only.                                              *)
LEMMA QuietStep ==
  ASSUME RotationInv, UNCHANGED <<server, cookie>>, Types', NEW b \in Tabs,
         RequestFacts(req[b])', \A c \in Tabs \ {b} : req'[c] = req[c]
  PROVE  RotationInv'
<1>1. TokensKept
  BY DEF TokensKept, server
<1>2. token' \in [Tokens -> TokenState]
  BY DEF Types
<1>3. \A c \in Tabs : RequestFacts(req[c])'
  BY <1>1, <1>2, FactsKept
<1>. QED BY <1>1, <1>3, ParentKept, TokenFactsKept DEF RotationInv, server

(* ... and one that revokes a token, too.                                   *)
LEMMA RevokeStep ==
  ASSUME RotationInv, NEW t \in Tokens, token[t] # "absent", token' = [token EXCEPT ![t] = "revoked"],
         UNCHANGED <<parent, root, cookie>>, Types', NEW b \in Tabs,
         RequestFacts(req[b])', \A c \in Tabs \ {b} : req'[c] = req[c]
  PROVE  RotationInv'
<1>1. TokensKept
  BY DEF TokensKept, RotationInv, Types
<1>2. token' \in [Tokens -> TokenState]
  BY DEF Types
<1>3. \A c \in Tabs : RequestFacts(req[c])'
  BY <1>1, <1>2, FactsKept
<1>4. \A u \in Tokens : token[u] = "absent" => token'[u] = "absent"
  BY DEF RotationInv, Types
<1>. QED BY <1>1, <1>3, <1>4, ParentKept, TokenFactsKept DEF RotationInv

-----------------------------------------------------------------------------
LEMMA InitInv == Init => RotationInv
<1>. SUFFICES ASSUME Init PROVE RotationInv OBVIOUS
<1>1. NoRequest \in Request
  BY DEF NoRequest, Request, Steps
<1>2. Types
  <2>1. faults \in 0..MaxFaults
    BY AuthAssumption DEF Init
  <2>2. req \in [Tabs -> Request]
    BY <1>1 DEF Init
  <2>3. ended \subseteq Tokens /\ disturbed \in BOOLEAN
    BY DEF Init
  <2>. QED BY <2>1, <2>2, <2>3 DEF Init, Types, TokenState
<1>3. \A b \in Tabs : RequestFacts(req[b])
  BY DEF Init, RequestFacts, NoRequest
<1>. QED BY <1>2, <1>3 DEF Init, RotationInv, TokenFacts, ParentRevoked

LEMMA RotationStep == RotationInv /\ [Next]_vars => RotationInv'
<1>. SUFFICES ASSUME RotationInv, [Next]_vars PROVE RotationInv' OBVIOUS
<1>. Types
  BY DEF RotationInv
<1>1. ASSUME NEW b \in Tabs, SendLogin(b) \/ GuardRefresh(b) \/ ClientRefresh(b) \/ SendLogout(b)
      PROVE  RotationInv'
  <2>1. \/ Send(b, "login", "issue") \/ Send(b, "refresh", "read") \/ Send(b, "logout", "out.read")
    BY <1>1 DEF SendLogin, GuardRefresh, ClientRefresh, SendLogout
  <2>2. {"issue", "read", "out.read"} \subseteq Steps
    BY DEF Steps
  <2>3. /\ req' \in [Tabs -> Request] /\ RequestFacts(req[b])'
        /\ \A c \in Tabs \ {b} : req'[c] = req[c]
        /\ disturbed' \in BOOLEAN
        /\ UNCHANGED <<server, browser, ended, faults>>
    BY <2>1, <2>2, SendMoves
  <2>4. Types'
    BY <2>3 DEF Types, server, browser
  <2>. QED BY <2>3, <2>4, QuietStep DEF browser
<1>2. ASSUME NEW b \in Tabs, Read(b) PROVE RotationInv'
  <2>1. CASE Usable(req[b].sent)
    <3>1. Step(b, "revoke") /\ "revoke" \in Steps
      BY <1>2, <2>1 DEF Read, Steps
    <3>2. Types'
      BY <1>2, <3>1, StepMoves DEF Read, Types, server, browser
    <3>3. RequestFacts(req[b])'
      BY <1>2, <2>1, <3>1, StepMoves DEF Read, RequestFacts, RotationInv, Known, server, Usable
    <3>. QED BY <1>2, <3>1, <3>2, <3>3, StepMoves, QuietStep DEF Read, browser
  <2>2. CASE ~Usable(req[b].sent)
    <3>1. Step(b, "failed") /\ "failed" \in Steps
      BY <1>2, <2>2 DEF Read, Steps
    <3>2. Types'
      BY <1>2, <3>1, StepMoves DEF Read, Types, server, browser
    <3>3. RequestFacts(req[b])'
      BY <1>2, <3>1, StepMoves DEF Read, RequestFacts, RotationInv, Known, server
    <3>. QED BY <1>2, <3>1, <3>2, <3>3, StepMoves, QuietStep DEF Read, browser
  <2>. QED BY <2>1, <2>2
<1>3. ASSUME NEW b \in Tabs, Revoke(b) PROVE RotationInv'
  <2>1. /\ req[b].sent \in Tokens /\ token[req[b].sent] # "absent" /\ req[b].kind = "refresh"
        /\ req[b].sent # None
    BY <1>3, NoneIsNoToken DEF Revoke, RotationInv, RequestFacts, Known
  <2>2. Step(b, "issue") /\ "issue" \in Steps
    BY <1>3 DEF Revoke, Steps
  <2>3. Types'
    BY <1>3, <2>1, <2>2, StepMoves DEF Revoke, Types, browser, TokenState
  <2>4. RequestFacts(req[b])'
    BY <1>3, <2>1, <2>2, StepMoves DEF Revoke, RequestFacts, Known, Types
  <2>. QED BY <1>3, <2>1, <2>2, <2>3, <2>4, StepMoves, RevokeStep DEF Revoke, browser
<1>4. ASSUME NEW b \in Tabs, NEW t \in Tokens, Issue(b, t) PROVE RotationInv'
  <2>. DEFINE old == IF req[b].kind = "refresh" THEN req[b].sent ELSE None
  <2>1. /\ token[t] = "absent" /\ token' = [token EXCEPT ![t] = "live"]
        /\ parent' = [parent EXCEPT ![t] = old]
        /\ root' = [root EXCEPT ![t] = IF old = None THEN t ELSE root[old]]
        /\ req' = [req EXCEPT ![b].pc = "ok", ![b].got = t]
        /\ UNCHANGED <<browser, ended, faults, disturbed>>
    BY <1>4 DEF Issue, IsNext
  <2>2. old # None => old \in Tokens /\ token[old] = "revoked" /\ root[old] \in Tokens
    BY <1>4 DEF Issue, RotationInv, RequestFacts, TokenFacts
  <2>3. /\ req' \in [Tabs -> Request]
        /\ req'[b] = [req[b] EXCEPT !.pc = "ok", !.got = t]
        /\ \A c \in Tabs \ {b} : req'[c] = req[c]
    BY <2>1 DEF Types, Request, Steps
  <2>4. Types'
    BY <2>1, <2>2, <2>3 DEF Types, browser, TokenState
  <2>5. TokensKept
    BY <2>1 DEF TokensKept, Types
  <2>6. RequestFacts(req[b])'
    BY <2>1, <2>3, <2>5 DEF RequestFacts, RotationInv, Known, TokensKept, Types, Request
  <2>7. \A c \in Tabs : RequestFacts(req[c])'
    BY <2>3, <2>4, <2>5, <2>6, FactsKept DEF Types
  <2>8. TokenFacts'
    BY <2>1, <2>2, <2>5 DEF RotationInv, TokenFacts, Known, TokensKept, Types, browser
  <2>9. ParentRevoked'
    BY <2>1, <2>2, <2>5 DEF RotationInv, ParentRevoked, TokensKept, Types
  <2>. QED BY <2>4, <2>7, <2>8, <2>9 DEF RotationInv
<1>5. ASSUME NEW b \in Tabs, OutRead(b) PROVE RotationInv'
  <2>. DEFINE s == IF req[b].sent \in Tokens THEN "out.revoke" ELSE "ok"
  <2>1. Step(b, s) /\ s \in Steps
    BY <1>5 DEF OutRead, Steps
  <2>2. Types'
    BY <1>5, <2>1, StepMoves DEF OutRead, Types, server, browser
  <2>3. RequestFacts(req[b])'
    BY <1>5, <2>1, StepMoves DEF OutRead, RequestFacts, RotationInv, Known, server
  <2>. QED BY <1>5, <2>1, <2>2, <2>3, StepMoves, QuietStep DEF OutRead, browser
<1>6. ASSUME NEW b \in Tabs, OutRevoke(b) PROVE RotationInv'
  <2>1. /\ req[b].sent \in Tokens /\ token[req[b].sent] # "absent" /\ req[b].kind = "logout"
        /\ req[b].sent # None
    BY <1>6, NoneIsNoToken DEF OutRevoke, RotationInv, RequestFacts, Known
  <2>2. Step(b, "ok") /\ "ok" \in Steps
    BY <1>6 DEF OutRevoke, Steps
  <2>3. Types'
    BY <1>6, <2>1, <2>2, StepMoves DEF OutRevoke, Types, browser, TokenState
  <2>4. RequestFacts(req[b])'
    BY <1>6, <2>1, <2>2, StepMoves DEF OutRevoke, RequestFacts, Known, Types
  <2>. QED BY <1>6, <2>1, <2>2, <2>3, <2>4, StepMoves, RevokeStep DEF OutRevoke, browser
<1>7. ASSUME NEW b \in Tabs, GotToken(b) PROVE RotationInv'
  <2>1. Known(req[b].got)
    BY <1>7 DEF GotToken, RotationInv, RequestFacts
  <2>2. Types'
    BY <1>7, <2>1, ResetMoves DEF GotToken, Types, server, Known
  <2>3. TokensKept
    BY <1>7 DEF GotToken, TokensKept, server
  <2>4. \A c \in Tabs : RequestFacts(req[c])'
    BY <1>7, <2>2, <2>3, FactsKept, ResetMoves DEF GotToken, Types
  <2>5. TokenFacts'
    BY <1>7, <2>1 DEF GotToken, RotationInv, TokenFacts, Known, server
  <2>. QED BY <1>7, <2>2, <2>3, <2>4, <2>5, ParentKept DEF GotToken, RotationInv, server
<1>8. ASSUME NEW b \in Tabs, LoggedOut(b) PROVE RotationInv'
  <2>1. ended' \subseteq Tokens
    BY <1>8 DEF LoggedOut, RotationInv, RequestFacts, TokenFacts, Known, Types
  <2>2. Types'
    BY <1>8, <2>1, ResetMoves DEF LoggedOut, Types, server
  <2>3. TokensKept
    BY <1>8 DEF LoggedOut, TokensKept, server
  <2>4. \A c \in Tabs : RequestFacts(req[c])'
    BY <1>8, <2>2, <2>3, FactsKept, ResetMoves DEF LoggedOut, Types
  <2>5. TokenFacts'
    BY <1>8 DEF LoggedOut, RotationInv, TokenFacts, server
  <2>. QED BY <1>8, <2>2, <2>3, <2>4, <2>5, ParentKept DEF LoggedOut, RotationInv, server
<1>9. ASSUME NEW b \in Tabs, Failed(b) PROVE RotationInv'
  <2>1. Types'
    BY <1>9, ResetMoves DEF Failed, Types, server
  <2>. QED BY <1>9, <2>1, ResetMoves, QuietStep DEF Failed
<1>10. ASSUME NEW b \in Tabs, Fault(b) PROVE RotationInv'
  <2>1. Step(b, "failed") /\ "failed" \in Steps
    BY <1>10 DEF Fault, Steps
  <2>2. faults' \in 0..MaxFaults
    BY <1>10, AuthAssumption DEF Fault, Types
  <2>3. Types'
    BY <1>10, <2>1, <2>2, StepMoves DEF Fault, Types, server, browser
  <2>4. RequestFacts(req[b])'
    BY <1>10, <2>1, StepMoves DEF Fault, RequestFacts, RotationInv, Known, server
  <2>. QED BY <1>10, <2>1, <2>3, <2>4, StepMoves, QuietStep DEF Fault, browser
<1>11. ASSUME UNCHANGED <<server, cookie, req>>, Types' PROVE RotationInv'
  <2>1. TokensKept
    BY <1>11 DEF TokensKept, server
  <2>2. \A c \in Tabs : RequestFacts(req[c])'
    BY <1>11, <2>1, FactsKept DEF Types
  <2>. QED BY <1>11, <2>1, <2>2, ParentKept, TokenFactsKept DEF RotationInv, server
<1>12. ASSUME NEW b \in Tabs, AccessExpires(b) \/ \E p \in {"app", "login"} : Load(b, p)
       PROVE  RotationInv'
  BY <1>11, <1>12 DEF AccessExpires, Load, Types, server
<1>13. CASE CookieExpires
  <2>1. Types'
    BY <1>13 DEF CookieExpires, Types, server
  <2>2. TokensKept
    BY <1>13 DEF CookieExpires, TokensKept, server
  <2>3. \A c \in Tabs : RequestFacts(req[c])'
    BY <1>13, <2>1, <2>2, FactsKept DEF CookieExpires, Types
  <2>4. TokenFacts'
    BY <1>13 DEF CookieExpires, RotationInv, TokenFacts, server
  <2>. QED BY <1>13, <2>1, <2>2, <2>3, <2>4, ParentKept DEF CookieExpires, RotationInv, server
<1>14. ASSUME NEW t \in Tokens, TokenExpires(t) PROVE RotationInv'
  <2>1. Types'
    BY <1>14 DEF TokenExpires, Types, browser, TokenState
  <2>2. TokensKept /\ \A u \in Tokens : token[u] = "absent" => token'[u] = "absent"
    BY <1>14 DEF TokenExpires, TokensKept, Types
  <2>3. \A c \in Tabs : RequestFacts(req[c])'
    BY <1>14, <2>1, <2>2, FactsKept DEF TokenExpires, Types
  <2>. QED BY <1>14, <2>1, <2>2, <2>3, ParentKept, TokenFactsKept DEF TokenExpires, RotationInv, browser
<1>15. CASE UNCHANGED vars
  BY <1>11, <1>15 DEF vars, server, Types
<1>. QED BY <1>1, <1>2, <1>3, <1>4, <1>5, <1>6, <1>7, <1>8, <1>9, <1>10, <1>12, <1>13, <1>14, <1>15
     DEF Next, Serve, Deliver

LEMMA RotationInvariant == Spec => []RotationInv
BY InitInv, RotationStep, PTL DEF Spec

(* The variables of AuthSession keep their types; in particular the answer  *)
(* to a login or refresh always carries a token (AuthService).              *)
THEOREM TypeCorrect == Spec => []TypeOK
<1>1. RotationInv => TypeOK
  BY DEF RotationInv, Types, TypeOK, RequestFacts, Known
<1>. QED BY RotationInvariant, <1>1, PTL

(* refresh() revokes the token it exchanges before it issues the next one,  *)
(* however many tabs refresh at once and whatever fails in between.         *)
THEOREM ParentRevokedHolds == Spec => []ParentRevoked
<1>1. RotationInv => ParentRevoked
  BY DEF RotationInv
<1>. QED BY RotationInvariant, <1>1, PTL

-----------------------------------------------------------------------------
(* One request at a time.  As long as requests neither overlap nor fail, at *)
(* most one token of a session is live, and who may hold it is known: the   *)
(* cookie, or the request that is exchanging or revoking it.                *)

OneBusy == \A b \in Tabs, c \in Tabs : Busy(b) /\ Busy(c) => b = c

Live(t) == token[t] = "live"

\* No token of the session of t is live but, perhaps, t itself.
Newest(t) == \A u \in Tokens : Live(u) /\ root[u] = root[t] => u = t

\* No token of the session of t is live at all.
Dead(t) == \A u \in Tokens : Live(u) => root[u] # root[t]

\* The answer to this request will replace the cookie.
Replacing(r) == r.pc \in {"issue", "ok"}

HeldFacts(r) ==
  /\ r.pc \in {"read", "revoke", "out.read", "out.revoke"} /\ r.sent # None => Newest(r.sent)
  /\ r.pc = "revoke" => Live(r.sent)
  /\ r.pc = "issue" /\ r.kind = "refresh" => Dead(r.sent) /\ root[r.sent] \notin ended
  /\ r.pc = "ok" /\ r.kind # "logout" => Live(r.got) /\ Newest(r.got)
  /\ r.pc = "ok" /\ r.kind = "logout" /\ r.sent # None => Dead(r.sent)

CookieFacts ==
  cookie # None /\ (\A b \in Tabs : ~Replacing(req[b]))
    => token[cookie] # "revoked" /\ Newest(cookie)

SerialFacts ==
  /\ OneBusy
  /\ \A t \in Tokens : Live(t) => Newest(t) /\ root[t] \notin ended
  /\ \A b \in Tabs : HeldFacts(req[b])
  /\ CookieFacts

\* Sessions are named by tokens that were issued.
RootsKnown ==
  /\ \A t \in Tokens : Known(t) => Known(root[t])
  /\ \A t \in ended : Known(t)

SerialInv == RootsKnown /\ (~disturbed => SerialFacts)

-----------------------------------------------------------------------------
LEMMA RootsStep == RotationInv /\ RotationInv' /\ RootsKnown /\ [Next]_vars => RootsKnown'
<1>. SUFFICES ASSUME RotationInv, RotationInv', RootsKnown, [Next]_vars PROVE RootsKnown'
  OBVIOUS
<1>. Types /\ Types'
  BY DEF RotationInv
<1>1. CASE UNCHANGED <<token, root, ended>>
  BY <1>1 DEF RootsKnown, Known
<1>2. ASSUME NEW t \in Tokens, NEW s \in {"revoked", "expired"}, token[t] # "absent",
             token' = [token EXCEPT ![t] = s], UNCHANGED <<root, ended>>
      PROVE  RootsKnown'
  BY <1>2 DEF RootsKnown, Known, Types
<1>3. ASSUME NEW b \in Tabs, Revoke(b) \/ OutRevoke(b) PROVE RootsKnown'
  <2>1. req[b].sent \in Tokens /\ token[req[b].sent] # "absent"
    BY <1>3, NoneIsNoToken DEF Revoke, OutRevoke, RotationInv, RequestFacts, Known
  <2>. QED  BY <1>2, <1>3, <2>1 DEF Revoke, OutRevoke
<1>4. ASSUME NEW b \in Tabs, NEW t \in Tokens, Issue(b, t) PROVE RootsKnown'
  <2>. DEFINE old == IF req[b].kind = "refresh" THEN req[b].sent ELSE None
  <2>1. /\ token[t] = "absent" /\ token' = [token EXCEPT ![t] = "live"]
        /\ root' = [root EXCEPT ![t] = IF old = None THEN t ELSE root[old]]
        /\ ended' = ended
    BY <1>4 DEF Issue, IsNext
  <2>2. old # None => Known(old)
    BY <1>4 DEF Issue, RotationInv, RequestFacts
  <2>3. \A u \in Tokens : Known(u) => u # t /\ Known(u)' /\ root'[u] = root[u]
    BY <2>1 DEF Known, Types
  <2>4. Known(root[t])'
    BY <2>1, <2>2, <2>3 DEF RootsKnown, Known, Types
  <2>5. \A u \in Tokens : u # t /\ Known(u)' => Known(u)
    BY <2>1 DEF Known, Types
  <2>. QED  BY <2>1, <2>3, <2>4, <2>5 DEF RootsKnown, Known, Types
<1>5. ASSUME NEW b \in Tabs, LoggedOut(b) PROVE RootsKnown'
  <2>1. req[b].sent # None => Known(req[b].sent)
    BY <1>5 DEF RotationInv, RequestFacts
  <2>. QED  BY <1>5, <2>1 DEF LoggedOut, server, RootsKnown, Known
<1>6. ASSUME NEW t \in Tokens, TokenExpires(t) PROVE RootsKnown'
  BY <1>2, <1>6 DEF TokenExpires
<1>7. \/ \E b \in Tabs : Revoke(b) \/ OutRevoke(b) \/ LoggedOut(b) \/ \E t \in Tokens : Issue(b, t)
      \/ \E t \in Tokens : TokenExpires(t)
      \/ UNCHANGED <<token, root, ended>>
  BY DEF Next, Serve, Deliver, SendLogin, GuardRefresh, ClientRefresh, SendLogout, Send, Read,
         OutRead, GotToken, Failed, Fault, AccessExpires, Load, CookieExpires, server, vars
<1>. QED  BY <1>1, <1>3, <1>4, <1>5, <1>6, <1>7

-----------------------------------------------------------------------------
\* The part of SerialFacts about the tokens alone.
TokensGood == \A t \in Tokens : Live(t) => Newest(t) /\ root[t] \notin ended

\* A step of the one request under way.
LEMMA BusyStep ==
  ASSUME SerialFacts, NEW b \in Tabs, Busy(b), \A c \in Tabs \ {b} : req'[c] = req[c],
         HeldFacts(req[b])', TokensGood', CookieFacts'
  PROVE  SerialFacts'
<1>1. \A c \in Tabs \ {b} : req[c].pc = "idle"
  BY DEF SerialFacts, OneBusy, Busy
<1>2. \A c \in Tabs \ {b} : HeldFacts(req[c])'
  BY <1>1 DEF HeldFacts
<1>3. OneBusy'
  BY <1>1 DEF OneBusy, Busy
<1>. QED  BY <1>2, <1>3 DEF SerialFacts, TokensGood

\* ... that leaves the tokens and the cookie alone.
LEMMA QuietBusyStep ==
  ASSUME SerialFacts, NEW b \in Tabs, Busy(b), \A c \in Tabs \ {b} : req'[c] = req[c],
         HeldFacts(req[b])', UNCHANGED <<token, root, cookie, ended>>,
         Replacing(req[b]) => Replacing(req'[b])
  PROVE  SerialFacts'
<1>1. TokensGood'
  BY DEF SerialFacts, TokensGood, Live, Newest
<1>2. CookieFacts'
  <2>1. (\A c \in Tabs : ~Replacing(req'[c])) => \A c \in Tabs : ~Replacing(req[c])
    OBVIOUS
  <2>. QED  BY <2>1 DEF SerialFacts, CookieFacts, Live, Newest
<1>. QED  BY <1>1, <1>2, BusyStep

\* ... that revokes the token that it has sent.
LEMMA RevokeBusyStep ==
  ASSUME Types, SerialFacts, NEW b \in Tabs, Busy(b), \A c \in Tabs \ {b} : req'[c] = req[c],
         NEW t \in Tokens, Newest(t), token' = [token EXCEPT ![t] = "revoked"],
         UNCHANGED <<root, cookie, ended>>, Replacing(req'[b]),
         Dead(t)' => HeldFacts(req[b])'
  PROVE  SerialFacts'
<1>1. \A u \in Tokens : Live(u)' => Live(u) /\ u # t
  BY DEF Live, Types
<1>2. Dead(t)'
  BY <1>1 DEF Dead, Newest
<1>3. TokensGood'
  BY <1>1 DEF SerialFacts, TokensGood, Newest
<1>4. CookieFacts'
  BY DEF CookieFacts
<1>. QED  BY <1>2, <1>3, <1>4, BusyStep

\* A request is sent: everything it may rely on holds while nobody is busy.
LEMMA SendStep ==
  ASSUME Types, SerialFacts, NEW b \in Tabs, NEW kind, NEW s, Send(b, kind, s), ~disturbed',
         <<kind, s>> \in {<<"login", "issue">>, <<"refresh", "read">>, <<"logout", "out.read">>}
  PROVE  SerialFacts'
<1>1. /\ req'[b] = [pc |-> s, kind |-> kind, sent |-> cookie, got |-> None]
      /\ \A c \in Tabs \ {b} : req'[c] = req[c]
      /\ \A c \in Tabs : req[c].pc = "idle"
      /\ UNCHANGED <<token, root, cookie, ended>>
  BY DEF Send, Types, Busy, server, browser
<1>2. \A c \in Tabs : ~Replacing(req[c])
  BY <1>1 DEF Replacing
<1>3. HeldFacts(req[b])'
  BY <1>1, <1>2 DEF SerialFacts, CookieFacts, HeldFacts, Newest, Live
<1>4. \A c \in Tabs \ {b} : HeldFacts(req[c])'
  BY <1>1 DEF HeldFacts
<1>5. OneBusy'
  BY <1>1 DEF OneBusy, Busy
<1>6. CookieFacts'
  BY <1>1, <1>2 DEF SerialFacts, CookieFacts, Newest, Live
<1>. QED  BY <1>1, <1>3, <1>4, <1>5, <1>6 DEF SerialFacts, Live, Newest

\* A token is issued, of a new session or of one of which none is live.
LEMMA IssueStep ==
  ASSUME RotationInv, RotationInv', RootsKnown, SerialFacts, NEW b \in Tabs, NEW t \in Tokens,
         Issue(b, t)
  PROVE  SerialFacts'
<1>. Types /\ Types'
  BY DEF RotationInv
<1>. DEFINE old == IF req[b].kind = "refresh" THEN req[b].sent ELSE None
            r == IF old = None THEN t ELSE root[old]
<1>1. /\ req[b].pc = "issue" /\ token[t] = "absent" /\ token' = [token EXCEPT ![t] = "live"]
      /\ root' = [root EXCEPT ![t] = r]
      /\ req' = [req EXCEPT ![b].pc = "ok", ![b].got = t]
      /\ UNCHANGED <<cookie, ended>>
  BY DEF Issue, IsNext, browser
<1>2. /\ req'[b].pc = "ok" /\ req'[b].kind = req[b].kind /\ req'[b].got = t
      /\ \A c \in Tabs \ {b} : req'[c] = req[c]
  BY <1>1 DEF Types, Request
<1>3. req[b].kind \in {"login", "refresh"}
  BY <1>1 DEF RotationInv, RequestFacts
<1>4. r \notin ended /\ \A u \in Tokens : Live(u) => root[u] # r
  <2>1. CASE old = None
    <3>1. ~Known(t)
      BY <1>1 DEF Known
    <3>. QED  BY <2>1, <3>1 DEF RootsKnown, Known, Live
  <2>2. CASE old # None
    BY <1>1, <2>2 DEF SerialFacts, HeldFacts, Dead
  <2>. QED  BY <2>1, <2>2
<1>5. /\ root'[t] = r
      /\ \A u \in Tokens : Live(u)' /\ u # t => Live(u) /\ root'[u] = root[u]
  BY <1>1 DEF Live, Types
<1>6. TokensGood' /\ Newest(t)'
  BY <1>1, <1>4, <1>5 DEF SerialFacts, TokensGood, Newest
<1>7. HeldFacts(req[b])'
  BY <1>1, <1>2, <1>3, <1>6 DEF HeldFacts, Live, Types
<1>8. CookieFacts'
  BY <1>2 DEF CookieFacts, Replacing
<1>. QED  BY <1>1, <1>2, <1>6, <1>7, <1>8, BusyStep DEF Busy

LEMMA SerialStep == RotationInv /\ RotationInv' /\ RootsKnown /\ SerialInv /\ [Next]_vars => SerialInv'
<1>. SUFFICES ASSUME RotationInv, RotationInv', RootsKnown, SerialInv, [Next]_vars, ~disturbed'
              PROVE  SerialFacts'
  BY RootsStep DEF SerialInv
<1>. Types /\ Types'
  BY DEF RotationInv
<1>a. SerialFacts
  <2>1. disturbed => disturbed'
    BY DEF Next, Serve, Deliver, SendLogin, GuardRefresh, ClientRefresh, SendLogout, Send, Read,
           Revoke, Issue, OutRead, OutRevoke, GotToken, LoggedOut, Failed, Fault, AccessExpires,
           Load, CookieExpires, TokenExpires, vars
  <2>. QED  BY <2>1 DEF SerialInv
<1>1. ASSUME NEW b \in Tabs, SendLogin(b) \/ GuardRefresh(b) \/ ClientRefresh(b) \/ SendLogout(b)
      PROVE  SerialFacts'
  BY <1>a, <1>1, SendStep DEF SendLogin, GuardRefresh, ClientRefresh, SendLogout
<1>2. ASSUME NEW b \in Tabs, Read(b) PROVE SerialFacts'
  <2>. DEFINE s == IF Usable(req[b].sent) THEN "revoke" ELSE "failed"
  <2>1. /\ Step(b, s) /\ s \in Steps /\ req[b].pc = "read"
        /\ UNCHANGED <<token, root, cookie, ended>>
    BY <1>2 DEF Read, Steps, server, browser
  <2>2. /\ req'[b].pc = s /\ req'[b].sent = req[b].sent
        /\ \A c \in Tabs \ {b} : req'[c] = req[c]
    BY <2>1, StepMoves
  <2>3. HeldFacts(req[b])'
    BY <1>a, <2>1, <2>2 DEF SerialFacts, HeldFacts, Usable, Live, Newest
  <2>. QED  BY <1>a, <2>1, <2>2, <2>3, QuietBusyStep DEF Busy, Replacing
<1>3. ASSUME NEW b \in Tabs, Revoke(b) PROVE SerialFacts'
  <2>1. /\ Step(b, "issue") /\ "issue" \in Steps /\ req[b].pc = "revoke"
        /\ token' = [token EXCEPT ![req[b].sent] = "revoked"]
        /\ UNCHANGED <<root, cookie, ended>>
    BY <1>3 DEF Revoke, Steps, browser
  <2>2. /\ req'[b].pc = "issue" /\ req'[b].sent = req[b].sent
        /\ \A c \in Tabs \ {b} : req'[c] = req[c]
    BY <2>1, StepMoves
  <2>3. req[b].sent \in Tokens /\ req[b].sent # None
    BY <2>1, NoneIsNoToken DEF RotationInv, RequestFacts
  <2>4. Newest(req[b].sent) /\ root[req[b].sent] \notin ended
    BY <1>a, <2>1, <2>3 DEF SerialFacts, HeldFacts
  <2>5. Dead(req[b].sent)' => HeldFacts(req[b])'
    BY <2>1, <2>2, <2>4 DEF HeldFacts, Dead
  <2>. QED  BY <1>a, <2>1, <2>2, <2>3, <2>4, <2>5, RevokeBusyStep DEF Busy, Replacing
<1>4. ASSUME NEW b \in Tabs, NEW t \in Tokens, Issue(b, t) PROVE SerialFacts'
  BY <1>a, <1>4, IssueStep
<1>5. ASSUME NEW b \in Tabs, OutRead(b) PROVE SerialFacts'
  <2>. DEFINE s == IF req[b].sent \in Tokens THEN "out.revoke" ELSE "ok"
  <2>1. /\ Step(b, s) /\ s \in Steps /\ req[b].pc = "out.read"
        /\ UNCHANGED <<token, root, cookie, ended>>
    BY <1>5 DEF OutRead, Steps, server, browser
  <2>2. /\ req'[b].pc = s /\ req'[b].sent = req[b].sent /\ req'[b].kind = req[b].kind
        /\ \A c \in Tabs \ {b} : req'[c] = req[c]
    BY <2>1, StepMoves
  <2>3. req[b].kind = "logout" /\ req[b].sent \in Tokens \cup {None}
    BY <2>1 DEF RotationInv, RequestFacts, Types, Request
  <2>4. HeldFacts(req[b])'
    BY <1>a, <2>1, <2>2, <2>3 DEF SerialFacts, HeldFacts, Live, Newest
  <2>. QED  BY <1>a, <2>1, <2>2, <2>4, QuietBusyStep DEF Busy, Replacing
<1>6. ASSUME NEW b \in Tabs, OutRevoke(b) PROVE SerialFacts'
  <2>1. /\ Step(b, "ok") /\ "ok" \in Steps /\ req[b].pc = "out.revoke"
        /\ token' = [token EXCEPT ![req[b].sent] = "revoked"]
        /\ UNCHANGED <<root, cookie, ended>>
    BY <1>6 DEF OutRevoke, Steps, browser
  <2>2. /\ req'[b].pc = "ok" /\ req'[b].sent = req[b].sent /\ req'[b].kind = req[b].kind
        /\ \A c \in Tabs \ {b} : req'[c] = req[c]
    BY <2>1, StepMoves
  <2>3. req[b].sent \in Tokens /\ req[b].sent # None /\ req[b].kind = "logout"
    BY <2>1, NoneIsNoToken DEF RotationInv, RequestFacts
  <2>4. Newest(req[b].sent)
    BY <1>a, <2>1, <2>3 DEF SerialFacts, HeldFacts
  <2>5. Dead(req[b].sent)' => HeldFacts(req[b])'
    BY <2>1, <2>2, <2>3 DEF HeldFacts, Dead
  <2>. QED  BY <1>a, <2>1, <2>2, <2>3, <2>4, <2>5, RevokeBusyStep DEF Busy, Replacing
<1>7. ASSUME NEW b \in Tabs, GotToken(b) PROVE SerialFacts'
  <2>1. /\ req'[b].pc = "idle" /\ \A c \in Tabs \ {b} : req'[c] = req[c]
        /\ cookie' = req[b].got /\ UNCHANGED <<token, root, ended>>
    BY <1>7 DEF GotToken, NoRequest, server, Types
  <2>2. Live(req[b].got) /\ Newest(req[b].got)
    BY <1>a, <1>7 DEF GotToken, SerialFacts, HeldFacts
  <2>3. CookieFacts'
    BY <2>1, <2>2 DEF CookieFacts, Live, Newest
  <2>4. TokensGood' /\ HeldFacts(req[b])'
    BY <1>a, <2>1 DEF SerialFacts, TokensGood, Live, Newest, HeldFacts
  <2>. QED  BY <1>a, <1>7, <2>1, <2>3, <2>4, BusyStep DEF Busy, GotToken
<1>8. ASSUME NEW b \in Tabs, LoggedOut(b) PROVE SerialFacts'
  <2>1. /\ req'[b].pc = "idle" /\ \A c \in Tabs \ {b} : req'[c] = req[c]
        /\ cookie' = None /\ UNCHANGED <<token, root>>
        /\ ended' = IF req[b].sent = None THEN ended ELSE ended \cup {root[req[b].sent]}
    BY <1>8 DEF LoggedOut, NoRequest, server, Types
  <2>2. req[b].sent # None => Dead(req[b].sent)
    BY <1>a, <1>8 DEF LoggedOut, SerialFacts, HeldFacts
  <2>3. TokensGood'
    BY <1>a, <2>1, <2>2 DEF SerialFacts, TokensGood, Dead, Live, Newest
  <2>4. HeldFacts(req[b])' /\ CookieFacts'
    BY <2>1 DEF HeldFacts, CookieFacts
  <2>. QED  BY <1>a, <1>8, <2>1, <2>3, <2>4, BusyStep DEF Busy, LoggedOut
<1>9. ASSUME NEW b \in Tabs, Failed(b) PROVE SerialFacts'
  <2>1. /\ req'[b].pc = "idle" /\ \A c \in Tabs \ {b} : req'[c] = req[c]
        /\ UNCHANGED <<token, root, cookie, ended>>
    BY <1>9 DEF Failed, NoRequest, server, Types
  <2>2. HeldFacts(req[b])'
    BY <2>1 DEF HeldFacts
  <2>. QED  BY <1>a, <1>9, <2>1, <2>2, QuietBusyStep DEF Busy, Replacing, Failed
<1>10. ASSUME UNCHANGED <<token, root, req, ended>>, cookie' \in {cookie, None} PROVE SerialFacts'
  <2>1. \A b \in Tabs : HeldFacts(req[b])'
    BY <1>a, <1>10 DEF SerialFacts, HeldFacts, Live, Newest, Dead
  <2>2. CookieFacts'
    BY <1>a, <1>10 DEF SerialFacts, CookieFacts, Newest, Live
  <2>. QED  BY <1>a, <1>10, <2>1, <2>2 DEF SerialFacts, OneBusy, Busy, Live, Newest
<1>11. CASE \/ \E b \in Tabs : AccessExpires(b) \/ \E p \in {"app", "login"} : Load(b, p)
            \/ CookieExpires \/ UNCHANGED vars
  BY <1>10, <1>11 DEF AccessExpires, Load, CookieExpires, server, vars
<1>12. ASSUME NEW t \in Tokens, TokenExpires(t) PROVE SerialFacts'
  <2>1. /\ \A u \in Tokens : Live(u)' => Live(u)
        /\ \A u \in Tokens : u # t => (Live(u)' <=> Live(u))
        /\ \A u \in Tokens : token'[u] = "revoked" => token[u] = "revoked"
        /\ UNCHANGED <<root, cookie, req, ended>>
    BY <1>12 DEF TokenExpires, Live, Types, browser
  <2>2. /\ \A u : Newest(u) => Newest(u)'
        /\ \A u : Dead(u) => Dead(u)'
    BY <2>1 DEF Newest, Dead
  <2>3. ASSUME NEW b \in Tabs PROVE HeldFacts(req[b])'
    <3>1. t # req[b].sent /\ t # req[b].got
      BY <1>12 DEF TokenExpires
    <3>2. /\ req[b].pc = "revoke" => req[b].sent \in Tokens
          /\ req[b].pc = "ok" /\ req[b].kind # "logout" => req[b].got \in Tokens
      BY DEF RotationInv, RequestFacts, Known
    <3>3. HeldFacts(req[b])
      BY <1>a DEF SerialFacts
    <3>. QED  BY <2>1, <2>2, <3>1, <3>2, <3>3 DEF HeldFacts
  <2>4. CookieFacts'
    BY <1>a, <2>1, <2>2 DEF SerialFacts, CookieFacts, Types
  <2>. QED  BY <1>a, <2>1, <2>2, <2>3, <2>4 DEF SerialFacts, OneBusy, Busy
<1>13. ASSUME NEW b \in Tabs, Fault(b) PROVE FALSE
  BY <1>13 DEF Fault
<1>. QED  BY <1>1, <1>2, <1>3, <1>4, <1>5, <1>6, <1>7, <1>8, <1>9, <1>11, <1>12, <1>13
     DEF Next, Serve, Deliver

LEMMA SerialInvariant == Spec => []SerialInv
<1>1. Init => SerialInv
  BY DEF Init, SerialInv, RootsKnown, SerialFacts, OneBusy, Busy, NoRequest, Live, HeldFacts,
         CookieFacts, Known
<1>2. SerialInv => RootsKnown
  BY DEF SerialInv
<1>. QED  BY <1>1, <1>2, RotationInvariant, SerialStep, PTL DEF Spec

(* Until requests overlap or fail, no login is left with two live refresh   *)
(* tokens (refresh revokes one before it issues the next).                  *)
THEOREM OneLivePerLoginHolds == Spec => []OneLivePerLogin
<1>1. SerialInv => OneLivePerLogin
  BY DEF SerialInv, SerialFacts, OneLivePerLogin, Live, Newest
<1>. QED  BY <1>1, SerialInvariant, PTL

(* Until requests overlap or fail, the browser is never left with a cookie  *)
(* that has been revoked: each answer brings the token that replaces it.    *)
THEOREM CookieUsableHolds == Spec => []CookieUsable
<1>1. SerialInv => CookieUsable
  BY DEF SerialInv, SerialFacts, CookieFacts, CookieUsable, Quiescent, Replacing
<1>. QED  BY <1>1, SerialInvariant, PTL

(* Until requests overlap or fail, logout revokes whatever token of the     *)
(* session is still live: the one that it is sent.                          *)
THEOREM LogoutEndsSessionHolds == Spec => []LogoutEndsSession
<1>1. SerialInv => LogoutEndsSession
  BY DEF SerialInv, SerialFacts, LogoutEndsSession, Live
<1>. QED  BY <1>1, SerialInvariant, PTL
=============================================================================
