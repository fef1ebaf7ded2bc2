---------------------------- MODULE AdminSession ----------------------------
(***************************************************************************)
(* A browser's session with the admin API: the refresh token and the CSRF  *)
(* token in cookies, the access token and a copy of the CSRF token in      *)
(* memory.  A load of the page, and every 401, asks for a CSRF token and   *)
(* then exchanges the refresh token (services/api-client.ts,               *)
(* components/shared/auth-hydrator.tsx, store/auth-store.ts).  A request   *)
(* carries the cookies of the moment it is sent; an answer sets those of   *)
(* the moment it arrives; a reload abandons answers, never requests.       *)
(***************************************************************************)
EXTENDS Naturals, FiniteSets

CONSTANTS
  MaxRefresh,  \* bound on the refresh tokens issued
  MaxCsrf,     \* bound on the CSRF tokens issued
  MaxLoads     \* bound on the times the page is loaded

ASSUME SessionAssumption == MaxRefresh \in Nat /\ MaxCsrf \in Nat /\ MaxLoads \in Nat

VARIABLES
  tab,    \* useAuthStore, gone with the page
  jar,    \* the two cookies
  flow,   \* the renewal under way
  form,   \* the sign-in under way
  out,    \* the sign-out under way
  late,   \* a request of an abandoned page that may still reach the server
  keys    \* the server's refresh tokens

browser == <<tab, jar, flow, form, out, late, keys>>

None      == 0
Refreshes == 1..MaxRefresh
Csrfs     == 0..MaxCsrf
NoReq     == [at |-> "idle", tok |-> None, ck |-> None, hdr |-> None, new |-> None, newc |-> None]

Closed    == [loads |-> 0, hydrated |-> FALSE, access |-> "none", csrf |-> None]
EmptyJar  == [tok |-> None, csrf |-> None]

SessionTypeOK ==
  /\ tab \in [loads : 0..MaxLoads, hydrated : BOOLEAN, access : {"none", "good", "stale"}, csrf : Csrfs]
  /\ jar \in [tok : Refreshes \cup {None}, csrf : Csrfs]
  /\ {flow, form, out} \cup late \subseteq
       [at : {"idle", "login", "csrf", "refresh", "rotate", "logout",
              "loginOk", "csrfOk", "refreshOk", "logoutOk", "refused"},
        tok : Refreshes \cup {None}, ck : Csrfs, hdr : Csrfs, new : Refreshes \cup {None}, newc : Csrfs]
  /\ keys \in [issued : 0..MaxRefresh, csrfs : Csrfs, live : SUBSET Refreshes, spent : SUBSET Refreshes,
               family : [Refreshes -> 0..MaxRefresh]]

SessionInit ==
  /\ tab = Closed /\ jar = EmptyJar
  /\ flow = NoReq /\ form = NoReq /\ out = NoReq /\ late = {}
  /\ keys = [issued |-> 0, csrfs |-> 0, live |-> {}, spent |-> {},
             family |-> [t \in Refreshes |-> None]]

-----------------------------------------------------------------------------
(* What the page shows: a loader until the store is hydrated, the sign-in  *)
(* form without an access token, the workspace with one.                   *)
Loader    == tab.loads > 0 /\ ~tab.hydrated
LoginPage == tab.hydrated /\ tab.access = "none"
Workspace == tab.hydrated /\ tab.access # "none"

Send(at, j, hdr) == [NoReq EXCEPT !.at = at, !.tok = j.tok, !.ck = j.csrf, !.hdr = hdr]

Unserved == {r \in {flow, form, out} : r.at \in {"login", "csrf", "refresh", "rotate", "logout"}}

(* Loading the page forgets the store and starts a renewal.                *)
Load ==
  /\ tab.loads < MaxLoads
  /\ tab' = [Closed EXCEPT !.loads = tab.loads + 1]
  /\ flow' = Send("csrf", jar, None)
  /\ form' = NoReq /\ out' = NoReq
  /\ late' \in {late} \cup {{r} : r \in Unserved}
  /\ UNCHANGED <<jar, keys>>

(* A request refused with 401 joins the renewal under way or starts one.   *)
Renew ==
  /\ Workspace /\ tab.access = "stale" /\ flow.at = "idle"
  /\ flow' = Send("csrf", jar, None)
  /\ UNCHANGED <<tab, jar, form, out, late, keys>>

AccessExpires ==
  /\ tab.access = "good"
  /\ tab' = [tab EXCEPT !.access = "stale"]
  /\ UNCHANGED <<jar, flow, form, out, late, keys>>

(* The form waits for its own answer only: a renewal begun before the      *)
(* sign-out may still be under way.                                        *)
SubmitLogin ==
  /\ LoginPage /\ form.at = "idle"
  /\ form' = Send("login", jar, None)
  /\ UNCHANGED <<tab, jar, flow, out, late, keys>>

HandleLogout ==
  /\ Workspace /\ out.at = "idle"
  /\ out' = Send("logout", jar, tab.csrf)
  /\ UNCHANGED <<tab, jar, flow, form, late, keys>>

-----------------------------------------------------------------------------
(* The server.  The exchange spends a refresh token, and one that comes    *)
(* back spent revokes whatever its family still has.  But the exchange     *)
(* decides on the row as the request first read it, without a lock.        *)
Grant(t, fam, spent) ==
  [keys EXCEPT !.issued = @ + 1, !.csrfs = @ + 1,
               !.live = (@ \ {t}) \cup {keys.issued + 1},
               !.spent = @ \cup spent,
               !.family[keys.issued + 1] = fam]

Rotate(t) == Grant(t, keys.family[t], {t})

Replay(t) ==
  [keys EXCEPT !.live = {u \in @ : keys.family[u] # keys.family[t]}]

Known(t) == t \in 1..keys.issued              \* seeded fault: the row is there, revoked or not
Valid(t) == t \in keys.live

Answered(r, at) == [r EXCEPT !.at = at, !.new = keys'.issued, !.newc = keys'.csrfs]

ServeLogin(r) ==
  /\ r.at = "login" /\ keys.issued < MaxRefresh /\ keys.csrfs < MaxCsrf
  /\ keys' = Grant(None, keys.issued + 1, {})

ServeCsrf(r) ==
  /\ r.at = "csrf" /\ Valid(r.tok) /\ keys.csrfs < MaxCsrf
  /\ keys' = [keys EXCEPT !.csrfs = @ + 1]

(* The row is read here for the CSRF check; the locked select that follows *)
(* returns the object already loaded, whatever was committed meanwhile.    *)
ReadRefresh(r) ==
  /\ r.at = "refresh" /\ r.ck = r.hdr /\ Valid(r.tok)
  /\ keys' = keys

ServeRotate(r) ==
  /\ r.at = "rotate" /\ keys.issued < MaxRefresh /\ keys.csrfs < MaxCsrf
  /\ keys' = Rotate(r.tok)

ServeLogout(r) ==
  /\ r.at = "logout" /\ (r.tok = None \/ r.ck = r.hdr)
  /\ keys' = [keys EXCEPT !.live = @ \ {r.tok}]

DetectReplay(r) ==
  /\ r.at \in {"csrf", "refresh"} /\ r.tok \in keys.spent
  /\ r.at = "refresh" => r.ck = r.hdr
  /\ keys' = Replay(r.tok)

(* Refused without a change, or lost on the way.                           *)
Refuse == keys' = keys

OkOf == [login |-> "loginOk", csrf |-> "csrfOk", refresh |-> "rotate", rotate |-> "refreshOk",
         logout |-> "logoutOk"]

Outcome(r, at) ==
  \/ /\ ServeLogin(r) \/ ServeCsrf(r) \/ ReadRefresh(r) \/ ServeRotate(r) \/ ServeLogout(r)
     /\ at = OkOf[r.at]
  \/ (DetectReplay(r) \/ Refuse) /\ at = "refused"

Serve ==
  \/ /\ flow \in Unserved
     /\ \E at \in {OkOf[flow.at], "refused"} : Outcome(flow, at) /\ flow' = Answered(flow, at)
     /\ UNCHANGED <<tab, jar, form, out, late>>
  \/ /\ form \in Unserved
     /\ \E at \in {OkOf[form.at], "refused"} : Outcome(form, at) /\ form' = Answered(form, at)
     /\ UNCHANGED <<tab, jar, flow, out, late>>
  \/ /\ out \in Unserved
     /\ \E at \in {OkOf[out.at], "refused"} : Outcome(out, at) /\ out' = Answered(out, at)
     /\ UNCHANGED <<tab, jar, flow, form, late>>

(* An abandoned request is forgotten once served; one that has only read   *)
(* its token is not served yet.                                            *)
ServeLate ==
  /\ \E r \in late : \E at \in {OkOf[r.at], "refused"} :
       /\ Outcome(r, at)
       /\ late' = {q \in {Answered(r, at)} : q.at = "rotate"}
  /\ UNCHANGED <<tab, jar, flow, form, out>>

-----------------------------------------------------------------------------
(* Answers.  Any of them may be lost instead, and counts as a refusal.     *)
StaleClear(t) == [t EXCEPT !.access = "none", !.csrf = None]     \* seeded fault
ClearAuth(t)  == [t EXCEPT !.access = "none", !.csrf = None, !.hydrated = TRUE]

KeepCsrf(t, csrf) == [t EXCEPT !.access = "good", !.hydrated = TRUE]   \* seeded fault
SetAuth(t, csrf)  == [t EXCEPT !.access = "good", !.csrf = csrf, !.hydrated = TRUE]

CsrfArrives ==
  /\ flow.at = "csrfOk"
  /\ jar' = [tok |-> flow.tok, csrf |-> flow.newc]
  /\ flow' = Send("refresh", jar', flow.newc)
  /\ UNCHANGED <<tab, form, out, late, keys>>

Opens(r) ==
  /\ jar' = [tok |-> r.new, csrf |-> r.newc]
  /\ tab' = SetAuth(tab, r.newc)

SessionArrives ==
  \/ /\ flow.at = "refreshOk" /\ Opens(flow)
     /\ flow' = NoReq /\ UNCHANGED <<form, out, late, keys>>
  \/ /\ form.at = "loginOk" /\ Opens(form)
     /\ form' = NoReq /\ UNCHANGED <<flow, out, late, keys>>

RenewalFails ==
  /\ flow.at \in {"refused", "csrfOk", "refreshOk"}
  /\ tab' = ClearAuth(tab)
  /\ flow' = NoReq
  /\ UNCHANGED <<jar, form, out, late, keys>>

LoginFails ==
  /\ form.at \in {"refused", "loginOk"}
  /\ form' = NoReq
  /\ UNCHANGED <<tab, jar, flow, out, late, keys>>

LogoutEnds ==
  /\ out.at \in {"refused", "logoutOk"}
  /\ jar' \in IF out.at = "logoutOk" THEN {EmptyJar, jar} ELSE {jar}
  /\ tab' = ClearAuth(tab)
  /\ out' = NoReq
  /\ UNCHANGED <<flow, form, late, keys>>

FlowMoves == Serve \/ CsrfArrives \/ SessionArrives \/ RenewalFails \/ LoginFails \/ LogoutEnds

SessionNext ==
  Load \/ Renew \/ AccessExpires \/ SubmitLogin \/ HandleLogout \/ ServeLate \/ FlowMoves

(* Every request of the browser ends, answered or timed out.               *)
SessionSpec == SessionInit /\ [][SessionNext]_browser /\ WF_browser(FlowMoves)

-----------------------------------------------------------------------------
(* A session that has ended, all its refresh tokens spent, signed out or   *)
(* revoked and none being exchanged, stays ended: no abandoned request, no *)
(* renewal under way and no copy of its cookies brings it back.            *)
Over(f)   == \A t \in keys.live : keys.family[t] # f
Racing(f) == \E r \in {flow, form, out} \cup late : r.at = "rotate" /\ keys.family[r.tok] = f
Ended(f)  == Over(f) /\ ~Racing(f)

EndedStaysEnded == [][\A f \in 1..keys.issued : Ended(f) => Ended(f)']_browser

(* "Refresh-token replay revokes every live token in its family": serving  *)
(* a renewal whose token is spent leaves its family no live token.         *)
Replayed(r) ==
  /\ r.at \in {"csrf", "refresh", "rotate"} /\ r.tok \in keys.spent
  /\ r \notin {flow'} \cup late' /\ keys' # keys

ReplayRevokesFamily ==
  [][\A r \in {flow} \cup late :
       Replayed(r) => \A t \in keys'.live : keys'.family[t] # keys.family[r.tok]]_browser

(* But between the two answers of a renewal, and after its refusal until   *)
(* the page has heard of it, the CSRF token that signing out will present  *)
(* is the one the browser's cookie holds, so that the server takes it.     *)
SignOutHeeded ==
  Workspace /\ flow.at \in {"idle", "csrf", "csrfOk"} => tab.csrf = jar.csrf

(* A page that is loading ends on the workspace or on the sign-in form,    *)
(* since every request ends, answered or timed out.                        *)
LoaderEnds == Loader ~> tab.hydrated
=============================================================================
