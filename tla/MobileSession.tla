--------------------------- MODULE MobileSession ---------------------------
(***************************************************************************)
(* The session of a mobile app: the tokens in the device's secure storage, *)
(* the copy of the session the screens are chosen by, the calls under way, *)
(* and the renewal of an expired access token (shared/lib/http.ts,         *)
(* shared/lib/auth-storage.ts, shared/store/auth.store.ts,                 *)
(* shared/screens/LegalAcceptanceGate.tsx).  Storage outlives the process, *)
(* the store does not; each write of either is a step, and the process may *)
(* be killed between any two.                                              *)
(*                                                                         *)
(* One pair of tokens is one number: the access token is good while the    *)
(* number is in srv.fresh, the refresh token while it is in srv.live.      *)
(***************************************************************************)
EXTENDS Naturals, FiniteSets

CONSTANTS
  Calls,      \* requests the app may have under way at once
  MaxToken,   \* bound on the pairs of tokens the server issues
  MaxCode     \* bound on the codes it sends

ASSUME MobileAssumption == MaxToken \in Nat /\ MaxCode \in Nat

VARIABLES
  app,        \* which of the two apps the build is: "worker" or "client"
  disk,       \* SecureStore
  auth,       \* useAuthStore
  gate,       \* LegalAcceptanceGate, mounted while there is a token
  calls,      \* requests between being sent and being settled
  swap,       \* refreshPromise: the refresh token being exchanged
  srv,        \* what the server knows of the account
  form,       \* the handler running on the screen shown, and its fields
  unlocked    \* the biometric prompt was passed since launch or sign-in

session == <<app, disk, auth, gate, calls, swap, srv, form, unlocked>>

NoToken == 0
Tokens  == 1..MaxToken
Steps   == {"none", "identity_uploaded", "profile_submitted", "approved"}
GatePcs == {"off", "loading", "failed", "asking", "open"}
CallPcs == {"idle", "sent", "told", "refused", "clear", "leave"}
Files   == {"id", "selfie"}
Pages   == {"welcome", "login", "otp"}

Blank      == [tok |-> NoToken, step |-> "none", bio |-> FALSE, complete |-> FALSE]
Store(up, d, complete) ==
  [up |-> up, tok |-> d.tok, step |-> d.step, bio |-> d.bio, complete |-> complete]
SignedOut  == Store(TRUE, Blank, FALSE)
NotStarted == Store(FALSE, Blank, FALSE)
NoCall     == [pc |-> "idle", tok |-> NoToken, of |-> "other"]
NoForm     == [pc |-> "idle", tok |-> NoToken, files |-> {}, page |-> "welcome",
               typed |-> 0, cool |-> FALSE, resend |-> FALSE]

TypeOK ==
  /\ app \in {"worker", "client"}
  /\ disk \in [tok : Tokens \cup {NoToken}, step : Steps, bio : BOOLEAN, complete : BOOLEAN]
  /\ auth \in [tok : Tokens \cup {NoToken}, step : Steps, bio : BOOLEAN, complete : BOOLEAN,
               up : BOOLEAN]
  /\ gate \in GatePcs
  /\ calls \in [Calls -> [pc : CallPcs, tok : Tokens \cup {NoToken}, of : {"poll", "other"}]]
  /\ swap \in Tokens \cup {NoToken}
  /\ srv \in [step : Steps, ever : BOOLEAN, profile : BOOLEAN, legal : BOOLEAN,
              code : 0..MaxCode, used : BOOLEAN, issued : 0..MaxToken, live : SUBSET Tokens, fresh : SUBSET Tokens]
  /\ form \in [pc : {"idle", "sending", "verifying", "provider", "social", "probe", "enter", "leaving", "uploading", "identity", "identityStored",
                     "submitting", "profile", "profileStored", "prompt", "bioStored",
                     "saving", "saved"},
               tok : Tokens \cup {NoToken}, files : SUBSET Files, page : Pages,
               typed : 0..MaxCode, cool : BOOLEAN, resend : BOOLEAN]
  /\ unlocked \in BOOLEAN

Init ==
  /\ app \in {"worker", "client"}
  /\ disk = Blank
  /\ auth = NotStarted
  /\ gate = "off"
  /\ calls = [c \in Calls |-> NoCall]
  /\ swap = NoToken
  /\ srv = [step |-> "none", ever |-> FALSE, profile |-> FALSE, legal |-> FALSE,
            code |-> 0, used |-> FALSE, issued |-> 0,
            live |-> {}, fresh |-> {}]
  /\ form = NoForm
  /\ unlocked = FALSE

(* The gate is mounted with the first token and unmounted with the last.   *)
GateFor(a) == IF ~a.up \/ a.tok = NoToken THEN "off"
              ELSE IF gate = "off" THEN "loading" ELSE gate

SetAuth(a) == auth' = a /\ gate' = GateFor(a)

Screened == auth.up /\ auth.tok # NoToken /\ gate = "open"

-----------------------------------------------------------------------------
(* The process.                                                            *)
Kill ==
  /\ auth' = NotStarted
  /\ gate' = "off"
  /\ calls' = [c \in Calls |-> NoCall]
  /\ swap' = NoToken
  /\ form' = NoForm
  /\ unlocked' = FALSE
  /\ UNCHANGED <<app, disk, srv>>

(* The worker app starts every launch locked; the client app trusts the    *)
(* flag it stored.                                                         *)
StoredComplete  == disk.complete \/ disk.bio    \* seeded fault: the lock is not asked for again
HydrateComplete == app = "client" /\ disk.complete

Hydrate ==
  /\ ~auth.up
  /\ SetAuth(Store(TRUE, disk, HydrateComplete))
  /\ UNCHANGED <<app, disk, calls, swap, srv, form, unlocked>>

-----------------------------------------------------------------------------
(* Calls: the request interceptor reads the token from storage, the        *)
(* response interceptor renews it once on a 401.                           *)
Send(c, of) ==
  /\ calls[c].pc = "idle"
  /\ calls' = [calls EXCEPT ![c] = [pc |-> "sent", tok |-> disk.tok, of |-> of]]

(* The screens' own requests; the review screen has none but its polls.    *)
Ask(c) ==
  /\ auth.up /\ auth.tok # NoToken /\ auth.step # "profile_submitted"
  /\ Send(c, "other")
  /\ UNCHANGED <<app, disk, auth, gate, swap, srv, form, unlocked>>

Accepted(c) == calls[c].pc = "sent" /\ calls[c].tok \in srv.fresh
Settled(c)  == calls' = [calls EXCEPT ![c] = NoCall]

Answer(c) ==
  /\ Accepted(c) /\ calls[c].of = "other"
  /\ Settled(c)
  /\ UNCHANGED <<app, disk, auth, gate, swap, srv, form, unlocked>>

Drop(c) ==
  /\ calls[c].pc = "sent"
  /\ Settled(c)
  /\ UNCHANGED <<app, disk, auth, gate, swap, srv, form, unlocked>>

(* A 401 joins the renewal under way or starts one, which ends at once     *)
(* when storage holds no refresh token.                                    *)
Refuse(c) ==
  /\ calls[c].pc = "sent" /\ calls[c].tok \notin srv.fresh
  /\ IF swap = NoToken /\ disk.tok = NoToken
       THEN /\ calls' = [calls EXCEPT ![c].pc = "clear"]
            /\ UNCHANGED swap
       ELSE /\ calls' = [calls EXCEPT ![c].pc = "refused"]
            /\ swap' = IF swap = NoToken THEN disk.tok ELSE swap
  /\ UNCHANGED <<app, disk, auth, gate, srv, form, unlocked>>

Waiting == {c \in Calls : calls[c].pc = "refused"}
GiveUp  == calls' = [c \in Calls |-> IF c \in Waiting THEN [calls[c] EXCEPT !.pc = "clear"]
                                     ELSE calls[c]]

(* The server exchanges the refresh token and answers with an envelope.    *)
(* The app looks for the pair one level too high, finds none, fails to     *)
(* store it, and every waiting call is told there is no token.             *)
Exchange ==
  [srv EXCEPT !.issued = @ + 1,
              !.live   = (@ \ {swap}) \cup {srv.issued + 1},
              !.fresh  = @ \cup {srv.issued + 1}]

RefreshAnswered ==
  /\ swap # NoToken /\ srv.issued < MaxToken
  /\ srv' = IF swap \in srv.live THEN Exchange ELSE [srv EXCEPT !.live = {}]
  /\ GiveUp
  /\ swap' = NoToken
  /\ UNCHANGED <<app, disk, auth, gate, form, unlocked>>

(* Seeded fault: the pair is found and stored, whatever has become of the  *)
(* session meanwhile.                                                      *)
RefreshStored ==
  /\ swap # NoToken /\ srv.issued < MaxToken /\ swap \in srv.live
  /\ srv' = Exchange
  /\ disk' = [disk EXCEPT !.tok = srv.issued + 1]
  /\ calls' = [c \in Calls |-> IF c \in Waiting
                                 THEN [calls[c] EXCEPT !.pc = "sent", !.tok = srv.issued + 1]
                                 ELSE calls[c]]
  /\ swap' = NoToken
  /\ UNCHANGED <<app, auth, gate, form, unlocked>>

RefreshLost ==
  /\ swap # NoToken
  /\ GiveUp
  /\ swap' = NoToken
  /\ UNCHANGED <<app, disk, auth, gate, srv, form, unlocked>>

ClearQuietly(c) ==                       \* seeded fault: nobody is told
  /\ calls[c].pc = "clear"
  /\ disk' = Blank
  /\ Settled(c)
  /\ UNCHANGED <<app, auth, gate, swap, srv, form, unlocked>>

ClearAfterRefusal(c) ==
  /\ calls[c].pc = "clear"
  /\ disk' = Blank
  /\ calls' = [calls EXCEPT ![c].pc = "leave"]
  /\ UNCHANGED <<app, auth, gate, swap, srv, form, unlocked>>

LeaveAfterRefusal(c) ==
  /\ calls[c].pc = "leave"
  /\ Settled(c)
  /\ SetAuth(SignedOut)
  /\ unlocked' = FALSE
  /\ UNCHANGED <<app, disk, swap, srv, form>>

-----------------------------------------------------------------------------
(* Logging out: storage first, then the store.  The server is not told.    *)
ForgetUser == disk' = [disk EXCEPT !.step = "none", !.complete = FALSE]    \* seeded fault
Forget == disk' = Blank

LogOut ==
  /\ form.pc = "idle"
  /\ Forget
  /\ form' = [NoForm EXCEPT !.pc = "leaving"]
  /\ UNCHANGED <<app, auth, gate, calls, swap, srv, unlocked>>

Leave ==
  /\ form.pc = "leaving"
  /\ SetAuth(SignedOut)
  /\ form' = NoForm
  /\ unlocked' = FALSE
  /\ UNCHANGED <<app, disk, calls, swap, srv>>

-----------------------------------------------------------------------------
(* The gate in front of every signed-in screen.                            *)
GateLoads ==
  /\ gate = "loading"
  /\ gate' \in {IF srv.legal THEN "open" ELSE "asking", "failed"}
  /\ UNCHANGED <<app, disk, auth, calls, swap, srv, form, unlocked>>

GateRetry ==
  /\ gate = "failed"
  /\ gate' = "loading"
  /\ UNCHANGED <<app, disk, auth, calls, swap, srv, form, unlocked>>

(* A refused or lost acceptance loads the documents again; a lost answer   *)
(* leaves the acceptance recorded.                                         *)
GateAccepts ==
  /\ gate = "asking"
  /\ \/ srv' = [srv EXCEPT !.legal = TRUE] /\ gate' \in {"open", "loading"}
     \/ srv' = srv /\ gate' = "loading"
  /\ UNCHANGED <<app, disk, auth, calls, swap, form, unlocked>>

-----------------------------------------------------------------------------
(* The server: tokens expire, and a new version of the documents may be    *)
(* published.                                                              *)
Expire ==
  /\ form.pc \notin {"probe", "enter"}  \* an access token outlives the sign-in it was issued for
  /\ \E t \in srv.fresh : srv' = [srv EXCEPT !.fresh = @ \ {t}]
  /\ UNCHANGED <<app, disk, auth, gate, calls, swap, form, unlocked>>

Revoke ==
  /\ \E t \in srv.live : srv' = [srv EXCEPT !.live = @ \ {t}]
  /\ UNCHANGED <<app, disk, auth, gate, calls, swap, form, unlocked>>

Republish ==
  /\ srv' = [srv EXCEPT !.legal = FALSE]
  /\ UNCHANGED <<app, disk, auth, gate, calls, swap, form, unlocked>>

(* A sign-in: the pair and the user are stored before the account is       *)
(* looked up with them.  Calls of an earlier session have timed out by the *)
(* time a code was sent, read and typed (http.ts:7).                       *)
SignedOutShown == auth.up /\ auth.tok = NoToken

Issue ==
  [srv EXCEPT !.issued = @ + 1, !.live = @ \cup {srv.issued + 1}, !.fresh = @ \cup {srv.issued + 1},
              !.used = TRUE]

SignIn(next) ==
  /\ \A c \in Calls : calls[c].pc = "idle"
  /\ srv' = Issue
  /\ disk' = [disk EXCEPT !.tok = srv.issued + 1]
  /\ form' = [NoForm EXCEPT !.pc = next, !.tok = srv.issued + 1]
  /\ UNCHANGED <<app, auth, gate, calls, swap, unlocked>>

SessionNext ==
  \/ Kill \/ Hydrate \/ RefreshAnswered \/ RefreshLost \/ Leave
  \/ GateLoads \/ GateRetry \/ GateAccepts \/ Expire \/ Revoke \/ Republish
  \/ \E c \in Calls : \/ Ask(c) \/ Answer(c) \/ Drop(c) \/ Refuse(c)
                      \/ ClearAfterRefusal(c) \/ LeaveAfterRefusal(c)

-----------------------------------------------------------------------------
(* Nobody is signed in again by a relaunch after having been signed out:   *)
(* whatever calls, renewals and handlers were under way when the session   *)
(* ended, a signed-out screen never stands over stored tokens.             *)
SignedOutForgets ==
  auth.up /\ auth.tok = NoToken /\ form.pc = "idle" => disk.tok = NoToken

(* A signed-in app holds the pair that storage holds, except while it is   *)
(* being signed out.                                                       *)
TokensAgree ==
  (/\ auth.up /\ auth.tok # NoToken /\ form.pc # "leaving"
   /\ \A c \in Calls : calls[c].pc # "leave") => disk.tok = auth.tok

(* When the server has exchanged the refresh token, the calls that were    *)
(* waiting for it are sent again with the new pair.                        *)
RefreshContinues ==
  [][\A c \in Calls :
       (calls[c].pc = "refused" /\ swap \in srv.live /\ swap \notin srv'.live /\ swap' = NoToken)
         => calls'[c].pc = "sent"]_session
=============================================================================
