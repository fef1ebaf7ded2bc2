------------------------- MODULE ClientOnboarding -------------------------
(***************************************************************************)
(* The client app from sign-in to its home screen: apps/client/navigation  *)
(* and apps/client/screens/auth.  Signing in with a code looks the profile *)
(* up afterwards; signing in with Google or Apple is told with the tokens. *)
(***************************************************************************)
EXTENDS MobileSession

Shown ==
  CASE ~auth.up                         -> "Loading"
    [] auth.up /\ auth.tok = NoToken    -> "SignIn"
    [] Screened /\ auth.complete        -> "App"
    [] Screened /\ ~auth.complete       -> "ProfileSetup"
    [] OTHER                            -> "Gate"

Sees(screen) == app = "client" /\ Shown = screen
Busy(pc)     == app = "client" /\ form.pc = pc

(* VerifyOtp: any failure of the look-up is taken for "no profile yet".    *)
ProbeBlind   == {TRUE}                  \* seeded fault: the look-up is not waited for
ProbeAnswers == {srv.profile, FALSE}

StoreComplete(done) ==
  /\ disk' = [disk EXCEPT !.complete = done]
  /\ form' = [form EXCEPT !.pc = "enter"]
  /\ UNCHANGED <<app, auth, gate, calls, swap, srv, unlocked>>

ProbeProfile == Busy("probe") /\ \E done \in ProbeAnswers : StoreComplete(done)

(* LoginScreen, Google and Apple: the provider's sheet covers the screen   *)
(* and ends with a token, an error or the user's cancelling it;            *)
(* persistAndSetAuth stores what the answer says of the profile.           *)
SocialSignIn ==
  /\ app = "client" /\ SignedOutShown /\ form.page = "login" /\ form.pc = "idle"
  /\ form' = [form EXCEPT !.pc = "provider"]
  /\ UNCHANGED <<app, disk, auth, gate, calls, swap, srv, unlocked>>

ProviderAnswers ==
  /\ Busy("provider")
  /\ \/ srv.issued < MaxToken /\ SignIn("social")
     \/ /\ form' = [form EXCEPT !.pc = "idle"]
        /\ UNCHANGED <<app, disk, auth, gate, calls, swap, srv, unlocked>>

PersistSocial == Busy("social") /\ StoreComplete(srv.profile)

EnterClient ==
  /\ Busy("enter")
  /\ SetAuth([up |-> TRUE, tok |-> form.tok, step |-> "none", bio |-> FALSE,
              complete |-> disk.complete])
  /\ form' = NoForm
  /\ UNCHANGED <<app, disk, calls, swap, srv, unlocked>>

-----------------------------------------------------------------------------
(* ProfileSetup.  The server refuses a second profile; a refused or lost   *)
(* answer leaves the client on the screen, which has no way out.           *)
HandleSave ==
  /\ Sees("ProfileSetup") /\ form.pc = "idle"
  /\ form' = [form EXCEPT !.pc = "saving"]
  /\ UNCHANGED <<app, disk, auth, gate, calls, swap, srv, unlocked>>

CreateProfile ==
  /\ Busy("saving")
  /\ \/ /\ ~srv.profile
        /\ srv' = [srv EXCEPT !.profile = TRUE]
        /\ \/ /\ disk' = [disk EXCEPT !.complete = TRUE]
              /\ form' = [form EXCEPT !.pc = "saved"]
           \/ /\ form' = NoForm
              /\ UNCHANGED disk
     \/ /\ form' = NoForm
        /\ UNCHANGED <<disk, srv>>
  /\ UNCHANGED <<app, auth, gate, calls, swap, unlocked>>

ProfileSaved ==
  /\ Busy("saved")
  /\ SetAuth([auth EXCEPT !.complete = TRUE])
  /\ form' = NoForm
  /\ UNCHANGED <<app, disk, calls, swap, srv, unlocked>>

ClientLogsOut == Sees("App") /\ LogOut

ClientNext ==
  \/ SocialSignIn \/ ProviderAnswers \/ ProbeProfile \/ PersistSocial \/ EnterClient
  \/ HandleSave \/ CreateProfile \/ ProfileSaved \/ ClientLogsOut

-----------------------------------------------------------------------------
(* The stored flag that lets the next launch straight into the app is only *)
(* ever the server's word: the app is not shown to a client without a      *)
(* profile, whatever failed or was killed on the way.                      *)
NoAppWithoutProfile == Sees("App") => srv.profile
=============================================================================
