------------------------- MODULE WorkerOnboarding -------------------------
(***************************************************************************)
(* The worker app from sign-in to its first shift: which screen            *)
(* RootNavigator shows, and the handlers of the screens under              *)
(* apps/worker/screens/auth.  Each handler writes the server, the storage  *)
(* and the store in turn.                                                  *)
(***************************************************************************)
EXTENDS MobileSession

Route ==
  CASE ~auth.up                                                    -> "Loading"
    [] auth.up /\ auth.tok = NoToken                               -> "SignIn"
    [] Screened /\ auth.step = "profile_submitted"                 -> "UnderReview"
    [] Screened /\ auth.step = "approved" /\ ~auth.bio             -> "BiometricSetup"
    [] Screened /\ auth.step = "approved" /\ auth.bio /\ ~auth.complete -> "BiometricCheck"
    [] Screened /\ auth.step = "approved" /\ auth.bio /\ auth.complete  -> "App"
    [] Screened /\ auth.step \notin {"profile_submitted", "approved"} /\ auth.complete -> "App"
    [] Screened /\ auth.step = "identity_uploaded" /\ ~auth.complete    -> "BuildProfile"
    [] Screened /\ auth.step = "none" /\ ~auth.complete            -> "VerifyIdentity"
    [] OTHER                                                       -> "Gate"

On(screen) == app = "worker" /\ Route = screen

At(pc) == app = "worker" /\ form.pc = pc
Goto(pc) == form' = [form EXCEPT !.pc = pc]

-----------------------------------------------------------------------------
(* VerifyOtp: the step is asked of the server; when the question fails the *)
(* worker is taken for a new one.                                          *)
AskStep ==
  /\ At("probe")
  /\ \E step \in {srv.step, "none"} : disk' = [disk EXCEPT !.step = step]
  /\ Goto("enter")
  /\ UNCHANGED <<app, auth, gate, calls, swap, srv, unlocked>>

EnterAs(step) ==
  SetAuth([up |-> TRUE, tok |-> form.tok, step |-> step, bio |-> disk.bio, complete |-> FALSE])

EnterWorker ==
  /\ At("enter")
  /\ EnterAs(disk.step)
  /\ form' = NoForm
  /\ UNCHANGED <<app, disk, calls, swap, srv, unlocked>>

-----------------------------------------------------------------------------
(* VerifyIdentity: two files, uploaded side by side, then recorded.        *)
AddFile(f) ==
  /\ On("VerifyIdentity") /\ form.pc = "idle"
  /\ form' = [form EXCEPT !.files = @ \cup {f}]
  /\ UNCHANGED <<app, disk, auth, gate, calls, swap, srv, unlocked>>

RemoveFile(f) ==
  /\ On("VerifyIdentity") /\ form.pc = "idle"
  /\ form' = [form EXCEPT !.files = @ \ {f}]
  /\ UNCHANGED <<app, disk, auth, gate, calls, swap, srv, unlocked>>

CanSubmitIdentity == form.files = Files

HandleNext ==
  /\ On("VerifyIdentity") /\ form.pc = "idle" /\ CanSubmitIdentity
  /\ Goto("uploading")
  /\ UNCHANGED <<app, disk, auth, gate, calls, swap, srv, unlocked>>

(* POST /worker/onboarding/identity takes the worker to identity_uploaded  *)
(* from any step.  Whatever fails on the way, or an answer that is lost,   *)
(* leaves the worker on the screen.                                        *)
SubmitIdentity ==
  /\ At("uploading")
  /\ \/ /\ srv' = [srv EXCEPT !.step = "identity_uploaded"]
        /\ form' \in {[form EXCEPT !.pc = "identity"], [form EXCEPT !.pc = "idle"]}
     \/ /\ srv' = srv
        /\ Goto("idle")
  /\ UNCHANGED <<app, disk, auth, gate, calls, swap, unlocked>>

StoreStep(from, step, next) ==
  /\ At(from)
  /\ disk' = [disk EXCEPT !.step = step]
  /\ Goto(next)
  /\ UNCHANGED <<app, auth, gate, calls, swap, srv, unlocked>>

ShowStep(from, step) ==
  /\ At(from)
  /\ SetAuth([auth EXCEPT !.step = step])
  /\ form' = NoForm
  /\ UNCHANGED <<app, disk, calls, swap, srv, unlocked>>

IdentityStored == StoreStep("identity", "identity_uploaded", "identityStored")
IdentityShown  == ShowStep("identityStored", "identity_uploaded")

-----------------------------------------------------------------------------
(* BuildProfile.  The fields are complete before the button does anything. *)
HandleSubmit ==
  /\ On("BuildProfile") /\ form.pc = "idle"
  /\ Goto("submitting")
  /\ UNCHANGED <<app, disk, auth, gate, calls, swap, srv, unlocked>>

SubmitProfile ==
  /\ At("submitting")
  /\ \/ /\ srv.step \in {"identity_uploaded", "profile_submitted"}
        /\ srv' = [srv EXCEPT !.step = "profile_submitted"]
        /\ form' \in {[form EXCEPT !.pc = "profile"], [form EXCEPT !.pc = "idle"]}
     \/ /\ srv' = srv
        /\ Goto("idle")
  /\ UNCHANGED <<app, disk, auth, gate, calls, swap, unlocked>>

StepPastReview == "approved"             \* seeded fault: the review is not waited for
StepMisspelt   == "profile-submitted"    \* seeded fault
StepAfterProfile == "profile_submitted"

ProfileStored == StoreStep("profile", StepAfterProfile, "profileStored")
ProfileShown  == ShowStep("profileStored", StepAfterProfile)

-----------------------------------------------------------------------------
(* UnderReview asks when it appears, every 30 seconds and whenever the app *)
(* comes back to the foreground.  An answer may find the session over.     *)
Poll(c) ==
  /\ On("UnderReview")
  /\ Send(c, "poll")
  /\ UNCHANGED <<app, disk, auth, gate, swap, srv, form, unlocked>>

NeverLeaves(step)  == step = "verified"  \* seeded fault: the profile's word for it
LeavesReview(step) == step = "approved"

PollAnswered(c) ==
  /\ Accepted(c) /\ calls[c].of = "poll"
  /\ IF LeavesReview(srv.step)
       THEN /\ disk' = [disk EXCEPT !.step = "approved"]
            /\ calls' = [calls EXCEPT ![c].pc = "told"]
       ELSE /\ Settled(c)
            /\ UNCHANGED disk
  /\ UNCHANGED <<app, auth, gate, swap, srv, form, unlocked>>

PollShown(c) ==
  /\ calls[c].pc = "told"
  /\ SetAuth([auth EXCEPT !.step = "approved"])
  /\ Settled(c)
  /\ UNCHANGED <<app, disk, swap, srv, form, unlocked>>

-----------------------------------------------------------------------------
(* BiometricSetup: a device without a sensor passes, a cancelled prompt    *)
(* stays.  BiometricCheck: the lock of one launch; it writes no storage.   *)
EnableBiometrics ==
  /\ On("BiometricSetup") /\ form.pc = "idle"
  /\ disk' = [disk EXCEPT !.bio = TRUE]
  /\ Goto("bioStored")
  /\ unlocked' = TRUE
  /\ UNCHANGED <<app, auth, gate, calls, swap, srv>>

BiometricsShown ==
  /\ At("bioStored")
  /\ SetAuth([auth EXCEPT !.bio = TRUE, !.complete = TRUE])
  /\ form' = NoForm
  /\ UNCHANGED <<app, disk, calls, swap, srv, unlocked>>

Unlock ==
  /\ On("BiometricCheck") /\ form.pc = "idle"
  /\ SetAuth([auth EXCEPT !.complete = TRUE])
  /\ unlocked' = TRUE
  /\ UNCHANGED <<app, disk, calls, swap, srv, form>>

(* "Use OTP instead" and the log-out buttons of UnderReview and Home.      *)
WorkerLogsOut == (On("UnderReview") \/ On("BiometricCheck") \/ On("App")) /\ LogOut

-----------------------------------------------------------------------------
(* The office decides on a submitted profile.                              *)
Approve ==
  /\ app = "worker" /\ srv.step = "profile_submitted"
  /\ srv' = [srv EXCEPT !.step = "approved", !.ever = TRUE]
  /\ UNCHANGED <<app, disk, auth, gate, calls, swap, form, unlocked>>

Reject ==
  /\ app = "worker" /\ srv.step = "profile_submitted"
  /\ srv' = [srv EXCEPT !.step = "identity_uploaded"]
  /\ UNCHANGED <<app, disk, auth, gate, calls, swap, form, unlocked>>

WorkerNext ==
  \/ AskStep \/ EnterWorker
  \/ \E f \in Files : AddFile(f) \/ RemoveFile(f)
  \/ HandleNext \/ SubmitIdentity \/ IdentityStored \/ IdentityShown
  \/ HandleSubmit \/ SubmitProfile \/ ProfileStored \/ ProfileShown
  \/ \E c \in Calls : Poll(c) \/ PollAnswered(c) \/ PollShown(c)
  \/ EnableBiometrics \/ BiometricsShown \/ Unlock \/ WorkerLogsOut
  \/ Approve \/ Reject

(* The timer of UnderReview goes off again and again, and of the questions *)
(* it asks some are answered; steps of the process itself do not wait.     *)
PollFairness ==
  /\ WF_session(RefreshLost) /\ WF_session(Leave)
  /\ \A c \in Calls : /\ SF_session(Poll(c)) /\ SF_session(PollAnswered(c) \/ Refuse(c))
                      /\ WF_session(Drop(c)) /\ WF_session(PollShown(c))
                      /\ WF_session(ClearAfterRefusal(c)) /\ WF_session(LeaveAfterRefusal(c))

-----------------------------------------------------------------------------
(* No order of relaunches, lost answers, log-outs and late polls takes a   *)
(* worker past the review screen before an admin has ever approved them.   *)
NeverAheadOfReview ==
  app = "worker" /\ Route \in {"BiometricSetup", "BiometricCheck", "App"} => srv.ever

(* The app proper is only ever shown after the biometric prompt was passed *)
(* in this launch and session.                                             *)
LockedUntilChecked == On("App") => unlocked

(* A worker whose profile is approved does not stay on the review screen.  *)
ApprovedLeavesReview ==
  (On("UnderReview") /\ srv.step = "approved") ~> ~On("UnderReview")
=============================================================================
