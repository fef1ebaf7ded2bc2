----------------------------- MODULE MobileApps -----------------------------
(***************************************************************************)
(* The two mobile apps: one session, one way of signing in by code, and    *)
(* either of the two ways from there to the first screen.                  *)
(***************************************************************************)
EXTENDS PhoneSignIn, WorkerOnboarding, ClientOnboarding

Next == SessionNext \/ PhoneNext \/ WorkerNext \/ ClientNext

Spec     == Init /\ [][Next]_session
FairSpec == Spec /\ PollFairness
=============================================================================
