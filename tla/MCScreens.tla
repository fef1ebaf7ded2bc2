----------------------------- MODULE MCScreens ------------------------------
(***************************************************************************)
(* The session of one admin's browser, or one screen at work.               *)
(***************************************************************************)
EXTENDS Screens, AdminSession

NoPage == desk = "none" /\ rows = <<>> /\ page = <<>>

Init == SessionInit /\ (NoPage \/ ScreenInit)

Next ==
  \/ desk = "none" /\ SessionNext /\ UNCHANGED screen
  \/ ScreenNext /\ UNCHANGED browser

(* Every request of the browser ends, answered or timed out.                *)
Spec == Init /\ [][Next]_<<screen, browser>> /\ WF_browser(desk = "none" /\ FlowMoves)

TypeOK == ScreenTypeOK /\ SessionTypeOK
=============================================================================
