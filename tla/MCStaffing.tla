----------------------------- MODULE MCStaffing -----------------------------
(***************************************************************************)
(* Instances of Staffing.                                                  *)
(***************************************************************************)
EXTENDS Staffing, TLC

CONSTANTS s1, s2, q1, q2

(* Two admins assigning to one requirement, one of whom, with the workers, *)
(* also does everything that does not add or move assignments.             *)
CrowdServes == (s1 :> {"create"}) @@
               (s2 :> {"create", "respond", "status", "attend", "complete", "cancel"})

(* Everything, one request at a time.                                      *)
SerialServes == s1 :> Endpoints

(* Two admins assigning to two requirements.                               *)
AdminsServe == (s1 :> {"create"}) @@ (s2 :> {"create"})

MCNeeded  == [q \in Reqs |-> 2]
MCFirst   == [q \in Reqs |-> 1]
MCLast    == [q \in Reqs |-> 2]

(* The whole requirement, a day of it, or from a day on.                   *)
MCSpans   == {<<0, 0>>, <<1, 1>>, <<2, 2>>}
OpenSpans == {<<0, 0>>, <<1, 1>>, <<2, 0>>, <<1, 2>>}

Symmetric == Permutations(Workers) \cup Permutations(Slots)
=============================================================================
