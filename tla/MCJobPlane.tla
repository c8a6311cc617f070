----------------------------- MODULE MCJobPlane -----------------------------
(* Instances of JobPlane for TLC. *)
EXTENDS JobPlane

(* Two results: one with an incomplete and a complete last batch, one with  *)
(* findings only.                                                           *)
SomeResults == {[domains |-> 3, services |-> 2, web |-> 0, sast |-> 0],
                [domains |-> 0, services |-> 0, web |-> 1, sast |-> 3]}
=============================================================================
