---------------------------- MODULE MCEngagement ----------------------------
(***************************************************************************)
(* An instance of Engagement.  Under these terms the first counter-offer   *)
(* rounds above the cap (1060 becomes 1100), and the guard of the hard cap *)
(* blocks it for good; before they are set the agent offers 0, and no cap  *)
(* applies.                                                                *)
(***************************************************************************)
EXTENDS Engagement

Tight == {[target |-> 1060, cap |-> 1060]}
=============================================================================
