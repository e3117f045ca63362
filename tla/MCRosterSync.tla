---------------------------- MODULE MCRosterSync ----------------------------
(* Small instances of RosterSync for TLC.                                  *)
EXTENDS RosterSync, TLC

(* The first event of the first deployment collides with a participant.    *)
FirstConflicts == {<<1, 1>>}

(* Events of each deployment.                                              *)
TwoAndOne == 1 :> 2 @@ 2 :> 1
NoneAndTwo == 1 :> 0 @@ 2 :> 2

(* Whom a bundle lists: no late participant, or the one whom the other     *)
(* deployment adds.                                                        *)
NoneListed == 1 :> {} @@ 2 :> {}
OtherListed == 1 :> {<<2, 1>>} @@ 2 :> {}
=============================================================================
