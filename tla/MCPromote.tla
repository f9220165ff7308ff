----------------------------- MODULE MCPromote ------------------------------
(***************************************************************************)
(* Ideas of the same title, and one whose title reads like the second       *)
(* candidate of the others.                                                 *)
(***************************************************************************)
EXTENDS Promote, TLC

ThreeIdeas == {"garden", "Garden!", "garden 2"}
ThreeCandidates ==
    [i \in ThreeIdeas |->
        IF i = "garden 2" THEN <<"garden-2", "garden-2-2">>
        ELSE <<"garden", "garden-2", "garden-3">>]

\* The requests differ in nothing.
Requests == Permutations(Webs)
=============================================================================
