-------------------------- MODULE MCBuildCoordinator --------------------------
(* Instances of BuildCoordinator for TLC. *)
EXTENDS BuildCoordinator, TLC

CONSTANTS p1, p2, p3, c1, build, preview

\* Two previews beside an ordinary build.
Mixed == p1 :> preview @@ p2 :> preview @@ p3 :> build
=============================================================================
