---------------------------- MODULE MCNpmRelease ----------------------------
(* Two commits, each with a version of its own. *)
EXTENDS NpmRelease

MCVersionOf == <<1, 2>>
=============================================================================
