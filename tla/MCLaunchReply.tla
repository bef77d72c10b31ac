--------------------------- MODULE MCLaunchReply ---------------------------
(***************************************************************************)
(* LaunchReply with the configurations of MCLaunchpad.                     *)
(***************************************************************************)
EXTENDS MCLaunchpad, LaunchReply
=============================================================================
