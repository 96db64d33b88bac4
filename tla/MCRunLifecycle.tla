--------------------------- MODULE MCRunLifecycle ---------------------------
(* RunLifecycle on the small instances its configurations name. *)
EXTENDS RunLifecycle
=============================================================================
