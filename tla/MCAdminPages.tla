---------------------------- MODULE MCAdminPages ----------------------------
(* Values of the parameters for checking AdminPages with TLC.              *)
EXTENDS AdminPages

AllPages == DOMAIN Site
=============================================================================
