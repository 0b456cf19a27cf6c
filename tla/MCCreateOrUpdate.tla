-------------------------- MODULE MCCreateOrUpdate --------------------------
(* CreateOrUpdate with a deadline, against one other user of the object.   *)
EXTENDS CreateOrUpdate
=============================================================================
