------------------------- MODULE MCManagedTemplates -------------------------
(* One template with one or two fields; the .cfg files give the bounds.     *)
EXTENDS ManagedTemplates
=============================================================================
