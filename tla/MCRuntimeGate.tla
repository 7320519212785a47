---------------------------- MODULE MCRuntimeGate ----------------------------
(* Two concurrent starts and a grace period of two clock units; the .cfg    *)
(* files give the bounds.                                                   *)
EXTENDS RuntimeGate
=============================================================================
