------------------------------ MODULE MCMutex -------------------------------
(* Bounds for Mutex: three threads, a spin of one turn, a semaphore that   *)
(* saturates at two tokens (MCMutex.cfg).  No symmetry: a property of the  *)
(* run is a liveness property.                                             *)
EXTENDS Mutex
=============================================================================
