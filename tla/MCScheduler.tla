---------------------------- MODULE MCScheduler ----------------------------
(***************************************************************************)
(* Scheduler for TLC.  Fibers, callbacks and kernel thread ids are         *)
(* interchangeable: a state's worth does not depend on which is which.     *)
(***************************************************************************)
EXTENDS Scheduler, TLC

Symmetry == Permutations(Fibers) \cup Permutations(Cbs) \cup Permutations(Workers)

=============================================================================
