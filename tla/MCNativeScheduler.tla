-------------------------- MODULE MCNativeScheduler --------------------------
(***************************************************************************)
(* Instances of NativeScheduler: the process queue of boot(), and the one  *)
(* with the second vat_runner that boot() has commented out.               *)
(***************************************************************************)
EXTENDS NativeScheduler

OneRunner == {0}
TwoRunners == {0, 1}
=============================================================================
