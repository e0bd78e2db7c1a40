--------------------------- MODULE MCKernelHooks ----------------------------
(* KernelHooks with the CPUs taken as interchangeable. *)
EXTENDS KernelHooks, TLC

CpuSymmetry == Permutations(Cpus)
=============================================================================
