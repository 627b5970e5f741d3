-------------------------- MODULE MCQuotaReporter --------------------------
(***************************************************************************)
(* The quota pipeline for TLC.                                             *)
(***************************************************************************)
EXTENDS QuotaReporter, TLC

\* Clients are interchangeable: no action and no safety property orders them.
ClientSymmetry == Permutations(IPs)
=============================================================================
