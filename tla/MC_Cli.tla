------------------------------- MODULE MC_Cli -------------------------------
(***************************************************************************)
(* Cli for TLC: where the identities of the run listen.                    *)
(***************************************************************************)
EXTENDS Cli, TLC

CONSTANTS x1, x2, a

\* Both identities are generated for the same address.
SameAddress == (x1 :> a) @@ (x2 :> a)
=============================================================================
