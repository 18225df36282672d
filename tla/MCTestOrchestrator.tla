-------------------------- MODULE MCTestOrchestrator ------------------------
(* Instances of TestOrchestrator: short days of a few minutes.             *)
EXTENDS TestOrchestrator

OneBrand == <<"lester">>

=============================================================================
