---------------------------- MODULE MCPrepareRun ----------------------------
(***************************************************************************)
(* Small instances of PrepareRun.  Commands and audits are bounded, so the *)
(* system comes to rest and the configurations switch deadlock off.        *)
(***************************************************************************)
EXTENDS PrepareRun

=============================================================================
