---------------------------- MODULE MCRateLimiter ---------------------------
(***************************************************************************)
(* Small instances of RateLimiter; TLC keeps the times of MaxPermits       *)
(* permits.  The batch ends, so deadlock is switched off.                  *)
(***************************************************************************)
EXTENDS RateLimiter

=============================================================================
