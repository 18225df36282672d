--------------------------- MODULE MCRelayPromise ---------------------------
EXTENDS MCRelayExecutor, RelayPromise
=============================================================================
