----------------------------- MODULE MCLostAcks -----------------------------
EXTENDS MCRelayExecutor, LostAcks
=============================================================================
