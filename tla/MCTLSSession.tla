---------------------------- MODULE MCTLSSession ----------------------------
EXTENDS TLSSession
=============================================================================
