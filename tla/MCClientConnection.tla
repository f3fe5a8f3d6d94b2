-------------------------- MODULE MCClientConnection --------------------------
EXTENDS ClientConnection
=============================================================================
