----------------------------- MODULE MCTcpServer -----------------------------
EXTENDS TcpServer
=============================================================================
