----------------------- MODULE MCWebSocketTransport -----------------------
EXTENDS WebSocketTransport
=============================================================================
