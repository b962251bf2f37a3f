--------------------------- MODULE MCTlulSocket ---------------------------
\* One host, a few devices and the error responder.
EXTENDS TlulSocket
============================================================================
