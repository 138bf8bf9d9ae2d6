------------------------------ MODULE MCEventLoop ------------------------------
\* An instance of EventLoop for TLC.
EXTENDS EventLoop

MCKey    == {"key"}
MCMouse  == {"mouse"}
MCSerial == {"insert", "move"}
=============================================================================
