------------------------------ MODULE MCSerialLink ------------------------------
\* The instance of SerialLink for TLC: a byte has 7 values, 5 starts a packet,
\* and a payload is cut to 3 bytes.
EXTENDS SerialLink

MCRequests ==
  { [cmd |-> 1, payload |-> <<3>>],                       \* a character
    [cmd |-> 2, payload |-> << >>],                       \* an erased one
    [cmd |-> 3, payload |-> <<0, PKT_START_BYTE>>],       \* a position
    [cmd |-> 6, payload |-> <<1, 1, 1, 1, 1, 1, 1>>] }    \* a row that is cut
=============================================================================
