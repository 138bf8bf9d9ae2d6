-------------------------------- MODULE MCInput --------------------------------
\* The instance of Input for TLC.
EXTENDS Input

\* A modifier with two keys, a key that pretends to be the first of them, and
\* one that types.
MCKeys == {"LShift", "RShift", "Up", "Print"}
=============================================================================
