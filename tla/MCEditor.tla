------------------------------- MODULE MCEditor -------------------------------
\* Instances of Editor for TLC.
EXTENDS EditorRefinement

CONSTANTS a, sp, nl

MCChar  == {a, sp}
MCFiles == {<< >>, << <<a>>, << >>, << >> >>, << <<sp, a>>, << >> >>}
MCViewports == {<<2, 1>>, <<2, 2>>}
MCWheelSteps == {-1, 1}
=============================================================================
