------------------------------- MODULE MCRepaint -------------------------------
\* The instance of Repaint for TLC.
EXTENDS Repaint
=============================================================================
