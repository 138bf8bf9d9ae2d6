-------------------------------- MODULE MCPanels --------------------------------
\* The instance of Panels for TLC.
EXTENDS Panels

\* Shorter than the window, as long, and longer; the last has lost its "..", as
\* a directory with more entries than the tree holds may; the empty one could
\* not be read.
MCListings == { << >>, <<"up">>, <<"up", "dir", "file">>,
                <<"up", "dir", "dir", "file", "file", "file">>,
                <<"dir", "file", "file", "file", "file">> }
=============================================================================
