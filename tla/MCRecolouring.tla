----------------------------- MODULE MCRecolouring -----------------------------
\* Instances of Recolouring for TLC.  The row /*/ opens a comment outside one
\* and closes it inside, so that blank rows and it reach every pattern of
\* comment states.
EXTENDS Recolouring

CONSTANTS blank, toggle, word

MCText   == {blank, toggle}
MCAllText == {blank, toggle, word}

\* Only the order of the lengths matters, and that a word can be one longer.
MCLength == [t \in Text |-> IF t = blank THEN 0 ELSE IF t = toggle THEN 1 ELSE 2]
MCAfter  == [t \in Text |-> [b \in BOOLEAN |-> IF t = toggle THEN ~b ELSE b]]

MCFiles  == {<<blank>>, <<toggle, toggle>>, <<toggle, blank, toggle>>}
MCPasted == {<<blank>>, <<toggle>>, <<toggle, blank>>, <<blank, blank, blank>>}
=============================================================================
