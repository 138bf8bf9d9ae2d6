------------------------------- MODULE MCCollab -------------------------------
\* Instances of Collab for TLC.
EXTENDS Collab, TLC

CONSTANTS author, reader, a, sp, nl

MCPeers == {author, reader}
MCChar  == {a, sp}
MCFiles == {<< <<a>>, <<sp>> >>}
MCClips == {<< <<a>>, <<a>> >>}
MCViewport == <<9, 9>>

Session(author_commands, author_edits, reader_commands, reader_edits) ==
  author :> [commands |-> author_commands, edits |-> author_edits]
    @@ reader :> [commands |-> reader_commands, edits |-> reader_edits]

\* The author writes alone; both users edit; the reader edits where the author
\* has seen its cursor.
MCSessions  == {Session(3, 3, 0, 0), Session(2, 2, 1, 1), Session(1, 1, 2, 1)}
MCAuthoring == {Session(3, 3, 1, 0)}
=============================================================================
