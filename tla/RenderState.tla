------------------------------ MODULE RenderState ------------------------------
(***************************************************************************)
(* src/proj/code/model/render_state.c: the handlers ask for a repaint and  *)
(* the frame that ends a turn of the main loop serves one request.         *)
(***************************************************************************)
EXTENDS Integers

NONE == 0  MOUSE == 1  STATUS == 2  CHAR == 3  REMOTE_LINE == 4  LINE == 5  FULL == 7

\* Nothing in the code asks for RENDER_WORD (6).
Modes == {NONE, MOUSE, STATUS, CHAR, REMOTE_LINE, LINE, FULL}

\* render_mode after set_render(mode).
Merged(pending, mode) ==
  IF {pending, mode} = {LINE, REMOTE_LINE} THEN FULL
  ELSE IF mode > pending THEN mode ELSE pending

\* set_render_ex asks for a full repaint instead when the viewport scrolled or
\* a selection is or was there.
Widened(mode) == {mode, FULL}
=============================================================================
