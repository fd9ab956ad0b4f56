----------------------------- MODULE MC_Terminal -----------------------------
(* Model-checking instance of the terminal input buffer. *)
EXTENDS TerminalProofs

\* Every kind of key the driver tells apart.
MC_Keys == {"x", "nl", "eot", "bs", "tab", "ctrlc"}
\* Plain characters and newlines only.
MC_LineKeys == {"x", "nl"}
\* Plain characters and backspace only.
MC_EditKeys == {"x", "bs"}
\* Plain characters only.
MC_PlainKeys == {"x"}
\* Plain characters and tabs.
MC_TabKeys == {"x", "tab"}

\* The tab loop as the code runs it: term_push(' ') n times in a row.
PushSpacesLoop(t, n) ==
  LET f[k \in 0 .. n] == IF k = 0 THEN t ELSE TermPush(f[k - 1], "sp")
  IN f[n]

\* Small buffers: every start, end, full and backspace, delims 0..1, and
\* contents over ordinary characters and spaces.
SmallBufs ==
  [start : Idx, end : Idx, full : BOOLEAN, delims : 0 .. 1,
   backspace : 0 .. 1, buf : [Idx -> {"x", "sp"}]]

\* The closed form of the tab loop is the loop itself, for tab widths up to
\* twice round the ring (the loop then overwrites its own spaces).
ASSUME PushSpacesIsLoop ==
  \A t \in SmallBufs, n \in 1 .. 2 * TERM_BUFSIZE + 1 : PushSpaces(t, n) = PushSpacesLoop(t, n)
=============================================================================
