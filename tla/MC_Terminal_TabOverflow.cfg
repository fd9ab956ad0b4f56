\* Expected violation: a tab near the end pushes past a full buffer.
CONSTANTS
  TERM_BUFSIZE = 3
  Keys <- MC_TabKeys
  MaxTab = 2
  MaxCount = 3
  MaxKeys = 5
  IRQS_IN_READ = FALSE
SPECIFICATION TermSpec
INVARIANT NoUnreadOverwritten
CHECK_DEADLOCK FALSE
