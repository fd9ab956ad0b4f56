\* The keyboard ISR against a blocking term_read(), interrupts off in the
\* system call: the wake-up protocol.
CONSTANTS
  TERM_BUFSIZE = 3
  Keys <- MC_Keys
  MaxTab = 2
  MaxCount = 3
  MaxKeys = 5
  IRQS_IN_READ = FALSE
SPECIFICATION TermSpec
INVARIANTS TermTypeOK NoLostWakeup
PROPERTIES ReadReturns
\* The reader may wait for input forever once the user stops typing.
CHECK_DEADLOCK FALSE
