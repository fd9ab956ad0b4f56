\* Expected violation: delims undercounts after the buffer fills; a line waits forever.
CONSTANTS
  TERM_BUFSIZE = 3
  Keys <- MC_LineKeys
  MaxTab = 2
  MaxCount = 3
  MaxKeys = 5
  IRQS_IN_READ = FALSE
SPECIFICATION TermSpec
PROPERTY LineDelivered
CHECK_DEADLOCK FALSE
