CONSTANTS
  Width = 64
  Samples = 3
  Starts = {52}
  Late = FALSE
  MaxSent = 7
SPECIFICATION RtpSpec
PROPERTY TimelineKept
CHECK_DEADLOCK FALSE
