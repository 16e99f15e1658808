CONSTANTS
  Width = 64
  Samples = 3
  Starts = {53, 62}
  Late = TRUE
  MaxSent = 7
SPECIFICATION RtpSpec
PROPERTY TimelineKept
CHECK_DEADLOCK FALSE
