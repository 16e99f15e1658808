CONSTANTS
  Width = 64
  Samples = 3
  Starts = {53}
  Late = FALSE
  MaxSent = 4
SPECIFICATION RtpSpec
PROPERTY LossesMadeGood
CHECK_DEADLOCK FALSE
