\* Three agents that may fall silent, a threshold of two intervals.
SPECIFICATION FairStallSpec
CONSTANTS
  Agents = {a1, a2, a3}
  Threshold = 2
  Interval = 1
PROPERTIES AlarmsAreJustified SilenceIsMet
