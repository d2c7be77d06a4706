SPECIFICATION RetirementSpec
CONSTANTS
  Meeting = {imp}
  Import = {imp}
  MaxOutside = 0
  MaxFaults = 0
  MaxSettings = 1
PROPERTY DueMeetingsExpire
CHECK_DEADLOCK FALSE
