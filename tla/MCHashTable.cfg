CONSTANTS
  t1 = t1
  t2 = t2
  t3 = t3
  k1 = k1
  k2 = k2
  Timeout <- MCTimeout
  Key <- MCKey
  NoKey = NoKey
  NoEntry = NoEntry
  WheelBit = 1
  WheelNum = 3
  Never = 1000
  Second = 1
  Expiry = 2
  Users = {"table", "timers"}
  MaxClock = 3
  Times = {0, 1, 2, 5, 10}
  Direct <- MCDirect
  Delay = {1, 3, 9}
SPECIFICATION TableSpec
SYMMETRY Symmetry
INVARIANTS WheelChecks EntryWillExpire
PROPERTIES TimersSpec
\* A destroyed table does nothing.
CHECK_DEADLOCK FALSE
