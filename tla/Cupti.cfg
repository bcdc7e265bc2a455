SPECIFICATION FairSpec
CONSTANTS
  Requests = {r1, r2, r3}
  Devices = {d1}
  LastBank = 1
  Nobody = Nobody
INVARIANTS
  TypeOK
  OneBankEnabled
PROPERTIES
  QuietWhileActive
  DisabledForGood
  LaunchReturns
  SwitchMade
