\* Every update of every field, with inputs at, inside and beyond each limit; a
\* deny list that fills up.
CONSTANTS
  COEFFICIENT_SCALE = 2
  RATE_SCALE = 3
  LAMPORTS_PER_SOL = 1
  Accounts = {authority, operator, buyer}
  Officers = {authority, operator, buyer}
  UpgradeAuthority = authority
  DefaultKey = default
  OracleKeys = {oracle}
  SolQuantities = {1}
  MaximumAges <- MCMaximumAges
  Coefficients = {2, 3}
  DiscountRates = {0, 1, 2, 3, 4}
  None = none
  MAX_DENY_LIST_SIZE = 2
  MaxUpdateCount = 4
SPECIFICATION SystemSpec
INVARIANTS
  ConfigurationStaysValid
  DenyListFollowsEvents
