\* Two commands, side by side or one after the other, each with a transaction of its own
\* or with the same one; hashes run out before or after the execution.
CONSTANTS
  Calls = {c1, c2}
  RETRY_COUNT = 2
  HashValidity = 2
  Attestations = {1}
  SolQuantity = 3
  DequeueLimits = {2}
  MintAmounts = {1}
  Switches = {is_halted}
  OtherTrades = 1
SPECIFICATION ClientFairSpec
CHECK_DEADLOCK FALSE
INVARIANTS
  AnswersAreReceipts
  PaymentsAreKnownOrInDoubt
  SerialAnswersDiffer
  ReportedSwitchStands
PROPERTIES
  PaymentHasItsAccount
  CommandsEnd
