\* What schema.go says of the columns, against what the handlers write.
CONSTANTS
  Assets = {usd}
  Oracle = oracle
  Adapter = adapter
  Null = null
  Prices = {1, 2}
  Stamps = {11, 12}
  Caps = {50}
  MaxLogs = 4
  MaxBlock = 2

SPECIFICATION Spec

INVARIANT
  PublishTimeOfPrice

\* A behaviour ends when its logs are consumed and the bounds are met.
CHECK_DEADLOCK FALSE
