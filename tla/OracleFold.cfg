\* The oracle rows and the price history, over every interleaving of the two
\* contracts' calls and the consumption of their logs.
CONSTANTS
  Assets = {usd, eur}
  Oracle = oracle
  Adapter = adapter
  Null = null
  Prices = {1, 2}
  Stamps = {11, 12}
  Caps = {50}
  MaxLogs = 4
  MaxBlock = 2

SPECIFICATION Spec
SYMMETRY AssetSymmetry

INVARIANTS
  TypeOK
  FoldIsCurrent
  HistoryIsComplete

\* A behaviour ends when its logs are consumed and the bounds are met.
CHECK_DEADLOCK FALSE
