\* The addresses of the build for wasm32.
CONSTANTS
  TxidSize = 2
  WordSize = 1
  ValueSize = 2
  KeyHashSize = 1
  XOnlySize = 3
  CheckSize = 1
  Check <- MCCheck
  BtcKey = {1, 2}
  OddKey = {2}
  WasmBuild = TRUE
  Payment <- MCPayment
  BtcJson <- MCBtcJson
  MaxWaiting = 1
SPECIFICATION BtcSpec
INVARIANT
  WasmTaprootIsSpendable
