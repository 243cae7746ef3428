SPECIFICATION ParamSpec
CONSTANTS
  Widths <- MCWidths
  Heights <- MCHeights
  Levels <- MCOneLevel
  Qps <- MCOneQp
  Bitrates <- MCBitrates
  ClkRates <- MCClkRates
INVARIANT RcNotDegenerate
CHECK_DEADLOCK FALSE
