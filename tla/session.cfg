SPECIFICATION Spec
CONSTANTS
  Calls = {c1, c2}
  NoCall = nocall
  MaxVersion = 1
INVARIANT OneRefresh
PROPERTY RefusedWithReason
PROPERTY CallsSettle
