SPECIFICATION SpecJson
CONSTANTS
  None = None
  N = 5
  Threads = {t1, t2, t3}
  Keys = {"k", "l"}
  Pos <- FoldPos
  Ts <- FoldTs
  Id <- FoldId
  EventKey <- FoldKey
  Authorized = {2, 3, 4, 5}
  Decided = {"k", "l"}
  Unconflicted <- FoldAgreed
  Resolved <- FoldPower
INVARIANT
  RewriteRejectsMalformed
