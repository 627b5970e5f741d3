SPECIFICATION Spec
CONSTANTS
  Requests = {r1, r2}
  Emails = {a, b}
  Nobody = Nobody
  Known = {b}
  Allowed = {b}
  States = {s}
  NoState = NoState
  Patches <- OneColumn
SYMMETRY Symmetric
INVARIANTS UpdatesKeepAnAdmin SetupIsWhole
PROPERTY ConsumedStateStaysDead
CHECK_DEADLOCK FALSE
