SPECIFICATION Spec
CONSTANTS
  Proc = {p1, p2, p3}
  Nobody = Nobody
  MaxFiles = 2
  MaxKids = 2
SYMMETRY Renamings
CHECK_DEADLOCK FALSE
INVARIANT TypeOK
INVARIANT OneInstance
INVARIANT TasksEndFirst
INVARIANT LockedAlone
