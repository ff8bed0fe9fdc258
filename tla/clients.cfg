SPECIFICATION ClientsFairSpec
CONSTANTS
  Conns = {c1}
  Subs = {s1}
  IDs = {c1}
  None = None
  IdOf <- MCOwnID
INVARIANTS NothingHangs LostOnlyWhenLeaving
PROPERTIES ClosedIsReleased GoneIsReleased SubscribersEnd
CHECK_DEADLOCK FALSE
