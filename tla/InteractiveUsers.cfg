SPECIFICATION Spec
CONSTANTS
  c1 = c1
  c2 = c2
  Clients <- MCClients
  Unset = Unset
  Junk = Junk
  max_num_users = 2
  MayDuplicate = TRUE
  Rejoiners = {c1}
INVARIANTS TypeOK IdsAreUnique AddressIsTheUsers RefusedWhenFull
CHECK_DEADLOCK FALSE
