SPECIFICATION Spec
CONSTANTS
  Users = {alice}
  Addresses = {alices}
  Box <- TheBox
  Uids = {i1, i2}
  Answers = {accepted, declined}
  Requests = {r1, r2}
  MaxMails = 2
  Organizer = organizer
  None = None
  EmptyUid = EmptyUid
SYMMETRY Symmetry
INVARIANTS ShownWasMailed DeletedIsAnnounced
PROPERTIES AnswerStays
CHECK_DEADLOCK FALSE
