\* Two requests of three people, and of two while a server starts, fails and starts again any
\* number of times, from every database.
SPECIFICATION Spec
CONSTANTS
  u1 = u1
  u2 = u2
  u3 = u3
  Users <- AllUsers
  CaseManagerEmails <- Listed
  AdminEmails <- Listed
  Requests = {r1, r2}
  Starts = {s1}
  NoRequest = NoRequest
SYMMETRY Symmetry
CONSTRAINT StartsAmongListed
INVARIANTS ChangesAudited OnePromotion
PROPERTIES ImplementsRules
CHECK_DEADLOCK FALSE
