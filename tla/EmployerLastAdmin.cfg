CONSTANTS
  Organizations = {"employer"}
  Users = {u1, u2}
  Founder = u1
  Platform = Platform
  Requests = {p1, p2}
  None = None
SYMMETRY Symmetry
SPECIFICATION Spec
PROPERTY LastAdminStays
