\* Three workers resolve a user and a group of the same name.
SPECIFICATION Spec
CONSTANTS
  None = None
  Domains = {d1}
  Names = {n1}
  Generators = {sha256, uuid}
  GroupIds = {g1}
  Requests = {r1, r2, r3}
SYMMETRY Symmetry
INVARIANTS
  TypeOK
  OneId
  Resolved
  AnswersAreMapped
PROPERTIES
  ImplementsDirectory
