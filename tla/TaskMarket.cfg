SPECIFICATION Spec
CONSTANTS
  Creator = creator
  Agent = {a1, a2}
  Arbiter = {v1}
  Threshold = 2
  Kind <- MCKind
  SignerLists <- MCSignerLists
INVARIANT TypeOK
INVARIANT InformedAccountsAccepted
INVARIANT InformedNotRefused
INVARIANT HalfCreatedThrew
PROPERTY ImplementsOutcome
CHECK_DEADLOCK FALSE
