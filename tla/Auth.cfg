\* One account, two codes, two tokens, two handlers at a time; a code locks at the first wrong guess.
SPECIFICATION Spec
CONSTANTS
  Users = {u1}
  NoUser = NoUser
  MaxOtps = 2
  MaxTokens = 2
  MaxAttempts = 1
  Calls = {c1, c2}
INVARIANTS
  GuessesAreBounded
  VerifiedByACode
  RotationRevokesTheParent
  ResetEndsOldSessions
SYMMETRY Symmetric
CHECK_DEADLOCK FALSE
