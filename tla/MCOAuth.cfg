SPECIFICATION Spec
CONSTANTS
  Calls = {c1, c2}
  Grants = {"client_credentials"}
  Code = "authorization_code"
  Serials = {1, 2}
  None = None
  Typed = Typed
  MaxTime = 1
INVARIANT OwnCodeOnly
INVARIANT AnswerBeatsClose
INVARIANT TokensMatchGrant
PROPERTY SignInsEnd
CHECK_DEADLOCK FALSE
