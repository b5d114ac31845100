\* A descriptor used again after its channel was destroyed while registered.
SPECIFICATION PollerSpec
CHECK_DEADLOCK FALSE
CONSTANTS
  c1 = c1
  c2 = c2
  c3 = c3
  c4 = c4
  Channels <- MCChannels
  FdOf <- MCFdOf
INVARIANT RegistrationAssertion
