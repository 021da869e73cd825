CONSTANT Contents <- MCContents
SPECIFICATION Spec
INVARIANT TypeOK
INVARIANT NeverRefused
INVARIANT LengthsAgree
INVARIANT RoundTrip
CHECK_DEADLOCK FALSE
