CONSTANT Archives <- MCArchives
SPECIFICATION Spec
INVARIANT TypeOK
INVARIANT FilesAreRead
INVARIANT TimeIsRead
PROPERTY TableIsPolynomial
CHECK_DEADLOCK FALSE
