SPECIFICATION Spec
CONSTANT HasPi = FALSE
INVARIANT RerunsAreSafe
