SPECIFICATION Spec
INVARIANT WriteErrorsReported
