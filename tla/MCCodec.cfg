SPECIFICATION Spec
INVARIANT ChecksMatchDesign
