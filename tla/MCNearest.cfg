SPECIFICATION Spec
INVARIANTS
    NearestRepresentable
