SPECIFICATION Spec
CONSTANTS
  Files = {"a.o", "b.o"}
  MaxArgs = 4
INVARIANTS
  RejectedFails
