\* Three grants with a lease of two ticks: long enough for a lease to be
\* renewed, to run out unnoticed and to be followed by two others.
CONSTANTS
  TTL = 2
  MaxLease = 3
  MaxTime = 8
SPECIFICATION Spec
INVARIANTS NoGrantInDebt NeverForgotten
PROPERTIES Implements
