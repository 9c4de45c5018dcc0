SPECIFICATION StunSpec
CONSTANTS
  Word <- MCWord
  MaxWords = 4
INVARIANTS
  UfragIsReference
CHECK_DEADLOCK FALSE
