\* Every import the generated file declares is used.
CONSTANTS
  MaxServices <- MCMaxServices
  MaxMethods <- MCMaxMethods
SPECIFICATION Spec
CHECK_DEADLOCK FALSE
INVARIANT GeneratedImportsAllUsed
