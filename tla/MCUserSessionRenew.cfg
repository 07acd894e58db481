SPECIFICATION Spec
CONSTANTS
  r1 = r1
  r2 = r2
  Tokens <- MCTokens
  Handlers <- MCOne
  Faults = {"restart"}
PROPERTY RenewedTokenWorks
