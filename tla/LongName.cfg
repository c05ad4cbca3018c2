CONSTANTS
  Commands <- SomeCommands
  NameLengths <- SomeLengths
  Workers = {w1, w2}
  Modulus = 128
SPECIFICATION Spec
PROPERTIES
  ConsoleReturns
