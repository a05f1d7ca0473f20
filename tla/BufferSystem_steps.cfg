SPECIFICATION FairSpec
CONSTANTS
  MaxLen = 2
  Programs <- MCPrograms
INVARIANTS
  TypeOK
  NoFault
PROPERTIES
  ImplementsExchange
  StepsEnd
