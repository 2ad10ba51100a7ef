SPECIFICATION Spec
CONSTANTS
  Forms <- MCForms
  Class <- MCClass
  Vars <- MCVars
  Executables <- MCExecutables
  Numbers <- MCNumbers
  Relative <- MCRelative
  Cases <- MCCases
INVARIANTS
  WordsAsWritten
  UnfinishedFails
  
  
