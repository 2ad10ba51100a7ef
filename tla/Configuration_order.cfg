SPECIFICATION Spec
CONSTANTS
  Builtin <- MCBuiltin
  DefaultOn = {"vet"}
  FastBuiltin = {"vet"}
  DefaultErr = {"vet"}
  Files <- MCFiles
  Invocations <- MCInvocations
  BadRegexps = {"("}
  Vendored = {"home"}
  MaxArgs = 2
INVARIANTS
  FlagAfterFileWins
