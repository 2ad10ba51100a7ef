SPECIFICATION Spec
CONSTANTS
  r1 = r1
  r2 = r2
  r3 = r3
  r4 = r4
  r5 = r5
  Reports = {r1, r2, r3, r4, r5}
  ReportOf <- MCReportOf
  Paths <- MCPaths
  Directives <- MCDirectives
  Options <- MCAggregated
  ChanCap = 2
INVARIANTS
  NolintSuppresses
