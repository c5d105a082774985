SPECIFICATION ReportSpec
CONSTANTS
  x = x
  y = y
  z = z
  Artifacts = {x, y, z}
  Photos = {x, y}
  Codes = {"crack"}
  Proposals <- MCProposals
  Answers <- MCAnswers
  MaxReports = 2
  PageSize = 1
INVARIANTS
  PagesAreComplete
CHECK_DEADLOCK FALSE
