SPECIFICATION Spec
CONSTANTS
  Names <- MCNames
  NoName = ""
  Fold <- MCFold
  Registry <- MCRegistry
  Policies <- MCPolicies
  Nothing = Nothing
  Requests <- MCRequests
INVARIANTS Precedence TraceInOrder PlanIsComplete DenialSurvivesFindings AdapterFamilies
CHECK_DEADLOCK FALSE
