\* Policies of up to four attempts; Retry-After values below, at and above
\* the delay budgets, and one that float refuses; a jitter fraction out of range.
SPECIFICATION Spec
CONSTANTS
  HttpStatuses = {200, 302, 403, 404, 429, 499, 500, 599, 600}
  Seconds = {0, 4, 7, 1000}
  None = None
  Policies <- SomePolicies
  Fractions = {0, 50, 100, 101}
  RequestLimit = 4
  FloatLimit = 1000
INVARIANTS
  WithinBudgets
  ExhaustedIsSpent
  VerdictIsRight
PROPERTIES
  RetriesAreDue
  ImplementsAttempts
