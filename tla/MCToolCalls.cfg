SPECIFICATION Spec
CONSTANTS
  j1 = j1
  j2 = j2
  Ways = {"plain", "ask", "form", "agent", "runbook"}
  Tools = {"restart", "status"}
  Safety <- Declared
  Approve = {"restart", "kb_note"}
  Threads = {j1, j2}
  Commands = 2
  Bases = {1}
  MaxNote = 2
  MaxForms = 2
  Limit = 1
SYMMETRY ThreadsAlike
INVARIANTS
  RunsAsPlanned
  OncePerAnswer
  OverwritesAsShown
  SuccessIsWhole
