SPECIFICATION Spec
CONSTANTS
  r1 = r1
  r2 = r2
  j1 = j1
  Requests = {r1}
  Jobs = {j1}
  Free = Free
  MaxLogins = 2
  MaxExpiries = 1
  Kinds = {"chatgpt", "ollama"}
  Attempts = 2
INVARIANTS SessionIsCurrent RequestsAreBounded
PROPERTIES EndsForAReason CallEnds
