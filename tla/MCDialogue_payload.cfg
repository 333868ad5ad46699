\* Two connections of the same user; the commands whose payload is at stake.
SPECIFICATION Spec
CONSTANTS
  Conns = {c1, c2}
  Inputs = {"/start", "/stop", "learning", "changelevel", "tasks_add", "text"}
  MaxAsked = 3
  MaxFaults = 2
SYMMETRY Symmetry
INVARIANTS
  PayloadsAsked
