\* Two callers, a volume with two snapshots, bodies of two blocks.
CONSTANTS
  Task = {t1, t2}
  MaxVolumes = 1
  MaxSnaps = 2
  Blocks = 2
  Byte = {0, 1}
SPECIFICATION Spec
INVARIANTS TypeOK BodiesIntact
PROPERTY ImplementsDurable
SYMMETRY Callers
