SPECIFICATION Spec

CONSTANTS
  None = None
  Photos = {p1, p2}
  Variants = {card, detail}
  Caps = {2, 4}
  BatchSize = 1
  Grace = 3
  Window = 1

SYMMETRY Symmetric

CONSTRAINT OneTold

INVARIANTS
  CardsHaveFiles
  GraceSuffices
  SnapshotsFollow
