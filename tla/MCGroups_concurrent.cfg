SPECIFICATION Spec
CONSTANTS
  Users = {u1, u2, u3}
  Groups = {g1, g2}
  Names = {n1}
  Slots = {s1, s2}
SYMMETRY Interchangeable
INVARIANTS TypeOK GroupIntegrity
PROPERTY OrphanedOnlyByStaleRead
