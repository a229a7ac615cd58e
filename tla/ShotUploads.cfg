\* Two requests at once, of two images sent again and again, with bulk
\* deletes, purges and a restart.
SPECIFICATION Spec
CONSTANTS
  Images = {i1, i2}
  Uploads = {u1, u2}
  MaxKey = 3
  MaxRestarts = 1
  Nil = Nil
SYMMETRY Symmetry
INVARIANTS
  ObjectHoldsImage
  ToldIsKept
PROPERTIES
  KeepsImages
