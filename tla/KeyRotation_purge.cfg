SPECIFICATION Spec
CONSTANTS
  MasterKey = {k1, k2, k3}
  FirstKey = k1
  DataKey = {d1, d2}
SYMMETRY DataKeySymmetry
INVARIANT
  Opens
