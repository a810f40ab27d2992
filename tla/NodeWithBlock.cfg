SPECIFICATION ServiceSpec
CONSTANTS
  t1 = t1
  t2 = t2
  t3 = t3
  Thread <- MCThread
  Answer <- MCThread
SYMMETRY Symmetry
PROPERTY WithBlockKeeps
