CONSTANTS
  n1 = n1
  n2 = n2
  n3 = n3
  n4 = n4
  Null = Null
  Node <- FourNodes
  Key <- TwoKeys
  Ops <- JobOps
SPECIFICATION Spec
SYMMETRY FourAddresses
VIEW Seen
PROPERTY ImplementsKeyList
