SPECIFICATION ResultSpec
CONSTANTS
  Results = {r1, r2, r3, w1, w2}
  Voids = {w1, w2}
  Values = {v1, v2}
INVARIANTS MembersLiveOnce
PROPERTIES KeepsValues
