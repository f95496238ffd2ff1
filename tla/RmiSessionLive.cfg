CONSTANTS
  a1 = a1  a2 = a2
  s1 = s1  s2 = s2  s3 = s3
  r1 = r1  r2 = r2
  App = {a1}
  Session = {s1, s2}
  Resource = {r1}
  AppOf <- MCAppOf
  Parts <- MCOnePart
  Preempt = {s2}
  MaxLease = 2
SPECIFICATION FairSpec
PROPERTIES BeliefEnds ReplacedIsFinal
