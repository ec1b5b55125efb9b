SPECIFICATION Spec
CONSTANTS
  a = a
  b = b
  c = c
  text1 = text1
  text2 = text2
  link1 = link1
  m1 = m1
  m2 = m2
  r1 = r1
  r2 = r2
  s1 = s1
  s2 = s2
  Nobody = Nobody
  Value = {a, b, c}
  Known = {a, b}
  Proposal <- OnePair
  Extraction = {text1, text2}
  Link = {link1}
  Mention = {m1}
  Rel = {r1}
  Reviewer = {s1, s2}
  Serial = TRUE
INVARIANTS
  
  DecisionsAreWhole

  
SYMMETRY ReviewSymmetry
CHECK_DEADLOCK FALSE
