CONSTANTS
  CallIds = {c1, c2}
  Tasks = {t1, t2}
  Medias = {m1, m2}
  MaxId = 3
SPECIFICATION Spec
INVARIANT SessionsByCallIDComplete
