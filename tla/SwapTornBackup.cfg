SPECIFICATION Spec
CONSTANTS
  t1 = t1
  t2 = t2
  f1 = f1
  f2 = f2
  Tasks = {t1, t2}
  Files = {f1, f2}
  NoFile = NoFile
  NoTask = NoTask
  Regimes = {{"backup"}}
INVARIANT AlwaysPutBack
