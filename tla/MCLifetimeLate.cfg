SPECIFICATION Spec
CONSTANTS
  t1 = t1
  i1 = i1
  l1 = l1
  l2 = l2
  x1 = x1
  Main = Main
  Threads = {t1}
  Instances = {i1}
  Listeners = {l1, l2}
  Owner <- OwnerOf
  Exiters = {Main}
INVARIANT LateThreadIsJustNotStarted
