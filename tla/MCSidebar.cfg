SPECIFICATION Spec
CONSTANTS
  h1 = h1
  h2 = h2
  student = student
  teacher = teacher
  Clients = {student, teacher}
  Highlights = {h1, h2}
  Owner <- Owners
  Privileged = {teacher}
  Start <- StartLines
  Tags = {g1, g2}
  Refs = {r1}
  Texts = {t1}
  Empty = Empty
  Scenes <- MCScenes
CHECK_DEADLOCK FALSE
INVARIANTS
  TypeOK
  EachCommentOnce
  SettledPage
