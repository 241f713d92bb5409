SPECIFICATION Spec
CONSTANTS
  a = a
  b = b
  c = c
  x = x
  Ids = {a, b, c, x}
  Cabinet = {a, b, c}
  Allowed = {"document", "folder"}
  BatchMax = 2
  PageMax = 2
PROPERTIES HiddenSlots
CHECK_DEADLOCK FALSE
