CONSTANTS
  Wallpapers = {a, b}
  Undecodable = {b}
  Targets = {small, large}
  Workers = {t1, t2}
  MaxEvents = 2
  MaxRefusals = 1
  Absent = Absent
SPECIFICATION PreviewSpec
INVARIANTS
  NamesExist
PROPERTIES
  Settles
