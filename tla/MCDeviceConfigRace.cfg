SPECIFICATION Spec
CONSTANTS
  first = first
  second = second
  watch = watch
  k1 = k1
  k2 = k2
  Writer = {first, second}
  Running = {first}
  Name = {watch}
  Key = {k1, k2}
  Found <- FoundBoth
  MaxFiles = 3
  MaxHandEdits = 1
PROPERTIES
  EnrollReplacesNothing
