\* Three actors, two of them in a slot one after the other, and a task.
SPECIFICATION Spec
CONSTANTS
  one = one
  two = two
  three = three
  job = job
  boxA = boxA
  boxB = boxB
  Actor = {one, two, three}
  Task = {job}
  Box = {boxA, boxB}
  Slot = {boxB}
  Home <- Homes
  First = {one, two}
  Capacity = 1
  MaxWaits <- SlotWaits
  Targets <- SlotTargets
INVARIANTS
  NothingLeaks
  ListedTogether
  NobodyRefusedSilently
