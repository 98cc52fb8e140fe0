\* Rings are found and broken.
SPECIFICATION FairSpec
CONSTANTS
  one = one
  two = two
  three = three
  job = job
  boxA = boxA
  boxB = boxB
  Actor = {one, two}
  Task = {job}
  Box = {boxA, boxB}
  Slot = {}
  Home <- JoinHomes
  First = {one, two}
  Capacity = 1
  MaxWaits <- OneWait
  Targets <- RingTargets
PROPERTIES
  RingsAreBroken
