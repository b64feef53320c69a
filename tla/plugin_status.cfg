SPECIFICATION FairSpec
CONSTANTS
  Listeners = {l1}
  nil = nil
CHECK_DEADLOCK FALSE
PROPERTY MainLearnsOfTheEnd
