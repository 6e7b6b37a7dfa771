SPECIFICATION FairSpec
CONSTANTS
  Lengths = {9, 10}
  MaxWrites = 1
  MaxMessages = 2
  MaxFields = 1

  
PROPERTIES
  QuietAfterClose
  ServerEndCloses
CHECK_DEADLOCK FALSE
