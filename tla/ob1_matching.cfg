SPECIFICATION Spec
CONSTANTS
  Senders <- Two
  Threads = {1, 2}
  MessageTags <- Tags
  ReceiveTags <- Asked
  Configs <- Settings
  SeqNumbers = 2
INVARIANTS IInv NothingOverlooked NoMissedMatch CancelledUntaken
PROPERTIES ImplementsMatching Delivered
CHECK_DEADLOCK FALSE
