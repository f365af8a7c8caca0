SPECIFICATION Spec
CONSTANTS
  Senders <- Two
  Threads = {1, 2}
  MessageTags <- Tags
  ReceiveTags <- Asked
  Configs <- TwoThreads
  SeqNumbers = 2
INVARIANTS CancelledUntaken
CHECK_DEADLOCK FALSE
