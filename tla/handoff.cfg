SPECIFICATION FairSpec
CONSTANTS
  MaxMsgs = 4
  Block = 1
  Junk = Junk
INVARIANTS InOrderUnlessStraddled List1HandledOnce
PROPERTIES ImplementsInOrder AllHandled
