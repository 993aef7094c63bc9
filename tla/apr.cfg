SPECIFICATION FairSpec
CONSTANT MaxMessages = 8
INVARIANT FirstHalfOnly
PROPERTIES ImplementsInOrder Drains
