SPECIFICATION Spec
CONSTANTS
  Keys = {1, 2, 3}
  PAGE_SIZE = 4
INVARIANT SortedNewestFirst
INVARIANT NothingLost
PROPERTY FindAnswers
