SPECIFICATION FairSpec
CONSTANTS
  MaxPage = 6
  Pages = 3
PROPERTIES
  EveryListingEnds
CHECK_DEADLOCK FALSE
