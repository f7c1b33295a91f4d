CONSTANTS
  Orders = {o1}
  Workers = {w1, w2}
  Worlds <- MCWorlds
  MaxFaults = 1
  MaxTries = 1
  MaxSyncs = 1
  None = None
SPECIFICATION PagesSpec
CHECK_DEADLOCK FALSE
INVARIANTS
  CreditedOnce
  MoneyIsWhereItBelongs
  
  WhatIsShownBelongs
PROPERTIES
  StepsAreAsked
  NothingHangs
