\* A sign-in and two exchanges, on two loads of the page.
CONSTANTS
  MaxRefresh = 3
  MaxCsrf    = 5
  MaxLoads   = 2
SPECIFICATION SessionSpec
PROPERTY ReplayRevokesFamily
CHECK_DEADLOCK FALSE
