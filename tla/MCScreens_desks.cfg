\* Three refresh tokens, five CSRF tokens and three loads of the page; on
\* each desk, three requests of the screen or moves of others.
CONSTANTS
  MaxRefresh = 3
  MaxCsrf    = 5
  MaxLoads   = 3
  Desks      = {"job", "board", "money", "people", "care", "worker", "client"}
  MaxTurns   = 3
SPECIFICATION Spec
INVARIANTS TypeOK SignOutHeeded OffersAccepted ToldOrShown
PROPERTIES EndedStaysEnded LoaderEnds
CHECK_DEADLOCK FALSE
