SPECIFICATION FairSpec
CONSTANTS
  Owner = {a, b}
  Thread = {s, t}
  Id = {i, j}
  NoId = NoId
  Nobody = Nobody
CHECK_DEADLOCK FALSE
INVARIANTS TypeOK JoinsOwnThread OwnersReap UsersHoldTheInstance
PROPERTIES EveryThreadEnds
