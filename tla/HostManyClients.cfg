SPECIFICATION FairSpec
CONSTANTS
  Nobody = Nobody
  Clients = {c1, c2}
  MaxStarts = 2
  Faulty = TRUE
INVARIANTS PauseSettles LoopsTakeTurns
PROPERTIES LoopsObeyStop RequestsEnd
