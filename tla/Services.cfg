SPECIFICATION ServicesSpec
CONSTANTS
  Cameras = {c1, c2}
  BackoffBase = 1
  BackoffMax = 4
  MaxPass = 2
  StartRaises = TRUE
  JoinTimesOut = TRUE
  Procs = {"worker", "api"}
  Workers = {"cam1", "cam2"}
  Home <- MCHome
  MaxMessages <- MCMaxMessages
  MaxListeners <- MCMaxListeners
  People = {"alone", "twin1", "twin2"}
  Looks = {0, 1, 3}
  LooksOf <- MCLooksOf
  Similarity <- MCSimilarity
  Threshold = 9
  Ttl = 1
  WorkerLag = 1
  MaxTime = 2
  ExpectedCameras = {"x", "y"}
INVARIANTS OneFeed NothingAfterStop OnceInOrder OneIdentityEach RecentKept
PROPERTIES BacksOff Restarted StopReturns ListensAgain RoundsOnClose
CHECK_DEADLOCK FALSE
