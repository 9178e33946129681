SPECIFICATION TimersSpec
CONSTANTS
  Parts = {"watching", "closing", "playback"}
  Files = {1, 2}
  Watched = {1, 2}
  Batches <- ByHand
  Typed = {}
  Libraries = {l1, NoLibrary}
  MaxWrites = 3
  OutcomeRows = 1
  NoLibrary = NoLibrary
  NoFile = NoFile
  Blank = Blank
  MinRate = 1
  MaxRate = 3
  Rates <- Asked
  Times = {0, 2, 5}
  MaxStep = 2
  ContentRanges <- Spans
INVARIANTS QueueIsSound InRange FrameRateIndependent GapWasPlayed
PROPERTIES DrainsAreSound OffersAreRipe WatchedImported OnceEnds
