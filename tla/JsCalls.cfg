SPECIFICATION FairSpec
CONSTANTS
  Calls = {c1, c2}
  Threads = {t1, t2}
  Functions = {f}
  Refs = {r1, r2}
  Watched = {"event", "deviceState", "stateChanged"}
  Emitted = {"deviceState", "stateChanged", "playRequest"}
  MaxEvents = 1
  MaxAdds = 2
  Together = {"release", "pause"}
  None = None
CHECK_DEADLOCK FALSE
INVARIANTS ResolvedWasDone RefCountsAgree
PROPERTIES OnlySubscribersCalled EveryCallSettles EventsReachSubscribers
