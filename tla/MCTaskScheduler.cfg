SPECIFICATION FairSpec
CONSTANTS
  Worker = {w1, w2}
  NumTasks = 8
  Deps <- VisionLoopDeps
  Main = Main
  Nobody = Nobody
INVARIANTS
  TypeOK
  NoEmptyCall
  SchedulerOutlivesTasks
PROPERTIES
  ImplementsTaskGraph
  EveryFrameEnds
  PoolJoins
