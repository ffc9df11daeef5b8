\* Two overlapping calls, texts of up to three statements.  No symmetry:
\* one of the properties is a liveness property.
SPECIFICATION FairSpec
CONSTANTS
  Tasks = {t1, t2}
  MaxStatements = 3
INVARIANTS SettledTasksLeaveNothing ScriptRunsInOrder FaultsNeedAnEarlyClose
PROPERTY EveryCallSettles
CHECK_DEADLOCK FALSE
