\* One task function, started and stopped twice; runs of up to one and a half
\* intervals.
CONSTANTS
    Interval = 4
    MaxRun = 6
    MaxStarts = 2
SPECIFICATION FairSpec
INVARIANTS TypeOK OneTask NoRunAfterStop NotConstantlyRunning
PROPERTIES StoppedTaskEnds
