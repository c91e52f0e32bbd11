\* Two jobs on two workers, up to three crashes, signals and failures, in a run
\* that is resumed until it is completed.
SPECIFICATION FairSpec
CONSTANTS
  JobOrder <- TwoJobs
  Workers = 2
  MaxFaults = 3
INVARIANTS NoStrays Truthful
 
CHECK_DEADLOCK FALSE
