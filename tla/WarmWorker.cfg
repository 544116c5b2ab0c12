CONSTANTS
  Archives = {a1}
  Readers = {reader}
  Loader = loader
  NoArchive = NoArchive
  Chunks = 2
  Conditions <- RetryOrWake
  MaxEvents = 3
SPECIFICATION FairSpec
CHECK_DEADLOCK FALSE
INVARIANTS WorkerInv CompleteMeansTouched LoadGate
PROPERTIES AnnouncedWhenCalm EventuallyCommitted EventuallyWarm StopEndsWorker
