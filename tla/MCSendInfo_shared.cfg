SPECIFICATION FairSpec
CONSTANTS
  Threads = {"send", "user", "touch"}
  Infos = {"head", "dup"}
  Owner <- Owners
  Own = "dup"
  MaxFrames = 3
INVARIANT TypeOK
INVARIANT DeliveredOnce
INVARIANT EndsForAReason
PROPERTY OwnBufferStream
PROPERTY Flushed
