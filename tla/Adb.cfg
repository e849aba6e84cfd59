CONSTANTS
  MaxStreams = 2
  MaxConns = 2
  Payload = 2
  kMaxAttempts = 1
  MaxEvents = 5
  Streams <- MCStreams
  Conns <- MCConns
  FirstId <- MCFirstId
SPECIFICATION Spec
INVARIANT OneRightToSend
INVARIANT PendingDataIsWatched
INVARIANT PeersAgree
INVARIANT NoHalfOpenStream
PROPERTY StreamsAreReliable
PROPERTY EventuallySettled
CHECK_DEADLOCK FALSE
