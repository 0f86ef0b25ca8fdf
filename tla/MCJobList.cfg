\* The ring as a FIFO in every interleaving, and the blocking reader; the ring wraps twice.
SPECIFICATION FairSpec
CONSTANTS
  p1 = p1  p2 = p2  c1 = c1  c2 = c2  a = a  b = b
  Producers <- MCProducers
  Consumers <- MCConsumers
  Jobs <- MCJobs
  MaxIdx = 2
  MaxPuts = 4
  Unset = Unset  None = None  Fail = Fail
INVARIANTS RingSound
PROPERTIES ReadersReleased ImplementsFifo
