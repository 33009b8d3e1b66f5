CONSTANTS
  Threads = {t1, t2, t3, t4}
  Keys = {k1, k2}
SPECIFICATION FairSpec
INVARIANTS NoLostWakeup
PROPERTIES ImplementsAccess SomeWriterEnters
