--------------------------- MODULE SnapshotAccess ---------------------------
(***************************************************************************)
(* What the snapshot gate promises, and nothing of how it does it: at any  *)
(* moment a CodeMap's product is held by one writer alone or by any number *)
(* of readers.  SnapshotLocks implements it, and CodemapService, whose     *)
(* server may die, uses it.                                                *)
(***************************************************************************)

CONSTANTS Threads, Keys

VARIABLES holders,  \* holders[k]: the threads that hold k for reading
          owner     \* owner[k]: the threads that hold k for writing

avars == <<holders, owner>>

Init == /\ holders = [k \in Keys |-> {}]
        /\ owner   = [k \in Keys |-> {}]

BeginRead(t, k) == /\ owner[k] = {}
                   /\ holders' = [holders EXCEPT ![k] = @ \cup {t}]
                   /\ UNCHANGED owner

EndRead(t, k) == /\ t \in holders[k]
                 /\ holders' = [holders EXCEPT ![k] = @ \ {t}]
                 /\ UNCHANGED owner

BeginWrite(t, k) == /\ owner[k] = {}
                    /\ holders[k] = {}
                    /\ owner' = [owner EXCEPT ![k] = {t}]
                    /\ UNCHANGED holders

EndWrite(t, k) == /\ owner[k] = {t}
                  /\ owner' = [owner EXCEPT ![k] = {}]
                  /\ UNCHANGED holders

\* The process dies, and with it everybody who holds anything.
Crash == /\ holders' = [k \in Keys |-> {}]
         /\ owner'   = [k \in Keys |-> {}]

Next == \/ \E t \in Threads, k \in Keys : \/ BeginRead(t, k)
                                          \/ EndRead(t, k)
                                          \/ BeginWrite(t, k)
                                          \/ EndWrite(t, k)
        \/ Crash

Spec == Init /\ [][Next]_avars
=============================================================================
