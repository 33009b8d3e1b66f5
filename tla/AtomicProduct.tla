--------------------------- MODULE AtomicProduct ---------------------------
(***************************************************************************)
(* What the service promises about one CodeMap, whatever its gates, flags  *)
(* and ids look like: the product changes only while no query is inside, a *)
(* query is answered from the product as it stands, and products come one  *)
(* after another, never backwards.                                         *)
(***************************************************************************)
EXTENDS Naturals

CONSTANTS Threads,
          Nothing    \* what stands in store when there is no product

VARIABLES store,     \* the product as a query would read it
          last,      \* the version of the last product published
          readers,   \* the threads inside a query
          got        \* got[t]: the product behind the answer t holds

vars == <<store, last, readers, got>>

Init == /\ last \in Nat
        /\ store = Nothing \/ store.ver = last
        /\ readers = {}
        /\ got = [t \in Threads |-> Nothing]

Write == /\ readers = {}
         /\ last' >= last
         /\ store' = Nothing \/ store'.ver = last'
         /\ UNCHANGED <<readers, got>>

Open(t) == /\ t \notin readers
           /\ readers' = readers \cup {t}
           /\ UNCHANGED <<store, last, got>>

Answer(t) == /\ t \in readers
             /\ store # Nothing
             /\ got' = [got EXCEPT ![t] = store]
             /\ readers' = readers \ {t}
             /\ UNCHANGED <<store, last>>

Abandon(t) == /\ t \in readers
              /\ readers' = readers \ {t}
              /\ UNCHANGED <<store, last, got>>

Return(t) == /\ got' = [got EXCEPT ![t] = Nothing]
             /\ UNCHANGED <<store, last, readers>>

(* A crash of the server takes every query and answer under way with it.   *)
Crash == /\ readers' = {}
         /\ got' = [t \in Threads |-> Nothing]
         /\ UNCHANGED <<store, last>>

Next == \/ Write
        \/ Crash
        \/ \E t \in Threads : Open(t) \/ Answer(t) \/ Abandon(t) \/ Return(t)

Spec == Init /\ [][Next]_vars
=============================================================================
