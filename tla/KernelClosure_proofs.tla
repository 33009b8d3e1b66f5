------------------------ MODULE KernelClosure_proofs ------------------------
(* What TLAPS proves of KernelClosure, for every set of bodies, classes,    *)
(* call sites, accesses, setters and programs.                              *)
EXTENDS KernelClosure, FiniteSetTheorems, TLAPS

LEMMA InitType == Init => TypeOK
<1> SUFFICES ASSUME Init PROVE TypeOK
  OBVIOUS
<1>1. PICK g \in Program : /\ calls = g.calls /\ accesses = g.accesses
                           /\ setters = g.setters /\ defaults = g.defaults
                           /\ contract = g.contract /\ registered = g.registered
                           /\ foreign = g.foreign
  BY DEF Init
<1>2. /\ calls \subseteq CallSite /\ accesses \subseteq Access /\ setters \subseteq Setter
      /\ defaults \subseteq Field /\ contract \in BOOLEAN
      /\ registered \in {"none", "type", "entry"} /\ foreign \subseteq {"kept", "entry", "other"}
  BY <1>1, ProgramAssumption
<1>3. /\ status \in [Pair -> {"absent", "partial", "extracted", "confirmed"}]
      /\ prov \in [Pair -> {"none", "clang", "bound_v2", "macro_v2", "bound_v3", "dispatch_v3"}]
      /\ trust \in [Pair -> {"none", "advisory", "authoritative"}]
      /\ sites \in [Pair -> SUBSET calls]
      /\ ref \in [CallSite -> {"none", "unresolved", "resolved", "external", "boundary"}]
  BY DEF Init
<1> QED BY <1>2, <1>3 DEF TypeOK, Init

LEMMA ReachableType == ASSUME NEW E PROVE Reachable(E) \subseteq Scope
BY DEF Reachable

LEMMA LinkType ==
  ASSUME TypeOK, NEW s \in calls, NEW D, NEW st \in {"partial", "confirmed"},
         NEW pv \in {"bound_v2", "macro_v2"}, Link(s, D, st, pv)
  PROVE  /\ status' \in [Pair -> {"absent", "partial", "extracted", "confirmed"}]
         /\ prov' \in [Pair -> {"none", "clang", "bound_v2", "macro_v2", "bound_v3", "dispatch_v3"}]
         /\ trust' \in [Pair -> {"none", "advisory", "authoritative"}]
         /\ sites' \in [Pair -> SUBSET calls]
<1> DEFINE T == Touched(s, D, st)
<1>1. status' \in [Pair -> {"absent", "partial", "extracted", "confirmed"}]
  BY DEF Link, TypeOK
<1>2. prov' \in [Pair -> {"none", "clang", "bound_v2", "macro_v2", "bound_v3", "dispatch_v3"}]
  BY DEF Link, TypeOK
<1>3. trust' \in [Pair -> {"none", "advisory", "authoritative"}]
  BY DEF Link, TypeOK
<1>4. sites' \in [Pair -> SUBSET calls]
  BY DEF Link, TypeOK
<1> QED BY <1>1, <1>2, <1>3, <1>4

LEMMA BindType == ASSUME TypeOK, NEW s \in todo, BindSite(s) PROVE TypeOK'
<1>1. s \in calls /\ s \in CallSite
  BY DEF TypeOK
<1>2. SiteProv(s) \in {"bound_v2", "macro_v2"}
  BY DEF SiteProv
<1>3. /\ status' \in [Pair -> {"absent", "partial", "extracted", "confirmed"}]
      /\ prov' \in [Pair -> {"none", "clang", "bound_v2", "macro_v2", "bound_v3", "dispatch_v3"}]
      /\ trust' \in [Pair -> {"none", "advisory", "authoritative"}]
      /\ sites' \in [Pair -> SUBSET calls]
  <2>1. CASE UNCHANGED edges
    BY <2>1 DEF TypeOK, edges
  <2>2. CASE Link(s, Found(s), "confirmed", SiteProv(s))
    BY <1>1, <1>2, <2>2, LinkType
  <2>3. CASE Link(s, Guesses(s), "partial", SiteProv(s))
    BY <1>1, <1>2, <2>3, LinkType
  <2> QED BY <2>1, <2>2, <2>3 DEF BindSite
<1>4. ref' \in [CallSite -> {"none", "unresolved", "resolved", "external", "boundary"}]
  BY <1>1 DEF BindSite, TypeOK
<1>5. todo' \subseteq calls
  BY DEF BindSite, TypeOK
<1> QED BY <1>3, <1>4, <1>5 DEF BindSite, TypeOK, program, tiling, counters

LEMMA FrontierType == ASSUME TypeOK, NEW s \in todo, ResolveFrontier(s) PROVE TypeOK'
<1>1. s \in calls /\ s \in CallSite
  BY DEF TypeOK
<1>2. CASE UNCHANGED edges
  <2>1. ref' \in [CallSite -> {"none", "unresolved", "resolved", "external", "boundary"}]
    BY <1>1 DEF ResolveFrontier, TypeOK
  <2>2. todo' \subseteq calls
    BY DEF ResolveFrontier, TypeOK
  <2> QED BY <1>2, <2>1, <2>2 DEF ResolveFrontier, TypeOK, edges, program, tiling, counters
<1>3. CASE Resolved(s) # {}
  <2>1. status' \in [Pair -> {"absent", "partial", "extracted", "confirmed"}]
    BY <1>3 DEF ResolveFrontier, TypeOK
  <2>2. prov' \in [Pair -> {"none", "clang", "bound_v2", "macro_v2", "bound_v3", "dispatch_v3"}]
    BY <1>3 DEF ResolveFrontier, TypeOK
  <2>3. trust' \in [Pair -> {"none", "advisory", "authoritative"}]
    BY <1>3 DEF ResolveFrontier, TypeOK
  <2>4. sites' \in [Pair -> SUBSET calls]
    BY <1>1, <1>3 DEF ResolveFrontier, TypeOK
  <2>5. ref' \in [CallSite -> {"none", "unresolved", "resolved", "external", "boundary"}]
    BY <1>1, <1>3 DEF ResolveFrontier, TypeOK
  <2>6. todo' \subseteq calls
    BY DEF ResolveFrontier, TypeOK
  <2> QED BY <2>1, <2>2, <2>3, <2>4, <2>5, <2>6
          DEF ResolveFrontier, TypeOK, program, tiling, counters
<1> QED BY <1>2, <1>3 DEF ResolveFrontier

LEMMA WritesType == ASSUME TypeOK, ScanWrites PROVE TypeOK'
<1>1. written' \subseteq Field \X {"text", "clang"} /\ wgaps' \subseteq Setter
  BY DEF ScanWrites, TypeOK
<1>2. ambiguousWriters' \in Nat
  <2>1. IsFiniteSet(Setter)
    BY ScopeAssumption
  <2>2. IsFiniteSet(wgaps')
    BY <1>1, <2>1, FS_Subset
  <2> QED BY <2>2, FS_CardinalityType DEF ScanWrites
<1>3. pass' = "truth"
  BY DEF ScanWrites
<1> QED BY <1>1, <1>2, <1>3 DEF ScanWrites, TypeOK, program, edges

\* The steps of the passes that handle everything at once.
LEMMA PassType ==
  ASSUME TypeOK, \/ Select \/ EndRefine \/ EndFrontiers \/ ClassifyBoundaries
                 \/ RebuildReads \/ ScanWrites \/ NormalizeTruth \/ Metrics
  PROVE  TypeOK'
<1>1. CASE Select
  BY <1>1, ScopeAssumption DEF Select, Purged, Pure, Certified, TypeOK, edges, tiling
<1>2. CASE EndRefine
  <2>1. reach' \subseteq Scope
    BY <1>2, ReachableType DEF EndRefine
  <2>2. todo' \subseteq calls
    BY <1>2 DEF EndRefine
  <2>3. reads' \subseteq Scope \X Field /\ gaps' \subseteq Access
    BY <1>2 DEF EndRefine, TypeOK
  <2>4. pass' = "frontiers"
    BY <1>2 DEF EndRefine
  <2> QED BY <1>2, <2>1, <2>2, <2>3, <2>4 DEF EndRefine, TypeOK, program, edges
<1>3. CASE EndFrontiers
  <2>1. reach' \subseteq Scope
    BY <1>3, ReachableType DEF EndFrontiers
  <2> QED BY <1>3, <2>1 DEF EndFrontiers, TypeOK, program, edges, tiling
<1>4. CASE ClassifyBoundaries
  <2>1. ref' \in [CallSite -> {"none", "unresolved", "resolved", "external", "boundary"}]
    BY <1>4 DEF ClassifyBoundaries, TypeOK
  <2> QED BY <1>4, <2>1 DEF ClassifyBoundaries, TypeOK, program, edges, tiling, counters
<1>5. CASE RebuildReads
  <2>1. reads' \subseteq Scope \X Field /\ gaps' \subseteq Access
    BY <1>5 DEF RebuildReads, TypeOK
  <2> QED BY <1>5, <2>1 DEF RebuildReads, TypeOK, program, edges, counters
<1>6. CASE ScanWrites
  BY <1>6, WritesType
<1>7. CASE NormalizeTruth
  BY <1>7 DEF NormalizeTruth, TypeOK, program, edges, tiling
<1>8. CASE Metrics
  <2>1. reach' \subseteq Scope
    BY <1>8, ReachableType DEF Metrics
  <2>2. strict' \in BOOLEAN /\ cert' \in BOOLEAN
    BY <1>8 DEF Metrics, IsStrict, TypeOK
  <2> QED BY <1>8, <2>1, <2>2 DEF Metrics, TypeOK, program, edges, tiling
<1> QED BY <1>1, <1>2, <1>3, <1>4, <1>5, <1>6, <1>7, <1>8

LEMMA NextType == TypeOK /\ [Next]_vars => TypeOK'
<1> SUFFICES ASSUME TypeOK, [Next]_vars PROVE TypeOK'
  OBVIOUS
<1>1. CASE UNCHANGED vars
  BY <1>1 DEF TypeOK, vars, program, edges, tiling, counters
<1>2. ASSUME NEW s \in todo, BindSite(s) PROVE TypeOK'
  BY <1>2, BindType
<1>3. ASSUME NEW s \in todo, ResolveFrontier(s) PROVE TypeOK'
  BY <1>3, FrontierType
<1> QED BY <1>1, <1>2, <1>3, PassType DEF Next

\* The variables of the passes keep their types, whatever is built.
THEOREM TypeCorrect == Spec => []TypeOK
BY InitType, NextType, PTL DEF Spec

----------------------------------------------------------------------------
(* Confirmed edges.  Two facts about one step carry every property of them: *)
(* what a step of the binder leaves on an edge, and that evidence grows.    *)

Statuses == {"absent", "partial", "extracted", "confirmed"}
Trusts == {"none", "advisory", "authoritative"}
Grows == \A p \in Pair : /\ status[p] \in Confirmed => status'[p] \in Confirmed
                         /\ sites[p] \subseteq sites'[p]
                         /\ trust[p] = "advisory" => trust'[p] = "advisory"
StaysConfirmed == \A p \in Pair : status[p] = "confirmed" => status'[p] = "confirmed"

LEMMA LinkGrows ==
  ASSUME TypeOK, NEW s, NEW D, NEW st \in {"partial", "confirmed"}, NEW pv, Link(s, D, st, pv)
  PROVE  /\ Grows /\ StaysConfirmed
         /\ \A p \in Pair : status'[p] = "confirmed" /\ status[p] # "confirmed"
                               => st = "confirmed" /\ p[1] = s.caller /\ p[2] \in D /\ s \in sites'[p]
         /\ st = "confirmed" => \A p \in Pair : p[1] = s.caller /\ p[2] \in D
                                                   => status'[p] = "confirmed" /\ s \in sites'[p]
<1> DEFINE T == Touched(s, D, st)
<1> SUFFICES ASSUME NEW p \in Pair
             PROVE  /\ status[p] \in Confirmed => status'[p] \in Confirmed
                    /\ sites[p] \subseteq sites'[p]
                    /\ trust[p] = "advisory" => trust'[p] = "advisory"
                    /\ status[p] = "confirmed" => status'[p] = "confirmed"
                    /\ status'[p] = "confirmed" /\ status[p] # "confirmed"
                          => st = "confirmed" /\ p[1] = s.caller /\ p[2] \in D /\ s \in sites'[p]
                    /\ (st = "confirmed" /\ p[1] = s.caller /\ p[2] \in D)
                          => status'[p] = "confirmed" /\ s \in sites'[p]
  BY DEF Grows, StaysConfirmed
<1>1. /\ status'[p] = (IF p \in T /\ (st = "confirmed" \/ status[p] = "absent")
                       THEN st ELSE status[p])
      /\ trust'[p] = (IF p \in T THEN "advisory" ELSE trust[p])
      /\ sites'[p] = (IF p \in T THEN sites[p] \cup {s} ELSE sites[p])
  BY DEF Link
<1>2. p \in T <=> /\ p[1] = s.caller /\ p[2] \in D
                  /\ ~(st = "partial" /\ status[p] \in Confirmed)
  BY DEF Touched
<1>3. status[p] \in Statuses
  BY DEF TypeOK, Statuses
<1> QED BY <1>1, <1>2, <1>3 DEF Confirmed, Statuses

LEMMA ResolveGrows ==
  ASSUME TypeOK, NEW s \in todo, ResolveFrontier(s)
  PROVE  /\ Grows /\ StaysConfirmed
         /\ \A p \in Pair : status'[p] = "confirmed" /\ status[p] # "confirmed" =>
               ref'[s] = "resolved" /\ p[1] = s.caller /\ p[2] \in Resolved(s) /\ s \in sites'[p]
         /\ ref'[s] = "resolved" /\ ref[s] # "resolved" =>
               \A p \in Pair : p[1] = s.caller /\ p[2] \in Resolved(s) => s \in sites'[p]
<1> USE DEF Grows, StaysConfirmed
<1>0. s \in CallSite
  BY DEF TypeOK
<1>1. CASE UNCHANGED edges /\ (ref' = ref \/ ref' = [ref EXCEPT ![s] = "external"])
  <2>1. UNCHANGED <<status, sites, trust>>
    BY <1>1 DEF edges
  <2>2. ~(ref'[s] = "resolved" /\ ref[s] # "resolved")
    BY <1>0, <1>1 DEF TypeOK
  <2> QED BY <2>1, <2>2
<1>2. CASE Resolved(s) # {}
  <2> DEFINE T == {s.caller} \X Resolved(s)
  <2>1. ref'[s] = "resolved"
    BY <1>0, <1>2 DEF ResolveFrontier, TypeOK
  <2>2. ASSUME NEW p \in Pair
        PROVE  /\ status'[p] = (IF p \in T /\ status[p] = "absent" THEN "confirmed" ELSE status[p])
               /\ trust'[p] = (IF p \in T THEN "advisory" ELSE trust[p])
               /\ sites'[p] = (IF p \in T THEN sites[p] \cup {s} ELSE sites[p])
               /\ p \in T <=> p[1] = s.caller /\ p[2] \in Resolved(s)
    BY <1>2 DEF ResolveFrontier, Pair
  <2> QED BY <2>1, <2>2 DEF Confirmed
<1> QED BY <1>1, <1>2 DEF ResolveFrontier

LEMMA NextGrows == ASSUME TypeOK, [Next]_vars PROVE Grows /\ StaysConfirmed
<1>1. CASE UNCHANGED edges
  BY <1>1 DEF Grows, StaysConfirmed, edges
<1>2. ASSUME NEW s \in todo, BindSite(s) PROVE Grows /\ StaysConfirmed
  <2>1. CASE Link(s, Found(s), "confirmed", SiteProv(s))
    BY <2>1, LinkGrows
  <2>2. CASE Link(s, Guesses(s), "partial", SiteProv(s))
    BY <2>2, LinkGrows
  <2> QED BY <1>1, <1>2, <2>1, <2>2 DEF BindSite
<1>3. ASSUME NEW s \in todo, ResolveFrontier(s) PROVE Grows /\ StaysConfirmed
  BY <1>3, ResolveGrows
<1>4. CASE \/ Select \/ EndRefine \/ EndFrontiers \/ ClassifyBoundaries
           \/ RebuildReads \/ ScanWrites \/ NormalizeTruth \/ Metrics
  BY <1>1, <1>4 DEF Select, EndRefine, EndFrontiers, ClassifyBoundaries,
                    RebuildReads, ScanWrites, NormalizeTruth, Metrics
<1>5. CASE UNCHANGED vars
  BY <1>1, <1>5 DEF vars
<1> QED BY <1>2, <1>3, <1>4, <1>5 DEF Next

\* Evidence only grows: no step demotes an edge, forgets a site or raises trust.
THEOREM EvidenceOnlyGrows == Spec => EvidenceGrows
<1>1. TypeOK /\ [Next]_vars => [\A p \in Pair :
          /\ status[p] \in Confirmed => status'[p] \in Confirmed
          /\ sites[p] \subseteq sites'[p]
          /\ trust[p] = "advisory" => trust'[p] = "advisory"]_vars
  BY NextGrows DEF Grows
<1> QED BY <1>1, TypeCorrect, PTL DEF Spec, EvidenceGrows

----------------------------------------------------------------------------
(* What the binder has done with the sites it has seen.                     *)

Bound(s) == ref[s] = "none" /\ \A p \in Pair : p[1] = s.caller /\ p[2] \in Found(s)
                                    => status[p] = "confirmed" /\ s \in sites[p]
Unbound(s) == \/ ref[s] \in {"unresolved", "boundary"}
              \/ ref[s] = "external" /\ (Guesses(s) = {} \/ Resolved(s) = {})
              \/ ref[s] = "resolved" /\ \A p \in Pair :
                    p[1] = s.caller /\ p[2] \in Resolved(s) => s \in sites[p]
Handled(s) == Skipped(s) \/ (IF Binds(s) THEN Bound(s) ELSE Unbound(s))
\* The strengthening: what is still to come has not been handled, and what an
\* edge is confirmed by keeps its answer.
BinderInv ==
    /\ \A s \in Scanned : Handled(s)
    /\ pass = "select" => todo = {} /\ \A s \in CallSite : ref[s] = "none"
    /\ pass = "frontiers" => \A s \in CallSite : ref[s] # "boundary"
    /\ pass \in {"select", "refine"} => \A s \in CallSite : ref[s] \in {"none", "unresolved", "external"}
    /\ pass = "refine" => \A s \in todo : ref[s] = "none"
    /\ pass = "frontiers" => \A s \in todo : ref[s] = "unresolved"
    /\ pass = "frontiers" => \A s \in calls \ todo : ref[s] = "unresolved" => Resolved(s) = {}
    /\ pass \notin {"select", "refine", "frontiers"} => \A s \in calls :
          ref[s] \in {"unresolved", "boundary"} => Resolved(s) = {}
    /\ pass \notin {"select", "refine", "frontiers", "boundaries"} => \A s \in calls :
          ref[s] # "unresolved"
    /\ NoInventedCallee

\* What the binder has settled of every call site it has met
\* (kernel_call_read_refine.py, kernel_call_resolution.py).
LEMMA BinderInit == Init => BinderInv
<1> SUFFICES ASSUME Init PROVE BinderInv
  OBVIOUS
<1>1. \A p \in Pair : status[p] # "confirmed"
  BY DEF Init
<1> QED BY <1>1 DEF Init, BinderInv, Scanned, NoInventedCallee

LEMMA HandledStays ==
  ASSUME TypeOK, NEW t \in CallSite, Handled(t), Grows, StaysConfirmed, ref'[t] = ref[t]
  PROVE  Handled(t)'
BY DEF Handled, Bound, Unbound, Grows, StaysConfirmed

LEMMA JustifiedStays ==
  ASSUME TypeOK, NoInventedCallee, Grows,
         \A t \in CallSite : ref[t] = "resolved" => ref'[t] = "resolved",
         NEW p \in Pair, status[p] = "confirmed"
  PROVE  \E t \in sites'[p] : \/ Confident(t, p)
                              \/ ref'[t] = "resolved" /\ t.caller = p[1] /\ p[2] \in Resolved(t)
<1>1. PICK t \in sites[p] : \/ Confident(t, p)
                            \/ ref[t] = "resolved" /\ t.caller = p[1] /\ p[2] \in Resolved(t)
  BY DEF NoInventedCallee
<1>2. t \in CallSite /\ t \in sites'[p]
  BY DEF TypeOK, Grows
<1> QED BY <1>1, <1>2

LEMMA BindKeeps == ASSUME TypeOK, BinderInv, NEW s \in todo, BindSite(s) PROVE BinderInv'
<1>0. /\ s \in calls /\ s \in CallSite /\ pass = "refine" /\ pass' = "refine"
      /\ calls' = calls /\ todo' = todo \ {s}
  BY DEF BindSite, TypeOK, program
<1>1. Grows /\ StaysConfirmed
  BY NextGrows DEF Next
<1>2. /\ \A t \in CallSite \ {s} : ref'[t] = ref[t]
      /\ ref[s] = "none"
      /\ ref'[s] \in {"none", "unresolved", "external"}
  <2>1. ref[s] = "none"
    BY <1>0 DEF BinderInv
  <2> QED BY <1>0, <2>1 DEF BindSite, TypeOK
<1>3. \A p \in Pair : status'[p] = "confirmed" /\ status[p] # "confirmed"
                         => s \in sites'[p] /\ Confident(s, p)
  <2>1. CASE UNCHANGED edges
    BY <2>1 DEF edges
  <2>2. CASE ~Skipped(s) /\ Binds(s) /\ Link(s, Found(s), "confirmed", SiteProv(s))
    <3>1. \A p \in Pair : status'[p] = "confirmed" /\ status[p] # "confirmed"
             => p[1] = s.caller /\ p[2] \in Found(s) /\ s \in sites'[p]
      BY <2>2, LinkGrows
    <3> QED BY <2>2, <3>1 DEF Confident
  <2>3. CASE Link(s, Guesses(s), "partial", SiteProv(s))
    <3>1. \A p \in Pair : status'[p] = "confirmed" /\ status[p] # "confirmed" => FALSE
      BY <2>3, LinkGrows
    <3> QED BY <3>1
  <2> QED BY <2>1, <2>2, <2>3 DEF BindSite
<1>4. Handled(s)'
  <2>1. CASE Skipped(s)
    BY <2>1 DEF Handled
  <2>2. CASE ~Skipped(s) /\ Binds(s) /\ Link(s, Found(s), "confirmed", SiteProv(s)) /\ UNCHANGED ref
    <3>1. \A p \in Pair : p[1] = s.caller /\ p[2] \in Found(s)
             => status'[p] = "confirmed" /\ s \in sites'[p]
      BY <2>2, LinkGrows
    <3> QED BY <1>2, <2>2, <3>1 DEF Handled, Bound
  <2>3. CASE ~Binds(s) /\ (ref'[s] = "unresolved" \/ (ref'[s] = "external" /\ Guesses(s) = {}))
    BY <2>3 DEF Handled, Unbound
  <2>4. ASSUME ~Skipped(s), Guesses(s) = {} PROVE ~Binds(s)
    <3>1. Found(s) = {} \/ Found(s) # {}
      OBVIOUS
    <3>2. Found(s) = {}
      BY <2>4 DEF Guesses
    <3> QED BY <3>2, FS_EmptySet DEF Binds
  <2> QED BY <1>0, <2>1, <2>2, <2>3, <2>4 DEF BindSite, TypeOK
<1>5. \A t \in Scanned' : Handled(t)'
  <2>1. Scanned' = Scanned \cup {s}
    BY <1>0 DEF Scanned
  <2>2. \A t \in Scanned : t # s /\ t \in CallSite
    BY <1>0 DEF Scanned, TypeOK
  <2>3. ASSUME NEW t \in Scanned PROVE Handled(t)'
    BY <1>1, <1>2, <2>2, <2>3, HandledStays DEF BinderInv
  <2> QED BY <1>4, <2>1, <2>3
<1>6. NoInventedCallee'
  <2>1. \A t \in CallSite : ref[t] = "resolved" => ref'[t] = "resolved"
    BY <1>2
  <2>2. ASSUME NEW p \in Pair, status'[p] = "confirmed"
        PROVE  \E t \in sites'[p] :
                  \/ Confident(t, p)
                  \/ ref'[t] = "resolved" /\ t.caller = p[1] /\ p[2] \in Resolved(t)
    BY <1>1, <1>3, <2>1, <2>2, JustifiedStays DEF BinderInv
  <2> QED BY <2>2 DEF NoInventedCallee, Confident
<1> QED BY <1>0, <1>2, <1>5, <1>6 DEF BinderInv, TypeOK

LEMMA ResolveKeeps == ASSUME TypeOK, BinderInv, NEW s \in todo, ResolveFrontier(s) PROVE BinderInv'
<1>0. /\ s \in calls /\ s \in CallSite /\ pass = "frontiers" /\ pass' = "frontiers"
      /\ calls' = calls /\ todo' = todo \ {s} /\ ref[s] = "unresolved"
  BY DEF ResolveFrontier, TypeOK, program, BinderInv
<1>1. Grows /\ StaysConfirmed
  BY NextGrows DEF Next
<1>2. /\ \A t \in CallSite \ {s} : ref'[t] = ref[t]
      /\ \/ ref'[s] = "resolved"
         \/ ref'[s] \in {"external", "unresolved"} /\ Resolved(s) = {}
  BY <1>0 DEF ResolveFrontier, TypeOK
<1>3. ~Skipped(s) => ~Binds(s)
  <2>1. Handled(s)
    BY <1>0 DEF BinderInv, Scanned
  <2> QED BY <1>0, <2>1 DEF Handled, Bound
<1>4. Handled(s)'
  <2>1. ref'[s] = "resolved" => \A p \in Pair : p[1] = s.caller /\ p[2] \in Resolved(s) => s \in sites'[p]
    BY <1>0, ResolveGrows
  <2> QED BY <1>2, <1>3, <2>1 DEF Handled, Unbound
<1>5. \A t \in Scanned' : Handled(t)'
  <2>1. Scanned' = calls /\ Scanned = calls
    BY <1>0 DEF Scanned
  <2>2. ASSUME NEW t \in calls, t # s PROVE Handled(t)'
    <3>1. t \in CallSite /\ Handled(t)
      BY <2>1, <2>2 DEF TypeOK, BinderInv
    <3> QED BY <1>1, <1>2, <2>2, <3>1, HandledStays
  <2> QED BY <1>4, <2>1, <2>2
<1>6. NoInventedCallee'
  <2>1. \A t \in CallSite : ref[t] = "resolved" => ref'[t] = "resolved"
    BY <1>0, <1>2
  <2>2. \A p \in Pair : status'[p] = "confirmed" /\ status[p] # "confirmed" =>
           ref'[s] = "resolved" /\ p[1] = s.caller /\ p[2] \in Resolved(s) /\ s \in sites'[p]
    BY ResolveGrows
  <2>3. ASSUME NEW p \in Pair, status'[p] = "confirmed"
        PROVE  \E t \in sites'[p] :
                  \/ Confident(t, p)
                  \/ ref'[t] = "resolved" /\ t.caller = p[1] /\ p[2] \in Resolved(t)
    BY <1>1, <2>1, <2>2, <2>3, JustifiedStays DEF BinderInv
  <2> QED BY <2>3 DEF NoInventedCallee, Confident
<1>7. \A t \in calls \ todo' : ref'[t] = "unresolved" => Resolved(t) = {}
  BY <1>0, <1>2 DEF BinderInv, TypeOK
<1>8. \A t \in todo' : ref'[t] = "unresolved"
  BY <1>0, <1>2 DEF BinderInv, TypeOK
<1>9. \A t \in CallSite : ref'[t] # "boundary"
  BY <1>0, <1>2 DEF BinderInv
<1> QED BY <1>0, <1>5, <1>6, <1>7, <1>8, <1>9 DEF BinderInv

LEMMA PassKeeps ==
  ASSUME TypeOK, BinderInv,
         \/ Select \/ EndRefine \/ EndFrontiers
         \/ RebuildReads \/ ScanWrites \/ NormalizeTruth \/ Metrics
  PROVE  BinderInv'
<1>0. UNCHANGED <<status, sites, ref, calls>>
  BY DEF Select, EndRefine, EndFrontiers, RebuildReads, ScanWrites, NormalizeTruth,
         Metrics, program, edges
<1>1. NoInventedCallee'
  BY <1>0 DEF BinderInv, NoInventedCallee, Confident
<1>2. \A t \in CallSite : Handled(t) => Handled(t)'
  BY <1>0 DEF Handled, Bound, Unbound
<1>3. Scanned' \subseteq Scanned /\ Scanned \subseteq CallSite
  BY <1>0 DEF Scanned, TypeOK, Select, EndRefine, EndFrontiers, RebuildReads, ScanWrites,
              NormalizeTruth, Metrics, program
<1>4. \A t \in Scanned' : Handled(t)'
  BY <1>2, <1>3 DEF BinderInv
<1>5. CASE Select
  <2>1. \A t \in calls : ref[t] = "none"
    BY <1>5 DEF BinderInv, TypeOK, Select
  <2> QED BY <1>0, <1>1, <1>4, <1>5, <2>1 DEF BinderInv, Select
<1>6. CASE EndRefine
  BY <1>0, <1>1, <1>4, <1>6 DEF BinderInv, EndRefine
<1>7. CASE EndFrontiers
  <2>1. \A t \in calls : ref[t] \in {"unresolved", "boundary"} => Resolved(t) = {}
    BY <1>7 DEF BinderInv, EndFrontiers, TypeOK
  <2> QED BY <1>0, <1>1, <1>4, <1>7, <2>1 DEF BinderInv, EndFrontiers
<1>8. CASE RebuildReads \/ ScanWrites \/ NormalizeTruth \/ Metrics
  <2>1. /\ pass \in {"reads", "writes", "truth", "metrics"}
        /\ pass' \in {"writes", "truth", "metrics", "done"}
    BY <1>8 DEF RebuildReads, ScanWrites, NormalizeTruth, Metrics
  <2> QED BY <1>0, <1>1, <1>4, <2>1 DEF BinderInv
<1> QED BY <1>5, <1>6, <1>7, <1>8

LEMMA BoundariesKeep == ASSUME TypeOK, BinderInv, ClassifyBoundaries PROVE BinderInv'
<1>0. /\ UNCHANGED <<status, sites, calls, todo>> /\ pass = "boundaries" /\ pass' = "reads"
      /\ \A t \in CallSite : ref'[t] = IF ref[t] = "unresolved" THEN "boundary" ELSE ref[t]
  BY DEF ClassifyBoundaries, program, edges
<1>1. NoInventedCallee'
  <2>1. ASSUME NEW p \in Pair, status'[p] = "confirmed"
        PROVE  \E t \in sites'[p] :
                  \/ Confident(t, p)
                  \/ ref'[t] = "resolved" /\ t.caller = p[1] /\ p[2] \in Resolved(t)
    <3>1. PICK t \in sites[p] : \/ Confident(t, p)
                                \/ ref[t] = "resolved" /\ t.caller = p[1] /\ p[2] \in Resolved(t)
      BY <1>0, <2>1 DEF BinderInv, NoInventedCallee
    <3>2. t \in CallSite
      BY <2>1 DEF TypeOK
    <3> QED BY <1>0, <3>1, <3>2
  <2> QED BY <2>1 DEF NoInventedCallee, Confident
<1>2. \A t \in CallSite : Handled(t) => Handled(t)'
  BY <1>0 DEF Handled, Bound, Unbound
<1>3. Scanned = calls /\ Scanned' = calls /\ calls \subseteq CallSite
  BY <1>0 DEF Scanned, TypeOK
<1>4. \A t \in calls : ref'[t] # "unresolved"
  BY <1>0 DEF TypeOK
<1>5. \A t \in calls : ref'[t] \in {"unresolved", "boundary"} => Resolved(t) = {}
  BY <1>0, <1>3 DEF BinderInv
<1> QED BY <1>0, <1>1, <1>2, <1>3, <1>4, <1>5 DEF BinderInv

LEMMA BinderNext == TypeOK /\ BinderInv /\ [Next]_vars => BinderInv'
<1> SUFFICES ASSUME TypeOK, BinderInv, [Next]_vars PROVE BinderInv'
  OBVIOUS
<1>1. CASE UNCHANGED vars
  <2>1. UNCHANGED <<status, sites, ref, calls, todo, pass>>
    BY <1>1 DEF vars, program, edges
  <2> QED BY <2>1 DEF BinderInv, Scanned, Handled, Bound, Unbound, NoInventedCallee, Confident
<1> QED BY <1>1, BindKeeps, ResolveKeeps, PassKeeps, BoundariesKeep DEF Next

\* ... and keeps settled to the end.
LEMMA BinderCorrect == Spec => []BinderInv
BY InitType, NextType, BinderInit, BinderNext, PTL DEF Spec

\* No pass confirms a callee that no call site resolves to.
THEOREM NeverInventsCallee == Spec => []NoInventedCallee
<1>1. BinderInv => NoInventedCallee
  BY DEF BinderInv
<1> QED BY <1>1, BinderCorrect, PTL

\* After the boundary pass every call site is bound, resolved, external or a boundary.
THEOREM EverySiteIsAccounted == Spec => []EverySiteAccounted
<1>1. TypeOK /\ BinderInv => EverySiteAccounted
  <2> SUFFICES ASSUME TypeOK, BinderInv, pass \in {"reads", "writes", "truth", "metrics", "done"},
                      NEW s \in calls, ~Skipped(s)
               PROVE  \/ ref[s] = "none" /\ Binds(s) /\ \A d \in Found(s) : s \in sites[<<s.caller, d>>]
                      \/ ref[s] = "resolved" /\ ~Binds(s) /\ \A d \in Resolved(s) : s \in sites[<<s.caller, d>>]
                      \/ ref[s] \in {"external", "boundary"} /\ ~Binds(s) /\ (Resolved(s) = {} \/ Guesses(s) = {})
    BY DEF EverySiteAccounted
  <2>1. s \in CallSite /\ Handled(s) /\ ref[s] # "unresolved"
    BY DEF BinderInv, TypeOK, Scanned
  <2>2. \A d \in Found(s) \cup Resolved(s) : <<s.caller, d>> \in Pair
    BY <2>1, SiteAssumption, ScopeAssumption
       DEF Pair, Found, Exact, Named, Methods, Functions, Macros, Resolved
  <2>3. CASE Binds(s)
    BY <2>1, <2>2, <2>3 DEF Handled, Bound
  <2>4. CASE ~Binds(s)
    <3>1. ref[s] = "boundary" => Resolved(s) = {}
      BY DEF BinderInv
    <3> QED BY <2>1, <2>2, <2>4, <3>1 DEF Handled, Unbound
  <2> QED BY <2>3, <2>4
<1> QED BY <1>1, TypeCorrect, BinderCorrect, PTL

----------------------------------------------------------------------------
(* The order of the text.  Each edge is a function of the sites met so far; *)
(* which sites the frontier pass is given depends on nothing else either.   *)

OrderInv ==
    /\ GraphOfSites
    /\ pass = "select" => \A s \in CallSite : ref[s] = "none"
    /\ pass = "refine" => \A s \in CallSite : ref[s] = "unresolved" <=> s \in Scanned /\ LeftOver(s)
    /\ pass = "frontiers" => \A s \in todo : LeftOver(s)
    /\ pass \notin {"refine", "frontiers"} => todo = {}

LEMMA OrderInit == Init => OrderInv
<1> SUFFICES ASSUME Init PROVE OrderInv
  OBVIOUS
<1>1. Scanned = {} /\ Retried = {}
  BY DEF Init, Scanned, Retried
<1>2. \A p \in Pair : EdgeOf(p, {}, {})
  BY DEF Init, EdgeOf, IsBound
<1> QED BY <1>1, <1>2 DEF Init, OrderInv, GraphOfSites

LEMMA NothingGuessed == ASSUME NEW s, Guesses(s) = {} PROVE ~Binds(s)
<1>1. Found(s) = {}
  BY DEF Guesses
<1> QED BY <1>1, FS_EmptySet DEF Binds

\* One more site of the first pass.
LEMMA BindEdge ==
  ASSUME TypeOK, NEW s \in todo, BindSite(s), NEW p \in Pair, NEW S, EdgeOf(p, S, {})
  PROVE  EdgeOf(p, S \cup {s}, {})'
<1> DEFINE bound == \E t \in S : Confident(t, p)
           guessed == \E t \in S : Guessed(t, p)
<1>1. /\ (\E t \in S \cup {s} : Confident(t, p)) <=> bound \/ Confident(s, p)
      /\ (\E t \in S \cup {s} : Guessed(t, p)) <=> guessed \/ Guessed(s, p)
  OBVIOUS
<1>2. /\ status[p] \in Statuses
      /\ status[p] = "confirmed" <=> bound
      /\ status[p] = "extracted" <=> p \in ClangCall /\ ~bound
      /\ status[p] = "partial" <=> guessed /\ ~bound /\ p \notin ClangCall
      /\ IsBound(p) <=> bound \/ (guessed /\ p \notin ClangCall)
      /\ trust[p] = "advisory" <=> IsBound(p)
  BY DEF EdgeOf, TypeOK, Statuses
<1>3. SUFFICES /\ status'[p] = "confirmed" <=> bound \/ Confident(s, p)
               /\ status'[p] = "extracted" <=> p \in ClangCall /\ ~(bound \/ Confident(s, p))
               /\ status'[p] = "partial" <=> /\ guessed \/ Guessed(s, p)
                                             /\ ~(bound \/ Confident(s, p)) /\ p \notin ClangCall
               /\ IsBound(p)' <=> \/ bound \/ Confident(s, p)
                                  \/ (guessed \/ Guessed(s, p)) /\ p \notin ClangCall
               /\ trust'[p] = "advisory" <=> IsBound(p)'
  BY <1>1 DEF EdgeOf, Confident, Guessed
<1> HIDE DEF bound, guessed
<1>4. CASE UNCHANGED edges /\ ~Confident(s, p) /\ ~Guessed(s, p)
  BY <1>2, <1>4 DEF edges, IsBound
<1>5. CASE Binds(s) /\ ~Skipped(s) /\ Link(s, Found(s), "confirmed", SiteProv(s))
  <2>1. ~Guessed(s, p)
    BY <1>5 DEF Guessed
  <2>2. p \in Touched(s, Found(s), "confirmed") <=> Confident(s, p)
    BY <1>5 DEF Touched, Confident
  <2>3. /\ status'[p] = (IF Confident(s, p) THEN "confirmed" ELSE status[p])
        /\ prov'[p] = (IF Confident(s, p) THEN SiteProv(s) ELSE prov[p])
        /\ trust'[p] = (IF Confident(s, p) THEN "advisory" ELSE trust[p])
    BY <1>5, <2>2 DEF Link
  <2> QED BY <1>2, <2>1, <2>3 DEF IsBound, SiteProv, Statuses
<1>6. CASE ~Binds(s) /\ ~Skipped(s) /\ Link(s, Guesses(s), "partial", SiteProv(s))
  <2> DEFINE touched == Guessed(s, p) /\ status[p] \notin Confirmed
  <2>1. ~Confident(s, p)
    BY <1>6 DEF Confident
  <2>2. p \in Touched(s, Guesses(s), "partial") <=> touched
    BY <1>6 DEF Touched, Guessed
  <2>3. /\ status'[p] = (IF touched /\ status[p] = "absent" THEN "partial" ELSE status[p])
        /\ prov'[p] = (IF touched THEN SiteProv(s) ELSE prov[p])
        /\ trust'[p] = (IF touched THEN "advisory" ELSE trust[p])
    BY <1>6, <2>2 DEF Link
  <2> QED BY <1>2, <2>1, <2>3 DEF IsBound, SiteProv, Statuses, Confirmed
<1>7. Skipped(s) \/ Guesses(s) = {} => ~Confident(s, p) /\ ~Guessed(s, p)
  BY NothingGuessed DEF Confident, Guessed
<1> QED BY <1>4, <1>5, <1>6, <1>7 DEF BindSite

\* One more site of the second.
LEMMA ResolveEdge ==
  ASSUME TypeOK, NEW s \in todo, ResolveFrontier(s), NEW p \in Pair, NEW S, NEW R, EdgeOf(p, S, R)
  PROVE  EdgeOf(p, S, R \cup {s})'
<1> DEFINE bound == \E t \in S : Confident(t, p)
           guessed == \E t \in S : Guessed(t, p)
           found == \E t \in R : ResolvedTo(t, p)
<1>1. (\E t \in R \cup {s} : ResolvedTo(t, p)) <=> found \/ ResolvedTo(s, p)
  OBVIOUS
<1>2. /\ status[p] \in Statuses
      /\ status[p] = "confirmed" <=> bound \/ (found /\ ~guessed /\ p \notin ClangCall)
      /\ status[p] = "extracted" <=> p \in ClangCall /\ ~bound
      /\ status[p] = "partial" <=> guessed /\ ~bound /\ p \notin ClangCall
      /\ IsBound(p) <=> bound \/ found \/ (guessed /\ p \notin ClangCall)
      /\ trust[p] = "advisory" <=> IsBound(p)
  BY DEF EdgeOf, TypeOK, Statuses
<1>3. SUFFICES /\ status'[p] = "confirmed" <=> \/ bound
                                               \/ /\ found \/ ResolvedTo(s, p)
                                                  /\ ~guessed /\ p \notin ClangCall
               /\ status'[p] = "extracted" <=> p \in ClangCall /\ ~bound
               /\ status'[p] = "partial" <=> guessed /\ ~bound /\ p \notin ClangCall
               /\ IsBound(p)' <=> \/ bound \/ found \/ ResolvedTo(s, p)
                                  \/ guessed /\ p \notin ClangCall
               /\ trust'[p] = "advisory" <=> IsBound(p)'
  BY <1>1 DEF EdgeOf, Confident, Guessed, ResolvedTo
<1> HIDE DEF bound, guessed, found
<1>4. CASE Resolved(s) = {}
  <2>1. ~ResolvedTo(s, p) /\ UNCHANGED edges
    BY <1>4 DEF ResolveFrontier, ResolvedTo
  <2> QED BY <1>2, <2>1 DEF edges, IsBound
<1>5. CASE Resolved(s) # {}
  <2>1. p \in {s.caller} \X Resolved(s) <=> ResolvedTo(s, p)
    BY DEF ResolvedTo, Pair
  <2>2. PICK pv \in {"bound_v3", "dispatch_v3"} :
           /\ status'[p] = (IF ResolvedTo(s, p) /\ status[p] = "absent"
                            THEN "confirmed" ELSE status[p])
           /\ prov'[p] = (IF ResolvedTo(s, p) THEN pv ELSE prov[p])
           /\ trust'[p] = (IF ResolvedTo(s, p) THEN "advisory" ELSE trust[p])
    BY <1>5, <2>1 DEF ResolveFrontier
  <2> QED BY <1>2, <2>2 DEF IsBound, Statuses
<1> QED BY <1>4, <1>5

\* Steps that leave the edges, the program and the sets of sites met.
LEMMA EdgesStay ==
  ASSUME GraphOfSites, UNCHANGED edges, Scanned' = Scanned, Retried' = Retried
  PROVE  GraphOfSites'
BY DEF GraphOfSites, EdgeOf, IsBound, edges, Confident, Guessed, ResolvedTo

LEMMA OrderNext == TypeOK /\ OrderInv /\ [Next]_vars => OrderInv'
<1> SUFFICES ASSUME TypeOK, OrderInv, [Next]_vars PROVE OrderInv'
  OBVIOUS
<1>1. ASSUME NEW s \in todo, BindSite(s) PROVE OrderInv'
  <2>1. /\ s \in calls /\ s \in CallSite /\ pass = "refine" /\ pass' = "refine"
        /\ calls' = calls /\ todo' = todo \ {s} /\ todo \subseteq calls
    BY <1>1 DEF BindSite, TypeOK, program
  <2>2. Scanned' = Scanned \cup {s} /\ s \notin Scanned /\ Retried = {} /\ Retried' = {}
    BY <2>1 DEF Scanned, Retried
  <2>3. GraphOfSites'
    <3>1. ASSUME NEW p \in Pair PROVE EdgeOf(p, Scanned, Retried)'
      <4>1. PICK S : S = Scanned
        OBVIOUS
      <4>2. EdgeOf(p, S, {})
        BY <2>2, <4>1 DEF OrderInv, GraphOfSites
      <4>3. EdgeOf(p, S \cup {s}, {})'
        BY <1>1, <4>2, BindEdge
      <4> QED BY <2>2, <4>1, <4>3 DEF EdgeOf, Confident, Guessed, ResolvedTo
    <3> QED BY <3>1 DEF GraphOfSites
  <2>4. /\ \A t \in CallSite \ {s} : ref'[t] = ref[t]
        /\ ref[s] # "unresolved"
        /\ ref'[s] = "unresolved" <=> LeftOver(s)
    <3>1. ref[s] # "unresolved" /\ ref \in [CallSite -> {"none", "unresolved", "resolved", "external", "boundary"}]
      BY <2>1, <2>2 DEF OrderInv, TypeOK
    <3>2. Guesses(s) = {} => ~Binds(s)
      BY NothingGuessed
    <3> QED BY <1>1, <2>1, <3>1, <3>2 DEF BindSite, LeftOver
  <2> QED BY <2>1, <2>2, <2>3, <2>4 DEF OrderInv, LeftOver
<1>2. ASSUME NEW s \in todo, ResolveFrontier(s) PROVE OrderInv'
  <2>1. /\ s \in calls /\ pass = "frontiers" /\ pass' = "frontiers"
        /\ calls' = calls /\ todo' = todo \ {s}
    BY <1>2 DEF ResolveFrontier, TypeOK, program
  <2>2. LeftOver(s)
    BY <2>1 DEF OrderInv
  <2>3. Scanned' = Scanned /\ Retried' = Retried \cup {s}
    BY <2>1, <2>2 DEF Scanned, Retried, LeftOver
  <2>4. GraphOfSites'
    <3>1. ASSUME NEW p \in Pair PROVE EdgeOf(p, Scanned, Retried)'
      <4>1. PICK S, R : S = Scanned /\ R = Retried
        OBVIOUS
      <4>2. EdgeOf(p, S, R)
        BY <4>1 DEF OrderInv, GraphOfSites
      <4>3. EdgeOf(p, S, R \cup {s})'
        BY <1>2, <4>2, ResolveEdge
      <4> QED BY <2>3, <4>1, <4>3 DEF EdgeOf, Confident, Guessed, ResolvedTo
    <3> QED BY <3>1 DEF GraphOfSites
  <2> QED BY <2>1, <2>4 DEF OrderInv, LeftOver
<1>3. CASE Select
  <2>1. Scanned = {} /\ Scanned' = {} /\ Retried = {} /\ Retried' = {}
    BY <1>3 DEF Select, Scanned, Retried
  <2>2. GraphOfSites'
    BY <1>3, <2>1, EdgesStay DEF Select, OrderInv
  <2> QED BY <1>3, <2>1, <2>2 DEF Select, OrderInv
<1>4. CASE EndRefine
  <2>1. Scanned = calls /\ Scanned' = calls /\ Retried = {} /\ Retried' = {}
    <3>1. \A s \in calls : LeftOver(s) => ref[s] = "unresolved"
      BY <1>4 DEF EndRefine, OrderInv, Scanned, TypeOK
    <3> QED BY <1>4, <3>1 DEF EndRefine, Scanned, Retried, program, LeftOver
  <2>2. GraphOfSites'
    BY <1>4, <2>1, EdgesStay DEF EndRefine, OrderInv
  <2>3. \A s \in todo' : LeftOver(s)
    BY <1>4, <2>1 DEF EndRefine, OrderInv, TypeOK
  <2> QED BY <1>4, <2>2, <2>3 DEF EndRefine, OrderInv, LeftOver
<1>5. CASE EndFrontiers \/ ClassifyBoundaries \/ RebuildReads \/ ScanWrites \/ NormalizeTruth
           \/ Metrics
  <2>1. /\ UNCHANGED edges /\ calls' = calls /\ todo' = todo
        /\ pass \notin {"select", "refine"} /\ pass' \notin {"select", "refine", "frontiers"}
    BY <1>5 DEF EndFrontiers, ClassifyBoundaries, RebuildReads, ScanWrites, NormalizeTruth,
                Metrics, program
  <2>2. todo = {}
    BY <1>5 DEF EndFrontiers, ClassifyBoundaries, RebuildReads, ScanWrites, NormalizeTruth,
                Metrics, OrderInv
  <2>3. Scanned' = Scanned /\ Retried' = Retried
    BY <2>1 DEF Scanned, Retried, LeftOver
  <2> QED BY <2>1, <2>2, <2>3, EdgesStay DEF OrderInv
<1>6. CASE UNCHANGED vars
  <2>1. UNCHANGED <<edges, calls, todo, pass, ref>>
    BY <1>6 DEF vars, program
  <2>2. Scanned' = Scanned /\ Retried' = Retried
    BY <2>1 DEF Scanned, Retried, LeftOver
  <2> QED BY <2>1, <2>2, EdgesStay DEF OrderInv, LeftOver
<1> QED BY <1>1, <1>2, <1>3, <1>4, <1>5, <1>6 DEF Next

----------------------------------------------------------------------------
(* The strict closure.                                                      *)

LEMMA ReachableGrows == ASSUME NEW E, NEW F, E \subseteq F PROVE Reachable(E) \subseteq Reachable(F)
<1> SUFFICES ASSUME NEW d \in Reachable(E), NEW C \in SUBSET Scope,
                    Kernel \subseteq C, \A p \in F : p[1] \in C => p[2] \in C
             PROVE  d \in C
  BY DEF Reachable
<1>1. \A p \in E : p[1] \in C => p[2] \in C
  OBVIOUS
<1> QED BY <1>1 DEF Reachable

\* What the passes have put into what the verdict is made of.
VerdictInv ==
    /\ pass # "select" => (pure <=> foreign = {})
    /\ pass \notin {"select", "done"} => (cert <=> registered = "entry")
    /\ pass \in {"writes", "truth", "metrics", "done"} =>
          reads = {e \in Scope \X Field : \E a \in accesses :
                      a.scope \notin Kernel /\ a.scope = e[1] /\ a.fields = {e[2]}}
    /\ pass \in {"truth", "metrics", "done"} => \A f \in Field :
          <<f, "text">> \in written <=> \E w \in setters : w.text = {f} /\ w.clang # {f}
    /\ pass \in {"metrics", "done"} => ambiguousWriters = 0
    /\ pass # "done" => ~strict
    /\ pass = "done" => /\ reach = Reachable(BoundEdges)
                        /\ strict <=> IsStrict
                        /\ cert <=> registered = "entry" \/ (strict /\ registered # "none")

LEMMA VerdictNext == TypeOK /\ VerdictInv /\ [Next]_vars => VerdictInv'
<1> SUFFICES ASSUME TypeOK, VerdictInv, [Next]_vars PROVE VerdictInv'
  OBVIOUS
<1> USE DEF VerdictInv
<1>1. CASE Select
  BY <1>1 DEF Select, Pure, Certified, tiling
<1>2. CASE EndRefine \/ EndFrontiers \/ ClassifyBoundaries \/ NormalizeTruth
  BY <1>2 DEF EndRefine, EndFrontiers, ClassifyBoundaries, NormalizeTruth,
              program, tiling, counters
<1>3. CASE RebuildReads
  <2>1. reads' = {e \in Scope \X Field : \E a \in accesses :
                     a.scope \notin Kernel /\ a.scope = e[1] /\ a.fields = {e[2]}}
    BY <1>3 DEF RebuildReads
  <2> QED BY <1>3, <2>1 DEF RebuildReads, program, counters
<1>4. CASE ScanWrites
  <2>1. \A f \in Field :
           <<f, "text">> \in written' <=> \E w \in setters : w.text = {f} /\ w.clang # {f}
    BY <1>4 DEF ScanWrites
  <2> QED BY <1>4, <2>1 DEF ScanWrites, program
<1>5. CASE Metrics
  <2>1. /\ UNCHANGED <<program, edges, ref, tiling, pure, ambiguousWriters>>
        /\ pass = "metrics" /\ pass' = "done"
        /\ reach' = Reachable(BoundEdges) /\ strict' = IsStrict
        /\ cert' = (cert \/ (IsStrict /\ registered # "none"))
    BY <1>5 DEF Metrics
  <2>2. BoundEdges' = BoundEdges
    BY <2>1 DEF BoundEdges, IsBound, edges
  <2>3. Reachable(BoundEdges)' = Reachable(BoundEdges)
    BY <2>2 DEF Reachable
  <2>4. IsStrict' = IsStrict
    BY <2>1, <2>3 DEF IsStrict, Consumed, HasProducer, UnresolvedCalls, tiling, program
  <2> QED BY <2>1, <2>3, <2>4 DEF program, tiling
<1>6. ASSUME NEW s \in todo, BindSite(s) \/ ResolveFrontier(s) PROVE VerdictInv'
  BY <1>6 DEF BindSite, ResolveFrontier, program, tiling, counters
<1>7. CASE UNCHANGED vars
  <2>1. UNCHANGED <<program, pass, edges, ref, tiling, counters>>
    BY <1>7 DEF vars
  <2>2. Reachable(BoundEdges)' = Reachable(BoundEdges)
    BY <2>1 DEF Reachable, BoundEdges, IsBound, edges
  <2>3. IsStrict' = IsStrict
    BY <2>1, <2>2 DEF IsStrict, Consumed, HasProducer, UnresolvedCalls, tiling, program, counters
  <2> QED BY <2>1, <2>2, <2>3 DEF program, tiling, counters
<1> QED BY <1>1, <1>2, <1>3, <1>4, <1>5, <1>6, <1>7 DEF Next

LEMMA VerdictCorrect == Spec => []VerdictInv
<1>1. Init => VerdictInv
  BY DEF Init, VerdictInv
<1> QED BY <1>1, VerdictNext, TypeCorrect, PTL DEF Spec

LEMMA VerdictRead == TypeOK /\ BinderInv /\ VerdictInv => VerdictOfProgram
<1> SUFFICES ASSUME TypeOK, BinderInv, VerdictInv, pass = "done" PROVE VerdictOfProgram
  BY DEF VerdictOfProgram
<1> DEFINE bodies == Reachable(BoundEdges)
           needed == {f \in Field : \E a \in accesses :
                         a.scope \in bodies \ Kernel /\ a.fields = {f}}
<1>1. Consumed = needed
  <2>1. bodies \subseteq Scope
    BY ReachableType
  <2>2. \A f \in Field, d \in Scope :
           <<d, f>> \in reads <=> \E a \in accesses : a.scope \notin Kernel /\ a.scope = d /\ a.fields = {f}
    BY DEF VerdictInv
  <2>3. ASSUME NEW f \in Field
        PROVE  f \in Consumed <=> f \in needed
    <3>1. f \in Consumed <=> \E d \in bodies : <<d, f>> \in reads
      BY DEF Consumed
    <3>2. f \in needed <=> \E a \in accesses : a.scope \in bodies \ Kernel /\ a.fields = {f}
      OBVIOUS
    <3> HIDE DEF bodies, needed
    <3>3. ASSUME NEW d \in bodies
          PROVE  <<d, f>> \in reads <=>
                    \E a \in accesses : a.scope \notin Kernel /\ a.scope = d /\ a.fields = {f}
      BY <2>1, <2>2, <2>3
    <3>4. ASSUME f \in Consumed PROVE f \in needed
      BY <3>1, <3>2, <3>3, <3>4
    <3>5. ASSUME f \in needed PROVE f \in Consumed
      BY <3>1, <3>2, <3>3, <3>5
    <3> QED BY <3>4, <3>5
  <2> QED BY <2>3 DEF Consumed
<1>2. \A f \in Field : HasProducer(f) <=> f \in defaults \/ \E w \in setters :
                                             w.text = {f} /\ w.clang # {f}
  BY DEF VerdictInv, HasProducer
<1>3. UnresolvedCalls = {}
  BY DEF BinderInv, UnresolvedCalls
<1>4. /\ pure <=> foreign = {}
      /\ ambiguousWriters = 0 /\ reach = bodies
      /\ strict <=> IsStrict
      /\ cert <=> registered = "entry" \/ (strict /\ registered # "none")
  BY DEF VerdictInv
<1>5. registered \in {"none", "type", "entry"}
  BY DEF TypeOK
<1>6. strict <=> /\ foreign = {} /\ contract
                 /\ Cardinality(bodies) > Cardinality(Kernel)
                 /\ needed # {}
                 /\ \A f \in needed : f \in defaults \/ \E w \in setters :
                                        w.text = {f} /\ w.clang # {f}
  <2>1. \A f \in needed : f \in Field
    OBVIOUS
  <2> HIDE DEF bodies, needed
  <2>2. (\A f \in Consumed : HasProducer(f)) <=>
          \A f \in needed : f \in defaults \/ \E w \in setters : w.text = {f} /\ w.clang # {f}
    BY <1>1, <1>2, <2>1
  <2>3. Reachable(BoundEdges) = bodies
    BY DEF bodies
  <2> QED BY <1>1, <1>3, <1>4, <2>2, <2>3 DEF IsStrict
<1> QED BY <1>4, <1>5, <1>6 DEF VerdictOfProgram

\* In whatever order the text has its call sites, each edge is what the sites
\* met so far make of it, and closure, verdict and certificate are functions of
\* the program: no step of the binder depends on the one before.
THEOREM TextOrderMakesNoDifference == Spec => []TextOrderIrrelevant
<1>1. OrderInv => GraphOfSites
  BY DEF OrderInv
<1> QED BY <1>1, OrderInit, OrderNext, VerdictCorrect, VerdictRead, TypeCorrect, BinderCorrect, PTL
        DEF Spec, TextOrderIrrelevant

\* A closure called strict covers what the confirmed calls certainly read.
THEOREM StrictIsSound == Spec => []StrictCoversReads
<1>1. VerdictInv /\ VerdictOfProgram => StrictCoversReads
  <2> SUFFICES ASSUME VerdictInv, VerdictOfProgram, strict
               PROVE  StrictCoversReads
    BY DEF StrictCoversReads
  <2>1. pass = "done"
    BY DEF VerdictInv
  <2>2. Reachable(ConfirmedEdges) \subseteq Reachable(BoundEdges)
    BY ReachableGrows DEF ConfirmedEdges
  <2> QED BY <2>1, <2>2 DEF VerdictOfProgram, StrictCoversReads
<1> QED BY <1>1, VerdictCorrect, VerdictRead, TypeCorrect, BinderCorrect, PTL
=============================================================================
