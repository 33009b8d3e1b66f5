--------------------------- MODULE KernelClosure ---------------------------
(* The kernel half of a build: the passes of compile_codemap that turn the  *)
(* selected kernel sources into CALLS and READS edges and into the verdict  *)
(* strict_closure_ok.  They run one after the other over one graph; within  *)
(* a pass the call sites come in the order of the source text, which is any *)
(* order here.                                                              *)
(*                                                                          *)
(* The text itself is abstract: a call site is a record that says what the  *)
(* regular expressions and the type tables find at it.                      *)
(*   recv     "none", "this" or "member": the receiver spelled at the site  *)
(*   types    classes _variable_types gives the receiver                    *)
(*   member   classes the caller's member of that name can have             *)
(*   context  classes declared for the receiver in the 120 lines above      *)
(*   textual  the line spells a receiver that the call pattern missed       *)
(* An access of a tiling value has the fields it can mean for the refine    *)
(* pass (draft, if it looks like one: drafted) and for the reads pass; a    *)
(* setter has those of the text and those of clang's write at its line.     *)
EXTENDS Naturals, FiniteSets

CONSTANTS Scope,      \* bodies found in the selected files
          Kernel,     \* those of __global__ entries
          Macro,      \* those of macros
          NameOf, OwnerOf, ArityOf,
          Class, NoClass,
          Bases,      \* class -> its base classes
          CallSite,   \* call sites a program may have
          Field, Access, Setter,
          ClangCall,  \* CALLS edges the graph already holds from clang
          Program     \* the programs and registries that are built

ASSUME ScopeAssumption == /\ Kernel \subseteq Scope /\ Macro \subseteq Scope
                          /\ Kernel \cap Macro = {} /\ NoClass \notin Class
                          /\ OwnerOf \in [Scope -> Class \cup {NoClass}]
                          /\ Bases \in [Class -> SUBSET Class]
                          /\ ArityOf \in [Scope -> Nat]
                          /\ DOMAIN NameOf = Scope
                          /\ IsFiniteSet(Setter) /\ IsFiniteSet(Scope)
ASSUME SiteAssumption ==
    /\ \A s \in CallSite : /\ s.caller \in Scope /\ s.recv \in {"none", "this", "member"}
                           /\ s.argc \in Nat /\ s.textual \in BOOLEAN
                           /\ s.types \subseteq Class /\ s.member \subseteq Class
                           /\ s.context \subseteq Class
    /\ \A a \in Access : /\ a.scope \in Scope /\ a.drafted \in BOOLEAN
                         /\ a.draft \subseteq Field /\ a.fields \subseteq Field
    /\ \A w \in Setter : w.text \subseteq Field /\ w.clang \subseteq Field
    /\ ClangCall \subseteq Scope \X Scope
ASSUME ProgramAssumption ==
    Program \subseteq [calls : SUBSET CallSite, accesses : SUBSET Access,
                      setters : SUBSET Setter, defaults : SUBSET Field,
                      contract : BOOLEAN, registered : {"none", "type", "entry"},
                      foreign : SUBSET {"kept", "entry", "other"}]

VARIABLES calls, accesses, setters, defaults, contract, registered, \* the program
          foreign,   \* facts of other architectures in the graph
          pass,      \* the pass that runs
          todo,      \* its call sites still to come
          status,    \* status of CALLS[src, dst]; "absent" when there is none
          prov,      \* provenance of the edge
          trust,     \* trust of the edge
          sites,     \* call sites recorded on the edge
          ref,       \* what became of a call site that was not bound
          reads,     \* verified READS edges
          gaps,      \* accesses kept as tiling_unresolved_sites
          written,   \* host writes of fields, and who saw them
          wgaps,     \* setters kept as unresolved in the map's meta
          pure, ambiguousWriters, reach, strict, cert  \* what the closure says

program == <<calls, accesses, setters, defaults, contract, registered, foreign>>
edges == <<status, prov, trust, sites>>
tiling == <<reads, gaps, written, wgaps>>
counters == <<pure, ambiguousWriters, reach, strict, cert>>
vars == <<program, pass, todo, edges, ref, tiling, counters>>

----------------------------------------------------------------------------
(* Names and types *)

Pair == Scope \X Scope
IsBound(p) == prov[p] \in {"bound_v2", "macro_v2", "bound_v3", "dispatch_v3"}
Confirmed == {"confirmed", "extracted"}

\* The least set that holds c and the bases of its members.
Up(c) == {d \in Class : \A C \in SUBSET Class :
                           (c \in C /\ \A x \in C : Bases[x] \subseteq C) => d \in C}
Above(C) == UNION {Up(c) : c \in C}

Methods(C, n) == {d \in Scope \ Macro : OwnerOf[d] \in C /\ NameOf[d] = n}
Functions(n) == {d \in Scope \ Macro : OwnerOf[d] = NoClass /\ NameOf[d] = n}
Macros(n) == {d \in Macro : NameOf[d] = n}
Own(s) == {OwnerOf[s.caller]} \ {NoClass}

----------------------------------------------------------------------------
(* Pass kernel_tiling_closure: keep only facts of the selected files *)

Init ==
    /\ \E g \in Program :
          /\ calls = g.calls /\ accesses = g.accesses /\ setters = g.setters
          /\ defaults = g.defaults /\ contract = g.contract
          /\ registered = g.registered /\ foreign = g.foreign
    /\ pass = "select" /\ todo = {}
    /\ status = [p \in Pair |-> IF p \in ClangCall THEN "extracted" ELSE "absent"]
    /\ prov = [p \in Pair |-> IF p \in ClangCall THEN "clang" ELSE "none"]
    /\ trust = [p \in Pair |-> IF p \in ClangCall THEN "authoritative" ELSE "none"]
    /\ sites = [p \in Pair |-> {}]
    /\ ref = [s \in CallSite |-> "none"]
    /\ reads = {} /\ gaps = {} /\ written = {} /\ wgaps = {}
    /\ pure = FALSE /\ ambiguousWriters = 0 /\ reach = {}
    /\ strict = FALSE /\ cert = FALSE

\* Relations of a kept provenance stay, and so do the entities of entries.
Purged(facts) == facts \ {"other"}
Pure(facts) == facts = {}
\* A registration at a use site of an entry is a certificate edge.
Certified == registered = "entry"

Select ==
    /\ pass = "select" /\ pass' = "refine" /\ todo' = calls
    /\ foreign' = Purged(foreign)
    /\ pure' = Pure(foreign')
    /\ cert' = Certified
    /\ reach' = Kernel
    /\ UNCHANGED <<calls, accesses, setters, defaults, contract, registered,
                   edges, ref, tiling, ambiguousWriters, strict>>

----------------------------------------------------------------------------
(* Pass kernel_call_refine: bind each site to the definitions of its name *)

OwnerTypes(s) == IF s.recv = "none" THEN {}
                 ELSE s.types \cup (IF s.recv = "this" THEN Own(s) ELSE {})
Named(s) == IF s.recv = "none"
            THEN Macros(s.name) \cup Methods(Own(s), s.name) \cup Functions(s.name)
            ELSE Methods(OwnerTypes(s), s.name)
Exact(s) == {d \in Named(s) : ArityOf[d] = s.argc}
Found(s) == IF Exact(s) # {} THEN Exact(s) ELSE Named(s)

\* Every candidate's owner is a type the receiver may have.
Dispatches(s) == s.recv # "none" /\ OwnerTypes(s) # {}
Binds(s) == Cardinality(Found(s)) = 1 \/ (Found(s) # {} /\ Dispatches(s))
Guesses(s) == IF Found(s) = {} /\ s.recv # "none"
              THEN Methods(Class, s.name) \cup Functions(s.name)
              ELSE Found(s)
IsInternal(s) == OwnerTypes(s) # {} \/ \E d \in Scope : NameOf[d] = s.name
Skipped(s) == s.name = NameOf[s.caller]
SiteProv(s) == IF s.recv = "none" /\ Macros(s.name) # {} THEN "macro_v2" ELSE "bound_v2"

\* Edges from the caller to each of D that the pass may touch: a guess leaves
\* an edge alone that is confirmed or extracted.
Touched(s, D, st) == {p \in Pair : /\ p[1] = s.caller /\ p[2] \in D
                                   /\ ~(st = "partial" /\ status[p] \in Confirmed)}
\* Mutant: the status of an edge that exists is left alone.
LinkOnce(s, D, st, pv) ==
    LET T == Touched(s, D, st) IN
    /\ status' = [p \in Pair |-> IF p \in T /\ status[p] = "absent" THEN st ELSE status[p]]
    /\ prov' = [p \in Pair |-> IF p \in T THEN pv ELSE prov[p]]
    /\ trust' = [p \in Pair |-> IF p \in T THEN "advisory" ELSE trust[p]]
    /\ sites' = [p \in Pair |-> IF p \in T THEN sites[p] \cup {s} ELSE sites[p]]

\* Mutant: the new site replaces the recorded ones.
LinkLast(s, D, st, pv) ==
    LET T == Touched(s, D, st) IN
    /\ status' = [p \in Pair |-> IF p \in T /\ (st = "confirmed" \/ status[p] = "absent")
                                 THEN st ELSE status[p]]
    /\ prov' = [p \in Pair |-> IF p \in T THEN pv ELSE prov[p]]
    /\ trust' = [p \in Pair |-> IF p \in T THEN "advisory" ELSE trust[p]]
    /\ sites' = [p \in Pair |-> IF p \in T THEN {s} ELSE sites[p]]

\* Mutant: a guess is confirmed like a binding.
LinkGuesses(s, D, st, pv) ==
    LET T == Touched(s, D, st) IN
    /\ status' = [p \in Pair |-> IF p \in T THEN "confirmed" ELSE status[p]]
    /\ prov' = [p \in Pair |-> IF p \in T THEN pv ELSE prov[p]]
    /\ trust' = [p \in Pair |-> IF p \in T THEN "advisory" ELSE trust[p]]
    /\ sites' = [p \in Pair |-> IF p \in T THEN sites[p] \cup {s} ELSE sites[p]]

Link(s, D, st, pv) ==
    LET T == Touched(s, D, st) IN
    /\ status' = [p \in Pair |-> IF p \in T /\ (st = "confirmed" \/ status[p] = "absent")
                                 THEN st ELSE status[p]]
    /\ prov' = [p \in Pair |-> IF p \in T THEN pv ELSE prov[p]]
    /\ trust' = [p \in Pair |-> IF p \in T THEN "advisory" ELSE trust[p]]
    /\ sites' = [p \in Pair |-> IF p \in T THEN sites[p] \cup {s} ELSE sites[p]]

BindSite(s) ==
    /\ pass = "refine" /\ s \in todo
    /\ todo' = todo \ {s}
    /\ \/ /\ Skipped(s)
          /\ UNCHANGED <<edges, ref>>
       \/ /\ ~Skipped(s) /\ Binds(s)
          /\ Link(s, Found(s), "confirmed", SiteProv(s))
          /\ UNCHANGED ref
       \/ /\ ~Skipped(s) /\ ~Binds(s) /\ Guesses(s) # {}
          /\ Link(s, Guesses(s), "partial", SiteProv(s))
          /\ ref' = [ref EXCEPT ![s] = "unresolved"]
       \/ /\ ~Skipped(s) /\ Guesses(s) = {}
          /\ ref' = [ref EXCEPT ![s] = IF IsInternal(s) THEN "unresolved" ELSE "external"]
          /\ UNCHANGED edges
    /\ UNCHANGED <<program, pass, tiling, counters>>

----------------------------------------------------------------------------
(* Reachability from the entries *)

Reachable(E) == {d \in Scope : \A C \in SUBSET Scope :
                    (Kernel \subseteq C /\ \A p \in E : p[1] \in C => p[2] \in C) => d \in C}
BoundEdges == {p \in Pair : IsBound(p)}
ConfirmedEdges == {p \in BoundEdges : status[p] \in Confirmed}

EndRefine ==
    /\ pass = "refine" /\ todo = {}
    /\ pass' = "frontiers" /\ todo' = {s \in calls : ref[s] = "unresolved"}
    /\ reach' = Reachable(ConfirmedEdges)
    /\ reads' = {e \in Scope \X Field : \E a \in accesses : a.scope = e[1] /\ a.draft = {e[2]}}
    /\ gaps' = {a \in accesses : a.drafted /\ Cardinality(a.draft) # 1}
    /\ UNCHANGED <<program, edges, ref, written, wgaps, pure, ambiguousWriters, strict, cert>>

----------------------------------------------------------------------------
(* Pass kernel_call_frontiers: try again through inheritance and members *)

Owners(s) == LET own == UNION {Up(c) : c \in Own(s)}
                 viaMember == Own(s) # {} /\ (s.recv = "member" \/ (s.recv = "none" /\ s.textual))
             IN  (IF s.recv \in {"none", "this"} THEN own ELSE {})
                 \cup (IF viaMember THEN s.member ELSE {})
                 \cup (IF s.recv = "member" THEN s.context ELSE {})
\* Definitions only: the entities of entries and macros have another provenance.
Resolved(s) == (Methods(Above(Owners(s)), s.name)
                \cup (IF s.recv = "none" THEN Functions(s.name) ELSE {})) \ Kernel
LocallyNamed(s) == (Methods(Class, s.name) \cup Functions(s.name)) \ Kernel # {}
GivenUp(s) == /\ Owners(s) = {}
              /\ ~LocallyNamed(s) \/ (s.recv = "none" /\ (s.textual \/ Own(s) = {}))

ResolveFrontier(s) ==
    /\ pass = "frontiers" /\ s \in todo
    /\ todo' = todo \ {s}
    /\ \/ /\ Resolved(s) # {}
          /\ LET T == {s.caller} \X Resolved(s)
                 pv == IF Cardinality(Resolved(s)) = 1 THEN "bound_v3" ELSE "dispatch_v3"
             IN  /\ status' = [p \in Pair |-> IF p \in T /\ status[p] = "absent"
                                              THEN "confirmed" ELSE status[p]]
                 /\ prov' = [p \in Pair |-> IF p \in T THEN pv ELSE prov[p]]
                 /\ trust' = [p \in Pair |-> IF p \in T THEN "advisory" ELSE trust[p]]
                 /\ sites' = [p \in Pair |-> IF p \in T THEN sites[p] \cup {s} ELSE sites[p]]
          /\ ref' = [ref EXCEPT ![s] = "resolved"]
       \/ /\ Resolved(s) = {} /\ GivenUp(s)
          /\ ref' = [ref EXCEPT ![s] = "external"]
          /\ UNCHANGED edges
       \/ /\ Resolved(s) = {} /\ ~GivenUp(s)
          /\ UNCHANGED <<edges, ref>>
    /\ UNCHANGED <<program, pass, tiling, counters>>

EndFrontiers ==
    /\ pass = "frontiers" /\ todo = {}
    /\ pass' = "boundaries"
    /\ reach' = Reachable(BoundEdges)
    /\ UNCHANGED <<program, todo, edges, ref, tiling, pure, ambiguousWriters, strict, cert>>

\* Mutant: only the sites of bodies that an entry reaches become boundaries.
ClassifyReachable ==
    /\ pass = "boundaries" /\ pass' = "reads"
    /\ ref' = [s \in CallSite |-> IF ref[s] = "unresolved" /\ s.caller \in reach
                                  THEN "boundary" ELSE ref[s]]
    /\ UNCHANGED <<program, todo, edges, tiling, counters>>

(* Pass kernel_call_boundaries: what is left becomes an explicit boundary *)
ClassifyBoundaries ==
    /\ pass = "boundaries" /\ pass' = "reads"
    /\ ref' = [s \in CallSite |-> IF ref[s] = "unresolved" THEN "boundary" ELSE ref[s]]
    /\ UNCHANGED <<program, todo, edges, tiling, counters>>

----------------------------------------------------------------------------
(* Passes tiling_reads, tiling_host_writes and kernel_tiling_truth *)

\* The entries' own accesses are left out: the scopes are the entities whose
\* provenance is that of a definition or a macro.
RebuildReads ==
    /\ pass = "reads" /\ pass' = "writes"
    /\ LET inScope == {a \in accesses : a.scope \notin Kernel}
       IN  /\ reads' = {e \in Scope \X Field :
                           \E a \in inScope : a.scope = e[1] /\ a.fields = {e[2]}}
           /\ gaps' = gaps \cup {a \in inScope : Cardinality(a.fields) > 1}
    /\ UNCHANGED <<program, todo, edges, ref, written, wgaps, counters>>

\* A setter that clang saw is written as clang's; the text then skips it.
ScanWrites ==
    /\ pass = "writes" /\ pass' = "truth"
    /\ written' = {e \in Field \X {"text", "clang"} : \E w \in setters :
                      \/ e[2] = "clang" /\ w.clang = {e[1]}
                      \/ e[2] = "text" /\ w.text = {e[1]} /\ w.clang # w.text}
    /\ wgaps' = {w \in setters : Cardinality(w.text) > 1}
    /\ ambiguousWriters' = Cardinality(wgaps')
    /\ UNCHANGED <<program, todo, edges, ref, reads, gaps, pure, reach, strict, cert>>

\* The pass counts the entities of unresolved writers again.  Unresolved writers
\* are records in the map's meta and no pass mints an entity for one.
NormalizeTruth ==
    /\ pass = "truth" /\ pass' = "metrics"
    /\ ambiguousWriters' = 0
    /\ UNCHANGED <<program, todo, edges, ref, tiling, pure, reach, strict, cert>>

----------------------------------------------------------------------------
(* Pass kernel_tiling_metrics: the verdict *)

Consumed == {f \in Field : \E d \in Reachable(BoundEdges) : <<d, f>> \in reads}
\* Mutant: a setter that may mean the field is a producer of it.
MayHaveProducer(f) == f \in defaults \/ \E w \in setters : f \in w.text
HasProducer(f) == <<f, "text">> \in written \/ f \in defaults
\* The unresolved reads and calls that the pass counts are relations: reads that
\* stayed ambiguous are not, and no call is left unresolved by the boundaries.
UnresolvedCalls == {s \in calls : ref[s] = "unresolved" /\ s.caller \in Reachable(BoundEdges)}
IsStrict == /\ pure /\ contract
            /\ Cardinality(Reachable(BoundEdges)) > Cardinality(Kernel)
            /\ UnresolvedCalls = {}
            /\ Consumed # {}
            /\ \A f \in Consumed : HasProducer(f)
            /\ ambiguousWriters = 0

Metrics ==
    /\ pass = "metrics" /\ pass' = "done"
    /\ reach' = Reachable(BoundEdges)
    /\ strict' = IsStrict
    /\ cert' = (cert \/ (IsStrict /\ registered # "none"))
    /\ UNCHANGED <<program, todo, edges, ref, tiling, pure, ambiguousWriters>>

----------------------------------------------------------------------------
Next == \/ Select
        \/ \E s \in todo : BindSite(s) \/ ResolveFrontier(s)
        \/ EndRefine \/ EndFrontiers \/ ClassifyBoundaries
        \/ RebuildReads \/ ScanWrites \/ NormalizeTruth \/ Metrics
Spec == Init /\ [][Next]_vars
----------------------------------------------------------------------------
(* Properties *)

\* Every variable keeps its type through the passes of compile_codemap.
TypeOK ==
    /\ calls \subseteq CallSite /\ accesses \subseteq Access /\ setters \subseteq Setter
    /\ defaults \subseteq Field /\ contract \in BOOLEAN
    /\ registered \in {"none", "type", "entry"} /\ foreign \subseteq {"kept", "entry", "other"}
    /\ pass \in {"select", "refine", "frontiers", "boundaries", "reads",
                 "writes", "truth", "metrics", "done"}
    /\ todo \subseteq calls
    /\ status \in [Pair -> {"absent", "partial", "extracted", "confirmed"}]
    /\ prov \in [Pair -> {"none", "clang", "bound_v2", "macro_v2", "bound_v3", "dispatch_v3"}]
    /\ trust \in [Pair -> {"none", "advisory", "authoritative"}]
    /\ sites \in [Pair -> SUBSET calls]
    /\ ref \in [CallSite -> {"none", "unresolved", "resolved", "external", "boundary"}]
    /\ reads \subseteq Scope \X Field /\ gaps \subseteq Access
    /\ written \subseteq Field \X {"text", "clang"} /\ wgaps \subseteq Setter
    /\ pure \in BOOLEAN /\ ambiguousWriters \in Nat /\ reach \subseteq Scope
    /\ strict \in BOOLEAN /\ cert \in BOOLEAN

Confident(s, p) == ~Skipped(s) /\ Binds(s) /\ s.caller = p[1] /\ p[2] \in Found(s)
Scanned == IF pass = "select" THEN {} ELSE IF pass = "refine" THEN calls \ todo ELSE calls

\* What the binder leaves to the frontier pass, and what of it that has seen.
LeftOver(s) == ~Skipped(s) /\ ~Binds(s) /\ (Guesses(s) # {} \/ IsInternal(s))
Retried == IF pass \in {"select", "refine"} THEN {} ELSE {s \in calls : LeftOver(s)} \ todo

Guessed(s, p) == ~Skipped(s) /\ ~Binds(s) /\ s.caller = p[1] /\ p[2] \in Guesses(s)
ResolvedTo(s, p) == s.caller = p[1] /\ p[2] \in Resolved(s)

\* What an edge is once the sites in S have been bound and those in R resolved.
EdgeOf(p, S, R) ==
    LET bound == \E s \in S : Confident(s, p)
        guessed == \E s \in S : Guessed(s, p)
        found == \E s \in R : ResolvedTo(s, p)
    IN  /\ status[p] = "confirmed" <=> bound \/ (found /\ ~guessed /\ p \notin ClangCall)
        /\ status[p] = "extracted" <=> p \in ClangCall /\ ~bound
        /\ status[p] = "partial" <=> guessed /\ ~bound /\ p \notin ClangCall
        /\ IsBound(p) <=> bound \/ found \/ (guessed /\ p \notin ClangCall)
        /\ trust[p] = "advisory" <=> IsBound(p)

GraphOfSites == \A p \in Pair : EdgeOf(p, Scanned, Retried)

\* Of the calls left unresolved and of the ambiguous writers that the verdict
\* asks for, nothing is left to depend on.
VerdictOfProgram ==
    pass = "done" =>
        LET bodies == Reachable(BoundEdges)
            needed == {f \in Field : \E a \in accesses :
                          a.scope \in bodies \ Kernel /\ a.fields = {f}}
        IN  /\ reach = bodies
            /\ strict <=> /\ foreign = {} /\ contract
                          /\ Cardinality(bodies) > Cardinality(Kernel)
                          /\ needed # {}
                          /\ \A f \in needed : f \in defaults \/ \E w \in setters :
                                                 w.text = {f} /\ w.clang # {f}
            /\ cert <=> registered = "entry" \/ (strict /\ registered = "type")

\* The order in which the text has its call sites makes no difference: status,
\* trust and binding of every edge, the closure and its verdict are functions of
\* the program (_link_site merges what several sites say of one edge).
TextOrderIrrelevant == GraphOfSites /\ VerdictOfProgram

\* No pass confirms a callee that no call site of the caller resolves to: a
\* confirmed edge names the site that binds it or that the frontier pass
\* resolved through inheritance and members.
NoInventedCallee ==
    \A p \in Pair : status[p] = "confirmed" =>
        \E s \in sites[p] : \/ Confident(s, p)
                            \/ ref[s] = "resolved" /\ s.caller = p[1] /\ p[2] \in Resolved(s)

\* After the boundary pass every call site is accounted for exactly once: its
\* edges name it, or it is a boundary, or it is external, and it is external only
\* when no definition of the selected sources could be its target.
EverySiteAccounted ==
    pass \in {"reads", "writes", "truth", "metrics", "done"} => \A s \in calls :
        \/ Skipped(s)
        \/ ref[s] = "none" /\ Binds(s) /\ \A d \in Found(s) : s \in sites[<<s.caller, d>>]
        \/ ref[s] = "resolved" /\ ~Binds(s) /\ \A d \in Resolved(s) : s \in sites[<<s.caller, d>>]
        \/ ref[s] \in {"external", "boundary"} /\ ~Binds(s) /\ (Resolved(s) = {} \/ Guesses(s) = {})

\* A closure called strict is sound for what the sources resolve: it holds no
\* fact of another architecture, and every field that a body reached by
\* confirmed calls reads for certain has a setter or an initializer.
StrictCoversReads ==
    strict => /\ foreign = {}
              /\ \A a \in accesses : \A f \in Field :
                    (a.scope \in Reachable(ConfirmedEdges) \ Kernel /\ a.fields = {f})
                        => f \in defaults \/ \E w \in setters : w.text = {f}

\* Evidence only grows: no step of a pass demotes an edge, forgets a site or
\* raises the trust that a lexical guess left on it.
EvidenceGrows ==
    [][\A p \in Pair : /\ status[p] \in Confirmed => status'[p] \in Confirmed
                       /\ sites[p] \subseteq sites'[p]
                       /\ trust[p] = "advisory" => trust'[p] = "advisory"]_vars

\* What kernel_tiling_metrics.py:4 and kernel_tiling_truth.py:29 say: the strict
\* closure has no reachable read and no writer with several possible owners.
StrictIsUnambiguous ==
    strict => /\ wgaps = {}
              /\ \A a \in accesses : Cardinality(a.fields) > 1
                                        => a.scope \notin Reachable(BoundEdges)

\* What kernel_call_read_refine.py:8 says: an ambiguous call never contributes
\* to the closure.
NoGuessInClosure ==
    pass = "done" => reach = Reachable(ConfirmedEdges)
=============================================================================
