--------------------------- MODULE MCKernelClosure -------------------------
(* An entry, a class and a derived class that both define run, two          *)
(* overloads of a free function, and a macro; ten call sites that meet     *)
(* every rule of the binder and of the frontier pass.                       *)
EXTENDS KernelClosure, TLC

CONSTANTS entry, base, derived, g1, g2, mac, A, B, x, y

MCScope == {entry, base, derived, g1, g2, mac}
MCNameOf == base :> "run" @@ derived :> "run" @@ g1 :> "g" @@ g2 :> "g"
            @@ mac :> "M" @@ entry :> "k"
MCOwnerOf == base :> A @@ derived :> B @@ [d \in {g1, g2, mac, entry} |-> NoClass]
MCArityOf == g1 :> 2 @@ mac :> 0 @@ [d \in {base, derived, g2, entry} |-> 1]
MCBases == A :> {} @@ B :> {A}
MCClangCall == {<<entry, derived>>, <<base, g1>>}

Site(caller, recv, name, argc, types) ==
    [caller |-> caller, recv |-> recv, name |-> name, argc |-> argc, types |-> types,
     member |-> {}, context |-> {}, textual |-> FALSE]

typed == Site(entry, "member", "run", 1, {A})        \* bound to base
either == Site(entry, "member", "run", 1, {A, B})    \* dispatched to both
nearby == [Site(entry, "member", "run", 1, {}) EXCEPT !.context = {A}] \* found later
viaField == [Site(base, "member", "run", 1, {B}) EXCEPT !.name = "g", !.member = {A}]
overload == Site(base, "none", "g", 3, {})           \* neither arity fits
exact == Site(base, "none", "g", 1, {})              \* g2
byText == [Site(g1, "none", "run", 1, {}) EXCEPT !.textual = TRUE]
ofThis == Site(derived, "this", "g", 1, {B})         \* no method g: a boundary
expands == Site(entry, "none", "M", 0, {})
library == Site(entry, "member", "lib", 1, {})
MCCallSite == {typed, either, nearby, viaField, overload, exact, byText, ofThis,
               expands, library}

certain == [scope |-> base, drafted |-> TRUE, draft |-> {x}, fields |-> {x}]
unclear == [scope |-> derived, drafted |-> TRUE, draft |-> {}, fields |-> {x, y}]
inMacro == [scope |-> mac, drafted |-> TRUE, draft |-> {y}, fields |-> {y}]
inEntry == [scope |-> entry, drafted |-> TRUE, draft |-> {x}, fields |-> {x}]
MCAccess == {certain, unclear, inMacro, inEntry}

setX == [text |-> {x}, clang |-> {}]
seenX == [text |-> {x}, clang |-> {x}]
setEither == [text |-> {x, y}, clang |-> {}]
MCSetter == {setX, seenX, setEither}

\* Every set of up to four call sites; every set of tiling facts under two call
\* graphs; and every contract and registry that earlier passes leave.
plain == [calls |-> {either, expands}, accesses |-> {certain, inMacro}, setters |-> {setX},
          defaults |-> {y}, contract |-> TRUE, registered |-> "type", foreign |-> {}]
MCProgram ==
    {[plain EXCEPT !.calls = C] : C \in {D \in SUBSET MCCallSite : Cardinality(D) <= 4}}
    \cup {[plain EXCEPT !.calls = C, !.accesses = R, !.setters = W, !.defaults = D] :
             C \in {{either, expands}, {nearby, ofThis}}, R \in SUBSET MCAccess,
             W \in SUBSET MCSetter, D \in SUBSET {x, y}}
    \cup {[plain EXCEPT !.contract = c, !.registered = r, !.foreign = f] :
             c \in BOOLEAN, r \in {"none", "type", "entry"},
             f \in {{}, {"kept"}, {"entry", "other"}, {"other"}}}
=============================================================================
