---------------------------- MODULE MCScavenger ----------------------------
(***************************************************************************)
(* Small heaps for the model checker: every object has a builtin layout,   *)
(* or those in Instances have the user-defined layout TheLayout.           *)
(***************************************************************************)
EXTENDS Scavenger, TLC

CONSTANTS Instances, TheLayout

\* The objects of the runs: a managed object, a code object and the layout of the
\* former; two objects with handles; an object and its weakrefs; two extension
\* objects.
CONSTANTS o1, c1, l1, h1, h2, o2, w1, w2, x1, x2

MCLayoutOf == [o \in Obj |-> IF o \in Instances THEN TheLayout ELSE None]

\* The bound Together of a run: which of its objects exist at the same time.
HeapOrHandlesOrWeakRefs == {{o1, c1, l1}, {h1, h2}, {o2, w1, w2}}
ExtensionsOrQueue == {{x1, x2}, {x1, o2, w1}}
Everything == {Obj}

\* The bound MaxRefs: the managed object may share what others refer to.
MCMaxRefs == [o \in Obj |-> IF o = o1 THEN 2 ELSE 1]

\* Objects of a kind are interchangeable: the pairs with handles and weakrefs.
MCSymmetry == Permutations({h1, h2}) \cup Permutations({w1, w2})
=============================================================================
