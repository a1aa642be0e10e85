----------------------------- MODULE HandleMap -----------------------------
(***************************************************************************)
(* What the handle and cache dictionaries promise the C-API together: an   *)
(* object has at most one handle, that handle is no other object's, a      *)
(* cached value belongs to an object with a handle, and a collection drops *)
(* both or lets both follow the object to its new address.                 *)
(***************************************************************************)
EXTENDS Functions

CONSTANTS
    Key,       \* addresses of objects
    Handle,    \* handles
    Cached     \* cached values

VARIABLES
    handleOf,  \* from the addresses of the objects that have a handle
    cacheOf    \* from the addresses of the objects that have a cached value

Init ==
    /\ handleOf = [k \in {} |-> {}]
    /\ cacheOf = [k \in {} |-> {}]

With(map, k, v) == [x \in DOMAIN map \cup {k} |-> IF x = k THEN v ELSE map[x]]

New(k) ==
    /\ k \notin DOMAIN handleOf
    /\ \E h \in Handle \ Range(handleOf) : handleOf' = With(handleOf, k, h)
    /\ UNCHANGED cacheOf

SetCache(k, v) ==
    /\ k \in DOMAIN handleOf
    /\ cacheOf' = With(cacheOf, k, v)
    /\ UNCHANGED handleOf

Dispose(k) ==
    /\ k \in DOMAIN handleOf
    /\ handleOf' = Restrict(handleOf, DOMAIN handleOf \ {k})
    /\ cacheOf' = Restrict(cacheOf, DOMAIN cacheOf \ {k})

\* A handle that is kept tells which object its new address is of; a cached
\* value is where its object has gone, and nowhere else.
Collect ==
    /\ Range(handleOf') \subseteq Range(handleOf) /\ IsInjective(handleOf')
    /\ LET origin == [k \in DOMAIN handleOf' |->
                        CHOOSE j \in DOMAIN handleOf : handleOf[j] = handleOf'[k]]
       IN  cacheOf' = [k \in {k \in DOMAIN origin : origin[k] \in DOMAIN cacheOf} |->
                         cacheOf[origin[k]]]

Next ==
    \/ Collect
    \/ \E k \in Key : New(k) \/ Dispose(k)
    \/ \E k \in Key, v \in Cached : SetCache(k, v)

Spec == Init /\ [][Next]_<<handleOf, cacheOf>>

=============================================================================
