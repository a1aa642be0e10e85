--------------------------- MODULE MCGlobalCache ---------------------------
(* Modules and functions on which TLC checks GlobalCache.                   *)
EXTENDS GlobalCache

CONSTANTS M1, M2, f, g, h, x, y, z

MCModuleOf == [k \in Fun |-> IF k = h THEN M2 ELSE M1]

\* The names of a function in the order of its code.
MCNameIndex == [k \in Fun |-> [n \in Name |-> CASE n = x -> 0 [] n = y -> 1 [] OTHER -> 2]]

\* f and h read x, g assigns it: global x; x = ...
ReadersLoads == [k \in Fun |-> IF k = g THEN {} ELSE {x}]
WriterStores == [k \in Fun |-> IF k = g THEN {x} ELSE {}]
ReaderAttr == [k \in Fun |-> IF k = f THEN x ELSE None]
NoAttr == [k \in Fun |-> None]

\* One function reads and assigns x, or reads all names.
ReadsX == [k \in Fun |-> {x}]
ReadsAll == [k \in Fun |-> Name]
AssignsX == [k \in Fun |-> {x}]
AssignsNone == [k \in Fun |-> {}]
=============================================================================
