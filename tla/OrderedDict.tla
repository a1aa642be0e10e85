---------------------------- MODULE OrderedDict ----------------------------
(***************************************************************************)
(* What a dict promises: a map that remembers the order in which its keys  *)
(* were inserted.  Equal keys are one key, the first of them is kept.      *)
(***************************************************************************)
EXTENDS Sequences, SequencesExt

CONSTANTS
    Key,
    Value,
    Class      \* equal keys have the same class

VARIABLE items  \* the items [key, value] in the order of insertion

Init == items = <<>>

\* Where a key equal to k is, 0 if nowhere.
Find(k) == SelectInSeq(items, LAMBDA x : Class[x.key] = Class[k])

AtPut(k, v) ==
    items' = IF Find(k) = 0 THEN Append(items, [key |-> k, value |-> v])
             ELSE [items EXCEPT ![Find(k)].value = v]

Delete(k) ==
    /\ Find(k) # 0
    /\ items' = RemoveAt(items, Find(k))

PopItem ==
    /\ items # <<>>
    /\ items' = Front(items)

Clear == items' = <<>>

Next ==
    \/ \E k \in Key, v \in Value : AtPut(k, v)
    \/ \E k \in Key : Delete(k)
    \/ PopItem
    \/ Clear

Spec == Init /\ [][Next]_items
=============================================================================
