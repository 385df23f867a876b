---------------------------- MODULE ResourcePool ----------------------------
(***************************************************************************)
(* What the memory pool and the object pool promise: a resource is free or *)
(* lent, never both; only a free one is lent; when none is free an extra   *)
(* one may be made, which goes when it is given back; giving back what the *)
(* pool already has changes nothing.                                       *)
(***************************************************************************)
CONSTANT Resource

VARIABLES pooled,  \* the resources the pool was created with
          free,    \* those of them that can be lent
          lent     \* what borrowers have, extra ones included

vars == <<pooled, free, lent>>

Init == pooled = {} /\ free = {} /\ lent = {}

Create == /\ lent = {}
          /\ pooled' \in (SUBSET Resource) \ {{}}
          /\ free' = pooled'
          /\ UNCHANGED lent

Destroy == /\ lent = {}
           /\ pooled' = {} /\ free' = {}
           /\ UNCHANGED lent

Lend(r) == /\ r \in free
           /\ free' = free \ {r}
           /\ lent' = lent \cup {r}
           /\ UNCHANGED pooled

LendExtra(r) == /\ free = {}
                /\ r \notin pooled \cup lent
                /\ lent' = lent \cup {r}
                /\ UNCHANGED <<pooled, free>>

GiveBack(r) == /\ r \in lent
               /\ lent' = lent \ {r}
               /\ free' = IF r \in pooled THEN free \cup {r} ELSE free
               /\ UNCHANGED pooled

Next == \/ Create \/ Destroy
        \/ \E r \in Resource : Lend(r) \/ LendExtra(r) \/ GiveBack(r)

Spec == Init /\ [][Next]_vars
=============================================================================
