----------------------------- MODULE ListQueue -----------------------------
(***************************************************************************)
(* utils::CListQueue, a doubly linked list through the objects themselves  *)
(* (CListable's _next and _prev), with a head node of its own.  A list is a*)
(* record of the links and of the class's fields; a method is an operator  *)
(* on such a record.  Whether an object is queued is read off its _prev,   *)
(* so an object can be in one list at a time; moving it between two lists  *)
(* without removing it first is not modelled.                              *)
(***************************************************************************)
EXTENDS Integers, Sequences

CONSTANTS Object,   \* the ListableClass objects
          HeadNode, \* the node the constructor makes
          NULL

ASSUME NodesAssumption == HeadNode \notin Object /\ NULL \notin Object /\ HeadNode # NULL

Node == Object \cup {HeadNode}

ListRecord == [next : [Node -> Object \cup {NULL}], prev : [Node -> Node \cup {NULL}],
               tail : Node, number : Nat]

NewList == [next |-> [n \in Node |-> NULL], prev |-> [n \in Node |-> NULL],
            tail |-> HeadNode, number |-> 0]

IsQueued(l, x) == l.prev[x] # NULL
FrontOf(l) == l.next[HeadNode]

\* push(): an object that is queued already stays where it is.
PushList(l, x) ==
    IF IsQueued(l, x) THEN l
    ELSE [next   |-> [l.next EXCEPT ![x] = NULL, ![l.tail] = x],
          prev   |-> [l.prev EXCEPT ![x] = l.tail],
          tail   |-> x,
          number |-> l.number + 1]

\* Mutant of RemoveList: the tail is not moved back when the last object goes.
RemoveListKeepsTail(l, x) ==
    LET before == l.prev[x]
        after  == l.next[x]
    IN  IF ~IsQueued(l, x) THEN l
        ELSE [next   |-> [l.next EXCEPT ![before] = after, ![x] = NULL],
              prev   |-> IF after = NULL THEN [l.prev EXCEPT ![x] = NULL]
                         ELSE [l.prev EXCEPT ![after] = before, ![x] = NULL],
              tail   |-> l.tail,
              number |-> l.number - 1]

\* remove(): an object that is not queued is left alone.
RemoveList(l, x) ==
    LET before == l.prev[x]
        after  == l.next[x]
    IN  IF ~IsQueued(l, x) THEN l
        ELSE [next   |-> [l.next EXCEPT ![before] = after, ![x] = NULL],
              prev   |-> IF after = NULL THEN [l.prev EXCEPT ![x] = NULL]
                         ELSE [l.prev EXCEPT ![after] = before, ![x] = NULL],
              tail   |-> IF after = NULL THEN before ELSE l.tail,
              number |-> l.number - 1]

\* The nodes met from the head node on, as many as _number says there are.
Walk(l) == LET at[i \in 0 .. l.number] ==
                   IF i = 0 \/ at[i - 1] = NULL THEN HeadNode ELSE l.next[at[i - 1]]
           IN  [i \in 1 .. l.number |-> at[i]]

\* Forward links, backward links, the tail, the number and the test for
\* membership all describe one sequence of distinct objects.
LinksAgree(l) ==
    LET w == Walk(l)
    IN  /\ l \in ListRecord
        /\ \A i \in DOMAIN w : /\ w[i] \in Object
                               /\ l.prev[w[i]] = IF i = 1 THEN HeadNode ELSE w[i - 1]
        /\ {w[i] : i \in DOMAIN w} = {x \in Object : IsQueued(l, x)}
        /\ l.tail = IF l.number = 0 THEN HeadNode ELSE w[l.number]
        /\ l.next[l.tail] = NULL
        /\ \A x \in Object : ~IsQueued(l, x) => l.next[x] = NULL
=============================================================================
