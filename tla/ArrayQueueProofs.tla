------------------------ MODULE ArrayQueueProofs ------------------------
(***************************************************************************)
(* Facts about the ring of CArrayQueue, for every capacity: the positions  *)
(* wrap where they should, a push appends to the contents and a pop takes  *)
(* the oldest element, and both leave a well-formed ring.                  *)
(***************************************************************************)
EXTENDS ArrayQueue, SequenceTheorems, TLAPS

\* The remainder of a number below twice the divisor.
LEMMA ModOnce ==
    ASSUME NEW n \in Nat \ {0}, NEW x \in Nat, x < 2 * n
    PROVE  x % n = IF x < n THEN x ELSE x - n
<1>1. x % n \in 0 .. n - 1 /\ x = n * (x \div n) + (x % n)
  OBVIOUS
<1>2. x \div n \in Int
  OBVIOUS
<1>3. (x \div n) = 0 \/ (x \div n) = 1
  <2>1. n * (x \div n) < 2 * n /\ n * (x \div n) > -n
    BY <1>1, <1>2
  <2> QED
    BY <2>1, <1>2
<1> QED
  BY <1>1, <1>3

\* Cell(h, i) is the cell of the i-th queued element of a ring whose head is h.
Cell(h, i) == IF h + i - 1 < QueueMax THEN h + i - 1 ELSE h + i - 1 - QueueMax

\* Positions less than a whole turn apart are different cells.
LEMMA CellsApart ==
    ASSUME NEW h \in Cells, NEW i \in Int, NEW j \in Int,
           1 <= i, i <= QueueMax
    PROVE  Cell(h, i) \in Cells /\ (i < j /\ j <= QueueMax => Cell(h, i) # Cell(h, j))
<1>1. QueueMax \in Int /\ h \in Int /\ 0 <= h /\ h < QueueMax
  BY QueueMaxAssumption DEF Cells
<1>2. Cell(h, i) \in Int /\ 0 <= Cell(h, i) /\ Cell(h, i) < QueueMax
  BY <1>1 DEF Cell
<1>3. i < j /\ j <= QueueMax => Cell(h, i) # Cell(h, j)
  BY <1>1 DEF Cell
<1> QED
  BY <1>1, <1>2, <1>3 DEF Cells

\* The contents as read with Cell, without the remainder.
LEMMA ContentsByCell ==
    ASSUME NEW q \in RawQueue
    PROVE  Contents(q) = [i \in 1 .. q.size |-> q.elems[Cell(q.head, i)]]
<1>1. q.head \in 0 .. QueueMax - 1 /\ q.size \in 0 .. QueueMax /\ QueueMax \in Nat \ {0}
  BY QueueMaxAssumption DEF RawQueue, Cells
<1>2. ASSUME NEW i \in 1 .. q.size
      PROVE  (q.head + i - 1) % QueueMax = Cell(q.head, i)
  <2> DEFINE x == q.head + i - 1
  <2>1. x \in Nat /\ x < 2 * QueueMax
    BY <1>1
  <2>2. x % QueueMax = IF x < QueueMax THEN x ELSE x - QueueMax
    <3> HIDE DEF x
    <3> QED
      BY <1>1, <2>1, ModOnce
  <2> QED
    BY <1>1, <2>1, <2>2 DEF Cell
<1> QED
  BY <1>2 DEF Contents

\* One position further round the ring.
LEMMA NextCell ==
    ASSUME NEW c \in Cells
    PROVE  (c + 1) % QueueMax = IF c + 1 < QueueMax THEN c + 1 ELSE 0
<1>1. QueueMax \in Nat \ {0} /\ c \in Nat /\ c < QueueMax
  BY QueueMaxAssumption DEF Cells
<1>2. CASE QueueMax = 1
  BY <1>1, <1>2
<1>3. CASE QueueMax > 1
  <2> DEFINE x == c + 1
  <2>1. x \in Nat /\ x < 2 * QueueMax /\ x <= QueueMax
    BY <1>1, <1>3
  <2>2. x % QueueMax = IF x < QueueMax THEN x ELSE x - QueueMax
    <3> HIDE DEF x
    <3> QED
      BY <1>1, <2>1, ModOnce
  <2> QED
    BY <1>1, <2>1, <2>2
<1> QED
  BY <1>1, <1>2, <1>3

\* Counting from the next head is counting one further from this one.
LEMMA CellFromNextHead ==
    ASSUME NEW h \in Cells, NEW g, g = IF h + 1 < QueueMax THEN h + 1 ELSE 0,
           NEW n \in 1 .. QueueMax
    PROVE  \A i \in 1 .. n - 1 : Cell(g, i) = Cell(h, i + 1)
<1> SUFFICES ASSUME NEW i \in 1 .. n - 1
             PROVE  Cell(g, i) = Cell(h, i + 1)
  OBVIOUS
<1>1. QueueMax \in Nat \ {0} /\ h \in Int /\ 0 <= h /\ h < QueueMax
      /\ i \in Int /\ 1 <= i /\ i < QueueMax
  BY QueueMaxAssumption DEF Cells
<1>2. CASE h + 1 < QueueMax
  BY <1>1, <1>2 DEF Cell
<1>3. CASE ~(h + 1 < QueueMax)
  BY <1>1, <1>3 DEF Cell
<1> QED
  BY <1>2, <1>3

\* A well-formed ring in terms of Cell.
LEMMA WellFormedByCell ==
    ASSUME NEW q \in RawQueue
    PROVE  WellFormed(q) <=>
             /\ q.tail = IF q.head + q.size < QueueMax
                         THEN q.head + q.size ELSE q.head + q.size - QueueMax
             /\ \A i \in 1 .. q.size : q.elems[Cell(q.head, i)] \in Elem
<1>1. q.head \in 0 .. QueueMax - 1 /\ q.size \in 0 .. QueueMax /\ QueueMax \in Nat \ {0}
  BY QueueMaxAssumption DEF RawQueue, Cells
<1>2. (q.head + q.size) % QueueMax = IF q.head + q.size < QueueMax
                         THEN q.head + q.size ELSE q.head + q.size - QueueMax
  BY <1>1, ModOnce
<1>3. \A i \in 1 .. q.size : Contents(q)[i] = q.elems[Cell(q.head, i)]
  BY ContentsByCell
<1> QED
  BY <1>2, <1>3 DEF WellFormed

\* The number of queued elements, as the class counts them and as they are read.
LEMMA ContentsLength ==
    ASSUME NEW q, WellFormed(q)
    PROVE  /\ Contents(q) \in Seq(Elem)
           /\ Len(Contents(q)) = q.size
           /\ q.size \in 0 .. QueueMax
           /\ \A i \in 1 .. q.size : Contents(q)[i] = q.elems[Cell(q.head, i)]
<1>1. q \in RawQueue
  BY DEF WellFormed
<1>2. q.size \in 0 .. QueueMax /\ QueueMax \in Nat \ {0}
  BY <1>1, QueueMaxAssumption DEF RawQueue
<1>3. \A i \in 1 .. q.size : Contents(q)[i] \in Elem
  BY DEF WellFormed
<1>4. Contents(q) = [i \in 1 .. q.size |-> q.elems[Cell(q.head, i)]]
  BY <1>1, ContentsByCell
<1>5. Contents(q) = [i \in 1 .. q.size |-> Contents(q)[i]]
  BY <1>4
<1>6. Contents(q) \in [1 .. q.size -> Elem]
  BY <1>3, <1>5
<1>7. Contents(q) \in Seq(Elem) /\ Len(Contents(q)) = q.size
  BY <1>2, <1>6
<1> QED
  BY <1>2, <1>4, <1>7

\* A new queue is a well-formed and empty ring.
LEMMA NewQueueWellFormed == WellFormed(NewQueue) /\ Contents(NewQueue) = <<>>
<1>1. NewQueue \in RawQueue
  BY QueueMaxAssumption DEF NewQueue, RawQueue, Cells
<1>2. WellFormed(NewQueue)
  BY <1>1, WellFormedByCell, QueueMaxAssumption DEF NewQueue
<1>3. Contents(NewQueue) = <<>>
  BY DEF Contents, NewQueue
<1> QED
  BY <1>2, <1>3

\* push_back on a ring that is not full: the ring stays well formed and its
\* contents grow by the element at the end, wherever _tail stands.
THEOREM PushBackAppends ==
    ASSUME NEW q, WellFormed(q), ~IsFull(q), NEW e \in Elem
    PROVE  /\ WellFormed(PushBack(q, e))
           /\ Contents(PushBack(q, e)) = Append(Contents(q), e)
<1> DEFINE r == PushBack(q, e)
<1>1. q \in RawQueue
  BY DEF WellFormed
<1>2. /\ q.head \in 0 .. QueueMax - 1 /\ q.tail \in Cells /\ q.size \in 0 .. QueueMax - 1
      /\ QueueMax \in Nat \ {0} /\ q.elems \in [Cells -> Elem \cup {Uninit}]
  BY <1>1, QueueMaxAssumption DEF RawQueue, Cells, IsFull
<1>3. /\ r.head = q.head /\ r.size = q.size + 1
      /\ r.tail = IF q.tail + 1 < QueueMax THEN q.tail + 1 ELSE 0
      /\ r.elems = [q.elems EXCEPT ![q.tail] = e]
  BY <1>1, <1>2, NextCell DEF PushBack, RawQueue
<1>4. r \in RawQueue
  <2>1. r.elems \in [Cells -> Elem \cup {Uninit}]
    BY <1>2, <1>3
  <2>2. (q.tail + 1) % QueueMax \in Cells
    BY <1>2, NextCell DEF Cells
  <2> QED
    BY <1>1, <1>2, <2>1, <2>2 DEF PushBack, RawQueue
<1>5. q.tail = Cell(q.head, q.size + 1)
  BY <1>1, <1>2, WellFormedByCell DEF Cell
<1>6. ASSUME NEW i \in 1 .. q.size
      PROVE  Cell(q.head, i) # q.tail /\ Cell(q.head, i) \in Cells
  <2>1. i \in Int /\ i >= 1 /\ i <= q.size /\ q.head \in Int /\ q.size \in Int
    BY <1>2
  <2> QED
    <3>1. q.head \in Cells /\ i <= QueueMax /\ q.size + 1 \in Int
          /\ i < q.size + 1 /\ q.size + 1 <= QueueMax
      BY <1>2, <2>1 DEF Cells
    <3> HIDE DEF r
    <3> QED
      BY <1>5, <2>1, <3>1, CellsApart
<1>7. \A i \in 1 .. q.size : r.elems[Cell(q.head, i)] = q.elems[Cell(q.head, i)]
  BY <1>2, <1>3, <1>6
<1>8. r.elems[Cell(q.head, q.size + 1)] = e
  BY <1>2, <1>3, <1>5
<1>9. WellFormed(r)
  <2>1. r.tail = IF r.head + r.size < QueueMax
                 THEN r.head + r.size ELSE r.head + r.size - QueueMax
    BY <1>2, <1>3, <1>5 DEF Cell
  <2>2. \A i \in 1 .. q.size : q.elems[Cell(q.head, i)] \in Elem
    BY <1>1, WellFormedByCell
  <2>3. \A i \in 1 .. r.size : r.elems[Cell(r.head, i)] \in Elem
    BY <1>2, <1>3, <1>7, <1>8, <2>2
  <2> QED
    BY <1>4, <2>1, <2>3, WellFormedByCell
<1>10. Contents(r) = Append(Contents(q), e)
  <2>1. /\ Contents(q) \in Seq(Elem) /\ Len(Contents(q)) = q.size
        /\ \A i \in 1 .. q.size : Contents(q)[i] = q.elems[Cell(q.head, i)]
    BY ContentsLength
  <2>2. /\ Contents(r) \in Seq(Elem) /\ Len(Contents(r)) = q.size + 1
        /\ \A i \in 1 .. q.size + 1 : Contents(r)[i] = r.elems[Cell(q.head, i)]
    <3> HIDE DEF r
    <3>1. /\ Contents(r) \in Seq(Elem) /\ Len(Contents(r)) = r.size
          /\ \A i \in 1 .. r.size : Contents(r)[i] = r.elems[Cell(r.head, i)]
      BY <1>9, ContentsLength
    <3> QED
      BY <1>3, <3>1
  <2>3. /\ Append(Contents(q), e) \in Seq(Elem)
        /\ Len(Append(Contents(q), e)) = q.size + 1
        /\ \A i \in 1 .. q.size : Append(Contents(q), e)[i] = Contents(q)[i]
        /\ Append(Contents(q), e)[q.size + 1] = e
    BY <2>1, AppendProperties
  <2>4. ASSUME NEW i \in 1 .. q.size + 1
        PROVE  Contents(r)[i] = Append(Contents(q), e)[i]
    <3>1. CASE i = q.size + 1
      BY <1>8, <2>2, <2>3, <3>1
    <3>2. CASE i \in 1 .. q.size
      BY <1>7, <2>1, <2>2, <2>3, <3>2
    <3>3. i = q.size + 1 \/ i \in 1 .. q.size
      BY <1>2
    <3> QED
      BY <3>1, <3>2, <3>3
  <2> HIDE DEF r
  <2> QED
    BY <2>2, <2>3, <2>4, SeqEqual
<1> QED
  BY <1>9, <1>10

\* pop_front on a ring that is not empty: front() is the head of the contents,
\* which lose it, and the ring stays well formed.
THEOREM PopFrontTakesOldest ==
    ASSUME NEW q, WellFormed(q), ~IsEmpty(q)
    PROVE  /\ WellFormed(PopFront(q))
           /\ Contents(q) # <<>>
           /\ Front(q) = Head(Contents(q))
           /\ Front(q) \in Elem
           /\ Contents(PopFront(q)) = Tail(Contents(q))
<1> DEFINE r == PopFront(q)
<1>1. q \in RawQueue
  BY DEF WellFormed
<1>2. /\ q.head \in Cells /\ q.size \in 1 .. QueueMax
      /\ QueueMax \in Nat \ {0} /\ q.elems \in [Cells -> Elem \cup {Uninit}]
  BY <1>1, QueueMaxAssumption DEF RawQueue, Cells, IsEmpty
<1>3. /\ r.head = IF q.head + 1 < QueueMax THEN q.head + 1 ELSE 0
      /\ r.size = q.size - 1 /\ r.tail = q.tail /\ r.elems = q.elems
  BY <1>1, <1>2, NextCell DEF PopFront, RawQueue
<1>4. r \in RawQueue
  <2>1. (q.head + 1) % QueueMax \in Cells
    BY <1>2, NextCell DEF Cells
  <2> QED
    BY <1>1, <1>2, <2>1 DEF PopFront, RawQueue
<1>5. \A i \in 1 .. q.size - 1 : Cell(r.head, i) = Cell(q.head, i + 1)
  BY <1>2, <1>3, CellFromNextHead
<1>6. \A i \in 1 .. q.size : q.elems[Cell(q.head, i)] \in Elem
  BY <1>1, WellFormedByCell
<1>7. WellFormed(r)
  <2>1. r.tail = IF r.head + r.size < QueueMax
                 THEN r.head + r.size ELSE r.head + r.size - QueueMax
    BY <1>1, <1>2, <1>3, WellFormedByCell DEF Cells
  <2>2. \A i \in 1 .. r.size : r.elems[Cell(r.head, i)] \in Elem
    BY <1>2, <1>3, <1>5, <1>6
  <2> QED
    BY <1>4, <2>1, <2>2, WellFormedByCell
<1>8. /\ Contents(q) \in Seq(Elem) /\ Len(Contents(q)) = q.size
      /\ \A i \in 1 .. q.size : Contents(q)[i] = q.elems[Cell(q.head, i)]
  BY ContentsLength
<1>9. /\ Contents(r) \in Seq(Elem) /\ Len(Contents(r)) = q.size - 1
      /\ \A i \in 1 .. q.size - 1 : Contents(r)[i] = q.elems[Cell(r.head, i)]
  BY <1>3, <1>7, ContentsLength
<1>10. Contents(q) # <<>> /\ Head(Contents(q)) = q.elems[Cell(q.head, 1)]
  BY <1>2, <1>8
<1>11. Cell(q.head, 1) = q.head
  BY <1>2 DEF Cell, Cells
<1>12. /\ Tail(Contents(q)) \in Seq(Elem) /\ Len(Tail(Contents(q))) = q.size - 1
       /\ \A i \in 1 .. q.size - 1 : Tail(Contents(q))[i] = Contents(q)[i + 1]
  BY <1>8, <1>10, HeadTailProperties
<1>13. \A i \in 1 .. q.size - 1 : Contents(r)[i] = Tail(Contents(q))[i]
  <2>1. \A i \in 1 .. q.size - 1 : i + 1 \in 1 .. q.size
    BY <1>2
  <2> QED
    BY <1>5, <1>8, <1>9, <1>12, <2>1
<1>14. Contents(r) = Tail(Contents(q))
  <2> HIDE DEF r
  <2> QED
    BY <1>9, <1>12, <1>13, SeqEqual
<1>15. Front(q) = Head(Contents(q)) /\ Front(q) \in Elem
  BY <1>2, <1>6, <1>10, <1>11 DEF Front
<1> QED
  BY <1>7, <1>10, <1>14, <1>15

=============================================================================
