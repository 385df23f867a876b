---------------------------- MODULE BoundedFifo ----------------------------
(***************************************************************************)
(* What a bounded blocking queue promises to the threads that share it.    *)
(* A call is pending from its invocation until its one atomic effect, which*)
(* is also its return.  A push that returns TRUE appended its element, a   *)
(* pop that returns TRUE took the oldest one, and a call that returns      *)
(* FALSE changed nothing.  A call may give up on a queue that could serve  *)
(* it only if the queue was built to wait: it then timed out.              *)
(***************************************************************************)
EXTENDS Naturals, Sequences

CONSTANTS Producers, Consumers, Elem, Capacity,
          PushWaits, PopWaits,   \* whether a call waits before it gives up
          NoElem

VARIABLES fifo,      \* the queued elements, oldest first
          pending,   \* what each thread is asking for
          item,      \* the element a push carries, the one a pop returned
          ok         \* the value the thread's last call returned

fifoVars == <<fifo, pending, item, ok>>

Clients == Producers \cup Consumers

FifoInit == /\ fifo = <<>>
            /\ pending = [t \in Clients |-> "none"]
            /\ item = [t \in Clients |-> NoElem]
            /\ ok = [t \in Clients |-> TRUE]

AskPush(t, e) == /\ pending[t] = "none"
                 /\ pending' = [pending EXCEPT ![t] = "push"]
                 /\ item' = [item EXCEPT ![t] = e]
                 /\ UNCHANGED <<fifo, ok>>

AskPop(t) == /\ pending[t] = "none"
             /\ pending' = [pending EXCEPT ![t] = "pop"]
             /\ item' = [item EXCEPT ![t] = NoElem]
             /\ UNCHANGED <<fifo, ok>>

Done(t, result) == /\ pending' = [pending EXCEPT ![t] = "none"]
                   /\ ok' = [ok EXCEPT ![t] = result]

PushDone(t) == /\ pending[t] = "push"
               /\ Len(fifo) < Capacity
               /\ fifo' = Append(fifo, item[t])
               /\ Done(t, TRUE)
               /\ UNCHANGED item

PopDone(t) == /\ pending[t] = "pop"
              /\ fifo # <<>>
              /\ fifo' = Tail(fifo)
              /\ item' = [item EXCEPT ![t] = Head(fifo)]
              /\ Done(t, TRUE)

PushRefused(t) == /\ pending[t] = "push"
                  /\ PushWaits \/ Len(fifo) = Capacity
                  /\ Done(t, FALSE)
                  /\ UNCHANGED <<fifo, item>>

PopRefused(t) == /\ pending[t] = "pop"
                 /\ PopWaits \/ fifo = <<>>
                 /\ Done(t, FALSE)
                 /\ UNCHANGED <<fifo, item>>

FifoNext == \/ \E t \in Producers : \/ \E e \in Elem : AskPush(t, e)
                                    \/ PushDone(t)
                                    \/ PushRefused(t)
            \/ \E t \in Consumers : AskPop(t) \/ PopDone(t) \/ PopRefused(t)

FifoSpec == FifoInit /\ [][FifoNext]_fifoVars
=============================================================================
