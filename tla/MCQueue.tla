------------------------------ MODULE MCQueue ------------------------------
(* Threads that share one or two queues.                                   *)
EXTENDS Queue

CONSTANTS t1, t2, q1, q2, a, b, c, d

tx(ops) == [tx |-> TRUE, ops |-> ops]
sg(o)   == [tx |-> FALSE, ops |-> <<o>>]

ContentsRace == (q1 :> <<a>>) @@ (q2 :> <<>>)

(* One thread moves on in a queue and adds to both; the other one takes    *)
(* from them, in and outside transactions.                                 *)
TasksRace == (t1 :> <<tx(<<deq(q1), enq(q1, b)>>), tx(<<listPut(q2), enq(q1, c), enq(q2, c)>>)>>)
          @@ (t2 :> <<tx(<<enq(q2, d), deq(q2)>>), sg(empty(q2)), tx(<<empty(q2), deq(q2)>>),
                      sg(enq(q1, d)), sg(deq(q2))>>)

(* A transaction of two operations and a singleton on the same queue.      *)
TasksAbort == (t1 :> <<tx(<<deq(q1), enq(q1, b)>>)>>) @@ (t2 :> <<sg(enq(q1, c))>>)
=============================================================================
