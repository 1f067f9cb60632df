---------------------------- MODULE RequestQueue ----------------------------
(***************************************************************************)
(* What threadpool<T> (webserver/threadpool.h) promises its callers, with   *)
(* the mutex, the semaphore and the program counters of the threads left    *)
(* out: a first-in first-out queue of requests with an admission limit,     *)
(* from which every worker serves one request at a time.                    *)
(*                                                                          *)
(* The reactor (module WebServer) is composed with this module; module      *)
(* ThreadPool, the code as it is written, is shown to implement it.         *)
(***************************************************************************)
EXTENDS Integers, Sequences

CONSTANTS
  Workers,      \* the threads of the pool
  Requests,     \* the T* that callers hand over
  NULL,         \* the null T*; a worker drops it
  Nothing,      \* what a worker that serves no request holds
  MaxRequests   \* m_max_requsts

VARIABLES
  pending,      \* accepted and not yet taken, oldest first
  active        \* active[w]: the request worker w is serving

Init == /\ pending = << >>
        /\ active = [w \in Workers |-> Nothing]

(* append() that returns true. The test is `size() > m_max_requsts', so     *)
(* that a queue of MaxRequests entries still admits one more. append() that *)
(* returns false changes nothing.                                           *)
Accept(r) == /\ Len(pending) <= MaxRequests
             /\ pending' = Append(pending, r)
             /\ UNCHANGED active

Dispatch(w) == /\ active[w] = Nothing
               /\ pending # << >>
               /\ pending' = Tail(pending)
               /\ active' = IF Head(pending) = NULL THEN active
                            ELSE [active EXCEPT ![w] = Head(pending)]

Complete(w) == /\ active[w] # Nothing
               /\ active' = [active EXCEPT ![w] = Nothing]
               /\ UNCHANGED pending

Next == \/ \E r \in Requests \cup {NULL} : Accept(r)
        \/ \E w \in Workers : Dispatch(w) \/ Complete(w)

Spec == Init /\ [][Next]_<<pending, active>>
=============================================================================
