----------------------------- MODULE WorkQueue -----------------------------
(***************************************************************************)
(* What RunInLoop() promises to the threads that call it: a first-in       *)
(* first-out queue of functors, each of which runs at most once, in the    *)
(* order in which the calls entered the queue.  Functors are numbered by   *)
(* that order.                                                             *)
(***************************************************************************)
EXTENDS Naturals, Sequences

VARIABLES pending, \* functors accepted and not yet run, oldest first
          done     \* functors run so far, in the order they ran

qvars == <<pending, done>>

Init == pending = <<>> /\ done = <<>>

(* A call is accepted: it becomes the newest functor. *)
Post ==
  /\ pending' = Append(pending, Len(done) + Len(pending) + 1)
  /\ UNCHANGED done

(* The oldest functor runs. *)
Run ==
  /\ pending # <<>>
  /\ done' = Append(done, Head(pending))
  /\ pending' = Tail(pending)

Next == Post \/ Run

Spec == Init /\ [][Next]_qvars
=============================================================================
