------------------------------ MODULE JobQueue ------------------------------
(* The jobs of a BullMQ queue as the processors of this shop see them: a job   *)
(* added under an id that Redis still knows is not added again, a failed run   *)
(* is repeated until its attempts are spent and the job is dead-lettered       *)
(* (DlqAwareWorker), and a job whose worker stopped renewing its lock is       *)
(* handed out again once (maxStalledCount, left at its default), then failed   *)
(* without a dead letter, for its attempts are not spent.                      *)
EXTENDS Naturals

maxStalledCount == 1

JobStates == {"none", "waiting", "active", "done", "failed", "dead"}
Job == [state : JobStates, made : Nat, stalls : 0 .. maxStalledCount]

NoJob == [state |-> "none", made |-> 0, stalls |-> 0]
NewJob == [NoJob EXCEPT !.state = "waiting"]

(* queue.add(name, data, { jobId }) *)
Add(q, id) == IF q[id].state = "none" THEN [q EXCEPT ![id] = NewJob] ELSE q

Taken(q, id) == [q EXCEPT ![id].state = "active"]

(* The worker reports the end of a run, and onFailed routes a job to the dead  *)
(* letters when its attempts are spent. A worker that lost the job's lock is   *)
(* not heard (lock is FALSE).                                                  *)
Done(q, id, lock) == IF lock THEN [q EXCEPT ![id].state = "done"] ELSE q

Failed(q, id, lock, attempts) ==
  IF ~lock THEN q
  ELSE [q EXCEPT ![id].made = q[id].made + 1,
                 ![id].state = IF q[id].made + 1 >= attempts THEN "dead" ELSE "waiting"]

Stalled(q, id) ==
  IF q[id].stalls < maxStalledCount
  THEN [q EXCEPT ![id].state = "waiting", ![id].stalls = q[id].stalls + 1]
  ELSE [q EXCEPT ![id].state = "failed"]
=============================================================================
