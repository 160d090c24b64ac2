------------------------------ MODULE FifoServer ----------------------------
(***************************************************************************)
(* What the request path promises of every replica: a single server with a *)
(* FIFO queue of bounded length (README.md of the repository: M/D/1/K).    *)
(* A job in service is worked on in every unit of time, the next one       *)
(* begins when it is done, and no job leaves before.                       *)
(***************************************************************************)
EXTENDS Integers, Sequences

CONSTANTS Places, Room, Work

VARIABLE jobs  \* the work left of each job at each place, in order of arrival

FifoInit == jobs = [p \in Places |-> <<>>]

Enter(p) ==
  /\ Len(jobs[p]) < Room
  /\ \E w \in Work : jobs' = [jobs EXCEPT ![p] = Append(@, w)]

Worked(s) ==
  CASE s = <<>>    -> s
    [] Head(s) = 1 -> Tail(s)
    [] OTHER       -> [s EXCEPT ![1] = @ - 1]

UnitOfTime == jobs' = [p \in Places |-> Worked(jobs[p])]

FifoNext == UnitOfTime \/ \E p \in Places : Enter(p)

FifoSpec == FifoInit /\ [][FifoNext]_jobs
=============================================================================
