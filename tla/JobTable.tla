------------------------------- MODULE JobTable -------------------------------
(* What the export queue promises, without its rows, directories and the   *)
(* restarts of its worker: jobs wait in the order of their creation, one   *)
(* at a time is worked on, and what it made is offered until it is         *)
(* withdrawn.  A job that ended does not come back.  A job may get stuck:  *)
(* nobody works on it any more, it is never offered, and until it is       *)
(* dropped its owner gets no other.                                        *)
EXTENDS Integers

CONSTANTS Users, Jobs, None

VARIABLES
  newest,   \* number of jobs created so far, and the last of them
  owner,    \* of each job
  waiting,  \* jobs to be worked on
  working,  \* the job that is worked on, as a set
  stuck,    \* jobs that were given up without an end
  offered   \* jobs whose result can be downloaded

vars == <<newest, owner, waiting, working, stuck, offered>>

Init ==
  /\ newest = 0
  /\ owner = [j \in Jobs |-> None]
  /\ waiting = {} /\ working = {} /\ stuck = {} /\ offered = {}

(* Nobody has two jobs that are under way. *)
Create(u) ==
  /\ \A j \in waiting \cup working \cup stuck : owner[j] # u
  /\ newest' = newest + 1 /\ newest' \in Jobs
  /\ owner' = [owner EXCEPT ![newest'] = u]
  /\ waiting' = waiting \cup {newest'}
  /\ UNCHANGED <<working, stuck, offered>>

Begin(j) ==
  /\ working = {}
  /\ j \in waiting /\ \A k \in waiting : j <= k
  /\ waiting' = waiting \ {j} /\ working' = {j}
  /\ UNCHANGED <<newest, owner, stuck, offered>>

Finish(j) ==
  /\ j \in working
  /\ working' = {} /\ offered' = offered \cup {j}
  /\ UNCHANGED <<newest, owner, waiting, stuck>>

Abandon(j) ==
  /\ j \in working
  /\ working' = {} /\ stuck' = stuck \cup {j}
  /\ UNCHANGED <<newest, owner, waiting, offered>>

(* Jobs fail or are deleted, and results are withdrawn. *)
Drop ==
  /\ waiting' \subseteq waiting /\ working' \subseteq working
  /\ stuck' \subseteq stuck /\ offered' \subseteq offered
  /\ UNCHANGED <<newest, owner>>

Next ==
  \/ Drop
  \/ \E u \in Users : Create(u)
  \/ \E j \in Jobs : Begin(j) \/ Finish(j) \/ Abandon(j)

Spec == Init /\ [][Next]_vars
=============================================================================
