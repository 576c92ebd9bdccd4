------------------------------ MODULE TurnCycle ------------------------------
(***************************************************************************)
(* The turn cycle of a wargame activity (db/wargames.py) and the deadline  *)
(* worker (deadline_worker.py): teams are started, draft, are locked by a  *)
(* facilitator or by the worker, get one AI response each, and are         *)
(* published into the next round.                                          *)
(*                                                                         *)
(* The services take no row locks.  A transaction that awaits the AI is    *)
(* split into what it read before and what it commits after; the others    *)
(* are short and taken as one step.  What a message says is left out: the  *)
(* user and the assistant message of a round are inserted together, and    *)
(* only their sequence number, hence the round, matters.                   *)
(***************************************************************************)
EXTENDS Integers, FiniteSets

CONSTANTS
  Teams,
  Facilitators,   \* callers of the services, each one call at a time
  Worker,         \* the deadline worker
  None,
  MaxRound,       \* bound: no publication beyond this round
  MaxCrashes      \* bound: process deaths

ASSUME TeamsAssumption == IsFiniteSet(Teams) /\ None \notin Teams
ASSUME CallersAssumption == Worker \notin Facilitators
ASSUME BoundsAssumption == MaxRound \in Nat \ {0} /\ MaxCrashes \in Nat

VARIABLES
  current_round, round_state,   \* columns of wargame_team
  current_deadline,             \* "none", "future" or "past"
  responses,                    \* <<team, round>> of the assistant messages
  call,                         \* what each caller is doing
  overtaken,                    \* history: publications since whose reading another one, or a start, committed
  crashes

team_rows == <<current_round, round_state, current_deadline>>
history == <<overtaken, crashes>>
vars == <<team_rows, responses, call, history>>

Callers == Facilitators \cup {Worker}

(* A call: the teams its loop has still to reach, the one it is at, and    *)
(* what was read of that one (by publish_all: the round of each team).     *)
Idle == [op |-> "idle", todo |-> {}, team |-> None, read |-> << >>]
Call(op, todo, team, read) == [op |-> op, todo |-> todo, team |-> team, read |-> read]

Publishing == {c \in Callers : call[c].op = "publish"}

Responded(t) == <<t, current_round[t]>> \in responses
InState(S) == \A t \in Teams : round_state[t] \in S

Init ==
  /\ current_round = [t \in Teams |-> 0]
  /\ round_state = [t \in Teams |-> "drafting"]
  /\ current_deadline = [t \in Teams |-> "none"]
  /\ responses = {}
  /\ call = [c \in Callers |-> Idle]
  /\ overtaken = {}
  /\ crashes = 0

Becomes(c, newCall) == call' = [call EXCEPT ![c] = newCall]
Returns(c) == Becomes(c, Idle)

-----------------------------------------------------------------------------
(* start_game and run_preprocessing                                        *)

(* start_game refuses a game with messages.                                *)
StartGame(c) ==
  /\ c # Worker /\ call[c] = Idle
  /\ Teams # {} /\ responses = {}
  /\ Becomes(c, Call("start", Teams, None, << >>))
  /\ UNCHANGED <<team_rows, responses, history>>

(* run_preprocessing, called by a facilitator or by on_deadline_fired once *)
(* it has locked; the worker's call ends with an error unless all teams    *)
(* are locked or errored.                                                  *)
RunPreprocessing(c) ==
  /\ \/ c # Worker /\ call[c] = Idle /\ InState({"locked", "error"})
     \/ c = Worker /\ call[c].op = "locked"
  /\ Becomes(c, IF InState({"locked", "error"})
                THEN Call("preprocess", Teams, None, << >>) ELSE Idle)
  /\ UNCHANGED <<team_rows, responses, history>>

(* The one-response invariant, checked for round 1 or the team's own round.*)
RoundToAnswer(op, t) == IF op = "start" THEN 1 ELSE current_round[t]
AlreadyAnswered(op, t) == <<t, RoundToAnswer(op, t)>> \in responses

(* The loop reaches a team: it loads the row, and skips it if there is a   *)
(* response, or goes on to await the AI.  Nothing looks at the team's      *)
(* state again.                                                            *)
NextTeam(c, t) ==
  /\ call[c].op \in {"start", "preprocess"} /\ call[c].team = None
  /\ t \in call[c].todo
  /\ LET left == call[c].todo \ {t}
     IN  Becomes(c, IF AlreadyAnswered(call[c].op, t)
                    THEN Call(call[c].op, left, None, << >>)
                    ELSE Call(call[c].op, left, t,
                              [round |-> RoundToAnswer(call[c].op, t),
                               locked |-> call[c].op = "start" /\ round_state[t] = "locked"]))
  /\ UNCHANGED <<team_rows, responses, history>>

(* The AI answered and the transaction commits: both messages, and for a   *)
(* start the first round; a column that was read with the value it is to   *)
(* get is not written.  If the messages exist by now, the unique           *)
(* constraint makes it fail.                                               *)
StoreResponse(c) ==
  LET t == call[c].team
      read == call[c].read
  IN  /\ call[c].op \in {"start", "preprocess"} /\ t # None
      /\ <<t, read.round>> \notin responses
      /\ responses' = responses \cup {<<t, read.round>>}
      /\ current_round' = IF call[c].op = "start"
                          THEN [current_round EXCEPT ![t] = 1] ELSE current_round
      /\ round_state' = IF call[c].op = "start" /\ ~read.locked
                        THEN [round_state EXCEPT ![t] = "locked"] ELSE round_state
      /\ overtaken' = IF call[c].op = "start" THEN Publishing ELSE overtaken
      /\ Becomes(c, Call(call[c].op, call[c].todo, None, << >>))
      /\ UNCHANGED <<current_deadline, crashes>>

(* The AI or the commit failed: everything is rolled back and the team is  *)
(* then marked in a session of its own; when that fails too, the team      *)
(* stays as it is and the loop goes on.                                    *)
RollBack(c) ==
  /\ call[c].op \in {"start", "preprocess"} /\ call[c].team # None
  /\ Becomes(c, Call(IF call[c].op = "start" THEN "start failed" ELSE "failed",
                     call[c].todo, call[c].team, << >>))
  /\ UNCHANGED <<team_rows, responses, history>>

MarkErrored(c) ==
  /\ call[c].op \in {"start failed", "failed"}
  /\ \/ round_state' = [round_state EXCEPT ![call[c].team] = "error"]
     \/ UNCHANGED round_state
  /\ Becomes(c, Call(IF call[c].op = "failed" THEN "preprocess" ELSE "start",
                     call[c].todo, None, << >>))
  /\ UNCHANGED <<current_round, current_deadline, responses, history>>

LoopEnds(c) ==
  /\ call[c].op \in {"start", "preprocess"}
  /\ call[c].todo = {} /\ call[c].team = None
  /\ Returns(c)
  /\ UNCHANGED <<team_rows, responses, history>>

-----------------------------------------------------------------------------
(* Locking                                                                 *)

Drafting == {t \in Teams : round_state[t] = "drafting"}

(* Mutant: all drafts lose their deadline, and only the expired are locked. *)
LockDrafting_Expired ==
  /\ round_state' = [t \in Teams |-> IF t \in Drafting /\ current_deadline[t] = "past"
                                     THEN "locked" ELSE round_state[t]]
  /\ current_deadline' = [t \in Teams |-> IF t \in Drafting THEN "none"
                                          ELSE current_deadline[t]]

(* _lock_round_with_session: only drafting teams are touched.              *)
LockDrafting ==
  /\ round_state' = [t \in Teams |-> IF t \in Drafting THEN "locked"
                                                       ELSE round_state[t]]
  /\ current_deadline' = [t \in Teams |-> IF t \in Drafting THEN "none"
                                          ELSE current_deadline[t]]

LockRound(c) ==
  /\ c # Worker /\ call[c] = Idle
  /\ Drafting = Teams
  /\ LockDrafting
  /\ UNCHANGED <<current_round, responses, call, history>>

(* The query of check_expired_deadlines.                                   *)
Poll ==
  /\ call[Worker] = Idle
  /\ \E t \in Drafting : current_deadline[t] = "past"
  /\ Becomes(Worker, Call("fire", {}, None, << >>))
  /\ UNCHANGED <<team_rows, responses, history>>

(* on_deadline_fired locks whatever is drafting by then, and goes on to    *)
(* run_preprocessing.                                                      *)
FireDeadline ==
  /\ call[Worker].op = "fire"
  /\ LockDrafting
  /\ Becomes(Worker, Call("locked", {}, None, << >>))
  /\ UNCHANGED <<current_round, responses, history>>

Expire ==
  /\ \E t \in Teams : current_deadline[t] = "future"
  /\ current_deadline' = [t \in Teams |->
       IF current_deadline[t] = "future" THEN "past" ELSE current_deadline[t]]
  /\ UNCHANGED <<current_round, round_state, responses, call, history>>

-----------------------------------------------------------------------------
(* publish_all                                                             *)

(* Mutant: one response is enough. *)
Publishable_Some(locked) ==
  /\ InState({"locked", "error"})
  /\ locked = {} \/ \E t \in locked : Responded(t)

(* All teams locked or errored, all locked ones with a response.           *)
Publishable(locked) ==
  /\ InState({"locked", "error"})
  /\ \A t \in locked : Responded(t)

Publish(c) ==
  /\ c # Worker /\ call[c] = Idle
  /\ LET locked == {t \in Teams : round_state[t] = "locked"}
     IN  /\ Publishable(locked)
         /\ \A t \in locked : current_round[t] < MaxRound
         /\ Becomes(c, Call("publish", locked, None, [t \in locked |-> current_round[t]]))
  /\ UNCHANGED <<team_rows, responses, history>>

(* Mutant: the teams are published in sessions of their own, and a failure *)
(* leaves the others behind.                                               *)
Advanced_One(c, t) == call[c].todo # {} /\ t = CHOOSE u \in call[c].todo : TRUE

Advanced(c, t) == t \in call[c].todo

(* Mutant: the deadline is only set for the first round. *)
NewDeadline_Once(c, t) ==
  IF call[c].read[t] = 1 THEN "future" ELSE current_deadline[t]

NewDeadline(c, t) == "future"

(* The summaries are written and the transaction commits what it computed  *)
(* from the rows it read.                                                  *)
CommitPublish(c) ==
  /\ call[c].op = "publish"
  /\ current_round' = [t \in Teams |->
       IF Advanced(c, t) THEN call[c].read[t] + 1 ELSE current_round[t]]
  /\ round_state' = [t \in Teams |->
       IF Advanced(c, t) THEN "drafting" ELSE round_state[t]]
  /\ current_deadline' = [t \in Teams |->
       IF Advanced(c, t) THEN NewDeadline(c, t) ELSE current_deadline[t]]
  /\ Returns(c)
  /\ overtaken' = Publishing \ {c}
  /\ UNCHANGED <<responses, crashes>>

(* A summary failed: the whole publication is rolled back.                 *)
AbortPublish(c) ==
  /\ call[c].op = "publish"
  /\ Returns(c)
  /\ overtaken' = overtaken \ {c}
  /\ UNCHANGED <<team_rows, responses, crashes>>

-----------------------------------------------------------------------------
(* The process dies; its transactions are rolled back.                     *)
Crash ==
  /\ crashes < MaxCrashes
  /\ crashes' = crashes + 1
  /\ call' = [c \in Callers |-> Idle]
  /\ overtaken' = {}
  /\ UNCHANGED <<team_rows, responses>>

Next ==
  \/ Poll \/ FireDeadline \/ Expire \/ Crash
  \/ \E c \in Callers :
       \/ StartGame(c) \/ RunPreprocessing(c) \/ LockRound(c)
       \/ StoreResponse(c) \/ RollBack(c) \/ MarkErrored(c) \/ LoopEnds(c)
       \/ Publish(c) \/ CommitPublish(c) \/ AbortPublish(c)
       \/ \E t \in Teams : NextTeam(c, t)

Spec == Init /\ [][Next]_vars

(* Deadlines pass, the worker polls, and the AI answers or fails.          *)
Fairness ==
  /\ WF_vars(Expire) /\ WF_vars(Poll) /\ WF_vars(FireDeadline)
  /\ WF_vars(RunPreprocessing(Worker) \/ StoreResponse(Worker) \/ RollBack(Worker)
             \/ MarkErrored(Worker) \/ LoopEnds(Worker)
             \/ \E t \in Teams : NextTeam(Worker, t))

FairSpec == Spec /\ Fairness

-----------------------------------------------------------------------------
(* Properties                                                              *)

Rounds == 0 .. MaxRound

(* The values of the columns, and what a call in progress may hold; a team *)
(* that drafts has a deadline once its round was published, and none        *)
(* before, however the calls of several facilitators overlap.              *)
TypeOK ==
  /\ current_round \in [Teams -> Rounds]
  /\ round_state \in [Teams -> {"drafting", "locked", "error"}]
  /\ current_deadline \in [Teams -> {"none", "future", "past"}]
  /\ responses \subseteq Teams \X Rounds
  /\ \A c \in Callers :
       /\ call[c].op \in {"idle", "start", "preprocess", "start failed",
                          "failed", "fire", "locked", "publish"}
       /\ call[c].todo \subseteq Teams
       /\ call[c].team \in Teams \cup {None}
  /\ overtaken \subseteq Publishing
  /\ crashes \in 0 .. MaxCrashes
  /\ \A t \in Teams :
       round_state[t] = "drafting" => (current_deadline[t] = "none" <=> current_round[t] = 0)

(* A team enters the next round only with a response to the round it       *)
(* leaves: the completion gate of publish_all, which is checked before the *)
(* summaries are awaited and must still be true when they are committed.   *)
RoundsAreAnswered ==
  \A t \in Teams : \A r \in 1 .. current_round[t] - 1 : <<t, r>> \in responses

(* Teams that are in the same round go on together as long as neither      *)
(* fails: a publication moves all of them or none, whatever is locked,      *)
(* retried, failed or marked between its reading and its commit. The rows   *)
(* are not locked, so it must not be overtaken by another publication or by *)
(* a start: those are the only commits that undo it.                       *)
TeamsStayInStep ==
  [][overtaken = {} =>
       \A t, u \in Teams :
         /\ current_round[t] > 0 /\ current_round[t] = current_round[u]
         /\ round_state[t] # "error" /\ round_state[u] # "error"
         => current_round'[t] = current_round'[u]]_vars

(* Every round that was opened ends: the worker finds every drafting team, *)
(* also after the process died.                                            *)
EveryRoundEnds ==
  \A t \in Teams :
    round_state[t] = "drafting" /\ current_round[t] > 0
      ~> round_state[t] # "drafting"

=============================================================================
