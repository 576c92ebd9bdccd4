-------------------------- MODULE TurnCycleProofs --------------------------
(***************************************************************************)
(* The turn cycle, for every set of teams, any number of facilitators and  *)
(* no bound on rounds or crashes.  First the gate of publish_all.          *)
(* RoundsAreAnswered is not inductive alone: the gate is passed when the   *)
(* rows are read, and the rounds are advanced later from what was read.    *)
(* IInv therefore also says of a publication in progress that the rounds   *)
(* it read are answered; responses are never deleted, so they stay so.     *)
(* Then the columns of the rows: RowsHold, with what the calls have read.  *)
(* Last the teams' keeping step: Fresh says what a publication that was    *)
(* not overtaken finds when it commits.                                    *)
(***************************************************************************)
EXTENDS TurnCycle, TLAPS

(* Every round of t up to r has its response. *)
AnsweredUpTo(t, r) == \A i \in 1 .. r : <<t, i>> \in responses

GateStillHolds ==
  \A c \in Callers : call[c].op = "publish" =>
    /\ call[c].read \in [call[c].todo -> Int]
    /\ \A t \in call[c].todo : AnsweredUpTo(t, call[c].read[t])

IInv ==
  /\ current_round \in [Teams -> Int]
  /\ DOMAIN call = Callers
  /\ \A t \in Teams : AnsweredUpTo(t, current_round[t] - 1)
  /\ GateStillHolds

-----------------------------------------------------------------------------
(* The first i rounds of a team are answered when the first i - 1 are and  *)
(* the i-th is.                                                            *)
LEMMA OneMoreAnswered ==
  ASSUME NEW t, NEW i \in Int,
         AnsweredUpTo(t, i - 1), <<t, i>> \in responses
  PROVE  AnsweredUpTo(t, i)
<1> SUFFICES ASSUME NEW j \in 1 .. i PROVE <<t, j>> \in responses
  BY DEF AnsweredUpTo
<1>1. CASE j = i
  BY <1>1
<1>2. CASE j # i
  <2>1. j \in 1 .. (i - 1)
    BY <1>2
  <2> QED
    BY <2>1 DEF AnsweredUpTo
<1> QED
  BY <1>1, <1>2

(* What a step must do to keep IInv: responses only grow, rounds stay or   *)
(* become answered ones, and calls either are as they were, or do not      *)
(* publish, or publish what is answered.                                   *)
LEMMA Preserves ==
  ASSUME IInv,
         responses \subseteq responses',
         current_round' \in [Teams -> Int],
         DOMAIN call' = Callers,
         \A t \in Teams : current_round'[t] = current_round[t]
                          \/ AnsweredUpTo(t, current_round'[t] - 1)
                          \/ current_round'[t] = 1,
         \A c \in Callers : call'[c].op = "publish" =>
           \/ call'[c] = call[c]
           \/ /\ call'[c].read \in [call'[c].todo -> Int]
              /\ \A t \in call'[c].todo : AnsweredUpTo(t, call'[c].read[t])
  PROVE  IInv'
<1>1. ASSUME NEW t \in Teams
      PROVE  \A i \in 1 .. (current_round'[t] - 1) : <<t, i>> \in responses'
  <2>1. CASE current_round'[t] = 1
    <3>1. 1 .. (current_round'[t] - 1) = {}
      BY <2>1
    <3> QED
      BY <3>1
  <2>2. CASE current_round'[t] # 1
    <3>1. AnsweredUpTo(t, current_round'[t] - 1)
      BY <2>2 DEF IInv
    <3> QED
      BY <3>1 DEF AnsweredUpTo
  <2> QED
    BY <2>1, <2>2
<1>2. ASSUME NEW c \in Callers, call'[c].op = "publish"
      PROVE  /\ call'[c].read \in [call'[c].todo -> Int]
             /\ \A t \in call'[c].todo : \A i \in 1 .. call'[c].read[t] :
                  <<t, i>> \in responses'
  <2>1. /\ call'[c].read \in [call'[c].todo -> Int]
        /\ \A t \in call'[c].todo : AnsweredUpTo(t, call'[c].read[t])
    BY <1>2 DEF IInv, GateStillHolds
  <2> QED
    BY <2>1 DEF AnsweredUpTo
<1> QED
  BY <1>1, <1>2 DEF IInv, GateStillHolds, AnsweredUpTo

(* A call that is not a publication replaces the one of its caller.        *)
LEMMA OtherCalls ==
  ASSUME IInv, NEW c \in Callers, NEW new, Becomes(c, new), new.op # "publish"
  PROVE  /\ DOMAIN call' = Callers
         /\ \A d \in Callers : call'[d].op = "publish" => call'[d] = call[d]
BY DEF IInv, Becomes

(* Every step of a caller but the one that begins a publication leaves it  *)
(* with a call that does not publish.                                      *)
OtherStep(c) ==
  \/ StartGame(c) \/ RunPreprocessing(c) \/ (\E t \in Teams : NextTeam(c, t))
  \/ StoreResponse(c) \/ RollBack(c) \/ MarkErrored(c) \/ LoopEnds(c)
  \/ CommitPublish(c) \/ AbortPublish(c)

LEMMA OtherOperation ==
  ASSUME NEW c \in Callers, OtherStep(c)
  PROVE  \E new : Becomes(c, new) /\ new.op # "publish"
<1>1. CASE StartGame(c)
  BY <1>1 DEF StartGame, Call
<1>2. CASE RunPreprocessing(c)
  BY <1>2 DEF RunPreprocessing, Call, Idle
<1>3. CASE \E t \in Teams : NextTeam(c, t)
  <2>1. PICK t \in Teams : NextTeam(c, t)
    BY <1>3
  <2>2. CASE AlreadyAnswered(call[c].op, t)
    BY <2>1, <2>2 DEF NextTeam, Call
  <2>3. CASE ~AlreadyAnswered(call[c].op, t)
    BY <2>1, <2>3 DEF NextTeam, Call
  <2> QED
    BY <2>2, <2>3
<1>4. CASE RollBack(c)
  <2> DEFINE op == IF call[c].op = "start" THEN "start failed" ELSE "failed"
  <2>1. Becomes(c, Call(op, call[c].todo, call[c].team, << >>)) /\ op # "publish"
    BY <1>4 DEF RollBack
  <2> HIDE DEF op
  <2> QED
    BY <2>1 DEF Call
<1>5. CASE MarkErrored(c)
  <2> DEFINE op == IF call[c].op = "failed" THEN "preprocess" ELSE "start"
  <2>1. Becomes(c, Call(op, call[c].todo, None, << >>)) /\ op # "publish"
    BY <1>5 DEF MarkErrored
  <2> HIDE DEF op
  <2> QED
    BY <2>1 DEF Call
<1>6. CASE LoopEnds(c) \/ AbortPublish(c) \/ CommitPublish(c)
  BY <1>6 DEF LoopEnds, AbortPublish, CommitPublish, Returns, Idle
<1>7. CASE StoreResponse(c)
  BY <1>7 DEF StoreResponse, Call
<1> QED
  BY <1>1, <1>2, <1>3, <1>4, <1>5, <1>6, <1>7 DEF OtherStep

-----------------------------------------------------------------------------
(* The initial state satisfies the invariant. *)
LEMMA InitIInv == Init => IInv
<1> SUFFICES ASSUME Init PROVE IInv
  OBVIOUS
<1>1. \A t \in Teams : 1 .. (current_round[t] - 1) = {}
  BY DEF Init
<1>2. \A c \in Callers : call[c].op # "publish"
  BY DEF Init, Idle
<1> QED
  BY <1>1, <1>2 DEF Init, IInv, GateStillHolds, AnsweredUpTo

(* Steps that change neither rounds nor responses, and publish nothing.    *)
LEMMA QuietSteps ==
  ASSUME IInv, NEW c \in Callers,
         \/ StartGame(c) \/ RunPreprocessing(c) \/ (\E t \in Teams : NextTeam(c, t))
         \/ RollBack(c) \/ MarkErrored(c) \/ LoopEnds(c) \/ AbortPublish(c)
  PROVE  IInv'
<1>1. UNCHANGED <<current_round, responses>>
  BY DEF StartGame, RunPreprocessing, NextTeam, RollBack, MarkErrored, LoopEnds,
         AbortPublish, team_rows
<1>2. \E new : Becomes(c, new) /\ new.op # "publish"
  BY OtherOperation DEF OtherStep
<1>3. /\ DOMAIN call' = Callers
      /\ \A d \in Callers : call'[d].op = "publish" => call'[d] = call[d]
  BY <1>2, OtherCalls
<1> QED
  BY <1>1, <1>3, Preserves DEF IInv

(* Locking, the worker's poll, the clock and a crash.                      *)
LEMMA LocksAndCrashes ==
  ASSUME IInv,
         Poll \/ FireDeadline \/ Expire \/ Crash \/ (\E c \in Callers : LockRound(c))
  PROVE  IInv'
<1>1. UNCHANGED <<current_round, responses>>
  BY DEF Poll, FireDeadline, Expire, Crash, LockRound, team_rows
<1>2. /\ DOMAIN call' = Callers
      /\ \A d \in Callers : call'[d].op = "publish" => call'[d] = call[d]
  <2>1. CASE Poll \/ FireDeadline
    <3>1. Worker \in Callers
      BY DEF Callers
    <3>2. \E new : Becomes(Worker, new) /\ new.op # "publish"
      BY <2>1 DEF Poll, FireDeadline, Call
    <3> QED
      BY <3>1, <3>2, OtherCalls
  <2>2. CASE Crash
    BY <2>2 DEF Crash, Idle
  <2>3. CASE Expire \/ (\E c \in Callers : LockRound(c))
    BY <2>3 DEF Expire, LockRound, IInv
  <2> QED
    BY <2>1, <2>2, <2>3
<1> QED
  BY <1>1, <1>2, Preserves DEF IInv

(* A response is stored; a start sets the first round.                     *)
LEMMA StoreStep ==
  ASSUME IInv, NEW c \in Callers, StoreResponse(c)
  PROVE  IInv'
<1>1. responses \subseteq responses'
  BY DEF StoreResponse
<1>2. \/ current_round' = current_round
      \/ current_round' = [current_round EXCEPT ![call[c].team] = 1]
  BY DEF StoreResponse
<1>3. /\ current_round' \in [Teams -> Int]
      /\ \A t \in Teams : current_round'[t] = current_round[t] \/ current_round'[t] = 1
  BY <1>2 DEF IInv
<1>4. /\ DOMAIN call' = Callers
      /\ \A d \in Callers : call'[d].op = "publish" => call'[d] = call[d]
  BY OtherOperation, OtherCalls DEF OtherStep
<1> QED
  BY <1>1, <1>3, <1>4, Preserves

(* publish_all passes its gate: what it read is answered.                  *)
LEMMA PublishStep ==
  ASSUME IInv, NEW c \in Callers, Publish(c)
  PROVE  IInv'
<1> DEFINE locked == {t \in Teams : round_state[t] = "locked"}
           new == Call("publish", locked, None, [t \in locked |-> current_round[t]])
<1>1. UNCHANGED <<current_round, responses>>
  BY DEF Publish, team_rows
<1>2. Becomes(c, new) /\ Publishable(locked)
  BY DEF Publish
<1>3. \A t \in locked : AnsweredUpTo(t, current_round[t])
  <2>1. ASSUME NEW t \in locked PROVE AnsweredUpTo(t, current_round[t])
    <3>1. AnsweredUpTo(t, current_round[t] - 1) /\ current_round[t] \in Int
      BY DEF IInv
    <3>2. <<t, current_round[t]>> \in responses
      BY <1>2 DEF Publishable, Responded
    <3> QED
      BY <3>1, <3>2, OneMoreAnswered
  <2> QED
    BY <2>1
<1>4. new.read = [t \in locked |-> current_round[t]] /\ new.todo = locked /\ locked \subseteq Teams
  BY DEF Call
<1>5. call'[c] = new /\ DOMAIN call' = Callers
      /\ \A d \in Callers \ {c} : call'[d] = call[d]
  <2> HIDE DEF new
  <2> QED
    BY <1>2 DEF Becomes, IInv
<1> HIDE DEF new, locked
<1>6. \A d \in Callers : call'[d].op = "publish" =>
        \/ call'[d] = call[d]
        \/ /\ call'[d].read \in [call'[d].todo -> Int]
           /\ \A t \in call'[d].todo : AnsweredUpTo(t, call'[d].read[t])
  BY <1>3, <1>4, <1>5 DEF IInv
<1> QED
  BY <1>1, <1>5, <1>6, Preserves DEF IInv

(* It commits: the round a team enters follows an answered one.            *)
LEMMA CommitStep ==
  ASSUME IInv, NEW c \in Callers, CommitPublish(c)
  PROVE  IInv'
<1>1. UNCHANGED responses
  BY DEF CommitPublish
<1>2. /\ call[c].read \in [call[c].todo -> Int]
      /\ \A t \in call[c].todo : AnsweredUpTo(t, call[c].read[t])
  BY DEF CommitPublish, IInv, GateStillHolds
<1>3. current_round' = [t \in Teams |->
         IF t \in call[c].todo THEN call[c].read[t] + 1 ELSE current_round[t]]
  BY DEF CommitPublish, Advanced
<1>4. current_round' \in [Teams -> Int]
  BY <1>2, <1>3 DEF IInv
<1>5. ASSUME NEW t \in Teams
      PROVE  \/ current_round'[t] = current_round[t]
             \/ AnsweredUpTo(t, current_round'[t] - 1)
  <2>1. CASE t \in call[c].todo
    <3>1. current_round'[t] - 1 = call[c].read[t]
      BY <1>2, <1>3, <2>1
    <3> QED
      BY <1>2, <2>1, <3>1
  <2>2. CASE t \notin call[c].todo
    BY <1>3, <2>2
  <2> QED
    BY <2>1, <2>2
<1>6. /\ DOMAIN call' = Callers
      /\ \A d \in Callers : call'[d].op = "publish" => call'[d] = call[d]
  BY OtherOperation, OtherCalls DEF OtherStep
<1> QED
  BY <1>1, <1>4, <1>5, <1>6, Preserves

(* Every step preserves the invariant.                                     *)
LEMMA StepIInv == IInv /\ [Next]_vars => IInv'
<1> SUFFICES ASSUME IInv, [Next]_vars PROVE IInv'
  OBVIOUS
<1>1. CASE UNCHANGED vars
  BY <1>1 DEF vars, team_rows, IInv, GateStillHolds, AnsweredUpTo
<1>2. CASE Poll \/ FireDeadline \/ Expire \/ Crash
  BY <1>2, LocksAndCrashes
<1>3. ASSUME NEW c \in Callers,
             \/ StartGame(c) \/ RunPreprocessing(c) \/ LockRound(c)
             \/ StoreResponse(c) \/ RollBack(c) \/ MarkErrored(c) \/ LoopEnds(c)
             \/ Publish(c) \/ CommitPublish(c) \/ AbortPublish(c)
             \/ \E t \in Teams : NextTeam(c, t)
      PROVE  IInv'
  BY <1>3, QuietSteps, LocksAndCrashes, StoreStep, PublishStep, CommitStep
<1> QED
  BY <1>1, <1>2, <1>3 DEF Next

-----------------------------------------------------------------------------
(* No team leaves a round that has no response, whatever calls of however  *)
(* many facilitators overlap, whichever AI calls fail and however often    *)
(* the process dies: the gate of publish_all still holds when it commits.  *)
THEOREM NoRoundSkipped == Spec => []RoundsAreAnswered
<1>1. IInv => RoundsAreAnswered
  BY DEF IInv, RoundsAreAnswered, AnsweredUpTo
<1> QED
  BY <1>1, InitIInv, StepIInv, PTL DEF Spec

-----------------------------------------------------------------------------
(***************************************************************************)
(* The columns                                                             *)
(***************************************************************************)

(* A team that drafts without a deadline is one that was never locked, for *)
(* whatever makes a team draft again gives it one.                         *)
New(t) == round_state[t] = "drafting" /\ current_deadline[t] = "none"

RowsHold ==
  /\ current_round \in [Teams -> Rounds]
  /\ round_state \in [Teams -> {"drafting", "locked", "error"}]
  /\ current_deadline \in [Teams -> {"none", "future", "past"}]
  /\ responses \subseteq Teams \X Rounds
  /\ \A t \in Teams :
       /\ New(t) => current_round[t] = 0
       /\ current_deadline[t] # "none" => current_round[t] > 0

Ops == {"idle", "start", "preprocess", "start failed", "failed", "fire", "locked", "publish"}
Awaits(c) == call[c].op \in {"start", "preprocess"} /\ call[c].team # None

(* What a call holds: it awaits a response of a round there is, a start    *)
(* the one of round 1 and has read no new team as locked, and a            *)
(* publication is below the bound.                                         *)
CallHolds(c) ==
  /\ call[c].op \in Ops /\ call[c].todo \subseteq Teams /\ call[c].team \in Teams \cup {None}
  /\ Awaits(c) => call[c].read.round \in Rounds
  /\ Awaits(c) /\ call[c].op = "start" =>
       call[c].read.round = 1 /\ (call[c].read.locked => ~New(call[c].team))
  /\ call[c].op = "publish" =>
       /\ call[c].read \in [call[c].todo -> Rounds]
       /\ \A t \in call[c].todo : call[c].read[t] < MaxRound

ColInv ==
  /\ RowsHold
  /\ DOMAIN call = Callers
  /\ \A c \in Callers : CallHolds(c)
  /\ overtaken \subseteq Publishing
  /\ crashes \in 0 .. MaxCrashes

LEMMA IdleHolds ==
  ASSUME NEW c, call[c] = Idle
  PROVE  CallHolds(c)
BY DEF CallHolds, Idle, Ops, Awaits

LEMMA IdleHoldsNext ==
  ASSUME NEW c, call'[c] = Idle
  PROVE  CallHolds(c)'
BY DEF CallHolds, Idle, Ops, Awaits

(* So does a call that neither awaits nor publishes.                       *)
LEMMA PlainHoldsNext ==
  ASSUME NEW c, NEW op \in Ops \ {"publish"}, NEW todo \in SUBSET Teams,
         NEW team \in Teams \cup {None}, op \in {"start", "preprocess"} => team = None,
         call'[c] = Call(op, todo, team, << >>)
  PROVE  CallHolds(c)'
<1>1. call'[c].op = op /\ call'[c].todo = todo /\ call'[c].team = team
  BY DEF Call
<1> QED
  BY <1>1 DEF CallHolds, Awaits

LEMMA InitColumns == Init => ColInv
<1> SUFFICES ASSUME Init PROVE ColInv
  OBVIOUS
<1>1. RowsHold
  BY BoundsAssumption DEF Init, RowsHold, Rounds, New
<1>2. \A c \in Callers : CallHolds(c)
  BY IdleHolds DEF Init
<1> QED
  BY <1>1, <1>2, BoundsAssumption DEF Init, ColInv

(* The call of c changes and no other. *)
LEMMA NewCall ==
  ASSUME DOMAIN call = Callers, NEW c \in Callers, NEW new, Becomes(c, new)
  PROVE  /\ DOMAIN call' = Callers
         /\ call'[c] = new
         /\ \A d \in Callers \ {c} : call'[d] = call[d]
BY DEF Becomes

(* A call that did not change holds as long as no team becomes new. *)
LEMMA SameCall ==
  ASSUME NEW c \in Callers, call'[c] = call[c], CallHolds(c),
         \A t \in Teams : New(t)' => New(t)
  PROVE  CallHolds(c)'
<1> DEFINE k == call[c]
<1>1. call'[c] = k /\ call[c] = k
  OBVIOUS
<1> HIDE DEF k
<1> QED
  BY <1>1 DEF CallHolds, Awaits, Rounds

(* What a step must do to keep ColInv: the rows hold, no team becomes new, *)
(* and the one call that changes holds.                                    *)
LEMMA KeepsColumns ==
  ASSUME ColInv, RowsHold', \A t \in Teams : New(t)' => New(t),
         NEW c \in Callers, CallHolds(c)',
         DOMAIN call' = Callers, \A d \in Callers \ {c} : call'[d] = call[d],
         overtaken' \subseteq Publishing', crashes' \in 0 .. MaxCrashes
  PROVE  ColInv'
<1>1. ASSUME NEW d \in Callers PROVE CallHolds(d)'
  <2>1. CASE d = c
    BY <2>1
  <2>2. CASE d # c
    BY <2>2, SameCall DEF ColInv
  <2> QED
    BY <2>1, <2>2
<1> QED
  BY <1>1 DEF ColInv

(* A publication in progress stays one, unless it is its caller's step.    *)
LEMMA StillPublishing ==
  ASSUME ColInv, NEW c \in Callers,
         DOMAIN call' = Callers, \A d \in Callers \ {c} : call'[d] = call[d],
         \/ overtaken' = overtaken /\ call[c].op # "publish"
         \/ overtaken' = Publishing /\ call[c].op # "publish"
         \/ overtaken' = Publishing \ {c} \/ overtaken' = overtaken \ {c}
  PROVE  overtaken' \subseteq Publishing'
<1> SUFFICES ASSUME NEW d \in overtaken' PROVE d \in Publishing'
  OBVIOUS
<1>1. d \in Publishing /\ d # c
  BY DEF ColInv, Publishing
<1> QED
  BY <1>1 DEF Publishing

(* A call begins or goes on and the rows stay as they are.                 *)
LEMMA CallColumns ==
  ASSUME ColInv, NEW c \in Callers, UNCHANGED <<team_rows, responses, crashes>>,
         DOMAIN call' = Callers, \A d \in Callers \ {c} : call'[d] = call[d],
         CallHolds(c)', overtaken' \subseteq Publishing'
  PROVE  ColInv'
<1>1. RowsHold' /\ \A t \in Teams : New(t)' => New(t)
  BY DEF ColInv, RowsHold, New, team_rows
<1> QED
  BY <1>1, KeepsColumns DEF ColInv

LEMMA BeginColumns ==
  ASSUME ColInv, NEW c \in Callers,
         StartGame(c) \/ RunPreprocessing(c) \/ Publish(c)
  PROVE  ColInv'
<1>1. UNCHANGED <<team_rows, responses, history>> /\ call[c].op # "publish"
  BY DEF StartGame, RunPreprocessing, Publish, Idle
<1>2. \E k : Becomes(c, k)
  BY DEF StartGame, RunPreprocessing, Publish
<1>3. DOMAIN call' = Callers /\ \A d \in Callers \ {c} : call'[d] = call[d]
  BY <1>2, NewCall DEF ColInv
<1>4. CallHolds(c)'
  <2>1. CASE call'[c] = Idle
    BY <2>1, IdleHoldsNext
  <2>2. CASE \E op \in {"start", "preprocess"} : call'[c] = Call(op, Teams, None, << >>)
    BY <2>2, PlainHoldsNext DEF Ops
  <2>3. CASE Publish(c)
    <3> DEFINE locked == {t \in Teams : round_state[t] = "locked"}
               read == [t \in locked |-> current_round[t]]
    <3>1. Becomes(c, Call("publish", locked, None, read)) /\ \A t \in locked : current_round[t] < MaxRound
      BY <2>3 DEF Publish
    <3>2. read \in [locked -> Rounds] /\ \A t \in locked : read[t] < MaxRound
      BY <3>1 DEF ColInv, RowsHold
    <3>3. locked \subseteq Teams
      OBVIOUS
    <3> HIDE DEF locked, read
    <3>4. call'[c] = Call("publish", locked, None, read)
      BY <3>1, NewCall DEF ColInv
    <3> QED
      BY <3>2, <3>3, <3>4 DEF CallHolds, Awaits, Call, Ops, Rounds
  <2>4. CASE StartGame(c) \/ RunPreprocessing(c)
    <3>1. \/ Becomes(c, Idle)
          \/ \E op \in {"start", "preprocess"} : Becomes(c, Call(op, Teams, None, << >>))
      BY <2>4 DEF StartGame, RunPreprocessing
    <3>2. \/ call'[c] = Idle
          \/ \E op \in {"start", "preprocess"} : call'[c] = Call(op, Teams, None, << >>)
      BY <3>1, NewCall DEF ColInv
    <3> QED
      BY <2>1, <2>2, <3>2
  <2> QED
    BY <2>3, <2>4
<1>5. overtaken' \subseteq Publishing'
  BY <1>1, <1>3, StillPublishing DEF history
<1> QED
  BY <1>1, <1>3, <1>4, <1>5, CallColumns DEF history

LEMMA NextTeamColumns ==
  ASSUME ColInv, NEW c \in Callers, NEW t \in Teams, NextTeam(c, t)
  PROVE  ColInv'
<1> DEFINE op == call[c].op
           left == call[c].todo \ {t}
           read == [round |-> RoundToAnswer(op, t), locked |-> op = "start" /\ round_state[t] = "locked"]
<1>1. /\ op \in {"start", "preprocess"}
      /\ UNCHANGED <<team_rows, responses, history>>
      /\ \/ Becomes(c, Call(op, left, None, << >>))
         \/ Becomes(c, Call(op, left, t, read))
  <2>1. CASE AlreadyAnswered(op, t)
    BY <2>1 DEF NextTeam
  <2>2. CASE ~AlreadyAnswered(op, t)
    BY <2>2 DEF NextTeam
  <2> QED
    BY <2>1, <2>2
<1>2. left \subseteq Teams
  BY DEF ColInv, CallHolds
<1>3. RoundToAnswer(op, t) \in Rounds
  BY BoundsAssumption DEF RoundToAnswer, Rounds, ColInv, RowsHold
<1>4. /\ read.round \in Rounds
      /\ op = "start" => read.round = 1
      /\ read.locked => ~New(t)'
  BY <1>1, <1>3 DEF New, team_rows, RoundToAnswer
<1>5. /\ DOMAIN call' = Callers /\ \A d \in Callers \ {c} : call'[d] = call[d]
      /\ \/ call'[c] = Call(op, left, None, << >>)
         \/ call'[c] = Call(op, left, t, read)
  BY <1>1, NewCall DEF ColInv
<1>6. overtaken' \subseteq Publishing'
  BY <1>1, <1>5, StillPublishing DEF history
<1> HIDE DEF op, left, read
<1>7. CallHolds(c)'
  <2>1. CASE call'[c] = Call(op, left, None, << >>)
    BY <1>1, <1>2, <2>1, PlainHoldsNext DEF Ops
  <2>2. CASE call'[c] = Call(op, left, t, read)
    <3>1. /\ call'[c].op = op /\ call'[c].todo = left /\ call'[c].team = t
          /\ call'[c].read = read
      BY <2>2 DEF Call
    <3> QED
      BY <1>1, <1>2, <1>4, <3>1 DEF CallHolds, Awaits, Ops, Rounds
  <2> QED
    BY <1>5, <2>1, <2>2
<1> QED
  BY <1>1, <1>5, <1>6, <1>7, CallColumns DEF history

(* A failure is rolled back, a loop ends, a publication fails.             *)
LEMMA EndColumns ==
  ASSUME ColInv, NEW c \in Callers, RollBack(c) \/ LoopEnds(c) \/ AbortPublish(c)
  PROVE  ColInv'
<1>1. UNCHANGED <<team_rows, responses, crashes>>
  BY DEF RollBack, LoopEnds, AbortPublish, history
<1>2. \/ Becomes(c, Idle)
      \/ \E op \in {"start failed", "failed"} :
           Becomes(c, Call(op, call[c].todo, call[c].team, << >>))
  BY DEF RollBack, LoopEnds, AbortPublish, Returns
<1>3. /\ DOMAIN call' = Callers /\ \A d \in Callers \ {c} : call'[d] = call[d]
      /\ \/ call'[c] = Idle
         \/ \E op \in {"start failed", "failed"} :
              call'[c] = Call(op, call[c].todo, call[c].team, << >>)
  BY <1>2, NewCall DEF ColInv
<1>4. overtaken' \subseteq Publishing'
  <2>1. \/ overtaken' = overtaken /\ call[c].op # "publish"
        \/ overtaken' = overtaken \ {c}
    BY DEF RollBack, LoopEnds, AbortPublish, history
  <2> QED
    BY <1>3, <2>1, StillPublishing
<1>5. CallHolds(c)'
  <2>1. CASE call'[c] = Idle
    BY <2>1, IdleHoldsNext
  <2>2. CASE \E op \in {"start failed", "failed"} :
               call'[c] = Call(op, call[c].todo, call[c].team, << >>)
    <3>1. call[c].todo \subseteq Teams /\ call[c].team \in Teams \cup {None}
      BY DEF ColInv, CallHolds
    <3> QED
      BY <2>2, <3>1, PlainHoldsNext DEF Ops
  <2> QED
    BY <1>3, <2>1, <2>2
<1> QED
  BY <1>1, <1>3, <1>4, <1>5, CallColumns

LEMMA MarkColumns ==
  ASSUME ColInv, NEW c \in Callers, MarkErrored(c)
  PROVE  ColInv'
<1> DEFINE op == IF call[c].op = "failed" THEN "preprocess" ELSE "start"
           new == Call(op, call[c].todo, None, << >>)
<1>1. /\ \/ round_state' = [round_state EXCEPT ![call[c].team] = "error"]
         \/ UNCHANGED round_state
      /\ Becomes(c, new) /\ op \in {"start", "preprocess"}
      /\ UNCHANGED <<current_round, current_deadline, responses, history>>
      /\ call[c].op # "publish"
  BY DEF MarkErrored
<1> HIDE DEF op
<1>2. new.op = op /\ new.todo = call[c].todo /\ new.team = None
  BY DEF Call
<1> HIDE DEF new
<1>3. RowsHold' /\ \A t \in Teams : New(t)' => New(t)
  BY <1>1 DEF ColInv, RowsHold, New
<1>4. /\ DOMAIN call' = Callers /\ \A d \in Callers \ {c} : call'[d] = call[d]
      /\ call'[c] = new
  BY <1>1, NewCall DEF ColInv
<1>5. overtaken' \subseteq Publishing'
  BY <1>1, <1>4, StillPublishing DEF history
<1>6. CallHolds(c)'
  <2>1. call[c].todo \subseteq Teams
    BY DEF ColInv, CallHolds
  <2> QED
    BY <1>1, <1>2, <1>4, <2>1 DEF CallHolds, Awaits, Ops
<1>7. crashes' \in 0 .. MaxCrashes
  BY <1>1 DEF history, ColInv
<1> QED
  BY <1>3, <1>4, <1>5, <1>6, <1>7, KeepsColumns

(* The drafting teams are locked, by a facilitator or by the worker.       *)
LEMMA LockColumns ==
  ASSUME ColInv, LockDrafting, UNCHANGED current_round, UNCHANGED responses
  PROVE  RowsHold' /\ \A t \in Teams : New(t)' => New(t)
<1>1. /\ round_state' \in [Teams -> {"drafting", "locked", "error"}]
      /\ current_deadline' \in [Teams -> {"none", "future", "past"}]
  BY DEF LockDrafting, ColInv, RowsHold
<1>2. ASSUME NEW t \in Teams
      PROVE  ~New(t)' /\ (current_deadline'[t] # "none" => current_deadline[t] # "none")
  BY DEF LockDrafting, Drafting, New
<1> QED
  BY <1>1, <1>2 DEF ColInv, RowsHold

(* Steps of the worker, the clock and a facilitator's lock.                *)
LEMMA WorkerColumns ==
  ASSUME ColInv, Poll \/ FireDeadline
  PROVE  ColInv'
<1>1. Worker \in Callers
  BY DEF Callers
<1>2. \E op \in {"fire", "locked"} : Becomes(Worker, Call(op, {}, None, << >>))
  BY DEF Poll, FireDeadline
<1>3. /\ DOMAIN call' = Callers /\ \A d \in Callers \ {Worker} : call'[d] = call[d]
      /\ \E op \in {"fire", "locked"} : call'[Worker] = Call(op, {}, None, << >>)
  BY <1>1, <1>2, NewCall DEF ColInv
<1>4. CallHolds(Worker)'
  BY <1>3, PlainHoldsNext DEF Ops
<1>5. call[Worker].op # "publish" /\ UNCHANGED history
  BY DEF Poll, FireDeadline, Idle
<1>6. overtaken' \subseteq Publishing' /\ crashes' \in 0 .. MaxCrashes
  BY <1>1, <1>3, <1>5, StillPublishing DEF history, ColInv
<1>7. RowsHold' /\ \A t \in Teams : New(t)' => New(t)
  <2>1. CASE Poll
    BY <2>1 DEF Poll, ColInv, RowsHold, New, team_rows
  <2>2. CASE FireDeadline
    BY <2>2, LockColumns DEF FireDeadline
  <2> QED
    BY <2>1, <2>2
<1> QED
  BY <1>1, <1>3, <1>4, <1>6, <1>7, KeepsColumns

(* The calls stay as they are.                                             *)
LEMMA RowsColumns ==
  ASSUME ColInv, RowsHold', \A t \in Teams : New(t)' => New(t), UNCHANGED <<call, history>>
  PROVE  ColInv'
<1>1. \A d \in Callers : CallHolds(d)'
  BY SameCall DEF ColInv
<1> QED
  BY <1>1 DEF ColInv, history, Publishing

LEMMA LockRoundColumns ==
  ASSUME ColInv, NEW c \in Callers, LockRound(c)
  PROVE  ColInv'
BY LockColumns, RowsColumns DEF LockRound

LEMMA ExpireColumns ==
  ASSUME ColInv, Expire
  PROVE  ColInv'
<1>1. /\ current_deadline' \in [Teams -> {"none", "future", "past"}]
      /\ \A t \in Teams : current_deadline'[t] = "none" <=> current_deadline[t] = "none"
  BY DEF Expire, ColInv, RowsHold
<1>2. RowsHold' /\ \A t \in Teams : New(t)' => New(t)
  BY <1>1 DEF Expire, ColInv, RowsHold, New
<1> QED
  BY <1>2, RowsColumns DEF Expire

LEMMA CrashColumns ==
  ASSUME ColInv, Crash
  PROVE  ColInv'
<1>1. RowsHold'
  BY DEF Crash, ColInv, RowsHold, New, team_rows
<1>2. \A c \in Callers : CallHolds(c)'
  BY IdleHoldsNext DEF Crash
<1>3. crashes' \in 0 .. MaxCrashes
  BY BoundsAssumption DEF Crash, ColInv
<1> QED
  BY <1>1, <1>2, <1>3 DEF Crash, ColInv

(* A response is stored; a start sets the round and locks, and a new team  *)
(* it has not read as locked does not stay new.                            *)
LEMMA StoreColumns ==
  ASSUME ColInv, NEW c \in Callers, StoreResponse(c)
  PROVE  ColInv'
<1> DEFINE team == call[c].team
           new == Call(call[c].op, call[c].todo, None, << >>)
<1>1. /\ call[c].op \in {"start", "preprocess"} /\ team # None
      /\ responses' = responses \cup {<<team, call[c].read.round>>}
      /\ current_round' = IF call[c].op = "start"
                          THEN [current_round EXCEPT ![team] = 1] ELSE current_round
      /\ round_state' = IF call[c].op = "start" /\ ~call[c].read.locked
                        THEN [round_state EXCEPT ![team] = "locked"] ELSE round_state
      /\ overtaken' = IF call[c].op = "start" THEN Publishing ELSE overtaken
      /\ Becomes(c, new)
      /\ UNCHANGED <<current_deadline, crashes>>
  BY DEF StoreResponse
<1>2. /\ team \in Teams /\ call[c].read.round \in Rounds
      /\ call[c].op = "start" /\ call[c].read.locked => ~New(team)
      /\ call[c].todo \subseteq Teams
  BY <1>1 DEF ColInv, CallHolds, Awaits
<1>3. /\ new.op = call[c].op /\ new.todo = call[c].todo /\ new.team = None
  BY DEF Call
<1> HIDE DEF team, new
<1>4. /\ DOMAIN call' = Callers /\ \A d \in Callers \ {c} : call'[d] = call[d]
      /\ call'[c] = new
  BY <1>1, NewCall DEF ColInv
<1>5. overtaken' \subseteq Publishing'
  BY <1>1, <1>4, StillPublishing
<1>6. CallHolds(c)'
  BY <1>1, <1>2, <1>3, <1>4 DEF CallHolds, Awaits, Ops
<1>7. \A t \in Teams : New(t)' => New(t)
  BY <1>1, <1>2 DEF New, ColInv, RowsHold
<1>8. RowsHold'
  <2>1. 1 \in Rounds
    BY BoundsAssumption DEF Rounds
  <2>2. current_round' \in [Teams -> Rounds] /\ responses' \subseteq Teams \X Rounds
    BY <1>1, <1>2, <2>1 DEF ColInv, RowsHold
  <2>3. round_state' \in [Teams -> {"drafting", "locked", "error"}]
    BY <1>1, <1>2 DEF ColInv, RowsHold
  <2>4. ASSUME NEW t \in Teams
        PROVE  (New(t)' => current_round'[t] = 0)
               /\ (current_deadline'[t] # "none" => current_round'[t] > 0)
    <3>1. CASE call[c].op = "start" /\ t = team
      <4>1. current_round'[t] = 1
        BY <1>1, <3>1 DEF ColInv, RowsHold
      <4>2. ~New(t)'
        BY <1>1, <1>2, <3>1 DEF New, ColInv, RowsHold
      <4> QED
        BY <4>1, <4>2
    <3>2. CASE ~(call[c].op = "start" /\ t = team)
      <4>1. current_round'[t] = current_round[t]
        BY <1>1, <3>2 DEF ColInv, RowsHold
      <4> QED
        BY <1>1, <1>7, <4>1 DEF ColInv, RowsHold
    <3> QED
      BY <3>1, <3>2
  <2> QED
    BY <1>1, <2>2, <2>3, <2>4 DEF ColInv, RowsHold
<1> QED
  BY <1>1, <1>4, <1>5, <1>6, <1>7, <1>8, KeepsColumns DEF ColInv

(* A publication commits: what it advances drafts under a new deadline.    *)
LEMMA CommitColumns ==
  ASSUME ColInv, NEW c \in Callers, CommitPublish(c)
  PROVE  ColInv'
<1> DEFINE todo == call[c].todo
           read == call[c].read
<1>1. /\ call[c].op = "publish"
      /\ current_round' = [t \in Teams |-> IF t \in todo THEN read[t] + 1 ELSE current_round[t]]
      /\ round_state' = [t \in Teams |-> IF t \in todo THEN "drafting" ELSE round_state[t]]
      /\ current_deadline' = [t \in Teams |-> IF t \in todo THEN "future" ELSE current_deadline[t]]
      /\ Becomes(c, Idle) /\ overtaken' = Publishing \ {c}
      /\ UNCHANGED <<responses, crashes>>
  BY DEF CommitPublish, Advanced, NewDeadline, Returns
<1>2. read \in [todo -> Rounds] /\ \A t \in todo : read[t] < MaxRound
  BY <1>1 DEF ColInv, CallHolds
<1> HIDE DEF todo, read
<1>3. \A t \in todo : read[t] + 1 \in Rounds /\ read[t] + 1 > 0
  BY <1>2, BoundsAssumption DEF Rounds
<1>4. /\ current_round' \in [Teams -> Rounds]
      /\ round_state' \in [Teams -> {"drafting", "locked", "error"}]
      /\ current_deadline' \in [Teams -> {"none", "future", "past"}]
  BY <1>1, <1>3 DEF ColInv, RowsHold
<1>5. ASSUME NEW t \in Teams
      PROVE  /\ New(t)' => New(t) /\ current_round'[t] = current_round[t]
             /\ current_deadline'[t] # "none" => current_round'[t] > 0
  BY <1>1, <1>3 DEF New, ColInv, RowsHold
<1>6. RowsHold'
  BY <1>1, <1>4, <1>5 DEF ColInv, RowsHold
<1>7. /\ DOMAIN call' = Callers /\ \A d \in Callers \ {c} : call'[d] = call[d]
      /\ CallHolds(c)'
  BY <1>1, NewCall, IdleHoldsNext DEF ColInv
<1>8. overtaken' \subseteq Publishing'
  BY <1>1, <1>7, StillPublishing
<1> QED
  BY <1>1, <1>5, <1>6, <1>7, <1>8, KeepsColumns DEF ColInv

LEMMA StepColumns == ColInv /\ [Next]_vars => ColInv'
<1> SUFFICES ASSUME ColInv, [Next]_vars PROVE ColInv'
  OBVIOUS
<1>1. CASE UNCHANGED vars
  <2>1. RowsHold' /\ \A t \in Teams : New(t)' => New(t)
    BY <1>1 DEF vars, team_rows, ColInv, RowsHold, New
  <2> QED
    BY <1>1, <2>1, RowsColumns DEF vars
<1>2. CASE Poll \/ FireDeadline \/ Expire \/ Crash
  BY <1>2, WorkerColumns, ExpireColumns, CrashColumns
<1>3. ASSUME NEW c \in Callers,
             \/ StartGame(c) \/ RunPreprocessing(c) \/ LockRound(c)
             \/ StoreResponse(c) \/ RollBack(c) \/ MarkErrored(c) \/ LoopEnds(c)
             \/ Publish(c) \/ CommitPublish(c) \/ AbortPublish(c)
             \/ \E t \in Teams : NextTeam(c, t)
      PROVE  ColInv'
  BY <1>3, BeginColumns, NextTeamColumns, LockRoundColumns, StoreColumns, EndColumns,
     MarkColumns, CommitColumns
<1> QED
  BY <1>1, <1>2, <1>3 DEF Next

(* The columns agree with one another, however the calls of any number of  *)
(* facilitators and the worker overlap: a team drafts under a deadline     *)
(* from the moment its round is published, and before the first            *)
(* publication it has none.                                                *)
THEOREM TypeCorrect == Spec => []TypeOK
<1>1. ColInv => TypeOK
  <2> SUFFICES ASSUME ColInv PROVE TypeOK
    OBVIOUS
  <2>1. \A t \in Teams :
          round_state[t] = "drafting" => (current_deadline[t] = "none" <=> current_round[t] = 0)
    BY DEF ColInv, RowsHold, New, Rounds
  <2>2. \A c \in Callers :
          /\ call[c].op \in {"idle", "start", "preprocess", "start failed",
                             "failed", "fire", "locked", "publish"}
          /\ call[c].todo \subseteq Teams /\ call[c].team \in Teams \cup {None}
    BY DEF ColInv, CallHolds, Ops
  <2> QED
    BY <2>1, <2>2 DEF ColInv, RowsHold, TypeOK
<1> QED
  BY <1>1, InitColumns, StepColumns, PTL DEF Spec

-----------------------------------------------------------------------------
(***************************************************************************)
(* Keeping step                                                            *)
(***************************************************************************)

(* A publication that nothing overtook finds the rounds it read, and every *)
(* team it does not advance in error still.                                *)
FreshCall(c) ==
  \A t \in Teams : \/ round_state[t] = "error"
                   \/ t \in call[c].todo /\ call[c].read[t] = current_round[t]

Fresh == \A c \in Callers : call[c].op = "publish" /\ c \notin overtaken => FreshCall(c)

LEMMA InitFresh == Init => Fresh
BY DEF Init, Fresh, Idle

(* Rounds change, and errors end, only when a publication or a start       *)
(* commits.                                                                *)
LEMMA QuietRows ==
  ASSUME ColInv, [Next]_vars,
         ~\E c \in Callers : CommitPublish(c) \/ (StoreResponse(c) /\ call[c].op = "start")
  PROVE  /\ UNCHANGED current_round
         /\ \A t \in Teams : round_state[t] = "error" => round_state'[t] = "error"
<1>1. CASE \E c \in Callers : MarkErrored(c)
  BY <1>1 DEF MarkErrored, ColInv, RowsHold
<1>2. CASE LockDrafting /\ UNCHANGED current_round
  BY <1>2 DEF LockDrafting, Drafting
<1>3. CASE \E c \in Callers : StoreResponse(c)
  BY <1>3 DEF StoreResponse
<1>4. \/ \E c \in Callers : MarkErrored(c) \/ StoreResponse(c)
      \/ LockDrafting /\ UNCHANGED current_round
      \/ UNCHANGED <<current_round, round_state>>
  BY DEF Next, vars, team_rows, StartGame, RunPreprocessing, NextTeam, RollBack, LoopEnds,
     Poll, FireDeadline, Expire, Crash, LockRound, Publish, AbortPublish
<1> QED
  BY <1>1, <1>2, <1>3, <1>4

(* A publication in progress that does not begin now is the call it was.   *)
LEMMA UnchangedPublication ==
  ASSUME ColInv, [Next]_vars, NEW c \in Callers, call'[c].op = "publish", ~Publish(c)
  PROVE  call'[c] = call[c]
<1>1. CASE \E d \in Callers : OtherStep(d)
  <2>1. PICK d \in Callers : \E new : Becomes(d, new) /\ new.op # "publish"
    BY <1>1, OtherOperation
  <2> QED
    BY <2>1, NewCall DEF ColInv
<1>2. CASE Poll \/ FireDeadline
  <2>1. Worker \in Callers /\ \E new : Becomes(Worker, new) /\ new.op # "publish"
    BY <1>2 DEF Poll, FireDeadline, Call, Callers
  <2> QED
    BY <2>1, NewCall DEF ColInv
<1>3. CASE Crash
  BY <1>3 DEF Crash, Idle
<1>4. CASE UNCHANGED call
  BY <1>4
<1>5. CASE \E d \in Callers : Publish(d)
  <2>1. PICK d \in Callers : Publish(d)
    BY <1>5
  <2>2. d # c /\ \E new : Becomes(d, new)
    BY <2>1 DEF Publish
  <2> QED
    BY <2>1, <2>2, NewCall DEF ColInv
<1> QED
  BY <1>1, <1>2, <1>3, <1>4, <1>5 DEF Next, vars, OtherStep, Expire, LockRound

(* Nothing but its own end, a crash, a publication or a start changes      *)
(* whether a publication was overtaken.                                    *)
LEMMA StillOvertaken ==
  ASSUME ColInv, [Next]_vars, NEW c \in Callers,
         call'[c] = call[c], call[c].op = "publish", c \notin overtaken',
         ~\E d \in Callers : CommitPublish(d) \/ (StoreResponse(d) /\ call[d].op = "start")
  PROVE  c \notin overtaken
<1>1. CASE UNCHANGED overtaken
  BY <1>1
<1>2. CASE \E d \in Callers : AbortPublish(d)
  <2>1. PICK d \in Callers : AbortPublish(d)
    BY <1>2
  <2>2. d # c
    BY <2>1, NewCall DEF AbortPublish, Returns, Idle, ColInv
  <2> QED
    BY <2>1, <2>2 DEF AbortPublish
<1>3. CASE Crash
  BY <1>3 DEF Crash, Idle
<1>4. CASE \E d \in Callers : StoreResponse(d)
  BY <1>1, <1>4 DEF StoreResponse
<1> QED
  BY <1>1, <1>2, <1>3, <1>4 DEF Next, vars, history, StartGame, RunPreprocessing, NextTeam,
     RollBack, MarkErrored, LoopEnds, Poll, FireDeadline, Expire, LockRound, Publish

LEMMA StepFresh == ColInv /\ Fresh /\ [Next]_vars => Fresh'
<1> SUFFICES ASSUME ColInv, Fresh, [Next]_vars,
                    NEW c \in Callers, call'[c].op = "publish", c \notin overtaken'
             PROVE  FreshCall(c)'
  BY DEF Fresh, Callers
<1>1. CASE Publish(c)
  <2> DEFINE locked == {t \in Teams : round_state[t] = "locked"}
             read == [t \in locked |-> current_round[t]]
  <2>1. /\ Becomes(c, Call("publish", locked, None, read)) /\ Publishable(locked)
        /\ UNCHANGED team_rows
    BY <1>1 DEF Publish
  <2>2. \A t \in Teams : \/ round_state[t] = "error"
                         \/ t \in locked /\ read[t] = current_round[t]
    BY <2>1 DEF Publishable, InState
  <2> HIDE DEF locked, read
  <2>3. call'[c].todo = locked /\ call'[c].read = read
    BY <2>1, NewCall DEF ColInv, Call
  <2> QED
    BY <2>1, <2>2, <2>3 DEF FreshCall, team_rows
<1>2. CASE ~Publish(c)
  <2>1. call'[c] = call[c]
    BY <1>2, UnchangedPublication
  <2>2. CASE \E d \in Callers : CommitPublish(d)
    <3>1. PICK d \in Callers : CommitPublish(d)
      BY <2>2
    <3>2. c # d
      BY <3>1, NewCall DEF CommitPublish, Returns, Idle, ColInv
    <3> QED
      BY <2>1, <3>1, <3>2 DEF CommitPublish, Publishing
  <2>3. CASE \E d \in Callers : StoreResponse(d) /\ call[d].op = "start"
    BY <2>1, <2>3 DEF StoreResponse, Publishing
  <2>4. CASE ~\E d \in Callers : CommitPublish(d) \/ (StoreResponse(d) /\ call[d].op = "start")
    <3>1. /\ UNCHANGED current_round
          /\ \A t \in Teams : round_state[t] = "error" => round_state'[t] = "error"
      BY <2>4, QuietRows
    <3>2. c \notin overtaken
      BY <2>1, <2>4, StillOvertaken
    <3>3. FreshCall(c)
      BY <2>1, <3>2 DEF Fresh
    <3> QED
      BY <2>1, <3>1, <3>3 DEF FreshCall
  <2> QED
    BY <2>2, <2>3, <2>4
<1> QED
  BY <1>1, <1>2

(* A publication moves all teams that are in the same round and did not    *)
(* fail, or none, whatever other facilitators and the worker lock, retry,  *)
(* store, mark or fail between its gate and its commit, unless another     *)
(* publication or a start overtook it; and nothing else moves a team that  *)
(* was started.                                                            *)
THEOREM PublishedTogether == Spec => TeamsStayInStep
<1> DEFINE InStep ==
      overtaken = {} =>
        \A t, u \in Teams :
          /\ current_round[t] > 0 /\ current_round[t] = current_round[u]
          /\ round_state[t] # "error" /\ round_state[u] # "error"
          => current_round'[t] = current_round'[u]
<1>1. ASSUME IInv, ColInv, Fresh, [Next]_vars PROVE InStep
  <2>1. CASE current_round' = current_round
    BY <2>1
  <2>2. CASE \E c \in Callers : StoreResponse(c) /\ call[c].op = "start"
    <3>1. PICK c \in Callers : StoreResponse(c) /\ call[c].op = "start"
      BY <2>2
    <3> DEFINE team == call[c].team
    <3>2. call[c].read.round = 1
      BY <1>1, <3>1 DEF StoreResponse, ColInv, CallHolds, Awaits
    <3>3. current_round' = [current_round EXCEPT ![team] = 1] /\ <<team, 1>> \notin responses
      BY <3>1, <3>2 DEF StoreResponse
    <3> HIDE DEF team
    <3>4. ASSUME NEW t \in Teams, current_round[t] > 0
          PROVE  current_round'[t] = current_round[t]
      <4>1. CASE t = team
        <5>1. ~(1 \in 1 .. (current_round[t] - 1))
          BY <1>1, <3>3, <4>1 DEF IInv, AnsweredUpTo
        <5>2. current_round[t] = 1
          BY <1>1, <3>4, <5>1 DEF IInv
        <5> QED
          BY <1>1, <3>3, <4>1, <5>2 DEF IInv
      <4>2. CASE t # team
        BY <1>1, <3>3, <4>2 DEF IInv
      <4> QED
        BY <4>1, <4>2
    <3> QED
      BY <3>4
  <2>3. CASE \E c \in Callers : CommitPublish(c)
    <3>1. PICK c \in Callers : CommitPublish(c)
      BY <2>3
    <3>2. call[c].op = "publish"
      BY <3>1 DEF CommitPublish
    <3>3. ASSUME overtaken = {}, NEW t \in Teams, round_state[t] # "error"
          PROVE  current_round'[t] = current_round[t] + 1
      <4>1. t \in call[c].todo /\ call[c].read[t] = current_round[t]
        BY <1>1, <3>1, <3>2, <3>3 DEF Fresh, FreshCall
      <4> QED
        BY <3>1, <4>1 DEF CommitPublish, Advanced
    <3> QED
      BY <3>3
  <2> QED
    BY <1>1, <2>1, <2>2, <2>3, QuietRows
<1>2. IInv /\ ColInv /\ Fresh /\ [Next]_vars => [InStep]_vars
  BY <1>1
<1> QED
  BY <1>2, InitIInv, StepIInv, InitColumns, StepColumns, InitFresh, StepFresh, PTL
     DEF Spec, TeamsStayInStep
=============================================================================
