-------------------------- MODULE IdleTrackerProofs --------------------------
(***************************************************************************)
(* The eviction of idle tabs is on time, and preceded by its warning, for  *)
(* every timeout and every length of the warning.  The inductive invariant *)
(* relates the clock to the timers of a tab that has been in view: until   *)
(* its poll has fired once the tab has not been attended for long, and     *)
(* from then on the poll and the countdown bound the time since the last   *)
(* interaction.                                                            *)
(***************************************************************************)
EXTENDS IdleTracker, TLAPS

(* Timers and flags only a tab in view keeps.                              *)
OutOfView == hidden => attended = 0

Flags == /\ running \in BOOLEAN /\ hidden \in BOOLEAN /\ leaving \in BOOLEAN
         /\ modalEl \in BOOLEAN /\ warningModalShown = modalEl
Timers == /\ elapsed \in 0 .. Latest /\ attended \in 0 .. Latest /\ poll \in 0 .. PollInterval
          /\ countdown \in {0, 1, None} /\ warned \in 0 .. Warning
Together == countdown # None <=> modalEl

Watched == running /\ ~leaving /\ ~hidden

(* Without a modal: the poll has not fired since the tab came into view,   *)
(* or when it did it was too early to warn.                                *)
PollBounds ==
  Watched /\ ~modalEl =>
    \/ attended + poll <= PollInterval
    \/ elapsed + poll <= Timeout - Warning + PollInterval

(* With one: the countdown has not fired since, or it found time left.     *)
CountdownBounds ==
  Watched /\ modalEl =>
    \/ attended + countdown <= 1
    \/ elapsed + countdown <= Timeout

(* The modal has been up since the first poll in view, or for all but one  *)
(* poll interval of the warning time that has passed.                      *)
WarningBounds ==
  Watched /\ modalEl =>
    \/ warned = Warning
    \/ attended <= warned + PollInterval
    \/ elapsed <= warned + Timeout - Warning + PollInterval

IInv == TypeOK /\ OutOfView /\ PollBounds /\ CountdownBounds /\ WarningBounds

-----------------------------------------------------------------------------
(* The times                                                               *)

LEMMA MinOfTwo ==
  ASSUME NEW a \in Int, NEW b \in Int
  PROVE  Min({a, b}) = IF a <= b THEN a ELSE b
<1>1. \E x \in {a, b} : \A y \in {a, b} : x =< y
  OBVIOUS
<1>2. Min({a, b}) \in {a, b} /\ \A y \in {a, b} : Min({a, b}) =< y
  BY <1>1 DEF Min
<1> QED
  BY <1>2

(* A poll comes twice in the warning time at least. *)
LEMMA Times ==
  /\ Timeout \in Nat /\ Warning \in Nat /\ 2 <= Warning /\ Warning <= Timeout
  /\ Latest \in Nat /\ Timeout <= Latest
  /\ PollInterval \in Nat /\ 1 <= PollInterval /\ PollInterval + PollInterval <= Warning
<1>1. /\ Timeout \in Nat /\ Warning \in Nat /\ 2 <= Warning /\ Warning <= Timeout
      /\ Latest \in Nat /\ Timeout <= Latest /\ LongestPoll \in Nat /\ 1 <= LongestPoll
  BY TimesAssumption DEF Latest
<1>2. /\ Warning \div 2 \in Nat /\ 1 <= Warning \div 2
      /\ (Warning \div 2) + (Warning \div 2) <= Warning
  BY <1>1
<1>3. PollInterval = IF LongestPoll <= Warning \div 2 THEN LongestPoll ELSE Warning \div 2
  BY <1>1, <1>2, MinOfTwo DEF PollInterval
<1> QED
  BY <1>1, <1>2, <1>3

LEMMA NoneIsNoTime == None \notin Int
BY TimesAssumption

(* What a second does to a clock that stops at its bound. *)
LEMMA Clock ==
  ASSUME NEW t \in Nat, NEW bound \in Nat, t <= bound
  PROVE  /\ Min({t + 1, bound}) \in 0 .. bound /\ Min({t + 1, bound}) <= t + 1
         /\ (Min({t + 1, bound}) = t + 1 \/ Min({t + 1, bound}) = bound)
<1> DEFINE m == Min({t + 1, bound})
<1>1. m = IF t + 1 <= bound THEN t + 1 ELSE bound
  BY MinOfTwo
<1> HIDE DEF m
<1>2. m \in 0 .. bound /\ m <= t + 1 /\ (m = t + 1 \/ m = bound)
  BY <1>1
<1> QED
  BY <1>2 DEF m

-----------------------------------------------------------------------------
(* Types                                                                   *)

LEMMA TypeParts ==
  TypeOK <=> Flags /\ Timers /\ Together
BY DEF TypeOK, Flags, Timers, Together

LEMMA TypeInit == Init => TypeOK
<1> SUFFICES ASSUME Init PROVE Flags /\ Timers /\ Together
  BY TypeParts
<1>1. Flags
  BY DEF Init, Flags
<1>2. Timers
  BY Times DEF Init, Timers
<1>3. Together
  BY NoneIsNoTime DEF Init, Together
<1> QED
  BY <1>1, <1>2, <1>3

(* The modal, its flag and its countdown only change together. *)
LEMMA Modal ==
  ASSUME TypeOK
  PROVE  /\ modalEl \in BOOLEAN /\ (modalEl => countdown \in {0, 1}) /\ (~modalEl => countdown = None)
         /\ ShowWarningModal /\ ~modalEl => modalEl' /\ countdown' = 1 /\ warned' = 0
         /\ HideWarningModal => ~modalEl' /\ countdown' = None /\ warned' = 0
BY NoneIsNoTime DEF TypeOK, ShowWarningModal, HideWarningModal

LEMMA TypeNext ==
  ASSUME TypeOK, [Next]_vars
  PROVE  TypeOK'
<1> USE Times, NoneIsNoTime DEF modal
<1>0. Flags /\ Timers /\ Together
  BY TypeParts
<1>1. Flags'
  BY <1>0 DEF Flags, Next, vars, Second, Sleep, Unload, OnInteraction, CountdownTick, PollTick,
     Cleanup, OnVisible, OnHidden, NavigateToPaused, ShowWarningModal, HideWarningModal
<1>2. Together'
  <2>1. CASE Second
    <3>1. countdown' # None <=> countdown # None
      BY <2>1, <1>0 DEF Second, Less, Timers
    <3>2. modalEl' = modalEl
      BY <2>1 DEF Second
    <3> QED
      BY <3>1, <3>2, <1>0 DEF Together
  <2>2. ASSUME UNCHANGED <<countdown, modalEl>> PROVE Together'
    BY <2>2, <1>0 DEF Together
  <2>3. ASSUME ShowWarningModal PROVE Together'
    BY <2>3, <1>0 DEF Together, ShowWarningModal
  <2>4. ASSUME HideWarningModal PROVE Together'
    BY <2>4 DEF Together, HideWarningModal
  <2>5. CASE CountdownTick
    <3>1. countdown = 0 /\ countdown' = 1 /\ modalEl' = modalEl
      BY <2>5 DEF CountdownTick
    <3> QED
      BY <3>1, <1>0 DEF Together
  <2>6. CASE OnInteraction \/ PollTick \/ OnVisible
    BY <2>2, <2>3, <2>4, <2>6 DEF OnInteraction, PollTick, OnVisible
  <2>7. CASE Sleep \/ Unload \/ Cleanup \/ OnHidden \/ UNCHANGED vars
    BY <2>2, <2>4, <2>7 DEF vars, Sleep, Unload, Cleanup, OnHidden
  <2> QED
    BY <2>1, <2>5, <2>6, <2>7 DEF Next
<1>3. Timers'
  <2>1. CASE Second
    <3>1. /\ elapsed' \in 0 .. Latest /\ attended' \in 0 .. Latest /\ warned' \in 0 .. Warning
      BY <2>1, <1>0, Clock DEF Second, Timers
    <3>2. poll' \in 0 .. PollInterval /\ countdown' \in {0, 1, None}
      BY <2>1, <1>0 DEF Second, Less, Timers
    <3> QED
      BY <3>1, <3>2 DEF Timers
  <2>2. CASE ~Second
    BY <2>2, <1>0 DEF Timers, Next, vars, Sleep, Unload, OnInteraction, CountdownTick, PollTick,
     Cleanup, OnVisible, OnHidden, ShowWarningModal, HideWarningModal
  <2> QED
    BY <2>1, <2>2
<1> QED
  BY <1>1, <1>2, <1>3 DEF TypeOK, Flags, Timers, Together

(* The flag, the element and the timers of the modal go together whatever  *)
(* the order in which the callbacks of idle-tracker.js run.                *)
THEOREM TypeCorrect == Spec => []TypeOK
BY TypeInit, TypeNext, PTL DEF Spec

-----------------------------------------------------------------------------
(* The invariant is inductive                                              *)

LEMMA IInvInit == Init => IInv
BY TypeInit, Times DEF Init, IInv, OutOfView, PollBounds, CountdownBounds, WarningBounds

LEMMA SecondStep ==
  ASSUME IInv, Second, TypeOK'
  PROVE  IInv'
<1> USE Times, NoneIsNoTime
<1> DEFINE e == elapsed'  a == attended'  w == warned'  p == poll'  c == countdown'
<1>1. /\ elapsed \in Nat /\ attended \in Nat /\ poll \in Nat
      /\ warned \in Nat /\ warned <= Warning
      /\ e \in Nat /\ a \in Nat /\ w \in Nat /\ p \in Nat
  BY DEF IInv, TypeOK
<1>2. e <= elapsed + 1
  BY <1>1, Clock DEF Second, IInv, TypeOK
<1>3. /\ hidden' = hidden /\ modalEl' = modalEl
      /\ hidden => a = 0
      /\ ~hidden => a <= attended + 1
  BY <1>1, Clock DEF Second, IInv, TypeOK
<1>4. modalEl => w = warned + 1 \/ w = Warning
  BY <1>1, Clock DEF Second, IInv, TypeOK
<1>5. Watched' => Watched /\ p = poll - 1 /\ a <= attended + 1
  BY <1>3 DEF Second, Watched, Less, IInv, TypeOK
<1>6. Watched' /\ modalEl => countdown = 1 /\ c = 0
  BY Modal DEF Second, Watched, Less, IInv
<1>7. OutOfView'
  BY <1>3 DEF OutOfView
<1>8. ASSUME Watched', ~modalEl
      PROVE  a + p <= PollInterval \/ e + p <= Timeout - Warning + PollInterval
  <2>1. \/ attended + poll <= PollInterval
        \/ elapsed + poll <= Timeout - Warning + PollInterval
    BY <1>5, <1>8 DEF IInv, PollBounds
  <2>2. p = poll - 1 /\ a <= attended + 1
    BY <1>5, <1>8
  <2> HIDE DEF e, a, p
  <2> QED
    BY <2>1, <2>2, <1>1, <1>2
<1>9. ASSUME Watched', modalEl
      PROVE  a + c <= 1 \/ e + c <= Timeout
  <2>1. attended + countdown <= 1 \/ elapsed + countdown <= Timeout
    BY <1>5, <1>9 DEF IInv, CountdownBounds
  <2>2. countdown = 1 /\ c = 0 /\ a <= attended + 1
    BY <1>5, <1>6, <1>9
  <2> HIDE DEF e, a, c
  <2> QED
    BY <2>1, <2>2, <1>1, <1>2
<1>10. ASSUME Watched', modalEl
       PROVE  \/ w = Warning \/ a <= w + PollInterval
              \/ e <= w + Timeout - Warning + PollInterval
  <2>1. \/ warned = Warning
        \/ attended <= warned + PollInterval
        \/ elapsed <= warned + Timeout - Warning + PollInterval
    BY <1>5, <1>10 DEF IInv, WarningBounds
  <2>2. (w = Warning \/ w = warned + 1) /\ a <= attended + 1 /\ w <= Warning
    BY <1>1, <1>4, <1>5, <1>10 DEF TypeOK
  <2> HIDE DEF e, a, w
  <2> QED
    BY <2>1, <2>2, <1>1, <1>2
<1>11. PollBounds' /\ CountdownBounds' /\ WarningBounds'
  BY <1>3, <1>8, <1>9, <1>10 DEF PollBounds, CountdownBounds, WarningBounds
<1> QED
  BY <1>7, <1>11 DEF IInv

LEMMA PollStep ==
  ASSUME IInv, PollTick, TypeOK'
  PROVE  IInv'
<1> USE Times, NoneIsNoTime
<1>1. /\ elapsed \in Nat /\ attended \in Nat /\ warned \in Nat /\ poll = 0
      /\ poll' = PollInterval /\ UNCHANGED <<running, elapsed, hidden, attended>>
  BY DEF IInv, TypeOK, PollTick
<1>2. Watched' => Watched /\ elapsed < Timeout
  BY <1>1 DEF PollTick, NavigateToPaused, Watched
<1>3. Watched' /\ ~modalEl' => elapsed < Timeout - Warning
  BY <1>1, <1>2, Modal DEF PollTick, Watched, IInv, TypeOK
<1>4. Watched' /\ modalEl' =>
        \/ modalEl /\ UNCHANGED <<countdown, warned>>
        \/ ~modalEl /\ countdown' = 1 /\ warned' = 0
  BY <1>2, Modal DEF PollTick, ShowWarningModal, modal, IInv, TypeOK
<1>5. PollBounds'
  BY <1>1, <1>3 DEF PollBounds
<1>6. CountdownBounds'
  BY <1>1, <1>2, <1>4, Modal DEF IInv, CountdownBounds
<1>7. WarningBounds'
  BY <1>1, <1>2, <1>4 DEF IInv, PollBounds, WarningBounds
<1> QED
  BY <1>1, <1>5, <1>6, <1>7 DEF IInv, OutOfView

LEMMA IInvNext ==
  ASSUME IInv, [Next]_vars
  PROVE  IInv'
<1> USE Times, NoneIsNoTime DEF modal
<1>1. TypeOK'
  BY TypeNext DEF IInv
<1>2. /\ elapsed \in Nat /\ attended \in Nat /\ warned \in Nat /\ poll \in 0 .. PollInterval
      /\ (modalEl => countdown \in {0, 1})
  BY Modal DEF IInv, TypeOK
<1>3. CASE Second
  BY <1>1, <1>3, SecondStep
<1>4. CASE Sleep
  <2>1. UNCHANGED <<modal, running, poll, hidden, leaving>> /\ attended' = 0
    BY <1>4 DEF Sleep
  <2> QED
    BY <1>1, <1>2, <2>1
    DEF IInv, OutOfView, PollBounds, CountdownBounds, WarningBounds, Watched
<1>5. CASE Unload \/ Cleanup
  BY <1>1, <1>5
  DEF Unload, Cleanup, IInv, OutOfView, PollBounds, CountdownBounds, WarningBounds, Watched
<1>6. CASE OnInteraction
  <2>1. /\ ~modalEl' /\ elapsed' = 0 /\ UNCHANGED <<running, poll, hidden, leaving, attended>>
    BY <1>6, Modal DEF OnInteraction, IInv, TypeOK
  <2> QED
    BY <1>1, <1>2, <2>1
    DEF IInv, OutOfView, PollBounds, CountdownBounds, WarningBounds, Watched
<1>7. CASE CountdownTick
  <2>1. /\ UNCHANGED <<running, elapsed, modalEl, poll, hidden, warned, attended>>
        /\ countdown' = 1 /\ modalEl
    BY <1>7, Modal DEF CountdownTick, IInv
  <2>2. Watched' => Watched /\ elapsed < Timeout
    BY <1>2, <1>7, <2>1 DEF CountdownTick, NavigateToPaused, Watched
  <2> QED
    BY <1>1, <1>2, <2>1, <2>2
    DEF IInv, OutOfView, PollBounds, CountdownBounds, WarningBounds
<1>8. CASE PollTick
  BY <1>1, <1>8, PollStep
<1>9. CASE OnVisible
  <2>1. attended' = 0 /\ poll' = poll /\ hidden' = FALSE
    BY <1>9 DEF OnVisible
  <2>2. warned' \in Nat /\ (modalEl' => countdown' \in {0, 1})
    BY <1>1 DEF TypeOK
  <2>3. OutOfView' /\ PollBounds'
    BY <1>2, <2>1 DEF OutOfView, PollBounds
  <2>4. CountdownBounds'
    <3> DEFINE c == countdown'
    <3>1. modalEl' => 0 + c <= 1
      <4>1. modalEl' => c \in {0, 1}
        BY <2>2
      <4> HIDE DEF c
      <4> QED
        BY <4>1
    <3> QED
      BY <2>1, <3>1 DEF CountdownBounds
  <2>5. WarningBounds'
    <3> DEFINE w == warned'
    <3>1. 0 <= w + PollInterval
      <4>1. w \in Nat
        BY <2>2
      <4> HIDE DEF w
      <4> QED
        BY <4>1
    <3> QED
      BY <2>1, <3>1 DEF WarningBounds
  <2> QED
    BY <1>1, <2>3, <2>4, <2>5 DEF IInv
<1>10. CASE OnHidden
  BY <1>1, <1>10
  DEF OnHidden, IInv, OutOfView, PollBounds, CountdownBounds, WarningBounds, Watched
<1>11. CASE UNCHANGED vars
  BY <1>1, <1>11
  DEF vars, IInv, OutOfView, PollBounds, CountdownBounds, WarningBounds, Watched
<1> QED
  BY <1>3, <1>4, <1>5, <1>6, <1>7, <1>8, <1>9, <1>10, <1>11 DEF Next

LEMMA AlwaysIInv == Spec => []IInv
BY IInvInit, IInvNext, PTL DEF Spec

-----------------------------------------------------------------------------
(* A tab that is in view past its timeout does not stay: the poll or the   *)
(* countdown of idle-tracker.js has sent it away (navigateToPaused).       *)
THEOREM PausesOnTime == Spec => []PausedOnTime
<1>1. ASSUME IInv PROVE PausedOnTime
  <2> SUFFICES ASSUME running, ~leaving, attended > Warning PROVE elapsed <= Timeout + 1
    BY DEF PausedOnTime
  <2>1. /\ elapsed \in Nat /\ attended \in Nat /\ poll \in Nat /\ PollInterval \in Nat
        /\ (modalEl => countdown \in Nat)
    BY <1>1, Modal, Times DEF IInv, TypeOK
  <2>2. Watched
    BY <1>1, <2>1, Times DEF IInv, OutOfView, Watched, TypeOK
  <2> QED
    BY <1>1, <2>1, <2>2, Times DEF IInv, PollBounds, CountdownBounds
<1> QED
  BY <1>1, AlwaysIInv, PTL

(* No tab in view is paused by surprise: whichever timer of                *)
(* idle-tracker.js calls navigateToPaused, the modal has been up for all   *)
(* but one poll interval of the warning time.                              *)
THEOREM WarnsBeforePause == Spec => WarnedBeforePause
<1>1. ASSUME IInv, [Next]_vars, leaving' /\ ~leaving /\ attended >= Warning
      PROVE  modalEl /\ warned >= Warning - PollInterval
  <2>1. /\ elapsed \in Nat /\ attended \in Nat /\ warned \in Nat /\ poll \in Nat
        /\ PollInterval \in Nat /\ modalEl \in BOOLEAN
    BY <1>1, Times DEF IInv, TypeOK
  <2>2. ~hidden
    BY <1>1, <2>1, Times DEF IInv, OutOfView
  <2>3. /\ ~Second /\ ~Sleep /\ ~Unload /\ ~OnInteraction /\ ~Cleanup /\ ~OnVisible /\ ~OnHidden
        /\ ~UNCHANGED vars
    BY <1>1, <2>2 DEF vars, Second, Sleep, Unload, OnInteraction, Cleanup, OnVisible, OnHidden
  <2>4. running /\ (CountdownTick \/ PollTick)
    BY <1>1, <2>3 DEF Next
  <2>5. elapsed >= Timeout
    <3>1. CASE CountdownTick
      <4>1. Timeout - elapsed <= 0
        BY <1>1, <3>1 DEF CountdownTick
      <4> QED
        BY <4>1, <2>1, Times
    <3>2. CASE PollTick
      BY <1>1, <3>2 DEF PollTick
    <3> QED
      BY <2>4, <3>1, <3>2
  <2>6. Watched
    BY <1>1, <2>2, <2>4 DEF Watched
  <2>7. modalEl
    BY <1>1, <2>1, <2>5, <2>6, Times DEF IInv, PollBounds
  <2> QED
    BY <1>1, <2>1, <2>5, <2>6, <2>7, Times DEF IInv, WarningBounds
<1>2. IInv /\ [Next]_vars =>
        [leaving' /\ ~leaving /\ attended >= Warning =>
           modalEl /\ warned >= Warning - PollInterval]_vars
  BY <1>1
<1> QED
  BY <1>2, AlwaysIInv, PTL DEF Spec, WarnedBeforePause
=============================================================================
