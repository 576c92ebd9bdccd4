----------------------------- MODULE IdleTracker -----------------------------
(***************************************************************************)
(* The client-side eviction of idle tabs (static/idle-tracker.js): a poll  *)
(* and a countdown compare the wall clock with the last interaction, warn  *)
(* in a modal and navigate to /paused.                                     *)
(*                                                                         *)
(* Time passes in seconds.  The timers of a tab in view fire when they are *)
(* due; those of a hidden tab, and all of them while the computer sleeps,  *)
(* fire late, and then compare with a clock that has gone on.              *)
(***************************************************************************)
EXTENDS Integers, FiniteSetsExt

CONSTANTS
  Timeout, Warning,  \* timeoutMs, warningMs
  LongestPoll,       \* the 10 seconds a poll waits at most
  Horizon,           \* seconds beyond the timeout that the model tells apart
  None

ASSUME TimesAssumption ==
  /\ Timeout \in Nat /\ Warning \in 2 .. Timeout /\ Warning % 2 = 0
  /\ LongestPoll \in Nat \ {0} /\ Horizon \in Nat
  /\ None \notin Int

PollInterval == Min({LongestPoll, Warning \div 2})
Latest == Timeout + Horizon

VARIABLES
  running,      \* whether _idleState holds a tracker
  elapsed,      \* getElapsed(): seconds since lastInteractionTime, up to Latest
  warningModalShown, modalEl,
  poll,         \* seconds until the poll is due
  countdown,    \* seconds until the countdown is due, None when cleared
  hidden,       \* document.hidden
  leaving,      \* window.location.assign has been called
  warned,       \* seconds the modal has been up, up to Warning
  attended      \* seconds the tab has been in view and awake, up to Latest

vars == <<running, elapsed, warningModalShown, modalEl, poll, countdown,
          hidden, leaving, warned, attended>>
modal == <<warningModalShown, modalEl, countdown, warned>>

-----------------------------------------------------------------------------
(* initIdleTracker with a configuration that enables it *)
Init ==
  /\ running = TRUE /\ elapsed = 0
  /\ warningModalShown = FALSE /\ modalEl = FALSE
  /\ poll = PollInterval /\ countdown = None
  /\ hidden = FALSE /\ leaving = FALSE
  /\ warned = 0 /\ attended = 0

ShowWarningModal ==
  IF modalEl THEN UNCHANGED modal
  ELSE /\ warningModalShown' = TRUE /\ modalEl' = TRUE
       /\ countdown' = 1 /\ warned' = 0

(* Mutant: the countdown of a modal that was dismissed goes on. *)
HideWarningModal_KeepsCounting ==
  /\ warningModalShown' = FALSE /\ modalEl' = FALSE
  /\ warned' = 0 /\ UNCHANGED countdown

HideWarningModal ==
  /\ warningModalShown' = FALSE /\ modalEl' = FALSE
  /\ countdown' = None /\ warned' = 0

(* A click (on Stay Active or elsewhere), a key or scrolling. *)
OnInteraction ==
  /\ running /\ ~hidden /\ attended > 0
  /\ elapsed' = 0
  /\ IF warningModalShown THEN HideWarningModal ELSE UNCHANGED modal
  /\ UNCHANGED <<running, poll, hidden, leaving, attended>>

NavigateToPaused == leaving' = TRUE

(* Mutant: the countdown only shows the seconds left. *)
CountdownTick_OnlyShows ==
  /\ countdown = 0 /\ countdown' = 1
  /\ UNCHANGED <<running, elapsed, warningModalShown, modalEl, poll, hidden,
                 leaving, warned, attended>>

(* The interval set up by showWarningModal. *)
CountdownTick ==
  /\ countdown = 0 /\ countdown' = 1
  /\ IF Timeout - elapsed <= 0 THEN NavigateToPaused ELSE UNCHANGED leaving
  /\ UNCHANGED <<running, elapsed, warningModalShown, modalEl, poll, hidden,
                 warned, attended>>

(* Mutant: the poll does not warn. *)
PollTick_NoWarning ==
  /\ running /\ poll = 0 /\ poll' = PollInterval
  /\ IF elapsed >= Timeout THEN NavigateToPaused ELSE UNCHANGED leaving
  /\ UNCHANGED <<modal, running, elapsed, hidden, attended>>

(* Mutant: the poll leaves the eviction to the countdown. *)
PollTick_OnlyWarns ==
  /\ running /\ poll = 0 /\ poll' = PollInterval
  /\ IF elapsed < Timeout /\ elapsed >= Timeout - Warning /\ ~warningModalShown
     THEN ShowWarningModal ELSE UNCHANGED modal
  /\ UNCHANGED <<running, elapsed, hidden, leaving, attended>>

PollTick ==
  /\ running /\ poll = 0 /\ poll' = PollInterval
  /\ IF elapsed >= Timeout THEN NavigateToPaused /\ UNCHANGED modal
     ELSE /\ IF elapsed >= Timeout - Warning /\ ~warningModalShown
             THEN ShowWarningModal ELSE UNCHANGED modal
          /\ UNCHANGED leaving
  /\ UNCHANGED <<running, elapsed, hidden, attended>>

(* The tab comes into view: it is paused, warned, or taken as attended to. *)
OnVisible ==
  /\ hidden /\ hidden' = FALSE /\ attended' = 0
  /\ CASE ~running -> UNCHANGED <<modal, elapsed, leaving>>
       [] running /\ elapsed >= Timeout ->
            NavigateToPaused /\ UNCHANGED <<modal, elapsed>>
       [] running /\ elapsed < Timeout /\ elapsed >= Timeout - Warning ->
            /\ IF warningModalShown THEN UNCHANGED modal ELSE ShowWarningModal
            /\ UNCHANGED <<elapsed, leaving>>
       [] OTHER -> elapsed' = 0 /\ UNCHANGED <<modal, leaving>>
  /\ UNCHANGED <<running, poll>>

OnHidden ==
  /\ ~hidden /\ hidden' = TRUE /\ attended' = 0
  /\ UNCHANGED <<modal, running, elapsed, poll, leaving>>

Cleanup ==
  /\ running /\ running' = FALSE
  /\ HideWarningModal
  /\ UNCHANGED <<elapsed, poll, hidden, leaving, attended>>

-----------------------------------------------------------------------------
(* Time                                                                    *)

Less(t) == IF t \in {None, 0} THEN t ELSE t - 1

(* A second passes.  In a tab in view the timers that are due fire first,  *)
(* and so does the navigation that was asked for.                          *)
Second ==
  /\ hidden \/ (~leaving /\ countdown # 0 /\ (running => poll # 0))
  /\ elapsed' = Min({elapsed + 1, Latest})
  /\ poll' = Less(poll) /\ countdown' = Less(countdown)
  /\ warned' = IF modalEl THEN Min({warned + 1, Warning}) ELSE 0
  /\ attended' = IF hidden THEN 0 ELSE Min({attended + 1, Latest})
  /\ UNCHANGED <<running, warningModalShown, modalEl, hidden, leaving>>

(* The computer sleeps: the clock goes on, the timers do not. *)
Sleep ==
  /\ elapsed' \in elapsed + 1 .. Latest
  /\ attended' = 0
  /\ UNCHANGED <<modal, running, poll, hidden, leaving>>

(* The page that was asked for replaces this one. *)
Unload ==
  /\ leaving /\ running
  /\ running' = FALSE
  /\ UNCHANGED <<modal, elapsed, poll, hidden, leaving, attended>>

Next ==
  \/ Second \/ Sleep \/ Unload
  \/ running /\ (OnInteraction \/ CountdownTick \/ PollTick \/ Cleanup)
  \/ (running \/ ~leaving) /\ (OnVisible \/ OnHidden)

Spec == Init /\ [][Next]_vars

(* The clock and the timers go on, however late. *)
FairSpec == /\ Spec
            /\ WF_vars(Second) /\ WF_vars(running /\ PollTick)
            /\ WF_vars(running /\ CountdownTick) /\ WF_vars(Unload)

-----------------------------------------------------------------------------
(* Properties                                                              *)

(* The values the variables take; the flag, the element and the countdown  *)
(* of the modal come and go together.                                      *)
TypeOK ==
  /\ {running, hidden, leaving, warningModalShown, modalEl} \subseteq BOOLEAN
  /\ elapsed \in 0 .. Latest /\ attended \in 0 .. Latest
  /\ poll \in 0 .. PollInterval /\ countdown \in {0, 1, None}
  /\ warned \in 0 .. Warning
  /\ warningModalShown = modalEl /\ (countdown # None <=> modalEl)

(* "shows a warning modal before eviction" (idle-tracker.js:4): who had    *)
(* the tab in view when the warning was due has seen the modal for all but *)
(* one poll interval of the warning time when the tab goes away.           *)
WarnedBeforePause ==
  [][leaving' /\ ~leaving /\ attended >= Warning =>
       modalEl /\ warned >= Warning - PollInterval]_vars

(* A tab in view is paused on time: once the timeout has passed there, no  *)
(* second goes by without its being sent away.                             *)
PausedOnTime ==
  running /\ ~leaving /\ attended > Warning => elapsed <= Timeout + 1

(* A tab nobody returns to is paused, however long it is hidden, its       *)
(* timers are throttled or the computer sleeps.                            *)
AbandonedIsPaused ==
  []<><<OnInteraction \/ OnVisible \/ Cleanup>>_vars \/ <>leaving \/ <>~running
=============================================================================
