------------------------------ MODULE Admission ------------------------------
(***************************************************************************)
(* The admission gate: AdmissionState (admission.py), the gate every page  *)
(* load goes through (pages/registry.py), the registry of connected        *)
(* clients (auth/client_registry.py), the diagnostic cycle that lets       *)
(* batches of waiting users in (diagnostics.py) and the queue page that    *)
(* polls for a place (queue_handlers.py).                                  *)
(*                                                                         *)
(* A handler runs without an await between its first read and its last     *)
(* write, so each one is a single step of the server's event loop.  The    *)
(* dictionaries of the code are functions on Users or Tokens whose value   *)
(* is None where the key is absent.  Instants become distances from now:   *)
(* waited[u] is the time since u was enqueued, tickets[u] the time u's     *)
(* ticket is still valid; both stop one step past the moment from which    *)
(* the code no longer tells values apart.                                  *)
(***************************************************************************)
EXTENDS Integers, Sequences, FiniteSets, Functions

CONSTANTS
  Users,          \* authenticated users
  Tokens,         \* queue tokens (uuid4 strings)
  Privileged,     \* users is_privileged_user() accepts
  Early,          \* users whose page load may beat the startup hook
  Lags,           \* the event-loop lags a cycle may measure
  Enabled,        \* ADMISSION__ENABLED
  InitialCap, BatchSize, QueueTimeout, TicketValidity,
  MaxCap,         \* bound on the growth of the cap
  MaxClients,     \* bound on the open pages of one user
  None

ASSUME UsersAssumption == IsFiniteSet(Users)
ASSUME SubsetAssumption == Privileged \subseteq Users /\ Early \subseteq Users
ASSUME LagsAssumption == Lags \subseteq {"low", "mid", "high"}
ASSUME EnabledAssumption == Enabled \in BOOLEAN
ASSUME SizesAssumption ==
  /\ InitialCap \in Nat \ {0}  /\ BatchSize \in Nat \ {0}
  /\ QueueTimeout \in Nat      /\ TicketValidity \in Nat
  /\ MaxCap \in Nat            /\ InitialCap <= MaxCap
  /\ MaxClients \in Nat \ {0}
ASSUME NoneAssumption ==
  None \notin Users /\ None \notin Tokens /\ None \notin Int

VARIABLES
  ready,       \* init_admission() has run in this process
  cap,         \* AdmissionState.cap
  queue,       \* AdmissionState._queue
  waited,      \* AdmissionState._enqueue_times, as time spent waiting
  tickets,     \* AdmissionState._tickets, as time left
  tokens,      \* AdmissionState._tokens
  userTokens,  \* AdmissionState._user_tokens
  registry,    \* client_registry._registry, as the number of clients
  polling      \* tokens that open queue pages are polling for

vars == <<ready, cap, queue, waited, tickets, tokens, userTokens, registry,
          polling>>
roomVars == <<cap, queue, waited, tickets, tokens, userTokens>>

-----------------------------------------------------------------------------
(* State formulas                                                          *)

Waiting   == {u \in Users : waited[u] # None}
Ticketed  == {u \in Users : tickets[u] # None}
Connected == {u \in Users : registry[u] > 0}

HasValidTicket(u)   == tickets[u] # None /\ tickets[u] >= 0
HasExpiredTicket(u) == tickets[u] # None /\ tickets[u] < 0

Least(m, n) == IF m <= n THEN m ELSE n
Most(m, n)  == IF m <= n THEN n ELSE m

(* A dictionary without the keys of S. *)
Without(dict, S) == [u \in Users |-> IF u \in S THEN None ELSE dict[u]]

(* Mutant: the cleanup forgets _tokens. *)
TokensWithout_Leak(S) == tokens

(* _cleanup_token_maps for every user of S: what is left of _tokens. *)
TokensWithout(S) ==
  [t \in Tokens |-> IF \E u \in S : userTokens[u] = t THEN None ELSE tokens[t]]

(* The deque rebuilt by sweep_expired: q without the users of S, in order. *)
Purged(q, S) ==
  LET kept    == {i \in DOMAIN q : q[i] \notin S}
      rank(i) == Cardinality({k \in kept : k <= i})
  IN  [n \in 1 .. Cardinality(kept) |-> q[CHOOSE i \in kept : rank(i) = n]]

Position(u, q) == CHOOSE i \in DOMAIN q : q[i] = u

-----------------------------------------------------------------------------
NoEntries == [u \in Users |-> None]

Init ==
  /\ ready = FALSE
  /\ cap = InitialCap
  /\ queue = << >>
  /\ waited = NoEntries /\ tickets = NoEntries /\ userTokens = NoEntries
  /\ tokens = [t \in Tokens |-> None]
  /\ registry = [u \in Users |-> 0]
  /\ polling = {}

(* The startup hook reaches init_admission(). *)
Start ==
  /\ ~ready
  /\ ready' = TRUE
  /\ UNCHANGED <<roomVars, registry, polling>>

-----------------------------------------------------------------------------
(* A page load by user u                                                   *)

Register(u) == registry' = [registry EXCEPT ![u] = @ + 1]

(* Steps 1 and 0 of the gate: nothing of the admission state is touched. *)
SkipsGate(u) == registry[u] > 0 \/ ~ready \/ ~Enabled

VisitUngated(u) ==
  /\ SkipsGate(u)
  /\ ready \/ u \in Early
  /\ Register(u)
  /\ UNCHANGED <<ready, roomVars, polling>>

(* What try_enter removes when it is called for u: a ticket, consumed or   *)
(* found expired, goes with u's token.                                     *)
TryEnterDrops(u) == {u} \cap Ticketed

(* Steps 2 to 4: the ticket is consumed, or u is privileged, or there is   *)
(* room.  A user who is still in the queue stays in it.                    *)
PassesGate(u) ==
  \/ HasValidTicket(u)
  \/ u \in Privileged
  \/ Cardinality(Connected) < cap

VisitAdmitted(u) ==
  /\ ~SkipsGate(u)
  /\ PassesGate(u)
  /\ Register(u)
  /\ tickets' = Without(tickets, TryEnterDrops(u))
  /\ tokens' = TokensWithout(TryEnterDrops(u))
  /\ userTokens' = Without(userTokens, TryEnterDrops(u))
  /\ UNCHANGED <<ready, cap, queue, waited, polling>>

(* Mutant: everybody is put in front. *)
Placed_InFront(u, stale) == <<u>> \o queue

(* The deque with u in it: in front if a stale token shows that u waited   *)
(* before, else at the back.                                               *)
Placed(u, stale) == IF stale THEN <<u>> \o queue ELSE Append(queue, u)

(* enqueue(u), given the dictionaries try_enter left behind.  A user who   *)
(* waits or holds a valid ticket keeps the token; one whose token is stale *)
(* goes to the front, anybody else to the back, with a fresh token.        *)
Enqueue(u, tks, toks, utoks) ==
  IF utoks[u] # None /\ (waited[u] # None \/ (tks[u] # None /\ tks[u] >= 0))
  THEN /\ polling' = polling \cup {utoks[u]}
       /\ tickets' = tks /\ tokens' = toks /\ userTokens' = utoks
       /\ UNCHANGED <<queue, waited>>
  ELSE \E t \in Tokens \ polling :
       /\ toks[t] = None
       /\ polling' = polling \cup {t}
       /\ queue' = Placed(u, utoks[u] # None)
       /\ waited' = [waited EXCEPT ![u] = 0]
       /\ tickets' = [tks EXCEPT ![u] = None]
       /\ tokens' = [k \in Tokens |-> IF k = t THEN u
                                      ELSE IF k = utoks[u] THEN None
                                      ELSE toks[k]]
       /\ userTokens' = [utoks EXCEPT ![u] = t]

(* Step 5: the browser is sent to the queue page, which starts polling. *)
VisitQueued(u) ==
  /\ ~SkipsGate(u)
  /\ ~PassesGate(u)
  /\ Enqueue(u, Without(tickets, TryEnterDrops(u)),
                TokensWithout(TryEnterDrops(u)),
                Without(userTokens, TryEnterDrops(u)))
  /\ UNCHANGED <<ready, cap, registry>>

Visit(u) ==
  /\ registry[u] < MaxClients
  /\ VisitUngated(u) \/ VisitAdmitted(u) \/ VisitQueued(u)

-----------------------------------------------------------------------------
(* The client registry                                                     *)

(* on_delete of one client: deregister(). *)
CloseClient(u) ==
  /\ registry[u] > 0
  /\ registry' = [registry EXCEPT ![u] = @ - 1]
  /\ UNCHANGED <<ready, roomVars, polling>>

(* A banned user is kicked: the whole entry goes, and the on_delete calls  *)
(* of the kicked clients find nothing to remove.                           *)
DisconnectUser(u) ==
  /\ registry[u] > 0
  /\ registry' = [registry EXCEPT ![u] = 0]
  /\ UNCHANGED <<ready, roomVars, polling>>

-----------------------------------------------------------------------------
(* The queue page                                                          *)

(* get_queue_status(t): the users whose entries the call removes. *)
StatusDrops(t) == {u \in {tokens[t]} \cap Users : HasExpiredTicket(u)}
DesyncDrops(t) == {u \in {tokens[t]} \cap Users :
                     /\ u \notin Ticketed
                     /\ u \notin Waiting \/ u \notin Range(queue)}

(* Mutant: a token the server does not know counts as waiting. *)
StillWaiting_Unknown(t) == tokens[t] = None \/ tokens[t] \in Waiting

(* The status is "still waiting", and the page polls again. *)
StillWaiting(t) ==
  /\ tokens[t] # None
  /\ tokens[t] \notin Ticketed
  /\ tokens[t] \in Waiting
  /\ tokens[t] \in Range(queue)

(* A poll answered "admitted" or "expired": the page stops polling.  That  *)
(* the browser then loads the page is a Visit, if it still does.           *)
PollAnswered(t) ==
  /\ ready
  /\ t \in polling
  /\ ~StillWaiting(t)
  /\ polling' = polling \ {t}
  /\ tickets' = Without(tickets, StatusDrops(t))
  /\ waited' = Without(waited, DesyncDrops(t))
  /\ tokens' = TokensWithout(StatusDrops(t) \cup DesyncDrops(t))
  /\ userTokens' = Without(userTokens, StatusDrops(t) \cup DesyncDrops(t))
  /\ UNCHANGED <<ready, cap, queue, registry>>

CloseQueuePage(t) ==
  /\ t \in polling
  /\ polling' = polling \ {t}
  /\ UNCHANGED <<ready, roomVars, registry>>

-----------------------------------------------------------------------------
(* The diagnostic cycle                                                    *)

UpdatedCap(lag) ==
  CASE lag = "high" -> Most(cap \div 2, InitialCap)
    [] lag = "low" /\ Cardinality(Connected) >= cap - BatchSize
                  -> cap + BatchSize
    [] OTHER      -> cap

(* Mutant: outstanding tickets are not subtracted. *)
BatchLength_NoTickets(c) ==
  Most(0, Least(c - Cardinality(Connected), Len(queue)))

(* admit_batch under cap c: how many users leave the head of the queue. *)
BatchLength(c) ==
  Most(0, Least(c - Cardinality(Connected) - Cardinality(Ticketed), Len(queue)))

BatchOf(n) == {queue[i] : i \in 1 .. n}

(* Mutant: a ticket is swept one instant early. *)
SweptTickets_Early(batch) == {u \in Ticketed \ batch : tickets[u] <= 0}

(* sweep_expired: entries that waited too long and tickets out of time.    *)
SweptWaiters(batch) ==
  {u \in Waiting \ batch : waited[u] > QueueTimeout}
SweptTickets(batch) == {u \in Ticketed \ batch : HasExpiredTicket(u)}

(* update_cap, admit_batch and sweep_expired, in that order. *)
Cycle ==
  \E lag \in Lags :
    LET c     == UpdatedCap(lag)
        n     == BatchLength(c)
        batch == BatchOf(n)
        gone  == SweptWaiters(batch)
        stale == SweptTickets(batch)
    IN  /\ ready
        /\ c <= MaxCap
        /\ cap' = c
        /\ queue' = Purged(SubSeq(queue, n + 1, Len(queue)), gone)
        /\ waited' = Without(waited, batch \cup gone)
        /\ tickets' = [u \in Users |-> IF u \in batch THEN TicketValidity
                                       ELSE IF u \in stale THEN None
                                       ELSE tickets[u]]
        /\ tokens' = TokensWithout(gone \cup stale)
        /\ userTokens' = Without(userTokens, gone \cup stale)
        /\ UNCHANGED <<ready, registry, polling>>

(* Time passes: waits get longer and tickets shorter. *)
Tick ==
  /\ waited' = [u \in Users |-> IF waited[u] = None THEN None
                                ELSE Least(waited[u] + 1, QueueTimeout + 1)]
  /\ tickets' = [u \in Users |-> IF tickets[u] = None THEN None
                                 ELSE Most(tickets[u] - 1, -1)]
  /\ UNCHANGED <<ready, cap, queue, tokens, userTokens, registry, polling>>

-----------------------------------------------------------------------------
(* Restarts                                                                *)

(* Every container is emptied and the cap is back at its first value. *)
Forget ==
  /\ cap' = InitialCap
  /\ queue' = << >>
  /\ waited' = NoEntries /\ tickets' = NoEntries /\ userTokens' = NoEntries
  /\ tokens' = [t \in Tokens |-> None]

(* The pre-restart handler clears the state; the process goes on serving.  *)
Clear ==
  /\ ready
  /\ Forget
  /\ UNCHANGED <<ready, registry, polling>>

(* The process ends and a new one starts; open queue pages keep polling. *)
Restart ==
  /\ ready' = FALSE
  /\ Forget
  /\ registry' = [u \in Users |-> 0]
  /\ UNCHANGED polling

-----------------------------------------------------------------------------
Next ==
  \/ Start \/ Cycle \/ Tick \/ Clear \/ Restart
  \/ \E u \in Users : Visit(u) \/ CloseClient(u) \/ DisconnectUser(u)
  \/ \E t \in Tokens : PollAnswered(t) \/ CloseQueuePage(t)

Spec == Init /\ [][Next]_vars

(* The startup hook runs, the diagnostic loop never stops, time passes and *)
(* the script of an open queue page calls itself again; what users do is   *)
(* never certain.  Polling is strongly fair: a page retries every five     *)
(* seconds for as long as it is open, so restarts do not starve it.        *)
Fairness ==
  /\ WF_vars(Start) /\ WF_vars(Cycle) /\ WF_vars(Tick)
  /\ \A t \in Tokens : SF_vars(PollAnswered(t))

FairSpec == Spec /\ Fairness

-----------------------------------------------------------------------------
(* Invariants                                                              *)

TypeOK ==
  /\ ready \in BOOLEAN
  /\ cap \in InitialCap .. MaxCap
  /\ queue \in Seq(Users)
  /\ waited \in [Users -> (0 .. QueueTimeout + 1) \cup {None}]
  /\ tickets \in [Users -> (-1 .. TicketValidity) \cup {None}]
  /\ tokens \in [Tokens -> Users \cup {None}]
  /\ userTokens \in [Users -> Tokens \cup {None}]
  /\ registry \in [Users -> 0 .. MaxClients]
  /\ polling \subseteq Tokens

(* The deque and the dictionary of enqueue times name the same users, each *)
(* once, although enqueue, admit_batch, sweep_expired and get_queue_status *)
(* update them separately: the "admission_queue_desync" branch of          *)
(* get_queue_status is never taken.                                        *)
QueueMatchesTimes ==
  /\ \A i, j \in DOMAIN queue : queue[i] = queue[j] => i = j
  /\ Range(queue) = Waiting

(* The two token dictionaries are inverse to each other, and exactly the   *)
(* users who wait or hold a ticket, never both, have a token: no poll ever *)
(* meets a stale token or another user's place, and none is leaked by the  *)
(* five places that drop entries.                                          *)
TokensMatchPlaces ==
  /\ \A u \in Users, t \in Tokens : userTokens[u] = t <=> tokens[t] = u
  /\ \A u \in Users : userTokens[u] # None <=> u \in Waiting \cup Ticketed
  /\ Waiting \cap Ticketed = {}

(* What every handler and the cycle rely on and none of them checks: the   *)
(* deque, the enqueue times, the tickets and both token maps of            *)
(* AdmissionState describe the same waiting room, and the cap never falls  *)
(* below its first value.                                                  *)
BooksAgree == TypeOK /\ QueueMatchesTimes /\ TokensMatchPlaces

-----------------------------------------------------------------------------
(* Action properties                                                       *)

(* First in, first out: users who wait keep their order, who joins them is *)
(* behind them all unless they return with an expired ticket (enqueue:     *)
(* "they already waited once"), and whoever receives a ticket was ahead of *)
(* everybody left waiting.                                                 *)
FirstInFirstOut ==
  [][\A u \in Waiting \cap Waiting' :
       /\ \A v \in Waiting \cap Waiting' :
            Position(u, queue) < Position(v, queue)
              => Position(u, queue)' < Position(v, queue)'
       /\ \A v \in Waiting' \ Waiting :
            Position(u, queue)' < Position(v, queue)' \/ HasExpiredTicket(v)
       /\ \A v \in Waiting \cap Ticketed' :
            Position(v, queue) < Position(u, queue)]_vars

(* What enqueue promises a user whose ticket expired and who comes back:   *)
(* "they are placed at the front of the queue -- they already waited once" *)
(* (admission.py:91-93, tests/unit/test_admission.py:355-394).             *)
ReturnsInFront ==
  [][\A u \in Users :
       HasExpiredTicket(u) /\ u \in Waiting' => Position(u, queue)' = 1]_vars

(* What a user was given is not taken away.  A place in the queue is only   *)
(* lost to a ticket or to the timeout: no page load, poll, sweep or kick   *)
(* drops a user who has not waited too long.  A valid ticket disappears    *)
(* only when its holder is let in: a user who closed the tab and comes     *)
(* back in time passes (AC2.8).  A reset of the whole state ends both.     *)
ClaimsKept ==
  [][\A u \in Users :
       /\ waited[u] # None /\ waited[u] <= QueueTimeout /\ waited'[u] = None
            => tickets'[u] # None \/ Clear \/ Restart
       /\ HasValidTicket(u) /\ tickets'[u] = None
            => u \in Connected' \/ Clear \/ Restart]_vars

(* A batch never promises more places than the cap has left: whenever a    *)
(* step grants a ticket, connected users and ticket holders together fit   *)
(* under the cap (tickets that expired before the cycle still count).      *)
BatchFitsCap ==
  [][(\E u \in Ticketed' : u \notin Ticketed) =>
       Cardinality(Connected) + Cardinality(Ticketed \cup Ticketed') <= cap']_vars

-----------------------------------------------------------------------------
(* Liveness                                                                *)

(* Every wait ends.  An open queue page is eventually told to come in or   *)
(* to rejoin (or is closed), also when the server restarts and forgets its *)
(* token; nobody keeps a place for ever, whether their page still polls or *)
(* not; and no unused ticket is held for ever against the cap.             *)
EveryWaitEnds ==
  /\ \A t \in Tokens : t \in polling ~> t \notin polling
  /\ \A u \in Users : /\ u \in Waiting ~> u \notin Waiting
                      /\ u \in Ticketed ~> u \notin Ticketed

=============================================================================
