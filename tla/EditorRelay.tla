----------------------------- MODULE EditorRelay -----------------------------
(***************************************************************************)
(* The shared draft of the Respond tab: the Milkdown editor and its Y.Doc  *)
(* in every browser (static/milkdown/src/index.js), the handlers of the    *)
(* server that start it, merge its updates and keep the markdown mirror    *)
(* (pages/annotation/respond.py), their relay to the other browsers        *)
(* (broadcast.py) and the flush before a restart (pages/restart.py).       *)
(*                                                                         *)
(* A document is the set of operations it has received, and its markdown   *)
(* is determined by that set, so a markdown text is the set it was         *)
(* rendered from.  Messages of one connection arrive in order; those to a  *)
(* closed page, and those of a page being closed, may be lost.             *)
(***************************************************************************)
EXTENDS Sequences, FiniteSets, Naturals

CONSTANTS
  Clients,   \* pages of the workspace that may be open
  Edits,     \* changes that may be made to the text, each once
  Original,  \* the markdown of the draft the workspace was cloned from
  Cloned,    \* the clone copied that markdown, but not the document
  Restarts   \* the server may be about to restart

ASSUME SwitchesAssumption == Cloned \in BOOLEAN /\ Restarts \in BOOLEAN
ASSUME OpsAssumption == /\ Edits \cap ({"seed"} \X Clients) = {}
                        /\ Original \notin Edits \cup ({"seed"} \X Clients)

Seed(c) == <<"seed", c>>
Ops == Edits \cup ({"seed"} \X Clients)

VARIABLES
  draft,    \* response_draft of the server's document
  mirror,   \* response_draft_markdown: the operations it was rendered from
  presence, \* _workspace_presence
  editors,  \* clients there with has_milkdown_editor
  page,     \* the Respond tab of each client
  start,    \* state and seed in the script that starts the editor
  ydoc,     \* window.__milkdownYDoc
  up, down, \* messages between each client and the server
  needs     \* of each operation made, what its author's document held

vars == <<draft, mirror, presence, editors, page, start, ydoc, up, down, needs>>
server == <<draft, mirror, presence, editors>>

-----------------------------------------------------------------------------
NoStart == [state |-> {}, seed |-> FALSE]

Init ==
  /\ draft = {} /\ mirror = IF Cloned THEN {Original} ELSE {}
  /\ presence = {} /\ editors = {}
  /\ page = [c \in Clients |-> "closed"]
  /\ start = [c \in Clients |-> NoStart]
  /\ ydoc = [c \in Clients |-> {}]
  /\ up = [c \in Clients |-> << >>] /\ down = [c \in Clients |-> << >>]
  /\ needs = << >>

Made == DOMAIN needs

Update(ops, text) == [kind |-> "update", ops |-> ops, markdown |-> text]
Ready(ok)         == [kind |-> "ready", ok |-> ok]
Flushed(text)     == [kind |-> "flush", markdown |-> text]

(* Mutant: updates of the relay are forwarded like local ones. *)
OnUpdate_Echo(ops, origin, text) == <<Update(ops, text)>>

(* The observer of the Y.Doc: local updates go to the server with the      *)
(* markdown of the editor that has just changed.                           *)
OnUpdate(ops, origin, text) ==
  IF origin = "remote" THEN << >> ELSE <<Update(ops, text)>>

(* What is sent to a page that is closed is lost. *)
Send(c, msg) == IF page[c] = "closed" THEN down[c] ELSE Append(down[c], msg)

-----------------------------------------------------------------------------
(* The browser                                                             *)

(* createEditor up to its await: the Y.Doc exists, nothing is bound to it. *)
CreateEditor(c) ==
  /\ page[c] = "starting"
  /\ page' = [page EXCEPT ![c] = "creating"]
  /\ UNCHANGED <<server, start, ydoc, up, down, needs>>

(* Mutant: the observer is attached only after the seed was set.           *)
EditorCreated_LateObserver(c) ==
  /\ page[c] = "creating"
  /\ page' = [page EXCEPT ![c] = "ready"]
  /\ ydoc' = [ydoc EXCEPT ![c] = @ \cup start[c].state \cup
                                 IF start[c].seed THEN {Seed(c)} ELSE {}]
  /\ up' = [up EXCEPT ![c] = Append(@, Ready(TRUE))]
  /\ UNCHANGED <<server, start, down, needs>>

(* After the await: the document is bound and observed, the state in the   *)
(* script is applied, the seed replaces the (empty) text, and the server   *)
(* is told.                                                                *)
EditorCreated(c) ==
  LET known == ydoc[c] \cup start[c].state
      seed  == IF start[c].seed THEN {Seed(c)} ELSE {}
  IN /\ page[c] = "creating"
     /\ page' = [page EXCEPT ![c] = "ready"]
     /\ ydoc' = [ydoc EXCEPT ![c] = known \cup seed]
     /\ up' = [up EXCEPT ![c] =
                 @ \o OnUpdate(start[c].state, "remote", known)
                   \o (IF start[c].seed THEN OnUpdate(seed, "local", known \cup seed)
                                        ELSE << >>)
                   \o <<Ready(TRUE)>>]
     /\ needs' = [o \in Made \cup seed |-> IF o \in seed THEN known ELSE needs[o]]
     /\ UNCHANGED <<server, start, down>>

(* The bundle does not load, the mount point is missing or create throws.  *)
EditorFails(c) ==
  /\ page[c] \in {"starting", "creating"}
  /\ page' = [page EXCEPT ![c] = "failed"]
  /\ up' = [up EXCEPT ![c] = Append(@, Ready(FALSE))]
  /\ UNCHANGED <<server, start, ydoc, down, needs>>

Edit(c, e) ==
  /\ page[c] = "ready" /\ e \notin Made
  /\ ydoc' = [ydoc EXCEPT ![c] = @ \cup {e}]
  /\ up' = [up EXCEPT ![c] = @ \o OnUpdate({e}, "local", ydoc[c] \cup {e})]
  /\ needs' = [o \in Made \cup {e} |-> IF o = e THEN ydoc[c] ELSE needs[o]]
  /\ UNCHANGED <<server, page, start, down>>

(* _applyRemoteUpdate *)
ApplyRemote(c) ==
  /\ down[c] # << >> /\ Head(down[c]).kind = "apply"
  /\ ydoc' = [ydoc EXCEPT ![c] = @ \cup Head(down[c]).ops]
  /\ up' = [up EXCEPT ![c] = @ \o OnUpdate(Head(down[c]).ops, "remote", ydoc'[c])]
  /\ down' = [down EXCEPT ![c] = Tail(@)]
  /\ UNCHANGED <<server, page, start, needs>>

(* _flushRespondMarkdownNow *)
FlushNow(c) ==
  /\ down[c] # << >> /\ Head(down[c]).kind = "flush"
  /\ up' = [up EXCEPT ![c] = Append(@, Flushed(ydoc[c]))]
  /\ down' = [down EXCEPT ![c] = Tail(@)]
  /\ UNCHANGED <<server, page, start, ydoc, needs>>

(* The page is closed or navigates away; the last of its messages may      *)
(* never have been sent.                                                   *)
ClosePage(c) ==
  /\ page[c] # "closed"
  /\ page' = [page EXCEPT ![c] = "closed"]
  /\ start' = [start EXCEPT ![c] = NoStart]
  /\ ydoc' = [ydoc EXCEPT ![c] = {}]
  /\ down' = [down EXCEPT ![c] = << >>]
  /\ \E n \in 0 .. Len(up[c]) : up' = [up EXCEPT ![c] = SubSeq(@, 1, n)]
  /\ UNCHANGED <<server, needs>>

-----------------------------------------------------------------------------
(* The server                                                              *)

OpenPage(c) ==
  /\ page[c] = "closed" /\ c \notin presence
  /\ page' = [page EXCEPT ![c] = "open"]
  /\ presence' = presence \cup {c}
  /\ UNCHANGED <<draft, mirror, editors, start, ydoc, up, down, needs>>

(* First visit of the Respond tab: the script carries the state of the     *)
(* draft, or the markdown to start from when only that was cloned.         *)
OpenRespond(c) ==
  /\ page[c] = "open" /\ c \in presence
  /\ page' = [page EXCEPT ![c] = "starting"]
  /\ start' = [start EXCEPT ![c] = [state |-> draft,
                                    seed |-> mirror # {} /\ draft = {}]]
  /\ UNCHANGED <<server, ydoc, up, down, needs>>

(* Mutant: the browser is relied on to have all that came in meanwhile.    *)
HandleReady_NoCatchUp(c) ==
  /\ up[c] # << >> /\ Head(up[c]).kind = "ready"
  /\ up' = [up EXCEPT ![c] = Tail(@)]
  /\ editors' = IF Head(up[c]).ok /\ c \in presence THEN editors \cup {c} ELSE editors
  /\ UNCHANGED <<draft, mirror, presence, page, start, ydoc, down, needs>>

(* editor_ready: from now on updates are relayed to this browser, and it   *)
(* is sent the whole state for those it missed since its script was made.  *)
HandleReady(c) ==
  /\ up[c] # << >> /\ Head(up[c]).kind = "ready"
  /\ up' = [up EXCEPT ![c] = Tail(@)]
  /\ IF Head(up[c]).ok /\ c \in presence
     THEN /\ editors' = editors \cup {c}
          /\ down' = IF draft = {} THEN down
                     ELSE [down EXCEPT ![c] = Send(c, [kind |-> "apply", ops |-> draft])]
     ELSE UNCHANGED <<editors, down>>
  /\ UNCHANGED <<draft, mirror, presence, page, start, ydoc, needs>>

(* Mutant: a browser that another update is under way to is left out.      *)
BroadcastYjs_IdleOnly(c, ops) ==
  [d \in Clients |-> IF d \in editors \ {c} /\ down[d] = << >>
                     THEN Send(d, [kind |-> "apply", ops |-> ops]) ELSE down[d]]

BroadcastYjs(c, ops) ==
  [d \in Clients |-> IF d \in editors \ {c}
                     THEN Send(d, [kind |-> "apply", ops |-> ops]) ELSE down[d]]

(* Mutant: the update of a browser that has not reported ready is not      *)
(* merged.                                                                 *)
HandleUpdate_ReadyOnly(c) ==
  /\ up[c] # << >> /\ Head(up[c]).kind = "update"
  /\ up' = [up EXCEPT ![c] = Tail(@)]
  /\ draft' = IF c \in editors THEN draft \cup Head(up[c]).ops ELSE draft
  /\ mirror' = Head(up[c]).markdown
  /\ down' = BroadcastYjs(c, Head(up[c]).ops)
  /\ UNCHANGED <<presence, editors, page, start, ydoc, needs>>

(* respond_yjs_update: merge, relay, replace the mirror. *)
HandleUpdate(c) ==
  /\ up[c] # << >> /\ Head(up[c]).kind = "update"
  /\ up' = [up EXCEPT ![c] = Tail(@)]
  /\ draft' = draft \cup Head(up[c]).ops
  /\ mirror' = Head(up[c]).markdown
  /\ down' = BroadcastYjs(c, Head(up[c]).ops)
  /\ UNCHANGED <<presence, editors, page, start, ydoc, needs>>

(* respond_markdown_flush *)
HandleFlush(c) ==
  /\ up[c] # << >> /\ Head(up[c]).kind = "flush"
  /\ up' = [up EXCEPT ![c] = Tail(@)]
  /\ mirror' = Head(up[c]).markdown
  /\ UNCHANGED <<draft, presence, editors, page, start, ydoc, down, needs>>

Flushing == \E c \in Clients :
  \E m \in {down[c][i] : i \in DOMAIN down[c]} \cup {up[c][i] : i \in DOMAIN up[c]} :
    m.kind = "flush"

(* _flush_milkdown_to_crdt, one at a time *)
FlushMilkdown ==
  /\ Restarts /\ editors # {} /\ ~Flushing
  /\ down' = [c \in Clients |-> IF c \in editors THEN Send(c, [kind |-> "flush"])
                                                 ELSE down[c]]
  /\ UNCHANGED <<server, page, start, ydoc, up, needs>>

(* Mutant: the flag outlives the entry it belongs to.                      *)
DeleteClient_FlagKept(c) ==
  /\ page[c] = "closed" /\ c \in presence
  /\ presence' = presence \ {c}
  /\ up' = [up EXCEPT ![c] = << >>]
  /\ UNCHANGED <<draft, mirror, editors, page, start, ydoc, down, needs>>

(* _handle_client_delete *)
DeleteClient(c) ==
  /\ page[c] = "closed" /\ c \in presence
  /\ presence' = presence \ {c} /\ editors' = editors \ {c}
  /\ up' = [up EXCEPT ![c] = << >>]
  /\ UNCHANGED <<draft, mirror, page, start, ydoc, down, needs>>

-----------------------------------------------------------------------------
Browser(c) == CreateEditor(c) \/ EditorCreated(c) \/ ApplyRemote(c) \/ FlushNow(c)
Handlers(c) == HandleReady(c) \/ HandleUpdate(c) \/ HandleFlush(c)

Next ==
  \/ FlushMilkdown
  \/ \E c \in Clients : \/ CreateEditor(c) \/ EditorCreated(c) \/ EditorFails(c)
                        \/ ApplyRemote(c) \/ FlushNow(c) \/ ClosePage(c)
                        \/ OpenPage(c) \/ OpenRespond(c) \/ DeleteClient(c)
                        \/ HandleReady(c) \/ HandleUpdate(c) \/ HandleFlush(c)
  \/ \E c \in Clients, e \in Edits : Edit(c, e)

Spec == Init /\ [][Next]_vars

(* Messages that were sent arrive and are handled; what users do, and      *)
(* when a client is deleted, is up to them.                                *)
FairSpec == Spec /\ \A c \in Clients : WF_vars(Browser(c)) /\ WF_vars(Handlers(c))

-----------------------------------------------------------------------------
(* Properties                                                              *)

UpOps(c) == UNION {up[c][i].ops : i \in {j \in DOMAIN up[c] : up[c][j].kind = "update"}}
DownOps(c) ==
  UNION {down[c][i].ops : i \in {j \in DOMAIN down[c] : down[c][j].kind = "apply"}}

UpMsg == [kind : {"update"}, ops : SUBSET Ops, markdown : SUBSET Ops]
         \cup [kind : {"ready"}, ok : BOOLEAN]
         \cup [kind : {"flush"}, markdown : SUBSET Ops]
DownMsg == [kind : {"apply"}, ops : SUBSET Ops] \cup [kind : {"flush"}]

(* The values the variables take. *)
TypeOK ==
  /\ draft \subseteq Ops /\ mirror \subseteq Ops \cup {Original}
  /\ presence \subseteq Clients /\ editors \subseteq presence
  /\ page \in [Clients -> {"closed", "open", "starting", "creating", "ready", "failed"}]
  /\ start \in [Clients -> [state : SUBSET Ops, seed : BOOLEAN]]
  /\ ydoc \in [Clients -> SUBSET Ops]
  /\ up \in [Clients -> Seq(UpMsg)] /\ down \in [Clients -> Seq(DownMsg)]
  /\ Made \subseteq Ops /\ needs \in [Made -> SUBSET Ops]

(* An operation goes to the server once, from its author: nothing the      *)
(* relay delivered ever comes back as an update ("to avoid echo loops",    *)
(* static/milkdown/src/index.js:94).                                       *)
NoEcho == \A c \in Clients : UpOps(c) \cap draft = {}

(* A document never holds an operation without those its author had seen:  *)
(* Y.js would keep it pending and the text would not show.  The mirror that *)
(* the PDF export and the search read is such a document too, never ahead  *)
(* of the draft, although it is the text of whichever browser sent last.   *)
CausallyClosed ==
  /\ \A o \in draft : needs[o] \subseteq draft
  /\ \A c \in Clients : \A o \in ydoc[c] : needs[o] \subseteq ydoc[c]
  /\ mirror # {Original} => /\ mirror \subseteq draft
                           /\ \A o \in mirror : needs[o] \subseteq mirror

(* An editor the server relays to lacks nothing but what is under way to   *)
(* it, and has nothing the server lacks but what is under way there, so    *)
(* without messages in transit all of them show the same draft, however    *)
(* editors start, fail and close in between.                               *)
Converging ==
  \A c \in editors : page[c] # "closed" =>
    /\ draft \subseteq ydoc[c] \cup DownOps(c)
    /\ ydoc[c] \subseteq draft \cup UpOps(c)

(* What one author wrote appears in every editor that stays open.          *)
EveryEditShown ==
  \A c \in Clients, o \in Ops :
    o \in draft /\ page[c] = "ready" ~>
      o \in ydoc[c] \/ page[c] # "ready"

(* The relay implements the shared draft. *)
SD == INSTANCE SharedDraft WITH posted <- UNION {UpOps(c) : c \in Clients},
                                view <- ydoc
ImplementsSharedDraft == SD!FairSpec
=============================================================================
