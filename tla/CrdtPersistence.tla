--------------------------- MODULE CrdtPersistence ---------------------------
(***************************************************************************)
(* The life of one workspace's shared document: the registry of documents  *)
(* (crdt/annotation_doc.py), the debounced and the forced saves of the     *)
(* PersistenceManager (crdt/persistence.py), the page load that joins a    *)
(* client (pages/annotation/workspace.py, tab_bar.py) and the handlers     *)
(* that let one go (pages/annotation/broadcast.py).  Workspaces share      *)
(* nothing, so one is enough.                                              *)
(*                                                                         *)
(* A CRDT document is the set of edits it has received; its state in the   *)
(* database is the set that was saved last, since a save writes the whole  *)
(* column.  Each step runs from one await to the next: what a handler read *)
(* before an await may be stale when it goes on.                           *)
(***************************************************************************)
EXTENDS Integers, Sequences, FiniteSets, SequencesExt

CONSTANTS
  Clients,        \* browser tabs
  Edits,          \* edits that may be made, each once
  DocIds,         \* document objects; reused once nobody refers to them
  Kinds,          \* "typed" edits are debounced, "forced" ones saved at once
  Worlds,         \* conditions the workspace may have to live under
  None

ASSUME KindsAssumption == Kinds \subseteq {"typed", "forced"}
ASSUME WorldsAssumption ==
  Worlds \subseteq [overlap : BOOLEAN, inOrder : BOOLEAN, failures : BOOLEAN,
                    drift : BOOLEAN, restarts : BOOLEAN, crashes : BOOLEAN,
                    edits : 0..Cardinality(Edits)]
ASSUME DocsAssumption == /\ IsFiniteSet(Clients) /\ IsFiniteSet(DocIds)
                         /\ Cardinality(DocIds) > Cardinality(Clients)
ASSUME NoneAssumption == None \notin Clients \cup DocIds \cup Edits

VARIABLES
  crdt_state,   \* the column of the workspace's row
  content,      \* the edits each document object holds
  documents,    \* AnnotationDocumentRegistry._documents
  docRegistry,  \* PersistenceManager._doc_registry
  dirty,        \* PersistenceManager._workspace_dirty
  timer,        \* the task in _workspace_pending_saves
  saves,        \* save_workspace_crdt_state calls in flight, oldest first
  presence,     \* _workspace_presence
  pc, row, doc, \* of each client: where its page is, the row it fetched,
                \* the document it refers to
  gone,         \* deleted clients whose page is still loading
  leaving,      \* deleted clients whose departure awaits a save
  last,         \* those among them that were the last client
  made,         \* edits made so far
  late,         \* those made while a save that reads no later state was
                \* in flight
  saved,        \* edits whose handler went on to show "Saved"
  world         \* the conditions, which never change

vars == <<crdt_state, content, documents, docRegistry, dirty, timer, saves,
          presence, pc, row, doc, gone, leaving, last, made, late, saved, world>>
registries == <<documents, docRegistry>>
clients    == <<presence, pc, row, doc, gone, leaving, last>>

-----------------------------------------------------------------------------
Overlap  == world.overlap   \* page loads may overlap each other, departures,
                            \* saves and revocations
InOrder  == world.inOrder   \* saves reach the row in the order they started
Failures == world.failures  \* a save may fail, and so may reading the row
Drift    == world.drift     \* the tag check may find something to repair
Restarts == world.restarts  \* everything dirty may be saved for a restart
Crashes  == world.crashes   \* the process may die
MayEdit  == Cardinality(made) < world.edits

FirstLoad  == {"checking", "creating"}
SecondLoad == {"rechecking", "recreating"}

Loading == {c \in Clients : pc[c] \notin {"out", "ready"}}

(* A document object nobody refers to. *)
FreshDoc == CHOOSE d \in DocIds :
              d \notin {doc[c] : c \in Clients} \cup {documents, docRegistry}

(* What a save writes is read before the database is awaited: force_persist *)
(* and the timer take the registered document, the tag check its own.       *)
Save(d, kind, by) == [snapshot |-> content[d], kind |-> kind, by |-> by]

Checking(c) == \E i \in DOMAIN saves : saves[i].kind = "load" /\ saves[i].by = c

(* Mutant: the superseded save is forgotten but goes on. *)
WithoutTimer_Running(s) == s

(* The task in _workspace_pending_saves is cancelled: a sleeping one will  *)
(* not save, and of one that is saving nothing but perhaps the commit is   *)
(* left.                                                                   *)
WithoutTimer(s) ==
  LET tasks == {i \in DOMAIN s : s[i].kind = "timer"}
  IN IF tasks = {} THEN s ELSE RemoveAt(s, CHOOSE i \in tasks : TRUE)
Cancelled(s, state) ==
  crdt_state' \in {state} \cup
    {s[i].snapshot : i \in {j \in DOMAIN s : /\ s[j].kind = "timer"
                                             /\ InOrder => j = 1}}

Init ==
  /\ crdt_state = {}
  /\ content = [d \in DocIds |-> {}]
  /\ documents = None /\ docRegistry = None
  /\ dirty = FALSE /\ timer = "none" /\ saves = << >>
  /\ presence = {} /\ gone = {} /\ leaving = {} /\ last = {}
  /\ pc = [c \in Clients |-> "out"]
  /\ row = [c \in Clients |-> {}]
  /\ doc = [c \in Clients |-> None]
  /\ made = {} /\ late = {} /\ saved = {}
  /\ world \in Worlds

-----------------------------------------------------------------------------
(* Page load                                                               *)

(* resolve_annotation_context reads the row; the page goes on waiting for  *)
(* the document headers.                                                   *)
Fetch(c) ==
  /\ pc[c] = "out" /\ c \notin leaving
  /\ Overlap \/ (Loading \cup leaving = {} /\ saves = << >>)
  /\ pc' = [pc EXCEPT ![c] = "fetched"]
  /\ row' = [row EXCEPT ![c] = crdt_state]
  /\ UNCHANGED <<world, crdt_state, content, registries, dirty, timer, saves,
                 presence, doc, gone, leaving, last, made, late, saved>>

(* Mutant: the registered document is not looked for. *)
GetOrCreate_Create(c, state, hit, miss) ==
  /\ doc' = [doc EXCEPT ![c] = FreshDoc]
  /\ content' = [content EXCEPT ![FreshDoc] = state]
  /\ pc' = [pc EXCEPT ![c] = miss]

(* get_or_create_for_workspace up to the queries of the tag check: the     *)
(* registered document, or an unregistered new one holding state.          *)
GetOrCreate(c, state, hit, miss) ==
  IF documents # None
  THEN /\ doc' = [doc EXCEPT ![c] = documents]
       /\ pc' = [pc EXCEPT ![c] = hit]
       /\ UNCHANGED content
  ELSE /\ doc' = [doc EXCEPT ![c] = FreshDoc]
       /\ content' = [content EXCEPT ![FreshDoc] = state]
       /\ pc' = [pc EXCEPT ![c] = miss]

(* A row that cannot be read or applied is logged and an empty document    *)
(* takes its place.                                                        *)
LoadedFrom(state) == {state} \cup {empty \in {{}} : Failures}

(* The first load is given the row the page fetched, the second one reads  *)
(* the row itself.  A page that was deleted meanwhile still does both.     *)
BeginLoad(c) ==
  /\ \/ /\ pc[c] = "fetched"
        /\ \E state \in LoadedFrom(row[c]) : GetOrCreate(c, state, "checking", "creating")
     \/ /\ pc[c] = "joined"
        /\ \E state \in LoadedFrom(crdt_state) :
             GetOrCreate(c, state, "rechecking", "recreating")
  /\ row' = [row EXCEPT ![c] = {}]
  /\ UNCHANGED <<world, crdt_state, registries, dirty, timer, saves, presence,
                 gone, leaving, last, made, late, saved>>

(* The tag check found the CRDT maps to differ from the tag tables and     *)
(* saves the document it repaired, dirty or not.                           *)
RepairTags(c) ==
  /\ Drift
  /\ pc[c] \in FirstLoad \cup SecondLoad /\ ~Checking(c)
  /\ saves' = Append(saves, Save(doc[c], "load", c))
  /\ UNCHANGED <<world, crdt_state, content, registries, dirty, timer,
                 clients, made, late, saved>>

(* A document the page created becomes the registered one, whatever was    *)
(* registered meanwhile.                                                   *)
RegisterDocument(c) ==
  IF pc[c] \in {"creating", "recreating"}
  THEN documents' = doc[c] /\ docRegistry' = doc[c]
  ELSE UNCHANGED registries

(* _setup_client_sync, unless the client was deleted meanwhile.            *)
Join(c) ==
  /\ \/ /\ pc' = [pc EXCEPT ![c] = "joined"]
        /\ presence' = presence \cup {c}
     \/ pc' = [pc EXCEPT ![c] = "out"] /\ UNCHANGED presence
  /\ doc' = [doc EXCEPT ![c] = None]

(* The first load returns and is followed, without an await unless the tag *)
(* check of the fetched rows repairs once more, by _setup_client_sync.     *)
FinishFirstLoad(c) ==
  /\ ~Checking(c)
  /\ \/ pc[c] \in FirstLoad /\ RegisterDocument(c) /\ Join(c) /\ UNCHANGED saves
     \/ /\ pc[c] \in FirstLoad /\ Drift /\ RegisterDocument(c)
        /\ saves' = Append(saves, Save(doc[c], "load", c))
        /\ pc' = [pc EXCEPT ![c] = "found"]
        /\ UNCHANGED <<presence, doc>>
     \/ pc[c] = "found" /\ Join(c) /\ UNCHANGED <<registries, saves>>
  /\ UNCHANGED <<world, crdt_state, content, dirty, timer, row, gone, leaving,
                 last, made, late, saved>>

(* The second load gives the page the document it will edit.               *)
FinishSecondLoad(c) ==
  /\ ~Checking(c)
  /\ pc[c] \in SecondLoad
  /\ RegisterDocument(c)
  /\ pc' = [pc EXCEPT ![c] = IF c \in gone THEN "out" ELSE "ready"]
  /\ doc' = [doc EXCEPT ![c] = IF c \in gone THEN None ELSE @]
  /\ gone' = gone \ {c}
  /\ UNCHANGED <<world, crdt_state, content, dirty, timer, saves, presence,
                 row, leaving, last, made, late, saved>>

-----------------------------------------------------------------------------
(* Edits                                                                   *)

(* Mutant: the pending save is cancelled and no other takes its place. *)
ForcePersist_OnlyCancels(kind, by, isDirty, s, state) ==
  timer' = "none" /\ saves' = WithoutTimer(s)

(* Mutant: the state is encoded before the edit is applied. *)
ForcePersist_Early(kind, by, isDirty, s, state) ==
  /\ timer' = "none"
  /\ saves' = WithoutTimer(s)
                \o (IF isDirty /\ docRegistry # None
                    THEN << Save(docRegistry, kind, by) >> ELSE << >>)

(* force_persist_workspace up to its await.                                *)
ForcePersist(kind, by, isDirty, s, state) ==
  /\ timer' = "none"
  /\ saves' = WithoutTimer(s)
                \o (IF isDirty /\ docRegistry # None
                    THEN << [snapshot |-> state[docRegistry], kind |-> kind,
                             by |-> by] >>
                    ELSE << >>)

(* The edit e is made.  Once the pending save is cancelled no save should  *)
(* be in flight: one that is has read the document already, and will take  *)
(* the dirty mark of e away with its own.                                  *)
Make(c, e) ==
  /\ pc[c] = "ready" /\ MayEdit /\ e \notin made
  /\ made' = made \cup {e}
  /\ late' = IF WithoutTimer(saves) = << >> THEN late ELSE late \cup {e}
  /\ content' = [content EXCEPT ![doc[c]] = @ \cup {e}]
  /\ dirty' = TRUE

(* A key press in the response editor: the update is applied and           *)
(* mark_dirty_workspace restarts the debounce.                             *)
Type(c, e) ==
  /\ "typed" \in Kinds /\ Make(c, e)
  /\ timer' = "sleeping"
  /\ saves' = WithoutTimer(saves)
  /\ Cancelled(saves, crdt_state)
  /\ UNCHANGED <<world, registries, clients, saved>>

(* A highlight, a comment, a move: the handler marks the workspace dirty   *)
(* and awaits force_persist_workspace, which returns at once when the      *)
(* document is not registered.                                             *)
Annotate(c, e) ==
  /\ "forced" \in Kinds /\ Make(c, e)
  /\ ForcePersist("edit", e, TRUE, saves, content')
  /\ saved' = IF docRegistry = None THEN saved \cup {e} ELSE saved
  /\ Cancelled(saves, crdt_state)
  /\ UNCHANGED <<world, registries, clients>>

-----------------------------------------------------------------------------
(* Saves                                                                   *)

(* Mutant: the mark is removed when the save starts. *)
TimerFires_EarlyClear ==
  /\ timer = "sleeping" /\ dirty /\ docRegistry # None
  /\ timer' = "saving" /\ saves' = Append(saves, Save(docRegistry, "timer", None))
  /\ dirty' = FALSE
  /\ UNCHANGED <<world, crdt_state, content, registries, clients, made, late,
                 saved>>

(* The debounce is over; _persist_workspace finds nothing to do, or reads  *)
(* the registered document and awaits the database.                        *)
TimerFires ==
  /\ timer = "sleeping"
  /\ IF dirty /\ docRegistry # None
     THEN timer' = "saving" /\ saves' = Append(saves, Save(docRegistry, "timer", None))
     ELSE timer' = "none" /\ UNCHANGED saves
  /\ UNCHANGED <<world, crdt_state, content, registries, dirty, clients, made, late,
                 saved>>

(* persist_all_dirty_workspaces, called before a restart and at shutdown.  *)
PersistAll ==
  /\ Restarts /\ dirty /\ \A i \in DOMAIN saves : saves[i].kind # "all"
  /\ ForcePersist("all", None, dirty, saves, content)
  /\ Cancelled(saves, crdt_state)
  /\ UNCHANGED <<world, content, registries, dirty, clients, made, late, saved>>

(* Mutant: the dirty mark is removed although the save failed. *)
DirtyAfter_Always(ok, kind) == dirty /\ kind = "load"

(* What is left of the dirty mark when a save returns: the tag check never *)
(* touches it, the others remove it when the row was written.              *)
DirtyAfter(ok, kind) == dirty /\ (ok => kind = "load")

(* Mutant: only the persistence manager forgets the document. *)
Evict_DocumentKept == docRegistry' = None /\ UNCHANGED documents

(* The last client's departure evicts the workspace and removes the        *)
(* document.                                                               *)
Evict == docRegistry' = None /\ documents' = None

(* Save i returns to whoever awaits it; a departing client that was the    *)
(* last one goes on to evict the workspace, whoever came meanwhile.        *)
SaveReturns(i, ok) ==
  /\ InOrder => i = 1
  /\ ok \/ Failures
  /\ LET x     == saves[i]
         rest  == RemoveAt(saves, i)
         state == IF ok THEN x.snapshot ELSE crdt_state
     IN  /\ saved' = IF x.kind = "edit" THEN saved \cup {x.by} ELSE saved
         /\ IF x.kind = "leave"
            THEN leaving' = leaving \ {x.by} /\ last' = last \ {x.by}
            ELSE UNCHANGED <<leaving, last>>
         /\ IF x.kind = "leave" /\ x.by \in last
            THEN /\ Evict
                 /\ dirty' = FALSE
                 /\ timer' = "none"
                 /\ saves' = WithoutTimer(rest)
                 /\ Cancelled(rest, state)
            ELSE /\ UNCHANGED registries
                 /\ dirty' = DirtyAfter(ok, x.kind)
                 /\ timer' = IF x.kind = "timer" THEN "none" ELSE timer
                 /\ saves' = rest
                 /\ crdt_state' = state
  /\ UNCHANGED <<world, content, presence, pc, row, doc, gone, made, late>>

-----------------------------------------------------------------------------
(* Departure                                                               *)

(* Only the client whose removal empties the room is the last one.         *)
IsLast(c) == presence = {c}

(* _handle_client_delete up to the await of its save: whether this was the *)
(* last client is decided here.  Without anything to save it goes on.  A   *)
(* load in progress goes on too.                                           *)
Leave(c) ==
  /\ pc[c] \in {"joined", "ready"} \cup SecondLoad /\ c \notin gone
  /\ Overlap \/ (Loading = {} /\ leaving = {})
  /\ presence' = presence \ {c}
  /\ IF pc[c] = "ready"
     THEN /\ pc' = [pc EXCEPT ![c] = "out"]
          /\ doc' = [doc EXCEPT ![c] = None]
          /\ UNCHANGED gone
     ELSE gone' = gone \cup {c} /\ UNCHANGED <<pc, doc>>
  /\ ForcePersist("leave", c, dirty, saves, content)
  /\ Cancelled(saves, crdt_state)
  /\ IF dirty /\ docRegistry # None
     THEN /\ leaving' = leaving \cup {c}
          /\ last' = IF IsLast(c) THEN last \cup {c} ELSE last
          /\ UNCHANGED <<registries, dirty>>
     ELSE /\ UNCHANGED <<leaving, last>>
          /\ IF IsLast(c) THEN Evict /\ dirty' = FALSE
                          ELSE UNCHANGED <<registries, dirty>>
  /\ UNCHANGED <<world, content, row, made, late, saved>>

(* revoke_and_redirect: the client is dropped from the presence registry;  *)
(* its page is deleted later, and then finds itself no longer present.     *)
Revoke(c) ==
  /\ Overlap /\ c \in presence
  /\ presence' = presence \ {c}
  /\ UNCHANGED <<world, crdt_state, content, registries, dirty, timer, saves,
                 pc, row, doc, gone, leaving, last, made, late, saved>>

(* The process ends; only the row is left. *)
ProcessEnds ==
  /\ content' = [d \in DocIds |-> {}]
  /\ documents' = None /\ docRegistry' = None
  /\ dirty' = FALSE /\ timer' = "none" /\ saves' = << >>
  /\ presence' = {} /\ gone' = {} /\ leaving' = {} /\ last' = {}
  /\ pc' = [c \in Clients |-> "out"]
  /\ row' = [c \in Clients |-> {}]
  /\ doc' = [c \in Clients |-> None]
  /\ UNCHANGED <<world, crdt_state, made, late, saved>>

Crash == Crashes /\ ProcessEnds

(* The shutdown handler finds nothing left to persist.                     *)
Stop ==
  /\ Restarts /\ ~dirty /\ \A i \in DOMAIN saves : saves[i].kind # "all"
  /\ ProcessEnds

-----------------------------------------------------------------------------
Next ==
  \/ TimerFires
  \/ PersistAll
  \/ \E i \in DOMAIN saves, ok \in BOOLEAN : SaveReturns(i, ok)
  \/ Crash
  \/ Stop
  \/ \E c \in Clients : \/ Fetch(c) \/ BeginLoad(c) \/ RepairTags(c)
                        \/ FinishFirstLoad(c) \/ FinishSecondLoad(c)
                        \/ Leave(c) \/ Revoke(c)
  \/ \E c \in Clients, e \in Edits : Type(c, e) \/ Annotate(c, e)

Spec == Init /\ [][Next]_vars

(* The event loop resumes what it can: sleeps end, queries are answered.   *)
Fairness ==
  /\ WF_vars(TimerFires)
  /\ WF_vars(\E i \in DOMAIN saves, ok \in BOOLEAN : SaveReturns(i, ok))
  /\ \A c \in Clients : /\ WF_vars(BeginLoad(c))
                        /\ WF_vars(FinishFirstLoad(c))
                        /\ WF_vars(FinishSecondLoad(c))

FairSpec == Spec /\ Fairness
-----------------------------------------------------------------------------
(* Properties                                                              *)

(* The values the variables take.  The annotation registry and the         *)
(* persistence manager always hold the same document object, whatever      *)
(* loads, departures and crashes overlap: otherwise saves would write a    *)
(* document the pages no longer share (annotation_doc.py:1024-1034,        *)
(* broadcast.py:320-323).  A save in flight holds edits that were made,    *)
(* and a departure awaits exactly one save (force_persist_workspace).      *)
TypeOK ==
  /\ crdt_state \subseteq made /\ saved \subseteq made
  /\ made \subseteq Edits /\ late \subseteq made /\ world \in Worlds
  /\ content \in [DocIds -> SUBSET made]
  /\ documents \in DocIds \cup {None} /\ docRegistry = documents
  /\ dirty \in BOOLEAN /\ timer \in {"none", "sleeping", "saving"}
  /\ \A i \in DOMAIN saves : saves[i].snapshot \subseteq made
  /\ presence \subseteq Clients /\ gone \subseteq Loading /\ last \subseteq leaving
  /\ pc \in [Clients -> {"out", "fetched", "found", "joined", "ready"}
                          \cup FirstLoad \cup SecondLoad]
  /\ row \in [Clients -> SUBSET made]
  /\ doc \in [Clients -> DocIds \cup {None}]
  /\ \A c \in Clients : (c \in leaving) <=>
       Cardinality({i \in DOMAIN saves : saves[i].kind = "leave"
                                         /\ saves[i].by = c}) = 1

(* The dirty mark is removed only by a save that wrote the row, an         *)
(* eviction or the end of the process: a failed save, a superseded one or  *)
(* a tag repair leave it for the next attempt (_persist_workspace).        *)
DirtyUntilWritten ==
  [][dirty /\ ~dirty' =>
       \/ docRegistry' = None
       \/ \E i \in DOMAIN saves : /\ saves[i].kind # "load"
                                  /\ crdt_state' = saves[i].snapshot]_vars

(* What some promises are made for: loads and departures that do not       *)
(* overlap and saves that succeed in order, or one tab that types while no *)
(* restart is prepared.                                                    *)
Calm  == ~Overlap /\ InOrder /\ ~Failures /\ ~Drift
Alone == Kinds = {"typed"} /\ Cardinality(Clients) = 1 /\ ~Failures /\ ~Restarts

(* Nothing that reached the row is ever overwritten by a state without it. *)
(* The row has no merge: save_workspace_crdt_state replaces the column.    *)
RowNeverForgets ==
  [][Calm \/ Alone => crdt_state \subseteq crdt_state']_vars

(* While page loads and departures do not overlap: what the registered     *)
(* document holds and the row lacks is marked dirty, so that the next      *)
(* timer, restart or departure will save it, however many tabs type and    *)
(* annotate and whatever saves are cancelled, overtake each other or fail: *)
(* evict_workspace is called "AFTER force_persist_workspace has saved any  *)
(* pending state" (persistence.py:178).  Of an edit made while an          *)
(* annotation or a restart was being saved it is not true: that save takes *)
(* the mark of the edit away when it returns (persistence.py:134-137).     *)
UnsavedIsDirty ==
  ~Overlap /\ docRegistry # None =>
    content[docRegistry] \ late \subseteq crdt_state \/ dirty

(* While page loads and departures do not overlap, all pages that can edit *)
(* share the registered document, whatever saves fail or overtake each     *)
(* other and whatever restarts and crashes come: no load replaces it under *)
(* a page that is open, and no departure evicts it while another page      *)
(* edits it (evict_workspace is for "after its last client disconnects",   *)
(* persistence.py:171).                                                    *)
OneDocument ==
  ~Overlap => \A c \in Clients : pc[c] = "ready" => doc[c] = docRegistry

(* An annotation whose handler showed "Saved" is in the row, and stays     *)
(* there (highlights.py:307-316).                                          *)
SavedMeansDurable == Calm => saved \subseteq crdt_state

(* What a user typed reaches the row although every further key press      *)
(* cancels the save that was due.                                          *)
EveryEditSaved == \A e \in Edits : e \in made ~> e \in crdt_state
=============================================================================
