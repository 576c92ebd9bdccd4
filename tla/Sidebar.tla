------------------------------ MODULE Sidebar ------------------------------
(* The annotation sidebar: one Vue component per page                       *)
(* (static/annotationsidebar.js) and the page's state on the server         *)
(* (pages/annotation/sidebar.py and the _on_* handlers of document.py).     *)
(*                                                                          *)
(* The component sends events, the server handles them one at a time, and   *)
(* every change of the document makes each page push its whole list of      *)
(* items and its set of expanded cards to its browser.  Both directions are *)
(* websocket streams, so messages of one page stay in order, but pushes and *)
(* events cross.  The component keeps what the server never sees (comment   *)
(* drafts, the paragraph reference being edited, which details were built)  *)
(* and lays the cards out in animation frames that run later.               *)
EXTENDS Integers, FiniteSets, Sequences, SequencesExt, Functions, TLC

CONSTANTS
  Clients,      \* pages open on the workspace
  Highlights,   \* highlights of the document shown
  Owner,        \* the page whose user made each highlight
  Privileged,   \* the pages of instructors, who may delete everything
  Start,        \* where a highlight starts: the height of its text
  Tags,         \* tags of the workspace
  Refs,         \* paragraph references a user may type
  Texts,        \* comments a user may type, each at most once
  Empty,        \* the empty string
  Scenes        \* bounds of a behaviour: the pages open, the highlights,
                \* whether the pages were just opened, the number of inputs

ASSUME NamesAssumption == IsFiniteSet(Highlights) /\ Tags # {}
ASSUME OwnerAssumption == Owner \in [Highlights -> Clients]
ASSUME StartAssumption == Start \in [Highlights -> Nat]
ASSUME EmptyAssumption == Empty \notin Refs \cup Texts
ASSUME ScenesAssumption ==
  Scenes \subseteq [pages: SUBSET Clients, highlights: SUBSET Highlights,
                  fresh: BOOLEAN, inputs: Nat]

VARIABLES
  scene,        \* who has a page open, and how many inputs there are
  doc,          \* the highlights in the shared document
  owed,         \* refreshes each page will still get from handlers awaiting
  expanded_cards, \* PageState.expanded_cards of each page
  up,           \* events on the way from each component
  down,         \* props on the way to each component
  page,         \* the component of each page
  typed,        \* comments typed so far
  inputs        \* user inputs so far

vars == <<scene, doc, owed, expanded_cards, up, down, page, typed, inputs>>

(* An item as serialise_items sends it; comments in the order of created_at. *)
Item == [tag: Tags, para_ref: Refs \cup {Empty},
         comments: Seq([text: Texts, by: Clients])]

Kinds == {"toggle_expand", "change_tag", "submit_comment", "delete_comment",
          "delete_highlight", "edit_para_ref", "tab_shown"}

(* The props a refresh pushes; ready: with the highlights drawn again, which *)
(* the component hears as the event highlights-ready.                        *)
Props(c, ready) == [items |-> doc, expanded_ids |-> expanded_cards[c],
                    ready |-> ready]

CanDelete(c, by) == c \in Privileged \/ by = c

----------------------------------------------------------------------------
(* Layout.  Heights are in lines: a collapsed card takes one, an expanded    *)
(* one its details and its comments besides.                                 *)

MIN_GAP == 1
DetailHeight == 2

Height(p, h) ==
  IF h \in p.expanded THEN 1 + DetailHeight + Len(p.items[h].comments) ELSE 1

(* The cards in the order of start_char; equal ones stay as the DOM has them. *)
Orders(S) == {o \in SetToSeqs(S) :
                \A i, j \in DOMAIN o : i < j => Start[o[i]] <= Start[o[j]]}

(* positionCards: each card at its text, or below the card before it.        *)
Positions(p, order) ==
  LET y[i \in DOMAIN order] ==
        IF i = 1 THEN Start[order[1]]
        ELSE LET minY == y[i - 1] + Height(p, order[i - 1]) + MIN_GAP
             IN  IF Start[order[i]] > minY THEN Start[order[i]] ELSE minY
  IN  [h \in Range(order) |-> y[CHOOSE i \in DOMAIN order : order[i] = h]]

----------------------------------------------------------------------------
(* setup and onMounted: the items and the expanded cards are props; cards    *)
(* are placed once the document's text is walked.  A page that was just      *)
(* opened has no card expanded; on the others every card was expanded since. *)
OpenPage(some) ==
  [items |-> doc, expanded |-> some, built |-> some,
   drafts |-> [h \in Highlights |-> Empty], refDrafts |-> <<>>,
   frame |-> ~scene.fresh, tops |-> <<>>, ready |-> ~scene.fresh, shown |-> TRUE]

Init ==
  /\ scene \in Scenes
  /\ doc \in [scene.highlights -> [tag: {CHOOSE t \in Tags : TRUE},
                                   para_ref: Refs \cup {Empty}, comments: {<<>>}]]
  /\ owed = [c \in Clients |-> 0]
  /\ LET some == IF scene.fresh THEN {} ELSE scene.highlights
     IN  /\ expanded_cards = [c \in Clients |-> some]
         /\ page = [c \in Clients |-> OpenPage(some)]
  /\ up = [c \in Clients |-> <<>>]
  /\ down = [c \in Clients |-> <<>>]
  /\ typed = {}
  /\ inputs = 0

Event(kind, h, value) == [kind |-> kind, id |-> h, value |-> value]

(* A user's input in page c: the component becomes p and emits events.       *)
Emits(c, p, events) ==
  /\ inputs < scene.inputs
  /\ inputs' = inputs + 1
  /\ page' = [page EXCEPT ![c] = p]
  /\ up' = [up EXCEPT ![c] = @ \o events]
  /\ UNCHANGED <<scene, doc, owed, expanded_cards, down>>

(* A card the user sees, and one whose details the user sees.                *)
Visible(c, h) == page[c].shown /\ h \in DOMAIN page[c].items
Open(c, h) == Visible(c, h) /\ h \in page[c].expanded /\ h \in page[c].built

(* Mutant: the details of an expanded card are not built. *)
toggleExpand_NotBuilt(p, h) ==
  [p EXCEPT !.expanded = IF h \in @ THEN @ \ {h} ELSE @ \cup {h}, !.frame = TRUE]

(* toggleExpand: at once in the component, and on its way to the server; the *)
(* cards are placed again in the next frame.                                 *)
toggleExpand(p, h) ==
  IF h \in p.expanded THEN [p EXCEPT !.expanded = @ \ {h}, !.frame = TRUE]
  ELSE [p EXCEPT !.expanded = @ \cup {h}, !.built = @ \cup {h}, !.frame = TRUE]

ToggleExpand(c, h) ==
  /\ Visible(c, h)
  /\ Emits(c, toggleExpand(page[c], h),
           <<Event("toggle_expand", h, h \notin page[c].expanded)>>)

(* onTagChange: the select shows the tag of the item, which a refresh sets.  *)
TagChange(c, h, tag) ==
  /\ Open(c, h)
  /\ tag # page[c].items[h].tag
  /\ Emits(c, page[c], <<Event("change_tag", h, tag)>>)

(* setCommentDraft                                                           *)
TypeComment(c, h, text) ==
  /\ Open(c, h) /\ text \notin typed
  /\ Emits(c, [page[c] EXCEPT !.drafts[h] = text], <<>>)
  /\ typed' = typed \cup {text}

(* Mutant: the draft is kept until the server has answered. *)
Submitted_Kept(p, h) == p

(* onSubmitComment, by Enter or by the button: the draft is emptied at once. *)
Submitted(p, h) == [p EXCEPT !.drafts[h] = Empty]

SubmitComment(c, h) ==
  /\ Open(c, h)
  /\ page[c].drafts[h] # Empty
  /\ Emits(c, Submitted(page[c], h),
           <<Event("submit_comment", h, page[c].drafts[h])>>)

DeleteComment(c, h, i) ==
  /\ Open(c, h)
  /\ i \in DOMAIN page[c].items[h].comments
  /\ CanDelete(c, page[c].items[h].comments[i].by)
  /\ Emits(c, page[c], <<Event("delete_comment", h, page[c].items[h].comments[i].text)>>)

DeleteHighlight(c, h) ==
  /\ Visible(c, h)
  /\ CanDelete(c, Owner[h])
  /\ Emits(c, page[c], <<Event("delete_highlight", h, Empty)>>)

(* startParaRefEdit: the field starts with the reference the item shows.     *)
StartParaRefEdit(c, h) ==
  /\ Open(c, h)
  /\ h \notin DOMAIN page[c].refDrafts
  /\ Emits(c, [page[c] EXCEPT !.refDrafts =
                  [k \in DOMAIN @ \cup {h} |->
                     IF k = h THEN page[c].items[h].para_ref ELSE @[k]]], <<>>)

TypeParaRef(c, h, ref) ==
  /\ Open(c, h)
  /\ h \in DOMAIN page[c].refDrafts
  /\ ref # page[c].refDrafts[h]
  /\ Emits(c, [page[c] EXCEPT !.refDrafts[h] = ref], <<>>)

(* finishParaRefEdit: what it emits, given the maps it finds.                *)
FinishEvents(p, h, refDrafts) ==
  LET newValue == IF h \in DOMAIN refDrafts THEN refDrafts[h] ELSE Empty
      oldValue == IF h \in DOMAIN p.items THEN p.items[h].para_ref ELSE Empty
  IN  IF newValue # oldValue THEN <<Event("edit_para_ref", h, newValue)>> ELSE <<>>

(* The field loses the focus, or Enter is pressed, which removes the field:  *)
(* a browser may then report the loss of focus and finish a second time.     *)
(* The field of a card that is taken away loses the focus too.               *)
FinishParaRefEdit(c, h, again) ==
  /\ h \in DOMAIN page[c].refDrafts
  /\ LET left == Restrict(page[c].refDrafts, DOMAIN page[c].refDrafts \ {h})
     IN  Emits(c, [page[c] EXCEPT !.refDrafts = left],
               FinishEvents(page[c], h, page[c].refDrafts)
               \o (IF again THEN FinishEvents(page[c], h, left) ELSE <<>>))

(* The user turns to another tab, and back: the tab change reaches the       *)
(* server as an event, which refreshes the sidebar and the highlights.       *)
SwitchAway(c) ==
  /\ page[c].shown
  /\ Emits(c, [page[c] EXCEPT !.shown = FALSE], <<>>)

SwitchBack(c) ==
  /\ ~page[c].shown
  /\ Emits(c, [page[c] EXCEPT !.shown = TRUE],
           <<[kind |-> "tab_shown", id |-> Empty, value |-> Empty]>>)

(* onScroll, throttled by a flag that the frame resets.                      *)
Scroll(c) ==
  /\ page[c].shown /\ ~page[c].frame
  /\ Emits(c, [page[c] EXCEPT !.frame = TRUE], <<>>)

UserStep ==
  \E c \in scene.pages :
    \/ \E h \in Highlights, text \in Texts : TypeComment(c, h, text)
    \/ /\ UNCHANGED typed
       /\ \/ \E h \in Highlights :
               \/ ToggleExpand(c, h)
               \/ SubmitComment(c, h)
               \/ DeleteHighlight(c, h)
               \/ StartParaRefEdit(c, h)
               \/ \E tag \in Tags : TagChange(c, h, tag)
               \/ \E i \in 1..Cardinality(Texts) : DeleteComment(c, h, i)
               \/ \E ref \in Refs \cup {Empty} : TypeParaRef(c, h, ref)
               \/ \E again \in BOOLEAN : FinishParaRefEdit(c, h, again)
          \/ SwitchAway(c)
          \/ SwitchBack(c)
          \/ Scroll(c)

----------------------------------------------------------------------------
(* The browser.                                                              *)

(* The watchers of expanded_ids and items.  What is expanded is the server's *)
(* to say, what was built stays; the cards are placed in the next frame.     *)
WithProps(p, m) ==
  [p EXCEPT !.items = m.items,
            !.expanded = m.expanded_ids,
            !.built = @ \cup m.expanded_ids,
            !.ready = @ \/ m.ready,
            !.frame = TRUE]

ReceiveProps(c) ==
  /\ down[c] # <<>>
  /\ page' = [page EXCEPT ![c] = WithProps(@, Head(down[c]))]
  /\ down' = [down EXCEPT ![c] = Tail(@)]
  /\ UNCHANGED <<scene, doc, owed, expanded_cards, up, typed, inputs>>

(* onHighlightsReady for the first time: the text has been walked.           *)
HighlightsReady(c) ==
  /\ ~page[c].ready
  /\ page' = [page EXCEPT ![c].ready = TRUE, ![c].frame = TRUE]
  /\ UNCHANGED <<scene, doc, owed, expanded_cards, up, down, typed, inputs>>

(* The animation frame: positionCards, unless there is no text to measure    *)
(* yet or the document is in a hidden tab, where every rectangle is empty.   *)
Frame(c) ==
  /\ page[c].frame
  /\ IF page[c].ready /\ page[c].shown
       THEN \E order \in Orders(DOMAIN page[c].items) :
              page' = [page EXCEPT ![c].frame = FALSE,
                                   ![c].tops = Positions(page[c], order)]
       ELSE page' = [page EXCEPT ![c].frame = FALSE]
  /\ UNCHANGED <<scene, doc, owed, expanded_cards, up, down, typed, inputs>>

----------------------------------------------------------------------------
(* The server: one event at a time; a handler changes the document before    *)
(* its first await and refreshes the pages after the save it awaits.         *)

(* Mutant: the page whose user made the change is not refreshed. *)
PersistAndBroadcast_Others(c) == owed' = [x \in Clients |-> IF x \in scene.pages \ {c} THEN owed[x] + 1 ELSE owed[x]]

(* _persist_and_broadcast: the own sidebar and, through broadcast_update and *)
(* _handle_remote_update, those of the others.  Overlapping handlers owe     *)
(* each page a refresh each; the save itself is CrdtPersistence's subject.   *)
PersistAndBroadcast(c) == owed' = [x \in Clients |-> IF x \in scene.pages THEN owed[x] + 1 ELSE 0]

on_toggle_expand(c, e) ==
  /\ expanded_cards' = [expanded_cards EXCEPT
       ![c] = IF e.id \in @ THEN @ \ {e.id} ELSE @ \cup {e.id}]
  /\ UNCHANGED <<doc, owed>>

on_change_tag(c, e) ==
  /\ doc' = IF e.id \in DOMAIN doc THEN [doc EXCEPT ![e.id].tag = e.value] ELSE doc
  /\ PersistAndBroadcast(c)
  /\ UNCHANGED expanded_cards

on_submit_comment(c, e) ==
  /\ doc' = IF e.id \in DOMAIN doc
              THEN [doc EXCEPT ![e.id].comments = Append(@, [text |-> e.value, by |-> c])]
              ELSE doc
  /\ PersistAndBroadcast(c)
  /\ UNCHANGED expanded_cards

(* Only the author or a privileged user, and only if it is still there; the  *)
(* text stands for the comment's id, which no other comment has.             *)
on_delete_comment(c, e) ==
  LET found == {i \in IF e.id \in DOMAIN doc THEN DOMAIN doc[e.id].comments ELSE {} :
                  /\ doc[e.id].comments[i].text = e.value
                  /\ CanDelete(c, doc[e.id].comments[i].by)}
  IN  /\ IF found = {} THEN UNCHANGED <<doc, owed>>
         ELSE /\ \E i \in found : doc' = [doc EXCEPT ![e.id].comments = RemoveAt(@, i)]
              /\ PersistAndBroadcast(c)
      /\ UNCHANGED expanded_cards

on_delete_highlight(c, e) ==
  /\ doc' = Restrict(doc, DOMAIN doc \ {e.id})
  /\ PersistAndBroadcast(c)
  /\ UNCHANGED expanded_cards

on_edit_para_ref(c, e) ==
  IF e.value = Empty THEN UNCHANGED <<doc, owed, expanded_cards>>
  ELSE /\ doc' = IF e.id \in DOMAIN doc
                   THEN [doc EXCEPT ![e.id].para_ref = e.value] ELSE doc
       /\ PersistAndBroadcast(c)
       /\ UNCHANGED expanded_cards

Handler(c, e) ==
  \/ e.kind = "toggle_expand"    /\ on_toggle_expand(c, e)
  \/ e.kind = "change_tag"       /\ on_change_tag(c, e)
  \/ e.kind = "submit_comment"   /\ on_submit_comment(c, e)
  \/ e.kind = "delete_comment"   /\ on_delete_comment(c, e)
  \/ e.kind = "delete_highlight" /\ on_delete_highlight(c, e)
  \/ e.kind = "edit_para_ref"    /\ on_edit_para_ref(c, e)

HandleEvent(c) ==
  /\ up[c] # <<>> /\ Head(up[c]).kind # "tab_shown"
  /\ Handler(c, Head(up[c]))
  /\ up' = [up EXCEPT ![c] = Tail(@)]
  /\ UNCHANGED <<scene, down, page, typed, inputs>>

(* _refresh_source_tab: highlights and props again.                          *)
TabShown(c) ==
  /\ up[c] # <<>> /\ Head(up[c]).kind = "tab_shown"
  /\ down' = [down EXCEPT ![c] = Append(@, Props(c, TRUE))]
  /\ up' = [up EXCEPT ![c] = Tail(@)]
  /\ UNCHANGED <<scene, doc, owed, expanded_cards, page, typed, inputs>>

(* refresh_from_state, when the save has returned or in the broadcast.       *)
refresh_from_state(c) ==
  /\ owed[c] > 0
  /\ owed' = [owed EXCEPT ![c] = @ - 1]
  /\ down' = [down EXCEPT ![c] = Append(@, Props(c, FALSE))]
  /\ UNCHANGED <<scene, doc, expanded_cards, up, page, typed, inputs>>

SystemStep(c) ==
  ReceiveProps(c) \/ HighlightsReady(c) \/ Frame(c)
  \/ HandleEvent(c) \/ TabShown(c) \/ refresh_from_state(c)

Next == UserStep \/ \E c \in scene.pages : SystemStep(c)

Spec == Init /\ [][Next]_vars

----------------------------------------------------------------------------
(* Properties.                                                               *)

PartialFunctions(S, T) == UNION {[D -> T] : D \in SUBSET S}

(* The component's maps only name highlights of the document it was built    *)
(* for, an expanded card has its details built, so that v-show has something *)
(* to show, and the server holds only items a client can render.             *)
TypeOK ==
  /\ scene \in Scenes
  /\ DOMAIN doc \subseteq Highlights
  /\ \A h \in DOMAIN doc : doc[h] \in Item
  /\ owed \in [Clients -> Nat]
  /\ expanded_cards \in [Clients -> SUBSET Highlights]
  /\ inputs \in 0..scene.inputs
  /\ \A c \in Clients :
       /\ \A i \in DOMAIN up[c] : up[c][i].kind \in Kinds
       /\ page[c].expanded \subseteq page[c].built
       /\ page[c].built \subseteq Highlights
       /\ \A h \in DOMAIN page[c].items : page[c].items[h] \in Item
       /\ page[c].drafts \in [Highlights -> Texts \cup {Empty}]
       /\ page[c].refDrafts \in PartialFunctions(Highlights, Refs \cup {Empty})

(* What the server still has to hear from, and to say to, a page.            *)
Quiet(c) == up[c] = <<>> /\ down[c] = <<>> /\ owed[c] = 0

(* Where the text t is: drafts, events and comments, each by its position.   *)
IsSent(t, e) == e.kind = "submit_comment" /\ e.value = t
Drafted(t) == {d \in Clients \X Highlights : page[d[1]].drafts[d[2]] = t}
Sent(t) == UNION {{c} \X {i \in DOMAIN up[c] : IsSent(t, up[c][i])} : c \in Clients}
Posted(t) == UNION {{h} \X {i \in DOMAIN doc[h].comments : doc[h].comments[i].text = t}
                      : h \in DOMAIN doc}

(* A comment typed once is never there twice: it is a draft, or on its way,  *)
(* or posted, although Enter and the Post button both submit it and the      *)
(* answer to a submission, a refresh, may be far away.                       *)
EachCommentOnce ==
  \A t \in Texts :
    Cardinality(Drafted(t)) + Cardinality(Sent(t)) + Cardinality(Posted(t)) <= 1

(* When nothing is on its way, each sidebar shows the document: whoever      *)
(* changed it, and whether the highlight was still there, every page has     *)
(* been refreshed after the last change.  When no frame is due either, every *)
(* card of a document on screen has its place: at its text or below, clear   *)
(* of every other card, and pushed down only by a card that ends right above *)
(* it (annotationsidebar.js, 280-325).                                       *)
SettledPage ==
  \A c \in scene.pages :
    LET p == page[c]
        ends(h) == p.tops[h] + Height(p, h) + MIN_GAP
    IN  Quiet(c) =>
          /\ p.items = doc
          /\ p.ready /\ p.shown /\ ~p.frame =>
               \A h \in DOMAIN p.items :
                 /\ h \in DOMAIN p.tops
                 /\ p.tops[h] >= Start[h]
                 /\ \A k \in DOMAIN p.items \ {h} :
                       ends(h) <= p.tops[k] \/ ends(k) <= p.tops[h]
                 /\ p.tops[h] > Start[h] =>
                       \E k \in DOMAIN p.items \ {h} : ends(k) = p.tops[h]
=============================================================================
