------------------------------ MODULE Organise ------------------------------
(* The Organise tab: one column of highlight cards per tag, each a SortableJS *)
(* list (elements/sortable/sortable.js) whose cards are dragged within and   *)
(* between columns, with the handlers of pages/annotation/tab_bar.py, the    *)
(* rendering of organise.py and the order kept in the CRDT tags map.         *)
(*                                                                           *)
(* SortableJS moves the card in the browser and reports where it landed; the *)
(* page that dropped it is not rendered again, the other pages are.  A       *)
(* rendering replaces the elements of the tab, and an event of a replaced    *)
(* element is dropped by NiceGUI, so events and renderings that cross matter. *)
EXTENDS Integers, Sequences, FiniteSets, SequencesExt, Functions, TLC

CONSTANTS
  Clients,      \* pages open on the workspace
  Highlights,   \* highlights that may exist
  Tags,         \* tags of the workspace
  Untagged,     \* the empty tag key, and the column for it
  Label,        \* the "No highlights" label of an empty column
  Scenes        \* bounds: [pages, highlights, drags, edits] of a behaviour

ASSUME NamesAssumption ==
  /\ Untagged \notin Tags /\ Label \notin Highlights
  /\ IsFiniteSet(Highlights)
ASSUME ScenesAssumption ==
  Scenes \subseteq [pages: SUBSET Clients, highlights: SUBSET Highlights,
                  drags: Nat, edits: Nat]

VARIABLES
  scene,    \* the bounds of this behaviour
  tag,      \* highlights map: the tag of each highlight there is
  order,    \* tags map: the ordered highlights of each tag
  columns,  \* the children of each column in each browser, in DOM order
  shownGen, \* which rendering a browser shows
  gen,      \* which rendering the server's elements belong to
  active,   \* state.active_tab = "Organise", in each page
  up,       \* sort_end events on the way from each browser
  down,     \* renderings on the way to each browser
  owed,     \* broadcasts each page still gets from handlers awaiting a save
  exact,    \* history: since it was rendered from complete lists, only this
            \* page changed the document
  drags, edits  \* counted against the bounds

organise == <<scene, tag, order, columns, shownGen, gen, active, up, down, owed,
              exact, drags, edits>>

----------------------------------------------------------------------------
(* Rendering.                                                                *)

Tagged(t) == {h \in DOMAIN tag : tag[h] = t}

(* get_tag_highlights: an unknown tag, such as the empty one, has no list.   *)
get_tag_highlights(t) == IF t \in Tags THEN order[t] ELSE <<>>

(* What a loop over list s that skips what is not in S goes through.         *)
Among(s, S) ==
  LET places  == {i \in DOMAIN s : s[i] \in S}
      rank(i) == Cardinality({k \in places : k <= i})
  IN  [n \in 1 .. Cardinality(places) |-> s[CHOOSE i \in places : rank(i) = n]]

(* _render_ordered_cards: first the listed highlights that have the tag, in  *)
(* the order of the list, then the others; a label if there are none. The    *)
(* code sorts the others by their first character (get_all_highlights), and  *)
(* leaves those that begin together in the order of the map, which it does   *)
(* not control: here they come in any order.                                 *)
render_ordered_cards(t, mapOrder) ==
  LET listed == Among(get_tag_highlights(t), Tagged(t))
      others == Among(mapOrder, Tagged(t) \ Range(listed))
  IN  IF Tagged(t) = {} THEN <<Label>> ELSE listed \o others

(* render_organise_tab: a column per tag, and one for the untagged if any.   *)
render_organise_tab(mapOrder) ==
  [t \in Tags \cup (IF Tagged(Untagged) = {} THEN {} ELSE {Untagged}) |->
     render_ordered_cards(t, mapOrder)]

(* What every column shows is what its list says: each list names exactly    *)
(* the highlights of its tag, each once, and no column is empty.             *)
ListsComplete ==
  \A t \in Tags : /\ Tagged(t) # {}
                  /\ Range(order[t]) = Tagged(t)
                  /\ Len(order[t]) = Cardinality(Tagged(t))

(* _render_organise_now in page c, where the tab is open: the old elements   *)
(* are deleted and the new ones sent.                                        *)
Renders(c) ==
  \E mapOrder \in SetToSeqs(DOMAIN tag) :
    /\ gen' = [gen EXCEPT ![c] = @ + 1]
    /\ down' = [down EXCEPT ![c] = Append(@, [gen |-> gen[c] + 1,
                                              columns |-> render_organise_tab(mapOrder)])]
    /\ exact' = [exact EXCEPT ![c] = ListsComplete]

----------------------------------------------------------------------------
(* Nothing was dragged yet, or everything was.                               *)
ListedInSomeOrder ==
  \E all \in SetToSeqs(DOMAIN tag) :
    order = [t \in Tags |-> Among(all, Tagged(t))]

OrganiseInit ==
  /\ scene \in Scenes
  /\ tag \in [scene.highlights -> Tags \cup {Untagged}]
  /\ order = [t \in Tags |-> <<>>] \/ ListedInSomeOrder
  /\ columns = [c \in Clients |-> <<>>]
  /\ shownGen = [c \in Clients |-> 0]
  /\ gen = [c \in Clients |-> 0]
  /\ active = [c \in Clients |-> FALSE]
  /\ up = [c \in Clients |-> <<>>]
  /\ down = [c \in Clients |-> <<>>]
  /\ owed = [c \in Clients |-> 0]
  /\ exact = [c \in Clients |-> FALSE]
  /\ drags = 0 /\ edits = 0

document == <<tag, order>>
browser == <<columns, shownGen>>
server == <<gen, active, exact>>
channels == <<up, down, owed>>
counters == <<scene, drags, edits>>

(* broadcast_update after the awaited save: every other page gets a turn.    *)
BroadcastFrom(c) ==
  owed' = [x \in Clients |-> IF x \in scene.pages \ {c} THEN owed[x] + 1 ELSE owed[x]]

(* What another page changed is not what page x rendered.                    *)
ChangedBy(c) == [x \in Clients |-> exact[x] /\ x = c]

----------------------------------------------------------------------------
(* The browser.                                                              *)

(* SortableJS: the user drops card h of column from at position i of column  *)
(* to; onEnd reports the index among all the children of the list, a label   *)
(* included.                                                                 *)
Drop(c, from, to, h, i) ==
  /\ active[c] /\ drags < scene.drags
  /\ h # Label
  /\ LET lifted == [columns[c] EXCEPT ![from] = RemoveFirst(@, h)]
     IN  /\ i \in 1..(Len(lifted[to]) + 1)
         /\ columns' = [columns EXCEPT ![c] = [lifted EXCEPT ![to] = InsertAt(@, i, h)]]
  /\ up' = [up EXCEPT ![c] = Append(@, [gen |-> shownGen[c], item |-> h, from |-> from,
                                        to |-> to, newIndex |-> i - 1])]
  /\ drags' = drags + 1
  /\ UNCHANGED <<scene, document, shownGen, server, down, owed, edits>>

(* A rendering arrives and replaces the elements of the tab.                 *)
ReceiveRendering(c) ==
  /\ down[c] # <<>>
  /\ columns' = [columns EXCEPT ![c] = Head(down[c]).columns]
  /\ shownGen' = [shownGen EXCEPT ![c] = Head(down[c]).gen]
  /\ down' = [down EXCEPT ![c] = Tail(@)]
  /\ UNCHANGED <<document, server, up, owed, counters>>

----------------------------------------------------------------------------
(* The server.                                                               *)

(* Mutant: the card is inserted before the one it follows. *)
insert_OffByOne(s, position, h) ==
  InsertAt(s, IF position > Len(s) THEN Len(s) + 1
              ELSE IF position = 0 THEN 1 ELSE position, h)

(* Python's list.insert, which clamps the position.                          *)
insert(s, position, h) ==
  InsertAt(s, IF position > Len(s) THEN Len(s) + 1 ELSE position + 1, h)

(* Mutant: only the lists change, not the tag of the highlight. *)
move_highlight_to_tag_ListsOnly(h, from, to, position) ==
  /\ UNCHANGED tag
  /\ order' = [t \in Tags |->
       IF t = from THEN RemoveFirst(order[t], h)
       ELSE IF t = to THEN insert(order[t], position, h) ELSE order[t]]

(* move_highlight_to_tag: out of one list, into the other, and the tag.      *)
move_highlight_to_tag(h, from, to, position) ==
  IF h \notin DOMAIN tag THEN UNCHANGED document
  ELSE /\ order' = [t \in Tags |->
            IF t = from THEN RemoveFirst(order[t], h)
            ELSE IF t = to THEN insert(order[t], position, h) ELSE order[t]]
       /\ tag' = [tag EXCEPT ![h] = to]

(* _apply_sort_reorder_or_move; the untagged have no list to reorder.        *)
ApplySortReorderOrMove(e) ==
  IF e.from = e.to
    THEN /\ order' = IF e.to \in Tags
                       THEN [order EXCEPT ![e.to] =
                               insert(RemoveFirst(@, e.item), e.newIndex, e.item)]
                       ELSE order
         /\ UNCHANGED tag
    ELSE move_highlight_to_tag(e.item, e.from, e.to, e.newIndex)

(* _on_organise_sort_end: the document changes at once, the others hear of   *)
(* it after the save, the own tab is not rendered.  An event of an element   *)
(* that was replaced finds no handler.  (_handle_cross_container_add runs    *)
(* too, but finds none of the cards: they go by other ids.)                  *)
OnSortEnd(c) ==
  /\ up[c] # <<>>
  /\ up' = [up EXCEPT ![c] = Tail(@)]
  /\ IF Head(up[c]).gen = gen[c]
       THEN /\ ApplySortReorderOrMove(Head(up[c]))
            /\ BroadcastFrom(c)
            /\ exact' = ChangedBy(c)
       ELSE UNCHANGED <<document, owed, exact>>
  /\ UNCHANGED <<browser, gen, active, down, counters>>

(* _handle_remote_update: the tab is rendered if it is the active one.       *)
HandleRemoteUpdate(c) ==
  /\ owed[c] > 0
  /\ owed' = [owed EXCEPT ![c] = @ - 1]
  /\ IF active[c] THEN Renders(c) ELSE UNCHANGED <<gen, down, exact>>
  /\ UNCHANGED <<document, browser, active, up, counters>>

(* _handle_organise_tab: rendered on every visit.                            *)
OpenTab(c) ==
  /\ ~active[c]
  /\ active' = [active EXCEPT ![c] = TRUE]
  /\ Renders(c)
  /\ UNCHANGED <<document, browser, up, owed, counters>>

(* Another tab is opened; the events sent before were handled before.        *)
LeaveTab(c) ==
  /\ active[c] /\ up[c] = <<>>
  /\ edits < scene.edits
  /\ active' = [active EXCEPT ![c] = FALSE]
  /\ edits' = edits + 1
  /\ UNCHANGED <<scene, document, browser, gen, exact, channels, drags>>

(* What a page's user changes in a source tab: a new highlight, which no     *)
(* list names; a highlight removed, whose list keeps its name; another tag   *)
(* from the sidebar, which leaves the lists alone.                           *)
Edit(c) ==
  /\ ~active[c] /\ edits < scene.edits
  /\ \/ \E h \in scene.highlights \ DOMAIN tag, t \in Tags :
          tag' = [x \in DOMAIN tag \cup {h} |-> IF x = h THEN t ELSE tag[x]]
     \/ \E h \in DOMAIN tag : tag' = Restrict(tag, DOMAIN tag \ {h})
     \/ \E h \in DOMAIN tag, t \in Tags : t # tag[h] /\ tag' = [tag EXCEPT ![h] = t]
  /\ UNCHANGED order
  /\ BroadcastFrom(c)
  /\ exact' = [x \in Clients |-> FALSE]
  /\ edits' = edits + 1
  /\ UNCHANGED <<scene, browser, gen, active, up, down, drags>>

OrganiseNext ==
  \E c \in scene.pages :
    \/ \E from, to \in DOMAIN columns[c] :
         \E h \in Range(columns[c][from]), i \in 1..(Len(columns[c][to]) + 1) :
           Drop(c, from, to, h, i)
    \/ ReceiveRendering(c) \/ OnSortEnd(c) \/ HandleRemoteUpdate(c)
    \/ OpenTab(c) \/ LeaveTab(c) \/ Edit(c)

OrganiseSpec == OrganiseInit /\ [][OrganiseNext]_organise

----------------------------------------------------------------------------
(* Properties.                                                               *)

Quiet(c) == up[c] = <<>> /\ down[c] = <<>> /\ owed[c] = 0

Cards(c, t) == IF t \in DOMAIN columns[c] THEN Range(columns[c][t]) \ {Label} ELSE {}

(* When nothing is on its way to or from a page that shows the tab, each     *)
(* highlight there is has a card in the column of its tag, and each card is  *)
(* of a highlight there is, whoever dragged it, tagged it or removed it:     *)
(* although the page that drops a card is not rendered again, although drops *)
(* that cross a rendering are lost, and although lists name what is gone.    *)
SettledColumns ==
  \A c \in scene.pages : active[c] /\ Quiet(c) =>
    /\ \A h \in DOMAIN tag : h \in Cards(c, tag[h])
    /\ \A t \in DOMAIN columns[c] : Cards(c, t) \subseteq DOMAIN tag

(* The order that is stored is the order a page shows, through any number of *)
(* its drops, if the tab was rendered from complete lists, with no column    *)
(* empty, and no one else has changed the document since: positions among    *)
(* the children of a column are positions in its list.                       *)
StoredAsShown ==
  \A c \in scene.pages : active[c] /\ exact[c] /\ Quiet(c) =>
    \A t \in Tags : columns[c][t] = order[t]

(* "Dragging a card within a column reorders it; order persists in CRDT"     *)
(* (design plan of the three tabs, AC2.3): when nothing is on its way, the   *)
(* page could be rendered again as it is.                                    *)
ReorderPersists ==
  \A c \in scene.pages : active[c] /\ Quiet(c) =>
    \E mapOrder \in SetToSeqs(DOMAIN tag) :
      \A t \in Tags : Among(columns[c][t], Highlights)
                        = Among(render_ordered_cards(t, mapOrder), Highlights)
=============================================================================
