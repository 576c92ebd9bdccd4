----------------------------- MODULE Selection -----------------------------
(* Selecting text, turning it into a highlight and seeing each other's      *)
(* selections and highlights: annotation-highlight.js in each browser, the  *)
(* handlers of document.py and highlights.py and the presence registry of   *)
(* broadcast.py on the server, for one document. Events reach the server,   *)
(* and scripts reach a browser, in the order in which they were sent.       *)
EXTENDS TextOffsets

CONSTANTS
  Clients,    \* the browser tabs, each an annotator who also views
  Documents,  \* a sequence of [dom, drags]: a document and the ranges users drag over
  MaxEmits,   \* bound: how often a selection is reported
  MaxInputs   \* bound: how often users click, or press a tag key or button

ASSUME SelectionAssumption ==
  /\ IsFiniteSet(Clients) /\ None \notin Clients
  /\ \A d \in DOMAIN Documents : None \notin Documents[d].drags
  /\ MaxEmits \in Nat /\ MaxInputs \in Nat

VARIABLES
  doc,         \* which document the workspace has (an index of Documents)
  page,        \* away, loading, open or gone
  live,        \* window.getSelection() in each browser: a range of the DOM or None
  stored,      \* _lastAnnotSelRange: the last range a selectionchange reported
  clicked,     \* whether the 50 ms timer of the click listener runs
  up,          \* events each browser has sent
  down,        \* scripts sent to each browser
  functions,   \* whether the functions of annotation-highlight.js are defined
  pending,     \* scripts a browser has begun: an init before its onload, polling replays
  ready,       \* whether init has run in a browser, so that its listeners are set up
  drawn,       \* CSS.highlights hl-{tag}: the ranges drawn as highlights
  remote,      \* CSS.highlights hl-sel-{client}: what each browser shows of the others
  styles,      \* the clients whose selection has a style element in a browser
  behind,      \* history: whether the latest push to a browser failed, or was undone by init
  missed,      \* history: of whom the latest word failed, or a replay was pending or given up
  selection,   \* PageState.selection_start/end, with the report they came in
  adding,      \* _add_highlight (processing_highlight): "no", "persist" or "broadcast"
  present,     \* _workspace_presence: the clients
  presence,    \* _workspace_presence: selection_start/end of each
  highlights,  \* the highlights of the document, in order of creation
  emitted,     \* history: the range of each report, in order
  inputs       \* history: how often a user clicked or pressed a tag

scripts == <<functions, pending, behind, missed>>
browser == <<live, stored, clicked, ready, drawn, remote, styles, scripts>>
server == <<selection, adding, present, presence, highlights>>
vars == <<doc, page, browser, up, down, server, emitted, inputs>>

dom == Documents[doc].dom

(* A function written out, so that TLC works its values out once. *)
Table(f) == f @@ <<>>
ByDrag(F(_, _)) ==
  Table([d \in DOMAIN Documents |-> Table([r \in Documents[d].drags |-> F(Documents[d].dom, r)])])

(* What is reported for a drag and which characters it covers. *)
Reported == ByDrag(OffsetsOf)
Chosen == ByDrag(Covered)

Interval(d) == {Reported[d][r] : r \in Documents[d].drags} \ {None}
ByInterval(F(_, _)) ==
  Table([d \in DOMAIN Documents |-> Table([i \in Interval(d) |-> F(Documents[d].dom, i)])])

(* applyHighlights skips an interval that starts beyond the document and    *)
(* clamps its end; renderRemoteSelection does neither.                      *)
HighlightRange(text, i) ==
  IF i[1] >= totalChars(text) THEN None
  ELSE charOffsetToRange(text, i[1], Min({i[2], totalChars(text)}))

Resolved == ByInterval(HighlightRange)
Located == ByInterval(LAMBDA text, i : charOffsetToRange(text, i[1], i[2]))
Sliced == ByInterval(LAMBDA text, i : SliceOf(text, i[1], i[2]))
Marked == ByInterval(LAMBDA text, i : Covered(text, HighlightRange(text, i)))

Send(queue, targets, msg) ==
  [c \in Clients |-> IF c \in targets THEN Append(queue[c], msg) ELSE queue[c]]

Init ==
  /\ doc \in DOMAIN Documents
  /\ page = [c \in Clients |-> "away"]
  /\ live = [c \in Clients |-> None]
  /\ stored = [c \in Clients |-> None]
  /\ clicked = [c \in Clients |-> FALSE]
  /\ up = [c \in Clients |-> <<>>]
  /\ down = [c \in Clients |-> <<>>]
  /\ functions = [c \in Clients |-> FALSE]
  /\ pending = [c \in Clients |-> {}]
  /\ behind = [c \in Clients |-> FALSE]
  /\ missed = [c \in Clients |-> {}]
  /\ ready = [c \in Clients |-> FALSE]
  /\ drawn = [c \in Clients |-> {}]
  /\ remote = [c \in Clients |-> [o \in Clients |-> None]]
  /\ styles = [c \in Clients |-> {}]
  /\ selection = [c \in Clients |-> None]
  /\ adding = [c \in Clients |-> "no"]
  /\ present = {}
  /\ presence = [c \in Clients |-> None]
  /\ highlights = <<>>
  /\ emitted = <<>>
  /\ inputs = 0

(***************************************************************************)
(* The browser: selections, clicks and keys                                *)
(***************************************************************************)

(* A selection changes: the listener keeps a clone of a range that is not   *)
(* collapsed and lies in the container.                                     *)
SelectionChange(c, r) ==
  /\ ready[c] /\ page[c] = "open" /\ live[c] # r /\ inputs < MaxInputs
  /\ live' = [live EXCEPT ![c] = r]
  /\ stored' = [stored EXCEPT ![c] = r]
  /\ inputs' = inputs + 1
  /\ UNCHANGED <<doc, page, clicked, up, down, ready, drawn, remote, styles, scripts, server, emitted>>

(* The selection collapses: a caret, or the focus goes to a button. A       *)
(* collapsed selection is not stored.                                       *)
Collapse(c) ==
  /\ page[c] = "open" /\ live[c] # None /\ inputs < MaxInputs
  /\ live' = [live EXCEPT ![c] = None]
  /\ inputs' = inputs + 1
  /\ UNCHANGED <<doc, page, stored, clicked, up, down, ready, drawn, remote, styles, scripts, server, emitted>>

(* The live selection, or else the stored one. *)
RangeAt(c) == IF live[c] # None THEN live[c] ELSE stored[c]

(* The mouse button is released anywhere on the page: the live selection,   *)
(* or else the stored one, is reported if it is a proper interval, and the  *)
(* stored one is used up.                                                   *)
MouseUp(c) ==
  /\ ready[c] /\ page[c] = "open" /\ RangeAt(c) # None
  /\ IF Reported[doc][RangeAt(c)] # None
     THEN /\ Len(emitted) < MaxEmits
          /\ emitted' = Append(emitted, [by |-> c, range |-> RangeAt(c)])
          /\ up' = Send(up, {c}, [op |-> "selection_made", at |-> Reported[doc][RangeAt(c)],
                                  id |-> Len(emitted) + 1])
     ELSE UNCHANGED <<up, emitted>>
  /\ stored' = [stored EXCEPT ![c] = None]
  /\ UNCHANGED <<doc, page, live, clicked, down, ready, drawn, remote, styles, scripts, server, inputs>>

(* A click outside the tag toolbar starts the timer of the click listener. *)
Click(c) ==
  /\ ready[c] /\ page[c] = "open" /\ ~clicked[c] /\ inputs < MaxInputs
  /\ clicked' = [clicked EXCEPT ![c] = TRUE]
  /\ inputs' = inputs + 1
  /\ UNCHANGED <<doc, page, live, stored, up, down, ready, drawn, remote, styles, scripts, server, emitted>>

(* When it fires and nothing is selected any more, the selection is cleared. *)
ClickSettles(c) ==
  /\ page[c] = "open" /\ clicked[c]
  /\ clicked' = [clicked EXCEPT ![c] = FALSE]
  /\ up' = IF live[c] = None THEN Send(up, {c}, [op |-> "selection_cleared"]) ELSE up
  /\ UNCHANGED <<doc, page, live, stored, down, ready, drawn, remote, styles, scripts, server, emitted, inputs>>

(* A digit key, or a button of the highlight menu. *)
PressTag(c) ==
  /\ ready[c] /\ page[c] = "open" /\ inputs < MaxInputs
  /\ inputs' = inputs + 1
  /\ up' = Send(up, {c}, [op |-> "keydown"])
  /\ UNCHANGED <<doc, page, browser, down, server, emitted>>

(***************************************************************************)
(* The browser: the scripts of the server                                  *)
(***************************************************************************)

(* Mutant: everything that starts with hl- goes. *)
clearHighlights_All(shown) == [o \in Clients |-> None]

(* What clearHighlights leaves of the remote selections: all of them. *)
clearHighlights(shown) == shown

(* The ranges applyHighlights draws of a list of highlights. *)
DrawnOf(hl) == {Resolved[doc][i] : i \in hl} \ {None}

(* Mutant: the style element of the former selection stays when the new one cannot be drawn. *)
removeRemoteSelection_KeepStyle(c, o) ==
  /\ remote' = [remote EXCEPT ![c][o] = None]
  /\ UNCHANGED styles

removeRemoteSelection(c, o) ==
  /\ remote' = [remote EXCEPT ![c][o] = None]
  /\ styles' = [styles EXCEPT ![c] = @ \ {o}]

(* The container is in the page from the rendering on, with which init came. *)
InitPending(c) == \E msg \in pending[c] : msg.op = "init"
HasContainer(c) == ready[c] \/ InitPending(c)
Polling(c, o) == \E msg \in pending[c] : msg.op = "replay" /\ msg.of = o

(* Removes the former selection first, and shows nothing when there is no   *)
(* container or no such range.                                              *)
renderRemoteSelection(c, o, at) ==
  IF HasContainer(c) /\ Located[doc][at] # None
  THEN /\ remote' = [remote EXCEPT ![c][o] = Located[doc][at]]
       /\ styles' = [styles EXCEPT ![c] = @ \union {o}]
  ELSE removeRemoteSelection(c, o)

applyHighlights(c, hl) ==
  /\ drawn' = [drawn EXCEPT ![c] = DrawnOf(hl)]
  /\ remote' = [remote EXCEPT ![c] = clearHighlights(@)]
  /\ UNCHANGED styles

(* init(): draws the highlights of its script and sets the listeners up. *)
init(c, hl) == ready' = [ready EXCEPT ![c] = TRUE] /\ applyHighlights(c, hl)

(* An init or a replay before annotation-highlight.js has come waits for it. *)
Wait(c, msg) ==
  /\ pending' = [pending EXCEPT ![c] = @ \union {msg}]
  /\ UNCHANGED <<ready, drawn, remote, styles>>

RunInit(c, msg) ==
  /\ IF functions[c] THEN init(c, msg.hl) /\ UNCHANGED pending ELSE Wait(c, msg)
  /\ UNCHANGED <<live, behind, missed>>

(* A push draws if there is a container, and fails without the functions.   *)
(* An init that is still pending will draw an older list over it.           *)
RunApply(c, msg) ==
  /\ IF HasContainer(c) /\ functions[c] THEN applyHighlights(c, msg.hl)
     ELSE UNCHANGED <<drawn, remote, styles>>
  /\ behind' = [behind EXCEPT ![c] = InitPending(c)]
  /\ UNCHANGED <<live, ready, pending, missed>>

(* Whether word of o is not followed, or not for good. *)
Heard(c, o, followed) ==
  missed' = IF ~HasContainer(c) THEN missed
            ELSE IF followed /\ ~Polling(c, o) THEN [missed EXCEPT ![c] = @ \ {o}]
            ELSE [missed EXCEPT ![c] = @ \union {o}]

RunReplay(c, msg) ==
  /\ IF functions[c] THEN renderRemoteSelection(c, msg.of, msg.at) /\ UNCHANGED <<ready, drawn, pending>>
     ELSE Wait(c, msg)
  /\ Heard(c, msg.of, TRUE)
  /\ UNCHANGED <<live, behind>>

(* Without the functions a show is skipped. *)
RunShow(c, msg) ==
  /\ IF functions[c] THEN renderRemoteSelection(c, msg.of, msg.at) ELSE UNCHANGED <<remote, styles>>
  /\ Heard(c, msg.of, functions[c])
  /\ UNCHANGED <<live, ready, drawn, pending, behind>>

(* Without the functions a hide fails. *)
RunHide(c, msg) ==
  /\ IF functions[c] THEN removeRemoteSelection(c, msg.of) ELSE UNCHANGED <<remote, styles>>
  /\ Heard(c, msg.of, functions[c])
  /\ UNCHANGED <<live, ready, drawn, pending, behind>>

RunRemoveAllRanges(c) ==
  /\ live' = [live EXCEPT ![c] = None]
  /\ UNCHANGED <<ready, drawn, remote, styles, pending, behind, missed>>

(* The browser runs the script at the head of its queue. *)
RunScript(c) ==
  /\ down[c] # <<>> /\ page[c] \in {"loading", "open"}
  /\ down' = [down EXCEPT ![c] = Tail(@)]
  /\ LET msg == Head(down[c]) IN
     \/ msg.op = "init" /\ RunInit(c, msg)
     \/ msg.op = "apply" /\ RunApply(c, msg)
     \/ msg.op = "replay" /\ RunReplay(c, msg)
     \/ msg.op = "show" /\ RunShow(c, msg)
     \/ msg.op = "hide" /\ RunHide(c, msg)
     \/ msg.op = "removeAllRanges" /\ RunRemoveAllRanges(c)
  /\ UNCHANGED <<doc, page, stored, clicked, functions, up, server, emitted, inputs>>

(* annotation-highlight.js, which init has asked for, arrives. *)
LoadFunctions(c) ==
  /\ page[c] = "open" /\ ~functions[c] /\ InitPending(c)
  /\ functions' = [functions EXCEPT ![c] = TRUE]
  /\ UNCHANGED <<doc, page, live, stored, clicked, up, down, pending, ready, drawn, remote, styles,
                 behind, missed, server, emitted, inputs>>

(* The last of the scripts has loaded and init runs, or a poll of a replay  *)
(* finds the functions; in any order.                                       *)
RunPending(c) ==
  /\ page[c] = "open" /\ functions[c]
  /\ \E msg \in pending[c] :
       /\ pending' = [pending EXCEPT ![c] = @ \ {msg}]
       /\ \/ msg.op = "init" /\ init(c, msg.hl)
          \/ msg.op = "replay" /\ renderRemoteSelection(c, msg.of, msg.at) /\ UNCHANGED <<ready, drawn>>
  /\ UNCHANGED <<doc, page, live, stored, clicked, up, down, functions, behind, missed,
                 server, emitted, inputs>>

(* A replay has polled for five seconds in vain. *)
StopPolling(c) ==
  /\ page[c] = "open" /\ ~functions[c]
  /\ \E msg \in pending[c] :
       /\ msg.op = "replay"
       /\ pending' = [pending EXCEPT ![c] = @ \ {msg}]
       /\ missed' = [missed EXCEPT ![c] = @ \union {msg.of}]
  /\ UNCHANGED <<doc, page, live, stored, clicked, up, down, functions, ready, drawn, remote, styles,
                 behind, server, emitted, inputs>>

(***************************************************************************)
(* The server                                                              *)
(***************************************************************************)

Others(c) == present \ {c}

(* _build_highlight_json: the intervals of all highlights, as of now. *)
HighlightData == {h.at : h \in Range(highlights)}

Show(c, at) == [op |-> "show", of |-> c, at |-> at]
ShowAgain(c, at) == [op |-> "replay", of |-> c, at |-> at]
Hide(c) == [op |-> "hide", of |-> c]

(* A page registers in the presence registry and the others are notified,   *)
(* which pushes the highlights to them again. Its functions are there if    *)
(* the script tags were part of the page that was loaded.                   *)
OpenPage(c) ==
  /\ page[c] = "away"
  /\ \E loaded \in BOOLEAN : functions' = [functions EXCEPT ![c] = loaded]
  /\ page' = [page EXCEPT ![c] = "loading"]
  /\ present' = present \union {c}
  /\ down' = Send(down, present, [op |-> "apply", hl |-> HighlightData])
  /\ UNCHANGED <<doc, live, stored, clicked, pending, ready, drawn, remote, styles, behind, missed,
                 up, selection, adding, presence, highlights, emitted, inputs>>

(* _replay_existing_cursors: the selections of the others, one script each. *)
Replay(c) ==
  LET selecting == SetToSeq({o \in Others(c) : presence[o] # None})
  IN [i \in DOMAIN selecting |-> ShowAgain(selecting[i], presence[selecting[i]])]

(* The document is rendered and the script that draws the highlights and    *)
(* sets the listeners up is sent, then the replay.                          *)
RenderPage(c) ==
  /\ page[c] = "loading" /\ c \in present
  /\ page' = [page EXCEPT ![c] = "open"]
  /\ down' = [down EXCEPT ![c] = @ \o <<[op |-> "init", hl |-> HighlightData]>> \o Replay(c)]
  /\ UNCHANGED <<doc, browser, up, server, emitted, inputs>>

(* A client is gone for good: its entry goes and the others remove what     *)
(* they show of it. What it still had to say is lost with its connection.   *)
DeleteClient(c) ==
  /\ c \in present
  /\ page' = [page EXCEPT ![c] = "gone"]
  /\ present' = present \ {c}
  /\ presence' = [presence EXCEPT ![c] = None]
  /\ up' = [up EXCEPT ![c] = <<>>]
  /\ down' = Send(down, Others(c), Hide(c))
  /\ UNCHANGED <<doc, browser, selection, adding, highlights, emitted, inputs>>

(* _handle_selection: the page state, the registry and the other browsers. *)
HandleSelection(c, msg) ==
  /\ selection' = [selection EXCEPT ![c] = [at |-> msg.at, id |-> msg.id]]
  /\ presence' = [presence EXCEPT ![c] = msg.at]
  /\ down' = Send(down, Others(c), Show(c, msg.at))
  /\ UNCHANGED <<adding, highlights>>

(* _handle_selection_cleared. *)
HandleSelectionCleared(c) ==
  /\ selection' = [selection EXCEPT ![c] = None]
  /\ presence' = [presence EXCEPT ![c] = None]
  /\ down' = Send(down, Others(c), Hide(c))
  /\ UNCHANGED <<adding, highlights>>

(* Mutant: presses are not ignored while a highlight is being added. *)
MayAdd_Unguarded(c) == selection[c] # None

(* _validate_highlight_state, and the guard against a second call. *)
MayAdd(c) == adding[c] = "no" /\ selection[c] # None

(* _add_highlight up to its first await: the highlight and the text of its  *)
(* interval go into the document.                                           *)
AddHighlight(c) ==
  /\ IF MayAdd(c)
     THEN /\ adding' = [adding EXCEPT ![c] = "persist"]
          /\ highlights' = Append(highlights, [at |-> selection[c].at, id |-> selection[c].id,
                                               text |-> Sliced[doc][selection[c].at]])
     ELSE UNCHANGED <<adding, highlights>>
  /\ UNCHANGED <<selection, presence, down>>

(* The server handles the event at the head of a client's queue. *)
HandleEvent(c) ==
  /\ up[c] # <<>>
  /\ up' = [up EXCEPT ![c] = Tail(@)]
  /\ LET msg == Head(up[c]) IN
     \/ msg.op = "selection_made" /\ HandleSelection(c, msg)
     \/ msg.op = "selection_cleared" /\ HandleSelectionCleared(c)
     \/ msg.op = "keydown" /\ AddHighlight(c)
  /\ UNCHANGED <<doc, page, browser, present, emitted, inputs>>

(* The save has returned: the highlights are pushed to the own browser. *)
HighlightPersisted(c) ==
  /\ adding[c] = "persist"
  /\ adding' = [adding EXCEPT ![c] = "broadcast"]
  /\ down' = Send(down, {c} \intersect present, [op |-> "apply", hl |-> HighlightData])
  /\ UNCHANGED <<doc, page, browser, up, selection, present, presence, highlights, emitted, inputs>>

(* broadcast_update: every other client draws the highlights anew. *)
PushToOthers(c) == Send(down, Others(c), [op |-> "apply", hl |-> HighlightData])

(* Mutant: the browser keeps its selection. *)
HighlightBroadcast_RangesStay(c) ==
  /\ adding[c] = "broadcast"
  /\ adding' = [adding EXCEPT ![c] = "no"]
  /\ selection' = [selection EXCEPT ![c] = None]
  /\ down' = PushToOthers(c)
  /\ UNCHANGED <<doc, page, browser, up, present, presence, highlights, emitted, inputs>>

(* The others have been told: the browser's selection is removed, the lock  *)
(* is released and the page forgets the selection, whichever it is by now.  *)
HighlightBroadcast(c) ==
  /\ adding[c] = "broadcast"
  /\ adding' = [adding EXCEPT ![c] = "no"]
  /\ selection' = [selection EXCEPT ![c] = None]
  /\ down' = IF c \in present
             THEN [PushToOthers(c) EXCEPT ![c] = Append(@, [op |-> "removeAllRanges"])]
             ELSE PushToOthers(c)
  /\ UNCHANGED <<doc, page, browser, up, present, presence, highlights, emitted, inputs>>

User(c) ==
  \/ \E r \in Documents[doc].drags : SelectionChange(c, r)
  \/ Collapse(c) \/ MouseUp(c) \/ Click(c) \/ ClickSettles(c) \/ PressTag(c)

System(c) ==
  \/ OpenPage(c) \/ RenderPage(c) \/ DeleteClient(c)
  \/ RunScript(c) \/ LoadFunctions(c) \/ RunPending(c) \/ StopPolling(c)
  \/ HandleEvent(c) \/ HighlightPersisted(c) \/ HighlightBroadcast(c)

Next == \E c \in Clients : User(c) \/ System(c)

Spec == Init /\ [][Next]_vars

(***************************************************************************)
(* Properties                                                              *)
(***************************************************************************)

Reports == [at : UNION {Interval(d) : d \in DOMAIN Documents}, id : 1..MaxEmits]

(* No record stands for the selection a page does not have. *)
ASSUME ReportsAssumption == None \notin Reports

(* The shape of the state; only clients in the registry have a selection    *)
(* there, and a browser styles exactly the selections it shows, which       *)
(* renderRemoteSelection and removeRemoteSelection keep in step in each of  *)
(* their early returns.                                                     *)
TypeOK ==
  /\ doc \in DOMAIN Documents
  /\ page \in [Clients -> {"away", "loading", "open", "gone"}]
  /\ live \in [Clients -> Documents[doc].drags \union {None}]
  /\ stored \in [Clients -> Documents[doc].drags \union {None}]
  /\ clicked \in [Clients -> BOOLEAN] /\ ready \in [Clients -> BOOLEAN]
  /\ functions \in [Clients -> BOOLEAN] /\ behind \in [Clients -> BOOLEAN]
  /\ missed \in [Clients -> SUBSET Clients]
  /\ adding \in [Clients -> {"no", "persist", "broadcast"}]
  /\ selection \in [Clients -> Reports \union {None}]
  /\ present = {c \in Clients : page[c] \in {"loading", "open"}}
  /\ \A c \in Clients : presence[c] # None => c \in present
  /\ \A c \in Clients : styles[c] = {o \in Clients : remote[c][o] # None}

(* Where the server counts as the browser does, and where a browser counts  *)
(* UTF-16 units as it counts characters.                                    *)
CountsAlike(text, range) == SameSpaces(text) /\ InPlainText(text, range)
UnitsAlike(text, range) ==
  LET at == OffsetsOf(text, range) IN
  at # None => InPlainText(text, range) /\ InPlainText(text, HighlightRange(text, at))
DragCountsAlike == ByDrag(CountsAlike)
DragUnitsAlike == ByDrag(UnitsAlike)

(* Both walks give the characters of each text the same numbers. *)
CountsAgree ==
  SameSpaces(dom) =>
    LET chars == document_chars(dom) IN
    \A n \in Walked(dom) :
      {i \in DOMAIN chars : chars[i][1] = n} = (startChar(dom, n) + 1)..endChar(dom, n)

(* A highlight holds the text its author had selected, to the character,    *)
(* and the range every browser draws for it covers that same text. So for   *)
(* every range between two boundary points of the document that is reported *)
(* at all, and the two walks number the characters alike, as they claim     *)
(* (annotation-highlight.js, 14-17), astral ones too: a matter of the       *)
(* document alone, so looked at while nobody has opened it. Two exceptions  *)
(* are the code's: whitespace that only one of the walks takes for          *)
(* whitespace, where the server's list is concerned, and ranges that begin  *)
(* or end in a text with astral characters, where UTF-16 units are counted. *)
OffsetsAgree ==
  /\ \A h \in Range(highlights) :
       LET range == emitted[h.id].range IN
       /\ DragCountsAlike[doc][range] => h.text = Chosen[doc][range]
       /\ DragUnitsAlike[doc][range] => Marked[doc][h.at] = Chosen[doc][range]
  /\ (\A c \in Clients : page[c] = "away") =>
       /\ CountsAgree
       /\ \A p, q \in Points(dom) :
            LET range == <<p, q>>
                at == OffsetsOf(dom, range)
                wanted == Covered(dom, range) IN
            at # None =>
              /\ CountsAlike(dom, range) => SliceOf(dom, at[1], at[2]) = wanted
              /\ UnitsAlike(dom, range) => Covered(dom, HighlightRange(dom, at)) = wanted

(* One report of a selection becomes at most one highlight, however often   *)
(* and however quickly tags are pressed (highlights.py, 243-247, 350-358).  *)
OneHighlightPerSelection ==
  \A i, j \in DOMAIN highlights : highlights[i].id = highlights[j].id => i = j

(* Nothing is on its way to a browser that has its page, and no highlight  *)
(* is being added.                                                          *)
Settled(v) ==
  /\ page[v] = "open" /\ down[v] = <<>> /\ ready[v]
  /\ \A c \in Clients : adding[c] = "no"

(* A settled browser draws exactly the highlights of the document, however  *)
(* the additions, the pushes and its own arrival were interleaved (each     *)
(* push carries the whole list as it is when it is sent), and it shows of   *)
(* every other client the selection that the presence registry has, of one  *)
(* that has left nothing: neither a push of highlights nor a late arrival   *)
(* or departure loses or keeps one. The exceptions are the code's, while    *)
(* annotation-highlight.js loads: the latest push came before init had run  *)
(* (the draws are then a former list, never a highlight the document has    *)
(* not), or the latest word of that client came too early or was overtaken  *)
(* by its replay. The next push, or the next word, mends either.            *)
SettledShown ==
  \A v \in Clients : Settled(v) /\ pending[v] = {} =>
    /\ drawn[v] \subseteq DrawnOf(HighlightData)
    /\ ~behind[v] => drawn[v] = DrawnOf(HighlightData)
    /\ \A o \in Clients \ ({v} \union missed[v]) :
         remote[v][o] = IF presence[o] = None THEN None ELSE Located[doc][presence[o]]

(* When all has come to rest, a proper selection on the screen whose mouse  *)
(* button was released is the one a tag would be applied to: the clearing   *)
(* after a highlight, the clearing after a click and new drags may overlap. *)
SelectionIsCurrent ==
  \A c \in Clients :
    /\ Settled(c) /\ up[c] = <<>> /\ live[c] # None /\ stored[c] = None
    /\ Reported[doc][live[c]] # None
    => selection[c] # None /\ selection[c].at = Reported[doc][live[c]]
=============================================================================
