---------------------------- MODULE TextOffsets ----------------------------
(* Character offsets of a document: how the browser turns a range of the    *)
(* DOM into two offsets and two offsets into a range (annotation-           *)
(* highlight.js, 23-73, 157-217, 413-488), and how the server, in a walk of *)
(* its own, numbers the same characters (input_pipeline/text_extraction.py).*)
(*                                                                          *)
(* A document is a sequence of nodes in document order, the container       *)
(* first. A node is [parent, kind, text]: the kind is "block" (BLOCK_TAGS), *)
(* "inline" (any other element with children), "skip" (SKIP_TAGS), "br" or  *)
(* "text"; a text is a sequence of code points, of which Astral take two    *)
(* UTF-16 units. The two patterns for whitespace are not the same: "~" is   *)
(* whitespace in JavaScript only (U+FEFF) and "^" in Python only (U+0085,   *)
(* U+001C to U+001F).                                                       *)
EXTENDS Integers, FiniteSets, Sequences, FiniteSetsExt, SequencesExt

CONSTANT None  \* no offset, no range
Spaces == {" ", "~"}          \* WHITESPACE_RE
_WHITESPACE_RUN == {" ", "^"}
Astral == {"*"}

Code(dom) == DOMAIN dom
Children(dom, n) == SetToSortSeq({i \in Code(dom) : dom[i].parent = n}, <)

(* Node.contains: node i is n or below it, for nodes numbered in document order. *)
Within(dom, n, i) ==
  LET Up[j \in 0..Len(dom)] == j = n \/ (j > n /\ Up[dom[j].parent])
  IN Up[i]

Skipped(dom, i) == \E s \in Code(dom) : dom[s].kind = "skip" /\ Within(dom, s, i)

IsText(dom, i) == dom[i].kind = "text"
OnlySpaces(text) == Range(text) \subseteq Spaces

(* The UTF-16 units of a text, which text[i] and text.length count. A unit  *)
(* of an astral code point is no space.                                     *)
Units(text) == FlattenSeq([i \in DOMAIN text |->
                 IF text[i] \in Astral THEN <<text[i], text[i]>> ELSE <<text[i]>>])
UnitsBefore(text, k) == Len(Units(SubSeq(text, 1, k)))

(* How many characters the first k elements of a sequence make once each    *)
(* run of whitespace counts as one.                                         *)
CollapsedUpTo(seq, k) ==
  Cardinality({i \in 1..k : seq[i] \notin Spaces \/ i = 1 \/ seq[i - 1] \notin Spaces})

countCollapsed(text, rawOffset) ==
  LET units == Units(text) IN CollapsedUpTo(units, Min({rawOffset, Len(units)}))

findLocalOffset(text, collapsedOffset) ==
  LET units == Units(text) IN
  Min({Len(units)} \union
      {i \in 0..(Len(units) - 1) : CollapsedUpTo(units, i) >= collapsedOffset})

(* The text nodes the walk keeps: outside the skipped elements, and not mere *)
(* whitespace between blocks.                                               *)
Walked(dom) ==
  {i \in Code(dom) : /\ IsText(dom, i)
                     /\ ~Skipped(dom, i)
                     /\ ~(dom[dom[i].parent].kind = "block" /\ OnlySpaces(dom[i].text))}

Breaks(dom) == {i \in Code(dom) : dom[i].kind = "br" /\ ~Skipped(dom, i)}

(* What a node adds to charIdx: a text its collapsed code points, a BR one. *)
CharsOf(dom, i) ==
  IF i \in Walked(dom) THEN CollapsedUpTo(dom[i].text, Len(dom[i].text))
  ELSE IF i \in Breaks(dom) THEN 1 ELSE 0

startChar(dom, n) == MapThenSumSet(LAMBDA i : CharsOf(dom, i), 1..(n - 1))
endChar(dom, n) == startChar(dom, n) + CharsOf(dom, n)
totalChars(dom) == IF Walked(dom) = {} THEN 0 ELSE endChar(dom, Max(Walked(dom)))

WalkedIn(dom, n) == {i \in Walked(dom) : Within(dom, n, i)}

(* The boundary nearest to a child without text: the end of the last text   *)
(* before it among its siblings, else the start of the first one after it.  *)
_boundaryFromSiblings(dom, parent, offset) ==
  LET kids == Children(dom, parent)
      before == UNION {WalkedIn(dom, kids[i]) : i \in 1..offset}
      after == UNION {WalkedIn(dom, kids[i]) : i \in (offset + 2)..Len(kids)}
  IN IF before # {} THEN endChar(dom, Max(before))
     ELSE IF after # {} THEN startChar(dom, Min(after)) ELSE None

(* The offset of a boundary point <<node, offset>>: in a text the offset    *)
(* counts units, in an element it counts children.                          *)
rangePointToCharOffset(dom, point) ==
  LET node == point[1]
      offset == point[2]
      kids == Children(dom, node)
      InText(n, raw) ==
        IF n \in Walked(dom) THEN startChar(dom, n) + countCollapsed(dom[n].text, raw)
        ELSE None
  IN IF IsText(dom, node) THEN InText(node, offset)
     ELSE IF offset = Len(kids)
     THEN IF WalkedIn(dom, node) = {} THEN None ELSE endChar(dom, Max(WalkedIn(dom, node)))
     ELSE IF IsText(dom, kids[offset + 1]) THEN InText(kids[offset + 1], 0)
     ELSE IF WalkedIn(dom, kids[offset + 1]) # {}
     THEN startChar(dom, Min(WalkedIn(dom, kids[offset + 1])))
     ELSE _boundaryFromSiblings(dom, node, offset)

(* The range from startChar to endChar, as two points in text nodes. *)
charOffsetToRange(dom, start, end) ==
  LET from == {n \in Walked(dom) : endChar(dom, n) > start}
      to == {n \in Walked(dom) : endChar(dom, n) >= end}
      At(n, char) == <<n, findLocalOffset(dom[n].text, char - startChar(dom, n))>>
  IN IF from = {} \/ to = {} THEN None
     ELSE <<At(Min(from), start), At(Min(to), end)>>

(* The offsets a range is reported with; only a proper interval is.         *)
OffsetsOf(dom, range) ==
  LET s == rangePointToCharOffset(dom, range[1])
      e == rangePointToCharOffset(dom, range[2])
  IN IF s = None \/ e = None THEN None ELSE IF s < e THEN <<s, e>> ELSE None

(***************************************************************************)
(* What a range covers, and what the server takes for it                   *)
(***************************************************************************)

(* Does code point k of text node n come after a boundary point? *)
After(dom, point, n, k) ==
  IF IsText(dom, point[1])
  THEN n > point[1] \/ (n = point[1] /\ UnitsBefore(dom[n].text, k - 1) >= point[2])
  ELSE LET kids == Children(dom, point[1]) IN
       IF point[2] < Len(kids) THEN n >= kids[point[2] + 1]
       ELSE n > point[1] /\ ~Within(dom, point[1], n)

(* The code points k of text node n, whitespace aside, for which P(n, k). *)
Characters(dom, P(_, _)) ==
  UNION {{<<n, k>> : k \in {i \in DOMAIN dom[n].text :
                              dom[n].text[i] \notin Spaces \union _WHITESPACE_RUN /\ P(n, i)}}
           : n \in Walked(dom)}

(* The characters a range covers. *)
Covered(dom, range) ==
  IF range = None THEN {}
  ELSE Characters(dom, LAMBDA n, k : After(dom, range[1], n, k) /\ ~After(dom, range[2], n, k))

(* _walk_dom reaches node i: it does not go into stripped elements and BRs. *)
Reached(dom, i) ==
  LET Goes[j \in Code(dom)] ==
        j = 1 \/ (dom[dom[j].parent].kind \notin {"skip", "br"} /\ Goes[dom[j].parent])
  IN Goes[i]

(* The code points a text is left with when each run of whitespace becomes  *)
(* one space.                                                               *)
Collapsed(text) ==
  SetToSortSeq({k \in DOMAIN text : \/ text[k] \notin _WHITESPACE_RUN
                                    \/ k = 1
                                    \/ text[k - 1] \notin _WHITESPACE_RUN}, <)

(* Mutant: the indentation between blocks is kept. *)
_collapse_text_node_Indented(dom, n) == Collapsed(dom[n].text)

(* Nothing for whitespace in a block. *)
_collapse_text_node(dom, n) ==
  IF dom[dom[n].parent].kind = "block" /\ Range(dom[n].text) \subseteq _WHITESPACE_RUN
  THEN <<>> ELSE Collapsed(dom[n].text)

(* extract_text_from_html: the list of characters, each named by its text   *)
(* and the code point it comes from, a line break by the BR alone.          *)
document_chars(dom) ==
  LET CharsFrom(n) ==
        IF IsText(dom, n)
        THEN LET kept == _collapse_text_node(dom, n) IN [j \in DOMAIN kept |-> <<n, kept[j]>>]
        ELSE IF dom[n].kind = "br" THEN << <<n, 0>> >> ELSE <<>>
  IN FlattenSeq([n \in Code(dom) |-> IF Reached(dom, n) THEN CharsFrom(n) ELSE <<>>])

(* document_chars[start:end], whitespace aside. *)
SliceOf(dom, start, end) ==
  LET chars == document_chars(dom)
  IN {chars[i] : i \in (start + 1)..Min({end, Len(chars)})}
       \intersect Characters(dom, LAMBDA n, k : TRUE)

(* Every whitespace of the document is whitespace to both walks. *)
SameSpaces(dom) ==
  \A n \in Code(dom) : IsText(dom, n) =>
    Range(dom[n].text) \intersect (Spaces \union _WHITESPACE_RUN) \subseteq Spaces \intersect _WHITESPACE_RUN

(* The range neither begins nor ends in a text that has astral code points. *)
InPlainText(dom, range) ==
  range # None =>
    \A i \in {1, 2} : IsText(dom, range[i][1]) => Range(dom[range[i][1]].text) \intersect Astral = {}

(* The boundary points of the DOM, between the code points of a text and    *)
(* between the children of an element.                                      *)
Points(dom) ==
  UNION {IF IsText(dom, n)
         THEN {<<n, UnitsBefore(dom[n].text, k)>> : k \in 0..Len(dom[n].text)}
         ELSE {<<n, k>> : k \in 0..Len(Children(dom, n))}
           : n \in {i \in Code(dom) : dom[i].kind # "br"}}
=============================================================================
