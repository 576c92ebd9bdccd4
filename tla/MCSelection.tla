---------------------------- MODULE MCSelection ----------------------------
(* Documents and drags for the model checker. *)
EXTENDS Selection

Node(parent, kind, text) == [parent |-> parent, kind |-> kind, text |-> text]

(* <div><p>a  b<br><br> c</p> <script>z</script><p><b>de</b>f</p></div> *)
Mixed ==
  << Node(0, "block", <<>>), Node(1, "inline", <<>>), Node(2, "text", <<"a", " ", " ", "b">>),
     Node(2, "br", <<>>), Node(2, "br", <<>>), Node(2, "text", <<" ", "c">>),
     Node(1, "text", <<" ">>), Node(1, "skip", <<>>), Node(8, "text", <<"z">>),
     Node(1, "inline", <<>>), Node(10, "inline", <<>>), Node(11, "text", <<"d", "e">>),
     Node(10, "text", <<"f">>) >>

(* <div> <ul> <li>g</li> <li><br>h <i></i></li></ul><br><style>z</style></div> *)
Listed ==
  << Node(0, "block", <<>>), Node(1, "text", <<" ">>), Node(1, "block", <<>>),
     Node(3, "text", <<" ", " ">>), Node(3, "block", <<>>), Node(5, "text", <<"g">>),
     Node(3, "text", <<" ">>), Node(3, "block", <<>>), Node(8, "br", <<>>),
     Node(8, "text", <<"h", " ">>), Node(8, "inline", <<>>), Node(11, "text", <<>>),
     Node(1, "br", <<>>), Node(1, "skip", <<>>), Node(14, "text", <<"z">>) >>

(* <div>*<br><p>*a b</p> <p>c*</p></div>: * is an emoji. *)
Emoji ==
  << Node(0, "block", <<>>), Node(1, "text", <<"*">>), Node(1, "br", <<>>),
     Node(1, "inline", <<>>), Node(4, "text", <<"*", "a", " ", "b">>), Node(1, "text", <<" ">>),
     Node(1, "inline", <<>>), Node(7, "text", <<"c", "*">>) >>

(* <div><p>a~ b</p>~<p>c^ d</p>^<p>e</p></div>: ~ is whitespace in JavaScript *)
(* only, ^ in Python only.                                                   *)
Spaced ==
  << Node(0, "block", <<>>), Node(1, "inline", <<>>), Node(2, "text", <<"a", "~", " ", "b">>),
     Node(1, "text", <<"~">>), Node(1, "inline", <<>>), Node(5, "text", <<"c", "^", " ", "d">>),
     Node(1, "text", <<"^">>), Node(1, "inline", <<>>), Node(8, "text", <<"e">>) >>

(* From within a run of spaces past both breaks; a whole paragraph; a break  *)
(* alone, which is never reported. Of the other documents only the offsets   *)
(* are of interest.                                                          *)
PlainDocuments ==
  << [dom |-> Mixed, drags |-> { << <<3, 2>>, <<6, 2>> >>, << <<1, 3>>, <<1, 4>> >> }],
     [dom |-> Mixed, drags |-> { << <<2, 2>>, <<11, 1>> >>, << <<2, 1>>, <<2, 2>> >> }],
     [dom |-> Listed, drags |-> {}], [dom |-> Emoji, drags |-> {}], [dom |-> Spaced, drags |-> {}] >>

TabSymmetry == Permutations(Clients)
=============================================================================
