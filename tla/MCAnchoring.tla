------------------------------ MODULE MCAnchoring ------------------------------
(***************************************************************************)
(* Instances of Anchoring: short texts of two letters, a newline and a     *)
(* form feed, with quotations that overlap themselves, end a line or go    *)
(* over two; and JSON documents whose keys need escapes.                   *)
(***************************************************************************)
EXTENDS Anchoring, TLC

NewlineIs == "\n"
SeparatorIs == "\f"
Characters == {"a", "b", "\n", "\f"}

Texts == {<<"a">>, <<"a", "a">>, <<"a", "\n", "a">>, <<"b", "a", "\n">>,
          <<"a", "a", "a">>, <<"a", "\f", "a">>, <<"\n", "a", "b">>,
          <<"b", "a", "\n", "a">>, <<"a", "\n", "\n", "a">>}
Quotes == {<<"a">>, <<"a", "a">>, <<"a", "\n">>, <<"\n", "a">>, <<"\n">>}

TextOf(t, commit, basis) ==
  [text |-> t, commit |-> commit, basis |-> basis]

Contexts ==
  {<<>>} \cup {"prefix" :> <<"b">>, "suffix" :> <<"b">>,
               ("prefix" :> <<"\n">> @@ "suffix" :> <<"\n">>)}
TextSelectors(q) ==
  {[type |-> "text_quote", exact |-> q] @@ c : c \in Contexts}
    \cup {[type |-> "text_quote", exact |-> q, start |-> s, end |-> s + Len(q)]
            @@ c : s \in {0, 1}, c \in {<<>>, "prefix" :> <<"b">>}}
    \cup {[type |-> "char_range", exact |-> q, start |-> 1, end |-> 1 + Len(q)]}
    \cup {[type |-> "line_range", exact |-> q, start_line |-> l[1],
           end_line |-> l[2]] @@ c :
           l \in {<<1, 1>>, <<1, 2>>, <<2, 2>>}, c \in {<<>>, "suffix" :> <<"b">>}}
Other(q) ==
  {[type |-> "dom_text", exact |-> q],
   [type |-> "dom_text", exact |-> q, css_selector |-> "p"],
   [type |-> "page_range", exact |-> q, start_page |-> 1, end_page |-> 1],
   [type |-> "text_quote", exact |-> q, start |-> 1],
   [type |-> "text_quote", exact |-> <<"c">>]}
OnGit(q) ==
  [type |-> "git_line_range", exact |-> q, start_line |-> 1, end_line |-> 1,
   commit |-> 1]

Case(v, q, sel) == [version |-> v, quote |-> q, selector |-> sel]

Leaf(t) == [kind |-> "leaf", text |-> t]
ObjectOf(members) == [kind |-> "object", members |-> members, text |-> <<"{">>]
LongList ==
  [kind |-> "list", items |-> [i \in 1..11 |-> Leaf(<<IF i \in {1, 11} THEN "a" ELSE "b">>)],
   text |-> <<"[">>]
Nested == ObjectOf(<<"~">> :> Leaf(<<"a">>))
Document ==
  ObjectOf(<<"a", "/">> :> Leaf(<<"a">>) @@ <<"~", "1">> :> Leaf(<<"b">>)
            @@ <<"/">> :> Leaf(<<"b">>) @@ <<>> :> LongList
            @@ <<"a">> :> LongList @@ <<"0">> :> Nested)
JsonValues == {Document, Nested, LongList, Leaf(<<"a">>), Leaf(<<"b">>)}
ArabicDigits == "arabic-1" :> 1
ParsedText(t) == IF t = <<"{">> THEN Document ELSE Missing
PointersTried ==
  UNION {[1..n -> {"/", "~", "0", "1", "a", "arabic-1"}] : n \in 0..4}
Pointing ==
  {Case(TextOf(<<"{">>, 0, "request"), q,
        [type |-> "json_pointer", pointer |-> p]) :
     p \in {r \in PointersTried : r = <<>> \/ r[1] = "/"},
     q \in {<<"a">>, <<"b">>}}

Submissions ==
  UNION {{Case(TextOf(t, 0, "request"), q, sel) : sel \in TextSelectors(q),
            t \in Texts} : q \in Quotes}
    \cup {Case(TextOf(<<"a", "b">>, 0, basis), <<"a">>, sel) :
            sel \in Other(<<"a">>) \cup {OnGit(<<"a">>)},
            basis \in {"transient", "request", "retained", "binary", "none"}}
    \cup {Case(TextOf(t, commit, "request"), <<"a">>, OnGit(<<"a">>)) :
            t \in Texts, commit \in {1, 2}}
    \cup Pointing
================================================================================
