------------------------------- MODULE Anchoring -------------------------------
(***************************************************************************)
(* Where a quotation is: how a selector that a client submits is resolved  *)
(* against the content of a source version (domain/evidence.py), what a    *)
(* deposit makes of it (application/evidence_anchors.py), and how a later  *)
(* capture finds the quotation again (ingestion/reanchor.py and            *)
(* _reanchored_selector of application/refresh.py).                        *)
(*                                                                         *)
(* A text is a sequence of characters, positions count from 0 as in the    *)
(* code: Slice(t, i, j) is t[i:j].                                         *)
(***************************************************************************)
EXTENDS Integers, Sequences, FiniteSets, SequencesExt

CONSTANTS
  Submission,      \* a version of a source, a quotation and a selector for it
  Value,           \* the values that JSON documents consist of
  Parsed(_),       \* what a text is as JSON
  OtherDigits,     \* digits of other scripts, with what int() makes of them
  Character,       \* what a change of the source may insert
  Newline,         \* "\n"
  Separator,       \* another character that ends a line, such as "\f"
  MaxText,         \* the longest text of a source (a bound)
  MaxCaptures      \* how often it is captured again (a bound)

\* What contracts/v2.py lets in: a quotation is not empty, offsets and lines are
\* in order, and each type of selector has its fields.
SelectorWellFormed(sel) ==
  /\ "type" \in DOMAIN sel
  /\ sel.type = "char_range" => {"start", "end"} \subseteq DOMAIN sel
  /\ sel.type = "dom_text" => "start" \notin DOMAIN sel
  /\ {"start", "end"} \subseteq DOMAIN sel =>
       sel.start \in Nat /\ sel.end \in Nat /\ sel.start <= sel.end
  /\ sel.type \in {"line_range", "git_line_range"} =>
       /\ {"start_line", "end_line"} \subseteq DOMAIN sel
       /\ sel.start_line \in Nat \ {0} /\ sel.end_line \in Nat
       /\ sel.start_line <= sel.end_line
       /\ DOMAIN sel \cap {"start", "end"} = {}
  /\ sel.type = "git_line_range" => "commit" \in DOMAIN sel
  /\ sel.type = "json_pointer" =>
       /\ "pointer" \in DOMAIN sel /\ DOMAIN sel \cap {"start", "end"} = {}
       /\ sel.pointer \in Seq(Range(sel.pointer))
       /\ sel.pointer # <<>> => sel.pointer[1] = "/"

\* Values in a JSON document: an object with its members, a list with its
\* items, or another; and for each how it is written.  A key is a text.
Missing == [kind |-> "missing", text |-> <<>>]
Malformed == [kind |-> "malformed", text |-> <<>>]

Digits == <<"0", "1", "2", "3", "4", "5", "6", "7", "8", "9">>

ASSUME AnchoringAssumption ==
  /\ Newline # Separator
  /\ MaxText \in Nat /\ MaxCaptures \in Nat
  /\ \A s \in Submission :
       /\ DOMAIN s.version = {"text", "commit", "basis"}
       /\ s.version.text \in Seq(Range(s.version.text))
       /\ Len(s.version.text) <= MaxText
       /\ s.version.commit \in Nat
       /\ s.quote \in Seq(Range(s.quote)) /\ s.quote # <<>>
       /\ SelectorWellFormed(s.selector)
       /\ Parsed(s.version.text) \in Value \cup {Missing}
  /\ \A v \in Value :
       /\ v.kind = "object" => \A key \in DOMAIN v.members :
            key \in Seq(Range(key)) /\ v.members[key] \in Value
       /\ v.kind = "list" => v.items \in Seq(Value)
  /\ OtherDigits \in [DOMAIN OtherDigits -> 0..9]
  /\ DOMAIN OtherDigits \cap ({"~", "/"} \cup Range(Digits)) = {}

VARIABLES
  submitted,       \* the submission
  version,         \* the version the evidence is on, and its content
  evidence_,       \* its state and its selector
  captures         \* captures that found the source changed

anchorVars == <<submitted, version, evidence_, captures>>

quote == submitted.quote
Has(sel, field) == field \in DOMAIN sel
Slice(t, i, j) == SubSeq(t, i + 1, IF j < Len(t) THEN j ELSE Len(t))

Resolved(start, end) == [outcome |-> "resolved", start |-> start, end |-> end]
Fails(outcome) == [outcome |-> outcome]

---------------------------------------------------------------------------
(* Quotations in a text. *)

ContextMatches(t, start, end, sel) ==
  /\ Has(sel, "prefix") => IsSuffix(sel.prefix, Slice(t, 0, start))
  /\ Has(sel, "suffix") => IsPrefix(sel.suffix, Slice(t, end, Len(t)))

\* Variant: the search goes on behind a match.
AfterMatch(start, q) == start + Len(q)

NextPosition(start, q) == start + 1

\* The places of q between lower and upper, from left to right.
FindAll(t, q, lower, upper, sel) ==
  LET from[p \in lower..(upper + Len(q))] ==
        IF p + Len(q) > upper THEN <<>>
        ELSE IF Slice(t, p, p + Len(q)) = q
          THEN (IF ContextMatches(t, p, p + Len(q), sel) THEN <<p>> ELSE <<>>)
                 \o from[NextPosition(p, q)]
        ELSE from[p + 1]
  IN from[lower]

UniqueTextMatch(t, q, lower, upper, sel) ==
  LET matches == FindAll(t, q, lower, upper, sel) IN
  CASE Len(matches) = 0 -> Fails("unresolved")
    [] Len(matches) = 1 -> Resolved(matches[1], matches[1] + Len(q))
    [] OTHER -> Fails("ambiguous")

AtOffsets(t, q, sel) ==
  IF /\ sel.end <= Len(t)
     /\ Slice(t, sel.start, sel.end) = q
     /\ ContextMatches(t, sel.start, sel.end, sel)
    THEN Resolved(sel.start, sel.end) ELSE Fails("unresolved")

\* The lines of str.splitlines: the last one need not end in a separator.
EndsLine(t, i) == i = Len(t) \/ t[i] \in {Newline, Separator}
LineCount(t) == Cardinality({i \in 1..Len(t) : EndsLine(t, i)})
LineEnd(t, line) ==
  IF line = 0 THEN 0
  ELSE CHOOSE i \in 1..Len(t) :
         EndsLine(t, i) /\ Cardinality({j \in 1..i : EndsLine(t, j)}) = line

InLines(t, q, sel) ==
  IF sel.end_line > LineCount(t) THEN Fails("unresolved")
  ELSE UniqueTextMatch(t, q, LineEnd(t, sel.start_line - 1),
                       LineEnd(t, sel.end_line), sel)

---------------------------------------------------------------------------
(* Pointers into a JSON document.  What a text is in front of a position    *)
(* depends on the characters before it only.                               *)

BadEscape(token) ==
  \E i \in 1..Len(token) :
    token[i] = "~" /\ (i = Len(token) \/ token[i + 1] \notin {"0", "1"})

\* str.replace of "~" and a digit: two of them cannot overlap.
Unescape(token, digit, ch) ==
  LET upto[n \in 0..Len(token)] ==
        IF n = 0 THEN <<>>
        ELSE IF n > 1 /\ token[n - 1] = "~" /\ token[n] = digit
          THEN Append(upto[n - 2], ch)
        ELSE Append(upto[n - 1], token[n])
  IN upto[Len(token)]

Decode(token) == Unescape(Unescape(token, "1", "/"), "0", "~")

\* str.isdigit and int take the digits of every script; those that only
\* isdigit takes fail a deposit, as what is no index does.
DigitOf(ch) ==
  IF ch \in DOMAIN OtherDigits THEN OtherDigits[ch]
  ELSE CHOOSE d \in 0..9 : Digits[d + 1] = ch
IsIndex(token) ==
  /\ token # <<>> /\ Range(token) \subseteq Range(Digits) \cup DOMAIN OtherDigits
  /\ Len(token) > 1 => token[1] # "0"
IndexOf(token) ==
  LET upto[n \in 0..Len(token)] ==
        IF n = 0 THEN 0 ELSE 10 * upto[n - 1] + DigitOf(token[n])
  IN upto[Len(token)]

Into(value, token) ==
  IF value \in {Missing, Malformed} THEN value
  ELSE IF BadEscape(token) THEN Malformed
  ELSE LET key == Decode(token) IN
    CASE value.kind = "object" /\ key \in DOMAIN value.members ->
           value.members[key]
      [] value.kind = "list" /\ IsIndex(key) /\ IndexOf(key) < Len(value.items) ->
           value.items[IndexOf(key) + 1]
      [] OTHER -> Missing

\* A token goes from a slash to the next one.
LastSlash(pointer, n) ==
  CHOOSE i \in 1..n :
    pointer[i] = "/" /\ \A j \in (i + 1)..n : pointer[j] # "/"

ValueAt(value, pointer) ==
  LET upto[n \in 0..Len(pointer)] ==
        IF n = 0 THEN value
        ELSE Into(upto[LastSlash(pointer, n) - 1],
                  SubSeq(pointer, LastSlash(pointer, n) + 1, n))
  IN upto[Len(pointer)]

AtPointer(value, q, sel) ==
  LET target == ValueAt(value, sel.pointer) IN
  CASE target = Malformed -> Fails("invalid")
    [] target # Missing /\ target.text = q -> Fails("resolved")
    [] OTHER -> Fails("unresolved")

---------------------------------------------------------------------------
(* Selectors. *)

OnLines(sel) == sel.type \in {"line_range", "git_line_range"}
OfText(sel) == sel.type \in {"text_quote", "char_range"} \/ OnLines(sel)

ResolveExact(v, sel, q) ==
  LET t == v.text IN
  CASE Has(sel, "exact") /\ sel.exact # q -> Fails("invalid")
    [] sel.type = "json_pointer" -> AtPointer(Parsed(t), q, sel)
    [] sel.type = "char_range" ->
         IF Slice(t, sel.start, sel.end) = q THEN Resolved(sel.start, sel.end)
                                             ELSE Fails("unresolved")
    [] OnLines(sel) ->
         IF sel.type = "git_line_range" /\ sel.commit # v.commit
           THEN Fails("unresolved") ELSE InLines(t, q, sel)
    [] sel.type = "text_quote" /\ Has(sel, "start") # Has(sel, "end") ->
         Fails("invalid")
    [] sel.type = "text_quote" /\ Has(sel, "start") -> AtOffsets(t, q, sel)
    [] OTHER -> UniqueTextMatch(t, q, 0, Len(t), sel)

\* The content of a version is at hand if the deposit brings it, or if it was
\* retained and is text.
ContentAvailable(v) == v.basis \in {"transient", "request", "retained"}

\* No version has an index of pages or of elements.
SelectorUnavailable(v, sel) ==
  \/ ~ContentAvailable(v)
  \/ sel.type = "page_range"
  \/ sel.type = "dom_text" /\ Has(sel, "css_selector")

\* What a deposit makes of a selector; one that is rejected fails it.
ValidateAnchor(v, sel, q) ==
  IF Has(sel, "exact") /\ sel.exact # q THEN "rejected"
  ELSE IF SelectorUnavailable(v, sel) THEN "unverified"
  ELSE IF ResolveExact(v, sel, q).outcome = "resolved" THEN "resolved"
  ELSE "rejected"

Validate ==
  /\ evidence_.state = "submitted"
  /\ evidence_' = [evidence_ EXCEPT
                    !.state = ValidateAnchor(version, evidence_.selector, quote)]
  /\ UNCHANGED <<submitted, version, captures>>

---------------------------------------------------------------------------
(* A capture of the source after it has changed. *)

\* The line of a position, counted in newlines.
LineOf(t, p) == 1 + Cardinality({i \in 1..p : t[i] = Newline})

LastLine(t, start, end) == LineOf(t, IF end - 1 > start THEN end - 1 ELSE start)

ReanchoredSelector(t, commit, sel, found) ==
  [field \in DOMAIN sel \cup (IF OnLines(sel) THEN {} ELSE {"start", "end"}) |->
    CASE field = "start" -> found.start
      [] field = "end" -> found.end
      [] field = "start_line" -> LineOf(t, found.start)
      [] field = "end_line" -> LastLine(t, found.start, found.end)
      [] field = "commit" -> commit
      [] OTHER -> sel[field]]

\* The whole text is searched, with the context of the selector.
ReanchorText(t, sel, q) == UniqueTextMatch(t, q, 0, Len(t), sel)

ChangesOf(t) ==
  {RemoveAt(t, i) : i \in 1..Len(t)}
    \cup (IF Len(t) < MaxText
            THEN {InsertAt(t, i, ch) : i \in 1..(Len(t) + 1), ch \in Character}
            ELSE {})

\* The evidence gets a successor on the new version, or a refresh is enqueued.
\* Only versions from Git have a commit, and only there a file is found again
\* that was moved: with the content it had.
Recapture ==
  /\ evidence_.state \in {"resolved", "relocated", "unverified"}
  /\ captures < MaxCaptures
  /\ captures' = captures + 1
  /\ \E moved \in {FALSE, version.commit # 0} :
     \E t \in IF moved THEN {version.text} ELSE ChangesOf(version.text) :
       LET commit == IF version.commit = 0 THEN 0 ELSE version.commit + 1
           sel == evidence_.selector
           found == ReanchorText(t, sel, quote)
       IN
       /\ version' = [version EXCEPT !.text = t, !.commit = commit,
                                     !.basis = "retained"]
       /\ evidence_' =
            IF /\ OfText(sel) /\ found.outcome = "resolved"
               /\ sel.type = "git_line_range" => commit # 0
              THEN [state |-> IF moved THEN "relocated" ELSE "resolved",
                    selector |-> ReanchoredSelector(t, commit, sel, found)]
              ELSE [evidence_ EXCEPT !.state = "lost"]
  /\ UNCHANGED submitted

AnchorInit ==
  /\ submitted \in Submission
  /\ version = submitted.version
  /\ evidence_ = [state |-> "submitted", selector |-> submitted.selector]
  /\ captures = 0

AnchorNext == Validate \/ Recapture

AnchorSpec == AnchorInit /\ [][AnchorNext]_anchorVars

AnchorTypeOK ==
  /\ Len(version.text) <= MaxText
  /\ evidence_.state \in {"submitted", "resolved", "relocated", "unverified",
                          "rejected", "lost"}
  /\ captures \in 0..MaxCaptures

---------------------------------------------------------------------------
(* Properties. *)

\* Evidence that is called resolved is where its selector says, on the version
\* it is on: also after captures moved it, whatever was inserted or removed
\* around it.  Not so the lines of a text with separators that str.splitlines
\* knows and the count of newlines does not.
AnchoredResolves ==
  evidence_.state \in {"resolved", "relocated"} =>
    \/ ResolveExact(version, evidence_.selector, quote).outcome = "resolved"
    \/ /\ captures > 0 /\ OnLines(evidence_.selector)
       /\ Separator \in Range(version.text)

\* What a selector may mean, stated without a search: the places of the
\* quotation in its context, those on its lines; the keys and indexes on the way
\* to a value of a JSON document.
Places(t, q, sel) ==
  {p \in 0..(Len(t) - Len(q)) :
     Slice(t, p, p + Len(q)) = q /\ ContextMatches(t, p, p + Len(q), sel)}
TrueLine(t, p) ==
  1 + Cardinality({i \in 1..p : t[i] \in {Newline, Separator}})
TrueLines(t) == IF t = <<>> THEN 0 ELSE TrueLine(t, Len(t) - 1)
PlacesOnLines(t, q, sel) ==
  {p \in Places(t, q, sel) :
     /\ TrueLine(t, p) >= sel.start_line
     /\ TrueLine(t, p + Len(q) - 1) <= sel.end_line
     /\ sel.end_line <= TrueLines(t)}

\* RFC 6901 from a path to a pointer, which is read without cutting it up.
Escaped(ch) ==
  CASE ch = "~" -> <<"~", "0">> [] ch = "/" -> <<"~", "1">> [] OTHER -> <<ch>>
Escape(key) ==
  LET upto[n \in 0..Len(key)] ==
        IF n = 0 THEN <<>> ELSE upto[n - 1] \o Escaped(key[n])
  IN upto[Len(key)]
Decimal(index) ==
  LET of[n \in 0..index] ==
        IF n < 10 THEN <<Digits[n + 1]>>
        ELSE Append(of[n \div 10], Digits[(n % 10) + 1])
  IN of[index]
KeysOf(value) ==
  CASE value.kind = "object" ->
         {<<Escape(key), value.members[key]>> : key \in DOMAIN value.members}
    [] value.kind = "list" ->
         {<<Decimal(i - 1), value.items[i]>> : i \in 1..Len(value.items)}
    [] OTHER -> {}
Under(value, step) == {k[2] : k \in {k \in KeysOf(value) : step = <<"/">> \o k[1]}}
ValuesAt(value, pointer) ==
  LET upto[n \in 0..Len(pointer)] ==
        IF n = 0 THEN {value}
        ELSE UNION {UNION {Under(from, SubSeq(pointer, m + 1, n)) :
                             from \in upto[m]} : m \in 0..(n - 1)}
  IN upto[Len(pointer)]

Unambiguous(v, sel, q) ==
  CASE sel.type = "json_pointer" ->
         \E target \in ValuesAt(Parsed(v.text), sel.pointer) : target.text = q
    [] OnLines(sel) -> Cardinality(PlacesOnLines(v.text, q, sel)) = 1
    [] OTHER -> Cardinality(Places(v.text, q, sel)) = 1

\* A quotation without offsets is accepted if and only if it is there once, on
\* the lines that are named, or where the pointer points, but for an index in
\* digits that RFC 6901 does not know; and a capture finds it again if and only
\* if it is there once.
AnchoredOnce ==
  LET sel == submitted.selector IN
  /\ captures = 0 /\ ~Has(sel, "start") /\ ~SelectorUnavailable(version, sel) =>
       /\ evidence_.state = "resolved" =>
            \/ Unambiguous(version, sel, quote)
            \/ /\ sel.type = "json_pointer"
               /\ Range(sel.pointer) \cap DOMAIN OtherDigits # {}
       /\ evidence_.state = "rejected" =>
            \/ ~Unambiguous(version, sel, quote)
            \/ Has(sel, "exact") /\ sel.exact # quote
            \/ Has(sel, "end")
            \/ sel.type = "git_line_range" /\ sel.commit # version.commit
  /\ captures > 0 =>
       (evidence_.state # "lost" <=>
          /\ OfText(sel)
          /\ sel.type = "git_line_range" => version.commit # 0
          /\ Cardinality(Places(version.text, quote, sel)) = 1)

\* Both: what is called resolved can be opened, and stands for one place only.
AnchoredTruly == AnchoredResolves /\ AnchoredOnce
================================================================================
