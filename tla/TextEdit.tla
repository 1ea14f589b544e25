------------------------------- MODULE TextEdit -------------------------------
(***************************************************************************)
(* replace_text (services/text_edit.py): what edit_file makes of a text.   *)
(* A text is a sequence of characters, of which there is one of each kind  *)
(* the code tells apart: "x" a letter, "p" a plain quote and "t" its       *)
(* typographic form, "s" a space, "r" and "n" the two line-ending ones.    *)
(***************************************************************************)
EXTENDS Integers, Sequences, FiniteSets, SequencesExt

Chars == {"x", "p", "t", "s", "r", "n"}
Refused == <<>>  \* EditError; an edit's outcome is otherwise <<the new text>>

Plain(c) == IF c = "t" THEN "p" ELSE c
PlainText(text) == [i \in DOMAIN text |-> Plain(text[i])]

\* replace("\r\n", "\n") and back.
UnixEndings(text) ==
  FlattenSeq([i \in DOMAIN text |->
    IF text[i] = "r" /\ i < Len(text) /\ text[i + 1] = "n" THEN <<>> ELSE <<text[i]>>])
WindowsEndings(text) ==
  FlattenSeq([i \in DOMAIN text |-> IF text[i] = "n" THEN <<"r", "n">> ELSE <<text[i]>>])
\* Every line ends in "\r\n".
AfterReturns(text) == \A i \in DOMAIN text : text[i] = "n" => i > 1 /\ text[i - 1] = "r"
Windows(text) == AfterReturns(text) /\ \E i \in DOMAIN text : text[i] = "n"

\* A place in a text is <<start, stop>>: the characters after start, up to stop.
Between(text, place) == SubSeq(text, place[1] + 1, place[2])
Nowhere == <<>>

\* Those of some places that begin after the last one taken has ended.
Joined(taken, place) ==
  IF place # Nowhere /\ (taken = <<>> \/ taken[Len(taken)][2] <= place[1])
  THEN Append(taken, place) ELSE taken
Spaced(places) ==
  LET taken[k \in 0..Len(places)] ==
        IF k = 0 THEN <<>> ELSE Joined(taken[k - 1], places[k])
  IN  taken[Len(places)]

\* _occurrences: find, again and again from where the last one ended.
PlaceAt(text, search, start) ==
  LET place == <<start, start + Len(search)>>
  IN  IF place[2] <= Len(text) /\ Between(text, place) = search THEN place ELSE Nowhere
Occurrences(text, search) ==
  Spaced([i \in 1..(Len(text) + 1) |-> PlaceAt(text, search, i - 1)])

----------------------------------------------------------------------------
\* split("\n"): where each line lies, without its end; the last may be empty.
Extended(rows, i, c) ==
  IF c = "n" THEN Append(rows, <<i, i>>) ELSE [rows EXCEPT ![Len(rows)] = <<@[1], i>>]
Rows(text) ==
  LET rows[i \in 0..Len(text)] ==
        IF i = 0 THEN <<<<0, 0>>>> ELSE Extended(rows[i - 1], i, text[i])
  IN  rows[Len(text)]
EndsLine(text) == text # <<>> /\ text[Len(text)] = "n"
\* How many lines a search has, or _LINE finds in a text.
Lines(text) == Len(Rows(text)) - (IF text = <<>> \/ EndsLine(text) THEN 1 ELSE 0)

\* A line as it is compared, and the lines of a text.
Bare(line) ==
  LET last == {i \in DOMAIN line : line[i] \notin {"s", "r", "n"}}
  IN  PlainText(SubSeq(line, 1, IF last = {} THEN 0 ELSE CHOOSE i \in last : \A k \in last : k <= i))
Split(text) == [k \in DOMAIN Rows(text) |-> Bare(Between(text, Rows(text)[k]))]

\* _line_occurrences: blocks of whole lines, the last one without its end when
\* the search has none.
Block(text, search, k) ==
  <<Rows(text)[k][1],
    Rows(text)[k + Lines(search) - 1][2] + (IF EndsLine(search) THEN 1 ELSE 0)>>
BlockAt(text, search, k) ==
  IF /\ k + Lines(search) - 1 <= Lines(text)
     /\ \A i \in 1..Lines(search) : Split(text)[k + i - 1] = Split(search)[i]
     /\ Block(text, search, k)[2] <= Len(text)
  THEN Block(text, search, k) ELSE Nowhere
LineOccurrences(text, search) ==
  Spaced([k \in DOMAIN Rows(text) |-> BlockAt(text, search, k)])

----------------------------------------------------------------------------
\* Exact places, else typographic ones, else lines.
Else(places, others) == IF places # <<>> THEN places ELSE others
Found(view, search) ==
  Else(Occurrences(view, search),
       Else(Occurrences(PlainText(view), PlainText(search)), LineOccurrences(view, search)))

LineOf(text, offset) == 1 + Cardinality({i \in 1..offset : text[i] = "n"})

\* All places, or the first; of several the first one at the line.
Picked(view, found, all, line) ==
  LET there == {j \in DOMAIN found : LineOf(view, found[j][1]) = line}
  IN  CASE all \/ Len(found) <= 1 -> found
        [] ~all /\ Len(found) > 1 /\ there = {} -> <<>>
        [] OTHER -> <<found[CHOOSE j \in there : \A k \in there : j <= k]>>

\* The text with new in place of every one of some places, the last one first.
Filled(text, place, new) ==
  Between(text, <<0, place[1]>>) \o new \o Between(text, <<place[2], Len(text)>>)
Replaced(text, places, new) ==
  LET after[k \in 0..Len(places)] ==
        IF k = 0 THEN text ELSE Filled(after[k - 1], places[Len(places) + 1 - k], new)
  IN  after[Len(places)]

\* What is searched and, afterwards, written.
View(source) == IF Windows(source) THEN UnixEndings(source) ELSE source
Written(source, edited) == IF Windows(source) THEN WindowsEndings(edited) ELSE edited

\* line is 0 when none is given.
ReplaceText(source, old, new, all, line) ==
  LET view == View(source)
      places == Picked(view, Found(view, UnixEndings(old)), all, line)
      text == Written(source, Replaced(view, places, UnixEndings(new)))
  IN  IF old = <<>> \/ old = new \/ places = <<>> \/ text = source THEN Refused ELSE <<text>>

----------------------------------------------------------------------------
\* Two texts a lenient match takes for the same: line by line, with plain
\* quotes and without what trails.
Alike(a, b) == Split(a) = Split(b)

\* The text after the edit is the view with new for what lies between i and k.
CutsOut(source, after, view, search, new, line, i, k) ==
  LET places == {p \in (0..Len(view)) \X (0..Len(view)) : Between(view, p) = search}
  IN  /\ after = Written(source, Filled(view, <<i, k>>, new))
      /\ IF places # {} THEN <<i, k>> \in places ELSE Alike(Between(view, <<i, k>>), search)
      /\ line = 0 => ~\E p \in places : (p[2] <= i \/ p[1] >= k) /\ p[1] < p[2]
EditSound(source, after, view, search, new, line) ==
  after # Refused =>
    /\ \E i, k \in 0..Len(view) : i <= k /\ CutsOut(source, after[1], view, search, new, line, i, k)
    /\ Windows(source) => AfterReturns(after[1])

\* An edit of one place takes out one stretch of the text that is old, or looks
\* like it when old is nowhere in it, and keeps every other character; the
\* stretch is the only one of its kind unless a line was given, and Windows
\* line endings stay.
EditsOnePlace(source, old, new, line) ==
  EditSound(source, ReplaceText(source, old, new, FALSE, line), View(source),
            UnixEndings(old), UnixEndings(new), line)
=============================================================================
