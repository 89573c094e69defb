------------------------------- MODULE Summary -------------------------------
(* The one-line summary of a decision's arguments, and what the upload     *)
(* report reads back from it.  It does so for decisions of an earlier      *)
(* release, which have no state per parameter: every value is in the line  *)
(* as JSON, whatever it holds, and may be cut.                             *)
(*                                                                         *)
(* The line is a text over the letters of Disclosure.  Punctuation is one  *)
(* letter each, a name is spelled by one, and a value may hold any of them.*)
EXTENDS Disclosure

CONSTANTS
  Mark, Escaped,       \* the quotation mark of JSON, and what one in a string becomes
  Comma, Colon, Equals, Open, Close, Null,
  Cut,                 \* what follows a text that was cut
  Digits,
  Spelling,            \* name -> its letter; in this order the names are sorted
  PlaceNames,          \* names that stand for a place in a list, and are not written
  MaxParam,            \* length a value may have (120 in the code)
  MaxSummary           \* length the line may have (2000 in the code)

Punctuation == {Mark, Escaped, Comma, Colon, Equals, Open, Close, Null, Cut}
Names == {Spelling[name] : name \in DOMAIN Spelling}

ASSUME SummaryAssumption ==
  /\ Punctuation \cup Names \cup Digits \subseteq Alphabet
  /\ Cardinality(Punctuation) = 9 /\ Punctuation \cap (Names \cup Digits) = {} /\ Names \cap Digits = {}
  /\ DOMAIN Spelling = DOMAIN Fold /\ Cardinality(Names) = Cardinality(DOMAIN Spelling)
  /\ MaxParam \in Nat /\ MaxSummary \in Nat

(********************************* writing **********************************)

\* Mutant: a quotation mark in a string stays as it is.
Quoted_Unescaped(text) == <<Mark>> \o text \o <<Mark>>

Quoted(text) ==
  <<Mark>> \o [i \in DOMAIN text |-> IF text[i] = Mark THEN Escaped ELSE text[i]] \o <<Mark>>

Joined(pieces) ==
  FoldLeft(LAMBDA line, piece : IF line = <<>> THEN piece ELSE line \o <<Comma>> \o piece, <<>>, pieces)

Truncate(text, limit) ==
  IF Len(text) <= limit THEN text ELSE SubSeq(text, 1, limit) \o <<Cut>>

NamesBelow(positions, at) ==
  SetToSortSeq({p.at[Len(at) + 1] : p \in {q \in positions : IsStrictPrefix(at, q.at)}},
               LAMBDA a, b : Spelling[a] < Spelling[b])

(* The value at a path, with the keys of every mapping sorted.             *)
RECURSIVE JsonText(_, _)
JsonText(positions, at) ==
  LET p == CHOOSE p \in positions : p.at = at
      Item(name) ==
        (IF name \in PlaceNames THEN <<>> ELSE Quoted(<<Spelling[name]>>) \o <<Colon>>)
          \o JsonText(positions, Append(at, name))
      names == NamesBelow(positions, at)
  IN CASE p.kind = "str"  -> Quoted(p.text)
       [] p.kind = "num"  -> p.text
       [] p.kind = "none" -> <<Null>>
       [] p.kind = "container" -> <<Open>> \o Joined([i \in DOMAIN names |-> Item(names[i])]) \o <<Close>>

(* One piece per parameter, each cut to its length, and the line cut too.  *)
Line(pairs) ==
  Truncate(Joined([i \in DOMAIN pairs |->
             pairs[i].name \o <<Equals>> \o Truncate(pairs[i].value, MaxParam)]), MaxSummary)

BoundedSummary(positions) ==
  LET names == NamesBelow(positions, <<>>)
  IN Line([i \in DOMAIN names |-> [name |-> <<Spelling[names[i]]>>, value |-> JsonText(positions, <<names[i]>>)]])

(********************************* reading **********************************)

(* The first place from i on that Test holds of, or the one after the end. *)
FirstAt(text, i, Test(_)) ==
  Min({j \in i .. Len(text) : Test(text[j])} \cup {Len(text) + 1})

(* The place after the string that starts at i; 0 where none does.         *)
StringEnd(text, i) ==
  LET last == FirstAt(text, i + 1, LAMBDA letter : letter = Mark)
  IN IF i <= Len(text) /\ text[i] = Mark /\ last <= Len(text) THEN last + 1 ELSE 0

(* The place after the value that starts at i, as the JSON decoder finds   *)
(* it; 0 where there is none.                                              *)
RECURSIVE ValueEnd(_, _), ItemsEnd(_, _)
ValueEnd(text, i) ==
  IF i > Len(text) THEN 0
  ELSE CASE text[i] = Mark      -> StringEnd(text, i)
         [] text[i] = Null      -> i + 1
         [] text[i] \in Digits  -> FirstAt(text, i, LAMBDA letter : letter \notin Digits)
         [] text[i] = Open      -> IF i < Len(text) /\ text[i + 1] = Close THEN i + 2 ELSE ItemsEnd(text, i + 1)
         [] OTHER               -> 0

ItemsEnd(text, i) ==
  LET key == StringEnd(text, i)
      end == ValueEnd(text, IF key \in DOMAIN text /\ text[key] = Colon THEN key + 1 ELSE i)
  IN IF end \notin DOMAIN text THEN 0
     ELSE CASE text[end] = Close -> end + 1
            [] text[end] = Comma -> ItemsEnd(text, end + 1)
            [] OTHER             -> 0

IsIdentifier(text) ==
  text # <<>> /\ Letters(text) \subseteq Names \cup Digits /\ text[1] \notin Digits

(* {} or {the pairs read from i to the end of the line}.                   *)
RECURSIVE PairsFrom(_, _)
PairsFrom(line, i) ==
  IF i > Len(line) THEN {<<>>}
  ELSE LET equals == FirstAt(line, i, LAMBDA letter : letter = Equals)
           name   == SubSeq(line, i, equals - 1)
           end    == ValueEnd(line, equals + 1)
           pair   == [name |-> name, value |-> SubSeq(line, equals + 1, end - 1)]
       IN IF ~IsIdentifier(name) \/ end = 0 THEN {}
          ELSE IF end > Len(line) THEN {<<pair>>}
          ELSE IF line[end] # Comma THEN {}
          ELSE {<<pair>> \o rest : rest \in PairsFrom(line, end + 1)}

(* What was read must be sorted, without a name twice, and give the very   *)
(* line again.  (Keys inside a value are not looked at, and of two names   *)
(* the first letters: the decoder refuses more.)                           *)
ParseExactSummary(line) ==
  IF line # <<>> /\ Last(line) = Cut THEN {}
  ELSE {pairs \in PairsFrom(line, 1) :
          /\ \A i, j \in DOMAIN pairs : i < j => /\ pairs[i].name # pairs[j].name
                                                 /\ pairs[i].name[1] <= pairs[j].name[1]
          /\ Line(pairs) = line}

ValueState(value) ==
  IF value = Quoted(<<Marker>>) THEN "redacted"
  ELSE IF IsPrefix(<<Mark, Unsupported>>, value) THEN "unsupported" ELSE "retained"

ClassifySummary(line) ==
  IF line = <<>> THEN "no_arguments"
  ELSE LET parsed == ParseExactSummary(line)
       IN IF parsed = {} THEN "unknown"
          ELSE ClassOf({ValueState(pairs[i].value) : <<pairs, i>> \in
                          {<<q, k>> \in parsed \X (1 .. Len(line)) : k \in DOMAIN q}})

(******************************** properties ********************************)

(* Read back, a summary says what the states of the parameters say, though *)
(* values may hold the punctuation of the line and be cut anywhere in it;  *)
(* only where something was cut may it say nothing instead                 *)
(* (privacy._classify_summary beside privacy._classify_retention,          *)
(* redaction.bounded_summary).                                             *)
SummaryAgrees ==
  \A d \in decision :
    LET line == BoundedSummary(d.input) IN
    \/ ClassifySummary(line) = ClassifyRetention(d.retention)
    \/ ClassifySummary(line) = "unknown" /\ Cut \in Letters(line)
=============================================================================
