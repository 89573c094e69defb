----------------------------- MODULE Disclosure -----------------------------
(* What the records of one guarded call tell: the arguments are redacted   *)
(* and made canonical in one traversal, the decision keeps the redacted    *)
(* form and the state of each parameter (its summary is module Summary);   *)
(* the outcome keeps a hash of the result, a receipt, or the scrubbed text *)
(* of the error.                                                           *)
(* Readers classify the records for upload and compare the receipt with    *)
(* the provider.                                                            *)
(*                                                                          *)
(* The arguments are a graph: a node has a kind, a text (what str() gives; *)
(* for a container it is opaque) and items, each a name and a node.  A text *)
(* is a sequence of letters; the two markers are one letter each.           *)
EXTENDS Naturals, FiniteSetsExt, SequencesExt

CONSTANTS
  Alphabet,     \* the letters
  Heaps,        \* argument graphs: [Nodes -> node], Root is the dict of arguments
  Nodes, Root,
  Fold,         \* spelling of a name -> folded name; "" when nothing is left
  BuiltIn,      \* folded names that are always sensitive
  Declared,     \* sets of spellings a decorator may declare
  Patterns,     \* sequence of texts: a value that holds one is removed
  MinScrub,     \* shorter values are not scrubbed from errors (4 in the code)
  MaxDepth,     \* nesting that is still walked (64 in the code)
  MaxError,     \* length of an error summary (300 in the code)
  Quote, Marker, Unsupported, Container, Other   \* letters of their own

NodeKinds == {"none", "num", "nan", "str", "object", "oddkeys", "list", "dict", "record"}

ASSUME DisclosureAssumption ==
  /\ Root \in Nodes /\ IsFiniteSet(Nodes)
  /\ {Quote, Marker, Unsupported, Container, Other} \subseteq Alphabet
  /\ Patterns \in Seq(Seq(Alphabet) \ {<<>>})
  /\ MinScrub \in Nat \ {0} /\ MaxDepth \in Nat
  /\ MaxError \in Nat
  /\ Other \notin {Quote, Marker, Unsupported, Container}
  /\ Quote \notin {Marker, Unsupported, Container}
  /\ Marker \notin {Unsupported, Container} /\ Unsupported # Container

(* Items have names, each its own where they are named; those of a list    *)
(* have one that stands for their place, and that no declaration folds to. *)
(* A quote stands for what an error has around a text, and is in none.     *)
ASSUME HeapAssumption ==
  /\ Declared \subseteq SUBSET DOMAIN Fold
  /\ \A h \in Heaps, n \in Nodes :
       /\ h[n].kind \in NodeKinds
       /\ h[n].text \in Seq(Alphabet \ {Quote}) /\ h[n].text # <<Other>>
       /\ \A i \in DOMAIN h[n].items :
            /\ h[n].items[i].name \in DOMAIN Fold /\ h[n].items[i].node \in Nodes
            /\ h[n].kind = "list" =>
                 Fold[h[n].items[i].name] \notin BuiltIn \cup {Fold[name] : name \in UNION Declared}
       /\ h[n].kind \in {"dict", "record"} =>
            \A i, j \in DOMAIN h[n].items : h[n].items[i].name = h[n].items[j].name => i = j
  /\ \A h \in Heaps : h[Root].kind = "dict"

VARIABLES
  heap,      \* the bound arguments
  extras,    \* names declared with redact=[...]
  pc,        \* "decorate", "call", "decided", "ran", or "done"
  removed,   \* texts the traversal took out of the arguments
  decision,  \* {} or {the decision event}
  outcome,   \* {} or {the outcome event}
  report     \* {} or {what a reader concluded}

records == <<heap, extras, pc, removed, decision, outcome, report>>

Letters(text) == {text[i] : i \in DOMAIN text}

Occurs(part, text) ==
  \E i \in 0 .. Len(text) - Len(part) : SubSeq(text, i + 1, i + Len(part)) = part

(***************************** names and values *****************************)

(* Spellings are folded once, when the function is decorated. *)
SensitiveSet(declared) == BuiltIn \cup {Fold[name] : name \in declared}

IsSensitive(name, sensitive) == Fold[name] \in sensitive

MatchesPatterns(text) == \E i \in DOMAIN Patterns : Occurs(Patterns[i], text)

\* Mutant: the fields of a record are not looked at.
Named_DictsOnly(node) == node.kind = "dict"
(* Only these containers give their items names. *)
Named(node) == node.kind \in {"dict", "record"}

Position(kind, text) == [at |-> <<>>, kind |-> kind, text |-> text]

Leaf(kind, text) == [ok |-> TRUE, positions |-> {Position(kind, text)}, removed |-> {}]

Fails == [ok |-> FALSE, positions |-> {}, removed |-> {}]

(* Empty strings and None are replaced too, and leave nothing to look for. *)
Redact(node) ==
  [Leaf("str", <<Marker>>) EXCEPT
     !.removed = IF node.kind = "none" THEN {} ELSE {node.text} \ {<<>>}]

Under(name, walked) ==
  {[p EXCEPT !.at = <<name>> \o p.at] : p \in walked.positions}

(* What the items of a node are replaced by.                               *)
Contained(h, sensitive, below, node, seen) ==
  [i \in DOMAIN node.items |->
     IF Named(node) /\ IsSensitive(node.items[i].name, sensitive)
     THEN Redact(h[node.items[i].node])
     ELSE below[node.items[i].node][seen]]

Gathered(node, contained) ==
  IF \E i \in DOMAIN contained : ~contained[i].ok THEN Fails
  ELSE [ok |-> TRUE,
        positions |-> {Position("container", <<Container>>)} \cup
                      UNION {Under(node.items[i].name, contained[i]) : i \in DOMAIN contained},
        removed |-> UNION {contained[i].removed : i \in DOMAIN contained}]

(* The canonical form of n inside the containers seen, when below[m] is    *)
(* that of m one level further down.                                       *)
Form(h, sensitive, below, n, seen) ==
  LET node == h[n]
  IN IF node.kind = "nan" \/ n \in seen THEN Fails
     ELSE CASE node.kind \in {"none", "num"} -> Leaf(node.kind, node.text)
            [] node.kind = "str" ->
                 IF node.text # <<>> /\ MatchesPatterns(node.text)
                 THEN Redact(node) ELSE Leaf("str", node.text)
            [] node.kind \in {"object", "oddkeys"} -> Leaf("str", <<Unsupported>>)
            [] node.kind \in {"list", "dict", "record"} ->
                 Gathered(node, Contained(h, sensitive, below, node, seen \cup {n}))

(* One traversal redacts and makes canonical: the positions of the result, *)
(* each with its path, and the texts removed.  f counts the levels left.   *)
Levels(h, sensitive) ==
  LET Walk[f \in 0 .. MaxDepth + 1] ==
        [n \in Nodes |-> [seen \in SUBSET Nodes |->
           IF f = 0 THEN Fails ELSE Form(h, sensitive, Walk[f - 1], n, seen)]]
  IN Walk

Canonicalize(h, start, sensitive) == Levels(h, sensitive)[MaxDepth + 1][start][{}]

(**************************** what is recorded ******************************)

State(position) ==
  IF position.kind = "str" /\ position.text = <<Marker>> THEN "redacted"
  ELSE IF position.kind = "str" /\ IsPrefix(<<Unsupported>>, position.text)
       THEN "unsupported" ELSE "retained"

Parameters(positions) == {p \in positions : Len(p.at) = 1}

\* Mutant: a parameter counts as redacted when anything in it is.
Retention_Contained(positions) ==
  {[name |-> p.at[1],
    state |-> IF \E q \in positions : IsPrefix(p.at, q.at) /\ State(q) = "redacted"
              THEN "redacted" ELSE State(p)] : p \in Parameters(positions)}

Retention(positions) ==
  {[name |-> p.at[1], state |-> State(p)] : p \in Parameters(positions)}

Replace(text, old) ==
  LET From[i \in 1 .. Len(text) + 1] ==
        IF i + Len(old) > Len(text) + 1 THEN SubSeq(text, i, Len(text))
        ELSE IF SubSeq(text, i, i + Len(old) - 1) = old
             THEN <<Marker>> \o From[i + Len(old)]
             ELSE <<text[i]>> \o From[i + 1]
  IN From[1]

Shortest(values) == CHOOSE v \in values : \A w \in values : Len(v) <= Len(w)

Longest(values) == CHOOSE v \in values : \A w \in values : Len(v) >= Len(w)

\* Mutant: the longest values go last, and a shorter one leaves the rest of them.
Replaced_LongestLast(text, values) ==
  MapThenFoldSet(LAMBDA v, t : Replace(t, v), text, LAMBDA v : v, Longest, values)

(* The shortest value is replaced last, or a longer one that it is a part  *)
(* of would be broken up.                                                  *)
Replaced(text, values) ==
  MapThenFoldSet(LAMBDA v, t : Replace(t, v), text, LAMBDA v : v, Shortest, values)

(* The values that are long enough, then the patterns, then the length. *)
Scrub(text, values) ==
  LET clean == FoldLeft(Replace, Replaced(text, {v \in values : Len(v) >= MinScrub}), Patterns)
  IN SubSeq(clean, 1, Min({Len(clean), MaxError}))

(* {} when nothing may be hashed: an echo of a removed value, a pattern, a *)
(* result that has no canonical form.  Otherwise what the hash is taken of. *)
OutputHash(n) ==
  LET node == heap[n]
      walked == Canonicalize(heap, n, SensitiveSet(extras))
  IN IF \/ node.kind # "none" /\ node.text \in removed
        \/ node.kind = "str" /\ MatchesPatterns(node.text)
        \/ ~walked.ok
     THEN {} ELSE {walked.positions}

(* {} without an extractor, when it raises, when the receipt has no        *)
(* canonical form or is no mapping, and when it is too long.               *)
Receipt(n, extracted, short) ==
  LET walked == Canonicalize(heap, n, SensitiveSet(extras))
  IN IF extracted /\ short /\ walked.ok /\ Named(heap[n]) THEN {walked.positions} ELSE {}

(******************************** one call **********************************)

DisclosureInit ==
  /\ heap \in Heaps
  /\ extras \in Declared
  /\ pc = "decorate"
  /\ removed = {} /\ decision = {} /\ outcome = {} /\ report = {}

(* A declared name that folds to nothing is refused with the contract. *)
Decorate ==
  /\ pc = "decorate"
  /\ pc' = IF "" \in {Fold[name] : name \in extras} THEN "done" ELSE "call"
  /\ UNCHANGED <<heap, extras, removed, decision, outcome, report>>

(* Arguments without a canonical form stop the call before anything is     *)
(* recorded; otherwise the decision is recorded.                           *)
Decide(verdict) ==
  LET walked == Canonicalize(heap, Root, SensitiveSet(extras))
  IN /\ pc = "call"
     /\ IF walked.ok
        THEN /\ decision' = {[verdict |-> verdict,
                              input |-> walked.positions,
                              retention |-> Retention(walked.positions)]}
             /\ removed' = walked.removed
             /\ pc' = "decided"
        ELSE pc' = "done" /\ UNCHANGED <<decision, removed>>
     /\ UNCHANGED <<heap, extras, outcome, report>>

Allowed == \E d \in decision : d.verdict = "allowed"

(* The function returns one of the values it was given. *)
Succeed(n, extracted, short) ==
  /\ pc = "decided" /\ Allowed
  /\ outcome' = {[status |-> "succeeded", of |-> n, quoted |-> <<>>,
                  hash |-> OutputHash(n),
                  receipt |-> Receipt(n, extracted, short),
                  error |-> <<>>]}
  /\ pc' = "ran"
  /\ UNCHANGED <<heap, extras, removed, decision, report>>

ErrorText(quoted) ==
  FoldLeft(LAMBDA text, part : text \o <<Quote>> \o part \o <<Quote>>, <<>>, quoted)

(* The function fails, and its error quotes values it was given. *)
Fail(quoted) ==
  /\ pc = "decided" /\ Allowed
  /\ outcome' = {[status |-> "failed", of |-> Root, quoted |-> quoted,
                  hash |-> {}, receipt |-> {},
                  error |-> Scrub(ErrorText(quoted), removed)]}
  /\ pc' = "ran"
  /\ UNCHANGED <<heap, extras, removed, decision, report>>

(********************************** readers *********************************)

ClassOf(states) ==
  IF "unsupported" \in states THEN "unknown"
  ELSE IF "retained" \in states THEN "partially_redacted" ELSE "fully_redacted"

ClassifyRetention(retention) ==
  IF retention = {} THEN "no_arguments" ELSE ClassOf({r.state : r \in retention})

ReceiptNames(receipt) == {p.at[1] : p \in Parameters(receipt)}

OutcomeDiscloses(o) ==
  \/ \E receipt \in o.receipt : ReceiptNames(receipt) # {}
  \/ o.error # <<>>

(* The journal is verified first; an invalid one is not classified. *)
Inspect(valid) ==
  /\ pc \in {"decided", "ran"}
  /\ report' =
       IF ~valid THEN {[reader |-> "inspect", refused |-> TRUE, good |-> FALSE]}
       ELSE {[reader |-> "inspect", refused |-> FALSE,
              good |-> /\ \A d \in decision :
                            ClassifyRetention(d.retention) \notin {"partially_redacted", "unknown"}
                       /\ \A o \in outcome : ~OutcomeDiscloses(o)]}
  /\ pc' = "done"
  /\ UNCHANGED <<heap, extras, removed, decision, outcome>>

Claimed(receipt, name) == (CHOOSE p \in Parameters(receipt) : p.at[1] = name).text

\* Mutant: only the names that both have are compared.
Agrees_OnShared(receipt, fields) ==
  \A name \in ReceiptNames(receipt) \cap DOMAIN fields :
    fields[name] = Claimed(receipt, name)

(* No receipt field the provider lacks, none it holds with another text. *)
Agrees(receipt, fields) ==
  \A name \in ReceiptNames(receipt) :
    name \in DOMAIN fields /\ fields[name] = Claimed(receipt, name)

(* The provider may be out of reach, may not know the receipt, or answers  *)
(* with its own record of it.                                              *)
Reconcile(answer, fields, valid) ==
  /\ pc = "ran"
  /\ \E o \in outcome : \E receipt \in o.receipt :
       report' = {[reader |-> "reconcile", refused |-> ~valid,
                   good |-> valid /\ answer = "record" /\ Agrees(receipt, fields),
                   fields |-> fields]}
  /\ pc' = "done"
  /\ UNCHANGED <<heap, extras, removed, decision, outcome>>

ItemNames(n) == {heap[n].items[i].name : i \in DOMAIN heap[n].items}

(* What str() makes of the field that was returned; of a container only    *)
(* that it is one, which stands for what was recorded of it.               *)
TrueText(n, name) ==
  LET i == CHOOSE i \in DOMAIN heap[n].items : heap[n].items[i].name = name
      node == heap[heap[n].items[i].node]
  IN IF node.kind \in {"dict", "record", "list"} THEN <<Container>> ELSE node.text

ProviderRecords(n) ==
  UNION {[known -> {"true", "recorded", "other"}] : known \in SUBSET ItemNames(n)}

(* A field at the provider reads as it was returned, as it was recorded (a *)
(* marker, where the receipt has one), or otherwise.                       *)
Fields(n, receipt, marks) ==
  [name \in DOMAIN marks |->
     CASE marks[name] = "true"     -> TrueText(n, name)
       [] marks[name] = "recorded" -> Claimed(receipt, name)
       [] marks[name] = "other"    -> <<Other>>]

Quotable == {heap[n].text : n \in {m \in Nodes : heap[m].kind \in {"str", "num"}}}

DisclosureNext ==
  \/ Decorate
  \/ \E verdict \in {"allowed", "denied"} : Decide(verdict)
  \/ \E n \in Nodes, extracted \in BOOLEAN, short \in BOOLEAN : Succeed(n, extracted, short)
  \/ Fail(<<>>)
  \/ \E first \in Quotable : Fail(<<first>>)
  \/ \E first, second \in Quotable : Fail(<<first, second>>)
  \/ \E valid \in BOOLEAN : Inspect(valid)
  \/ \E answer \in {"raises", "unknown"}, valid \in BOOLEAN : Reconcile(answer, <<>>, valid)
  \/ \E o \in outcome, valid \in BOOLEAN :
       \E receipt \in o.receipt, marks \in ProviderRecords(o.of) :
         Reconcile("record", Fields(o.of, receipt, marks), valid)

DisclosureSpec == DisclosureInit /\ [][DisclosureNext]_records

(******************************** properties ********************************)

Clean(positions, sensitive) ==
  \A p \in positions :
    /\ \A i \in DOMAIN p.at : Fold[p.at[i]] \in sensitive => i = Len(p.at) /\ p.text = <<Marker>>
    /\ p.kind = "str" /\ p.text \notin {<<>>, <<Marker>>, <<Unsupported>>} => ~MatchesPatterns(p.text)

(* Nothing under a sensitive name, however it is spelled, nested or        *)
(* carried (dict, dataclass, named tuple), and no string that holds a      *)
(* pattern, but for a marker that a pattern may match itself, is in the    *)
(* canonical arguments, in what the output hash is taken of, or in the     *)
(* receipt (canonical._walk, redaction._build_sensitive_set).              *)
NothingSensitiveRemains ==
  /\ \A d \in decision : Clean(d.input, SensitiveSet(extras))
  /\ \A o \in outcome : \A positions \in o.hash \cup o.receipt : Clean(positions, SensitiveSet(extras))

(* An error that quotes only removed values of the length that is scrubbed *)
(* keeps no letter of them, though one removed value may be part of        *)
(* another; and the output hash is never taken of a removed value          *)
(* (redaction.scrub_text, engine._safe_output_hash).                       *)
OutcomeTellsNothingRemoved ==
  \A o \in outcome :
    /\ (\A i \in DOMAIN o.quoted :
          o.quoted[i] \in removed /\ Len(o.quoted[i]) >= MinScrub)
         => Letters(o.error) \subseteq {Quote, Marker}
    /\ o.hash # {} => heap[o.of].text \notin removed \/ heap[o.of].kind = "none"

(* A record found safe for upload holds nothing but markers: no argument   *)
(* value, no receipt field, no error text (privacy.inspect_verified_snapshot). *)
SafeMeansRedacted ==
  (\E r \in report : r.reader = "inspect" /\ r.good)
    => /\ \A d \in decision : \A p \in d.input : p.at # <<>> => p.text = <<Marker>>
       /\ \A o \in outcome :
            o.error = <<>> /\ \A receipt \in o.receipt : ReceiptNames(receipt) = {}

(* A report that calls every receipt matched means that the provider holds *)
(* every field the function returned, and that each reads as it was        *)
(* returned, but for one that was redacted or not supported: that one      *)
(* matches a provider that holds the very marker                           *)
(* (reconcile.reconcile_verified_snapshot, _first_mismatch).               *)
ReconciledIsTrue ==
  \A r \in report, o \in outcome :
    r.reader = "reconcile" /\ r.good
      => \A name \in ItemNames(o.of) :
           /\ name \in DOMAIN r.fields
           /\ r.fields[name] \in {TrueText(o.of, name), <<Marker>>, <<Unsupported>>}
=============================================================================
