---------------------------- MODULE MCDisclosure ----------------------------
(* A small instance of Disclosure and Summary: argument graphs of three    *)
(* values, with texts that contain one another or the punctuation of a     *)
(* summary, markers given by the caller, cycles, nesting too deep, and     *)
(* names spelled in several ways.                                          *)
EXTENDS Summary, TLC

Folded ==
  [name \in {"token", "TOKEN", "pin", "PIN", "data", "item", "blank"} |->
     CASE name = "TOKEN" -> "token" [] name = "PIN" -> "pin"
       [] name = "blank" -> "" [] OTHER -> name]

Node(kind, text, items) == [kind |-> kind, text |-> text, items |-> items]
Item(name, n) == [name |-> name, node |-> n]

Spelled ==
  "TOKEN" :> 10 @@ "PIN" :> 11 @@ "blank" :> 12 @@ "data" :> 13 @@ "item" :> 14 @@ "pin" :> 15 @@ "token" :> 16

Letter == 0 .. 29 \cup {Quote, Marker, Unsupported, Container, Other}

Short == <<1>>
Inner == <<1, 2>>
Outer == <<3, 1, 2>>
Keyed == <<1, 9, 2>>
Long  == <<3, 3, 3, 3, 3, 3, 3, 3>>
Number == Inner \o Inner \o Inner \o Inner \o Inner
Posing == <<Marker, Mark, Comma, Spelled["token"], Equals, Mark, Marker>>
Listing == <<Comma, Spelled["token"], Equals, 1>>
Secrets == <<<<9>>>>

Plain(texts) == {Node("str", text, <<>>) : text \in texts}

Scalars ==
  Plain({<<>>, Short, Inner, Outer, Keyed, <<Marker>>, <<Unsupported, 1>>, Long, Posing})
    \cup {Node("num", Inner, <<>>), Node("num", Number, <<>>), Node("none", <<4>>, <<>>), Node("nan", <<5>>, <<>>),
          Node("object", <<6>>, <<>>)}

First ==
  Scalars
    \cup {Node(kind, <<7>>, <<Item(name, n)>>) :
            kind \in {"dict", "record"}, name \in {"data", "TOKEN"}, n \in {1, 2}}
    \cup {Node("list", <<7>>, <<Item("item", 2)>>), Node("oddkeys", <<7>>, <<>>),
          Node("dict", <<7>>, <<>>),
          Node("record", <<7>>, <<Item("data", 2), Item("PIN", 2)>>)}

Second ==
  Plain({Short, Inner, Outer, Keyed, Long, Listing})
    \cup {Node("dict", <<8>>, <<Item("data", 1)>>),
          Node("list", <<8>>, <<Item("item", 3)>>),
          Node("record", <<8>>, <<Item("token", 3)>>)}

Arguments ==
  {<<>>, <<Item("data", 1)>>, <<Item("data", 1), Item("token", 2)>>,
   <<Item("pin", 1), Item("data", 2)>>, <<Item("TOKEN", 1), Item("pin", 2)>>,
   <<Item("PIN", 2), Item("data", 1), Item("pin", 2)>>}

Graphs ==
  {0 :> Node("dict", <<0>>, items) @@ 1 :> first @@ 2 :> second @@ 3 :> Node("num", Inner, <<>>) :
     items \in Arguments, first \in First, second \in Second}
=============================================================================
