------------------------------ MODULE MCPages ------------------------------
(* An instance of Pages for TLC: a form of three components, two of them    *)
(* on one target and one with a dotted name, over a document with scattered *)
(* blocks; two pages, one with a menu item and a breadcrumb of its own; and *)
(* the browsers and tools that make requests.                               *)
EXTENDS Pages

CONSTANTS c1, c2

TwoClients == {c1, c2}

Component(name, target, type) ==
  [name |-> name, target |-> target, type |-> type]
ThreeComponents ==
  <<Component(<<"tag">>, "meta", "tag"),
    Component(<<"tag", "main">>, "meta", "main"),
    Component(<<"author">>, "links", "author")>>

Block(type, val) == [type |-> type, val |-> val]
Scattered ==
  [meta  |-> <<Block("x", 1), Block("tag", 1), Block("author", 2),
               Block("main", 1), Block("tag", 2)>>,
   links |-> <<Block("y", 1)>>]

Tag == <<"tag", "value">>
Main == <<"tag", "main", "value">>
Author == <<"author", "value">>
Forms ==
  {[k \in {Tag, Main} |-> IF k = Tag THEN <<>> ELSE <<2>>],
   [k \in {Tag, Author} |-> <<3, 1>>],
   [k \in {Main, Author} |-> IF k = Main THEN <<1>> ELSE <<0>>],
   [k \in {Main} |-> <<4>>]}

Here == [scheme |-> "https", host |-> "here"]
Sibling == [scheme |-> "https", host |-> "sibling"]
Opaque == [scheme |-> "null", host |-> ""]
Source(from, site, origin) == [from |-> from, site |-> site, origin |-> origin]
AllSources ==
  {Source("own", "same-origin", Here), Source("own", Absent, Here),
   Source("visitor", "none", NoOrigin), Source("tool", Absent, NoOrigin),
   Source("sibling", "same-site", Sibling), Source("sibling", Absent, Sibling),
   Source("opaque", "cross-site", Opaque), Source("opaque", Absent, Opaque)}

Item(title, weight) ==
  [title |-> title, href |-> title, weight |-> weight, active |-> FALSE]
Menu == <<Item("logout", 3), Item("doc", 1), Item("list", 2)>>
Items2 == [p \in {"doc", "list"} |->
             IF p = "doc" THEN <<Item("export", 2)>> ELSE <<>>]
Crumbs == [p \in {"doc", "list"} |-> IF p = "doc" THEN "list" ELSE NoHref]
HiddenThere == [p \in {"doc", "list"} |-> IF p = "list" THEN {"logout"} ELSE {}]

Accepted == [c \in TwoClients |-> IF c = c1 THEN "sv" ELSE "fi"]

=============================================================================
