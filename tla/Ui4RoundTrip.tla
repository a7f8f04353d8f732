--------------------------- MODULE Ui4RoundTrip ---------------------------
(***************************************************************************)
(* What must be left of a form that is read (Ui4Dom) and written back.     *)
(***************************************************************************)
EXTENDS Ui4Dom

(* A node without the order of children of different tags, which write     *)
(* does not keep.                                                          *)
WithTag(node, tag) == SelectSeq(node.nodes, LAMBDA n : n.tag = tag)

RECURSIVE Shape(_)
Shape(node) ==
  [attrs |-> node.attrs, text |-> TextOf(node),
   elems |-> [tag \in {n.tag : n \in ToSet(node.nodes)} \ {"#text"} |->
                [i \in DOMAIN WithTag(node, tag) |-> Shape(WithTag(node, tag)[i])]]]

(* What must survive reading a node into an object of a class and writing  *)
(* it back: the attributes and children the class declares; of the         *)
(* alternatives of a choice, and of a child that occurs once, the last.    *)
RECURSIVE Kept(_, _)
Kept(node, class) ==
  LET c == DomClasses[class]
      Child(n) == IF c.elems[n.tag].is \in {"one", "many"} THEN Kept(n, c.elems[n.tag].of)
                  ELSE Shape(Element(n.tag, None, <<TextNode(Value(c.elems[n.tag], n.nodes[1].text))>>))
      known == SelectSeq(node.nodes, LAMBDA n : n.tag \in DOMAIN c.elems)
      tags == IF c.choice /\ known # <<>> THEN {Last(known).tag} ELSE {n.tag : n \in ToSet(known)}
      Of(tag) == LET all == WithTag(node, tag)
                 IN  IF c.elems[tag].is \in {"many", "texts"} THEN all ELSE <<Last(all)>>
  IN  [attrs |-> [a \in DOMAIN node.attrs \cap DOMAIN c.attrs |-> Value(c.attrs[a], node.attrs[a])],
       text  |-> TextOf(node),
       elems |-> [tag \in tags |-> [i \in DOMAIN Of(tag) |-> Child(Of(tag)[i])]]]

(* Nothing a form says is lost, duplicated or moved to another element by  *)
(* reading it and writing it back (DomX::read, DomX::write).               *)
RoundTrip ==
  phase = "written" => Shape(written[1]) = Kept(Document, heap[Root].class)

===========================================================================
