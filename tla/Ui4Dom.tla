------------------------------ MODULE Ui4Dom ------------------------------
(***************************************************************************)
(* Reading a form into the objects of ui4.h, writing it back and deleting  *)
(* it: the functions every class of ui4.cpp has, over the rows of Ui4.     *)
(*                                                                         *)
(* The reader visits a QDomElement child by child; which child comes next  *)
(* is the environment's choice, so the runs cover every document within    *)
(* the bounds.  The objects live on a heap with addresses, because what    *)
(* the code must get right is who deletes what.                            *)
(***************************************************************************)
EXTENDS Ui4, Integers, FiniteSets, SequencesExt

CONSTANTS Roots,        \* the classes to start reading at
          Numerals,     \* the texts that are numbers
          \* Bounds on the documents, by their root node:
          Tags(_, _),   \* the children offered to an object of a class
          Attrs(_, _),  \* the attributes offered to an object of a class
          Words(_, _),  \* the texts offered to the children with a tag
          MaxNodes(_),  \* nodes
          MaxDepth      \* levels

ASSUME RootsAssumption == Roots \subseteq DOMAIN DomClasses

VARIABLES heap,     \* the live objects, by address
          frames,   \* the calls of read in progress: object and node
          visited,  \* nodes seen so far
          phase,    \* "reading", "read", "written" or "deleted"
          written   \* what write returned

vars == <<heap, frames, visited, phase, written>>

------------------------------------------------------------------------
(* Nodes of the document (QDom, external).                                 *)
Element(tag, attrs, nodes) == [tag |-> tag, attrs |-> attrs, nodes |-> nodes, text |-> ""]
TextNode(t) == [tag |-> "#text", attrs |-> None, nodes |-> <<>>, text |-> t]

(* What a text is worth as a value of the field: toInt and toDouble make 0 *)
(* of what is no number, and a bool is true for "true" only.               *)
Value(type, t) ==
  CASE type.of \in {"int", "double"} -> IF t \in Numerals THEN t ELSE "0"
    [] type.of = "bool" -> IF t = "true" THEN t ELSE "false"
    [] OTHER -> t

ClassOfObject(h, o) == DomClasses[h[o].class]

(* The function f, with v at x.                                            *)
With(f, x, v) == [y \in DOMAIN f \cup {x} |-> IF y = x THEN v ELSE f[y]]

(* The addresses an object's fields own.                                   *)
Children(h, o) ==
  LET c == ClassOfObject(h, o) IN
  UNION {IF c.elems[e].is = "one" THEN {h[o].elems[e]} ELSE ToSet(h[o].elems[e])
           : e \in c.owned \cap DOMAIN h[o].elems}

(* delete: the destructors run down the owned objects.                     *)
Below(h, os) ==
  LET below[o \in DOMAIN h] == {o} \cup UNION {below[c] : c \in Children(h, o) \cap DOMAIN h}
  IN  UNION {below[o] : o \in os \cap DOMAIN h}

Delete(h, os) == Restrict(h, DOMAIN h \ Below(h, os))

(* clear(false): the children go, the attributes and the text stay.        *)
Clear(h, o) == [Delete(h, Children(h, o)) EXCEPT ![o].elems = None]

(* setElementX(v), and append for the fields that are lists.               *)
SetElement_KeepsOld(h, o, e, v) ==
  LET c == ClassOfObject(h, o)
      Put(x) == [h EXCEPT ![o].elems = With(IF c.choice THEN None ELSE h[o].elems, e, x)]
  IN  IF c.elems[e].is \in {"many", "texts"}
      THEN Put(Append(IF e \in DOMAIN h[o].elems THEN h[o].elems[e] ELSE <<>>, v))
      ELSE Put(v)

SetElement(h, o, e, v) ==
  LET c == ClassOfObject(h, o)
      Put(g, x) == [g EXCEPT ![o].elems = With(g[o].elems, e, x)]
      old == IF e \in c.owned \cap DOMAIN h[o].elems THEN {h[o].elems[e]} ELSE {}
  IN  IF c.choice THEN Put(Clear(h, o), v)
      ELSE CASE c.elems[e].is \in {"many", "texts"} ->
                  Put(h, Append(IF e \in DOMAIN h[o].elems THEN h[o].elems[e] ELSE <<>>, v))
             [] c.elems[e].is = "one" -> Put(Delete(h, old), v)
             [] OTHER -> Put(h, v)

------------------------------------------------------------------------
(* read                                                                    *)
Fresh == CHOOSE o \in 1 .. Cardinality(DOMAIN heap) + 1 : o \notin DOMAIN heap

(* The constructor and the first lines of read: only attributes the class  *)
(* knows are kept.                                                         *)
NewObject(class, attrs) ==
  LET known == DOMAIN DomClasses[class].attrs \cap DOMAIN attrs IN
  [class |-> class, elems |-> None, text |-> <<>>,
   attrs |-> [a \in known |-> Value(DomClasses[class].attrs[a], attrs[a])]]

Top == Last(frames)
TopClass == ClassOfObject(heap, Top.object)

Document == frames[1].node

Visit == /\ visited < MaxNodes(Document)
         /\ visited' = visited + 1
         /\ UNCHANGED <<phase, written>>

(* The node just visited is kept with the element being read: the loop     *)
(* over the text nodes looks at all of them again.                         *)
Seen(node) == [frames EXCEPT ![Len(frames)].node.nodes = Append(@, node)]

(* A child element that is an object: v = new X; v->read(e).               *)
ReadObject(tag, attrs) ==
  /\ Visit
  /\ Len(frames) < MaxDepth
  /\ heap' = With(heap, Fresh, NewObject(TopClass.elems[tag].of, attrs))
  /\ frames' = Append(frames, [object |-> Fresh, node |-> Element(tag, attrs, <<>>)])

(* A child element of which only the text counts.                          *)
ReadScalar(tag, t) ==
  /\ Visit
  /\ heap' = SetElement(heap, Top.object, tag, Value(TopClass.elems[tag], t))
  /\ frames' = Seen(Element(tag, None, <<TextNode(t)>>))

(* An element the class does not know is passed over.                      *)
ReadUnknown ==
  /\ Visit
  /\ frames' = Seen(Element("unknown", None, <<TextNode("1")>>))
  /\ UNCHANGED heap

ReadText(t) ==
  /\ Visit
  /\ frames' = Seen(TextNode(t))
  /\ UNCHANGED heap

TextOf(node) ==
  LET nodes == SelectSeq(node.nodes, LAMBDA n : n.tag = "#text")
  IN  [i \in DOMAIN nodes |-> nodes[i].text]

(* The end of read for the object on top: its text is gathered, and the    *)
(* caller stores the object.                                               *)
EndRead ==
  /\ phase = "reading"
  /\ LET h == [heap EXCEPT ![Top.object].text = TextOf(Top.node)]
         caller == Front(frames)
     IN  IF Len(frames) = 1
         THEN /\ heap' = h
              /\ phase' = "read"
              /\ UNCHANGED frames
         ELSE /\ heap' = SetElement(h, Last(caller).object, Top.node.tag, Top.object)
              /\ frames' = [caller EXCEPT ![Len(caller)].node.nodes = Append(@, Top.node)]
              /\ UNCHANGED phase
  /\ UNCHANGED <<visited, written>>

------------------------------------------------------------------------
(* write                                                                   *)
Concat(seqs) == FoldLeft(\o, <<>>, seqs)

(* The nodes of all objects; the caller of write names the element.        *)
Write(h) ==
  LET node[o \in DOMAIN h] ==
        LET c == ClassOfObject(h, o)
            obj == h[o]
            Tagged(child, e) == [node[child] EXCEPT !.tag = e]
            WriteField(e) ==
              IF e \notin DOMAIN obj.elems THEN <<>>
              ELSE CASE c.elems[e].is = "one"   -> <<Tagged(obj.elems[e], e)>>
                     [] c.elems[e].is = "many"  -> [i \in DOMAIN obj.elems[e] |->
                                                      Tagged(obj.elems[e][i], e)]
                     [] c.elems[e].is = "texts" -> [i \in DOMAIN obj.elems[e] |->
                                                      Element(e, None, <<TextNode(obj.elems[e][i])>>)]
                     [] OTHER -> <<Element(e, None, <<TextNode(obj.elems[e])>>)>>
            attrs == DOMAIN obj.attrs \cap ToSet(c.attrWrites)
        IN  Element(c.tag, Restrict(obj.attrs, attrs),
              Concat([i \in DOMAIN c.writes |-> WriteField(c.writes[i])])
                \o [i \in DOMAIN obj.text |-> TextNode(obj.text[i])])
  IN  node

Root == frames[1].object

WriteForm ==
  /\ phase = "read"
  /\ written' = <<Write(heap)[Root]>>
  /\ phase' = "written"
  /\ UNCHANGED <<heap, frames, visited>>

DeleteForm ==
  /\ phase \in {"read", "written"}
  /\ heap' = Delete(heap, {Root})
  /\ phase' = "deleted"
  /\ UNCHANGED <<frames, visited, written>>

------------------------------------------------------------------------
Init ==
  /\ visited = 1
  /\ phase = "reading"
  /\ written = <<>>
  /\ \E class \in Roots : \E attrs \in Attrs(Element(DomClasses[class].tag, None, <<>>), class) :
       /\ heap = [o \in {1} |-> NewObject(class, attrs)]
       /\ frames = <<[object |-> 1, node |-> Element(DomClasses[class].tag, attrs, <<>>)]>>

(* One turn of the loop of read.                                           *)
ReadNode ==
  /\ phase = "reading"
  /\ LET c == TopClass
         offered == c.reads \cap Tags(Document, heap[Top.object].class)
         objects == {tag \in offered : c.elems[tag].is \in {"one", "many"}}
     IN  \/ \E tag \in objects : \E attrs \in Attrs(Document, c.elems[tag].of) : ReadObject(tag, attrs)
         \/ \E tag \in offered \ objects : \E t \in Words(Document, tag) : ReadScalar(tag, t)
         \/ "unknown" \in Tags(Document, heap[Top.object].class) /\ ReadUnknown
         \/ \E t \in Words(Document, "#text") : ReadText(t)

Next == ReadNode \/ EndRead \/ WriteForm \/ DeleteForm

Spec == Init /\ [][Next]_vars

------------------------------------------------------------------------
(* Properties                                                              *)

(* The fields, and positions in list fields, that refer to an object:      *)
(* object referred to, object, field and position.                         *)
ReferencesOf(h, o) ==
  LET c == ClassOfObject(h, o)
      owning == {e \in DOMAIN h[o].elems : c.elems[e].is \in {"one", "many"}}
  IN  UNION {IF c.elems[e].is = "one" THEN {<<h[o].elems[e], o, e, 0>>}
             ELSE {<<h[o].elems[e][i], o, e, i>> : i \in DOMAIN h[o].elems[e]}
               : e \in owning}
References(h) == UNION {ReferencesOf(h, o) : o \in DOMAIN h}

(* No leak and no double deletion: while a form exists each object is held *)
(* by exactly one field of one live object, or is still being read; after  *)
(* the form is deleted none is left (clear, ~DomX, setElementX).           *)
OwnedOnce ==
  IF phase = "deleted" THEN heap = <<>>
  ELSE /\ \A r \in References(heap) : r[1] \in DOMAIN heap
       /\ \A o \in DOMAIN heap :
            Cardinality({r \in References(heap) : r[1] = o})
              = IF \E i \in DOMAIN frames : frames[i].object = o THEN 0 ELSE 1

========================================================================
