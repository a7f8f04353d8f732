------------------------------ MODULE MCUic ------------------------------
(* Two kinds of documents.  Any class of the form, with all its children,  *)
(* attributes and two texts, in documents of three or four nodes; and      *)
(* forms that duic compiles, with a main widget, in up to six nodes.     *)
EXTENDS Uic

MCRoots == DOMAIN DomClasses
Deep == {"brush", "layoutitem", "palette", "connection"}

IsForm(doc) == doc.tag = "ui" /\ "version" \in DOMAIN doc.attrs /\ doc.attrs["version"] = "4"

FormTags ==
  [c \in MCRoots |->
     CASE c = "DomUI" -> {"widget", "tabstops", "connections"}
       [] c = "DomWidget" -> {"action", "actiongroup", "addaction", "widget", "layout", "zorder"}
       [] c = "DomLayout" -> {"item"}
       [] c = "DomLayoutItem" -> {"widget", "layout", "spacer"}
       [] c = "DomActionGroup" -> {"action"}
       [] c = "DomTabStops" -> {"tabstop"}
       [] c = "DomConnections" -> {"connection"}
       [] c = "DomConnection" -> {"sender", "receiver"}
       [] OTHER -> {}]
MCTags(doc, c) == IF IsForm(doc) THEN FormTags[c] ELSE DOMAIN DomClasses[c].elems \cup {"unknown"}

(* A name that spells another name with its number, and two classes.       *)
Names == {"a", "a1"}
MCName(t) == IF t = "a" THEN <<"a", 0>> ELSE <<"a", 1>>
MCDefaultName(c) == c
MCContainers == {"QTabWidget"}

FormAttrs(c) ==
  CASE c = "DomUI" -> {[version |-> "4"]}
    [] c = "DomWidget" -> {[name |-> "a", class |-> "QWidget"], [name |-> "a1", class |-> "QTabWidget"]}
    [] c = "DomActionRef" -> {[name |-> n] : n \in Names}
    [] c \in {"DomAction", "DomActionGroup", "DomLayout"} -> {[name |-> "a"]}
    [] OTHER -> {None}

(* All the attributes of the class with one text, an unknown one, or none: *)
(* for the root or, when it has none, for the nodes below.                 *)
AnyAttrs(c) ==
  {None, [a \in {"unknown"} |-> "4"]}
    \cup {[a \in DOMAIN DomClasses[c].attrs |-> t] : t \in {"7", "true"}}

MCAttrs(doc, c) ==
  IF IsForm(doc) THEN FormAttrs(c)
  ELSE IF doc.attrs # None THEN {None}
  ELSE AnyAttrs(c) \cup IF c = "DomUI" THEN {[version |-> "4"]} ELSE {}
MCWords(doc, tag) == IF IsForm(doc) THEN IF tag = "#text" THEN {} ELSE Names ELSE {"7", "true"}
MCMaxNodes(doc) == IF IsForm(doc) THEN 6 ELSE IF doc.tag \in Deep THEN 4 ELSE 3

========================================================================
