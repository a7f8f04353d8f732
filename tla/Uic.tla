------------------------------- MODULE Uic -------------------------------
(***************************************************************************)
(* duic, the form compiler: Uic::write reads a form (Ui4Dom), gives every  *)
(* object a D variable (Driver, Validator), declares the variables         *)
(* (WriteDeclaration) and writes the body of setupUi that creates and      *)
(* connects the objects (WriteInitialization).  The passes walk the same   *)
(* tree (TreeWalker) and meet only in the driver's tables.                 *)
(*                                                                         *)
(* A statement of the generated code is [does, var, uses]: what it does,   *)
(* to which variable, with which others.  A variable's name is a base and  *)
(* the number that makes it unique; Name(t) is the variable that a text of *)
(* the form spells.                                                        *)
(***************************************************************************)
EXTENDS Ui4RoundTrip

CONSTANTS Name(_),        \* the variable a text spells, after normalizedName
          DefaultName(_), \* qtify: the base for an object of a class without name
          Containers      \* the classes for which Uic::isContainer holds

VARIABLES m_widgets,        \* the driver's tables: object -> variable
          m_nameRepository, \* the variables given out
          declarations,     \* what WriteDeclaration wrote: a sequence of variables
          setupUi           \* what WriteInitialization wrote

uicVars == <<m_widgets, m_nameRepository, declarations, setupUi>>

------------------------------------------------------------------------
(* The tree                                                                *)

ListOf(o, e) == IF e \in DOMAIN heap[o].elems THEN heap[o].elems[e] ELSE <<>>
Attr(o, a) == IF a \in DOMAIN heap[o].attrs THEN heap[o].attrs[a] ELSE ""
ItemChild(o) == CHOOSE x \in {heap[o].elems[e] : e \in DOMAIN heap[o].elems} : TRUE

FirstLayout(o) == IF ListOf(o, "layout") = <<>> THEN <<>> ELSE <<ListOf(o, "layout")[1]>>

FlatMap(Op(_), seq) == Concat([i \in DOMAIN seq |-> Op(seq[i])])

(* TreeWalker: the order in which a pass visits the objects that have a    *)
(* variable.  Only the first layout of a widget is looked at.              *)
RECURSIVE Walk(_)
Walk(o) ==
  CASE heap[o].class = "DomWidget" ->
         <<o>> \o FlatMap(Walk, ListOf(o, "action")) \o FlatMap(Walk, ListOf(o, "actiongroup"))
               \o FlatMap(Walk, ListOf(o, "widget"))
               \o FlatMap(Walk, FirstLayout(o))
    [] heap[o].class = "DomActionGroup" ->
         <<o>> \o FlatMap(Walk, ListOf(o, "action")) \o FlatMap(Walk, ListOf(o, "actiongroup"))
    [] heap[o].class = "DomLayout" -> <<o>> \o FlatMap(Walk, ListOf(o, "item"))
    [] heap[o].class = "DomLayoutItem" -> Walk(ItemChild(o))
    [] OTHER -> <<o>>

MainWidget == heap[Root].elems["widget"]

(* Forms that get as far as the passes.  An item without child trips the   *)
(* assertion of acceptLayoutItem, a connection is always complete.         *)
Compiled ==
  /\ heap[Root].class = "DomUI"
  /\ Attr(Root, "version") \in Numerals
  /\ "widget" \in DOMAIN heap[Root].elems
  /\ \A o \in DOMAIN heap :
       /\ heap[o].class = "DomLayoutItem" => heap[o].elems # None
       /\ heap[o].class = "DomConnection" => {"sender", "receiver"} \subseteq DOMAIN heap[o].elems

------------------------------------------------------------------------
(* Driver and Validator                                                    *)

unique_TriesOnce(used, base) ==
  IF base \notin used THEN base ELSE <<base[1], IF base[2] = 0 THEN 1 ELSE 10 * base[2] + 1>>

(* unique: the base itself, or with the first number that is free.         *)
unique(used, base) ==
  IF base \notin used THEN base
  ELSE LET Numbered(k) == <<base[1], IF base[2] = 0 THEN k ELSE 10 * base[2] + k>>
       IN  Numbered(CHOOSE k \in 1 .. Cardinality(used) + 1 :
                      /\ Numbered(k) \notin used
                      /\ \A l \in 1 .. k - 1 : Numbered(l) \in used)

BaseOf(o) ==
  IF Attr(o, "name") # "" THEN Name(Attr(o, "name"))
  ELSE <<DefaultName(IF Attr(o, "class") # "" THEN Attr(o, "class") ELSE heap[o].class), 0>>

(* findOrInsertWidget, findOrInsertLayout, findOrInsertAction and so on.   *)
findOrInsert(tables, o) ==
  IF o \in DOMAIN tables.objects THEN tables
  ELSE LET v == unique(tables.used, BaseOf(o))
       IN  [objects |-> (o :> v) @@ tables.objects, used |-> tables.used \cup {v}]

Validator ==
  /\ phase = "read" /\ Compiled /\ m_widgets = None
  /\ LET tables == FoldLeft(findOrInsert, [objects |-> None, used |-> {}], Walk(MainWidget))
     IN  /\ m_widgets' = tables.objects
         /\ m_nameRepository' = tables.used
  /\ UNCHANGED <<vars, declarations, setupUi>>

(* The main widget is a parameter of setupUi, not a declared variable.     *)
WriteDeclaration ==
  /\ m_widgets # None /\ declarations = <<>>
  /\ declarations' = [i \in DOMAIN Tail(Walk(MainWidget)) |-> m_widgets[Tail(Walk(MainWidget))[i]]]
  /\ UNCHANGED <<vars, m_widgets, m_nameRepository, setupUi>>

------------------------------------------------------------------------
(* WriteInitialization                                                     *)

Var(o) == m_widgets[o]
Stmt(does, var, uses) == [does |-> does, var |-> var, uses |-> uses]

ObjectsNamed(v, class) == {o \in DOMAIN m_widgets : m_widgets[o] = v /\ heap[o].class = class}

(* The parent widget or group on top of the chains; containers adopt their *)
(* pages with a call of their own.                                         *)
CreatedUnder(o, parent) ==
  IF parent = 0 THEN <<>>
  ELSE <<Stmt("create", Var(o), IF Attr(parent, "class") \in Containers THEN <<>> ELSE <<Var(parent)>>)>>

AdoptedBy_OwnClass(o, parent) ==
  IF parent # 0 /\ Attr(o, "class") \in Containers
  THEN <<Stmt("adopt", Var(parent), <<Var(o)>>)>> ELSE <<>>

AdoptedBy(o, parent) ==
  IF parent # 0 /\ Attr(parent, "class") \in Containers
  THEN <<Stmt("adopt", Var(parent), <<Var(o)>>)>> ELSE <<>>

(* The names a zorder lists; one that is no widget visited so far is       *)
(* skipped.                                                                *)
Registered(o) ==
  LET walk == Walk(MainWidget)
      at == CHOOSE i \in DOMAIN walk : walk[i] = o
  IN  {p \in ToSet(SubSeq(walk, 1, at + Len(Walk(o)) - 1)) : heap[p].class = "DomWidget"}

raise(o) ==
  FlatMap(LAMBDA t : IF \E p \in Registered(o) : m_widgets[p] = Name(t)
                     THEN <<Stmt("raise", Name(t), <<>>)>> ELSE <<>>, ListOf(o, "zorder"))

acceptLayoutItem_AddsFirst(layout, child, statements) ==
  <<Stmt("add", Var(layout), <<Var(child)>>)>> \o statements

acceptLayoutItem(layout, child, statements) ==
  statements \o <<Stmt("add", Var(layout), <<Var(child)>>)>>

(* The statements written while the tree is walked, by the class of the    *)
(* object.  widget, layout and group are the tops of m_widgetChain,        *)
(* m_layoutChain and m_actionGroupChain; 0: none.                          *)
RECURSIVE Accept(_, _, _, _)

acceptWidget(o, widget) ==
  LET Inside(x) == Accept(x, o, 0, 0)
  IN  CreatedUnder(o, widget)
        \o FlatMap(Inside, ListOf(o, "action")) \o FlatMap(Inside, ListOf(o, "actiongroup"))
        \o FlatMap(Inside, ListOf(o, "widget"))
        \o FlatMap(Inside, FirstLayout(o))
        \o AdoptedBy(o, widget) \o raise(o)

acceptLayout(o, widget, layout) ==
  LET Inside(x) == Accept(x, widget, o, 0)
  IN  <<Stmt("create", Var(o), IF layout = 0 THEN <<Var(widget)>> ELSE <<>>)>>
        \o FlatMap(Inside, ListOf(o, "item"))

acceptSpacer(o) == <<Stmt("create", Var(o), <<>>)>>

acceptAction(o, owner) == <<Stmt("create", Var(o), <<Var(owner)>>)>>

acceptActionGroup(o, widget, layout, owner) ==
  LET Inside(x) == Accept(x, widget, layout, o)
  IN  <<Stmt("create", Var(o), <<Var(owner)>>)>>
        \o FlatMap(Inside, ListOf(o, "action")) \o FlatMap(Inside, ListOf(o, "actiongroup"))

Accept(o, widget, layout, group) ==
  LET owner == IF group # 0 THEN group ELSE widget IN
  CASE heap[o].class = "DomWidget" -> acceptWidget(o, widget)
    [] heap[o].class = "DomLayout" -> acceptLayout(o, widget, layout)
    [] heap[o].class = "DomLayoutItem" ->
         acceptLayoutItem(layout, ItemChild(o), Accept(ItemChild(o), widget, layout, group))
    [] heap[o].class = "DomSpacer" -> acceptSpacer(o)
    [] heap[o].class = "DomAction" -> acceptAction(o, owner)
    [] heap[o].class = "DomActionGroup" -> acceptActionGroup(o, widget, layout, owner)

(* acceptActionRef: delayed until every object exists.  A name of a group, *)
(* or of nothing, is left out.                                             *)
acceptActionRef(o, t) ==
  IF ObjectsNamed(Name(t), "DomActionGroup") # {} THEN <<>>
  ELSE IF ObjectsNamed(Name(t), "DomWidget") \cup ObjectsNamed(Name(t), "DomAction") = {} THEN <<>>
  ELSE <<Stmt("addAction", Var(o), <<Name(t)>>)>>

delayedActions ==
  LET RefsOf(o) == IF heap[o].class # "DomWidget" THEN <<>>
                   ELSE FlatMap(LAMBDA r : IF Attr(r, "name") = "" THEN <<>>
                                           ELSE acceptActionRef(o, Attr(r, "name")), ListOf(o, "addaction"))
  IN  FlatMap(RefsOf, Walk(MainWidget))

(* acceptTabStops: a name that is no widget is skipped; lastName is set    *)
(* only by the first entry and by those written.                           *)
acceptTabStops ==
  LET stops == IF "tabstops" \in DOMAIN heap[Root].elems
               THEN ListOf(heap[Root].elems["tabstops"], "tabstop") ELSE <<>>
      Turn(s, i) ==
        LET v == Name(stops[i]) IN
        IF ObjectsNamed(v, "DomWidget") = {} THEN s
        ELSE IF i = 1 THEN [s EXCEPT !.last = <<v>>]
        ELSE IF s.last = <<>> THEN s
        ELSE [last |-> <<v>>, out |-> Append(s.out, Stmt("setTabOrder", s.last[1], <<v>>))]
  IN  FoldLeft(Turn, [last |-> <<>>, out |-> <<>>], [i \in DOMAIN stops |-> i]).out

(* acceptConnection: dropped unless both ends are found by name.           *)
findDeclaration(t) ==
  ObjectsNamed(Name(t), "DomWidget") \cup ObjectsNamed(Name(t), "DomAction") # {}

acceptConnection(o) ==
  LET sender == heap[o].elems["sender"]
      receiver == heap[o].elems["receiver"]
  IN  IF findDeclaration(sender) /\ findDeclaration(receiver)
      THEN <<Stmt("connect", Name(sender), <<Name(receiver)>>)>> ELSE <<>>

acceptConnections ==
  IF "connections" \in DOMAIN heap[Root].elems
  THEN FlatMap(acceptConnection, ListOf(heap[Root].elems["connections"], "connection")) ELSE <<>>

(* acceptUI                                                                *)
WriteInitialization ==
  /\ declarations # <<>> /\ setupUi = <<>>
  /\ setupUi' = <<Accept(MainWidget, 0, 0, 0) \o acceptTabStops \o delayedActions \o acceptConnections>>
  /\ UNCHANGED <<vars, m_widgets, m_nameRepository, declarations>>

------------------------------------------------------------------------
UicInit == Init /\ m_widgets = None /\ m_nameRepository = {} /\ declarations = <<>> /\ setupUi = <<>>

NotCompiled == (phase = "read" /\ ~Compiled) \/ phase = "written"

(* The form is deleted once it is compiled; one that is refused is deleted *)
(* at once.                                                                *)
UicNext ==
  \/ (ReadNode \/ EndRead) /\ UNCHANGED uicVars
  \/ NotCompiled /\ (WriteForm \/ DeleteForm) /\ UNCHANGED uicVars
  \/ Validator
  \/ WriteDeclaration
  \/ WriteInitialization
  \/ setupUi # <<>> /\ DeleteForm /\ UNCHANGED uicVars

UicSpec == UicInit /\ [][UicNext]_<<vars, uicVars>>

------------------------------------------------------------------------
(* Properties                                                              *)

Compilation == setupUi # <<>> /\ phase = "read"
Named == ToSet(Walk(MainWidget))
Creations(v) == {i \in DOMAIN setupUi[1] : setupUi[1][i].does = "create" /\ setupUi[1][i].var = v}

(* The passes agree: different objects have different variables whatever   *)
(* names the form gives them, each but the main widget is declared once,   *)
(* and setupUi creates it once (Driver::unique, the tables every pass      *)
(* looks into, TreeWalker).                                                *)
EveryObjectHasItsVariable ==
  Compilation =>
    /\ \A o, p \in Named : o # p => Var(o) # Var(p)
    /\ \A o \in Named \ {MainWidget} :
         /\ Cardinality({i \in DOMAIN declarations : declarations[i] = Var(o)}) = 1
         /\ Cardinality(Creations(Var(o))) = 1

(* setupUi never uses a variable before the statement that creates it,     *)
(* though tab stops, action references and connections name objects        *)
(* anywhere in the form (the delayed outputs of WriteInitialization).      *)
CreatedBeforeUsed ==
  Compilation =>
    \A i \in DOMAIN setupUi[1] :
      LET s == setupUi[1][i]
          operands == ToSet(s.uses) \cup (IF s.does = "create" THEN {} ELSE {s.var})
      IN  \A v \in operands \ {Var(MainWidget)} : \E j \in Creations(v) : j < i

(* Every object of the form ends up where the form puts it: an item is     *)
(* added to its layout once and after it is complete, a widget is created  *)
(* under its parent or handed to the container once (acceptLayoutItem,     *)
(* acceptWidget, the chains).                                              *)
EverythingPlaced ==
  Compilation =>
    \A o \in Named :
      /\ heap[o].class = "DomLayout" =>
           \A k \in DOMAIN ListOf(o, "item") :
             Cardinality({i \in DOMAIN setupUi[1] :
                setupUi[1][i] = Stmt("add", Var(o), <<Var(ItemChild(ListOf(o, "item")[k]))>>)}) = 1
      /\ heap[o].class = "DomWidget" =>
           \A k \in DOMAIN ListOf(o, "widget") :
             LET child == ListOf(o, "widget")[k]
                 placing == IF Attr(o, "class") \in Containers
                            THEN Stmt("adopt", Var(o), <<Var(child)>>)
                            ELSE Stmt("create", Var(child), <<Var(o)>>)
             IN  Cardinality({i \in DOMAIN setupUi[1] : setupUi[1][i] = placing}) = 1

========================================================================
