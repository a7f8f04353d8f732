---------------------------- MODULE MetaBuilder ----------------------------
(***************************************************************************)
(* AbstractMetaBuilder makes the classes that the writers print from the   *)
(* code model and the type system: a class for each class, namespace and   *)
(* typedef the type system names, an interface next to a class that is an  *)
(* interface-type, then the inheritance between them, then the functions   *)
(* each has from its bases.  Names are those of Binder.                    *)
(*   m.list         m_meta_classes                                         *)
(*   m.at           the classes, by name; an interface's is "I" and a name *)
(*   m.inherited    m_setup_inheritance_done                               *)
(*   m.fixed        those that have m_functions_fixed                      *)
(* Templates, fields, enums, properties and renamed functions are left out.*)
(***************************************************************************)
EXTENDS Naturals, Sequences, SequencesExt, FiniteSets, FiniteSetsExt, TLC

CONSTANTS TypeEntries,       \* the kind of each type the type system names
          RejectedClasses, RejectedFunctions,   \* ... <<class, function>>
          Removed,           \* <<class, signature>> of the functions it removes
          Alphabet           \* the names of functions as they sort

NoClass == <<>>
NoType == <<>>
Void == << <<"void">> >>
Final == {"FinalInTargetLang", "FinalInCpp"}
isFinal(f) == Final \subseteq f.attributes
Signature(f) == <<f.name, f.arguments, f.constant>>

Known(t) == t \in DOMAIN TypeEntries
Complex(q) == Known(q) /\ TypeEntries[q] \in {"object", "value", "interface", "container"}
isClassRejected(q) == q \in RejectedClasses
isFunctionRejected(q, name) == <<q, name>> \in RejectedFunctions

Stripped(name) == <<Head(name)>>        \* strip_template_args
Interface(q) == Append(Front(q), <<"I">> \o Last(q))
isInterface(m, c) == c # m.at[c].cppName
isNamespace(c) == Known(c) /\ TypeEntries[c] = "namespace"

ClassAs(model, q) == {i \in model : i.kind = "class" /\ Append(i.scope, i.name) = q}
BasesOf(model, q) == IF ClassAs(model, q) = {} THEN <<>> ELSE (CHOOSE i \in ClassAs(model, q) : TRUE).bases
In(order, kind, scope) == SelectSeq(order, LAMBDA i : i.kind = kind /\ i.scope = scope)

------------------------------------------------------------------------
(* Types                                                                   *)

RECURSIVE resolveType(_, _)
resolveType(model, t) ==
  LET aliases == {i \in model : i.kind = "alias" /\ Append(i.scope, i.name) = t} IN
  IF aliases = {} THEN t ELSE resolveType(model, (CHOOSE i \in aliases : TRUE).type)

NamespaceOf(model, q) ==
  LET namespaces == {Append(i.scope, i.name) : i \in {j \in model : j.kind = "namespace"}}
  IN  SubSeq(q, 1, Max({0} \cup {k \in DOMAIN q : SubSeq(q, 1, k) \in namespaces}))

(* The type in the contexts, and then in the base classes of each.         *)
RECURSIVE InContexts(_, _, _)
InContexts(model, contexts, t) ==
  IF contexts = <<>> THEN NoType
  ELSE LET q == resolveType(model, Head(contexts) \o t) IN
       IF Known(q) THEN q
       ELSE InContexts(model, Tail(contexts) \o BasesOf(model, Head(contexts)), t)

translateType(model, class, given) ==
  LET t == IF Known(given) THEN given ELSE resolveType(model, given)
      around == InContexts(model, <<class, NamespaceOf(model, class)>>, t)
  IN  CASE t = Void \/ Known(t) -> t
        [] t = NoType \/ isClassRejected(t) -> NoType
        [] around # NoType -> around
        [] OTHER -> InContexts(model, << << <<"Qt">> >> >>, t)

------------------------------------------------------------------------
(* Functions and classes                                                   *)

KindOfFunction(q, item) ==
  IF Head(item.name) = "~" THEN "destructor"
  ELSE IF item.name = Stripped(Last(q)) THEN "constructor" ELSE item.functionType

traverseFunction(model, q, item) ==
  [name |-> item.name, constant |-> item.constant, kind |-> KindOfFunction(q, item),
   type |-> IF KindOfFunction(q, item) \in {"constructor", "destructor"} THEN NoType
            ELSE translateType(model, q, item.type),
   arguments |-> [k \in DOMAIN item.arguments |-> translateType(model, q, item.arguments[k])],
   visibility |-> item.access,
   attributes |-> (IF item.abstract THEN {"Abstract"} ELSE {"Native"})
                  \cup (IF "virtual" \in item.specifiers THEN {} ELSE Final)
                  \cup (IF "static" \in item.specifiers THEN {"Static"} \cup Final ELSE {})
                  \cup (item.specifiers \cap {"Q_INVOKABLE"}),
   owner |-> q, implementor |-> q, declaring |-> q]

isInvalid(f) ==
  \/ f.kind = "destructor"
  \/ f.kind # "constructor" /\ f.type = NoType
  \/ \E k \in DOMAIN f.arguments : f.arguments[k] \in {NoType, Void}

isPrivate(f) == f.visibility = "private"
isRemovedFrom(m, f, c) == Signature(f) \in m.at[c].removed
RemovedFrom(q) == {r[2] : r \in {s \in Removed : s[1] = q}}

setupFunctionDefaults(f, q) ==
  IF "FinalInTargetLang" \notin f.attributes /\ Signature(f) \in RemovedFrom(q)
  THEN [f EXCEPT !.attributes = @ \cup {"FinalInCpp"}] ELSE f

Published(f, q) ==
  IF TypeEntries[q] = "interface" /\ f.visibility = "protected" THEN [f EXCEPT !.visibility = "public"] ELSE f

FunctionsIn(model, q, scope) ==
  {traverseFunction(model, q, i) :
     i \in {j \in model : /\ j.kind = "function" /\ j.scope = scope
                          /\ ~isFunctionRejected(q, j.name) /\ "friend" \notin j.specifiers}}

(* The functions a class keeps: no destructor, no private constructor, none*)
(* of a type that is not known.                                            *)
traverseFunctions(model, q, scope) ==
  {setupFunctionDefaults(Published(IF isNamespace(q) THEN [f EXCEPT !.attributes = @ \cup {"Static"}] ELSE f, q), q) :
     f \in {g \in FunctionsIn(model, q, scope) : ~isInvalid(g) /\ ~(g.kind = "constructor" /\ isPrivate(g))}}

(* Final, when it cannot be constructed or destroyed.                      *)
ClassAttributes(model, q, scope) ==
  LET given == FunctionsIn(model, q, scope)
      constructors == {f \in given : f.kind = "constructor"}
      locked == \/ \E f \in constructors : isPrivate(f) \/ isInvalid(f)
                \/ \E f \in given : f.kind = "destructor" /\ isPrivate(f)
  IN  IF locked /\ \A f \in constructors : isPrivate(f) \/ isInvalid(f) THEN {"Public"} \cup Final ELSE {"Public"}

MetaClass(q, baseNames, functions, attributes) ==
  [cppName |-> q, baseNames |-> baseNames, base |-> NoClass, interfaces |-> <<>>,
   functions |-> functions, attributes |-> attributes, removed |-> RemovedFrom(q)]
WithClass(m, q, class) == [m EXCEPT !.at = (q :> class) @@ @]
Listed(m, q) == IF q \in DOMAIN m.at THEN [m EXCEPT !.list = Append(@, q)] ELSE m

extractInterface(m, q) ==
  LET i == Interface(q)
      functions == {[f EXCEPT !.owner = i] : f \in {g \in m.at[q].functions : g.kind # "constructor"}}
  IN  WithClass([m EXCEPT !.at[q].interfaces = Append(@, i)], i,
                [m.at[q] EXCEPT !.functions = functions, !.baseNames = <<>>])

addAbstractMetaClass(m, q) ==
  CASE q \notin DOMAIN m.at \/ TypeEntries[q] = "container" -> m
    [] TypeEntries[q] = "interface" -> Listed(Listed(extractInterface(m, q), q), Interface(q))
    [] OTHER -> Listed(m, q)

(* A typedef that the type system names is a class whose base is the type. *)
traverseTypeAlias(m, item, outer) ==
  LET q == Append(outer, Stripped(item.name)) IN
  IF Complex(q) THEN addAbstractMetaClass(WithClass(m, q, MetaClass(q, <<item.type>>, {}, {"Public"})), q) ELSE m
Aliases(m, order, scope, outer) ==
  FoldLeft(LAMBDA n, i : traverseTypeAlias(n, i, outer), m, In(order, "alias", scope))

(* The inner classes come before their class, and have no interfaces.      *)
RECURSIVE traverseClass(_, _, _, _, _)
traverseClass(m, model, order, item, outer) ==
  LET q == Append(outer, Stripped(item.name))
      here == Append(item.scope, item.name)
      class == MetaClass(q, item.bases, traverseFunctions(model, q, here), ClassAttributes(model, q, here))
      inner == FoldLeft(LAMBDA n, i : Listed(traverseClass(n, model, order, i, q), Append(q, Stripped(i.name))),
                        WithClass(m, q, class), In(order, "class", here))
  IN  IF isClassRejected(q) \/ ~Complex(q) THEN m ELSE Aliases(inner, order, here, q)
Classes(m, model, order, scope, outer) ==
  FoldLeft(LAMBDA n, i : addAbstractMetaClass(traverseClass(n, model, order, i, outer), Append(outer, Stripped(i.name))),
           m, In(order, "class", scope))

RECURSIVE traverseNamespace(_, _, _, _, _)
traverseNamespace(m, model, order, item, outer) ==
  LET q == Append(outer, item.name)
      here == Append(item.scope, item.name)
      class == MetaClass(q, <<>>, traverseFunctions(model, q, here), {"Public"})
      members == Aliases(Classes(m, model, order, here, q), order, here, q)
      nested == FoldLeft(LAMBDA n, i : traverseNamespace(n, model, order, i, q), members, In(order, "namespace", here))
  IN  IF isClassRejected(q) \/ ~isNamespace(q) THEN m ELSE Listed(WithClass(nested, q, class), q)

(* build, as far as the classes: in the order the hashes give them.        *)
Traversed(model, order) ==
  LET none == [list |-> <<>>, at |-> [q \in {} |-> <<>>], inherited |-> {}, fixed |-> {}]
      classes == Classes(none, model, order, <<>>, <<>>)
      namespaces == FoldLeft(LAMBDA m, i : traverseNamespace(m, model, order, i, <<>>), classes,
                             In(order, "namespace", <<>>))
  IN  Aliases(namespaces, order, <<>>, <<>>)

------------------------------------------------------------------------
(* Inheritance                                                             *)

(* A class stands before its interface, which has its name in C++.         *)
findClass(m, name) ==
  LET found == SelectSeq(m.list, LAMBDA c : m.at[c].cppName = name) \o SelectSeq(m.list, LAMBDA c : c = name)
  IN  IF found = <<>> THEN NoClass ELSE Head(found)

PrettySimilar(f, g) == Signature(f) = Signature(g)
hasFunction(m, c, f) == \E g \in m.at[c].functions : PrettySimilar(f, g)

(* The functions that c lacks, with what the type system changes in them.  *)
Taken(m, c, i) == {f \in m.at[i].functions : f.kind # "constructor" /\ ~hasFunction(m, c, f)}
CopiedTo_NotPure(f, c) ==
  [f EXCEPT !.owner = c, !.implementor = c, !.attributes = (@ \ {"Abstract"}) \cup {"InterfaceFunction"}]
CopiedTo(f, c) == [f EXCEPT !.owner = c, !.implementor = c, !.attributes = @ \cup {"InterfaceFunction"}]
AddFunctions(m, c, i) ==
  [m EXCEPT !.at[c].interfaces = Append(@, i),
            !.at[c].functions = @ \cup {CopiedTo(f, c) : f \in Taken(m, c, i)},
            !.at[c].removed = @ \cup (m.at[i].removed \cap {Signature(f) : f \in Taken(m, c, i)})]

ExtractedInterface(m, c) ==
  IF ~isInterface(m, c) /\ Interface(c) \in DOMAIN m.at THEN Interface(c) ELSE NoClass
addInterface(m, c, i) ==
  LET own == ExtractedInterface(m, c)
  IN  AddFunctions(IF own \in {NoClass, i} THEN m ELSE AddFunctions(m, own, i), c, i)

(* The bases but the primary one, up to the first that is not there.       *)
RECURSIVE setupInheritance(_, _), SetupInterfaces(_, _, _)
SetupInterfaces(m, c, bases) ==
  LET b == findClass(m, Head(bases))
      ready == setupInheritance(m, b)
      i == findClass(ready, Interface(b))
  IN  CASE bases = <<>> \/ b = NoClass -> m
        [] i = NoClass -> ready
        [] OTHER -> SetupInterfaces(FoldLeft(LAMBDA n, j : addInterface(n, c, j), ready, <<i>> \o ready.at[i].interfaces),
                                    c, Tail(bases))

setupInheritance(m, c) ==
  LET bases == SelectSeq(m.at[c].baseNames, LAMBDA b : ~isClassRejected(b))
      primary == SelectSeq(bases, LAMBDA b : Known(b) /\ TypeEntries[b] # "interface")
      begun == [m EXCEPT !.inherited = @ \cup {c}]
      base == findClass(m, primary[1])
  IN  CASE c \in m.inherited -> m
        [] c \notin m.inherited /\ primary = <<>> -> SetupInterfaces(begun, c, bases)
        [] c \notin m.inherited /\ Len(primary) > 1 -> begun
        [] c \notin m.inherited /\ Len(primary) = 1 ->
             IF base = NoClass THEN begun
             ELSE SetupInterfaces([begun EXCEPT !.at[c].base = base], c, SelectSeq(bases, LAMBDA b : b # primary[1]))

Inherited(m) ==
  FoldLeft(LAMBDA n, c : IF isInterface(n, c) \/ isNamespace(c) THEN n ELSE setupInheritance(n, c), m, m.list)

------------------------------------------------------------------------
(* Functions of the bases                                                  *)

RECURSIVE Supers(_, _)
Supers(m, c) == IF m.at[c].base = NoClass THEN <<>> ELSE <<m.at[c].base>> \o Supers(m, m.at[c].base)

(* queryFunctions(ClassImplements), queryFunctions(NormalFunctions)        *)
Implemented(m, c) == {f \in m.at[c].functions : f.owner = f.implementor /\ f.kind # "constructor"}
NormalFunctions(m, i) == {f \in m.at[i].functions : f.kind \notin {"signal", "constructor"}}

(* f has the name and arguments of sf, a function of a base class.         *)
Propagated(f, sf) ==
  LET freed == [f EXCEPT !.attributes = @ \ (Final \ sf.attributes)] IN
  IF f.attributes \cup {f.visibility} = sf.attributes \cup {sf.visibility} \/ f.kind = "empty" THEN f
  ELSE IF "FinalInTargetLang" \notin freed.attributes /\ isPrivate(f)
       THEN [freed EXCEPT !.kind = "empty", !.visibility = "protected", !.attributes = @ \cup {"FinalInTargetLang"}]
       ELSE freed
Shown(f, sf) ==
  CASE f.visibility = sf.visibility -> f
    [] f.visibility # sf.visibility /\ isPrivate(f) /\ "Abstract" \in sf.attributes ->
         [f EXCEPT !.kind = "empty", !.visibility = sf.visibility, !.attributes = @ \cup Final]
    [] f.visibility # sf.visibility /\ ~isPrivate(f) /\ ~isPrivate(sf) -> [f EXCEPT !.visibility = sf.visibility]
    [] OTHER -> f
Overrides(f, sf) ==
  LET g == Shown(Propagated(f, sf), sf)
  IN  [g EXCEPT !.declaring = IF ~isFinal(g) /\ isFinal(sf) THEN g.owner ELSE sf.declaring]

(* compareTo: the arguments count, whether the function is const does not. *)
EqualArguments(f, sf) == f.name = sf.name /\ f.arguments = sf.arguments

(* What c has so far takes after the functions of a base, and those whose  *)
(* name it does not have are added.                                        *)
Merge(m, funcs, given) ==
  LET Kept(S) == {f \in S : ~isRemovedFrom(m, f, f.implementor)}
      supers == SetToSortSeq(Kept(given), LAMBDA f, g : ~f.constant /\ g.constant)
      after(f) == FoldLeft(LAMBDA g, sf : IF EqualArguments(g, sf) THEN Overrides(g, sf) ELSE g, f, supers)
      names == {f.name : f \in Kept(funcs)}
  IN  (funcs \ Kept(funcs)) \cup {after(f) : f \in Kept(funcs)}
      \cup {sf \in Kept(given) : sf.kind \in {"normal", "slot", "signal", "empty"} /\ sf.name \notin names}

(* setFunctions: the functions of a name that are final although one is    *)
(* virtual have to be in the shell; the last name is not looked at.        *)
ForcedIntoShell(funcs) ==
  LET position(f) == CHOOSE k \in DOMAIN Alphabet : Alphabet[k] = f.name
      Looked(f) == \E g \in funcs : position(g) > position(f)
  IN  {IF isFinal(f) /\ Looked(f) /\ \E g \in funcs : g.name = f.name /\ ~isFinal(g)
       THEN [f EXCEPT !.attributes = @ \cup {"ForceShellImplementation"}] ELSE f : f \in funcs}
setFunctions(m, c, funcs) ==
  [m EXCEPT !.at[c].functions = ForcedIntoShell({[f EXCEPT !.owner = c] : f \in funcs})]

FinalOverloads(funcs) ==
  {IF "FinalInCpp" \in f.attributes /\ \E g \in funcs : g.name = f.name /\ "FinalInCpp" \notin g.attributes
   THEN [f EXCEPT !.attributes = @ \cup {"FinalOverload"}] ELSE f : f \in funcs}

Marked(attributes, funcs) ==
  LET constructors == {f \in funcs : f.kind = "constructor"} IN
  IF \/ \E f \in funcs : "Abstract" \in f.attributes
     \/ constructors # {} /\ \A f \in constructors : isPrivate(f)
  THEN (attributes \cup {"Abstract"}) \ Final ELSE attributes

RECURSIVE fixFunctions(_, _)

(* The base class first; then all classes above, and the interfaces.       *)
Gathered(m, c, fixed) ==
  LET above == Supers(m, c)
      open == [fixed EXCEPT !.at = [q \in DOMAIN @ |-> IF q \in Range(above)
                                                       THEN [@[q] EXCEPT !.attributes = @ \ {"FinalInTargetLang"}]
                                                       ELSE @[q]]]
      chain == FoldLeft(LAMBDA fs, s : Merge(open, fs, Implemented(open, s)), m.at[c].functions, above)
      funcs == FoldLeft(LAMBDA fs, i : Merge(open, fs, NormalFunctions(open, i)), chain, m.at[c].interfaces)
  IN  setFunctions([open EXCEPT !.at[c].attributes = Marked(@, funcs)], c, FinalOverloads(funcs))

fixFunctions_BaseLater(m, c) ==
  IF c \in m.fixed THEN m ELSE Gathered(m, c, [m EXCEPT !.fixed = @ \cup {c}])
fixFunctions(m, c) ==
  LET begun == [m EXCEPT !.fixed = @ \cup {c}] IN
  CASE c \in m.fixed -> m
    [] c \notin m.fixed /\ m.at[c].base = NoClass -> Gathered(m, c, begun)
    [] c \notin m.fixed /\ m.at[c].base # NoClass -> Gathered(m, c, fixFunctions(begun, m.at[c].base))

addDefaultConstructor(m, c) ==
  LET f == [name |-> Last(c), constant |-> FALSE, kind |-> "constructor", type |-> NoType, arguments |-> <<>>,
            visibility |-> "public", attributes |-> {"Native"} \cup Final, owner |-> c, implementor |-> c, declaring |-> c]
  IN  IF \/ \E g \in m.at[c].functions : g.kind = "constructor" /\ g.owner = g.implementor
         \/ "FinalInCpp" \in m.at[c].attributes \/ isInterface(m, c) \/ isNamespace(c)
      THEN m ELSE [m EXCEPT !.at[c].functions = @ \cup {f}]

Fixed(m) == FoldLeft(LAMBDA n, c : addDefaultConstructor(fixFunctions(n, c), c), m, m.list)

------------------------------------------------------------------------
(* Reference: what a C++ compiler makes of the same classes.               *)
Bases(model, q) == {b \in Range(BasesOf(model, q)) : ~isClassRejected(b)}
InterfaceBases(model, q) == {b \in Bases(model, q) : Known(b) /\ TypeEntries[b] = "interface"}
Own(model, q) ==
  {f \in traverseFunctions(model, q, q) : f.kind # "constructor" /\ Signature(f) \notin RemovedFrom(q)}
Signatures(model, q) == {Signature(f) : f \in Own(model, q)}
FunctionNames(signatures) == {s[1] : s \in signatures}

RECURSIVE Above(_, _)
Above(model, q) == UNION {{b} \cup Above(model, b) : b \in Bases(model, q)}

(* Interfaces give all their functions; of those of the base class, the    *)
(* ones whose name is declared again are hidden.                           *)
RECURSIVE OfInterfaces(_, _), Visible(_, _)
OfInterfaces(model, q) ==
  UNION {Signatures(model, b) \cup OfInterfaces(model, b) : b \in InterfaceBases(model, q)}
Visible(model, q) ==
  LET local == Signatures(model, q) \cup OfInterfaces(model, q)
  IN  local \cup {s \in UNION {Visible(model, b) : b \in Bases(model, q) \ InterfaceBases(model, q)} :
                    s[1] \notin FunctionNames(local)}

DeclaredVirtual(model, q, s) == \E f \in Own(model, q) : Signature(f) = s /\ ~isFinal(f)
Virtual(model, q, s) == \E b \in {q} \cup Above(model, q) : DeclaredVirtual(model, b, s)

(* The last to override each function, and whether that is pure.           *)
RECURSIVE Overriders(_, _)
Overriders(model, q) ==
  {<<Signature(f), "Abstract" \in f.attributes>> : f \in Own(model, q)}
  \cup {o \in UNION {Overriders(model, b) : b \in Bases(model, q)} : o[1] \notin Signatures(model, q)}

(* What the generator promises anything about: all bases are there, one at *)
(* most is no interface, interfaces extend interfaces, none is inherited   *)
(* twice, no name comes from the base class and from an interface, and     *)
(* none is declared again with only its const changed.                     *)
RECURSIVE Paths(_, _)
Paths(model, q) == FoldSet(LAMBDA b, n : n + 1 + Paths(model, b), 0, Bases(model, q))
Regular(model, q) ==
  LET all == {q} \cup Above(model, q) IN
  /\ \A c \in all : /\ Complex(c) /\ ClassAs(model, c) # {}
                    /\ Cardinality(Bases(model, c) \ InterfaceBases(model, c)) <= 1
                    /\ TypeEntries[c] = "interface" => Bases(model, c) = InterfaceBases(model, c)
  /\ Paths(model, q) = Cardinality(Above(model, q))
  /\ \A b \in Bases(model, q) \ InterfaceBases(model, q) :
       FunctionNames(Visible(model, b)) \cap FunctionNames(OfInterfaces(model, q)) = {}
  /\ \A b, c \in all : b # c => \A s \in Signatures(model, b), t \in Signatures(model, c) :
       s[1] = t[1] /\ s[2] = t[2] => s[3] = t[3]

ClassesWritten(model, m) ==
  {c \in Range(m.list) : ~isInterface(m, c) /\ ClassAs(model, c) # {} /\ Regular(model, c)}
Has(m, c) == {f \in m.at[c].functions : f.kind # "constructor" /\ ~isRemovedFrom(m, f, f.implementor)}

==========================================================================
