------------------------------ MODULE Binder ------------------------------
(***************************************************************************)
(* Binder (binder.cpp) turns the AST into the code model: classes, enums,  *)
(* functions, with the scope, access and kind each declaration has where   *)
(* it stands.  An AST node is <<kind, tokens, children>>; a name is a      *)
(* sequence of tokens, a qualified name a sequence of names; the code      *)
(* model is the set of its items.  b holds the members of Binder:          *)
(*   scope      _M_current_class, _M_current_namespace or the file         *)
(*   context    _M_context: as scope, without template parameters          *)
(*   access, functionType, templates                 _M_current_...        *)
(*   types, anonymous                   _M_qualified_types, _M_anonymous_enums *)
(***************************************************************************)
EXTENDS Naturals, Sequences, SequencesExt, FiniteSetsExt, TLC

Builtin == {"char", "double", "float", "int", "long", "short", "void"}

Start == [scope |-> <<>>, context |-> <<>>, access |-> "public", functionType |-> "normal",
          templates |-> <<>>, types |-> {<< <<t>> >> : t \in Builtin}, anonymous |-> [c \in {} |-> 0],
          items |-> {}]

Kids(node, kinds) == SelectSeq(node[3], LAMBDA c : c[1] \in kinds)
TextOf(nodes) == IF nodes = <<>> THEN <<>> ELSE nodes[1][2]

(* NameCompiler: the tokens of a name, cut at each "::".                   *)
Qualified(text) ==
  FoldLeft(LAMBDA q, t : IF t = "::" THEN Append(q, <<>>) ELSE Front(q) \o << Append(Last(q), t) >>,
           << <<>> >>, IF text # <<>> /\ Head(text) = "::" THEN Tail(text) ELSE text)
Joined(q) == FoldLeft(LAMBDA s, n : IF s = <<>> THEN n ELSE s \o <<"::">> \o n, <<>>, q)

ItemsAt(b, kind, scope, name) ==
  {i \in b.items : i.kind = kind /\ i.scope = scope /\ i.name = name}
IsClass(b, scope) == scope # <<>> /\ ItemsAt(b, "class", Front(scope), Last(scope)) # {}
Add(b, item) == [b EXCEPT !.items = @ \cup {item}]
AddType(b, q) == [b EXCEPT !.types = @ \cup {q}]

(* CodeModelFinder::resolveScope: the scope of what a name names.          *)
NoScope == << <<>> >>
resolveScope(b, text, scope) ==
  FoldLeft(LAMBDA s, n : CASE s = NoScope -> NoScope
                           [] ItemsAt(b, "class", s, n) # {} -> Append(s, n)
                           [] OTHER -> IF IsClass(b, s) THEN s
                                       ELSE IF ItemsAt(b, "namespace", s, n) # {} THEN Append(s, n)
                                       ELSE NoScope,
           scope, Front(Qualified(text)))

(* A type is looked for in each scope around the context, and in the base  *)
(* classes of each class there.                                            *)
RECURSIVE qualifyType(_, _, _), InBases(_, _, _, _)
qualifyType(b, type, context) ==
  LET classes == ItemsAt(b, "class", Front(context), Last(context))
      bases == IF classes = {} THEN <<>> ELSE (CHOOSE i \in classes : TRUE).bases
      inherited == InBases(b, type, Front(context), bases)
  IN  IF context = <<>> \/ type \in b.types THEN type
      ELSE IF context \o type \in b.types THEN context \o type
      ELSE IF inherited # type THEN inherited
      ELSE qualifyType(b, type, Front(context))
InBases(b, type, around, bases) ==
  IF bases = <<>> THEN type
  ELSE LET q == qualifyType(b, type, Append(around, Joined(Head(bases)))) IN
       IF q # type THEN q ELSE InBases(b, type, around, Tail(bases))

(* DeclaratorCompiler, TypeCompiler, CompilerUtils::typeDescription        *)
RECURSIVE Innermost(_)
Innermost(declarator) ==
  LET sub == Kids(declarator, {"SubDeclarator"}) IN
  IF sub = <<>> THEN declarator ELSE Innermost(sub[1])
NameOf(declarator) == TextOf(Kids(Innermost(declarator), {"Id"}))
IsFunction(declarator) == Kids(declarator, {"Parameters"}) # <<>>
qualifiedName(specifier) ==
  Qualified(IF specifier[1] = "Type" THEN specifier[2] ELSE TextOf(Kids(specifier, {"Id"})))
TypeOf(node) ==
  LET specifiers == Kids(node, {"Type", "Class", "Enum"}) IN
  IF specifiers = <<>> THEN <<>> ELSE qualifiedName(specifiers[1])
ParameterTypes(declarator) ==
  LET ps == Kids(Kids(declarator, {"Parameters"})[1], {"Parameter"})
  IN  [k \in DOMAIN ps |-> TypeOf(ps[k])]

(* applyStorageSpecifiers, applyFunctionSpecifiers                         *)
Specifiers(node) == {s[2][1] : s \in Range(Kids(node, {"Specifier"}))}

Function(b, node, declarator, typeContext, argumentContext, scope) ==
  LET inner == Innermost(declarator)
      given == ParameterTypes(inner)
  IN  [kind |-> "function", scope |-> scope, name |-> Last(Qualified(NameOf(declarator))),
       access |-> b.access, functionType |-> b.functionType, specifiers |-> Specifiers(node),
       templates |-> b.templates, type |-> qualifyType(b, TypeOf(node), typeContext),
       constant |-> Kids(inner, {"Constant"}) # <<>>, abstract |-> Kids(declarator, {"Initializer"}) # <<>>,
       arguments |-> [k \in DOMAIN given |-> qualifyType(b, given[k], argumentContext)]]

declare_symbol(b, node, declarator) ==
  LET scope == resolveScope(b, NameOf(declarator), b.scope) IN
  CASE NameOf(declarator) = <<>> \/ scope = NoScope -> b
    [] OTHER ->
       IF IsFunction(Innermost(declarator))
       THEN Add(b, Function(b, node, declarator, scope, b.context, scope))
       ELSE Add(b, [kind |-> "variable", scope |-> scope, name |-> Last(Qualified(NameOf(declarator))),
                    access |-> b.access, type |-> qualifyType(b, TypeOf(node), b.context),
                    specifiers |-> Specifiers(node), templates |-> b.templates])

(* declaredFunction, isSimilar: the declarations that f could define.      *)
Declared(b, f) ==
  {g \in ItemsAt(b, "function", f.scope, f.name) : g.constant = f.constant /\ g.arguments = f.arguments}

(* A definition is merged with the declaration it defines, which keeps its *)
(* access and its kind.                                                    *)
visitFunctionDefinition(b, node) ==
  LET declarator == Kids(node, {"Declarator"})[1]
      scope == resolveScope(b, NameOf(declarator), b.scope)
      defined == [Function(b, node, declarator, b.context, scope, scope) EXCEPT !.abstract = FALSE]
      declared == Declared(b, defined)
      f == CHOOSE i \in declared : TRUE
  IN  CASE scope = NoScope -> b
        [] scope # NoScope /\ declared = {} -> Add(b, defined)
        [] scope # NoScope /\ declared # {} ->
             [b EXCEPT !.items = (@ \ {f}) \cup
                {[f EXCEPT !.specifiers = @ \cup (defined.specifiers \cap {"inline", "virtual", "explicit",
                                                                           "Q_INVOKABLE"})]}]

visitAccessSpecifier(b, node) ==
  FoldLeft(LAMBDA c, t : CASE t \in {"public", "protected", "private"} ->
                                [c EXCEPT !.access = t, !.functionType = "normal"]
                           [] t = "signals" -> [c EXCEPT !.access = "protected", !.functionType = "signal"]
                           [] t = "slots" -> [c EXCEPT !.functionType = "slot"]
                           [] OTHER -> c, b, node[2])

visitTypedef(b, node) ==
  FoldLeft(LAMBDA c, d :
             IF NameOf(d) = <<>> THEN c
             ELSE LET alias == [kind |-> "alias", scope |-> resolveScope(c, NameOf(d), c.scope),
                                name |-> NameOf(d), type |-> qualifyType(c, TypeOf(node), c.scope)]
                  IN  AddType(Add(c, alias), Append(alias.scope, alias.name)),
           b, Kids(node, {"Declarator"}))

RECURSIVE visit(_, _)

(* DefaultVisitor: the children in their order.                            *)
visitNodes(b, nodes) == FoldLeft(LAMBDA c, n : visit(c, n), b, nodes)

visitSimpleDeclaration(b, node) ==
  FoldLeft(LAMBDA c, d : declare_symbol(c, node, d),
           visitNodes(b, Kids(node, {"Class", "Enum", "Forward"})), Kids(node, {"Declarator"}))

(* A parameter that has no name drops the whole declaration.               *)
visitTemplateDeclaration(b, node) ==
  LET parameters == Kids(node, {"TemplateParameter"})
      Type(p) == p[2][1] \in {"class", "typename"}
      NameIn(p) == IF Type(p) THEN Tail(p[2]) ELSE TextOf(Kids(p[3][1], {"Id"}))
      supported == \A p \in Range(parameters) : Type(p) \/ (p[3] # <<>> /\ NameIn(p) # <<>>)
      inside == [b EXCEPT !.templates = FlattenSeq([k \in DOMAIN parameters |-> NameIn(parameters[k])])]
  IN  IF parameters = <<>> \/ ~supported THEN b
      ELSE [visitNodes(inside, SelectSeq(node[3], LAMBDA c : c[1] # "TemplateParameter"))
              EXCEPT !.templates = b.templates]

visitNamespace(b, node) ==
  LET name == TextOf(Kids(node, {"Id"}))
      inside == [b EXCEPT !.scope = Append(@, name), !.context = Append(@, name)]
      after == visitNodes(inside, node[3])
  IN  IF name = <<>> THEN visitNodes(b, node[3])
      ELSE Add([after EXCEPT !.scope = b.scope, !.context = b.context],
               [kind |-> "namespace", scope |-> b.scope, name |-> name])

(* The members are declared in a scope, with an access and a kind, of      *)
(* their own; those of the outer class come back at the end.               *)
ClassMembers(b, node, name, plain) ==
  visitNodes([b EXCEPT !.scope = Append(@, name), !.context = Append(@, plain),
                       !.access = IF node[2][1] = "class" THEN "private" ELSE "public",
                       !.functionType = "normal"],
             Kids(node, {"Access", "Declaration", "Typedef", "Using", "Template", "Q_ENUMS", "Q_PROPERTY"}))
LeaveClass_KeepsAccess(b, inner) ==
  [inner EXCEPT !.scope = b.scope, !.context = b.context, !.functionType = b.functionType]
LeaveClass(b, inner) ==
  [inner EXCEPT !.scope = b.scope, !.context = b.context,
                !.access = b.access, !.functionType = b.functionType]

(* ClassCompiler *)
BaseClasses(b, node) ==
  LET bases == Kids(node, {"Base"})
  IN  [k \in DOMAIN bases |-> qualifyType(b, Qualified(bases[k][2]), b.scope)]

visitClassSpecifier(b, node) ==
  LET plain == TextOf(Kids(node, {"Id"}))
      name == plain \o b.templates
      item == [kind |-> "class", scope |-> b.scope, name |-> name, bases |-> BaseClasses(b, node)]
      declared == AddType(Add(b, item), Append(b.scope, name))
  IN  IF plain = <<>> THEN b
      ELSE LeaveClass(b, ClassMembers(declared, node, name, plain))

visitForwardDeclarationSpecifier(b, node) == AddType(b, b.scope \o Qualified(TextOf(Kids(node, {"Id"}))))

(* An enum without a name gets one that counts those of its context.       *)
visitEnumSpecifier(b, node) ==
  LET id == TextOf(Kids(node, {"Id"}))
      scope == IF id = <<>> THEN b.scope ELSE resolveScope(b, id, b.scope)
      before == IF b.context \in DOMAIN b.anonymous THEN b.anonymous[b.context] ELSE 0
      counted == IF id = <<>> THEN [b EXCEPT !.anonymous = (b.context :> before + 1) @@ @] ELSE b
      name == IF id = <<>> THEN <<"enum_", ToString(before + 1)>> ELSE Last(Qualified(id))
      item == [kind |-> "enum", scope |-> scope, name |-> name, access |-> b.access,
               values |-> {TextOf(<<e>>)[1] : e \in Range(Kids(node, {"Enumerator"}))}]
  IN  AddType(Add(counted, item), Append(scope, name))

visitQEnums(b, node) == Add(b, [kind |-> "Q_ENUMS", scope |-> b.scope, name |-> node[2]])
visitQProperty(b, node) == Add(b, [kind |-> "Q_PROPERTY", scope |-> b.scope, name |-> node[2]])

visit(b, node) ==
  CASE node[1] = "Declaration" -> IF Kids(node, {"Body"}) # <<>> THEN visitFunctionDefinition(b, node)
                                  ELSE visitSimpleDeclaration(b, node)
    [] node[1] = "Access" -> visitAccessSpecifier(b, node)
    [] node[1] = "Class" -> visitClassSpecifier(b, node)
    [] node[1] = "Enum" -> visitEnumSpecifier(b, node)
    [] node[1] = "Forward" -> visitForwardDeclarationSpecifier(b, node)
    [] node[1] = "Namespace" -> visitNamespace(b, node)
    [] node[1] = "Template" -> visitTemplateDeclaration(b, node)
    [] node[1] = "Typedef" -> visitTypedef(b, node)
    [] node[1] = "Q_ENUMS" -> visitQEnums(b, node)
    [] node[1] = "Q_PROPERTY" -> visitQProperty(b, node)
    [] node[1] = "Linkage" -> visitNodes(b, node[3])
    [] OTHER -> b

(* run: the code model of a translation unit.                              *)
CodeModel(declarations) == visitNodes(Start, declarations).items

==========================================================================
