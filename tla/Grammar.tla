----------------------------- MODULE Grammar -----------------------------
(***************************************************************************)
(* The generator's C++ parser (parser.cpp) is a set of functions that take *)
(* tokens from a stream, may set it back, and answer whether they matched. *)
(* Each is written here as an expression of the operators below, which say *)
(* where the cursor is left on success and on failure, because what the    *)
(* next alternative reads depends on it.  Parser.tla gives their meaning.  *)
(***************************************************************************)
EXTENDS Lexer

EOF == "EOF"
Identifier == Names \cup {"__declspec"}

(* Operators.  A guard p is a sequence of sets: the next Len(p) tokens.    *)
Tok(S)          == <<"tok", S>>          \* CHECK, ADVANCE
Take             == <<"any">>             \* nextToken
Seek(S)         == <<"seek", S>>         \* nextToken until one of S, EOF or not
SkipUntil(S)    == <<"until", S>>        \* skipUntil: stops at EOF
Balanced(l, r)  == <<"skip", l, r>>      \* skip
Chain(es)         == <<"chain", es>>         \* a failure leaves the cursor there
Alt(es)         == <<"alt", es>>         \* each starts where the last failed
Try(e)          == <<"try", e>>          \* the answer is ignored
Rewind(e)       == <<"rewind", e>>       \* a failure sets the cursor back
Many(e)         == <<"many", e>>         \* as long as e matches
While(p, e)     == <<"while", p, e>>     \* e must match whenever p holds
If(p, e, f)     == <<"if", p, e, f>>
Switch(cs, f)   == <<"switch", cs, f>>   \* cases: <<set of tokens, expression>>
Cond(c, e, f)   == <<"cond", c, e, f>>   \* e or f, from where c ended
Ahead(p)        == <<"ahead", p>>        \* lookAhead only
Peek(e)         == <<"peek", e>>         \* matches as e, takes nothing
Behind(S)       == <<"behind", S>>       \* the last token taken
Moved(e)        == <<"moved", e>>        \* fails when e takes nothing
Unless(e, S, f) == <<"unless", e, S, f>> \* e, but f instead of it before no S
Longest(d, e)   == <<"longest", d, e>>   \* see parseExpressionOrDeclarationStatement
All(e, end, resume) == <<"all", e, end, resume>>  \* e's until end, with recovery
Node(kind, e)   == <<"node", kind, e>>   \* CreateNode, UPDATE_POS
Ref(name)       == <<"ref", name>>       \* a call to a function further down

Empty == Chain(<<>>)
Fail == Alt(<<>>)
Opt(S) == Try(Tok(S))                    \* ADVANCE_NR
Pair(l, r) == Rewind(Chain(<<Tok({l}), Tok({r})>>))
List(e) == Chain(<<e, Many(Chain(<<Tok({","}), e>>))>>)
Binary(e, ops) == Chain(<<e, While(<<ops>>, Chain(<<Take, e>>))>>)

Integral == {"char", "wchar_t", "bool", "short", "int", "long", "signed", "unsigned",
             "float", "double", "void"}
ClassKey == {"class", "struct", "union"}
Access == {"public", "protected", "private"}
StorageClass == {"friend", "auto", "register", "static", "extern", "mutable"}
FunctionSpecifier == {"inline", "virtual", "explicit", "Q_INVOKABLE"}
CvQualifier == {"const", "volatile"}

(* skipUntilDeclaration                                                    *)
DeclarationStart == {";", "~", "::", "operator"} \cup Identifier \cup Integral \cup CvQualifier
  \cup {"extern", "namespace", "using", "typedef", "asm", "template", "export"}
  \cup Access \cup {"signals", "slots"}

(* skipUntilStatement                                                      *)
StatementStart == {";", "{", "}", "::"} \cup Identifier \cup Integral \cup CvQualifier \cup ClassKey
  \cup {"case", "default", "if", "switch", "while", "do", "for", "break", "continue", "return",
        "goto", "try", "catch", "throw", "enum", "template", "using"}

------------------------------------------------------------------------
(* Names and types                                                         *)

parseWinDeclSpec == Chain(<<Tok({"__declspec"}), Tok({"("}), Tok(Identifier), Tok({")"})>>)

parseCvQualify == While(<<CvQualifier>>, Take)
parseStorageClassSpecifier == While(<<StorageClass>>, Node("Specifier", Take))
parseFunctionSpecifier == While(<<FunctionSpecifier>>, Node("Specifier", Take))

parseOperator ==
  Alt(<<Chain(<<Tok({"new", "delete"}), Try(Pair("[", "]"))>>),
        Tok({"+", "-", "*", "/", "%", "^", "&", "|", "~", "!", "=", "<", ">", ",", "+=", "<<",
             "==", "!=", "<=", ">=", "&&", "||", "++", "--", "->*", "->"}),
        Pair("(", ")"), Pair("[", "]")>>)

parseOperatorFunctionId ==
  Chain(<<Tok({"operator"}),
        Alt(<<parseOperator,
              Chain(<<parseCvQualify, Ref("parseSimpleTypeSpecifier"), parseCvQualify,
                    Many(Ref("parsePtrOperator"))>>)>>)>>)

parseTemplateArgument ==
  Alt(<<Rewind(Chain(<<Ref("parseTypeId"), Ahead(<<{",", ">"}>>)>>)),
        Ref("parseLogicalOrExpression_templArgs")>>)
parseTemplateArgumentList == List(parseTemplateArgument)

parseUnqualifiedName(parseTemplateId) ==
  If(<<{"~"}, Identifier>>, Chain(<<Take, Take>>),
     Chain(<<If(<<Identifier>>, Take, parseOperatorFunctionId),
           IF parseTemplateId
           THEN Try(Rewind(Chain(<<Tok({"<"}), Try(parseTemplateArgumentList), Tok({">"})>>)))
           ELSE Empty>>))

parseName(acceptTemplateId) ==
  LET part == IF acceptTemplateId THEN parseUnqualifiedName(TRUE)
              ELSE Unless(parseUnqualifiedName(TRUE), {"::"}, parseUnqualifiedName(FALSE))
  IN  Chain(<<Try(parseWinDeclSpec), Opt({"::"}), part,
            While(<<{"::"}>>, Chain(<<Take, Opt({"template"}), part>>))>>)

Name == Ref("parseName")
TemplateName == Ref("parseName_acceptTemplateId")

parseSimpleTypeSpecifier ==
  Switch(<< <<Integral, While(<<Integral>>, Take)>>,
            <<{"__typeof"},
              Chain(<<Take,
                    If(<<{"("}>>,
                       Chain(<<Take,
                             Cond(Rewind(Chain(<<Try(Ref("parseTypeId")), Ahead(<<{")"}>>)>>)),
                                  Empty, Try(Ref("parseUnaryExpression"))),
                             Tok({")"})>>),
                       Try(Ref("parseUnaryExpression")))>>)>> >>,
         Rewind(TemplateName))

parsePtrToMember ==
  Chain(<<Ahead(<<Identifier>>), parseUnqualifiedName(TRUE),
        If(<<{"::"}, {"*"}>>, Chain(<<Take, Take>>), Chain(<<Opt({"::"}), Ref("parsePtrToMember")>>))>>)

parsePtrOperator ==
  Rewind(Chain(<<Alt(<<Tok({"&", "*"}), Rewind(Chain(<<Opt({"::"}), Ref("parsePtrToMember")>>))>>),
               parseCvQualify>>))

parseElaboratedTypeSpecifier ==
  Rewind(Chain(<<Tok(ClassKey \cup {"enum", "typename"}), Node("Type", TemplateName)>>))

parseTypeSpecifier ==
  Rewind(Chain(<<parseCvQualify,
               Alt(<<parseElaboratedTypeSpecifier, Node("Type", Ref("parseSimpleTypeSpecifier"))>>),
               parseCvQualify>>))

parseTypeId == Chain(<<parseTypeSpecifier, Try(Ref("parseAbstractDeclarator"))>>)
parseTypeIdList == List(Ref("parseTypeId"))

------------------------------------------------------------------------
(* Declarators                                                             *)

parseExceptionSpecification ==
  Chain(<<Tok({"throw"}), Tok({"("}), If(<<{"..."}>>, Take, Try(parseTypeIdList)), Tok({")"})>>)

parse_Attribute__ == Chain(<<Take, Tok({"("}), Try(Ref("parseCommaExpression")), Tok({")"})>>)

parseParameterDeclaration ==
  Node("Parameter",
    Chain(<<Rewind(Chain(<<parseStorageClassSpecifier, parseTypeSpecifier>>)),
          Cond(Rewind(Ref("parseDeclarator")), Empty, Try(Ref("parseAbstractDeclarator"))),
          If(<<{"="}>>, Chain(<<Take, Try(Ref("parseLogicalOrExpression_templArgs"))>>), Empty)>>))

parseParameterDeclarationList ==
  Rewind(Chain(<<parseParameterDeclaration,
               While(<<{","}>>, Chain(<<Take, If(<<{"..."}>>, Empty, parseParameterDeclaration)>>))>>))

parseParameterDeclarationClause ==
  Chain(<<Alt(<<parseParameterDeclarationList, Ahead(<<{")"}>>), Ahead(<<{"..."}, {")"}>>)>>),
        Opt({"..."})>>)

ArrayDimensions == While(<<{"["}>>, Chain(<<Take, Try(Ref("parseCommaExpression")), Tok({"]"})>>))
BitField == Chain(<<Take, Try(Ref("parseConditionalExpression"))>>)

(* The parameters, or nothing when what is in the parentheses is not that. *)
Parameters(attribute) ==
  Cond(Node("Parameters", Rewind(Chain(<<Tok({"("}), parseParameterDeclarationClause, Tok({")"})>>))),
       Chain(<<If(<<CvQualifier>>, Node("Constant", parseCvQualify), Empty),
             Try(parseExceptionSpecification), attribute>>),
       Empty)

parseDeclarator ==
  LET suffix ==
        Chain(<<ArrayDimensions,
              Cond(Rewind(Chain(<<Tok(Identifier), Tok({"("}), Ahead(<<{"("}>>)>>)),
                   Chain(<<Parameters(If(<<{"__attribute__"}>>, Try(parse_Attribute__), Empty)), Opt({")"})>>),
                   Parameters(If(<<{"__attribute__"}>>, Try(parse_Attribute__), Empty)))>>)
  IN  Cond(Rewind(Chain(<<Many(parsePtrOperator), Tok({"("})>>)),
           Chain(<<Node("SubDeclarator", Ref("parseDeclarator")), Tok({")"}), suffix>>),
           Chain(<<Rewind(Chain(<<Many(parsePtrOperator), If(<<{":"}>>, Empty, Node("Id", TemplateName))>>)),
                 If(<<{":"}>>, BitField, suffix)>>))

parseAbstractDeclarator ==
  LET sub == If(<<{"("}>>, Cond(Rewind(Chain(<<Take, Ref("parseAbstractDeclarator")>>)), Tok({")"}), Empty),
                Empty)
  IN  Moved(Cond(Rewind(Chain(<<Many(parsePtrOperator), Ahead(<<{":"}>>)>>)), BitField,
                 Chain(<<Rewind(Chain(<<Many(parsePtrOperator), sub>>)), ArrayDimensions, Parameters(Empty)>>)))

parseInitializerClause ==
  If(<<{"{"}>>, Cond(Balanced("{", "}"), Take, Empty), Try(Ref("parseAssignmentExpression")))

parseInitializer ==
  Switch(<< <<{"="}, Chain(<<Take, parseInitializerClause>>)>>,
            <<{"("}, Chain(<<Take, Try(Ref("parseCommaExpression")), Tok({")"})>>)>> >>, Fail)

parseInitDeclarator ==
  Node("Declarator",
    Chain(<<Ref("parseDeclarator"),
          If(<<{"asm"}>>, Chain(<<Take, Try(Balanced("(", ")")), Take>>), Empty),
          Try(Node("Initializer", parseInitializer))>>))
parseInitDeclaratorList == List(parseInitDeclarator)

------------------------------------------------------------------------
(* Enums and classes                                                       *)

parseEnumerator ==
  Node("Enumerator",
    Chain(<<Tok(Identifier), If(<<{"="}>>, Chain(<<Take, Try(Ref("parseConditionalExpression"))>>), Empty)>>))

parseEnumSpecifier ==
  Node("Enum",
    Chain(<<Rewind(Chain(<<Tok({"enum"}), Try(Node("Id", Name)), Tok({"{"})>>)),
          Try(List(parseEnumerator)), Opt({"}"})>>))

parseBaseSpecifier ==
  Chain(<<If(<<{"virtual"}>>, Chain(<<Take, Opt(Access)>>), Chain(<<Opt(Access), Opt({"virtual"})>>)),
        Try(Node("Base", TemplateName))>>)
parseBaseClause == Chain(<<Tok({":"}), List(parseBaseSpecifier)>>)

parseForwardDeclarationSpecifier ==
  Node("Forward",
    Rewind(Chain(<<Tok(ClassKey), Node("Id", Name), If(<<{":"}>>, parseBaseClause, Empty), Ahead(<<{";"}>>)>>)))

parseClassSpecifier ==
  Node("Class",
    Chain(<<Rewind(Chain(<<Tok(ClassKey), Try(parseWinDeclSpec),
                       If(<<{"__attribute__"}>>, Try(parse_Attribute__), Empty),
                       While(<<Identifier, Identifier>>, Take),
                       Try(Node("Id", TemplateName)),
                       If(<<{":"}>>, Cond(parseBaseClause, Empty, SkipUntil({"{"})), Empty),
                       Tok({"{"})>>)),
          All(Ref("parseMemberSpecification"), {"}"}, DeclarationStart),
          Opt({"}"})>>))

parseAccessSpecifier ==
  LET specs == Access \cup {"signals", "slots", "k_dcop", "k_dcop_signals"}
  IN  Node("Access", Chain(<<Moved(While(<<specs>>, Take)), Tok({":"})>>))

parseQ_ENUMS == Node("Q_ENUMS", Chain(<<Ahead(<<{"Q_ENUMS"}, {"("}>>), Take, Take, Seek({")"}), Take>>))
parseQ_PROPERTY ==
  Node("Q_PROPERTY", Chain(<<Ahead(<<{"Q_PROPERTY"}, {"("}>>), Take, Take, Seek({")"}), Take>>))

parseTypeSpecifierOrClassSpec == Alt(<<parseClassSpecifier, parseEnumSpecifier, parseTypeSpecifier>>)

------------------------------------------------------------------------
(* Declarations                                                            *)

parseFunctionBody == Node("Body", Ref("parseCompoundStatement"))

parseMemInitializer == Chain(<<TemplateName, Tok({"("}), Try(Ref("parseCommaExpression")), Tok({")"})>>)
parseMemInitializerList == List(parseMemInitializer)
parseCtorInitializer == Chain(<<Tok({":"}), Try(parseMemInitializerList)>>)

(* No type: a constructor, a destructor or a cast operator.                *)
ConstructorLike ==
  Rewind(Chain(<<Peek(Chain(<<TemplateName, Ahead(<<{"("}>>)>>)), parseInitDeclarator,
               Alt(<<Tok({";"}), Chain(<<If(<<{":"}>>, parseCtorInitializer, Empty), parseFunctionBody>>)>>)>>))

TypedDeclaration(hasFunSpec) ==
  If(<<{"const"}, Identifier, {"="}>>, Chain(<<Take, parseInitDeclaratorList, Tok({";"})>>),
     Chain(<<parseTypeSpecifier,
           IF hasFunSpec THEN Empty ELSE parseFunctionSpecifier,
           If(<<{";"}>>, Take,
              Alt(<<Rewind(Chain(<<parseInitDeclarator, parseFunctionBody>>)),
                    Chain(<<parseInitDeclaratorList, Tok({";"})>>)>>))>>))

parseDeclarationInternal ==
  LET rest(hasFunSpec, cv) ==
        Chain(<<Try(parseWinDeclSpec), IF cv THEN Empty ELSE parseCvQualify,
              Alt(<<ConstructorLike, TypedDeclaration(hasFunSpec)>>)>>)
      storage(hasFunSpec, cv) ==
        Cond(Moved(parseStorageClassSpecifier),
             IF hasFunSpec THEN rest(TRUE, cv)
             ELSE Cond(Moved(parseFunctionSpecifier), rest(TRUE, cv), rest(FALSE, cv)),
             rest(hasFunSpec, cv))
      qualified(hasFunSpec) ==
        Cond(Moved(parseCvQualify), storage(hasFunSpec, TRUE), storage(hasFunSpec, FALSE))
  IN  Chain(<<Try(parseWinDeclSpec),
            Cond(Moved(parseFunctionSpecifier), qualified(TRUE), qualified(FALSE))>>)

(* A type that may be defined here, then its declarators.                  *)
TypeDeclaration(specifiers) ==
  Node("Declaration",
    Cond(Rewind(Chain(<<parseCvQualify, parseStorageClassSpecifier, parseCvQualify, Alt(specifiers)>>)),
         Chain(<<parseCvQualify, Try(parseInitDeclaratorList), Tok({";"})>>),
         Ref("parseDeclarationInternal")))

parseLinkageBody ==
  Chain(<<Tok({"{"}), All(Ref("parseDeclaration"), {"}"}, DeclarationStart), Opt({"}"})>>)

parseLinkageSpecification ==
  Node("Linkage",
    Chain(<<Tok({"extern"}), Opt({"string"}),
          If(<<{"{"}>>, Try(parseLinkageBody), Try(Ref("parseDeclaration")))>>))

parseNamespace ==
  Node("Namespace",
    Chain(<<Tok({"namespace"}), Try(Node("Id", Tok(Identifier))),
          Switch(<< <<{"="}, Chain(<<Take, Name, Tok({";"})>>)>>,
                    <<{"{"}, Try(parseLinkageBody)>> >>, Fail)>>))

parseUsingDirective == Chain(<<Tok({"namespace"}), Name, Tok({";"})>>)
parseUsing ==
  Node("Using",
    Chain(<<Tok({"using"}),
          If(<<{"namespace"}>>, parseUsingDirective, Chain(<<Opt({"typename"}), Name, Tok({";"})>>))>>))

parseTypedef ==
  Node("Typedef",
    Chain(<<Tok({"typedef"}), parseTypeSpecifierOrClassSpec, Try(parseInitDeclaratorList), Tok({";"})>>))

parseAsmDefinition ==
  Node("Asm", Chain(<<Tok({"asm"}), parseCvQualify, Try(Balanced("(", ")")), Take, Tok({";"})>>))

parseTypeParameter ==
  Switch(<< <<{"class", "typename"},
              Rewind(Chain(<<Take, Cond(TemplateName,
                                     If(<<{"="}>>, Chain(<<Take, Ref("parseTypeId")>>), Ahead(<<{",", ">"}>>)),
                                     Empty)>>))>>,
            <<{"template"},
              Chain(<<Take, Tok({"<"}), Ref("parseTemplateParameterList"), Tok({">"}), Opt({"class"}),
                    Cond(TemplateName, If(<<{"="}>>, Chain(<<Take, Ref("parseTypeId")>>), Empty), Empty),
                    If(<<{"="}>>, Chain(<<Take, Try(TemplateName)>>), Empty)>>)>> >>, Fail)

parseTemplateParameter == Node("TemplateParameter", Alt(<<parseTypeParameter, parseParameterDeclaration>>))
parseTemplateParameterList == List(parseTemplateParameter)

parseTemplateDeclaration ==
  Node("Template",
    Chain(<<Opt({"export"}), Tok({"template"}),
          If(<<{"<"}>>, Chain(<<Take, Try(parseTemplateParameterList), Tok({">"})>>), Empty),
          Try(Ref("parseDeclaration"))>>))

parseMemberSpecification ==
  If(<<{";", "Q_OBJECT", "K_DCOP"}>>, Take,
     Alt(<<Rewind(Alt(<<parseTypedef, parseUsing, parseTemplateDeclaration, parseAccessSpecifier,
                        parseQ_PROPERTY, parseQ_ENUMS>>)),
           TypeDeclaration(<<parseEnumSpecifier, parseClassSpecifier>>)>>))

parseDeclaration ==
  Switch(<< <<{";"}, Take>>,
            <<{"extern"}, parseLinkageSpecification>>,
            <<{"namespace"}, parseNamespace>>,
            <<{"using"}, parseUsing>>,
            <<{"typedef"}, parseTypedef>>,
            <<{"asm"}, parseAsmDefinition>>,
            <<{"Q_ENUMS"}, parseQ_ENUMS>>,
            <<{"template", "export"}, parseTemplateDeclaration>> >>,
         TypeDeclaration(<<parseEnumSpecifier, parseClassSpecifier, parseForwardDeclarationSpecifier>>))

------------------------------------------------------------------------
(* Expressions                                                             *)

Comma == Ref("parseCommaExpression")
Arguments == Chain(<<Tok({"("}), Try(Comma), Tok({")"})>>)

parsePrimaryExpression ==
  Switch(<< <<{"string"}, While(<<{"string"}>>, Take)>>,
            <<{"number", "charlit", "true", "false", "this"}, Take>>,
            <<{"("}, Chain(<<Take, If(<<{"{"}>>, Ref("parseCompoundStatement"), Comma), Tok({")"})>>)>> >>,
         Name)

parsePostfixExpressionInternal ==
  Switch(<< <<{"["}, Chain(<<Take, Try(Comma), Tok({"]"})>>)>>,
            <<{"("}, Chain(<<Take, Try(Comma), Tok({")"})>>)>>,
            <<{".", "->"},
              Chain(<<Take,
                    Cond(Tok({"template"}),
                         TemplateName,
                         Cond(Rewind(Chain(<<TemplateName, Behind({">"}), Ahead(<<{"("}>>)>>)), Empty, Name))>>)>>,
            <<{"++", "--"}, Take>> >>, Fail)

parsePostfixExpression ==
  LET primary == Chain(<<parsePrimaryExpression, Many(parsePostfixExpressionInternal)>>)
      cast == Peek(Chain(<<TemplateName, Behind({">"}), Ahead(<<{"("}>>), Ref("parseCast")>>))
  IN  Switch(<< <<{"dynamic_cast", "static_cast", "reinterpret_cast", "const_cast"},
                  Chain(<<Take, Tok({"<"}), Try(Ref("parseTypeId")), Tok({">"}), Arguments,
                        Many(parsePostfixExpressionInternal)>>)>>,
                <<{"typename"}, Chain(<<Take, TemplateName, Arguments>>)>>,
                <<{"typeid"}, Chain(<<Take, Tok({"("}), Try(Ref("parseTypeId")), Tok({")"})>>)>> >>,
             Cond(cast, primary,
                  Cond(Rewind(Chain(<<Ref("parseSimpleTypeSpecifier"), Ahead(<<{"("}>>)>>)),
                       Chain(<<Arguments, Many(parsePostfixExpressionInternal)>>),
                       primary)))

parseNewDeclarator ==
  Chain(<<Cond(Ref("parsePtrOperator"), Try(Ref("parseNewDeclarator")), Empty), ArrayDimensions>>)
parseNewTypeId == Chain(<<parseTypeSpecifier, Try(Ref("parseNewDeclarator"))>>)
parseNewInitializer == Arguments
parseNewExpression ==
  Chain(<<Opt({"::"}), Tok({"new"}), If(<<{"("}>>, Arguments, Empty),
        If(<<{"("}>>, Chain(<<Take, Try(Ref("parseTypeId")), Tok({")"})>>), Try(parseNewTypeId)),
        Try(parseNewInitializer)>>)

parseDeleteExpression ==
  Chain(<<Opt({"::"}), Tok({"delete"}), If(<<{"["}>>, Chain(<<Take, Tok({"]"})>>), Empty),
        Ref("parseCastExpression")>>)

parseUnaryExpression ==
  Switch(<< <<{"++", "--", "*", "&", "+", "-", "!", "~"}, Chain(<<Take, Ref("parseCastExpression")>>)>>,
            <<{"sizeof"},
              Chain(<<Take,
                    Cond(Rewind(Chain(<<Tok({"("}), Ref("parseTypeId"), Tok({")"})>>)), Empty,
                         Ref("parseUnaryExpression"))>>)>> >>,
         Cond(Peek(Chain(<<Opt({"::"}), Tok({"new"})>>)), parseNewExpression,
              Cond(Peek(Chain(<<Opt({"::"}), Tok({"delete"})>>)), parseDeleteExpression,
                   parsePostfixExpression)))

Cast == Chain(<<Tok({"("}), Ref("parseTypeId"), Tok({")"}), Ref("parseCastExpression")>>)
parseCastExpression == Alt(<<Rewind(Cast), Ref("parseUnaryExpression")>>)

parsePmExpression == Binary(Ref("parseCastExpression"), {"->*"})
parseMultiplicativeExpression == Binary(parsePmExpression, {"*", "/", "%"})
parseAdditiveExpression == Binary(parseMultiplicativeExpression, {"+", "-"})
parseShiftExpression == Binary(parseAdditiveExpression, {"<<"})
parseRelationalExpression(templArgs) ==
  Binary(parseShiftExpression, {"<", "<=", ">="} \cup (IF templArgs THEN {} ELSE {">"}))
parseEqualityExpression(templArgs) == Binary(parseRelationalExpression(templArgs), {"==", "!="})
parseAndExpression(templArgs) == Binary(parseEqualityExpression(templArgs), {"&"})
parseExclusiveOrExpression(templArgs) == Binary(parseAndExpression(templArgs), {"^"})
parseInclusiveOrExpression(templArgs) == Binary(parseExclusiveOrExpression(templArgs), {"|"})
parseLogicalAndExpression(templArgs) == Binary(parseInclusiveOrExpression(templArgs), {"&&"})
parseLogicalOrExpression(templArgs) == Binary(parseLogicalAndExpression(templArgs), {"||"})

parseConditionalExpression ==
  Chain(<<parseLogicalOrExpression(FALSE),
        If(<<{"?"}>>, Chain(<<Take, Comma, Tok({":"}), Ref("parseAssignmentExpression")>>), Empty)>>)

(* A throw is followed by an expression that its own did not take.         *)
parseThrowExpression == Chain(<<Tok({"throw"}), Try(Ref("parseAssignmentExpression"))>>)
parseAssignmentExpression ==
  Chain(<<If(<<{"throw"}>>, parseThrowExpression, Empty),
        Binary(Ref("parseConditionalExpression"), {"+=", "="})>>)

parseCommaExpression == Binary(Ref("parseAssignmentExpression"), {","})

------------------------------------------------------------------------
(* Statements                                                              *)

Statement == Ref("parseStatement")
Condition == Ref("parseCondition")

parseBlockDeclaration ==
  Switch(<< <<{"typedef"}, parseTypedef>>, <<{"using"}, parseUsing>>, <<{"asm"}, parseAsmDefinition>>,
            <<{"namespace"}, Node("Namespace", Chain(<<Take, Tok(Identifier), Tok({"="}), Try(Name), Tok({";"})>>))>> >>,
         Node("Declaration",
           Rewind(Chain(<<parseCvQualify, parseStorageClassSpecifier, parseCvQualify,
                        parseTypeSpecifierOrClassSpec, parseCvQualify,
                        Try(parseInitDeclaratorList), Tok({";"})>>))))
parseDeclarationStatement == Node("DeclarationStatement", parseBlockDeclaration)
parseExpressionStatement == Node("Expression", Chain(<<Try(Comma), Tok({";"})>>))
parseExpressionOrDeclarationStatement == Longest(parseDeclarationStatement, parseExpressionStatement)

parseCondition(initRequired) ==
  Alt(<<Rewind(Chain(<<parseTypeSpecifier,
                     IF initRequired THEN Chain(<<Ref("parseDeclarator"), Ahead(<<{"="}>>)>>)
                     ELSE Alt(<<Rewind(Ref("parseDeclarator")), Ref("parseAbstractDeclarator")>>),
                     If(<<{"="}>>, Chain(<<Take, Try(Comma)>>), Empty)>>)),
        Comma>>)

parseWhileStatement ==
  Node("While", Chain(<<Tok({"while"}), Tok({"("}), Condition, Tok({")"}), Statement>>))
parseDoStatement ==
  Node("Do", Chain(<<Tok({"do"}), Try(Statement), Opt({"while"}), Opt({"("}), Try(Comma),
                   Opt({")"}), Opt({";"})>>))
parseForInitStatement == Alt(<<parseDeclarationStatement, parseExpressionStatement>>)
parseForStatement ==
  Node("For", Chain(<<Tok({"for"}), Tok({"("}), parseForInitStatement, Try(Condition), Tok({";"}),
                    Try(Comma), Tok({")"}), Statement>>))
parseIfStatement ==
  Node("If", Chain(<<Tok({"if"}), Tok({"("}), Condition, Tok({")"}), Statement,
                   If(<<{"else"}>>, Chain(<<Take, Statement>>), Empty)>>))
parseSwitchStatement ==
  Node("Switch", Chain(<<Tok({"switch"}), Tok({"("}), Condition, Tok({")"}), Ref("parseCompoundStatement")>>))
parseTryBlockStatement ==
  Chain(<<Tok({"try"}), Ref("parseCompoundStatement"), Ahead(<<{"catch"}>>),
        While(<<{"catch"}>>,
              Chain(<<Take, Tok({"("}), If(<<{"..."}>>, Take, parseCondition(FALSE)), Tok({")"}),
                    Ref("parseCompoundStatement")>>))>>)
parseLabeledStatement ==
  Switch(<< <<Identifier \cup {"default"}, Chain(<<Rewind(Chain(<<Take, Tok({":"})>>)), Statement>>)>>,
            <<{"case"},
              Chain(<<Take, Cond(Ref("parseConditionalExpression"),
                              If(<<{"..."}>>, Chain(<<Take, Try(Ref("parseConditionalExpression"))>>), Empty), Empty),
                    Tok({":"}), Statement>>)>> >>, Fail)

parseCompoundStatement ==
  Node("Compound", Chain(<<Tok({"{"}), All(Statement, {"}"}, StatementStart), Opt({"}"})>>))

parseStatement ==
  Switch(<< <<{"while"}, parseWhileStatement>>, <<{"do"}, parseDoStatement>>, <<{"for"}, parseForStatement>>,
            <<{"if"}, parseIfStatement>>, <<{"switch"}, parseSwitchStatement>>,
            <<{"try"}, parseTryBlockStatement>>,
            <<{"case", "default"}, parseLabeledStatement>>,
            <<{"break", "continue"}, Chain(<<Take, Tok({";"})>>)>>,
            <<{"goto"}, Chain(<<Take, Tok(Identifier), Tok({";"})>>)>>,
            <<{"return"}, Node("Return", Chain(<<Take, Try(Comma), Tok({";"})>>))>>,
            <<{"{"}, Ref("parseCompoundStatement")>>,
            <<Identifier, Alt(<<parseLabeledStatement, parseExpressionOrDeclarationStatement>>)>> >>,
         parseExpressionOrDeclarationStatement)

------------------------------------------------------------------------
(* The functions that are called before they are defined here              *)
Called ==
  [parseName |-> parseName(FALSE),
   parseName_acceptTemplateId |-> parseName(TRUE),
   parseSimpleTypeSpecifier |-> parseSimpleTypeSpecifier,
   parsePtrToMember |-> parsePtrToMember,
   parsePtrOperator |-> parsePtrOperator,
   parseTypeId |-> parseTypeId,
   parseDeclarator |-> parseDeclarator,
   parseAbstractDeclarator |-> parseAbstractDeclarator,
   parseTemplateParameterList |-> parseTemplateParameterList,
   parseMemberSpecification |-> parseMemberSpecification,
   parseDeclaration |-> parseDeclaration,
   parseDeclarationInternal |-> parseDeclarationInternal,
   parseUnaryExpression |-> parseUnaryExpression,
   parseCast |-> Cast,
   parseCastExpression |-> parseCastExpression,
   parseNewDeclarator |-> parseNewDeclarator,
   parseLogicalOrExpression_templArgs |-> parseLogicalOrExpression(TRUE),
   parseConditionalExpression |-> parseConditionalExpression,
   parseAssignmentExpression |-> parseAssignmentExpression,
   parseCommaExpression |-> parseCommaExpression,
   parseCondition |-> parseCondition(TRUE),
   parseStatement |-> parseStatement,
   parseCompoundStatement |-> parseCompoundStatement]

==========================================================================
