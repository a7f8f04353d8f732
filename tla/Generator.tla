---------------------------- MODULE Generator ----------------------------
(***************************************************************************)
(* The front end of the binding generator: a header is preprocessed, the   *)
(* text that results is parsed, the AST is bound to the code model, and    *)
(* the meta-classes are built from that (main.cpp,                         *)
(* AbstractMetaBuilder::build).  The header is read a line at a time; its  *)
(* lines are chosen, the k-th from the k-th set of lines, between those it *)
(* begins and ends with.                                                   *)
(***************************************************************************)
EXTENDS Preprocessor, Parser, Binder, MetaBuilder

CONSTANT Headers       \* sequence of [beginning, lines, ending]

VARIABLES phase,       \* "preprocess", "parse", "traverse", "inherit", "fix", "done"
          header,      \* which of Headers is read
          left,        \* lines the header may still have
          codeModel,
          meta         \* the meta-classes

vars == <<ppVars, parserVars, phase, header, left, codeModel, meta>>

Init ==
  /\ header \in DOMAIN Headers
  /\ PreprocessorInit(Headers[header].beginning)
  /\ ParserInit(<<>>)
  /\ phase = "preprocess" /\ left = Len(Headers[header].lines)
  /\ codeModel = {} /\ meta = NoClass

preprocess(l, rest) ==
  /\ ReadLine(l, rest)
  /\ UNCHANGED <<parserVars, phase, header, codeModel, meta>>

(* The next line is one that was included or that the header begins or     *)
(* ends with, or any other.                                                *)
Given == phase = "preprocess" /\ input # <<>> /\ preprocess(Head(input), Tail(input)) /\ UNCHANGED left
Chosen ==
  /\ phase = "preprocess" /\ input = <<>> /\ left > 0
  /\ \E l \in LET lines == Headers[header].lines IN lines[Len(lines) - left + 1] : preprocess(l, <<>>)
  /\ left' = left - 1

(* The header has no more lines than its ending.                           *)
Ends ==
  /\ phase = "preprocess" /\ input = <<>> /\ left >= 0
  /\ input' = Headers[header].ending
  /\ left' = -1
  /\ UNCHANGED <<directiveVars, result, parserVars, phase, header, codeModel, meta>>

Preprocessed ==
  /\ phase = "preprocess" /\ input = <<>> /\ left = -1
  /\ tokens' = tokenize(result) /\ UNCHANGED <<cursor, declarations>>
  /\ phase' = "parse"
  /\ UNCHANGED <<ppVars, header, left, codeModel, meta>>

Parsing ==
  /\ phase = "parse"
  /\ parseTranslationUnit
  /\ UNCHANGED <<ppVars, phase, header, left, codeModel, meta>>

Bind ==
  /\ phase = "parse" /\ LA(cursor) = EOF
  /\ codeModel' = CodeModel(declarations)
  /\ phase' = "traverse"
  /\ UNCHANGED <<ppVars, parserVars, header, left, meta>>

build(from, to) ==
  /\ phase = from /\ phase' = to
  /\ UNCHANGED <<ppVars, parserVars, header, left, codeModel>>

(* The hashes give the classes in any order; of the others there are too   *)
(* few here for theirs to matter.                                          *)
Traverse ==
  /\ build("traverse", "inherit")
  /\ LET top == {i \in codeModel : i.kind = "class" /\ i.scope = <<>>} IN
     \E order \in SetToSeqs(top) :
       meta' = Traversed(codeModel, order \o SetToSeq({i \in codeModel : i.kind \in {"class", "namespace", "alias"}} \ top))
SetupInheritance == build("inherit", "fix") /\ meta' = Inherited(meta)
FixFunctions == build("fix", "done") /\ meta' = Fixed(meta)

Next == Given \/ Chosen \/ Ends \/ Preprocessed \/ Parsing \/ Bind \/ Traverse \/ SetupInheritance \/ FixFunctions

(* The program runs until it is done: weak fairness of Next.  What enables *)
(* <<Next>>_vars is written out, and that a step is one of Next follows    *)
(* from the rest of Spec, both because TLC is too slow to find them out.   *)
CanStep == phase # "done" /\ (phase = "parse" /\ LA(cursor) # EOF => NextCursor # cursor)
Fairness == []<>~CanStep \/ []<><<TRUE>>_vars

Spec == Init /\ [][Next]_vars /\ Fairness

------------------------------------------------------------------------
(* The groups and the table are those of Directives.                       *)
C == INSTANCE Conditionals WITH
  groups <- groupsOf,
  table <- tableOf,
  text <- result

(* rpp keeps the lines of text that a C preprocessor keeps, with their     *)
(* macros expanded: nested and skipped groups, #elif after a branch that   *)
(* was taken, stray #else and #endif, files included in the middle of a    *)
(* group, macros undefined and defined again.                              *)
ImplementsConditionals == C!Spec

(* Reference: what the text says, read off its braces.                     *)
Depth(i) == Cardinality({k \in 1 .. i : tokens[k] = "{"}) - Cardinality({k \in 1 .. i : tokens[k] = "}"})

(* The braces that are open at i, from the outermost, by position.         *)
OpenAt(i) ==
  SetToSortSeq({k \in 1 .. i : /\ tokens[k] = "{"
                               /\ \A m \in k .. i : Depth(m) >= Depth(k)}, <)
KeyBefore(open) ==
  LET keys == {k \in 1 .. open : tokens[k] \in {"class", "struct", "namespace"}}
  IN  CHOOSE k \in keys : \A j \in keys : j <= k
ClassAt(i) == [k \in DOMAIN OpenAt(i) |-> <<tokens[KeyBefore(OpenAt(i)[k]) + 1]>>]

(* What is in force at i of the specifiers in S: the last in its class.    *)
LastOf(S, i) ==
  LET open == Last(OpenAt(i))
  IN  {k \in open .. i : /\ tokens[k] \in S /\ Depth(k) = Depth(i)
                         /\ \A m \in k + 1 .. i : Depth(m) = Depth(i) => tokens[m] \notin S}

CONSTANT Members       \* names of member functions
MembersWritten ==
  {[scope |-> ClassAt(i), name |-> <<tokens[i]>>,
    access |-> LET k == LastOf(Access \cup {"signals"}, i) IN
               IF k = {} THEN IF tokens[KeyBefore(Last(OpenAt(i)))] = "class" THEN "private" ELSE "public"
               ELSE LET t == tokens[CHOOSE j \in k : TRUE] IN IF t = "signals" THEN "protected" ELSE t,
    functionType |-> LET k == LastOf(Access \cup {"signals", "slots"}, i) IN
                     IF k = {} THEN "normal"
                     ELSE LET t == tokens[CHOOSE j \in k : TRUE] IN
                          CASE t = "signals" -> "signal" [] t = "slots" -> "slot" [] OTHER -> "normal"]
   : i \in {k \in 1 .. Len(tokens) - 1 : tokens[k] \in Members /\ tokens[k + 1] = "(" /\ Depth(k) > 0}}

(* Every member function that the text declares is in the code model, with *)
(* the class it stands in and the access and kind of the specifiers before *)
(* it there, whatever macros and conditionals made the text; and no other. *)
(* (A header that leaves an #if open loses the end of its class.)          *)
CONSTANT Malformed     \* tokens of lines that are not C++
ConstructorOrDestructor(f) == f.scope # <<>> /\ Last(f.name) = Head(Last(f.scope))
MembersAsWritten ==
  phase = "traverse" /\ iflevel = 0 /\ Range(tokens) \cap Malformed = {} =>
    {[scope |-> f.scope, name |-> f.name, access |-> f.access, functionType |-> f.functionType]
       : f \in {i \in codeModel : i.kind = "function" /\ ~ConstructorOrDestructor(i)}} = MembersWritten

(* Whatever the order of the classes, and however bases, typedefs and      *)
(* namespaces are nested, a meta-class has the functions that C++ finds in *)
(* the class, and those that are virtual there, or override one that is,   *)
(* and no others are not final.                                            *)
InheritedAsInCpp ==
  phase = "done" =>
    \A c \in ClassesWritten(codeModel, meta) :
      /\ {Signature(f) : f \in Has(meta, c)} = Visible(codeModel, c)
      /\ \A f \in Has(meta, c) : "FinalInCpp" \notin f.attributes <=> Virtual(codeModel, c, Signature(f))

(* A meta-class is marked abstract, and then gets a concrete wrapper, if   *)
(* C++ cannot make an object of the class: a function that it or a base    *)
(* class declares pure is not overridden.  (Unless a function of its name  *)
(* hides it: then the mark is missing.)                                    *)
AbstractAsInCpp ==
  phase = "done" =>
    \A c \in ClassesWritten(codeModel, meta) :
      LET pure == {o[1] : o \in {p \in Overriders(codeModel, c) : p[2]}} IN
      pure \subseteq Visible(codeModel, c) => ("Abstract" \in meta.at[c].attributes <=> pure # {})

(* The generator comes to an end with every text: error recovery always    *)
(* takes a token.                                                          *)
EverythingRead == <>(phase = "done")

==========================================================================
