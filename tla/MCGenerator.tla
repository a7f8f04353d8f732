--------------------------- MODULE MCGenerator ---------------------------
EXTENDS Generator

TextOfLine(ts) == [kind |-> "text", tokens |-> ts]
Line(k) == [kind |-> k]
On(k, name) == [kind |-> k, name |-> name]
Object(definition) == [functionLike |-> FALSE, formals |-> <<>>, definition |-> definition]
Call(formals, definition) == [functionLike |-> TRUE, formals |-> formals, definition |-> definition]
DefineAs(name, macro) == [kind |-> "define", name |-> name, macro |-> macro]
Include(file) == [kind |-> "include", file |-> file]

(* A condition and how it is written, with the parentheses C asks for.     *)
Level(op) == CHOOSE k \in DOMAIN Levels : op \in Levels[k]
RECURSIVE Written(_, _)
Written(c, level) ==
  LET own == CASE c[1] \in {"number", "defined", "name", "!"} -> Len(Levels) + 1
               [] c[1] = "?" -> 0
               [] OTHER -> Level(c[1])
      plain == CASE c[1] \in {"number", "name"} -> <<c[2]>>
                 [] c[1] = "defined" -> <<"defined", "(", c[2], ")">>
                 [] c[1] = "!" -> <<"!">> \o Written(c[2], own)
                 [] c[1] = "?" -> Written(c[2], 1) \o <<"?">> \o Written(c[3], 0) \o <<":">> \o Written(c[4], 0)
                 [] OTHER -> Written(c[2], own) \o <<c[1]>> \o Written(c[3], own + 1)
  IN  IF own < level THEN <<"(">> \o plain \o <<")">> ELSE plain
Condition_(kind, tree) == [kind |-> kind, tree |-> tree, condition |-> Written(tree, 0)]

N(k) == <<"number", k>>
D(n) == <<"defined", n>>
V == <<"name", "VERSION">>

MCNumber == [t \in {"0", "1", "2"} |-> CASE t = "0" -> 0 [] t = "1" -> 1 [] t = "2" -> 2]

ConditionalLines ==
  {DefineAs("SLOTS", Object(<<"public", "slots">>)),
   DefineAs("SLOTS", Object(<<"SIGNALS">>)),
   On("undef", "SLOTS"), On("ifdef", "SLOTS"),
   Condition_("if", <<"||", <<"&&", D("SLOTS"), <<"!", D("VERSION")>> >>,
                           <<"==", <<"-", <<"-", V, N("1")>>, N("1")>>, N("0")>> >>),
   Condition_("elif", <<"?", <<"<", V, N("1")>>, D("SLOTS"), <<"*", <<"+", N("1"), N("1")>>, N("0")>> >>),
   Line("else"), Line("endif"),
   Include("version"), Include("absent"),
   TextOfLine(<<"SLOTS", ":">>),
   TextOfLine(<<"METHOD", "(", "f", ",", "(", "int", "x", ")", ")", ";">>),
   TextOfLine(<<"struct", "B", "{", "A", "g", "(", ")", "{", "if", "(", "x", ">=", "0", ")", "return", "b", ";", "}", "}", ";">>),
   TextOfLine(<<"q", ")", "int", "x", ";">>)}


(* Macros and conditionals: any four of the lines.                         *)
Conditional ==
  [beginning |-> <<DefineAs("METHOD", Call(<<"name", "args">>, <<"void", "name", "args">>)),
                   DefineAs("SIGNALS", Object(<<"signals">>)),
                   TextOfLine(<<"class", "A", "{">>)>>,
   lines |-> [k \in 1 .. 4 |-> ConditionalLines],
   ending |-> <<TextOfLine(<<"int", "f", "(", ")", "const", ";", "}", ";">>)>>]

(* Class hierarchies: a base class, interfaces, and two that extend them.  *)
Method(name) == <<"void", name, "(", ")", ";">>
Overload(name) == <<"void", name, "(", "int", "x", ")", ";">>
VirtualMethod(method) == <<"virtual">> \o method
Pure(method) == <<"virtual">> \o Front(method) \o <<"=", "0", ";">>
Struct(name, bases, members) == <<"struct", name>> \o bases \o <<"{">> \o members \o <<"}", ";">>
From(b) == <<":", "public", b>>

BaseClasses_ ==
  {Struct("B", <<>>, VirtualMethod(Method("f")) \o Overload("f") \o Pure(Method("h"))),
   <<"class", "B", "{", "public", ":", "B", "(", "int", "x", ")", ";">> \o Method("h") \o Overload("g")
     \o <<"protected", ":">> \o VirtualMethod(Method("f")) \o <<"}", ";">>}
JAlone == Struct("J", <<>>, Pure(Method("k")) \o Method("m"))
Interfaces_ == {JAlone, JAlone \o Struct("I", From("J"), Method("k") \o Pure(Overload("m")))}
Derived ==
  {Struct("D", From("B"), Method("f")),
   Struct("D", From("B"), Method("h") \o <<"private", ":">> \o Method("f")),
   Struct("D", From("B") \o <<",", "public", "J">>, Method("k")),
   Struct("D", From("I"), Method("m") \o Overload("k")),
   Struct("D", From("I") \o <<",", "R">>, Overload("m") \o <<"~", "D", "(", ")", ";">>),
   Struct("D", <<":", "Z", ",", "public", "B">>, Method("f"))}
Last_ ==
  {Struct("E", From("D"), Method("f") \o Method("k")),
   Struct("E", From("D"), Overload("f") \o Overload("m") \o Struct("C", <<>>, Method("g"))
                          \o <<"static", "C", "h", "(", "C", "x", ")", ";">>),
   <<"namespace", "N", "{">> \o Struct("E", From("D"), Method("m")) \o Method("g") \o <<"}">>,
   <<"typedef", "D", "E", ";">>}
Hierarchy ==
  [beginning |-> <<>>,
   lines |-> [k \in 1 .. 4 |-> {TextOfLine(ts) : ts \in <<BaseClasses_, Interfaces_, Derived, Last_>>[k]}],
   ending |-> <<>>]

MCHeaders == <<Conditional, Hierarchy>>
MCFiles == [version |-> <<Line("pragma"), On("ifndef", "VERSION"), DefineAs("VERSION", Object(<<"2">>)),
                          Line("else"), On("undef", "VERSION"), Line("endif")>>]
MCLines == UNION {Range(h.beginning) \cup Range(h.ending) \cup UNION Range(h.lines) : h \in Range(MCHeaders)}
           \cup UNION {Range(MCFiles[f]) : f \in DOMAIN MCFiles}

Class(name) == << <<name>> >>
MCTypeEntries ==
  [q \in {Class(n) : n \in {"void", "int", "B", "J", "I", "R", "D", "E", "N"}}
         \cup {Class("N") \o Class("E"), Class("E") \o Class("C")} |->
     CASE q \in {Class("void"), Class("int")} -> "primitive"
       [] q \in {Class("J"), Class("I")} -> "interface"
       [] q = Class("N") -> "namespace"
       [] OTHER -> "object"]
MCRejectedClasses == {Class("R")}
MCRejectedFunctions == {}
MCRemoved == {<<Class("B"), << <<"g">>, <<Class("int")>>, FALSE>> >>, <<Class("J"), << <<"m">>, <<>>, FALSE>> >>}
MCAlphabet == [k \in 1 .. 10 |-> << <<"A", "B", "C", "D", "E", "f", "g", "h", "k", "m">>[k] >>]
==========================================================================
