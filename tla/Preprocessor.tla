--------------------------- MODULE Preprocessor ---------------------------
(***************************************************************************)
(* The generator's preprocessor (parser/rpp): pp::operator() reads a file  *)
(* line by line, keeping the levels and macros of Directives.  Here are    *)
(* the text it puts out, macro expansion and what conditions are worth.    *)
(* Text is a sequence of tokens; # and ## are left out.                    *)
(***************************************************************************)
EXTENDS Directives, Bitwise

CONSTANTS Number,      \* number token -> its value
          Files        \* file name -> its lines, of the files that are found

VARIABLES result,      \* the tokens put out
          input        \* the lines still to read of the files that are open

ppVars == <<directiveVars, result, input>>

------------------------------------------------------------------------
(* pp_macro_expander.  A frame holds the formals and actuals of the macro  *)
(* whose definition is expanded; a macro is hidden while it is expanded.   *)
NoFrame == [formals |-> <<>>, actuals |-> <<>>]

(* The end of the argument at i: a "," or ")" outside parentheses.         *)
RECURSIVE skip_argument(_, _, _)
skip_argument(s, i, depth) ==
  IF i > Len(s) \/ (depth = 0 /\ s[i] \in {",", ")"}) THEN i
  ELSE skip_argument(s, i + 1, CASE s[i] = "(" -> depth + 1 [] s[i] = ")" -> depth - 1 [] OTHER -> depth)

RECURSIVE expand(_, _, _, _), actualsOf(_, _, _, _), expandCall(_, _, _, _), expandObject(_, _, _, _)

actualsOf(s, i, frame, env) ==
  LET end == skip_argument(s, i, 0)
      actual == expand(SubSeq(s, i, end - 1), frame, env, FALSE)
  IN  IF s[end] = "," THEN LET more == actualsOf(s, end + 1, frame, env) IN
                           [more EXCEPT !.actuals = <<actual>> \o @]
      ELSE [actuals |-> IF end = i THEN <<>> ELSE <<actual>>, end |-> end]

(* The function-like macro k, named at the head of s.                      *)
expandCall(k, s, frame, env) ==
  IF Len(s) < 2 \/ s[2] # "(" THEN <<s[1]>> \o expand(Tail(s), frame, env, FALSE)
  ELSE LET call == actualsOf(s, 3, frame, env)
           body == [formals |-> env[k].formals, actuals |-> call.actuals]
       IN  expand(env[k].definition, body, Hide(env, k), FALSE)
             \o expand(SubSeq(s, call.end + 1, Len(s)), frame, env, FALSE)

(* The object-like macro k: when all it becomes is the name of a macro,    *)
(* that one is expanded as a call, from the name that was read.            *)
expandObject(k, s, frame, env) ==
  LET tmp == expand(env[k].definition, NoFrame, Hide(env, k), FALSE)
      m == IF Len(tmp) = 1 THEN resolve(Hide(env, k), tmp[1]) ELSE 0
  IN  IF m # 0 THEN expandCall(m, s, frame, env)
      ELSE tmp \o expand(Tail(s), frame, env, FALSE)

(* The name after "defined" is not expanded.                               *)
expand(s, frame, env, hide_next) ==
  IF s = <<>> THEN <<>> ELSE
  LET t == s[1]
      formal == SelectInSeq(frame.formals, LAMBDA f : f = t)
      k == IF hide_next THEN 0 ELSE resolve(env, t)
  IN  CASE formal # 0 -> frame.actuals[formal] \o expand(Tail(s), frame, env, FALSE)
        [] formal = 0 /\ k # 0 ->
             IF env[k].functionLike THEN expandCall(k, s, frame, env) ELSE expandObject(k, s, frame, env)
        [] formal = 0 /\ k = 0 ->
             <<t>> \o expand(Tail(s), frame, env, t = "defined" \/ (hide_next /\ t = "("))

------------------------------------------------------------------------
(* Conditions, read from their tokens: each function answers the value and *)
(* the position after it.  Values are those of Value in pp-engine.h.       *)

At(c, i) == IF i <= Len(c) THEN c[i] ELSE "end"
Answer(v, i) == [value |-> v, at |-> i]
Truth(b) == IF b THEN 1 ELSE 0

(* From the loosest to the tightest: || && | ^ & == < << + *               *)
Levels == << {"||"}, {"&&"}, {"|"}, {"^"}, {"&"}, {"==", "!="}, {"<", ">", "<=", ">="},
             {"<<", ">>"}, {"+", "-"}, {"*", "/", "%"} >>

Value(op, a, b) ==
  CASE op = "||" -> Truth(a # 0 \/ b # 0)
    [] op = "&&" -> Truth(a # 0 /\ b # 0)
    [] op = "|"  -> a | b
    [] op = "^"  -> a ^^ b
    [] op = "&"  -> a & b
    [] op = "==" -> Truth(a = b)
    [] op = "!=" -> Truth(a # b)
    [] op = "<"  -> Truth(a < b)
    [] op = ">"  -> Truth(a > b)
    [] op = "<=" -> Truth(a <= b)
    [] op = ">=" -> Truth(a >= b)
    [] op = "<<" -> a * 2^b
    [] op = ">>" -> a \div 2^b
    [] op = "+"  -> a + b
    [] op = "-"  -> a - b
    [] op = "*"  -> a * b
    [] op = "/"  -> IF b = 0 THEN 0 ELSE a \div b
    [] op = "%"  -> IF b = 0 THEN 0 ELSE a % b

RECURSIVE eval_primary(_, _), eval_binary(_, _, _), eval_rest(_, _, _), eval_constant_expression(_, _)

eval_primary(c, i) ==
  LET t == At(c, i)
      operand == eval_primary(c, i + 1)
      inner == eval_constant_expression(c, i + 1)
      paren == At(c, i + 1) = "("
      named == IF paren THEN i + 2 ELSE i + 1
  IN  CASE t \in DOMAIN Number -> Answer(Number[t], i + 1)
        [] t = "defined" ->
             Answer(Truth(resolve(macros, At(c, named)) # 0),
                 IF paren /\ At(c, named + 1) = ")" THEN named + 2 ELSE named + 1)
        [] t = "-" -> Answer(-operand.value, operand.at)
        [] t = "+" -> operand
        [] t = "!" -> Answer(Truth(operand.value = 0), operand.at)
        [] t = "(" -> Answer(inner.value, IF At(c, inner.at) = ")" THEN inner.at + 1 ELSE inner.at)
        [] OTHER -> Answer(0, i + 1)       \* a name

(* eval_logical_or ... eval_multiplicative, by their level.                *)
eval_binary(c, i, level) ==
  IF level > Len(Levels) THEN eval_primary(c, i)
  ELSE eval_rest(c, eval_binary(c, i, level + 1), level)
eval_rest(c, left, level) ==
  LET op == At(c, left.at)
      right == eval_binary(c, left.at + 1, level + 1)
  IN  IF op \notin Levels[level] THEN left
      ELSE eval_rest(c, Answer(Value(op, left.value, right.value), right.at), level)

eval_constant_expression(c, i) ==
  LET test == eval_binary(c, i, 1)
      yes == eval_constant_expression(c, test.at + 1)
      no == eval_constant_expression(c, yes.at + 1)
  IN  IF At(c, test.at) # "?" THEN test
      ELSE IF At(c, yes.at) # ":" THEN yes
      ELSE Answer(IF test.value # 0 THEN yes.value ELSE no.value, no.at)

eval_expression(c) == eval_constant_expression(c, 1).value # 0

------------------------------------------------------------------------
(* Lines.  Each action reads the line l, the first of those left.          *)

(* The condition of an #if is expanded before it is read.                  *)
ConditionHolds(l) ==
  CASE l.kind = "if"   -> eval_expression(expand(l.condition, NoFrame, macros, FALSE))
    [] l.kind = "elif" -> eval_expression(l.condition)
    [] OTHER           -> FALSE

(* find_directive knows the last three, and nothing handles them; nor an   *)
(* unknown one.                                                            *)
Ignored == {"include", "pragma", "error", "warning", "unknown"}

handle_directive(l) ==
  /\ \/ Directive(l, ConditionHolds(l))
     \/ l.kind \in Ignored /\ UNCHANGED directiveVars
  /\ UNCHANGED result

TextLine(l) ==
  /\ l.kind = "text"
  /\ result' = IF skipping THEN result ELSE result \o expand(l.tokens, NoFrame, macros, FALSE)
  /\ UNCHANGED directiveVars

(* handle_include: the lines of the file come before the rest; a file that *)
(* is not found is ignored.                                                *)
handle_include(l) ==
  IF l.kind = "include" /\ ~skipping /\ l.file \in DOMAIN Files THEN Files[l.file] ELSE <<>>

(* pp::operator(): reads the line l, the next of the input.  The smart     *)
(* header protection never applies: the name it looks up has the size that *)
(* __prot had when it was still empty.                                     *)
ReadLine(l, rest) ==
  /\ handle_directive(l) \/ TextLine(l)
  /\ input' = handle_include(l) \o rest

PreprocessorInit(lines) == DirectivesInit /\ result = <<>> /\ input = lines

==========================================================================
