---------------------------- MODULE Directives ----------------------------
(***************************************************************************)
(* The directives of the generator's preprocessor that decide what is      *)
(* kept: the levels of #if, of each whether it skips and whether a branch  *)
(* was taken (pp-engine-bits.h), and the chains of macros, of which some   *)
(* are hidden (pp-environment.h).  What a condition is worth comes from    *)
(* Preprocessor, which reads it.                                           *)
(***************************************************************************)
EXTENDS Integers, Sequences, SequencesExt

CONSTANTS MacroNames, Undefined,
          MAX_LEVEL,   \* of the arrays; 512
          Lines        \* the lines a header may have

Macro == [functionLike : BOOLEAN, formals : Seq(STRING), definition : Seq(STRING)]

ASSUME DirectivesAssumption ==
  /\ MAX_LEVEL \in Nat \ {0} /\ Undefined \notin Macro
  /\ \A l \in Lines :
       /\ l.kind \in {"ifdef", "ifndef", "define", "undef"} => l.name \in MacroNames
       /\ l.kind = "define" => l.macro \in Macro

VARIABLES iflevel,
          M_skipping,  \* level -> BOOLEAN, 0 .. iflevel used
          M_true_test, \* level -> BOOLEAN
          macros,      \* M_macros: every macro ever bound, oldest first
          nesting      \* of the #if's read: "if", or "else" after the #else

levels == <<iflevel, M_skipping, M_true_test>>
directiveVars == <<levels, macros, nesting>>

------------------------------------------------------------------------
(* pp_environment: bind puts a macro at the head of its chain, unbind      *)
(* hides one, resolve finds the newest that is not hidden; 0 for none.     *)

resolve(env, name) == SelectLastInSeq(env, LAMBDA m : m.name = name /\ ~m.hidden)

Hide(env, k) == [env EXCEPT ![k].hidden = TRUE]
bind(env, name, macro) ==
  Append(env, [name |-> name, hidden |-> FALSE, functionLike |-> macro.functionLike,
               formals |-> macro.formals, definition |-> macro.definition])
unbind(env, name) == LET k == resolve(env, name) IN IF k = 0 THEN env ELSE Hide(env, k)

------------------------------------------------------------------------
skipping == M_skipping[iflevel]

(* A level is entered by test_if_level; its #if then tests if the level    *)
(* around it does not skip.                                                *)
Enter(value) ==
  /\ iflevel' = iflevel + 1
  /\ M_skipping' = [M_skipping EXCEPT ![iflevel + 1] = skipping \/ ~value]
  /\ M_true_test' = [M_true_test EXCEPT ![iflevel + 1] = ~skipping /\ value]
  /\ UNCHANGED macros

handle_if(value) == Enter(value)

handle_ifdef(name, check_undefined) == Enter((resolve(macros, name) # 0) # check_undefined)

handle_else ==
  /\ M_skipping' = IF iflevel = 0 /\ ~skipping THEN M_skipping
                   ELSE [M_skipping EXCEPT ![iflevel] =
                           (iflevel > 0 /\ M_skipping[iflevel - 1]) \/ M_true_test[iflevel]]
  /\ UNCHANGED <<iflevel, M_true_test, macros>>

handle_elif_ForgetsTaken(value) ==
  /\ LET tests == ~M_skipping[iflevel - 1]
     IN  /\ M_skipping' = [M_skipping EXCEPT ![iflevel] = ~(tests /\ value)]
         /\ M_true_test' = IF tests THEN [M_true_test EXCEPT ![iflevel] = value] ELSE M_true_test
  /\ UNCHANGED <<iflevel, macros>>

handle_elif(value) ==
  /\ LET tests == ~M_true_test[iflevel] /\ ~M_skipping[iflevel - 1]
     IN  /\ M_skipping' = [M_skipping EXCEPT ![iflevel] = ~(tests /\ value)]
         /\ M_true_test' = IF tests THEN [M_true_test EXCEPT ![iflevel] = value] ELSE M_true_test
  /\ UNCHANGED <<iflevel, macros>>

handle_endif ==
  /\ IF iflevel = 0 /\ ~skipping THEN UNCHANGED levels
     ELSE /\ M_skipping' = [M_skipping EXCEPT ![iflevel] = FALSE]
          /\ M_true_test' = [M_true_test EXCEPT ![iflevel] = FALSE]
          /\ iflevel' = iflevel - 1
  /\ UNCHANGED macros

handle_define(name, macro) ==
  /\ macros' = IF skipping THEN macros ELSE bind(macros, name, macro)
  /\ UNCHANGED levels

handle_undef(name) ==
  /\ macros' = IF skipping THEN macros ELSE unbind(macros, name)
  /\ UNCHANGED levels

------------------------------------------------------------------------
(* What C lets a header contain: no branch after #else or outside an #if,  *)
(* no macro defined anew.                                                  *)
Wellformed(l) ==
  CASE l.kind = "elif"   -> nesting # <<>> /\ Last(nesting) = "if"
    [] l.kind = "else"   -> IF nesting = <<>> THEN TRUE ELSE Last(nesting) = "if"
    [] l.kind = "define" -> skipping \/ resolve(macros, l.name) = 0
    [] OTHER -> TRUE

Nested(l) ==
  CASE l.kind \in {"if", "ifdef", "ifndef"} -> Append(nesting, "if")
    [] l.kind = "else" /\ nesting # <<>>  -> Append(Front(nesting), "else")
    [] l.kind = "endif" /\ nesting # <<>> -> Front(nesting)
    [] OTHER -> nesting

(* A directive; value is what the condition of an #if or #elif is worth.   *)
Handled(l, value) ==
  \/ l.kind = "if"     /\ handle_if(value)
  \/ l.kind = "ifdef"  /\ handle_ifdef(l.name, FALSE)
  \/ l.kind = "ifndef" /\ handle_ifdef(l.name, TRUE)
  \/ l.kind = "elif"   /\ handle_elif(value)
  \/ l.kind = "else"   /\ handle_else
  \/ l.kind = "endif"  /\ handle_endif
  \/ l.kind = "define" /\ handle_define(l.name, l.macro)
  \/ l.kind = "undef"  /\ handle_undef(l.name)

Directive(l, value) ==
  /\ Wellformed(l) /\ iflevel < MAX_LEVEL - 1
  /\ Handled(l, value)
  /\ nesting' = Nested(l)

DirectivesInit ==
  /\ iflevel = 0
  /\ M_skipping = [k \in 0 .. MAX_LEVEL - 1 |-> FALSE]
  /\ M_true_test = [k \in 0 .. MAX_LEVEL - 1 |-> FALSE]
  /\ macros = <<>> /\ nesting = <<>>

DirectivesNext == \E l \in Lines, value \in BOOLEAN : Directive(l, value)

DirectivesSpec == DirectivesInit /\ [][DirectivesNext]_directiveVars

------------------------------------------------------------------------
(* Levels, whether they skip and the macro chains give what C promises.    *)
Group(k) ==
  IF M_skipping[k - 1] THEN "dead"
  ELSE IF ~M_skipping[k] THEN "taking"
  ELSE IF M_true_test[k] THEN "done"
  ELSE "waiting"

groupsOf == [k \in 1 .. iflevel |-> Group(k)]

MacroOf(m) == [functionLike |-> m.functionLike, formals |-> m.formals, definition |-> m.definition]
tableOf ==
  [n \in MacroNames |->
     LET k == resolve(macros, n) IN IF k = 0 THEN Undefined ELSE MacroOf(macros[k])]

G == INSTANCE Groups WITH groups <- groupsOf, table <- tableOf

(* Any sequence of directives opens, branches and closes groups as C does, *)
(* and gives each name the macro C gives it (handle_if ... handle_undef,   *)
(* pp_environment).                                                        *)
ImplementsGroups == G!GroupsSpec

(* A line of text is skipped exactly when a group around it is not taking  *)
(* the branch it is in (skipping).                                         *)
SkipsWhatIsNotTaken == skipping <=> ~G!Active

(* The step agrees with C about the value of its condition: what is worth  *)
(* TRUE to handle_if and handle_elif is to C.                              *)
SameConditions ==
  [][\A l \in Lines, value \in BOOLEAN :
       Directive(l, value) => G!Follows(l, value)]_directiveVars

==========================================================================
