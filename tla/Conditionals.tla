--------------------------- MODULE Conditionals ---------------------------
(***************************************************************************)
(* What a C preprocessor promises of the lines it is given: which lines of *)
(* text are kept, as Groups has it, what the conditions are worth and what *)
(* the macros become.                                                      *)
(***************************************************************************)
EXTENDS Groups

CONSTANT Number        \* number token -> its value

VARIABLE text          \* the tokens kept so far

vars == <<groups, table, text>>

------------------------------------------------------------------------
(* Macros.  A name is not expanded inside its own expansion (painted).     *)

(* The arguments of a call, from the token after its "(", and what follows.*)
RECURSIVE Arguments(_, _, _, _)
Arguments(s, depth, now, args) ==
  LET t == Head(s) IN
  CASE t = ")" /\ depth = 0 -> [args |-> Append(args, now), rest |-> Tail(s)]
    [] t = "," /\ depth = 0 -> Arguments(Tail(s), 0, <<>>, Append(args, now))
    [] OTHER -> Arguments(Tail(s), depth + (IF t = "(" THEN 1 ELSE IF t = ")" THEN -1 ELSE 0),
                          Append(now, t), args)

Substituted(body, formals, actuals) ==
  FoldLeft(LAMBDA s, t : s \o (IF t \in Range(formals)
                               THEN actuals[CHOOSE k \in DOMAIN formals : formals[k] = t]
                               ELSE <<t>>), <<>>, body)

RECURSIVE Expansion(_, _, _)
Expansion(s, T, painted) ==
  IF s = <<>> THEN <<>> ELSE
  LET t == Head(s)
      rest == Tail(s)
      usable(n) == n \in MacroNames \ painted /\ T[n] # Undefined
      object(n) == usable(n) /\ ~T[n].functionLike
      call(n, following) == usable(n) /\ T[n].functionLike /\ following # <<>> /\ Head(following) = "("
      body == IF object(t) THEN Expansion(T[t].definition, T, painted \cup {t}) ELSE <<t>>
      (* what an object becomes is read again together with what follows it *)
      calls == usable(t) /\ body # <<>> /\ call(Last(body), rest)
      macro == T[Last(body)]
      arguments == Arguments(Tail(rest), 0, <<>>, <<>>)
      actuals == [k \in DOMAIN arguments.args |-> Expansion(arguments.args[k], T, painted)]
  IN  IF calls
      THEN Front(body)
             \o Expansion(Substituted(macro.definition, macro.formals, actuals), T,
                          painted \cup {t, Last(body)})
             \o Expansion(arguments.rest, T, painted)
      ELSE body \o Expansion(rest, T, painted)

------------------------------------------------------------------------
(* Conditions are trees; a name in one that follows #elif counts 0.        *)
RECURSIVE Value(_, _, _)
Value(c, T, expanded) ==
  LET V(k) == Value(c[k], T, expanded)
      Truth(b) == IF b THEN 1 ELSE 0
      name == Expansion(<<c[2]>>, T, {})
  IN CASE c[1] = "number"  -> Number[c[2]]
       [] c[1] = "defined" -> Truth(T[c[2]] # Undefined)
       [] c[1] = "name"    -> IF expanded /\ Len(name) = 1 /\ name[1] \in DOMAIN Number
                              THEN Number[name[1]] ELSE 0
       [] c[1] = "!"  -> Truth(V(2) = 0)
       [] c[1] = "+"  -> V(2) + V(3)
       [] c[1] = "-"  -> V(2) - V(3)
       [] c[1] = "*"  -> V(2) * V(3)
       [] c[1] = "<"  -> Truth(V(2) < V(3))
       [] c[1] = "==" -> Truth(V(2) = V(3))
       [] c[1] = "&&" -> Truth(V(2) # 0 /\ V(3) # 0)
       [] c[1] = "||" -> Truth(V(2) # 0 \/ V(3) # 0)
       [] c[1] = "?"  -> IF V(2) # 0 THEN V(3) ELSE V(4)

(* A directive changes the groups or the table, and no text.              *)
Directive(l) ==
  /\ Follows(l, l.kind \in {"if", "elif"} /\ Value(l.tree, table, l.kind = "if") # 0)
  /\ UNCHANGED text

Text(l) ==
  /\ l.kind = "text"
  /\ text' = IF Active THEN text \o Expansion(l.tokens, table, {}) ELSE text
  /\ UNCHANGED <<groups, table>>

Init == GroupsInit /\ text = <<>>
Next == \E l \in Lines : Directive(l) \/ Text(l)
Spec == Init /\ [][Next]_vars

==========================================================================
