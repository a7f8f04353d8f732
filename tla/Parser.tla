------------------------------ MODULE Parser ------------------------------
(***************************************************************************)
(* The parser at work: the meaning of the expressions of Grammar.tla on a  *)
(* stream of tokens, and parseTranslationUnit, one declaration a step.     *)
(***************************************************************************)
EXTENDS Grammar, SequencesExt, FiniteSets

VARIABLES tokens,        \* the token stream, EOF not included
          cursor,
          declarations   \* the AST of the translation unit

parserVars == <<tokens, cursor, declarations>>

(* The stream ends with an EOF token; the parser must not go beyond it.    *)
LA(i) == IF i <= Len(tokens) THEN tokens[i] ELSE EOF
Holds(p, i) == \A k \in DOMAIN p : LA(i + k - 1) \in p[k]

Match(i, nodes) == [ok |-> TRUE, at |-> i, nodes |-> nodes]
NoMatch(i) == [ok |-> FALSE, at |-> i, nodes |-> <<>>]

(* The least position from i on where S holds, or that of EOF.             *)
RECURSIVE NextOf(_, _)
NextOf(S, i) == IF LA(i) \in S \cup {EOF} THEN i ELSE NextOf(S, i + 1)

(* skip: to the r that closes the l at i.                                  *)
RECURSIVE Skip(_, _, _, _)
Skip(l, r, i, count) ==
  LET tk == LA(i)
      now == IF tk = l THEN count + 1 ELSE IF tk = r THEN count - 1 ELSE count
  IN  IF tk = EOF \/ (tk \notin {l, r} /\ l # "{" /\ tk \in {"{", "}", ";"}) THEN NoMatch(i)
      ELSE IF now = 0 THEN Match(i, <<>>)
      ELSE Skip(l, r, i + 1, now)

RECURSIVE Parse(_, _), ParseChain(_, _, _), ParseAlt(_, _, _), ParseMany(_, _, _),
          ParseWhile(_, _, _, _), ParseAll(_, _, _, _, _)

After(r, nodes) == [r EXCEPT !.nodes = IF r.ok THEN nodes \o @ ELSE <<>>]

ParseChain(es, k, r) ==
  IF k > Len(es) THEN r
  ELSE LET s == Parse(es[k], r.at) IN
       IF s.ok THEN ParseChain(es, k + 1, After(s, r.nodes)) ELSE s

ParseAlt(es, k, i) ==
  IF k > Len(es) THEN NoMatch(i)
  ELSE LET s == Parse(es[k], i) IN IF s.ok THEN s ELSE ParseAlt(es, k + 1, s.at)

ParseMany(e, i, nodes) ==
  LET s == Parse(e, i) IN
  IF s.ok THEN ParseMany(e, s.at, nodes \o s.nodes) ELSE Match(s.at, nodes)

ParseWhile(p, e, i, nodes) ==
  IF ~Holds(p, i) THEN Match(i, nodes)
  ELSE LET s == Parse(e, i) IN
       IF s.ok THEN ParseWhile(p, e, s.at, nodes \o s.nodes) ELSE s

(* Error recovery: at least one token is skipped, then all up to one that  *)
(* may start the next.                                                     *)
Recovered_KeepsStill(s, i, resume) == NextOf(resume, s.at)
Recovered(s, i, resume) == NextOf(resume, IF s.at = i THEN i + 1 ELSE s.at)

ParseAll(e, end, resume, i, nodes) ==
  IF LA(i) \in end \cup {EOF} THEN Match(i, nodes)
  ELSE LET s == Parse(e, i) IN
       IF s.ok THEN ParseAll(e, end, resume, s.at, nodes \o s.nodes)
       ELSE ParseAll(e, end, resume, Recovered(s, i, resume), nodes)

TokensFrom(i, j) == SubSeq(tokens, i, j - 1)

(* Parse(e, i): whether e matches at i, where it leaves the cursor, and    *)
(* the AST nodes it makes.                                                 *)
Parse(e, i) ==
  CASE e[1] = "tok"    -> IF LA(i) \in e[2] THEN Match(i + 1, <<>>) ELSE NoMatch(i)
    [] e[1] = "ref"    -> Parse(Called[e[2]], i)
    [] e[1] = "chain"  -> ParseChain(e[2], 1, Match(i, <<>>))
    [] e[1] = "alt"    -> ParseAlt(e[2], 1, i)
    [] e[1] = "try"    -> LET s == Parse(e[2], i) IN [s EXCEPT !.ok = TRUE]
    [] e[1] = "rewind" -> LET s == Parse(e[2], i) IN IF s.ok THEN s ELSE NoMatch(i)
    [] e[1] = "if"     -> Parse(IF Holds(e[2], i) THEN e[3] ELSE e[4], i)
    [] e[1] = "while"  -> ParseWhile(e[2], e[3], i, <<>>)
    [] e[1] = "many"   -> ParseMany(e[2], i, <<>>)
    [] e[1] = "cond"   -> LET s == Parse(e[2], i) IN
                          IF s.ok THEN After(Parse(e[3], s.at), s.nodes) ELSE Parse(e[4], s.at)
    [] e[1] = "switch" -> LET k == SelectInSeq(e[2], LAMBDA c : LA(i) \in c[1]) IN
                          Parse(IF k = 0 THEN e[3] ELSE e[2][k][2], i)
    [] e[1] = "any"    -> Match(i + 1, <<>>)
    [] e[1] = "ahead"  -> IF Holds(e[2], i) THEN Match(i, <<>>) ELSE NoMatch(i)
    [] e[1] = "behind" -> IF LA(i - 1) \in e[2] THEN Match(i, <<>>) ELSE NoMatch(i)
    [] e[1] = "peek"   -> [Parse(e[2], i) EXCEPT !.at = i, !.nodes = <<>>]
    [] e[1] = "moved"  -> LET s == Parse(e[2], i) IN IF s.ok /\ s.at = i THEN NoMatch(i) ELSE s
    [] e[1] = "unless" -> LET s == Parse(e[2], i) IN
                          IF s.ok /\ LA(s.at) \notin e[3] THEN Parse(e[4], i) ELSE s
    [] e[1] = "node"   -> LET s == Parse(e[3], i) IN
                          IF s.ok THEN Match(s.at, << <<e[2], TokensFrom(i, s.at), s.nodes>> >>) ELSE s
    [] e[1] = "all"    -> ParseAll(e[2], e[3], e[4], i, <<>>)
    [] e[1] = "seek"   -> LET at == NextOf(e[2], i) IN
                          IF LA(at) = EOF THEN NoMatch(Len(tokens) + 2) ELSE Match(at, <<>>)
    [] e[1] = "until"  -> Match(NextOf(e[2], i), <<>>)
    [] e[1] = "skip"   -> Skip(e[2], e[3], i, 0)
    [] e[1] = "longest" ->
         LET d == Parse(e[2], i)
             x == Parse(e[3], i)
         IN  IF d.ok /\ x.ok THEN Match(x.at, << <<"Ambiguous", TokensFrom(i, x.at), <<>>>> >>)
             ELSE [ok |-> d.ok \/ x.ok, at |-> IF d.at > x.at THEN d.at ELSE x.at,
                   nodes |-> IF d.ok THEN d.nodes ELSE x.nodes]

------------------------------------------------------------------------
(* parse: tokenize, then parseTranslationUnit.                             *)
ParserInit(text) == tokens = text /\ cursor = 1 /\ declarations = <<>>

FirstDeclaration == Parse(parseDeclaration, cursor)
NextCursor == LET s == FirstDeclaration IN IF s.ok THEN s.at ELSE Recovered(s, cursor, DeclarationStart)

parseTranslationUnit ==
  /\ LA(cursor) # EOF
  /\ cursor' = NextCursor
  /\ declarations' = LET s == FirstDeclaration IN IF s.ok THEN declarations \o s.nodes ELSE declarations
  /\ UNCHANGED tokens

==========================================================================
