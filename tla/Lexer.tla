------------------------------ MODULE Lexer ------------------------------
(***************************************************************************)
(* Lexer::tokenize (lexer.cpp): what kind of token each word of the text   *)
(* is.  Kinds that several words share are named for one of them: "+=" is  *)
(* every assignment, "<<" either shift.  A word is keyword or identifier   *)
(* by a table for each length.                                             *)
(***************************************************************************)
EXTENDS Naturals, Sequences

CONSTANT Names         \* identifiers of the texts

scanKeyword2 == {"if", "do", "or"}
scanKeyword3 == {"and", "asm", "for", "int", "new", "not", "try", "xor"}
scanKeyword4 == {"auto", "case", "char", "bool", "else", "emit", "enum", "goto", "long", "this", "void"}
scanKeyword5 == {"catch", "class", "compl", "const", "bitor", "break", "float", "or_eq", "short",
                 "slots", "union", "using", "throw", "while"}
scanKeyword6 == {"and_eq", "bitand", "export", "extern", "delete", "double", "friend", "inline",
                 "K_DCOP", "not_eq", "public", "signed", "sizeof", "static", "struct", "switch",
                 "return", "typeid", "xor_eq", "k_dcop"}
scanKeyword7 == {"default", "mutable", "private", "signals", "typedef", "virtual", "Q_ENUMS"}
scanKeyword8 == {"__typeof", "continue", "explicit", "operator", "Q_OBJECT", "register", "unsigned",
                 "template", "typename", "volatile"}
scanKeyword9 == {"protected", "namespace"}
scanKeyword10 == {"const_cast", "Q_PROPERTY"}
scanKeyword11 == {"Q_INVOKABLE", "static_cast"}
scanKeyword12 == {"dynamic_cast"}
scanKeyword13 == {"__attribute__"}
scanKeyword14 == {"k_dcop_signals"}
scanKeyword16 == {"reinterpret_cast"}

(* By its length; a word of another length, or too long, is an identifier. *)
Keywords == UNION {scanKeyword2, scanKeyword3, scanKeyword4, scanKeyword5, scanKeyword6, scanKeyword7,
                   scanKeyword8, scanKeyword9, scanKeyword10, scanKeyword11, scanKeyword12,
                   scanKeyword13, scanKeyword14, scanKeyword16}

(* What is written, and the kind of token that is: scan_not ... scan_star, *)
(* scan_plus ... scan_colon, scan_semicolon ... scan_greater, the others.  *)
NotToStar == {<<"!", "!">>, <<"!=", "!=">>, <<"%", "%">>, <<"%=", "+=">>, <<"&", "&">>, <<"&=", "+=">>,
              <<"&&", "&&">>, <<"(", "(">>, <<")", ")">>, <<"*", "*">>, <<"*=", "+=">>}
PlusToColon == {<<"+", "+">>, <<"+=", "+=">>, <<"++", "++">>, <<",", ",">>, <<"-", "-">>, <<"-=", "+=">>,
                <<"--", "--">>, <<"->", "->">>, <<"->*", "->*">>, <<".", ".">>, <<"...", "...">>,
                <<".*", "->*">>, <<"/", "/">>, <<"/=", "+=">>, <<":", ":">>, <<"::", "::">>}
SemicolonToGreater == {<<";", ";">>, <<"<", "<">>, <<"<=", "<=">>, <<"<<", "<<">>, <<"<<=", "+=">>,
                       <<"=", "=">>, <<"==", "==">>, <<">", ">">>, <<">=", ">=">>, <<">>", "<<">>,
                       <<">>=", "+=">>}
QuestionToTilde == {<<"?", "?">>, <<"[", "[">>, <<"]", "]">>, <<"^", "^">>, <<"^=", "+=">>, <<"{", "{">>,
                    <<"|", "|">>, <<"|=", "+=">>, <<"||", "||">>, <<"}", "}">>, <<"~", "~">>}
Alternative == {<<"and", "&&">>, <<"or", "||">>, <<"not_eq", "!=">>}
Kinds == UNION {NotToStar, PlusToColon, SemicolonToGreater, QuestionToTilde, Alternative}

(* scan_int_constant                                                       *)
Digits == {"0", "1", "2", "3"}

(* Literals are written as their kind.                                     *)
Literals == {"number", "string", "charlit"}
NamesAssumption == Names \cap (Keywords \cup Literals \cup Digits) = {} /\ \A k \in Kinds : k[1] \notin Names
ASSUME NamesAssumption

KindOf(w) == IF w \in Digits THEN "number" ELSE IF \E k \in Kinds : k[1] = w THEN (CHOOSE k \in Kinds : k[1] = w)[2] ELSE w
tokenize(text) == [i \in DOMAIN text |-> KindOf(text[i])]

==========================================================================
