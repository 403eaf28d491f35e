------------------------------- MODULE MCCompiler -------------------------------
(* Sources for the compiler: programs written out, and token soup. *)
EXTENDS CompilerApi

Call(via, src, isStrict, size, written) ==
  [via |-> via, source |-> src, strict |-> isStrict, size |-> size, written |-> written]

-----------------------------------------------------------------------------
(* Programs written out in two layouts. *)

Texts == {<<>>, <<"n", "7">>, <<"7", ".">>, <<"quote", ">">>, <<"backslash", "newline">>}

AttributeLists == {<<>>} \cup {<< <<k, t>> >> : k \in {<<"shown">>, <<"n", "7">>}, t \in Texts}
                  \cup {<< <<<<"n">>, <<>>>>, <<<<"shown">>, t>> >> : t \in Texts}

Names == [manifest |-> {<<>>, <<"n">>}, widget |-> {<<"widget">>}, create |-> {<<"n">>}]

Statements == UNION {[kind : {k}, name : Names[k], attributes : AttributeLists] : k \in DOMAIN Names}

Programs == {<<s>> : s \in Statements}
            \cup {<<s, [kind |-> "widget", name |-> <<"widget">>, attributes |-> <<>>]>> : s \in Statements}

Newline == Symbol("newline")
Blank == Lexeme(<<"blank">>, <<>>)
BlockRemark == Lexeme(<<"/", "*", "}", "newline", "*", "/">>, <<>>)
LineRemark == Lexeme(<<"/", "/", "quote">>, <<>>)

\* As little as possible: no marks, no block without attributes, bare values.
TightAttribute(a) ==
  [colon |-> FALSE, beforeColon |-> <<>>, comma |-> FALSE, beforeComma |-> <<>>,
   form |-> IF IsWord(a[2]) THEN "word" ELSE IF IsNumber(a[2]) THEN "number" ELSE "string",
   beforeValue |-> <<Blank>>, after |-> <<Blank>>]

TightStatement(s) ==
  [block |-> s.attributes # <<>>, beforeName |-> <<Blank>>, beforeBlock |-> <<>>, inside |-> <<>>,
   attributes |-> [i \in DOMAIN s.attributes |-> TightAttribute(s.attributes[i])],
   after |-> <<Blank>>]

Tight(p) ==
  [program |-> p, before |-> <<>>, layout |-> [i \in DOMAIN p |-> TightStatement(p[i])]]

\* Every mark, values in quotes, and newlines and comments where they are allowed.
WideAttribute ==
  [colon |-> TRUE, beforeColon |-> <<>>, comma |-> TRUE, beforeComma |-> <<BlockRemark>>,
   form |-> "string", beforeValue |-> <<Blank>>, after |-> <<Blank, Newline, Newline>>]

WideStatement(s) ==
  [block |-> TRUE, beforeName |-> <<BlockRemark>>, beforeBlock |-> <<Blank>>,
   inside |-> <<Newline, Blank>>, attributes |-> [i \in DOMAIN s.attributes |-> WideAttribute],
   after |-> <<LineRemark, Newline, BlockRemark>>]

Wide(p) ==
  [program |-> p, before |-> <<LineRemark, Newline, Newline>>,
   layout |-> [i \in DOMAIN p |-> WideStatement(p[i])]]

Written == {Tight(p) : p \in Programs} \cup {Wide(p) : p \in Programs}

-----------------------------------------------------------------------------
(* Sources that need not be programs. *)

Short == UNION {[1 .. n -> Pieces] : n \in 0 .. 2}
Comments == {<<"/", "*">> \o s : s \in [1 .. 3 -> {"*", "/", "newline", "}"}]}
Strings == {<<"quote">> \o s : s \in [1 .. 3 -> {"quote", "backslash", "n"}]}
Blocks == {<<k, "{">> \o s : k \in {"manifest", "create"},
             s \in [1 .. 5 -> {"n", ":", ",", "}", "newline"}]}

Unwritten == Short \cup Comments \cup Strings \cup Blocks

\* The same source in both modes, with another page kept in between.
Both(src, written) ==
  <<Call("object", src, FALSE, 0, written),
    Call("object", <<"create", "blank", "widget">>, FALSE, 0, {}),
    Call("object", src, TRUE, 0, written)>>

Widget == <<"create", "blank", "widget", "{", "shown", "quote", "n", "n", "quote", "}">>

MCScripts ==
  {Both(src, {}) : src \in Unwritten}
  \cup {Both(Text(w), {w}) : w \in Written}
  \cup {<<Call("object", <<"?">>, TRUE, 0, {}), Call(via, src, FALSE, size, {}),
          Call("buffer", Widget, FALSE, 0, {}),
          Call("shutdown", <<>>, FALSE, 0, {}), Call("string", Widget, FALSE, 0, {}),
          Call("object", <<"n">>, TRUE, 0, {})>> :
          via \in {"string", "buffer"}, src \in {<<>>, <<"?">>, Widget}, size \in 0 .. 5}
=============================================================================
