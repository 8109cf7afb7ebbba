---------------------------- MODULE FanTokenizer ----------------------------
(***************************************************************************)
(* The tokenizer of the Fanjet compiler (fanjet/fan_tokenizer.h): the text *)
(* of a template is cut into the tokens of a table and the text between    *)
(* them.                                                                   *)
(*                                                                         *)
(* A text is a sequence of characters and a token is named by a string;    *)
(* Spelling gives the characters of each.  The table is cut to the tokens  *)
(* that occur anywhere in the templates of the instance, inside of longer  *)
(* words too: the others of the table are never found in them.             *)
(***************************************************************************)
EXTENDS Integers, Sequences, SequencesExt, TLC

CONSTANT
    Words           \* other texts a template may hold, with their characters

VARIABLES
    chars,          \* the characters of the template
    pos,            \* the next of them
    tmp_text,       \* the text since the last token
    found           \* the tokens so far
tvars == <<chars, pos, tmp_text, found>>

-----------------------------------------------------------------------------
(* s_tokens.  There is no comma between "#define" and "@@", which are one  *)
(* token.                                                                  *)

MarkTokens ==
    " " :> <<" ">> @@ "(" :> <<"(">> @@ ")" :> <<")">> @@ "{" :> <<"{">> @@
    "}" :> <<"}">> @@ "</" :> <<"<", "/">> @@ "/>" :> <<"/", ">">> @@
    "<" :> <<"<">> @@ ">" :> <<">">> @@
    "#define@@" :> <<"#", "d", "e", "f", "i", "n", "e", "@", "@">> @@
    "@{" :> <<"@", "{">> @@ "@}" :> <<"@", "}">> @@ "@**" :> <<"@", "*", "*">> @@
    "@*" :> <<"@", "*">> @@ "*@" :> <<"*", "@">> @@ "@::" :> <<"@", ":", ":">> @@ "@:" :> <<"@", ":">> @@
    "@<" :> <<"@", "<">> @@ "@(" :> <<"@", "(">> @@ "@>" :> <<"@", ">">>

DirectiveTokens ==
    "@name" :> <<"@", "n", "a", "m", "e">> @@
    "@ns" :> <<"@", "n", "s">> @@
    "@header" :> <<"@", "h", "e", "a", "d", "e", "r">> @@
    "@region" :> <<"@", "r", "e", "g", "i", "o", "n">>

StatementTokens ==
    "@if" :> <<"@", "i", "f">> @@ "if" :> <<"i", "f">> @@
    "else" :> <<"e", "l", "s", "e">> @@
    "@while" :> <<"@", "w", "h", "i", "l", "e">> @@
    "while" :> <<"w", "h", "i", "l", "e">> @@
    "@do" :> <<"@", "d", "o">> @@
    "@try" :> <<"@", "t", "r", "y">> @@ "try" :> <<"t", "r", "y">> @@
    "catch" :> <<"c", "a", "t", "c", "h">> @@
    "@funi" :> <<"@", "f", "u", "n", "i">> @@ "@func" :> <<"@", "f", "u", "n", "c">> @@
    "@await" :> <<"@", "a", "w", "a", "i", "t">>

CallTokens ==
    "@body" :> <<"@", "b", "o", "d", "y">> @@
    "@scripts" :> <<"@", "s", "c", "r", "i", "p", "t", "s">> @@
    "@script" :> <<"@", "s", "c", "r", "i", "p", "t">> @@
    "@style" :> <<"@", "s", "t", "y", "l", "e">> @@
    "@set" :> <<"@", "s", "e", "t">> @@ "@get" :> <<"@", "g", "e", "t">> @@
    "@fmt" :> <<"@", "f", "m", "t">> @@
    "@fmt-raw" :> <<"@", "f", "m", "t", "-", "r", "a", "w">> @@
    "@import" :> <<"@", "i", "m", "p", "o", "r", "t">> @@
    "@add-section" :> <<"@", "a", "d", "d", "-", "s", "e", "c", "t", "i", "o", "n">> @@
    "@write-section" :>
        <<"@", "w", "r", "i", "t", "e", "-", "s", "e", "c", "t", "i", "o", "n">>

PunctuationTokens ==
    "~~~" :> <<"~", "~", "~">> @@ "~~" :> <<"~", "~">> @@ "\"" :> <<"\"">> @@
    "'" :> <<"'">> @@ "\\" :> <<"\\">> @@ "\n" :> <<"\n">> @@ ";" :> <<";">> @@
    "::" :> <<":", ":">> @@ ":" :> <<":">> @@ "," :> <<",">> @@ "." :> <<".">> @@
    "==" :> <<"=", "=">> @@ "=" :> <<"=">> @@ "*" :> <<"*">> @@ "/" :> <<"/">> @@
    "-" :> <<"-">> @@ "~" :> <<"~">> @@ "return" :> <<"r", "e", "t", "u", "r", "n">> @@
    "throw" :> <<"t", "h", "r", "o", "w">> @@
    "for" :> <<"f", "o", "r">> @@ "do" :> <<"d", "o">>

(* The names of tags, which are met outside of tags as well.               *)
HtmlTokens ==
    "a" :> <<"a">> @@ "b" :> <<"b">> @@ "body" :> <<"b", "o", "d", "y">> @@
    "br" :> <<"b", "r">> @@ "dd" :> <<"d", "d">> @@ "head" :> <<"h", "e", "a", "d">> @@
    "header" :> <<"h", "e", "a", "d", "e", "r">> @@ "hr" :> <<"h", "r">> @@
    "html" :> <<"h", "t", "m", "l">> @@ "i" :> <<"i">> @@ "p" :> <<"p">> @@
    "rt" :> <<"r", "t">> @@ "s" :> <<"s">> @@
    "script" :> <<"s", "c", "r", "i", "p", "t">> @@
    "section" :> <<"s", "e", "c", "t", "i", "o", "n">> @@
    "style" :> <<"s", "t", "y", "l", "e">> @@ "th" :> <<"t", "h">> @@
    "tr" :> <<"t", "r">> @@ "u" :> <<"u">>
MathmlTokens ==
    "mi" :> <<"m", "i">> @@ "or" :> <<"o", "r">> @@ "sec" :> <<"s", "e", "c">> @@
    "set" :> <<"s", "e", "t">>
SvgTokens ==
    "g" :> <<"g">>

s_tokens == MarkTokens @@ DirectiveTokens @@ StatementTokens @@ CallTokens
            @@ PunctuationTokens @@ HtmlTokens @@ MathmlTokens @@ SvgTokens
Spelling == s_tokens @@ Words

-----------------------------------------------------------------------------
(* is_alphanum: every character but the marks.                             *)
IsAlphanum(c) ==
    c \notin {" ", "(", ")", "{", "}", "<", ">", "/", "#", "@", "*", ":", "-", "~",
              "\"", "'", "\\", "\n", ";", ",", ".", "="}

(* Without the check of the character after a word.                        *)
IsTokenInsideWord(t) ==
    LET s == s_tokens[t]
        after == pos + Len(s)
    IN /\ after <= Len(chars)
       /\ SubSeq(chars, pos, after - 1) = s
       /\ ~(t = "*@" /\ after < Len(chars) /\ chars[after] = "@")

(* is_token: the characters at pos are those of the token t, which is      *)
(* not the start of a longer word, nor the end of the text.  What stands   *)
(* before it is not looked at: it may be the end of a longer word.         *)
IsToken(t) ==
    LET s == s_tokens[t]
        after == pos + Len(s)
    IN /\ after <= Len(chars)
       /\ SubSeq(chars, pos, after - 1) = s
       /\ ~(IsAlphanum(Last(s)) /\ IsAlphanum(chars[after]))
       /\ ~(t = "*@" /\ after < Len(chars) /\ chars[after] = "@")

(* The text between two tokens, by its name.                               *)
Name(s) ==
    IF \E w \in DOMAIN Spelling : Spelling[w] = s
    THEN <<CHOOSE w \in DOMAIN Spelling : Spelling[w] = s>>
    ELSE IF s = <<>> THEN <<>> ELSE <<"?">>

TokenizeInit(s) == chars = s /\ pos = 1 /\ tmp_text = <<>> /\ found = <<>>

(* tokenize: the longest token at pos, or one more character of text.      *)
TakeToken(t) ==
    /\ found' = found \o Name(tmp_text) \o <<t>>
    /\ tmp_text' = <<>>
    /\ pos' = pos + Len(s_tokens[t])

TakeCharacter ==
    /\ tmp_text' = Append(tmp_text, chars[pos])
    /\ pos' = pos + 1
    /\ UNCHANGED found

TokenizeStep ==
    /\ pos <= Len(chars)
    /\ LET hits == {t \in DOMAIN s_tokens : IsToken(t)}
       IN \/ \E t \in hits : /\ \A k \in hits : Len(s_tokens[k]) <= Len(s_tokens[t])
                             /\ TakeToken(t)
          \/ hits = {} /\ TakeCharacter
    /\ UNCHANGED chars

Tokenized == pos > Len(chars)
Tokens == found \o Name(tmp_text)
=============================================================================
