------------------------------ MODULE FanParser ------------------------------
(***************************************************************************)
(* The Fanjet template parser (fan_ast_parse_impl.h): a recursive descent  *)
(* in which every call is a tail call, so that its state is the token list *)
(* src, the current token at, the head from of the list that is not yet    *)
(* snipped, and the stack of nodes that are open.  The tree is kept as the *)
(* log of what was added to it: a node is opened, a run lo..hi of tokens   *)
(* becomes a token node, a node is closed.  A node is known by the number  *)
(* of the entry that opens it, and up is the node an entry was added to.   *)
(*                                                                         *)
(* One step of Next is one turn of the loop in the parse() of the          *)
(* innermost open node.  A token that lies past the end is a null pointer: *)
(* dereferencing it ends the program ("crashed"); an exception is          *)
(* "thrown"; a return from the outermost call is "accepted".               *)
(***************************************************************************)
EXTENDS Integers, Sequences, FiniteSets, SequencesExt

VARIABLES src, at, from, stack, ast, verdict
pvars == <<src, at, from, stack, ast, verdict>>

-----------------------------------------------------------------------------
(* Token classes: the predicates of token_t.                               *)

Blank == {" ", "\t", "\n"}
Quote == {"\"", "'"}
Fence == {"~~", "~~~"}      \* fences of grave accents are the same
FanComment == {"@**", "@*", "*@"}
FanRegion == {"@region", "@endregion"}
FanDirective == {"@namespace", "@ns", "@path", "@name", "@layout", "@header",
                 "@inherits", "@include"}
FanOutput == {"@:", "@::"}
FanControl == {"@if", "@switch", "@while", "@for", "@do"}
FanFun == {"@funi", "@func"}
FanAsync == {"@<", "@await"}
FanMarkup == {"@(", "@add-section", "@write-section"}
FanKeyword == {"@body", "@scripts", "@styles", "@filename", "@dirname"}
FanFn == {"@>", "@set", "@get", "@fmt", "@get-raw", "@fmt-raw", "@import",
          "@script", "@style"}
CppControl == {"if", "switch", "for", "do", "while"}
CppOp == {",", ".", "==", "!=", "!", "&&", "||", "=", "++", "--", "+", "-",
          "*", "/", "~", "&", "%", "|", "^"}
HtmlVoidTag == {"area", "base", "basefont", "bgsound", "br", "col", "command",
    "embed", "frame", "hr", "image", "img", "input", "isindex", "keygen",
    "link", "menuitem", "meta", "nextid", "param", "source", "track", "wbr"}
(* The other tags, as far as the tokenizer's table goes; a name of several *)
(* kinds stands in the first.                                              *)
HtmlTag == {"a", "b", "body", "dd", "head", "header", "html", "i", "p", "rt", "s", "script",
            "section", "style", "th", "tr", "u"}
SvgTag == {"g", "set"}
MathmlTag == {"mi", "or", "sec"}

-----------------------------------------------------------------------------
(* Nodes.  sec is the section type of the node or, for a literal, what its *)
(* markup_language says it is.                                             *)

Node(type, sec) ==
    [id |-> 0, type |-> type, sec |-> sec, name |-> "", need |-> {}, done |-> FALSE,
     part |-> "start", braces |-> 0, close |-> <<>>, escape |-> <<>>]

StringNode(close, escape) ==
    [Node("string", "any") EXCEPT !.close = close, !.escape = escape]

CommentNode(t) ==
    Node("comment", CASE t = "@**" -> "comment_line"
                      [] t = "@*"  -> "comment_block"
                      [] OTHER     -> "region_start")

ControlNode(t) ==
    LET sec == CASE t \in {"@if", "if"}         -> "code_if"
                 [] t \in {"@switch", "switch"} -> "code_switch"
                 [] t \in {"@while", "while"}   -> "code_while"
                 [] t \in {"@for", "for"}       -> "code_for"
                 [] OTHER                       -> "code_do"
    IN [Node("code_control", sec) EXCEPT
          !.need = {"expr", "code"}
                   \cup IF sec = "code_do" THEN {"semicol"} ELSE {}]

AsyncNode(t) ==
    IF t = "@<"
    THEN [Node("code_async", "code_funa") EXCEPT !.need = {"expr"}]
    ELSE [Node("code_async", "code_await") EXCEPT !.need = {"expr", "semicol"}]

ErrNode == [Node("code_err", "code_try") EXCEPT !.need = {"code"}]

Expr(kind) == Node("expr", kind)

TagNode(name) ==
    Node("tag", CASE name \in HtmlVoidTag -> "html_void"
                  [] name \in HtmlTag \ HtmlVoidTag -> "html"
                  [] name \in SvgTag -> "svg"
                  [] name \in MathmlTag -> "mathml"
                  [] OTHER -> "unknown")

(* add_token, which ignores an empty list; add_child; the node is left.    *)
Tok(up, lo, hi) ==
    IF lo > hi THEN <<>> ELSE <<[k |-> "tok", up |-> up, lo |-> lo, hi |-> hi]>>
Opened(up, n) ==
    <<[k |-> "open", up |-> up, type |-> n.type, sec |-> n.sec, name |-> n.name]>>
Closed(up) == <<[k |-> "close", up |-> up]>>

(* The first token at i or after it that is in S, or the null token.       *)
First(i, S) ==
    LET hits == {j \in i..Len(src) : src[j] \in S}
    IN IF hits = {} THEN Len(src) + 1 ELSE Min(hits)

NextWord(i) == First(i, ToSet(src) \ Blank)

More == at <= Len(src)
Top == Last(stack)
Parent == stack[Len(stack) - 1]

-----------------------------------------------------------------------------
(* The ways a turn of a parse() loop ends.                                 *)

End(v) == verdict' = v /\ UNCHANGED <<src, at, from, stack, ast>>

SkipTo(i) == at' = i /\ UNCHANGED <<src, from, stack, ast, verdict>>

Become(n) ==
    /\ stack' = [stack EXCEPT ![Len(stack)] = n]
    /\ at' = at + 1
    /\ UNCHANGED <<src, from, ast, verdict>>

(* open_scope: the text before token i goes to pn, the next hup tokens to  *)
(* the new node n, which is parsed from there.                             *)
Open(pn, i, n, hup) ==
    IF i + hup > Len(src) THEN End("thrown")
    ELSE LET before == ast \o Tok(pn.id, from, i - 1)
             id == Len(before) + 1
         IN /\ ast' = before \o Opened(pn.id, n) \o Tok(id, i, i + hup - 1)
            /\ stack' = Append([stack EXCEPT ![Len(stack)] = pn], [n EXCEPT !.id = id])
            /\ at' = i + hup /\ from' = i + hup
            /\ UNCHANGED <<src, verdict>>

(* open_fan_output, and the "@>" case of open_fan_fn: a node that is done  *)
(* at once, with the expression up to the semicolon under it.              *)
OpenWithExpr(n, hup) ==
    IF at + 1 + hup > Len(src) THEN End("thrown")
    ELSE LET before == ast \o Tok(Top.id, from, at - 1)
             id == Len(before) + 1
         IN /\ ast' = before \o Opened(Top.id, n) \o Tok(id, at, at)
                         \o Opened(id, Expr("semicol")) \o Tok(id + 2, at + 1, at + hup)
            /\ stack' = stack \o <<[n EXCEPT !.id = id, !.done = TRUE],
                                   [Expr("semicol") EXCEPT !.id = id + 2]>>
            /\ at' = at + 1 + hup /\ from' = at + 1 + hup
            /\ UNCHANGED <<src, verdict>>

(* The closing token snipped from the list, but not added to the node.     *)
CloseAtDropsToken(i, pn) ==
    /\ ast' = ast \o Tok(Top.id, from, i - 1) \o Closed(Top.id)
    /\ stack' = [Front(stack) EXCEPT ![Len(stack) - 1] = pn]
    /\ at' = i + 1 /\ from' = i + 1
    /\ UNCHANGED <<src, verdict>>

(* close_scope with ff: the node ends with token i, its parent goes on     *)
(* after it as pn.  At the end of the list it just returns.                *)
CloseAt(i, pn) ==
    /\ ast' = ast \o Tok(Top.id, from, i - 1) \o Tok(Top.id, i, i) \o Closed(Top.id)
    /\ stack' = [Front(stack) EXCEPT ![Len(stack) - 1] = pn]
    /\ at' = i + 1 /\ from' = i + 1
    /\ UNCHANGED <<src, verdict>>

(* The calls return one by one: every open node ends where the text does,  *)
(* the tokens that were not added to a node are lost.                      *)
Abandon ==
    /\ ast' = ast \o FlattenSeq([i \in 1..Len(stack) - 1 |->
                                   Closed(stack[Len(stack) + 1 - i].id)])
    /\ verdict' = "accepted"
    /\ UNCHANGED <<src, at, from, stack>>

Close == IF More THEN CloseAt(at, Parent) ELSE Abandon

(* close_scope without ff: the parent goes on at the same token.           *)
Leave ==
    /\ ast' = ast \o Closed(Top.id)
    /\ stack' = Front(stack)
    /\ UNCHANGED <<src, at, from, verdict>>

(* The semicolon that ends a do or await statement.                        *)
EndStatement ==
    /\ ast' = ast \o Tok(Top.id, from, at) \o Closed(Top.id)
    /\ stack' = Front(stack)
    /\ at' = at + 1 /\ from' = at + 1
    /\ UNCHANGED <<src, verdict>>

-----------------------------------------------------------------------------
(* open_fan_markup: the language or section is named between the keyword   *)
(* and ")"; the body starts after "{", or after ";" for a section that is  *)
(* only written.                                                           *)
Language(c) ==
    LET words == SelectSeq(SubSeq(src, at + 1, c - 1),
                           LAMBDA x : x \notin Blank \cup {"("})
    IN IF Len(words) = 1 THEN words[1] ELSE "?"

OpenMarkup ==
    LET t == src[at]
        c == First(at + 1, {")"})
        st == First(c, {"{", ";"})
        lang == Language(c)
        sec == CASE t = "@add-section" -> "add"
                 [] t = "@write-section" ->
                      IF st <= Len(src) /\ src[st] = "{" THEN "write" ELSE "write;"
                 [] lang \in {"html", "htm"} -> "markup_html"
                 [] lang \in {"md", "markdown"} -> "markdown"
                 [] lang \in {"tex", "latex"} -> "tex"
                 [] OTHER -> "markup_other"
        last == IF sec = "write;" THEN st ELSE First(c, {"{"})
    IN Open(Top, at, [Node("literal", sec) EXCEPT !.name = lang], last - at + 1)

(* Tokens that open a node, by the kind of node they are met in.           *)
Mentions == FanComment \cup FanRegion \cup FanDirective \cup FanKeyword \cup FanFn
LiteralOpens ==
    Mentions \cup FanOutput \cup {"@{"} \cup FanControl \cup {"@try"}
    \cup FanFun \cup FanMarkup
TagOpens == (LiteralOpens \ FanDirective) \cup FanAsync
ExprOpens ==
    Mentions \cup FanOutput \cup {"(", "return", "throw", "{"} \cup Quote
CodeOpens ==
    Mentions \cup FanAsync \cup FanMarkup
    \cup {"(", "return", "throw", "{", "try"} \cup Quote \cup CppControl
StringOpens == FanOutput \cup FanKeyword \cup FanFn

(* The open_... functions, for the token at.                               *)
Sub(n) == Open(Top, at, n, 1)

OpenFanComment == Sub(CommentNode(src[at]))
OpenFanDirective ==
    IF Top.sec = "literal" THEN Sub(Node("directive", src[at])) ELSE End("thrown")
OpenFanOutput == OpenWithExpr(Node("output", src[at]), 0)
OpenCodeBlock == Sub(Node("code_block", src[at]))
OpenControl == Sub(ControlNode(src[at]))
OpenTry == Sub(ErrNode)
OpenFun == Sub(Node("code_fun", src[at]))
OpenAsync == Sub(AsyncNode(src[at]))
OpenExpr == Sub(Expr(IF src[at] = "(" THEN "parens" ELSE "semicol"))
OpenFanKey == Sub(Node("fan_key", src[at]))
OpenFanFn ==
    IF src[at] = "@>" THEN OpenWithExpr(Node("fan_fn", "@>"), 1)
    ELSE Sub(Node("fan_fn", src[at]))
OpenCodeString == Sub(StringNode(<<src[at]>>, <<"\\", src[at]>>))

OpenNode ==
    LET t == src[at]
    IN CASE t \in FanComment \cup FanRegion -> OpenFanComment
         [] t \in FanDirective -> OpenFanDirective
         [] t \in FanOutput -> OpenFanOutput
         [] t \in {"@{", "{"} -> OpenCodeBlock
         [] t \in FanControl \cup CppControl -> OpenControl
         [] t \in {"@try", "try"} -> OpenTry
         [] t \in FanFun -> OpenFun
         [] t \in FanAsync -> OpenAsync
         [] t \in FanMarkup -> OpenMarkup
         [] t \in FanKeyword -> OpenFanKey
         [] t \in FanFn -> OpenFanFn
         [] t \in {"(", "return", "throw"} -> OpenExpr
         [] t \in Quote -> OpenCodeString

OpenTag == Open(Top, at, TagNode(src[at + 1]), 1)

-----------------------------------------------------------------------------
(* literal_node_t::parse.  The root literal takes the rest of the text; in *)
(* a markup the end of the text is an error, whose report reads the first  *)
(* token of the list even when there is none.                              *)

(* open_markdown_string: indented code up to the end of its line, or a     *)
(* fenced block.                                                           *)
Indent == IF src[at + 1] = " " THEN First(at + 1, ToSet(src) \ {" ", "\t"}) ELSE at + 1
IsIndented ==
    \/ src[at + 1] = " " /\ Indent - (at + 1) >= 4
    \/ src[at + 1] = "\t"

OpensMarkdown ==
    \/ src[at] \in Fence
    \/ src[at] = "\n" /\ at < Len(src) /\ (IsIndented \/ src[at + 1] \in Fence)

OpenMarkdownString ==
    CASE src[at] \in Fence -> Open(Top, at, StringNode(<<src[at]>>, <<>>), 1)
      [] IsIndented -> IF Indent > Len(src) THEN End("crashed")
                       ELSE Open(Top, Indent, StringNode(<<"\n">>, <<>>), 1)
      [] OTHER -> Open(Top, at + 1, StringNode(<<"\n", src[at + 1]>>, <<>>), 1)

(* Braces in tex and latex nest, and may be escaped.                       *)
ParseTex ==
    LET t == src[at] IN
    CASE t = "\\" /\ at < Len(src) /\ src[at + 1] \in {"{", "}", "\\"} ->
           SkipTo(at + 2)
      [] t = "{" -> Become([Top EXCEPT !.braces = @ + 1])
      [] t = "}" /\ Top.braces > 0 -> Become([Top EXCEPT !.braces = @ - 1])
      [] t = "}" /\ Top.braces = 0 -> CloseAt(at, Parent)
      [] t \in LiteralOpens -> OpenNode
      [] OTHER -> SkipTo(at + 1)

ParseMarkup ==
    LET t == src[at] IN
    CASE t \in Quote -> SkipTo(at + 1)
      [] Top.sec = "write;" -> CloseAt(at, Parent)
      [] Top.sec = "tex" -> ParseTex
      [] t = "<" /\ at < Len(src) /\ Top.sec # "markup_other" -> OpenTag
      [] Top.sec = "markdown" /\ OpensMarkdown -> OpenMarkdownString
      [] t = "}" /\ Top.sec # "literal" -> CloseAt(at, Parent)
      [] t \in LiteralOpens -> OpenNode
      [] OTHER -> SkipTo(at + 1)

ParseLiteral ==
    /\ Top.type = "literal"
    /\ CASE More -> ParseMarkup
         [] ~More /\ Top.sec = "literal" ->
              /\ ast' = ast \o Tok(Top.id, from, Len(src))
              /\ from' = at
              /\ verdict' = "accepted"
              /\ UNCHANGED <<src, at, stack>>
         [] OTHER -> End(IF from > Len(src) THEN "crashed" ELSE "thrown")

-----------------------------------------------------------------------------
(* expr_node_t::parse.  The token after an operator is not asked whether   *)
(* it opens a node.                                                        *)

(* A parameter list is followed by ";" in a declaration of an asynchronous *)
(* function and by "{" in its definition.                                  *)
ExprClosedIn(pn) ==
    LET w == NextWord(at + 1) IN
    IF pn.sec # "code_funa" THEN pn
    ELSE [pn EXCEPT !.need = IF src[w] = ";" THEN {"semicol"} ELSE {"code"}]

IsOp(t) == t \in CppOp \/ (t = ";" /\ Top.sec # "semicol")

ParseExpr ==
    /\ Top.type = "expr"
    /\ LET t == src[at]
           closes == t = (IF Top.sec = "parens" THEN ")" ELSE ";")
           w == NextWord(at + 1)
       IN CASE ~More -> End(IF Top.part = "operand" THEN "crashed" ELSE "thrown")
            [] More /\ Top.part = "start" /\ t \in ExprOpens -> OpenNode
            [] More /\ Top.part = "start" /\ IsOp(t) ->
                 /\ ast' = ast \o Tok(Top.id, from, at - 1) \o Tok(Top.id, at, at)
                 /\ stack' = [stack EXCEPT ![Len(stack)].part = "operand"]
                 /\ at' = at + 1 /\ from' = at + 1
                 /\ UNCHANGED <<src, verdict>>
            [] More /\ (Top.part = "operand" \/ (~IsOp(t) /\ t \notin ExprOpens)) ->
                 IF ~closes THEN Become([Top EXCEPT !.part = "start"])
                 ELSE IF /\ Parent.sec = "code_funa" /\ Top.sec = "parens"
                         /\ (w > Len(src) \/ src[w] \notin {";", "{"})
                      THEN End("thrown")
                      ELSE CloseAt(at, IF Top.sec = "parens"
                                       THEN ExprClosedIn(Parent) ELSE Parent)

-----------------------------------------------------------------------------
(* tag_node_t::parse: the start tag, the content, the end tag.             *)
ParseTag ==
    /\ Top.type = "tag"
    /\ LET t == src[at] IN
       CASE ~More -> End("thrown")
         [] More /\ Top.part = "start" ->
              (CASE t \in Quote -> OpenNode
                 [] t = "/>" \/ (t = ">" /\ Top.sec = "html_void") -> CloseAt(at, Parent)
                 [] t = ">" /\ Top.sec # "html_void" ->
                      Become([Top EXCEPT !.part = "content"])
                 [] t \in TagOpens -> OpenNode
                 [] OTHER -> SkipTo(at + 1))
         [] More /\ Top.part = "content" ->
              (CASE t \in LiteralOpens -> OpenNode
                 [] t = "<" /\ at < Len(src) -> OpenTag
                 [] t = "</" -> Become([Top EXCEPT !.part = "end"])
                 [] OTHER -> SkipTo(at + 1))
         [] More /\ Top.part = "end" ->
              IF t = ">" THEN CloseAt(at, Parent) ELSE SkipTo(at + 1)

(* string_node_t::parse: up to the closing tokens, stepping over an        *)
(* escaped quote; in a literal or a tag a string may hold output.          *)
Matches(seq) ==
    /\ seq # <<>> /\ at + Len(seq) - 1 <= Len(src)
    /\ SubSeq(src, at, at + Len(seq) - 1) = seq

(* The escaped quote not looked for before the closing one.                *)
ParseStringUnescaped ==
    /\ Top.type = "string"
    /\ CASE ~More -> End("thrown")
         [] More /\ Matches(Top.close) -> CloseAt(at + Len(Top.close) - 1, Parent)
         [] OTHER -> IF Parent.type \in {"literal", "tag"} /\ src[at] \in StringOpens
                     THEN OpenNode ELSE SkipTo(at + 1)

ParseString ==
    /\ Top.type = "string"
    /\ CASE ~More -> End("thrown")
         [] More /\ Matches(Top.escape) -> SkipTo(at + 2)
         [] More /\ ~Matches(Top.escape) /\ Matches(Top.close) ->
              CloseAt(at + Len(Top.close) - 1, Parent)
         [] OTHER -> IF Parent.type \in {"literal", "tag"} /\ src[at] \in StringOpens
                     THEN OpenNode ELSE SkipTo(at + 1)

(* directive_node_t::parse: a line, or a block in braces.                  *)
ParseDirective ==
    /\ Top.type = "directive"
    /\ LET t == src[at] IN
       CASE Top.done -> Leave
         [] ~Top.done /\ ~More -> End("thrown")
         [] ~Top.done /\ More /\ Top.sec \in {"@header", "@inherits"} ->
              (CASE t \in Blank -> SkipTo(at + 1)
                 [] t = "{" -> Open([Top EXCEPT !.done = TRUE], at,
                                    Node("code_block", t), 1)
                 [] OTHER -> End("thrown"))
         [] OTHER ->
              (CASE t = "\n" -> CloseAt(at, Parent)
                 [] t \in FanComment -> Open([Top EXCEPT !.done = (t = "@**")], at,
                                             CommentNode(t), 1)
                 [] OTHER -> SkipTo(at + 1))

(* The loop without its step to the next token.                            *)
ParseCommentStuck ==
    /\ Top.type = "comment"
    /\ LET ends == IF Top.sec = "comment_block" THEN "*@" ELSE "\n"
       IN IF ~More \/ src[at] = ends THEN Close ELSE SkipTo(at)

(* comment_node_t::parse.  The end of the text ends the comment too.       *)
ParseComment ==
    /\ Top.type = "comment"
    /\ LET ends == IF Top.sec = "comment_block" THEN "*@" ELSE "\n"
       IN IF ~More \/ src[at] = ends THEN Close ELSE SkipTo(at + 1)

-----------------------------------------------------------------------------
(* code_block_node_t::parse.  What follows the brace that closes a block   *)
(* decides whether the statement around it goes on.                        *)
BlockClosedIn(pn) ==
    LET w == First(at + 1, ToSet(src) \ (Blank \cup {"else"}))
        isElse == \E i \in at + 1..w - 1 : src[i] = "else"
        isIf == w <= Len(src) /\ src[w] = "if"
        c == NextWord(at + 1)
        isCatch == c <= Len(src) /\ src[c] = "catch"
    IN CASE pn.sec = "code_if" ->
              IF isElse THEN [pn EXCEPT !.need = IF isIf THEN {"expr", "code"} ELSE {"code"}]
              ELSE [pn EXCEPT !.done = TRUE]
         [] pn.type = "code_control" /\ pn.sec \notin {"code_if", "code_do"} ->
              [pn EXCEPT !.done = TRUE]
         [] pn.type = "code_err" ->
              IF isCatch THEN [pn EXCEPT !.need = {"expr", "code"}]
              ELSE [pn EXCEPT !.done = TRUE]
         [] pn.sec = "code_funa" -> [pn EXCEPT !.done = TRUE]
         [] OTHER -> pn

ParseCodeBlock ==
    /\ Top.type = "code_block"
    /\ CASE ~More -> End("thrown")
         [] More /\ src[at] \in CodeOpens -> OpenNode
         [] More /\ src[at] = "}" -> CloseAt(at, BlockClosedIn(Parent))
         [] OTHER -> SkipTo(at + 1)

(* The parts of a statement, in the order the statement asks for them: an  *)
(* expression in parentheses, a block in braces, a semicolon.              *)
Wanted(n) ==
    LET order == IF n.sec = "code_do" THEN <<"code", "expr", "semicol">>
                 ELSE <<"expr", "code", "semicol">>
    IN SelectSeq(order, LAMBDA p : p \in n.need)

TakePart(part) ==
    LET t == src[at]
        pn == [Top EXCEPT !.need = @ \ {part}]
    IN CASE part = "expr" /\ t = "(" -> Open(pn, at, Expr("parens"), 1)
         [] part = "code" /\ t = "{" -> Open(pn, at, Node("code_block", t), 1)
         [] part = "semicol" /\ t = ";" -> EndStatement
         [] OTHER -> End("thrown")

(* code_control_node_t::parse, code_err_node_t::parse.                     *)
ParseStatement ==
    /\ Top.type \in {"code_control", "code_err"}
    /\ LET idle == Blank \cup IF Top.type = "code_err" THEN {"catch"}
                              ELSE {"else", "if", "while"}
       IN CASE Top.done -> Close
            [] ~Top.done /\ ~More -> End("thrown")
            [] OTHER -> IF src[at] \in idle \/ Wanted(Top) = <<>> THEN SkipTo(at + 1)
                        ELSE TakePart(Head(Wanted(Top)))

(* code_fun_node_t::parse.                                                 *)
ParseFun ==
    /\ Top.type = "code_fun"
    /\ CASE Top.done -> Close
         [] ~Top.done /\ ~More -> End("thrown")
         [] OTHER ->
              (CASE src[at] \in Blank -> SkipTo(at + 1)
                 [] src[at] = "{" -> Open([Top EXCEPT !.done = TRUE], at,
                                          Node("code_block", "{"), 1)
                 [] OTHER -> End("thrown"))

(* code_async_node_t::parse.  The head of the declaration, up to the "("   *)
(* of its parameters, is skipped: a type closed by ">" and a name after    *)
(* "@<", a call after "@await".  A text that ends here is accepted.        *)
TypeEnd ==
    LET depth(i) == 1 + Cardinality({j \in at..i : src[j] = "<"})
                      - Cardinality({j \in at..i : src[j] = ">"})
        ends == {i \in at..Len(src) : depth(i) = 0}
    IN IF ends = {} THEN Len(src) + 1 ELSE Min(ends)

AsyncHead ==
    LET last == IF Top.sec = "code_funa" THEN TypeEnd ELSE at
        p == First(IF Top.sec = "code_funa" THEN last + 1 ELSE at, {"("})
    IN CASE Top.sec = "code_funa" /\ last > Len(src) -> End("thrown")
         [] Top.sec = "code_await" /\ src[at] \notin Blank \cup {"("} -> End("thrown")
         [] p > Len(src) -> Abandon
         [] OTHER -> Open([Top EXCEPT !.need = @ \ {"expr"}], p, Expr("parens"), 1)

ParseAsync ==
    /\ Top.type = "code_async"
    /\ CASE Top.done -> Close
         [] ~Top.done /\ ~More -> IF at > from THEN Abandon ELSE End("crashed")
         [] ~Top.done /\ More /\ "expr" \in Top.need -> AsyncHead
         [] OTHER -> IF src[at] \in Blank THEN SkipTo(at + 1)
                     ELSE TakePart(Head(Wanted(Top)))

(* output_node_t::parse, fan_key_node_t::parse and fan_fn_node_t::parse.   *)
ParseFan ==
    /\ Top.type \in {"output", "fan_key", "fan_fn"}
    /\ CASE Top.done \/ Top.type = "fan_key" -> Leave
         [] Top.type = "fan_fn" /\ ~Top.done /\ ~More -> End("thrown")
         [] OTHER ->
              (CASE src[at] \in Blank -> SkipTo(at + 1)
                 [] src[at] = "(" -> Open([Top EXCEPT !.done = TRUE], at,
                                          Expr("parens"), 1)
                 [] OTHER -> End("thrown"))

-----------------------------------------------------------------------------
(* root_node_t::parse: the first node is always a literal.                 *)
ParseInit(s) ==
    /\ src = s
    /\ at = 1 /\ from = 1
    /\ stack = <<Node("literal", "literal")>>
    /\ ast = <<>>
    /\ verdict = "parsing"

ParseStep ==
    /\ verdict = "parsing"
    /\ \/ ParseLiteral \/ ParseExpr \/ ParseTag \/ ParseString \/ ParseDirective
       \/ ParseComment \/ ParseCodeBlock \/ ParseStatement \/ ParseFun
       \/ ParseAsync \/ ParseFan

=============================================================================
