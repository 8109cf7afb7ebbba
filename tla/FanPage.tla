------------------------------ MODULE FanPage ------------------------------
(***************************************************************************)
(* From a template to the page it shows: the text is cut into tokens       *)
(* (FanTokenizer), the tree that is built from them (FanParser) is turned  *)
(* into the calls of the view's render function (fan_ast_gen_impl.h), and  *)
(* the calls are run against the buffers of the view (ViewBase).           *)
(*                                                                         *)
(* The C++ text between the calls is left out but for the conditions of    *)
(* its control statements, which all have the value cond (a block runs or  *)
(* it does not, a loop runs its block once), and for its return and throw, *)
(* which leave the render function before its last calls.                  *)
(***************************************************************************)
EXTENDS FanTokenizer, FanParser, ViewBase

CONSTANTS
    Pages,          \* templates: their tokens and words src, whether the compiler is
                    \* meant to take them (ok) and the page they then show for each
                    \* value of cond
    Body            \* the text of the view this one is the layout of

VARIABLES
    phase,          \* "tokenize", "parse", "render", then "done", "left" (by a return
                    \* or a throw), "refused" or "broken" (does not compile)
    page,           \* the template
    cond,           \* the value of the conditions
    code,           \* the calls of the render function
    pc
vars == <<tvars, pvars, vvars, phase, page, cond, code, pc>>

-----------------------------------------------------------------------------
(* The tree, read from the log.  Node 0 is the literal of the root.        *)

Children(j) == {i \in 1..Len(ast) : ast[i].k # "close" /\ ast[i].up = j}
TypeOf(j) == IF j = 0 THEN "literal" ELSE ast[j].type
SecOf(j) == IF j = 0 THEN "literal" ELSE ast[j].sec

(* The nodes around an entry, innermost first.                             *)
RECURSIVE Around(_)
Around(i) == IF i = 0 THEN <<>> ELSE <<ast[i].up>> \o Around(ast[i].up)

(* node_type_is_cpp_ctx, is_cpp_ctx and is_literal_ctx of the parent.      *)
CppTypes == {"output", "code_block", "code_control", "code_err", "code_fun",
             "code_async", "fan_fn"}
InLiteralCtx(i) ==
    TypeOf(Head(SelectSeq(Around(i), LAMBDA j : TypeOf(j) \in CppTypes \cup {"literal"})))
      = "literal"

-----------------------------------------------------------------------------
(* gen_header_code: the calls an entry of the log contributes.             *)

Call(op, lang, text, id) == <<[op |-> op, lang |-> lang, text |-> text, id |-> id]>>

(* The last lines of root_node_t::gen_header_code: "@}" and "@@" are       *)
(* replaced in the code as a whole.                                        *)
Unescape(t) == CASE t = "@}" -> "}" [] t = "@@" -> "@" [] OTHER -> t
Text(how, lo, hi) == [i \in 1..hi - lo + 1 |-> <<how, Unescape(src[lo + i - 1])>>]

(* write_tokens: what stands in a tag is written; an expression and a      *)
(* string are, unless they are part of C++ text; the first token of a      *)
(* markup is its head.                                                     *)
Written(i) == Call("write", "", Text("raw", ast[i].lo, ast[i].hi), 0)
GenMarkupTokens(i) ==
    IF ast[i].up # 0 /\ i = Min(Children(ast[i].up)) THEN <<>> ELSE Written(i)
GenExprTokens(i) == IF InLiteralCtx(i) THEN Written(i) ELSE <<>>
GenStringTokens(i) == IF InLiteralCtx(i) THEN Written(i) ELSE <<>>
GenTokens(i) ==
    CASE TypeOf(ast[i].up) = "tag" -> Written(i)
      [] TypeOf(ast[i].up) = "literal" -> GenMarkupTokens(i)
      [] TypeOf(ast[i].up) = "string" -> GenStringTokens(i)
      [] TypeOf(ast[i].up) = "expr" -> GenExprTokens(i)
      [] OTHER -> <<>>

(* The words between the first and the last token of node i.               *)
ArgsOf(i, how) ==
    LET inside == {j \in i..Len(ast) : ast[j].k = "tok" /\ i \in ToSet(Around(j))}
    IN SelectSeq(Text(how, ast[Min(inside)].lo + 1, ast[Max(inside)].hi - 1),
                 LAMBDA w : w[2] \notin Blank \cup {"("})

(* literal_node_t, up to its content.                                      *)
GenMarkup(i) ==
    LET n == ast[i]
        html == Call("begin", "html", <<>>, 0)
    IN CASE n.sec = "markup_html" -> html
         [] n.sec = "add" -> Call("begin", n.name, <<>>, 0) \o html
         [] n.sec = "write" -> Call("if", n.name, <<>>, i) \o html
         [] n.sec = "write;" -> Call("section", n.name, <<>>, 0)
         [] n.sec \in {"markdown", "tex", "markup_other"} ->
              Call("begin", n.name, <<>>, 0)

(* "@:" writes encoded text, "@::" writes it as it is.                     *)
GenOutput(i) ==
    Call("write", "", ArgsOf(i, IF ast[i].sec = "@:" THEN "enc" ELSE "raw"), 0)

GenFanKey(i) ==
    IF ast[i].sec \in {"@body", "@scripts", "@styles"}
    THEN Call(ast[i].sec, "", <<>>, 0) ELSE <<>>

GenFanFn(i) ==
    LET n == ast[i]
    IN CASE n.sec \in {"@get", "@fmt"} -> Call("write", "", ArgsOf(i, "enc"), 0)
         [] n.sec \in {"@get-raw", "@fmt-raw"} -> Call("write", "", ArgsOf(i, "raw"), 0)
         [] n.sec \in {"@>", "@import"} -> Call("write", "", ArgsOf(i, n.sec), 0)
         [] n.sec \in {"@script", "@style"} -> Call(n.sec, "", ArgsOf(i, "raw"), 0)
         [] n.sec = "@set" -> <<>>

(* The statement of a code block that ends the render function.            *)
GenLeave(i) == IF ast[i].sec = "semicol" THEN Call("leave", "", <<>>, 0) ELSE <<>>

GenOpen(i) ==
    CASE ast[i].type = "literal" -> GenMarkup(i)
      [] ast[i].type = "expr" -> GenLeave(i)
      [] ast[i].type = "output" -> GenOutput(i)
      [] ast[i].type = "fan_key" -> GenFanKey(i)
      [] ast[i].type = "fan_fn" -> GenFanFn(i)
      [] OTHER -> <<>>

(* A section closed in the order it was opened.                            *)
GenCloseSwapped(i) ==
    LET j == ast[i].up
        n == ast[j]
        html == Call("commit", "html", <<>>, 0)
    IN CASE n.type # "literal" \/ n.sec = "write;" -> <<>>
         [] n.type = "literal" /\ n.sec = "markup_html" -> html
         [] n.type = "literal" /\ n.sec = "add" -> Call("commit", n.name, <<>>, 0) \o html
         [] n.type = "literal" /\ n.sec = "write" -> html \o Call("fi", "", <<>>, j)
         [] OTHER -> Call("commit", n.name, <<>>, 0)

GenClose(i) ==
    LET j == ast[i].up
        n == ast[j]
        html == Call("commit", "html", <<>>, 0)
    IN CASE n.type # "literal" \/ n.sec = "write;" -> <<>>
         [] n.type = "literal" /\ n.sec = "markup_html" -> html
         [] n.type = "literal" /\ n.sec = "add" -> html \o Call("commit", n.name, <<>>, 0)
         [] n.type = "literal" /\ n.sec = "write" -> html \o Call("fi", "", <<>>, j)
         [] OTHER -> Call("commit", n.name, <<>>, 0)

(* Nodes whose content is not generated where it stands: a directive, the  *)
(* C++ comment made of a comment, the members of a function block, the     *)
(* arguments of a call, and the blocks of a try or of an asynchronous      *)
(* function, of which only the tokens are copied.                          *)
Opaque == {"directive", "comment", "code_fun", "code_err", "code_async",
           "output", "fan_fn", "fan_key"}
IsHidden(around) ==
    \E a \in around : TypeOf(a) \in Opaque \/ SecOf(a) = "write;"

(* The block of a control statement that runs.                             *)
Runs(b) ==
    LET ctl == ast[b].up
        parts(type) == {i \in Children(ctl) : ast[i].k = "open" /\ ast[i].type = type}
        blocks == parts("code_block")
    IN CASE TypeOf(ctl) # "code_control" \/ SecOf(ctl) = "code_do" -> TRUE
         [] SecOf(ctl) = "code_if" ->
              IF cond' THEN b = Min(blocks)
              ELSE b = Max(blocks) /\ Cardinality(blocks) > Cardinality(parts("expr"))
         [] OTHER -> cond'

(* A markup is generated without its last child: its brace or, if the text *)
(* ended before that, the node the text ended in.                          *)
IsLast(j) ==
    /\ j # 0 /\ ast[j].up # 0 /\ TypeOf(ast[j].up) = "literal"
    /\ j = Max(Children(ast[j].up))

GenEntry(i) ==
    LET self == IF ast[i].k = "close" THEN ast[i].up ELSE i
        around == ToSet(Around(self))
    IN CASE \/ IsHidden(around)
            \/ \E a \in around : TypeOf(a) = "code_block" /\ ~Runs(a)
            \/ \E a \in around \cup {self} : IsLast(a) -> <<>>
         [] OTHER -> CASE ast[i].k = "tok" -> GenTokens(i)
                       [] ast[i].k = "open" -> GenOpen(i)
                       [] ast[i].k = "close" -> GenClose(i)

(* root_node_t::gen_header_code.                                           *)
GenHeaderCode ==
    Call("begin", "html", <<>>, 0)
    \o FlattenSeq([i \in 1..Len(ast) |-> GenEntry(i)])
    \o Call("commit", "html", <<>>, 0)

(* Whether the generated text is C++.  The words of a region, of a try     *)
(* statement, of an asynchronous function and of "@filename" are copied    *)
(* with their "@", or without the blocks between them.  A partial view     *)
(* leaves the body of its callback open until the end of the function: it  *)
(* cannot stand in braces, nor before a function block, which ends the     *)
(* function and is a member of the class.                                  *)
InBraces(i) ==
    \E a \in ToSet(Around(i)) \ {0} :
        (TypeOf(a) = "code_block" /\ SecOf(a) = "{") \/ SecOf(a) = "write"
Copied(n) ==
    \/ n.type \in {"code_err", "code_async"}
    \/ n.sec \in {"region_start", "@filename", "@dirname"}
Compiles ==
    LET nodes == {i \in 1..Len(ast) : ast[i].k = "open"}
        members == {i \in nodes : ast[i].sec = "@funi"}
    IN /\ \A i \in nodes : ~Copied(ast[i])
       /\ \A i \in nodes : ast[i].sec = "@>" =>
            ~InBraces(i) /\ \A f \in members : f < i
       /\ \A f \in members : ast[f].up = 0

(* generate_doc: how often a directive may be given.                       *)
Limit == [ns |-> 1, path |-> 1, name |-> 1, layout |-> 1, inherits |-> 1, header |-> 2]
Spellings == [ns |-> {"@ns", "@namespace"}, path |-> {"@path"}, name |-> {"@name"},
              layout |-> {"@layout"}, inherits |-> {"@inherits"}, header |-> {"@header"}]
WithinLimits ==
    \A d \in DOMAIN Limit :
        Cardinality({i \in 1..Len(ast) : /\ ast[i].k = "open"
                                         /\ ast[i].type = "directive"
                                         /\ ast[i].sec \in Spellings[d]}) <= Limit[d]

-----------------------------------------------------------------------------
Characters(tokens) == FlattenSeq([n \in 1..Len(tokens) |-> Spelling[tokens[n]]])

PageInit ==
    \E p \in Pages :
        /\ page = p
        /\ TokenizeInit(Characters(p.src))
        /\ ParseInit(<<>>)
        /\ BufInit /\ res = NoSections
        /\ phase = "tokenize" /\ cond = FALSE /\ code = <<>> /\ pc = 1

Tokenize ==
    /\ phase = "tokenize"
    /\ TokenizeStep
    /\ UNCHANGED <<pvars, vvars, phase, page, cond, code, pc>>

StartParsing ==
    /\ phase = "tokenize" /\ Tokenized
    /\ src' = Tokens
    /\ phase' = "parse"
    /\ UNCHANGED <<tvars, at, from, stack, ast, verdict, vvars, page, cond, code, pc>>

Parse ==
    /\ phase = "parse"
    /\ ParseStep
    /\ UNCHANGED <<tvars, vvars, phase, page, cond, code, pc>>

Refuse ==
    /\ phase = "parse"
    /\ verdict \in {"thrown", "crashed"} \/ (verdict = "accepted" /\ ~WithinLimits)
    /\ phase' = "refused"
    /\ UNCHANGED <<tvars, pvars, vvars, page, cond, code, pc>>

Generate ==
    /\ phase = "parse" /\ verdict = "accepted" /\ WithinLimits
    /\ phase' = IF Compiles THEN "render" ELSE "broken"
    /\ cond' \in BOOLEAN
    /\ code' = GenHeaderCode
    /\ UNCHANGED <<tvars, pvars, vvars, page, pc>>

(* One call of the render function.                                        *)
RunCall ==
    /\ phase = "render" /\ pc <= Len(code) /\ fault = ""
    /\ LET c == code[pc] IN
       /\ CASE c.op = "begin" -> BeginWrite(c.lang)
            [] c.op = "commit" -> CommitWrite(c.lang)
            [] c.op = "write" -> Write(c.text)
            [] c.op = "section" -> WriteSection(c.lang)
            [] c.op = "if" -> IF SectionExists(c.lang) THEN WriteSection(c.lang)
                              ELSE UNCHANGED vvars
            [] c.op \in {"fi", "leave"} -> UNCHANGED vvars
            [] c.op = "@body" -> WriteWhole(Body)
            [] c.op = "@scripts" -> WriteScripts
            [] c.op = "@styles" -> WriteStyles
            [] c.op = "@script" -> AddScript(c.text[1][2])
            [] c.op = "@style" -> AddStyle(c.text[1][2])
       /\ pc' = IF c.op = "if" /\ SectionExists(c.lang)
                THEN CHOOSE i \in pc..Len(code) : code[i].op = "fi" /\ code[i].id = c.id
                ELSE pc + 1
       /\ phase' = IF c.op = "leave" THEN "left" ELSE phase
    /\ UNCHANGED <<tvars, pvars, page, cond, code>>

Finish ==
    /\ phase = "render" /\ (pc > Len(code) \/ fault # "")
    /\ phase' = "done"
    /\ UNCHANGED <<tvars, pvars, vvars, page, cond, code, pc>>

PageNext == Tokenize \/ StartParsing \/ Parse \/ Refuse \/ Generate \/ RunCall \/ Finish
PageSpec == PageInit /\ [][PageNext]_vars
PageFairSpec == PageSpec /\ WF_vars(PageNext)

-----------------------------------------------------------------------------
(* What a text is meant to be cut into: a token is one piece; a word is    *)
(* one too, but for the longest token it ends with.                        *)
Pieces(w) ==
    LET s == Spelling[w]
        tails == {k \in 2..Len(s) :
                    \E t \in DOMAIN s_tokens : s_tokens[t] = SubSeq(s, k, Len(s))}
    IN IF w \in DOMAIN s_tokens \/ tails = {} THEN <<w>>
       ELSE Name(SubSeq(s, 1, Min(tails) - 1)) \o Name(SubSeq(s, Min(tails), Len(s)))

(* A template is cut at its keywords and marks, each of which is found as  *)
(* a whole, and into its words; a word that begins with a keyword or has   *)
(* one inside is not cut there (tokenize, is_token).  A word that ends     *)
(* with one is, since is_token looks at no character before the token.     *)
TokensAsMeant ==
    page.ok /\ phase # "tokenize" =>
        src = FlattenSeq([n \in DOMAIN page.src |-> Pieces(page.src[n])])

(* No token of the template is dropped, duplicated or moved: the token     *)
(* nodes of the tree, in order, are the tokens up to the head of the list  *)
(* that is left (snip, add_token, add_sibling_token), and an accepted      *)
(* template leaves none, unless it ends inside a comment, an "@<" or an    *)
(* "@await", whose parse functions return there.                           *)
NothingLost ==
    LET toks == SelectSeq(ast, LAMBDA e : e.k = "tok")
    IN /\ \A i \in 1..Len(toks) :
            toks[i].lo = IF i = 1 THEN 1 ELSE toks[i - 1].hi + 1
       /\ from = IF toks = <<>> THEN 1 ELSE Last(toks).hi + 1
       /\ (verdict = "accepted" /\ Top.type \notin {"comment", "code_async"})
            => from > Len(src)

(* The calls of a render function keep the buffers of its view in order:   *)
(* nothing is written or committed without an open buffer, every buffer is *)
(* committed under the language it was opened for, and none is left open   *)
(* unless the template's own code leaves the function.                     *)
BuffersBalanced ==
    /\ fault = ""
    /\ phase = "done" => bufs = <<>>

Letters(text) ==
    FlattenSeq([i \in DOMAIN text |->
        [k \in DOMAIN Spelling[text[i][2]] |-> <<text[i][1], Spelling[text[i][2]][k]>>]])

(* A template that uses what the generator supports is compiled, and its   *)
(* page shows exactly the literal text of the template, in its order, with *)
(* the output, sections and body in their places and none of the code,     *)
(* comments and directives.  A statement is taken to end with its line:    *)
(* the token after its last brace, or after the semicolon of a section, is *)
(* part of it and not shown.                                               *)
PageShowsText ==
    page.ok => /\ phase \notin {"refused", "broken"}
               /\ phase \in {"done", "left"} => Letters(out) = Letters(page.shown[cond])

(* Parsing, generating and rendering a template come to an end.            *)
PageIsSettled == <>(phase \in {"done", "left", "refused", "broken"})
=============================================================================
