------------------------------ MODULE ViewBase ------------------------------
(***************************************************************************)
(* The buffers a view writes its page to (view_base.h).  Text is collected *)
(* in a stack of buffers, each for one language; committing a buffer runs  *)
(* the language's parser over it and adds it to the buffer below, to the   *)
(* page if there is none, or to the sections of the response if the        *)
(* language is the name of a section ("$...").                             *)
(*                                                                         *)
(* Text is a sequence of pairs <<how, what>>: a piece of the page and the  *)
(* way it got there.                                                       *)
(***************************************************************************)
EXTENDS Integers, Sequences, SequencesExt

CONSTANTS
    Parsers,        \* languages a parser is registered for
    Sections        \* languages that name a section

VARIABLES
    bufs,           \* _buffers and _buffer_lngs
    out,            \* _out_buffer
    res,            \* what the views of one response share
    fault           \* the call that failed: "top" of an empty stack, or "language"
vvars == <<bufs, out, res, fault>>

Buffer == [lang : STRING, text : Seq(STRING \X STRING)]

NoSections == [sections |-> <<>>, scripts |-> <<>>, styles |-> <<>>]

BufInit == bufs = <<>> /\ out = <<>> /\ fault = ""

(* view_engine::parse_language: the parser of a language rewrites the text *)
(* as a whole.                                                             *)
ParseLanguage(lang, text) ==
    IF lang \in Parsers
    THEN <<<<"parsed", lang>>>> \o text \o <<<<"end", lang>>>>
    ELSE text

(* _push_buffer.                                                           *)
BeginWrite(lang) ==
    /\ bufs' = Append(bufs, [lang |-> lang, text |-> <<>>])
    /\ UNCHANGED <<out, res, fault>>

(* _append_buffer; top() of an empty stack is undefined.                   *)
Write(text) ==
    /\ IF bufs = <<>>
       THEN fault' = "top" /\ UNCHANGED bufs
       ELSE bufs' = [bufs EXCEPT ![Len(bufs)].text = @ \o text] /\ UNCHANGED fault
    /\ UNCHANGED <<out, res>>

(* add_section: sections is a sequence of <<name, text>> without two       *)
(* entries of one name.                                                    *)
SectionExists(name) == \E i \in DOMAIN res.sections : res.sections[i][1] = name

SectionText(name) ==
    IF SectionExists(name)
    THEN res.sections[CHOOSE i \in DOMAIN res.sections : res.sections[i][1] = name][2]
    ELSE <<>>

AddSection(name, text) ==
    IF SectionExists(name)
    THEN [i \in DOMAIN res.sections |->
            IF res.sections[i][1] = name THEN <<name, text>> ELSE res.sections[i]]
    ELSE Append(res.sections, <<name, text>>)

(* _pop_buffer.                                                            *)
CommitWrite(lang) ==
    CASE bufs = <<>> -> fault' = "top" /\ UNCHANGED <<bufs, out, res>>
      [] bufs # <<>> /\ Last(bufs).lang # lang ->
           fault' = "language" /\ UNCHANGED <<bufs, out, res>>
      [] OTHER ->
           LET section == lang \in Sections
               text == ParseLanguage(IF section THEN "html" ELSE lang, Last(bufs).text)
               below == Front(bufs)
           IN /\ res' = IF section
                        THEN [res EXCEPT !.sections = AddSection(lang, text)] ELSE res
              /\ out' = IF ~section /\ below = <<>> THEN out \o text ELSE out
              /\ bufs' = IF ~section /\ below # <<>>
                         THEN [below EXCEPT ![Len(below)].text = @ \o text]
                         ELSE below
              /\ UNCHANGED fault

(* begin_write("html"), write_raw, commit_write("html"): write_body,       *)
(* write_section, write_scripts and write_styles.                          *)
WriteWhole(text) ==
    LET html == ParseLanguage("html", text)
    IN /\ IF bufs = <<>>
          THEN out' = out \o html /\ UNCHANGED bufs
          ELSE bufs' = [bufs EXCEPT ![Len(bufs)].text = @ \o html] /\ UNCHANGED out
       /\ UNCHANGED <<res, fault>>

WriteSection(name) == WriteWhole(SectionText(name))
WriteScripts == WriteWhole(res.scripts)
WriteStyles == WriteWhole(res.styles)

AddScript(s) ==
    /\ res' = [res EXCEPT !.scripts = Append(@, <<"script", s>>)]
    /\ UNCHANGED <<bufs, out, fault>>
AddStyle(s) ==
    /\ res' = [res EXCEPT !.styles = Append(@, <<"style", s>>)]
    /\ UNCHANGED <<bufs, out, fault>>

=============================================================================
