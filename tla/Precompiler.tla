----------------------------- MODULE Precompiler -----------------------------
(***************************************************************************)
(* The fanjet tool (fanjet-precompiler/main.cpp): it reads every template  *)
(* of a directory, generates two headers for each, NAME-inc.h and NAME.h,  *)
(* and an include file that lists the views.  Templates are edited while   *)
(* it is not looking, or while it is; a run may be killed at any moment.   *)
(*                                                                         *)
(* A template's text is its version, and so are the headers made of it:    *)
(* that they also hold the class names of the templates it inherits from   *)
(* and the text of the files it imports is left out, since the tool never  *)
(* looks at the times of those.  Times are whole seconds, as st_mtime      *)
(* gives them; several things happen in one second.                        *)
(***************************************************************************)
EXTENDS Integers, Sequences

CONSTANTS
    Files,          \* the templates
    Dir(_),         \* a template's path: the names before its own, "" for "/"
    Name(_),        \* its name
    Inherits(_),    \* the paths of its @inherits directive
    MaxTime,        \* bound on the clock
    MaxEdits        \* bound on the edits

ASSUME BoundsAssumption == MaxTime \in Nat /\ MaxEdits \in Nat

VARIABLES
    now,            \* the clock
    edits,          \* edits made so far; the version the last one wrote
    src,            \* the templates: version (0: no file), mtime, is it accepted
    inc,            \* NAME-inc.h: version (0: incomplete), mtime (0: no file)
    hdr,            \* NAME.h: version (0: missing or incomplete)
    listed,         \* the views of the include file
    proc,           \* what the tool is doing; "done": it exited with 0, and no edit since
    todo,           \* templates left to read, or to save
    doc,            \* the version of each template read by this run, 0: not read
    skip_gen,       \* templates this run does not save
    cur,            \* the template whose headers are being saved, and how far
    disturbed       \* templates touched behind the back of a run, see below
fvars == <<now, edits, src, inc, hdr, listed, proc, todo, doc, skip_gen, cur, disturbed>>

Running == proc \in {"reading", "saving"}
NoFile == [file |-> "", part |-> ""]
Exists(f) == src[f].ver # 0
Docs == {f \in Files : doc[f] # 0}

FilesInit ==
    /\ now = 1 /\ edits = 1
    /\ \E there \in SUBSET Files :
         src = [f \in Files |-> [ver |-> IF f \in there THEN 1 ELSE 0, mtime |-> 1, ok |-> TRUE]]
    /\ inc = [f \in Files |-> [ver |-> 0, mtime |-> 0]]
    /\ hdr = [f \in Files |-> 0]
    /\ listed = {} /\ proc = "idle" /\ todo = {}
    /\ doc = [f \in Files |-> 0]
    /\ skip_gen = {} /\ cur = NoFile /\ disturbed = {}

(***************************************************************************)
(* The world around the tool.                                              *)
(***************************************************************************)
Tick ==
    /\ now < MaxTime
    /\ now' = now + 1
    /\ UNCHANGED <<edits, src, inc, hdr, listed, proc, todo, doc, skip_gen, cur, disturbed>>

(* An edit a run may miss: the tool has read the template already, or has  *)
(* listed the directory without it.                                        *)
Missed(f) == Running /\ ~(proc = "reading" /\ f \in todo)

Edit(f, ok) ==
    /\ edits < MaxEdits
    /\ edits' = edits + 1
    /\ src' = [src EXCEPT ![f] = [ver |-> edits + 1, mtime |-> now, ok |-> ok]]
    /\ disturbed' = IF Missed(f) THEN disturbed \cup {f} ELSE disturbed \ {f}
    /\ proc' = IF proc = "done" THEN "idle" ELSE proc
    /\ UNCHANGED <<now, inc, hdr, listed, todo, doc, skip_gen, cur>>

Delete(f) ==
    /\ ~Running
    /\ Exists(f)
    /\ src' = [src EXCEPT ![f].ver = 0]
    /\ disturbed' = disturbed \ {f}
    /\ proc' = "idle"
    /\ UNCHANGED <<now, edits, inc, hdr, listed, todo, doc, skip_gen, cur>>

(* The tool is killed; what it was writing stays as it is.                 *)
Crash ==
    /\ Running
    /\ proc' = "idle"
    /\ disturbed' = IF cur = NoFile THEN disturbed ELSE disturbed \cup {cur.file}
    /\ todo' = {} /\ cur' = NoFile
    /\ doc' = [f \in Files |-> 0] /\ skip_gen' = {}
    /\ UNCHANGED <<now, edits, src, inc, hdr, listed>>

(***************************************************************************)
(* The tool.                                                               *)
(***************************************************************************)
(* main up to march_dir: the templates there are.                          *)
Start ==
    /\ ~Running
    /\ proc' = "reading"
    /\ todo' = {f \in Files : Exists(f)}
    /\ doc' = [f \in Files |-> 0] /\ skip_gen' = {}
    /\ UNCHANGED <<now, edits, src, inc, hdr, listed, cur, disturbed>>

(* The run ends without having written anything.                           *)
Fail ==
    /\ proc' = "idle"
    /\ todo' = {} /\ doc' = [f \in Files |-> 0] /\ skip_gen' = {}
    /\ UNCHANGED <<now, edits, src, inc, hdr, listed, cur, disturbed>>

(* difftime(src_stat.st_mtime, dest_stat.st_mtime) < 0, if there is a      *)
(* NAME-inc.h.                                                             *)
IsUpToDateOrSameSecond(f) == inc[f].mtime # 0 /\ src[f].mtime <= inc[f].mtime
IsUpToDate(f) == inc[f].mtime # 0 /\ src[f].mtime < inc[f].mtime

(* process_fanjet_file: generate_doc reads the template and refuses it or  *)
(* makes a document of it.                                                 *)
GenerateDoc(f) == doc' = [doc EXCEPT ![f] = src[f].ver]

Process(f) ==
    /\ proc = "reading" /\ f \in todo
    /\ src[f].ok
    /\ GenerateDoc(f)
    /\ skip_gen' = IF IsUpToDate(f) THEN skip_gen \cup {f} ELSE skip_gen
    /\ todo' = todo \ {f}
    /\ UNCHANGED <<now, edits, src, inc, hdr, listed, proc, cur, disturbed>>

Reject(f) ==
    /\ proc = "reading" /\ f \in todo
    /\ ~src[f].ok
    /\ Fail

(* find: the documents an inherited path may stand for, looked for in the  *)
(* directory and in its special directories, then in the ones above.       *)
InheritDirs == {<<>>, <<"partials">>, <<"layouts">>, <<"helpers">>}

FindAt(parts, i) ==
    {d \in Docs : /\ Name(d) = parts[Len(parts)]
                  /\ \E k \in InheritDirs : Dir(d) = SubSeq(parts, 1, i) \o k}

Find(f, path) ==
    LET parts == Dir(f) \o path
        levels == {i \in 0..(Len(parts) - 1) : FindAt(parts, i) # {}}
    IN UNION {FindAt(parts, i) : i \in {l \in levels : \A k \in levels : k <= l}}

Resolved == \A f \in Docs : \A path \in Inherits(f) : Find(f, path) # {}

(* generate_code, then the include file, which is written first.           *)
Generate ==
    /\ proc = "reading" /\ todo = {}
    /\ Resolved
    /\ listed' = Docs
    /\ proc' = "saving"
    /\ todo' = Docs \ skip_gen
    /\ UNCHANGED <<now, edits, src, inc, hdr, doc, skip_gen, cur, disturbed>>

GenerateFails ==
    /\ proc = "reading" /\ todo = {}
    /\ ~Resolved
    /\ Fail

(* save_docs: NAME-inc.h, then NAME.h; each is opened, then written.  The  *)
(* state of the stream is never looked at: a header that was not written   *)
(* to its end is left so, and the run goes on.                             *)
OpenInc(f) ==
    /\ proc = "saving" /\ cur = NoFile /\ f \in todo
    /\ inc' = [inc EXCEPT ![f] = [ver |-> 0, mtime |-> now]]
    /\ todo' = todo \ {f}
    /\ cur' = [file |-> f, part |-> "inc"]
    /\ UNCHANGED <<now, edits, src, hdr, listed, proc, doc, skip_gen, disturbed>>

WriteInc(f) ==
    /\ cur = [file |-> f, part |-> "inc"]
    /\ inc' = [inc EXCEPT ![f] = [ver |-> doc[f], mtime |-> now]]
    /\ cur' = [file |-> f, part |-> "h"]
    /\ UNCHANGED <<now, edits, src, hdr, listed, proc, todo, doc, skip_gen, disturbed>>

OpenHeader(f) ==
    /\ cur = [file |-> f, part |-> "h"]
    /\ hdr' = [hdr EXCEPT ![f] = 0]
    /\ cur' = [file |-> f, part |-> "h open"]
    /\ UNCHANGED <<now, edits, src, inc, listed, proc, todo, doc, skip_gen, disturbed>>

WriteHeader(f) ==
    /\ cur = [file |-> f, part |-> "h open"]
    /\ hdr' = [hdr EXCEPT ![f] = doc[f]]
    /\ cur' = NoFile
    /\ disturbed' = IF doc[f] = src[f].ver /\ inc[f].ver = doc[f]
                    THEN disturbed \ {f} ELSE disturbed
    /\ UNCHANGED <<now, edits, src, inc, listed, proc, todo, doc, skip_gen>>

WriteFails(f) ==
    /\ cur.file = f /\ cur.part \in {"inc", "h open"}
    /\ cur' = IF cur.part = "inc" THEN [file |-> f, part |-> "h"] ELSE NoFile
    /\ disturbed' = disturbed \cup {f}
    /\ UNCHANGED <<now, edits, src, inc, hdr, listed, proc, todo, doc, skip_gen>>

Exit ==
    /\ proc = "saving" /\ cur = NoFile /\ todo = {}
    /\ proc' = "done"
    /\ doc' = [f \in Files |-> 0] /\ skip_gen' = {}
    /\ UNCHANGED <<now, edits, src, inc, hdr, listed, todo, cur, disturbed>>

FilesNext ==
    \/ Tick \/ Crash
    \/ \E f \in Files, ok \in BOOLEAN : Edit(f, ok)
    \/ \E f \in Files : Delete(f)
    \/ Start \/ Generate \/ GenerateFails \/ Exit
    \/ \E f \in Files : \/ Process(f) \/ Reject(f)
                        \/ OpenInc(f) \/ WriteInc(f) \/ OpenHeader(f) \/ WriteHeader(f)
                        \/ WriteFails(f)

FilesSpec == FilesInit /\ [][FilesNext]_fvars

(***************************************************************************)
(* Properties                                                              *)
(***************************************************************************)
FilesTypeOK ==
    /\ now \in Nat /\ edits \in Nat
    /\ src \in [Files -> [ver : Nat, mtime : Nat, ok : BOOLEAN]]
    /\ inc \in [Files -> [ver : Nat, mtime : Nat]]
    /\ hdr \in [Files -> Nat]
    /\ listed \subseteq Files /\ todo \subseteq Files
    /\ skip_gen \subseteq Files /\ disturbed \subseteq Files
    /\ proc \in {"idle", "reading", "saving", "done"}
    /\ doc \in [Files -> Nat]
    /\ \/ cur = NoFile
       \/ cur \in [file : Files, part : {"inc", "h", "h open"}]

(* What the tool leaves behind: once it has exited with 0 and until the    *)
(* next edit, the include file lists every template there is, and the      *)
(* headers of each are those of its present text, although a template is   *)
(* skipped when its NAME-inc.h is newer (main.cpp).  The exceptions are    *)
(* the templates edited while a run was under way that had already read    *)
(* them, the one whose headers were being written when a run was killed,   *)
(* and those whose headers could not be written to the end: NAME-inc.h is  *)
(* then newer than the template, and no later run looks at it until the    *)
(* template is edited again.                                               *)
Fresh(f) == f \in listed /\ inc[f].ver = src[f].ver /\ hdr[f] = src[f].ver

FreshUnlessDisturbed ==
    proc = "done" => \A f \in Files : Exists(f) /\ f \notin disturbed => Fresh(f)

=============================================================================
