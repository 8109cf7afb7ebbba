-------------------------- MODULE PrecompilerProofs --------------------------
(***************************************************************************)
(* A run of the precompiler that exits with 0 leaves the headers of every  *)
(* template nobody touched behind its back as they should be, for any set  *)
(* of templates, however often they are edited and runs are killed.        *)
(***************************************************************************)
EXTENDS Precompiler, TLAPS

BeingSaved(f) == cur # NoFile /\ cur.file = f
Saved(f) == inc[f].ver = src[f].ver /\ hdr[f] = src[f].ver

(* What is known of a template that was not disturbed: a NAME-inc.h that   *)
(* is newer than it tells the truth; a run has read it, or will; and once  *)
(* the run is past it, its headers are saved.                              *)
Honest(f) ==
    /\ ~BeingSaved(f) /\ IsUpToDate(f) => Saved(f)
    /\ proc = "reading" => f \in todo \/ doc[f] = src[f].ver
    /\ proc = "reading" /\ f \in skip_gen => IsUpToDate(f)
    /\ proc = "saving" => doc[f] = src[f].ver
    /\ proc = "saving" /\ f \notin todo /\ ~BeingSaved(f) => Saved(f)
    /\ proc = "done" => Fresh(f)

FilesInv ==
    /\ FilesTypeOK
    /\ \A f \in Files : src[f].mtime <= now /\ inc[f].mtime <= now
    /\ proc # "saving" => cur = NoFile
    /\ proc = "saving" => listed = Docs
    /\ proc = "reading" => skip_gen \cap todo = {}
    /\ \A f \in Files : BeingSaved(f) =>
         f \notin todo /\ (cur.part # "inc" /\ f \notin disturbed => inc[f].ver = doc[f])
    /\ \A f \in Files : Exists(f) /\ f \notin disturbed => Honest(f)

(* Before the first run there are no headers at all.                       *)
LEMMA FilesInitial == FilesInit => FilesInv
  <1> SUFFICES ASSUME FilesInit PROVE FilesInv
    OBVIOUS
  <1>1. PICK there \in SUBSET Files :
          src = [f \in Files |-> [ver |-> IF f \in there THEN 1 ELSE 0, mtime |-> 1, ok |-> TRUE]]
    BY DEF FilesInit
  <1>2. FilesTypeOK
    BY <1>1 DEF FilesInit, FilesTypeOK
  <1>3. \A f \in Files : src[f].mtime <= now /\ inc[f].mtime <= now /\ ~IsUpToDate(f)
    <2>1. \A f \in Files : src[f].mtime = 1 /\ inc[f].mtime = 0
      BY <1>1 DEF FilesInit
    <2>2. now = 1
      BY DEF FilesInit
    <2> TAKE f \in Files
    <2>3. src[f].mtime = 1 /\ inc[f].mtime = 0
      BY <2>1
    <2>4. ~IsUpToDate(f)
      BY <2>3 DEF IsUpToDate
    <2>5. src[f].mtime <= now /\ inc[f].mtime <= now
      BY <2>2, <2>3
    <2> QED
      BY <2>4, <2>5
  <1> QED
    BY <1>2, <1>3 DEF FilesInit, FilesInv, Honest, BeingSaved

(* The clock.                                                              *)
LEMMA TickKeeps == ASSUME FilesInv, Tick PROVE FilesInv'
  <1>1. /\ now \in Nat /\ now' = now + 1
        /\ UNCHANGED <<edits, src, inc, hdr, listed, proc, todo, doc, skip_gen, cur, disturbed>>
    BY DEF Tick, FilesInv, FilesTypeOK
  <1>2. FilesTypeOK'
    <2>1. now' \in Nat
      BY <1>1
    <2> QED
      BY <1>1, <2>1 DEF FilesInv, FilesTypeOK
  <1>3. \A f \in Files : src[f].mtime \in Nat /\ inc[f].mtime \in Nat
    BY DEF FilesInv, FilesTypeOK
  <1>4. \A f \in Files : src'[f].mtime <= now' /\ inc'[f].mtime <= now'
    BY <1>1, <1>3 DEF FilesInv
  <1>5. \A f \in Files : (Honest(f) <=> Honest(f)') /\ (Exists(f) <=> Exists(f)')
    BY <1>1 DEF Honest, BeingSaved, Saved, IsUpToDate, Fresh, Exists
  <1> QED
    BY <1>1, <1>2, <1>4, <1>5 DEF FilesInv, BeingSaved, Docs

(* An edit makes the template as new as the clock, so that no header       *)
(* counts as up to date; a run that is past it is told by disturbed.       *)
LEMMA EditKeeps ==
  ASSUME FilesInv, NEW e \in Files, NEW ok \in BOOLEAN, Edit(e, ok)
  PROVE  FilesInv'
  <1>0. /\ now \in Nat /\ edits \in Nat /\ now' = now /\ inc' = inc
        /\ src'[e] = [ver |-> edits + 1, mtime |-> now, ok |-> ok]
        /\ \A f \in Files \ {e} : src'[f] = src[f]
        /\ \A f \in Files : src[f].mtime \in Nat /\ inc[f].mtime \in Nat
    BY DEF FilesInv, FilesTypeOK, Edit
  <1>1. FilesTypeOK'
    <2>1. src' \in [Files -> [ver : Nat, mtime : Nat, ok : BOOLEAN]]
      <3>1. [ver |-> edits + 1, mtime |-> now, ok |-> ok] \in [ver : Nat, mtime : Nat, ok : BOOLEAN]
        BY <1>0
      <3> QED
        BY <3>1 DEF FilesInv, FilesTypeOK, Edit
    <2>2. disturbed' \subseteq Files /\ proc' \in {"idle", "reading", "saving", "done"}
      BY DEF FilesInv, FilesTypeOK, Edit
    <2>3. edits' \in Nat
      BY <1>0 DEF Edit
    <2> QED
      BY <2>1, <2>2, <2>3 DEF FilesInv, FilesTypeOK, Edit
  <1>2. \A f \in Files : src'[f].mtime <= now' /\ inc'[f].mtime <= now'
    <2> TAKE f \in Files
    <2>1. src[f].mtime <= now /\ inc[f].mtime <= now
      BY DEF FilesInv
    <2>2. src'[e].mtime = now
      BY <1>0
    <2>3. CASE f = e
      BY <2>1, <2>2, <2>3, <1>0
    <2>4. CASE f # e
      BY <2>1, <2>4, <1>0
    <2> QED
      BY <2>3, <2>4
  <1>3. ASSUME NEW f \in Files, Exists(f)', f \notin disturbed'
        PROVE  Honest(f)'
    <2>1. CASE f = e
      <3>1. ~IsUpToDate(f)'
        <4>1. src'[f].mtime = now /\ inc'[f].mtime = inc[f].mtime /\ inc[f].mtime <= now
          BY <2>1, <1>0 DEF FilesInv
        <4> QED
          BY <4>1, <1>0 DEF IsUpToDate
      <3>2. ~Missed(e) /\ proc' # "done"
        BY <2>1, <1>3 DEF Edit, FilesInv, FilesTypeOK
      <3>3. proc' # "saving" /\ (proc' = "reading" => proc = "reading" /\ e \in todo)
        BY <3>2 DEF Missed, Running, Edit
      <3>4. proc' = "reading" => f \in todo' /\ f \notin skip_gen'
        BY <3>3, <2>1 DEF FilesInv, Edit
      <3> QED
        BY <3>1, <3>2, <3>3, <3>4 DEF Honest
    <2>2. CASE f # e
      <3>1. src'[f] = src[f] /\ f \notin disturbed /\ proc' # "done"
        BY <2>2, <1>3 DEF Edit, FilesInv, FilesTypeOK
      <3>2. Exists(f) /\ Honest(f)
        BY <3>1, <1>3 DEF Exists, FilesInv
      <3>3. /\ UNCHANGED <<inc, hdr, todo, doc, skip_gen, cur, src[f]>>
            /\ proc' \in {"reading", "saving"} => proc' = proc
        BY <3>1 DEF Edit
      <3> QED
        BY <3>1, <3>2, <3>3 DEF Honest, BeingSaved, IsUpToDate, Saved
    <2> QED
      BY <2>1, <2>2
  <1>4. /\ proc' # "saving" => cur' = NoFile
        /\ proc' = "saving" => listed' = Docs'
        /\ proc' = "reading" => skip_gen' \cap todo' = {}
        /\ \A f \in Files : BeingSaved(f)' =>
             f \notin todo' /\ (cur'.part # "inc" /\ f \notin disturbed' => inc'[f].ver = doc'[f])
    <2>1. /\ UNCHANGED <<inc, doc, cur, todo, skip_gen, listed>>
          /\ proc' \in {"reading", "saving"} => proc' = proc
          /\ proc' = "saving" => disturbed \subseteq disturbed'
      BY DEF Edit, Missed, Running
    <2>2. cur # NoFile => proc' = "saving"
      BY DEF FilesInv, Edit
    <2>3. ASSUME NEW f \in Files, BeingSaved(f)'
          PROVE  f \notin todo' /\ (cur'.part # "inc" /\ f \notin disturbed' => inc'[f].ver = doc'[f])
      <3>1. BeingSaved(f) /\ proc' = "saving"
        BY <2>1, <2>2, <2>3 DEF BeingSaved
      <3> QED
        BY <2>1, <3>1 DEF FilesInv
    <2>4. /\ proc' # "saving" => cur' = NoFile
          /\ proc' = "saving" => listed' = Docs'
          /\ proc' = "reading" => skip_gen' \cap todo' = {}
      BY <2>1, <2>2 DEF FilesInv, Docs
    <2> QED
      BY <2>3, <2>4
  <1> QED
    BY <1>1, <1>2, <1>3, <1>4 DEF FilesInv

(* A template is only removed between runs.                                *)
LEMMA DeleteKeeps ==
  ASSUME FilesInv, NEW e \in Files, Delete(e)
  PROVE  FilesInv'
  <1>0. /\ now' = now /\ inc' = inc /\ src'[e].ver = 0
        /\ \A f \in Files : src'[f].mtime = src[f].mtime
        /\ \A f \in Files \ {e} : src'[f] = src[f]
    <2>1. src \in [Files -> [ver : Nat, mtime : Nat, ok : BOOLEAN]]
      BY DEF FilesInv, FilesTypeOK
    <2>2. src' = [src EXCEPT ![e].ver = 0]
      BY DEF Delete
    <2>3. src'[e].ver = 0 /\ src'[e].mtime = src[e].mtime
      BY <2>1, <2>2
    <2>4. \A f \in Files \ {e} : src'[f] = src[f]
      BY <2>1, <2>2
    <2> QED
      BY <2>3, <2>4 DEF Delete
  <1>1. FilesTypeOK'
    <2>1. src \in [Files -> [ver : Nat, mtime : Nat, ok : BOOLEAN]]
      BY DEF FilesInv, FilesTypeOK
    <2>2. src' = [src EXCEPT ![e].ver = 0]
      BY DEF Delete
    <2>3. src' \in [Files -> [ver : Nat, mtime : Nat, ok : BOOLEAN]]
      BY <2>1, <2>2
    <2>4. /\ disturbed' \subseteq Files /\ proc' = "idle"
          /\ UNCHANGED <<now, edits, inc, hdr, listed, todo, doc, skip_gen, cur>>
      BY DEF FilesInv, FilesTypeOK, Delete
    <2> QED
      BY <2>3, <2>4 DEF FilesInv, FilesTypeOK
  <1>2. \A f \in Files : src'[f].mtime <= now' /\ inc'[f].mtime <= now'
    BY <1>0 DEF FilesInv
  <1>3. ASSUME NEW f \in Files, Exists(f)', f \notin disturbed'
        PROVE  Honest(f)'
    <2>1. f # e
      BY <1>0, <1>3 DEF Exists
    <2>2. src'[f] = src[f] /\ f \notin disturbed /\ proc' = "idle"
      BY <2>1, <1>3 DEF Delete, FilesInv, FilesTypeOK
    <2>3. Exists(f) /\ Honest(f)
      BY <2>2, <1>3 DEF Exists, FilesInv
    <2> QED
      BY <2>2, <2>3 DEF Honest, BeingSaved, IsUpToDate, Saved, Delete
  <1>4. /\ cur' = NoFile /\ proc' = "idle"
    BY DEF FilesInv, FilesTypeOK, Delete, Running
  <1> QED
    BY <1>1, <1>2, <1>3, <1>4 DEF FilesInv, BeingSaved

(* A run that is killed leaves one template half saved at most.            *)
LEMMA CrashKeeps == ASSUME FilesInv, Crash PROVE FilesInv'
  <1>1. FilesTypeOK'
    BY DEF FilesInv, FilesTypeOK, Crash, NoFile
  <1>3. ASSUME NEW f \in Files, Exists(f)', f \notin disturbed'
        PROVE  Honest(f)'
    <2>1. ~BeingSaved(f) /\ f \notin disturbed
      BY <1>3 DEF Crash, BeingSaved
    <2>2. Honest(f)
      BY <2>1, <1>3 DEF FilesInv, Exists, Crash
    <2> QED
      BY <2>1, <2>2 DEF Honest, IsUpToDate, Saved, Crash
  <1>4. cur' = NoFile /\ proc' = "idle" /\ UNCHANGED <<src, inc, now>>
    BY DEF Crash
  <1> QED
    BY <1>1, <1>3, <1>4 DEF FilesInv, BeingSaved

(* A new run has all templates still to read.                              *)
LEMMA StartKeeps == ASSUME FilesInv, Start PROVE FilesInv'
  <1>1. FilesTypeOK'
    BY DEF FilesInv, FilesTypeOK, Start
  <1>2. cur = NoFile /\ cur' = NoFile /\ proc' = "reading" /\ UNCHANGED <<src, inc, hdr, now, disturbed>>
    BY DEF FilesInv, Start, Running
  <1>3. ASSUME NEW f \in Files, Exists(f)', f \notin disturbed'
        PROVE  Honest(f)'
    <2>1. f \in todo' /\ f \notin skip_gen'
      BY <1>3 DEF Start, Exists
    <2>2. Honest(f)
      BY <1>2, <1>3 DEF FilesInv, Exists
    <2> QED
      BY <1>2, <2>1, <2>2 DEF Honest, IsUpToDate, Saved, BeingSaved
  <1>4. skip_gen' = {}
    BY DEF Start
  <1> QED
    BY <1>1, <1>2, <1>3, <1>4 DEF FilesInv, BeingSaved

(* A run that fails while reading has written nothing.                     *)
LEMMA FailKeeps == ASSUME FilesInv, proc = "reading", Fail PROVE FilesInv'
  <1>1. FilesTypeOK'
    BY DEF FilesInv, FilesTypeOK, Fail
  <1>2. cur = NoFile /\ cur' = NoFile /\ proc' = "idle" /\ UNCHANGED <<src, inc, hdr, now, disturbed>>
    BY DEF FilesInv, Fail
  <1>3. ASSUME NEW f \in Files, Exists(f)', f \notin disturbed'
        PROVE  Honest(f)'
    <2>1. Honest(f)
      BY <1>2, <1>3 DEF FilesInv, Exists
    <2> QED
      BY <1>2, <2>1 DEF Honest, IsUpToDate, Saved, BeingSaved
  <1> QED
    BY <1>1, <1>2, <1>3 DEF FilesInv, BeingSaved

(* A template is read and, if its NAME-inc.h is newer, skipped.            *)
LEMMA ProcessKeeps ==
  ASSUME FilesInv, NEW e \in Files, Process(e)
  PROVE  FilesInv'
  <1>0. /\ proc = "reading" /\ proc' = "reading" /\ cur = NoFile /\ cur' = NoFile
        /\ e \in todo /\ todo' = todo \ {e}
        /\ UNCHANGED <<now, src, inc, hdr, listed, disturbed>>
        /\ skip_gen' = IF IsUpToDate(e) THEN skip_gen \cup {e} ELSE skip_gen
    BY DEF FilesInv, Process
  <1>1. src[e].ver \in Nat /\ doc'[e] = src[e].ver /\ \A f \in Files \ {e} : doc'[f] = doc[f]
    BY DEF FilesInv, FilesTypeOK, Process, GenerateDoc
  <1>2. FilesTypeOK'
    <2>1. doc' \in [Files -> Nat]
      BY <1>1 DEF FilesInv, FilesTypeOK, Process, GenerateDoc
    <2> QED
      BY <2>1, <1>0 DEF FilesInv, FilesTypeOK, Process
  <1>3. ASSUME NEW f \in Files, Exists(f)', f \notin disturbed'
        PROVE  Honest(f)'
    <2>1. Honest(f) /\ (IsUpToDate(f) <=> IsUpToDate(f)') /\ (Saved(f) <=> Saved(f)')
      BY <1>0, <1>3 DEF FilesInv, Exists, IsUpToDate, Saved
    <2>2. f \in todo' \/ doc'[f] = src'[f].ver
      BY <1>0, <1>1, <2>1 DEF Honest
    <2>3. f \in skip_gen' => IsUpToDate(f)
      BY <1>0, <2>1 DEF Honest
    <2> QED
      BY <1>0, <2>1, <2>2, <2>3 DEF Honest, BeingSaved
  <1> QED
    BY <1>0, <1>2, <1>3 DEF FilesInv, BeingSaved

(* All are read: those that will not be saved were up to date.             *)
LEMMA GenerateKeeps == ASSUME FilesInv, Generate PROVE FilesInv'
  <1>0. /\ proc = "reading" /\ proc' = "saving" /\ cur = NoFile /\ cur' = NoFile
        /\ todo = {} /\ todo' = Docs \ skip_gen /\ listed' = Docs
        /\ UNCHANGED <<now, edits, src, inc, hdr, doc, skip_gen, disturbed>>
    BY DEF FilesInv, Generate
  <1>1. Docs' = Docs /\ Docs \subseteq Files
    BY <1>0 DEF Docs
  <1>2. FilesTypeOK'
    BY <1>0, <1>1 DEF FilesInv, FilesTypeOK
  <1>3. ASSUME NEW f \in Files, Exists(f)', f \notin disturbed'
        PROVE  Honest(f)'
    <2>1. Honest(f) /\ (IsUpToDate(f) <=> IsUpToDate(f)') /\ (Saved(f) <=> Saved(f)')
      BY <1>0, <1>3 DEF FilesInv, Exists, IsUpToDate, Saved
    <2>2. doc[f] = src[f].ver /\ f \in Docs
      BY <1>0, <1>3, <2>1 DEF Honest, Docs, Exists
    <2>3. f \notin todo' => Saved(f)
      BY <1>0, <2>1, <2>2 DEF Honest, BeingSaved
    <2> QED
      BY <1>0, <2>1, <2>2, <2>3 DEF Honest, BeingSaved
  <1> QED
    BY <1>0, <1>1, <1>2, <1>3 DEF FilesInv, BeingSaved

(* NAME-inc.h is empty, and already newer than the template.               *)
LEMMA OpenIncKeeps ==
  ASSUME FilesInv, NEW e \in Files, OpenInc(e)
  PROVE  FilesInv'
  <1>0. /\ proc = "saving" /\ cur = NoFile /\ cur' = [file |-> e, part |-> "inc"]
        /\ now \in Nat /\ todo' = todo \ {e}
        /\ inc' = [inc EXCEPT ![e] = [ver |-> 0, mtime |-> now]]
        /\ UNCHANGED <<now, edits, src, hdr, listed, proc, doc, skip_gen, disturbed>>
    BY DEF FilesInv, FilesTypeOK, OpenInc
  <1>1. cur' # NoFile /\ cur'.file = e /\ cur'.part = "inc"
    BY <1>0 DEF NoFile
  <1>2. FilesTypeOK'
    <2>1. [ver |-> 0, mtime |-> now] \in [ver : Nat, mtime : Nat]
      BY <1>0
    <2>2. inc' \in [Files -> [ver : Nat, mtime : Nat]]
      BY <2>1, <1>0 DEF FilesInv, FilesTypeOK
    <2>3. cur' \in [file : Files, part : {"inc", "h", "h open"}]
      BY <1>0
    <2> QED
      BY <1>0, <2>2, <2>3 DEF FilesInv, FilesTypeOK
  <1>3. inc'[e].mtime = now /\ \A f \in Files \ {e} : inc'[f] = inc[f]
    BY <1>0 DEF FilesInv, FilesTypeOK
  <1>4. \A f \in Files : src'[f].mtime <= now' /\ inc'[f].mtime <= now'
    BY <1>0, <1>3 DEF FilesInv
  <1>5. ASSUME NEW f \in Files, Exists(f)', f \notin disturbed'
        PROVE  Honest(f)'
    <2>1. Honest(f) /\ ~BeingSaved(f)
      BY <1>0, <1>5 DEF FilesInv, Exists, BeingSaved
    <2>2. CASE f = e
      BY <2>1, <2>2, <1>0, <1>1 DEF Honest, BeingSaved
    <2>3. CASE f # e
      BY <2>1, <2>3, <1>0, <1>3 DEF Honest, BeingSaved, IsUpToDate, Saved
    <2> QED
      BY <2>2, <2>3
  <1>6. Docs' = Docs
    BY <1>0 DEF Docs
  <1> QED
    BY <1>0, <1>1, <1>2, <1>4, <1>5, <1>6 DEF FilesInv, BeingSaved

(* NAME-inc.h has the version this run has read.                           *)
LEMMA WriteIncKeeps ==
  ASSUME FilesInv, NEW e \in Files, WriteInc(e)
  PROVE  FilesInv'
  <1>0. /\ cur = [file |-> e, part |-> "inc"] /\ cur' = [file |-> e, part |-> "h"]
        /\ now \in Nat /\ doc[e] \in Nat
        /\ inc' = [inc EXCEPT ![e] = [ver |-> doc[e], mtime |-> now]]
        /\ UNCHANGED <<now, edits, src, hdr, listed, proc, todo, doc, skip_gen, disturbed>>
    BY DEF FilesInv, FilesTypeOK, WriteInc
  <1>1. /\ cur # NoFile /\ cur.file = e /\ proc = "saving" /\ e \notin todo
        /\ cur' # NoFile /\ cur'.file = e
    BY <1>0 DEF NoFile, FilesInv, BeingSaved
  <1>2. FilesTypeOK'
    <2>1. [ver |-> doc[e], mtime |-> now] \in [ver : Nat, mtime : Nat]
      BY <1>0
    <2>2. inc' \in [Files -> [ver : Nat, mtime : Nat]]
      BY <2>1, <1>0 DEF FilesInv, FilesTypeOK
    <2>3. cur' \in [file : Files, part : {"inc", "h", "h open"}]
      BY <1>0
    <2> QED
      BY <1>0, <2>2, <2>3 DEF FilesInv, FilesTypeOK
  <1>3. /\ inc'[e].mtime = now /\ inc'[e].ver = doc[e]
        /\ \A f \in Files \ {e} : inc'[f] = inc[f]
    BY <1>0 DEF FilesInv, FilesTypeOK
  <1>4. \A f \in Files : src'[f].mtime <= now' /\ inc'[f].mtime <= now'
    BY <1>0, <1>3 DEF FilesInv
  <1>5. ASSUME NEW f \in Files, Exists(f)', f \notin disturbed'
        PROVE  Honest(f)'
    <2>1. Honest(f)
      BY <1>0, <1>5 DEF FilesInv, Exists
    <2>2. CASE f = e
      BY <2>1, <2>2, <1>0, <1>1 DEF Honest, BeingSaved
    <2>3. CASE f # e
      BY <2>1, <2>3, <1>0, <1>1, <1>3 DEF Honest, BeingSaved, IsUpToDate, Saved
    <2> QED
      BY <2>2, <2>3
  <1>6. Docs' = Docs
    BY <1>0 DEF Docs
  <1> QED
    BY <1>0, <1>1, <1>2, <1>3, <1>4, <1>5, <1>6 DEF FilesInv, BeingSaved

(* NAME.h is empty.                                                        *)
LEMMA OpenHeaderKeeps ==
  ASSUME FilesInv, NEW e \in Files, OpenHeader(e)
  PROVE  FilesInv'
  <1>0. /\ cur = [file |-> e, part |-> "h"] /\ cur' = [file |-> e, part |-> "h open"]
        /\ hdr' = [hdr EXCEPT ![e] = 0]
        /\ UNCHANGED <<now, edits, src, inc, listed, proc, todo, doc, skip_gen, disturbed>>
    BY DEF OpenHeader
  <1>1. /\ cur # NoFile /\ cur.file = e /\ proc = "saving" /\ e \notin todo
        /\ cur' # NoFile /\ cur'.file = e /\ (e \notin disturbed => inc[e].ver = doc[e])
    BY <1>0 DEF NoFile, FilesInv, BeingSaved
  <1>2. FilesTypeOK'
    <2>1. hdr' \in [Files -> Nat] /\ cur' \in [file : Files, part : {"inc", "h", "h open"}]
      BY <1>0 DEF FilesInv, FilesTypeOK
    <2> QED
      BY <1>0, <2>1 DEF FilesInv, FilesTypeOK
  <1>3. \A f \in Files \ {e} : hdr'[f] = hdr[f]
    BY <1>0 DEF FilesInv, FilesTypeOK
  <1>5. ASSUME NEW f \in Files, Exists(f)', f \notin disturbed'
        PROVE  Honest(f)'
    <2>1. Honest(f)
      BY <1>0, <1>5 DEF FilesInv, Exists
    <2>2. CASE f = e
      BY <2>1, <2>2, <1>0, <1>1 DEF Honest, BeingSaved
    <2>3. CASE f # e
      BY <2>1, <2>3, <1>0, <1>1, <1>3 DEF Honest, BeingSaved, IsUpToDate, Saved
    <2> QED
      BY <2>2, <2>3
  <1>6. Docs' = Docs
    BY <1>0 DEF Docs
  <1> QED
    BY <1>0, <1>1, <1>2, <1>5, <1>6 DEF FilesInv, BeingSaved

(* NAME.h is complete: both headers have the version this run has read.    *)
LEMMA WriteHeaderKeeps ==
  ASSUME FilesInv, NEW e \in Files, WriteHeader(e)
  PROVE  FilesInv'
  <1>0. /\ cur = [file |-> e, part |-> "h open"] /\ cur' = NoFile
        /\ hdr' = [hdr EXCEPT ![e] = doc[e]]
        /\ disturbed' = IF doc[e] = src[e].ver /\ inc[e].ver = doc[e]
                        THEN disturbed \ {e} ELSE disturbed
        /\ UNCHANGED <<now, edits, src, inc, listed, proc, todo, doc, skip_gen>>
    BY DEF WriteHeader
  <1>1. /\ cur # NoFile /\ cur.file = e /\ proc = "saving" /\ e \notin todo
        /\ e \notin disturbed => inc[e].ver = doc[e]
    BY <1>0 DEF NoFile, FilesInv, BeingSaved
  <1>2. FilesTypeOK'
    <2>1. hdr' \in [Files -> Nat]
      BY <1>0 DEF FilesInv, FilesTypeOK
    <2> QED
      BY <1>0, <2>1 DEF FilesInv, FilesTypeOK
  <1>3. hdr'[e] = doc[e] /\ \A f \in Files \ {e} : hdr'[f] = hdr[f]
    BY <1>0 DEF FilesInv, FilesTypeOK
  <1>5. ASSUME NEW f \in Files, Exists(f)', f \notin disturbed'
        PROVE  Honest(f)'
    <2>1. CASE f = e
      <3>1. doc[e] = src[e].ver /\ inc[e].ver = doc[e]
        <4>1. CASE e \in disturbed
          BY <4>1, <2>1, <1>0, <1>5
        <4>2. CASE e \notin disturbed
          BY <4>2, <2>1, <1>0, <1>1, <1>5 DEF FilesInv, Exists, Honest
        <4> QED
          BY <4>1, <4>2
      <3>2. Saved(f)'
        BY <3>1, <2>1, <1>0, <1>1, <1>3 DEF Saved
      <3> QED
        BY <3>1, <3>2, <2>1, <1>0, <1>1 DEF Honest
    <2>2. CASE f # e
      <3>1. Honest(f)
        BY <2>2, <1>0, <1>5 DEF FilesInv, Exists
      <3> QED
        BY <3>1, <2>2, <1>0, <1>1, <1>3 DEF Honest, BeingSaved, IsUpToDate, Saved
    <2> QED
      BY <2>1, <2>2
  <1>6. Docs' = Docs
    BY <1>0 DEF Docs
  <1> QED
    BY <1>0, <1>1, <1>2, <1>5, <1>6 DEF FilesInv, BeingSaved

(* A header that is not written to its end: the template is disturbed.     *)
LEMMA WriteFailsKeeps ==
  ASSUME FilesInv, NEW e \in Files, WriteFails(e)
  PROVE  FilesInv'
  <1>0. /\ cur.file = e /\ cur.part \in {"inc", "h open"} /\ cur # NoFile
        /\ disturbed' = disturbed \cup {e}
        /\ cur' = IF cur.part = "inc" THEN [file |-> e, part |-> "h"] ELSE NoFile
        /\ UNCHANGED <<now, edits, src, inc, hdr, listed, proc, todo, doc, skip_gen>>
    <2>1. NoFile.part \notin {"inc", "h open"}
      BY DEF NoFile
    <2> QED
      BY <2>1 DEF WriteFails
  <1>1. proc = "saving" /\ e \notin todo
    BY <1>0 DEF FilesInv, BeingSaved
  <1>2. FilesTypeOK'
    BY <1>0 DEF FilesInv, FilesTypeOK
  <1>3. ASSUME NEW f \in Files, Exists(f)', f \notin disturbed'
        PROVE  Honest(f)'
    <2>1. f # e /\ Honest(f)
      BY <1>0, <1>3 DEF FilesInv, Exists
    <2>2. ~BeingSaved(f) /\ ~BeingSaved(f)'
      BY <2>1, <1>0 DEF BeingSaved
    <2>3. (IsUpToDate(f) <=> IsUpToDate(f)') /\ (Saved(f) <=> Saved(f)') /\ (Fresh(f) <=> Fresh(f)')
      BY <1>0 DEF IsUpToDate, Saved, Fresh
    <2> QED
      BY <2>1, <2>2, <2>3, <1>0 DEF Honest
  <1>4. ASSUME NEW f \in Files, BeingSaved(f)' PROVE f = e
    BY <1>0, <1>4 DEF BeingSaved
  <1>5. Docs' = Docs
    BY <1>0 DEF Docs
  <1> QED
    BY <1>0, <1>1, <1>2, <1>3, <1>4, <1>5 DEF FilesInv

(* Nothing is left to save.                                                *)
LEMMA ExitKeeps == ASSUME FilesInv, Exit PROVE FilesInv'
  <1>0. /\ proc = "saving" /\ proc' = "done" /\ cur = NoFile /\ cur' = NoFile /\ todo = {}
        /\ doc' = [f \in Files |-> 0] /\ skip_gen' = {}
        /\ UNCHANGED <<now, edits, src, inc, hdr, listed, todo, disturbed>>
    BY DEF Exit
  <1>1. FilesTypeOK'
    BY <1>0 DEF FilesInv, FilesTypeOK
  <1>2. ASSUME NEW f \in Files, Exists(f)', f \notin disturbed'
        PROVE  Honest(f)'
    <2>1. Honest(f) /\ Exists(f)
      BY <1>0, <1>2 DEF FilesInv, Exists
    <2>2. Saved(f) /\ doc[f] = src[f].ver
      BY <1>0, <2>1 DEF Honest, BeingSaved
    <2>3. f \in listed
      BY <1>0, <2>1, <2>2 DEF FilesInv, Docs, Exists
    <2>4. Fresh(f)' /\ Saved(f)'
      BY <1>0, <2>2, <2>3 DEF Fresh, Saved
    <2> QED
      BY <1>0, <2>4 DEF Honest
  <1> QED
    BY <1>0, <1>1, <1>2 DEF FilesInv, BeingSaved

(* Once the tool has exited with 0, the headers of every template that was *)
(* not touched behind its back are those of the template's present text,   *)
(* and the include file lists it: skipping what looks up to date loses     *)
(* nothing (process_fanjet_file, save_docs).                               *)
THEOREM PrecompilerFresh == FilesSpec => []FreshUnlessDisturbed
  <1>1. FilesInv /\ [FilesNext]_fvars => FilesInv'
    <2> SUFFICES ASSUME FilesInv, [FilesNext]_fvars PROVE FilesInv'
      OBVIOUS
    <2>1. CASE Tick
      BY <2>1, TickKeeps
    <2>2. CASE Crash
      BY <2>2, CrashKeeps
    <2>3. ASSUME NEW f \in Files, NEW ok \in BOOLEAN, Edit(f, ok) PROVE FilesInv'
      BY <2>3, EditKeeps
    <2>4. ASSUME NEW f \in Files, Delete(f) PROVE FilesInv'
      BY <2>4, DeleteKeeps
    <2>5. CASE Start
      BY <2>5, StartKeeps
    <2>6. CASE Generate
      BY <2>6, GenerateKeeps
    <2>7. CASE GenerateFails
      BY <2>7, FailKeeps DEF GenerateFails
    <2>8. CASE Exit
      BY <2>8, ExitKeeps
    <2>9. ASSUME NEW f \in Files, Process(f) PROVE FilesInv'
      BY <2>9, ProcessKeeps
    <2>10. ASSUME NEW f \in Files, Reject(f) PROVE FilesInv'
      BY <2>10, FailKeeps DEF Reject
    <2>11. ASSUME NEW f \in Files, OpenInc(f) PROVE FilesInv'
      BY <2>11, OpenIncKeeps
    <2>12. ASSUME NEW f \in Files, WriteInc(f) PROVE FilesInv'
      BY <2>12, WriteIncKeeps
    <2>13. ASSUME NEW f \in Files, OpenHeader(f) PROVE FilesInv'
      BY <2>13, OpenHeaderKeeps
    <2>14. ASSUME NEW f \in Files, WriteHeader(f) PROVE FilesInv'
      BY <2>14, WriteHeaderKeeps
    <2>15. ASSUME NEW f \in Files, WriteFails(f) PROVE FilesInv'
      BY <2>15, WriteFailsKeeps
    <2>16. CASE UNCHANGED fvars
      BY <2>16 DEF fvars, FilesInv, FilesTypeOK, Honest, BeingSaved, Saved, IsUpToDate,
                  Fresh, Exists, Docs
    <2> QED
      BY <2>1, <2>2, <2>3, <2>4, <2>5, <2>6, <2>7, <2>8, <2>9, <2>10, <2>11, <2>12,
         <2>13, <2>14, <2>15, <2>16 DEF FilesNext
  <1>2. FilesInv => FreshUnlessDisturbed
    BY DEF FilesInv, Honest, FreshUnlessDisturbed
  <1> QED
    BY <1>1, <1>2, FilesInitial, PTL DEF FilesSpec

=============================================================================
