-------------------------- MODULE CmdChannelProofs --------------------------
(***************************************************************************)
(* CmdChannel implements CommandQueue, for every size of the fields, of    *)
(* the payloads, of the pipe and of the reads.                             *)
(***************************************************************************)
EXTENDS CmdChannel, TLAPS

(* Where the n-th command of the stream ends.                              *)
Pos(n) == IF n = 0 THEN 0 ELSE End(frames[n])

(* As long as the channel is not torn, the commands follow one another in  *)
(* the stream without gaps, those accepted first and at most one more that *)
(* is not written to its end, and the reader stands where one of them      *)
(* ends: after as many as it has delivered.                                *)
Aligned ==
    /\ Len(frames) = Len(accepted) \/ Len(frames) = Len(accepted) + 1
    /\ \A k \in 1..Len(accepted) : frames[k].cmd = accepted[k]
    /\ \A k \in 1..Len(frames) : frames[k].off = Pos(k - 1)
    /\ \A j, k \in 1..Len(frames) : j < k => End(frames[j]) <= frames[k].off
    /\ Len(frames) = Len(accepted) => written = Pos(Len(frames))
    /\ Len(frames) = Len(accepted) + 1 => written < End(frames[Len(frames)])
    /\ Len(got) <= Len(accepted)
    /\ drained = Pos(Len(got))

Writing ==
    /\ step \in {"idle", "id"} => Len(frames) = Len(accepted)
    /\ step \in {"length", "payload"}
         => /\ Len(frames) = Len(accepted) + 1
            /\ frames[Len(frames)].cmd = cmd
    /\ step = "length" => written = frames[Len(frames)].off + IdSize
    /\ step = "payload" => written + left = End(frames[Len(frames)])

Inv == TypeOK /\ (~torn => Aligned /\ Writing)

LEMMA HeaderSizeType == HeaderSize \in Nat /\ HeaderSize > 0
BY FieldAssumption DEF HeaderSize

(* The frames are well formed.                                             *)
LEMMA FrameType ==
    ASSUME TypeOK
    PROVE  \A k \in 1..Len(frames) :
             /\ frames[k].off \in Nat
             /\ frames[k].cmd \in Cmds
             /\ Size[frames[k].cmd] \in Nat
             /\ End(frames[k]) \in Nat
             /\ End(frames[k]) >= frames[k].off + HeaderSize
<1>1. \A k \in 1..Len(frames) : frames[k] \in Frame
  BY DEF TypeOK
<1>2. \A k \in 1..Len(frames) : /\ frames[k].off \in Nat
                                /\ frames[k].cmd \in Cmds
                                /\ Size[frames[k].cmd] \in Nat
  BY <1>1, SizeAssumption DEF Frame
<1> QED
  BY <1>2, HeaderSizeType DEF End

(* What the reader can find at drained.                                    *)
LEMMA HeadersType ==
    ASSUME TypeOK
    PROVE  Headers \subseteq [cmd : Cmds \cup {Garbage}, size : Nat]
<1> DEFINE at == {k \in DOMAIN frames : Starts(k)}
<1>1. ASSUME at = {}, NEW h \in Headers
      PROVE  h \in [cmd : Cmds \cup {Garbage}, size : Nat]
  <2>1. h \in [cmd : {Garbage}, size : Lengths]
    BY <1>1 DEF Headers
  <2> QED
    BY <2>1, GarbageAssumption
<1>2. ASSUME at # {}, NEW h \in Headers
      PROVE  h \in [cmd : Cmds \cup {Garbage}, size : Nat]
  <2>1. PICK k \in at : h = [cmd |-> IF Whole(k) THEN frames[k].cmd ELSE Garbage,
                             size |-> Size[frames[k].cmd]]
    BY <1>2 DEF Headers
  <2>2. k \in 1..Len(frames)
    BY <2>1 DEF TypeOK
  <2>3. frames[k].cmd \in Cmds /\ Size[frames[k].cmd] \in Nat
    BY <2>2, FrameType
  <2> QED
    BY <2>1, <2>3
<1> QED
  BY <1>1, <1>2

(* In an aligned channel the reader finds the next command, once the       *)
(* header has arrived, and nothing else.                                   *)
LEMMA NextHeader ==
    ASSUME TypeOK, Aligned, taken - drained >= HeaderSize
    PROVE  LET k == Len(got) + 1
           IN /\ k \in 1..Len(frames)
              /\ Headers = {[cmd |-> frames[k].cmd,
                             size |-> Size[frames[k].cmd]]}
              /\ drained = frames[k].off
<1> DEFINE k == Len(got) + 1
<1>1. /\ Len(got) \in Nat /\ Len(frames) \in Nat /\ Len(accepted) \in Nat
      /\ written \in Nat /\ taken \in Nat /\ drained \in Nat
      /\ taken <= written
  BY DEF TypeOK
<1>2. k \in 1..Len(frames)
  <2>0. /\ Len(frames) = Len(accepted) \/ Len(frames) = Len(accepted) + 1
        /\ Len(got) <= Len(accepted)
    BY DEF Aligned
  <2>1. Len(got) # Len(frames)
    <3>1. SUFFICES ASSUME Len(got) = Len(frames) PROVE FALSE
      OBVIOUS
    <3>2. Len(frames) = Len(accepted)
      BY <1>1, <2>0, <3>1
    <3>3. written = drained
      BY <3>1, <3>2 DEF Aligned
    <3> QED
      BY <1>1, <3>3, HeaderSizeType
  <2> QED
    BY <1>1, <2>0, <2>1
<1>3. drained = frames[k].off
  <2>1. frames[k].off = Pos(k - 1)
    BY <1>2 DEF Aligned
  <2>2. k - 1 = Len(got)
    BY <1>1
  <2> QED
    BY <2>1, <2>2 DEF Aligned
<1>4. \A j \in 1..Len(frames) : /\ frames[j].off \in Nat
                                /\ End(frames[j]) \in Nat
                                /\ End(frames[j]) >= frames[j].off + HeaderSize
  BY FrameType
<1>5. k < Len(frames) => frames[k + 1].off = End(frames[k])
  <2>1. k < Len(frames) => frames[k + 1].off = Pos(k + 1 - 1)
    <3>1. ASSUME k < Len(frames) PROVE k + 1 \in 1..Len(frames)
      BY <1>1, <1>2, <3>1
    <3> QED
      BY <3>1 DEF Aligned
  <2>2. k + 1 - 1 = k /\ k # 0
    BY <1>1
  <2> QED
    BY <2>1, <2>2 DEF Pos
<1>6. Starts(k) /\ Whole(k)
  BY <1>2, <1>3, <1>4, <1>5 DEF Starts, Whole
<1>7. \A j \in 1..Len(frames) : Starts(j) => j = k
  <2> SUFFICES ASSUME NEW j \in 1..Len(frames), j # k
               PROVE  frames[j].off # drained
    BY DEF Starts
  <2>1. j < k => End(frames[j]) <= frames[k].off
    BY <1>2 DEF Aligned
  <2>2. k < j => End(frames[k]) <= frames[j].off
    BY <1>2 DEF Aligned
  <2>3. j \in Nat /\ k \in Nat
    BY <1>1, <1>2
  <2>4. /\ frames[j].off \in Nat /\ frames[k].off \in Nat
        /\ End(frames[j]) >= frames[j].off + HeaderSize
        /\ End(frames[k]) >= frames[k].off + HeaderSize
        /\ End(frames[j]) \in Nat /\ End(frames[k]) \in Nat
    <3> HIDE DEF k
    <3> QED BY <1>2, <1>4
  <2> HIDE DEF k
  <2>5. CASE j < k
    BY <1>3, <2>1, <2>4, <2>5, HeaderSizeType
  <2>6. CASE k < j
    BY <1>3, <2>2, <2>4, <2>6, HeaderSizeType
  <2> QED
    BY <2>3, <2>5, <2>6
<1>8. {j \in DOMAIN frames : Starts(j)} = {k}
  <2> HIDE DEF k
  <2>1. DOMAIN frames = 1..Len(frames)
    BY DEF TypeOK
  <2> QED BY <2>1, <1>2, <1>6, <1>7
<1>9. Headers = {[cmd |-> frames[k].cmd, size |-> Size[frames[k].cmd]]}
  <2> HIDE DEF k
  <2> QED BY <1>6, <1>8 DEF Headers
<1> QED
  BY <1>2, <1>3, <1>9

LEMMA InitInv == Init => Inv
<1> SUFFICES ASSUME Init PROVE Inv
  OBVIOUS
<1>1. torn \in BOOLEAN
  BY Zenon DEF Init
<1>2. TypeOK
  BY <1>1 DEF Init, TypeOK
<1>3. Aligned
  BY DEF Init, Aligned, Pos
<1>4. Writing
  BY DEF Init, Writing
<1> QED
  BY <1>2, <1>3, <1>4 DEF Inv

-----------------------------------------------------------------------------
(* A step keeps the types.                                                 *)
LEMMA NextType == TypeOK /\ [Next]_vars => TypeOK'
<1> SUFFICES ASSUME TypeOK, [Next]_vars PROVE TypeOK'
  OBVIOUS
<1> USE PipeAssumption, FieldAssumption
<1>1. CASE SendCmd
  BY <1>1 DEF TypeOK, SendCmd, stream
<1>2. CASE WriteId
  <2>1. CASE IdSize <= Room
    <3>1. [off |-> written, cmd |-> cmd] \in Frame
      BY DEF TypeOK, Frame
    <3>2. frames' \in Seq(Frame)
      <4>1. frames' = Append(frames, [off |-> written, cmd |-> cmd])
        BY <1>2, <2>1 DEF WriteId
      <4> QED
        BY <3>1, <4>1 DEF TypeOK
    <3>3. written' \in Nat /\ taken <= written'
      BY <1>2, <2>1 DEF TypeOK, WriteId
    <3> QED
      BY <1>2, <2>1, <3>2, <3>3 DEF TypeOK, WriteId
  <2>2. CASE ~(IdSize <= Room)
    BY <1>2, <2>2 DEF TypeOK, WriteId
  <2> QED
    BY <2>1, <2>2
<1>3. CASE WriteLength
  <2>1. Size[cmd] \in Nat
    BY SizeAssumption DEF TypeOK
  <2>2. CASE LenSize <= Room
    <3>1. written' \in Nat /\ taken <= written'
      BY <1>3, <2>2 DEF TypeOK, WriteLength
    <3>2. accepted' \in Seq(Cmds)
      <4>1. accepted' = accepted \/ accepted' = Append(accepted, cmd)
        BY <1>3, <2>2 DEF WriteLength
      <4> QED
        BY <4>1 DEF TypeOK
    <3> QED
      BY <1>3, <2>1, <2>2, <3>1, <3>2 DEF TypeOK, WriteLength
  <2>3. CASE ~(LenSize <= Room)
    <3>1. torn' \in BOOLEAN
      BY <1>3, <2>3, Zenon DEF WriteLength
    <3> QED
      BY <1>3, <2>3, <3>1 DEF TypeOK, WriteLength
  <2> QED
    BY <2>2, <2>3
<1>4. CASE WritePayload
  BY <1>4 DEF TypeOK, WritePayload
<1>5. CASE PayloadRefused
  <2>1. torn' \in BOOLEAN
    BY <1>5, Zenon DEF PayloadRefused
  <2> QED
    BY <1>5, <2>1 DEF TypeOK, PayloadRefused, stream
<1>6. CASE SenderDies
  BY <1>6 DEF TypeOK, SenderDies, stream
<1>7. CASE ReadPipe
  BY <1>7 DEF TypeOK, ReadPipe, sender
<1>8. CASE ReadEof
  BY <1>8 DEF TypeOK, ReadEof, stream, sender
<1>9. CASE ParseCmd
  <2>1. CASE UNCHANGED <<drained, got>>
    BY <1>9, <2>1 DEF TypeOK, ParseCmd, sender
  <2>2. CASE ~UNCHANGED <<drained, got>>
    <3>1. PICK h \in Headers : /\ ~(taken - drained < HeaderSize + h.size)
                               /\ got' = Append(got, h.cmd)
                               /\ drained' = drained + HeaderSize + h.size
                               /\ UNCHANGED mode
      BY <1>9, <2>2 DEF ParseCmd
    <3>2. h.cmd \in Cmds \cup {Garbage} /\ h.size \in Nat
      BY HeadersType
    <3>3. drained' \in Nat /\ drained' <= taken
      BY <3>1, <3>2, HeaderSizeType, SMTT(30) DEF TypeOK
    <3>4. got' \in Seq(Cmds \cup {Garbage})
      BY <3>1, <3>2 DEF TypeOK
    <3> QED
      BY <1>9, <3>1, <3>3, <3>4 DEF TypeOK, ParseCmd, sender
  <2> QED
    BY <2>1, <2>2
<1>10. CASE UNCHANGED vars
  BY <1>10 DEF TypeOK, vars, stream, sender
<1> QED
  BY <1>1, <1>2, <1>3, <1>4, <1>5, <1>6, <1>7, <1>8, <1>9, <1>10
     DEF Next, Sender, Reader

-----------------------------------------------------------------------------
(* What the alignment of a channel rests on.                               *)
aligned == <<frames, written, drained, accepted, got>>

LEMMA AlignedSame ==
    ASSUME Aligned, UNCHANGED aligned
    PROVE  Aligned'
<1>1. \A n : Pos(n)' = Pos(n)
  BY DEF Pos, End, aligned
<1>2. \A j : End(frames[j])' = End(frames[j])
  BY DEF End, aligned
<1> QED
  BY <1>1, <1>2 DEF Aligned, aligned

(* A command whose last byte is written joins the accepted ones.           *)
LEMMA AlignedAccept ==
    ASSUME TypeOK, Aligned, Writing, step \in {"length", "payload"},
           written' = End(frames[Len(frames)]),
           accepted' = Append(accepted, cmd),
           UNCHANGED <<frames, drained, got>>
    PROVE  Aligned' /\ Len(frames') = Len(accepted')
<1>1. \A n : Pos(n)' = Pos(n)
  BY DEF Pos, End
<1>2. \A j : End(frames[j])' = End(frames[j])
  BY DEF End
<1>3. /\ Len(accepted') = Len(accepted) + 1
      /\ \A k \in 1..Len(accepted) : accepted'[k] = accepted[k]
      /\ accepted'[Len(accepted) + 1] = cmd
      /\ Len(accepted) \in Nat /\ Len(got) \in Nat /\ Len(frames) \in Nat
  BY DEF TypeOK
<1>4. Len(frames) = Len(accepted) + 1 /\ frames[Len(frames)].cmd = cmd
  BY DEF Writing
<1>5. \A k \in 1..Len(accepted') : frames'[k].cmd = accepted'[k]
  <2> SUFFICES ASSUME NEW k \in 1..Len(accepted')
               PROVE  frames[k].cmd = accepted'[k]
    OBVIOUS
  <2>1. CASE k \in 1..Len(accepted)
    BY <1>3, <2>1 DEF Aligned
  <2>2. CASE k = Len(accepted) + 1
    BY <1>3, <1>4, <2>2
  <2> QED
    BY <1>3, <2>1, <2>2
<1>6. written' = Pos(Len(frames))
  BY <1>3, <1>4 DEF Pos
<1>7. /\ Len(frames') = Len(accepted')
      /\ Len(frames') # Len(accepted') + 1
      /\ Len(got') <= Len(accepted')
  <2>1. Len(got) <= Len(accepted)
    BY DEF Aligned
  <2> QED
    BY <1>3, <1>4, <2>1
<1> QED
  BY <1>1, <1>2, <1>5, <1>6, <1>7 DEF Aligned

(* The id of a new command is written where the last command ended.        *)
LEMMA AlignedStart ==
    ASSUME TypeOK, Aligned, Len(frames) = Len(accepted),
           frames' = Append(frames, [off |-> written, cmd |-> cmd]),
           written' = written + IdSize,
           UNCHANGED <<drained, accepted, got>>
    PROVE  /\ Aligned'
           /\ Len(frames') = Len(accepted') + 1
           /\ frames'[Len(frames')] = [off |-> written, cmd |-> cmd]
<1> DEFINE n == Len(frames)
           f == [off |-> written, cmd |-> cmd]
<1>1. /\ n \in Nat /\ Len(accepted) \in Nat /\ Len(got) \in Nat
      /\ Len(frames') = n + 1
      /\ \A k \in 1..n : frames'[k] = frames[k]
      /\ frames'[n + 1] = f
  <2>1. f \in Frame
    BY DEF TypeOK, Frame
  <2> QED
    BY <2>1 DEF TypeOK
<1>2. /\ written \in Nat /\ End(f) \in Nat /\ written' < End(f)
  BY FieldAssumption, SizeAssumption DEF TypeOK, End, HeaderSize
<1>3. \A k \in 1..n : End(frames'[k]) = End(frames[k])
  BY <1>1
<1>4. \A k \in 0..n : Pos(k)' = Pos(k)
  BY <1>1 DEF Pos, End
<1>5. written = Pos(n)
  BY DEF Aligned
<1>6. \A k \in 1..n : End(frames[k]) <= written
  <2> SUFFICES ASSUME NEW k \in 1..n PROVE End(frames[k]) <= written
    OBVIOUS
  <2>1. n \in 1..n /\ n # 0
    BY <1>1
  <2>2. written = End(frames[n])
    BY <1>5, <2>1 DEF Pos
  <2>3. k < n => End(frames[k]) <= frames[n].off
    BY <2>1 DEF Aligned
  <2>4. /\ End(frames[k]) \in Nat /\ End(frames[n]) \in Nat
        /\ frames[n].off \in Nat /\ frames[n].off <= End(frames[n])
    BY <2>1, FrameType, HeaderSizeType
  <2> HIDE DEF n
  <2> QED
    BY <1>1, <2>2, <2>3, <2>4
<1>7. \A k \in 1..Len(frames') : frames'[k].off = Pos(k - 1)'
  <2> SUFFICES ASSUME NEW k \in 1..(n + 1) PROVE frames'[k].off = Pos(k - 1)'
    BY <1>1
  <2>1. CASE k \in 1..n
    <3>1. frames[k].off = Pos(k - 1)
      BY <2>1 DEF Aligned
    <3>2. k - 1 \in 0..n
      BY <1>1, <2>1
    <3> QED
      BY <1>1, <1>4, <2>1, <3>1, <3>2
  <2>2. CASE k = n + 1
    <3>1. k - 1 = n /\ n \in 0..n
      BY <1>1, <2>2
    <3> QED
      BY <1>1, <1>4, <1>5, <2>2, <3>1
  <2> QED
    BY <1>1, <2>1, <2>2
<1>8. \A j, k \in 1..Len(frames') : j < k => End(frames'[j]) <= frames'[k].off
  <2> SUFFICES ASSUME NEW j \in 1..(n + 1), NEW k \in 1..(n + 1), j < k
               PROVE  End(frames'[j]) <= frames'[k].off
    BY <1>1
  <2>1. j \in 1..n
    BY <1>1
  <2>2. CASE k \in 1..n
    <3>1. End(frames[j]) <= frames[k].off
      BY <2>1, <2>2 DEF Aligned
    <3> QED
      BY <1>1, <2>1, <2>2, <3>1
  <2>3. CASE k = n + 1
    BY <1>1, <1>3, <1>6, <2>1, <2>3
  <2> QED
    BY <1>1, <2>2, <2>3
<1>9. /\ \A k \in 1..Len(accepted') : frames'[k].cmd = accepted'[k]
      /\ Len(got') <= Len(accepted')
      /\ (drained = Pos(Len(got)))'
  <2>1. Len(got) <= Len(accepted) /\ Len(got) \in 0..n
    BY <1>1 DEF Aligned
  <2>2. drained = Pos(Len(got))
    BY DEF Aligned
  <2>3. \A k \in 1..Len(accepted) : frames[k].cmd = accepted[k]
    BY DEF Aligned
  <2> QED
    BY <1>1, <1>4, <2>1, <2>2, <2>3
<1>10. /\ Len(frames') = Len(accepted') + 1 /\ Len(frames') # Len(accepted')
       /\ written' < End(frames'[Len(frames')])
  BY <1>1, <1>2
<1> QED
  BY <1>1, <1>7, <1>8, <1>9, <1>10 DEF Aligned, End

(* The reader takes the next accepted command, and no byte of another.     *)
LEMMA ParseDelivers ==
    ASSUME TypeOK, Aligned, ParseCmd, ~UNCHANGED <<drained, got>>
    PROVE  /\ Len(got) < Len(accepted)
           /\ got' = Append(got, accepted[Len(got) + 1])
           /\ drained' = End(frames[Len(got) + 1])
<1> DEFINE k == Len(got) + 1
<1>1. PICK h \in Headers : /\ ~(taken - drained < HeaderSize)
                           /\ ~(taken - drained < HeaderSize + h.size)
                           /\ got' = Append(got, h.cmd)
                           /\ drained' = drained + HeaderSize + h.size
  BY DEF ParseCmd
<1>2. /\ taken \in Nat /\ drained \in Nat /\ written \in Nat
      /\ taken <= written
      /\ Len(got) \in Nat /\ Len(accepted) \in Nat /\ Len(frames) \in Nat
  BY DEF TypeOK
<1>3. taken - drained >= HeaderSize
  BY <1>1, <1>2, HeaderSizeType
<1>4. /\ k \in 1..Len(frames)
      /\ h.cmd = frames[k].cmd /\ h.size = Size[frames[k].cmd]
      /\ drained = frames[k].off
  BY <1>3, NextHeader
<1>5. /\ drained' = End(frames[k]) /\ End(frames[k]) \in Nat
      /\ End(frames[k]) <= written
  <2>1. drained' = End(frames[k])
    BY <1>1, <1>4 DEF End
  <2>2. h.size \in Nat /\ End(frames[k]) \in Nat
    BY <1>4, FrameType
  <2> QED
    BY <1>1, <1>2, <2>1, <2>2, HeaderSizeType
<1>6. k \in 1..Len(accepted)
  <2>1. Len(frames) = Len(accepted) \/ Len(frames) = Len(accepted) + 1
    BY DEF Aligned
  <2>2. ASSUME Len(frames) = Len(accepted) + 1, k = Len(frames)
        PROVE  FALSE
    <3>1. written < End(frames[k])
      BY <2>2 DEF Aligned
    <3> QED
      BY <1>2, <1>5, <3>1
  <2> HIDE DEF k
  <2> QED
    BY <1>2, <1>4, <2>1, <2>2
<1>7. frames[k].cmd = accepted[k]
  BY <1>6 DEF Aligned
<1> QED
  BY <1>1, <1>2, <1>4, <1>5, <1>6, <1>7

LEMMA AlignedDeliver ==
    ASSUME TypeOK, Aligned, Len(got) < Len(accepted),
           got' = Append(got, accepted[Len(got) + 1]),
           drained' = End(frames[Len(got) + 1]),
           UNCHANGED <<frames, written, accepted>>
    PROVE  Aligned'
<1>1. \A n : Pos(n)' = Pos(n)
  BY DEF Pos, End
<1>2. \A j : End(frames[j])' = End(frames[j])
  BY DEF End
<1>3. /\ Len(got) \in Nat /\ Len(accepted) \in Nat
      /\ Len(got') = Len(got) + 1
  BY DEF TypeOK
<1>4. Len(got') <= Len(accepted)
  BY <1>3
<1>5. drained' = Pos(Len(got'))
  BY <1>3 DEF Pos
<1> QED
  BY <1>1, <1>2, <1>4, <1>5 DEF Aligned

-----------------------------------------------------------------------------
(* A step that does not tear the channel keeps it aligned.                 *)
LEMMA NextAligned ==
    ASSUME TypeOK, Aligned, Writing, [Next]_vars, ~torn'
    PROVE  Aligned' /\ Writing'
<1>1. CASE SendCmd
  <2>1. UNCHANGED aligned /\ step' = "id" /\ step = "idle"
    BY <1>1 DEF SendCmd, stream, aligned
  <2> QED
    BY <2>1, AlignedSame DEF Writing, aligned
<1>2. CASE WriteId
  <2>0. Len(frames) = Len(accepted)
    BY <1>2 DEF WriteId, Writing
  <2>1. CASE IdSize <= Room
    <3>1. /\ frames' = Append(frames, [off |-> written, cmd |-> cmd])
          /\ written' = written + IdSize
          /\ step' = "length"
          /\ UNCHANGED <<drained, accepted, got, cmd>>
      BY <1>2, <2>1 DEF WriteId
    <3>2. /\ Aligned'
          /\ Len(frames') = Len(accepted') + 1
          /\ frames'[Len(frames')] = [off |-> written, cmd |-> cmd]
      BY <2>0, <3>1, AlignedStart
    <3> QED
      BY <3>1, <3>2 DEF Writing
  <2>2. CASE ~(IdSize <= Room)
    <3>1. UNCHANGED aligned /\ step' = "idle"
      BY <1>2, <2>2 DEF WriteId, aligned
    <3> QED
      BY <2>0, <3>1, AlignedSame DEF Writing, aligned
  <2> QED
    BY <2>1, <2>2
<1>3. CASE WriteLength
  <2>0. /\ Len(frames) = Len(accepted) + 1
        /\ frames[Len(frames)].cmd = cmd
        /\ written = frames[Len(frames)].off + IdSize
        /\ step = "length"
    BY <1>3 DEF WriteLength, Writing
  <2>1. /\ written' = written + LenSize
        /\ left' = Size[cmd]
        /\ step' = IF Size[cmd] = 0 THEN "idle" ELSE "payload"
        /\ accepted' = IF Size[cmd] = 0 THEN Append(accepted, cmd) ELSE accepted
        /\ UNCHANGED <<frames, drained, got, cmd>>
    BY <1>3, Zenon DEF WriteLength
  <2>2. /\ frames[Len(frames)].off \in Nat /\ Size[cmd] \in Nat
        /\ End(frames[Len(frames)]) \in Nat
    <3>1. Len(frames) \in 1..Len(frames)
      BY <2>0 DEF TypeOK
    <3> QED
      BY <2>0, <3>1, FrameType
  <2>3. written' + Size[cmd] = End(frames[Len(frames)]) /\ written' \in Nat
    <3>1. End(frames[Len(frames)])
            = frames[Len(frames)].off + (IdSize + LenSize) + Size[cmd]
      BY <2>0 DEF End, HeaderSize
    <3>2. written' = frames[Len(frames)].off + IdSize + LenSize
      BY <2>0, <2>1
    <3> QED
      BY <2>2, <3>1, <3>2, FieldAssumption, SMTT(30)
  <2>4. CASE Size[cmd] = 0
    <3>1. written' = End(frames[Len(frames)])
      BY <2>3, <2>4
    <3>2. Aligned' /\ Len(frames') = Len(accepted')
      BY <2>0, <2>1, <2>4, <3>1, AlignedAccept
    <3> QED
      BY <2>1, <2>4, <3>2 DEF Writing
  <2>5. CASE Size[cmd] # 0
    <3>1. \A n : Pos(n)' = Pos(n)
      BY <2>1 DEF Pos, End
    <3>2. \A j : End(frames[j])' = End(frames[j])
      BY <2>1 DEF End
    <3>3. accepted' = accepted /\ step' = "payload"
      BY <2>1, <2>5
    <3>4. written' < End(frames[Len(frames)])
      BY <2>2, <2>3, <2>5
    <3>5. Len(frames) # Len(accepted)
      BY <2>0 DEF TypeOK
    <3>6. Aligned'
      BY <2>1, <3>1, <3>2, <3>3, <3>4, <3>5 DEF Aligned
    <3>7. Writing'
      BY <2>0, <2>1, <2>3, <3>2, <3>3 DEF Writing
    <3> QED
      BY <3>6, <3>7
  <2> QED
    BY <2>4, <2>5
<1>4. CASE WritePayload
  <2>0. /\ Len(frames) = Len(accepted) + 1
        /\ frames[Len(frames)].cmd = cmd
        /\ written + left = End(frames[Len(frames)])
        /\ step = "payload" /\ written \in Nat /\ left \in Nat
    BY <1>4 DEF WritePayload, Writing, TypeOK
  <2>1. PICK k \in 1..left :
             /\ written' = written + k
             /\ left' = left - k
             /\ step' = IF k = left THEN "idle" ELSE "payload"
             /\ accepted' = IF k = left THEN Append(accepted, cmd) ELSE accepted
    BY <1>4 DEF WritePayload
  <2>2. UNCHANGED <<frames, drained, got, cmd>>
    BY <1>4 DEF WritePayload
  <2>3. written' + left' = End(frames[Len(frames)])
    BY <2>0, <2>1
  <2>4. CASE k = left
    <3>1. written' = End(frames[Len(frames)])
      BY <2>0, <2>1, <2>4
    <3>2. accepted' = Append(accepted, cmd) /\ step' = "idle"
      BY <2>1, <2>4
    <3>3. Aligned' /\ Len(frames') = Len(accepted')
      BY <2>0, <2>2, <3>1, <3>2, AlignedAccept
    <3> QED
      BY <3>2, <3>3 DEF Writing
  <2>5. CASE k # left
    <3>1. \A n : Pos(n)' = Pos(n)
      BY <2>2 DEF Pos, End
    <3>2. \A j : End(frames[j])' = End(frames[j])
      BY <2>2 DEF End
    <3>3. accepted' = accepted /\ step' = "payload"
      BY <2>1, <2>5
    <3>4. written' < End(frames[Len(frames)])
      BY <2>0, <2>1, <2>5
    <3>5. Len(frames) # Len(accepted)
      BY <2>0 DEF TypeOK
    <3>6. Aligned'
      BY <2>2, <3>1, <3>2, <3>3, <3>4, <3>5 DEF Aligned
    <3>7. Writing'
      BY <2>0, <2>2, <2>3, <3>2, <3>3 DEF Writing
    <3> QED
      BY <3>6, <3>7
  <2> QED
    BY <2>4, <2>5
<1>5. CASE PayloadRefused
  BY <1>5, Zenon DEF PayloadRefused
<1>6. CASE SenderDies
  <2>1. UNCHANGED aligned /\ step' = "dead"
    BY <1>6 DEF SenderDies, stream, aligned
  <2> QED
    BY <2>1, AlignedSame DEF Writing
<1>7. CASE ReadPipe \/ ReadEof \/ UNCHANGED vars
  <2>1. UNCHANGED aligned /\ UNCHANGED sender
    BY <1>7 DEF ReadPipe, ReadEof, vars, stream, aligned, sender
  <2>2. Writing'
    BY <2>1 DEF Writing, aligned, sender, End
  <2> QED
    BY <2>1, <2>2, AlignedSame
<1>8. CASE ParseCmd
  <2>1. UNCHANGED <<frames, written, accepted, step, cmd, left>>
    BY <1>8 DEF ParseCmd, sender
  <2>2. Writing'
    BY <2>1 DEF Writing, End
  <2>3. CASE UNCHANGED <<drained, got>>
    BY <2>1, <2>2, <2>3, AlignedSame DEF aligned
  <2>4. CASE ~UNCHANGED <<drained, got>>
    <3>1. /\ Len(got) < Len(accepted)
          /\ got' = Append(got, accepted[Len(got) + 1])
          /\ drained' = End(frames[Len(got) + 1])
      BY <1>8, <2>4, ParseDelivers
    <3> QED
      BY <2>1, <2>2, <3>1, AlignedDeliver
  <2> QED
    BY <2>3, <2>4
<1> QED
  BY <1>1, <1>2, <1>3, <1>4, <1>5, <1>6, <1>7, <1>8 DEF Next, Sender, Reader

LEMMA NextInv == Inv /\ [Next]_vars => Inv'
<1> SUFFICES ASSUME Inv, [Next]_vars PROVE Inv'
  OBVIOUS
<1>1. TypeOK'
  BY NextType DEF Inv
<1>2. torn => torn'
  BY Zenon DEF Next, Sender, Reader, vars, SendCmd, WriteId, WriteLength,
     WritePayload, PayloadRefused, SenderDies, ReadPipe, ReadEof, ParseCmd
<1>3. ASSUME ~torn' PROVE Aligned' /\ Writing'
  BY <1>2, <1>3, NextAligned DEF Inv
<1> QED
  BY <1>1, <1>3 DEF Inv

(* A step of the channel is a step of the queue, or leaves it alone.       *)
LEMMA NextQueue ==
    Inv /\ [Next]_vars => [Queue!Next]_(Queue!vars)
<1> SUFFICES ASSUME Inv, [Next]_vars PROVE [Queue!Next]_(Queue!vars)
  OBVIOUS
<1>1. CASE UNCHANGED <<accepted, got, torn>>
  BY <1>1 DEF Queue!vars
<1>2. CASE torn
  <2>1. torn' = TRUE
    BY <1>2, Zenon DEF Next, Sender, Reader, vars, SendCmd, WriteId, Inv,
       TypeOK, WriteLength, WritePayload, PayloadRefused, SenderDies,
       ReadPipe, ReadEof, ParseCmd
  <2> QED
    BY <1>2, <2>1 DEF Queue!Next, Queue!Torn
<1>3. CASE ~torn /\ (WriteLength \/ WritePayload \/ PayloadRefused)
  <2>1. CASE torn' = TRUE
    <3>1. UNCHANGED <<accepted, got>>
      BY <1>3, <2>1, Zenon DEF WriteLength, WritePayload, PayloadRefused
    <3> QED
      BY <2>1, <3>1 DEF Queue!Next, Queue!Tear
  <2>2. CASE torn' # TRUE
    <3>1. UNCHANGED <<got, torn>>
      BY <1>3, <2>2, Zenon DEF WriteLength, WritePayload, PayloadRefused
    <3>2. accepted' = accepted \/ accepted' = Append(accepted, cmd)
      BY <1>3 DEF WriteLength, WritePayload, PayloadRefused
    <3>3. cmd \in Cmds
      BY DEF Inv, TypeOK
    <3> QED
      BY <3>1, <3>2, <3>3 DEF Queue!Next, Queue!Accept, Queue!vars
  <2> QED
    BY <2>1, <2>2
<1>4. CASE ~torn /\ ParseCmd
  <2>1. UNCHANGED <<accepted, torn>>
    BY <1>4 DEF ParseCmd
  <2>2. CASE UNCHANGED <<drained, got>>
    BY <2>1, <2>2, <1>1
  <2>3. CASE ~UNCHANGED <<drained, got>>
    <3>1. /\ Len(got) < Len(accepted)
          /\ got' = Append(got, accepted[Len(got) + 1])
      BY <1>4, <2>3, ParseDelivers DEF Inv
    <3> QED
      BY <2>1, <3>1 DEF Queue!Next, Queue!Deliver
  <2> QED
    BY <2>2, <2>3
<1>5. \/ UNCHANGED <<accepted, got, torn>>
      \/ WriteLength \/ WritePayload \/ PayloadRefused \/ ParseCmd
  BY DEF Next, Sender, Reader, vars, SendCmd, WriteId, SenderDies, ReadPipe,
     ReadEof
<1> QED
  BY <1>1, <1>2, <1>3, <1>4, <1>5

-----------------------------------------------------------------------------
(* Every variable of the channel keeps its type, and the unsigned lengths  *)
(* that channel_cmd_read() compares never wrap, torn channels included.    *)
THEOREM TypeCorrect == Spec => []TypeOK
<1>1. Init => TypeOK
  BY InitInv DEF Inv
<1> QED
  BY <1>1, NextType, PTL DEF Spec

(* The channel implements the queue: parse_cmd() is given what sendcmd()   *)
(* accepted, once each and in order, until a command is written in part.   *)
THEOREM ChannelIsQueue == Spec => ImplementsQueue
<1>1. Init => Queue!Init
  BY DEF Init, Queue!Init
<1> QED
  BY <1>1, InitInv, NextInv, NextQueue, PTL
     DEF Spec, ImplementsQueue, Queue!Spec

=============================================================================
