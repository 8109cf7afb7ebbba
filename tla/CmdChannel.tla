----------------------------- MODULE CmdChannel -----------------------------
(***************************************************************************)
(* One direction of the command channel between the master and a worker:   *)
(* _sendcmd() in one process, a non-blocking pipe, channel_cmd_read() in   *)
(* the other (worker_impl.h, worker.h, cmd.h).                             *)
(*                                                                         *)
(* The bytes written to the pipe form one stream, and a buffer is the      *)
(* interval of it that it holds: bytes below drained have been consumed by *)
(* the reader, those below taken have been read into rcmd_buf, those below *)
(* written are in the pipe.  A command is written as its id, the length of *)
(* its payload and the payload, and the reader finds the next command      *)
(* wherever the last one it consumed ended.                                *)
(***************************************************************************)
EXTENDS Naturals, Sequences

CONSTANTS Cmds,       \* the commands that may be sent
          Size,       \* the length of the payload of each
          IdSize,     \* sizeof(int)
          LenSize,    \* sizeof(size_t)
          Capacity,   \* bytes the pipe holds
          PipeBuf,    \* a write of at most so many bytes is not split
          ReadSize,   \* bytes asked from evbuffer_read (4096)
          Garbage,    \* what the reader sees where no command starts
          Lengths,    \* the lengths it may read there (header included,
                      \* they fit in a size_t)
          MaxCmds     \* bound on the commands sent

ASSUME SizeAssumption == Size \in [Cmds -> Nat]
ASSUME FieldAssumption == IdSize \in Nat \ {0} /\ LenSize \in Nat \ {0}
ASSUME PipeAssumption == Capacity \in Nat /\ PipeBuf \in Nat /\ ReadSize \in Nat
ASSUME GarbageAssumption == Garbage \notin Cmds /\ Lengths \subseteq Nat
ASSUME MaxCmdsAssumption == MaxCmds \in Nat

VARIABLES frames,     \* commands in the stream, and where each starts
          written, taken, drained,
          step,       \* the field that _sendcmd() is to write next
          cmd,        \* the command it was given
          left,       \* bytes of the payload it has yet to write
          mode,       \* channel_cmd_read(): in which of its loops it is
          accepted, got, torn

stream == <<frames, written, taken, drained>>
sender == <<step, cmd, left>>
vars == <<stream, sender, mode, accepted, got, torn>>

(* EVMVC_CMD_HEADER_SIZE.                                                  *)
HeaderSize == IdSize + LenSize

Frame == [off : Nat, cmd : Cmds]
End(f) == f.off + HeaderSize + Size[f.cmd]

Room == Capacity - (written - taken)

-----------------------------------------------------------------------------
(* _sendcmd().  A field of at most PipeBuf bytes is written whole or not   *)
(* at all; of a longer one writen() may write a part.  A full pipe is an   *)
(* error: _sendcmd() returns -1 and what it had written stays.             *)

SendCmd ==
    /\ step = "idle"
    /\ Len(frames) < MaxCmds
    /\ cmd' \in Cmds
    /\ step' = "id"
    /\ UNCHANGED <<stream, left, mode, accepted, got, torn>>

WriteId ==
    /\ step = "id"
    /\ IF IdSize <= Room
       THEN /\ frames' = Append(frames, [off |-> written, cmd |-> cmd])
            /\ written' = written + IdSize
            /\ step' = "length"
       ELSE /\ step' = "idle"
            /\ UNCHANGED <<frames, written>>
    /\ UNCHANGED <<taken, drained, cmd, left, mode, accepted, got, torn>>

(* A mutated WriteLength: the error is not looked at.                      *)
WriteLengthUnchecked ==
    /\ step = "length"
    /\ written' = IF LenSize <= Room THEN written + LenSize ELSE written
    /\ left' = Size[cmd]
    /\ step' = IF Size[cmd] = 0 THEN "idle" ELSE "payload"
    /\ accepted' = IF Size[cmd] = 0 THEN Append(accepted, cmd) ELSE accepted
    /\ UNCHANGED <<frames, taken, drained, cmd, mode, got, torn>>

WriteLength ==
    /\ step = "length"
    /\ IF LenSize <= Room
       THEN /\ written' = written + LenSize
            /\ left' = Size[cmd]
            /\ step' = IF Size[cmd] = 0 THEN "idle" ELSE "payload"
            /\ accepted' = IF Size[cmd] = 0 THEN Append(accepted, cmd)
                                            ELSE accepted
            /\ UNCHANGED torn
       ELSE /\ step' = "idle"
            /\ torn' = TRUE
            /\ UNCHANGED <<written, left, accepted>>
    /\ UNCHANGED <<frames, taken, drained, cmd, mode, got>>

WritePayload ==
    /\ step = "payload"
    /\ \E k \in 1..left :
         /\ k <= Room
         /\ left <= PipeBuf => k = left
         /\ written' = written + k
         /\ left' = left - k
         /\ step' = IF k = left THEN "idle" ELSE "payload"
         /\ accepted' = IF k = left THEN Append(accepted, cmd) ELSE accepted
    /\ UNCHANGED <<frames, taken, drained, cmd, mode, got, torn>>

PayloadRefused ==
    /\ step = "payload"
    /\ IF left <= PipeBuf THEN Room < left ELSE Room = 0
    /\ step' = "idle"
    /\ torn' = TRUE
    /\ UNCHANGED <<stream, cmd, left, mode, accepted, got>>

(* The process that sends dies, between two commands or within one.        *)
SenderDies ==
    /\ step # "dead"
    /\ step' = "dead"
    /\ UNCHANGED <<stream, cmd, left, mode, accepted, got, torn>>

-----------------------------------------------------------------------------
(* channel_cmd_read().  The outer loop reads; the inner one takes commands *)
(* out of rcmd_buf until it holds no whole one.                            *)

ReadPipe ==
    /\ mode = "reading"
    /\ \E k \in 1..ReadSize :
         /\ k <= written - taken
         /\ taken' = taken + k
    /\ mode' = "parsing"
    /\ UNCHANGED <<frames, written, drained, sender, accepted, got, torn>>

(* The end of the pipe: the event is freed.                                *)
ReadEof ==
    /\ mode = "reading"
    /\ step = "dead" /\ taken = written
    /\ mode' = "deaf"
    /\ UNCHANGED <<stream, sender, accepted, got, torn>>

(* The command whose header is at drained: its id and its length were      *)
(* written together, and it is unaltered when its payload was too.         *)
Starts(k) ==
    /\ frames[k].off = drained
    /\ k < Len(frames) => frames[k + 1].off >= drained + HeaderSize
Whole(k) == k < Len(frames) => frames[k + 1].off = End(frames[k])

Headers ==
    LET at == {k \in DOMAIN frames : Starts(k)}
    IN IF at = {} THEN [cmd : {Garbage}, size : Lengths]
       ELSE {[cmd |-> IF Whole(k) THEN frames[k].cmd ELSE Garbage,
              size |-> Size[frames[k].cmd]] : k \in at}

(* A mutated ParseCmd: the payload is not waited for.                      *)
ParseCmdEarly ==
    /\ mode = "parsing"
    /\ IF taken - drained < HeaderSize
       THEN mode' = "reading" /\ UNCHANGED <<drained, got>>
       ELSE \E h \in Headers :
              /\ got' = Append(got, h.cmd)
              /\ drained' = drained + HeaderSize + h.size
              /\ UNCHANGED mode
    /\ UNCHANGED <<frames, written, taken, sender, accepted, torn>>

(* A mutated ParseCmd: one command is taken for each read.                 *)
ParseCmdOnce ==
    /\ mode = "parsing"
    /\ mode' = "reading"
    /\ IF taken - drained < HeaderSize
       THEN UNCHANGED <<drained, got>>
       ELSE \E h \in Headers :
              IF taken - drained < HeaderSize + h.size
              THEN UNCHANGED <<drained, got>>
              ELSE /\ got' = Append(got, h.cmd)
                   /\ drained' = drained + HeaderSize + h.size
    /\ UNCHANGED <<frames, written, taken, sender, accepted, torn>>

ParseCmd ==
    /\ mode = "parsing"
    /\ IF taken - drained < HeaderSize
       THEN mode' = "reading" /\ UNCHANGED <<drained, got>>
       ELSE \E h \in Headers :
              IF taken - drained < HeaderSize + h.size
              THEN mode' = "reading" /\ UNCHANGED <<drained, got>>
              ELSE /\ got' = Append(got, h.cmd)
                   /\ drained' = drained + HeaderSize + h.size
                   /\ UNCHANGED mode
    /\ UNCHANGED <<frames, written, taken, sender, accepted, torn>>

-----------------------------------------------------------------------------
Init ==
    /\ frames = <<>>
    /\ written = 0 /\ taken = 0 /\ drained = 0
    /\ step = "idle"
    /\ cmd \in Cmds
    /\ left = 0
    /\ mode = "reading"
    /\ accepted = <<>> /\ got = <<>>
    /\ torn = FALSE

Sender == SendCmd \/ WriteId \/ WriteLength \/ WritePayload \/ PayloadRefused
Reader == ReadPipe \/ ReadEof \/ ParseCmd

Next == Sender \/ SenderDies \/ Reader

Spec == Init /\ [][Next]_vars

(* The reader's loop runs the persistent read event as long as it is ready.*)
FairSpec == Spec /\ WF_vars(ReadPipe) /\ WF_vars(ParseCmd)

-----------------------------------------------------------------------------
(* Properties.                                                             *)

(* Every variable keeps its shape, and the reader is never ahead of what   *)
(* was read, nor what was read ahead of what was written: the unsigned     *)
(* lengths that channel_cmd_read() compares do not wrap.                   *)
TypeOK ==
    /\ frames \in Seq(Frame)
    /\ written \in Nat /\ taken \in Nat /\ drained \in Nat
    /\ drained <= taken /\ taken <= written
    /\ step \in {"idle", "id", "length", "payload", "dead"}
    /\ cmd \in Cmds /\ left \in Nat
    /\ mode \in {"reading", "parsing", "deaf"}
    /\ accepted \in Seq(Cmds) /\ got \in Seq(Cmds \cup {Garbage})
    /\ torn \in BOOLEAN

(* However the pipe splits the stream, and wherever the sender dies, the   *)
(* commands that parse_cmd() is given are those that sendcmd() accepted,   *)
(* in order; a sendcmd() refused before its first byte loses that command  *)
(* and no other.                                                           *)
Queue == INSTANCE CommandQueue
             WITH Cmds <- Cmds, accepted <- accepted, got <- got, torn <- torn
ImplementsQueue == Queue!Spec

(* A command that was accepted is delivered, unless the channel is torn:   *)
(* the reader does not wait for bytes that nobody will write.              *)
EveryCommandDelivered ==
    \A n \in 1..MaxCmds :
        Len(accepted) >= n ~> (Len(got) >= n \/ torn)

=============================================================================
