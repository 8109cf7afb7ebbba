---------------------------- MODULE MCCmdChannel ----------------------------
(***************************************************************************)
(* Small pipes for model checking CmdChannel: fields of one and two bytes, *)
(* a command without payload, one whose payload is written whole and one   *)
(* whose payload may be split.                                             *)
(***************************************************************************)
EXTENDS CmdChannel

CONSTANTS Close, Log, User

MCCmds == {Close, Log, User}
MCSize == [c \in MCCmds |-> IF c = Close THEN 0 ELSE IF c = Log THEN 2 ELSE 4]
MCLengths == 0..4
=============================================================================
