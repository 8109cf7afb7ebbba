---------------------------- MODULE MCConnection ----------------------------
(***************************************************************************)
(* Request profiles for model checking Connection.                         *)
(***************************************************************************)
EXTENDS Connection

(* Requests that do not reach a handler differ only up to their denial or  *)
(* the failure of their body.                                              *)
Unusable == {"unnumbered", "unbounded", "malformed"}

Distinct ==
    {p \in AllProfiles :
        /\ p.route # "found" \/ p.verdict = "deny" \/ p.body \in Unusable
             => p.handler = "send"
        /\ p.route # "found" => p.body \notin Unusable
        /\ p.handler = "unreadable" => p.access = "now" /\ p.body = "none"
        /\ p.route \in {"nohost", "bad"}
             => p.access = "now" /\ p.verdict = "grant"}

(* What the application may do without a request being served before it is *)
(* granted, resumed after its response is gone, or answered twice.         *)
Served ==
    {p \in Distinct :
        /\ p.handler \in {"send", "later", "file", "unreadable"}
        /\ p.access = "later"
             => p.body \notin {"empty", "unnumbered", "unbounded"}
        /\ p.access = "later" /\ p.route = "missing" => p.body # "data"}

(* The same without the requests that are dropped, in silence or with the  *)
(* connection, and the files that cannot be read.                          *)
Late ==
    {p \in Served :
        /\ p.route # "nohost"
        /\ p.body \notin {"unnumbered", "unbounded"}
        /\ p.handler # "unreadable"}

(* The same without the bodies that arrive after the request was refused.  *)
Answerable ==
    {p \in Late : p.route = "missing" \/ p.verdict = "deny" => p.body = "none"}

(* Policies and handlers that answer within the call, and clients that     *)
(* keep the connection.                                                    *)
Prompt ==
    {p \in Served :
        /\ p.access = "now" /\ p.alive
        /\ p.handler \in {"send", "file"}
        /\ p.route = "found" /\ p.body \in {"none", "data"}
        /\ p.verdict = "deny" => p.body = "none"}

(* The requests that the code leaves without an answer on an open          *)
(* connection.                                                             *)
Silent ==
    {p \in Distinct :
        /\ p.access = "now" /\ p.verdict = "grant"
        /\ \/ p.route = "nohost"
           \/ p.body = "unbounded"
           \/ p.handler = "unreadable"}

(* Policies that answer later, on a request whose head or body the parser  *)
(* has given up by then.                                                   *)
GivenUp == {p \in Distinct : p.access = "later"
                             /\ p.body \in {"unnumbered", "unbounded"}}

(* A handler that pauses its response and resumes it from a timer.         *)
Pausing == {p \in Distinct : p.handler = "pause" /\ p.access = "now"
                             /\ p.body = "none"}

(* A handler that answers and then fails.                                  *)
Failing == {p \in Distinct : p.handler = "fail" /\ p.access = "now"
                             /\ p.body = "none"}
=============================================================================
