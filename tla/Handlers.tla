------------------------------ MODULE Handlers ------------------------------
(***************************************************************************)
(* How the program runs a request: a handler is a chain of awaited         *)
(* statements, and the handlers in flight interleave at the awaits.  A     *)
(* request slot of rq holds what a handler has read and where it stands;   *)
(* the modules that extend this one give each operation its steps.         *)
(***************************************************************************)
EXTENDS Integers, FiniteSets, Sequences, TLC

CONSTANTS
    Reqs,   \* request slots: the handlers that may be in flight at once
    None

ASSUME HandlersAssumption == IsFiniteSet(Reqs)

VARIABLE
    rq      \* the handler in each slot

Idle == [op |-> "idle", pc |-> "idle"]

HandlersInit == rq = [r \in Reqs |-> Idle]

At(r, op, pc) == rq[r].op = op /\ rq[r].pc = pc

\* A route is entered once its input is parsed; parsing refuses without a trace.
Begin(r, req) == rq[r].op = "idle" /\ rq' = [rq EXCEPT ![r] = req]

\* To the next await; With also keeps what the statement answered.
Goto(r, pc)    == rq' = [rq EXCEPT ![r].pc = pc]
With(r, fresh) ==
    rq' = [rq EXCEPT ![r] = [f \in DOMAIN fresh \cup DOMAIN rq[r] |->
                               IF f \in DOMAIN fresh THEN fresh[f] ELSE rq[r][f]]]

\* A map with v at x, whether or not there was something.
Extend(map, x, v) == [y \in DOMAIN map \cup {x} |-> IF y = x THEN v ELSE map[y]]

\* The answer is sent.  A handler also ends at an await: a check refuses, a
\* statement fails, the process dies.  What it has committed stays.
Finish(r)    == rq' = [rq EXCEPT ![r] = Idle]
GivesUp(r)   == rq[r].op # "idle" /\ Finish(r)
=============================================================================
