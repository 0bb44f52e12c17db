------------------------------ MODULE Generate ------------------------------
(***************************************************************************)
(* qbe_generate (src/compile.c): the host process parses the program,      *)
(* compiles it and writes assembly text to a pipe; a child process, forked *)
(* for the call, becomes `cc', reads the pipe to its end and assembles and *)
(* links.  The host waits for the child and reports its status.            *)
(*                                                                         *)
(* The kernel and `cc' are modelled by what the code relies on: a pipe of  *)
(* bounded capacity whose reader sees the end once no process holds the    *)
(* write end, and whose writer gets SIGPIPE or EPIPE once no process holds *)
(* the read end; fork duplicates every descriptor the host has open.  `cc' *)
(* may end at any time, and accepts only what it has read to the end.      *)
(***************************************************************************)
EXTENDS Integers, FiniteSets

CONSTANTS
  MaxCalls,  \* bound: calls of qbe_generate by the host
  MaxItems,  \* bound: units of assembly text a program gives
  BufCap,    \* units the stdio buffer of qbe_output holds
  PipeCap,   \* units the pipe holds
  Failing    \* the system calls and stdio functions that may fail

ASSUME GenerateAssumption ==
  /\ MaxCalls \in Nat /\ MaxItems \in Nat
  /\ BufCap \in Nat \ {0} /\ PipeCap \in Nat \ {0}
  /\ Failing \subseteq {"pipe", "fork", "fdopen", "fmemopen", "waitpid"}

VARIABLES
  pc,        \* where the host is
  call,      \* number of the current, or last, call
  sigpipe,   \* the host's disposition of SIGPIPE
  left,      \* units of text still to come out of the compiler
  bad,       \* the parser will meet an error after them
  buf,       \* units in the buffer of qbe_output
  ret,       \* what the last call returned
  rd, wr,    \* for each call, the processes holding an end of its pipe
  pipe,      \* units in the pipe
  child,     \* state of the child of each call
  status,    \* its wait status
  got,       \* units it has read
  size,      \* units its program has
  normal     \* calls that returned the status of their child

host == <<pc, call, sigpipe, left, bad, buf, ret, size, normal>>
kernel == <<rd, wr, pipe>>
cc == <<child, status, got>>
vars == <<host, kernel, cc>>

Calls == 1 .. MaxCalls
Host == 0
Procs == {Host} \cup Calls

Exited(n) == [by |-> "exit", code |-> n]
Signaled(n) == [by |-> "signal", code |-> n]
NoStatus == [by |-> "none", code |-> 0]
SIGKILL == 9

Init ==
  /\ pc = "idle" /\ call = 0 /\ sigpipe = "default"
  /\ left = 0 /\ bad = FALSE /\ buf = 0 /\ ret = 0 /\ normal = {}
  /\ size = [j \in Calls |-> 0]
  /\ rd = [j \in Calls |-> {}] /\ wr = [j \in Calls |-> {}]
  /\ pipe = [j \in Calls |-> 0]
  /\ child = [j \in Calls |-> "none"] /\ status = [j \in Calls |-> NoStatus]
  /\ got = [j \in Calls |-> 0]

-----------------------------------------------------------------------------
(* The host.                                                               *)
Without(ends, p) == [j \in Calls |-> ends[j] \ {p}]

Begin ==
  /\ pc = "idle" /\ call < MaxCalls
  /\ pc' = "pipe" /\ call' = call + 1 /\ buf' = 0
  /\ left' \in 0 .. MaxItems /\ bad' \in BOOLEAN
  /\ size' = [size EXCEPT ![call'] = left']
  /\ UNCHANGED <<sigpipe, ret, normal, kernel, cc>>

(* A failure that returns 1 and leaves everything else as it is.           *)
Fail(at, what) ==
  /\ pc = at /\ what \in Failing
  /\ pc' = "idle" /\ ret' = 1
  /\ UNCHANGED <<call, sigpipe, left, bad, buf, size, normal, kernel, cc>>

Pipe ==
  /\ pc = "pipe"
  /\ pc' = "fork"
  /\ rd' = [rd EXCEPT ![call] = {Host}] /\ wr' = [wr EXCEPT ![call] = {Host}]
  /\ UNCHANGED <<call, sigpipe, left, bad, buf, ret, size, normal, pipe, cc>>

(* The child has every end that the host has.                              *)
Inherit(ends) == [j \in Calls |-> IF Host \in ends[j] THEN ends[j] \cup {call} ELSE ends[j]]

Fork ==
  /\ pc = "fork"
  /\ pc' = "fdopen"
  /\ child' = [child EXCEPT ![call] = "forked"]
  /\ rd' = Inherit(rd) /\ wr' = Inherit(wr)
  /\ UNCHANGED <<call, sigpipe, left, bad, buf, ret, size, normal, pipe, status, got>>

(* fdopen, then close(pipefd[0]).                                          *)
Fdopen ==
  /\ pc = "fdopen"
  /\ pc' = "fmemopen"
  /\ rd' = [rd EXCEPT ![call] = @ \ {Host}]
  /\ UNCHANGED <<call, sigpipe, left, bad, buf, ret, size, normal, wr, pipe, cc>>

Fmemopen ==
  /\ pc = "fmemopen"
  /\ pc' = "parse"
  /\ UNCHANGED <<call, sigpipe, left, bad, buf, ret, size, normal, kernel, cc>>

(* qbe_parse and the passes it drives, one unit of text at a time.         *)
Emit ==
  /\ pc = "parse" /\ left > 0 /\ buf < BufCap
  /\ left' = left - 1 /\ buf' = buf + 1
  /\ UNCHANGED <<pc, call, sigpipe, bad, ret, size, normal, kernel, cc>>

(* stdio writes its buffer when it is full, when fclose closes the stream  *)
(* and when the host exits.                                                *)
Flushing == \/ pc = "parse" /\ buf = BufCap /\ left > 0
            \/ pc \in {"fclose", "exiting"} /\ buf > 0

Write ==
  /\ Flushing /\ rd[call] # {} /\ pipe[call] < PipeCap
  /\ pipe' = [pipe EXCEPT ![call] = @ + 1] /\ buf' = buf - 1
  /\ UNCHANGED <<pc, call, sigpipe, left, bad, ret, size, normal, rd, wr, cc>>

(* Nobody can read any more: EPIPE, which nothing looks at, or SIGPIPE.    *)
WriteEPIPE ==
  /\ Flushing /\ rd[call] = {} /\ sigpipe = "ignored"
  /\ buf' = 0
  /\ UNCHANGED <<pc, call, sigpipe, left, bad, ret, size, normal, kernel, cc>>

WriteSIGPIPE ==
  /\ Flushing /\ rd[call] = {} /\ sigpipe = "default"
  /\ pc' = "killed" /\ rd' = Without(rd, Host) /\ wr' = Without(wr, Host)
  /\ UNCHANGED <<call, sigpipe, left, bad, buf, ret, size, normal, pipe, cc>>

(* qbe_err: the parser prints a message and calls exit(1).                 *)
ParseError ==
  /\ pc = "parse" /\ left = 0 /\ bad
  /\ pc' = "exiting"
  /\ UNCHANGED <<call, sigpipe, left, bad, buf, ret, size, normal, kernel, cc>>

Exit ==
  /\ pc = "exiting" /\ buf = 0
  /\ pc' = "exited" /\ rd' = Without(rd, Host) /\ wr' = Without(wr, Host)
  /\ UNCHANGED <<call, sigpipe, left, bad, buf, ret, size, normal, pipe, cc>>

(* The parser returns; the tables are reset; signal(SIGPIPE, SIG_IGN).     *)
ParseDone ==
  /\ pc = "parse" /\ left = 0 /\ ~bad
  /\ pc' = "fclose" /\ sigpipe' = "ignored"
  /\ UNCHANGED <<call, left, bad, buf, ret, size, normal, kernel, cc>>

(* Mutant of Fclose: the descriptor is closed, the buffer not flushed.     *)
FcloseUnflushed ==
  /\ pc = "fclose"
  /\ pc' = "wait" /\ wr' = [wr EXCEPT ![call] = @ \ {Host}]
  /\ UNCHANGED <<call, sigpipe, left, bad, buf, ret, size, normal, rd, pipe, cc>>

Fclose ==
  /\ pc = "fclose" /\ buf = 0
  /\ pc' = "wait" /\ wr' = [wr EXCEPT ![call] = @ \ {Host}]
  /\ UNCHANGED <<call, sigpipe, left, bad, buf, ret, size, normal, rd, pipe, cc>>

(* Mutant of Result: WEXITSTATUS of any status, 0 for a signal.            *)
ResultExitOnly(s) == IF s.by = "signal" THEN 0 ELSE s.code

Result(s) == IF s.by = "signal" THEN 128 + s.code ELSE s.code

Wait ==
  /\ pc = "wait" /\ child[call] = "zombie"
  /\ child' = [child EXCEPT ![call] = "reaped"]
  /\ ret' = Result(status[call])
  /\ pc' = "idle" /\ normal' = normal \cup {call}
  /\ UNCHANGED <<call, sigpipe, left, bad, buf, size, kernel, status, got>>

HostStep ==
  \/ Pipe \/ Fork \/ Fdopen \/ Fmemopen \/ Emit \/ Write \/ WriteEPIPE \/ WriteSIGPIPE
  \/ ParseError \/ Exit \/ ParseDone \/ Fclose \/ Wait

HostFails == \E w \in Failing : Fail(IF w = "waitpid" THEN "wait" ELSE w, w)

-----------------------------------------------------------------------------
(* The child of call j.                                                    *)

(* Mutant of ChildClose: the child keeps its write end of the pipe.        *)
ChildCloseNothing(j) ==
  /\ child[j] = "forked"
  /\ child' = [child EXCEPT ![j] = "closed"]
  /\ UNCHANGED <<host, kernel, status, got>>

ChildClose(j) ==
  /\ child[j] = "forked"
  /\ child' = [child EXCEPT ![j] = "closed"]
  /\ wr' = [wr EXCEPT ![j] = @ \ {j}]
  /\ UNCHANGED <<host, rd, pipe, status, got>>

(* dup2 makes the read end the child's standard input; execvp succeeds.    *)
ChildExec(j) ==
  /\ child[j] = "closed"
  /\ child' = [child EXCEPT ![j] = "running"]
  /\ UNCHANGED <<host, kernel, status, got>>

ChildEnds(j, s) ==
  /\ child' = [child EXCEPT ![j] = "zombie"] /\ status' = [status EXCEPT ![j] = s]
  /\ rd' = Without(rd, j) /\ wr' = Without(wr, j)
  /\ UNCHANGED <<host, pipe, got>>

ChildExecFails(j) == child[j] = "closed" /\ ChildEnds(j, Exited(127))

ChildRead(j) ==
  /\ child[j] = "running" /\ pipe[j] > 0
  /\ pipe' = [pipe EXCEPT ![j] = @ - 1] /\ got' = [got EXCEPT ![j] = @ + 1]
  /\ UNCHANGED <<host, rd, wr, child, status>>

(* The end of its input: cc accepts what it has read, or not.              *)
ChildEof(j) ==
  /\ child[j] = "running" /\ pipe[j] = 0 /\ wr[j] = {}
  /\ \E n \in {0, 1} : ChildEnds(j, Exited(n))

(* cc gives up before the end of its input, or is killed.                  *)
ChildDies(j) ==
  /\ child[j] = "running"
  /\ \E s \in {Exited(1), Signaled(SIGKILL)} : ChildEnds(j, s)

ChildStep(j) == ChildClose(j) \/ ChildExec(j) \/ ChildExecFails(j) \/ ChildRead(j) \/ ChildEof(j)

Next == Begin \/ HostStep \/ HostFails \/ \E j \in Calls : ChildStep(j) \/ ChildDies(j)

Spec == Init /\ [][Next]_vars

(* The host runs while it can; so does every child: cc reads its input as  *)
(* long as there is some, and ends after the end of it.  Nothing has to    *)
(* fail: a host that waits for a child waits until the child has ended.    *)
FairSpec == Spec /\ WF_vars(HostStep) /\ \A j \in Calls : WF_vars(ChildStep(j))

-----------------------------------------------------------------------------
(* What wait may say of a child.                                           *)
Statuses == {NoStatus, Signaled(SIGKILL)} \cup {Exited(n) : n \in {0, 1, 127}}

TypeOK ==
  /\ pc \in {"idle", "pipe", "fork", "fdopen", "fmemopen", "parse", "fclose", "wait",
             "exiting", "exited", "killed"}
  /\ call \in 0 .. MaxCalls /\ sigpipe \in {"default", "ignored"}
  /\ left \in 0 .. MaxItems /\ bad \in BOOLEAN /\ buf \in 0 .. BufCap
  /\ ret \in {0, 1} \cup {Result(s) : s \in Statuses}
  /\ size \in [Calls -> 0 .. MaxItems] /\ normal \subseteq Calls
  /\ rd \in [Calls -> SUBSET Procs] /\ wr \in [Calls -> SUBSET Procs]
  /\ pipe \in [Calls -> 0 .. PipeCap]
  /\ child \in [Calls -> {"none", "forked", "closed", "running", "zombie", "reaped"}]
  /\ status \in [Calls -> Statuses]
  /\ got \in [Calls -> 0 .. MaxItems]

(* A call that returns 0 had its whole program read by a cc that accepted  *)
(* it: an early death of cc, a full pipe or a failed write of the buffer   *)
(* never passes for success.                                               *)
SuccessComplete ==
  pc = "idle" /\ call > 0 /\ ret = 0 =>
    status[call] = Exited(0) /\ got[call] = size[call]

(* Each side of a pipe loses the other only for cause.  A cc that accepts  *)
(* has read the whole program, unless the host is gone; and the host dies  *)
(* of SIGPIPE only if its cc died before it had read all, in a process     *)
(* where no call has got past its parser yet.                              *)
CutShortForCause ==
  /\ \A j \in Calls :
       status[j] = Exited(0) => got[j] = size[j] \/ pc \in {"exited", "killed"}
  /\ pc = "killed" => child[call] = "zombie" /\ got[call] < size[call] /\ normal = {}

(* A call returns, or ends the host: the host is never stuck writing to a  *)
(* full pipe or waiting for a child that waits for it, even after calls    *)
(* that failed and left children and descriptors behind.                   *)
Returns == pc = "pipe" ~> pc \in {"idle", "exited", "killed"}

(* Every child ends, even if the host exits or is killed in the middle of  *)
(* a program, unless the host keeps the write end of some pipe for ever,   *)
(* as it does after a failed fork, fdopen or fmemopen.                     *)
ChildrenEnd ==
  <>[](\A k \in Calls : Host \notin wr[k]) =>
    \A j \in Calls : child[j] = "forked" ~> child[j] \in {"zombie", "reaped"}
=============================================================================
