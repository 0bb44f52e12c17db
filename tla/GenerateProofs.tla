---------------------------- MODULE GenerateProofs ----------------------------
(***************************************************************************)
(* Proofs about Generate, for any number of calls, any programs and any    *)
(* capacity of buffer and pipe, and whichever system calls fail.           *)
(***************************************************************************)
EXTENDS Generate, TLAPS

Alive(j) == child[j] \in {"forked", "closed", "running"}
Ended(j) == child[j] \in {"zombie", "reaped"}
HostGone == pc \in {"exited", "killed"}

(* The host is between its fork and its waitpid.                           *)
Serving == pc \in {"fdopen", "fmemopen", "parse", "fclose", "wait", "exiting"}

(* Nothing has happened to the calls that are still to come.               *)
Unborn ==
  \A j \in Calls : j > call \/ (j = call /\ pc = "pipe") =>
    child[j] = "none" /\ pipe[j] = 0 /\ got[j] = 0

(* A child that lives can read its pipe, and the host holds the other end  *)
(* until it has closed it.                                                 *)
Ends ==
  /\ \A j \in Calls : Alive(j) => j \in rd[j]
  /\ pc \in {"fork", "fdopen"} => Host \in rd[call]
  /\ pc \in {"fork", "fdopen", "fmemopen", "parse", "fclose", "exiting"} => Host \in wr[call]

Children ==
  /\ \A j \in Calls : Ended(j) <=> status[j] # NoStatus
  /\ pc # "idle" => call > 0
  /\ pc = "fork" => child[call] = "none"
  /\ Serving => Alive(call) \/ child[call] = "zombie"

(* Where the text of the program is: to come, buffered, in the pipe, read; *)
(* some of it may be lost only when nobody reads any more.                 *)
Conserved ==
  /\ \A j \in Calls : pipe[j] + got[j] <= size[j]
  /\ pc \in {"pipe", "fork"} \/ Serving => left + buf + pipe[call] + got[call] <= size[call]
  /\ pc \in {"pipe", "fork"} \/ (Serving /\ Alive(call)) =>
       left + buf + pipe[call] + got[call] = size[call]
  /\ pc \in {"fclose", "wait"} => left = 0
  /\ pc = "wait" => buf = 0
  /\ \A j \in Calls : Alive(j) /\ Host \notin wr[j] /\ ~HostGone => pipe[j] + got[j] = size[j]

(* SIGPIPE is ignored from the first call on that got past its parser.     *)
Disposition ==
  sigpipe = "default" => normal = {} /\ pc \notin {"fclose", "wait"}

Outcome ==
  /\ pc = "idle" /\ call > 0 /\ ret = 0 => status[call] = Exited(0)
  /\ CutShortForCause

IInv == TypeOK /\ Unborn /\ Ends /\ Children /\ Conserved /\ Disposition /\ Outcome

-----------------------------------------------------------------------------
LEMMA StatusFacts ==
  /\ NoStatus \in Statuses /\ Signaled(SIGKILL) \in Statuses
  /\ \A n \in {0, 1, 127} : Exited(n) \in Statuses /\ Exited(n) # NoStatus
  /\ Signaled(SIGKILL) # NoStatus
  /\ Exited(1) # Exited(0) /\ Exited(127) # Exited(0) /\ Signaled(SIGKILL) # Exited(0)
  /\ \A s \in Statuses :
       Result(s) = 0 => s \in {NoStatus, Exited(0)}
  BY DEF Statuses, NoStatus, Signaled, Exited, Result, SIGKILL

(* The three ways a child ends differ in its status only.                  *)
ChildGoes(j, s) ==
  /\ child[j] \in {"closed", "running"}
  /\ ChildEnds(j, s)
  /\ s = Exited(0) => child[j] = "running" /\ pipe[j] = 0 /\ wr[j] = {}

LEMMA EndFacts ==
  ASSUME NEW j, ChildExecFails(j) \/ ChildEof(j) \/ ChildDies(j)
  PROVE  \E s \in Statuses \ {NoStatus} : ChildGoes(j, s)
  BY StatusFacts DEF ChildExecFails, ChildEof, ChildDies, ChildGoes

LEMMA StepCases ==
  ASSUME [Next]_vars
  PROVE  \/ Begin \/ Pipe \/ Fork \/ Fdopen \/ Fmemopen \/ Emit \/ Write \/ WriteEPIPE
         \/ WriteSIGPIPE \/ ParseError \/ Exit \/ ParseDone \/ Fclose \/ Wait
         \/ \E what \in Failing : Fail(IF what = "waitpid" THEN "wait" ELSE what, what)
         \/ \E j \in Calls : \/ ChildClose(j) \/ ChildExec(j) \/ ChildRead(j)
                             \/ \E s \in Statuses \ {NoStatus} : ChildGoes(j, s)
         \/ UNCHANGED vars
  BY EndFacts DEF Next, HostStep, HostFails, ChildStep

LEMMA TypeStep ==
  ASSUME IInv, [Next]_vars
  PROVE  TypeOK'
<1> USE GenerateAssumption DEF IInv, TypeOK, Calls, host, kernel, cc
<1>0. pc # "idle" => call \in Calls
  BY DEF Children, TypeOK
<1>1. CASE Begin
  BY <1>1, SMTT(30) DEF Begin
<1>2. CASE Pipe
  BY <1>2 DEF Pipe, Procs
<1>3. CASE Fork
  <2>1. call \in Procs
    BY <1>0, <1>3 DEF Fork, Procs
  <2>2. Inherit(rd) \in [Calls -> SUBSET Procs] /\ Inherit(wr) \in [Calls -> SUBSET Procs]
    BY <2>1 DEF Inherit
  <2>3. QED
    BY <1>3, <2>2 DEF Fork
<1>4. CASE Fdopen
  BY <1>4 DEF Fdopen
<1>5. CASE Fmemopen
  BY <1>5 DEF Fmemopen
<1>6. CASE Emit
  BY <1>6 DEF Emit
<1>7. CASE Write
  <2>1. pipe[call] + 1 \in 0 .. PipeCap /\ pipe' \in [Calls -> 0 .. PipeCap]
    BY <1>0, <1>7, SMTT(30) DEF Write, Flushing
  <2>2. buf' \in 0 .. BufCap
    BY <1>7 DEF Write, Flushing
  <2>3. QED
    BY <1>7, <2>1, <2>2 DEF Write
<1>8. CASE WriteEPIPE
  BY <1>8, SMTT(30) DEF WriteEPIPE, Flushing
<1>9. CASE WriteSIGPIPE
  BY <1>9 DEF WriteSIGPIPE, Without, Procs
<1>10. CASE ParseError
  BY <1>10 DEF ParseError
<1>11. CASE Exit
  BY <1>11 DEF Exit, Without
<1>12. CASE ParseDone
  BY <1>12 DEF ParseDone
<1>13. CASE Fclose
  BY <1>13 DEF Fclose
<1>14. CASE Wait
  <2>1. ret' \in {Result(t) : t \in Statuses}
    BY <1>0, <1>14 DEF Wait
  <2>2. normal' \subseteq Calls /\ child' \in [Calls -> {"none", "forked", "closed", "running", "zombie", "reaped"}]
    BY <1>0, <1>14 DEF Wait
  <2>3. QED
    BY <1>14, <2>1, <2>2 DEF Wait
<1>15. ASSUME NEW what \in Failing, Fail(IF what = "waitpid" THEN "wait" ELSE what, what) PROVE TypeOK'
  BY <1>15 DEF Fail
<1>16. ASSUME NEW j \in Calls, ChildClose(j) PROVE TypeOK'
  BY <1>16 DEF ChildClose
<1>17. ASSUME NEW j \in Calls, ChildExec(j) PROVE TypeOK'
  BY <1>17 DEF ChildExec
<1>18. ASSUME NEW j \in Calls, ChildRead(j) PROVE TypeOK'
  <2>1. pipe[j] + got[j] <= size[j] /\ size[j] \in 0 .. MaxItems /\ pipe[j] \in 0 .. PipeCap
        /\ got[j] \in 0 .. MaxItems
    BY DEF Conserved
  <2>2. got[j] + 1 \in 0 .. MaxItems /\ pipe[j] - 1 \in 0 .. PipeCap
    <3> HIDE DEF IInv, TypeOK
    <3>1. pipe[j] > 0
      BY <1>18 DEF ChildRead
    <3>2. QED
      BY <2>1, <3>1
  <2>3. got' \in [Calls -> 0 .. MaxItems] /\ pipe' \in [Calls -> 0 .. PipeCap]
    BY <1>18, <2>2 DEF ChildRead
  <2>4. QED
    BY <1>18, <2>3 DEF ChildRead
<1>19. ASSUME NEW j \in Calls, NEW s \in Statuses \ {NoStatus}, ChildGoes(j, s) PROVE TypeOK'
  BY <1>19 DEF ChildGoes, ChildEnds, Without
<1>20. CASE UNCHANGED vars
  BY <1>20 DEF vars
<1>21. QED
  BY StepCases, <1>1, <1>2, <1>3, <1>4, <1>5, <1>6, <1>7, <1>8, <1>9, <1>10, <1>11,
     <1>12, <1>13, <1>14, <1>15, <1>16, <1>17, <1>18, <1>19, <1>20

LEMMA UnbornStep ==
  ASSUME IInv, TypeOK', [Next]_vars
  PROVE  Unborn'
<1> USE GenerateAssumption DEF IInv, Unborn, TypeOK, Calls, host, kernel, cc
<1>0. pc # "idle" => call \in Calls
  BY DEF Children, TypeOK
<1>1. CASE Begin
  BY <1>1 DEF Begin
<1>2. CASE Pipe
  BY <1>2 DEF Pipe
<1>3. CASE Fork
  BY <1>3 DEF Fork
<1>4. CASE Fdopen
  BY <1>4 DEF Fdopen
<1>5. CASE Fmemopen
  BY <1>5 DEF Fmemopen
<1>6. CASE Emit
  BY <1>6 DEF Emit
<1>7. CASE Write
  <2>1. \A m \in Calls \ {call} : pipe'[m] = pipe[m]
    BY <1>0, <1>7 DEF Write, Flushing
  <2>2. pc' = pc /\ call' = call /\ child' = child /\ got' = got /\ pc # "pipe"
    BY <1>7 DEF Write, Flushing
  <2>3. QED
    BY <2>1, <2>2
<1>8. CASE WriteEPIPE
  BY <1>8 DEF WriteEPIPE
<1>9. CASE WriteSIGPIPE
  BY <1>9 DEF WriteSIGPIPE
<1>10. CASE ParseError
  BY <1>10 DEF ParseError
<1>11. CASE Exit
  BY <1>11 DEF Exit
<1>12. CASE ParseDone
  BY <1>12 DEF ParseDone
<1>13. CASE Fclose
  BY <1>13 DEF Fclose
<1>14. CASE Wait
  BY <1>14, SMTT(30) DEF Wait
<1>15. ASSUME NEW what \in Failing, Fail(IF what = "waitpid" THEN "wait" ELSE what, what) PROVE Unborn'
  BY <1>15 DEF Fail
<1>16. ASSUME NEW j \in Calls, ChildClose(j) PROVE Unborn'
  BY <1>16 DEF ChildClose
<1>17. ASSUME NEW j \in Calls, ChildExec(j) PROVE Unborn'
  BY <1>17 DEF ChildExec
<1>18. ASSUME NEW j \in Calls, ChildRead(j) PROVE Unborn'
  BY <1>18, SMTT(30) DEF ChildRead
<1>19. ASSUME NEW j \in Calls, NEW s \in Statuses \ {NoStatus}, ChildGoes(j, s) PROVE Unborn'
  BY <1>19 DEF ChildGoes, ChildEnds, Without
<1>20. CASE UNCHANGED vars
  BY <1>20 DEF vars
<1>21. QED
  BY StepCases, <1>1, <1>2, <1>3, <1>4, <1>5, <1>6, <1>7, <1>8, <1>9, <1>10, <1>11,
     <1>12, <1>13, <1>14, <1>15, <1>16, <1>17, <1>18, <1>19, <1>20

LEMMA EndsStep ==
  ASSUME IInv, TypeOK', [Next]_vars
  PROVE  Ends'
<1> USE GenerateAssumption DEF IInv, Ends, TypeOK, Calls, Alive, Host, host, kernel, cc
<1>0. pc # "idle" => call \in Calls
  BY DEF Children, TypeOK
<1>1. CASE Begin
  BY <1>1 DEF Begin
<1>2. CASE Pipe
  <2>1. rd'[call] = {Host} /\ wr'[call] = {Host} /\ ~Alive(call)
    BY <1>0, <1>2 DEF Pipe, Unborn
  <2>2. \A m \in Calls \ {call} : rd'[m] = rd[m]
    BY <1>0, <1>2 DEF Pipe
  <2>3. pc' = "fork" /\ call' = call /\ child' = child
    BY <1>2 DEF Pipe
  <2>4. QED
    BY <2>1, <2>2, <2>3
<1>3. CASE Fork
  BY <1>0, <1>3 DEF Fork, Inherit
<1>4. CASE Fdopen
  BY <1>0, <1>4 DEF Fdopen
<1>5. CASE Fmemopen
  BY <1>0, <1>5 DEF Fmemopen
<1>6. CASE Emit
  BY <1>0, <1>6 DEF Emit
<1>7. CASE Write
  BY <1>0, <1>7 DEF Write
<1>8. CASE WriteEPIPE
  BY <1>0, <1>8 DEF WriteEPIPE
<1>9. CASE WriteSIGPIPE
  BY <1>0, <1>9 DEF WriteSIGPIPE, Without
<1>10. CASE ParseError
  BY <1>0, <1>10 DEF ParseError
<1>11. CASE Exit
  BY <1>0, <1>11 DEF Exit, Without
<1>12. CASE ParseDone
  BY <1>0, <1>12 DEF ParseDone
<1>13. CASE Fclose
  BY <1>0, <1>13 DEF Fclose
<1>14. CASE Wait
  BY <1>0, <1>14 DEF Wait
<1>15. ASSUME NEW what \in Failing, Fail(IF what = "waitpid" THEN "wait" ELSE what, what) PROVE Ends'
  BY <1>0, <1>15 DEF Fail
<1>16. ASSUME NEW j \in Calls, ChildClose(j) PROVE Ends'
  BY <1>16 DEF ChildClose
<1>17. ASSUME NEW j \in Calls, ChildExec(j) PROVE Ends'
  BY <1>17 DEF ChildExec
<1>18. ASSUME NEW j \in Calls, ChildRead(j) PROVE Ends'
  BY <1>18 DEF ChildRead
<1>19. ASSUME NEW j \in Calls, NEW s \in Statuses \ {NoStatus}, ChildGoes(j, s) PROVE Ends'
  <2>1. child'[j] = "zombie" /\ status'[j] = s
    BY <1>19 DEF ChildGoes, ChildEnds
  <2>2. /\ \A m \in Calls \ {j} : child'[m] = child[m] /\ status'[m] = status[m]
        /\ \A m \in Calls : /\ rd'[m] = rd[m] \ {j} /\ wr'[m] = wr[m] \ {j}
    BY <1>19 DEF ChildGoes, ChildEnds, Without
  <2>3. UNCHANGED <<host, pipe, got>>
    BY <1>19 DEF ChildGoes, ChildEnds
  <2>4. \A m \in Calls : Alive(m)' => Alive(m) /\ m # j
    BY <2>1, <2>2
  <2>5. Host # j /\ pc' = pc /\ call' = call
    BY <2>3
  <2>6. \A m \in Calls : Alive(m)' => m \in rd'[m]
    BY <2>2, <2>4, SMTT(30)
  <2>7. pc # "idle" => (Host \in rd[call] => Host \in rd'[call]) /\ (Host \in wr[call] => Host \in wr'[call])
    BY <1>0, <2>2, <2>5
  <2>8. QED
    BY <2>5, <2>6, <2>7
<1>20. CASE UNCHANGED vars
  BY <1>20 DEF vars
<1>21. QED
  BY StepCases, <1>1, <1>2, <1>3, <1>4, <1>5, <1>6, <1>7, <1>8, <1>9, <1>10, <1>11,
     <1>12, <1>13, <1>14, <1>15, <1>16, <1>17, <1>18, <1>19, <1>20

LEMMA ChildrenStep ==
  ASSUME IInv, TypeOK', [Next]_vars
  PROVE  Children'
<1> USE GenerateAssumption DEF IInv, Children, TypeOK, Calls, Alive, Ended, Serving, host, kernel, cc
<1>0. pc # "idle" => call \in Calls
  BY DEF Children, TypeOK
<1>1. CASE Begin
  BY <1>1 DEF Begin, Unborn
<1>2. CASE Pipe
  BY <1>0, <1>2 DEF Pipe, Unborn
<1>3. CASE Fork
  BY <1>0, <1>3 DEF Fork
<1>4. CASE Fdopen
  BY <1>0, <1>4 DEF Fdopen
<1>5. CASE Fmemopen
  BY <1>0, <1>5 DEF Fmemopen
<1>6. CASE Emit
  BY <1>0, <1>6 DEF Emit
<1>7. CASE Write
  BY <1>0, <1>7 DEF Write
<1>8. CASE WriteEPIPE
  BY <1>0, <1>8 DEF WriteEPIPE
<1>9. CASE WriteSIGPIPE
  BY <1>0, <1>9 DEF WriteSIGPIPE, Flushing
<1>10. CASE ParseError
  BY <1>0, <1>10 DEF ParseError
<1>11. CASE Exit
  BY <1>0, <1>11 DEF Exit
<1>12. CASE ParseDone
  BY <1>0, <1>12 DEF ParseDone
<1>13. CASE Fclose
  BY <1>0, <1>13 DEF Fclose
<1>14. CASE Wait
  BY <1>0, <1>14 DEF Wait
<1>15. ASSUME NEW what \in Failing, Fail(IF what = "waitpid" THEN "wait" ELSE what, what) PROVE Children'
  BY <1>0, <1>15 DEF Fail
<1>16. ASSUME NEW j \in Calls, ChildClose(j) PROVE Children'
  <2>1. /\ \A m \in Calls : /\ Alive(m)' <=> Alive(m)
                            /\ m # j => child'[m] = child[m]
        /\ UNCHANGED <<host, status>>
        /\ Alive(j) /\ child'[j] # "zombie"
    BY <1>16 DEF ChildClose
  <2>2. \A m \in Calls : /\ Ended(m)' <=> Ended(m)
                         /\ child'[m] = "zombie" <=> child[m] = "zombie"
                         /\ child'[m] = "none" <=> child[m] = "none"
    BY <1>16, <2>1 DEF ChildClose
  <2>3. QED
    BY <1>0, <2>1, <2>2
<1>17. ASSUME NEW j \in Calls, ChildExec(j) PROVE Children'
  <2>1. /\ \A m \in Calls : /\ Alive(m)' <=> Alive(m)
                            /\ m # j => child'[m] = child[m]
        /\ UNCHANGED <<host, status>>
        /\ Alive(j) /\ child'[j] # "zombie"
    BY <1>17 DEF ChildExec
  <2>2. \A m \in Calls : /\ Ended(m)' <=> Ended(m)
                         /\ child'[m] = "zombie" <=> child[m] = "zombie"
                         /\ child'[m] = "none" <=> child[m] = "none"
    BY <1>17, <2>1 DEF ChildExec
  <2>3. QED
    BY <1>0, <2>1, <2>2
<1>18. ASSUME NEW j \in Calls, ChildRead(j) PROVE Children'
  BY <1>18 DEF ChildRead
<1>19. ASSUME NEW j \in Calls, NEW s \in Statuses \ {NoStatus}, ChildGoes(j, s) PROVE Children'
  BY <1>19, SMTT(30) DEF ChildGoes, ChildEnds, Without
<1>20. CASE UNCHANGED vars
  BY <1>20 DEF vars
<1>21. QED
  BY StepCases, <1>1, <1>2, <1>3, <1>4, <1>5, <1>6, <1>7, <1>8, <1>9, <1>10, <1>11,
     <1>12, <1>13, <1>14, <1>15, <1>16, <1>17, <1>18, <1>19, <1>20

LEMMA ConservedStep ==
  ASSUME IInv, TypeOK', [Next]_vars
  PROVE  Conserved'
<1>00. \A m \in Calls : pipe[m] \in Nat /\ got[m] \in Nat /\ size[m] \in Nat
  BY DEF IInv, TypeOK
<1>000. left \in Nat /\ buf \in Nat
  BY DEF IInv, TypeOK
<1> USE GenerateAssumption DEF IInv, Conserved, TypeOK, Calls, Alive, Ended, Serving, HostGone, Host, host, kernel, cc
<1>0. pc # "idle" => call \in Calls
  BY DEF Children, TypeOK
<1> DEFINE Kept(m) == pipe'[m] = pipe[m] /\ got'[m] = got[m] /\ size'[m] = size[m]
<1>1. CASE Begin
  <2>0. call' \in Calls /\ call' > call /\ size' = [size EXCEPT ![call'] = left'] /\ left' \in Nat
    BY <1>1 DEF Begin
  <2>1. /\ pc' = "pipe" /\ left' = size'[call'] /\ left' \in Nat /\ buf' = 0
        /\ pipe'[call'] = 0 /\ got'[call'] = 0 /\ ~Alive(call')
    BY <1>1, <2>0, ZenonT(60) DEF Begin, Unborn
  <2>2. \A m \in Calls \ {call'} : Kept(m)
    BY <1>1 DEF Begin
  <2>3. child' = child /\ wr' = wr /\ ~HostGone
    BY <1>1 DEF Begin
  <2>4. left' + buf' + pipe'[call'] + got'[call'] = size'[call'] /\ pipe'[call'] + got'[call'] <= size'[call']
    BY <2>1
  <2>5. \A m \in Calls : pipe'[m] + got'[m] <= size'[m]
    BY <2>2, <2>4
  <2>6. \A m \in Calls : Alive(m)' /\ Host \notin wr'[m] => pipe'[m] + got'[m] = size'[m]
    BY <2>1, <2>2, <2>3, ZenonT(60)
  <2>7. ~Serving' /\ pc' \notin {"fclose", "wait"}
    BY <2>1
  <2>8. QED
    <3> HIDE DEF IInv, TypeOK, Serving
    <3>1. QED
      BY <2>1, <2>4, <2>5, <2>6, <2>7
<1>2. CASE Pipe
  BY <1>0, <1>2 DEF Pipe
<1>3. CASE Fork
  <2>1. /\ pc = "fork" /\ pc' = "fdopen"
        /\ \A m \in Calls \ {call} : Alive(m)' = Alive(m)
        /\ UNCHANGED <<call, left, buf, pipe, got, size>>
    BY <1>0, <1>3 DEF Fork
  <2>2. \A m \in Calls : Host \in wr'[m] <=> Host \in wr[m]
    BY <1>0, <1>3 DEF Fork, Inherit
  <2>3. Host \in wr[call]
    BY <2>1 DEF Ends
  <2>4. QED
    BY <1>0, <2>1, <2>2, <2>3
<1>4. CASE Fdopen
  BY <1>0, <1>4 DEF Fdopen
<1>5. CASE Fmemopen
  BY <1>0, <1>5 DEF Fmemopen
<1>6. CASE Emit
  BY <1>0, <1>6 DEF Emit
<1>7. CASE Write
  <2>1. /\ pc \in {"parse", "fclose", "exiting"} /\ buf > 0 /\ buf' = buf - 1
        /\ pipe'[call] = pipe[call] + 1
        /\ \A m \in Calls \ {call} : pipe'[m] = pipe[m]
        /\ UNCHANGED <<pc, call, left, got, size, child, wr>>
    BY <1>0, <1>7 DEF Write, Flushing
  <2>2. Host \in wr[call]
    BY <2>1 DEF Ends
  <2>3. Serving /\ ~HostGone /\ pc # "wait"
    BY <2>1
  <2>4. left + buf + pipe[call] + got[call] <= size[call]
    BY <2>3
  <2>5. left' + buf' + pipe'[call] + got'[call] = left + buf + pipe[call] + got[call]
    <3> HIDE DEF IInv, TypeOK, Conserved
    <3>1. QED
      BY <1>0, <1>00, <1>000, <2>1
  <2>6. pipe'[call] + got'[call] <= size'[call]
    <3> HIDE DEF IInv, TypeOK, Conserved
    <3>1. QED
      BY <1>0, <1>00, <1>000, <2>1, <2>4
  <2>7. QED
    BY <1>0, <2>1, <2>2, <2>3, <2>4, <2>5, <2>6
<1>8. CASE WriteEPIPE
  <2>1. /\ pc \in {"parse", "fclose", "exiting"} /\ buf > 0 /\ buf' = 0 /\ rd[call] = {}
        /\ UNCHANGED <<pc, call, left, pipe, got, size, child, wr>>
    BY <1>0, <1>8 DEF WriteEPIPE, Flushing
  <2>2. ~Alive(call)
    BY <1>0, <2>1 DEF Ends
  <2>3. left' + buf' + pipe'[call] + got'[call] <= size'[call]
    <3>1. left + buf + pipe[call] + got[call] <= size[call]
      <4>1. Serving
        BY <2>1
      <4>2. pc \in {"pipe", "fork"} \/ Serving => left + buf + pipe[call] + got[call] <= size[call]
        OBVIOUS
      <4>3. QED
        BY <4>1, <4>2
    <3> HIDE DEF IInv, TypeOK, Conserved
    <3>2. QED
      BY <1>0, <1>00, <1>000, <2>1, <3>1
  <2>4. QED
    BY <1>0, <2>1, <2>2, <2>3
<1>9. CASE WriteSIGPIPE
  BY <1>0, <1>9 DEF WriteSIGPIPE, Without
<1>10. CASE ParseError
  BY <1>0, <1>10 DEF ParseError
<1>11. CASE Exit
  BY <1>0, <1>11 DEF Exit, Without
<1>12. CASE ParseDone
  BY <1>0, <1>12 DEF ParseDone
<1>13. CASE Fclose
  BY <1>0, <1>13 DEF Fclose, Ends
<1>14. CASE Wait
  BY <1>0, <1>14 DEF Wait
<1>15. ASSUME NEW what \in Failing, Fail(IF what = "waitpid" THEN "wait" ELSE what, what) PROVE Conserved'
  BY <1>0, <1>15 DEF Fail
<1>16. ASSUME NEW j \in Calls, ChildClose(j) PROVE Conserved'
  <2>1. /\ \A m \in Calls : Alive(m)' = Alive(m)
        /\ UNCHANGED <<pc, call, left, buf, pipe, got, size>>
    BY <1>16 DEF ChildClose
  <2>3. \A m \in Calls : Host \in wr'[m] <=> Host \in wr[m]
    <3>1. \A m \in Calls : wr'[m] \in {wr[m], wr[m] \ {j}}
      BY <1>16 DEF ChildClose
    <3>2. Host # j
      OBVIOUS
    <3> HIDE DEF IInv, TypeOK, Conserved
    <3>3. QED
      BY <3>1, <3>2
  <2>2. QED
    BY <1>0, <2>1, <2>3
<1>17. ASSUME NEW j \in Calls, ChildExec(j) PROVE Conserved'
  <2>1. UNCHANGED <<pc, call, left, buf, pipe, got, size, wr>>
    BY <1>17 DEF ChildExec
  <2>2. child[j] = "closed" /\ child'[j] = "running"
        /\ \A m \in Calls \ {j} : child'[m] = child[m]
    BY <1>17 DEF ChildExec
  <2>3. \A m \in Calls : Alive(m)' = Alive(m)
    <3> HIDE DEF IInv, TypeOK, Conserved
    <3>1. QED
      BY <2>2
  <2>4. Conserved
    OBVIOUS
  <2> HIDE DEF IInv, TypeOK, Alive
  <2>5. QED
    BY <1>0, <2>1, <2>3, <2>4
<1>18. ASSUME NEW j \in Calls, ChildRead(j) PROVE Conserved'
  <2>1. /\ pipe'[j] + got'[j] = pipe[j] + got[j]
        /\ \A m \in Calls \ {j} : Kept(m)
        /\ UNCHANGED <<pc, call, left, buf, size, child, wr>>
    BY <1>18 DEF ChildRead
  <2>2. \A m \in Calls : pipe'[m] + got'[m] = pipe[m] + got[m]
    BY <2>1
  <2>3. pc # "idle" => left' + buf' + pipe'[call] + got'[call] = left + buf + pipe[call] + got[call]
    <3>1. SUFFICES ASSUME pc # "idle" PROVE left + buf + pipe'[call] + got'[call] = left + buf + pipe[call] + got[call]
      BY <2>1
    <3>2. pipe'[call] \in Nat /\ got'[call] \in Nat /\ pipe'[call] + got'[call] = pipe[call] + got[call]
      BY <1>0, <2>2, <3>1
    <3> HIDE DEF IInv, TypeOK, Conserved
    <3>3. QED
      BY <1>0, <1>00, <1>000, <3>1, <3>2
  <2>4. QED
    BY <1>0, <2>1, <2>2, <2>3
<1>19. ASSUME NEW j \in Calls, NEW s \in Statuses \ {NoStatus}, ChildGoes(j, s) PROVE Conserved'
  <2>1. \A m \in Calls : Host \in wr'[m] <=> Host \in wr[m]
    <3>1. \A m \in Calls : wr'[m] = wr[m] \ {j}
      BY <1>19 DEF ChildGoes, ChildEnds, Without
    <3>2. Host # j
      OBVIOUS
    <3> HIDE DEF IInv, TypeOK, Conserved
    <3>3. QED
      BY <3>1, <3>2
  <2>2. \A m \in Calls : Alive(m)' => Alive(m)
    BY <1>19 DEF ChildGoes, ChildEnds
  <2>3. UNCHANGED <<pc, call, left, buf, pipe, got, size>>
    BY <1>19 DEF ChildGoes, ChildEnds
  <2>4. QED
    BY <1>0, <2>1, <2>2, <2>3
<1>20. CASE UNCHANGED vars
  BY <1>20 DEF vars
<1>21. QED
  BY StepCases, <1>1, <1>2, <1>3, <1>4, <1>5, <1>6, <1>7, <1>8, <1>9, <1>10, <1>11,
     <1>12, <1>13, <1>14, <1>15, <1>16, <1>17, <1>18, <1>19, <1>20

LEMMA DispositionStep ==
  ASSUME IInv, TypeOK', [Next]_vars
  PROVE  Disposition'
<1> USE GenerateAssumption DEF IInv, Disposition, TypeOK, host, kernel, cc
<1>1. CASE Begin
  BY <1>1 DEF Begin
<1>2. CASE Pipe
  BY <1>2 DEF Pipe
<1>3. CASE Fork
  BY <1>3 DEF Fork
<1>4. CASE Fdopen
  BY <1>4 DEF Fdopen
<1>5. CASE Fmemopen
  BY <1>5 DEF Fmemopen
<1>6. CASE Emit
  BY <1>6 DEF Emit
<1>7. CASE Write
  BY <1>7 DEF Write
<1>8. CASE WriteEPIPE
  BY <1>8 DEF WriteEPIPE
<1>9. CASE WriteSIGPIPE
  BY <1>9 DEF WriteSIGPIPE
<1>10. CASE ParseError
  BY <1>10 DEF ParseError
<1>11. CASE Exit
  BY <1>11 DEF Exit
<1>12. CASE ParseDone
  BY <1>12 DEF ParseDone
<1>13. CASE Fclose
  BY <1>13 DEF Fclose
<1>14. CASE Wait
  BY <1>14 DEF Wait
<1>15. ASSUME NEW what \in Failing, Fail(IF what = "waitpid" THEN "wait" ELSE what, what) PROVE Disposition'
  BY <1>15 DEF Fail
<1>16. ASSUME NEW j \in Calls, ChildClose(j) PROVE Disposition'
  BY <1>16 DEF ChildClose
<1>17. ASSUME NEW j \in Calls, ChildExec(j) PROVE Disposition'
  BY <1>17 DEF ChildExec
<1>18. ASSUME NEW j \in Calls, ChildRead(j) PROVE Disposition'
  BY <1>18 DEF ChildRead
<1>19. ASSUME NEW j \in Calls, NEW s \in Statuses \ {NoStatus}, ChildGoes(j, s) PROVE Disposition'
  BY <1>19 DEF ChildGoes, ChildEnds, Without
<1>20. CASE UNCHANGED vars
  BY <1>20 DEF vars
<1>21. QED
  BY StepCases, <1>1, <1>2, <1>3, <1>4, <1>5, <1>6, <1>7, <1>8, <1>9, <1>10, <1>11,
     <1>12, <1>13, <1>14, <1>15, <1>16, <1>17, <1>18, <1>19, <1>20

LEMMA OutcomeStep ==
  ASSUME IInv, TypeOK', [Next]_vars
  PROVE  Outcome'
<1> USE GenerateAssumption DEF IInv, Outcome, CutShortForCause, TypeOK, Calls, host, kernel, cc
<1>0. pc # "idle" => call \in Calls
  BY DEF Children, TypeOK
<1>00. TypeOK /\ Outcome
  BY DEF IInv
<1>1. CASE Begin
  <2>0. call' \in Calls /\ call' > call
    BY <1>1 DEF Begin
  <2>1. status[call'] # Exited(0) /\ call' \in Calls
    BY <2>0, StatusFacts DEF Unborn, Children, Ended
  <2>2. \A m \in Calls \ {call'} : size'[m] = size[m]
    BY <1>1 DEF Begin
  <2>3. QED
    BY <1>1, <2>1, <2>2 DEF Begin
<1>2. CASE Pipe
  BY <1>0, <1>2 DEF Pipe
<1>3. CASE Fork
  BY <1>0, <1>3 DEF Fork
<1>4. CASE Fdopen
  BY <1>0, <1>4 DEF Fdopen
<1>5. CASE Fmemopen
  BY <1>0, <1>5 DEF Fmemopen
<1>6. CASE Emit
  BY <1>0, <1>6 DEF Emit
<1>7. CASE Write
  BY <1>0, <1>7 DEF Write
<1>8. CASE WriteEPIPE
  BY <1>0, <1>8 DEF WriteEPIPE
<1>9. CASE WriteSIGPIPE
  <2>1. pc \in {"parse", "fclose", "exiting"} /\ buf > 0 /\ rd[call] = {} /\ sigpipe = "default"
    BY <1>9 DEF WriteSIGPIPE, Flushing
  <2>2. child[call] = "zombie" /\ normal = {}
    BY <1>0, <2>1 DEF Ends, Children, Serving, Alive, Disposition
  <2>3. got[call] < size[call]
    <3>1. left + buf + pipe[call] + got[call] <= size[call]
      BY <2>1 DEF Conserved, Serving
    <3>2. left \in Nat /\ buf \in Nat /\ pipe[call] \in Nat /\ got[call] \in Nat /\ size[call] \in Nat
      <4>1. call \in Calls
        BY <1>0, <2>1
      <4> HIDE DEF IInv
      <4>2. QED
        BY <4>1, <1>00
    <3> HIDE DEF IInv, TypeOK
    <3>3. QED
      BY <2>1, <3>1, <3>2
  <2>4. pc' = "killed" /\ UNCHANGED <<call, ret, size, normal, child, status, got>>
    BY <1>9 DEF WriteSIGPIPE
  <2>5. QED
    BY <2>2, <2>3, <2>4
<1>10. CASE ParseError
  BY <1>0, <1>10 DEF ParseError
<1>11. CASE Exit
  BY <1>0, <1>11 DEF Exit
<1>12. CASE ParseDone
  BY <1>0, <1>12 DEF ParseDone
<1>13. CASE Fclose
  BY <1>0, <1>13 DEF Fclose
<1>14. CASE Wait
  <2>1. child[call] = "zombie" /\ status[call] # NoStatus /\ status[call] \in Statuses
    BY <1>0, <1>14 DEF Wait, Children, Ended
  <2>2. ret' = 0 => status[call] = Exited(0)
    BY <1>14, <2>1, StatusFacts DEF Wait
  <2>3. pc' = "idle" /\ pc = "wait" /\ UNCHANGED <<call, size, status, got>>
    BY <1>14 DEF Wait
  <2>4. QED
    BY <2>2, <2>3
<1>15. ASSUME NEW what \in Failing, Fail(IF what = "waitpid" THEN "wait" ELSE what, what) PROVE Outcome'
  <2>1. pc' = "idle" /\ ret' = 1 /\ UNCHANGED <<call, size, status, got>>
    BY <1>15 DEF Fail
  <2>2. pc # "killed" /\ pc # "exited"
    BY <1>15 DEF Fail
  <2> HIDE DEF IInv, TypeOK
  <2>3. QED
    BY <1>00, <2>1, <2>2
<1>16. ASSUME NEW j \in Calls, ChildClose(j) PROVE Outcome'
  <2>1. UNCHANGED <<pc, call, ret, size, normal, status, got>>
    BY <1>16 DEF ChildClose
  <2>2. call \in Calls /\ child[call] = "zombie" => child'[call] = "zombie"
    BY <1>16 DEF ChildClose
  <2> HIDE DEF IInv, TypeOK
  <2>3. QED
    BY <1>0, <1>00, <2>1, <2>2
<1>17. ASSUME NEW j \in Calls, ChildExec(j) PROVE Outcome'
  <2>1. UNCHANGED <<pc, call, ret, size, normal, status, got>>
    BY <1>17 DEF ChildExec
  <2>2. call \in Calls /\ child[call] = "zombie" => child'[call] = "zombie"
    BY <1>17 DEF ChildExec
  <2> HIDE DEF IInv, TypeOK
  <2>3. QED
    BY <1>0, <1>00, <2>1, <2>2
<1>18. ASSUME NEW j \in Calls, ChildRead(j) PROVE Outcome'
  <2>1. child[j] = "running" /\ status[j] = NoStatus
    BY <1>18 DEF ChildRead, Children, Ended
  <2>2. \A m \in Calls \ {j} : got'[m] = got[m]
    BY <1>18 DEF ChildRead
  <2>3. UNCHANGED <<host, child, status>>
    BY <1>18 DEF ChildRead
  <2>4. status[j] # Exited(0)
    BY <2>1, StatusFacts
  <2>5. pc = "killed" => call \in Calls \ {j}
    BY <1>0, <2>1
  <2>6. QED
    BY <2>1, <2>2, <2>3, <2>4, <2>5
<1>19. ASSUME NEW j \in Calls, NEW s \in Statuses \ {NoStatus}, ChildGoes(j, s) PROVE Outcome'
  <2>1. /\ child'[j] = "zombie" /\ status'[j] = s
        /\ \A m \in Calls \ {j} : child'[m] = child[m] /\ status'[m] = status[m]
        /\ UNCHANGED <<host, pipe, got>>
    BY <1>19 DEF ChildGoes, ChildEnds
  <2>2. child[j] \in {"closed", "running"} /\ status[j] = NoStatus
    BY <1>19 DEF ChildGoes, Children, Ended
  <2>3. s = Exited(0) => got[j] = size[j] \/ HostGone
    <3>1. SUFFICES ASSUME s = Exited(0), ~HostGone PROVE got[j] = size[j]
      OBVIOUS
    <3>2. pipe[j] = 0 /\ wr[j] = {}
      BY <1>19, <3>1 DEF ChildGoes
    <3>3. pipe[j] + got[j] = size[j]
      BY <2>2, <3>1, <3>2 DEF Conserved, Alive
    <3>4. QED
      BY <3>2, <3>3
  <2>4. pc = "idle" /\ call > 0 /\ ret = 0 => call \in Calls \ {j}
    BY <2>2, StatusFacts
  <2>5. pc = "killed" => call \in Calls \ {j}
    BY <1>0, <2>2
  <2>6. QED
    BY <2>1, <2>3, <2>4, <2>5, SMTT(30) DEF HostGone
<1>20. CASE UNCHANGED vars
  BY <1>20 DEF vars
<1>21. QED
  BY StepCases, <1>1, <1>2, <1>3, <1>4, <1>5, <1>6, <1>7, <1>8, <1>9, <1>10, <1>11,
     <1>12, <1>13, <1>14, <1>15, <1>16, <1>17, <1>18, <1>19, <1>20

-----------------------------------------------------------------------------
LEMMA IInvInit == Init => IInv
<1> SUFFICES ASSUME Init PROVE IInv
  OBVIOUS
<1> USE GenerateAssumption DEF Init, Calls
<1>1. NoStatus \in Statuses /\ NoStatus # Exited(0)
  BY StatusFacts DEF NoStatus, Exited
<1>2. TypeOK
  <2>1. /\ pc = "idle" /\ call \in 0 .. MaxCalls /\ sigpipe \in {"default", "ignored"}
        /\ left \in 0 .. MaxItems /\ buf \in 0 .. BufCap /\ ret \in {0, 1}
    OBVIOUS
  <2>5. bad \in BOOLEAN /\ normal \subseteq Calls
    OBVIOUS
  <2>6. size \in [Calls -> 0 .. MaxItems]
    OBVIOUS
  <2>2. rd \in [Calls -> SUBSET Procs] /\ wr \in [Calls -> SUBSET Procs]
    OBVIOUS
  <2>3. /\ pipe \in [Calls -> 0 .. PipeCap] /\ got \in [Calls -> 0 .. MaxItems]
        /\ status \in [Calls -> Statuses]
    BY <1>1
  <2>4. QED
    BY <2>1, <2>2, <2>3, <2>5, <2>6 DEF TypeOK
<1>3. Unborn /\ Ends /\ Conserved /\ Disposition
  BY DEF Unborn, Ends, Conserved, Disposition, Alive, Serving
<1>4. Children /\ Outcome
  BY <1>1 DEF Children, Outcome, CutShortForCause, Ended, Serving
<1>5. QED
  BY <1>2, <1>3, <1>4 DEF IInv

LEMMA IInvStep == IInv /\ [Next]_vars => IInv'
<1> SUFFICES ASSUME IInv, [Next]_vars PROVE IInv'
  OBVIOUS
<1>1. TypeOK'
  BY TypeStep
<1>2. QED
  BY <1>1, UnbornStep, EndsStep, ChildrenStep, ConservedStep, DispositionStep, OutcomeStep DEF IInv

(* The variables of host, kernel and children keep their types: no call    *)
(* writes more than the pipe holds, and no child reads more than there was *)
(* to read.                                                                *)
THEOREM TypeCorrect == Spec => []TypeOK
<1>1. IInv => TypeOK
  BY DEF IInv
<1>2. QED
  BY <1>1, IInvInit, IInvStep, PTL DEF Spec

(* Whatever fails and however host and children take turns, a cc that      *)
(* accepts its input has read the whole program unless the host is gone,   *)
(* and the host dies of SIGPIPE only of a cc that died first, in a process *)
(* where no call has got past its parser.                                  *)
THEOREM PipesAreCutForCause == Spec => []CutShortForCause
<1>1. IInv => CutShortForCause
  BY DEF IInv, Outcome
<1>2. QED
  BY <1>1, IInvInit, IInvStep, PTL DEF Spec

(* qbe_generate returns 0 only if cc accepted the whole program, whatever  *)
(* earlier calls left behind.                                              *)
THEOREM SuccessIsComplete == Spec => []SuccessComplete
<1>1. ASSUME IInv PROVE SuccessComplete
  <2> SUFFICES ASSUME pc = "idle", call > 0, ret = 0
               PROVE  status[call] = Exited(0) /\ got[call] = size[call]
    BY DEF SuccessComplete
  <2>1. status[call] = Exited(0) /\ call \in Calls
    BY <1>1 DEF IInv, Outcome, TypeOK, Calls
  <2>2. QED
    BY <1>1, <2>1 DEF IInv, Outcome, CutShortForCause
<1>2. QED
  BY <1>1, IInvInit, IInvStep, PTL DEF Spec
=============================================================================
