-------------------------- MODULE ProcessTransport --------------------------
(***************************************************************************)
(* client/process.go: a StdioTransport over the pipes of a child process.  *)
(* Start spawns the child and creates the transport; Close, which holds mu *)
(* from beginning to end, closes the transport first and then interrupts,  *)
(* awaits and kills the child; Wait gives the application the end of the   *)
(* child, and the library closes the parent's ends of the pipes with it.   *)
(*                                                                         *)
(* Close and Wait both call cmd.Wait of one exec.Cmd.  Of two such calls   *)
(* at once one is given the state of the child; both then ask for the      *)
(* result of the goroutine that watches the context, which sends it once.  *)
(* A context that cannot be cancelled is not watched.                      *)
(*                                                                         *)
(* The child is the environment: it prints lines, reads its input, heeds   *)
(* the interrupt or not, and exits when it likes.  The Process starts at   *)
(* most once; where spawned is FALSE the StdioTransport runs alone.        *)
(***************************************************************************)
EXTENDS StdioTransport

CONSTANT ChildWorkloads     \* bounds: what the child may print and how many
                            \* messages may be sent to it

\* The child's messages have numbers that a transport's may have.
ASSUME ChildAssumption ==
    \A w \in ChildWorkloads : /\ w.lines \in Seq(LineKinds)
                              /\ w.sends \in Nat
                              /\ 1 .. (w.sends + Len(w.lines)) \subseteq Messages

VARIABLES
    spawned,    \* the transport belongs to a process
    child,      \* the child: "none", "running" or "exited"
    printed,    \* the lines the child has written to its standard output
    pipesOpen,  \* the parent's ends of the pipes
    cmd,        \* pt.cmd is set
    reaped,     \* cmd.ProcessState is set
    wait,       \* wait[w]: the cmd.Wait of the application or of cleanup
    watcher,    \* the goroutine that watches the context, and its result
    stage,      \* Close, which holds mu unless it is at "none" or "returned"
    parentDone  \* the context given to Start is done

procVars == <<spawned, child, printed, pipesOpen, cmd, reaped, wait, watcher,
              stage, parentDone>>
allVars == <<scanner, lines, hand, chan, sends, accepted, got, written,
             broken, ctxDone, closer, spawned, child, printed, pipesOpen, cmd,
             reaped, wait, watcher, stage, parentDone>>

Waiters == {"application", "cleanup"}

InChildWorkload(ls, n) ==
    \E w \in ChildWorkloads : /\ n <= w.sends
                              /\ Len(ls) <= Len(w.lines)
                              /\ ls = SubSeq(w.lines, 1, Len(ls))

Unlocked == stage \in {"none", "returned"}

(***************************************************************************)
(* The child                                                               *)
(***************************************************************************)
ChildPrints ==
    /\ child = "running"
    /\ \E k \in LineKinds :
          /\ InChildWorkload(Append(printed, k), sends)
          /\ printed' = Append(printed, k)
    /\ UNCHANGED <<vars, spawned, child, pipesOpen, cmd, reaped, wait, watcher,
                   stage, parentDone>>

ChildExits ==
    /\ child = "running"
    /\ child' = "exited"
    /\ UNCHANGED <<vars, spawned, printed, pipesOpen, cmd, reaped, wait, watcher,
                   stage, parentDone>>

\* The context is done, and with it the transport; the goroutine that
\* exec.CommandContext leaves behind kills the child.
ContextCancelled ==
    /\ watcher # "none"
    /\ ~parentDone
    /\ parentDone' = TRUE
    /\ ctxDone' = TRUE
    /\ UNCHANGED <<scanner, lines, hand, chan, sends, accepted, got, written,
                   broken, closer, spawned, child, printed, pipesOpen, cmd,
                   reaped, wait, watcher, stage>>

ContextKills == parentDone /\ ChildExits

(***************************************************************************)
(* The transport over the pipes                                            *)
(***************************************************************************)
\* A line comes from what the child has printed, also after its end, until
\* the pipe is closed.
ScansOutput ==
    /\ pipesOpen
    /\ Len(lines) < Len(printed)
    /\ Scans(printed[Len(lines) + 1])
    /\ UNCHANGED procVars

\* Scan reports the end of the output, or a pipe closed under it.
OutputAtEnd ==
    /\ child # "none"
    /\ pipesOpen => child = "exited" /\ Len(lines) = Len(printed)

ReadsPipe ==
    /\ \/ (scanner = "scanning" => OutputAtEnd) /\ ScannerEnds
       \/ ReadLoopTakes
       \/ ReadLoopPuts
       \/ ReadLoopEnds
    /\ UNCHANGED procVars

\* A write ends when the child reads its input, or fails because it has gone.
WritesPipe ==
    /\ \/ child = "running" /\ WriteLoopWrites
       \/ child = "exited" /\ WriteLoopFails
    /\ UNCHANGED procVars

SendsToChild ==
    /\ child # "none"
    /\ InChildWorkload(printed, sends + 1)
    /\ Accepts
    /\ UNCHANGED procVars

(***************************************************************************)
(* Start, Wait and Close                                                   *)
(***************************************************************************)
\* Start finds no cmd and spawns the child; the transport begins as it is.  A
\* Start that fails leaves nothing behind.
Start ==
    /\ Unlocked
    /\ ~cmd
    /\ child = "none"
    /\ child' = "running"
    /\ pipesOpen' = TRUE
    /\ cmd' = TRUE
    /\ watcher' \in {"none", "watching"}
    /\ UNCHANGED <<vars, spawned, printed, reaped, wait, stage, parentDone>>

\* Wait reads cmd under the lock, and calls its Wait without.
WaitBegins ==
    /\ Unlocked
    /\ cmd
    /\ wait["application"] = "none"
    /\ wait' = [wait EXCEPT !["application"] = "called"]
    /\ UNCHANGED <<vars, spawned, child, printed, pipesOpen, cmd, reaped,
                   watcher, stage, parentDone>>

\* Close takes mu and begins with StdioTransport.Close.
CloseBegins ==
    /\ stage = "none"
    /\ child # "none"
    /\ CloseCancels
    /\ stage' = "transport"
    /\ UNCHANGED <<spawned, child, printed, pipesOpen, cmd, reaped, wait,
                   watcher, parentDone>>

\* cleanup: the interrupt, and a goroutine that waits for the child.
CleanupSignals ==
    /\ stage = "transport"
    /\ closer = "closed"
    /\ stage' = "grace"
    /\ wait' = [wait EXCEPT !["cleanup"] = "called"]
    /\ UNCHANGED <<vars, spawned, child, printed, pipesOpen, cmd, reaped,
                   watcher, parentDone>>

\* Mutated form: the child is interrupted once more and not killed.
CleanupInsists ==
    /\ stage = "grace"
    /\ stage' = "killed"
    /\ UNCHANGED <<vars, spawned, child, printed, pipesOpen, cmd, reaped, wait,
                   watcher, parentDone>>

\* Five seconds are over before done is received: the child is killed, if there
\* still is one.
CleanupKills ==
    /\ stage = "grace"
    /\ child' = "exited"
    /\ stage' = "killed"
    /\ UNCHANGED <<vars, spawned, printed, pipesOpen, cmd, reaped, wait,
                   watcher, parentDone>>

\* Mutated form: Close does not wait for the child when the grace is over.
CleanupGivesUp ==
    /\ stage \in {"grace", "killed"}
    /\ stage' = "returned"
    /\ cmd' = FALSE
    /\ UNCHANGED <<vars, spawned, child, printed, pipesOpen, reaped, wait,
                   watcher, parentDone>>

\* done is received once the goroutine's Wait has returned; cmd is cleared.
CleanupEnds ==
    /\ stage \in {"grace", "killed"}
    /\ wait["cleanup"] = "returned"
    /\ stage' = "returned"
    /\ cmd' = FALSE
    /\ UNCHANGED <<vars, spawned, child, printed, pipesOpen, reaped, wait,
                   watcher, parentDone>>

(***************************************************************************)
(* cmd.Wait                                                                *)
(***************************************************************************)
\* A process that has been waited for is an error, at once.
WaitChecks(w) ==
    /\ wait[w] = "called"
    /\ wait' = [wait EXCEPT ![w] = IF reaped THEN "returned" ELSE "reaping"]
    /\ UNCHANGED <<vars, spawned, child, printed, pipesOpen, cmd, reaped,
                   watcher, stage, parentDone>>

\* The child has ended.  One of two calls is given its state and sets ProcessState;
\* the other is given an error and clears it, before or after.
WaitReaps(w) ==
    /\ wait[w] = "reaping"
    /\ child = "exited"
    /\ wait' = [wait EXCEPT ![w] = "result"]
    /\ \/ reaped' = TRUE
       \/ /\ reaped \/ \E v \in Waiters \ {w} : wait[v] = "reaping"
          /\ reaped' = FALSE
    /\ UNCHANGED <<vars, spawned, child, printed, pipesOpen, cmd, watcher,
                   stage, parentDone>>

\* The result of who watches the context is there for one; the pipes are closed,
\* read or not.
WaitReturns(w) ==
    /\ wait[w] = "result"
    /\ watcher \in {"none", "watching"}
    /\ watcher' = IF watcher = "none" THEN "none" ELSE "sent"
    /\ wait' = [wait EXCEPT ![w] = "returned"]
    /\ pipesOpen' = FALSE
    /\ UNCHANGED <<vars, spawned, child, printed, cmd, reaped, stage, parentDone>>

WaitStep(w) == WaitChecks(w) \/ WaitReaps(w) \/ WaitReturns(w)

\* IsRunning asks cmd and its ProcessState, and not the system.
IsRunning == cmd /\ ~reaped

(***************************************************************************)
(* The specification                                                       *)
(***************************************************************************)
ProcessInit ==
    /\ Init
    /\ spawned \in BOOLEAN
    /\ child = "none"
    /\ printed = <<>>
    /\ pipesOpen = FALSE
    /\ cmd = FALSE
    /\ reaped = FALSE
    /\ wait = [w \in Waiters |-> "none"]
    /\ watcher = "none"
    /\ stage = "none"
    /\ parentDone = FALSE

Cleanup == CleanupSignals \/ CleanupKills \/ CleanupEnds

\* What the goroutines of a StdioTransport do whatever is at its ends.
GoroutineSteps ==
    \/ Router
    \/ \E g \in Bridges : Bridge(g)
    \/ \E g \in Goroutines : SeesDone(g)
    \/ \E k \in {"request", "notification"} : AppReceives(k)
    \/ WriteLoopTakes
    \/ CloseChannels

ProcessNext ==
    \/ ~spawned /\ Next /\ UNCHANGED procVars
    \/ spawned /\ \/ GoroutineSteps /\ UNCHANGED procVars
                  \/ ScansOutput
                  \/ ReadsPipe
                  \/ WritesPipe
                  \/ SendsToChild
                  \/ ChildPrints
                  \/ ChildExits
                  \/ ContextCancelled
                  \/ Start
                  \/ WaitBegins
                  \/ \E w \in Waiters : WaitStep(w)
                  \/ CloseBegins
                  \/ Cleanup

ProcessSpec == ProcessInit /\ [][ProcessNext]_allVars

\* The goroutines of the program run; select picks a case that stays ready
\* eventually.  The library's kill and Wait work, and five seconds pass.
ProcessFairness ==
    /\ WF_vars(IF spawned THEN ReadsPipe ELSE ReadLoop)
    /\ WF_vars(spawned /\ ScansOutput)
    /\ WF_vars(Router)
    /\ WF_vars(WriteLoopTakes)
    /\ WF_vars(CloseChannels)
    /\ \A g \in Bridges : WF_vars(Bridge(g))
    /\ \A g \in Goroutines : WF_vars(SeesDone(g))
    /\ \A w \in Waiters : WF_procVars(WaitStep(w))
    /\ WF_procVars(Cleanup)
    /\ WF_procVars(ContextKills)

\* A write ends: the peer reads, or it is a child that has gone.
WritesEnd ==
    WF_vars(IF spawned THEN WritesPipe ELSE WriteLoopWrites \/ WriteLoopFails)

FairProcessSpec ==
    ProcessSpec /\ ProcessFairness /\ AppFairness /\ WritesEnd

\* client.Client, which never reads the channels of its transport.
ClientSpec == ProcessSpec /\ ProcessFairness /\ WritesEnd

\* A peer, or a child, that has stopped reading its input.
StalledChildSpec == ProcessSpec /\ ProcessFairness /\ AppFairness

(***************************************************************************)
(* Properties                                                              *)
(***************************************************************************)
\* Type invariant of the process.
ProcessTypeOK ==
    /\ spawned \in BOOLEAN
    /\ child \in {"none", "running", "exited"}
    /\ printed \in Seq(LineKinds)
    /\ pipesOpen \in BOOLEAN
    /\ cmd \in BOOLEAN
    /\ reaped \in BOOLEAN
    /\ wait \in [Waiters -> {"none", "called", "reaping", "result", "returned"}]
    /\ watcher \in {"none", "watching", "sent"}
    /\ stage \in {"none", "transport", "grace", "killed", "returned"}
    /\ parentDone \in BOOLEAN

\* No child is left behind: one that IsRunning does not report, or whose pipes
\* are closed, has ended, whoever of Close, Wait and the context saw to it, so
\* that a Close that has returned leaves no process.
NoOrphan == child = "running" => IsRunning /\ pipesOpen

\* Wait w has the end of the child and asks for a result that was sent to the
\* other one: nobody will ever send another.
LeftWaiting(w) == wait[w] = "result" /\ watcher = "sent"

\* Close and the application's Wait are not both left like this, only one that
\* overlapped with the other, and not with a child that still runs.
OneLeftWaiting ==
    \A w \in Waiters :
        LeftWaiting(w) => /\ child = "exited"
                          /\ \A v \in Waiters \ {w} : wait[v] = "returned"

\* The type invariant of the process and the safety of Close and Wait, as one
\* invariant.
ProcessInv == ProcessTypeOK /\ NoOrphan /\ OneLeftWaiting

\* Wait has not been called or has returned, or it is the one of two that is left.
Freed(w) == wait[w] \in {"none", "returned"} \/ LeftWaiting(w)

\* Close and the cancellation of the context end the child and free whoever waits
\* for it, unless it is the second of two calls of cmd.Wait; and what a child
\* printed before its end is read, unless Wait or Close has closed the pipe
\* before, a line was too long, or the transport is down.
ProcessEnds ==
    /\ stage = "transport" ~> /\ stage = "returned" \/ LeftWaiting("cleanup")
                              /\ child = "exited"
                              /\ Freed("application")
    /\ parentDone ~> child = "exited" /\ Freed("application")
    /\ child = "exited" ~> \/ lines = printed
                           \/ ~pipesOpen
                           \/ ctxDone
                           \/ \E i \in DOMAIN lines : lines[i] = "long"

\* Close, once begun, returns, and so does an application's Wait.
WaitAndCloseReturn ==
    stage = "transport"
        ~> stage = "returned" /\ wait["application"] \in {"none", "returned"}

\* What a child printed before its end is read, as long as the transport is up
\* and no line is too long.
OutputIsRead ==
    child = "exited" ~> \/ lines = printed
                        \/ ctxDone
                        \/ \E i \in DOMAIN lines : lines[i] = "long"

=============================================================================
