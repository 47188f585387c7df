----------------------------- MODULE Supervise -----------------------------
(***************************************************************************)
(* One task on its agent: execute_task and supervise (agent lib.rs), the   *)
(* pumps of its output, and the guest's log connection through the vsock   *)
(* hub (vsock.rs).                                                         *)
(*                                                                         *)
(* Output reaches the server through bounded channels.  A tokio channel    *)
(* ends for its receiver when every sender of it is dropped, so what       *)
(* matters here is who holds a sender, and until when.  The guest dials    *)
(* at most once; a push or a report is one step, answered or failed.       *)
(***************************************************************************)
EXTENDS Integers, Sequences

CONSTANTS
    Runtimes,    \* the runtimes the agent may have been started with
    Capacity,    \* of each channel: 512 in the code; and of a pipe
    MaxLines,    \* how many lines the sources write, together
    MaxRefused   \* how many pushes the server may refuse

ASSUME SuperviseAssumption ==
    /\ Runtimes \subseteq {"process", "firecracker"}
    /\ Capacity \in Nat \ {0}
    /\ {MaxLines, MaxRefused} \subseteq Nat

Pipes == {"stdout", "stderr"}
Sources == Pipes \cup {"vsock"}
Lines == Sources \X (1 .. MaxLines)

VARIABLES
    step,     \* where execute_task is
    child,    \* the VMM or process
    open,     \* the pipes that it, or a process it left behind, may write to
    conn,     \* the guest's connection and the handler that reads it
    sub,      \* snapshot_on_success's subscription to the completion signal
    written,  \* history: how many lines each source wrote
    buffer,   \* per source: written and not yet read by pump or handler
    pump,     \* per pipe: "reading" holds a sender of the log channel
    broken,   \* history: the pipes whose pump a failed read has ended
    vlog,     \* the task's vsock channel
    inhub,    \* the hub's map holds the sender of vlog
    forward,  \* the forwarder; "on" holds a sender of the log channel, "none"
              \* is never started
    log,      \* the log channel
    pending,  \* supervise's batch
    pushed,   \* history: what the server was sent and accepted
    refused   \* history: how many pushes failed

process == <<child, open>>
pumps == <<pump, broken>>

vars == <<step, process, conn, sub, written, buffer, pumps, vlog, inhub, forward,
          log, pending, pushed, refused>>

\* There is a hub: the agent runs the Firecracker runtime
Hub == forward # "none"

Init ==
    /\ \E runtime \in Runtimes :
          IF runtime = "firecracker"
          THEN forward = "off" /\ inhub = TRUE /\ sub = "watcher"
          ELSE forward = "none" /\ inhub = FALSE /\ sub = "none"
    /\ step = "spawning"        \* after hub.register
    /\ child = "none" /\ open = {}
    /\ conn = "none"
    /\ written = [s \in Sources |-> 0]
    /\ buffer = [s \in Sources |-> <<>>]
    /\ pump = [p \in Pipes |-> "off"]
    /\ broken = {}
    /\ vlog = <<>>
    /\ log = <<>>
    /\ pending = <<>>
    /\ pushed = <<>>
    /\ refused = 0

\* Mutant: off by one
RoomForOneTooMany(channel) == Len(channel) =< Capacity

Room(channel) == Len(channel) < Capacity

-----------------------------------------------------------------------------
(* The guest, or the process and what it leaves behind *)

\* A line on a pipe that is read, or on the connection; both block when full
Write(s) ==
    /\ IF s = "vsock" THEN child = "alive" /\ conn \in {"dialled", "open"}
       ELSE s \in open /\ pump[s] # "ended"
    /\ written["stdout"] + written["stderr"] + written["vsock"] < MaxLines
    /\ Room(buffer[s])
    /\ written' = [written EXCEPT ![s] = @ + 1]
    /\ buffer' = [buffer EXCEPT ![s] = Append(@, <<s, written'[s]>>)]
    /\ UNCHANGED <<step, process, conn, sub, pumps, vlog, inhub, forward, log,
                   pending, pushed, refused>>

Dial ==
    /\ Hub /\ child = "alive" /\ conn = "none"
    /\ conn' = "dialled"
    /\ UNCHANGED <<step, process, sub, written, buffer, pumps, vlog, inhub, forward,
                   log, pending, pushed, refused>>

\* The child ends; processes it started may go on, and hold its pipes
Die ==
    /\ child = "alive"
    /\ child' = "exited"
    /\ UNCHANGED <<step, open, conn, sub, written, buffer, pumps, vlog, inhub,
                   forward, log, pending, pushed, refused>>

\* The last who could write to a pipe closes it: the end of that pipe, which
\* may come before that of the child or after it
Close(p) ==
    /\ p \in open
    /\ open' = open \ {p}
    /\ UNCHANGED <<step, child, conn, sub, written, buffer, pumps, vlog, inhub,
                   forward, log, pending, pushed, refused>>

-----------------------------------------------------------------------------
(* The hub: handle_connection *)

\* sender_for: a connection for a task the hub has forgotten is dropped
Handshake ==
    /\ conn = "dialled"
    /\ conn' = IF inhub THEN "open" ELSE "closed"
    /\ UNCHANGED <<step, process, sub, written, buffer, pumps, vlog, inhub, forward,
                   log, pending, pushed, refused>>

\* Mutant: a line goes straight to the log channel when that has room
HandleFrameOvertaking ==
    /\ conn = "open"
    /\ buffer["vsock"] # <<>>
    /\ IF forward = "on" /\ Room(log)
       THEN log' = Append(log, Head(buffer["vsock"])) /\ vlog' = vlog
       ELSE Room(vlog) /\ vlog' = Append(vlog, Head(buffer["vsock"])) /\ log' = log
    /\ buffer' = [buffer EXCEPT !["vsock"] = Tail(@)]
    /\ UNCHANGED <<step, process, conn, sub, written, pumps, inhub, forward, pending,
                   pushed, refused>>

\* A line goes on to the vsock channel, or the receiver is gone
HandleFrame ==
    /\ conn = "open"
    /\ buffer["vsock"] # <<>>
    /\ \/ /\ forward # "done"
          /\ Room(vlog)
          /\ vlog' = Append(vlog, Head(buffer["vsock"]))
          /\ buffer' = [buffer EXCEPT !["vsock"] = Tail(@)]
          /\ conn' = conn
       \/ /\ forward = "done"
          /\ conn' = "closed"
          /\ UNCHANGED <<vlog, buffer>>
    /\ UNCHANGED <<step, process, sub, written, pumps, inhub, forward, log, pending,
                   pushed, refused>>

\* Mutant: only a Complete frame notifies, the end of a stream does not
NotifiedNobody == sub

\* notify_completion: the subscribers there are now, and no later one
Notified == IF sub = "subscribed" THEN "fired" ELSE sub

(***************************************************************************)
(* The guest's Complete frame, behind its lines, or the end of the stream. *)
(* Both return, and with that drop the handler's sender.                   *)
(***************************************************************************)
Complete ==
    /\ conn = "open"
    /\ buffer["vsock"] = <<>>
    /\ sub' = Notified
    /\ conn' = "closed"
    /\ UNCHANGED <<step, process, written, buffer, pumps, vlog, inhub, forward, log,
                   pending, pushed, refused>>

\* snapshot_on_success, spawned before the VMM, gets to run
Subscribe ==
    /\ sub = "watcher"
    /\ sub' = "subscribed"
    /\ UNCHANGED <<step, process, conn, written, buffer, pumps, vlog, inhub, forward,
                   log, pending, pushed, refused>>

-----------------------------------------------------------------------------
(* execute_task *)

Spawn ==
    /\ step = "spawning"
    /\ child' = "alive" /\ open' = Pipes
    /\ step' = "running"
    /\ UNCHANGED <<conn, sub, written, buffer, pumps, vlog, inhub, forward, log,
                   pending, pushed, refused>>

\* Spawn failed, Failed was reported: on to the clean-up
SpawnFails ==
    /\ step = "spawning"
    /\ step' = "reported"
    /\ UNCHANGED <<process, conn, sub, written, buffer, pumps, vlog, inhub, forward,
                   log, pending, pushed, refused>>

\* Running was reported, or the report failed: supervise starts its tasks
StartPumps ==
    /\ step = "running"
    /\ step' = "supervising"
    /\ pump' = [p \in Pipes |-> "reading"]
    /\ forward' = IF Hub THEN "on" ELSE "none"
    /\ UNCHANGED <<process, conn, sub, written, buffer, broken, vlog, inhub, log,
                   pending, pushed, refused>>

\* pump_stream: a line, or the end of the pipe
Pump(p) ==
    /\ pump[p] = "reading"
    /\ \/ /\ buffer[p] # <<>> /\ Room(log)
          /\ log' = Append(log, Head(buffer[p]))
          /\ buffer' = [buffer EXCEPT ![p] = Tail(@)]
          /\ pump' = pump
       \/ /\ buffer[p] = <<>> /\ p \notin open
          /\ pump' = [pump EXCEPT ![p] = "ended"]
          /\ UNCHANGED <<log, buffer>>
    /\ UNCHANGED <<step, process, conn, sub, written, broken, vlog, inhub, forward,
                   pending, pushed, refused>>

\* A read that fails, or a line that is not UTF-8, ends the pump as well, with
\* the pipe open and what is in it unread
PumpBreaks(p) ==
    /\ pump[p] = "reading"
    /\ pump' = [pump EXCEPT ![p] = "ended"]
    /\ broken' = broken \cup {p}
    /\ UNCHANGED <<step, process, conn, sub, written, buffer, vlog, inhub, forward,
                   log, pending, pushed, refused>>

\* The senders of the vsock channel: the hub's and the open connection's
VsockHeld == inhub \/ conn = "open"

\* The forwarder: a line, or the end of the vsock channel
Forward ==
    /\ forward = "on"
    /\ \/ /\ vlog # <<>> /\ Room(log)
          /\ log' = Append(log, Head(vlog))
          /\ vlog' = Tail(vlog)
          /\ forward' = forward
       \/ /\ vlog = <<>> /\ ~VsockHeld
          /\ forward' = "done"
          /\ UNCHANGED <<log, vlog>>
    /\ UNCHANGED <<step, process, conn, sub, written, buffer, pumps, inhub, pending,
                   pushed, refused>>

\* Mutant: the channel is taken for closed as soon as the process is gone
HeldByProcess == child = "alive"

\* Mutant: supervise does not drop its own sender
HeldBySupervise == step = "supervising"

\* The senders of the log channel: the pumps' and the forwarder's
LogHeld == forward = "on" \/ \E p \in Pipes : pump[p] = "reading"

\* rx.recv() has a line
Receive ==
    /\ step = "supervising"
    /\ log # <<>>
    /\ log' = Tail(log)
    /\ pending' = Append(pending, Head(log))
    /\ UNCHANGED <<step, process, conn, sub, written, buffer, pumps, vlog, inhub,
                   forward, pushed, refused>>

\* flush_logs: the batch is gone whether the server took it or not
Flush ==
    /\ pending' = <<>>
    /\ \/ pushed' = pushed \o pending /\ refused' = refused
       \/ /\ pending # <<>> /\ refused < MaxRefused
          /\ pushed' = pushed
          /\ refused' = refused + 1

\* 50 lines, or the tick of 200 ms
FlushBatch ==
    /\ step = "supervising"
    /\ pending # <<>>
    /\ Flush
    /\ UNCHANGED <<step, process, conn, sub, written, buffer, pumps, vlog, inhub,
                   forward, log>>

\* rx.recv() has None: the last flush, then child.wait()
Drain ==
    /\ step = "supervising"
    /\ log = <<>> /\ ~LogHeld
    /\ Flush
    /\ step' = "waiting"
    /\ UNCHANGED <<process, conn, sub, written, buffer, pumps, vlog, inhub, forward, log>>

\* child.wait() returned and the terminal state was reported
ReportExit ==
    /\ step = "waiting"
    /\ child = "exited"
    /\ step' = "reported"
    /\ UNCHANGED <<process, conn, sub, written, buffer, pumps, vlog, inhub, forward,
                   log, pending, pushed, refused>>

\* The watcher is aborted and the hub forgets the task
CleanUp ==
    /\ step = "reported"
    /\ step' = "done"
    /\ inhub' = FALSE
    /\ sub' = "none"
    /\ UNCHANGED <<process, conn, written, buffer, pumps, vlog, forward, log, pending,
                   pushed, refused>>

-----------------------------------------------------------------------------

ExecuteTask ==
    \/ Spawn \/ SpawnFails \/ StartPumps \/ Receive \/ FlushBatch \/ Drain
    \/ ReportExit \/ CleanUp

Next ==
    \/ \E s \in Sources : Write(s)
    \/ Dial \/ Die
    \/ \E p \in Pipes : Close(p)
    \/ Handshake \/ HandleFrame \/ Complete \/ Subscribe
    \/ \E p \in Pipes : Pump(p) \/ PumpBreaks(p)
    \/ Forward
    \/ ExecuteTask

Spec == Init /\ [][Next]_vars

(***************************************************************************)
(* Fairness: every tokio task that can go on does; requests are answered   *)
(* or fail.  Nothing makes the guest write, dial or end, nor anybody close *)
(* a pipe, and no read has to fail.  Receive and FlushBatch are two arms of*)
(* a select that takes either when it can.                                 *)
(***************************************************************************)
Fairness ==
    /\ WF_vars(Spawn \/ SpawnFails) /\ WF_vars(StartPumps)
    /\ WF_vars(Receive) /\ WF_vars(FlushBatch) /\ WF_vars(Drain)
    /\ WF_vars(ReportExit) /\ WF_vars(CleanUp)
    /\ WF_vars(Handshake) /\ WF_vars(HandleFrame) /\ WF_vars(Complete)
    /\ WF_vars(Forward)
    /\ \A p \in Pipes : WF_vars(Pump(p))

FairSpec == Spec /\ Fairness

-----------------------------------------------------------------------------
(* Properties *)

\* The type invariant, with the bound on the channels
TypeOK ==
    /\ step \in {"spawning", "running", "supervising", "waiting", "reported", "done"}
    /\ child \in {"none", "alive", "exited"}
    /\ {open, broken} \subseteq SUBSET Pipes
    /\ conn \in {"none", "dialled", "open", "closed"}
    /\ sub \in {"none", "watcher", "subscribed", "fired"}
    /\ written \in [Sources -> 0 .. MaxLines]
    /\ buffer \in [Sources -> Seq(Lines)]
    /\ pump \in [Pipes -> {"off", "reading", "ended"}]
    /\ {vlog, log, pending, pushed} \subseteq Seq(Lines)
    /\ Len(vlog) =< Capacity /\ Len(log) =< Capacity
    /\ inhub \in BOOLEAN
    /\ forward \in {"none", "off", "on", "done"}
    /\ refused \in 0 .. MaxRefused

\* What the server has, and what supervise has still to send it
Stream == pushed \o pending \o log

Ordered(lines) ==
    \A i, j \in DOMAIN lines :
        i < j /\ lines[i][1] = lines[j][1] => lines[i][2] < lines[j][2]

(***************************************************************************)
(* The lines of one source reach the server in the order it wrote them,    *)
(* through two channels, the batches and the pushes that fail.             *)
(***************************************************************************)
OrderKept == Ordered(Stream)

\* How many lines of a source were read, taken out of its buffer
Taken(s) == written[s] - Len(buffer[s])

\* The first k lines of src are among these
Has(lines, src, k) == \A n \in 1 .. k : \E i \in DOMAIN lines : lines[i] = <<src, n>>

(***************************************************************************)
(* When the terminal state is reported the server has every line that was  *)
(* read of the task's output, unless a push failed; and every line was     *)
(* read that the task or a process it left wrote to a pipe, unless a read  *)
(* of that pipe failed.  Closing the channel before the pumps are done, or *)
(* skipping the last flush, would lose the end.                            *)
(***************************************************************************)
OutputFirst ==
    step \in {"reported", "done"} =>
        \A p \in Pipes :
            /\ refused = 0 => Has(pushed, p, Taken(p))
            /\ p \notin broken => Taken(p) = written[p]

\* Every pipe has come to its end, or its pump did before
PipesDone == open \subseteq broken

(***************************************************************************)
(* A process that has exited is reported when nobody holds its pipes any   *)
(* more: their end reaches supervise, whatever was still buffered.  As     *)
(* long as a process it left behind keeps one open it is not reported.     *)
(***************************************************************************)
ExitReported == child = "exited" /\ PipesDone /\ ~Hub ~> step = "done"

(***************************************************************************)
(* SPEC.md:194: "the VMM's exit status becomes the task's terminal state." *)
(* It does not even when nobody holds the VMM's pipes any more.            *)
(***************************************************************************)
VmmExitReported == child = "exited" /\ PipesDone /\ Hub ~> step = "done"

(***************************************************************************)
(* A watcher that subscribed before the guest's connection ended gets the  *)
(* completion signal, by the guest's Complete frame or by the end of the   *)
(* stream.                                                                 *)
(***************************************************************************)
CompletionSignalled ==
    sub = "subscribed" /\ conn = "open" /\ child = "exited" ~> sub = "fired"
-----------------------------------------------------------------------------
(* What the properties rest on *)

\* Where the phases of execute_task find its channels, its pumps and the process
PhaseOK ==
    /\ step # "supervising" => /\ log = <<>> /\ pending = <<>>
                               /\ forward # "on" /\ \A p \in Pipes : pump[p] # "reading"
    /\ step = "supervising" => \A p \in Pipes : pump[p] # "off"
    /\ step = "spawning" => child = "none"
    /\ step \in {"spawning", "running"} => \A p \in Pipes : pump[p] = "off"
    /\ step = "waiting" => \A p \in Pipes : pump[p] = "ended"
    /\ step \in {"reported", "done"} => child = "none" \/ \A p \in Pipes : pump[p] = "ended"
    /\ child = "none" => open = {} /\ \A s \in Sources : written[s] = 0 /\ buffer[s] = <<>>
    /\ \A p \in Pipes :
          pump[p] = "ended" /\ p \notin broken => p \notin open /\ buffer[p] = <<>>

\* How many lines of a source were put into the log channel
Logged(s) == Taken(s) - (IF s = "vsock" THEN Len(vlog) ELSE 0)

\* Buffers and the vsock channel hold the last lines that were written, in order
BuffersOK ==
    /\ \A s \in Sources :
          /\ Logged(s) >= 0
          /\ \A i \in DOMAIN buffer[s] : buffer[s][i] = <<s, Taken(s) + i>>
    /\ \A i \in DOMAIN vlog : vlog[i] = <<"vsock", Logged("vsock") + i>>

\* What is behind the log channel comes before what is not; nothing is missing
\* as long as no push failed
StreamOK ==
    /\ Ordered(Stream)
    /\ \A s \in Sources : \A i \in DOMAIN Stream :
          Stream[i][1] = s => Stream[i][2] =< Logged(s)
    /\ refused = 0 => \A p \in Pipes : Has(Stream, p, Logged(p))

IInv == TypeOK /\ PhaseOK /\ BuffersOK /\ StreamOK
=============================================================================
