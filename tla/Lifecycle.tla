------------------------------ MODULE Lifecycle ------------------------------
(***************************************************************************)
(* The life of the simulator process around its TCP sessions:              *)
(* Simulator.start, run_forever and stop, the interactive console, and     *)
(* Ctrl-C under asyncio.run.                                               *)
(*                                                                         *)
(* Tasks of one event loop: main (run_forever), the console and a session  *)
(* for each connection.  A thread feeds the lines of stdin to the console. *)
(* The first Ctrl-C cancels main; asyncio.run raises KeyboardInterrupt at  *)
(* any other, and cancels what is left when main is over.                  *)
(***************************************************************************)
EXTENDS Sessions

CONSTANTS
    MaxLines,      \* bound on the lines typed ahead
    MaxInterrupts  \* bound on the Ctrl-C's

ASSUME LifecycleAssumption == MaxLines \in Nat /\ MaxInterrupts \in Nat

VARIABLES
    main,        \* where the task of run_forever is
    cancelled,   \* a Ctrl-C has cancelled main, which has not seen it yet
    interrupts,  \* Ctrl-C's so far
    stopSet,     \* Simulator._stop is set
    console,     \* "off", "reading" (in lines.get) or "ended"
    lines        \* the lines of stdin that the console has not taken; none when
                 \* it never will

lifeVars == <<vars, main, cancelled, interrupts, stopSet, console, lines>>

\* "starting": before the TCP socket listens; "serving": in _stop.wait; "ending": in
\* an await of stop for a task it cancelled; "closing": in wait_closed; "over":
\* returned or raised, and asyncio.run cancels the other tasks; "done": the process
\* has ended.
MainPhases == {"starting", "serving", "ending", "closing", "over", "done"}

\* A wrong line is one that raises; one that does not differs in nothing that is
\* modelled here.
Kinds == {"wrong", "quit", "eof"}

LifeInit ==
    /\ Init
    /\ main = "starting" /\ cancelled = FALSE /\ interrupts = 0
    /\ stopSet = FALSE /\ console = "off" /\ lines = <<>>

-----------------------------------------------------------------------------
(* Simulator.start                                                           *)

\* Both sockets are bound, the loops run, and run_forever starts the console if
\* there is one.
Started(interactive) ==
    /\ main = "starting" /\ ~cancelled
    /\ main' = "serving"
    /\ console' = IF interactive THEN "reading" ELSE "off"
    /\ UNCHANGED <<vars, cancelled, interrupts, stopSet, lines>>

\* A port is taken, or main was cancelled in start: run_forever is left before its
\* try block.
StartFails ==
    /\ main = "starting"
    /\ main' = "over" /\ cancelled' = FALSE
    /\ UNCHANGED <<vars, interrupts, stopSet, console, lines>>

-----------------------------------------------------------------------------
(* The console                                                               *)

\* _start_stdin_reader: the end of stdin is its last line.
Type(kind) ==
    /\ console = "reading"
    /\ Len(lines) < MaxLines
    /\ \A n \in 1 .. Len(lines) : lines[n] # "eof"
    /\ lines' = Append(lines, kind)
    /\ UNCHANGED <<vars, main, cancelled, interrupts, stopSet, console>>

\* Mutant: a line that is wrong ends the console.
EndsOnError(kind) == kind \in Kinds

\* The exception of a wrong line is logged and the console goes on.
EndsConsole(kind) == kind \in {"quit", "eof"}

\* _interactive_console takes a line.
TakeLine ==
    /\ console = "reading"
    /\ lines # <<>>
    /\ stopSet' = (stopSet \/ Head(lines) \in {"quit", "eof"})
    /\ console' = IF EndsConsole(Head(lines)) THEN "ended" ELSE "reading"
    /\ lines' = IF console' = "ended" THEN <<>> ELSE Tail(lines)
    /\ UNCHANGED <<vars, main, cancelled, interrupts>>

-----------------------------------------------------------------------------
(* run_forever and stop                                                      *)

\* Mutant: the console is left to itself.
ConsoleGoesOn == UNCHANGED <<console, lines>>

\* The console is cancelled before anything else is stopped.
CancelConsole ==
    /\ console' = IF console = "reading" THEN "ended" ELSE console
    /\ lines' = <<>>

\* The finally block of run_forever, up to the awaits for the tasks it cancels: the
\* console and the four loops.
BeginStop ==
    /\ main = "serving"
    /\ stopSet \/ cancelled
    /\ main' = "ending" /\ cancelled' = FALSE
    /\ CancelConsole
    /\ UNCHANGED <<vars, interrupts, stopSet>>

\* A cancellation that comes in one of those awaits is taken for that of the awaited
\* task, and forgotten.
CloseServer ==
    /\ main = "ending"
    /\ main' = "closing" /\ cancelled' = FALSE
    /\ Stop
    /\ UNCHANGED <<interrupts, stopSet, console, lines>>

\* wait_closed returns, the UDP endpoint and the event socket are closed, and main
\* returns.
StopDone ==
    /\ main = "closing" /\ ~cancelled
    /\ main' = "over"
    /\ Stopped
    /\ UNCHANGED <<cancelled, interrupts, stopSet, console, lines>>

\* A cancellation in wait_closed ends stop and with it main.
StopCancelled ==
    /\ main = "closing" /\ cancelled
    /\ main' = "over" /\ cancelled' = FALSE
    /\ UNCHANGED <<vars, interrupts, stopSet, console, lines>>

-----------------------------------------------------------------------------
(* asyncio.run                                                               *)

\* Ctrl-C.  After the first one it raises in whatever runs.
Interrupt ==
    /\ main \notin {"over", "done"}
    /\ interrupts < MaxInterrupts
    /\ interrupts' = interrupts + 1
    /\ IF interrupts = 0
       THEN cancelled' = TRUE /\ UNCHANGED <<main, console, lines>>
       ELSE cancelled' = FALSE /\ main' = "over" /\ CancelConsole
    /\ UNCHANGED <<vars, stopSet>>

\* Mutant: a session that waits for a request goes on after its cancellation.
CancelsReply(c) == phase[c] \in {"accepted", "answering"}

Cancellable(c) == phase[c] \in {"accepted", "reading", "answering"}

\* A session is cancelled: before its first step, or in read, sleep or drain, from
\* where it goes to the finally block.
Cancel(c) ==
    /\ Cancellable(c)
    /\ IF phase[c] = "accepted"
       THEN Forgotten(c) /\ UNCHANGED sessions
       ELSE /\ phase' = [phase EXCEPT ![c] = "closing"]
            /\ sessions' = IF sessions = 0 THEN 0 ELSE sessions - 1
            /\ UNCHANGED <<peer, sent, handled, replies>>
    /\ UNCHANGED server

\* All tasks are over, main with what it had left to do, and the loop is closed.
Exit ==
    /\ main = "over"
    /\ \A c \in Clients : phase[c] = "away"
    /\ main' = "done"
    /\ server' = "stopped"
    /\ UNCHANGED <<phase, peer, sent, handled, replies, sessions,
                   cancelled, interrupts, stopSet, console, lines>>

-----------------------------------------------------------------------------

Main == \/ \E interactive \in BOOLEAN : Started(interactive)
        \/ StartFails \/ BeginStop \/ CloseServer \/ StopDone \/ StopCancelled \/ Exit

\* The task of a connection.
Task(c) ==
    /\ \/ main # "over" /\ Session(c)
       \/ main = "over" /\ (Cancel(c) \/ Closed(c))
    /\ UNCHANGED <<main, cancelled, interrupts, stopSet, console, lines>>

Client(c) ==
    /\ \/ main \in {"serving", "ending"} /\ Connect(c)
       \/ Write(c)
       \/ \E how \in {"closed", "reset"} : Leave(c, how)
    /\ UNCHANGED <<main, cancelled, interrupts, stopSet, console, lines>>

LifeNext ==
    \/ Main
    \/ TakeLine
    \/ Interrupt
    \/ \E kind \in Kinds : Type(kind)
    \/ \E c \in Clients : Client(c) \/ Task(c)

\* The event loop runs every task that can go on; clients and the user owe nothing.
LifeFairness ==
    /\ WF_lifeVars(Main) /\ WF_lifeVars(TakeLine)
    /\ \A c \in Clients : WF_lifeVars(Task(c))

LifeSpec == LifeInit /\ [][LifeNext]_lifeVars
LifeFairSpec == LifeSpec /\ LifeFairness

-----------------------------------------------------------------------------
(* Properties                                                                *)

\* A cancellation is pending only while main has an await ahead that sees it, and
\* lines wait only for a console that reads.
LifeTypeOK ==
    /\ TypeOK
    /\ main \in MainPhases
    /\ cancelled \in BOOLEAN /\ stopSet \in BOOLEAN
    /\ cancelled => main \notin {"over", "done"}
    /\ interrupts \in 0 .. MaxInterrupts
    /\ console \in {"off", "reading", "ended"}
    /\ lines \in Seq(Kinds)
    /\ lines # <<>> => console = "reading"

\* Nothing typed reaches the lights of a server that is being stopped, by quit, by
\* the end of stdin or by Ctrl-C, with any number of lines typed ahead.
ConsoleEndsFirst ==
    console = "reading" => main = "serving" /\ server = "up" /\ ~stopSet

\* A quit behind any other lines, the end of stdin and a Ctrl-C at any moment all
\* bring the server down: it stops listening for good.
EveryWayStops ==
    (interrupts > 0 \/ (console = "reading" /\ \E n \in 1 .. Len(lines) : lines[n] \in {"quit", "eof"}))
        ~> (server # "up")

\* Two Ctrl-C's end the process although clients stay connected, whenever they come:
\* even if one is taken for the cancellation of a loop.
SecondInterruptEnds == (interrupts >= 2) ~> (main = "done")

=============================================================================
