------------------------------- MODULE Process -------------------------------
(***************************************************************************)
(* The process around the event loop: main (src/src/main.c, server_init    *)
(* and server_start of server.c), the terminal's thread (terminal.c), the  *)
(* SIGINT handler, which runs on top of either, and the logging all of     *)
(* them do (logger.c).                                                     *)
(*                                                                         *)
(* A logging call takes several steps.  localtime_r holds a lock of the C  *)
(* library that is not recursive; fprintf appends to the stream's buffer;  *)
(* fflush writes it out, as exit(3) does for every stream.  A line is      *)
(* known by what it is about; a message of several lines, usage()'s and    *)
(* those of one dispatch of the loop are one line here.                    *)
(***************************************************************************)
EXTENDS Integers, Sequences

CONSTANT MaxInterrupts   \* how often SIGINT is sent from outside

ASSUME ProcessAssumption == MaxInterrupts \in Nat

Thread == {"main", "terminal"}
Stream == {"file", "stdout"}

\* LOG_INFO, then LOG_WARN and LOG_ERROR, then EXTRA_LOG_WARN.
Info == {"configured", "listening", "initialized", "entering", "served"}
Reason == {"usage", "init_failed", "wait_failed"}
Warning == Reason \cup {"no_terminal"}
Extra == {"freeze", "unknown", "stop", "stopped"}
Line == Info \cup Warning \cup Extra

VARIABLES
    outfile,    \* was a log file named on the command line
    pc,         \* where main is
    term,       \* where the terminal's thread is
    handled,    \* is handle_signal installed
    freeze_flag,
    log_file,   \* NULL or a stream
    zone,       \* the thread inside localtime_r, or "free"
    calls,      \* of each thread: its logging calls, those of the handler last
    pending,    \* of each stream: the lines in its buffer
    written,    \* of each stream: the lines written out
    interrupts, \* how often SIGINT has been sent from outside
    caught,     \* has the handler been run on a thread inside localtime_r
    ended       \* "no", or how the process ended

vars == <<outfile, pc, term, handled, freeze_flag, log_file, zone, calls,
          pending, written, interrupts, caught, ended>>

Frame == [what : Line, at : {"zone", "zoned", "print", "flush"}]

Init ==
    /\ outfile \in BOOLEAN
    /\ pc = "start"
    /\ term = "none"
    /\ handled = FALSE
    /\ freeze_flag = FALSE
    /\ log_file = "NULL"
    /\ zone = "free"
    /\ calls = [th \in Thread |-> <<>>]
    /\ pending = [f \in Stream |-> {}]
    /\ written = [f \in Stream |-> {}]
    /\ interrupts = 0
    /\ caught = FALSE
    /\ ended = "no"

Running == ended = "no"
InCall(th) == Running /\ calls[th] # <<>>
Free(th) == Running /\ calls[th] = <<>>
InHandler(th) == \E i \in DOMAIN calls[th] : calls[th][i].what = "stopped"

\* The process calls exit(3): every stream is flushed.
ExitsWith(how, buffered) ==
    /\ ended' = how
    /\ written' = [f \in Stream |-> written[f] \cup buffered[f]]
    /\ pending' = [f \in Stream |-> {}]

-----------------------------------------------------------------------------
(* logger.c: log_message and, for the lines of Extra, extra_log_message.   *)

Logging(th, what) ==
    calls' = [calls EXCEPT ![th] = Append(@, [what |-> what, at |-> "zone"])]

Top(th) == calls[th][Len(calls[th])]
Now(th, at) == InCall(th) /\ Top(th).at = at
Reaches(th, at) == calls' = [calls EXCEPT ![th][Len(calls[th])].at = at]

LocaltimeBegins(th) ==
    /\ Now(th, "zone")
    /\ zone = "free"
    /\ zone' = th
    /\ Reaches(th, "zoned")
    /\ UNCHANGED <<outfile, pc, term, handled, freeze_flag, log_file, pending,
                   written, interrupts, caught, ended>>

\* Mutant: the lock is kept.
LocaltimeEndsHolding(th) ==
    /\ Now(th, "zoned")
    /\ Reaches(th, "print")
    /\ UNCHANGED <<outfile, pc, term, handled, freeze_flag, log_file, zone, pending,
                   written, interrupts, caught, ended>>
LocaltimeEnds(th) ==
    /\ Now(th, "zoned")
    /\ zone' = "free"
    /\ Reaches(th, "print")
    /\ UNCHANGED <<outfile, pc, term, handled, freeze_flag, log_file, pending,
                   written, interrupts, caught, ended>>

Copied(what, f) == f = log_file \/ (what \in Extra /\ f = "stdout")
Prints(th) ==
    /\ Now(th, "print")
    /\ LET what == Top(th).what
       IN  pending' = [f \in Stream |-> IF Copied(what, f) THEN pending[f] \cup {what}
                                                           ELSE pending[f]]
    /\ ended' = IF log_file = "NULL" THEN "crashed" ELSE "no"
    /\ Reaches(th, "flush")
    /\ UNCHANGED <<outfile, pc, term, handled, freeze_flag, log_file, zone,
                   written, interrupts, caught>>

\* Mutant: extra_log_message flushes stdout instead of the file.
FlushedStdout(th) == IF Top(th).what \in Extra THEN "stdout" ELSE log_file
Flushed(th) == log_file

\* fflush, and the call returns; after its message the handler exits.
Flushes(th) ==
    /\ Now(th, "flush")
    /\ calls' = [calls EXCEPT ![th] = SubSeq(@, 1, Len(@) - 1)]
    /\ IF Top(th).what = "stopped"
       THEN ExitsWith("success", pending)
       ELSE /\ written' = [written EXCEPT ![Flushed(th)] = @ \cup pending[Flushed(th)]]
            /\ pending' = [pending EXCEPT ![Flushed(th)] = {}]
            /\ UNCHANGED ended
    /\ UNCHANGED <<outfile, pc, term, handled, freeze_flag, log_file, zone,
                   interrupts, caught>>

LogStep(th) == LocaltimeEnds(th) \/ Prints(th) \/ Flushes(th)

-----------------------------------------------------------------------------
(* main                                                                    *)

MainAt(at) == Free("main") /\ pc = at

\* Main logs a line and is at the given place once the call has returned.
Says(what, to) ==
    /\ Logging("main", what)
    /\ pc' = to
    /\ UNCHANGED <<outfile, term, handled, freeze_flag, log_file, zone, pending,
                   written, interrupts, caught, ended>>

LogInit ==
    /\ MainAt("start")
    /\ \/ outfile /\ log_file' = "file"
       \/ log_file' = "stdout"     \* none was named, or it cannot be opened
    /\ pc' = "args"
    /\ UNCHANGED <<outfile, term, handled, freeze_flag, zone, calls, pending,
                   written, interrupts, caught, ended>>

Usage == MainAt("args") /\ Says("usage", "failed")

Sigign ==
    /\ MainAt("args")
    /\ handled' = TRUE
    /\ pc' = "terminal"
    /\ UNCHANGED <<outfile, term, freeze_flag, log_file, zone, calls, pending,
                   written, interrupts, caught, ended>>

TerminalStart ==
    /\ MainAt("terminal")
    /\ \/ Says("no_terminal", "configure")
       \/ /\ term' = "reading"
          /\ pc' = "configure"
          /\ UNCHANGED <<outfile, handled, freeze_flag, log_file, zone, calls,
                         pending, written, interrupts, caught, ended>>

Configured == MainAt("configure") /\ Says("configured", "init")

\* Mutant: one of the failures is returned without a word.
ServerInitSilent ==
    \/ MainAt("init") /\ Says("init_failed", "failed")
    \/ MainAt("init") /\ Says("listening", "epoll")
    \/ /\ MainAt("epoll")
       /\ pc' = "failed"
       /\ UNCHANGED <<outfile, term, handled, freeze_flag, log_file, zone, calls,
                      pending, written, interrupts, caught, ended>>
    \/ MainAt("epoll") /\ Says("initialized", "enter")
\* The resolver, socket, bind or listen fails; then epoll_create may.
ServerInit ==
    \/ MainAt("init") /\ Says("init_failed", "failed")
    \/ MainAt("init") /\ Says("listening", "epoll")
    \/ MainAt("epoll") /\ Says("init_failed", "failed")
    \/ MainAt("epoll") /\ Says("initialized", "enter")

ServerStart ==
    \/ MainAt("enter") /\ Says("entering", "loop")
    \/ MainAt("loop") /\ Says("served", "loop")
    \/ MainAt("loop") /\ Says("wait_failed", "failed")

\* An assertion of a handler fails: abort(3) flushes nothing.
Aborts ==
    /\ MainAt("loop")
    /\ ended' = "aborted"
    /\ UNCHANGED <<outfile, pc, term, handled, freeze_flag, log_file, zone, calls,
                   pending, written, interrupts, caught>>

ReturnsFailure ==
    /\ MainAt("failed")
    /\ ExitsWith("failure", pending)
    /\ UNCHANGED <<outfile, pc, term, handled, freeze_flag, log_file, zone, calls,
                   interrupts, caught>>

Main == \/ LogInit \/ Usage \/ Sigign \/ TerminalStart \/ Configured
        \/ ServerInit \/ ServerStart \/ Aborts \/ ReturnsFailure

-----------------------------------------------------------------------------
(* terminal_thread                                                         *)

\* A line is read from stdin; "stop" leaves the loop.
Command(word) ==
    /\ Free("terminal")
    /\ term = "reading"
    /\ freeze_flag' = IF word = "freeze" THEN ~freeze_flag ELSE freeze_flag
    /\ term' = IF word = "stop" THEN "stopping" ELSE term
    /\ Logging("terminal", word)
    /\ UNCHANGED <<outfile, pc, handled, log_file, zone, pending, written,
                   interrupts, caught, ended>>

EndOfInput ==
    /\ Free("terminal")
    /\ term = "reading"
    /\ term' = "gone"
    /\ UNCHANGED <<outfile, pc, handled, freeze_flag, log_file, zone, calls, pending,
                   written, interrupts, caught, ended>>

\* Mutant: the thread leaves its loop without raising the signal.
RaisesNothing ==
    /\ Free("terminal")
    /\ term = "stopping"
    /\ term' = "gone"
    /\ UNCHANGED <<outfile, pc, handled, freeze_flag, log_file, zone, calls, pending,
                   written, interrupts, caught, ended>>
\* raise(SIGINT) runs the handler on the thread that calls it.
Raises ==
    /\ Free("terminal")
    /\ term = "stopping"
    /\ term' = "gone"
    /\ Logging("terminal", "stopped")
    /\ UNCHANGED <<outfile, pc, handled, freeze_flag, log_file, zone, pending,
                   written, interrupts, caught, ended>>

Terminal == (\E word \in Extra \ {"stopped"} : Command(word)) \/ EndOfInput \/ Raises

-----------------------------------------------------------------------------
(* SIGINT from outside.  The signal is blocked on a thread that is in the  *)
(* handler; the kernel takes the main thread if it can.                    *)

Takes(th) ==
    /\ ~InHandler(th)
    /\ th = "terminal" => InHandler("main") /\ term \in {"reading", "stopping"}

Interrupt ==
    /\ Running
    /\ interrupts < MaxInterrupts
    /\ interrupts' = interrupts + 1
    /\ \/ /\ ~handled
          /\ ended' = "killed"
          /\ UNCHANGED <<calls, caught>>
       \/ /\ handled
          /\ \E th \in Thread :
                /\ Takes(th)
                /\ Logging(th, "stopped")
                /\ caught' = (caught \/ zone = th)
          /\ UNCHANGED ended
    /\ UNCHANGED <<outfile, pc, term, handled, freeze_flag, log_file, zone, pending, written>>

-----------------------------------------------------------------------------
Next == \/ Main \/ Terminal \/ Interrupt
        \/ \E th \in Thread : LocaltimeBegins(th) \/ LogStep(th)

\* Both threads run; a thread that keeps finding the lock free gets it.
Spec == /\ Init /\ [][Next]_vars
        /\ WF_vars(Raises)
        /\ \A th \in Thread : SF_vars(LocaltimeBegins(th)) /\ WF_vars(LogStep(th))

-----------------------------------------------------------------------------
(* Properties *)

TypeOK ==
    /\ outfile \in BOOLEAN
    /\ pc \in {"start", "args", "terminal", "configure", "init", "epoll", "enter",
               "loop", "failed"}
    /\ term \in {"none", "reading", "stopping", "gone"}
    /\ handled \in BOOLEAN
    /\ freeze_flag \in BOOLEAN
    /\ log_file \in Stream \cup {"NULL"}
    /\ zone \in Thread \cup {"free"}
    /\ zone \in Thread => \E i \in DOMAIN calls[zone] : calls[zone][i].at = "zoned"
    /\ calls \in [Thread -> Seq(Frame)]
    /\ pending \in [Stream -> SUBSET Line]
    /\ written \in [Stream -> SUBSET Line]
    /\ interrupts \in 0 .. MaxInterrupts
    /\ caught \in BOOLEAN
    /\ ended \in {"no", "success", "failure", "killed", "aborted", "crashed"}

\* What a thread has logged is in the log when the call has returned, whatever
\* the other thread and the handler do meanwhile: a line that is only in the
\* log's buffer belongs to a call that has not returned.
ReturnedCallsAreWritten ==
    log_file \in Stream =>
        \A line \in pending[log_file] :
            \E th \in Thread : \E i \in DOMAIN calls[th] :
                calls[th][i] = [what |-> line, at |-> "flush"]

\* The log says why the process ended: a failure is explained by one of its
\* reasons (what main.c:127 hopes of server_init), a stop by the handler's
\* line, and no thread logs to a log that is not open.
EndIsExplained ==
    /\ ended = "failure" => written[log_file] \cap Reason # {}
    /\ ended = "success" => "stopped" \in written[log_file]
    /\ ended # "crashed"

\* "stop" and SIGINT end the process, unless SIGINT has found a thread inside
\* localtime_r.
AskedToStop == term = "stopping" \/ \E th \in Thread : InHandler(th)
StopsWhenAsked == AskedToStop ~> (~Running \/ caught)

-----------------------------------------------------------------------------
(* What the comments and the README say, and the code does not do.         *)

\* README.md:175 "type stop or send SIGINT (Ctrl+C) to terminate gracefully":
\* SIGINT ends the process.
InterruptEnds == (\E th \in Thread : InHandler(th)) ~> ~Running
=============================================================================
