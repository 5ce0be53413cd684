---------------------------- MODULE ProcessProofs ----------------------------
(***************************************************************************)
(* Proofs about Process.tla for any number of interrupts: its type         *)
(* invariant, that a logging call that has returned has been written out,  *)
(* and that the log explains how the process ended.  The three are proved  *)
(* together with the facts that make them inductive (IInv).                *)
(***************************************************************************)
EXTENDS Process, TLAPS

\* Nothing logs before log_init.
Fresh == pc = "start" => /\ ~handled
                         /\ term = "none"
                         /\ calls = [th \in Thread |-> <<>>]
                         /\ pending = [f \in Stream |-> {}]
Opened == pc # "start" => log_file \in Stream

\* A line that has been printed is in the log's buffer or out.
Reached == pending[log_file] \cup written[log_file]
PrintedIsThere ==
    \A th \in Thread : \A i \in DOMAIN calls[th] :
        calls[th][i].at = "flush" => calls[th][i].what \in Reached

\* Main gives up only with a reason, which it is logging or has logged.
ReasonGiven ==
    pc = "failed" => \/ \E i \in DOMAIN calls["main"] : calls["main"][i].what \in Reason
                     \/ Reached \cap Reason # {}

IInv == /\ TypeOK /\ Fresh /\ Opened /\ PrintedIsThere /\ ReasonGiven
        /\ ReturnedCallsAreWritten /\ EndIsExplained

-----------------------------------------------------------------------------
(* Stacks of calls *)

\* Pushing a frame leaves the others where they are.
LEMMA Pushed ==
    ASSUME NEW S, NEW s \in Seq(S), NEW e \in S
    PROVE  /\ Append(s, e) \in Seq(S)
           /\ DOMAIN Append(s, e) = 1 .. Len(s) + 1
           /\ \A i \in DOMAIN s : Append(s, e)[i] = s[i]
           /\ Append(s, e)[Len(s) + 1] = e
  OBVIOUS

\* So does popping one.
LEMMA Popped ==
    ASSUME NEW S, NEW s \in Seq(S), s # <<>>
    PROVE  /\ SubSeq(s, 1, Len(s) - 1) \in Seq(S)
           /\ DOMAIN SubSeq(s, 1, Len(s) - 1) = 1 .. Len(s) - 1
           /\ \A i \in 1 .. Len(s) - 1 : SubSeq(s, 1, Len(s) - 1)[i] = s[i]
           /\ Len(s) \in DOMAIN s
  OBVIOUS

\* A thread that starts a logging call disturbs nothing about the others.
LEMMA LoggingKeeps ==
    ASSUME TypeOK, PrintedIsThere, ReturnedCallsAreWritten,
           NEW th \in Thread, NEW what \in Line, Logging(th, what),
           UNCHANGED <<log_file, zone, pending, written>>
    PROVE  /\ calls' \in [Thread -> Seq(Frame)]
           /\ (zone \in Thread => \E i \in DOMAIN calls[zone] : calls[zone][i].at = "zoned")'
           /\ PrintedIsThere' /\ ReturnedCallsAreWritten'
           /\ \A t \in Thread : \A i \in DOMAIN calls[t] :
                 i \in DOMAIN calls'[t] /\ calls'[t][i] = calls[t][i]
           /\ \E i \in DOMAIN calls'[th] : calls'[th][i].what = what
<1> DEFINE e == [what |-> what, at |-> "zone"]
<1>1. e \in Frame
  BY DEF Frame
<1>2. calls[th] \in Seq(Frame) /\ calls \in [Thread -> Seq(Frame)]
  BY DEF TypeOK
<1>3. calls' = [calls EXCEPT ![th] = Append(calls[th], e)]
  BY DEF Logging
<1> HIDE DEF e
<1>4. calls'[th] = Append(calls[th], e) /\ \A t \in Thread \ {th} : calls'[t] = calls[t]
  BY <1>2, <1>3
<1>5. /\ Append(calls[th], e) \in Seq(Frame)
      /\ DOMAIN Append(calls[th], e) = 1 .. Len(calls[th]) + 1
      /\ \A i \in DOMAIN calls[th] : Append(calls[th], e)[i] = calls[th][i]
      /\ Append(calls[th], e)[Len(calls[th]) + 1] = e
  BY <1>1, <1>2, Pushed
<1>6. DOMAIN calls[th] = 1 .. Len(calls[th]) /\ Len(calls[th]) \in Nat
  BY <1>2
<1>7. calls' \in [Thread -> Seq(Frame)]
  BY <1>2, <1>3, <1>5
<1>8. \A t \in Thread : \A i \in DOMAIN calls[t] :
          i \in DOMAIN calls'[t] /\ calls'[t][i] = calls[t][i]
  BY <1>4, <1>5, <1>6, SMTT(40)
<1>9. (zone \in Thread => \E i \in DOMAIN calls[zone] : calls[zone][i].at = "zoned")'
  BY <1>8 DEF TypeOK
<1>10. PrintedIsThere'
  <2> SUFFICES ASSUME NEW t \in Thread, NEW i \in DOMAIN calls'[t],
                      calls'[t][i].at = "flush"
               PROVE  calls'[t][i].what \in Reached
    BY DEF PrintedIsThere, Reached
  <2>1. e.at # "flush"
    BY DEF e
  <2>2. CASE t = th
    <3>1. i \in 1 .. Len(calls[th]) + 1 /\ i # Len(calls[th]) + 1
      BY <2>1, <2>2, <1>4, <1>5
    <3>2. i \in DOMAIN calls[th]
      BY <3>1, <1>6
    <3>3. calls'[th][i] = calls[th][i]
      BY <3>2, <1>4, <1>5
    <3> QED
      BY <2>2, <3>2, <3>3 DEF PrintedIsThere
  <2>3. CASE t # th
    BY <2>3, <1>4 DEF PrintedIsThere
  <2> QED
    BY <2>2, <2>3
<1>11. ReturnedCallsAreWritten'
  BY <1>8 DEF ReturnedCallsAreWritten
<1>12. \E i \in DOMAIN calls'[th] : calls'[th][i].what = what
  <2>1. Len(calls[th]) + 1 \in DOMAIN calls'[th]
    BY <1>4, <1>5, <1>6
  <2>2. calls'[th][Len(calls[th]) + 1].what = what
    BY <1>4, <1>5 DEF e
  <2> QED
    BY <2>1, <2>2
<1> QED
  BY <1>7, <1>8, <1>9, <1>10, <1>11, <1>12

\* A thread whose call goes on has its last frame at the new place; the other
\* frames stay.
LEMMA ReachesKeeps ==
    ASSUME TypeOK, NEW th \in Thread, calls[th] # <<>>,
           NEW at \in {"zone", "zoned", "print", "flush"}, Reaches(th, at)
    PROVE  /\ calls' \in [Thread -> Seq(Frame)]
           /\ \A t \in Thread : DOMAIN calls'[t] = DOMAIN calls[t]
           /\ \A t \in Thread : \A i \in DOMAIN calls[t] :
                 calls'[t][i].what = calls[t][i].what
           /\ \A t \in Thread : \A i \in DOMAIN calls[t] :
                 t # th \/ i # Len(calls[th]) => calls'[t][i] = calls[t][i]
           /\ Len(calls[th]) \in DOMAIN calls[th]
           /\ calls'[th][Len(calls[th])].at = at
<1>1. calls[th] \in Seq(Frame) /\ calls \in [Thread -> Seq(Frame)]
  BY DEF TypeOK
<1>2. Len(calls[th]) \in DOMAIN calls[th] /\ Top(th) \in Frame
  BY <1>1 DEF Top
<1> DEFINE top == [calls[th][Len(calls[th])] EXCEPT !.at = at]
           stack == [calls[th] EXCEPT ![Len(calls[th])] = top]
<1>3. top \in Frame /\ top.at = at /\ top.what = calls[th][Len(calls[th])].what
  BY <1>2 DEF Frame, Top
<1>4. calls' = [calls EXCEPT ![th] = stack]
  BY DEF Reaches
<1>5. /\ stack \in Seq(Frame)
      /\ DOMAIN stack = DOMAIN calls[th]
      /\ stack[Len(calls[th])] = top
      /\ \A i \in DOMAIN calls[th] : i # Len(calls[th]) => stack[i] = calls[th][i]
  <2> HIDE DEF top
  <2> QED
    BY <1>1, <1>2, <1>3
<1> HIDE DEF top, stack
<1>6. calls'[th] = stack /\ \A t \in Thread \ {th} : calls'[t] = calls[t]
  BY <1>1, <1>4
<1> QED
  BY <1>1, <1>2, <1>3, <1>4, <1>5, <1>6

\* A thread whose call returns has its last frame removed.
LEMMA ReturnKeeps ==
    ASSUME TypeOK, NEW th \in Thread, calls[th] # <<>>,
           calls' = [calls EXCEPT ![th] = SubSeq(@, 1, Len(@) - 1)]
    PROVE  /\ calls' \in [Thread -> Seq(Frame)]
           /\ \A t \in Thread : \A i \in DOMAIN calls'[t] :
                 i \in DOMAIN calls[t] /\ calls'[t][i] = calls[t][i]
           /\ \A t \in Thread : \A i \in DOMAIN calls[t] :
                 t # th \/ i # Len(calls[th]) => i \in DOMAIN calls'[t]
           /\ Len(calls[th]) \in DOMAIN calls[th]
<1>1. calls[th] \in Seq(Frame) /\ calls \in [Thread -> Seq(Frame)]
  BY DEF TypeOK
<1> DEFINE rest == SubSeq(calls[th], 1, Len(calls[th]) - 1)
<1>2. /\ rest \in Seq(Frame)
      /\ DOMAIN rest = 1 .. Len(calls[th]) - 1
      /\ \A i \in 1 .. Len(calls[th]) - 1 : rest[i] = calls[th][i]
      /\ Len(calls[th]) \in DOMAIN calls[th]
  BY <1>1, Popped
<1>3. DOMAIN calls[th] = 1 .. Len(calls[th]) /\ Len(calls[th]) \in Nat
  BY <1>1
<1> HIDE DEF rest
<1>4. calls' = [calls EXCEPT ![th] = rest]
  BY DEF rest
<1>5. calls'[th] = rest /\ \A t \in Thread \ {th} : calls'[t] = calls[t]
  BY <1>1, <1>4
<1> QED
  BY <1>1, <1>2, <1>3, <1>4, <1>5

-----------------------------------------------------------------------------
(* Main and the terminal *)

Place == {"start", "args", "terminal", "configure", "init", "epoll", "enter",
          "loop", "failed"}

\* Main may log a line and go on; to "failed" only with a reason.
LEMMA SaysKeeps ==
    ASSUME IInv, pc # "start", NEW what \in Info \cup Warning, NEW to \in Place \ {"start"},
           to = "failed" => what \in Reason, Says(what, to)
    PROVE  IInv'
<1> USE DEF IInv
<1>1. what \in Line
  BY DEF Line
<1>2. Logging("main", what) /\ UNCHANGED <<log_file, zone, pending, written>>
  BY DEF Says
<1>3. "main" \in Thread
  BY DEF Thread
<1>4. /\ calls' \in [Thread -> Seq(Frame)]
      /\ (zone \in Thread => \E i \in DOMAIN calls[zone] : calls[zone][i].at = "zoned")'
      /\ PrintedIsThere' /\ ReturnedCallsAreWritten'
      /\ \E i \in DOMAIN calls'["main"] : calls'["main"][i].what = what
  BY <1>1, <1>2, <1>3, LoggingKeeps
<1>5. TypeOK'
  BY <1>4 DEF TypeOK, Says, Place
<1>6. Fresh' /\ Opened'
  BY DEF Says, Fresh, Opened
<1>7. ReasonGiven'
  BY <1>4 DEF ReasonGiven, Says
<1>8. EndIsExplained'
  BY DEF EndIsExplained, Says
<1> QED
  BY <1>4, <1>5, <1>6, <1>7, <1>8

\* Any thread may start a call where main does not move.
LEMMA CallKeeps ==
    ASSUME IInv, pc # "start", NEW th \in Thread, NEW what \in Line, Logging(th, what),
           UNCHANGED <<outfile, pc, handled, log_file, zone, pending, written, ended>>,
           term' \in {"none", "reading", "stopping", "gone"}, freeze_flag' \in BOOLEAN,
           interrupts' \in 0 .. MaxInterrupts, caught' \in BOOLEAN
    PROVE  IInv'
<1> USE DEF IInv
<1>1. /\ calls' \in [Thread -> Seq(Frame)]
      /\ (zone \in Thread => \E i \in DOMAIN calls[zone] : calls[zone][i].at = "zoned")'
      /\ PrintedIsThere' /\ ReturnedCallsAreWritten'
      /\ \A t \in Thread : \A i \in DOMAIN calls[t] :
            i \in DOMAIN calls'[t] /\ calls'[t][i] = calls[t][i]
  BY LoggingKeeps
<1>2. TypeOK'
  BY <1>1 DEF TypeOK
<1>3. Fresh' /\ Opened'
  BY DEF Fresh, Opened
<1>4. ReasonGiven'
  <2>1. "main" \in Thread
    BY DEF Thread
  <2> QED
    BY <2>1, <1>1 DEF ReasonGiven, Reached
<1>5. EndIsExplained'
  BY DEF EndIsExplained
<1> QED
  BY <1>1, <1>2, <1>3, <1>4, <1>5

\* A thread that is in a call, or has something to say, is past log_init.
LEMMA PastLogInit ==
    ASSUME IInv, NEW th \in Thread, calls[th] # <<>> \/ term # "none" \/ handled
    PROVE  pc # "start" /\ log_file \in Stream
  BY DEF IInv, Fresh, Opened

LEMMA MainKeeps == IInv /\ Main => IInv'
<1> SUFFICES ASSUME IInv, Main PROVE IInv'
  OBVIOUS
<1> USE DEF Info, Warning, Reason, Place
<1>1. CASE LogInit
  <2>1. /\ handled = FALSE /\ term = "none" /\ calls = [th \in Thread |-> <<>>]
        /\ pending = [f \in Stream |-> {}]
    BY <1>1 DEF LogInit, MainAt, IInv, Fresh
  <2>2. log_file' \in Stream /\ pc' = "args"
    BY <1>1 DEF LogInit, Stream
  <2>3. TypeOK'
    BY <1>1, <2>2 DEF LogInit, IInv, TypeOK
  <2>4. PrintedIsThere' /\ ReturnedCallsAreWritten'
    BY <1>1, <2>1, <2>2 DEF LogInit, PrintedIsThere, ReturnedCallsAreWritten
  <2>5. Fresh' /\ Opened' /\ ReasonGiven' /\ EndIsExplained'
    BY <1>1, <2>2 DEF LogInit, Fresh, Opened, ReasonGiven, EndIsExplained, MainAt,
                      Free, Running
  <2> QED
    BY <2>3, <2>4, <2>5 DEF IInv
<1>2. CASE Usage
  BY <1>2, SaysKeeps DEF Usage, MainAt
<1>3. CASE Sigign
  <2>1. UNCHANGED <<calls, log_file, pending, written, ended, zone>> /\ pc' = "terminal"
    BY <1>3 DEF Sigign
  <2>2. TypeOK'
    BY <1>3 DEF Sigign, IInv, TypeOK
  <2>3. Fresh' /\ Opened' /\ ReasonGiven'
    BY <1>3 DEF Sigign, MainAt, IInv, Fresh, Opened, ReasonGiven
  <2>4. PrintedIsThere' /\ ReturnedCallsAreWritten' /\ EndIsExplained'
    BY <2>1 DEF IInv, PrintedIsThere, Reached, ReturnedCallsAreWritten, EndIsExplained
  <2> QED
    BY <2>2, <2>3, <2>4 DEF IInv
<1>4. CASE TerminalStart
  <2>1. CASE Says("no_terminal", "configure")
    BY <1>4, <2>1, SaysKeeps DEF TerminalStart, MainAt
  <2>2. CASE ~Says("no_terminal", "configure")
    <3>1. /\ UNCHANGED <<calls, log_file, pending, written, ended, zone>>
          /\ pc = "terminal" /\ pc' = "configure"
      BY <1>4, <2>2 DEF TerminalStart, MainAt
    <3>2. TypeOK'
      BY <1>4, <2>2 DEF TerminalStart, IInv, TypeOK
    <3>3. Fresh' /\ Opened' /\ ReasonGiven'
      BY <3>1 DEF IInv, Fresh, Opened, ReasonGiven
    <3>4. PrintedIsThere' /\ ReturnedCallsAreWritten' /\ EndIsExplained'
      BY <3>1 DEF IInv, PrintedIsThere, Reached, ReturnedCallsAreWritten, EndIsExplained
    <3> QED
      BY <3>2, <3>3, <3>4 DEF IInv
  <2> QED
    BY <2>1, <2>2
<1>5. CASE Configured
  BY <1>5, SaysKeeps DEF Configured, MainAt
<1>6. CASE ServerInit
  BY <1>6, SaysKeeps DEF ServerInit, MainAt
<1>7. CASE ServerStart
  BY <1>7, SaysKeeps DEF ServerStart, MainAt
<1>8. CASE Aborts
  <2>1. /\ UNCHANGED <<calls, log_file, pending, written, zone, pc, term, handled>>
        /\ ended' = "aborted"
    BY <1>8 DEF Aborts
  <2>2. TypeOK'
    BY <1>8 DEF Aborts, IInv, TypeOK
  <2>3. Fresh' /\ Opened' /\ ReasonGiven'
    BY <2>1 DEF IInv, Fresh, Opened, ReasonGiven, Reached
  <2>4. PrintedIsThere' /\ ReturnedCallsAreWritten' /\ EndIsExplained'
    BY <2>1 DEF IInv, PrintedIsThere, Reached, ReturnedCallsAreWritten, EndIsExplained
  <2> QED
    BY <2>2, <2>3, <2>4 DEF IInv
<1>9. CASE ReturnsFailure
  <2>1. /\ UNCHANGED <<calls, log_file, zone, pc, term, handled>>
        /\ pc = "failed" /\ calls["main"] = <<>> /\ log_file \in Stream
    BY <1>9 DEF ReturnsFailure, MainAt, Free, IInv, Opened
  <2>2. /\ written' = [f \in Stream |-> written[f] \cup pending[f]]
        /\ pending' = [f \in Stream |-> {}]
        /\ ended' = "failure"
    BY <1>9 DEF ReturnsFailure, ExitsWith
  <2>3. Reached' = Reached /\ written'[log_file] = Reached
    BY <2>1, <2>2 DEF Reached
  <2>4. Reached \cap Reason # {}
    BY <2>1 DEF IInv, ReasonGiven
  <2>5. TypeOK'
    BY <1>9, <2>2 DEF ReturnsFailure, IInv, TypeOK
  <2>6. Fresh' /\ Opened' /\ ReasonGiven'
    BY <2>1, <2>3, <2>4 DEF Fresh, Opened, ReasonGiven
  <2>7. PrintedIsThere'
    BY <2>1, <2>3 DEF IInv, PrintedIsThere
  <2>8. ReturnedCallsAreWritten'
    BY <2>1, <2>2 DEF ReturnedCallsAreWritten
  <2>9. EndIsExplained'
    BY <2>1, <2>2, <2>3, <2>4 DEF EndIsExplained
  <2> QED
    BY <2>5, <2>6, <2>7, <2>8, <2>9 DEF IInv
<1> QED
  BY <1>1, <1>2, <1>3, <1>4, <1>5, <1>6, <1>7, <1>8, <1>9 DEF Main

LEMMA TerminalKeeps == IInv /\ Terminal => IInv'
<1> SUFFICES ASSUME IInv, Terminal PROVE IInv'
  OBVIOUS
<1>1. "terminal" \in Thread /\ freeze_flag \in BOOLEAN
      /\ interrupts \in 0 .. MaxInterrupts /\ caught \in BOOLEAN
  BY DEF IInv, TypeOK, Thread
<1>2. ASSUME NEW word \in Extra \ {"stopped"}, Command(word) PROVE IInv'
  <2>1. word \in Line
    BY DEF Line
  <2>2. pc # "start"
    BY <1>1, <1>2, PastLogInit DEF Command
  <2> QED
    BY <1>1, <1>2, <2>1, <2>2, CallKeeps DEF Command
<1>3. CASE Raises
  <2>1. "stopped" \in Line
    BY DEF Line, Extra
  <2>2. pc # "start"
    BY <1>1, <1>3, PastLogInit DEF Raises
  <2> QED
    BY <1>1, <1>3, <2>1, <2>2, CallKeeps DEF Raises
<1>4. CASE EndOfInput
  <2>1. /\ UNCHANGED <<calls, log_file, pending, written, zone, pc, handled, ended>>
        /\ term # "none"
    BY <1>4 DEF EndOfInput
  <2>2. TypeOK'
    BY <1>4 DEF EndOfInput, IInv, TypeOK
  <2>3. Fresh' /\ Opened' /\ ReasonGiven'
    BY <2>1 DEF IInv, Fresh, Opened, ReasonGiven, Reached
  <2>4. PrintedIsThere' /\ ReturnedCallsAreWritten' /\ EndIsExplained'
    BY <2>1 DEF IInv, PrintedIsThere, Reached, ReturnedCallsAreWritten, EndIsExplained
  <2> QED
    BY <2>2, <2>3, <2>4 DEF IInv
<1> QED
  BY <1>2, <1>3, <1>4 DEF Terminal

LEMMA InterruptKeeps == IInv /\ Interrupt => IInv'
<1> SUFFICES ASSUME IInv, Interrupt PROVE IInv'
  OBVIOUS
<1>1. interrupts' \in 0 .. MaxInterrupts
  BY ProcessAssumption DEF Interrupt, IInv, TypeOK
<1>2. CASE ~handled
  <2>1. /\ UNCHANGED <<calls, log_file, pending, written, zone, pc, term, handled>>
        /\ ended' = "killed"
    BY <1>2 DEF Interrupt
  <2>2. TypeOK'
    BY <1>1, <1>2 DEF Interrupt, IInv, TypeOK
  <2>3. Fresh' /\ Opened' /\ ReasonGiven'
    BY <2>1 DEF IInv, Fresh, Opened, ReasonGiven, Reached
  <2>4. PrintedIsThere' /\ ReturnedCallsAreWritten' /\ EndIsExplained'
    BY <2>1 DEF IInv, PrintedIsThere, Reached, ReturnedCallsAreWritten, EndIsExplained
  <2> QED
    BY <2>2, <2>3, <2>4 DEF IInv
<1>3. CASE handled
  <2>1. PICK th \in Thread : Logging(th, "stopped") /\ caught' = (caught \/ zone = th)
    BY <1>3 DEF Interrupt
  <2>2. "stopped" \in Line /\ pc # "start" /\ caught' \in BOOLEAN
    BY <1>3, <2>1, PastLogInit DEF Line, Extra, IInv, TypeOK
  <2>3. term' \in {"none", "reading", "stopping", "gone"} /\ freeze_flag' \in BOOLEAN
    BY DEF Interrupt, IInv, TypeOK
  <2> QED
    BY <1>1, <1>3, <2>1, <2>2, <2>3, CallKeeps DEF Interrupt
<1> QED
  BY <1>2, <1>3

-----------------------------------------------------------------------------
(* The steps of a logging call *)

\* A thread in a call has a last frame, and the log is open.
LEMMA TopFrame ==
    ASSUME IInv, NEW th \in Thread, NEW at, Now(th, at)
    PROVE  /\ calls[th] # <<>> /\ Len(calls[th]) \in DOMAIN calls[th]
           /\ calls[th][Len(calls[th])] = Top(th) /\ Top(th) \in Frame /\ Top(th).at = at
           /\ pc # "start" /\ log_file \in Stream /\ ended = "no"
<1>1. calls[th] # <<>> /\ calls[th] \in Seq(Frame) /\ Top(th).at = at /\ ended = "no"
  BY DEF Now, InCall, Running, IInv, TypeOK
<1>2. Len(calls[th]) \in DOMAIN calls[th] /\ Top(th) \in Frame
  BY <1>1 DEF Top
<1> QED
  BY <1>1, <1>2, PastLogInit DEF Top

LEMMA LocaltimeKeeps ==
    ASSUME IInv, NEW th \in Thread, LocaltimeBegins(th) \/ LocaltimeEnds(th)
    PROVE  IInv'
<1>1. PICK from \in {"zone", "zoned"}, to \in {"zoned", "print"} :
          /\ Now(th, from) /\ Reaches(th, to)
          /\ zone' = IF to = "zoned" THEN th ELSE "free"
  BY DEF LocaltimeBegins, LocaltimeEnds
<1>2. UNCHANGED <<outfile, pc, term, handled, freeze_flag, log_file, pending,
                  written, interrupts, caught, ended>>
  BY DEF LocaltimeBegins, LocaltimeEnds
<1>3. /\ calls[th] # <<>> /\ Len(calls[th]) \in DOMAIN calls[th]
      /\ calls[th][Len(calls[th])].at = from
      /\ pc # "start" /\ log_file \in Stream
  BY <1>1, TopFrame
<1>4. /\ calls' \in [Thread -> Seq(Frame)]
      /\ \A t \in Thread : DOMAIN calls'[t] = DOMAIN calls[t]
      /\ \A t \in Thread : \A i \in DOMAIN calls[t] :
            calls'[t][i].what = calls[t][i].what
      /\ \A t \in Thread : \A i \in DOMAIN calls[t] :
            t # th \/ i # Len(calls[th]) => calls'[t][i] = calls[t][i]
      /\ calls'[th][Len(calls[th])].at = to
  <2>1. TypeOK /\ to \in {"zone", "zoned", "print", "flush"}
    BY DEF IInv
  <2> QED
    BY <1>1, <1>3, <2>1, ReachesKeeps
<1>5. (zone \in Thread => \E i \in DOMAIN calls[zone] : calls[zone][i].at = "zoned")'
  BY <1>1, <1>3, <1>4 DEF Thread
<1>6. TypeOK'
  BY <1>1, <1>2, <1>4, <1>5 DEF IInv, TypeOK
<1>7. Fresh' /\ Opened' /\ EndIsExplained'
  BY <1>2, <1>3 DEF IInv, Fresh, Opened, EndIsExplained
<1>8. PrintedIsThere'
  <2> SUFFICES ASSUME NEW t \in Thread, NEW i \in DOMAIN calls'[t],
                      calls'[t][i].at = "flush"
               PROVE  calls'[t][i].what \in Reached
    BY <1>2 DEF PrintedIsThere, Reached
  <2>1. i \in DOMAIN calls[t] /\ calls'[t][i] = calls[t][i]
    BY <1>1, <1>4
  <2> QED
    BY <2>1 DEF IInv, PrintedIsThere
<1>9. ReturnedCallsAreWritten'
  <2> SUFFICES ASSUME NEW line \in pending[log_file]
               PROVE  \E t \in Thread : \E i \in DOMAIN calls'[t] :
                         calls'[t][i] = [what |-> line, at |-> "flush"]
    BY <1>2 DEF ReturnedCallsAreWritten
  <2>1. PICK t \in Thread : \E i \in DOMAIN calls[t] :
            calls[t][i] = [what |-> line, at |-> "flush"]
    BY <1>3 DEF IInv, ReturnedCallsAreWritten
  <2> PICK i \in DOMAIN calls[t] : calls[t][i] = [what |-> line, at |-> "flush"]
    BY <2>1
  <2>2. calls'[t][i] = calls[t][i] /\ i \in DOMAIN calls'[t]
    BY <1>1, <1>3, <1>4, <2>1
  <2> QED
    BY <2>1, <2>2
<1>10. ReasonGiven'
  <2>1. "main" \in Thread
    BY DEF Thread
  <2> QED
    BY <1>2, <1>4, <2>1 DEF IInv, ReasonGiven, Reached
<1> QED
  BY <1>6, <1>7, <1>8, <1>9, <1>10 DEF IInv

LEMMA PrintsKeeps == ASSUME IInv, NEW th \in Thread, Prints(th) PROVE IInv'
<1> DEFINE top == Len(calls[th])
           what == Top(th).what
<1>1. Now(th, "print") /\ Reaches(th, "flush")
  BY DEF Prints
<1>2. UNCHANGED <<outfile, pc, term, handled, freeze_flag, log_file, zone,
                  written, interrupts, caught>>
  BY DEF Prints
<1>3. /\ calls[th] # <<>> /\ top \in DOMAIN calls[th] /\ calls[th][top] = Top(th)
      /\ Top(th) \in Frame /\ Top(th).at = "print"
      /\ pc # "start" /\ log_file \in Stream
  BY <1>1, TopFrame
<1>4. what \in Line
  BY <1>3 DEF Frame
<1>5. /\ pending' \in [Stream -> SUBSET Line]
      /\ pending'[log_file] = pending[log_file] \cup {what}
  BY <1>3, <1>4 DEF Prints, Copied, IInv, TypeOK
<1>6. ended' = "no"
  BY <1>3 DEF Prints, Stream
<1>7. /\ calls' \in [Thread -> Seq(Frame)]
      /\ \A t \in Thread : DOMAIN calls'[t] = DOMAIN calls[t]
      /\ \A t \in Thread : \A i \in DOMAIN calls[t] :
            calls'[t][i].what = calls[t][i].what
      /\ \A t \in Thread : \A i \in DOMAIN calls[t] :
            t # th \/ i # top => calls'[t][i] = calls[t][i]
      /\ calls'[th][top].at = "flush"
  <2>1. TypeOK
    BY DEF IInv
  <2> QED
    BY <1>1, <1>3, <2>1, ReachesKeeps
<1> HIDE DEF top, what
<1>8. calls[th][top].at = "print" /\ calls[th][top].what = what
  BY <1>3 DEF what
<1>9. Reached' = Reached \cup {what}
  BY <1>2, <1>5 DEF Reached
<1>10. TypeOK'
  <2>1. (zone \in Thread => \E i \in DOMAIN calls[zone] : calls[zone][i].at = "zoned")'
    <3> SUFFICES ASSUME zone \in Thread
                 PROVE  \E i \in DOMAIN calls'[zone] : calls'[zone][i].at = "zoned"
      BY <1>2
    <3>1. PICK i \in DOMAIN calls[zone] : calls[zone][i].at = "zoned"
      BY DEF IInv, TypeOK
    <3>2. calls'[zone][i] = calls[zone][i] /\ i \in DOMAIN calls'[zone]
      BY <1>7, <1>8, <3>1
    <3> QED
      BY <3>1, <3>2
  <2> QED
    BY <1>2, <1>5, <1>6, <1>7, <2>1 DEF IInv, TypeOK
<1>11. Fresh' /\ Opened' /\ EndIsExplained'
  BY <1>2, <1>3, <1>6 DEF IInv, Fresh, Opened, EndIsExplained
<1>12. PrintedIsThere'
  <2> SUFFICES ASSUME NEW t \in Thread, NEW i \in DOMAIN calls'[t],
                      calls'[t][i].at = "flush"
               PROVE  calls'[t][i].what \in Reached \cup {what}
    BY <1>9 DEF PrintedIsThere
  <2>1. i \in DOMAIN calls[t] /\ calls'[t][i].what = calls[t][i].what
    BY <1>7
  <2>2. CASE t = th /\ i = top
    BY <1>8, <2>1, <2>2
  <2>3. CASE ~(t = th /\ i = top)
    BY <1>7, <2>1, <2>3 DEF IInv, PrintedIsThere
  <2> QED
    BY <2>2, <2>3
<1>13. ReturnedCallsAreWritten'
  <2> SUFFICES ASSUME NEW line \in pending'[log_file]
               PROVE  \E t \in Thread : \E i \in DOMAIN calls'[t] :
                         calls'[t][i] = [what |-> line, at |-> "flush"]
    BY <1>2 DEF ReturnedCallsAreWritten
  <2>1. CASE line = what
    <3>1. calls'[th][top] \in Frame /\ calls'[th][top].what = what /\ top \in DOMAIN calls'[th]
      BY <1>3, <1>7, <1>8
    <3>2. calls'[th][top] = [what |-> line, at |-> "flush"]
      BY <1>7, <2>1, <3>1 DEF Frame
    <3> QED
      BY <3>1, <3>2
  <2>2. CASE line \in pending[log_file]
    <3>1. PICK t \in Thread : \E i \in DOMAIN calls[t] :
              calls[t][i] = [what |-> line, at |-> "flush"]
      BY <1>3, <2>2 DEF IInv, ReturnedCallsAreWritten
    <3> PICK i \in DOMAIN calls[t] : calls[t][i] = [what |-> line, at |-> "flush"]
      BY <3>1
    <3>2. calls'[t][i] = calls[t][i] /\ i \in DOMAIN calls'[t]
      BY <1>7, <1>8, SMTT(40)
    <3> QED
      BY <3>2
  <2> QED
    BY <1>5, <2>1, <2>2
<1>14. ReasonGiven'
  <2>1. "main" \in Thread
    BY DEF Thread
  <2> QED
    BY <1>2, <1>7, <1>9, <2>1 DEF IInv, ReasonGiven
<1> QED
  BY <1>10, <1>11, <1>12, <1>13, <1>14 DEF IInv

LEMMA FlushesKeeps == ASSUME IInv, NEW th \in Thread, Flushes(th) PROVE IInv'
<1> DEFINE top == Len(calls[th])
<1>1. /\ Now(th, "flush")
      /\ calls' = [calls EXCEPT ![th] = SubSeq(@, 1, Len(@) - 1)]
      /\ UNCHANGED <<outfile, pc, term, handled, freeze_flag, log_file, zone,
                     interrupts, caught>>
  BY DEF Flushes
<1>2. /\ calls[th] # <<>> /\ top \in DOMAIN calls[th] /\ calls[th][top] = Top(th)
      /\ Top(th).at = "flush"
      /\ pc # "start" /\ log_file \in Stream /\ ended = "no"
  BY <1>1, TopFrame
<1>3. /\ calls' \in [Thread -> Seq(Frame)]
      /\ \A t \in Thread : \A i \in DOMAIN calls'[t] :
            i \in DOMAIN calls[t] /\ calls'[t][i] = calls[t][i]
      /\ \A t \in Thread : \A i \in DOMAIN calls[t] :
            t # th \/ i # top => i \in DOMAIN calls'[t]
  <2>1. TypeOK
    BY DEF IInv
  <2> QED
    BY <1>1, <1>2, <2>1, ReturnKeeps
<1> HIDE DEF top
<1>4. /\ pending' \in [Stream -> SUBSET Line] /\ written' \in [Stream -> SUBSET Line]
      /\ pending'[log_file] = {} /\ written'[log_file] = Reached
      /\ ended' = IF Top(th).what = "stopped" THEN "success" ELSE "no"
  <2>1. CASE Top(th).what = "stopped"
    BY <1>2, <2>1 DEF Flushes, ExitsWith, Reached, IInv, TypeOK
  <2>2. CASE Top(th).what # "stopped"
    BY <1>2, <2>2 DEF Flushes, Flushed, Reached, IInv, TypeOK
  <2> QED
    BY <2>1, <2>2
<1>5. Reached' = Reached
  BY <1>1, <1>4 DEF Reached
<1>6. Top(th).what \in Reached
  BY <1>2 DEF IInv, PrintedIsThere
<1>7. TypeOK'
  <2>1. (zone \in Thread => \E i \in DOMAIN calls[zone] : calls[zone][i].at = "zoned")'
    <3> SUFFICES ASSUME zone \in Thread
                 PROVE  \E i \in DOMAIN calls'[zone] : calls'[zone][i].at = "zoned"
      BY <1>1
    <3>1. PICK i \in DOMAIN calls[zone] : calls[zone][i].at = "zoned"
      BY DEF IInv, TypeOK
    <3>2. i \in DOMAIN calls'[zone] /\ calls'[zone][i] = calls[zone][i]
      BY <1>2, <1>3, <3>1
    <3> QED
      BY <3>1, <3>2
  <2> QED
    BY <1>1, <1>3, <1>4, <2>1 DEF IInv, TypeOK
<1>8. Fresh' /\ Opened' /\ EndIsExplained'
  BY <1>1, <1>2, <1>4, <1>6 DEF IInv, Fresh, Opened, EndIsExplained
<1>9. PrintedIsThere'
  BY <1>3, <1>5 DEF IInv, PrintedIsThere
<1>10. ReturnedCallsAreWritten'
  BY <1>1, <1>4 DEF ReturnedCallsAreWritten
<1>11. ReasonGiven'
  <2> SUFFICES ASSUME pc = "failed", NEW i \in DOMAIN calls["main"],
                      calls["main"][i].what \in Reason
               PROVE  \/ \E j \in DOMAIN calls'["main"] : calls'["main"][j].what \in Reason
                      \/ Reached \cap Reason # {}
    BY <1>1, <1>5 DEF IInv, ReasonGiven
  <2>1. "main" \in Thread
    BY DEF Thread
  <2>2. CASE th = "main" /\ i = top
    BY <1>2, <1>6, <2>2
  <2>3. CASE ~(th = "main" /\ i = top)
    BY <1>3, <2>1, <2>3
  <2> QED
    BY <2>2, <2>3
<1> QED
  BY <1>7, <1>8, <1>9, <1>10, <1>11 DEF IInv

-----------------------------------------------------------------------------
(* The invariant *)

LEMMA InitIInv == Init => IInv
<1> SUFFICES ASSUME Init PROVE IInv
  OBVIOUS
<1>1. TypeOK
  <2>1. calls \in [Thread -> Seq(Frame)]
    <3>1. <<>> \in Seq(Frame)
      OBVIOUS
    <3> QED
      BY <3>1 DEF Init
  <2>2. pending \in [Stream -> SUBSET Line] /\ written \in [Stream -> SUBSET Line]
    BY DEF Init
  <2>3. zone \notin Thread /\ zone = "free"
    BY DEF Init, Thread
  <2>4. interrupts \in 0 .. MaxInterrupts
    BY ProcessAssumption DEF Init
  <2> QED
    BY <2>1, <2>2, <2>3, <2>4 DEF Init, TypeOK
<1>2. Fresh /\ Opened /\ PrintedIsThere /\ ReasonGiven
  BY DEF Init, Fresh, Opened, PrintedIsThere, ReasonGiven
<1>3. ReturnedCallsAreWritten /\ EndIsExplained
  BY DEF Init, ReturnedCallsAreWritten, EndIsExplained, Stream
<1> QED
  BY <1>1, <1>2, <1>3 DEF IInv

LEMMA StutterKeeps == IInv /\ UNCHANGED vars => IInv'
<1> SUFFICES ASSUME IInv, UNCHANGED vars PROVE IInv'
  OBVIOUS
<1>1. TypeOK'
  BY DEF vars, IInv, TypeOK
<1>2. Fresh' /\ Opened' /\ PrintedIsThere' /\ ReasonGiven'
  BY DEF vars, IInv, Fresh, Opened, PrintedIsThere, ReasonGiven, Reached
<1>3. ReturnedCallsAreWritten' /\ EndIsExplained'
  BY DEF vars, IInv, ReturnedCallsAreWritten, EndIsExplained
<1> QED
  BY <1>1, <1>2, <1>3 DEF IInv

LEMMA NextKeeps == IInv /\ [Next]_vars => IInv'
<1> SUFFICES ASSUME IInv, [Next]_vars PROVE IInv'
  OBVIOUS
<1>1. CASE Main
  BY <1>1, MainKeeps
<1>2. CASE Terminal
  BY <1>2, TerminalKeeps
<1>3. CASE Interrupt
  BY <1>3, InterruptKeeps
<1>4. ASSUME NEW th \in Thread, LocaltimeBegins(th) \/ LogStep(th) PROVE IInv'
  BY <1>4, LocaltimeKeeps, PrintsKeeps, FlushesKeeps DEF LogStep
<1>5. CASE UNCHANGED vars
  BY <1>5, StutterKeeps
<1> QED
  BY <1>1, <1>2, <1>3, <1>4, <1>5 DEF Next

LEMMA Invariant == Spec => []IInv
  BY InitIInv, NextKeeps, PTL DEF Spec

\* Every variable of the process keeps its type, and a thread that is inside
\* localtime_r is in a logging call that says so.
THEOREM TypeCorrect == Spec => []TypeOK
<1>1. IInv => TypeOK
  BY DEF IInv
<1> QED
  BY <1>1, Invariant, PTL

\* What has been logged by a call that returned is out of the log's buffer,
\* however the calls of the threads and of the handler interleave.
THEOREM ReturnedCallsWritten == Spec => []ReturnedCallsAreWritten
<1>1. IInv => ReturnedCallsAreWritten
  BY DEF IInv
<1> QED
  BY <1>1, Invariant, PTL

\* A failure of main has its reason in the log when the process has ended, a
\* stop the handler's line, and no call finds the log unopened.
THEOREM EndExplained == Spec => []EndIsExplained
<1>1. IInv => EndIsExplained
  BY DEF IInv
<1> QED
  BY <1>1, Invariant, PTL
=============================================================================
