-------------------------------- MODULE Tty --------------------------------
(***************************************************************************)
(* A serial terminal: kernel/chr_drv/tty_io.c, tty_ioctl.c, serial.c and     *)
(* rs_io.s, for one channel with a task that reads and one that writes.      *)
(*                                                                         *)
(* Tasks are not preempted in the kernel, but the interrupts of the line     *)
(* come between any two of their instructions that cli() does not protect.   *)
(* A handler is one step: its gate clears the interrupt flag, and its own    *)
(* line is not acknowledged before it ends.                                  *)
(*                                                                         *)
(* A tty_queue holds at most SIZE - 1 characters and is a sequence here.     *)
(* Where the code would move an index past the other one, or move it from    *)
(* two sides at once, `fault' says so and the model stops.  stopped, which   *)
(* nothing reads, is left out, and so are the case and speed of the line.    *)
(***************************************************************************)
EXTENDS Integers, Sequences, FiniteSets, FiniteSetsExt

CONSTANTS SIZE,      \* TTY_BUF_SIZE
          ROOM,      \* a writer that has slept needs so much room (128)
          STARTUP,   \* it is woken when so few are left to send (startup, 256)
          SLACK,     \* an unfinished line is read when so little room is left (20)
          Modes,     \* the termios settings that are used
          OFlags,    \* OPOST is set, and of ONLCR, OCRNL and ONLRET these
          Typed,     \* bound: what may be received,
          MAX_IN,    \*        how many characters of it,
          ReadCounts,   \*     the counts of calls of tty_read,
          WriteCounts,  \*     those of tty_write,
          Written,   \*        what it is given,
          MAX_IOCTL  \*        and how often tty_ioctl is called

Keys == {"x", "cr", "nl", "eof", "erase", "kill", "intr"}

(* The flags of struct termios, and its c_cc: VMIN, whether VTIME is set, and *)
(* the special characters.                                                  *)
Termios == [canon : BOOLEAN, isig : BOOLEAN, echo : BOOLEAN, echoctl : BOOLEAN,
            icrnl : BOOLEAN, igncr : BOOLEAN, inlcr : BOOLEAN,
            vtime : BOOLEAN, vmin : Nat, veof : Keys \cup {"none"}, verase : Keys \cup {"none"},
            vkill : Keys \cup {"none"}, vintr : Keys \cup {"none"}]

ASSUME TtyAssumption ==
  /\ SIZE \in Nat /\ SIZE > 2 /\ ROOM \in 1..(SIZE - 1) /\ STARTUP \in 1..(SIZE - 1)
  /\ SLACK \in Nat /\ OFlags \subseteq {"ONLCR", "OCRNL", "ONLRET"}
  /\ Typed \subseteq Keys /\ Written \subseteq {"x", "nl", "ret"}
  /\ ReadCounts \subseteq Nat \ {0} /\ WriteCounts \subseteq Nat \ {0}
  /\ MAX_IN \in Nat /\ MAX_IOCTL \in Nat
  /\ Modes \subseteq Termios

VARIABLES tty,     \* read_q and write_q, secondary with its `data'; the transmit interrupt
                   \* enable `ier'; the signals of the two tasks; and `fault'
          tio,     \* termios
          setting, \* the settings whose c_cc set_termios has not copied yet
          off,     \* by how many lines changes of VEOF have made the count wrong
          fg,      \* the group of the two tasks is the terminal's pgrp
          cpu,     \* the task that runs in the kernel, or "none"
          rd, wr,  \* the locals of tty_read and of tty_write
          cr_flag,
          alarm,   \* the reader has an alarm set
          due,     \* what the line has still to send of what tty_write was given
          before,  \* whether a return was the last to leave write_q, but for echoes, and how
          typed,   \* how many characters were received
          ioctls   \* how many calls of tty_ioctl there were

tvars == <<tty, tio, setting, off, fg, cpu, rd, wr, cr_flag, alarm, due, before, typed, ioctls>>

Left(s) == SIZE - 1 - Len(s)
Ends(m) == {"nl", m.veof}           \* what ends a line
Lines(E, s) == Cardinality({i \in DOMAIN s : s[i] \in E})
Added == {"echo", "cr"}   \* what tty_write was not given

NoRead == [pc |-> "idle", nr |-> 0, got |-> 0, minimum |-> 0, time |-> FALSE, flag |-> FALSE,
           oldalarm |-> FALSE]

TtyInit ==
  /\ tty = [read_q |-> <<>>, write_q |-> <<>>, secondary |-> <<>>, data |-> 0, ier |-> FALSE,
          signal |-> [t \in {"reader", "writer"} |-> {}], fault |-> "none"]
  /\ tio \in Modes /\ setting = {} /\ off = 0 /\ fg = TRUE
  /\ cpu = "none"
  /\ rd = NoRead
  /\ wr = [pc |-> "idle", nr |-> 0, ch |-> "x",
          half |-> FALSE]   \* the next character is a new line, and half put
  /\ cr_flag = FALSE
  /\ alarm \in BOOLEAN
  /\ due = <<>> /\ before = "none" /\ typed = 0 /\ ioctls = 0

Runs(t) == cpu = t /\ tty.fault = "none"
Nobody == cpu = "none" /\ tty.fault = "none"    \* another task may have the processor

-----------------------------------------------------------------------------
(* Echoing puts characters into write_q whether there is room or not, and     *)
(* whatever the writer is doing there.  rs_write lets the line send.         *)
PUTCH(k, n) ==
  CASE n = 0 -> k
    [] n > 0 /\ wr.pc = "put" -> [k EXCEPT !.fault = "echo inside a PUTCH"]
    [] n > 0 /\ wr.pc # "put" /\ Left(k.write_q) < n -> [k EXCEPT !.fault = "echo without room"]
    [] OTHER -> [k EXCEPT !.write_q = @ \o [i \in 1..n |-> "echo"]]

rs_write(k) == IF k.write_q # <<>> THEN [k EXCEPT !.ier = TRUE] ELSE k

Echo(k, n) == IF tio.echo THEN rs_write(PUTCH(k, n)) ELSE k

(* The unfinished line at the end of secondary.                              *)
LineStart(s) == Max({0} \cup {i \in DOMAIN s : s[i] \in Ends(tio)})

Control(c) == c \notin {"x", "erase"}    \* below 32: there is a `^' before it

Erased(k, n) ==
  LET left == Len(k.secondary) - n
      more == {i \in (left + 1)..Len(k.secondary) : Control(k.secondary[i])}
  IN [Echo(k, n + Cardinality(more)) EXCEPT !.secondary = SubSeq(@, 1, left)]

Erase_Any(k) ==  \* defect: a line that is finished is erased too
  IF k.secondary = <<>> THEN k ELSE Erased(k, 1)

Erase(k) == IF LineStart(k.secondary) = Len(k.secondary) THEN k ELSE Erased(k, 1)
Kill(k) == LET n == Len(k.secondary) - LineStart(k.secondary)
           IN IF n = 0 THEN k ELSE Erased(k, n)

tty_intr(k) ==
  IF fg THEN [k EXCEPT !.signal = [t \in DOMAIN @ |-> @[t] \cup {"INT"}]] ELSE k

(* One character of copy_to_cooked, or no more once secondary is full.        *)
Cook(k, ch) ==
  LET c == CASE ch = "cr" /\ tio.icrnl -> "nl"
             [] ch = "nl" /\ tio.inlcr -> "cr"
             [] OTHER -> ch
      counted == IF c \in Ends(tio) THEN [k EXCEPT !.data = @ + 1] ELSE k
      width == CASE c = "nl" -> 2
                 [] c # "nl" /\ Control(c) -> IF tio.echoctl THEN 2 ELSE 0
                 [] OTHER -> 1
  IN CASE k.fault # "none" -> k
       [] k.fault = "none" /\ (k.read_q # <<>> \/ Left(k.secondary) = 0) ->
            [k EXCEPT !.read_q = Append(@, ch)]
       [] OTHER ->
            IF ch = "cr" /\ ~tio.icrnl /\ tio.igncr THEN k
            ELSE IF tio.canon /\ c = tio.vkill THEN Kill(k)
            ELSE IF tio.canon /\ c = tio.verase THEN Erase(k)
            ELSE IF tio.isig /\ c = tio.vintr THEN tty_intr(k)
            ELSE [Echo(counted, width) EXCEPT !.secondary = Append(@, c)]

(* The queues after each character of read_q.                               *)
Cooked(k) ==
  LET cooked[i \in 0..Len(k.read_q)] ==
        IF i = 0 THEN [k EXCEPT !.read_q = <<>>] ELSE Cook(cooked[i - 1], k.read_q[i])
  IN cooked

copy_to_cooked(k) == Cooked(k)[Len(k.read_q)]

(* read_char: a character that finds read_q full is lost.  copy_to_cooked     *)
(* ends with a wake_up.                                                      *)
read_char(c) ==
  /\ tty.fault = "none" /\ typed < MAX_IN
  /\ typed' = typed + 1
  /\ tty' = copy_to_cooked(IF Left(tty.read_q) > 0 THEN [tty EXCEPT !.read_q = Append(@, c)]
                                                  ELSE tty)
  /\ rd' = [rd EXCEPT !.pc = IF @ = "asleep" THEN "woken" ELSE @]
  /\ UNCHANGED <<tio, setting, off, fg, cpu, wr, cr_flag, alarm, due, before, ioctls>>

(* write_char: the next character, and with the last one no more interrupts.  *)
(* What is sent of what was given is no longer due.                          *)
write_char ==
  /\ tty.ier /\ tty.fault = "none"
  /\ wr' = [wr EXCEPT !.pc = IF @ = "asleep" /\ Len(tty.write_q) <= STARTUP THEN "woken" ELSE @]
  /\ due' = IF tty.write_q = <<>> \/ tty.write_q[1] \in Added THEN due ELSE SubSeq(due, 2, Len(due))
  /\ before' = CASE tty.write_q = <<>> \/ tty.write_q[1] = "echo" -> before
                 [] tty.write_q # <<>> /\ tty.write_q[1] = "cr" -> "cr"
                 [] OTHER -> "none"
  /\ tty' = [tty EXCEPT !.write_q = IF @ = <<>> THEN @ ELSE Tail(@), !.ier = Len(tty.write_q) > 1]
  /\ UNCHANGED <<tio, setting, off, fg, cpu, rd, cr_flag, alarm, typed, ioctls>>

-----------------------------------------------------------------------------
(* schedule() turns an alarm that is over into a signal, and wakes who has    *)
(* one.                                                                     *)
Alarm ==
  /\ Nobody /\ alarm
  /\ alarm' = FALSE
  /\ tty' = [tty EXCEPT !.signal.reader = @ \cup {"ALRM"}]
  /\ UNCHANGED <<tio, setting, off, fg, cpu, rd, wr, cr_flag, due, before, typed, ioctls>>

(* Outside the call signals are taken by do_signal.                          *)
TakeSignal(t) ==
  /\ Nobody /\ tty.signal[t] # {} /\ (IF t = "reader" THEN rd.pc ELSE wr.pc) = "idle"
  /\ tty' = [tty EXCEPT !.signal[t] = {}]
  /\ UNCHANGED <<tio, setting, off, fg, cpu, rd, wr, cr_flag, alarm, due, before, typed, ioctls>>

-----------------------------------------------------------------------------
(* tty_read.  Whether time + jiffies is before an alarm is open.             *)
MayOwn(old) == IF old THEN BOOLEAN ELSE {TRUE}

Read(n) ==
  /\ Nobody /\ rd.pc = "idle"
  /\ \E own \in MayOwn(alarm) :
       LET timed == tio.vtime /\ tio.vmin = 0
           minimum == IF timed THEN 1 ELSE tio.vmin
       IN /\ rd' = [pc |-> "test", nr |-> n, got |-> 0, minimum |-> minimum, time |-> tio.vtime,
                   flag |-> timed /\ own, oldalarm |-> alarm]
          /\ alarm' = (alarm \/ timed)
  /\ cpu' = "reader"
  /\ UNCHANGED <<tty, tio, setting, off, fg, wr, cr_flag, due, before, typed, ioctls>>

Return(a) == rd' = NoRead /\ alarm' = a /\ cpu' = "none"

NothingToRead ==
  tty.secondary = <<>> \/ (tio.canon /\ tty.data = 0 /\ Left(tty.secondary) > SLACK)

ReadTest ==
  /\ Runs("reader") /\ rd.pc = "test"
  /\ \/ /\ rd.flag /\ "ALRM" \in tty.signal.reader
        /\ tty' = [tty EXCEPT !.signal.reader = @ \ {"ALRM"}]
        /\ Return(rd.oldalarm)
     \/ /\ ~(rd.flag /\ "ALRM" \in tty.signal.reader) /\ tty.signal.reader # {}
        /\ Return(rd.oldalarm)
        /\ UNCHANGED tty
     \/ /\ tty.signal.reader = {}
        /\ rd' = [rd EXCEPT !.pc = IF NothingToRead THEN "sleep" ELSE "get"]
        /\ UNCHANGED <<tty, cpu, alarm>>
  /\ UNCHANGED <<tio, setting, off, fg, wr, cr_flag, due, before, typed, ioctls>>

(* sleep_if_empty.  With part of a line it returns, and tty_read loops.       *)
ReadSleep ==
  LET sleeps == tty.signal.reader = {} /\ tty.secondary = <<>>
  IN /\ Runs("reader") /\ rd.pc = "sleep"
     /\ rd' = [rd EXCEPT !.pc = IF sleeps THEN "asleep" ELSE "test"]
     /\ cpu' = IF sleeps THEN "none" ELSE cpu
     /\ UNCHANGED <<tty, tio, setting, off, fg, wr, cr_flag, alarm, due, before, typed, ioctls>>

ReadWakes ==
  /\ Nobody /\ (rd.pc = "woken" \/ (rd.pc = "asleep" /\ tty.signal.reader # {}))
  /\ rd' = [rd EXCEPT !.pc = "sleep"]
  /\ cpu' = "reader"
  /\ UNCHANGED <<tty, tio, setting, off, fg, wr, cr_flag, alarm, due, before, typed, ioctls>>

(* GETCH and the count of lines.  The end of file returns at once, with the   *)
(* alarm as it is; else put_fs_byte may fault and sleep.                      *)
ReadGet ==
  LET c == Head(tty.secondary)
  IN /\ Runs("reader") /\ rd.pc = "get"
     /\ IF tty.secondary = <<>>
        THEN tty' = [tty EXCEPT !.fault = "erased under the reader"] /\ UNCHANGED <<rd, cpu, alarm>>
        ELSE /\ tty' = [tty EXCEPT !.secondary = Tail(@), !.data = IF c \in Ends(tio) THEN @ - 1 ELSE @]
             /\ IF c = tio.veof /\ tio.canon
                THEN Return(alarm)
                ELSE /\ rd' = [rd EXCEPT !.pc = "store"] /\ cpu' \in {"reader", "none"}
                     /\ UNCHANGED alarm
     /\ UNCHANGED <<tio, setting, off, fg, wr, cr_flag, due, before, typed, ioctls>>

(* The character is stored: the end of the loop over what there is.          *)
ReadStore ==
  LET more == rd.nr > 1 /\ tty.secondary # <<>>
      next == [rd EXCEPT !.nr = @ - 1, !.got = @ + 1]
      least == IF rd.minimum > rd.nr + rd.got THEN rd.nr + rd.got ELSE rd.minimum
  IN /\ Runs("reader") \/ Nobody
     /\ rd.pc = "store"
     /\ CASE more -> rd' = [next EXCEPT !.pc = "get"] /\ cpu' = "reader" /\ UNCHANGED alarm
          [] ~more /\ (tio.canon \/ next.got >= least \/ rd.nr = 1) -> Return(rd.oldalarm)
          [] OTHER -> \E own \in MayOwn(rd.oldalarm) :
               /\ rd' = [next EXCEPT !.pc = "test", !.flag = IF rd.time THEN own ELSE @]
               /\ alarm' = IF rd.time THEN own \/ rd.oldalarm ELSE alarm
               /\ cpu' = "reader"
     /\ UNCHANGED <<tty, tio, setting, off, fg, wr, cr_flag, due, before, typed, ioctls>>

-----------------------------------------------------------------------------
(* tty_write.                                                               *)
Write(n) ==
  /\ Nobody /\ wr.pc = "idle"
  /\ wr' = [wr EXCEPT !.pc = "full", !.nr = n]
  /\ cpu' = "writer"
  /\ UNCHANGED <<tty, tio, setting, off, fg, rd, cr_flag, alarm, due, before, typed, ioctls>>

WriteEnd == wr' = [wr EXCEPT !.pc = "idle", !.nr = 0, !.half = FALSE] /\ cpu' = "none"

(* It stops for a signal, and else puts what it can.                         *)
Checked == IF tty.signal.writer # {} THEN WriteEnd
           ELSE wr' = [wr EXCEPT !.pc = "loop"] /\ UNCHANGED cpu

WriteFull ==
  /\ Runs("writer") /\ wr.pc = "full"
  /\ IF Left(tty.write_q) > 0 THEN Checked ELSE wr' = [wr EXCEPT !.pc = "sleep"] /\ UNCHANGED cpu
  /\ UNCHANGED <<tty, tio, setting, off, fg, rd, cr_flag, alarm, due, before, typed, ioctls>>

WriteSleep ==
  /\ Runs("writer") /\ wr.pc = "sleep"
  /\ IF tty.signal.writer = {} /\ Left(tty.write_q) < ROOM
     THEN wr' = [wr EXCEPT !.pc = "asleep"] /\ cpu' = "none"
     ELSE Checked
  /\ UNCHANGED <<tty, tio, setting, off, fg, rd, cr_flag, alarm, due, before, typed, ioctls>>

WriteWakes ==
  /\ Nobody /\ (wr.pc = "woken" \/ (wr.pc = "asleep" /\ tty.signal.writer # {}))
  /\ wr' = [wr EXCEPT !.pc = "sleep"]
  /\ cpu' = "writer"
  /\ UNCHANGED <<tty, tio, setting, off, fg, rd, cr_flag, alarm, due, before, typed, ioctls>>

(* One character while there is room; get_fs_byte may fault and sleep, and    *)
(* what it returns is put without another look at the room.  A new line is    *)
(* two, the first of them put without taking the second from the caller.      *)
WriteFetch ==
  /\ Runs("writer") /\ wr.pc = "loop" /\ wr.nr > 0 /\ Left(tty.write_q) > 0
  /\ wr' = [wr EXCEPT !.pc = "fetch"]
  /\ cpu' \in {"writer", "none"}
  /\ UNCHANGED <<tty, tio, setting, off, fg, rd, cr_flag, alarm, due, before, typed, ioctls>>

Post(c) == CASE c = "ret" /\ "OCRNL" \in OFlags -> "nl"
             [] c = "nl" /\ "ONLRET" \in OFlags -> "ret"
             [] OTHER -> c

Puts_Taken(c) ==  \* defect: the character is taken when the first of the two is put
  /\ wr' = [wr EXCEPT !.pc = "put", !.ch = IF c = "nl" /\ "ONLCR" \in OFlags THEN "cr" ELSE c, !.nr = @ - 1]
  /\ due' = Append(due, c)
  /\ UNCHANGED cr_flag

Puts(c) ==
  IF c = "nl" /\ "ONLCR" \in OFlags /\ ~cr_flag
  THEN /\ wr' = [wr EXCEPT !.pc = "put", !.ch = "cr", !.half = TRUE]
       /\ cr_flag' = TRUE
       /\ UNCHANGED due
  ELSE /\ wr' = [wr EXCEPT !.pc = "put", !.ch = c, !.nr = @ - 1, !.half = FALSE]
       /\ cr_flag' = FALSE
       /\ due' = Append(due, c)

WritePut ==
  /\ Runs("writer") \/ Nobody
  /\ wr.pc = "fetch"
  /\ IF Left(tty.write_q) = 0
     THEN tty' = [tty EXCEPT !.fault = "put without room"] /\ UNCHANGED <<cpu, wr, cr_flag, due>>
     ELSE /\ \E c \in IF wr.half THEN {"nl"} ELSE {Post(w) : w \in Written} : Puts(c)
          /\ cpu' = "writer"
          /\ UNCHANGED tty
  /\ UNCHANGED <<tio, setting, off, fg, rd, alarm, before, typed, ioctls>>

(* PUTCH has stored the character and moves the head.                        *)
WriteInc ==
  /\ Runs("writer") /\ wr.pc = "put"
  /\ tty' = [tty EXCEPT !.write_q = Append(@, wr.ch)]
  /\ wr' = [wr EXCEPT !.pc = "loop", !.ch = "x"]
  /\ UNCHANGED <<tio, setting, off, fg, cpu, rd, cr_flag, alarm, due, before, typed, ioctls>>

(* tty->write, and schedule() when there is more.                            *)
WriteGo_Later ==  \* defect: the line is started only when the writer is done
  /\ Runs("writer") /\ wr.pc = "loop" /\ (wr.nr = 0 \/ Left(tty.write_q) = 0)
  /\ IF wr.nr = 0 THEN tty' = rs_write(tty) /\ WriteEnd
                 ELSE wr' = [wr EXCEPT !.pc = "sched"] /\ cpu' = "none" /\ UNCHANGED tty
  /\ UNCHANGED <<tio, setting, off, fg, rd, cr_flag, alarm, due, before, typed, ioctls>>

WriteGo ==
  /\ Runs("writer") /\ wr.pc = "loop" /\ (wr.nr = 0 \/ Left(tty.write_q) = 0)
  /\ tty' = rs_write(tty)
  /\ IF wr.nr = 0 THEN WriteEnd ELSE wr' = [wr EXCEPT !.pc = "sched"] /\ cpu' = "none"
  /\ UNCHANGED <<tio, setting, off, fg, rd, cr_flag, alarm, due, before, typed, ioctls>>

WriteResumes ==
  /\ Nobody /\ wr.pc = "sched"
  /\ wr' = [wr EXCEPT !.pc = "full"]
  /\ cpu' = "writer"
  /\ UNCHANGED <<tty, tio, setting, off, fg, rd, cr_flag, alarm, due, before, typed, ioctls>>

-----------------------------------------------------------------------------
(* tty_ioctl, by any task: TCFLSH, TCSETS with or without a flush of the      *)
(* input, TIOCSPGRP.  What is flushed from write_q is never sent.            *)
Flush(S) ==
  LET given == {i \in DOMAIN tty.write_q : tty.write_q[i] # "echo"}
  IN /\ tty' = [tty EXCEPT !.read_q = IF "in" \in S THEN <<>> ELSE @,
                       !.write_q = IF "out" \in S THEN <<>> ELSE @]
     /\ due' = IF "out" \in S THEN <<>> ELSE due
     /\ before' = CASE "out" \notin S \/ given = {} -> before
                    [] "out" \in S /\ given # {} /\ cr_flag -> "flushed"
                    [] OTHER -> "none"

Sets(m) == tio' = m /\ off' = off + Lines(Ends(tio), tty.secondary) - Lines(Ends(m), tty.secondary)

(* set_termios: get_fs_byte may fault and sleep before the c_cc.             *)
set_termios(m) ==
  \/ Sets(m) /\ UNCHANGED setting
  \/ /\ Sets([m EXCEPT !.vtime = tio.vtime, !.vmin = tio.vmin, !.veof = tio.veof,
                       !.verase = tio.verase, !.vkill = tio.vkill, !.vintr = tio.vintr])
     /\ setting' = setting \cup {m}

set_c_cc ==
  /\ Nobody
  /\ \E m \in setting :
       /\ Sets([tio EXCEPT !.vtime = m.vtime, !.vmin = m.vmin, !.veof = m.veof,
                         !.verase = m.verase, !.vkill = m.vkill, !.vintr = m.vintr])
       /\ setting' = setting \ {m}
  /\ UNCHANGED <<tty, fg, cpu, rd, wr, cr_flag, alarm, due, before, typed, ioctls>>

tty_ioctl ==
  /\ Nobody /\ ioctls < MAX_IOCTL
  /\ ioctls' = ioctls + 1
  /\ \/ \E S \in SUBSET {"in", "out"} : Flush(S) /\ UNCHANGED <<tio, setting, off, fg>>
     \/ \E m \in Modes, S \in SUBSET {"in"} : set_termios(m) /\ Flush(S) /\ UNCHANGED fg
     \/ fg' \in BOOLEAN /\ UNCHANGED <<tty, tio, setting, off, due, before>>
  /\ UNCHANGED <<cpu, rd, wr, cr_flag, alarm, typed>>

Reader == ReadTest \/ ReadSleep \/ ReadGet \/ ReadStore
Writer == WriteFull \/ WriteSleep \/ WriteFetch \/ WritePut \/ WriteInc \/ WriteGo

TtyNext ==
  \/ \E c \in Typed : read_char(c)
  \/ write_char
  \/ Alarm \/ TakeSignal("reader") \/ TakeSignal("writer")
  \/ (\E n \in ReadCounts : Read(n)) \/ Reader \/ ReadWakes
  \/ (\E n \in WriteCounts : Write(n)) \/ Writer \/ WriteWakes \/ WriteResumes
  \/ tty_ioctl \/ set_c_cc

TtySpec == TtyInit /\ [][TtyNext]_tvars

-----------------------------------------------------------------------------
(* secondary.data is the number of lines there, whatever is erased, killed    *)
(* and read at the same time, up to the lines that changes of VEOF have made   *)
(* or unmade of what was already there.                                      *)
LinesCounted == tty.fault = "none" => tty.data = Lines(Ends(tio), tty.secondary) + off

(* What the line has to send: write_q, and what PUTCH has stored behind it.   *)
Sending == tty.write_q \o (IF wr.pc = "put" THEN <<wr.ch>> ELSE <<>>)

(* s is what is left of the line without what was added.                     *)
IsGiven(s, line) ==
  \E at \in [DOMAIN s -> DOMAIN line] :
    /\ \A i, j \in DOMAIN s : i < j => at[i] < at[j]
    /\ \A i \in DOMAIN s : line[at[i]] = s[i]
    /\ {at[i] : i \in DOMAIN s} = {p \in DOMAIN line : line[p] \notin Added}

(* The last of the first n characters of the line that is no echo is a return, *)
(* or there is none and what left last is one (b).                           *)
AfterReturn(b, line, n) ==
  \E p \in 0..n : /\ IF p = 0 THEN b \in {"cr", "flushed"} ELSE line[p] = "cr"
                  /\ \A o \in (p + 1)..n : line[o] = "echo"

(* The line sends the characters that were written, each once and in order,   *)
(* and a new line right after its return, although echoes are put between     *)
(* them, the queue fills up between the two, calls are interrupted there and  *)
(* the line takes characters out meanwhile.  Only a new line whose return has *)
(* been flushed goes out without it.                                        *)
SentInOrder == tty.fault = "none" =>
  /\ IsGiven(due, Sending)
  /\ "ONLCR" \in OFlags =>
       \A p \in DOMAIN Sending : Sending[p] = "nl" => AfterReturn(before, Sending, p - 1)

(* No wake-up is lost.  What is queued is being sent: with characters left    *)
(* the transmit interrupt is on, but for a writer that is about to turn it on; *)
(* it is on for as long as a writer sleeps, even when write_q was flushed      *)
(* under it.  A reader sleeps only when there is nothing to read.            *)
SleepersWoken == tty.fault = "none" =>
  /\ tty.write_q # <<>> /\ wr.pc \notin {"loop", "fetch", "put"} => tty.ier
  /\ wr.pc = "asleep" => tty.ier
  /\ rd.pc = "asleep" => tty.secondary = <<>>
=============================================================================
