------------------------------- MODULE Floppy -------------------------------
(***************************************************************************)
(* The floppy driver, kernel/blk_drv/floppy.c, with the motors and the timer *)
(* list of kernel/sched.c that it works with.                                *)
(*                                                                         *)
(* The driver's functions call each other, are put into the timer list, and  *)
(* are called by the interrupts of the controller: `run' is the one to be    *)
(* run now, and nothing else happens before it has.  Requests come from the  *)
(* block layer (RequestQueue) and end in end_request; a task that opens a    *)
(* device asks floppy_change for a drive meanwhile.                          *)
(*                                                                         *)
(* After a request that failed, do_fd_request resets or recalibrates even if  *)
(* there is no other one, and add_request calls it again for one that comes   *)
(* before the interrupt of that: the driver is then at work twice, and the    *)
(* model stops (`fault').                                                    *)
(***************************************************************************)
EXTENDS Integers, Sequences, FiniteSets

CONSTANTS Drives,
          Tracks,      \* the tracks that are asked for,
          MAX_TRACK,   \* ... of which the type of diskette has these
          MAX_ERRORS,  \* errors after which a request is given up
          SPIN,        \* the ticks a motor needs (HZ/2), 
          SETTLE,      \* a drive that was only selected needs (2), and
          OFF,         \* after which an idle motor is turned off (3*HZ)
          ANSWER,      \* bound: the controller answers within so many ticks,
          MAX_TIMEOUTS,\*        but takes no byte, fails to recalibrate or
                       \*        interrupts unasked at most so often,
          MAX_REQUESTS \*        and so many requests are made

ASSUME FloppyAssumption ==
  /\ Drives \subseteq 0..3 /\ 0 \in Drives /\ Tracks \subseteq Nat /\ MAX_TRACK \in Nat
  /\ MAX_ERRORS \in Nat \ {0} /\ SETTLE \in Nat \ {0} /\ SPIN \in Nat /\ SPIN >= SETTLE
  /\ ANSWER \in Nat /\ MAX_TIMEOUTS \in Nat /\ MAX_REQUESTS \in Nat
  /\ OFF \in Nat /\ OFF > SPIN + SETTLE + 2 * (ANSWER + 1)

NEVER == OFF + 1    \* moff_timer = 10000, "100 s = very big"

VARIABLES queue,     \* the requests: drive, track and errors; CURRENT first
          run,       \* the function of the driver to be run, or "none"
          d,         \* its statics: reset, recalibrate, seek, current_drive,
                     \* current_track, seek_track, selected and do_floppy
          fdc,       \* what the controller is doing, and for how many ticks
          dor,       \* current_DOR: the drive selected and the motors that are on
          mon_timer, moff_timer,
          timers,    \* the timer list: jiffies and fn, next_timer first
          tick,      \* do_timer has do_floppy_timer still to call
          chg,       \* the task in floppy_change: where it is, and its drive
          timeouts, requests,  \* how many of these there were
          fault

fdvars == <<queue, run, d, fdc, dor, mon_timer, moff_timer, timers, tick, chg,
            timeouts, requests, fault>>
motor == <<dor, mon_timer, moff_timer>>
others == <<tick, requests, fault>>

NoOp == [op |-> "none", age |-> 0]
NULL == "none"

FloppyInit ==
  /\ queue = <<>> /\ run = "none"
  /\ d = [reset |-> FALSE, recalibrate |-> FALSE, seek |-> FALSE, current_drive |-> 0,
          current_track |-> 255, seek_track |-> 0, selected |-> FALSE, do_floppy |-> NULL]
  /\ fdc = NoOp
  /\ dor = [drive |-> 0, on |-> {}]
  /\ mon_timer = [n \in Drives |-> 0] /\ moff_timer = [n \in Drives |-> 0]
  /\ timers = <<>> /\ tick = FALSE
  /\ chg = [pc |-> "idle", nr |-> 0]
  /\ timeouts = 0 /\ requests = 0
  /\ fault = FALSE

CURRENT == Head(queue)

-----------------------------------------------------------------------------
(* ticks_to_floppy_on(nr), of the driver and of floppy_on.  Unless a drive is  *)
(* held for a transfer, nr is selected.  It returns mon_timer'[nr].           *)
Ticks_Forced(nr) ==  \* defect: the drive of a transfer is not left selected
  LET mask == [drive |-> nr, on |-> dor.on \cup {nr}]
  IN /\ moff_timer' = [moff_timer EXCEPT ![nr] = NEVER]
     /\ mon_timer' = [mon_timer EXCEPT ![nr] = IF mask.on # dor.on THEN SPIN ELSE @]
     /\ dor' = mask

Ticks_Counting(nr) ==  \* defect: the time to the end of the motor goes on
  LET mask == [drive |-> IF d.selected THEN dor.drive ELSE nr, on |-> dor.on \cup {nr}]
  IN /\ mon_timer' = [mon_timer EXCEPT ![nr] = IF mask.on # dor.on THEN SPIN ELSE @]
     /\ dor' = mask
     /\ UNCHANGED moff_timer

Ticks(nr) ==
  LET mask == [drive |-> IF d.selected THEN dor.drive ELSE nr, on |-> dor.on \cup {nr}]
  IN /\ moff_timer' = [moff_timer EXCEPT ![nr] = NEVER]
     /\ mon_timer' = [mon_timer EXCEPT ![nr] =
          CASE mask.on # dor.on -> SPIN
            [] mask.on = dor.on /\ mask # dor /\ @ < SETTLE -> SETTLE
            [] OTHER -> @]
     /\ dor' = mask

(* add_timer: an entry goes behind those with less time left, and its own     *)
(* time is what is left after theirs.  (The time of the entry behind it is    *)
(* not made less: it is called late.)                                        *)
Inserted(s, e) ==
  LET ins[i \in 1..(Len(s) + 1)] ==
        [at |-> i, left |-> IF i = 1 THEN e.jiffies ELSE ins[i - 1].left - s[i - 1].jiffies]
      stop == CHOOSE i \in 1..(Len(s) + 1) :
                /\ i > Len(s) \/ s[i].jiffies >= ins[i].left
                /\ \A j \in 1..(i - 1) : s[j].jiffies < ins[j].left
  IN SubSeq(s, 1, stop - 1) \o <<[e EXCEPT !.jiffies = ins[stop].left]>>
       \o SubSeq(s, stop, Len(s))

add_timer(jiffies, fn) ==
  IF jiffies <= 0
  THEN run' = fn /\ UNCHANGED timers
  ELSE run' = "none" /\ timers' = Inserted(timers, [jiffies |-> jiffies, fn |-> fn])

(* output_byte may find that the controller takes no more bytes, and result   *)
(* that it gives no answer: TRUE when the bytes went through.                *)
Talks == {TRUE} \cup (IF timeouts < MAX_TIMEOUTS THEN {FALSE} ELSE {})
Counted(ok) == timeouts' = IF ok THEN timeouts ELSE timeouts + 1

(* A command: its handler is armed; if it cannot be sent, do_fd_request is     *)
(* to reset the controller.                                                  *)
SendCommand(k, handler, op) ==
  \E ok \in Talks :
    /\ Counted(ok)
    /\ d' = [k EXCEPT !.do_floppy = handler, !.reset = ~ok]
    /\ fdc' = IF ok THEN [op |-> op, age |-> 0] ELSE fdc
    /\ run' = IF ok THEN "none" ELSE "do_fd_request"

-----------------------------------------------------------------------------
(* do_fd_request.                                                           *)
Enters == run = "do_fd_request" /\ ~fault

reset_floppy ==
  /\ Enters /\ d.reset
  /\ d' = [d EXCEPT !.seek = FALSE, !.reset = FALSE, !.recalibrate = TRUE,
                    !.do_floppy = "reset_interrupt"]
  /\ fdc' = [op |-> "reset", age |-> 0]
  /\ run' = "none"
  /\ UNCHANGED <<queue, motor, timers, chg, timeouts, others>>

recalibrate_floppy ==
  /\ Enters /\ ~d.reset /\ d.recalibrate
  /\ SendCommand([d EXCEPT !.seek = FALSE, !.recalibrate = FALSE, !.current_track = 0],
                 "recal_interrupt", "recal")
  /\ UNCHANGED <<queue, motor, timers, chg, others>>

(* `goto repeat' does not clear seek.                                        *)
Ready == ~fault /\ (run = "repeat" \/ (Enters /\ ~d.reset /\ ~d.recalibrate))
Kept == run = "repeat" /\ d.seek

NoRequest ==
  /\ Ready /\ queue = <<>>
  /\ d' = [d EXCEPT !.seek = Kept]
  /\ run' = "none"
  /\ UNCHANGED <<queue, fdc, motor, timers, chg, timeouts, others>>

(* end_request, with floppy_off of the drive.                                *)
end_request == queue' = Tail(queue) /\ moff_timer' = [moff_timer EXCEPT ![CURRENT.drive] = OFF]

(* A block beyond the end is refused, but the drive is the current one now.   *)
OutOfRange ==
  /\ Ready /\ queue # <<>> /\ CURRENT.track > MAX_TRACK
  /\ d' = [d EXCEPT !.current_drive = CURRENT.drive,
             !.seek = (Kept \/ d.current_drive # CURRENT.drive)]
  /\ end_request
  /\ run' = "repeat"
  /\ UNCHANGED <<fdc, dor, mon_timer, timers, chg, timeouts, others>>

StartRequest ==
  /\ Ready /\ queue # <<>> /\ CURRENT.track <= MAX_TRACK
  /\ d' = [d EXCEPT !.current_drive = CURRENT.drive, !.seek_track = CURRENT.track,
             !.seek = (Kept \/ d.current_drive # CURRENT.drive \/ CURRENT.track # d.current_track)]
  /\ Ticks(CURRENT.drive)
  /\ add_timer(mon_timer'[CURRENT.drive], "floppy_on_interrupt")
  /\ UNCHANGED <<queue, fdc, chg, timeouts, others>>

(* The motor is on.  "We cannot do a floppy-select, as that might sleep. We    *)
(* just force it".                                                          *)
floppy_on_interrupt ==
  /\ run = "floppy_on_interrupt" /\ ~fault
  /\ d' = [d EXCEPT !.selected = TRUE]
  /\ dor' = [dor EXCEPT !.drive = d.current_drive]
  /\ IF d.current_drive # dor.drive
     THEN add_timer(SETTLE, "transfer")
     ELSE run' = "transfer" /\ UNCHANGED timers
  /\ UNCHANGED <<queue, fdc, mon_timer, moff_timer, chg, timeouts, others>>

(* transfer: after a reset, its own (FD_SPECIFY) or an unexpected one, it goes *)
(* back; else it seeks, or goes on to setup_rw_floppy.                        *)
transfer ==
  /\ run = "transfer" /\ ~fault
  /\ \/ d.reset /\ run' = "do_fd_request" /\ UNCHANGED <<d, fdc, timeouts>>
     \/ /\ ~d.reset /\ FALSE \in Talks
        /\ d' = [d EXCEPT !.reset = TRUE] /\ Counted(FALSE)
        /\ run' = "do_fd_request" /\ UNCHANGED fdc
     \/ ~d.reset /\ ~d.seek /\ run' = "setup_rw_floppy" /\ UNCHANGED <<d, fdc, timeouts>>
     \/ ~d.reset /\ d.seek /\ SendCommand(d, "seek_interrupt", "seek")
  /\ UNCHANGED <<queue, motor, timers, chg, others>>

setup_rw_floppy ==
  /\ run = "setup_rw_floppy" /\ ~fault
  /\ SendCommand(d, "rw_interrupt", "rw")
  /\ UNCHANGED <<queue, motor, timers, chg, others>>

-----------------------------------------------------------------------------
(* floppy_interrupt takes the handler out of do_floppy.                      *)
FloppyInterrupt(handler) ==
  run = "none" /\ ~tick /\ ~fault /\ fdc # NoOp /\ d.do_floppy = handler

(* floppy_deselect wakes those that wait for the drive.                      *)
Woken == chg' = [chg EXCEPT !.pc = IF @ = "select" THEN "test" ELSE @]

(* bad_flp_intr.  After end_request its last test reads the errors of the      *)
(* next request, or what is at the address of those of a null request.       *)
BadIntr_Kept(k) ==  \* defect: a request that has failed too often stays
  /\ queue' = IF CURRENT.errors < MAX_ERRORS THEN [queue EXCEPT ![1].errors = @ + 1] ELSE queue
  /\ d' = [k EXCEPT !.recalibrate = TRUE]
  /\ UNCHANGED <<chg, moff_timer>>

bad_flp_intr(k) ==
  LET errors == CURRENT.errors + 1
      over == errors > MAX_ERRORS
  IN \E bad \in IF over /\ Len(queue) = 1 THEN BOOLEAN
                ELSE {~over /\ errors > MAX_ERRORS \div 2} :
       /\ d' = [k EXCEPT !.selected = IF over THEN FALSE ELSE @,
                         !.reset = (@ \/ bad), !.recalibrate = (@ \/ ~bad)]
       /\ IF over THEN end_request /\ Woken
          ELSE queue' = [queue EXCEPT ![1].errors = errors] /\ UNCHANGED <<chg, moff_timer>>

Taken == [d EXCEPT !.do_floppy = NULL]

(* A request that was done ends, and so does one that finds its diskette, or   *)
(* in the reply before a time-out one, write protected.                      *)
rw_interrupt(good) ==
  /\ FloppyInterrupt("rw_interrupt") /\ queue # <<>>
  /\ \E ok \in Talks :
       /\ Counted(ok)
       /\ \/ d' = [Taken EXCEPT !.reset = ~ok, !.selected = FALSE] /\ end_request /\ Woken
          \/ ~(ok /\ good) /\ bad_flp_intr([Taken EXCEPT !.reset = ~ok])
  /\ fdc' = NoOp /\ run' = "do_fd_request"
  /\ UNCHANGED <<dor, mon_timer, timers, others>>

seek_interrupt(good) ==
  /\ FloppyInterrupt("seek_interrupt") /\ queue # <<>>
  /\ \E ok \in Talks :
       /\ Counted(ok)
       /\ IF ok /\ good
          THEN /\ d' = [Taken EXCEPT !.current_track = d.seek_track]
               /\ run' = "setup_rw_floppy"
               /\ UNCHANGED <<queue, chg, moff_timer>>
          ELSE bad_flp_intr([Taken EXCEPT !.reset = ~ok]) /\ run' = "do_fd_request"
  /\ fdc' = NoOp
  /\ UNCHANGED <<dor, mon_timer, timers, others>>

(* A drive that cannot recalibrate is reset and recalibrated again: that is    *)
(* not counted, and it is taken to succeed at last.                          *)
recal_interrupt ==
  /\ FloppyInterrupt("recal_interrupt")
  /\ \E ok \in Talks :
       /\ Counted(ok)
       /\ d' = [Taken EXCEPT !.reset = ~ok, !.recalibrate = IF ok THEN FALSE ELSE @]
  /\ fdc' = NoOp /\ run' = "do_fd_request"
  /\ UNCHANGED <<queue, motor, timers, chg, others>>

reset_interrupt ==
  /\ FloppyInterrupt("reset_interrupt")
  /\ \E ok \in Talks : Counted(ok) /\ d' = [Taken EXCEPT !.reset = ~ok]
  /\ fdc' = NoOp /\ run' = "do_fd_request"
  /\ UNCHANGED <<queue, motor, timers, chg, others>>

(* An interrupt without a command.                                           *)
unexpected_floppy_interrupt ==
  /\ run = "none" /\ ~tick /\ ~fault /\ fdc = NoOp /\ d.do_floppy = NULL
  /\ timeouts < MAX_TIMEOUTS /\ Counted(FALSE)
  /\ \/ d' = [d EXCEPT !.reset = TRUE]
     \/ d' = [d EXCEPT !.recalibrate = TRUE]
  /\ UNCHANGED <<queue, run, fdc, motor, timers, chg, others>>

-----------------------------------------------------------------------------
(* do_timer: the entry that is due is taken out and called ...                *)
do_timer_list ==
  /\ run = "none" /\ ~tick /\ ~fault
  /\ timers # <<>> \/ dor.on # {} \/ fdc # NoOp
  /\ fdc # NoOp => fdc.age < ANSWER
  /\ fdc' = IF fdc = NoOp THEN fdc ELSE [fdc EXCEPT !.age = @ + 1]
  /\ CASE timers = <<>> -> UNCHANGED <<run, timers>>
       [] timers # <<>> /\ Head(timers).jiffies > 1 ->
            timers' = [timers EXCEPT ![1].jiffies = @ - 1] /\ UNCHANGED run
       [] OTHER -> timers' = Tail(timers) /\ run' = Head(timers).fn
  /\ tick' = TRUE
  /\ UNCHANGED <<queue, d, motor, chg, timeouts, requests, fault>>

(* ... and then do_floppy_timer looks at the motors that are on.             *)
do_floppy_timer ==
  LET spun == {n \in dor.on : mon_timer[n] = 1}
      stops == {n \in dor.on : mon_timer[n] = 0 /\ moff_timer[n] = 0}
  IN /\ run = "none" /\ tick /\ ~fault
     /\ tick' = FALSE
     /\ mon_timer' = [n \in Drives |-> IF n \in dor.on /\ mon_timer[n] > 0 THEN mon_timer[n] - 1
                                       ELSE mon_timer[n]]
     /\ moff_timer' = [n \in Drives |->
          IF n \in dor.on \ stops /\ mon_timer[n] = 0 /\ moff_timer[n] # NEVER
          THEN moff_timer[n] - 1 ELSE moff_timer[n]]
     /\ dor' = [dor EXCEPT !.on = @ \ stops]
     /\ chg' = [chg EXCEPT !.pc = IF @ = "motor" /\ chg.nr \in spun THEN "on" ELSE @]
     /\ UNCHANGED <<queue, run, d, fdc, timers, timeouts, requests, fault>>

-----------------------------------------------------------------------------
(* add_request: the first request of an empty queue starts the driver, which  *)
(* may be at work without one.                                               *)
Request(drive, track) ==
  /\ run = "none" /\ ~tick /\ ~fault /\ requests < MAX_REQUESTS
  /\ requests' = requests + 1
  /\ queue' = Append(queue, [drive |-> drive, track |-> track, errors |-> 0])
  /\ run' = IF queue = <<>> THEN "do_fd_request" ELSE run
  /\ fault' = (queue = <<>> /\ fdc # NoOp)
  /\ UNCHANGED <<d, fdc, motor, timers, tick, chg, timeouts>>

(* floppy_change, by a task: it waits for the motor in floppy_on, and for the  *)
(* drive when another one is held.                                           *)
TaskRuns == run = "none" /\ ~tick /\ ~fault

FloppyChange(nr) ==
  /\ TaskRuns /\ chg.pc = "idle"
  /\ chg' = [pc |-> "on", nr |-> nr]
  /\ UNCHANGED <<queue, run, d, fdc, motor, timers, timeouts, others>>

floppy_on ==
  /\ TaskRuns /\ chg.pc = "on"
  /\ Ticks(chg.nr)
  /\ chg' = [chg EXCEPT !.pc = IF mon_timer'[chg.nr] = 0 THEN "test" ELSE "motor"]
  /\ UNCHANGED <<queue, run, d, fdc, timers, timeouts, others>>

ChangeTest ==
  /\ TaskRuns /\ chg.pc = "test"
  /\ IF dor.drive = chg.nr
     THEN /\ moff_timer' = [moff_timer EXCEPT ![chg.nr] = OFF]     \* floppy_off
          /\ chg' = [pc |-> "idle", nr |-> 0]
     ELSE /\ chg' = [chg EXCEPT !.pc = IF d.selected THEN "sleep" ELSE "on"]
          /\ UNCHANGED moff_timer
  /\ UNCHANGED <<queue, run, d, fdc, dor, mon_timer, timers, timeouts, others>>

(* interruptible_sleep_on, with interrupts on since the test.                *)
ChangeSleep ==
  /\ TaskRuns /\ chg.pc = "sleep"
  /\ chg' = [chg EXCEPT !.pc = "select"]
  /\ UNCHANGED <<queue, run, d, fdc, motor, timers, timeouts, others>>

-----------------------------------------------------------------------------
Driver == \/ reset_floppy \/ recalibrate_floppy \/ NoRequest \/ OutOfRange
          \/ StartRequest \/ floppy_on_interrupt \/ transfer \/ setup_rw_floppy
Controller == \/ \E good \in BOOLEAN : rw_interrupt(good) \/ seek_interrupt(good)
              \/ recal_interrupt \/ reset_interrupt
Clock == do_timer_list \/ do_floppy_timer
Change == (\E nr \in Drives : FloppyChange(nr)) \/ floppy_on \/ ChangeTest \/ ChangeSleep

FloppyNext == \/ Driver \/ Controller \/ unexpected_floppy_interrupt \/ Clock \/ Change
              \/ \E n \in Drives, t \in Tracks : Request(n, t)

(* The driver's functions run to their end, the controller answers, and the   *)
(* clock ticks.                                                             *)
FloppyFairness == WF_fdvars(Driver) /\ WF_fdvars(Controller) /\ WF_fdvars(Clock)

FloppySpec == FloppyInit /\ [][FloppyNext]_fdvars /\ FloppyFairness

-----------------------------------------------------------------------------
(* The driver does one thing at a time: it runs, has the controller at work,   *)
(* or waits for one timer (so that the times of the timer list are right).   *)
OneAtATime == ~fault =>
  Len(timers) + (IF run # "none" THEN 1 ELSE 0) + (IF fdc # NoOp THEN 1 ELSE 0) <= 1

(* The interrupt of the controller finds the handler of its command, and a    *)
(* seek or a transfer is the current request's: its drive is the one the      *)
(* controller has selected, whatever floppy_change asks for meanwhile.       *)
InterruptMatches == ~fault /\ fdc # NoOp =>
  /\ d.do_floppy = CASE fdc.op = "rw" -> "rw_interrupt" [] fdc.op = "seek" -> "seek_interrupt"
                     [] fdc.op = "recal" -> "recal_interrupt" [] fdc.op = "reset" -> "reset_interrupt"
  /\ fdc.op \in {"rw", "seek"} =>
       /\ queue # <<>> /\ d.current_drive = CURRENT.drive /\ d.seek_track = CURRENT.track
       /\ d.selected /\ dor.drive = CURRENT.drive

(* Driver and controller are never at odds about what is going on.            *)
InStep == OneAtATime /\ InterruptMatches

(* The motor runs for as long as the controller seeks or transfers, although  *)
(* floppy_change ends with floppy_off of a drive the driver is using, because  *)
(* a controller that answers is done before that turns the motor off.        *)
MotorRuns == ~fault /\ fdc.op \in {"rw", "seek"} => d.current_drive \in dor.on

(* Every request ends, however often its transfers and seeks fail: each       *)
(* failure is counted, up to MAX_ERRORS.                                    *)
RequestsEnd == []<>(queue = <<>>) \/ <>[]fault
=============================================================================
