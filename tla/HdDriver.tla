------------------------------ MODULE HdDriver ------------------------------
(***************************************************************************)
(* The hard disk driver, kernel/blk_drv/hd.c: do_hd_request starts CURRENT, *)
(* and each interrupt of the controller calls the function in do_hd.  A     *)
(* request is two sectors, moved one per interrupt; an error is retried,    *)
(* with a reset and a recalibration once there were several, and ends the   *)
(* request after MAX_ERRORS.                                                *)
(*                                                                         *)
(* The driver runs with interrupts off (in an interrupt), or with none to   *)
(* come (called by add_request for an empty queue): while `running', no one *)
(* else takes a step.                                                       *)
(***************************************************************************)
EXTENDS RequestQueue

CONSTANTS NR_SECTS,   \* sectors of the partition
          MAX_ERRORS, \* errors after which a request is given up
          FileBlocks  \* the blocks filled from user space: of files, or of the raw device

ASSUME HdAssumption == NR_SECTS \in Nat /\ MAX_ERRORS \in Nat /\ FileBlocks \subseteq Blocks

VARIABLES running,     \* do_hd_request is to be run
          do_hd,       \* the function the next interrupt calls: "read_intr",
                       \* "write_intr", "recal_intr", or NULL
          command,     \* what the controller is doing: "read", "write", "recal" or NULL
          reset, recalibrate,
          errors,      \* CURRENT->errors
          nr_sectors,  \* CURRENT->nr_sectors: sector and buffer have moved 2 - nr_sectors
          extent,      \* the sector the controller moves next, and the number of
                       \* sectors it still has to move
          saved,       \* the halves of a buffer that are the same on disk
          copying,     \* the buffers into which someone is copying, with page faults
          late         \* (history) the buffers changed while b_dirt was clear, and not
                       \* marked since

datavars == <<saved, copying, late>>
hdvars == <<running, do_hd, command, reset, recalibrate, errors, nr_sectors, extent, saved,
            copying, late>>
vars == <<rqvars, hdvars>>

Nothing == [sector |-> 0, count |-> 0]   \* the extent of a recalibration, or of no command

HdInit ==
  /\ Init
  /\ running = FALSE
  /\ do_hd = NULL /\ command = NULL
  /\ reset = TRUE /\ recalibrate = TRUE
  /\ errors = 0 /\ nr_sectors = 2
  /\ extent = Nothing
  /\ saved = [b \in Blocks |-> {1, 2}]
  /\ copying = {} /\ late = {}

-----------------------------------------------------------------------------
Block == request[CURRENT].block
IsWrite == request[CURRENT].cmd = WRITE

(* CURRENT->sector, and the half of the buffer the next sector is.          *)
Sector == 2 * Block + (2 - nr_sectors)
Half == 3 - nr_sectors

(* end_request, and the fields of the request that is CURRENT from now on.  *)
End(uptodate) == EndRequest(uptodate) /\ errors' = 0 /\ nr_sectors' = 2

(* bad_rw_intr.  After end_request its second test reads the errors of the  *)
(* next request - which has none - or, with no next one, whatever is stored *)
(* at the address of a null request's `errors'.                             *)
BadRw_NoLimit ==  \* defect: the request is never given up
  /\ errors' = IF errors < MAX_ERRORS THEN errors + 1 ELSE errors
  /\ reset' = (reset \/ errors' > MAX_ERRORS \div 2)
  /\ UNCHANGED <<rqvars, nr_sectors>>

BadRw ==
  IF errors + 1 >= MAX_ERRORS
  THEN /\ End(FALSE)
       /\ IF queue' = <<>> THEN reset' \in {reset, TRUE} ELSE UNCHANGED reset
  ELSE /\ errors' = errors + 1
       /\ reset' = (reset \/ errors' > MAX_ERRORS \div 2)
       /\ UNCHANGED <<rqvars, nr_sectors>>

(* hd_out: arm the handler, start the controller on nsect sectors from      *)
(* `first'.                                                                 *)
HdOut_Whole(cmd, intr, first, nsect) ==  \* defect: a retry moves two sectors again
  command' = cmd /\ do_hd' = intr /\ extent' = [sector |-> first, count |-> 2]

HdOut(cmd, intr, first, nsect) ==
  command' = cmd /\ do_hd' = intr /\ extent' = [sector |-> first, count |-> nsect]

(* The controller is done, or has moved a sector and is done when it was    *)
(* the last.                                                                *)
Done == command' = NULL /\ extent' = Nothing
Moved ==
  IF extent.count > 1
  THEN /\ extent' = [sector |-> extent.sector + 1, count |-> extent.count - 1]
       /\ UNCHANGED command
  ELSE Done

(* do_hd_request, one turn of its `repeat' loop.                            *)
NoRequest ==
  /\ running /\ queue = <<>>
  /\ running' = FALSE
  /\ UNCHANGED <<rqvars, do_hd, command, reset, recalibrate, errors, nr_sectors, extent,
                 datavars>>

(* The test of do_hd_request compares two sectors from the next one, also   *)
(* when only the second sector of a request is left to be tried again.      *)
Beyond == Sector + 2 > NR_SECTS

OutOfRange ==
  /\ running /\ queue # <<>> /\ Beyond
  /\ End(FALSE)
  /\ UNCHANGED <<running, do_hd, command, reset, recalibrate, extent, datavars>>

InRange == running /\ queue # <<>> /\ ~Beyond

Reset ==
  /\ InRange /\ reset
  /\ reset' = FALSE /\ recalibrate' = TRUE
  /\ HdOut("recal", "recal_intr", 0, 0)     \* reset_hd: WIN_SPECIFY
  /\ running' = FALSE
  /\ UNCHANGED <<rqvars, errors, nr_sectors, datavars>>

Recalibrate ==
  /\ InRange /\ ~reset /\ recalibrate
  /\ recalibrate' = FALSE
  /\ HdOut("recal", "recal_intr", 0, 0)     \* WIN_RESTORE
  /\ running' = FALSE
  /\ UNCHANGED <<rqvars, reset, errors, nr_sectors, datavars>>

StartRead ==
  /\ InRange /\ ~reset /\ ~recalibrate /\ ~IsWrite
  /\ HdOut("read", "read_intr", Sector, nr_sectors)
  /\ running' = FALSE
  /\ UNCHANGED <<rqvars, reset, recalibrate, errors, nr_sectors, datavars>>

(* The controller asks for the first sector (DRQ) ...                       *)
StartWrite ==
  /\ InRange /\ ~reset /\ ~recalibrate /\ IsWrite
  /\ HdOut("write", "write_intr", Sector, nr_sectors)
  /\ saved' = [saved EXCEPT ![Block] = @ \cup {Half}]
  /\ running' = FALSE
  /\ UNCHANGED <<rqvars, reset, recalibrate, errors, nr_sectors, copying, late>>

(* ... or does not, in 3000 polls: an error, and `goto repeat' with do_hd   *)
(* still armed.                                                             *)
WriteTimeout ==
  /\ InRange /\ ~reset /\ ~recalibrate /\ IsWrite
  /\ do_hd' = "write_intr" /\ Done
  /\ BadRw
  /\ UNCHANGED <<running, recalibrate, datavars>>

(* hd_interrupt takes the handler out of do_hd.  win_result() = 0:          *)
ReadIntr ==
  /\ ~running /\ command # NULL /\ do_hd = "read_intr"
  /\ saved' = [saved EXCEPT ![Block] = @ \cup {Half}]
  /\ Moved
  /\ IF nr_sectors > 1
       THEN nr_sectors' = nr_sectors - 1 /\ errors' = 0 /\ UNCHANGED <<rqvars, do_hd, running>>
       ELSE End(TRUE) /\ running' = TRUE /\ do_hd' = NULL
  /\ UNCHANGED <<reset, recalibrate, copying, late>>

WriteIntr ==
  /\ ~running /\ command # NULL /\ do_hd = "write_intr"
  /\ Moved
  /\ IF nr_sectors > 1
       THEN /\ nr_sectors' = nr_sectors - 1
            /\ saved' = [saved EXCEPT ![Block] = @ \cup {Half'}]
            /\ UNCHANGED <<rqvars, errors, do_hd, running>>
       ELSE End(TRUE) /\ running' = TRUE /\ do_hd' = NULL /\ UNCHANGED saved
  /\ UNCHANGED <<reset, recalibrate, copying, late>>

RecalIntr ==
  /\ ~running /\ command # NULL /\ do_hd = "recal_intr"
  /\ running' = TRUE /\ do_hd' = NULL /\ Done
  /\ UNCHANGED <<rqvars, reset, recalibrate, errors, nr_sectors, datavars>>

(* win_result() = 1, in any of the three handlers.                          *)
ErrorIntr ==
  /\ ~running /\ command # NULL
  /\ BadRw
  /\ running' = TRUE /\ do_hd' = NULL /\ Done
  /\ UNCHANGED <<recalibrate, datavars>>

Driver == \/ NoRequest \/ OutOfRange \/ Reset \/ Recalibrate
          \/ StartRead \/ StartWrite \/ WriteTimeout
Interrupt == ReadIntr \/ WriteIntr \/ RecalIntr \/ ErrorIntr

(* A change of a buffer without a sleep between the change and the mark     *)
(* (write_inode, the bitmaps, rm_entry...).                                 *)
Modify(b) ==
  /\ MarkDirty(b)
  /\ saved' = [saved EXCEPT ![b] = {}] /\ late' = late \ {b}
  /\ UNCHANGED copying

(* A change that copies from user space: file_write sets b_dirt, then       *)
(* copies; block_write copies, then sets b_dirt (its Modify).  Each         *)
(* get_fs_byte may fault and sleep, and the copy goes on afterwards without *)
(* looking at b_dirt again.                                                 *)
StartCopy(b) ==
  /\ cur = NULL /\ b_uptodate[b]
  /\ copying' = copying \cup {b}
  /\ \/ MarkDirty(b) /\ late' = late \ {b}
     \/ UNCHANGED <<rqvars, late>>
  /\ UNCHANGED saved

CopyOn(b) ==
  /\ cur = NULL /\ b \in copying
  /\ saved' = [saved EXCEPT ![b] = {}]
  /\ late' = IF b_dirt[b] THEN late ELSE late \cup {b}
  /\ copying' \in {copying, copying \ {b}}   \* the copy faults again, or is done
  /\ UNCHANGED rqvars

(* The steps of the tasks.  add_request to an empty queue calls the driver. *)
TaskOrBuffer ==
  /\ ~running
  /\ \/ /\ \/ \E t \in Tasks : \/ Lock(t) \/ Fill(t) \/ Forget(t) \/ Full(t)
                               \/ Sleep(t) \/ Rescan(t)
                               \/ \E op \in {READ, WRITE, READA, WRITEA}, b \in Blocks :
                                     Call(t, op, b)
        /\ UNCHANGED <<running, datavars>>
     \/ /\ \/ \E b \in Blocks : Modify(b)
           \/ \E b \in FileBlocks : StartCopy(b) \/ CopyOn(b)
        /\ UNCHANGED running
     \/ /\ \E t \in Tasks : AddRequest(t)
        /\ running' = (queue = <<>>)
        /\ UNCHANGED datavars
  /\ UNCHANGED <<do_hd, command, reset, recalibrate, errors, nr_sectors, extent>>

HdNext == Driver \/ Interrupt \/ TaskOrBuffer

(* The controller answers every command, and the driver goes on.            *)
HdFairness == WF_vars(Driver) /\ WF_vars(Interrupt)

HdSpec == HdInit /\ [][HdNext]_vars /\ HdFairness

-----------------------------------------------------------------------------
(* The controller's interrupt finds its own handler armed, and the request  *)
(* it is about as CURRENT: a handler is never applied to another request or *)
(* to none (do_hd, CURRENT).                                                *)
InterruptMatches == command # NULL =>
  /\ ~running /\ queue # <<>>
  /\ do_hd = CASE command = "read" -> "read_intr" [] command = "write" -> "write_intr"
               [] command = "recal" -> "recal_intr"
  /\ command # "recal" => (IsWrite <=> command = "write")

(* No update made before or under a mark is lost: a buffer that is up to    *)
(* date, clean and not being written is the same on disk, both sectors,     *)
(* although it may be changed while it is being written, and a failed       *)
(* sector is written again from the changed buffer (add_request clears      *)
(* b_dirt, not end_request).  The exception is what a copy in file_write    *)
(* adds after a page fault during which the buffer was written: it is not   *)
(* marked again.                                                            *)
NoLostUpdate == \A b \in Blocks \ late :
  b_uptodate[b] /\ ~b_dirt[b] /\ Requests(b) = {} => saved[b] = {1, 2}

(* The controller moves the sectors of CURRENT that are left, of its block  *)
(* and of the partition, at every interrupt and after every retry, also of  *)
(* the second sector alone: its count and that of the driver are kept apart *)
(* and never fall out of step (do_hd_request, read_intr, write_intr).       *)
SectorsInStep == command # NULL /\ command # "recal" =>
  /\ extent = [sector |-> Sector, count |-> nr_sectors]
  /\ extent.sector + extent.count = 2 * Block + 2
  /\ extent.sector + extent.count <= NR_SECTS

(* Every request ends, however often the controller fails: errors are       *)
(* counted up to MAX_ERRORS and forgotten only when a sector was moved.     *)
RequestsEnd == \A b \in Blocks : (Requests(b) # {}) ~> (Requests(b) = {})
=============================================================================
