------------------------------ MODULE FtapeRead ------------------------------
(***************************************************************************)
(* ftape_read_segment(): the process that reads segments while the         *)
(* interrupt handler of FdcIsr reads ahead of it.  The loop of the         *)
(* function is a sequence of steps, in the order of the code:              *)
(*                                                                         *)
(*   scan    look for the wanted segment among the full buffers            *)
(*   wait    if it is being read, sleep until the handler is done with it  *)
(*   runner  stop the tape if the handler asked for it                     *)
(*   start   return, give up, or set the handler to work on the segment    *)
(*                                                                         *)
(* Between two steps, and while the process sleeps, the handler may run.   *)
(***************************************************************************)
EXTENDS FdcIsr

CONSTANTS EccBlocks,  \* the ECC code corrects that many blocks, 3 in the code
          Callers     \* the callers considered, see Requests

ASSUME EccBlocksAssumption == EccBlocks \in Nat \ {0}
ASSUME CallersAssumption == Callers \in {"any", "fresh", "forward"}

VARIABLES
    pc,         \* the step of the loop the process is at
    wanted,     \* segment_id, the segment the caller asked for
    read_mode,  \* FT_RD_SINGLE or FT_RD_AHEAD
    ecc_retry,  \* retry, how often the ECC code failed in this call
    read_done,  \* the segment has been found
    result      \* what the last call returned

procvars == <<pc, wanted, read_mode, ecc_retry, read_done, result>>
vars == <<isrvars, procvars>>

Steps == {"idle", "scan", "wait", "runner", "start", "abort_call", "abort_wait"}
Results == {"none", "ok", "ENODATA", "EIO", "EINTR"}

ReadTypeOK ==
    /\ IsrTypeOK
    /\ pc \in Steps
    /\ wanted \in Segments
    /\ read_mode \in {"FT_RD_SINGLE", "FT_RD_AHEAD"}
    /\ ecc_retry \in Nat
    /\ read_done \in BOOLEAN
    /\ result \in Results

Init ==
    /\ IsrInit
    /\ pc = "idle"
    /\ wanted \in Segments /\ \A s \in Segments : wanted <= s
    /\ read_mode = "FT_RD_AHEAD"
    /\ ecc_retry = 0 /\ read_done = FALSE
    /\ result = "none"

Return(res) == pc' = "idle" /\ result' = res
              /\ UNCHANGED <<wanted, read_mode, ecc_retry, read_done>>
Goto(step) == pc' = step
             /\ UNCHANGED <<wanted, read_mode, ecc_retry, read_done, result>>

(* The segments a caller asks for next: any at all; any but the one it has *)
(* just been given; or, when streaming, one after the other, repeating a   *)
(* call that failed and going back after the last segment.                 *)
Requests ==
    LET served == result \in {"ok", "ENODATA"} IN
    CASE Callers = "any" \/ driver_state # "reading" -> Segments
      [] Callers = "fresh" /\ driver_state = "reading" ->
            IF served THEN Segments \ {wanted} ELSE Segments
      [] Callers = "forward" /\ driver_state = "reading" ->
            IF ~served THEN {wanted}
            ELSE IF wanted + 1 \in Segments THEN {wanted + 1}
            ELSE Segments \ {wanted}

(* The caller asks for a segment.  If the driver was doing something else  *)
(* that is aborted first.                                                  *)
Call ==
    /\ pc = "idle"
    /\ \E seg \in Requests, mode \in {"FT_RD_SINGLE", "FT_RD_AHEAD"} :
          /\ wanted' = seg
          /\ read_mode' = mode
    /\ ecc_retry' = 0 /\ read_done' = FALSE
    /\ IF driver_state # "reading"
       THEN pc' = "abort_call" /\ AbortBegin
       ELSE pc' = "scan" /\ UNCHANGED runner_status
    /\ result' = "none"
    /\ UNCHANGED <<ring, controller, setup, stop_read_ahead, driver_state, faults>>

(* ftape_abort_operation() for a new call: a drive that does not answer    *)
(* fails the call, but the buffers are zapped and the state reset.         *)
AbortForCall ==
    /\ pc = "abort_call"
    /\ AbortEnd
    /\ \/ NoFault /\ driver_state' = "reading" /\ Goto("scan")
       \/ Fault("drive") /\ driver_state' = "waiting" /\ Return("EIO")

(* The same, when the runner reads the wrong segment or the wait for it    *)
(* failed: the result is ignored.                                          *)
AbortForWait ==
    /\ pc = "abort_wait"
    /\ AbortEnd
    /\ NoFault /\ driver_state' = "reading" /\ Goto("runner")

-----------------------------------------------------------------------------
(* scan                                                                     *)

FreeTail == /\ buffers' = [buffers EXCEPT ![tail].status = "waiting"]
            /\ tail' = next(tail)
            /\ UNCHANGED head

untouched == <<controller, setup, runner_status, stop_read_ahead, driver_state>>

Found == pc = "scan" /\ ~read_done /\ TAIL.status = "done"
         /\ TAIL.segment_id = wanted

(* ftape_ecc_correct(): a segment of EccBlocks blocks or less holds no     *)
(* data.                                                                   *)
NoData(b)  == b.bytes <= EccBlocks
Correctable(b) == Cardinality(convert_sector_map(b)) <= EccBlocks

ScanDeleted ==
    /\ Found /\ TAIL.deleted = 1
    /\ Return("ENODATA")
    /\ UNCHANGED isrvars

ScanFound ==
    /\ Found /\ TAIL.deleted = 0
    /\ NoData(TAIL) \/ Correctable(TAIL) \/ IgnoreEccErr
    /\ read_done' = TRUE
    /\ FreeTail
    /\ NoFault
    /\ UNCHANGED <<pc, wanted, read_mode, ecc_retry, result, untouched>>

(* Too many errors, or blocks that are corrupt and not flagged.            *)
ScanEccFailure ==
    /\ Found /\ TAIL.deleted = 0 /\ ~NoData(TAIL) /\ ~IgnoreEccErr
    /\ IF Correctable(TAIL) THEN Fault("ecc") ELSE NoFault
    /\ ecc_retry' = ecc_retry + 1
    /\ FreeTail
    /\ UNCHANGED <<pc, wanted, read_mode, read_done, result, untouched>>

ScanZap ==
    /\ pc = "scan" /\ ~read_done /\ TAIL.status = "done"
    /\ TAIL.segment_id # wanted
    /\ FreeTail
    /\ NoFault
    /\ UNCHANGED <<procvars, untouched>>

ScanEnd ==
    /\ pc = "scan" /\ (read_done \/ TAIL.status # "done")
    /\ IF read_done \/ TAIL.status # "reading" THEN Goto("runner")
       ELSE Goto("wait")
    /\ UNCHANGED isrvars

-----------------------------------------------------------------------------
(* wait                                                                     *)

(* TAIL is being read, but it is not the wanted segment.                   *)
WaitWrongSegment ==
    /\ pc = "wait" /\ TAIL.segment_id # wanted
    /\ AbortBegin
    /\ Goto("abort_wait")
    /\ NoFault
    /\ UNCHANGED <<ring, controller, setup, stop_read_ahead, driver_state>>

Waiting == pc = "wait" /\ TAIL.segment_id = wanted

(* ftape_wait_segment(): an interrupt has been seen.  The loop goes on     *)
(* unless the set up of a transfer failed meanwhile.                       *)
WaitAwake ==
    /\ Waiting /\ TAIL.status = "reading" /\ interrupt_seen
    /\ interrupt_seen' = FALSE
    /\ IF setup_error THEN AbortBegin /\ Goto("abort_wait")
                      ELSE UNCHANGED <<runner_status, procvars>>
    /\ NoFault
    /\ UNCHANGED <<ring, fdc_mode, busy, hide_interrupt, setup_error, setup,
                   stop_read_ahead, driver_state>>

(* No interrupt came in time: fdc_interrupt_wait() resets the controller.  *)
(* It is a fault only if an interrupt was still to be expected.            *)
WaitTimeout ==
    /\ Waiting /\ TAIL.status = "reading" /\ ~interrupt_seen
    /\ IF busy THEN Fault("timeout") ELSE NoFault
    /\ ControllerQuiet
    /\ AbortBegin
    /\ Goto("abort_wait")
    /\ UNCHANGED <<ring, setup_error, setup, stop_read_ahead, driver_state>>

(* The handler is done with TAIL.  After an error the drive is asked; one  *)
(* that reports an error itself has the operation aborted (and the retry   *)
(* it is granted after a data rate conflict is lost in the abort).         *)
WaitEnd ==
    /\ Waiting /\ TAIL.status # "reading"
    /\ TAIL.status = "error" => DriveReachable
    /\ \/ /\ NoFault
          /\ Goto("runner")
          /\ UNCHANGED runner_status
       \/ /\ TAIL.status = "error"
          /\ Fault("drive")
          /\ AbortBegin
          /\ Goto("abort_wait")
    /\ UNCHANGED <<ring, controller, setup, stop_read_ahead, driver_state>>

(* A signal ends the call at the top of a loop.                            *)
Signal ==
    /\ pc \in {"scan", "wait"}
    /\ pc = "wait" => Waiting
    /\ Fault("signal")
    /\ Return("EINTR")
    /\ UNCHANGED <<ring, controller, setup, runner_status, stop_read_ahead,
                   driver_state>>

-----------------------------------------------------------------------------
(* runner                                                                   *)

(* Mutant: HEAD stays marked as failed.                                    *)
FreeHead_Leave == UNCHANGED buffers

(* The handler stopped at an error: HEAD is free to be set up again.       *)
FreeHead ==
    buffers' = [buffers EXCEPT ![head].status =
                   IF @ \in {"error", "reading"} THEN "waiting" ELSE @]

RunnerAborting ==
    /\ pc = "runner" /\ runner_status = "aborting"
    /\ ftape_dumb_stop
    /\ FreeHead
    /\ \/ NoFault /\ Goto("start")
       \/ Fault("drive") /\ Return("EIO")
    /\ UNCHANGED <<head, tail, setup, setup_error, stop_read_ahead, driver_state>>

RunnerEot ==
    /\ pc = "runner" /\ runner_status # "aborting"
    /\ \/ /\ NoFault
          /\ ftape_handle_logical_eot
          /\ Goto("start")
       \/ /\ runner_status = "logical_eot"
          /\ Fault("drive")
          /\ Return("EIO")
          /\ UNCHANGED runner_status
    /\ UNCHANGED <<ring, controller, setup, stop_read_ahead, driver_state>>

-----------------------------------------------------------------------------
(* start                                                                    *)

ReturnSegment ==
    /\ pc = "start" /\ read_done
    /\ Return("ok")
    /\ UNCHANGED isrvars

TooManyRetries ==
    /\ pc = "start" /\ ~read_done /\ ecc_retry > SoftRetries
    /\ Return("EIO")
    /\ UNCHANGED isrvars

Starting == pc = "start" /\ ~read_done /\ ecc_retry <= SoftRetries

(* HEAD as ftape_setup_new_segment(), the read mode and                    *)
(* ftape_calc_next_cluster() leave it.                                     *)
Prepared ==
    LET b == ftape_setup_new_segment(HEAD, wanted, 1) IN
    ftape_calc_next_cluster(
        [b EXCEPT !.next_segment = IF read_mode = "FT_RD_SINGLE" THEN 0 ELSE @])

StartRunner ==
    /\ Starting /\ TAIL.status = "waiting" /\ DriveReachable
    /\ RememberSetup(HEAD, wanted, 1)
    /\ hide_interrupt' = FALSE
    /\ \E b \in StartTape(Prepared) :
       \/ /\ NoFault                     \* the tape starts, the transfer too
          /\ SetHead([b EXCEPT !.status = "reading"])
          /\ runner_status' = IF runner_status = "idle" THEN "running" ELSE runner_status
          /\ fdc_mode' = "reading_data" /\ busy' = TRUE
          /\ interrupt_seen' = FALSE /\ setup_error' = FALSE
          /\ Goto("scan")
       \/ /\ Fault("setup")              \* fdc_setup_read_write() failed
          /\ SetHead([b EXCEPT !.status = "reading"])
          /\ runner_status' = IF runner_status = "idle" THEN "running" ELSE runner_status
          /\ fdc_mode' = "idle" /\ busy' = FALSE
          /\ interrupt_seen' = FALSE /\ setup_error' = TRUE
          /\ Goto("scan")
       \/ /\ runner_status = "idle"      \* ftape_start_tape() failed
          /\ Fault("drive")
          /\ SetHead(b)
          /\ fdc_mode' = "idle" /\ busy' = FALSE
          /\ interrupt_seen' = FALSE /\ setup_error' = FALSE
          /\ Return("EIO")
          /\ UNCHANGED runner_status
    /\ UNCHANGED <<head, tail, stop_read_ahead, driver_state>>

(* TAIL is not free: the loop starts over.                                 *)
StartOver ==
    /\ Starting /\ TAIL.status # "waiting"
    /\ Goto("scan")
    /\ UNCHANGED isrvars

Process == \/ AbortForCall \/ AbortForWait
           \/ ScanDeleted \/ ScanFound \/ ScanEccFailure \/ ScanZap \/ ScanEnd
           \/ WaitWrongSegment \/ WaitAwake \/ WaitTimeout \/ WaitEnd
           \/ RunnerAborting \/ RunnerEot
           \/ ReturnSegment \/ TooManyRetries \/ StartRunner \/ StartOver

Interrupt == fdc_isr /\ UNCHANGED procvars

Next == Call \/ Process \/ Signal \/ Interrupt

(* The controller finishes every command with an interrupt, and the        *)
(* process, once it has been called, is scheduled.  An interrupt is        *)
(* enabled just when the controller is busy: the first conjunct is its     *)
(* weak fairness.                                                          *)
Fairness == (<>[]busy => []<><<Interrupt>>_vars) /\ WF_vars(Process)

Spec == Init /\ [][Next]_vars /\ Fairness

-----------------------------------------------------------------------------
(* Properties                                                               *)

(***************************************************************************)
(* What ftape_ecc_correct() relies on: in a buffer the handler has marked  *)
(* done, every data block that no transfer has filled is flagged in the    *)
(* map convert_sector_map() derives from the error maps, and the buffer is *)
(* complete.  Retries resume in the middle of segments, after sectors that *)
(* failed and past bad ones; a block they leave out holds another          *)
(* segment's data.  It is not so after a retry in another buffer than the  *)
(* one before (stray), nor when errors are to be ignored, which gives      *)
(* sectors up unread.                                                      *)
(***************************************************************************)
UnreadBlocksAreFlagged ==
    \A i \in Ring :
        LET b == buffers[i] IN
        (/\ b.status = "done" /\ b.deleted = 0 /\ b.stray = 0
         /\ Cardinality(Blocks(b.segment_id)) > EccBlocks)
        => /\ b.bytes = Cardinality(Blocks(b.segment_id))
           /\ Blocks(b.segment_id) \ b.moved \subseteq convert_sector_map(b)

(***************************************************************************)
(* ftape_setup_new_segment() retries a segment in the buffer that holds    *)
(* what has been read of it.  The code does not see to that: see README.   *)
(***************************************************************************)
RetriesStayInTheirBuffer == \A i \in Ring : buffers[i].stray = 0

(***************************************************************************)
(* The point find_resume_point() chooses for a retry: no good sector       *)
(* before it is still to be read, except for the ones given up as hard     *)
(* errors.                                                                 *)
(***************************************************************************)
ResumePointIsSound ==
    (runner_status = "aborting" /\ HEAD.status = "error" /\ HEAD.stray = 0) =>
        \A s \in Sectors \ BadSectors[HEAD.segment_id] :
            s < HEAD.skip => \/ Block(HEAD.segment_id, s) \in HEAD.moved
                            \/ s \in HEAD.hard_error_map

(***************************************************************************)
(* The process restarts the handler only on the buffer it will look at     *)
(* itself (HEAD = TAIL), and never while a transfer of the handler is      *)
(* under way.                                                              *)
(***************************************************************************)
RestartIsSafe ==
    (Starting /\ TAIL.status = "waiting") =>
        head = tail /\ ~(busy /\ fdc_mode # "seeking")

(***************************************************************************)
(* The full buffers hold consecutive segments in ring order from TAIL on,  *)
(* and the one HEAD is reading follows the last of them: the process finds *)
(* read ahead data in the order in which it asks for it.                   *)
(***************************************************************************)
CacheIsInOrder ==
    \A i \in Ring :
        LET n == next(i) IN
        (/\ n # tail
         /\ buffers[i].status = "done"
         /\ buffers[n].status = "done" \/ (n = head /\ buffers[n].status = "reading"))
        => buffers[n].segment_id = buffers[i].segment_id + 1

(***************************************************************************)
(* The interrupt handler, reading ahead, never touches a buffer whose data *)
(* the process has not taken yet.                                          *)
(***************************************************************************)
FullBuffersAreKept ==
    [][fdc_isr => \A i \in Ring : buffers[i].status = "done"
                                 => buffers'[i] = buffers[i]]_vars

(***************************************************************************)
(* ftape_read_segment() returns: the loop, which waits for the handler,    *)
(* stops the tape and starts it again, ends with the segment or an error.  *)
(***************************************************************************)
ReadReturns == (pc # "idle") ~> (pc = "idle")

=============================================================================
