----------------------------- MODULE FtapeWrite -----------------------------
(***************************************************************************)
(* ftape_write_segment() and ftape_loop_until_writes_done(): the process   *)
(* that fills segment buffers while the interrupt handler of FdcIsr writes *)
(* them to tape.  The steps of a write, in the order of write_segment():   *)
(*                                                                         *)
(*   wait    sleep while TAIL is being written (all buffers full)          *)
(*   judge   what became of TAIL: written, to be retried, or failed        *)
(*   runner  stop the tape if the handler asked for it                     *)
(*   fill    take the caller's data into TAIL, if that is free             *)
(*   start   start the tape if the ring is full or the mode asks for it    *)
(*                                                                         *)
(* and of a flush, in the order of ftape_loop_until_writes_done(): check,  *)
(* restart, sleep, recover.                                                *)
(***************************************************************************)
EXTENDS FdcIsr

CONSTANTS WriteRetries,  \* write_segment() is tried that often again, 100
          MaxWrites,     \* bound on the number of calls that carry data
          Callers        \* the callers considered, see Requests

ASSUME WriteAssumption == /\ WriteRetries \in Nat /\ MaxWrites \in Nat
                          /\ Callers \in {"any", "ascending", "stream"}

VARIABLES
    pc,          \* the step the process is at
    call,        \* the call: [op, segment, mode]
    again,       \* retry, how often write_segment() has been repeated
    bytes,       \* bytes_written: "ok", "EAGAIN" or "EIO"
    result,      \* what the last call returned
    payload,     \* the data in each buffer, named by the call that wrote it
    tape,        \* for each segment the data on tape, and which blocks of it
    accepted,    \* for each segment the data the caller was told is taken
    written      \* the number of calls so far

procvars == <<pc, call, again, bytes, result>>
datavars == <<payload, tape, accepted, written>>
vars == <<isrvars, procvars, datavars>>

Steps == {"idle", "abort", "give_up", "wait", "judge", "runner", "fill", "start",
          "again", "check", "restart", "sleep", "recover"}
WriteModes == {"FT_WR_ASYNC", "FT_WR_MULTI", "FT_WR_SINGLE", "FT_WR_DELETE"}
Results == {"none", "ok", "flushed", "EIO"}
Payloads == 0 .. MaxWrites          \* 0: no data yet

WriteTypeOK ==
    /\ IsrTypeOK
    /\ pc \in Steps
    /\ call \in [op : {"write", "flush"}, segment : Segments, mode : WriteModes]
    /\ again \in Nat
    /\ bytes \in {"ok", "EAGAIN", "EIO"}
    /\ result \in Results
    /\ payload \in [Ring -> Payloads]
    /\ tape \in [Segments -> [data : Payloads, blocks : SUBSET Nat]]
    /\ accepted \in [Segments -> Payloads]
    /\ written \in Nat

Init ==
    /\ IsrInit
    /\ pc = "idle"
    /\ call = [op |-> "flush", segment |-> buffers[0].segment_id,
               mode |-> "FT_WR_ASYNC"]
    /\ again = 0 /\ bytes = "ok" /\ result = "none"
    /\ payload = [i \in Ring |-> 0]
    /\ tape = [s \in Segments |-> [data |-> 0, blocks |-> {}]]
    /\ accepted = [s \in Segments |-> 0]
    /\ written = 0

Goto(step) == pc' = step /\ UNCHANGED <<call, again, bytes, result>>

(* An error returned to the caller ends the promises made to it: the       *)
(* caller knows that what it wrote may be lost.                            *)
Failed ==
    /\ pc' = "idle" /\ result' = "EIO"
    /\ accepted' = [s \in Segments |-> 0]
    /\ UNCHANGED <<call, again, bytes, payload, tape, written>>

StateFor(mode) == IF mode = "FT_WR_DELETE" THEN "deleting" ELSE "writing"
WantedState == StateFor(call.mode)

-----------------------------------------------------------------------------
(* ftape_start_writing()                                                    *)

CanStart(mode) == driver_state = StateFor(mode) /\ HEAD.status = "waiting"

Prepared(mode) ==
    LET b == ftape_setup_new_segment(HEAD, HEAD.segment_id, 1) IN
    [ ftape_calc_next_cluster(
        [b EXCEPT !.next_segment = IF mode = "FT_WR_SINGLE" THEN 0 ELSE @])
      EXCEPT !.status = driver_state ]

(* The tape starts and so does the transfer; or one of the two fails, and  *)
(* HEAD stays marked as being written.                                     *)
Started(mode) ==
    /\ CanStart(mode) /\ DriveReachable
    /\ NoFault
    /\ \E b \in StartTape(Prepared(mode)) : SetHead(b)
    /\ RememberSetup(HEAD, HEAD.segment_id, 1)
    /\ runner_status' = IF runner_status = "idle" THEN "running" ELSE runner_status
    /\ fdc_mode' = IF mode = "FT_WR_DELETE" THEN "deleting" ELSE "writing_data"
    /\ busy' = TRUE
    /\ hide_interrupt' = FALSE /\ interrupt_seen' = FALSE /\ setup_error' = FALSE
    /\ UNCHANGED <<head, tail, stop_read_ahead, driver_state>>

StartFailed(mode) ==
    /\ CanStart(mode) /\ DriveReachable
    /\ \E b \in StartTape(Prepared(mode)) : SetHead(b)
    /\ RememberSetup(HEAD, HEAD.segment_id, 1)
    /\ \/ /\ Fault("setup")
          /\ runner_status' = IF runner_status = "idle" THEN "running" ELSE runner_status
          /\ setup_error' = TRUE
       \/ /\ Fault("drive") /\ runner_status = "idle"
          /\ setup_error' = FALSE
          /\ UNCHANGED runner_status
    /\ fdc_mode' = "idle" /\ busy' = FALSE
    /\ hide_interrupt' = FALSE /\ interrupt_seen' = FALSE
    /\ UNCHANGED <<head, tail, stop_read_ahead, driver_state>>

-----------------------------------------------------------------------------
(* write_segment()                                                          *)

(* What is written next: anything, as the segment ioctl of zftape allows,  *)
(* or a stream, as its write path does: consecutive or at least ascending  *)
(* segments, written asynchronously but for the last one, which is         *)
(* followed by a flush.                                                    *)
Requests ==
    LET all == [op : {"write"}, segment : Segments, mode : WriteModes] IN
    IF Callers = "any" \/ driver_state = "waiting" THEN all
    ELSE { r \in all : /\ \/ r.segment = call.segment + 1
                          \/ Callers = "ascending" /\ r.segment > call.segment
                       /\ StateFor(r.mode) = driver_state
                       /\ call.mode = "FT_WR_ASYNC" }

(* A change between writing and deleting flushes first; any change of      *)
(* state aborts what the driver was doing.  A caller that was told of an   *)
(* error does not write on: it aborts the operation (zft_flush_buffers).   *)
(* Data of an earlier call for the same segment is not promised any more.  *)
CallWrite ==
    /\ pc = "idle" /\ written < MaxWrites /\ result # "EIO"
    /\ \E r \in Requests :
          /\ call' = r
          /\ accepted' = [accepted EXCEPT ![r.segment] = 0]
          /\ LET wanted == StateFor(r.mode) IN
             pc' = CASE driver_state = wanted -> "wait"
                     [] driver_state # wanted
                        /\ (driver_state = "deleting" \/ wanted = "deleting") -> "check"
                     [] OTHER -> "abort"
    /\ again' = 0 /\ bytes' = "ok" /\ result' = "none"
    /\ written' = written + 1
    /\ UNCHANGED <<isrvars, payload, tape>>

(* ftape_abort_operation(), which zaps the buffers for reading, and        *)
(* ftape_zap_write_buffers(), which makes them free for writing.  Nothing  *)
(* runs at this point: the driver was not writing.                         *)
AbortForWrite ==
    /\ pc = "abort"
    /\ \/ /\ NoFault
          /\ DriveReachable
          /\ ControllerQuiet
          /\ runner_status' = "idle"
          /\ buffers' = [i \in Ring |-> [fdc_zap_buffer(buffers[i])
                                         EXCEPT !.status = "done"]]
          /\ ftape_reset_buffer
          /\ UNCHANGED <<old_driver_state, last_segment_skipped, setup_error,
                         stop_read_ahead>>
          /\ driver_state' = WantedState
          /\ Goto("wait")
          /\ UNCHANGED datavars
       \/ /\ Fault("drive")
          /\ AbortEnd
          /\ driver_state' = "waiting"
          /\ Failed

(* The caller gives up after an error: ftape_abort_operation().            *)
CallAbort ==
    /\ pc = "idle" /\ result = "EIO"
    /\ AbortBegin
    /\ Goto("give_up")
    /\ NoFault
    /\ UNCHANGED <<ring, controller, setup, stop_read_ahead, driver_state, datavars>>

GiveUp ==
    /\ pc = "give_up"
    /\ AbortEnd
    /\ driver_state' = "waiting"
    /\ NoFault
    /\ pc' = "idle" /\ result' = "none"
    /\ UNCHANGED <<call, again, bytes, datavars>>

(* ftape_wait_segment()                                                    *)
WaitAwake ==
    /\ pc = "wait" /\ TAIL.status = WantedState /\ interrupt_seen
    /\ interrupt_seen' = FALSE
    /\ IF ~setup_error
       THEN UNCHANGED <<procvars, fdc_mode, busy, hide_interrupt, runner_status>>
       ELSE /\ DriveReachable        \* failed: ftape_dumb_stop()
            /\ fdc_mode' = "idle" /\ busy' = FALSE /\ hide_interrupt' = FALSE
            /\ runner_status' = IF runner_status \in {"aborting", "do_abort"}
                                THEN "idle" ELSE runner_status
            /\ Goto("judge")
    /\ NoFault
    /\ UNCHANGED <<ring, setup, setup_error, stop_read_ahead, driver_state, datavars>>

WaitTimeout ==
    /\ pc = "wait" /\ TAIL.status = WantedState /\ ~interrupt_seen
    /\ IF busy THEN Fault("timeout") ELSE NoFault
    /\ ControllerQuiet
    /\ runner_status' = IF runner_status \in {"aborting", "do_abort"}
                        THEN "idle" ELSE runner_status
    /\ \/ Goto("judge") /\ UNCHANGED datavars
       \/ busy /\ Failed            \* the drive does not stop either
    /\ UNCHANGED <<ring, setup, setup_error, stop_read_ahead, driver_state>>

(* A signal, or a drive that reports an error after a failed transfer:     *)
(* the wait fails and the tape is stopped, if it stops.  A drive that      *)
(* refused the data rate gets one try more (credit).                       *)
WaitFails ==
    /\ pc = "wait"
    /\ \/ /\ Fault("signal")
          /\ Goto("judge")
          /\ UNCHANGED <<buffers, datavars>>
       \/ /\ TAIL.status = "error" /\ Fault("drive")
          /\ \E credit \in {0, 1} :
                buffers' = [buffers EXCEPT ![tail].retry = IF @ > 0 THEN @ - credit ELSE @]
          /\ (Goto("judge") /\ UNCHANGED datavars) \/ Failed
    /\ ftape_dumb_stop
    /\ UNCHANGED <<head, tail, setup, setup_error, stop_read_ahead, driver_state>>

WaitEnd ==
    /\ pc = "wait" /\ TAIL.status # WantedState
    /\ TAIL.status = "error" => DriveReachable
    /\ Goto("judge")
    /\ UNCHANGED <<isrvars, datavars>>

(* Mutant: the buffer is put back among the waiting ones.                  *)
HardError_PutBack ==
    /\ TAIL.status = "error" /\ TAIL.hard_error_map # {}
    /\ bytes' = "EIO"
    /\ buffers' = [buffers EXCEPT ![tail].status = "waiting"]

(* A hard error is reported, and the buffer keeps the error state.         *)
HardError ==
    /\ TAIL.status = "error" /\ TAIL.hard_error_map # {}
    /\ bytes' = "EIO"
    /\ UNCHANGED buffers

(* The switch on TAIL->status.                                             *)
Judge ==
    /\ pc = "judge"
    /\ \/ /\ TAIL.status = "done"
          /\ bytes' = "ok"
          /\ UNCHANGED buffers
       \/ HardError
       \/ /\ TAIL.status # "done"
          /\ TAIL.status = "error" => TAIL.hard_error_map = {}
          /\ bytes' = "EAGAIN"
          /\ buffers' = [buffers EXCEPT ![tail].status = "waiting"]
    /\ pc' = "runner"
    /\ NoFault
    /\ UNCHANGED <<call, again, result, head, tail, controller, setup, runner_status,
                   stop_read_ahead, driver_state, datavars>>

(* Mutant: a HEAD in error is taken for written, too.                      *)
FreeHead_Error == buffers' = [buffers EXCEPT ![head].status = "done"]

(* A HEAD that is still marked as being written is done with.              *)
FreeHead ==
    buffers' = [buffers EXCEPT ![head].status = IF @ = WantedState THEN "done" ELSE @]

RunnerAborting ==
    /\ pc = "runner" /\ runner_status = "aborting"
    /\ ftape_dumb_stop
    /\ FreeHead
    /\ \/ NoFault /\ Goto("fill") /\ UNCHANGED datavars
       \/ Fault("drive") /\ Failed
    /\ UNCHANGED <<head, tail, setup, setup_error, stop_read_ahead, driver_state>>

RunnerEot ==
    /\ pc = "runner" /\ runner_status # "aborting"
    /\ \/ /\ NoFault
          /\ ftape_handle_logical_eot
          /\ Goto("fill")
          /\ UNCHANGED datavars
       \/ /\ runner_status = "logical_eot"
          /\ Fault("drive")
          /\ Failed
          /\ UNCHANGED runner_status
    /\ UNCHANGED <<ring, controller, setup, stop_read_ahead, driver_state>>

(* copy_and_gen_ecc() takes the caller's data.                             *)
Fill ==
    /\ pc = "fill"
    /\ IF TAIL.status = "done"
       THEN /\ buffers' = [buffers EXCEPT
                  ![tail] = [@ EXCEPT !.segment_id = call.segment,
                                      !.status = "waiting", !.moved = {}]]
            /\ tail' = next(tail)
            /\ payload' = [payload EXCEPT ![tail] = written]
            /\ bytes' = "ok"
       ELSE UNCHANGED <<buffers, tail, payload, bytes>>
    /\ pc' = "start"
    /\ NoFault
    /\ UNCHANGED <<call, again, result, head, controller, setup, runner_status,
                   stop_read_ahead, driver_state, tape, accepted, written>>

(* Back in ftape_write_segment(): return, repeat, or give up.              *)
Finish ==
    \/ /\ bytes = "ok"
       /\ pc' = "idle" /\ result' = "ok"
       /\ accepted' = [accepted EXCEPT ![call.segment] = written]
       /\ UNCHANGED <<call, again, bytes, payload, tape, written>>
    \/ /\ bytes = "EAGAIN" /\ again < WriteRetries
       /\ again' = again + 1
       /\ pc' = "again"
       /\ UNCHANGED <<call, bytes, result, datavars>>
    \/ /\ bytes = "EIO" \/ (bytes = "EAGAIN" /\ again = WriteRetries)
       /\ Failed

MustStart == /\ runner_status # "running"
             /\ \/ TAIL.status = "waiting" /\ head = tail
                \/ call.mode # "FT_WR_ASYNC"

Start ==
    /\ pc = "start"
    /\ \/ /\ ~(MustStart /\ CanStart(call.mode))
          /\ Finish
          /\ UNCHANGED isrvars
       \/ MustStart /\ Started(call.mode) /\ Finish
       \/ MustStart /\ StartFailed(call.mode) /\ Failed

(* The loop of ftape_write_segment() ends on a signal.                     *)
Again ==
    /\ pc = "again"
    /\ \/ NoFault /\ Goto("wait") /\ UNCHANGED datavars
       \/ Fault("signal") /\ Failed
    /\ UNCHANGED <<ring, controller, setup, runner_status, stop_read_ahead,
                   driver_state>>

-----------------------------------------------------------------------------
(* ftape_loop_until_writes_done()                                           *)

CallFlush ==
    /\ pc = "idle" /\ result # "EIO"
    /\ call' = [call EXCEPT !.op = "flush"]
    /\ pc' = "check"
    /\ result' = "none"
    /\ UNCHANGED <<again, bytes, isrvars, datavars>>

Flushing == driver_state \in {"writing", "deleting"}
FlushMode == IF driver_state = "deleting" THEN "FT_WR_DELETE" ELSE "FT_WR_MULTI"

(* Mutant: the loop ends as soon as the runner is idle.                    *)
WritesPending_Running ==
    Flushing /\ HEAD.status # "done" /\ runner_status # "idle"

WritesPending == Flushing /\ HEAD.status # "done"

Check ==
    /\ pc = "check"
    /\ IF WritesPending
       THEN Goto("restart") /\ UNCHANGED driver_state
       ELSE /\ driver_state' = "waiting"
            /\ IF call.op = "flush"
               THEN pc' = "idle" /\ result' = "flushed" /\ UNCHANGED <<call, again, bytes>>
               ELSE Goto("abort")
    /\ NoFault
    /\ UNCHANGED <<ring, controller, setup, runner_status, stop_read_ahead, datavars>>

(* ftape_handle_logical_eot(), then ftape_start_writing() if the runner    *)
(* is idle.                                                                *)
RestartEot ==
    /\ pc = "restart" /\ runner_status \in {"logical_eot", "end_of_tape"}
    /\ \/ NoFault /\ ftape_handle_logical_eot /\ UNCHANGED <<procvars, datavars>>
       \/ /\ runner_status = "logical_eot"
          /\ Fault("drive") /\ Failed /\ UNCHANGED runner_status
    /\ UNCHANGED <<ring, controller, setup, stop_read_ahead, driver_state>>

Restart ==
    /\ pc = "restart" /\ runner_status \notin {"logical_eot", "end_of_tape"}
    /\ \/ /\ ~(runner_status = "idle" /\ CanStart(FlushMode))
          /\ Goto("sleep")
          /\ UNCHANGED <<isrvars, datavars>>
       \/ /\ runner_status = "idle" /\ Started(FlushMode)
          /\ Goto("sleep")
          /\ UNCHANGED datavars
       \/ /\ runner_status = "idle" /\ StartFailed(FlushMode)
          /\ Failed

Sleep ==
    /\ pc = "sleep"
    /\ \/ /\ HEAD.status = driver_state /\ interrupt_seen
          /\ NoFault
          /\ interrupt_seen' = FALSE
          /\ Goto("recover")
          /\ UNCHANGED <<fdc_mode, busy, hide_interrupt, datavars>>
       \/ /\ HEAD.status = driver_state /\ ~interrupt_seen
          /\ IF busy THEN Fault("timeout") ELSE NoFault
          /\ ControllerQuiet
          /\ Failed
       \/ /\ HEAD.status # driver_state
          /\ NoFault
          /\ Goto("recover")
          /\ UNCHANGED <<fdc_mode, busy, hide_interrupt, interrupt_seen, datavars>>
    /\ UNCHANGED <<ring, setup_error, setup, runner_status, stop_read_ahead, driver_state>>

(* HEAD is in error: stop, then report a hard error or try again.  The     *)
(* last test sees the runner as ftape_dumb_stop() left it.                 *)
RecoverStop ==
    /\ pc = "recover" /\ HEAD.status = "error" /\ runner_status = "aborting"
    /\ ftape_dumb_stop
    /\ NoFault
    /\ UNCHANGED <<ring, setup, setup_error, stop_read_ahead, driver_state, procvars,
                   datavars>>

RecoverFail ==
    /\ pc = "recover" /\ HEAD.status = "error" /\ runner_status # "aborting"
    /\ runner_status # "idle" \/ HEAD.hard_error_map # {}
    /\ Failed
    /\ UNCHANGED isrvars

RetryHead(b) ==
    [ ftape_calc_next_cluster(ftape_setup_new_segment(b, b.segment_id, 1))
      EXCEPT !.status = driver_state ]

(* The result of this ftape_start_writing() is ignored.                    *)
RecoverRetry ==
    /\ pc = "recover" /\ HEAD.status = "error" /\ runner_status = "idle"
    /\ HEAD.hard_error_map = {}
    /\ DriveReachable
    /\ \E b \in StartTape(RetryHead(HEAD)) : SetHead(b)
    /\ RememberSetup(HEAD, HEAD.segment_id, 1)
    /\ \/ /\ NoFault
          /\ runner_status' = "running"
          /\ fdc_mode' = IF driver_state = "deleting" THEN "deleting" ELSE "writing_data"
          /\ busy' = TRUE /\ setup_error' = FALSE
       \/ /\ Fault("setup")
          /\ runner_status' = "running"
          /\ fdc_mode' = "idle" /\ busy' = FALSE /\ setup_error' = TRUE
       \/ /\ Fault("drive")
          /\ fdc_mode' = "idle" /\ busy' = FALSE /\ setup_error' = FALSE
          /\ UNCHANGED runner_status
    /\ hide_interrupt' = FALSE /\ interrupt_seen' = FALSE
    /\ Goto("check")
    /\ UNCHANGED <<head, tail, stop_read_ahead, driver_state, datavars>>

(* A signal ends the loop at its end.                                      *)
RecoverSignal ==
    /\ pc = "recover" /\ HEAD.status # "error"
    /\ Fault("signal")
    /\ Failed
    /\ UNCHANGED <<ring, controller, setup, runner_status, stop_read_ahead, driver_state>>

RecoverNothing ==
    /\ pc = "recover" /\ HEAD.status # "error"
    /\ Goto("check")
    /\ UNCHANGED <<isrvars, datavars>>

-----------------------------------------------------------------------------
(* What a transfer leaves on tape: the blocks of HEAD that it moved.       *)
Interrupt ==
    /\ fdc_isr
    /\ LET seg   == HEAD.segment_id
           moved == buffers'[head].moved
       IN  tape' = IF fdc_mode = "seeking" \/ moved = HEAD.moved THEN tape
                   ELSE [tape EXCEPT ![seg] =
                           [ data   |-> payload[head],
                             blocks |-> IF @.data = payload[head]
                                        THEN @.blocks \cup moved ELSE moved ]]
    /\ UNCHANGED <<procvars, payload, accepted, written>>

Process == \/ AbortForWrite \/ GiveUp \/ WaitAwake \/ WaitTimeout \/ WaitEnd \/ Judge
           \/ RunnerAborting \/ RunnerEot \/ Fill \/ Start \/ Again
           \/ Check \/ RestartEot \/ Restart \/ Sleep
           \/ RecoverStop \/ RecoverFail \/ RecoverRetry \/ RecoverNothing

Next == \/ CallWrite \/ CallFlush \/ CallAbort \/ Process \/ Interrupt
        \/ WaitFails \/ RecoverSignal

(* As for reading: the controller answers, and the process is scheduled.   *)
Fairness == WF_vars(Interrupt) /\ WF_vars(Process)

Spec == Init /\ [][Next]_vars /\ Fairness

-----------------------------------------------------------------------------
(* Properties                                                               *)

(* A segment of which every data block is on tape.  One without data       *)
(* blocks, or with the first sector only, is passed over (FAKE_SEGMENT).   *)
OnTape(seg, data) ==
    \/ tape[seg].data = data /\ Blocks(seg) \subseteq tape[seg].blocks
    \/ Sectors \ {0} \subseteq BadSectors[seg]

Pending == {"waiting", "writing", "deleting", "error"}

(***************************************************************************)
(* Data for which ftape_write_segment() has returned success is either on  *)
(* tape or still in a buffer that the handler has to write, until an error *)
(* is reported: no step of the retry, restart and abort logic frees a      *)
(* buffer whose data has not been written.                                 *)
(***************************************************************************)
AcceptedDataIsHeld ==
    \A seg \in Segments :
        accepted[seg] # 0 =>
            \/ OnTape(seg, accepted[seg])
            \/ \E i \in Ring : /\ payload[i] = accepted[seg]
                              /\ buffers[i].segment_id = seg
                              /\ buffers[i].status \in Pending

(***************************************************************************)
(* ftape_loop_until_writes_done() returns 0 only when all data accepted so *)
(* far is on tape.                                                         *)
(***************************************************************************)
FlushedDataIsOnTape ==
    (pc = "idle" /\ result = "flushed") =>
        \A seg \in Segments : accepted[seg] # 0 => OnTape(seg, accepted[seg])

(***************************************************************************)
(* When write_segment() or the flush loop reports a hard error, the        *)
(* failing buffer is HEAD, with exactly one sector to map out: what        *)
(* ftape_hard_error_recovery() assumes of the buffers.                     *)
(***************************************************************************)
HardErrorIsRecoverable ==
    \/ pc = "start" /\ bytes = "EIO"
    \/ pc = "recover" /\ HEAD.status = "error" /\ HEAD.hard_error_map # {}
    => HEAD.status = "error" /\ Cardinality(HEAD.hard_error_map) = 1

(***************************************************************************)
(* The handler writes ahead only to the segment that follows on tape, and  *)
(* into it the data the caller meant for it.                               *)
(***************************************************************************)
WriteAheadKeepsSegments ==
    [][(Interrupt /\ head' # head /\ busy' /\ fdc_mode' # "seeking")
        => /\ buffers'[head'].segment_id = HEAD.segment_id + 1
           /\ buffers'[head'].segment_id = buffers[head'].segment_id]_vars

(* The flush loop waits for nobody: the handler has given HEAD back        *)
(* unwritten and the runner is aborting, as it does when the set up of a   *)
(* transfer fails or the next buffer is meant for another segment.  The    *)
(* loop restarts an idle runner only, and takes note of one that aborts    *)
(* only if HEAD is in error.                                               *)
FlushHangs == /\ pc \in {"check", "restart", "sleep", "recover"}
              /\ HEAD.status = "waiting" /\ runner_status = "aborting"

(***************************************************************************)
(* Every call returns, whatever fails: write_segment() is repeated a       *)
(* bounded number of times, and ftape_loop_until_writes_done() makes       *)
(* progress until HEAD is written or an error reported, except where it    *)
(* hangs for ever in the one way the code leaves open (see README).        *)
(***************************************************************************)
CallsReturn == []<>(pc = "idle") \/ <>[]FlushHangs

=============================================================================
