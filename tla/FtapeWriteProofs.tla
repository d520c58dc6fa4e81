-------------------------- MODULE FtapeWriteProofs --------------------------
(***************************************************************************)
(* Writing, for any tape, any number of buffers, any faults and any        *)
(* sequence of calls: the specification of FtapeWrite is type correct, and *)
(* the handler, writing ahead, puts the data of a buffer nowhere but on    *)
(* the segment it was meant for.                                           *)
(*                                                                         *)
(* The inductive invariant is WriteInv.  It says of a transfer under way   *)
(* only what TransferSound says: that HEAD is still marked as in transfer  *)
(* is not an invariant of writing, since write_segment() marks TAIL as     *)
(* waiting after a wait that failed, and TAIL may be HEAD by then.         *)
(***************************************************************************)
EXTENDS FtapeWrite, FdcIsrProofs

(* The variables of the process.                                           *)
ProcTypeOK ==
    /\ pc \in Steps
    /\ call \in [op : {"write", "flush"}, segment : Segments, mode : WriteModes]
    /\ again \in Nat
    /\ bytes \in {"ok", "EAGAIN", "EIO"}
    /\ result \in Results

(* The data: every payload is the number of a call.                        *)
DataTypeOK ==
    /\ payload \in [Ring -> Payloads]
    /\ tape \in [Segments -> [data : Payloads, blocks : SUBSET Nat]]
    /\ accepted \in [Segments -> Payloads]
    /\ written \in Payloads

(* Nobody reads here.                                                      *)
NoReading == fdc_mode # "reading_data"

WriteInv == IsrInv /\ ProcTypeOK /\ DataTypeOK /\ NoReading

-----------------------------------------------------------------------------
(* What the steps of the process do to its own variables and to the data    *)

(* The process goes on at another label.                                   *)
LEMMA GotoType ==
    ASSUME ProcTypeOK, NEW step \in Steps, Goto(step)
    PROVE  ProcTypeOK'
  BY DEF ProcTypeOK, Goto

(* Nothing happens to the data.                                            *)
LEMMA SameData ==
    ASSUME DataTypeOK, UNCHANGED datavars
    PROVE  DataTypeOK'
  BY DEF DataTypeOK, datavars

(* The call fails: the promises to the caller are void.                    *)
LEMMA FailedType ==
    ASSUME ProcTypeOK, DataTypeOK, Failed
    PROVE  ProcTypeOK' /\ DataTypeOK'
<1>1. 0 \in Payloads
  BY WriteAssumption DEF Payloads
<1>2. ProcTypeOK'
  BY DEF Failed, ProcTypeOK, Steps, Results
<1>3. DataTypeOK'
  BY <1>1 DEF Failed, DataTypeOK
<1>4. QED
  BY <1>2, <1>3

(* ftape_write_segment() returns, tries again or fails.                    *)
LEMMA FinishType ==
    ASSUME ProcTypeOK, DataTypeOK, Finish
    PROVE  ProcTypeOK' /\ DataTypeOK'
<1>1. CASE /\ pc' = "idle" /\ result' = "ok"
           /\ accepted' = [accepted EXCEPT ![call.segment] = written]
           /\ UNCHANGED <<call, again, bytes, payload, tape, written>>
  BY <1>1 DEF ProcTypeOK, DataTypeOK, Steps, Results
<1>2. CASE /\ again' = again + 1 /\ pc' = "again"
           /\ UNCHANGED <<call, bytes, result, datavars>>
  BY <1>2 DEF ProcTypeOK, DataTypeOK, Steps, datavars
<1>3. CASE Failed
  BY <1>3, FailedType
<1>4. QED
  BY <1>1, <1>2, <1>3 DEF Finish

-----------------------------------------------------------------------------
(* What they do to ring and controller                                      *)

(* A step that leaves the controller alone or quiet and the ring alone.    *)
LEMMA QuietStep ==
    ASSUME IsrInv, NoReading, UNCHANGED <<ring, setup, setup_error, stop_read_ahead>>,
           driver_state' \in DriverStates,
           runner_status' \in RunnerStates, faults' \in Nat,
           \/ ControllerQuiet
           \/ UNCHANGED <<fdc_mode, busy, hide_interrupt>> /\ interrupt_seen' \in BOOLEAN
    PROVE  IsrInv' /\ NoReading'
<1>1. CASE ControllerQuiet
  <2>1. /\ fdc_mode' \in Modes /\ busy' \in BOOLEAN
        /\ hide_interrupt' \in BOOLEAN /\ interrupt_seen' \in BOOLEAN
        /\ fdc_mode' = "idle"
        /\ ~Transferring'
    BY <1>1, QuietType
  <2>2. QED
    BY <2>1 DEF IsrInv, IsrTypeOK, TransferSound, NoReading, ring, setup
<1>2. CASE UNCHANGED <<fdc_mode, busy, hide_interrupt>> /\ interrupt_seen' \in BOOLEAN
  BY <1>2 DEF IsrInv, IsrTypeOK, TransferSound, Transferring, HEAD, NoReading, ring, setup
<1>3. QED
  BY <1>1, <1>2

(* ftape_dumb_stop() leaves a runner state.                                *)
LEMMA DumbStopType ==
    ASSUME IsrTypeOK,
           runner_status' = IF runner_status \in {"aborting", "do_abort"}
                            THEN "idle" ELSE runner_status
    PROVE  runner_status' \in RunnerStates
  BY DEF IsrTypeOK, RunnerStates

(* A step that changes one buffer j while the controller is quiet, or one  *)
(* that is not in transfer.                                                *)
LEMMA OneBufferStep ==
    ASSUME IsrInv, NoReading, NEW j \in Ring, NEW b \in Buffer,
           buffers' = [buffers EXCEPT ![j] = b],
           head' = head, tail' \in Ring,
           UNCHANGED <<setup, setup_error, stop_read_ahead, driver_state>>,
           runner_status' \in RunnerStates, faults' \in Nat,
           \/ ControllerQuiet
           \/ /\ UNCHANGED <<fdc_mode, busy, hide_interrupt, interrupt_seen>>
              /\ \/ j # head
                 \/ /\ b.status # "done" /\ b.sector_count = buffers[j].sector_count
                    /\ b.remaining = buffers[j].remaining
                    /\ b.next_segment = buffers[j].next_segment
                    /\ b.segment_id = buffers[j].segment_id
    PROVE  IsrInv' /\ NoReading'
<1>1. buffers' \in [Ring -> Buffer] /\ head' \in Ring /\ head \in Ring
  BY DEF IsrInv, IsrTypeOK
<1>2. CASE ControllerQuiet
  <2>1. /\ fdc_mode' \in Modes /\ busy' \in BOOLEAN
        /\ hide_interrupt' \in BOOLEAN /\ interrupt_seen' \in BOOLEAN
        /\ fdc_mode' = "idle"
        /\ ~Transferring'
    BY <1>2, QuietType
  <2>2. QED
    BY <1>1, <2>1 DEF IsrInv, IsrTypeOK, TransferSound, NoReading, setup
<1>3. CASE /\ UNCHANGED <<fdc_mode, busy, hide_interrupt, interrupt_seen>>
           /\ \/ j # head
              \/ /\ b.status # "done" /\ b.sector_count = buffers[j].sector_count
                 /\ b.remaining = buffers[j].remaining
                 /\ b.next_segment = buffers[j].next_segment
                 /\ b.segment_id = buffers[j].segment_id
  <2>1. IsrTypeOK' /\ NoReading'
    BY <1>1, <1>3 DEF IsrInv, IsrTypeOK, NoReading, setup
  <2>2. TransferSound'
    <3>1. SUFFICES ASSUME Transferring' PROVE TransferSound'
      BY DEF TransferSound
    <3>2. /\ buffers[head].status # "done"
          /\ buffers[head].sector_count <= buffers[head].remaining
          /\ buffers[head].next_segment \in {0, buffers[head].segment_id + 1}
          /\ fdc_mode \in {"reading_data", "writing_data", "deleting"}
      BY <1>3, <3>1 DEF IsrInv, TransferSound, Transferring, HEAD
    <3>3. CASE j # head
      <4>1. buffers'[head'] = buffers[head]
        BY <1>1, <3>3 DEF IsrInv, IsrTypeOK
      <4>2. QED
        BY <1>3, <3>2, <4>1 DEF TransferSound, HEAD
    <3>4. CASE j = head
      <4>1. buffers'[head'] = b
        BY <1>1, <3>4 DEF IsrInv, IsrTypeOK
      <4>2. QED
        BY <1>3, <3>2, <3>4, <4>1 DEF TransferSound, HEAD
    <3>5. QED
      BY <3>3, <3>4
  <2>3. QED
    BY <2>1, <2>2 DEF IsrInv
<1>4. QED
  BY <1>2, <1>3

(* The tape is started, or fails to start, on HEAD, which is set up as b.  *)
LEMMA StartOnHead ==
    ASSUME IsrInv, NoReading, NEW b \in Buffer, NEW p \in StartTape(b), SetHead(p),
           b.sector_count <= b.remaining, b.next_segment \in {0, b.segment_id + 1},
           b.status # "done",
           RememberSetup(HEAD, HEAD.segment_id, 1),
           hide_interrupt' = FALSE, interrupt_seen' = FALSE,
           setup_error' \in BOOLEAN, busy' \in BOOLEAN,
           fdc_mode' \in {"idle", "writing_data", "deleting"},
           busy' => fdc_mode' # "idle",
           runner_status' \in RunnerStates, faults' \in Nat,
           UNCHANGED <<head, tail, stop_read_ahead, driver_state>>
    PROVE  IsrInv' /\ NoReading'
<1>1. /\ buffers \in [Ring -> Buffer] /\ head \in Ring /\ HEAD.segment_id \in Segments
  BY DEF IsrInv, IsrTypeOK, HEAD, Buffer
<1>2. /\ p \in Buffer /\ p.status # "done" /\ p.sector_count <= p.remaining
      /\ p.next_segment \in {0, p.segment_id + 1}
  BY StartTapeType
<1>3. buffers' \in [Ring -> Buffer] /\ buffers'[head'] = p
  BY <1>1, <1>2 DEF SetHead
<1>4. /\ old_driver_state' \in DriverStates
      /\ old_segment_id' \in Segments \cup {None}
      /\ last_segment_skipped' \in Segments \cup {None}
  BY <1>1, RememberSetupType DEF IsrInv
<1>5. fdc_mode' \in Modes /\ NoReading'
  BY DEF Modes, NoReading
<1>6. IsrTypeOK'
  BY <1>3, <1>4, <1>5 DEF IsrInv, IsrTypeOK
<1>7. TransferSound'
  BY <1>2, <1>3 DEF TransferSound, Transferring, HEAD
<1>8. QED
  BY <1>5, <1>6, <1>7 DEF IsrInv

(* HEAD as ftape_start_writing() sets it up.                               *)
LEMMA PreparedType ==
    ASSUME IsrInv, NEW mode
    PROVE  /\ Prepared(mode) \in Buffer
           /\ Prepared(mode).status # "done"
           /\ Prepared(mode).sector_count <= Prepared(mode).remaining
           /\ Prepared(mode).next_segment \in {0, Prepared(mode).segment_id + 1}
<1> DEFINE b == ftape_setup_new_segment(HEAD, HEAD.segment_id, 1)
           n == IF mode = "FT_WR_SINGLE" THEN 0 ELSE b.next_segment
           c == [b EXCEPT !.next_segment = n]
           d == ftape_calc_next_cluster(c)
<1>1. HEAD \in Buffer /\ HEAD.segment_id \in Segments
  BY DEF IsrInv, IsrTypeOK, HEAD, Buffer
<1>2. b \in Buffer /\ b.next_segment = b.segment_id + 1
  BY <1>1, SetupNewSegmentType
<1>3. Prepared(mode) = [d EXCEPT !.status = driver_state]
  BY DEF Prepared
<1> HIDE DEF b
<1>4. n \in Nat /\ n \in {0, b.segment_id + 1}
  BY <1>2, FieldTypes DEF Buffer
<1> HIDE DEF n
<1>5. c \in Buffer /\ c.next_segment = n /\ c.segment_id = b.segment_id
  BY <1>2, <1>4 DEF Buffer
<1> HIDE DEF c
<1>6. /\ d \in Buffer /\ d.sector_count <= d.remaining
      /\ d.next_segment \in {0, d.segment_id + 1}
  BY <1>4, <1>5, CalcNextClusterType
<1> HIDE DEF d
<1>7. driver_state \in BufferStates /\ driver_state # "done"
  BY DEF IsrInv, IsrTypeOK, DriverStates, BufferStates
<1>8. QED
  BY <1>3, <1>6, <1>7 DEF Buffer

(* HEAD as the flush sets it up for a retry.                               *)
LEMMA RetryHeadType ==
    ASSUME IsrInv
    PROVE  /\ RetryHead(HEAD) \in Buffer
           /\ RetryHead(HEAD).status # "done"
           /\ RetryHead(HEAD).sector_count <= RetryHead(HEAD).remaining
           /\ RetryHead(HEAD).next_segment \in {0, RetryHead(HEAD).segment_id + 1}
<1> DEFINE b == ftape_setup_new_segment(HEAD, HEAD.segment_id, 1)
           d == ftape_calc_next_cluster(b)
<1>1. HEAD \in Buffer /\ HEAD.segment_id \in Segments
  BY DEF IsrInv, IsrTypeOK, HEAD, Buffer
<1>2. b \in Buffer /\ b.next_segment = b.segment_id + 1
  BY <1>1, SetupNewSegmentType
<1>3. RetryHead(HEAD) = [d EXCEPT !.status = driver_state]
  BY DEF RetryHead
<1> HIDE DEF b
<1>4. /\ d \in Buffer /\ d.sector_count <= d.remaining
      /\ d.next_segment \in {0, d.segment_id + 1}
  BY <1>2, CalcNextClusterType
<1> HIDE DEF d
<1>5. driver_state \in BufferStates /\ driver_state # "done"
  BY DEF IsrInv, IsrTypeOK, DriverStates, BufferStates
<1>6. QED
  BY <1>3, <1>4, <1>5 DEF Buffer

(* ftape_start_writing(), whether it succeeds                              *)
LEMMA StartedStep ==
    ASSUME IsrInv, NoReading, NEW mode, Started(mode)
    PROVE  IsrInv' /\ NoReading'
<1>1. PICK p \in StartTape(Prepared(mode)) : SetHead(p)
  BY DEF Started
<1>2. /\ RememberSetup(HEAD, HEAD.segment_id, 1)
      /\ runner_status' = IF runner_status = "idle" THEN "running" ELSE runner_status
      /\ fdc_mode' \in {"writing_data", "deleting"}
      /\ busy' = TRUE
      /\ hide_interrupt' = FALSE /\ interrupt_seen' = FALSE /\ setup_error' = FALSE
      /\ faults' = faults
      /\ UNCHANGED <<head, tail, stop_read_ahead, driver_state>>
  BY DEF Started, NoFault
<1>3. runner_status' \in RunnerStates /\ faults' \in Nat
  BY <1>2 DEF IsrInv, IsrTypeOK, RunnerStates
<1>4. setup_error' \in BOOLEAN /\ busy' \in BOOLEAN
  BY <1>2
<1>5. QED
  BY <1>1, <1>2, <1>3, <1>4, PreparedType, StartOnHead

(* or fails.                                                               *)
LEMMA StartFailedStep ==
    ASSUME IsrInv, NoReading, NEW mode, StartFailed(mode)
    PROVE  IsrInv' /\ NoReading'
<1>1. PICK p \in StartTape(Prepared(mode)) : SetHead(p)
  BY DEF StartFailed
<1>2. /\ RememberSetup(HEAD, HEAD.segment_id, 1)
      /\ \/ Fault("setup")
            /\ runner_status' = IF runner_status = "idle" THEN "running" ELSE runner_status
         \/ Fault("drive") /\ UNCHANGED runner_status
      /\ fdc_mode' = "idle" /\ busy' = FALSE
      /\ hide_interrupt' = FALSE /\ interrupt_seen' = FALSE
      /\ setup_error' \in BOOLEAN
      /\ UNCHANGED <<head, tail, stop_read_ahead, driver_state>>
  BY DEF StartFailed
<1>3. runner_status' \in RunnerStates
  BY <1>2 DEF IsrInv, IsrTypeOK, RunnerStates
<1>4. faults' \in Nat
  BY <1>2, FaultType DEF IsrInv
<1>5. busy' \in BOOLEAN /\ (busy' => fdc_mode' # "idle")
  BY <1>2
<1>6. QED
  BY <1>1, <1>2, <1>3, <1>4, <1>5, PreparedType, StartOnHead

-----------------------------------------------------------------------------
(* The steps                                                                *)

(* A step that does nothing to ring and controller.                        *)
LEMMA NoIsrStep ==
    ASSUME IsrInv, NoReading, UNCHANGED isrvars
    PROVE  IsrInv' /\ NoReading'
  BY IdleStep DEF isrvars, IsrInv, IsrTypeOK, NoReading, controller

(* The caller writes, flushes, or gives up.                                *)
LEMMA CallStep ==
    ASSUME WriteInv, CallWrite \/ CallFlush \/ CallAbort
    PROVE  WriteInv'
<1>1. IsrInv /\ ProcTypeOK /\ DataTypeOK /\ NoReading
  BY DEF WriteInv
<1>2. CASE CallWrite
  <2>1. PICK r \in Requests :
           /\ call' = r
           /\ accepted' = [accepted EXCEPT ![r.segment] = 0]
           /\ pc' \in {"wait", "check", "abort"}
    BY <1>2 DEF CallWrite
  <2>2. Requests \subseteq [op : {"write", "flush"}, segment : Segments, mode : WriteModes]
    BY DEF Requests
  <2>3. /\ again' = 0 /\ bytes' = "ok" /\ result' = "none"
        /\ written < MaxWrites /\ written' = written + 1
        /\ UNCHANGED <<isrvars, payload, tape>>
    BY <1>2 DEF CallWrite
  <2>4. ProcTypeOK'
    BY <2>1, <2>2, <2>3 DEF ProcTypeOK, Steps, Results
  <2>5. written' \in Payloads
    BY <1>1, <2>3, WriteAssumption DEF DataTypeOK, Payloads
  <2>6. 0 \in Payloads
    BY WriteAssumption DEF Payloads
  <2>7. DataTypeOK'
    BY <1>1, <2>1, <2>3, <2>5, <2>6 DEF DataTypeOK
  <2>8. QED
    BY <1>1, <2>3, <2>4, <2>7, NoIsrStep DEF WriteInv
<1>3. CASE CallFlush
  <2>1. /\ call' = [call EXCEPT !.op = "flush"]
        /\ pc' = "check" /\ result' = "none"
        /\ UNCHANGED <<again, bytes>> /\ UNCHANGED isrvars /\ UNCHANGED datavars
    BY <1>3 DEF CallFlush
  <2>2. ProcTypeOK'
    BY <1>1, <2>1 DEF ProcTypeOK, Steps, Results
  <2>3. QED
    BY <1>1, <2>1, <2>2, NoIsrStep, SameData DEF WriteInv
<1>4. CASE CallAbort
  <2>1. /\ AbortBegin /\ Goto("give_up") /\ UNCHANGED faults
        /\ UNCHANGED <<ring, controller, setup, stop_read_ahead, driver_state>>
        /\ UNCHANGED datavars
    BY <1>4 DEF CallAbort, NoFault
  <2>2. ProcTypeOK' /\ DataTypeOK'
    BY <1>1, <2>1, GotoType, SameData DEF Steps
  <2>3. runner_status' \in RunnerStates /\ faults' \in Nat
    BY <1>1, <2>1, AbortBeginType DEF IsrInv, IsrTypeOK
  <2>4. IsrInv' /\ NoReading'
    BY <1>1, <2>1, <2>3, IdleStep DEF controller, NoReading
  <2>5. QED
    BY <2>2, <2>4 DEF WriteInv
<1>5. QED
  BY <1>2, <1>3, <1>4

(* The abort before the first write, and after an error.                   *)
LEMMA AbortStep ==
    ASSUME WriteInv, AbortForWrite \/ GiveUp
    PROVE  WriteInv'
<1>1. IsrInv /\ ProcTypeOK /\ DataTypeOK /\ NoReading
  BY DEF WriteInv
<1>2. ASSUME AbortEnd, driver_state' = "waiting", faults' \in Nat
      PROVE  IsrInv' /\ NoReading'
  <2>1. driver_state' \in DriverStates
    BY <1>2 DEF DriverStates
  <2>2. fdc_mode' = "idle"
    BY <1>2, QuietType DEF AbortEnd
  <2>3. QED
    BY <1>1, <1>2, <2>1, <2>2, AbortEndStep DEF NoReading
<1>3. CASE GiveUp
  <2>1. /\ AbortEnd /\ driver_state' = "waiting" /\ UNCHANGED faults
        /\ pc' = "idle" /\ result' = "none"
        /\ UNCHANGED <<call, again, bytes>> /\ UNCHANGED datavars
    BY <1>3 DEF GiveUp, NoFault
  <2>2. ProcTypeOK'
    BY <1>1, <2>1 DEF ProcTypeOK, Steps, Results
  <2>3. faults' \in Nat
    BY <1>1, <2>1 DEF IsrInv, IsrTypeOK
  <2>4. QED
    BY <1>1, <1>2, <2>1, <2>2, <2>3, SameData DEF WriteInv
<1>4. CASE AbortForWrite /\ Fault("drive") /\ AbortEnd /\ driver_state' = "waiting" /\ Failed
  <2>1. faults' \in Nat
    BY <1>1, <1>4, FaultType DEF IsrInv
  <2>2. QED
    BY <1>1, <1>2, <1>4, <2>1, FailedType DEF WriteInv
<1>5. CASE /\ UNCHANGED faults /\ ControllerQuiet
           /\ runner_status' = "idle"
           /\ buffers' = [i \in Ring |-> [fdc_zap_buffer(buffers[i])
                                          EXCEPT !.status = "done"]]
           /\ ftape_reset_buffer
           /\ UNCHANGED <<old_driver_state, last_segment_skipped, setup_error,
                          stop_read_ahead>>
           /\ driver_state' = WantedState
           /\ Goto("wait")
           /\ UNCHANGED datavars
  <2>1. ProcTypeOK' /\ DataTypeOK'
    BY <1>1, <1>5, GotoType, SameData DEF Steps
  <2>2. /\ fdc_mode' \in Modes /\ busy' \in BOOLEAN
        /\ hide_interrupt' \in BOOLEAN /\ interrupt_seen' \in BOOLEAN
        /\ fdc_mode' = "idle"
        /\ ~Transferring'
    BY <1>5, QuietType
  <2>3. \A b \in Buffer : [fdc_zap_buffer(b) EXCEPT !.status = "done"] \in Buffer
    <3>1. SUFFICES ASSUME NEW b \in Buffer
                   PROVE  [fdc_zap_buffer(b) EXCEPT !.status = "done"] \in Buffer
      OBVIOUS
    <3>2. fdc_zap_buffer(b) \in Buffer /\ "done" \in BufferStates
      BY ZapType DEF BufferStates
    <3>3. QED
      BY <3>2 DEF Buffer
  <2>4. buffers' \in [Ring -> Buffer]
    BY <1>1, <1>5, <2>3 DEF IsrInv, IsrTypeOK
  <2>5. head' \in Ring /\ tail' \in Ring /\ old_segment_id' \in Segments \cup {None}
    BY <1>5, NrBuffersAssumption DEF ftape_reset_buffer, Ring
  <2>6. driver_state' \in DriverStates
    BY <1>5 DEF WantedState, StateFor, DriverStates
  <2>7. runner_status' \in RunnerStates
    BY <1>5 DEF RunnerStates
  <2>8. IsrInv'
    BY <1>1, <1>5, <2>2, <2>4, <2>5, <2>6, <2>7 DEF IsrInv, IsrTypeOK, TransferSound
  <2>9. QED
    BY <2>1, <2>2, <2>8 DEF WriteInv, NoReading
<1>6. QED
  BY <1>3, <1>4, <1>5 DEF AbortForWrite, NoFault

(* ftape_wait_segment(), however it ends.                                  *)
LEMMA WaitStep ==
    ASSUME WriteInv, WaitAwake \/ WaitTimeout \/ WaitFails \/ WaitEnd
    PROVE  WriteInv'
<1>1. IsrInv /\ ProcTypeOK /\ DataTypeOK /\ NoReading
  BY DEF WriteInv
<1>2. "judge" \in Steps
  BY DEF Steps
<1>3. CASE WaitAwake
  <2>1. /\ interrupt_seen' = FALSE /\ UNCHANGED faults
        /\ UNCHANGED <<ring, setup, setup_error, stop_read_ahead>>
        /\ UNCHANGED driver_state /\ UNCHANGED datavars
        /\ \/ UNCHANGED procvars /\ UNCHANGED <<fdc_mode, busy, hide_interrupt>>
              /\ UNCHANGED runner_status
           \/ /\ ControllerQuiet /\ Goto("judge")
              /\ runner_status' = IF runner_status \in {"aborting", "do_abort"}
                                  THEN "idle" ELSE runner_status
    BY <1>3 DEF WaitAwake, NoFault, ControllerQuiet
  <2>2. ProcTypeOK'
    BY <1>1, <1>2, <2>1, GotoType DEF ProcTypeOK, procvars
  <2>3. runner_status' \in RunnerStates /\ faults' \in Nat /\ driver_state' \in DriverStates
    BY <1>1, <2>1, DumbStopType DEF IsrInv, IsrTypeOK
  <2>4. interrupt_seen' \in BOOLEAN
    BY <2>1
  <2>5. QED
    BY <1>1, <2>1, <2>2, <2>3, <2>4, QuietStep, SameData DEF WriteInv
<1>4. CASE WaitTimeout
  <2>1. /\ Fault("timeout") \/ UNCHANGED faults
        /\ ControllerQuiet
        /\ runner_status' = IF runner_status \in {"aborting", "do_abort"}
                            THEN "idle" ELSE runner_status
        /\ (Goto("judge") /\ UNCHANGED datavars) \/ Failed
        /\ UNCHANGED <<ring, setup, setup_error, stop_read_ahead>>
        /\ UNCHANGED driver_state
    BY <1>4 DEF WaitTimeout, NoFault
  <2>2. ProcTypeOK' /\ DataTypeOK'
    BY <1>1, <1>2, <2>1, GotoType, SameData, FailedType
  <2>3. runner_status' \in RunnerStates /\ faults' \in Nat /\ driver_state' \in DriverStates
    BY <1>1, <2>1, DumbStopType, FaultType DEF IsrInv, IsrTypeOK
  <2>4. QED
    BY <1>1, <2>1, <2>2, <2>3, QuietStep DEF WriteInv
<1>5. CASE WaitFails
  <2>1. /\ Fault("signal") \/ Fault("drive")
        /\ (Goto("judge") /\ UNCHANGED datavars) \/ Failed
        /\ ControllerQuiet
        /\ runner_status' = IF runner_status \in {"aborting", "do_abort"}
                            THEN "idle" ELSE runner_status
        /\ UNCHANGED <<head, tail>> /\ UNCHANGED <<setup, setup_error, stop_read_ahead,
                                                   driver_state>>
    BY <1>5 DEF WaitFails, ftape_dumb_stop
  <2>2. \/ UNCHANGED buffers
        \/ \E credit \in {0, 1} :
              buffers' = [buffers EXCEPT ![tail].retry = IF @ > 0 THEN @ - credit ELSE @]
    BY <1>5 DEF WaitFails
  <2>3. ProcTypeOK' /\ DataTypeOK'
    BY <1>1, <1>2, <2>1, GotoType, SameData, FailedType
  <2>4. runner_status' \in RunnerStates /\ faults' \in Nat /\ driver_state' \in DriverStates
    BY <1>1, <2>1, DumbStopType, FaultType DEF IsrInv, IsrTypeOK
  <2>5. IsrInv' /\ NoReading'
    <3>1. CASE UNCHANGED buffers
      BY <1>1, <2>1, <2>4, <3>1, QuietStep DEF ring
    <3>2. CASE \E credit \in {0, 1} :
              buffers' = [buffers EXCEPT ![tail].retry = IF @ > 0 THEN @ - credit ELSE @]
      <4>1. PICK credit \in {0, 1} :
              buffers' = [buffers EXCEPT ![tail].retry = IF @ > 0 THEN @ - credit ELSE @]
        BY <3>2
      <4> DEFINE k == IF buffers[tail].retry > 0 THEN buffers[tail].retry - credit
                      ELSE buffers[tail].retry
                 b == [buffers[tail] EXCEPT !.retry = k]
      <4>2. buffers[tail] \in Buffer /\ tail \in Ring
        BY <1>1 DEF IsrInv, IsrTypeOK
      <4>3. buffers[tail].retry \in Int
        BY <4>2 DEF Buffer
      <4>4. k \in Int
        BY <4>3
      <4>5. buffers' = [buffers EXCEPT ![tail] = b]
        BY <4>1
      <4> HIDE DEF k
      <4>6. b \in Buffer
        BY <4>2, <4>4 DEF Buffer
      <4> HIDE DEF b
      <4>7. QED
        BY <1>1, <2>1, <2>4, <4>2, <4>5, <4>6, OneBufferStep
    <3>3. QED
      BY <2>2, <3>1, <3>2
  <2>6. QED
    BY <2>3, <2>5 DEF WriteInv
<1>6. CASE WaitEnd
  <2>1. Goto("judge") /\ UNCHANGED isrvars /\ UNCHANGED datavars
    BY <1>6 DEF WaitEnd
  <2>2. QED
    BY <1>1, <1>2, <2>1, GotoType, SameData, NoIsrStep DEF WriteInv
<1>7. QED
  BY <1>3, <1>4, <1>5, <1>6

(* The switch on TAIL: a buffer that is tried again is not done, so that   *)
(* it may be the one in transfer.                                          *)
LEMMA JudgeStep ==
    ASSUME WriteInv, Judge
    PROVE  WriteInv'
<1>1. IsrInv /\ ProcTypeOK /\ DataTypeOK /\ NoReading
  BY DEF WriteInv
<1>2. /\ bytes' \in {"ok", "EAGAIN", "EIO"} /\ pc' = "runner"
      /\ UNCHANGED <<call, again, result>> /\ UNCHANGED datavars /\ UNCHANGED faults
      /\ UNCHANGED <<head, tail>>
      /\ UNCHANGED <<controller, setup, runner_status, stop_read_ahead, driver_state>>
      /\ \/ UNCHANGED buffers
         \/ buffers' = [buffers EXCEPT ![tail].status = "waiting"]
  BY DEF Judge, HardError, NoFault
<1>3. ProcTypeOK' /\ DataTypeOK'
  BY <1>1, <1>2, SameData DEF ProcTypeOK, Steps
<1>4. runner_status' \in RunnerStates /\ faults' \in Nat /\ tail' \in Ring
  BY <1>1, <1>2 DEF IsrInv, IsrTypeOK
<1>5. IsrInv' /\ NoReading'
  <2>1. CASE UNCHANGED buffers
    BY <1>1, <1>2, <1>4, <2>1, IdleStep DEF ring, controller, NoReading
  <2>2. CASE buffers' = [buffers EXCEPT ![tail].status = "waiting"]
    <3> DEFINE b == [buffers[tail] EXCEPT !.status = "waiting"]
    <3>1. buffers[tail] \in Buffer /\ tail \in Ring /\ "waiting" \in BufferStates
      BY <1>1 DEF IsrInv, IsrTypeOK, BufferStates
    <3>2. /\ b \in Buffer /\ b.status # "done"
          /\ b.sector_count = buffers[tail].sector_count
          /\ b.remaining = buffers[tail].remaining
          /\ b.next_segment = buffers[tail].next_segment
          /\ b.segment_id = buffers[tail].segment_id
      BY <3>1 DEF Buffer
    <3>3. buffers' = [buffers EXCEPT ![tail] = b]
      BY <2>2
    <3> HIDE DEF b
    <3>4. QED
      BY <1>1, <1>2, <1>4, <3>1, <3>2, <3>3, OneBufferStep DEF controller
  <2>3. QED
    BY <1>2, <2>1, <2>2
<1>6. QED
  BY <1>3, <1>5 DEF WriteInv

(* The runner is stopped, or the end of the track waited for.              *)
LEMMA RunnerStep ==
    ASSUME WriteInv, RunnerAborting \/ RunnerEot \/ RestartEot
    PROVE  WriteInv'
<1>1. IsrInv /\ ProcTypeOK /\ DataTypeOK /\ NoReading
  BY DEF WriteInv
<1>2. "fill" \in Steps
  BY DEF Steps
<1>3. CASE RunnerAborting
  <2>1. /\ ControllerQuiet /\ FreeHead
        /\ runner_status' = IF runner_status \in {"aborting", "do_abort"}
                            THEN "idle" ELSE runner_status
        /\ \/ UNCHANGED faults /\ Goto("fill") /\ UNCHANGED datavars
           \/ Fault("drive") /\ Failed
        /\ UNCHANGED <<head, tail>>
        /\ UNCHANGED <<setup, setup_error, stop_read_ahead, driver_state>>
    BY <1>3 DEF RunnerAborting, ftape_dumb_stop, NoFault
  <2>2. ProcTypeOK' /\ DataTypeOK'
    BY <1>1, <1>2, <2>1, GotoType, SameData, FailedType
  <2>3. runner_status' \in RunnerStates /\ faults' \in Nat /\ tail' \in Ring
    BY <1>1, <2>1, DumbStopType, FaultType DEF IsrInv, IsrTypeOK
  <2> DEFINE s == IF buffers[head].status = WantedState THEN "done" ELSE buffers[head].status
             b == [buffers[head] EXCEPT !.status = s]
  <2>4. buffers' = [buffers EXCEPT ![head] = b]
    BY <2>1 DEF FreeHead
  <2>5. buffers[head] \in Buffer /\ head \in Ring
    BY <1>1 DEF IsrInv, IsrTypeOK
  <2>6. s \in BufferStates
    BY <2>5 DEF Buffer, BufferStates
  <2> HIDE DEF s
  <2>7. b \in Buffer
    BY <2>5, <2>6 DEF Buffer
  <2> HIDE DEF b
  <2>8. IsrInv' /\ NoReading'
    BY <1>1, <2>1, <2>3, <2>4, <2>5, <2>7, OneBufferStep
  <2>9. QED
    BY <2>2, <2>8 DEF WriteInv
<1>4. CASE RunnerEot \/ RestartEot
  <2>1. /\ \/ UNCHANGED faults /\ ftape_handle_logical_eot
              /\ (Goto("fill") \/ UNCHANGED procvars) /\ UNCHANGED datavars
           \/ Fault("drive") /\ Failed /\ UNCHANGED runner_status
        /\ UNCHANGED <<ring, controller, setup, stop_read_ahead, driver_state>>
    BY <1>4 DEF RunnerEot, RestartEot, NoFault
  <2>2. ProcTypeOK' /\ DataTypeOK'
    BY <1>1, <1>2, <2>1, GotoType, SameData, FailedType DEF ProcTypeOK, procvars
  <2>3. runner_status' \in RunnerStates
    BY <1>1, <2>1 DEF ftape_handle_logical_eot, IsrInv, IsrTypeOK, RunnerStates
  <2>4. faults' \in Nat
    BY <1>1, <2>1, FaultType DEF IsrInv, IsrTypeOK
  <2>5. IsrInv' /\ NoReading'
    BY <1>1, <2>1, <2>3, <2>4, IdleStep DEF controller, NoReading
  <2>6. QED
    BY <2>2, <2>5 DEF WriteInv
<1>5. QED
  BY <1>3, <1>4

(* The caller's data is taken into TAIL, if that is free: then it is not   *)
(* the buffer in transfer.                                                 *)
LEMMA FillStep ==
    ASSUME WriteInv, Fill
    PROVE  WriteInv'
<1>1. IsrInv /\ ProcTypeOK /\ DataTypeOK /\ NoReading
  BY DEF WriteInv
<1>2. /\ pc' = "start" /\ UNCHANGED faults /\ UNCHANGED <<call, again, result, head>>
      /\ UNCHANGED <<controller, setup, runner_status, stop_read_ahead, driver_state>>
      /\ UNCHANGED <<tape, accepted, written>>
  BY DEF Fill, NoFault
<1>3. runner_status' \in RunnerStates /\ faults' \in Nat
  BY <1>1, <1>2 DEF IsrInv, IsrTypeOK
<1>4. CASE TAIL.status # "done" /\ UNCHANGED <<buffers, tail, payload, bytes>>
  <2>1. ProcTypeOK' /\ DataTypeOK'
    BY <1>1, <1>2, <1>4 DEF ProcTypeOK, DataTypeOK, Steps
  <2>2. IsrInv' /\ NoReading'
    BY <1>1, <1>2, <1>3, <1>4, IdleStep DEF ring, controller, NoReading
  <2>3. QED
    BY <2>1, <2>2 DEF WriteInv
<1>5. CASE /\ TAIL.status = "done"
           /\ buffers' = [buffers EXCEPT
                  ![tail] = [@ EXCEPT !.segment_id = call.segment,
                                      !.status = "waiting", !.moved = {}]]
           /\ tail' = next(tail)
           /\ payload' = [payload EXCEPT ![tail] = written]
           /\ bytes' = "ok"
  <2> DEFINE b == [buffers[tail] EXCEPT !.segment_id = call.segment,
                                        !.status = "waiting", !.moved = {}]
  <2>1. /\ buffers[tail] \in Buffer /\ tail \in Ring /\ head \in Ring
        /\ call.segment \in Segments /\ next(tail) \in Ring
    BY <1>1, NextInRing DEF IsrInv, IsrTypeOK, ProcTypeOK
  <2>2. b \in Buffer
    <3>1. "waiting" \in BufferStates
      BY DEF BufferStates
    <3>2. QED
      BY <2>1, <3>1, FieldTypes DEF Buffer
  <2>3. buffers' = [buffers EXCEPT ![tail] = b]
    BY <1>5
  <2> HIDE DEF b
  <2>4. ProcTypeOK' /\ DataTypeOK'
    BY <1>1, <1>2, <1>5 DEF ProcTypeOK, DataTypeOK, Steps
  <2>5. CASE tail # head
    <3>1. IsrInv' /\ NoReading'
      BY <1>1, <1>2, <1>3, <1>5, <2>1, <2>2, <2>3, <2>5, OneBufferStep DEF controller
    <3>2. QED
      BY <2>4, <3>1 DEF WriteInv
  <2>6. CASE tail = head
    <3>1. ~ Transferring /\ ~ Transferring'
      BY <1>1, <1>2, <1>5, <2>6
         DEF IsrInv, TransferSound, HEAD, TAIL, Transferring, controller
    <3>2. buffers' \in [Ring -> Buffer] /\ tail' \in Ring /\ head' \in Ring
      BY <1>1, <1>2, <1>5, <2>1, <2>2, <2>3 DEF IsrInv, IsrTypeOK
    <3>3. IsrInv' /\ NoReading'
      BY <1>1, <1>2, <1>3, <3>1, <3>2
         DEF IsrInv, IsrTypeOK, TransferSound, NoReading, controller, setup
    <3>4. QED
      BY <2>4, <3>3 DEF WriteInv
  <2>7. QED
    BY <2>5, <2>6
<1>6. QED
  BY <1>4, <1>5 DEF Fill

(* The tape is started or not, and the call returns.                       *)
LEMMA StartStep ==
    ASSUME WriteInv, Start \/ Again
    PROVE  WriteInv'
<1>1. IsrInv /\ ProcTypeOK /\ DataTypeOK /\ NoReading
  BY DEF WriteInv
<1>2. CASE Finish /\ UNCHANGED isrvars
  BY <1>1, <1>2, FinishType, NoIsrStep DEF WriteInv
<1>3. CASE Started(call.mode) /\ Finish
  BY <1>1, <1>3, FinishType, StartedStep DEF WriteInv
<1>4. CASE StartFailed(call.mode) /\ Failed
  BY <1>1, <1>4, FailedType, StartFailedStep DEF WriteInv
<1>5. CASE Again
  <2>1. /\ \/ UNCHANGED faults /\ Goto("wait") /\ UNCHANGED datavars
           \/ Fault("signal") /\ Failed
        /\ UNCHANGED <<ring, controller, setup, runner_status, stop_read_ahead,
                       driver_state>>
    BY <1>5 DEF Again, NoFault
  <2>2. ProcTypeOK' /\ DataTypeOK'
    BY <1>1, <2>1, GotoType, SameData, FailedType DEF Steps
  <2>3. runner_status' \in RunnerStates /\ faults' \in Nat
    BY <1>1, <2>1, FaultType DEF IsrInv, IsrTypeOK
  <2>4. IsrInv' /\ NoReading'
    BY <1>1, <2>1, <2>3, IdleStep DEF controller, NoReading
  <2>5. QED
    BY <2>2, <2>4 DEF WriteInv
<1>6. QED
  BY <1>2, <1>3, <1>4, <1>5 DEF Start

(* The loop of the flush.                                                  *)
LEMMA FlushStep ==
    ASSUME WriteInv, Check \/ Restart \/ Sleep
    PROVE  WriteInv'
<1>1. IsrInv /\ ProcTypeOK /\ DataTypeOK /\ NoReading
  BY DEF WriteInv
<1>2. {"restart", "abort", "sleep", "recover", "idle"} \subseteq Steps
  BY DEF Steps
<1>3. CASE Check
  <2>1. /\ \/ Goto("restart") /\ UNCHANGED driver_state
           \/ /\ driver_state' = "waiting"
              /\ \/ pc' = "idle" /\ result' = "flushed" /\ UNCHANGED <<call, again, bytes>>
                 \/ Goto("abort")
        /\ UNCHANGED faults /\ UNCHANGED datavars
        /\ UNCHANGED <<ring, setup, setup_error, stop_read_ahead>>
        /\ UNCHANGED <<fdc_mode, busy, hide_interrupt>>
        /\ UNCHANGED <<interrupt_seen, runner_status>>
    BY <1>3 DEF Check, NoFault, controller
  <2>2. ProcTypeOK' /\ DataTypeOK'
    BY <1>1, <1>2, <2>1, GotoType, SameData DEF ProcTypeOK, Results
  <2>3. /\ runner_status' \in RunnerStates /\ faults' \in Nat
        /\ driver_state' \in DriverStates /\ interrupt_seen' \in BOOLEAN
    BY <1>1, <2>1 DEF IsrInv, IsrTypeOK, DriverStates
  <2>4. QED
    BY <1>1, <2>1, <2>2, <2>3, QuietStep DEF WriteInv
<1>4. CASE Restart
  <2>1. \/ Goto("sleep") /\ UNCHANGED isrvars /\ UNCHANGED datavars
        \/ Started(FlushMode) /\ Goto("sleep") /\ UNCHANGED datavars
        \/ StartFailed(FlushMode) /\ Failed
    BY <1>4 DEF Restart
  <2>2. ProcTypeOK' /\ DataTypeOK'
    BY <1>1, <1>2, <2>1, GotoType, SameData, FailedType
  <2>3. IsrInv' /\ NoReading'
    BY <1>1, <2>1, NoIsrStep, StartedStep, StartFailedStep
  <2>4. QED
    BY <2>2, <2>3 DEF WriteInv
<1>5. CASE Sleep
  <2>1. /\ \/ Fault("timeout") \/ UNCHANGED faults
        /\ \/ Goto("recover") /\ UNCHANGED <<fdc_mode, busy, hide_interrupt>>
              /\ interrupt_seen' \in {FALSE, interrupt_seen} /\ UNCHANGED datavars
           \/ ControllerQuiet /\ Failed
        /\ UNCHANGED <<ring, setup, setup_error, stop_read_ahead>>
        /\ UNCHANGED <<runner_status, driver_state>>
    BY <1>5 DEF Sleep, NoFault
  <2>2. ProcTypeOK' /\ DataTypeOK'
    BY <1>1, <1>2, <2>1, GotoType, SameData, FailedType
  <2>3. runner_status' \in RunnerStates /\ faults' \in Nat /\ driver_state' \in DriverStates
    BY <1>1, <2>1, FaultType DEF IsrInv, IsrTypeOK
  <2>4. interrupt_seen \in BOOLEAN
    BY <1>1 DEF IsrInv, IsrTypeOK
  <2>5. QED
    BY <1>1, <2>1, <2>2, <2>3, <2>4, QuietStep DEF WriteInv
<1>6. QED
  BY <1>3, <1>4, <1>5

(* HEAD is in error during the flush, or it is not.                        *)
LEMMA RecoverStep ==
    ASSUME WriteInv,
           RecoverStop \/ RecoverFail \/ RecoverRetry \/ RecoverNothing \/ RecoverSignal
    PROVE  WriteInv'
<1>1. IsrInv /\ ProcTypeOK /\ DataTypeOK /\ NoReading
  BY DEF WriteInv
<1>2. "check" \in Steps
  BY DEF Steps
<1>3. CASE RecoverStop
  <2>1. /\ ControllerQuiet /\ UNCHANGED faults
        /\ runner_status' = IF runner_status \in {"aborting", "do_abort"}
                            THEN "idle" ELSE runner_status
        /\ UNCHANGED <<ring, setup, setup_error, stop_read_ahead>>
        /\ UNCHANGED driver_state /\ UNCHANGED procvars /\ UNCHANGED datavars
    BY <1>3 DEF RecoverStop, ftape_dumb_stop, NoFault
  <2>2. ProcTypeOK' /\ DataTypeOK'
    BY <1>1, <2>1, SameData DEF ProcTypeOK, procvars
  <2>3. runner_status' \in RunnerStates /\ faults' \in Nat /\ driver_state' \in DriverStates
    BY <1>1, <2>1, DumbStopType DEF IsrInv, IsrTypeOK
  <2>4. QED
    BY <1>1, <2>1, <2>2, <2>3, QuietStep DEF WriteInv
<1>4. CASE RecoverFail
  BY <1>1, <1>4, FailedType, NoIsrStep DEF RecoverFail, WriteInv
<1>5. CASE RecoverNothing
  BY <1>1, <1>2, <1>5, GotoType, SameData, NoIsrStep DEF RecoverNothing, WriteInv
<1>6. CASE RecoverSignal
  <2>1. /\ Fault("signal") /\ Failed
        /\ UNCHANGED <<ring, controller, setup, runner_status, stop_read_ahead,
                       driver_state>>
    BY <1>6 DEF RecoverSignal
  <2>2. runner_status' \in RunnerStates /\ faults' \in Nat
    BY <1>1, <2>1, FaultType DEF IsrInv, IsrTypeOK
  <2>3. IsrInv' /\ NoReading'
    BY <1>1, <2>1, <2>2, IdleStep DEF controller, NoReading
  <2>4. QED
    BY <1>1, <2>1, <2>3, FailedType DEF WriteInv
<1>7. CASE RecoverRetry
  <2>1. PICK p \in StartTape(RetryHead(HEAD)) : SetHead(p)
    BY <1>7 DEF RecoverRetry
  <2>2. /\ RememberSetup(HEAD, HEAD.segment_id, 1)
        /\ \/ /\ UNCHANGED faults /\ runner_status' = "running"
              /\ fdc_mode' \in {"deleting", "writing_data"}
              /\ busy' = TRUE /\ setup_error' = FALSE
           \/ /\ Fault("setup") /\ runner_status' = "running"
              /\ fdc_mode' = "idle" /\ busy' = FALSE /\ setup_error' = TRUE
           \/ /\ Fault("drive") /\ UNCHANGED runner_status
              /\ fdc_mode' = "idle" /\ busy' = FALSE /\ setup_error' = FALSE
        /\ hide_interrupt' = FALSE /\ interrupt_seen' = FALSE
        /\ Goto("check")
        /\ UNCHANGED <<head, tail, stop_read_ahead, driver_state>> /\ UNCHANGED datavars
    BY <1>7 DEF RecoverRetry, NoFault
  <2>3. ProcTypeOK' /\ DataTypeOK'
    BY <1>1, <1>2, <2>2, GotoType, SameData
  <2>4. runner_status' \in RunnerStates
    BY <1>1, <2>2 DEF IsrInv, IsrTypeOK, RunnerStates
  <2>5. faults' \in Nat
    BY <1>1, <2>2, FaultType DEF IsrInv, IsrTypeOK
  <2>6. /\ setup_error' \in BOOLEAN /\ busy' \in BOOLEAN
        /\ fdc_mode' \in {"idle", "writing_data", "deleting"}
        /\ busy' => fdc_mode' # "idle"
    BY <2>2
  <2>7. IsrInv' /\ NoReading'
    BY <1>1, <2>1, <2>2, <2>4, <2>5, <2>6, RetryHeadType, StartOnHead
  <2>8. QED
    BY <2>3, <2>7 DEF WriteInv
<1>8. QED
  BY <1>3, <1>4, <1>5, <1>6, <1>7

(* The handler, and what its transfer leaves on tape.                      *)
LEMMA InterruptStep ==
    ASSUME WriteInv, Interrupt
    PROVE  WriteInv'
<1>1. IsrInv /\ ProcTypeOK /\ DataTypeOK /\ NoReading
  BY DEF WriteInv
<1>2. fdc_isr /\ UNCHANGED procvars /\ UNCHANGED <<payload, accepted, written>>
  BY DEF Interrupt
<1>3. IsrInv' /\ fdc_mode' \in {fdc_mode, "idle", "seeking"}
  BY <1>1, <1>2, HandlerStep
<1>4. NoReading' /\ ProcTypeOK'
  BY <1>1, <1>2, <1>3 DEF NoReading, ProcTypeOK, procvars
<1> DEFINE seg   == HEAD.segment_id
           moved == buffers'[head].moved
           put   == [ data |-> payload[head],
                      blocks |-> IF tape[seg].data = payload[head]
                                 THEN tape[seg].blocks \cup moved ELSE moved ]
<1>5. tape' = tape \/ tape' = [tape EXCEPT ![seg] = put]
  BY DEF Interrupt
<1>6. head \in Ring /\ seg \in Segments
  BY <1>1 DEF IsrInv, IsrTypeOK, HEAD, Buffer
<1>7. moved \in SUBSET Nat
  BY <1>3, <1>6 DEF IsrInv, IsrTypeOK, Buffer, BlockMaps
<1> HIDE DEF seg, moved
<1>8. put \in [data : Payloads, blocks : SUBSET Nat]
  BY <1>1, <1>6, <1>7 DEF DataTypeOK
<1> HIDE DEF put
<1>9. tape' \in [Segments -> [data : Payloads, blocks : SUBSET Nat]]
  BY <1>1, <1>5, <1>6, <1>8 DEF DataTypeOK
<1>10. DataTypeOK'
  BY <1>1, <1>2, <1>9 DEF DataTypeOK
<1>11. QED
  BY <1>3, <1>4, <1>10 DEF WriteInv

-----------------------------------------------------------------------------
(* The invariant                                                            *)

(* The invariant holds when the driver has been enabled.                   *)
LEMMA InitInv == Init => WriteInv
<1>1. SUFFICES ASSUME Init PROVE WriteInv
  OBVIOUS
<1>2. IsrInv
  BY <1>1, IsrInitInv DEF Init
<1>3. buffers[0].segment_id \in Segments
  BY <1>2, NrBuffersAssumption DEF IsrInv, IsrTypeOK, Ring, Buffer
<1>4. ProcTypeOK
  BY <1>1, <1>3 DEF Init, ProcTypeOK, Steps, Results, WriteModes
<1>5. 0 \in Payloads
  BY WriteAssumption DEF Payloads
<1>6. DataTypeOK
  BY <1>1, <1>5 DEF Init, DataTypeOK
<1>7. NoReading
  BY <1>1 DEF Init, IsrInit, NoReading
<1>8. QED
  BY <1>2, <1>4, <1>6, <1>7 DEF WriteInv

(* Every step preserves it.                                                *)
LEMMA NextInv == WriteInv /\ [Next]_vars => WriteInv'
<1>1. SUFFICES ASSUME WriteInv, [Next]_vars PROVE WriteInv'
  OBVIOUS
<1>2. CASE CallWrite \/ CallFlush \/ CallAbort \/ Interrupt \/ WaitFails \/ RecoverSignal
  BY <1>1, <1>2, CallStep, InterruptStep, WaitStep, RecoverStep
<1>3. CASE Process
  BY <1>1, <1>3, AbortStep, WaitStep, JudgeStep, RunnerStep, FillStep, StartStep, FlushStep,
     RecoverStep DEF Process
<1>4. CASE UNCHANGED vars
  <2>1. UNCHANGED isrvars /\ UNCHANGED procvars /\ UNCHANGED datavars
    BY <1>4 DEF vars
  <2>2. QED
    BY <1>1, <2>1, NoIsrStep, SameData DEF WriteInv, ProcTypeOK, procvars
<1>5. QED
  BY <1>1, <1>2, <1>3, <1>4 DEF Next

(***************************************************************************)
(* The inductive invariant of writing: the types, and what the handler     *)
(* needs of a transfer.                                                    *)
(***************************************************************************)
THEOREM WriteInvariant == Spec => []WriteInv
  BY InitInv, NextInv, PTL DEF Spec

(***************************************************************************)
(* Type correctness of writing: no count of sectors of write_segment() and *)
(* the handler goes below zero, and every transfer the flush retries is    *)
(* one of a segment on tape.                                               *)
(***************************************************************************)
THEOREM WriteTypeCorrect == Spec => []WriteTypeOK
<1>1. Payloads \subseteq Nat
  BY WriteAssumption DEF Payloads
<1>2. WriteInv => WriteTypeOK
  BY <1>1 DEF WriteInv, IsrInv, ProcTypeOK, DataTypeOK, WriteTypeOK
<1>3. QED
  BY <1>2, WriteInvariant, PTL

(***************************************************************************)
(* The handler writes ahead only to the segment that follows on tape, and  *)
(* only a buffer that was filled for that segment: whatever segments the   *)
(* caller asks for, in whatever order, and whatever the process does to    *)
(* the ring meanwhile.                                                     *)
(***************************************************************************)
THEOREM WriteAheadKeeps == Spec => WriteAheadKeepsSegments
<1> DEFINE Ahead == (Interrupt /\ head' # head /\ busy' /\ fdc_mode' # "seeking")
                    => /\ buffers'[head'].segment_id = HEAD.segment_id + 1
                       /\ buffers'[head'].segment_id = buffers[head'].segment_id
<1>1. ASSUME WriteInv, Interrupt, head' # head, busy', fdc_mode' # "seeking"
      PROVE  /\ buffers'[head'].segment_id = HEAD.segment_id + 1
             /\ buffers'[head'].segment_id = buffers[head'].segment_id
  <2>1. IsrInv /\ fdc_isr /\ NoReading /\ Transferring'
    BY <1>1 DEF WriteInv, Interrupt, Transferring
  <2>2. /\ fdc_mode # "seeking"
        /\ Transferring /\ (HeadStays \/ HeadLeaves \/ HeadGoesOn)
    BY <1>1, <2>1, HandlerStep
  <2>3. HeadGoesOn
    BY <1>1, <2>1, <2>2 DEF HeadStays, HeadLeaves
  <2>4. IsWrite
    BY <2>1, <2>2 DEF IsrInv, TransferSound, NoReading, IsWrite
  <2>5. QED
    BY <2>3, <2>4 DEF HeadGoesOn
<1>2. WriteInv /\ [Next]_vars => [Ahead]_vars
  BY <1>1
<1>3. QED
  BY <1>2, WriteInvariant, PTL DEF Spec, WriteAheadKeepsSegments

-----------------------------------------------------------------------------
(***************************************************************************)
(* What becomes of the data written, for any tape, any number of buffers   *)
(* and any sequence of calls and faults that is Orderly: data that has     *)
(* been accepted is on tape or in a buffer still to be written, a flush    *)
(* that succeeds leaves all of it on tape, and a hard error can be         *)
(* recovered from.                                                         *)
(*                                                                         *)
(* The inductive invariant is DataInv.  From the call that makes the       *)
(* driver write to the flush or to an error it is LiveOK: the buffers from *)
(* HEAD up to TAIL are a queue of rising segments (RingOK, SegOK), every   *)
(* promise is on tape or in the queue, and nothing newer of its segment is *)
(* written over (DataOK).  Before and after, RestOK: all is on tape.  That *)
(* HEAD leaves the queue only with its data on tape needs to know which    *)
(* sectors a transfer has passed (MapsOK, HardOK, TransferOK), and that    *)
(* the process frees no HEAD that is still in the queue (RunnerOK).        *)
(***************************************************************************)

(* What the data properties need of the state                               *)

(* The driver is writing, and has reported no error yet.                   *)
Live == driver_state # "waiting" /\ result # "EIO"

Writing  == {"wait", "judge", "runner", "fill", "start", "again"}
Flush == {"restart", "sleep", "recover"}

(* write_segment() has not taken the caller's data yet.                    *)
Unfilled == \/ pc \in {"wait", "judge", "runner", "fill", "again"}
            \/ pc = "start" /\ bytes # "ok"

(* The last segment of a stream has been handed over: a flush comes next.  *)
Closing == /\ pc \in {"idle", "check", "restart", "sleep", "recover"}
           /\ call.mode # "FT_WR_ASYNC"

(* What is promised for a segment; ftape_write_segment() is about to       *)
(* promise the data it has taken.                                          *)
Due == [seg \in Segments |->
           IF pc = "start" /\ bytes = "ok" /\ seg = call.segment
           THEN written ELSE accepted[seg]]

(* The phases of a call.                                                   *)
PhaseOK ==
    /\ driver_state # "reading"
    /\ driver_state # "waiting" => driver_state = WantedState
    /\ driver_state = "waiting" => ~Transferring
    /\ pc \in Writing \cup Flush => driver_state # "waiting"
    /\ pc = "abort" => driver_state = "waiting"
    /\ pc \in Writing \cup {"abort"} => call.op = "write"
    /\ pc = "give_up" => result = "EIO"
    /\ pc = "idle" /\ result = "flushed" => driver_state = "waiting"
    /\ result = "EIO" => pc \in {"idle", "give_up"} /\ \A s \in Segments : accepted[s] = 0
    /\ call.op = "write" /\ pc \notin {"idle", "give_up"} => accepted[call.segment] = 0

(* The buffers whose data has still to be written: from HEAD up to TAIL.   *)
Queued(i) == Between(head, i, tail) \/ (head = tail /\ HEAD.status # "done")

(* HEAD was given up, being a segment without data, and the runner stops.  *)
Stalled == Closing /\ runner_status = "aborting" /\ HEAD.status \in {"waiting", "done"}

(* The queue is waiting behind HEAD; all other buffers are free.            *)
RingOK ==
    /\ HEAD.status \in {"waiting", driver_state, "error", "done"}
    /\ HEAD.status = "done" => head = tail
    /\ \A i \in Ring : i # head /\ Queued(i) => buffers[i].status = "waiting"
    /\ \A i \in Ring : i # head /\ ~Queued(i) => buffers[i].status = "done" \/ Stalled

(* Their segments are different, none is beyond the call's, and the ones   *)
(* behind HEAD have not been set up yet.                                   *)
SegOK ==
    /\ \A i \in Ring : Queued(i) =>
          /\ buffers[i].segment_id <= call.segment
          /\ buffers[i].segment_id = call.segment => payload[i] = written /\ ~Unfilled
    /\ \A i, j \in Ring :
          Queued(i) /\ Queued(j) /\ buffers[i].segment_id = buffers[j].segment_id => i = j
    /\ \A i \in Ring : i # head /\ Queued(i) =>
          buffers[i].segment_id # old_segment_id /\ buffers[i].moved = {}
    /\ old_segment_id <= call.segment
    /\ old_segment_id = call.segment => ~Unfilled

SetUp == Retrying(HEAD.segment_id)

(* A buffer that may be set up again.                                      *)
Resumable(b) ==
    /\ b.stray = 0 /\ SkipOK(b)
    /\ b.hard_error_map = {} => \A s \in b.soft_error_map : b.skip <= s
    /\ BadSectors[b.segment_id] = Sectors => b.skip = 0

(* A buffer in transfer.                                                   *)
UnderWay(b) ==
    /\ b.soft_error_map = {} /\ b.hard_error_map = {}
    /\ OnCourse(b) /\ InCluster(b)
    /\ b.skip <= b.sector_offset
    /\ BadSectors[b.segment_id] = Sectors => IsFake(b)

(* HEAD has been set up, and may be again; or nothing of it is written.    *)
MapsOK ==
    HEAD.status # "done" =>
        /\ HEAD.status # "waiting" => SetUp
        /\ ~SetUp => HEAD.moved = {}
        /\ SetUp => Resumable(HEAD)

(* A hard error is one sector, and the transfer has ended with it.         *)
HardOK ==
    HEAD.status # "done" /\ SetUp /\ HEAD.hard_error_map # {} =>
        /\ Cardinality(HEAD.hard_error_map) = 1
        /\ ~Transferring
        /\ \/ HEAD.status = "error" \/ runner_status = "running"
           \/ Closing /\ HEAD.status = driver_state

(* A transfer under way is one of HEAD.                                    *)
TransferOK ==
    Transferring =>
       /\ HEAD.status = driver_state /\ UnderWay(HEAD)
       /\ runner_status = "running" \/ Closing
       /\ driver_state = "deleting" => Closing

(* When the process stops the runner, or frees HEAD, no transfer is under  *)
(* way, and a HEAD that it frees is done.                                  *)
RunnerOK ==
    /\ runner_status # "do_abort"
    /\ runner_status = "aborting" /\ HEAD.status = driver_state => Closing
    /\ pc = "judge" /\ TAIL.status # "done" => ~Transferring
    /\ pc \in {"runner", "fill"} /\ bytes = "ok" => TAIL.status = "done"
    /\ pc \in {"runner", "fill", "start"} /\ bytes = "EAGAIN" =>
          /\ ~Transferring /\ head = tail /\ HEAD.status = "waiting"
          /\ pc # "runner" => runner_status \in {"idle", "running"}
    /\ pc \in {"runner", "fill", "start"} /\ bytes = "EIO" =>
          /\ ~Transferring /\ head = tail /\ HEAD.status = "error"
          /\ HEAD.hard_error_map # {}
    /\ pc = "fill" /\ bytes = "ok" /\ runner_status \notin {"idle", "running"}
         => next(tail) # head \/ HEAD.status = "error"
    /\ pc = "start" /\ bytes = "ok" /\ runner_status \notin {"idle", "running"}
         => head # tail \/ HEAD.status # "waiting"
    /\ driver_state = "deleting" /\ Unfilled => HEAD.status = "done"

(* What is promised is on tape or queued, and what is queued is the newest *)
(* data of its segment.                                                    *)
DataOK ==
    /\ HEAD.status # "done" /\ HEAD.moved # {} =>
          /\ tape[HEAD.segment_id].data = payload[head]
          /\ HEAD.moved \subseteq tape[HEAD.segment_id].blocks
    /\ \A i \in Ring : Queued(i) => Due[buffers[i].segment_id] \in {0, payload[i]}
    /\ \A seg \in Segments : Due[seg] # 0 =>
          \/ OnTape(seg, Due[seg])
          \/ \E i \in Ring : /\ Queued(i) /\ payload[i] = Due[seg]
                             /\ buffers[i].segment_id = seg

(* After a flush or an abort all that is still promised is on tape.        *)
RestOK ==
    driver_state = "waiting" =>
        \A seg \in Segments : accepted[seg] # 0 => OnTape(seg, accepted[seg])

(* The queue, while the driver is writing.                                 *)
LiveOK == RingOK /\ SegOK /\ MapsOK /\ HardOK /\ TransferOK /\ RunnerOK /\ DataOK

(* The inductive invariant.                                                *)
DataInv == WriteInv /\ PhaseOK /\ RestOK /\ (Live => LiveOK)

(* Who writes, and what does not go wrong: segments are written in         *)
(* ascending order, with a flush after the last one; a transfer can be set *)
(* up; and ft_ignore_ecc_err is off.                                       *)
Orderly == Callers # "any" /\ "setup" \notin Faults /\ ~IgnoreEccErr

-----------------------------------------------------------------------------
(* The queue                                                                *)

(* The types the proofs below refer to.                                    *)
LEMMA WriteTypes ==
    ASSUME WriteInv
    PROVE  /\ buffers \in [Ring -> Buffer] /\ head \in Ring /\ tail \in Ring
           /\ HEAD \in Buffer /\ TAIL \in Buffer
           /\ HEAD.segment_id \in Segments
           /\ \A i \in Ring : buffers[i].segment_id \in Segments
           /\ call.segment \in Segments /\ Segments \subseteq Nat
           /\ old_segment_id \in Segments \cup {None}
           /\ runner_status \in RunnerStates
           /\ payload \in [Ring -> Payloads] /\ written \in Payloads
           /\ accepted \in [Segments -> Payloads]
           /\ tape \in [Segments -> [data : Payloads, blocks : SUBSET Nat]]
<1>1. IsrTypeOK /\ ProcTypeOK /\ DataTypeOK
  BY DEF WriteInv, IsrInv
<1>2. buffers \in [Ring -> Buffer] /\ head \in Ring /\ tail \in Ring
  BY <1>1 DEF IsrTypeOK
<1>3. \A i \in Ring : buffers[i].segment_id \in Segments
  BY <1>2 DEF Buffer
<1>4. HEAD \in Buffer /\ TAIL \in Buffer /\ HEAD.segment_id \in Segments
  BY <1>2, <1>3 DEF HEAD, TAIL
<1>5. call.segment \in Segments /\ Segments \subseteq Nat
  BY <1>1, SegmentsAssumption DEF ProcTypeOK
<1>6. QED
  BY <1>1, <1>2, <1>3, <1>4, <1>5 DEF IsrTypeOK, DataTypeOK

(* A HEAD that is not done is in the queue, one that is done is not.       *)
LEMMA HeadQueued ==
    ASSUME WriteInv, RingOK
    PROVE  Queued(head) <=> HEAD.status # "done"
  BY WriteTypes, BetweenFacts DEF Queued, RingOK

(* While write_segment() is at work, a TAIL that is not free is HEAD.      *)
LEMMA TailIsHead ==
    ASSUME WriteInv, RingOK, ~Stalled, TAIL.status # "done"
    PROVE  head = tail
<1>1. SUFFICES ASSUME head # tail PROVE FALSE
  OBVIOUS
<1>2. ~ Queued(tail)
  BY <1>1, WriteTypes, BetweenFacts DEF Queued
<1>3. QED
  BY <1>1, <1>2, WriteTypes DEF RingOK, TAIL

(* Whether a buffer may be set up again, or is under way, shows in what    *)
(* SameMaps compares.                                                      *)
LEMMA SameMapsMore ==
    ASSUME NEW b, NEW c, SameMaps(c, b)
    PROVE  /\ Resumable(b) => Resumable(c)
           /\ UnderWay(b) => UnderWay(c)
<1>1. /\ c.segment_id = b.segment_id /\ c.stray = b.stray /\ c.skip = b.skip
      /\ c.sector_offset = b.sector_offset /\ c.bad_sector_map = b.bad_sector_map
      /\ c.soft_error_map = b.soft_error_map /\ c.hard_error_map = b.hard_error_map
  BY DEF SameMaps
<1>2. Resumable(b) => Resumable(c)
  BY <1>1, SameMapsKeep DEF Resumable
<1>3. UnderWay(b) => UnderWay(c)
  BY <1>1, SameMapsKeep DEF UnderWay, IsFake
<1>4. QED
  BY <1>2, <1>3

(* A step after which the same buffers hold the same data for the same     *)
(* segments, and no transfer is under way that was not before.  HEAD may   *)
(* be marked as waiting again.                                             *)
LEMMA SteadyStep ==
    ASSUME WriteInv, WriteInv', LiveOK,
           UNCHANGED <<head, tail, old_driver_state, old_segment_id, driver_state>>,
           UNCHANGED <<payload, tape, written>>,
           call'.segment = call.segment,
           \A i \in Ring : SameMaps(buffers'[i], buffers[i]),
           \A i \in Ring : i # head => buffers'[i].status = buffers[i].status,
           \/ buffers'[head].status = buffers[head].status
           \/ /\ buffers'[head].status = "waiting" /\ buffers[head].status # "done"
              /\ ~ Transferring'
              /\ SetUp => HEAD.hard_error_map = {} \/ runner_status = "running",
           Due' = Due,
           Transferring' => Transferring,
           Closing => Closing', Stalled => Stalled', Unfilled' => Unfilled,
           runner_status = "running" => runner_status' = "running"
    PROVE  RingOK' /\ SegOK' /\ MapsOK' /\ HardOK' /\ TransferOK' /\ DataOK'
<1>1. /\ head \in Ring /\ tail \in Ring /\ HEAD.segment_id \in Segments
      /\ \A i \in Ring : buffers[i].segment_id \in Segments
  BY WriteTypes
<1>2. RingOK /\ SegOK /\ MapsOK /\ HardOK /\ TransferOK /\ DataOK
  BY DEF LiveOK
<1>3. /\ HEAD' = buffers'[head] /\ SameMaps(HEAD', HEAD)
      /\ \/ HEAD'.status = HEAD.status
         \/ /\ HEAD'.status = "waiting" /\ HEAD.status # "done"
            /\ ~ Transferring'
            /\ SetUp => HEAD.hard_error_map = {} \/ runner_status = "running"
  BY <1>1 DEF HEAD
<1>4. /\ HEAD'.segment_id = HEAD.segment_id /\ HEAD'.moved = HEAD.moved
      /\ HEAD'.hard_error_map = HEAD.hard_error_map
  BY <1>3 DEF SameMaps
<1>5. \A i \in Ring : Queued(i)' <=> Queued(i)
  BY <1>3 DEF Queued
<1>6. SetUp' <=> SetUp
  BY <1>4 DEF SetUp, Retrying
<1>7. \A i \in Ring : /\ buffers'[i].segment_id = buffers[i].segment_id
                      /\ buffers'[i].moved = buffers[i].moved
  BY DEF SameMaps
<1>8. RingOK'
  <2>1. HEAD'.status \in {"waiting", driver_state', "error", "done"}
    BY <1>2, <1>3 DEF RingOK
  <2>2. HEAD'.status = "done" => head' = tail'
    BY <1>2, <1>3 DEF RingOK
  <2>3. \A i \in Ring : i # head' /\ Queued(i)' => buffers'[i].status = "waiting"
    BY <1>2, <1>5 DEF RingOK
  <2>4. \A i \in Ring : i # head' /\ ~ Queued(i)' => buffers'[i].status = "done" \/ Stalled'
    BY <1>2, <1>5 DEF RingOK
  <2>5. QED
    BY <2>1, <2>2, <2>3, <2>4 DEF RingOK
<1>9. SegOK'
  <2>1. \A i \in Ring : Queued(i)' =>
           /\ buffers'[i].segment_id <= call'.segment
           /\ buffers'[i].segment_id = call'.segment => payload'[i] = written' /\ ~Unfilled'
    BY <1>2, <1>5, <1>7 DEF SegOK
  <2>2. \A i, j \in Ring :
           Queued(i)' /\ Queued(j)' /\ buffers'[i].segment_id = buffers'[j].segment_id => i = j
    BY <1>2, <1>5, <1>7 DEF SegOK
  <2>3. \A i \in Ring : i # head' /\ Queued(i)' =>
           buffers'[i].segment_id # old_segment_id' /\ buffers'[i].moved = {}
    BY <1>2, <1>5, <1>7 DEF SegOK
  <2>4. /\ old_segment_id' <= call'.segment
        /\ old_segment_id' = call'.segment => ~Unfilled'
    BY <1>2 DEF SegOK
  <2>5. QED
    BY <2>1, <2>2, <2>3, <2>4 DEF SegOK
<1>10. MapsOK'
  BY <1>2, <1>3, <1>4, <1>6, SameMapsMore DEF MapsOK
<1>11. HardOK'
  BY <1>2, <1>3, <1>4, <1>6 DEF HardOK
<1>12. TransferOK'
  BY <1>2, <1>3, SameMapsMore DEF TransferOK
<1>13. DataOK'
  <2>1. HEAD'.status # "done" /\ HEAD'.moved # {} =>
           /\ tape'[HEAD'.segment_id].data = payload'[head']
           /\ HEAD'.moved \subseteq tape'[HEAD'.segment_id].blocks
    BY <1>2, <1>3, <1>4 DEF DataOK
  <2>2. \A i \in Ring : Queued(i)' => Due'[buffers'[i].segment_id] \in {0, payload'[i]}
    BY <1>2, <1>5, <1>7 DEF DataOK
  <2>3. \A seg \in Segments : Due'[seg] # 0 =>
           \/ OnTape(seg, Due[seg])'
           \/ \E i \in Ring : /\ Queued(i)' /\ payload'[i] = Due'[seg]
                              /\ buffers'[i].segment_id = seg
    BY <1>2, <1>5, <1>7 DEF DataOK, OnTape
  <2>4. QED
    BY <2>1, <2>2, <2>3 DEF DataOK
<1>14. QED
  BY <1>8, <1>9, <1>10, <1>11, <1>12, <1>13

-----------------------------------------------------------------------------
(* The steps of the process that leave the queue alone                      *)

(* write_segment() is at work only while the driver is writing.            *)
LEMMA WritingFacts ==
    ASSUME DataInv, pc \in Writing
    PROVE  /\ Live /\ LiveOK /\ ~Closing /\ ~Stalled
           /\ driver_state = WantedState /\ driver_state \in {"writing", "deleting"}
           /\ result # "EIO" /\ call.op = "write"
<1>1. PhaseOK /\ (Live => LiveOK)
  BY DEF DataInv
<1>2. result # "EIO" /\ driver_state # "waiting" /\ call.op = "write"
  BY <1>1 DEF PhaseOK, Writing
<1>3. driver_state = WantedState /\ driver_state \in {"writing", "deleting"}
  BY <1>1, <1>2 DEF PhaseOK, WantedState, StateFor
<1>4. ~Closing /\ ~Stalled
  BY DEF Closing, Stalled, Writing
<1>5. QED
  BY <1>1, <1>2, <1>3, <1>4 DEF Live

(* An error is reported: nothing is promised any more.                     *)
LEMMA FailedData ==
    ASSUME PhaseOK, Failed, driver_state' \in {driver_state, "waiting"},
           driver_state' = "waiting" => ~Transferring'
    PROVE  PhaseOK' /\ RestOK' /\ ~Live'
<1>1. /\ pc' = "idle" /\ result' = "EIO" /\ call' = call
      /\ accepted' = [s \in Segments |-> 0]
  BY DEF Failed
<1>2. WantedState' = WantedState
  BY <1>1 DEF WantedState
<1>3. PhaseOK'
  BY <1>1, <1>2 DEF PhaseOK, Writing, Flush
<1>4. RestOK'
  BY <1>1 DEF RestOK
<1>5. QED
  BY <1>1, <1>3, <1>4 DEF Live

(* From one label of write_segment() to another, or of the flush.          *)
LEMMA PhaseGoesOn ==
    ASSUME PhaseOK, driver_state # "waiting",
           UNCHANGED <<driver_state, call, accepted, result>>,
           \/ pc \in Writing /\ pc' \in Writing
           \/ pc \in Flush \cup {"check"} /\ pc' \in Flush \cup {"check"}
    PROVE  PhaseOK' /\ RestOK'
<1>1. WantedState' = WantedState
  BY DEF WantedState
<1>2. PhaseOK'
  BY <1>1 DEF PhaseOK, Writing, Flush
<1>3. QED
  BY <1>2 DEF RestOK

(* A buffer of which only the retry count and the status may change.       *)
Alike == /\ \A i \in Ring : SameMaps(buffers'[i], buffers[i])
         /\ \A i \in Ring : i # head => buffers'[i].status = buffers[i].status

(* A step that leaves the buffers alone is one of these.                   *)
LEMMA SameBuffers ==
    ASSUME buffers' = buffers
    PROVE  Alike
  BY DEF Alike, SameMaps

(* A step of write_segment() that leaves the queue alone.                  *)
LEMMA WorkStep ==
    ASSUME DataInv, WriteInv', pc \in Writing, pc' \in Writing,
           UNCHANGED <<call, result, driver_state, head, tail>>,
           UNCHANGED setup, UNCHANGED datavars, Alike,
           \/ buffers'[head].status = buffers[head].status
           \/ /\ buffers'[head].status = "waiting" /\ buffers[head].status # "done"
              /\ ~ Transferring'
              /\ SetUp => HEAD.hard_error_map = {} \/ runner_status = "running",
           Due' = Due, Transferring' => Transferring, Unfilled' => Unfilled,
           runner_status = "running" => runner_status' = "running",
           RunnerOK'
    PROVE  PhaseOK' /\ RestOK' /\ LiveOK'
<1>1. /\ Live /\ LiveOK /\ ~Closing /\ ~Stalled /\ driver_state # "waiting"
  BY WritingFacts DEF Live
<1>2. /\ UNCHANGED <<old_driver_state, old_segment_id>>
      /\ UNCHANGED <<payload, tape, written>> /\ accepted' = accepted
  BY DEF setup, datavars
<1>3. WriteInv /\ PhaseOK
  BY DEF DataInv
<1>4. RingOK' /\ SegOK' /\ MapsOK' /\ HardOK' /\ TransferOK' /\ DataOK'
  BY <1>1, <1>2, <1>3, SteadyStep DEF Alike
<1>5. PhaseOK' /\ RestOK'
  BY <1>1, <1>2, <1>3, PhaseGoesOn
<1>6. QED
  BY <1>4, <1>5 DEF LiveOK

(* ftape_wait_segment().                                                   *)
LEMMA WaitedStep ==
    ASSUME DataInv, WriteInv', pc = "wait", pc' \in {"wait", "judge"},
           UNCHANGED <<call, result, driver_state, head, tail>>,
           UNCHANGED setup, UNCHANGED datavars, Alike,
           buffers'[head].status = buffers[head].status,
           runner_status' \in {runner_status, "idle"},
           runner_status = "running" => runner_status' = "running",
           Transferring' => Transferring,
           pc' = "judge" => ~Transferring' \/ TAIL.status = "done"
    PROVE  PhaseOK' /\ RestOK' /\ LiveOK'
<1>1. pc \in Writing /\ pc' \in Writing
  BY DEF Writing
<1>2. RunnerOK /\ ~Closing
  BY <1>1, WritingFacts DEF LiveOK
<1>3. Due' = Due
  BY DEF Due, datavars
<1>4. Unfilled' => Unfilled
  BY DEF Unfilled
<1>5. head \in Ring /\ tail \in Ring
  BY WriteTypes DEF DataInv
<1>6. HEAD'.status = HEAD.status /\ TAIL'.status = TAIL.status
  BY <1>5 DEF HEAD, TAIL, Alike
<1>7. RunnerOK'
  BY <1>2, <1>4, <1>6 DEF RunnerOK
<1>8. QED
  BY <1>1, <1>3, <1>4, <1>7, WorkStep

(* What ftape_dumb_stop() and ftape_stop_tape() make of the runner.        *)
LEMMA StoppedRunner ==
    ASSUME runner_status' = IF runner_status \in {"aborting", "do_abort"}
                            THEN "idle" ELSE runner_status
    PROVE  /\ runner_status' \in {runner_status, "idle"}
           /\ runner_status = "running" => runner_status' = "running"
  OBVIOUS

(* The retry count of TAIL is not among the maps.                          *)
LEMMA CreditAlike ==
    ASSUME WriteInv, NEW credit \in {0, 1},
           buffers' = [buffers EXCEPT ![tail].retry = IF @ > 0 THEN @ - credit ELSE @]
    PROVE  Alike /\ buffers'[head].status = buffers[head].status
<1> DEFINE k == IF buffers[tail].retry > 0 THEN buffers[tail].retry - credit
                ELSE buffers[tail].retry
           b == [buffers[tail] EXCEPT !.retry = k]
<1>1. buffers \in [Ring -> Buffer] /\ tail \in Ring /\ head \in Ring
  BY WriteTypes
<1>2. buffers[tail] \in Buffer
  BY <1>1
<1>3. buffers' = [buffers EXCEPT ![tail] = b]
  OBVIOUS
<1> HIDE DEF k
<1>4. SameMaps(b, buffers[tail]) /\ b.status = buffers[tail].status
  BY <1>2 DEF Buffer, SameMaps
<1> HIDE DEF b
<1>5. \A i \in Ring : buffers'[i] = IF i = tail THEN b ELSE buffers[i]
  BY <1>1, <1>3
<1>6. \A i \in Ring : SameMaps(buffers'[i], buffers[i])
  BY <1>4, <1>5 DEF SameMaps
<1>7. QED
  BY <1>1, <1>4, <1>5, <1>6 DEF Alike

(* The wait, however it ends.                                              *)
LEMMA WaitData ==
    ASSUME DataInv, WriteInv', WaitAwake \/ WaitTimeout \/ WaitFails \/ WaitEnd
    PROVE  PhaseOK' /\ RestOK' /\ (Live' => LiveOK')
<1>1. pc = "wait" /\ WriteInv /\ PhaseOK
  BY DEF WaitAwake, WaitTimeout, WaitFails, WaitEnd, DataInv
<1>2. pc \in Writing
  BY <1>1 DEF Writing
<1>3. /\ driver_state = WantedState /\ driver_state # "waiting"
      /\ RingOK /\ TransferOK /\ ~Stalled
  BY <1>2, WritingFacts DEF Live, LiveOK
<1>4. CASE WaitAwake
  <2>1. /\ UNCHANGED <<ring, setup, driver_state>> /\ UNCHANGED datavars
        /\ \/ UNCHANGED procvars /\ UNCHANGED <<fdc_mode, busy>>
              /\ UNCHANGED runner_status
           \/ /\ ControllerQuiet /\ Goto("judge")
              /\ runner_status' = IF runner_status \in {"aborting", "do_abort"}
                                  THEN "idle" ELSE runner_status
    BY <1>4 DEF WaitAwake, ControllerQuiet
  <2>2. /\ UNCHANGED <<head, tail, buffers>> /\ UNCHANGED setup /\ driver_state' = driver_state
        /\ UNCHANGED <<call, result>> /\ pc' \in {"wait", "judge"}
        /\ pc' = "judge" => ControllerQuiet
    BY <1>1, <2>1 DEF ring, procvars, Goto
  <2>3. /\ runner_status' \in {runner_status, "idle"}
        /\ runner_status = "running" => runner_status' = "running"
    BY <2>1, StoppedRunner
  <2>4. Transferring' => Transferring /\ ~ControllerQuiet
    BY <2>1, QuietType DEF Transferring
  <2>5. QED
    BY <1>1, <2>1, <2>2, <2>3, <2>4, SameBuffers, WaitedStep
<1>5. CASE WaitTimeout
  <2>1. /\ ControllerQuiet
        /\ runner_status' = IF runner_status \in {"aborting", "do_abort"}
                            THEN "idle" ELSE runner_status
        /\ (Goto("judge") /\ UNCHANGED datavars) \/ Failed
        /\ UNCHANGED <<ring, setup>> /\ UNCHANGED driver_state
    BY <1>5 DEF WaitTimeout
  <2>2. ~Transferring'
    BY <2>1, QuietType
  <2>3. CASE Failed
    BY <1>1, <1>3, <2>1, <2>2, <2>3, FailedData
  <2>4. CASE Goto("judge") /\ UNCHANGED datavars
    <3>1. /\ UNCHANGED <<head, tail, buffers>> /\ UNCHANGED setup
          /\ UNCHANGED <<call, result>> /\ pc' = "judge"
      BY <2>1, <2>4 DEF ring, Goto
    <3>2. QED
      BY <1>1, <2>1, <2>2, <2>4, <3>1, StoppedRunner, SameBuffers, WaitedStep
  <2>5. QED
    BY <2>1, <2>3, <2>4
<1>6. CASE WaitFails
  <2>1. /\ ControllerQuiet
        /\ runner_status' = IF runner_status \in {"aborting", "do_abort"}
                            THEN "idle" ELSE runner_status
        /\ (Goto("judge") /\ UNCHANGED datavars) \/ Failed
        /\ UNCHANGED <<head, tail>> /\ UNCHANGED setup /\ UNCHANGED driver_state
        /\ \/ buffers' = buffers
           \/ \E credit \in {0, 1} :
                 buffers' = [buffers EXCEPT ![tail].retry = IF @ > 0 THEN @ - credit ELSE @]
    BY <1>6 DEF WaitFails, ftape_dumb_stop
  <2>2. ~Transferring'
    BY <2>1, QuietType
  <2>3. CASE Failed
    BY <1>1, <1>3, <2>1, <2>2, <2>3, FailedData
  <2>4. CASE Goto("judge") /\ UNCHANGED datavars
    <3>1. UNCHANGED <<call, result>> /\ pc' = "judge"
      BY <2>4 DEF Goto
    <3>2. Alike /\ buffers'[head].status = buffers[head].status
      BY <1>1, <2>1, SameBuffers, CreditAlike
    <3>3. QED
      BY <1>1, <2>1, <2>2, <2>4, <3>1, <3>2, StoppedRunner, WaitedStep
  <2>5. QED
    BY <2>1, <2>3, <2>4
<1>7. CASE WaitEnd
  <2>1. /\ TAIL.status # WantedState /\ Goto("judge")
        /\ UNCHANGED isrvars /\ UNCHANGED datavars
    BY <1>7 DEF WaitEnd
  <2>2. /\ UNCHANGED <<head, tail, buffers>> /\ UNCHANGED setup
        /\ UNCHANGED <<driver_state, runner_status>> /\ UNCHANGED <<fdc_mode, busy>>
        /\ UNCHANGED <<call, result>> /\ pc' = "judge"
    BY <2>1 DEF isrvars, ring, controller, Goto
  <2>3. Transferring' => Transferring
    BY <2>2 DEF Transferring
  <2>4. Transferring => TAIL.status = "done"
    <3>1. SUFFICES ASSUME Transferring, TAIL.status # "done" PROVE FALSE
      OBVIOUS
    <3>2. head = tail
      BY <1>1, <1>3, <3>1, TailIsHead
    <3>3. QED
      BY <1>3, <2>1, <3>1, <3>2 DEF TransferOK, HEAD, TAIL
  <2>5. QED
    BY <1>1, <2>1, <2>2, <2>3, <2>4, SameBuffers, WaitedStep
<1>8. QED
  BY <1>4, <1>5, <1>6, <1>7

(* The switch on TAIL.                                                     *)
LEMMA JudgeData ==
    ASSUME DataInv, WriteInv', Judge
    PROVE  PhaseOK' /\ RestOK' /\ LiveOK'
<1>1. pc = "judge" /\ pc' = "runner" /\ pc \in Writing /\ pc' \in Writing
  BY DEF Judge, Writing
<1>2. /\ WriteInv /\ RingOK /\ MapsOK /\ HardOK /\ TransferOK /\ RunnerOK
      /\ ~Closing /\ ~Stalled
      /\ driver_state \in {"writing", "deleting"}
  BY <1>1, WritingFacts DEF DataInv, LiveOK
<1>3. /\ UNCHANGED <<call, result, driver_state, head, tail>>
      /\ UNCHANGED setup /\ UNCHANGED datavars
      /\ runner_status' = runner_status /\ UNCHANGED <<fdc_mode, busy>>
  BY DEF Judge, controller
<1>4. Due' = Due /\ (Unfilled' => Unfilled) /\ (Transferring' <=> Transferring) /\ ~Closing'
  BY <1>1, <1>3 DEF Due, datavars, Unfilled, Transferring, Closing
<1>5. buffers \in [Ring -> Buffer] /\ head \in Ring /\ tail \in Ring
  BY <1>2, WriteTypes
<1>6. CASE TAIL.status = "done" /\ bytes' = "ok" /\ UNCHANGED buffers
  <2>1. HEAD' = HEAD /\ TAIL' = TAIL
    BY <1>3, <1>6 DEF HEAD, TAIL
  <2>2. RunnerOK'
    BY <1>1, <1>2, <1>3, <1>4, <1>6, <2>1 DEF RunnerOK
  <2>3. QED
    BY <1>1, <1>3, <1>4, <1>6, <2>2, SameBuffers, WorkStep
<1>7. CASE HardError
  <2>1. TAIL.status = "error" /\ TAIL.hard_error_map # {} /\ bytes' = "EIO" /\ UNCHANGED buffers
    BY <1>7 DEF HardError
  <2>2. HEAD' = HEAD /\ TAIL' = TAIL
    BY <1>3, <2>1 DEF HEAD, TAIL
  <2>3. head = tail /\ HEAD = TAIL /\ ~Transferring
    BY <1>1, <1>2, <2>1, TailIsHead DEF RunnerOK, HEAD, TAIL
  <2>4. RunnerOK'
    BY <1>1, <1>2, <1>3, <1>4, <2>1, <2>2, <2>3 DEF RunnerOK
  <2>5. QED
    BY <1>1, <1>3, <1>4, <2>1, <2>4, SameBuffers, WorkStep
<1>8. CASE /\ TAIL.status # "done"
           /\ TAIL.status = "error" => TAIL.hard_error_map = {}
           /\ bytes' = "EAGAIN"
           /\ buffers' = [buffers EXCEPT ![tail].status = "waiting"]
  <2>1. head = tail /\ HEAD = TAIL /\ ~Transferring
    BY <1>1, <1>2, <1>8, TailIsHead DEF RunnerOK, HEAD, TAIL
  <2> DEFINE b == [buffers[head] EXCEPT !.status = "waiting"]
  <2>2. SameMaps(b, HEAD) /\ b.status = "waiting"
    BY <1>5 DEF Buffer, SameMaps, HEAD
  <2>3. buffers' = [buffers EXCEPT ![head] = b]
    BY <1>8, <2>1
  <2> HIDE DEF b
  <2>4. \A i \in Ring : buffers'[i] = IF i = head THEN b ELSE buffers[i]
    BY <1>5, <2>3
  <2>5. Alike
    BY <2>2, <2>4 DEF Alike, SameMaps, HEAD
  <2>6. HEAD'.status = "waiting" /\ TAIL'.status = "waiting"
    BY <1>3, <1>5, <2>1, <2>2, <2>4 DEF HEAD, TAIL
  <2>7. SetUp => HEAD.hard_error_map = {} \/ runner_status = "running"
    BY <1>2, <1>8, <2>1 DEF HardOK, RingOK, MapsOK
  <2>8. RunnerOK'
    BY <1>1, <1>2, <1>3, <1>4, <1>8, <2>1, <2>6 DEF RunnerOK
  <2>9. /\ buffers'[head].status = "waiting" /\ buffers[head].status # "done"
    BY <1>3, <1>8, <2>1, <2>6 DEF HEAD
  <2>10. QED
    BY <1>1, <1>3, <1>4, <2>1, <2>5, <2>7, <2>8, <2>9, WorkStep
<1>9. QED
  BY <1>6, <1>7, <1>8 DEF Judge

(* The runner is stopped.  HEAD is not among the buffers being written, so *)
(* that it is not taken for done.                                          *)
LEMMA RunnerData ==
    ASSUME DataInv, WriteInv', RunnerAborting \/ RunnerEot
    PROVE  PhaseOK' /\ RestOK' /\ (Live' => LiveOK')
<1>1. pc = "runner" /\ pc \in Writing
  BY DEF RunnerAborting, RunnerEot, Writing
<1>2. /\ WriteInv /\ PhaseOK /\ RunnerOK /\ ~Closing
      /\ driver_state \in {"writing", "deleting"} /\ driver_state = WantedState
  BY <1>1, WritingFacts DEF DataInv, LiveOK
<1>3. buffers \in [Ring -> Buffer] /\ head \in Ring /\ tail \in Ring
      /\ runner_status \in RunnerStates
  BY <1>2, WriteTypes
<1>4. CASE RunnerAborting
  <2>1. /\ runner_status = "aborting" /\ ControllerQuiet
        /\ runner_status' = "idle"
        /\ (Goto("fill") /\ UNCHANGED datavars) \/ Failed
        /\ UNCHANGED <<head, tail>> /\ UNCHANGED setup /\ UNCHANGED driver_state
        /\ buffers' = [buffers EXCEPT ![head].status = IF @ = WantedState
                                                       THEN "done" ELSE @]
    BY <1>4 DEF RunnerAborting, ftape_dumb_stop, FreeHead
  <2>2. ~Transferring'
    BY <2>1, QuietType
  <2>3. CASE Failed
    BY <1>2, <2>1, <2>2, <2>3, FailedData
  <2>4. CASE Goto("fill") /\ UNCHANGED datavars
    <3>1. /\ UNCHANGED <<call, result, bytes>> /\ pc' = "fill" /\ pc' \in Writing
      BY <2>4 DEF Goto, Writing
    <3>2. HEAD.status # WantedState
      BY <1>2, <2>1 DEF RunnerOK
    <3>3. buffers' = buffers
      <4> DEFINE b == [buffers[head] EXCEPT !.status = buffers[head].status]
      <4>1. buffers' = [buffers EXCEPT ![head] = b]
        BY <2>1, <3>2 DEF HEAD
      <4>2. b = buffers[head]
        BY <1>3 DEF Buffer
      <4>3. QED
        BY <1>3, <4>1, <4>2
    <3>4. Due' = Due /\ (Unfilled' => Unfilled) /\ ~Closing'
      BY <1>1, <2>4, <3>1 DEF Due, datavars, Unfilled, Closing
    <3>5. HEAD' = HEAD /\ TAIL' = TAIL
      BY <2>1, <3>3 DEF HEAD, TAIL
    <3>6. RunnerOK'
      BY <1>1, <1>2, <2>1, <2>2, <3>1, <3>4, <3>5 DEF RunnerOK
    <3>7. QED
      BY <1>1, <2>1, <2>2, <2>4, <3>1, <3>3, <3>4, <3>6, SameBuffers, WorkStep
  <2>5. QED
    BY <2>1, <2>3, <2>4
<1>5. CASE RunnerEot
  <2>1. /\ runner_status # "aborting"
        /\ \/ /\ ftape_handle_logical_eot /\ Goto("fill") /\ UNCHANGED datavars
           \/ Failed
        /\ UNCHANGED <<ring, setup, controller, driver_state>>
    BY <1>5 DEF RunnerEot
  <2>2. /\ UNCHANGED <<head, tail, buffers>> /\ UNCHANGED setup
        /\ UNCHANGED driver_state /\ UNCHANGED <<fdc_mode, busy>>
    BY <2>1 DEF ring, controller
  <2>3. Transferring' <=> Transferring
    BY <2>2 DEF Transferring
  <2>4. CASE Failed
    BY <1>2, <2>2, <2>4, FailedData
  <2>5. CASE ftape_handle_logical_eot /\ Goto("fill") /\ UNCHANGED datavars
    <3>1. /\ UNCHANGED <<call, result, bytes>> /\ pc' = "fill" /\ pc' \in Writing
      BY <2>5 DEF Goto, Writing
    <3>2. /\ runner_status' \in {"idle", "running"}
          /\ runner_status = "running" => runner_status' = "running"
      BY <1>2, <1>3, <2>1, <2>5 DEF RunnerOK, RunnerStates, ftape_handle_logical_eot
    <3>3. Due' = Due /\ (Unfilled' => Unfilled) /\ ~Closing'
      BY <1>1, <2>5, <3>1 DEF Due, datavars, Unfilled, Closing
    <3>4. HEAD' = HEAD /\ TAIL' = TAIL
      BY <2>2 DEF HEAD, TAIL
    <3>5. RunnerOK'
      BY <1>1, <1>2, <2>2, <2>3, <3>1, <3>2, <3>3, <3>4 DEF RunnerOK
    <3>6. QED
      BY <1>1, <2>2, <2>3, <2>5, <3>1, <3>2, <3>3, <3>5, SameBuffers, WorkStep
  <2>6. QED
    BY <2>1, <2>4, <2>5
<1>6. QED
  BY <1>4, <1>5

(* The loop of ftape_write_segment() goes round.                           *)
LEMMA AgainData ==
    ASSUME DataInv, WriteInv', Again
    PROVE  PhaseOK' /\ RestOK' /\ (Live' => LiveOK')
<1>1. pc = "again" /\ pc \in Writing
  BY DEF Again, Writing
<1>2. /\ WriteInv /\ PhaseOK /\ RunnerOK /\ ~Closing /\ driver_state # "waiting"
  BY <1>1, WritingFacts DEF DataInv, LiveOK
<1>3. /\ (Goto("wait") /\ UNCHANGED datavars) \/ Failed
      /\ UNCHANGED <<head, tail, buffers>> /\ UNCHANGED setup
      /\ UNCHANGED <<driver_state, runner_status>> /\ UNCHANGED <<fdc_mode, busy>>
  BY DEF Again, ring, controller
<1>4. Transferring' <=> Transferring
  BY <1>3 DEF Transferring
<1>5. CASE Failed
  BY <1>2, <1>3, <1>5, FailedData
<1>6. CASE Goto("wait") /\ UNCHANGED datavars
  <2>1. UNCHANGED <<call, result, bytes>> /\ pc' = "wait" /\ pc' \in Writing
    BY <1>6 DEF Goto, Writing
  <2>2. Due' = Due /\ (Unfilled' => Unfilled) /\ ~Closing'
    BY <1>1, <1>6, <2>1 DEF Due, datavars, Unfilled, Closing
  <2>3. HEAD' = HEAD /\ TAIL' = TAIL
    BY <1>3 DEF HEAD, TAIL
  <2>4. RunnerOK'
    BY <1>1, <1>2, <1>3, <1>4, <2>1, <2>2, <2>3 DEF RunnerOK
  <2>5. QED
    BY <1>1, <1>3, <1>4, <1>6, <2>1, <2>2, <2>4, SameBuffers, WorkStep
<1>7. QED
  BY <1>3, <1>5, <1>6

-----------------------------------------------------------------------------
(* The queue grows                                                          *)

(* Two buffers of the ring are not followed by the same one.               *)
LEMMA NextDiffers ==
    ASSUME NEW i \in Ring, NEW j \in Ring, i # j
    PROVE  next(i) # next(j)
<1>1. \A k \in Ring : next(k) = IF k = NrBuffers - 1 THEN 0 ELSE k + 1
  BY NrBuffersAssumption DEF Ring, next
<1>2. QED
  BY <1>1, NrBuffersAssumption DEF Ring

(* The caller's data goes into TAIL, behind all that is queued.            *)
LEMMA FilledData ==
    ASSUME DataInv, WriteInv', Fill, TAIL.status = "done"
    PROVE  PhaseOK' /\ RestOK' /\ LiveOK'
<1>1. pc = "fill" /\ pc' = "start" /\ pc \in Writing /\ pc' \in Writing
  BY DEF Fill, Writing
<1>2. /\ WriteInv /\ PhaseOK
      /\ RingOK /\ SegOK /\ MapsOK /\ HardOK /\ TransferOK /\ RunnerOK /\ DataOK
      /\ ~Closing /\ ~Stalled /\ driver_state # "waiting"
      /\ driver_state \in {"writing", "deleting"}
  BY <1>1, WritingFacts DEF DataInv, LiveOK
<1> DEFINE b == [buffers[tail] EXCEPT !.segment_id = call.segment,
                                      !.status = "waiting", !.moved = {}]
<1>3. /\ UNCHANGED <<call, result, head>> /\ UNCHANGED setup
      /\ UNCHANGED <<runner_status, driver_state>> /\ UNCHANGED <<fdc_mode, busy>>
      /\ UNCHANGED <<tape, accepted, written>>
      /\ buffers' = [buffers EXCEPT ![tail] = b]
      /\ tail' = next(tail) /\ payload' = [payload EXCEPT ![tail] = written]
      /\ bytes' = "ok"
  BY DEF Fill, controller
<1>4. /\ buffers \in [Ring -> Buffer] /\ head \in Ring /\ tail \in Ring
      /\ payload \in [Ring -> Payloads] /\ call.segment \in Segments
      /\ accepted \in [Segments -> Payloads] /\ Segments \subseteq Nat
      /\ \A i \in Ring : buffers[i].segment_id \in Segments
      /\ old_segment_id \in Segments \cup {None}
  BY <1>2, WriteTypes
<1>5. b.segment_id = call.segment /\ b.status = "waiting" /\ b.moved = {}
  BY <1>4 DEF Buffer
<1> HIDE DEF b
<1>6. /\ \A i \in Ring : buffers'[i] = IF i = tail THEN b ELSE buffers[i]
      /\ \A i \in Ring : payload'[i] = IF i = tail THEN written ELSE payload[i]
  BY <1>3, <1>4
<1>7. Unfilled /\ ~Unfilled' /\ ~Closing' /\ ~Stalled'
  BY <1>1, <1>3 DEF Unfilled, Closing, Stalled
<1>8. ~Queued(tail)
  <2>1. CASE head = tail
    BY <1>2, <1>4, <2>1, HeadQueued DEF HEAD, TAIL
  <2>2. CASE head # tail
    BY <1>4, <2>2, BetweenFacts DEF Queued
  <2>3. QED
    BY <2>1, <2>2
<1>9. HEAD'.status # "done"
  BY <1>2, <1>3, <1>4, <1>5, <1>6 DEF RingOK, HEAD, TAIL
<1>10. \A i \in Ring : Queued(i)' <=> i = tail \/ Queued(i)
  <2>1. SUFFICES ASSUME NEW i \in Ring PROVE Queued(i)' <=> i = tail \/ Queued(i)
    OBVIOUS
  <2>2. Queued(i)' <=> Between(head, i, next(tail)) \/ head = next(tail)
    BY <1>3, <1>9 DEF Queued
  <2>3. head = tail => ~Queued(i)
    BY <1>4, BetweenFacts DEF Queued, HEAD, TAIL
  <2>4. CASE next(tail) # head
    <3>1. Between(head, i, next(tail)) <=> i = tail \/ Between(head, i, tail)
      BY <1>4, <2>4, BetweenFacts
    <3>2. Between(head, i, tail) <=> Queued(i)
      BY <1>4, <2>3, BetweenFacts DEF Queued
    <3>3. QED
      BY <2>2, <2>4, <3>1, <3>2
  <2>5. CASE next(tail) = head
    <3>1. i = tail \/ Between(head, i, tail)
      BY <1>4, <2>5, BetweenFacts
    <3>2. QED
      BY <2>2, <2>5, <3>1 DEF Queued
  <2>6. QED
    BY <2>4, <2>5
<1>11. \A i \in Ring : Queued(i) => /\ buffers[i].segment_id < call.segment
                                   /\ buffers[i].segment_id # call.segment
  <2>1. SUFFICES ASSUME NEW i \in Ring, Queued(i)
                 PROVE  /\ buffers[i].segment_id < call.segment
                        /\ buffers[i].segment_id # call.segment
    OBVIOUS
  <2>2. buffers[i].segment_id <= call.segment /\ buffers[i].segment_id # call.segment
    BY <1>2, <1>7, <2>1 DEF SegOK
  <2>3. buffers[i].segment_id \in Nat /\ call.segment \in Nat
    BY <1>4
  <2>4. QED
    BY <2>2, <2>3
<1>12. old_segment_id < call.segment /\ old_segment_id # call.segment
  <2>1. old_segment_id <= call.segment /\ old_segment_id # call.segment
    BY <1>2, <1>7 DEF SegOK
  <2>2. old_segment_id \in Int /\ call.segment \in Int
    <3>1. old_segment_id \in Nat \/ old_segment_id = None
      BY <1>4
    <3>2. None \in Int
      BY DEF None
    <3>3. call.segment \in Nat
      BY <1>4
    <3>4. QED
      BY <3>1, <3>2, <3>3
  <2>3. QED
    BY <2>1, <2>2
<1>13. IF head = tail THEN HEAD' = b /\ HEAD.status = "done" ELSE HEAD' = HEAD
  BY <1>3, <1>4, <1>6 DEF HEAD, TAIL
<1>14. RingOK'
  <2>1. HEAD'.status \in {"waiting", driver_state', "error", "done"}
    BY <1>2, <1>3, <1>5, <1>13 DEF RingOK
  <2>2. \A i \in Ring : i # head' /\ Queued(i)' => buffers'[i].status = "waiting"
    BY <1>2, <1>3, <1>5, <1>6, <1>10 DEF RingOK
  <2>3. \A i \in Ring : i # head' /\ ~ Queued(i)' => buffers'[i].status = "done" \/ Stalled'
    BY <1>2, <1>3, <1>6, <1>10 DEF RingOK
  <2>4. QED
    BY <1>9, <2>1, <2>2, <2>3 DEF RingOK
<1>15. SegOK'
  <2>1. \A i \in Ring : Queued(i)' =>
           /\ buffers'[i].segment_id <= call'.segment
           /\ buffers'[i].segment_id = call'.segment => payload'[i] = written' /\ ~Unfilled'
    <3>1. SUFFICES ASSUME NEW i \in Ring, Queued(i)'
                   PROVE  /\ buffers'[i].segment_id <= call.segment
                          /\ buffers'[i].segment_id = call.segment => payload'[i] = written
      BY <1>3, <1>7
    <3>2. call.segment \in Nat
      BY <1>4
    <3>3. CASE i = tail
      BY <1>4, <1>5, <1>6, <3>2, <3>3
    <3>4. CASE i # tail
      <4>1. buffers'[i] = buffers[i] /\ Queued(i)
        BY <1>6, <1>10, <3>1, <3>4
      <4>2. buffers[i].segment_id \in Nat
        BY <1>4
      <4>3. buffers[i].segment_id < call.segment
        BY <1>11, <4>1
      <4>4. buffers[i].segment_id <= call.segment /\ buffers[i].segment_id # call.segment
        BY <3>2, <4>2, <4>3
      <4>5. QED
        BY <4>1, <4>4
    <3>5. QED
      BY <3>3, <3>4
  <2>2. \A i, j \in Ring :
           Queued(i)' /\ Queued(j)' /\ buffers'[i].segment_id = buffers'[j].segment_id => i = j
    <3>1. SUFFICES ASSUME NEW i \in Ring, NEW j \in Ring, Queued(i)', Queued(j)',
                          buffers'[i].segment_id = buffers'[j].segment_id, i # j
                   PROVE  FALSE
      OBVIOUS
    <3>2. CASE i = tail
      BY <1>4, <1>5, <1>6, <1>10, <1>11, <3>1, <3>2
    <3>3. CASE j = tail
      BY <1>4, <1>5, <1>6, <1>10, <1>11, <3>1, <3>3
    <3>4. CASE i # tail /\ j # tail
      BY <1>2, <1>6, <1>10, <3>1, <3>4 DEF SegOK
    <3>5. QED
      BY <3>2, <3>3, <3>4
  <2>3. \A i \in Ring : i # head' /\ Queued(i)' =>
           buffers'[i].segment_id # old_segment_id' /\ buffers'[i].moved = {}
    BY <1>2, <1>3, <1>4, <1>5, <1>6, <1>10, <1>12 DEF SegOK, setup, None
  <2>4. /\ old_segment_id' <= call'.segment
        /\ old_segment_id' = call'.segment => ~Unfilled'
    BY <1>2, <1>3, <1>7 DEF SegOK, setup
  <2>5. QED
    BY <2>1, <2>2, <2>3, <2>4 DEF SegOK
<1>16. ASSUME head # tail PROVE MapsOK' /\ HardOK' /\ TransferOK' /\ RunnerOK'
  <2>1. HEAD' = HEAD
    BY <1>13, <1>16
  <2>2. SetUp' <=> SetUp
    BY <1>3, <2>1 DEF SetUp, Retrying, setup
  <2>3. Transferring' <=> Transferring
    BY <1>3 DEF Transferring
  <2>4. MapsOK' /\ HardOK' /\ TransferOK'
    BY <1>2, <1>3, <2>1, <2>2, <2>3 DEF MapsOK, HardOK, TransferOK, Closing
  <2>5. bytes = "ok"
    BY <1>1, <1>2, <1>16, WriteTypes DEF RunnerOK, WriteInv, ProcTypeOK
  <2>6. RunnerOK'
    BY <1>1, <1>2, <1>3, <1>7, <2>1, <2>5 DEF RunnerOK
  <2>7. QED
    BY <2>4, <2>6
<1>17. ASSUME head = tail PROVE MapsOK' /\ HardOK' /\ TransferOK' /\ RunnerOK'
  <2>1. HEAD' = b /\ HEAD.status = "done"
    BY <1>13, <1>17
  <2>2. ~Transferring /\ ~Transferring'
    BY <1>2, <1>3, <2>1 DEF Transferring, TransferOK
  <2>3. ~SetUp'
    BY <1>3, <1>4, <1>5, <1>12, <2>1 DEF SetUp, Retrying, setup, None
  <2>4. MapsOK' /\ HardOK' /\ TransferOK'
    BY <1>5, <2>1, <2>2, <2>3 DEF MapsOK, HardOK, TransferOK
  <2>5. bytes = "ok"
    BY <1>1, <1>2, <2>1, WriteTypes DEF RunnerOK, WriteInv, ProcTypeOK
  <2>6. RunnerOK'
    BY <1>1, <1>2, <1>3, <1>5, <1>7, <1>17, <2>1, <2>5 DEF RunnerOK
  <2>7. QED
    BY <2>4, <2>6
<1>18. DataOK'
  <2>1. /\ \A seg \in Segments : seg # call.segment => Due'[seg] = Due[seg]
        /\ Due'[call.segment] = written
    BY <1>1, <1>3, <1>4 DEF Due
  <2>2. HEAD'.status # "done" /\ HEAD'.moved # {} =>
           /\ tape'[HEAD'.segment_id].data = payload'[head']
           /\ HEAD'.moved \subseteq tape'[HEAD'.segment_id].blocks
    BY <1>2, <1>3, <1>4, <1>5, <1>6, <1>13 DEF DataOK
  <2>3. \A i \in Ring : Queued(i)' => Due'[buffers'[i].segment_id] \in {0, payload'[i]}
    <3>1. SUFFICES ASSUME NEW i \in Ring, Queued(i)'
                   PROVE  Due'[buffers'[i].segment_id] \in {0, payload'[i]}
      OBVIOUS
    <3>2. CASE i = tail
      BY <1>5, <1>6, <2>1, <3>2
    <3>3. CASE i # tail
      <4>1. Queued(i) /\ buffers[i].segment_id # call.segment
        BY <1>4, <1>10, <1>11, <3>1, <3>3
      <4>2. Due[buffers[i].segment_id] \in {0, payload[i]}
        BY <1>2, <4>1 DEF DataOK
      <4>3. buffers'[i] = buffers[i] /\ payload'[i] = payload[i]
        BY <1>6, <3>3
      <4>4. Due'[buffers[i].segment_id] = Due[buffers[i].segment_id]
        BY <1>4, <2>1, <4>1
      <4>5. QED
        BY <4>2, <4>3, <4>4
    <3>4. QED
      BY <3>2, <3>3
  <2>4. \A seg \in Segments : Due'[seg] # 0 =>
           \/ OnTape(seg, Due[seg])'
           \/ \E i \in Ring : /\ Queued(i)' /\ payload'[i] = Due'[seg]
                              /\ buffers'[i].segment_id = seg
    <3>1. SUFFICES ASSUME NEW seg \in Segments, Due'[seg] # 0
                   PROVE  \/ OnTape(seg, Due[seg])'
                          \/ \E i \in Ring : /\ Queued(i)' /\ payload'[i] = Due'[seg]
                                             /\ buffers'[i].segment_id = seg
      OBVIOUS
    <3>2. CASE seg = call.segment
      BY <1>4, <1>5, <1>6, <1>10, <2>1, <3>2
    <3>3. CASE seg # call.segment
      <4>1. Due'[seg] = Due[seg]
        BY <2>1, <3>3
      <4>2. OnTape(seg, Due[seg])' <=> OnTape(seg, Due[seg])
        BY <1>3, <4>1 DEF OnTape
      <4>3. \/ OnTape(seg, Due[seg])
            \/ \E i \in Ring : /\ Queued(i) /\ payload[i] = Due[seg]
                               /\ buffers[i].segment_id = seg
        BY <1>2, <3>1, <4>1 DEF DataOK
      <4>4. QED
        BY <1>6, <1>8, <1>10, <4>1, <4>2, <4>3
    <3>4. QED
      BY <3>2, <3>3
  <2>5. QED
    BY <2>2, <2>3, <2>4 DEF DataOK
<1>19. PhaseOK' /\ RestOK'
  BY <1>1, <1>2, <1>3, PhaseGoesOn
<1>20. MapsOK' /\ HardOK' /\ TransferOK' /\ RunnerOK'
  BY <1>16, <1>17
<1>21. QED
  BY <1>14, <1>15, <1>18, <1>19, <1>20 DEF LiveOK

(* Without a free buffer there is nothing to be filled.                    *)
LEMMA FillData ==
    ASSUME DataInv, WriteInv', Fill
    PROVE  PhaseOK' /\ RestOK' /\ LiveOK'
<1>1. CASE TAIL.status = "done"
  BY <1>1, FilledData
<1>2. CASE TAIL.status # "done"
  <2>1. pc = "fill" /\ pc' = "start" /\ pc \in Writing /\ pc' \in Writing
    BY DEF Fill, Writing
  <2>2. RunnerOK /\ ~Closing
    BY <2>1, WritingFacts DEF LiveOK
  <2>3. /\ UNCHANGED <<call, result, driver_state, head, tail>>
        /\ UNCHANGED setup /\ UNCHANGED datavars
        /\ UNCHANGED <<runner_status, buffers, bytes>> /\ UNCHANGED <<fdc_mode, busy>>
    BY <1>2 DEF Fill, controller, datavars
  <2>4. bytes # "ok"
    BY <1>2, <2>1, <2>2 DEF RunnerOK
  <2>5. /\ Due' = Due /\ (Unfilled' => Unfilled) /\ (Transferring' <=> Transferring)
        /\ ~Closing'
    BY <2>1, <2>3, <2>4 DEF Due, datavars, Unfilled, Transferring, Closing
  <2>6. HEAD' = HEAD /\ TAIL' = TAIL
    BY <2>3 DEF HEAD, TAIL
  <2>7. RunnerOK'
    BY <2>1, <2>2, <2>3, <2>4, <2>5, <2>6 DEF RunnerOK
  <2>8. QED
    BY <2>1, <2>3, <2>5, <2>7, SameBuffers, WorkStep
<1>3. QED
  BY <1>1, <1>2

-----------------------------------------------------------------------------
(* The calls                                                                *)

(* The next segment of the stream: it is beyond all that is queued.        *)
LEMMA WriteOnData ==
    ASSUME DataInv, WriteInv', CallWrite, Orderly, driver_state # "waiting"
    PROVE  PhaseOK' /\ RestOK' /\ LiveOK'
<1>1. /\ pc = "idle" /\ result # "EIO" /\ result' = "none"
      /\ written' = written + 1
      /\ UNCHANGED isrvars /\ UNCHANGED <<payload, tape>>
  BY DEF CallWrite
<1>2. PICK r \in Requests :
         /\ call' = r
         /\ accepted' = [accepted EXCEPT ![r.segment] = 0]
         /\ driver_state = StateFor(r.mode) => pc' = "wait"
  BY DEF CallWrite
<1>3. /\ r \in [op : {"write"}, segment : Segments, mode : WriteModes]
      /\ \/ r.segment = call.segment + 1
         \/ r.segment > call.segment
      /\ StateFor(r.mode) = driver_state
      /\ call.mode = "FT_WR_ASYNC"
  BY DEF Requests, Orderly
<1>4. /\ WriteInv /\ PhaseOK /\ LiveOK
      /\ RingOK /\ SegOK /\ MapsOK /\ HardOK /\ TransferOK /\ RunnerOK /\ DataOK
  BY <1>1 DEF DataInv, Live, LiveOK
<1>5. /\ r.op = "write" /\ r.segment \in Segments /\ pc' = "wait"
      /\ call.segment \in Segments /\ Segments \subseteq Nat
      /\ accepted \in [Segments -> Payloads] /\ head \in Ring /\ tail \in Ring
      /\ \A i \in Ring : buffers[i].segment_id \in Segments
      /\ old_segment_id \in Segments \cup {None}
  BY <1>2, <1>3, <1>4, WriteTypes
<1>6. driver_state = "writing"
  BY <1>3, <1>4 DEF PhaseOK, WantedState, StateFor
<1>7. ~Closing /\ ~Closing' /\ ~Stalled /\ ~Stalled'
  BY <1>3, <1>5 DEF Closing, Stalled
<1>8. /\ UNCHANGED <<head, tail, buffers, runner_status, driver_state>>
      /\ UNCHANGED <<old_driver_state, old_segment_id>> /\ UNCHANGED <<fdc_mode, busy>>
  BY <1>1 DEF isrvars, ring, setup, controller
<1>9. /\ HEAD' = HEAD /\ TAIL' = TAIL /\ (SetUp' <=> SetUp)
      /\ (Transferring' <=> Transferring)
      /\ \A i \in Ring : Queued(i)' <=> Queued(i)
  BY <1>8 DEF HEAD, TAIL, SetUp, Retrying, Transferring, Queued
<1>10. \A s \in Segments : s <= call.segment => s <= r.segment /\ s # r.segment
  <2>1. SUFFICES ASSUME NEW s \in Segments, s <= call.segment
                 PROVE  s <= r.segment /\ s # r.segment
    OBVIOUS
  <2>2. r.segment \in Nat /\ call.segment \in Nat /\ s \in Nat
    BY <1>5
  <2>3. r.segment = call.segment + 1 \/ r.segment > call.segment
    BY <1>3
  <2>4. QED
    BY <2>1, <2>2, <2>3
<1>11. RingOK'
  BY <1>4, <1>7, <1>8, <1>9 DEF RingOK
<1>12. SegOK'
  <2>1. \A i \in Ring : Queued(i)' =>
           /\ buffers'[i].segment_id <= call'.segment
           /\ buffers'[i].segment_id # call'.segment
    BY <1>2, <1>4, <1>5, <1>8, <1>9, <1>10 DEF SegOK
  <2>2. old_segment_id <= r.segment /\ old_segment_id # r.segment
    <3>1. CASE old_segment_id = None
      <4>1. r.segment \in Nat
        BY <1>5
      <4>2. QED
        BY <3>1, <4>1 DEF None
    <3>2. CASE old_segment_id \in Segments
      BY <1>4, <1>10, <3>2 DEF SegOK
    <3>3. QED
      BY <1>5, <3>1, <3>2
  <2>3. \A i, j \in Ring :
           Queued(i)' /\ Queued(j)' /\ buffers'[i].segment_id = buffers'[j].segment_id => i = j
    BY <1>4, <1>8, <1>9 DEF SegOK
  <2>4. \A i \in Ring : i # head' /\ Queued(i)' =>
           buffers'[i].segment_id # old_segment_id' /\ buffers'[i].moved = {}
    BY <1>4, <1>8, <1>9 DEF SegOK
  <2>5. QED
    BY <1>2, <1>8, <2>1, <2>2, <2>3, <2>4 DEF SegOK
<1>13. MapsOK'
  BY <1>4, <1>9 DEF MapsOK
<1>14. HardOK' /\ TransferOK'
  BY <1>4, <1>6, <1>7, <1>8, <1>9 DEF HardOK, TransferOK
<1>15. RunnerOK'
  BY <1>4, <1>5, <1>6, <1>7, <1>8, <1>9 DEF RunnerOK
<1>16. DataOK'
  <2>1. /\ \A seg \in Segments : Due[seg] = accepted[seg]
        /\ \A seg \in Segments : Due'[seg] = IF seg = r.segment THEN 0 ELSE Due[seg]
    BY <1>1, <1>2, <1>5 DEF Due
  <2>2. HEAD'.status # "done" /\ HEAD'.moved # {} =>
           /\ tape'[HEAD'.segment_id].data = payload'[head']
           /\ HEAD'.moved \subseteq tape'[HEAD'.segment_id].blocks
    BY <1>1, <1>4, <1>8, <1>9 DEF DataOK
  <2>3. \A i \in Ring : Queued(i)' => Due'[buffers'[i].segment_id] \in {0, payload'[i]}
    BY <1>1, <1>4, <1>5, <1>8, <1>9, <2>1 DEF DataOK
  <2>4. \A seg \in Segments : Due'[seg] # 0 =>
           \/ OnTape(seg, Due[seg])'
           \/ \E i \in Ring : /\ Queued(i)' /\ payload'[i] = Due'[seg]
                              /\ buffers'[i].segment_id = seg
    BY <1>1, <1>4, <1>8, <1>9, <2>1 DEF DataOK, OnTape
  <2>5. QED
    BY <2>2, <2>3, <2>4 DEF DataOK
<1>17. PhaseOK'
  <2>1. WantedState' = driver_state /\ accepted'[call'.segment] = 0
    BY <1>2, <1>3, <1>5 DEF WantedState
  <2>2. QED
    BY <1>1, <1>2, <1>4, <1>5, <1>6, <1>8, <2>1 DEF PhaseOK, Writing, Flush
<1>18. RestOK'
  BY <1>6, <1>8 DEF RestOK
<1>19. QED
  BY <1>11, <1>12, <1>13, <1>14, <1>15, <1>16, <1>17, <1>18 DEF LiveOK

(* The first write after a flush or an abort.                              *)
LEMMA WriteFirstData ==
    ASSUME DataInv, CallWrite, driver_state = "waiting"
    PROVE  PhaseOK' /\ RestOK' /\ ~Live'
<1>1. /\ pc = "idle" /\ result # "EIO" /\ result' = "none"
      /\ UNCHANGED isrvars /\ UNCHANGED <<payload, tape>>
  BY DEF CallWrite
<1>2. PICK r \in Requests :
         /\ call' = r
         /\ accepted' = [accepted EXCEPT ![r.segment] = 0]
         /\ pc' \in {"wait", "check", "abort"}
         /\ pc' = "wait" => driver_state = StateFor(r.mode)
  BY DEF CallWrite
<1>3. r \in [op : {"write"}, segment : Segments, mode : WriteModes]
  BY DEF Requests
<1>4. WriteInv /\ PhaseOK /\ RestOK
  BY DEF DataInv
<1>5. accepted \in [Segments -> Payloads]
  BY <1>4, WriteTypes
<1>6. UNCHANGED driver_state /\ UNCHANGED <<fdc_mode, busy>>
  BY <1>1 DEF isrvars, controller
<1>7. Transferring' <=> Transferring
  BY <1>6 DEF Transferring
<1>8. pc' # "wait"
  BY <1>2 DEF StateFor
<1>9. /\ \A seg \in Segments : accepted'[seg] \in {0, accepted[seg]}
      /\ accepted'[call'.segment] = 0
  BY <1>2, <1>3, <1>5
<1>10. PhaseOK'
  BY <1>1, <1>2, <1>3, <1>4, <1>6, <1>7, <1>8, <1>9 DEF PhaseOK, Writing, Flush
<1>11. RestOK'
  BY <1>1, <1>4, <1>6, <1>9 DEF RestOK, OnTape
<1>12. QED
  BY <1>6, <1>10, <1>11 DEF Live

(* A flush.                                                                *)
LEMMA CallFlushData ==
    ASSUME DataInv, WriteInv', CallFlush
    PROVE  PhaseOK' /\ RestOK' /\ (Live' => LiveOK')
<1>1. /\ pc = "idle" /\ result # "EIO" /\ pc' = "check" /\ result' = "none"
      /\ call' = [call EXCEPT !.op = "flush"]
      /\ UNCHANGED isrvars /\ UNCHANGED datavars
  BY DEF CallFlush
<1>2. WriteInv /\ PhaseOK /\ RestOK /\ (Live => LiveOK)
  BY DEF DataInv
<1>3. call'.segment = call.segment /\ call'.mode = call.mode /\ call'.op = "flush"
  BY <1>1, <1>2 DEF WriteInv, ProcTypeOK
<1>4. /\ UNCHANGED <<head, tail, buffers, runner_status, driver_state>>
      /\ UNCHANGED <<old_driver_state, old_segment_id>> /\ UNCHANGED <<fdc_mode, busy>>
      /\ UNCHANGED <<payload, tape, written, accepted>>
  BY <1>1 DEF isrvars, ring, setup, controller, datavars
<1>5. /\ (Transferring' <=> Transferring) /\ WantedState' = WantedState
      /\ HEAD' = HEAD
  BY <1>3, <1>4 DEF Transferring, WantedState, HEAD
<1>6. PhaseOK'
  BY <1>1, <1>2, <1>3, <1>4, <1>5 DEF PhaseOK, Writing, Flush
<1>7. RestOK'
  BY <1>2, <1>4 DEF RestOK, OnTape
<1>8. ASSUME Live' PROVE LiveOK'
  <2>1. LiveOK /\ RunnerOK
    BY <1>1, <1>2, <1>4, <1>8 DEF Live, LiveOK
  <2>2. /\ Due' = Due /\ (Closing => Closing') /\ (Stalled => Stalled') /\ ~Unfilled'
    BY <1>1, <1>3, <1>4, <1>5 DEF Due, Closing, Stalled, Unfilled
  <2>3. RunnerOK'
    BY <1>1, <1>4, <1>5, <2>1, <2>2 DEF RunnerOK
  <2>4. Alike
    BY <1>4, SameBuffers
  <2>5. RingOK' /\ SegOK' /\ MapsOK' /\ HardOK' /\ TransferOK' /\ DataOK'
    BY <1>2, <1>3, <1>4, <1>5, <2>1, <2>2, <2>4, SteadyStep DEF Alike
  <2>6. QED
    BY <2>3, <2>5 DEF LiveOK
<1>9. QED
  BY <1>6, <1>7, <1>8

(* The caller gives up after an error: nothing was promised any more.      *)
LEMMA AbortCallData ==
    ASSUME DataInv, CallAbort \/ GiveUp
    PROVE  PhaseOK' /\ RestOK' /\ ~Live'
<1>1. WriteInv /\ PhaseOK
  BY DEF DataInv
<1>2. CASE CallAbort
  <2>1. /\ pc = "idle" /\ result = "EIO" /\ pc' = "give_up"
        /\ UNCHANGED <<call, result>> /\ UNCHANGED driver_state
        /\ UNCHANGED <<fdc_mode, busy>> /\ UNCHANGED <<tape, accepted>>
    BY <1>2 DEF CallAbort, Goto, controller, datavars
  <2>2. (Transferring' <=> Transferring) /\ WantedState' = WantedState
    BY <2>1 DEF Transferring, WantedState
  <2>3. PhaseOK'
    BY <1>1, <2>1, <2>2 DEF PhaseOK, Writing, Flush
  <2>4. RestOK'
    BY <1>1, <2>1 DEF PhaseOK, RestOK
  <2>5. QED
    BY <2>1, <2>3, <2>4 DEF Live
<1>3. CASE GiveUp
  <2>1. /\ pc = "give_up" /\ pc' = "idle" /\ result' = "none"
        /\ call' = call /\ driver_state' = "waiting" /\ ControllerQuiet
        /\ UNCHANGED <<tape, accepted>>
    BY <1>3 DEF GiveUp, AbortEnd, datavars
  <2>2. ~Transferring'
    BY <2>1, QuietType
  <2>3. \A s \in Segments : accepted'[s] = 0
    BY <1>1, <2>1 DEF PhaseOK
  <2>4. PhaseOK'
    BY <2>1, <2>2 DEF PhaseOK, Writing, Flush
  <2>5. RestOK'
    BY <2>3 DEF RestOK
  <2>6. QED
    BY <2>1, <2>4, <2>5 DEF Live
<1>4. QED
  BY <1>2, <1>3

(* The driver gets ready to write, with all buffers free; or fails to.     *)
LEMMA AbortData ==
    ASSUME DataInv, WriteInv', AbortForWrite
    PROVE  PhaseOK' /\ RestOK' /\ (Live' => LiveOK')
<1>1. /\ WriteInv /\ PhaseOK /\ RestOK
      /\ pc = "abort" /\ driver_state = "waiting" /\ call.op = "write"
  BY DEF DataInv, AbortForWrite, PhaseOK
<1>2. CASE /\ ControllerQuiet /\ runner_status' = "idle"
           /\ buffers' = [i \in Ring |-> [fdc_zap_buffer(buffers[i]) EXCEPT !.status = "done"]]
           /\ ftape_reset_buffer
           /\ driver_state' = WantedState
           /\ Goto("wait") /\ UNCHANGED datavars
  <2>1. /\ head' = 0 /\ tail' = 0 /\ old_segment_id' = None
        /\ pc' = "wait" /\ UNCHANGED <<call, bytes, result>>
        /\ UNCHANGED <<payload, tape, written, accepted>>
        /\ 0 \in Ring
    BY <1>2, NrBuffersAssumption DEF ftape_reset_buffer, Goto, datavars, Ring
  <2>2. ~Transferring'
    BY <1>2, QuietType
  <2>3. \A i \in Ring : buffers'[i].status = "done"
    BY <1>1, <1>2, WriteTypes DEF fdc_zap_buffer, Buffer
  <2>4. HEAD'.status = "done" /\ TAIL'.status = "done"
    BY <2>1, <2>3 DEF HEAD, TAIL
  <2>5. \A i \in Ring : ~Queued(i)'
    BY <2>1, <2>4, BetweenFacts DEF Queued
  <2>6. driver_state' \in {"writing", "deleting"} /\ WantedState' = driver_state'
    BY <1>2, <2>1 DEF WantedState, StateFor
  <2>7. PhaseOK'
    BY <1>1, <2>1, <2>6 DEF PhaseOK, Writing, Flush
  <2>8. RestOK'
    BY <2>6 DEF RestOK
  <2>9. RingOK'
    BY <2>1, <2>3, <2>4, <2>5 DEF RingOK
  <2>10. SegOK'
    <3>1. call'.segment \in Nat /\ None \in Int /\ None <= call'.segment
          /\ None # call'.segment
      <4>1. call.segment \in Nat
        BY <1>1, WriteTypes
      <4>2. QED
        BY <2>1, <4>1 DEF None
    <3>2. QED
      BY <2>1, <2>5, <3>1 DEF SegOK
  <2>11. MapsOK' /\ HardOK' /\ TransferOK'
    BY <2>2, <2>4 DEF MapsOK, HardOK, TransferOK
  <2>12. RunnerOK'
    BY <1>2, <2>1, <2>4 DEF RunnerOK
  <2>13. DataOK'
    <3>1. \A seg \in Segments : Due'[seg] = accepted[seg]
      BY <2>1 DEF Due
    <3>2. \A seg \in Segments : Due'[seg] # 0 => OnTape(seg, Due[seg])'
      BY <1>1, <2>1, <3>1 DEF RestOK, OnTape
    <3>3. QED
      BY <2>4, <2>5, <3>2 DEF DataOK
  <2>14. QED
    BY <2>7, <2>8, <2>9, <2>10, <2>11, <2>12, <2>13 DEF LiveOK
<1>3. CASE AbortEnd /\ driver_state' = "waiting" /\ Failed
  <2>1. ~Transferring'
    BY <1>3, QuietType DEF AbortEnd
  <2>2. QED
    BY <1>1, <1>3, <2>1, FailedData
<1>4. QED
  BY <1>2, <1>3 DEF AbortForWrite

-----------------------------------------------------------------------------
(* HEAD is set up                                                           *)

(* No more data blocks than sectors.                                       *)
LEMMA BlockAtMost ==
    ASSUME NEW seg, NEW s \in Nat
    PROVE  Block(seg, s) <= s
<1>1. IsFiniteSet(0 .. (s - 1)) /\ Cardinality(0 .. (s - 1)) = s
  BY FS_Interval
<1>2. /\ Cardinality((0 .. (s - 1)) \ BadSectors[seg]) <= Cardinality(0 .. (s - 1))
  BY <1>1, FS_Subset
<1>3. QED
  BY <1>1, <1>2 DEF Block

(* A buffer whose first cluster is still to be found.                      *)
Prepares(b) ==
    /\ b.soft_error_map = {} /\ b.hard_error_map = {}
    /\ OnCourse(b) /\ Resumable(b)
    /\ b.sector_offset = b.skip
    /\ BadSectors[b.segment_id] = Sectors =>
          b.bad_sector_map = Sectors \ {0} /\ b.sector_offset = 0

(* A segment that is set up for the first time,                            *)
LEMMA FreshPrepares ==
    ASSUME NEW b \in Buffer, NEW seg \in Segments, NEW c, c = setup_fresh(b, seg)
    PROVE  /\ c \in Buffer /\ Prepares(c)
           /\ c.segment_id = seg
           /\ c.moved = IF b.segment_id = seg THEN b.moved ELSE {}
<1> DEFINE a == [b EXCEPT !.retry = 0, !.skip = 0, !.short_start = 0]
<1>1. c = setup_segment(a, seg, 0, 0)
  BY DEF setup_fresh
<1>2. /\ a \in Buffer /\ a.skip = 0 /\ a.segment_id = b.segment_id /\ a.moved = b.moved
  BY FieldTypes DEF Buffer
<1> HIDE DEF a
<1>3. SkipOK(a)
  BY <1>2, SectorsAssumption DEF SkipOK, Good, Sectors
<1>4. OnCourse(c) /\ SkipOK(c)
  BY <1>1, <1>2, <1>3, FieldTypes, SetupSegmentMaps
<1>5. /\ c.segment_id = seg /\ c.sector_offset = 0
      /\ c.bad_sector_map = IF BadSectors[seg] = Sectors THEN Sectors \ {0}
                            ELSE BadSectors[seg]
      /\ c.skip = 0 /\ c.stray = 0
  BY <1>1, <1>2, SetupSegmentFields
<1>6. c.hard_error_map = {}
  BY <1>1, <1>2 DEF setup_segment, Buffer
<1>7. c.moved = IF b.segment_id = seg THEN b.moved ELSE {}
  <2>1. CASE a.segment_id = seg
    <3>1. c.moved = a.moved
      BY <1>1, <1>2, <2>1 DEF setup_segment, Buffer
    <3>2. QED
      BY <1>2, <2>1, <3>1
  <2>2. CASE a.segment_id # seg
    <3>1. c.moved = {}
      BY <1>1, <1>2, <2>2 DEF setup_segment, Buffer
    <3>2. QED
      BY <1>2, <2>2, <3>1
  <2>3. QED
    BY <2>1, <2>2
<1>8. c.soft_error_map = {}
  BY <1>1, <1>2 DEF setup_segment, Buffer
<1>9. c \in Buffer
  BY SetupFreshType
<1>10. Resumable(c)
  BY <1>4, <1>5, <1>8, <1>6 DEF Resumable
<1>11. QED
  BY <1>4, <1>5, <1>8, <1>9, <1>10, <1>6, <1>7 DEF Prepares

(* and one that is set up again.  No error was seen before the sector it   *)
(* goes on from, so that the map of the soft errors is emptied.            *)
LEMMA RetryPrepares ==
    ASSUME NEW b \in Buffer, Resumable(b), b.hard_error_map = {}, ~IgnoreEccErr,
           NEW last, NEW c, c = setup_retry(b, b.segment_id, 1, last)
    PROVE  /\ c \in Buffer /\ Prepares(c)
           /\ c.segment_id = b.segment_id /\ c.moved = b.moved
<1> DEFINE n == b.retry + 1
           m == IF b.skip > 0 THEN b.short_start ELSE 0
           a == [b EXCEPT !.retry = n, !.skip = b.skip, !.short_start = m]
<1>1. c = setup_segment(a, b.segment_id, b.skip, 1)
  BY DEF setup_retry, FastFail
<1>2. /\ n \in Int /\ m \in Flags /\ b.skip \in Offsets /\ b.segment_id \in Segments
      /\ b.soft_error_map \in SUBSET Sectors
  BY FieldTypes DEF Buffer, SectorMaps
<1> HIDE DEF n, m
<1>3. /\ a \in Buffer /\ SameMaps(a, b) /\ a.skip = b.skip
  BY <1>2 DEF Buffer, SameMaps
<1>4. a.soft_error_map = b.soft_error_map
  BY <1>3 DEF SameMaps
<1> HIDE DEF a
<1>5. SkipOK(a)
  BY <1>3, SameMapsKeep DEF Resumable
<1>6. OnCourse(c) /\ SkipOK(c)
  BY <1>1, <1>2, <1>3, <1>5, SetupSegmentMaps
<1>7. /\ c.segment_id = b.segment_id /\ c.sector_offset = b.skip
      /\ c.bad_sector_map = IF b.skip = 0 /\ BadSectors[b.segment_id] = Sectors
                            THEN Sectors \ {0} ELSE BadSectors[b.segment_id]
      /\ c.skip = b.skip /\ c.stray = b.stray
  <2>1. a.segment_id = b.segment_id /\ a.skip = b.skip /\ a.stray = b.stray
    BY <1>3 DEF SameMaps
  <2>2. c.segment_id = b.segment_id /\ c.sector_offset = b.skip
    BY <1>1, <1>3, SetupSegmentFields
  <2>3. c.skip = a.skip /\ c.stray = a.stray
    BY <1>1, <1>3, <2>1, SetupSegmentFields
  <2>4. c.bad_sector_map = IF b.skip = 0 /\ BadSectors[b.segment_id] = Sectors
                           THEN Sectors \ {0} ELSE BadSectors[b.segment_id]
    <3>1. CASE b.skip = 0 /\ BadSectors[b.segment_id] = Sectors
      BY <1>1, <1>3, <3>1 DEF setup_segment, Buffer
    <3>2. CASE ~(b.skip = 0 /\ BadSectors[b.segment_id] = Sectors)
      BY <1>1, <1>3, <3>2 DEF setup_segment, Buffer
    <3>3. QED
      BY <3>1, <3>2
  <2>5. QED
    BY <2>1, <2>2, <2>3, <2>4
<1>8. c.hard_error_map = {} /\ c.moved = b.moved
  <2>1. c.hard_error_map = a.hard_error_map
    BY <1>1, <1>3 DEF setup_segment, Buffer
  <2>2. a.segment_id = b.segment_id
    BY <1>3 DEF SameMaps
  <2>3. c.moved = a.moved
    BY <1>1, <1>3, <2>2 DEF setup_segment, Buffer
  <2>4. QED
    BY <1>3, <2>1, <2>3 DEF SameMaps
<1>9. c.soft_error_map = {}
  <2>1. c.soft_error_map = b.soft_error_map \cap (0 .. (Block(b.segment_id, b.skip) - 1))
    <3>1. c.soft_error_map = a.soft_error_map \cap (0 .. (Block(b.segment_id, b.skip) - 1))
      BY <1>1, <1>3 DEF setup_segment, Buffer
    <3>2. QED
      BY <1>4, <3>1
  <2>2. SUFFICES ASSUME NEW s \in b.soft_error_map,
                        s \in 0 .. (Block(b.segment_id, b.skip) - 1)
                 PROVE  FALSE
    BY <2>1
  <2>3. b.skip \in Nat
    BY <1>2, FieldTypes
  <2>4. s \in Nat /\ b.skip <= s
    BY <1>2, SectorsAssumption DEF Resumable, Sectors
  <2>5. Block(b.segment_id, b.skip) \in Nat /\ Block(b.segment_id, b.skip) <= b.skip
    BY <2>3, BlockType, BlockAtMost
  <2>6. QED
    BY <2>2, <2>3, <2>4, <2>5
<1>10. c \in Buffer
  BY <1>2, SetupRetryType
<1>11. Resumable(c)
  BY <1>6, <1>7, <1>9, <1>8 DEF Resumable
<1>12. QED
  BY <1>6, <1>7, <1>9, <1>10, <1>11, <1>8 DEF Prepares, Resumable

(* Either way the first cluster of a transfer is found.                    *)
LEMMA FirstCluster ==
    ASSUME NEW b \in Buffer, Prepares(b), NEW c, c = ftape_calc_next_cluster(b)
    PROVE  /\ UnderWay(c) /\ Resumable(c)
           /\ c.segment_id = b.segment_id /\ c.moved = b.moved
<1> DEFINE end   == b.sector_offset + b.remaining
           first == FirstIn(Sectors \ b.bad_sector_map, b.sector_offset, end)
           last  == FirstIn(b.bad_sector_map, first, end)
<1>1. /\ b.sector_offset \in Nat /\ b.remaining \in Nat /\ b.skip \in Nat
      /\ b.segment_id \in Segments
  BY FieldTypes DEF Buffer
<1>2. end \in Nat /\ b.sector_offset <= end
  BY <1>1
<1>3. c = [b EXCEPT !.sector_offset = first, !.remaining = end - first,
                    !.sector_count = last - first]
  BY DEF ftape_calc_next_cluster
<1>4. /\ first \in b.sector_offset .. end
      /\ \A t \in b.sector_offset .. end : t < first => t \notin Sectors \ b.bad_sector_map
  BY <1>1, <1>2, FirstInType
<1> HIDE DEF first, last, end
<1>5. /\ c.soft_error_map = b.soft_error_map /\ c.hard_error_map = b.hard_error_map
      /\ c.bad_sector_map = b.bad_sector_map /\ c.skip = b.skip /\ c.stray = b.stray
      /\ c.segment_id = b.segment_id /\ c.moved = b.moved
      /\ c.sector_offset = first
  BY <1>3 DEF Buffer
<1>6. OnCourse(c) /\ InCluster(c) /\ Further(c, b)
  BY CalcNextClusterMaps DEF Prepares
<1>7. SkipOK(c)
  BY <1>6, FurtherSkip DEF Prepares, Resumable
<1>8. c.skip <= c.sector_offset
  <2>1. b.sector_offset <= first /\ first \in Nat
    BY <1>1, <1>2, <1>4
  <2>2. QED
    BY <1>1, <1>5, <2>1 DEF Prepares
<1>9. ASSUME BadSectors[c.segment_id] = Sectors PROVE IsFake(c) /\ c.skip = 0
  <2>1. b.bad_sector_map = Sectors \ {0} /\ b.sector_offset = 0 /\ b.skip = 0
    BY <1>5, <1>9 DEF Prepares
  <2>2. 0 \in Sectors
    BY SectorsAssumption DEF Sectors
  <2>3. first = 0
    <3>1. SUFFICES ASSUME 0 < first PROVE FALSE
      BY <1>2, <1>4, <2>1
    <3>2. 0 \in b.sector_offset .. end
      BY <1>2, <2>1
    <3>3. QED
      BY <1>4, <2>1, <2>2, <3>1, <3>2
  <2>4. QED
    BY <1>5, <2>1, <2>3 DEF IsFake
<1>10. UnderWay(c)
  BY <1>5, <1>6, <1>8, <1>9 DEF UnderWay, Prepares
<1>11. Resumable(c)
  BY <1>5, <1>7, <1>9 DEF Resumable, Prepares
<1>12. QED
  BY <1>5, <1>10, <1>11

(* HEAD is set up for a transfer, for the first time or again.             *)
LEMMA HeadPrepares ==
    ASSUME WriteInv, MapsOK, Orderly, HEAD.status # "done",
           SetUp => HEAD.hard_error_map = {},
           NEW b, b = ftape_setup_new_segment(HEAD, HEAD.segment_id, 1)
    PROVE  /\ b \in Buffer /\ Prepares(b)
           /\ b.segment_id = HEAD.segment_id /\ b.moved = HEAD.moved
<1>1. HEAD \in Buffer /\ HEAD.segment_id \in Segments
  BY WriteTypes
<1>2. CASE SetUp
  <2>1. b = setup_retry(HEAD, HEAD.segment_id, 1, last_segment_skipped)
    BY <1>2 DEF SetUp, ftape_setup_new_segment
  <2>2. Resumable(HEAD) /\ HEAD.hard_error_map = {} /\ ~IgnoreEccErr
    BY <1>2 DEF MapsOK, Orderly
  <2>3. QED
    BY <1>1, <2>1, <2>2, RetryPrepares
<1>3. CASE ~SetUp
  <2>1. b = setup_fresh(HEAD, HEAD.segment_id)
    BY <1>3 DEF SetUp, ftape_setup_new_segment
  <2>2. QED
    BY <1>1, <2>1, FreshPrepares
<1>4. QED
  BY <1>2, <1>3

(* What ftape_start_writing() makes of HEAD.                               *)
LEMMA HeadStarts ==
    ASSUME WriteInv, MapsOK, Orderly, HEAD.status # "done",
           SetUp => HEAD.hard_error_map = {},
           NEW p, (\E mode : p \in StartTape(Prepared(mode))) \/ p \in StartTape(RetryHead(HEAD))
    PROVE  /\ p.status = driver_state /\ p.segment_id = HEAD.segment_id
           /\ p.moved = HEAD.moved /\ UnderWay(p) /\ Resumable(p)
<1> DEFINE b == ftape_setup_new_segment(HEAD, HEAD.segment_id, 1)
           Aimed(n) == [b EXCEPT !.next_segment = n]
           d(n) == ftape_calc_next_cluster(Aimed(n))
           Marked(n) == [d(n) EXCEPT !.status = driver_state]
<1>1. /\ b \in Buffer /\ Prepares(b)
      /\ b.segment_id = HEAD.segment_id /\ b.moved = HEAD.moved
  BY HeadPrepares
<1>2. b.next_segment \in Nat
  BY <1>1 DEF Buffer
<1>3. \A mode : Prepared(mode) = Marked(IF mode = "FT_WR_SINGLE" THEN 0 ELSE b.next_segment)
  BY DEF Prepared
<1>4. RetryHead(HEAD) = Marked(b.next_segment)
  <2>1. Aimed(b.next_segment) = b
    BY <1>1 DEF Buffer
  <2>2. RetryHead(HEAD) = [ftape_calc_next_cluster(b) EXCEPT !.status = driver_state]
    BY DEF RetryHead
  <2> HIDE DEF b, Aimed
  <2>3. QED
    BY <2>1, <2>2
<1>5. PICK n \in Nat : p \in StartTape(Marked(n))
  <2>1. CASE p \in StartTape(RetryHead(HEAD))
    BY <1>2, <1>4, <2>1
  <2>2. CASE \E mode : p \in StartTape(Prepared(mode))
    <3>1. PICK mode : p \in StartTape(Prepared(mode))
      BY <2>2
    <3> DEFINE n == IF mode = "FT_WR_SINGLE" THEN 0 ELSE b.next_segment
    <3>2. n \in Nat
      BY <1>2
    <3>3. p \in StartTape(Marked(n))
      BY <1>3, <3>1
    <3>4. QED
      BY <3>2, <3>3
  <2>3. QED
    BY <2>1, <2>2
<1> HIDE DEF b
<1> DEFINE a == Aimed(n)
<1>6. a \in Buffer /\ SameMaps(a, b)
  BY <1>1 DEF Buffer, SameMaps
<1>7. Prepares(a) /\ a.segment_id = HEAD.segment_id /\ a.moved = HEAD.moved
  BY <1>1, <1>6, SameMapsKeep, SameMapsMore DEF Prepares, SameMaps
<1> DEFINE c == ftape_calc_next_cluster(a)
           q == [c EXCEPT !.status = driver_state]
<1>8. p \in StartTape(q)
  BY <1>5
<1> HIDE DEF a
<1>9. /\ c \in Buffer /\ UnderWay(c) /\ Resumable(c)
      /\ c.segment_id = HEAD.segment_id /\ c.moved = HEAD.moved
  BY <1>6, <1>7, FirstCluster, CalcNextClusterType
<1> HIDE DEF c
<1>10. driver_state \in BufferStates
  BY DEF WriteInv, IsrInv, IsrTypeOK, DriverStates, BufferStates
<1>11. q \in Buffer /\ SameMaps(q, c) /\ q.status = driver_state
  BY <1>9, <1>10 DEF Buffer, SameMaps
<1> HIDE DEF q
<1>12. SameMaps(p, q) /\ p.status = q.status
  <2>1. CASE p = q
    BY <2>1 DEF SameMaps
  <2>2. CASE p = [q EXCEPT !.retry = @ - 1]
    BY <1>11, <2>2 DEF Buffer, SameMaps
  <2>3. QED
    BY <1>8, <2>1, <2>2 DEF StartTape
<1>13. SameMaps(p, c)
  BY <1>11, <1>12 DEF SameMaps
<1>14. QED
  BY <1>9, <1>11, <1>12, <1>13, SameMapsMore DEF SameMaps

(* A step that sets HEAD up, and starts the transfer or fails to.          *)
LEMMA StartedQueue ==
    ASSUME WriteInv, WriteInv', LiveOK, ~Stalled,
           NEW p, SetHead(p), p.status = driver_state, p.segment_id = HEAD.segment_id,
           p.moved = HEAD.moved, UnderWay(p), Resumable(p),
           HEAD.status \in {"waiting", "error"},
           UNCHANGED <<head, tail, driver_state>>, UNCHANGED <<payload, tape, written>>,
           old_driver_state' = driver_state, old_segment_id' = HEAD.segment_id,
           driver_state \in {"writing", "deleting"},
           call'.segment = call.segment, Due' = Due, Unfilled' => Unfilled,
           Transferring' => /\ runner_status' = "running" \/ Closing'
                            /\ driver_state = "deleting" => Closing'
    PROVE  RingOK' /\ SegOK' /\ MapsOK' /\ HardOK' /\ TransferOK' /\ DataOK'
<1>1. /\ head \in Ring /\ tail \in Ring /\ HEAD.segment_id \in Segments
      /\ \A i \in Ring : buffers[i].segment_id \in Segments
      /\ buffers \in [Ring -> Buffer]
  BY WriteTypes
<1>2. RingOK /\ SegOK /\ MapsOK /\ HardOK /\ TransferOK /\ DataOK
  BY DEF LiveOK
<1>3. \A i \in Ring : buffers'[i] = IF i = head THEN p ELSE buffers[i]
  BY <1>1 DEF SetHead
<1>4. HEAD' = p /\ HEAD'.status = driver_state /\ HEAD'.status # "done"
  BY <1>1, <1>3 DEF HEAD
<1>5. \A i \in Ring : Queued(i)' <=> Queued(i)
  BY <1>4 DEF Queued
<1>6. \A i \in Ring : /\ buffers'[i].segment_id = buffers[i].segment_id
                      /\ i # head => buffers'[i] = buffers[i]
  BY <1>3 DEF HEAD
<1>7. Queued(head)
  BY <1>2, HeadQueued
<1>8. SetUp'
  BY <1>4 DEF SetUp, Retrying
<1>9. RingOK'
  <2>1. \A i \in Ring : i # head' /\ Queued(i)' => buffers'[i].status = "waiting"
    BY <1>2, <1>5, <1>6 DEF RingOK
  <2>2. \A i \in Ring : i # head' /\ ~ Queued(i)' => buffers'[i].status = "done"
    BY <1>2, <1>5, <1>6 DEF RingOK
  <2>3. QED
    BY <1>4, <2>1, <2>2 DEF RingOK
<1>10. SegOK'
  <2>1. \A i \in Ring : Queued(i)' =>
           /\ buffers'[i].segment_id <= call'.segment
           /\ buffers'[i].segment_id = call'.segment => payload'[i] = written' /\ ~Unfilled'
    BY <1>2, <1>5, <1>6 DEF SegOK
  <2>2. \A i, j \in Ring :
           Queued(i)' /\ Queued(j)' /\ buffers'[i].segment_id = buffers'[j].segment_id => i = j
    BY <1>2, <1>5, <1>6 DEF SegOK
  <2>3. \A i \in Ring : i # head' /\ Queued(i)' =>
           buffers'[i].segment_id # old_segment_id' /\ buffers'[i].moved = {}
    BY <1>1, <1>2, <1>5, <1>6, <1>7 DEF SegOK, HEAD
  <2>4. /\ old_segment_id' <= call'.segment
        /\ old_segment_id' = call'.segment => ~Unfilled'
    BY <1>1, <1>2, <1>7 DEF SegOK, HEAD
  <2>5. QED
    BY <2>1, <2>2, <2>3, <2>4 DEF SegOK
<1>11. MapsOK'
  BY <1>4, <1>8 DEF MapsOK
<1>12. HardOK'
  BY <1>4 DEF HardOK, UnderWay
<1>13. TransferOK'
  BY <1>4 DEF TransferOK
<1>14. DataOK'
  <2>1. HEAD'.status # "done" /\ HEAD'.moved # {} =>
           /\ tape'[HEAD'.segment_id].data = payload'[head']
           /\ HEAD'.moved \subseteq tape'[HEAD'.segment_id].blocks
    BY <1>2, <1>4 DEF DataOK
  <2>2. \A i \in Ring : Queued(i)' => Due'[buffers'[i].segment_id] \in {0, payload'[i]}
    BY <1>2, <1>5, <1>6 DEF DataOK
  <2>3. \A seg \in Segments : Due'[seg] # 0 =>
           \/ OnTape(seg, Due[seg])'
           \/ \E i \in Ring : /\ Queued(i)' /\ payload'[i] = Due'[seg]
                              /\ buffers'[i].segment_id = seg
    BY <1>2, <1>5, <1>6 DEF DataOK, OnTape
  <2>4. QED
    BY <2>1, <2>2, <2>3 DEF DataOK
<1>15. QED
  BY <1>9, <1>10, <1>11, <1>12, <1>13, <1>14

-----------------------------------------------------------------------------
(* The call returns                                                         *)

(* What ftape_write_segment() makes of the outcome, if it is no error.     *)
Returns == \/ /\ bytes = "ok" /\ pc' = "idle" /\ result' = "ok"
              /\ accepted' = [accepted EXCEPT ![call.segment] = written]
              /\ call' = call /\ UNCHANGED <<payload, tape, written>>
           \/ /\ bytes = "EAGAIN" /\ pc' = "again"
              /\ UNCHANGED <<call, bytes, result>> /\ UNCHANGED datavars

(* It goes round again, or returns; an error is Failed.                    *)
LEMMA FinishCases ==
    ASSUME Finish
    PROVE  Returns \/ Failed
  BY DEF Finish, Returns

(* The phase of the call then.                                             *)
LEMMA ReturnsPhase ==
    ASSUME DataInv, pc = "start", Returns, driver_state' = driver_state
    PROVE  /\ PhaseOK' /\ RestOK' /\ Due' = Due /\ (Unfilled' => Unfilled)
           /\ call'.segment = call.segment /\ UNCHANGED <<payload, tape, written>>
           /\ bytes = "ok" /\ call.mode # "FT_WR_ASYNC" => Closing'
           /\ pc' # "again" => ~Unfilled'
           /\ pc' \in {"idle", "again"} /\ (pc' = "again" => bytes = "EAGAIN")
<1>1. /\ PhaseOK /\ driver_state # "waiting" /\ result # "EIO"
      /\ accepted \in [Segments -> Payloads] /\ call.segment \in Segments
      /\ pc \in Writing
  <2>1. pc \in Writing
    BY DEF Writing
  <2>2. QED
    BY <2>1, WritingFacts, WriteTypes DEF DataInv, Live
<1>2. CASE /\ bytes = "ok" /\ pc' = "idle" /\ result' = "ok"
           /\ accepted' = [accepted EXCEPT ![call.segment] = written]
           /\ call' = call /\ UNCHANGED <<payload, tape, written>>
  <2>1. PhaseOK'
    BY <1>1, <1>2 DEF PhaseOK, Writing, Flush, WantedState
  <2>2. RestOK'
    BY <1>1 DEF RestOK
  <2>3. \A seg \in Segments : Due'[seg] = Due[seg]
    BY <1>1, <1>2 DEF Due
  <2>4. Due' = Due
    BY <2>3 DEF Due
  <2>5. (call.mode # "FT_WR_ASYNC" => Closing') /\ ~Unfilled'
    BY <1>2 DEF Closing, Unfilled
  <2>6. QED
    BY <1>2, <2>1, <2>2, <2>4, <2>5
<1>3. CASE /\ bytes = "EAGAIN" /\ pc' = "again"
           /\ UNCHANGED <<call, bytes, result>> /\ UNCHANGED datavars
  <2>1. PhaseOK' /\ RestOK'
    BY <1>1, <1>3, PhaseGoesOn DEF Writing, datavars
  <2>2. Due' = Due
    BY <1>3 DEF Due, datavars
  <2>3. Unfilled
    BY <1>3 DEF Unfilled
  <2>4. QED
    BY <1>3, <2>1, <2>2, <2>3 DEF datavars
<1>4. QED
  BY <1>2, <1>3 DEF Returns

(* The tape is started, if it has to be.                                   *)
LEMMA StartData ==
    ASSUME DataInv, WriteInv', Start, Orderly
    PROVE  PhaseOK' /\ RestOK' /\ (Live' => LiveOK')
<1>1. pc = "start" /\ pc \in Writing
  BY DEF Start, Writing
<1>2. /\ WriteInv /\ PhaseOK /\ LiveOK /\ RingOK /\ MapsOK /\ HardOK /\ TransferOK /\ RunnerOK
      /\ ~Closing /\ ~Stalled /\ driver_state # "waiting"
      /\ driver_state = WantedState /\ driver_state \in {"writing", "deleting"}
  BY <1>1, WritingFacts DEF DataInv, Live, LiveOK
<1>3. CASE ~(MustStart /\ CanStart(call.mode)) /\ Finish /\ UNCHANGED isrvars
  <2>1. /\ UNCHANGED <<head, tail, buffers, runner_status, driver_state>>
        /\ UNCHANGED <<old_driver_state, old_segment_id>> /\ UNCHANGED <<fdc_mode, busy>>
    BY <1>3 DEF isrvars, ring, setup, controller
  <2>2. (Transferring' <=> Transferring) /\ HEAD' = HEAD
    BY <2>1 DEF Transferring, HEAD
  <2>3. CASE Failed
    BY <1>2, <2>1, <2>2, <2>3, FailedData
  <2>4. CASE Returns
    <3>1. /\ PhaseOK' /\ RestOK' /\ Due' = Due /\ (Unfilled' => Unfilled)
          /\ call'.segment = call.segment /\ UNCHANGED <<payload, tape, written>>
          /\ pc' \in {"idle", "again"}
      BY <1>1, <2>1, <2>4, ReturnsPhase
    <3>2. RunnerOK'
      BY <1>1, <1>2, <2>1, <2>2, <3>1 DEF RunnerOK
    <3>3. Alike
      BY <2>1, SameBuffers
    <3>4. RingOK' /\ SegOK' /\ MapsOK' /\ HardOK' /\ TransferOK' /\ DataOK'
      BY <1>2, <2>1, <2>2, <3>1, <3>3, SteadyStep DEF Alike
    <3>5. QED
      BY <3>1, <3>2, <3>4 DEF LiveOK
  <2>5. QED
    BY <1>3, <2>3, <2>4, FinishCases
<1>4. CASE MustStart /\ Started(call.mode) /\ Finish
  <2>1. PICK p \in StartTape(Prepared(call.mode)) : SetHead(p)
    BY <1>4 DEF Started
  <2>2. /\ RememberSetup(HEAD, HEAD.segment_id, 1)
        /\ runner_status' = IF runner_status = "idle" THEN "running" ELSE runner_status
        /\ UNCHANGED <<head, tail, driver_state>>
        /\ CanStart(call.mode)
    BY <1>4 DEF Started
  <2>3. /\ HEAD.status = "waiting" /\ runner_status # "running"
        /\ \/ TAIL.status = "waiting" /\ head = tail
           \/ call.mode # "FT_WR_ASYNC"
    BY <1>4, <2>2 DEF MustStart, CanStart
  <2>4. HEAD.status # "done" /\ (SetUp => HEAD.hard_error_map = {})
    BY <1>2, <2>3 DEF HardOK
  <2>5. /\ p.status = driver_state /\ p.segment_id = HEAD.segment_id
        /\ p.moved = HEAD.moved /\ UnderWay(p) /\ Resumable(p)
    BY <1>2, <2>1, <2>4, HeadStarts
  <2>6. CASE Failed
    BY <1>2, <2>2, <2>6, FailedData
  <2>7. CASE Returns
    <3>1. /\ PhaseOK' /\ RestOK' /\ Due' = Due /\ (Unfilled' => Unfilled)
          /\ call'.segment = call.segment /\ UNCHANGED <<payload, tape, written>>
          /\ bytes = "ok" /\ call.mode # "FT_WR_ASYNC" => Closing'
          /\ pc' # "again" => ~Unfilled'
          /\ pc' \in {"idle", "again"} /\ (pc' = "again" => bytes = "EAGAIN")
      BY <1>1, <2>2, <2>7, ReturnsPhase
    <3>2. bytes \in {"ok", "EAGAIN"}
      BY <2>7 DEF Returns
    <3>3. runner_status' # "running" => bytes = "ok" /\ call.mode # "FT_WR_ASYNC" /\ Closing'
      <4>1. SUFFICES ASSUME runner_status' # "running"
                     PROVE  bytes = "ok" /\ call.mode # "FT_WR_ASYNC"
        BY <3>1
      <4>2. runner_status \notin {"idle", "running"}
        BY <2>2, <2>3, <4>1
      <4>3. bytes = "ok" /\ head # tail
        BY <1>1, <1>2, <2>3, <3>2, <4>2 DEF RunnerOK
      <4>4. QED
        BY <2>3, <4>3
    <3>4. driver_state = "deleting" => bytes = "ok" /\ Closing'
      <4>1. SUFFICES ASSUME driver_state = "deleting"
                     PROVE  bytes = "ok" /\ call.mode # "FT_WR_ASYNC"
        BY <3>1
      <4>2. call.mode # "FT_WR_ASYNC"
        BY <1>2, <4>1 DEF WantedState, StateFor
      <4>3. ~Unfilled
        BY <1>2, <2>4, <4>1 DEF RunnerOK
      <4>4. QED
        BY <1>1, <4>2, <4>3 DEF Unfilled
    <3>5. old_driver_state' = driver_state /\ old_segment_id' = HEAD.segment_id
      BY <2>2 DEF RememberSetup
    <3>6. RingOK' /\ SegOK' /\ MapsOK' /\ HardOK' /\ TransferOK' /\ DataOK'
      BY <1>2, <2>1, <2>2, <2>3, <2>5, <3>1, <3>3, <3>4, <3>5, StartedQueue
    <3>7. RunnerOK'
      <4>1. runner_status' # "do_abort"
        BY <1>2, <2>2 DEF RunnerOK
      <4>2. runner_status' = "aborting" /\ HEAD'.status = driver_state' => Closing'
        BY <3>3
      <4>3. driver_state' = "deleting" /\ Unfilled' => HEAD'.status = "done"
        BY <2>2, <3>1, <3>4
      <4>4. QED
        BY <3>1, <4>1, <4>2, <4>3 DEF RunnerOK
    <3>8. QED
      BY <3>1, <3>6, <3>7 DEF LiveOK
  <2>8. QED
    BY <1>4, <2>6, <2>7, FinishCases
<1>5. CASE StartFailed(call.mode) /\ Failed
  <2>1. driver_state' = driver_state
    BY <1>5 DEF StartFailed
  <2>2. QED
    BY <1>2, <1>5, <2>1, FailedData
<1>6. QED
  BY <1>3, <1>4, <1>5 DEF Start

-----------------------------------------------------------------------------
(* The loop of the flush                                                    *)

(* ftape_loop_until_writes_done(), from its test on.                       *)
Loop == Flush \cup {"check"}

(* The loop runs only while the driver is writing and no error is reported. *)
LEMMA LoopFacts ==
    ASSUME DataInv, pc \in Loop, driver_state # "waiting"
    PROVE  /\ Live /\ LiveOK /\ ~Unfilled /\ WriteInv /\ PhaseOK
           /\ driver_state = WantedState /\ driver_state \in {"writing", "deleting"}
           /\ Closing <=> call.mode # "FT_WR_ASYNC"
           /\ driver_state = "deleting" => Closing
<1>1. PhaseOK /\ (Live => LiveOK) /\ WriteInv
  BY DEF DataInv
<1>2. result # "EIO"
  BY <1>1 DEF PhaseOK, Loop, Flush
<1>3. driver_state = WantedState /\ driver_state \in {"writing", "deleting"}
  BY <1>1 DEF PhaseOK, WantedState, StateFor
<1>4. ~Unfilled /\ (Closing <=> call.mode # "FT_WR_ASYNC")
  BY DEF Unfilled, Closing, Loop, Flush
<1>5. driver_state = "deleting" => Closing
  BY <1>3, <1>4 DEF WantedState, StateFor
<1>6. QED
  BY <1>1, <1>2, <1>3, <1>4, <1>5 DEF Live

(* A step of the loop that leaves the queue alone.                         *)
LEMMA LoopStep ==
    ASSUME DataInv, WriteInv', pc \in Loop, pc' \in Loop, driver_state # "waiting",
           UNCHANGED <<call, result, driver_state>>, UNCHANGED <<head, tail, buffers>>,
           UNCHANGED setup, UNCHANGED datavars,
           Transferring' => Transferring,
           runner_status' = runner_status \/ (runner_status' = "idle" /\ ~Stalled /\ runner_status # "running")
    PROVE  PhaseOK' /\ RestOK' /\ LiveOK'
<1>1. /\ Live /\ LiveOK /\ ~Unfilled /\ WriteInv /\ PhaseOK /\ RunnerOK
      /\ Closing <=> call.mode # "FT_WR_ASYNC"
  BY LoopFacts DEF LiveOK
<1>2. Due' = Due /\ (Closing' <=> Closing) /\ ~Unfilled' /\ HEAD' = HEAD
  BY <1>1 DEF Due, datavars, Closing, Unfilled, HEAD, Loop, Flush
<1>3. Stalled => Stalled'
  BY <1>2 DEF Stalled
<1>4. /\ UNCHANGED <<old_driver_state, old_segment_id>>
      /\ UNCHANGED <<payload, tape, written>> /\ accepted' = accepted
  BY DEF setup, datavars
<1>5. Alike
  BY SameBuffers
<1>6. RingOK' /\ SegOK' /\ MapsOK' /\ HardOK' /\ TransferOK' /\ DataOK'
  BY <1>1, <1>2, <1>3, <1>4, <1>5, SteadyStep DEF Alike
<1>7. RunnerOK'
  BY <1>1, <1>2 DEF RunnerOK, Loop, Flush
<1>8. PhaseOK' /\ RestOK'
  BY <1>1, <1>4, PhaseGoesOn DEF Loop
<1>9. QED
  BY <1>6, <1>7, <1>8 DEF LiveOK

(* Is HEAD done, so is everything.                                         *)
LEMMA CheckData ==
    ASSUME DataInv, WriteInv', Check
    PROVE  PhaseOK' /\ RestOK' /\ (Live' => LiveOK')
<1>1. /\ pc = "check" /\ pc \in Loop
      /\ WriteInv /\ PhaseOK /\ RestOK /\ (Live => LiveOK)
  BY DEF Check, DataInv, Loop
<1>2. /\ UNCHANGED <<head, tail, buffers, runner_status>> /\ UNCHANGED setup
      /\ UNCHANGED <<fdc_mode, busy>> /\ UNCHANGED datavars
  BY DEF Check, ring, controller
<1>3. Transferring' <=> Transferring
  BY <1>2 DEF Transferring
<1>4. CASE WritesPending /\ Goto("restart") /\ UNCHANGED driver_state
  <2>1. driver_state # "waiting" /\ UNCHANGED <<call, result>> /\ pc' = "restart"
    BY <1>4 DEF WritesPending, Flushing, Goto
  <2>2. QED
    BY <1>1, <1>2, <1>3, <1>4, <2>1, LoopStep DEF Loop, Flush
<1>5. CASE /\ ~WritesPending /\ driver_state' = "waiting"
           /\ IF call.op = "flush"
              THEN pc' = "idle" /\ result' = "flushed" /\ UNCHANGED <<call, again, bytes>>
              ELSE Goto("abort")
  <2>1. /\ ~Transferring
        /\ \A seg \in Segments : accepted[seg] # 0 => OnTape(seg, accepted[seg])
    <3>1. CASE driver_state = "waiting"
      BY <1>1, <3>1 DEF PhaseOK, RestOK
    <3>2. CASE driver_state # "waiting"
      <4>1. /\ LiveOK /\ driver_state \in {"writing", "deleting"}
        BY <1>1, <3>2, LoopFacts
      <4>2. RingOK /\ TransferOK /\ DataOK
        BY <4>1 DEF LiveOK
      <4>3. HEAD.status = "done" /\ head = tail
        BY <1>5, <4>1, <4>2 DEF WritesPending, Flushing, RingOK
      <4>4. ~Transferring
        BY <4>1, <4>2, <4>3 DEF TransferOK
      <4>5. \A i \in Ring : ~Queued(i)
        BY <1>1, <4>3, WriteTypes, BetweenFacts DEF Queued
      <4>6. \A seg \in Segments : Due[seg] = accepted[seg]
        BY <1>1 DEF Due
      <4>7. \A seg \in Segments : accepted[seg] # 0 => OnTape(seg, accepted[seg])
        BY <4>2, <4>5, <4>6 DEF DataOK
      <4>8. QED
        BY <4>4, <4>7
    <3>3. QED
      BY <3>1, <3>2
  <2>2. RestOK'
    BY <1>2, <2>1 DEF RestOK, OnTape, datavars
  <2>3. PhaseOK'
    <3>1. call.op \in {"write", "flush"}
      BY <1>1, WriteTypes DEF WriteInv, ProcTypeOK
    <3>2. CASE pc' = "idle" /\ result' = "flushed" /\ call' = call
      BY <1>3, <1>5, <2>1, <3>2 DEF PhaseOK, Writing, Flush
    <3>3. CASE call.op = "write" /\ Goto("abort")
      BY <1>1, <1>2, <1>3, <1>5, <2>1, <3>3 DEF PhaseOK, Writing, Flush, Goto, datavars
    <3>4. QED
      BY <1>5, <3>1, <3>2, <3>3
  <2>4. QED
    BY <1>5, <2>2, <2>3 DEF Live
<1>6. QED
  BY <1>4, <1>5 DEF Check

(* A transfer is started, by the loop, on a HEAD in any state but done.    *)
LEMMA LoopStarts ==
    ASSUME DataInv, WriteInv', Orderly, pc \in Loop, pc' \in Loop, driver_state # "waiting",
           HEAD.status \in {"waiting", "error"}, runner_status = "idle",
           HEAD.status = "error" => HEAD.hard_error_map = {},
           NEW p, (\E mode : p \in StartTape(Prepared(mode))) \/ p \in StartTape(RetryHead(HEAD)),
           SetHead(p), RememberSetup(HEAD, HEAD.segment_id, 1),
           UNCHANGED <<call, result, head, tail, driver_state>>, UNCHANGED datavars,
           runner_status' \in {"idle", "running"},
           Transferring' => runner_status' = "running"
    PROVE  PhaseOK' /\ RestOK' /\ LiveOK'
<1>1. /\ LiveOK /\ ~Unfilled /\ WriteInv /\ PhaseOK
      /\ driver_state \in {"writing", "deleting"}
      /\ Closing <=> call.mode # "FT_WR_ASYNC"
      /\ driver_state = "deleting" => Closing
  BY LoopFacts
<1>2. MapsOK /\ HardOK
  BY <1>1 DEF LiveOK
<1>3. HEAD.status # "done" /\ (SetUp => HEAD.hard_error_map = {})
  BY <1>1, <1>2 DEF HardOK
<1>4. /\ p.status = driver_state /\ p.segment_id = HEAD.segment_id
      /\ p.moved = HEAD.moved /\ UnderWay(p) /\ Resumable(p)
  BY <1>1, <1>2, <1>3, HeadStarts
<1>5. Due' = Due /\ (Closing' <=> Closing) /\ ~Unfilled' /\ ~Stalled
  BY <1>1 DEF Due, datavars, Closing, Unfilled, Stalled, Loop, Flush
<1>6. /\ old_driver_state' = driver_state /\ old_segment_id' = HEAD.segment_id
      /\ UNCHANGED <<payload, tape, written>> /\ accepted' = accepted
  BY DEF RememberSetup, datavars
<1>7. RingOK' /\ SegOK' /\ MapsOK' /\ HardOK' /\ TransferOK' /\ DataOK'
  BY <1>1, <1>4, <1>5, <1>6, StartedQueue
<1>8. RunnerOK'
  BY <1>5 DEF RunnerOK, Loop, Flush
<1>9. PhaseOK' /\ RestOK'
  BY <1>1, <1>6, PhaseGoesOn DEF Loop
<1>10. QED
  BY <1>7, <1>8, <1>9 DEF LiveOK

(* HEAD is started if the runner is idle.                                  *)
LEMMA RestartData ==
    ASSUME DataInv, WriteInv', RestartEot \/ Restart, Orderly
    PROVE  PhaseOK' /\ RestOK' /\ (Live' => LiveOK')
<1>1. pc = "restart" /\ pc \in Loop /\ pc \in Flush
  BY DEF RestartEot, Restart, Loop, Flush
<1>2. driver_state # "waiting" /\ PhaseOK
  BY <1>1 DEF DataInv, PhaseOK
<1>3. CASE RestartEot
  <2>1. /\ runner_status \in {"logical_eot", "end_of_tape"}
        /\ \/ runner_status' = "idle" /\ UNCHANGED procvars /\ UNCHANGED datavars
           \/ Failed
        /\ UNCHANGED <<head, tail, buffers>> /\ UNCHANGED setup
        /\ UNCHANGED <<fdc_mode, busy>> /\ UNCHANGED driver_state
    BY <1>3 DEF RestartEot, ftape_handle_logical_eot, ring, controller
  <2>2. (Transferring' <=> Transferring) /\ ~Stalled
    BY <2>1 DEF Transferring, Stalled
  <2>3. CASE Failed
    BY <1>2, <2>1, <2>2, <2>3, FailedData
  <2>4. CASE runner_status' = "idle" /\ UNCHANGED procvars /\ UNCHANGED datavars
    <3>1. UNCHANGED <<call, result>> /\ pc' \in Loop
      BY <1>1, <2>4 DEF procvars
    <3>2. QED
      BY <1>1, <1>2, <2>1, <2>2, <2>4, <3>1, LoopStep
  <2>5. QED
    BY <2>1, <2>3, <2>4
<1>4. CASE Restart
  <2>1. \/ Goto("sleep") /\ UNCHANGED isrvars /\ UNCHANGED datavars
        \/ /\ runner_status = "idle" /\ Started(FlushMode)
           /\ Goto("sleep") /\ UNCHANGED datavars
        \/ StartFailed(FlushMode) /\ Failed
    BY <1>4 DEF Restart
  <2>2. Goto("sleep") => UNCHANGED <<call, result>> /\ pc' \in Loop
    BY DEF Goto, Loop, Flush
  <2>3. CASE Goto("sleep") /\ UNCHANGED isrvars /\ UNCHANGED datavars
    <3>1. /\ UNCHANGED <<head, tail, buffers, runner_status, driver_state>>
          /\ UNCHANGED setup /\ UNCHANGED <<fdc_mode, busy>>
      BY <2>3 DEF isrvars, ring, controller
    <3>2. Transferring' <=> Transferring
      BY <3>1 DEF Transferring
    <3>3. QED
      BY <1>1, <1>2, <2>2, <2>3, <3>1, <3>2, LoopStep
  <2>4. CASE runner_status = "idle" /\ Started(FlushMode) /\ Goto("sleep") /\ UNCHANGED datavars
    <3>1. /\ \E p \in StartTape(Prepared(FlushMode)) : SetHead(p)
          /\ RememberSetup(HEAD, HEAD.segment_id, 1)
          /\ runner_status' = "running"
          /\ UNCHANGED <<head, tail, driver_state>>
          /\ HEAD.status = "waiting"
      BY <2>4 DEF Started, CanStart
    <3>2. PICK p : p \in StartTape(Prepared(FlushMode)) /\ SetHead(p)
      BY <3>1
    <3>3. QED
      BY <1>1, <1>2, <2>2, <2>4, <3>1, <3>2, LoopStarts
  <2>5. CASE StartFailed(FlushMode) /\ Failed
    <3>1. driver_state' = driver_state
      BY <2>5 DEF StartFailed
    <3>2. QED
      BY <1>2, <2>5, <3>1, FailedData
  <2>6. QED
    BY <2>1, <2>3, <2>4, <2>5
<1>5. QED
  BY <1>3, <1>4

(* The loop waits for HEAD.                                                *)
LEMMA SleepData ==
    ASSUME DataInv, WriteInv', Sleep
    PROVE  PhaseOK' /\ RestOK' /\ (Live' => LiveOK')
<1>1. pc = "sleep" /\ pc \in Loop
  BY DEF Sleep, Loop, Flush
<1>2. driver_state # "waiting" /\ PhaseOK
  BY <1>1 DEF DataInv, PhaseOK, Flush
<1>3. /\ \/ Goto("recover") /\ UNCHANGED <<fdc_mode, busy>> /\ UNCHANGED datavars
         \/ Failed
      /\ UNCHANGED <<head, tail, buffers>> /\ UNCHANGED setup
      /\ UNCHANGED <<runner_status, driver_state>>
  BY DEF Sleep, ring
<1>4. CASE Failed
  BY <1>2, <1>3, <1>4, FailedData
<1>5. CASE Goto("recover") /\ UNCHANGED <<fdc_mode, busy>> /\ UNCHANGED datavars
  <2>1. UNCHANGED <<call, result>> /\ pc' \in Loop /\ (Transferring' <=> Transferring)
    BY <1>5 DEF Goto, Loop, Flush, Transferring
  <2>2. QED
    BY <1>1, <1>2, <1>3, <1>5, <2>1, LoopStep
<1>6. QED
  BY <1>3, <1>4, <1>5

(* HEAD is in error during the flush, or it is not.                        *)
LEMMA RecoverData ==
    ASSUME DataInv, WriteInv', Orderly,
           RecoverStop \/ RecoverFail \/ RecoverRetry \/ RecoverNothing \/ RecoverSignal
    PROVE  PhaseOK' /\ RestOK' /\ (Live' => LiveOK')
<1>1. pc = "recover" /\ pc \in Loop
  BY DEF RecoverStop, RecoverFail, RecoverRetry, RecoverNothing, RecoverSignal, Loop, Flush
<1>2. driver_state # "waiting" /\ PhaseOK
  BY <1>1 DEF DataInv, PhaseOK, Flush
<1>3. CASE RecoverStop
  <2>1. /\ HEAD.status = "error" /\ runner_status = "aborting"
        /\ ControllerQuiet /\ runner_status' = "idle"
        /\ UNCHANGED <<head, tail, buffers>> /\ UNCHANGED setup
        /\ UNCHANGED driver_state /\ UNCHANGED procvars /\ UNCHANGED datavars
    BY <1>3 DEF RecoverStop, ftape_dumb_stop, ring
  <2>2. UNCHANGED <<call, result>> /\ pc' \in Loop /\ ~Stalled
    BY <1>1, <2>1 DEF procvars, Stalled
  <2>3. ~Transferring'
    BY <2>1, QuietType
  <2>4. QED
    BY <1>1, <1>2, <2>1, <2>2, <2>3, LoopStep
<1>4. CASE RecoverFail
  <2>1. Failed /\ UNCHANGED isrvars
    BY <1>4 DEF RecoverFail
  <2>2. driver_state' = driver_state
    BY <2>1 DEF isrvars
  <2>3. QED
    BY <1>2, <2>1, <2>2, FailedData
<1>5. CASE RecoverSignal
  BY <1>2, <1>5, FailedData DEF RecoverSignal
<1>6. CASE RecoverNothing
  <2>1. /\ UNCHANGED <<head, tail, buffers, runner_status, driver_state>>
        /\ UNCHANGED setup /\ UNCHANGED <<fdc_mode, busy>>
        /\ UNCHANGED <<call, result>> /\ UNCHANGED datavars /\ pc' = "check"
    BY <1>6 DEF RecoverNothing, isrvars, ring, controller, Goto
  <2>2. Transferring' <=> Transferring
    BY <2>1 DEF Transferring
  <2>3. QED
    BY <1>1, <1>2, <2>1, <2>2, LoopStep DEF Loop
<1>7. CASE RecoverRetry
  <2>1. PICK p : p \in StartTape(RetryHead(HEAD)) /\ SetHead(p)
    BY <1>7 DEF RecoverRetry
  <2>2. /\ HEAD.status = "error" /\ runner_status = "idle" /\ HEAD.hard_error_map = {}
        /\ RememberSetup(HEAD, HEAD.segment_id, 1)
        /\ \/ runner_status' = "running"
           \/ runner_status' = runner_status /\ busy' = FALSE
        /\ UNCHANGED <<head, tail, driver_state>> /\ UNCHANGED datavars
        /\ UNCHANGED <<call, result>> /\ pc' = "check"
    BY <1>7 DEF RecoverRetry, Goto
  <2>3. Transferring' => runner_status' = "running"
    BY <2>2 DEF Transferring
  <2>4. QED
    BY <1>1, <1>2, <2>1, <2>2, <2>3, LoopStarts DEF Loop
<1>8. QED
  BY <1>3, <1>4, <1>5, <1>6, <1>7

-----------------------------------------------------------------------------
(* A buffer in transfer                                                     *)

(* A transfer of data without errors so far, between two clusters.         *)
Goes(b) ==
    /\ b.soft_error_map = {} /\ b.hard_error_map = {}
    /\ OnCourse(b) /\ Known(b) /\ Resumable(b)
    /\ b.skip <= b.sector_offset

(* A transfer that is no fake one moves data.                              *)
LEMMA UnderWayKnown ==
    ASSUME NEW b, UnderWay(b), Resumable(b), ~IsFake(b)
    PROVE  Known(b)
  BY DEF UnderWay, Resumable, Known

(* The cluster, or a part of it, has been written.                         *)
LEMMA AdvancedGoes ==
    ASSUME NEW b \in Buffer, UnderWay(b), Resumable(b), ~IsFake(b),
           b.sector_count <= b.remaining, NEW n \in 0 .. b.sector_count,
           NEW c, c = Advance(b, n)
    PROVE  Goes(c) /\ c \in Buffer /\ Same(c, b) /\ b.moved \subseteq c.moved
<1> DEFINE offset == b.sector_offset + n
           data   == b.data_offset + n
           left   == b.remaining - n
           move   == b.moved \cup (b.data_offset .. (b.data_offset + n - 1))
<1>1. /\ b.sector_offset \in Nat /\ b.data_offset \in Nat /\ b.remaining \in Nat
      /\ b.sector_count \in Nat /\ b.skip \in Nat
  BY FieldTypes DEF Buffer
<1>2. n \in Nat /\ n <= b.sector_count /\ n <= b.remaining
  BY <1>1
<1>3. OnCourse(c) /\ Further(c, b) /\ c.sector_offset = b.sector_offset + n
  BY <1>2, AdvanceMaps DEF UnderWay
<1>4. c \in Buffer /\ Same(c, b)
  BY <1>2, AdvanceType
<1>5. c = [b EXCEPT !.sector_count = n, !.sector_offset = offset,
                    !.data_offset = data, !.remaining = left, !.moved = move]
  BY DEF Advance
<1> HIDE DEF offset, data, left, move
<1>6. /\ c.soft_error_map = b.soft_error_map /\ c.hard_error_map = b.hard_error_map
      /\ c.skip = b.skip /\ c.stray = b.stray /\ c.segment_id = b.segment_id
  BY <1>5 DEF Buffer
<1>7. Known(c)
  BY <1>6, UnderWayKnown DEF Known
<1>8. c.skip <= c.sector_offset
  <2>1. b.skip <= b.sector_offset
    BY DEF UnderWay
  <2>2. QED
    BY <1>1, <1>2, <1>3, <1>6, <2>1
<1>9. Resumable(c)
  BY <1>3, <1>6, FurtherSkip DEF Resumable, UnderWay
<1>10. QED
  BY <1>3, <1>4, <1>6, <1>7, <1>8, <1>9 DEF Goes, UnderWay, Further

(* The next cluster is found, or there is none.                            *)
LEMMA NextCluster ==
    ASSUME NEW b \in Buffer, Goes(b), NEW c, c = ftape_calc_next_cluster(b)
    PROVE  /\ Goes(c) /\ UnderWay(c) /\ c \in Buffer /\ Same(c, b)
           /\ c.moved = b.moved
           /\ c.sector_count = 0 => c.remaining = 0
<1> DEFINE end   == b.sector_offset + b.remaining
           first == FirstIn(Sectors \ b.bad_sector_map, b.sector_offset, end)
           last  == FirstIn(b.bad_sector_map, first, end)
<1>1. b.sector_offset \in Nat /\ b.remaining \in Nat /\ b.skip \in Nat
  BY FieldTypes DEF Buffer
<1>2. end \in Nat /\ b.sector_offset <= end
  BY <1>1
<1>3. c = [b EXCEPT !.sector_offset = first, !.remaining = end - first,
                    !.sector_count = last - first]
  BY DEF ftape_calc_next_cluster
<1> HIDE DEF end
<1>4. first \in b.sector_offset .. end
  BY <1>1, <1>2, FirstInType
<1> HIDE DEF first, last
<1>5. /\ c.soft_error_map = b.soft_error_map /\ c.hard_error_map = b.hard_error_map
      /\ c.skip = b.skip /\ c.stray = b.stray
      /\ c.segment_id = b.segment_id /\ c.moved = b.moved
      /\ c.sector_offset = first
  BY <1>3 DEF Buffer
<1>6. /\ OnCourse(c) /\ InCluster(c) /\ Further(c, b)
      /\ Known(c) /\ c.sector_count = 0 => c.remaining = 0
  BY CalcNextClusterMaps DEF Goes
<1>7. c \in Buffer /\ Same(c, b)
  BY CalcNextClusterType DEF Same
<1>8. Known(c)
  BY <1>5 DEF Known, Goes
<1>9. c.skip <= c.sector_offset
  <2>1. b.sector_offset <= first /\ first \in Nat
    BY <1>1, <1>2, <1>4
  <2>2. b.skip <= b.sector_offset
    BY DEF Goes
  <2>3. QED
    BY <1>1, <1>5, <2>1, <2>2
<1>10. Resumable(c)
  BY <1>5, <1>6, FurtherSkip DEF Resumable, Goes
<1>11. Goes(c)
  BY <1>5, <1>6, <1>8, <1>9, <1>10 DEF Goes
<1>12. UnderWay(c)
  BY <1>6, <1>11 DEF UnderWay, Goes, Known
<1>13. QED
  BY <1>5, <1>6, <1>7, <1>8, <1>11, <1>12

(* A transfer that has come to the end of the segment has written it all.  *)
LEMMA CompleteData ==
    ASSUME NEW b \in Buffer, Goes(b), b.remaining = 0
    PROVE  Blocks(b.segment_id) \subseteq b.moved
<1>1. /\ b.sector_offset + b.remaining = SectorsPerSegment
      /\ \A s \in Good(b) : s < b.sector_offset => IsRead(b, s)
  BY DEF Goes, OnCourse
<1>2. b.sector_offset = SectorsPerSegment
  BY <1>1 DEF Buffer
<1>3. \A s \in Good(b) : s < b.sector_offset
  BY <1>2, SectorsAssumption DEF Good, Sectors
<1>4. QED
  BY <1>1, <1>3 DEF Blocks, Good, IsRead

(* The sector at fault is flagged in one of the maps, which were empty.    *)
LEMMA FirstFlag ==
    ASSUME NEW b \in Buffer, b.soft_error_map = {}, b.hard_error_map = {},
           NEW x \in Sectors, NEW c, c = update_error_maps(b, x)
    PROVE  \/ c.soft_error_map = {x} /\ c.hard_error_map = {}
           \/ c.soft_error_map = {} /\ c.hard_error_map = {x}
<1> DEFINE soft == b.soft_error_map \cup {x}
           hard == b.hard_error_map \cup {x}
           rest == b.soft_error_map \ (b.hard_error_map \cup {x})
           minus == -1
<1>1. x < SectorsPerSegment /\ ~(x >= SectorsPerSegment)
  BY SectorsAssumption DEF Sectors
<1>2. c = IF b.retry < SoftRetries
          THEN [b EXCEPT !.soft_error_map = soft]
          ELSE [b EXCEPT !.hard_error_map = hard, !.soft_error_map = rest,
                         !.retry = minus]
  BY <1>1 DEF update_error_maps
<1>3. soft = {x} /\ hard = {x} /\ rest = {}
  OBVIOUS
<1> HIDE DEF soft, hard, rest, minus
<1>4. \/ c.soft_error_map = soft /\ c.hard_error_map = b.hard_error_map
      \/ c.soft_error_map = rest /\ c.hard_error_map = hard
  BY <1>2 DEF Buffer
<1>5. QED
  BY <1>3, <1>4

(* A cluster failed: the sector at fault is the one just passed.           *)
LEMMA FailsAt ==
    ASSUME NEW b \in Buffer, UnderWay(b), Resumable(b), ~IsFake(b),
           b.sector_count <= b.remaining,
           NEW transferred \in 0 .. b.sector_count, NEW cause, cause # "no_error",
           b.sector_count > 0,
           NEW c, c = determine_progress(b, cause, transferred)
    PROVE  /\ c \in Buffer /\ Same(c, b) /\ OnCourse(c) /\ Further(c, b)
           /\ \E x \in Sectors :
                 /\ c.sector_offset = x + 1 /\ b.sector_offset <= x
                 /\ \/ c.soft_error_map = {x} /\ c.hard_error_map = {}
                    \/ c.soft_error_map = {} /\ c.hard_error_map = {x}
<1> DEFINE n == IF transferred = b.sector_count THEN transferred - 1 ELSE transferred
           a == Advance(b, n)
           e == CountError(a, cause)
           d == skip_bad_sector(e)
           offset == e.sector_offset + 1
           data   == e.data_offset + 1
           left   == e.remaining - 1
           x == b.sector_offset + n
<1>1. /\ b.sector_count \in Nat /\ b.remaining \in Nat /\ b.sector_offset \in Nat
  BY DEF Buffer
<1>2. /\ n \in Nat /\ n <= b.sector_count /\ n < b.remaining /\ n \in 0 .. b.sector_count
      /\ n <= b.remaining
  BY <1>1
<1>3. c = update_error_maps(d, d.sector_offset - 1)
  BY DEF determine_progress, FailedProgress
<1> HIDE DEF n
<1>4. /\ c \in Buffer /\ Same(c, b)
  BY DetermineProgressType
<1>5. OnCourse(c) /\ Further(c, b)
  BY ProgressMaps DEF UnderWay
<1>6. Goes(a) /\ a \in Buffer /\ Same(a, b)
  BY <1>2, AdvancedGoes
<1>7. a.sector_offset = b.sector_offset + n /\ a.remaining = b.remaining - n
  BY <1>2, AdvanceMaps DEF UnderWay
<1> HIDE DEF a
<1>8. e \in Buffer /\ SameMaps(e, a)
  BY <1>6, CountErrorType, CountErrorMaps
<1>9. /\ e.sector_offset = x /\ e.remaining = b.remaining - n
      /\ e.soft_error_map = {} /\ e.hard_error_map = {}
  BY <1>6, <1>7, <1>8 DEF SameMaps, Goes
<1>10. e.remaining > 0 /\ x \in Nat
  BY <1>1, <1>2, <1>9
<1>11. x + (b.remaining - n) = SectorsPerSegment
  <2>1. Known(b)
    BY UnderWayKnown
  <2>2. b.sector_offset + b.remaining = SectorsPerSegment
    BY <2>1 DEF UnderWay, OnCourse
  <2>3. QED
    BY <1>1, <1>2, <2>2
<1>12. x \in Sectors /\ b.sector_offset <= x
  <2>1. x < SectorsPerSegment
    BY <1>1, <1>2, <1>10, <1>11
  <2>2. QED
    BY <1>1, <1>2, <1>10, <2>1, SectorsAssumption DEF Sectors
<1>13. d = [e EXCEPT !.sector_offset = offset, !.data_offset = data, !.remaining = left]
  BY <1>10 DEF skip_bad_sector
<1>14. d \in Buffer
  BY <1>8, SkipBadSectorType
<1> HIDE DEF offset, data, left
<1>15. /\ d.sector_offset = offset /\ d.soft_error_map = {} /\ d.hard_error_map = {}
  BY <1>8, <1>9, <1>13 DEF Buffer
<1> HIDE DEF d
<1>16. d.sector_offset = x + 1 /\ d.sector_offset - 1 = x
  BY <1>9, <1>10, <1>15 DEF offset
<1> HIDE DEF x
<1>17. c = update_error_maps(d, x)
  BY <1>3, <1>16
<1>18. \/ c.soft_error_map = {x} /\ c.hard_error_map = {}
       \/ c.soft_error_map = {} /\ c.hard_error_map = {x}
  BY <1>12, <1>14, <1>15, <1>17, FirstFlag
<1>19. c.sector_offset = d.sector_offset
  BY <1>10, <1>14, <1>17, UpdateErrorMapsFlags
<1>20. c.sector_offset = x + 1
  BY <1>16, <1>19
<1>21. QED
  BY <1>4, <1>5, <1>12, <1>18, <1>20

(* What a retry makes of the buffer: it resumes at the sector at fault, or *)
(* behind it if that is given up.                                          *)
LEMMA RetriesAt ==
    ASSUME NEW b \in Buffer, OnCourse(b), b.stray = 0, BadSectors[b.segment_id] # Sectors,
           NEW x \in Sectors, b.sector_offset = x + 1,
           \/ b.soft_error_map = {x} /\ b.hard_error_map = {}
           \/ b.soft_error_map = {} /\ b.hard_error_map = {x},
           NEW skip, skip = find_resume_point(b),
           NEW c, c = [b EXCEPT !.status = "error", !.skip = skip]
    PROVE  Resumable(c) /\ (c.hard_error_map # {} => Cardinality(c.hard_error_map) = 1)
<1>1. /\ c.soft_error_map = b.soft_error_map /\ c.hard_error_map = b.hard_error_map
      /\ c.skip = skip /\ c.stray = b.stray /\ c.segment_id = b.segment_id
  BY DEF Buffer
<1>2. SkipOK(c)
  BY ResumePointMaps
<1>3. Cardinality({x}) = 1
  BY FS_Singleton
<1>4. ASSUME b.soft_error_map = {x}, b.hard_error_map = {} PROVE skip = x
  <2>1. x \in Nat /\ x < SectorsPerSegment /\ SectorsPerSegment \in Nat
    BY SectorsAssumption DEF Sectors
  <2>2. /\ b.sector_offset \in 1 .. SectorsPerSegment
        /\ b.soft_error_map \cap (0 .. (b.sector_offset - 1)) = {x}
    BY <1>4, <2>1
  <2>3. ~(b.sector_offset < 1 \/ b.sector_offset > SectorsPerSegment)
    BY <2>1, <2>2
  <2>4. skip = CHOOSE s \in {x} : \A t \in {x} : s <= t
    BY <2>2, <2>3 DEF find_resume_point
  <2>5. \E s \in {x} : \A t \in {x} : s <= t
    BY <2>1
  <2>6. QED
    BY <2>4, <2>5
<1>5. x \in Nat
  BY SectorsAssumption DEF Sectors
<1>6. ASSUME c.hard_error_map = {} PROVE \A s \in c.soft_error_map : c.skip <= s
  <2>1. c.soft_error_map = {x} /\ c.skip = x
    BY <1>1, <1>4, <1>6
  <2>2. QED
    BY <1>5, <2>1
<1>7. Resumable(c)
  BY <1>1, <1>2, <1>6 DEF Resumable
<1>8. c.hard_error_map # {} => c.hard_error_map = {x}
  BY <1>1
<1>9. QED
  BY <1>3, <1>7, <1>8

-----------------------------------------------------------------------------
(* The handler                                                              *)

(* While the driver writes, and the handler runs at the end of a transfer. *)
LEMMA HandlerFacts ==
    ASSUME DataInv, Interrupt, Live, Transferring
    PROVE  /\ WriteInv /\ LiveOK
           /\ driver_state \in {"writing", "deleting"}
           /\ HEAD.status = driver_state /\ UnderWay(HEAD) /\ Resumable(HEAD)
           /\ ~Stalled /\ Queued(head)
           /\ UNCHANGED <<tail, driver_state, pc, bytes, call, result, payload, written>>
           /\ Due' = Due /\ (Closing' <=> Closing) /\ (Unfilled' <=> Unfilled)
           /\ runner_status = "running" \/ Closing
           /\ driver_state = "deleting" => Closing /\ ~Unfilled
           /\ pc \in {"judge", "runner", "fill"} => TAIL.status = "done" \/ (pc = "runner" /\ bytes # "ok")
           /\ pc \in {"runner", "fill", "start"} => bytes = "ok"
           /\ \A i \in Ring : buffers[i].status = "done" => buffers'[i] = buffers[i]
<1>1. WriteInv /\ PhaseOK /\ LiveOK
  BY DEF DataInv
<1>2. RingOK /\ MapsOK /\ TransferOK /\ RunnerOK /\ IsrInv /\ ProcTypeOK
  BY <1>1 DEF LiveOK, WriteInv
<1>3. /\ driver_state \in {"writing", "deleting"}
  BY <1>1, <1>2 DEF PhaseOK, Live, IsrInv, IsrTypeOK, DriverStates
<1>4. HEAD.status = driver_state /\ HEAD.status # "done"
  BY <1>2, <1>3 DEF TransferOK
<1>5. UnderWay(HEAD) /\ Resumable(HEAD)
  BY <1>2, <1>3, <1>4 DEF TransferOK, MapsOK
<1>6. ~Stalled /\ Queued(head)
  BY <1>1, <1>2, <1>3, <1>4, HeadQueued DEF Stalled
<1>7. /\ UNCHANGED <<pc, bytes, call, result, payload, written>> /\ accepted' = accepted
  BY DEF Interrupt, procvars
<1>8. /\ UNCHANGED <<tail, driver_state>>
      /\ \A i \in Ring : buffers[i].status = "done" => buffers'[i] = buffers[i]
  BY <1>2, HandlerStep DEF Interrupt
<1>9. Due' = Due
  BY <1>7 DEF Due
<1>10. (Closing' <=> Closing) /\ (Unfilled' <=> Unfilled)
  BY <1>7 DEF Closing, Unfilled
<1>11. /\ runner_status = "running" \/ Closing
       /\ driver_state = "deleting" => Closing /\ ~Unfilled
  BY <1>2, <1>4 DEF TransferOK, RunnerOK
<1>12. pc \in {"runner", "fill", "start"} => bytes = "ok"
  BY <1>2 DEF RunnerOK, ProcTypeOK
<1>13. pc \in {"judge", "runner", "fill"} => TAIL.status = "done" \/ (pc = "runner" /\ bytes # "ok")
  BY <1>2, <1>12 DEF RunnerOK
<1>14. QED
  BY <1>1, <1>3, <1>4, <1>5, <1>6, <1>7, <1>8, <1>9, <1>10, <1>11, <1>12, <1>13

(* What the transfer leaves on tape.                                       *)
LEMMA TapeWritten ==
    ASSUME DataInv, Interrupt, Live, Transferring, NEW m, m = buffers'[head].moved,
           HEAD.moved \subseteq m
    PROVE  /\ \A seg \in Segments : seg # HEAD.segment_id => tape'[seg] = tape[seg]
           /\ m # {} => /\ tape'[HEAD.segment_id].data = payload[head]
                        /\ m \subseteq tape'[HEAD.segment_id].blocks
           /\ tape[HEAD.segment_id].data = payload[head] =>
                 /\ tape'[HEAD.segment_id].data = payload[head]
                 /\ tape[HEAD.segment_id].blocks \subseteq tape'[HEAD.segment_id].blocks
<1>1. WriteInv /\ DataOK /\ HEAD.status # "done"
  BY HandlerFacts DEF LiveOK
<1>2. /\ HEAD.segment_id \in Segments
      /\ tape \in [Segments -> [data : Payloads, blocks : SUBSET Nat]]
  BY <1>1, WriteTypes
<1>3. CASE m = HEAD.moved
  <2>1. tape' = tape
    BY <1>3 DEF Interrupt
  <2>2. m # {} => /\ tape[HEAD.segment_id].data = payload[head]
                  /\ m \subseteq tape[HEAD.segment_id].blocks
    BY <1>1, <1>3 DEF DataOK
  <2>3. QED
    BY <2>1, <2>2
<1>4. CASE m # HEAD.moved
  <2> DEFINE old == tape[HEAD.segment_id]
             blocks == IF old.data = payload[head] THEN old.blocks \cup m ELSE m
             new == [data |-> payload[head], blocks |-> blocks]
  <2>1. tape' = [tape EXCEPT ![HEAD.segment_id] = new]
    BY <1>4 DEF Interrupt, Transferring
  <2>2. /\ new.data = payload[head] /\ m \subseteq new.blocks
        /\ old.data = payload[head] => old.blocks \subseteq new.blocks
    OBVIOUS
  <2> HIDE DEF new
  <2>3. QED
    BY <1>2, <2>1, <2>2
<1>5. QED
  BY <1>3, <1>4

(* The segment has nothing, or nothing more, to be written.                *)
Written(b) == \/ Sectors \ {0} \subseteq BadSectors[b.segment_id]
              \/ b.moved # {} /\ Blocks(b.segment_id) \subseteq b.moved

(* No promise is broken by what is written; and the promise of HEAD's      *)
(* segment is kept when it has been written.                               *)
LEMMA PromisesKept ==
    ASSUME DataInv, Interrupt, Live, Transferring, HEAD.moved \subseteq buffers'[head].moved,
           buffers'[head].segment_id = HEAD.segment_id,
           NEW hs, hs = HEAD.segment_id
    PROVE  /\ \A seg \in Segments :
                 Due[seg] # 0 /\ OnTape(seg, Due[seg]) => OnTape(seg, Due[seg])'
           /\ Written(buffers'[head]) /\ Due[hs] # 0 => OnTape(hs, Due[hs])'
<1> DEFINE m == buffers'[head].moved
<1>1. /\ WriteInv /\ DataOK /\ Queued(head) /\ Due' = Due /\ head \in Ring
      /\ hs \in Segments
  BY HandlerFacts, WriteTypes DEF LiveOK
<1>2. Due[hs] \in {0, payload[head]}
  BY <1>1 DEF DataOK, HEAD
<1>3. /\ \A seg \in Segments : seg # hs => tape'[seg] = tape[seg]
      /\ m # {} => tape'[hs].data = payload[head] /\ m \subseteq tape'[hs].blocks
      /\ tape[hs].data = payload[head] =>
            /\ tape'[hs].data = payload[head]
            /\ tape[hs].blocks \subseteq tape'[hs].blocks
  BY TapeWritten
<1>4. ASSUME NEW seg \in Segments, Due[seg] # 0, OnTape(seg, Due[seg])
      PROVE  \/ tape'[seg].data = Due[seg] /\ Blocks(seg) \subseteq tape'[seg].blocks
             \/ Sectors \ {0} \subseteq BadSectors[seg]
  <2>1. CASE seg = hs
    BY <1>2, <1>3, <1>4, <2>1 DEF OnTape
  <2>2. CASE seg # hs
    BY <1>3, <1>4, <2>2 DEF OnTape
  <2>3. QED
    BY <2>1, <2>2
<1>5. ASSUME Written(buffers'[head]), Due[hs] # 0
      PROVE  \/ tape'[hs].data = Due[hs] /\ Blocks(hs) \subseteq tape'[hs].blocks
             \/ Sectors \ {0} \subseteq BadSectors[hs]
  BY <1>2, <1>3, <1>5 DEF Written
<1>6. \A seg \in Segments : OnTape(seg, Due[seg])' <=>
             \/ tape'[seg].data = Due[seg] /\ Blocks(seg) \subseteq tape'[seg].blocks
             \/ Sectors \ {0} \subseteq BadSectors[seg]
  BY <1>1 DEF OnTape
<1>7. QED
  BY <1>1, <1>4, <1>5, <1>6

(* The phase of the call is none of the handler's business.                *)
LEMMA InterruptPhase ==
    ASSUME DataInv, Interrupt
    PROVE  PhaseOK' /\ RestOK' /\ (Live' <=> Live)
<1>1. PhaseOK /\ RestOK /\ IsrInv
  BY DEF DataInv, WriteInv
<1>2. UNCHANGED <<pc, call, again, bytes, result>> /\ UNCHANGED accepted /\ fdc_isr
  BY DEF Interrupt, procvars
<1>3. /\ driver_state' = driver_state
      /\ Transferring' => Transferring
      /\ fdc_mode # "seeking" => Transferring
  BY <1>1, <1>2, HandlerStep
<1>4. PhaseOK'
  BY <1>1, <1>2, <1>3 DEF PhaseOK, WantedState
<1>5. RestOK'
  <2>1. SUFFICES ASSUME driver_state = "waiting"
                 PROVE  \A seg \in Segments : accepted[seg] # 0 => OnTape(seg, accepted[seg])'
    BY <1>2, <1>3 DEF RestOK
  <2>2. tape' = tape
    BY <1>1, <1>3, <2>1 DEF PhaseOK, Interrupt
  <2>3. QED
    BY <1>1, <1>2, <2>1, <2>2 DEF RestOK, OnTape
<1>6. QED
  BY <1>2, <1>3, <1>4, <1>5 DEF Live

(* HEAD stays, its transfer goes on, or ends with an error.                *)
LEMMA StayData ==
    ASSUME DataInv, WriteInv', Interrupt, Live, Transferring,
           NEW c, buffers' = [buffers EXCEPT ![head] = c], head' = head,
           UNCHANGED <<old_driver_state, old_segment_id>>,
           c.segment_id = HEAD.segment_id, HEAD.moved \subseteq c.moved, Resumable(c),
           c.status \in {driver_state, "error"},
           c.hard_error_map # {} =>
              Cardinality(c.hard_error_map) = 1 /\ ~Transferring',
           Transferring' => UnderWay(c) /\ c.status = driver_state,
           runner_status' = runner_status \/ (runner_status' = "aborting" /\ c.status = "error")
    PROVE  LiveOK'
<1>1. /\ WriteInv /\ LiveOK
      /\ driver_state \in {"writing", "deleting"}
      /\ HEAD.status = driver_state
      /\ ~Stalled /\ Queued(head)
      /\ UNCHANGED <<tail, driver_state, pc, bytes, call, payload, written>>
      /\ Due' = Due /\ (Closing' <=> Closing) /\ (Unfilled' <=> Unfilled)
      /\ runner_status = "running" \/ Closing
      /\ driver_state = "deleting" => Closing /\ ~Unfilled
      /\ pc \in {"judge", "runner", "fill"} => TAIL.status = "done" \/ (pc = "runner" /\ bytes # "ok")
      /\ pc \in {"runner", "fill", "start"} => bytes = "ok"
  BY HandlerFacts
<1>2. /\ head \in Ring /\ tail \in Ring /\ HEAD.segment_id \in Segments
      /\ \A i \in Ring : buffers[i].segment_id \in Segments
      /\ buffers \in [Ring -> Buffer]
  BY <1>1, WriteTypes
<1>3. RingOK /\ SegOK /\ MapsOK /\ HardOK /\ TransferOK /\ RunnerOK /\ DataOK
  BY <1>1 DEF LiveOK
<1>4. /\ \A i \in Ring : buffers'[i] = IF i = head THEN c ELSE buffers[i]
      /\ buffers'[head] = c
  BY <1>2
<1>5. HEAD' = c /\ c.status # "done" /\ c.status # "waiting"
  BY <1>1, <1>4 DEF HEAD
<1>6. \A i \in Ring : Queued(i)' <=> Queued(i)
  BY <1>1, <1>5 DEF Queued
<1>7. \A i \in Ring : /\ buffers'[i].segment_id = buffers[i].segment_id
                      /\ i # head => buffers'[i] = buffers[i]
  BY <1>4 DEF HEAD
<1>8. SetUp /\ SetUp'
  BY <1>1, <1>3, <1>5 DEF MapsOK, SetUp, Retrying
<1>9. RingOK'
  <2>1. \A i \in Ring : i # head' /\ Queued(i)' => buffers'[i].status = "waiting"
    BY <1>3, <1>6, <1>7 DEF RingOK
  <2>2. \A i \in Ring : i # head' /\ ~ Queued(i)' => buffers'[i].status = "done"
    BY <1>1, <1>3, <1>6, <1>7 DEF RingOK
  <2>3. QED
    BY <1>1, <1>5, <2>1, <2>2 DEF RingOK
<1>10. SegOK'
  <2>1. \A i \in Ring : Queued(i)' =>
           /\ buffers'[i].segment_id <= call'.segment
           /\ buffers'[i].segment_id = call'.segment => payload'[i] = written' /\ ~Unfilled'
    BY <1>1, <1>3, <1>6, <1>7 DEF SegOK
  <2>2. \A i, j \in Ring :
           Queued(i)' /\ Queued(j)' /\ buffers'[i].segment_id = buffers'[j].segment_id => i = j
    BY <1>3, <1>6, <1>7 DEF SegOK
  <2>3. \A i \in Ring : i # head' /\ Queued(i)' =>
           buffers'[i].segment_id # old_segment_id' /\ buffers'[i].moved = {}
    BY <1>3, <1>6, <1>7 DEF SegOK
  <2>4. /\ old_segment_id' <= call'.segment
        /\ old_segment_id' = call'.segment => ~Unfilled'
    BY <1>1, <1>3 DEF SegOK
  <2>5. QED
    BY <2>1, <2>2, <2>3, <2>4 DEF SegOK
<1>11. MapsOK'
  BY <1>5, <1>8 DEF MapsOK
<1>12. HardOK'
  BY <1>1, <1>5 DEF HardOK
<1>13. TransferOK'
  BY <1>1, <1>5 DEF TransferOK
<1>14. RunnerOK'
  <2>1. TAIL.status = "done" => TAIL'.status = "done"
    BY <1>1, <1>2, <1>7 DEF TAIL, HEAD
  <2>2. runner_status' # "do_abort" /\ (runner_status' = "aborting" /\ HEAD'.status = driver_state' => Closing')
    BY <1>1, <1>3, <1>5 DEF RunnerOK
  <2>3. /\ pc' = "judge" /\ TAIL'.status # "done" => ~Transferring'
        /\ pc' \in {"runner", "fill"} /\ bytes' = "ok" => TAIL'.status = "done"
    BY <1>1, <2>1
  <2>4. pc' = "fill" /\ bytes' = "ok" /\ runner_status' \notin {"idle", "running"}
           => next(tail') # head' \/ HEAD'.status = "error"
    BY <1>1, <1>3, <1>5 DEF RunnerOK
  <2>5. pc' = "start" /\ bytes' = "ok" /\ runner_status' \notin {"idle", "running"}
           => head' # tail' \/ HEAD'.status # "waiting"
    BY <1>5
  <2>6. QED
    BY <1>1, <2>2, <2>3, <2>4, <2>5 DEF RunnerOK
<1>15. DataOK'
  <2>1. HEAD'.status # "done" /\ HEAD'.moved # {} =>
           /\ tape'[HEAD'.segment_id].data = payload'[head']
           /\ HEAD'.moved \subseteq tape'[HEAD'.segment_id].blocks
    BY <1>1, <1>4, <1>5, TapeWritten
  <2>2. \A i \in Ring : Queued(i)' => Due'[buffers'[i].segment_id] \in {0, payload'[i]}
    BY <1>1, <1>3, <1>6, <1>7 DEF DataOK
  <2>3. \A seg \in Segments : Due'[seg] # 0 =>
           \/ OnTape(seg, Due[seg])'
           \/ \E i \in Ring : /\ Queued(i)' /\ payload'[i] = Due'[seg]
                              /\ buffers'[i].segment_id = seg
    <3>1. \A seg \in Segments : Due[seg] # 0 /\ OnTape(seg, Due[seg]) => OnTape(seg, Due[seg])'
      BY <1>4, PromisesKept
    <3>2. QED
      BY <1>1, <1>3, <1>6, <1>7, <3>1 DEF DataOK
  <2>4. QED
    BY <2>1, <2>2, <2>3 DEF DataOK
<1>16. QED
  BY <1>9, <1>10, <1>11, <1>12, <1>13, <1>14, <1>15 DEF LiveOK

(* HEAD moves on: the queue is shorter by its first buffer.                *)
LEMMA ShiftQueue ==
    ASSUME DataInv, WriteInv', Interrupt, Live, Transferring, head' = next(head),
           buffers'[head].status = "done" \/ next(head) # head
    PROVE  /\ head' \in Ring
           /\ \A i \in Ring : Queued(i)' <=> Queued(i) /\ i # head
           /\ head' = tail => HEAD'.status = "done"
           /\ head' # tail => Queued(head)' /\ head' # head
                              /\ buffers[head'].status = "waiting"
<1>1. /\ WriteInv /\ RingOK /\ driver_state \in {"writing", "deleting"}
      /\ HEAD.status = driver_state /\ ~Stalled /\ tail' = tail
      /\ \A i \in Ring : buffers[i].status = "done" => buffers'[i] = buffers[i]
  BY HandlerFacts DEF LiveOK
<1>2. head \in Ring /\ tail \in Ring
  BY <1>1, WriteTypes
<1>3. head' \in Ring
  BY <1>2, NextInRing
<1>4. HEAD'.status = "done" <=> buffers'[head'].status = "done"
  BY DEF HEAD
<1>5. ASSUME head # tail PROVE buffers[tail].status = "done" /\ buffers'[tail].status = "done"
  <2>1. ~ Queued(tail)
    BY <1>2, <1>5, BetweenFacts DEF Queued
  <2>2. buffers[tail].status = "done"
    BY <1>1, <1>2, <1>5, <2>1 DEF RingOK
  <2>3. QED
    BY <1>1, <1>2, <2>2
<1>6. head' = tail => HEAD'.status = "done"
  <2>1. CASE head # tail
    BY <1>4, <1>5, <2>1
  <2>2. CASE head = tail
    BY <1>4, <2>2
  <2>3. QED
    BY <2>1, <2>2
<1>7. ASSUME NEW i \in Ring PROVE Queued(i)' <=> Queued(i) /\ i # head
  <2>1. Queued(i)' <=> Between(head', i, tail)
    BY <1>1, <1>6 DEF Queued
  <2>2. CASE head # tail
    BY <1>2, <2>1, <2>2, BetweenFacts DEF Queued
  <2>3. CASE head = tail
    BY <1>1, <1>2, <2>1, <2>3, BetweenFacts DEF Queued
  <2>4. QED
    BY <2>2, <2>3
<1>8. ASSUME head' # tail
      PROVE  Queued(head)' /\ head' # head /\ buffers[head'].status = "waiting"
  <2>1. Queued(head)'
    BY <1>1, <1>2, <1>3, <1>8, BetweenFacts DEF Queued
  <2>2. Queued(head') /\ head' # head
    <3>1. ASSUME NEW i \in Ring, i = head' PROVE Queued(i) /\ i # head
      <4>1. Queued(i)'
        BY <2>1, <3>1
      <4>2. QED
        BY <1>7, <4>1
    <3>2. QED
      BY <1>3, <3>1
  <2>3. buffers[head'].status = "waiting"
    BY <1>1, <1>3, <2>2 DEF RingOK
  <2>4. QED
    BY <2>1, <2>2, <2>3
<1>9. QED
  BY <1>3, <1>6, <1>7, <1>8

(* The data of the others stays where it is, and HEAD's is on tape.        *)
LEMMA ShiftData ==
    ASSUME DataInv, WriteInv', Interrupt, Live, Transferring, head' = next(head),
           buffers'[head].status = "done" \/ next(head) # head,
           buffers'[head].segment_id = HEAD.segment_id,
           HEAD.moved \subseteq buffers'[head].moved, Written(buffers'[head]),
           \A i \in Ring : i # head => /\ buffers'[i].segment_id = buffers[i].segment_id
                                       /\ buffers'[i].moved = buffers[i].moved
    PROVE  DataOK' /\ (HEAD'.status # "done" => HEAD'.moved = {})
<1>1. /\ WriteInv /\ RingOK /\ SegOK /\ DataOK /\ Queued(head)
      /\ UNCHANGED <<tail, payload>> /\ Due' = Due
  BY HandlerFacts DEF LiveOK
<1>2. head \in Ring /\ \A i \in Ring : buffers[i].segment_id \in Segments
  BY <1>1, WriteTypes
<1>3. /\ head' \in Ring
      /\ \A i \in Ring : Queued(i)' <=> Queued(i) /\ i # head
      /\ head' = tail => HEAD'.status = "done"
      /\ head' # tail => Queued(head)' /\ head' # head
  BY ShiftQueue
<1>4. HEAD'.status # "done" => HEAD'.moved = {}
  <2>1. SUFFICES ASSUME HEAD'.status # "done" PROVE buffers'[head'].moved = {}
    BY DEF HEAD
  <2>2. head' # head /\ head' # tail
    BY <1>3, <2>1
  <2>3. ASSUME NEW i \in Ring, i = head' PROVE Queued(i)
    <3>1. Queued(i)'
      BY <1>3, <2>2, <2>3
    <3>2. QED
      BY <1>3, <3>1
  <2>4. buffers[head'].moved = {}
    BY <1>1, <1>3, <2>2, <2>3 DEF SegOK
  <2>5. QED
    BY <1>3, <2>2, <2>4
<1>5. \A i \in Ring : Queued(i)' => Due'[buffers'[i].segment_id] \in {0, payload'[i]}
  BY <1>1, <1>3 DEF DataOK
<1>6. ASSUME NEW seg \in Segments, Due'[seg] # 0
      PROVE  \/ OnTape(seg, Due[seg])'
             \/ \E i \in Ring : /\ Queued(i)' /\ payload'[i] = Due'[seg]
                                /\ buffers'[i].segment_id = seg
  <2>1. Due[seg] # 0
    BY <1>1, <1>6
  <2>2. \/ OnTape(seg, Due[seg])
        \/ \E i \in Ring : /\ Queued(i) /\ payload[i] = Due[seg]
                           /\ buffers[i].segment_id = seg
    BY <1>1, <2>1 DEF DataOK
  <2>3. CASE OnTape(seg, Due[seg])
    BY <2>1, <2>3, PromisesKept
  <2>4. CASE HEAD.segment_id = seg
    BY <2>1, <2>4, PromisesKept
  <2>5. ASSUME NEW i \in Ring, Queued(i), payload[i] = Due[seg], buffers[i].segment_id = seg,
               i # head
        PROVE  Queued(i)' /\ payload'[i] = Due'[seg] /\ buffers'[i].segment_id = seg
    BY <1>1, <1>3, <2>5
  <2>6. QED
    BY <2>2, <2>3, <2>4, <2>5 DEF HEAD
<1>7. QED
  BY <1>4, <1>5, <1>6 DEF DataOK

(* HEAD is done with, the next buffer waits.                               *)
LEMMA LeaveData ==
    ASSUME DataInv, WriteInv', Interrupt, Live, Transferring, head' = next(head),
           NEW c, buffers' = [buffers EXCEPT ![head] = c],
           UNCHANGED <<old_driver_state, old_segment_id>>,
           \/ c.status = "done"
           \/ /\ c.status = "error" /\ next(head) # head
              /\ Closing /\ runner_status' = "aborting",
           c.segment_id = HEAD.segment_id, HEAD.moved \subseteq c.moved, Written(c),
           ~Transferring', runner_status' # "do_abort"
    PROVE  LiveOK'
<1>1. /\ WriteInv /\ LiveOK
      /\ driver_state \in {"writing", "deleting"}
      /\ HEAD.status = driver_state
      /\ ~Stalled /\ Queued(head)
      /\ UNCHANGED <<tail, driver_state, pc, bytes, call, payload, written>>
      /\ Due' = Due /\ (Closing' <=> Closing) /\ (Unfilled' <=> Unfilled)
      /\ driver_state = "deleting" => Closing /\ ~Unfilled
      /\ pc \in {"judge", "runner", "fill"} => TAIL.status = "done" \/ (pc = "runner" /\ bytes # "ok")
      /\ pc \in {"runner", "fill", "start"} => bytes = "ok"
      /\ \A i \in Ring : buffers[i].status = "done" => buffers'[i] = buffers[i]
  BY HandlerFacts
<1>2. /\ head \in Ring /\ tail \in Ring /\ HEAD.segment_id \in Segments
      /\ \A i \in Ring : buffers[i].segment_id \in Segments
      /\ buffers \in [Ring -> Buffer]
  BY <1>1, WriteTypes
<1>3. RingOK /\ SegOK /\ MapsOK /\ HardOK /\ TransferOK /\ RunnerOK
  BY <1>1 DEF LiveOK
<1>4. /\ \A i \in Ring : i # head => buffers'[i] = buffers[i]
      /\ buffers'[head] = c
  BY <1>2
<1>5. /\ head' \in Ring
      /\ \A i \in Ring : Queued(i)' <=> Queued(i) /\ i # head
      /\ head' = tail => HEAD'.status = "done"
      /\ head' # tail => head' # head /\ buffers[head'].status = "waiting"
  BY <1>4, ShiftQueue
<1>6. HEAD'.status \in {"waiting", "done"} /\ (HEAD'.status = "done" => head' = tail)
  <2>1. HEAD' = buffers'[head']
    BY DEF HEAD
  <2>2. QED
    BY <1>4, <1>5, <2>1
<1>7. DataOK' /\ (HEAD'.status # "done" => HEAD'.moved = {})
  BY <1>4, ShiftData
<1>8. RingOK'
  <2>1. \A i \in Ring : i # head' /\ Queued(i)' => buffers'[i].status = "waiting"
    BY <1>3, <1>4, <1>5 DEF RingOK
  <2>2. ASSUME NEW i \in Ring, i # head', ~ Queued(i)'
        PROVE  buffers'[i].status = "done" \/ Stalled'
    <3>1. CASE i = head
      <4>1. c.status # "done" => Stalled'
        BY <1>1, <1>6 DEF Stalled
      <4>2. QED
        BY <1>4, <3>1, <4>1
    <3>2. CASE i # head
      BY <1>1, <1>3, <1>4, <1>5, <2>2, <3>2 DEF RingOK
    <3>3. QED
      BY <3>1, <3>2
  <2>3. QED
    BY <1>1, <1>6, <2>1, <2>2 DEF RingOK
<1>9. SegOK'
  <2>1. \A i \in Ring : Queued(i)' =>
           /\ buffers'[i].segment_id <= call'.segment
           /\ buffers'[i].segment_id = call'.segment => payload'[i] = written' /\ ~Unfilled'
    BY <1>1, <1>3, <1>4, <1>5 DEF SegOK
  <2>2. \A i, j \in Ring :
           Queued(i)' /\ Queued(j)' /\ buffers'[i].segment_id = buffers'[j].segment_id => i = j
    BY <1>3, <1>4, <1>5 DEF SegOK
  <2>3. \A i \in Ring : i # head' /\ Queued(i)' =>
           buffers'[i].segment_id # old_segment_id' /\ buffers'[i].moved = {}
    BY <1>3, <1>4, <1>5 DEF SegOK
  <2>4. /\ old_segment_id' <= call'.segment
        /\ old_segment_id' = call'.segment => ~Unfilled'
    BY <1>1, <1>3 DEF SegOK
  <2>5. QED
    BY <2>1, <2>2, <2>3, <2>4 DEF SegOK
<1>10. HEAD'.status # "done" => ~SetUp'
  <2>1. SUFFICES ASSUME HEAD'.status # "done" PROVE HEAD'.segment_id # old_segment_id
    BY DEF SetUp, Retrying
  <2>2. head' # tail /\ head' # head
    BY <1>5, <2>1
  <2>3. ASSUME NEW i \in Ring, i = head' PROVE buffers[i].segment_id # old_segment_id
    <3>1. Queued(i)'
      BY <1>4, <1>5, <2>2, <2>3, ShiftQueue
    <3>2. QED
      BY <1>3, <1>5, <3>1 DEF SegOK
  <2>4. QED
    BY <1>4, <1>5, <2>2, <2>3 DEF HEAD
<1>11. MapsOK' /\ HardOK'
  BY <1>6, <1>7, <1>10 DEF MapsOK, HardOK
<1>12. TransferOK'
  BY DEF TransferOK
<1>13. RunnerOK'
  <2>1. TAIL.status = "done" => TAIL'.status = "done"
    BY <1>1, <1>2 DEF TAIL
  <2>2. runner_status' = "aborting" /\ HEAD'.status = driver_state' => Closing'
    BY <1>1, <1>6
  <2>3. pc' \in {"runner", "fill"} /\ bytes' = "ok" => TAIL'.status = "done"
    BY <1>1, <2>1
  <2>4. pc' = "fill" /\ bytes' = "ok" => next(tail') # head'
    <3>1. SUFFICES ASSUME pc = "fill" PROVE next(tail) # next(head)
      BY <1>1
    <3>2. tail # head
      BY <1>1, <3>1 DEF TAIL, HEAD
    <3>3. QED
      BY <1>2, <3>2, NextDiffers
  <2>5. head' # tail' \/ HEAD'.status # "waiting"
    BY <1>1, <1>5
  <2>6. QED
    BY <1>1, <2>2, <2>3, <2>4, <2>5 DEF RunnerOK
<1>14. QED
  BY <1>7, <1>8, <1>9, <1>11, <1>12, <1>13 DEF LiveOK

(* HEAD is done with, and the next buffer is set up.                       *)
LEMMA AheadData ==
    ASSUME DataInv, WriteInv', Interrupt, Live, Transferring,
           head' = next(head), next(head) # head,
           NEW c, NEW p,
           buffers' = [buffers EXCEPT ![head] = c, ![next(head)] = p],
           c.status = "done",
           c.segment_id = HEAD.segment_id, HEAD.moved \subseteq c.moved, Written(c),
           p.segment_id = buffers[next(head)].segment_id,
           p.moved = buffers[next(head)].moved, UnderWay(p), Resumable(p),
           old_driver_state' = driver_state, old_segment_id' = p.segment_id,
           \/ p.status = driver_state /\ runner_status' = runner_status
           \/ p.status = "waiting" /\ runner_status' = "aborting" /\ ~Transferring'
    PROVE  LiveOK'
<1>1. /\ WriteInv /\ LiveOK
      /\ driver_state \in {"writing", "deleting"}
      /\ HEAD.status = driver_state
      /\ ~Stalled /\ Queued(head)
      /\ UNCHANGED <<tail, driver_state, pc, bytes, call, payload, written>>
      /\ Due' = Due /\ (Closing' <=> Closing) /\ (Unfilled' <=> Unfilled)
      /\ runner_status = "running" \/ Closing
      /\ driver_state = "deleting" => Closing /\ ~Unfilled
      /\ pc \in {"judge", "runner", "fill"} => TAIL.status = "done" \/ (pc = "runner" /\ bytes # "ok")
      /\ pc \in {"runner", "fill", "start"} => bytes = "ok"
      /\ \A i \in Ring : buffers[i].status = "done" => buffers'[i] = buffers[i]
  BY HandlerFacts
<1>2. /\ head \in Ring /\ tail \in Ring /\ HEAD.segment_id \in Segments
      /\ \A i \in Ring : buffers[i].segment_id \in Segments
      /\ buffers \in [Ring -> Buffer] /\ next(head) \in Ring
  BY <1>1, WriteTypes, NextInRing
<1>3. RingOK /\ SegOK /\ MapsOK /\ HardOK /\ TransferOK /\ RunnerOK
  BY <1>1 DEF LiveOK
<1>4. /\ \A i \in Ring : i # head /\ i # head' => buffers'[i] = buffers[i]
      /\ buffers'[head] = c /\ buffers'[head'] = p
  BY <1>2
<1>5. /\ head' \in Ring
      /\ \A i \in Ring : Queued(i)' <=> Queued(i) /\ i # head
      /\ head' = tail => HEAD'.status = "done"
      /\ head' # tail => Queued(head)'
  BY <1>4, ShiftQueue
<1>6. /\ HEAD' = p /\ p.status \in {"waiting", driver_state}
      /\ p.status # "done" /\ head' # tail
  <2>1. HEAD' = p
    BY <1>4 DEF HEAD
  <2>2. p.status \in {"waiting", driver_state} /\ p.status # "done"
    BY <1>1
  <2>3. QED
    BY <1>5, <2>1, <2>2
<1>7. \A i \in Ring : i = head' => Queued(i) /\ Queued(i)'
  BY <1>5, <1>6
<1>8. \A i \in Ring : i # head => /\ buffers'[i].segment_id = buffers[i].segment_id
                                  /\ buffers'[i].moved = buffers[i].moved
  BY <1>4
<1>9. DataOK'
  BY <1>4, <1>8, ShiftData
<1>10. RingOK'
  <2>1. \A i \in Ring : i # head' /\ Queued(i)' => buffers'[i].status = "waiting"
    BY <1>3, <1>4, <1>5 DEF RingOK
  <2>2. \A i \in Ring : i # head' /\ ~ Queued(i)' => buffers'[i].status = "done"
    BY <1>1, <1>3, <1>4, <1>5 DEF RingOK
  <2>3. QED
    BY <1>1, <1>6, <2>1, <2>2 DEF RingOK
<1>11. SegOK'
  <2>1. \A i \in Ring : Queued(i)' =>
           /\ buffers'[i].segment_id <= call'.segment
           /\ buffers'[i].segment_id = call'.segment => payload'[i] = written' /\ ~Unfilled'
    BY <1>1, <1>3, <1>8, <1>5 DEF SegOK
  <2>2. \A i, j \in Ring :
           Queued(i)' /\ Queued(j)' /\ buffers'[i].segment_id = buffers'[j].segment_id => i = j
    BY <1>3, <1>8, <1>5 DEF SegOK
  <2>3. ASSUME NEW i \in Ring, i # head', Queued(i)'
        PROVE  buffers'[i].segment_id # old_segment_id' /\ buffers'[i].moved = {}
    <3>1. Queued(i) /\ i # head
      BY <1>5, <2>3
    <3>2. buffers'[i].moved = {}
      BY <1>3, <1>8, <3>1 DEF SegOK
    <3>3. Queued(i)' /\ buffers'[head'].segment_id = old_segment_id'
      BY <1>4, <2>3
    <3>4. QED
      BY <1>5, <1>6, <2>2, <2>3, <3>2, <3>3
  <2>4. /\ old_segment_id' <= call'.segment
        /\ old_segment_id' = call'.segment => ~Unfilled'
    <3>1. Queued(head') 
      BY <1>5, <1>7
    <3>2. /\ buffers[head'].segment_id <= call.segment
          /\ buffers[head'].segment_id = call.segment => ~Unfilled
      BY <1>3, <1>5, <3>1 DEF SegOK
    <3>3. QED
      BY <1>1, <3>2
  <2>5. QED
    BY <2>1, <2>2, <2>3, <2>4 DEF SegOK
<1>12. SetUp'
  BY <1>1, <1>6 DEF SetUp, Retrying
<1>13. MapsOK' /\ HardOK'
  BY <1>6, <1>12 DEF MapsOK, HardOK, UnderWay
<1>14. TransferOK'
  BY <1>1, <1>6 DEF TransferOK
<1>15. RunnerOK'
  <2>1. TAIL.status = "done" => TAIL'.status = "done"
    BY <1>1, <1>2 DEF TAIL
  <2>2. runner_status' # "do_abort" /\ (runner_status' = "aborting" /\ HEAD'.status = driver_state' => Closing')
    BY <1>1, <1>3, <1>6 DEF RunnerOK
  <2>3. pc' \in {"runner", "fill"} /\ bytes' = "ok" => TAIL'.status = "done"
    BY <1>1, <2>1
  <2>4. pc' = "judge" /\ TAIL'.status # "done" => ~Transferring'
    BY <1>1, <2>1
  <2>5. pc' = "fill" /\ bytes' = "ok" => next(tail') # head'
    <3>1. SUFFICES ASSUME pc = "fill" PROVE next(tail) # next(head)
      BY <1>1
    <3>2. tail # head
      BY <1>1, <3>1 DEF TAIL, HEAD
    <3>3. QED
      BY <1>2, <3>2, NextDiffers
  <2>6. head' # tail'
    BY <1>1, <1>6
  <2>7. QED
    BY <1>1, <2>2, <2>3, <2>4, <2>5, <2>6 DEF RunnerOK
<1>16. QED
  BY <1>9, <1>10, <1>11, <1>13, <1>14, <1>15 DEF LiveOK

(* The handler's transfers here are writes, and only the pausing of the    *)
(* tape may fail behind them.                                              *)
LEMMA HandlerWrites ==
    ASSUME WriteInv, Transferring, Orderly, NEW late \in Late
    PROVE  IsWrite /\ late \in {"none", "pause"}
<1>1. IsWrite
  BY DEF WriteInv, IsrInv, TransferSound, NoReading, IsWrite
<1>2. late \in {"none", "pause"}
  BY DEF Late, Orderly
<1>3. QED
  BY <1>1, <1>2

(* A segment of data that has been passed to its end is written.           *)
LEMMA GoesWritten ==
    ASSUME NEW b \in Buffer, Goes(b), b.remaining = 0
    PROVE  Written(b)
<1>1. b.segment_id \in Segments
  BY DEF Buffer
<1>2. PICK s \in Sectors : s \notin BadSectors[b.segment_id]
  <2>1. BadSectors[b.segment_id] \in SUBSET Sectors
    BY <1>1, BadSectorsAssumption
  <2>2. QED
    BY <2>1 DEF Goes, Known
<1>3. Block(b.segment_id, s) \in Blocks(b.segment_id)
  BY <1>2 DEF Blocks
<1>4. QED
  BY <1>3, CompleteData DEF Written

(* The next buffer is set up for the next segment.                         *)
LEMMA StartAheadData ==
    ASSUME DataInv, WriteInv', Interrupt, Live, Transferring, Orderly,
           NEW b \in Buffer, b.segment_id = HEAD.segment_id,
           HEAD.moved \subseteq b.moved, Written(b),
           NEW n \in Ring, n = next(head), n # head, head' = n,
           buffers[n].status = "waiting", b.next_segment = buffers[n].segment_id,
           NEW late \in {"none", "pause"}, StartAhead(b, n, late)
    PROVE  LiveOK'
<1> DEFINE seg     == b.next_segment
           ahead   == ftape_setup_new_segment(buffers[n], seg, 0)
           nextseg == IF StopNext(b) THEN 0 ELSE ahead.next_segment
           stopped == [ahead EXCEPT !.next_segment = nextseg]
           ready   == ftape_calc_next_cluster(stopped)
           st(s)   == [ready EXCEPT !.status = s]
           c       == FinishBuffer(b)
<1>1. /\ WriteInv /\ RingOK /\ SegOK /\ ~Stalled /\ driver_state \in {"writing", "deleting"}
  BY HandlerFacts DEF LiveOK
<1>2. buffers \in [Ring -> Buffer] /\ head \in Ring /\ seg \in Segments
  BY <1>1, WriteTypes
<1>3. buffers[n] \in Buffer
  BY <1>2
<1>4. PICK s \in {driver_state, "waiting"} :
         /\ buffers' = [buffers EXCEPT ![head] = c, ![n] = st(s)]
         /\ \/ s = driver_state /\ runner_status' = runner_status
            \/ s = "waiting" /\ runner_status' = "aborting" /\ Stop("idle")
  BY <1>1 DEF StartAhead, StatusAhead
<1>5. old_driver_state' = driver_state /\ old_segment_id' = seg
  BY DEF StartAhead, RememberSetup
<1>6. /\ c.status = "done" /\ c.segment_id = b.segment_id /\ c.moved = b.moved
  BY DEF FinishBuffer, Buffer
<1>7. Written(c)
  BY <1>6 DEF Written
<1> HIDE DEF c
<1>8. ~Retrying(seg)
  <2>1. Queued(n)
    BY <1>1 DEF RingOK
  <2>2. QED
    BY <1>1, <2>1 DEF SegOK, Retrying
<1>9. ahead = setup_fresh(buffers[n], seg)
  BY <1>8 DEF ftape_setup_new_segment
<1> HIDE DEF ahead
<1>10. /\ ahead \in Buffer /\ Prepares(ahead) /\ ahead.segment_id = seg
       /\ ahead.moved = buffers[n].moved
  BY <1>2, <1>3, <1>9, FreshPrepares
<1>11. nextseg \in Nat
  BY <1>10, FieldTypes DEF Buffer
<1> HIDE DEF nextseg
<1>12. stopped \in Buffer /\ SameMaps(stopped, ahead)
  BY <1>10, <1>11 DEF Buffer, SameMaps
<1>13. Prepares(stopped) /\ stopped.segment_id = seg /\ stopped.moved = buffers[n].moved
  BY <1>10, <1>12, SameMapsKeep, SameMapsMore DEF Prepares, SameMaps
<1> HIDE DEF stopped
<1>14. /\ ready \in Buffer /\ UnderWay(ready) /\ Resumable(ready)
       /\ ready.segment_id = seg /\ ready.moved = buffers[n].moved
  BY <1>12, <1>13, FirstCluster, CalcNextClusterType
<1> HIDE DEF ready
<1>15. SameMaps(st(s), ready) /\ st(s).status = s
  BY <1>14 DEF Buffer, SameMaps
<1> DEFINE p == st(s)
<1>16. buffers' = [buffers EXCEPT ![head] = c, ![n] = p]
  BY <1>4
<1> HIDE DEF st, p
<1>17. /\ UnderWay(p) /\ Resumable(p) /\ p.status = s
       /\ p.segment_id = seg /\ p.moved = buffers[n].moved
  BY <1>14, <1>15, SameMapsMore DEF SameMaps, p
<1>18. \/ p.status = driver_state /\ runner_status' = runner_status
       \/ p.status = "waiting" /\ runner_status' = "aborting" /\ ~Transferring'
  BY <1>4, <1>17, StopType DEF Modes
<1>19. QED
  BY <1>5, <1>6, <1>7, <1>16, <1>17, <1>18, AheadData

(* The segment is complete.                                                *)
LEMMA FinishData ==
    ASSUME DataInv, WriteInv', Interrupt, Live, Transferring, Orderly,
           NEW b \in Buffer, b.segment_id = HEAD.segment_id,
           HEAD.moved \subseteq b.moved, Written(b),
           b.next_segment \in {0, b.segment_id + 1},
           NEW late \in {"none", "pause"}, FinishSegment(b, late)
    PROVE  LiveOK'
<1> DEFINE eot     == (b.segment_id + 1) % SegmentsPerTrack = 0
           pausing == ~eot /\ (b.next_segment = 0 \/ RingFull)
           n       == next(head)
           c       == FinishBuffer(b)
<1>1. WriteInv /\ IsrInv /\ IsrTypeOK
  BY HandlerFacts DEF WriteInv, IsrInv
<1>2. head' = n /\ n \in Ring
  BY <1>1, NextInRing DEF FinishSegment, IsrTypeOK
<1>3. CASE ~eot /\ ~pausing /\ ~Astray(b) /\ StartAhead(b, n, late)
  <2>1. n # head /\ buffers[n].status = "waiting"
    BY <1>3 DEF RingFull
  <2>2. IsWrite
    BY <1>1 DEF WriteInv, IsrInv, TransferSound, NoReading, IsWrite
  <2>3. b.next_segment = buffers[n].segment_id
    BY <1>3, <2>2 DEF Astray
  <2>4. QED
    BY <1>2, <1>3, <2>1, <2>3, StartAheadData
<1>4. CASE /\ SetHead(c) /\ UNCHANGED setup
           /\ runner_status' # "do_abort"
           /\ Stop("idle") \/ pause_tape(late)
  <2>1. c.status = "done" /\ c.segment_id = b.segment_id /\ c.moved = b.moved
    BY DEF FinishBuffer, Buffer
  <2>2. Written(c)
    BY <2>1 DEF Written
  <2>3. buffers' = [buffers EXCEPT ![head] = c]
    BY <1>4 DEF SetHead
  <2> HIDE DEF c
  <2>4. ~ Transferring'
    BY <1>1, <1>4, StopType, PauseType DEF Modes
  <2>5. UNCHANGED <<old_driver_state, old_segment_id>>
    BY <1>4 DEF setup
  <2>6. QED
    BY <1>2, <1>4, <2>1, <2>2, <2>3, <2>4, <2>5, LeaveData
<1>5. QED
  BY <1>3, <1>4 DEF FinishSegment

(* A segment that is given up is one without data.                         *)
LEMMA GiveUpData ==
    ASSUME DataInv, WriteInv', Interrupt, Live, Transferring, Closing,
           NEW b \in Buffer, b.segment_id = HEAD.segment_id, b.moved = HEAD.moved,
           Resumable(b), b.hard_error_map = {}, Written(b), GiveUpBuffer(b)
    PROVE  LiveOK'
<1> DEFINE c == [b EXCEPT !.status = "error"]
<1>1. c.status = "error" /\ SameMaps(c, b)
  BY DEF Buffer, SameMaps
<1>2. /\ buffers' = [buffers EXCEPT ![head] = c] /\ head' = next(head)
      /\ runner_status' = "aborting" /\ Stop("idle") /\ UNCHANGED setup
  BY DEF GiveUpBuffer, SetHead
<1> HIDE DEF c
<1>3. ~ Transferring' /\ UNCHANGED <<old_driver_state, old_segment_id>>
  BY <1>2, StopType DEF Modes, setup
<1>4. /\ c.segment_id = HEAD.segment_id /\ c.moved = HEAD.moved
      /\ c.hard_error_map = {} /\ Resumable(c) /\ Written(c)
  BY <1>1, SameMapsMore DEF SameMaps, Written
<1>5. CASE next(head) = head
  BY <1>1, <1>2, <1>3, <1>4, <1>5, StayData
<1>6. CASE next(head) # head
  BY <1>1, <1>2, <1>3, <1>4, <1>6, LeaveData
<1>7. QED
  BY <1>5, <1>6

(* continue_xfer() after a cluster has been written.                       *)
LEMMA ContinueData ==
    ASSUME DataInv, WriteInv', Interrupt, Live, Transferring, Orderly,
           NEW b \in Buffer, Goes(b), b.segment_id = HEAD.segment_id,
           b.status = HEAD.status, HEAD.moved \subseteq b.moved,
           b.next_segment \in {0, b.segment_id + 1},
           NEW late \in {"none", "pause"}, continue_xfer(b, 0, late)
    PROVE  LiveOK'
<1> DEFINE c == IF b.remaining > 0 THEN ftape_calc_next_cluster(b) ELSE b
<1>1. \/ b.remaining > 0 /\ ContinueSegment(c, late)
      \/ ~(b.remaining > 0 /\ c.sector_count > 0) /\ FinishSegment(c, late)
  BY DEF continue_xfer
<1>2. b.remaining \in Nat
  BY DEF Buffer
<1>3. CASE ~(b.remaining > 0)
  <2>1. b.remaining = 0 /\ FinishSegment(b, late)
    BY <1>1, <1>2, <1>3
  <2>2. QED
    BY <2>1, GoesWritten, FinishData
<1>4. CASE b.remaining > 0
  <2>1. c = ftape_calc_next_cluster(b)
    BY <1>4
  <2> HIDE DEF c
  <2>2. /\ Goes(c) /\ UnderWay(c) /\ c \in Buffer /\ Same(c, b)
        /\ c.moved = b.moved
        /\ c.sector_count = 0 => c.remaining = 0
    BY <2>1, NextCluster
  <2>3. /\ c.segment_id = HEAD.segment_id /\ c.status = HEAD.status
        /\ c.next_segment \in {0, c.segment_id + 1} /\ HEAD.moved \subseteq c.moved
    BY <2>2 DEF Same
  <2>4. CASE ContinueSegment(c, late)
    <3>1. /\ buffers' = [buffers EXCEPT ![head] = c]
          /\ UNCHANGED <<head, runner_status>> /\ UNCHANGED setup
      BY <2>4 DEF ContinueSegment, SetHead
    <3>2. UNCHANGED <<old_driver_state, old_segment_id>>
      BY <3>1 DEF setup
    <3>3. HEAD.status = driver_state
      BY HandlerFacts
    <3>4. c.hard_error_map = {} /\ Resumable(c)
      BY <2>2 DEF Goes
    <3>5. QED
      BY <2>2, <2>3, <3>1, <3>2, <3>3, <3>4, StayData
  <2>5. CASE ~(c.sector_count > 0) /\ FinishSegment(c, late)
    <3>1. c.sector_count = 0
      BY <2>2, <2>5 DEF Buffer
    <3>2. Written(c)
      BY <2>2, <3>1, GoesWritten
    <3>3. QED
      BY <2>2, <2>3, <2>5, <3>2, FinishData
  <2>6. QED
    BY <1>1, <1>4, <2>4, <2>5
<1>5. QED
  BY <1>3, <1>4

(* A segment without data has been passed over.                            *)
LEMMA FakeData ==
    ASSUME DataInv, WriteInv', Interrupt, Live, Transferring, Orderly,
           IsFake(HEAD), NEW late \in {"none", "pause"}, FakeTransfer(late)
    PROVE  LiveOK'
<1> DEFINE b == [HEAD EXCEPT !.remaining = 0]
<1>1. /\ WriteInv /\ IsrInv /\ UnderWay(HEAD) /\ Resumable(HEAD)
      /\ driver_state \in {"writing", "deleting"} /\ HEAD.status = driver_state
      /\ runner_status = "running" \/ Closing
      /\ driver_state = "deleting" => Closing
  BY HandlerFacts DEF WriteInv
<1>2. HEAD \in Buffer /\ HEAD.next_segment \in {0, HEAD.segment_id + 1}
  BY <1>1, HeadInTransfer
<1>3. /\ b \in Buffer /\ b.remaining = 0 /\ b.segment_id = HEAD.segment_id
      /\ b.moved = HEAD.moved /\ b.status = HEAD.status
      /\ b.next_segment = HEAD.next_segment
      /\ b.soft_error_map = HEAD.soft_error_map /\ b.hard_error_map = HEAD.hard_error_map
      /\ b.stray = HEAD.stray /\ b.skip = HEAD.skip /\ Further(b, HEAD)
  BY <1>2, FieldTypes DEF Buffer, Further
<1>4. \/ UnexpectedState(b) /\ GiveUpBuffer(b)
      \/ FinishSegment(b, late)
  <2>1. continue_xfer(b, 1, late)
    BY DEF FakeTransfer
  <2> HIDE DEF b
  <2>2. ~(b.remaining > 0)
    BY <1>3
  <2>3. QED
    BY <2>1, <2>2 DEF continue_xfer
<1> HIDE DEF b
<1>5. Resumable(b) /\ b.hard_error_map = {}
  BY <1>1, <1>3, FurtherSkip DEF Resumable, UnderWay
<1>6. Written(b)
  <2>1. HEAD.bad_sector_map = Sectors \ {0}
    BY DEF IsFake
  <2>2. BadSectors[HEAD.segment_id] \in {Sectors, Sectors \ {0}}
    BY <1>1, <2>1 DEF UnderWay, Resumable, OnCourse, Known
  <2>3. QED
    BY <1>3, <2>2 DEF Written
<1>7. CASE UnexpectedState(b) /\ GiveUpBuffer(b)
  <2>1. IsWrite
    BY <1>1 DEF WriteInv, IsrInv, TransferSound, NoReading, IsWrite
  <2>2. Closing
    BY <1>1, <1>3, <1>7, <2>1 DEF UnexpectedState
  <2>3. QED
    BY <1>3, <1>5, <1>6, <1>7, <2>2, GiveUpData
<1>8. CASE FinishSegment(b, late)
  BY <1>2, <1>3, <1>6, <1>8, FinishData
<1>9. QED
  BY <1>4, <1>7, <1>8

(* A retry of HEAD.                                                        *)
LEMMA RetryData ==
    ASSUME DataInv, WriteInv', Interrupt, Live, Transferring,
           NEW b, NEW skip, NEW c, c = [b EXCEPT !.status = "error", !.skip = skip],
           c.segment_id = HEAD.segment_id, HEAD.moved \subseteq c.moved,
           c.status = "error", Resumable(c),
           c.hard_error_map # {} => Cardinality(c.hard_error_map) = 1,
           NEW late, retry_sector(b, skip, late)
    PROVE  LiveOK'
<1>1. /\ buffers' = [buffers EXCEPT ![head] = c] /\ head' = head
      /\ runner_status' = "aborting" /\ pause_tape(late) /\ UNCHANGED setup
  BY DEF retry_sector, SetHead
<1>2. ~ Transferring' /\ UNCHANGED <<old_driver_state, old_segment_id>>
  BY <1>1, HandlerFacts, PauseType DEF setup, WriteInv, IsrInv
<1>3. QED
  BY <1>1, <1>2, StayData

(* What the controller reports disagrees with the DMA residue.             *)
LEMMA MismatchData ==
    ASSUME DataInv, WriteInv', Interrupt, Live, Transferring,
           NEW late, MismatchedTransfer(late)
    PROVE  LiveOK'
<1> DEFINE b == [HEAD EXCEPT !.sector_count = 0]
           c == [b EXCEPT !.status = "error", !.skip = 0]
<1>1. /\ WriteInv /\ UnderWay(HEAD) /\ Resumable(HEAD)
  BY HandlerFacts
<1>2. HEAD \in Buffer
  BY <1>1, WriteTypes
<1>3. /\ b \in Buffer /\ b.segment_id = HEAD.segment_id /\ b.moved = HEAD.moved
      /\ b.soft_error_map = HEAD.soft_error_map /\ b.hard_error_map = HEAD.hard_error_map
      /\ b.stray = HEAD.stray
  BY <1>2, FieldTypes DEF Buffer
<1>4. retry_sector(b, 0, late)
  BY DEF MismatchedTransfer
<1> HIDE DEF b
<1>5. /\ c.segment_id = HEAD.segment_id /\ c.moved = HEAD.moved /\ c.status = "error"
      /\ c.soft_error_map = {} /\ c.hard_error_map = {} /\ c.stray = 0 /\ c.skip = 0
  BY <1>1, <1>3 DEF Buffer, UnderWay, Resumable
<1>6. SkipOK(c)
  BY <1>5, SectorsAssumption DEF SkipOK, Good, Sectors
<1>7. Resumable(c)
  BY <1>5, <1>6 DEF Resumable
<1> HIDE DEF c
<1>8. QED
  BY <1>4, <1>5, <1>7, RetryData DEF c

(* A cluster has been written, or not.                                     *)
LEMMA WriteTransferData ==
    ASSUME DataInv, WriteInv', Interrupt, Live, Transferring, Orderly, ~IsFake(HEAD),
           NEW kind \in Kinds \ {"mismatch", "deleted"},
           NEW res \in Result(kind), NEW late \in {"none", "pause"}, WriteTransfer(res, late)
    PROVE  LiveOK'
<1>1. /\ WriteInv /\ IsrInv /\ UnderWay(HEAD) /\ Resumable(HEAD)
      /\ driver_state \in {"writing", "deleting"} /\ HEAD.status = driver_state
      /\ runner_status = "running" \/ Closing
  BY HandlerFacts DEF WriteInv
<1>2. /\ HEAD \in Buffer /\ HEAD.sector_count <= HEAD.remaining
      /\ HEAD.next_segment \in {0, HEAD.segment_id + 1} /\ head \in Ring
  BY <1>1, HeadInTransfer
<1>3. /\ res.transferred \in 0 .. HEAD.sector_count
      /\ res.cause # "no_error" => HEAD.sector_count > 0
  BY <1>2, ResultType
<1>4. PICK b : /\ b = determine_progress(HEAD, res.cause, res.transferred)
               /\ \/ res.cause = "no_error" /\ continue_xfer(b, 0, late)
                  \/ /\ res.cause \in Errors \ {"data_crc"}
                     /\ retry_sector(b, find_resume_point(b), late)
                  \/ /\ res.cause = "data_crc" /\ SetHead(b) /\ Stop("idle")
                     /\ UNCHANGED <<head, runner_status>> /\ UNCHANGED setup
  BY DEF WriteTransfer
<1>5. /\ b \in Buffer /\ b.status = HEAD.status /\ b.segment_id = HEAD.segment_id
      /\ b.next_segment \in {0, b.segment_id + 1}
  BY <1>1, <1>4, ProgressInTransfer
<1>6. CASE res.cause = "no_error" /\ continue_xfer(b, 0, late)
  <2>1. b = Advance(HEAD, res.transferred)
    BY <1>4, <1>6 DEF determine_progress
  <2>2. Goes(b) /\ HEAD.moved \subseteq b.moved
    BY <1>1, <1>2, <1>3, <2>1, AdvancedGoes
  <2>3. QED
    BY <1>5, <1>6, <2>2, ContinueData
<1>7. ASSUME res.cause # "no_error"
      PROVE  /\ OnCourse(b) /\ Further(b, HEAD) /\ HEAD.moved \subseteq b.moved
             /\ b.stray = 0 /\ BadSectors[b.segment_id] # Sectors
             /\ \E x \in Sectors :
                   /\ b.sector_offset = x + 1 /\ HEAD.sector_offset <= x
                   /\ \/ b.soft_error_map = {x} /\ b.hard_error_map = {}
                      \/ b.soft_error_map = {} /\ b.hard_error_map = {x}
  <2>1. /\ OnCourse(b) /\ Further(b, HEAD)
        /\ \E x \in Sectors :
                   /\ b.sector_offset = x + 1 /\ HEAD.sector_offset <= x
                   /\ \/ b.soft_error_map = {x} /\ b.hard_error_map = {}
                      \/ b.soft_error_map = {} /\ b.hard_error_map = {x}
    BY <1>1, <1>2, <1>3, <1>4, <1>7, FailsAt
  <2>2. Known(HEAD)
    BY <1>1, UnderWayKnown
  <2>3. QED
    BY <2>1, <2>2 DEF Known, Further
<1>8. CASE res.cause \in Errors \ {"data_crc"} /\ retry_sector(b, find_resume_point(b), late)
  <2>1. res.cause # "no_error"
    BY <1>8 DEF Errors, MediumErrors
  <2>2. PICK skip : skip = find_resume_point(b)
    OBVIOUS
  <2>3. PICK c : c = [b EXCEPT !.status = "error", !.skip = skip]
    OBVIOUS
  <2>4. c.segment_id = b.segment_id /\ c.moved = b.moved /\ c.status = "error"
    BY <1>5, <2>3 DEF Buffer
  <2>5. Resumable(c) /\ (c.hard_error_map # {} => Cardinality(c.hard_error_map) = 1)
    BY <1>5, <1>7, <2>1, <2>2, <2>3, RetriesAt
  <2>6. QED
    BY <1>5, <1>7, <1>8, <2>1, <2>2, <2>3, <2>4, <2>5, RetryData
<1>9. CASE /\ res.cause = "data_crc" /\ SetHead(b) /\ Stop("idle")
           /\ UNCHANGED <<head, runner_status>> /\ UNCHANGED setup
  <2>1. PICK x \in Sectors :
           /\ HEAD.sector_offset <= x
           /\ \/ b.soft_error_map = {x} /\ b.hard_error_map = {}
              \/ b.soft_error_map = {} /\ b.hard_error_map = {x}
    BY <1>7, <1>9
  <2>2. b.skip = HEAD.skip /\ SkipOK(b) /\ b.stray = 0 /\ HEAD.moved \subseteq b.moved
        /\ BadSectors[b.segment_id] # Sectors
    BY <1>1, <1>7, <1>9, FurtherSkip DEF Resumable, Further
  <2>3. b.skip <= x
    <3>1. HEAD.skip \in Nat /\ HEAD.sector_offset \in Nat /\ x \in Nat
      <4>1. HEAD.skip \in Offsets /\ HEAD.sector_offset \in Nat
        BY <1>2 DEF Buffer
      <4>2. x \in Nat
        BY SectorsAssumption DEF Sectors
      <4>3. QED
        BY <4>1, <4>2, FieldTypes
    <3>2. HEAD.skip <= HEAD.sector_offset
      BY <1>1 DEF UnderWay
    <3>3. QED
      BY <2>1, <2>2, <3>1, <3>2
  <2>4. Resumable(b)
    BY <2>1, <2>2, <2>3 DEF Resumable
  <2>5. b.hard_error_map # {} => Cardinality(b.hard_error_map) = 1
    BY <2>1, FS_Singleton
  <2>6. ~ Transferring'
    BY <1>9, StopType DEF Modes
  <2>7. buffers' = [buffers EXCEPT ![head] = b] /\ UNCHANGED <<old_driver_state, old_segment_id>>
    BY <1>9 DEF SetHead, setup
  <2>8. QED
    BY <1>1, <1>5, <1>9, <2>2, <2>4, <2>5, <2>6, <2>7, StayData
<1>10. QED
  BY <1>4, <1>6, <1>8, <1>9

(* The seek by which the handler paused the tape has ended.                *)
LEMMA SeekData ==
    ASSUME DataInv, WriteInv', Interrupt, SeekInterrupt, Live
    PROVE  LiveOK'
<1>1. /\ WriteInv /\ LiveOK /\ RunnerOK
  BY DEF DataInv, LiveOK
<1>2. /\ UNCHANGED <<head, tail, buffers, runner_status, driver_state>>
      /\ UNCHANGED <<old_driver_state, old_segment_id>> /\ Stop("idle")
  BY DEF SeekInterrupt, ring, setup
<1>3. /\ UNCHANGED <<pc, call, again, bytes, result, payload, accepted, written>>
      /\ tape' = tape
  BY DEF Interrupt, SeekInterrupt, procvars
<1>4. ~ Transferring'
  BY <1>2, StopType DEF Modes
<1>5. HEAD' = HEAD /\ TAIL' = TAIL
  BY <1>2 DEF HEAD, TAIL
<1>6. /\ Due' = Due /\ (Closing' <=> Closing) /\ (Unfilled' <=> Unfilled)
  BY <1>3 DEF Due, Closing, Unfilled
<1>7. Stalled => Stalled'
  BY <1>2, <1>5, <1>6 DEF Stalled
<1>8. Alike
  BY <1>2, SameBuffers
<1>9. RingOK' /\ SegOK' /\ MapsOK' /\ HardOK' /\ TransferOK' /\ DataOK'
  BY <1>1, <1>2, <1>3, <1>4, <1>6, <1>7, <1>8, SteadyStep DEF Alike
<1>10. RunnerOK'
  BY <1>1, <1>2, <1>3, <1>4, <1>5, <1>6 DEF RunnerOK
<1>11. QED
  BY <1>9, <1>10 DEF LiveOK

(* The interrupt of a transfer that was aborted.                           *)
LEMMA AbortedData ==
    ASSUME DataInv, WriteInv', Interrupt, Live, Transferring, AbortedTransfer
    PROVE  LiveOK'
<1> DEFINE c == HEAD
<1>1. /\ WriteInv /\ RunnerOK /\ UnderWay(c) /\ Resumable(c) /\ c.status = driver_state
  BY HandlerFacts DEF LiveOK
<1>2. buffers \in [Ring -> Buffer] /\ head \in Ring /\ fdc_mode \in Modes
  BY <1>1, WriteTypes DEF WriteInv, IsrInv, IsrTypeOK
<1>3. buffers' = [buffers EXCEPT ![head] = c] /\ head' = head
  BY <1>2 DEF AbortedTransfer, HEAD
<1>4. ~ Transferring'
  BY <1>2, StopType DEF AbortedTransfer
<1>5. runner_status' = runner_status /\ UNCHANGED <<old_driver_state, old_segment_id>>
  BY <1>1 DEF AbortedTransfer, RunnerOK, setup
<1>6. c.hard_error_map = {}
  BY <1>1 DEF UnderWay
<1> HIDE DEF c
<1>7. c.segment_id = HEAD.segment_id /\ HEAD.moved \subseteq c.moved
  BY DEF c
<1>8. QED
  BY <1>1, <1>3, <1>4, <1>5, <1>6, <1>7, StayData

(* One run of the handler.                                                 *)
LEMMA InterruptData ==
    ASSUME DataInv, WriteInv', Interrupt, Orderly
    PROVE  PhaseOK' /\ RestOK' /\ (Live' => LiveOK')
<1>1. PhaseOK' /\ RestOK' /\ (Live' <=> Live)
  BY InterruptPhase
<1>2. SUFFICES ASSUME Live PROVE LiveOK'
  BY <1>1
<1>3. fdc_isr
  BY DEF Interrupt
<1>4. CASE SeekInterrupt
  BY <1>2, <1>4, SeekData
<1>5. CASE TransferInterrupt
  <2>1. Transferring /\ WriteInv
    BY <1>5 DEF TransferInterrupt, Transferring, DataInv
  <2>2. PICK kind \in Kinds, late \in Late : handle_fdc_busy(kind, late)
    BY <1>5 DEF TransferInterrupt
  <2>3. IsWrite /\ late \in {"none", "pause"}
    BY <2>1, HandlerWrites
  <2>4. \/ AbortedTransfer
        \/ IsFake(HEAD) /\ FakeTransfer(late)
        \/ MismatchedTransfer(late)
        \/ /\ ~IsFake(HEAD) /\ kind \in Kinds \ {"mismatch", "deleted"}
           /\ \E res \in Result(kind) : WriteTransfer(res, late)
    BY <2>2, <2>3 DEF handle_fdc_busy
  <2>5. QED
    BY <1>2, <2>1, <2>3, <2>4, AbortedData, FakeData, MismatchData, WriteTransferData
<1>6. QED
  BY <1>3, <1>4, <1>5 DEF fdc_isr

-----------------------------------------------------------------------------
(* The invariant                                                            *)

(* Nothing is promised yet.                                                *)
LEMMA InitData ==
    ASSUME Init
    PROVE  DataInv
<1>1. WriteInv
  BY InitInv
<1>2. /\ driver_state = "waiting" /\ busy = FALSE /\ pc = "idle" /\ result = "none"
      /\ accepted = [s \in Segments |-> 0]
  BY DEF Init, IsrInit
<1>3. PhaseOK /\ RestOK
  BY <1>2 DEF PhaseOK, RestOK, Transferring, Writing, Flush
<1>4. QED
  BY <1>1, <1>2, <1>3 DEF DataInv, Live

(* Every step of the process and of the handler keeps the invariant.       *)
LEMMA NextData ==
    ASSUME Orderly, DataInv, [Next]_vars
    PROVE  DataInv'
<1>1. WriteInv'
  BY NextInv DEF DataInv
<1>2. SUFFICES PhaseOK' /\ RestOK' /\ (Live' => LiveOK')
  BY <1>1 DEF DataInv
<1>3. CASE CallWrite
  BY <1>1, <1>3, WriteOnData, WriteFirstData
<1>4. CASE CallFlush
  BY <1>1, <1>4, CallFlushData
<1>5. CASE CallAbort \/ GiveUp
  BY <1>5, AbortCallData
<1>6. CASE AbortForWrite
  BY <1>1, <1>6, AbortData
<1>7. CASE WaitAwake \/ WaitTimeout \/ WaitFails \/ WaitEnd
  BY <1>1, <1>7, WaitData
<1>8. CASE Judge
  BY <1>1, <1>8, JudgeData
<1>9. CASE RunnerAborting \/ RunnerEot
  BY <1>1, <1>9, RunnerData
<1>10. CASE Fill
  BY <1>1, <1>10, FillData
<1>11. CASE Start
  BY <1>1, <1>11, StartData
<1>12. CASE Again
  BY <1>1, <1>12, AgainData
<1>13. CASE Check
  BY <1>1, <1>13, CheckData
<1>14. CASE RestartEot \/ Restart
  BY <1>1, <1>14, RestartData
<1>15. CASE Sleep
  BY <1>1, <1>15, SleepData
<1>16. CASE RecoverStop \/ RecoverFail \/ RecoverRetry \/ RecoverNothing \/ RecoverSignal
  BY <1>1, <1>16, RecoverData
<1>17. CASE Interrupt
  BY <1>1, <1>17, InterruptData
<1>18. CASE UNCHANGED vars
  <2>1. /\ UNCHANGED <<head, tail, buffers, runner_status, driver_state>>
        /\ UNCHANGED <<old_driver_state, old_segment_id, fdc_mode, busy>>
        /\ UNCHANGED <<pc, call, again, bytes, result>>
        /\ UNCHANGED <<payload, tape, accepted, written>>
    BY <1>18 DEF vars, isrvars, ring, controller, setup, procvars, datavars
  <2>2. PhaseOK /\ RestOK /\ (Live => LiveOK) /\ WriteInv
    BY DEF DataInv
  <2>3. /\ HEAD' = HEAD /\ TAIL' = TAIL /\ (Transferring' <=> Transferring)
        /\ Due' = Due /\ (Closing' <=> Closing) /\ (Unfilled' <=> Unfilled)
        /\ WantedState' = WantedState
    BY <2>1 DEF HEAD, TAIL, Transferring, Due, Closing, Unfilled, WantedState
  <2>4. PhaseOK'
    BY <2>1, <2>2, <2>3 DEF PhaseOK
  <2>5. RestOK'
    BY <2>1, <2>2 DEF RestOK, OnTape
  <2>6. ASSUME Live' PROVE LiveOK'
    <3>1. LiveOK /\ RunnerOK
      BY <2>1, <2>2, <2>6 DEF Live, LiveOK
    <3>2. Alike
      BY <2>1, SameBuffers
    <3>3. Stalled => Stalled'
      BY <2>1, <2>3 DEF Stalled
    <3>4. RingOK' /\ SegOK' /\ MapsOK' /\ HardOK' /\ TransferOK' /\ DataOK'
      BY <1>1, <2>1, <2>2, <2>3, <3>1, <3>2, <3>3, SteadyStep DEF Alike
    <3>5. RunnerOK'
      BY <2>1, <2>3, <3>1 DEF RunnerOK
    <3>6. QED
      BY <3>4, <3>5 DEF LiveOK
  <2>7. QED
    BY <2>4, <2>5, <2>6
<1>19. QED
  BY <1>3, <1>4, <1>5, <1>6, <1>7, <1>8, <1>9, <1>10, <1>11, <1>12, <1>13, <1>14,
     <1>15, <1>16, <1>17, <1>18 DEF Next, Process

(***************************************************************************)
(* The invariant on which the three theorems below rest: where the data    *)
(* of every accepted segment is, at every step of the write path.          *)
(***************************************************************************)
THEOREM WriteDataInvariant ==
    ASSUME Orderly
    PROVE  Spec => []DataInv
<1>1. Init => DataInv
  BY InitData
<1>2. DataInv /\ [Next]_vars => DataInv'
  BY NextData
<1>3. QED
  BY <1>1, <1>2, PTL DEF Spec

(***************************************************************************)
(* Data for which ftape_write_segment() has returned success is on tape,   *)
(* or in a buffer that is still to be written, until an error is reported. *)
(***************************************************************************)
THEOREM WriteHoldsAcceptedData ==
    ASSUME Orderly
    PROVE  Spec => []AcceptedDataIsHeld
<1>1. DataInv => AcceptedDataIsHeld
  <2>1. SUFFICES ASSUME DataInv, NEW seg \in Segments, accepted[seg] # 0
                 PROVE  \/ OnTape(seg, accepted[seg])
                        \/ \E i \in Ring : /\ payload[i] = accepted[seg]
                                           /\ buffers[i].segment_id = seg
                                           /\ buffers[i].status \in Pending
    BY DEF AcceptedDataIsHeld
  <2>2. WriteInv /\ PhaseOK /\ RestOK /\ (Live => LiveOK)
    BY <2>1 DEF DataInv
  <2>3. CASE driver_state = "waiting"
    BY <2>1, <2>2, <2>3 DEF RestOK
  <2>4. CASE driver_state # "waiting"
    <3>1. result # "EIO"
      BY <2>1, <2>2 DEF PhaseOK
    <3>2. LiveOK /\ RingOK /\ DataOK
      BY <2>2, <2>4, <3>1 DEF Live, LiveOK
    <3>3. driver_state \in {"writing", "deleting"}
      BY <2>2, <2>4 DEF PhaseOK, WantedState, StateFor
    <3>4. Due[seg] = accepted[seg]
      <4>1. ~(pc = "start" /\ seg = call.segment)
        BY <2>1, <2>2 DEF PhaseOK, Writing
      <4>2. QED
        BY <2>1, <4>1 DEF Due
    <3>5. CASE OnTape(seg, Due[seg])
      BY <3>4, <3>5
    <3>6. ASSUME NEW i \in Ring, Queued(i), payload[i] = Due[seg], buffers[i].segment_id = seg
          PROVE  buffers[i].status \in Pending
      <4>1. CASE i # head
        BY <3>2, <3>6, <4>1 DEF RingOK, Pending
      <4>2. CASE i = head
        <5>1. HEAD.status # "done"
          BY <2>2, <3>2, <3>6, <4>2, HeadQueued
        <5>2. QED
          BY <3>2, <3>3, <4>2, <5>1 DEF RingOK, Pending, HEAD
      <4>3. QED
        BY <4>1, <4>2
    <3>7. QED
      BY <2>1, <3>2, <3>4, <3>5, <3>6 DEF DataOK
  <2>5. QED
    BY <2>3, <2>4
<1>2. QED
  BY <1>1, WriteDataInvariant, PTL

(***************************************************************************)
(* When ftape_loop_until_writes_done() returns 0, all data accepted so far *)
(* is on tape.                                                             *)
(***************************************************************************)
THEOREM WriteFlushes ==
    ASSUME Orderly
    PROVE  Spec => []FlushedDataIsOnTape
<1>1. DataInv => FlushedDataIsOnTape
  BY DEF DataInv, PhaseOK, RestOK, FlushedDataIsOnTape
<1>2. QED
  BY <1>1, WriteDataInvariant, PTL

(***************************************************************************)
(* A hard error that write_segment() or the flush loop reports is one of   *)
(* HEAD, with exactly one sector to be mapped out.                         *)
(***************************************************************************)
THEOREM WriteErrorsAreRecoverable ==
    ASSUME Orderly
    PROVE  Spec => []HardErrorIsRecoverable
<1>1. DataInv => HardErrorIsRecoverable
  <2>1. ASSUME LiveOK, HEAD.status = "error", HEAD.hard_error_map # {}
        PROVE  Cardinality(HEAD.hard_error_map) = 1
    BY <2>1 DEF LiveOK, MapsOK, HardOK
  <2>2. ASSUME DataInv, pc = "start", bytes = "EIO"
        PROVE  HEAD.status = "error" /\ Cardinality(HEAD.hard_error_map) = 1
    <3>1. LiveOK
      BY <2>2, WritingFacts DEF Writing
    <3>2. HEAD.status = "error" /\ HEAD.hard_error_map # {}
      BY <2>2, <3>1 DEF LiveOK, RunnerOK
    <3>3. QED
      BY <2>1, <3>1, <3>2
  <2>3. ASSUME DataInv, pc = "recover", HEAD.status = "error", HEAD.hard_error_map # {}
        PROVE  Cardinality(HEAD.hard_error_map) = 1
    BY <2>1, <2>3 DEF DataInv, PhaseOK, Live, Flush
  <2>4. QED
    BY <2>2, <2>3 DEF HardErrorIsRecoverable
<1>2. QED
  BY <1>1, WriteDataInvariant, PTL
=============================================================================
