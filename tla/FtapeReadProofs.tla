--------------------------- MODULE FtapeReadProofs ---------------------------
(***************************************************************************)
(* Reading, for any tape, any number of buffers, any faults and any        *)
(* sequence of calls: the specification of FtapeRead is type correct, the  *)
(* buffer of the transfer under way stays in HEAD, the handler keeps the   *)
(* full buffers, the process restarts the handler only where it is safe,   *)
(* the full buffers hold consecutive segments, and their error maps flag   *)
(* every block that has not been read.                                     *)
(*                                                                         *)
(* The inductive invariant is ReadInv.  Type correctness alone is not      *)
(* inductive: that remaining does not become negative needs a cluster      *)
(* within what remains, which needs that nobody has touched HEAD since the *)
(* transfer was set up (TransferSound).  Nor are the two properties of the *)
(* ring: they need to know which buffers are full at all (RingOK) and that *)
(* no buffer before HEAD is in error while the handler reads (AheadOK).    *)
(*                                                                         *)
(* What the error maps of a buffer say of its data is a second invariant,  *)
(* MapInv, on top of the first: every buffer, not only one in error, can   *)
(* be resumed at its skip, and the transfer under way is where its         *)
(* counters say and has flagged what it passed unread.                     *)
(***************************************************************************)
EXTENDS FtapeRead, FdcIsrProofs

(* The variables of the process alone.                                     *)
ProcTypeOK ==
    /\ pc \in Steps
    /\ wanted \in Segments
    /\ read_mode \in {"FT_RD_SINGLE", "FT_RD_AHEAD"}
    /\ ecc_retry \in Nat
    /\ read_done \in BOOLEAN
    /\ result \in Results

(* Nobody writes here.                                                     *)
ModesOK ==
    /\ driver_state \in {"waiting", "reading"}
    /\ fdc_mode \in {"idle", "reading_data", "seeking"}

(* HEAD has run into TAIL: every buffer of the ring has been read into.    *)
Full == head = tail /\ HEAD.status = "done"

(* The buffers the handler has passed and the process has not taken yet.   *)
Held(i) == Between(tail, i, head) \/ Full

(* They are full or were given up, and all others but HEAD are free.       *)
RingOK ==
    /\ HEAD.status \in {"waiting", "reading", "done", "error"}
    /\ HEAD.status = "done" => head = tail
    /\ \A i \in Ring : (i # head /\ Held(i)) => buffers[i].status \in {"done", "error"}
    /\ \A i \in Ring : (i # head /\ ~ Held(i)) => buffers[i].status = "waiting"

(* While the handler reads ahead, none of them was given up.               *)
AheadOK ==
    Transferring =>
        /\ HEAD.status = "reading"
        /\ \A i \in Ring : Between(tail, i, head) => buffers[i].status = "done"

ReadRing == ModesOK /\ RingOK /\ AheadOK /\ CacheIsInOrder

ReadInv == IsrInv /\ ProcTypeOK /\ ReadRing

(* A step of the process that goes on at another label.                    *)
LEMMA GotoType ==
    ASSUME ProcTypeOK, NEW step \in Steps, Goto(step)
    PROVE  ProcTypeOK'
  BY DEF ProcTypeOK, Goto

(* ftape_read_segment() returns to its caller.                             *)
LEMMA ReturnType ==
    ASSUME ProcTypeOK, NEW res \in Results, Return(res)
    PROVE  ProcTypeOK'
  BY DEF ProcTypeOK, Return, Steps

-----------------------------------------------------------------------------
(* What the steps of the process do to the driver's state                   *)

(* The process frees a full buffer: never the one in transfer.             *)
LEMMA FreeTailStep ==
    ASSUME IsrInv, TAIL.status = "done", FreeTail, faults' \in Nat, UNCHANGED untouched
    PROVE  IsrInv'
<1>1. /\ buffers \in [Ring -> Buffer] /\ head \in Ring /\ tail \in Ring
  BY DEF IsrInv, IsrTypeOK
<1>2. buffers' = [buffers EXCEPT ![tail].status = "waiting"]
      /\ tail' = next(tail) /\ head' = head
  BY DEF FreeTail
<1>3. [buffers[tail] EXCEPT !.status = "waiting"] \in Buffer
  BY <1>1 DEF Buffer, BufferStates
<1>4. buffers' \in [Ring -> Buffer] /\ tail' \in Ring
  BY <1>1, <1>2, <1>3, NextInRing
<1>5. IsrTypeOK'
  BY <1>2, <1>4 DEF IsrInv, IsrTypeOK, untouched, controller, setup
<1>6. TransferSound'
  <2>1. SUFFICES ASSUME Transferring'
                 PROVE  TransferSound'
    BY DEF TransferSound
  <2>2. Transferring
    BY <2>1 DEF Transferring, untouched, controller
  <2>3. head # tail
    BY <2>2 DEF IsrInv, TransferSound, HEAD, TAIL
  <2>4. buffers'[head'] = buffers[head]
    BY <1>1, <1>2, <2>3
  <2>5. QED
    BY <2>2, <2>4 DEF IsrInv, TransferSound, HEAD, untouched, controller
<1>7. QED
  BY <1>5, <1>6 DEF IsrInv

(* The abort at the beginning of a call that reads elsewhere.              *)
LEMMA AbortForCallStep ==
    ASSUME IsrInv, ProcTypeOK, AbortForCall
    PROVE  IsrInv' /\ ProcTypeOK'
<1>1. AbortEnd /\ \/ NoFault /\ driver_state' = "reading" /\ Goto("scan")
                  \/ Fault("drive") /\ driver_state' = "waiting" /\ Return("EIO")
  BY DEF AbortForCall
<1>2. "scan" \in Steps /\ "EIO" \in Results /\ {"reading", "waiting"} \subseteq DriverStates
  BY DEF Steps, Results, DriverStates
<1>3. ProcTypeOK'
  BY <1>1, <1>2, GotoType, ReturnType
<1>4. faults' \in Nat /\ driver_state' \in DriverStates
  BY <1>1, <1>2, FaultType DEF NoFault, IsrInv, IsrTypeOK
<1>5. QED
  BY <1>1, <1>3, <1>4, AbortEndStep

(* The abort when the runner reads the wrong segment or the wait for it    *)
(* failed.                                                                 *)
LEMMA AbortForWaitStep ==
    ASSUME IsrInv, ProcTypeOK, AbortForWait
    PROVE  IsrInv' /\ ProcTypeOK'
<1>1. AbortEnd /\ NoFault /\ driver_state' = "reading" /\ Goto("runner")
  BY DEF AbortForWait
<1>2. "runner" \in Steps /\ "reading" \in DriverStates
  BY DEF Steps, DriverStates
<1>3. faults' \in Nat
  BY <1>1 DEF NoFault, IsrInv, IsrTypeOK
<1>4. QED
  BY <1>1, <1>2, <1>3, GotoType, AbortEndStep

(* The scan: it looks, or it frees a full buffer.                          *)
LEMMA ScanStep ==
    ASSUME IsrInv, ProcTypeOK,
           ScanDeleted \/ ScanFound \/ ScanEccFailure \/ ScanZap \/ ScanEnd
    PROVE  IsrInv' /\ ProcTypeOK'
<1>1. {"scan", "wait", "runner"} \subseteq Steps /\ "ENODATA" \in Results
  BY DEF Steps, Results
<1>2. CASE ScanDeleted
  <2>1. Return("ENODATA") /\ UNCHANGED isrvars
    BY <1>2 DEF ScanDeleted
  <2>2. IsrInv'
    BY <2>1, IdleStep DEF isrvars, IsrInv, IsrTypeOK
  <2>3. QED
    BY <1>1, <2>1, <2>2, ReturnType
<1>3. CASE ScanFound
  <2>1. /\ TAIL.status = "done" /\ FreeTail /\ NoFault /\ read_done' = TRUE
        /\ UNCHANGED <<pc, wanted, read_mode, ecc_retry, result, untouched>>
    BY <1>3 DEF ScanFound, Found
  <2>2. faults' \in Nat
    BY <2>1 DEF NoFault, IsrInv, IsrTypeOK
  <2>3. ProcTypeOK'
    BY <2>1 DEF ProcTypeOK
  <2>4. QED
    BY <2>1, <2>2, <2>3, FreeTailStep
<1>4. CASE ScanEccFailure
  <2>1. /\ TAIL.status = "done" /\ FreeTail /\ (Fault("ecc") \/ NoFault)
        /\ ecc_retry' = ecc_retry + 1
        /\ UNCHANGED <<pc, wanted, read_mode, read_done, result, untouched>>
    BY <1>4 DEF ScanEccFailure, Found
  <2>2. faults' \in Nat
    BY <2>1, FaultType DEF NoFault, IsrInv, IsrTypeOK
  <2>3. ProcTypeOK'
    BY <2>1 DEF ProcTypeOK
  <2>4. QED
    BY <2>1, <2>2, <2>3, FreeTailStep
<1>5. CASE ScanZap
  <2>1. /\ TAIL.status = "done" /\ FreeTail /\ NoFault
        /\ UNCHANGED <<procvars, untouched>>
    BY <1>5 DEF ScanZap
  <2>2. faults' \in Nat
    BY <2>1 DEF NoFault, IsrInv, IsrTypeOK
  <2>3. ProcTypeOK'
    BY <2>1 DEF ProcTypeOK, procvars
  <2>4. QED
    BY <2>1, <2>2, <2>3, FreeTailStep
<1>6. CASE ScanEnd
  <2>1. (Goto("runner") \/ Goto("wait")) /\ UNCHANGED isrvars
    BY <1>6 DEF ScanEnd
  <2>2. IsrInv'
    BY <2>1, IdleStep DEF isrvars, IsrInv, IsrTypeOK
  <2>3. QED
    BY <1>1, <2>1, <2>2, GotoType
<1>7. QED
  BY <1>2, <1>3, <1>4, <1>5, <1>6

(* The wait: the interrupt flag is taken, the controller is reset, or the  *)
(* runner is told to abort.                                                *)
LEMMA WaitStep ==
    ASSUME IsrInv, ProcTypeOK,
           WaitWrongSegment \/ WaitAwake \/ WaitTimeout \/ WaitEnd
    PROVE  IsrInv' /\ ProcTypeOK'
<1>1. {"abort_wait", "runner"} \subseteq Steps
  BY DEF Steps
<1>2. CASE WaitWrongSegment
  <2>1. /\ AbortBegin /\ Goto("abort_wait") /\ NoFault
        /\ UNCHANGED <<ring, controller, setup, stop_read_ahead, driver_state>>
    BY <1>2 DEF WaitWrongSegment
  <2>2. runner_status' \in RunnerStates /\ faults' \in Nat
    BY <2>1, AbortBeginType DEF NoFault, IsrInv, IsrTypeOK
  <2>3. QED
    BY <1>1, <2>1, <2>2, IdleStep, GotoType
<1>3. CASE WaitAwake
  <2>1. /\ interrupt_seen' = FALSE
        /\ \/ AbortBegin /\ Goto("abort_wait")
           \/ UNCHANGED <<runner_status, procvars>>
        /\ NoFault
        /\ UNCHANGED <<ring, fdc_mode, busy, hide_interrupt, setup_error, setup,
                       stop_read_ahead, driver_state>>
    BY <1>3 DEF WaitAwake
  <2>2. runner_status' \in RunnerStates /\ faults' \in Nat
    BY <2>1, AbortBeginType DEF NoFault, IsrInv, IsrTypeOK
  <2>3. ProcTypeOK'
    BY <1>1, <2>1, GotoType DEF ProcTypeOK, procvars
  <2>4. IsrInv'
    BY <2>1, <2>2 DEF IsrInv, IsrTypeOK, TransferSound, Transferring, HEAD, ring, setup
  <2>5. QED
    BY <2>3, <2>4
<1>4. CASE WaitTimeout
  <2>1. /\ Fault("timeout") \/ NoFault
        /\ ControllerQuiet /\ AbortBegin /\ Goto("abort_wait")
        /\ UNCHANGED <<ring, setup_error, setup, stop_read_ahead, driver_state>>
    BY <1>4 DEF WaitTimeout
  <2>2. runner_status' \in RunnerStates /\ faults' \in Nat
    BY <2>1, AbortBeginType, FaultType DEF NoFault, IsrInv, IsrTypeOK
  <2>3. /\ fdc_mode' \in Modes /\ busy' \in BOOLEAN
        /\ hide_interrupt' \in BOOLEAN /\ interrupt_seen' \in BOOLEAN
        /\ ~Transferring'
    BY <2>1, QuietType
  <2>4. IsrInv'
    BY <2>1, <2>2, <2>3 DEF IsrInv, IsrTypeOK, TransferSound, ring, setup
  <2>5. QED
    BY <1>1, <2>1, <2>4, GotoType
<1>5. CASE WaitEnd
  <2>1. /\ \/ NoFault /\ Goto("runner") /\ UNCHANGED runner_status
           \/ Fault("drive") /\ AbortBegin /\ Goto("abort_wait")
        /\ UNCHANGED <<ring, controller, setup, stop_read_ahead, driver_state>>
    BY <1>5 DEF WaitEnd
  <2>2. runner_status' \in RunnerStates /\ faults' \in Nat
    BY <2>1, AbortBeginType, FaultType DEF NoFault, IsrInv, IsrTypeOK
  <2>3. QED
    BY <1>1, <2>1, <2>2, IdleStep, GotoType
<1>6. QED
  BY <1>2, <1>3, <1>4, <1>5

(* A call, a signal, and the returns from the end of the loop.             *)
LEMMA CallStep ==
    ASSUME IsrInv, ProcTypeOK,
           Call \/ Signal \/ ReturnSegment \/ TooManyRetries \/ StartOver
    PROVE  IsrInv' /\ ProcTypeOK'
<1>1. {"abort_call", "scan"} \subseteq Steps /\ {"none", "ok", "EIO", "EINTR"} \subseteq Results
  BY DEF Steps, Results
<1>2. CASE Call
  <2>1. PICK seg \in Requests, mode \in {"FT_RD_SINGLE", "FT_RD_AHEAD"} :
           wanted' = seg /\ read_mode' = mode
    BY <1>2 DEF Call
  <2>2. Requests \subseteq Segments
    BY CallersAssumption DEF Requests, ProcTypeOK
  <2>3. /\ ecc_retry' = 0 /\ read_done' = FALSE /\ result' = "none"
        /\ \/ pc' = "abort_call" /\ AbortBegin
           \/ pc' = "scan" /\ UNCHANGED runner_status
        /\ UNCHANGED <<ring, controller, setup, stop_read_ahead, driver_state, faults>>
    BY <1>2 DEF Call
  <2>4. ProcTypeOK'
    BY <1>1, <2>1, <2>2, <2>3 DEF ProcTypeOK
  <2>5. runner_status' \in RunnerStates /\ faults' \in Nat
    BY <2>3, AbortBeginType DEF IsrInv, IsrTypeOK
  <2>6. QED
    BY <2>3, <2>4, <2>5, IdleStep
<1>3. CASE Signal
  <2>1. /\ Fault("signal") /\ Return("EINTR")
        /\ UNCHANGED <<ring, controller, setup, runner_status, stop_read_ahead,
                       driver_state>>
    BY <1>3 DEF Signal
  <2>2. runner_status' \in RunnerStates /\ faults' \in Nat
    BY <2>1, FaultType DEF IsrInv, IsrTypeOK
  <2>3. QED
    BY <1>1, <2>1, <2>2, IdleStep, ReturnType
<1>4. CASE ReturnSegment \/ TooManyRetries \/ StartOver
  <2>1. (Return("ok") \/ Return("EIO") \/ Goto("scan")) /\ UNCHANGED isrvars
    BY <1>4 DEF ReturnSegment, TooManyRetries, StartOver
  <2>2. IsrInv'
    BY <2>1, IdleStep DEF isrvars, IsrInv, IsrTypeOK
  <2>3. QED
    BY <1>1, <2>1, <2>2, ReturnType, GotoType
<1>5. QED
  BY <1>2, <1>3, <1>4

(* The runner is stopped, or the end of the track waited for.              *)
LEMMA RunnerStep ==
    ASSUME IsrInv, ProcTypeOK, RunnerAborting \/ RunnerEot
    PROVE  IsrInv' /\ ProcTypeOK'
<1>1. "start" \in Steps /\ "EIO" \in Results
  BY DEF Steps, Results
<1>2. CASE RunnerAborting
  <2> DEFINE s == IF HEAD.status \in {"error", "reading"} THEN "waiting" ELSE HEAD.status
             b == [HEAD EXCEPT !.status = s]
  <2>1. /\ ftape_dumb_stop
        /\ buffers' = [buffers EXCEPT ![head] = b]
        /\ (NoFault /\ Goto("start")) \/ (Fault("drive") /\ Return("EIO"))
        /\ UNCHANGED <<head, tail, setup, setup_error, stop_read_ahead, driver_state>>
    BY <1>2 DEF RunnerAborting, FreeHead, HEAD
  <2>2. HEAD \in Buffer
    BY DEF IsrInv, IsrTypeOK, HEAD
  <2>3. s \in BufferStates
    BY <2>2 DEF Buffer, BufferStates
  <2> HIDE DEF s
  <2>4. b \in Buffer
    BY <2>2, <2>3 DEF Buffer
  <2> HIDE DEF b
  <2>5. buffers' \in [Ring -> Buffer]
    BY <2>1, <2>4 DEF IsrInv, IsrTypeOK
  <2>6. /\ fdc_mode' \in Modes /\ busy' \in BOOLEAN
        /\ hide_interrupt' \in BOOLEAN /\ interrupt_seen' \in BOOLEAN
        /\ ~Transferring'
    BY <2>1, QuietType DEF ftape_dumb_stop
  <2>7. runner_status' \in RunnerStates
    BY <2>1 DEF ftape_dumb_stop, IsrInv, IsrTypeOK, RunnerStates
  <2>8. faults' \in Nat
    BY <2>1, FaultType DEF NoFault, IsrInv, IsrTypeOK
  <2>9. IsrInv'
    BY <2>1, <2>5, <2>6, <2>7, <2>8 DEF IsrInv, IsrTypeOK, TransferSound, setup
  <2>10. QED
    BY <1>1, <2>1, <2>9, GotoType, ReturnType
<1>3. CASE RunnerEot
  <2>1. /\ \/ NoFault /\ ftape_handle_logical_eot /\ Goto("start")
           \/ Fault("drive") /\ Return("EIO") /\ UNCHANGED runner_status
        /\ UNCHANGED <<ring, controller, setup, stop_read_ahead, driver_state>>
    BY <1>3 DEF RunnerEot
  <2>2. runner_status' \in RunnerStates
    BY <2>1 DEF ftape_handle_logical_eot, IsrInv, IsrTypeOK, RunnerStates
  <2>3. faults' \in Nat
    BY <2>1, FaultType DEF NoFault, IsrInv, IsrTypeOK
  <2>4. QED
    BY <1>1, <2>1, <2>2, <2>3, IdleStep, GotoType, ReturnType
<1>4. QED
  BY <1>2, <1>3

(* The runner is started on HEAD.                                          *)
LEMMA PreparedType ==
    ASSUME IsrInv, ProcTypeOK
    PROVE  /\ Prepared \in Buffer /\ Prepared.status = HEAD.status
           /\ Prepared.sector_count <= Prepared.remaining
           /\ Prepared.next_segment \in {0, Prepared.segment_id + 1}
<1> DEFINE b == ftape_setup_new_segment(HEAD, wanted, 1)
           n == IF read_mode = "FT_RD_SINGLE" THEN 0 ELSE b.next_segment
           c == [b EXCEPT !.next_segment = n]
<1>1. HEAD \in Buffer /\ wanted \in Segments
  BY DEF IsrInv, IsrTypeOK, ProcTypeOK, HEAD
<1>2. b \in Buffer /\ b.next_segment = b.segment_id + 1 /\ b.status = HEAD.status
  BY <1>1, SetupNewSegmentType
<1>3. Prepared = ftape_calc_next_cluster(c)
  BY DEF Prepared
<1> HIDE DEF b
<1>4. n \in Nat /\ n \in {0, b.segment_id + 1}
  BY <1>2, FieldTypes DEF Buffer
<1> HIDE DEF n
<1>5. c \in Buffer /\ c.next_segment = n /\ c.segment_id = b.segment_id
      /\ c.status = HEAD.status
  BY <1>2, <1>4 DEF Buffer
<1> HIDE DEF c
<1>6. QED
  BY <1>3, <1>4, <1>5, CalcNextClusterType

(* Either way the start ends, with the transfer, without it or not at all, *)
(* HEAD is a buffer set up for the wanted segment.                         *)
LEMMA StartRunnerStep ==
    ASSUME IsrInv, ProcTypeOK, StartRunner
    PROVE  IsrInv' /\ ProcTypeOK'
<1>0. PICK p \in StartTape(Prepared) :
        /\ RememberSetup(HEAD, wanted, 1) /\ hide_interrupt' = FALSE
        /\ interrupt_seen' = FALSE /\ setup_error' \in BOOLEAN
        /\ \/ /\ NoFault \/ Fault("setup")
              /\ SetHead([p EXCEPT !.status = "reading"]) /\ Goto("scan")
              /\ runner_status' = IF runner_status = "idle"
                                  THEN "running" ELSE runner_status
              /\ \/ fdc_mode' = "reading_data" /\ busy' = TRUE
                 \/ fdc_mode' = "idle" /\ busy' = FALSE
           \/ /\ Fault("drive") /\ SetHead(p) /\ UNCHANGED runner_status
              /\ fdc_mode' = "idle" /\ busy' = FALSE /\ Return("EIO")
        /\ UNCHANGED <<head, tail, stop_read_ahead, driver_state>>
  BY DEF StartRunner
<1> DEFINE b == [p EXCEPT !.status = "reading"]
           started == runner_status' = IF runner_status = "idle"
                                       THEN "running" ELSE runner_status
<1>1. /\ RememberSetup(HEAD, wanted, 1) /\ hide_interrupt' = FALSE
      /\ interrupt_seen' = FALSE /\ setup_error' \in BOOLEAN
      /\ \/ /\ NoFault \/ Fault("setup")
            /\ SetHead(b) /\ started /\ Goto("scan")
            /\ \/ fdc_mode' = "reading_data" /\ busy' = TRUE
               \/ fdc_mode' = "idle" /\ busy' = FALSE
         \/ /\ Fault("drive") /\ SetHead(p) /\ UNCHANGED runner_status
            /\ fdc_mode' = "idle" /\ busy' = FALSE /\ Return("EIO")
      /\ UNCHANGED <<head, tail, stop_read_ahead, driver_state>>
  BY <1>0
<1>2. /\ p \in Buffer
      /\ p.sector_count <= p.remaining
      /\ p.next_segment \in {0, p.segment_id + 1}
  BY <1>0, PreparedType, StartTapeType
<1>3. /\ b \in Buffer /\ b.status = "reading"
      /\ b.sector_count <= b.remaining
      /\ b.next_segment \in {0, b.segment_id + 1}
  <2>1. "reading" \in BufferStates
    BY DEF BufferStates
  <2>2. QED
    BY <1>2, <2>1 DEF Buffer
<1> HIDE DEF b
<1>4. /\ old_driver_state' \in DriverStates
      /\ old_segment_id' \in Segments \cup {None}
      /\ last_segment_skipped' \in Segments \cup {None}
  BY <1>1, RememberSetupType DEF IsrInv, ProcTypeOK
<1>5. faults' \in Nat
  BY <1>1, FaultType DEF NoFault, IsrInv, IsrTypeOK
<1>6. runner_status' \in RunnerStates
  BY <1>1 DEF IsrInv, IsrTypeOK, RunnerStates
<1>7. ProcTypeOK'
  <2>1. "scan" \in Steps /\ "EIO" \in Results
    BY DEF Steps, Results
  <2>2. QED
    BY <1>1, <2>1, GotoType, ReturnType
<1>8. buffers' \in [Ring -> Buffer]
  BY <1>1, <1>2, <1>3 DEF SetHead, IsrInv, IsrTypeOK
<1>9. fdc_mode' \in Modes /\ busy' \in BOOLEAN
  BY <1>1 DEF Modes
<1>10. IsrTypeOK'
  BY <1>1, <1>4, <1>5, <1>6, <1>8, <1>9 DEF IsrInv, IsrTypeOK
<1>11. TransferSound'
  <2>1. SUFFICES ASSUME Transferring'
                 PROVE  TransferSound'
    BY DEF TransferSound
  <2>2. SetHead(b) /\ fdc_mode' = "reading_data" /\ head' = head
    BY <1>1, <2>1 DEF Transferring
  <2>3. buffers'[head'] = b
    BY <2>2 DEF SetHead, IsrInv, IsrTypeOK
  <2>4. QED
    BY <1>3, <2>2, <2>3 DEF TransferSound, HEAD
<1>12. QED
  BY <1>7, <1>10, <1>11 DEF IsrInv

-----------------------------------------------------------------------------
(* What the steps do to the ring                                            *)

(* The ring, for the steps below.                                          *)
LEMMA RingTypes ==
    ASSUME IsrInv
    PROVE  /\ buffers \in [Ring -> Buffer] /\ head \in Ring /\ tail \in Ring
           /\ next(head) \in Ring /\ next(tail) \in Ring
  BY NextInRing DEF IsrInv, IsrTypeOK

(* A step that leaves the ring alone and starts no transfer.               *)
LEMMA RingUntouched ==
    ASSUME ReadRing, UNCHANGED ring, Transferring' => Transferring, ModesOK'
    PROVE  ReadRing'
<1>1. buffers' = buffers /\ head' = head /\ tail' = tail
  BY DEF ring
<1>2. RingOK'
  BY <1>1 DEF ReadRing, RingOK, Held, Full, HEAD
<1>3. AheadOK'
  BY <1>1 DEF ReadRing, AheadOK, HEAD
<1>4. CacheIsInOrder'
  BY <1>1 DEF ReadRing, CacheIsInOrder
<1>5. QED
  BY <1>2, <1>3, <1>4 DEF ReadRing

(* The handler goes on with HEAD, or leaves it in error.                   *)
LEMMA HeadStaysRing ==
    ASSUME IsrInv, ReadRing, Transferring, HeadStays, UNCHANGED tail, ModesOK'
    PROVE  ReadRing'
<1>1. /\ buffers \in [Ring -> Buffer] /\ head \in Ring /\ tail \in Ring
      /\ head' = head /\ tail' = tail
      /\ \A i \in Ring : i # head => buffers'[i] = buffers[i]
      /\ buffers'[head].segment_id = buffers[head].segment_id
      /\ buffers'[head].status \in {"reading", "error"}
      /\ Transferring' => buffers'[head].status = "reading"
      /\ buffers[head].status = "reading"
  BY RingTypes DEF HeadStays, HEAD, ReadRing, AheadOK
<1>2. ~ Full /\ ~ Full'
  BY <1>1 DEF Full, HEAD
<1>3. RingOK'
  BY <1>1, <1>2 DEF ReadRing, RingOK, Held, HEAD
<1>4. AheadOK'
  <2>1. \A i \in Ring : Between(tail, i, head) => i # head
    BY <1>1, BetweenFacts
  <2>2. QED
    BY <1>1, <2>1 DEF ReadRing, AheadOK, HEAD
<1>5. CacheIsInOrder'
  BY <1>1, NextInRing DEF ReadRing, CacheIsInOrder
<1>6. QED
  BY <1>3, <1>4, <1>5 DEF ReadRing

(* What comes after HEAD while the handler reads: a free buffer, or TAIL,  *)
(* which is full unless the ring has one buffer only.                      *)
LEMMA NextOfHead ==
    ASSUME IsrInv, ReadRing, Transferring
    PROVE  /\ next(head) # tail => next(head) # head
                                   /\ buffers[next(head)].status = "waiting"
           /\ next(head) = tail /\ tail # head => buffers[tail].status = "done"
<1>1. head \in Ring /\ tail \in Ring /\ next(head) \in Ring
  BY RingTypes
<1>2. ~ Full
  BY DEF Full, ReadRing, AheadOK
<1>3. ASSUME next(head) # tail PROVE next(head) # head
  <2>1. next(head) = IF head = NrBuffers - 1 THEN 0 ELSE head + 1
    BY <1>1, NrBuffersAssumption DEF Ring, next
  <2>2. QED
    BY <1>1, <1>3, <2>1, NrBuffersAssumption DEF Ring
<1>4. ASSUME next(head) # tail PROVE buffers[next(head)].status = "waiting"
  <2>1. ~ Held(next(head))
    BY <1>1, <1>2, <1>4, BetweenFacts DEF Held
  <2>2. QED
    BY <1>1, <1>3, <1>4, <2>1 DEF ReadRing, RingOK
<1>5. tail # head => buffers[tail].status = "done"
  BY <1>1, BetweenFacts DEF ReadRing, AheadOK
<1>6. QED
  BY <1>3, <1>4, <1>5

(* The handler is done with HEAD, and stops.                               *)
LEMMA HeadLeavesRing ==
    ASSUME IsrInv, ReadRing, Transferring, HeadLeaves, UNCHANGED tail, ModesOK'
    PROVE  ReadRing'
<1>1. /\ head \in Ring /\ tail \in Ring /\ next(head) \in Ring
      /\ head' = next(head) /\ tail' = tail
      /\ \A i \in Ring : i # head => buffers'[i] = buffers[i]
      /\ buffers'[head].segment_id = buffers[head].segment_id
      /\ buffers'[head].status \in {"done", "error"}
      /\ ~ Transferring'
      /\ buffers[head].status = "reading"
      /\ \A i \in Ring : Between(tail, i, head) => buffers[i].status = "done"
  BY RingTypes DEF HeadLeaves, HEAD, ReadRing, AheadOK
<1>2. ~ Full
  BY <1>1 DEF Full, HEAD
<1>3. CASE next(head) # tail
  <2>1. next(head) # head /\ buffers'[next(head)].status = "waiting"
    BY <1>1, <1>3, NextOfHead
  <2>2. ~ Full'
    BY <1>1, <1>3 DEF Full
  <2>3. \A i \in Ring : Held(i)' <=> i = head \/ Between(tail, i, head)
    BY <1>1, <1>3, <2>2, BetweenFacts DEF Held
  <2>4. \A i \in Ring : Held(i) <=> Between(tail, i, head)
    BY <1>2 DEF Held
  <2>5. RingOK'
    <3>1. \A i \in Ring : i # head' /\ Held(i)' => buffers'[i].status \in {"done", "error"}
      BY <1>1, <2>3
    <3>2. \A i \in Ring : i # head' /\ ~ Held(i)' => buffers'[i].status = "waiting"
      BY <1>1, <2>3, <2>4 DEF ReadRing, RingOK
    <3>3. QED
      BY <1>1, <2>1, <3>1, <3>2 DEF RingOK, HEAD
  <2>6. CacheIsInOrder'
    BY <1>1, <1>3, <2>1, NextInRing DEF ReadRing, CacheIsInOrder
  <2>7. QED
    BY <1>1, <2>5, <2>6 DEF ReadRing, AheadOK
<1>4. CASE next(head) = tail
  <2>1. buffers'[tail].status \in {"done", "error"}
    BY <1>1, <1>4, NextOfHead
  <2>2. \A i \in Ring : buffers'[i].status \in {"done", "error"}
    BY <1>1, <1>4, BetweenFacts
  <2>3. tail # head => buffers'[tail].status = "done"
    BY <1>1, <1>4, NextOfHead
  <2>4. RingOK'
    <3>1. CASE tail = head
      <4>1. \A i \in Ring : i = head
        BY <1>1, <1>4, <3>1, BetweenFacts
      <4>2. QED
        BY <1>1, <1>4, <2>1, <3>1, <4>1 DEF RingOK, HEAD
    <3>2. CASE tail # head
      <4>1. Full'
        BY <1>1, <1>4, <2>3, <3>2 DEF Full, HEAD
      <4>2. QED
        BY <1>1, <1>4, <2>2, <4>1 DEF RingOK, Held, HEAD
    <3>3. QED
      BY <3>1, <3>2
  <2>5. CacheIsInOrder'
    BY <1>1, <1>4, <2>2, NextInRing DEF ReadRing, CacheIsInOrder
  <2>6. QED
    BY <1>1, <2>4, <2>5 DEF ReadRing, AheadOK
<1>5. QED
  BY <1>3, <1>4

(* The handler is done with HEAD and reads the next segment into the next  *)
(* buffer, or fails to start doing so.                                     *)
LEMMA HeadGoesOnRing ==
    ASSUME IsrInv, ReadRing, Transferring, HeadGoesOn, UNCHANGED tail, ModesOK'
    PROVE  ReadRing'
<1>0. StatusAhead = "reading"
  BY DEF StatusAhead, IsWrite, ReadRing, ModesOK
<1>1. /\ head \in Ring /\ tail \in Ring /\ next(head) \in Ring
      /\ head' = next(head) /\ tail' = tail /\ next(head) # head
      /\ \A i \in Ring : i # head /\ i # next(head) => buffers'[i] = buffers[i]
      /\ buffers[next(head)].status = "waiting"
      /\ buffers'[next(head)].status \in {"reading", "waiting"}
      /\ Transferring' => buffers'[next(head)].status = "reading"
      /\ buffers'[next(head)].segment_id = buffers[head].segment_id + 1
      /\ buffers'[head].segment_id = buffers[head].segment_id
      /\ buffers'[head].status = "done"
      /\ buffers[head].status = "reading"
      /\ \A i \in Ring : Between(tail, i, head) => buffers[i].status = "done"
  BY <1>0, RingTypes DEF HeadGoesOn, HEAD, ReadRing, AheadOK
<1>2. ~ Full
  BY <1>1 DEF Full, HEAD
<1>3. next(head) # tail
  BY <1>1, NextOfHead
<1>4. ~ Full'
  BY <1>1, <1>3 DEF Full
<1>5. \A i \in Ring : Held(i)' <=> i = head \/ Between(tail, i, head)
  BY <1>1, <1>3, <1>4, BetweenFacts DEF Held
<1>6. \A i \in Ring : Held(i) <=> Between(tail, i, head)
  BY <1>2 DEF Held
<1>7. RingOK'
  <2>1. \A i \in Ring : i # head' /\ Held(i)' => buffers'[i].status \in {"done", "error"}
    BY <1>1, <1>5
  <2>2. \A i \in Ring : i # head' /\ ~ Held(i)' => buffers'[i].status = "waiting"
    BY <1>1, <1>5, <1>6 DEF ReadRing, RingOK
  <2>3. QED
    BY <1>1, <2>1, <2>2 DEF RingOK, HEAD
<1>8. AheadOK'
  <2>1. \A i \in Ring : Between(tail', i, head') => i = head \/ Between(tail, i, head)
    BY <1>1, <1>3, BetweenFacts
  <2>2. ~ Between(tail, next(head), head)
    BY <1>1, <1>3, BetweenFacts
  <2>3. QED
    BY <1>1, <2>1, <2>2 DEF AheadOK, HEAD
<1>9. CacheIsInOrder'
  <2>1. SUFFICES ASSUME NEW i \in Ring, next(i) # tail',
                        buffers'[i].status = "done",
                        \/ buffers'[next(i)].status = "done"
                        \/ next(i) = head' /\ buffers'[next(i)].status = "reading"
                 PROVE  buffers'[next(i)].segment_id = buffers'[i].segment_id + 1
    BY DEF CacheIsInOrder
  <2>2. CASE i = head
    BY <1>1, <2>2
  <2>3. CASE i # head
    <3>1. next(i) \in Ring /\ i # next(head)
      BY <1>1, <2>1, NextInRing
    <3>2. next(i) # next(head)
      <4>1. \A j \in Ring : next(j) = IF j = NrBuffers - 1 THEN 0 ELSE j + 1
        BY NrBuffersAssumption DEF Ring, next
      <4>2. QED
        BY <1>1, <2>3, <4>1, NrBuffersAssumption DEF Ring
    <3>3. buffers'[i] = buffers[i]
      BY <1>1, <2>3, <3>1
    <3>4. CASE next(i) = head
      BY <1>1, <2>1, <3>3, <3>4 DEF ReadRing, CacheIsInOrder
    <3>5. CASE next(i) # head
      BY <1>1, <2>1, <3>1, <3>2, <3>3, <3>5 DEF ReadRing, CacheIsInOrder
    <3>6. QED
      BY <3>4, <3>5
  <2>4. QED
    BY <2>2, <2>3
<1>10. QED
  BY <1>7, <1>8, <1>9 DEF ReadRing

(* One run of the handler.                                                 *)
LEMMA HandlerRing ==
    ASSUME IsrInv, ReadRing, fdc_isr
    PROVE  ReadRing'
<1>1. /\ UNCHANGED <<tail, driver_state>>
      /\ fdc_mode' \in {fdc_mode, "idle", "seeking"}
      /\ IF fdc_mode = "seeking"
         THEN UNCHANGED <<head, buffers>> /\ ~ Transferring'
         ELSE Transferring /\ (HeadStays \/ HeadLeaves \/ HeadGoesOn)
  BY HandlerStep
<1>2. ModesOK'
  BY <1>1 DEF ReadRing, ModesOK
<1>3. CASE fdc_mode = "seeking"
  BY <1>1, <1>2, <1>3, RingUntouched DEF ring
<1>4. CASE fdc_mode # "seeking"
  BY <1>1, <1>2, <1>4, HeadStaysRing, HeadLeavesRing, HeadGoesOnRing
<1>5. QED
  BY <1>3, <1>4

(* The process takes or drops the full buffer TAIL.                        *)
LEMMA FreeTailRing ==
    ASSUME IsrInv, ReadRing, TAIL.status = "done", FreeTail, UNCHANGED untouched
    PROVE  ReadRing'
<1>1. /\ buffers \in [Ring -> Buffer] /\ head \in Ring /\ tail \in Ring
      /\ next(tail) \in Ring
  BY RingTypes
<1>2. /\ buffers' = [buffers EXCEPT ![tail].status = "waiting"]
      /\ tail' = next(tail) /\ head' = head /\ buffers[tail].status = "done"
  BY DEF FreeTail, TAIL
<1>3. /\ buffers'[tail].status = "waiting"
      /\ \A i \in Ring : i # tail => buffers'[i] = buffers[i]
  BY <1>1, <1>2 DEF Buffer
<1>4. (Transferring' <=> Transferring) /\ ModesOK'
  BY DEF untouched, controller, Transferring, ReadRing, ModesOK
<1>5. ~ Full'
  BY <1>1, <1>2, <1>3 DEF Full, HEAD, ReadRing, RingOK
<1>6. \A i \in Ring : Held(i)' <=> Held(i) /\ i # tail
  <2>1. \A i \in Ring : Held(i)' <=> Between(next(tail), i, head)
    BY <1>2, <1>5 DEF Held
  <2>2. CASE tail = head
    <3>1. Full
      BY <1>2, <2>2 DEF Full, HEAD
    <3>2. QED
      BY <1>1, <2>1, <2>2, <3>1, BetweenFacts DEF Held
  <2>3. CASE tail # head
    BY <1>1, <2>1, <2>3, BetweenFacts DEF Held, Full
  <2>4. QED
    BY <2>2, <2>3
<1>7. RingOK'
  <2>1. \A i \in Ring : i # head' /\ Held(i)' => buffers'[i].status \in {"done", "error"}
    BY <1>2, <1>3, <1>6 DEF ReadRing, RingOK
  <2>2. \A i \in Ring : i # head' /\ ~ Held(i)' => buffers'[i].status = "waiting"
    BY <1>2, <1>3, <1>6 DEF ReadRing, RingOK
  <2>3. /\ buffers'[head].status \in {"waiting", "reading", "done", "error"}
        /\ buffers'[head].status # "done"
    BY <1>1, <1>2, <1>3 DEF ReadRing, RingOK, HEAD
  <2>4. QED
    BY <1>2, <2>1, <2>2, <2>3 DEF RingOK, HEAD
<1>8. AheadOK'
  <2>1. SUFFICES ASSUME Transferring' PROVE AheadOK'
    BY DEF AheadOK
  <2>2. /\ buffers[head].status = "reading" /\ head # tail
        /\ \A i \in Ring : Between(tail, i, head) => buffers[i].status = "done"
    BY <1>2, <1>4, <2>1 DEF ReadRing, AheadOK, HEAD
  <2>3. \A i \in Ring : Between(tail', i, head') => Between(tail, i, head) /\ i # tail
    BY <1>1, <1>2, <2>2, BetweenFacts
  <2>4. QED
    BY <1>1, <1>2, <1>3, <2>2, <2>3 DEF AheadOK, HEAD
<1>9. CacheIsInOrder'
  <2>1. SUFFICES ASSUME NEW i \in Ring, next(i) # tail',
                        buffers'[i].status = "done",
                        \/ buffers'[next(i)].status = "done"
                        \/ next(i) = head' /\ buffers'[next(i)].status = "reading"
                 PROVE  buffers'[next(i)].segment_id = buffers'[i].segment_id + 1
    BY DEF CacheIsInOrder
  <2>2. i # tail /\ next(i) # tail /\ next(i) \in Ring
    BY <1>3, <2>1, NextInRing
  <2>3. buffers'[i] = buffers[i] /\ buffers'[next(i)] = buffers[next(i)]
    BY <1>3, <2>2
  <2>4. QED
    BY <1>2, <2>1, <2>2, <2>3 DEF ReadRing, CacheIsInOrder
<1>10. QED
  BY <1>4, <1>7, <1>8, <1>9 DEF ReadRing

(* A ring in which nothing is held, whatever HEAD does.                    *)
Empty ==
    /\ head = tail /\ ModesOK
    /\ HEAD.status \in {"waiting", "reading", "error"}
    /\ \A i \in Ring : i # head => buffers[i].status = "waiting"
    /\ Transferring => HEAD.status = "reading"

(* It is as reading needs it,                                              *)
LEMMA EmptyRing == IsrInv /\ Empty => ReadRing
<1>0. SUFFICES ASSUME IsrInv, Empty PROVE ReadRing
  OBVIOUS
<1> USE <1>0 DEF Empty
<1>1. head \in Ring /\ \A i \in Ring : ~ Between(tail, i, head)
  BY RingTypes, BetweenFacts
<1>2. RingOK
  BY <1>1 DEF RingOK, Held, Full
<1>3. AheadOK
  BY <1>1 DEF AheadOK
<1>4. CacheIsInOrder
  BY DEF CacheIsInOrder, HEAD
<1>5. QED
  BY <1>2, <1>3, <1>4 DEF ReadRing

(* in the next state as well;                                              *)
LEMMA EmptyRingAfter == (IsrInv /\ Empty => ReadRing)'
  BY EmptyRing, PTL

(* the end of ftape_abort_operation() leaves such a ring,                  *)
LEMMA AbortEndRing ==
    ASSUME IsrInv, AbortEnd, driver_state' \in {"waiting", "reading"}, IsrInv'
    PROVE  ReadRing'
<1>1. head' = 0 /\ tail' = 0 /\ ControllerQuiet
  BY DEF AbortEnd, ftape_reset_buffer
<1>2. head' \in Ring
  BY <1>1, NrBuffersAssumption DEF Ring
<1>3. \A i \in Ring : buffers'[i].status = "waiting"
  BY ZapType DEF AbortEnd, fdc_zap_buffers, IsrInv, IsrTypeOK
<1>4. ~ Transferring' /\ ModesOK'
  BY <1>1, QuietType DEF ModesOK
<1>5. (HEAD.status)' = "waiting"
  BY <1>2, <1>3 DEF HEAD
<1>6. QED
  BY <1>1, <1>3, <1>4, <1>5, EmptyRingAfter DEF Empty

(* and a TAIL that is free means one: then HEAD is TAIL, and nothing is in *)
(* transfer.                                                               *)
LEMMA FreeTailIsHead ==
    ASSUME IsrInv, ReadRing, TAIL.status = "waiting"
    PROVE  /\ head = tail /\ ~ Transferring
           /\ \A i \in Ring : i # head => buffers[i].status = "waiting"
<1>1. head \in Ring /\ tail \in Ring
  BY RingTypes
<1>2. head = tail
  <2>1. SUFFICES ASSUME head # tail PROVE FALSE
    OBVIOUS
  <2>2. Held(tail)
    BY <1>1, <2>1, BetweenFacts DEF Held
  <2>3. buffers[tail].status \in {"done", "error"}
    BY <1>1, <2>1, <2>2 DEF ReadRing, RingOK
  <2>4. QED
    BY <2>3 DEF TAIL
<1>3. ~ Transferring
  BY <1>2 DEF ReadRing, AheadOK, HEAD, TAIL
<1>4. \A i \in Ring : ~ Held(i)
  BY <1>1, <1>2, BetweenFacts DEF Held, Full, HEAD, TAIL
<1>5. QED
  BY <1>2, <1>3, <1>4 DEF ReadRing, RingOK

(* The runner is started, or fails to start, on HEAD, which is TAIL.       *)
LEMMA StartRunnerRing ==
    ASSUME IsrInv, ProcTypeOK, ReadRing, StartRunner, IsrInv'
    PROVE  ReadRing'
<1>1. TAIL.status = "waiting"
  BY DEF StartRunner
<1>2. /\ head = tail /\ head \in Ring /\ buffers \in [Ring -> Buffer]
      /\ HEAD.status = "waiting"
      /\ \A i \in Ring : i # head => buffers[i].status = "waiting"
  BY <1>1, FreeTailIsHead, RingTypes DEF HEAD, TAIL
<1>3. PICK p \in StartTape(Prepared) :
        /\ \/ SetHead([p EXCEPT !.status = "reading"])
           \/ SetHead(p) /\ fdc_mode' = "idle" /\ busy' = FALSE
        /\ fdc_mode' \in {"reading_data", "idle"}
        /\ head' = head /\ tail' = tail /\ driver_state' = driver_state
  BY DEF StartRunner
<1>4. p \in Buffer /\ p.status = "waiting"
  BY <1>2, <1>3, PreparedType, StartTapeType
<1>5. [p EXCEPT !.status = "reading"].status = "reading"
  BY <1>4 DEF Buffer
<1>6. /\ \A i \in Ring : i # head => buffers'[i] = buffers[i]
      /\ \/ buffers'[head].status = "reading"
         \/ buffers'[head].status = "waiting" /\ fdc_mode' = "idle" /\ busy' = FALSE
  BY <1>2, <1>3, <1>4, <1>5 DEF SetHead
<1>7. ModesOK'
  BY <1>3 DEF ReadRing, ModesOK
<1>8. /\ (HEAD.status)' \in {"waiting", "reading"}
      /\ Transferring' => (HEAD.status)' = "reading"
  BY <1>3, <1>6 DEF HEAD, Transferring
<1>9. QED
  BY <1>2, <1>3, <1>6, <1>7, <1>8, EmptyRingAfter DEF Empty

(* The tape is stopped after an error: HEAD is free again.                 *)
LEMMA RunnerAbortingRing ==
    ASSUME IsrInv, ReadRing, RunnerAborting
    PROVE  ReadRing'
<1>1. ControllerQuiet /\ FreeHead /\ UNCHANGED <<head, tail, driver_state>>
  BY DEF RunnerAborting, ftape_dumb_stop
<1>2. ~ Transferring' /\ ModesOK'
  BY <1>1, QuietType DEF ReadRing, ModesOK
<1>3. buffers \in [Ring -> Buffer] /\ head \in Ring /\ tail \in Ring
  BY RingTypes
<1>4. /\ \A i \in Ring : i # head => buffers'[i] = buffers[i]
      /\ buffers'[head].status = IF buffers[head].status \in {"error", "reading"}
                                 THEN "waiting" ELSE buffers[head].status
      /\ buffers'[head].segment_id = buffers[head].segment_id
  BY <1>1, <1>3 DEF FreeHead, Buffer
<1>5. /\ buffers'[head].status = "done" <=> buffers[head].status = "done"
      /\ buffers'[head].status \in {"waiting", "done"}
  BY <1>4 DEF ReadRing, RingOK, HEAD
<1>6. RingOK'
  <2>1. (Full' <=> Full) /\ \A i \in Ring : Held(i)' <=> Held(i)
    BY <1>1, <1>5 DEF Held, Full, HEAD
  <2>2. \A i \in Ring : i # head' /\ Held(i)' => buffers'[i].status \in {"done", "error"}
    BY <1>1, <1>4, <2>1 DEF ReadRing, RingOK
  <2>3. \A i \in Ring : i # head' /\ ~ Held(i)' => buffers'[i].status = "waiting"
    BY <1>1, <1>4, <2>1 DEF ReadRing, RingOK
  <2>4. QED
    BY <1>1, <1>5, <2>2, <2>3 DEF ReadRing, RingOK, HEAD
<1>7. CacheIsInOrder'
  <2>1. SUFFICES ASSUME NEW i \in Ring, next(i) # tail',
                        buffers'[i].status = "done",
                        \/ buffers'[next(i)].status = "done"
                        \/ next(i) = head' /\ buffers'[next(i)].status = "reading"
                 PROVE  buffers'[next(i)].segment_id = buffers'[i].segment_id + 1
    BY DEF CacheIsInOrder
  <2>2. next(i) \in Ring
    BY NextInRing
  <2>3. buffers[i].status = "done" /\ buffers[next(i)].status = "done"
    BY <1>1, <1>4, <1>5, <2>1, <2>2
  <2>4. /\ buffers'[i].segment_id = buffers[i].segment_id
        /\ buffers'[next(i)].segment_id = buffers[next(i)].segment_id
    BY <1>4, <2>2
  <2>5. QED
    BY <1>1, <2>1, <2>3, <2>4 DEF ReadRing, CacheIsInOrder
<1>8. QED
  BY <1>2, <1>6, <1>7 DEF ReadRing, AheadOK

(* Every step of the process.                                              *)
LEMMA ProcessRing ==
    ASSUME IsrInv, ProcTypeOK, ReadRing, Call \/ Signal \/ Process, IsrInv'
    PROVE  ReadRing'
<1>1. CASE UNCHANGED ring /\ UNCHANGED <<fdc_mode, busy, driver_state>>
  BY <1>1, RingUntouched DEF ReadRing, ModesOK, Transferring
<1>2. CASE AbortForCall \/ AbortForWait
  BY <1>2, AbortEndRing DEF AbortForCall, AbortForWait
<1>3. CASE ScanFound \/ ScanEccFailure \/ ScanZap
  BY <1>3, FreeTailRing DEF ScanFound, ScanEccFailure, ScanZap, Found
<1>4. CASE WaitTimeout
  <2>1. ControllerQuiet /\ UNCHANGED ring /\ UNCHANGED driver_state
    BY <1>4 DEF WaitTimeout
  <2>2. ~ Transferring' /\ ModesOK'
    BY <2>1, QuietType DEF ReadRing, ModesOK
  <2>3. QED
    BY <2>1, <2>2, RingUntouched
<1>5. CASE RunnerAborting
  BY <1>5, RunnerAbortingRing
<1>6. CASE StartRunner
  BY <1>6, StartRunnerRing
<1>7. CASE \/ Call \/ Signal \/ ScanDeleted \/ ScanEnd \/ WaitWrongSegment \/ WaitAwake
           \/ WaitEnd \/ RunnerEot \/ ReturnSegment \/ TooManyRetries \/ StartOver
  <2>1. UNCHANGED ring /\ UNCHANGED <<fdc_mode, busy, driver_state>>
    BY <1>7 DEF Call, Signal, ScanDeleted, ScanEnd, WaitWrongSegment, WaitAwake, WaitEnd,
       RunnerEot, ReturnSegment, TooManyRetries, StartOver, isrvars, controller
  <2>2. QED
    BY <1>1, <2>1
<1>8. QED
  BY <1>2, <1>3, <1>4, <1>5, <1>6, <1>7 DEF Process

-----------------------------------------------------------------------------
(* The invariant                                                            *)

(* The invariant holds when the driver has been enabled.                   *)
LEMMA InitInv == Init => ReadInv
<1>1. SUFFICES ASSUME Init PROVE IsrInv /\ ProcTypeOK /\ ReadRing
  BY DEF ReadInv
<1>2. IsrInv
  BY <1>1, IsrInitInv DEF Init
<1>3. ProcTypeOK
  BY <1>1 DEF Init, ProcTypeOK, Steps, Results
<1>4. ReadRing
  <2>1. /\ head = 0 /\ tail = 0 /\ head \in Ring
        /\ \A i \in Ring : buffers[i].status = "waiting"
        /\ ~ Transferring /\ ModesOK
    BY <1>1, IsrInitInv, NrBuffersAssumption
       DEF Init, IsrInit, ModesOK, Ring, NewBuffer, Transferring
  <2>2. QED
    BY <1>2, <2>1, EmptyRing DEF Empty, HEAD
<1>5. QED
  BY <1>2, <1>3, <1>4

(* Every step of the process and of the interrupt handler preserves the    *)
(* invariant.                                                              *)
LEMMA NextInv == ReadInv /\ [Next]_vars => ReadInv'
<1>1. SUFFICES ASSUME IsrInv, ProcTypeOK, ReadRing, [Next]_vars
               PROVE  IsrInv' /\ ProcTypeOK' /\ ReadRing'
  BY DEF ReadInv
<1>2. CASE Interrupt
  <2>1. IsrInv' /\ ReadRing'
    BY <1>1, <1>2, HandlerStep, HandlerRing DEF Interrupt
  <2>2. ProcTypeOK'
    BY <1>1, <1>2 DEF Interrupt, ProcTypeOK, procvars
  <2>3. QED
    BY <2>1, <2>2
<1>3. CASE Call \/ Signal \/ Process
  <2>1. IsrInv' /\ ProcTypeOK'
    BY <1>1, <1>3, AbortForCallStep, AbortForWaitStep, ScanStep, WaitStep, RunnerStep,
       CallStep, StartRunnerStep DEF Process
  <2>2. QED
    BY <1>1, <1>3, <2>1, ProcessRing
<1>4. CASE UNCHANGED vars
  <2>1. IsrInv'
    BY <1>1, <1>4, IdleStep DEF vars, isrvars, IsrInv, IsrTypeOK
  <2>2. ProcTypeOK'
    BY <1>1, <1>4 DEF vars, procvars, ProcTypeOK
  <2>3. ReadRing'
    BY <1>1, <1>4, RingUntouched
       DEF vars, isrvars, controller, ReadRing, ModesOK, Transferring
  <2>4. QED
    BY <2>1, <2>2, <2>3
<1>5. QED
  BY <1>1, <1>2, <1>3, <1>4 DEF Next

(***************************************************************************)
(* The inductive invariant of reading: the types, the transfer under way,  *)
(* which buffers of the ring are full, and in which order.                 *)
(***************************************************************************)
THEOREM ReadInvariant == Spec => []ReadInv
  BY InitInv, NextInv, PTL DEF Spec

(***************************************************************************)
(* Type correctness of reading: in particular no count of sectors, taken   *)
(* from an unsigned counter of the code, ever goes below zero.             *)
(***************************************************************************)
THEOREM ReadTypeCorrect == Spec => []ReadTypeOK
<1>1. ReadInv => ReadTypeOK
  BY DEF ReadInv, IsrInv, ProcTypeOK, ReadTypeOK
<1>2. QED
  BY <1>1, ReadInvariant, PTL

(***************************************************************************)
(* While a cluster is transferred, the buffer stays in HEAD, whatever      *)
(* ftape_read_segment() does meanwhile.                                    *)
(***************************************************************************)
THEOREM ReadTransferInHead == Spec => []TransferInHead
<1>1. ReadInv => TransferInHead
  BY DEF ReadInv, IsrInv, ReadRing, AheadOK, TransferSound, TransferInHead
<1>2. QED
  BY <1>1, ReadInvariant, PTL

(***************************************************************************)
(* Reading ahead never overwrites a segment that ftape_read_segment() has  *)
(* not taken yet.                                                          *)
(***************************************************************************)
THEOREM ReadKeepsFullBuffers == Spec => FullBuffersAreKept
<1> DEFINE Kept == fdc_isr => \A i \in Ring : buffers[i].status = "done"
                                              => buffers'[i] = buffers[i]
<1>1. ReadInv /\ [Next]_vars => [Kept]_vars
  BY HandlerStep DEF ReadInv
<1>2. QED
  BY <1>1, ReadInvariant, PTL DEF Spec, FullBuffersAreKept

(***************************************************************************)
(* ftape_read_segment() sets the handler to work again only on the buffer  *)
(* it will look at itself, and never while a transfer is under way: the    *)
(* free TAIL it checks (ftape-read.c) says enough about HEAD, which it     *)
(* does not check.                                                         *)
(***************************************************************************)
THEOREM ReadRestartIsSafe == Spec => []RestartIsSafe
<1>1. ReadInv => RestartIsSafe
  BY FreeTailIsHead DEF ReadInv, RestartIsSafe, Transferring
<1>2. QED
  BY <1>1, ReadInvariant, PTL

(***************************************************************************)
(* The segments read ahead lie in the ring in the order of the tape, and   *)
(* the one being read follows them.                                        *)
(***************************************************************************)
THEOREM ReadCacheIsInOrder == Spec => []CacheIsInOrder
<1>1. ReadInv => CacheIsInOrder
  BY DEF ReadInv, ReadRing
<1>2. QED
  BY <1>1, ReadInvariant, PTL

-----------------------------------------------------------------------------
(* The error maps of the buffers                                            *)

(* UnreadBlocksAreFlagged, of one buffer.                                  *)
DoneOK(b) ==
    (/\ b.status = "done" /\ b.deleted = 0 /\ b.stray = 0
     /\ Cardinality(Blocks(b.segment_id)) > EccBlocks)
    => /\ b.bytes = Cardinality(Blocks(b.segment_id))
       /\ Blocks(b.segment_id) \ b.moved \subseteq convert_sector_map(b)

(* Every buffer can be resumed where it says and is flagged when it is     *)
(* done, and the transfer under way is on course.                          *)
MapInv ==
    /\ \A i \in Ring : SkipOK(buffers[i]) /\ DoneOK(buffers[i])
    /\ Transferring => OnCourse(HEAD) /\ InCluster(HEAD)

(* A segment with more blocks than the ECC code corrects has more than one.*)
LEMMA MoreThanOne ==
    ASSUME NEW seg, Cardinality(Blocks(seg)) > EccBlocks
    PROVE  Cardinality(Blocks(seg)) > 1
<1>1. Block(seg, SectorsPerSegment) \in Nat
  BY SectorsAssumption, BlockType
<1>2. Cardinality(Blocks(seg)) = Block(seg, SectorsPerSegment)
  BY BlocksCount
<1>3. QED
  BY <1>1, <1>2, EccBlocksAssumption

(* A transfer that has passed the whole segment may be marked done.        *)
LEMMA FinishedMaps ==
    ASSUME NEW b \in Buffer, OnCourse(b), Known(b) => b.remaining = 0
    PROVE  DoneOK(FinishBuffer(b))
<1> DEFINE c == FinishBuffer(b)
<1>1. /\ c.segment_id = b.segment_id /\ c.stray = b.stray /\ c.moved = b.moved
      /\ c.soft_error_map = b.soft_error_map /\ c.hard_error_map = b.hard_error_map
      /\ c.bytes = b.data_offset
  BY DEF FinishBuffer, Buffer
<1>2. convert_sector_map(c) = convert_sector_map(b)
  BY <1>1 DEF convert_sector_map
<1>3. SUFFICES ASSUME c.stray = 0, Cardinality(Blocks(c.segment_id)) > EccBlocks
               PROVE  /\ c.bytes = Cardinality(Blocks(c.segment_id))
                      /\ Blocks(c.segment_id) \ c.moved \subseteq convert_sector_map(c)
  BY DEF DoneOK
<1> HIDE DEF c
<1>4. Cardinality(Blocks(b.segment_id)) > 1 /\ b.stray = 0
  BY <1>1, <1>3, MoreThanOne
<1>5. QED
  BY <1>1, <1>2, <1>4, CompleteMaps

(* A step of the handler that changes HEAD alone.                          *)
LEMMA HeadMaps ==
    ASSUME IsrInv, MapInv, Transferring, NEW c \in Buffer, SetHead(c),
           SkipOK(c), DoneOK(c),
           Transferring' => head' = head /\ OnCourse(c) /\ InCluster(c)
    PROVE  MapInv'
<1>1. /\ head \in Ring /\ buffers'[head] = c
      /\ \A i \in Ring : i # head => buffers'[i] = buffers[i]
  BY SetHeadType DEF IsrInv, IsrTypeOK
<1>2. \A i \in Ring : SkipOK(buffers'[i]) /\ DoneOK(buffers'[i])
  BY <1>1 DEF MapInv
<1>3. Transferring' => OnCourse(buffers'[head']) /\ InCluster(buffers'[head'])
  BY <1>1
<1>4. QED
  BY <1>2, <1>3 DEF MapInv, HEAD

(* A buffer given up can be resumed where it could before.                 *)
LEMMA GiveUpMaps ==
    ASSUME IsrInv, MapInv, Transferring, NEW b \in Buffer, SkipOK(b), GiveUpBuffer(b)
    PROVE  MapInv'
<1> DEFINE c == [b EXCEPT !.status = "error"]
<1>1. c \in Buffer /\ c.status = "error" /\ SameMaps(c, b)
  BY DEF Buffer, BufferStates, SameMaps
<1>2. SetHead(c) /\ Stop("idle")
  BY DEF GiveUpBuffer
<1> HIDE DEF c
<1>3. ~ Transferring'
  BY <1>2, StopType DEF Modes
<1>4. SkipOK(c) /\ DoneOK(c)
  BY <1>1, SameMapsKeep DEF DoneOK
<1>5. QED
  BY <1>1, <1>2, <1>3, <1>4, HeadMaps

(* The next cluster of the segment.                                        *)
LEMMA ContinueSegmentMaps ==
    ASSUME IsrInv, MapInv, Transferring, NEW b \in Buffer, NEW late,
           b.status = HEAD.status, SkipOK(b), OnCourse(b), InCluster(b),
           ContinueSegment(b, late)
    PROVE  MapInv'
<1>1. CASE SetHead(b) /\ head' = head
  <2>1. DoneOK(b)
    BY DEF DoneOK, IsrInv, TransferSound
  <2>2. QED
    BY <1>1, <2>1, HeadMaps
<1>2. CASE GiveUpBuffer([b EXCEPT !.bytes = b.data_offset])
  <2> DEFINE c == [b EXCEPT !.bytes = b.data_offset]
  <2>1. c \in Buffer /\ SameMaps(c, b)
    BY DEF Buffer, SameMaps
  <2> HIDE DEF c
  <2>2. QED
    BY <1>2, <2>1, SameMapsKeep, GiveUpMaps DEF c
<1>3. QED
  BY <1>1, <1>2 DEF ContinueSegment

(* A retry, from a point that is sound.                                    *)
LEMMA RetrySectorMaps ==
    ASSUME IsrInv, MapInv, Transferring, NEW b \in Buffer, NEW skip \in Offsets, NEW late,
           SkipOK([b EXCEPT !.status = "error", !.skip = skip]),
           retry_sector(b, skip, late)
    PROVE  MapInv'
<1> DEFINE c == [b EXCEPT !.status = "error", !.skip = skip]
<1>1. c \in Buffer /\ c.status = "error"
  BY DEF Buffer, BufferStates
<1>2. SetHead(c) /\ pause_tape(late)
  BY DEF retry_sector
<1> HIDE DEF c
<1>3. ~ Transferring'
  BY <1>2, PauseType DEF IsrInv
<1>4. SkipOK(c) /\ DoneOK(c)
  BY <1>1 DEF DoneOK, c
<1>5. QED
  BY <1>1, <1>2, <1>3, <1>4, HeadMaps

(* ftape_setup_new_segment().                                              *)
LEMMA SetupNewSegmentMaps ==
    ASSUME ~IgnoreEccErr, NEW b \in Buffer, SkipOK(b), NEW seg \in Segments, NEW mayskip
    PROVE  /\ OnCourse(ftape_setup_new_segment(b, seg, mayskip))
           /\ SkipOK(ftape_setup_new_segment(b, seg, mayskip))
<1> DEFINE c == ftape_setup_new_segment(b, seg, mayskip)
<1>1. c \in {setup_retry(b, seg, mayskip, last_segment_skipped), setup_fresh(b, seg)}
  BY DEF ftape_setup_new_segment
<1> HIDE DEF c
<1>2. OnCourse(c) /\ SkipOK(c)
  BY <1>1, SetupMaps
<1>3. QED
  BY <1>2 DEF c

(* HEAD is done and the next buffer is set up for the next segment.        *)
LEMMA StartAheadMaps ==
    ASSUME ~IgnoreEccErr, IsrInv, MapInv, Transferring,
           NEW b \in Buffer, NEW n \in Ring, NEW late,
           SkipOK(b), DoneOK(FinishBuffer(b)), b.next_segment \in Segments,
           n # head, head' = n, StartAhead(b, n, late)
    PROVE  MapInv'
<1> DEFINE ahead   == ftape_setup_new_segment(buffers[n], b.next_segment, 0)
           nextseg == IF StopNext(b) THEN 0 ELSE ahead.next_segment
           stopped == [ahead EXCEPT !.next_segment = nextseg]
           ready   == ftape_calc_next_cluster(stopped)
           st(s)   == [ready EXCEPT !.status = s]
<1>1. PICK s \in {StatusAhead, "waiting"} :
         buffers' = [buffers EXCEPT ![head] = FinishBuffer(b), ![n] = st(s)]
  BY DEF StartAhead
<1>2. buffers \in [Ring -> Buffer] /\ head \in Ring
  BY DEF IsrInv, IsrTypeOK
<1>3. ahead \in Buffer /\ OnCourse(ahead) /\ SkipOK(ahead)
  <2>1. buffers[n] \in Buffer /\ SkipOK(buffers[n])
    BY <1>2 DEF MapInv
  <2>2. QED
    BY <2>1, SetupNewSegmentType, SetupNewSegmentMaps
<1> HIDE DEF ahead
<1>4. nextseg \in Nat
  BY <1>3, FieldTypes DEF Buffer
<1> HIDE DEF nextseg
<1>5. stopped \in Buffer /\ SameMaps(stopped, ahead)
  BY <1>3, <1>4 DEF Buffer, SameMaps
<1>6. OnCourse(stopped) /\ SkipOK(stopped)
  BY <1>3, <1>5, SameMapsKeep
<1> HIDE DEF stopped
<1>7. ready \in Buffer /\ OnCourse(ready) /\ InCluster(ready) /\ SkipOK(ready)
  BY <1>5, <1>6, CalcNextClusterType, CalcNextClusterMaps, FurtherSkip
<1> HIDE DEF ready
<1>8. s # "done"
  BY <1>1 DEF StatusAhead, IsrInv, IsrTypeOK, DriverStates
<1>9. SameMaps(st(s), ready) /\ st(s).status = s
  BY <1>7 DEF Buffer, SameMaps
<1> HIDE DEF st
<1>10. OnCourse(st(s)) /\ InCluster(st(s)) /\ SkipOK(st(s)) /\ DoneOK(st(s))
  BY <1>7, <1>8, <1>9, SameMapsKeep DEF DoneOK
<1>11. SkipOK(FinishBuffer(b))
  <2>1. SameMaps(FinishBuffer(b), b)
    BY DEF FinishBuffer, Buffer, SameMaps
  <2>2. QED
    BY <2>1, SameMapsKeep
<1>12. /\ buffers'[n] = st(s) /\ buffers'[head] = FinishBuffer(b)
       /\ \A i \in Ring : i # head /\ i # n => buffers'[i] = buffers[i]
  BY <1>1, <1>2
<1>13. \A i \in Ring : SkipOK(buffers'[i]) /\ DoneOK(buffers'[i])
  BY <1>10, <1>11, <1>12 DEF MapInv
<1>14. QED
  BY <1>10, <1>12, <1>13 DEF MapInv, HEAD

(* The segment is complete.                                                *)
LEMMA FinishSegmentMaps ==
    ASSUME ~IgnoreEccErr, IsrInv, MapInv, Transferring, NEW b \in Buffer, NEW late,
           SkipOK(b), DoneOK(FinishBuffer(b)),
           b.next_segment \in {0, b.segment_id + 1},
           FinishSegment(b, late)
    PROVE  MapInv'
<1> DEFINE eot     == (b.segment_id + 1) % SegmentsPerTrack = 0
           pausing == ~eot /\ (b.next_segment = 0 \/ RingFull)
<1>1. head' = next(head) /\ next(head) \in Ring
  BY NextInRing DEF FinishSegment, IsrInv, IsrTypeOK
<1>2. CASE ~eot /\ ~pausing /\ StartAhead(b, next(head), late)
  <2>1. b.next_segment = b.segment_id + 1 /\ next(head) # head
    BY <1>2 DEF RingFull
  <2>2. b.segment_id \in Segments
    BY DEF Buffer
  <2>3. b.next_segment \in Segments
    BY <1>2, <2>1, <2>2, SuccessorExists
  <2>4. QED
    BY <1>1, <1>2, <2>1, <2>3, StartAheadMaps
<1>3. CASE SetHead(FinishBuffer(b)) /\ (Stop("idle") \/ pause_tape(late))
  <2>1. FinishBuffer(b) \in Buffer /\ SameMaps(FinishBuffer(b), b)
    BY DEF FinishBuffer, Buffer, BufferStates, SameMaps
  <2>2. ~ Transferring'
    BY <1>3, StopType, PauseType DEF IsrInv, Modes
  <2>3. QED
    BY <1>3, <2>1, <2>2, SameMapsKeep, HeadMaps
<1>4. QED
  BY <1>2, <1>3 DEF FinishSegment

(* continue_xfer() as a whole, with a transfer on course or one that ends  *)
(* here.                                                                   *)
LEMMA ContinueXferMaps ==
    ASSUME ~IgnoreEccErr, IsrInv, MapInv, Transferring,
           NEW b \in Buffer, NEW skip, NEW late,
           b.status = HEAD.status, b.next_segment \in {0, b.segment_id + 1},
           SkipOK(b),
           \/ OnCourse(b)
           \/ b.remaining = 0 /\ DoneOK(FinishBuffer(b)),
           continue_xfer(b, skip, late)
    PROVE  MapInv'
<1> DEFINE c == IF b.remaining > 0 THEN ftape_calc_next_cluster(b) ELSE b
<1>1. \/ GiveUpBuffer(b)
      \/ b.remaining > 0 /\ ContinueSegment(c, late)
      \/ ~(b.remaining > 0 /\ c.sector_count > 0) /\ FinishSegment(c, late)
  BY DEF continue_xfer
<1>2. CASE GiveUpBuffer(b)
  BY <1>2, GiveUpMaps
<1>3. b.remaining \in Nat
  BY DEF Buffer
<1>4. CASE ~(b.remaining > 0) /\ FinishSegment(b, late)
  BY <1>3, <1>4, FinishedMaps, FinishSegmentMaps
<1>5. CASE /\ b.remaining > 0
           /\ \/ ContinueSegment(c, late)
              \/ ~(c.sector_count > 0) /\ FinishSegment(c, late)
  <2>1. c = ftape_calc_next_cluster(b)
    BY <1>5
  <2>2. OnCourse(b)
    BY <1>3, <1>5
  <2> HIDE DEF c
  <2>3. /\ c \in Buffer /\ c.status = HEAD.status
        /\ c.next_segment \in {0, c.segment_id + 1}
    BY <2>1, CalcNextClusterType
  <2>4. /\ OnCourse(c) /\ InCluster(c) /\ SkipOK(c)
        /\ Known(c) /\ c.sector_count = 0 => c.remaining = 0
    BY <2>1, <2>2, CalcNextClusterMaps, FurtherSkip
  <2>5. CASE ContinueSegment(c, late)
    BY <2>3, <2>4, <2>5, ContinueSegmentMaps
  <2>6. CASE ~(c.sector_count > 0) /\ FinishSegment(c, late)
    <3>1. c.sector_count = 0
      BY <2>3, <2>6 DEF Buffer
    <3>2. DoneOK(FinishBuffer(c))
      BY <2>3, <2>4, <3>1, FinishedMaps
    <3>3. QED
      BY <2>3, <2>4, <2>6, <3>2, FinishSegmentMaps
  <2>7. QED
    BY <1>5, <2>5, <2>6
<1>6. QED
  BY <1>1, <1>2, <1>4, <1>5

(* HEAD, when a transfer ends, as the lemmas above need it.                *)
LEMMA HeadOnCourse ==
    ASSUME IsrInv, MapInv, Transferring
    PROVE  /\ HEAD \in Buffer /\ SkipOK(HEAD) /\ OnCourse(HEAD) /\ InCluster(HEAD)
           /\ HEAD.sector_count <= HEAD.remaining
           /\ HEAD.next_segment \in {0, HEAD.segment_id + 1}
  BY HeadInTransfer DEF MapInv, HEAD

(* The transfer of a segment without data: there is nothing to be flagged. *)
LEMMA FakeTransferMaps ==
    ASSUME ~IgnoreEccErr, IsrInv, MapInv, Transferring, IsFake(HEAD), NEW late,
           FakeTransfer(late)
    PROVE  MapInv'
<1> DEFINE b == [HEAD EXCEPT !.remaining = 0]
           c == FinishBuffer(b)
<1>1. /\ b \in Buffer /\ b.status = HEAD.status /\ b.remaining = 0
      /\ b.next_segment \in {0, b.segment_id + 1}
      /\ b.segment_id = HEAD.segment_id /\ b.stray = HEAD.stray /\ Further(b, HEAD)
  BY HeadOnCourse, FieldTypes DEF Buffer, Further
<1>2. continue_xfer(b, 1, late)
  BY DEF FakeTransfer
<1> HIDE DEF b
<1>3. SkipOK(b)
  BY <1>1, HeadOnCourse, FurtherSkip
<1>4. DoneOK(c)
  <2>1. c.segment_id = HEAD.segment_id /\ c.stray = HEAD.stray
    BY <1>1 DEF FinishBuffer, Buffer
  <2> HIDE DEF c
  <2>2. SUFFICES ASSUME c.stray = 0, Cardinality(Blocks(c.segment_id)) > EccBlocks
                 PROVE  FALSE
    BY DEF DoneOK
  <2>3. Cardinality(Blocks(HEAD.segment_id)) > 1
    BY <2>1, <2>2, MoreThanOne
  <2>4. BadSectors[HEAD.segment_id] \in {Sectors, Sectors \ {0}}
    BY <2>1, <2>2, HeadOnCourse DEF IsFake, OnCourse, Known
  <2>5. Cardinality(Blocks(HEAD.segment_id)) <= 1
    BY <2>4, FewBlocks
  <2>6. Block(HEAD.segment_id, SectorsPerSegment) \in Nat
    BY SectorsAssumption, BlockType
  <2>7. Cardinality(Blocks(HEAD.segment_id)) = Block(HEAD.segment_id, SectorsPerSegment)
    BY BlocksCount
  <2>8. QED
    BY <2>3, <2>5, <2>6, <2>7
<1>5. QED
  BY <1>1, <1>2, <1>3, <1>4, ContinueXferMaps

(* A mismatch is retried from the begin of the segment.                    *)
LEMMA MismatchedTransferMaps ==
    ASSUME IsrInv, MapInv, Transferring, NEW late, MismatchedTransfer(late)
    PROVE  MapInv'
<1> DEFINE b == [HEAD EXCEPT !.sector_count = 0]
           c == [b EXCEPT !.status = "error", !.skip = 0]
<1>1. b \in Buffer
  BY HeadInTransfer, FieldTypes DEF Buffer
<1>2. retry_sector(b, 0, late)
  BY DEF MismatchedTransfer
<1> HIDE DEF b
<1>3. c.skip = 0
  BY <1>1 DEF Buffer
<1>4. SkipOK(c)
  BY <1>3, SectorsAssumption DEF SkipOK, Good, Sectors
<1>5. QED
  BY <1>1, <1>2, <1>4, FieldTypes, RetrySectorMaps

(* A segment with deleted data is marked as such.                          *)
LEMMA DeletedTransferMaps ==
    ASSUME ~IgnoreEccErr, IsrInv, MapInv, Transferring, NEW late, DeletedTransfer(late)
    PROVE  MapInv'
<1> DEFINE b == deleted_data(HEAD)
           soft == HEAD.soft_error_map \cup {s \in Sectors : s >= HEAD.sector_offset}
           succ == HEAD.segment_id + 1
           skip == SectorsPerSegment - HEAD.sector_offset
<1>1. HEAD \in Buffer
  BY HeadOnCourse
<1>2. b \in Buffer /\ b.status = HEAD.status /\ b.next_segment \in {0, b.segment_id + 1}
  BY <1>1, DeletedDataType
<1>3. b = [HEAD EXCEPT !.deleted = 1, !.remaining = 0, !.soft_error_map = soft,
                       !.next_segment = succ]
  BY DEF deleted_data
<1>4. continue_xfer(b, skip, late)
  BY DEF DeletedTransfer
<1> HIDE DEF soft, succ, skip
<1>5. Further(b, HEAD) /\ b.remaining = 0 /\ b.deleted = 1
  BY <1>1, <1>3 DEF Buffer, Further
<1> HIDE DEF b
<1>6. SkipOK(b)
  BY <1>5, HeadOnCourse, FurtherSkip
<1>7. DoneOK(FinishBuffer(b))
  <2>1. FinishBuffer(b).deleted = 1
    BY <1>2, <1>5 DEF FinishBuffer, Buffer
  <2>2. QED
    BY <2>1 DEF DoneOK
<1>8. QED
  BY <1>2, <1>4, <1>5, <1>6, <1>7, ContinueXferMaps

(* A read goes on, or is retried from the point found.                     *)
LEMMA ReadTransferMaps ==
    ASSUME ~IgnoreEccErr, IsrInv, MapInv, Transferring,
           NEW kind \in Kinds \ {"mismatch", "deleted"},
           NEW res \in Result(kind), NEW late, ReadTransfer(res, late)
    PROVE  MapInv'
<1>1. PICK b : /\ b = determine_progress(HEAD, res.cause, res.transferred)
               /\ \/ \E skip : continue_xfer(b, skip, late)
                  \/ retry_sector(b, find_resume_point(b), late)
  <2> DEFINE b == determine_progress(HEAD, res.cause, res.transferred)
             retry == HEAD.soft_error_map # {} \/ HEAD.hard_error_map # {}
             skip  == IF retry THEN find_resume_point(b) ELSE b.sector_offset
  <2>1. \/ continue_xfer(b, 0, late)
        \/ retry /\ retry_sector(b, skip, late)
        \/ continue_xfer(b, skip, late)
    BY DEF ReadTransfer
  <2>2. retry => skip = find_resume_point(b)
    OBVIOUS
  <2> HIDE DEF b, retry, skip
  <2>3. \/ \E k : continue_xfer(b, k, late)
        \/ retry_sector(b, find_resume_point(b), late)
    BY <2>1, <2>2
  <2>4. QED
    BY <2>3 DEF b
<1>2. /\ b \in Buffer
      /\ b.status = HEAD.status /\ b.segment_id = HEAD.segment_id
      /\ b.next_segment \in {0, b.segment_id + 1}
  BY <1>1, ProgressInTransfer
<1>3. OnCourse(b) /\ Further(b, HEAD)
  <2>1. /\ res.transferred \in 0 .. HEAD.sector_count
        /\ res.cause # "no_error" => HEAD.sector_count > 0
    BY HeadOnCourse, ResultType
  <2>2. QED
    BY <1>1, <2>1, HeadOnCourse, ProgressMaps
<1>4. SkipOK(b)
  BY <1>3, HeadOnCourse, FurtherSkip
<1>5. CASE \E skip : continue_xfer(b, skip, late)
  BY <1>2, <1>3, <1>4, <1>5, ContinueXferMaps
<1>6. CASE retry_sector(b, find_resume_point(b), late)
  <2>1. PICK skip : skip = find_resume_point(b)
    OBVIOUS
  <2>2. skip \in Offsets /\ retry_sector(b, skip, late)
    BY <1>2, <1>6, <2>1, FindResumePointType
  <2>3. SkipOK([b EXCEPT !.status = "error", !.skip = skip])
    BY <1>2, <1>3, <2>1, ResumePointMaps
  <2>4. QED
    BY <1>2, <2>2, <2>3, RetrySectorMaps
<1>7. QED
  BY <1>1, <1>5, <1>6

(* A step that leaves the ring alone and starts no transfer.               *)
LEMMA MapsUntouched ==
    ASSUME MapInv, UNCHANGED <<head, buffers>>, Transferring' => Transferring
    PROVE  MapInv'
  BY DEF MapInv, HEAD

(* One run of the handler.                                                 *)
LEMMA HandlerMaps ==
    ASSUME ~IgnoreEccErr, IsrInv, ReadRing, MapInv, fdc_isr
    PROVE  MapInv'
<1>1. CASE TransferInterrupt
  <2>1. Transferring
    BY <1>1 DEF TransferInterrupt, Transferring
  <2>2. ~ IsWrite
    BY DEF ReadRing, ModesOK, IsWrite
  <2>3. PICK kind \in Kinds, late \in Late : handle_fdc_busy(kind, late)
    BY <1>1 DEF TransferInterrupt
  <2>4. \/ AbortedTransfer
        \/ IsFake(HEAD) /\ FakeTransfer(late)
        \/ MismatchedTransfer(late)
        \/ DeletedTransfer(late)
        \/ /\ kind \in Kinds \ {"mismatch", "deleted"}
           /\ \E res \in Result(kind) : ReadTransfer(res, late)
    BY <2>2, <2>3 DEF handle_fdc_busy
  <2>5. CASE AbortedTransfer
    <3>1. Stop(fdc_mode) /\ UNCHANGED <<head, buffers>>
      BY <2>5 DEF AbortedTransfer
    <3>2. ~ Transferring'
      BY <3>1 DEF Stop, Transferring
    <3>3. QED
      BY <3>1, <3>2, MapsUntouched
  <2>6. QED
    BY <2>1, <2>4, <2>5, FakeTransferMaps, MismatchedTransferMaps, DeletedTransferMaps,
       ReadTransferMaps
<1>2. CASE SeekInterrupt
  <2>1. Stop("idle") /\ UNCHANGED <<head, buffers>>
    BY <1>2 DEF SeekInterrupt, ring
  <2>2. ~ Transferring'
    BY <2>1 DEF Stop, Transferring
  <2>3. QED
    BY <2>1, <2>2, MapsUntouched
<1>3. QED
  BY <1>1, <1>2 DEF fdc_isr

-----------------------------------------------------------------------------

(* A buffer freed by the process keeps its maps.                           *)
LEMMA FreedMaps ==
    ASSUME NEW b \in Buffer, SkipOK(b), NEW s, s # "done"
    PROVE  SkipOK([b EXCEPT !.status = s]) /\ DoneOK([b EXCEPT !.status = s])
<1> DEFINE c == [b EXCEPT !.status = s]
<1>1. SameMaps(c, b) /\ c.status = s
  BY DEF Buffer, SameMaps
<1> HIDE DEF c
<1>2. SkipOK(c) /\ DoneOK(c)
  BY <1>1, SameMapsKeep DEF DoneOK
<1>3. QED
  BY <1>2 DEF c

(* TAIL is freed: it is not the buffer of the transfer.                    *)
LEMMA FreeTailMaps ==
    ASSUME IsrInv, MapInv, TAIL.status = "done", FreeTail, UNCHANGED untouched
    PROVE  MapInv'
<1>1. /\ buffers \in [Ring -> Buffer] /\ head \in Ring /\ tail \in Ring
  BY DEF IsrInv, IsrTypeOK
<1>2. /\ buffers' = [buffers EXCEPT ![tail] = [buffers[tail] EXCEPT !.status = "waiting"]]
      /\ head' = head
  BY DEF FreeTail
<1>3. /\ buffers'[tail] = [buffers[tail] EXCEPT !.status = "waiting"]
      /\ \A i \in Ring : i # tail => buffers'[i] = buffers[i]
  BY <1>1, <1>2
<1>4. SkipOK(buffers'[tail]) /\ DoneOK(buffers'[tail])
  <2>1. buffers[tail] \in Buffer /\ SkipOK(buffers[tail])
    BY <1>1 DEF MapInv
  <2>2. "waiting" # "done"
    OBVIOUS
  <2>3. QED
    BY <1>3, <2>1, <2>2, FreedMaps
<1>5. \A i \in Ring : SkipOK(buffers'[i]) /\ DoneOK(buffers'[i])
  BY <1>3, <1>4 DEF MapInv
<1>6. Transferring' => Transferring
  BY DEF untouched, controller, Transferring
<1>7. Transferring => head # tail
  BY DEF IsrInv, TransferSound, HEAD, TAIL
<1>8. QED
  BY <1>1, <1>2, <1>3, <1>5, <1>6, <1>7 DEF MapInv, HEAD

(* HEAD is freed after the tape has been stopped.                          *)
LEMMA RunnerAbortingMaps ==
    ASSUME IsrInv, MapInv, RunnerAborting
    PROVE  MapInv'
<1> DEFINE freed == buffers[head].status \in {"error", "reading"}
<1>1. ControllerQuiet /\ head' = head
      /\ buffers' = [buffers EXCEPT ![head] =
                        [buffers[head] EXCEPT !.status =
                            IF freed THEN "waiting" ELSE buffers[head].status]]
  BY DEF RunnerAborting, ftape_dumb_stop, FreeHead
<1>2. ~ Transferring'
  BY <1>1, QuietType
<1>3. /\ buffers \in [Ring -> Buffer] /\ head \in Ring
  BY DEF IsrInv, IsrTypeOK
<1>4. \A i \in Ring : i # head => buffers'[i] = buffers[i]
  BY <1>1, <1>3
<1>5. SkipOK(buffers'[head]) /\ DoneOK(buffers'[head])
  <2>1. CASE freed
    <3>1. buffers'[head] = [buffers[head] EXCEPT !.status = "waiting"]
      BY <1>1, <1>3, <2>1
    <3>2. buffers[head] \in Buffer /\ SkipOK(buffers[head]) /\ "waiting" # "done"
      BY <1>3 DEF MapInv
    <3>3. QED
      BY <3>1, <3>2, FreedMaps
  <2>2. CASE ~ freed
    <3>1. buffers'[head] = buffers[head]
      BY <1>1, <1>3, <2>2 DEF Buffer
    <3>2. QED
      BY <1>3, <3>1 DEF MapInv
  <2>3. QED
    BY <2>1, <2>2
<1>6. QED
  BY <1>2, <1>4, <1>5 DEF MapInv

(* The buffers are zapped: a retry starts at the begin of its segment.     *)
LEMMA AbortEndMaps ==
    ASSUME IsrInv, MapInv, AbortEnd
    PROVE  MapInv'
<1>1. \A i \in Ring : buffers'[i] = fdc_zap_buffer(buffers[i])
  BY DEF AbortEnd, fdc_zap_buffers
<1>2. ~ Transferring'
  BY QuietType DEF AbortEnd
<1>3. ASSUME NEW b \in Buffer
      PROVE  SkipOK(fdc_zap_buffer(b)) /\ DoneOK(fdc_zap_buffer(b))
  <2> DEFINE c == fdc_zap_buffer(b)
  <2>1. c.skip = 0 /\ c.status = "waiting"
    BY DEF fdc_zap_buffer, Buffer
  <2> HIDE DEF c
  <2>2. SkipOK(c) /\ DoneOK(c)
    BY <2>1, SectorsAssumption DEF SkipOK, DoneOK, Good, Sectors
  <2>3. QED
    BY <2>2 DEF c
<1>4. \A i \in Ring : buffers[i] \in Buffer
  BY DEF IsrInv, IsrTypeOK
<1>5. \A i \in Ring : SkipOK(buffers'[i]) /\ DoneOK(buffers'[i])
  BY <1>1, <1>3, <1>4
<1>6. QED
  BY <1>2, <1>5 DEF MapInv

(* The runner is started where the last attempt left off.                  *)
LEMMA StartRunnerMaps ==
    ASSUME ~IgnoreEccErr, IsrInv, ProcTypeOK, ReadRing, MapInv, StartRunner
    PROVE  MapInv'
<1>1. PICK p \in StartTape(Prepared) :
         /\ \/ SetHead([p EXCEPT !.status = "reading"])
            \/ SetHead(p)
         /\ head' = head
  BY DEF StartRunner
<1>2. /\ buffers \in [Ring -> Buffer] /\ head \in Ring /\ HEAD \in Buffer
      /\ SkipOK(HEAD) /\ wanted \in Segments
  BY DEF IsrInv, IsrTypeOK, ProcTypeOK, MapInv, HEAD
<1>3. HEAD.status = "waiting"
  BY FreeTailIsHead DEF StartRunner, HEAD, TAIL
<1> DEFINE b == ftape_setup_new_segment(HEAD, wanted, 1)
           n == IF read_mode = "FT_RD_SINGLE" THEN 0 ELSE b.next_segment
           c == [b EXCEPT !.next_segment = n]
           d == ftape_calc_next_cluster(c)
<1>4. Prepared = d
  BY DEF Prepared
<1>5. b \in Buffer /\ b.status = "waiting" /\ OnCourse(b) /\ SkipOK(b)
  BY <1>2, <1>3, SetupNewSegmentType, SetupNewSegmentMaps
<1> HIDE DEF b
<1>6. n \in Nat
  BY <1>5, FieldTypes DEF Buffer
<1> HIDE DEF n
<1>7. c \in Buffer /\ SameMaps(c, b) /\ c.status = "waiting"
  BY <1>5, <1>6 DEF Buffer, SameMaps
<1> HIDE DEF c
<1>8. OnCourse(c) /\ SkipOK(c)
  BY <1>5, <1>7, SameMapsKeep
<1>9. d \in Buffer /\ OnCourse(d) /\ InCluster(d) /\ SkipOK(d) /\ d.status = "waiting"
  BY <1>7, <1>8, CalcNextClusterType, CalcNextClusterMaps, FurtherSkip
<1> HIDE DEF d
<1>10. p \in Buffer /\ SameMaps(p, d) /\ p.status = "waiting"
  <2>1. p = d \/ p = [d EXCEPT !.retry = d.retry - 1]
    BY <1>1, <1>4 DEF StartTape
  <2>2. p \in Buffer
    BY <1>1, <1>4, <1>9, StartTapeType
  <2>3. QED
    BY <1>9, <2>1, <2>2 DEF Buffer, SameMaps
<1>11. OnCourse(p) /\ InCluster(p) /\ SkipOK(p) /\ DoneOK(p)
  BY <1>9, <1>10, SameMapsKeep DEF DoneOK
<1> DEFINE r == [p EXCEPT !.status = "reading"]
<1>12. r \in Buffer /\ SameMaps(r, p) /\ r.status = "reading"
  BY <1>10 DEF Buffer, BufferStates, SameMaps
<1> HIDE DEF r
<1>13. OnCourse(r) /\ InCluster(r) /\ SkipOK(r) /\ DoneOK(r)
  BY <1>11, <1>12, SameMapsKeep DEF DoneOK
<1>14. /\ \A i \in Ring : i # head => buffers'[i] = buffers[i]
       /\ buffers'[head] \in {p, r}
  BY <1>1, <1>2 DEF SetHead, r
<1>15. \A i \in Ring : SkipOK(buffers'[i]) /\ DoneOK(buffers'[i])
  BY <1>11, <1>13, <1>14 DEF MapInv
<1>16. OnCourse(buffers'[head]) /\ InCluster(buffers'[head])
  BY <1>11, <1>13, <1>14
<1>17. QED
  BY <1>1, <1>15, <1>16 DEF MapInv, HEAD

(* Every step of the process.                                              *)
LEMMA ProcessMaps ==
    ASSUME ~IgnoreEccErr, IsrInv, ProcTypeOK, ReadRing, MapInv, Call \/ Signal \/ Process
    PROVE  MapInv'
<1>1. CASE AbortForCall \/ AbortForWait
  BY <1>1, AbortEndMaps DEF AbortForCall, AbortForWait
<1>2. CASE ScanFound \/ ScanEccFailure \/ ScanZap
  BY <1>2, FreeTailMaps DEF ScanFound, ScanEccFailure, ScanZap, Found
<1>3. CASE WaitTimeout
  <2>1. ControllerQuiet /\ UNCHANGED <<head, buffers>>
    BY <1>3 DEF WaitTimeout, ring
  <2>2. QED
    BY <2>1, QuietType, MapsUntouched
<1>4. CASE RunnerAborting
  BY <1>4, RunnerAbortingMaps
<1>5. CASE StartRunner
  BY <1>5, StartRunnerMaps
<1>6. CASE \/ Call \/ Signal \/ ScanDeleted \/ ScanEnd \/ WaitWrongSegment \/ WaitAwake
           \/ WaitEnd \/ RunnerEot \/ ReturnSegment \/ TooManyRetries \/ StartOver
  <2>1. UNCHANGED <<head, buffers, fdc_mode, busy>>
    BY <1>6 DEF Call, Signal, ScanDeleted, ScanEnd, WaitWrongSegment, WaitAwake, WaitEnd,
       RunnerEot, ReturnSegment, TooManyRetries, StartOver, isrvars, controller, ring
  <2>2. QED
    BY <2>1, MapsUntouched DEF Transferring
<1>7. QED
  BY <1>1, <1>2, <1>3, <1>4, <1>5, <1>6 DEF Process

(* The buffers of a driver that has just been enabled say nothing.         *)
LEMMA InitMaps == Init => MapInv
<1>1. SUFFICES ASSUME Init PROVE MapInv
  OBVIOUS
<1>2. PICK seg : buffers = [i \in Ring |-> NewBuffer(seg)]
  BY <1>1 DEF Init, IsrInit
<1>3. NewBuffer(seg).status = "waiting" /\ NewBuffer(seg).skip = 0
  BY DEF NewBuffer
<1>4. SkipOK(NewBuffer(seg)) /\ DoneOK(NewBuffer(seg))
  BY <1>3, SectorsAssumption DEF SkipOK, DoneOK, Good, Sectors
<1>5. ~ Transferring
  BY <1>1 DEF Init, IsrInit, Transferring
<1>6. QED
  BY <1>2, <1>4, <1>5 DEF MapInv

(* Every step, with ReadInv.                                               *)
LEMMA NextMaps ==
    ASSUME ~IgnoreEccErr
    PROVE  ReadInv /\ MapInv /\ [Next]_vars => MapInv'
<1>1. SUFFICES ASSUME IsrInv, ProcTypeOK, ReadRing, MapInv, [Next]_vars
               PROVE  MapInv'
  BY DEF ReadInv
<1>2. CASE Interrupt
  BY <1>1, <1>2, HandlerMaps DEF Interrupt
<1>3. CASE Call \/ Signal \/ Process
  BY <1>1, <1>3, ProcessMaps
<1>4. CASE UNCHANGED vars
  <2>1. UNCHANGED <<head, buffers, fdc_mode, busy>>
    BY <1>4 DEF vars, isrvars, controller, ring
  <2>2. QED
    BY <1>1, <2>1, MapsUntouched DEF Transferring
<1>5. QED
  BY <1>1, <1>2, <1>3, <1>4 DEF Next

(* The maps, in every state.                                               *)
LEMMA MapInvariant ==
    ASSUME ~IgnoreEccErr
    PROVE  Spec => []MapInv
<1>1. ReadInv /\ MapInv /\ [Next]_vars => MapInv'
  BY NextMaps
<1>2. QED
  BY <1>1, InitMaps, ReadInvariant, PTL DEF Spec

(***************************************************************************)
(* Unless errors are to be ignored (ft_ignore_ecc_err, off by default):    *)
(* every data block of a buffer marked done that no transfer has filled is *)
(* flagged for ftape_ecc_correct(), and the buffer is complete, whatever   *)
(* errors, overruns, retries and resumes there were on the way.            *)
(***************************************************************************)
THEOREM ReadUnreadBlocksAreFlagged ==
    ASSUME ~IgnoreEccErr
    PROVE  Spec => []UnreadBlocksAreFlagged
<1>1. MapInv => UnreadBlocksAreFlagged
  BY DEF MapInv, DoneOK, UnreadBlocksAreFlagged
<1>2. QED
  BY <1>1, MapInvariant, PTL

(***************************************************************************)
(* Under the same hypothesis: when the handler gives a segment up for a    *)
(* retry, find_resume_point() leaves no readable sector behind the point   *)
(* it chooses; every good one before it has been read or is a hard error.  *)
(***************************************************************************)
THEOREM ReadResumePointIsSound ==
    ASSUME ~IgnoreEccErr
    PROVE  Spec => []ResumePointIsSound
<1>1. ReadInv /\ MapInv => ResumePointIsSound
  <2>1. ReadInv => head \in Ring
    BY DEF ReadInv, IsrInv, IsrTypeOK
  <2>2. QED
    BY <2>1 DEF MapInv, SkipOK, IsRead, Good, ResumePointIsSound, HEAD
<1>2. QED
  BY <1>1, MapInvariant, ReadInvariant, PTL

=============================================================================
