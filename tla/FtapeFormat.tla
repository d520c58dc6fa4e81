---------------------------- MODULE FtapeFormat ----------------------------
(***************************************************************************)
(* Formatting of a tape track (MTIOCFTFORMAT).  The controller formats     *)
(* segment after segment without a pause, taking the ids it writes into    *)
(* the sector headers from the ring of buffers; the interrupt handler      *)
(* starts the next segment and goes on to the next buffer.  A track has    *)
(* more segments than the ring has ids for: the process refills the        *)
(* buffers the handler has left behind, whenever the user asks for the     *)
(* status of the operation (FTFMT_STATUS).  There is no retry: the tape    *)
(* does not stop, and what has gone past the head has its ids.             *)
(*                                                                         *)
(* A segment is one id, its number counted from the begin of the tape; the *)
(* 32 sectors of a segment share it.  The handler runs between any two     *)
(* steps of the process.  A segment takes less than the five seconds the   *)
(* process sleeps for.                                                     *)
(***************************************************************************)
EXTENDS Integers, Sequences, FiniteSets

CONSTANTS NrBuffers,       \* fdc->nr_buffers
          SegsPerBuf,      \* FT_FMT_SEGS_PER_BUF
          Lengths,         \* the values of segments_per_track to consider
          Tracks,          \* the tracks the user formats
          MaxStarts,       \* bound: calls of FTFMT_FORMAT_TRACK
          MaxFaults,       \* bound: faults in one behaviour
          Faults,          \* the kinds of fault that may occur
          Wrap             \* 2^32: remaining is unsigned

ASSUME FormatAssumption ==
    /\ {NrBuffers, SegsPerBuf} \subseteq Nat \ {0}
    /\ Lengths \subseteq Nat \ {0}
    /\ Tracks \subseteq Nat
    /\ {MaxStarts, MaxFaults, Wrap} \subseteq Nat
    /\ Wrap > SegsPerBuf
    /\ Faults \subseteq {"seek", "command", "setup", "medium", "drive", "end", "fill"}

VARIABLES
    buffers,         \* the ring
    head, tail,      \* HEAD: the handler's buffer, TAIL: the one to be filled next
    switch_segment,  \* ftape->switch_segment: the first segment of TAIL, 0: none
    runner_status,   \* ftape->runner_status
    fdc_mode,        \* fdc->mode
    interrupt_seen,  \* fdc->interrupt_seen
    spt,             \* ftape->segments_per_track, from FTFMT_SET_PARMS
    track,           \* the argument of ftape_format_track()
    location,        \* ftape->location.track
    pc, caller,      \* where the process is, and in which of the two calls
    out,             \* what the last call returned
    moving,          \* the drive moves the tape
    laid,            \* the ids on tape, in the order they passed the head
    starts, faults

ring       == <<buffers, head, tail, switch_segment>>
controller == <<runner_status, fdc_mode, interrupt_seen>>
world      == <<moving, laid, faults>>
vars       == <<ring, controller, spt, track, location, pc, caller, out,
                starts, world>>

Ring    == 0 .. (NrBuffers - 1)
next(i) == (i + 1) % NrBuffers
Unknown == -1     \* location.track after a failed seek; ids nobody wrote

MinOf(a, b) == IF a < b THEN a ELSE b

(* remaining counts segments, ptr is an index into the ids.                *)
NewBuffer == [ status |-> "waiting", segment_id |-> 0, next_segment |-> 0,
               remaining |-> 0, ptr |-> 0, ids |-> <<>> ]

Occurs(kind) ==
    /\ kind \in Faults
    /\ faults < MaxFaults
    /\ faults' = faults + 1

Return(res) ==
    /\ out' = [res |-> res, segment |-> out.segment]
    /\ pc' = "user"

Init ==
    /\ buffers = [i \in Ring |-> NewBuffer]
    /\ head = 0 /\ tail = 0 /\ switch_segment = 0
    /\ runner_status = "idle" /\ fdc_mode = "idle" /\ interrupt_seen = FALSE
    /\ spt \in Lengths
    /\ track \in Tracks /\ location = Unknown
    /\ pc = "user" /\ caller = "status"
    /\ out = [res |-> "none", segment |-> 0]
    /\ moving = FALSE /\ laid = <<>>
    /\ starts = 0 /\ faults = 0

-----------------------------------------------------------------------------
(* The set up of TAIL, shared by both calls.  The result of                *)
(* setup_format_buffer() is dropped by both.                               *)

ToDo == MinOf(spt - switch_segment, SegsPerBuf)

FormattedTrack == IF caller = "track" THEN track ELSE location

fill_format_buffer ==
    /\ pc = "fill"
    /\ \/ /\ buffers' = [buffers EXCEPT ![tail].ids =
                [i \in 1 .. ToDo |-> FormattedTrack * spt + switch_segment + i - 1]]
          /\ pc' = "fields"
          /\ UNCHANGED faults
       \/ Occurs("fill") /\ pc' = "switch" /\ UNCHANGED buffers
    /\ UNCHANGED <<head, tail, switch_segment, controller, spt, track, location,
                   caller, out, starts, moving, laid>>

(* 0 means: stop runner.                                                   *)
NextSegment == IF switch_segment + ToDo >= spt THEN 0 ELSE switch_segment + ToDo

setup_format_buffer ==
    /\ pc = "fields"
    /\ buffers' = [buffers EXCEPT
                     ![tail].ptr          = 0,
                     ![tail].remaining    = ToDo,
                     ![tail].segment_id   = switch_segment,
                     ![tail].next_segment = NextSegment]
    /\ pc' = "ready"
    /\ UNCHANGED <<head, tail, switch_segment, controller, spt, track, location,
                   caller, out, starts, world>>

(* The last assignment tells the handler that it can use the buffer.       *)
setup_format_buffer_ready ==
    /\ pc = "ready"
    /\ buffers' = [buffers EXCEPT ![tail].status = "waiting"]
    /\ pc' = "switch"
    /\ UNCHANGED <<head, tail, switch_segment, controller, spt, track, location,
                   caller, out, starts, world>>

-----------------------------------------------------------------------------
(* FTFMT_FORMAT_TRACK                                                       *)

(* ftape_abort_operation(): the controller is reset if it is busy, the     *)
(* tape is stopped, the buffers are zapped.                                *)
ftape_abort_operation ==
    /\ buffers' = [i \in Ring |-> [buffers[i] EXCEPT !.status = "waiting"]]
    /\ head' = 0 /\ tail' = 0
    /\ runner_status' = "idle"
    /\ fdc_mode' = "idle"
    /\ interrupt_seen' = FALSE
    /\ moving' = FALSE

(* The drive is not ready while the tape moves, and ftape_ready_wait()     *)
(* gives up; it may fail to take the tape to its begin or end.             *)
ftape_format_track(t) ==
    /\ pc = "user"
    /\ starts < MaxStarts
    /\ starts' = starts + 1
    /\ \/ /\ moving
          /\ Return("ETIME")
          /\ UNCHANGED <<ring, controller, world, track, caller>>
       \/ /\ ~moving
          /\ Occurs("seek")
          /\ Return("EIO")
          /\ UNCHANGED <<ring, controller, moving, laid, track, caller>>
       \/ /\ ~moving
          /\ ftape_abort_operation
          /\ switch_segment' = 0
          /\ track' = t
          /\ laid' = <<>>
          /\ pc' = "fill" /\ caller' = "track"
          /\ out' = [res |-> "none", segment |-> 0]
          /\ UNCHANGED faults
    /\ UNCHANGED <<spt, location>>

(* As many buffers as there are, or as the track needs.                    *)
NextInitial ==
    /\ pc = "switch" /\ caller = "track"
    /\ LET following == buffers[tail].next_segment IN
       /\ switch_segment' = following
       /\ tail' = IF following # 0 THEN next(tail) ELSE tail
       /\ pc' = IF following # 0 /\ next(tail) # head THEN "fill" ELSE "go"
    /\ UNCHANGED <<buffers, head, controller, spt, track, location, caller, out,
                   starts, world>>

(* HEAD is marked before the head is moved, the tape started and the       *)
(* controller set up, each of which may fail.                              *)
StartFormatting ==
    /\ pc = "go"
    /\ buffers' = [buffers EXCEPT ![head].status = "formatting"]
    /\ \/ /\ Occurs("seek") /\ Return("EIO")
          /\ location' = Unknown
          /\ UNCHANGED <<controller, moving>>
       \/ /\ Occurs("command") /\ Return("EIO")
          /\ location' = track
          /\ UNCHANGED <<controller, moving>>
       \/ /\ Occurs("setup") /\ Return("EIO")
          /\ location' = track /\ moving' = TRUE
          /\ UNCHANGED controller
       \/ /\ Return("ok")
          /\ location' = track /\ moving' = TRUE
          /\ fdc_mode' = "formatting" /\ interrupt_seen' = FALSE
          /\ UNCHANGED <<runner_status, faults>>
    /\ UNCHANGED <<head, tail, switch_segment, spt, track, caller, starts, laid>>

-----------------------------------------------------------------------------
(* The interrupt handler                                                    *)

(* What the controller finds at the buffer's DMA address.                  *)
Id(b) == IF b.ptr < Len(b.ids) THEN b.ids[b.ptr + 1] ELSE Unknown

Advanced(b) == [b EXCEPT !.ptr = @ + 1, !.remaining = (@ - 1) % Wrap,
                         !.segment_id = @ + 1]

(* Mutant: the buffer counts the segment before the result is looked at.   *)
determine_fmt_progress_First(b, cause) ==
    IF cause = "no_error" THEN Advanced(b) ELSE [Advanced(b) EXCEPT !.status = "error"]

(* The account of a segment; a residue is an error as any other.           *)
determine_fmt_progress(b, cause) ==
    IF cause = "no_error" THEN Advanced(b) ELSE [b EXCEPT !.status = "error"]

Stop(status) == runner_status' = status /\ fdc_mode' = "idle"

(* format_setup_error: do_abort, which fdc_isr() turns into aborting.      *)
SetupError(bufs, h) ==
    /\ Stop("aborting")
    /\ buffers' = [bufs EXCEPT ![h].status = "error"]

SetupFormatting(bufs, h) ==
    \/ Occurs("setup") /\ SetupError(bufs, h)
    \/ /\ buffers' = [bufs EXCEPT ![h].status = "formatting"]
       /\ UNCHANGED <<runner_status, fdc_mode, faults>>

(* Mutant: the handler takes the next buffer as it is.                     *)
MayUse_Any(b, following) == TRUE

MayUse(b, following) == b.status = "waiting" /\ b.segment_id = following

continue_formatting(bufs) ==
    LET b    == bufs[head]
        over == [bufs EXCEPT ![head].status = "done"]
    IN
    \/ /\ b.remaining > 0
       /\ SetupFormatting(bufs, head)
       /\ UNCHANGED head
    \/ /\ b.remaining = 0 /\ b.next_segment = 0
       /\ buffers' = over
       /\ Stop("logical_eot")
       /\ UNCHANGED <<head, faults>>
    \/ /\ b.remaining = 0 /\ b.next_segment # 0
       /\ head' = next(head)
       /\ IF MayUse(bufs[next(head)], b.next_segment)
          THEN SetupFormatting(over, next(head))
          ELSE SetupError(over, next(head)) /\ UNCHANGED faults

(* One run of fdc_isr() in mode fdc_formatting.                            *)
FormatInterrupt ==
    /\ fdc_mode = "formatting" /\ moving
    /\ interrupt_seen' = TRUE
    /\ \/ /\ laid' = Append(laid, Id(buffers[head]))
          /\ continue_formatting([buffers EXCEPT ![head] =
                                    determine_fmt_progress(@, "no_error")])
       \/ /\ Occurs("medium")
          /\ buffers' = [buffers EXCEPT ![head] = determine_fmt_progress(@, "medium")]
          /\ Stop("aborting")
          /\ UNCHANGED <<head, laid>>
    /\ UNCHANGED <<tail, switch_segment, spt, track, location, pc, caller, out,
                   starts, moving>>

(* The tape comes to its end, as a fault before the track is complete: the *)
(* controller then waits for an index pulse that does not come.            *)
TapeEnds ==
    /\ moving
    /\ moving' = FALSE
    /\ IF fdc_mode = "formatting" THEN Occurs("end") ELSE UNCHANGED faults
    /\ UNCHANGED <<ring, controller, spt, track, location, pc, caller, out,
                   starts, laid>>

-----------------------------------------------------------------------------
(* FTFMT_STATUS                                                             *)

ftape_format_status ==
    /\ pc = "user"
    /\ pc' = "check" /\ caller' = "status"
    /\ UNCHANGED <<ring, controller, spt, track, location, out, starts, world>>

NeedsBuffers == switch_segment # 0 /\ head # tail

CheckBuffers ==
    /\ pc = "check"
    /\ pc' = IF NeedsBuffers THEN "wait" ELSE "stop"
    /\ UNCHANGED <<ring, controller, spt, track, location, caller, out, starts, world>>

(* The process would sleep while TAIL is being formatted.  After an error  *)
(* it asks the drive, which may have stopped with an error of its own.     *)
ftape_wait_segment ==
    /\ pc = "wait"
    /\ buffers[tail].status # "formatting"
    /\ \/ pc' = "fill" /\ UNCHANGED <<out, faults, moving>>
       \/ /\ buffers[tail].status = "error"
          /\ Occurs("drive")
          /\ moving' = FALSE
          /\ Return("EIO")
    /\ UNCHANGED <<ring, controller, spt, track, location, caller, starts, laid>>

NextRefill ==
    /\ pc = "switch" /\ caller = "status"
    /\ switch_segment' = buffers[tail].next_segment
    /\ tail' = IF switch_segment' # 0 THEN next(tail) ELSE tail
    /\ pc' = "check"
    /\ UNCHANGED <<buffers, head, controller, spt, track, location, caller, out,
                   starts, world>>

(* The status of HEAD is looked at after the buffers have been zapped.     *)
StopIfAborting ==
    /\ pc = "stop"
    /\ \/ /\ runner_status = "aborting"
          /\ ftape_abort_operation
          /\ Return(IF buffers'[head'].status # "error" THEN "EAGAIN" ELSE "EIO")
       \/ /\ runner_status # "aborting"
          /\ pc' = "sleep"
          /\ UNCHANGED <<buffers, head, tail, controller, moving, out>>
    /\ UNCHANGED <<switch_segment, spt, track, location, caller, starts, laid, faults>>

(* Mutant: a sleep that only an interrupt ends.                            *)
TimerExpires_Never == FALSE

(* Nothing is on its way that could interrupt within five seconds.         *)
TimerExpires == ~interrupt_seen /\ ~(fdc_mode = "formatting" /\ moving)

fdc_interrupt_wait ==
    /\ pc = "sleep"
    /\ \/ /\ interrupt_seen
          /\ interrupt_seen' = FALSE
          /\ pc' = "report"
          /\ UNCHANGED fdc_mode
       \/ /\ TimerExpires
          /\ fdc_mode' = "idle"     \* fdc_reset()
          /\ pc' = "report_end"
          /\ UNCHANGED interrupt_seen
    /\ UNCHANGED <<ring, runner_status, spt, track, location, caller, out, starts, world>>

(* Result 1 is the end of the track for ftape_format_status().             *)
ReportSegment ==
    /\ pc \in {"report", "report_end"}
    /\ out' = [ res     |-> IF pc = "report" THEN "ok" ELSE "end",
                segment |-> location * spt + buffers[head].segment_id ]
    /\ pc' = "user"
    /\ UNCHANGED <<ring, controller, spt, track, location, caller, starts, world>>

-----------------------------------------------------------------------------
Process ==
    \/ fill_format_buffer \/ setup_format_buffer \/ setup_format_buffer_ready
    \/ NextInitial \/ StartFormatting
    \/ CheckBuffers \/ ftape_wait_segment \/ NextRefill
    \/ StopIfAborting \/ fdc_interrupt_wait \/ ReportSegment

(* FTFMT_SET_PARMS fixes spt before the first track.                       *)
mtiocftformat == ftape_format_status \/ \E t \in Tracks : ftape_format_track(t)

Next == Process \/ mtiocftformat \/ FormatInterrupt \/ TapeEnds

(* The process runs, the controller formats, the tape reaches its end, and *)
(* the user, who has started at most MaxStarts tracks, asks for the status *)
(* again and again.                                                        *)
Fairness ==
    /\ WF_vars(Process) /\ WF_vars(ftape_format_status)
    /\ WF_vars(FormatInterrupt) /\ WF_vars(TapeEnds /\ fdc_mode # "formatting")

Spec == Init /\ [][Next]_vars /\ Fairness

-----------------------------------------------------------------------------
(* Properties                                                               *)

FormatTypeOK ==
    /\ buffers \in [Ring ->
          [ status : {"waiting", "formatting", "done", "error"},
            segment_id : 0 .. spt, next_segment : 0 .. (spt - 1),
            remaining : 0 .. (Wrap - 1), ptr : 0 .. SegsPerBuf,
            ids : Seq(Int) ]]
    /\ head \in Ring /\ tail \in Ring
    /\ switch_segment \in 0 .. (spt - 1)
    /\ runner_status \in {"idle", "aborting", "logical_eot"}
    /\ fdc_mode \in {"idle", "formatting"}
    /\ {interrupt_seen, moving} \subseteq BOOLEAN
    /\ spt \in Lengths /\ track \in Tracks /\ location \in Tracks \cup {Unknown}
    /\ pc \in {"user", "fill", "fields", "ready", "switch", "go", "check", "wait",
               "stop", "sleep", "report", "report_end"}
    /\ caller \in {"track", "status"}
    /\ out.res \in {"none", "ok", "end", "EAGAIN", "EIO", "ETIME"}
    /\ out.segment \in Int
    /\ laid \in Seq(Int)
    /\ starts \in 0 .. MaxStarts /\ faults \in 0 .. MaxFaults

(* However late the process refills the ring, and wherever the handler     *)
(* interrupts it, every segment that has passed the head carries its own   *)
(* id: none is left out, doubled or taken from a buffer that was not ready *)
(* (continue_formatting, fdc-isr.c).                                       *)
IdsAreInOrder ==
    \A i \in 1 .. Len(laid) : laid[i] = track * spt + i - 1

(* A user who is told the segment behind the track's last one has a track  *)
(* that is formatted from its first to its last segment, after whatever    *)
(* errors; and only then does the runner stop at the logical end of track. *)
EndMeansWhole ==
    \/ runner_status = "logical_eot"
    \/ /\ out.res \in {"ok", "end"}
       /\ caller = "status" /\ pc = "user"
       /\ out.segment = (track + 1) * spt
    => Len(laid) = spt

(* Once the tape runs, a user who keeps asking is told of an error, of the *)
(* end of the track, or reads its last segment (ftape_format_status).      *)
TracksEnd ==
    moving ~> \/ out.res \in {"EAGAIN", "EIO", "end"}
              \/ out.segment = (track + 1) * spt
=============================================================================
