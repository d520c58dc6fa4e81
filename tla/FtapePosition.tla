---------------------------- MODULE FtapePosition ----------------------------
(***************************************************************************)
(* ftape_start_tape(): the search for a segment.  The driver does not see  *)
(* where the tape is; it reads the id of a sector that passes the head,    *)
(* asks the drive whether it stopped at an end of the tape, and otherwise  *)
(* computes from what it read last (ftape->location).  It learns how far   *)
(* the drive's skips go beyond what they were asked for.                   *)
(*                                                                         *)
(* The steps of the process are the calls that make the drive do something *)
(* or that ask it; the drive and the tape are modelled as far as the       *)
(* driver depends on them.  Between two searches the tape runs under the   *)
(* interrupt handler (FdcIsr).                                             *)
(***************************************************************************)
EXTENDS Integers

CONSTANTS
    SegmentsPerTrack, Tracks,
    SoftRetries,      \* ft_soft_retries, 6
    MaxReadIds,       \* FT_SECTORS_PER_SEGMENT tries to read an id, 32
    MinCount,         \* ftape->min_count, the shortest fast skip, 8
    MaxStartOffset,   \* start_offset grows up to here, 5
    EotMargin,        \* ftape->rew_eot_margin at first, 4
    OvershootLow, OvershootLimit,   \* what is learned is kept within, -5 and 20
    ShortSkips,       \* longer skips take a third nibble, 256
    ForwardDrifts, ReverseDrifts,   \* how far skips may go too far
    EotGaps,          \* gaps counted in vain from the end of the track
    MaxFaults, Faults

ASSUME TapeAssumption == SegmentsPerTrack \in Nat \ {0} /\ Tracks \in Nat \ {0}
ASSUME LimitsAssumption ==
    /\ SoftRetries \in Nat /\ MaxReadIds \in Nat /\ MinCount \in Nat \ {0}
    /\ ShortSkips \in Nat \ {0}
    /\ MaxStartOffset \in Nat \ {0} /\ EotMargin \in Nat
    /\ OvershootLow \in Int /\ OvershootLimit \in Nat \ {0} /\ OvershootLow < 0
    /\ -OvershootLow <= MinCount + 1     \* fast skips go to targets ahead
ASSUME DriftAssumption == /\ ForwardDrifts \subseteq Int /\ ReverseDrifts \subseteq Int
                          /\ EotGaps \subseteq Nat
ASSUME PositionFaultsAssumption ==
    MaxFaults \in Nat /\ Faults \subseteq {"noid", "drive", "track", "signal"}

VARIABLES
    pc,
    wanted, short_start,    \* the arguments of ftape_start_tape()
    retry, result,
    location,               \* ftape->location
    tape_running, start_offset, might_be_off_track,
    ffw_overshoot, rew_overshoot, min_rewind, rew_eot_margin,
    seek,                   \* locals of seek_forward(), skip_reverse()
    head, at, moving,       \* the drive: track, position on it, tape moves
    drift,                  \* how far this drive's skips go too far
    faults

tuning == <<ffw_overshoot, rew_overshoot, min_rewind, rew_eot_margin>>
drive  == <<head, at, moving>>
args   == <<wanted, short_start>>
vars   == <<pc, args, retry, result, location, tape_running, start_offset,
            might_be_off_track, tuning, seek, drive, drift, faults>>

N        == SegmentsPerTrack
Segments == 0 .. (N * Tracks - 1)
Drifts   == [ahead : ForwardDrifts, back : ReverseDrifts, gaps : EotGaps]
Bot      == -1                  \* logical begin and end of the track
Eot      == N
NoTrack  == -1

Steps == {"idle", "track", "loop", "determine", "det_read", "where", "stop",
          "rewind", "reverse", "rev_read", "forward", "fwd_read", "running"}

PositionTypeOK ==
    /\ pc \in Steps
    /\ wanted \in Segments /\ short_start \in BOOLEAN
    /\ retry \in 0 .. SoftRetries + 1 /\ result \in {"none", "ok", "err"}
    /\ location \in [known : BOOLEAN, segment : (-1 - N) .. (N * Tracks - 1),
                     bot : BOOLEAN, eot : BOOLEAN, track : NoTrack .. Tracks - 1]
    /\ tape_running \in BOOLEAN /\ might_be_off_track \in BOOLEAN
    /\ start_offset \in 1 .. MaxStartOffset
    /\ ffw_overshoot \in OvershootLow .. OvershootLimit
    /\ rew_overshoot \in OvershootLow .. OvershootLimit
    /\ min_rewind \in Int /\ min_rewind >= OvershootLow
    /\ rew_eot_margin \in Nat
    /\ seek \in [failures : 0 .. MaxReadIds, expected : Int, quick : BOOLEAN,
                 from_eot : BOOLEAN]
    /\ head \in 0 .. Tracks - 1 /\ at \in Bot .. Eot /\ moving \in BOOLEAN
    /\ drift \in Drifts
    /\ faults \in 0 .. MaxFaults

NoSeek == [failures |-> 0, expected |-> 0, quick |-> FALSE, from_eot |-> FALSE]

(* ftape_init_driver(); nobody knows where the tape is.                    *)
Init ==
    /\ pc = "idle" /\ result = "none" /\ retry = 0
    /\ wanted = 0 /\ short_start = FALSE
    /\ location = [known |-> FALSE, segment |-> 0, bot |-> FALSE, eot |-> FALSE,
                   track |-> NoTrack]
    /\ tape_running = FALSE /\ start_offset = 1 /\ might_be_off_track = TRUE
    /\ ffw_overshoot = 1 /\ rew_overshoot = 1 /\ min_rewind = 2
    /\ rew_eot_margin = EotMargin
    /\ seek = NoSeek
    /\ head = 0 /\ at \in {Bot, N \div 2} /\ moving = FALSE
    /\ drift \in Drifts
    /\ faults = 0

Fault(kind) == kind \in Faults /\ faults < MaxFaults /\ faults' = faults + 1
NoFault == UNCHANGED faults

Least(a, b) == IF a < b THEN a ELSE b
Greatest(a, b) == IF a > b THEN a ELSE b

-----------------------------------------------------------------------------
(* Where the driver takes the tape to be                                    *)

SameWay(t, u) == t % 2 = u % 2

(* Mutant: the end of the track has the position of its begin.             *)
check_bot_eot_Begin(loc, p) ==
    LET bot == (p = Bot) = SameWay(loc.track, head)
    IN  IF p \in {Bot, Eot}
        THEN [loc EXCEPT !.bot = bot, !.eot = ~bot, !.known = TRUE,
                         !.segment = loc.track * N - 1]
        ELSE [loc EXCEPT !.known = FALSE]

(* check_bot_eot(), for a tape at position p of the track of the head.     *)
check_bot_eot(loc, p) ==
    LET bot == (p = Bot) = SameWay(loc.track, head)
    IN  IF p \in {Bot, Eot}
        THEN [loc EXCEPT !.bot = bot, !.eot = ~bot, !.known = TRUE,
                         !.segment = (loc.track + (IF bot THEN 0 ELSE 1)) * N - 1]
        ELSE [loc EXCEPT !.known = FALSE]

Unknown(loc) == [loc EXCEPT !.known = FALSE]

(* A status that was never received: its end of tape bits are arbitrary.   *)
Garbage == {Unknown(location)} \cup {check_bot_eot(location, p) : p \in {Bot, Eot}}

(* ftape_read_id(): the id of a sector that passes the head, before or     *)
(* after the tape has moved on to the next segment; if the tape stands or  *)
(* stops, what the drive says of the ends of the tape; or nothing.         *)
Elapsed == IF moving THEN {at, at + 1} \ {Bot} ELSE {at}

IdAt(p) == [ at |-> p, moving |-> TRUE, running |-> tape_running, kind |-> "id",
             loc |-> [location EXCEPT !.known = TRUE, !.segment = head * N + p,
                                      !.bot = FALSE, !.eot = FALSE] ]
StoppedAt(p) == [ at |-> p, moving |-> FALSE, running |-> FALSE, kind |-> "stopped",
                  loc |-> check_bot_eot(location, p) ]
NoIdAt(p) == [ at |-> p, moving |-> TRUE, running |-> tape_running, kind |-> "noid",
               loc |-> Unknown(location) ]

Ids == {IdAt(p) : p \in {q \in Elapsed : moving /\ q < Eot}}
  \cup {StoppedAt(p) : p \in {q \in Elapsed : ~moving \/ q = Eot}}
  \cup {NoIdAt(p) : p \in {q \in Elapsed : moving /\ q < Eot}}

ftape_read_id(id) ==
    /\ id \in Ids
    /\ at' = id.at /\ moving' = id.moving /\ tape_running' = id.running
    /\ location' = id.loc
    /\ IF id.kind = "noid" THEN Fault("noid") ELSE NoFault
    /\ UNCHANGED head

(* logical_forward() from position p: at the end the tape does not move.   *)
logical_forward(p) == at' = p /\ moving' = (p < Eot) /\ tape_running' = TRUE

-----------------------------------------------------------------------------
(* ftape_start_tape()                                                       *)

Fail == pc' = "idle" /\ result' = "err" /\ retry' = 0 /\ seek' = NoSeek

(* again: HEAD is in a retry, for which the track is not sought again.     *)
Call ==
    /\ pc = "idle"
    /\ \E seg \in Segments, again \in BOOLEAN :
          /\ wanted' = seg
          /\ pc' = IF \/ location.track # seg \div N
                      \/ might_be_off_track /\ ~again
                   THEN "track" ELSE "loop"
    /\ short_start' \in BOOLEAN
    /\ tape_running' = FALSE
    /\ retry' = 0 /\ result' = "none"
    /\ UNCHANGED <<location, start_offset, might_be_off_track, tuning, seek, drive,
                   drift, faults>>

(* ftape_seek_head_to_track(), after the tape has stopped.  Its failure is *)
(* only seen in the track of the location.                                 *)
SeekTrack ==
    LET track == wanted \div N
        p     == IF moving THEN Eot ELSE at
    IN  /\ pc = "track"
        /\ moving' = FALSE
        /\ \/ /\ NoFault
              /\ head' = track
              /\ at' = IF SameWay(head, track) THEN p ELSE N - 1 - p
              /\ location' = [location EXCEPT !.known = FALSE, !.track = track]
              /\ might_be_off_track' = FALSE
           \/ /\ Fault("track")
              /\ at' = p
              /\ \E k \in {FALSE, location.known} :
                    location' = [location EXCEPT !.known = k, !.track = NoTrack]
              /\ UNCHANGED <<head, might_be_off_track>>
        /\ pc' = "loop"
        /\ UNCHANGED <<args, retry, result, tape_running, start_offset, tuning, seek, drift>>

LongerRunUp == Least(start_offset + 1, MaxStartOffset)

(* The next try, or no more.                                               *)
Attempt ==
    /\ pc = "loop"
    /\ IF retry > SoftRetries
       THEN Fail /\ UNCHANGED start_offset
       ELSE /\ retry' = retry + 1
            /\ start_offset' = LongerRunUp
            /\ pc' = IF location.known THEN "where" ELSE "determine"
            /\ UNCHANGED <<result, seek>>
    /\ UNCHANGED <<args, location, tape_running, might_be_off_track, tuning,
                   drive, drift, faults>>

(* A signal is seen at the top of the loop, by way of the loops within.    *)
Signal ==
    /\ pc \in {"loop", "fwd_read", "rev_read", "det_read"}
    /\ Fault("signal")
    /\ Fail
    /\ location' = IF pc = "loop" THEN location ELSE Unknown(location)
    /\ UNCHANGED <<args, tape_running, start_offset, might_be_off_track, tuning,
                   drive, drift>>

-----------------------------------------------------------------------------
(* determine_position()                                                     *)

(* The state of the drive is asked for; a tape that stands is started.     *)
Determine ==
    LET p   == IF moving THEN Eot ELSE at       \* where the tape comes to a stop
        loc == check_bot_eot(location, p)
    IN  /\ pc = "determine"
        /\ \/ /\ tape_running /\ moving         \* not ready: it is running
              /\ NoFault
              /\ pc' = "det_read"
              /\ UNCHANGED <<location, tape_running, at, moving>>
           \/ /\ ~(tape_running /\ moving)
              /\ NoFault
              /\ location' = loc
              /\ pc' = IF loc.known THEN "where" ELSE "det_read"
              /\ IF loc.known /\ loc.eot
                 THEN at' = p /\ moving' = FALSE /\ UNCHANGED tape_running
                 ELSE logical_forward(p)
           \/ /\ Fault("drive")                 \* no status
              /\ location' \in Garbage
              /\ pc' = IF location'.known THEN "where" ELSE "det_read"
              /\ UNCHANGED <<tape_running, at, moving>>
        /\ UNCHANGED <<args, retry, result, start_offset, might_be_off_track, tuning,
                       seek, head, drift>>

(* Ids are read until one is found.                                        *)
DetermineRead ==
    /\ pc = "det_read"
    /\ \E id \in Ids :
          /\ ftape_read_id(id)
          /\ IF ~id.loc.known /\ id.moving /\ seek.failures + 1 < MaxReadIds
             THEN seek' = [seek EXCEPT !.failures = @ + 1] /\ UNCHANGED pc
             ELSE /\ pc' = IF id.loc.known THEN "where" ELSE "forward"
                  /\ seek' = NoSeek
    /\ UNCHANGED <<args, retry, result, start_offset, might_be_off_track, tuning, drift>>

-----------------------------------------------------------------------------
(* ftape_start_tape(): too far ahead?                                       *)

(* A tape that stands needs a run-up, except at the begin of the track.    *)
Slack == IF tape_running \/ location.bot THEN 0 ELSE start_offset

Reposition == IF wanted % N < start_offset THEN "rewind" ELSE "reverse"

Where ==
    /\ pc = "where"
    /\ pc' = IF location.segment < wanted - Slack THEN "forward"
             ELSE IF tape_running THEN "stop" ELSE Reposition
    /\ UNCHANGED <<args, retry, result, location, tape_running, start_offset,
                   might_be_off_track, tuning, seek, drive, drift, faults>>

(* ftape_stop_tape(); the tape coasts.                                     *)
Stop ==
    /\ pc = "stop"
    /\ \/ /\ NoFault
          /\ at' \in Elapsed /\ moving' = FALSE
          /\ tape_running' = FALSE
          /\ pc' = Reposition
          /\ UNCHANGED <<retry, result, seek>>
       \/ /\ Fault("drive")
          /\ Fail
          /\ UNCHANGED <<at, moving, tape_running>>
    /\ UNCHANGED <<args, location, start_offset, might_be_off_track, tuning, head, drift>>

(* The tape is wound to the begin of the track.                            *)
Rewind ==
    /\ pc = "rewind"
    /\ \/ /\ NoFault
          /\ at' = IF SameWay(location.track, head) THEN Bot ELSE Eot
          /\ moving' = FALSE
          /\ location' = check_bot_eot(location, at')
       \/ /\ Fault("drive")
          /\ location' \in Garbage
          /\ UNCHANGED <<at, moving>>
    /\ pc' = "forward"
    /\ UNCHANGED <<args, retry, result, tape_running, start_offset, might_be_off_track,
                   tuning, seek, head, drift>>

-----------------------------------------------------------------------------
(* fast_seek() and skip_reverse()                                           *)

(* The count less one goes to the drive in two nibbles, or in three if it  *)
(* was long before the corrections for the ends of the track.              *)
Sent(asked, count) ==
    IF asked < ShortSkips THEN ((count - 1) % ShortSkips) + 1 ELSE count

Clip(x) == Greatest(OvershootLow, Least(x, OvershootLimit))

(* Mutant: the tape is backed up without a run-up.                         *)
RevTarget_Late == wanted

RevTarget == wanted - start_offset
Distance  == location.segment - (RevTarget - 1)

ShortSeek == Distance - (min_rewind - 1) < 1 \/ Distance - rew_overshoot < 1

(* The quotient of C, which rounds towards zero.                           *)
Quotient(a, b) == IF a < 0 THEN -((-a) \div b) ELSE a \div b

RevExpected ==
    LET e == location.segment - min_rewind IN
    IF ~ShortSeek THEN RevTarget - 1
    ELSE IF Quotient(e, N) # location.track THEN location.track * N ELSE e

(* From the end of the tape the skip has to be longer.                     *)
FromEot == location.known /\ location.eot
RevCount == IF ShortSeek THEN 1 ELSE Distance - rew_overshoot
RevSent  == Sent(RevCount, RevCount + (IF FromEot THEN rew_eot_margin ELSE 0))

(* Where the drive ends.                                                   *)
SkippedBack ==
    LET p == at - RevSent - drift.back + (IF at = Eot THEN drift.gaps ELSE 0)
    IN  Greatest(Bot, Least(p, Eot))

SkipReverse ==
    /\ pc = "reverse"
    /\ \/ NoFault /\ logical_forward(SkippedBack)
       \/ Fault("drive") /\ logical_forward(at)
    /\ location' = Unknown(location)
    /\ seek' = [seek EXCEPT !.expected = RevExpected, !.quick = ShortSeek,
                            !.from_eot = FromEot]
    /\ pc' = "rev_read"
    /\ UNCHANGED <<args, retry, result, start_offset, might_be_off_track, tuning, head, drift>>

LongerMargin(loc) == IF seek.from_eot /\ loc.eot
                     THEN rew_eot_margin + MinCount - 1 ELSE rew_eot_margin

(* What the outcome of a skip teaches.                                     *)
LearnReverse(loc) ==
    LET off   == ~seek.from_eot /\ (loc.segment - seek.expected) \notin {0, 1}
        error == seek.expected - loc.segment
    IN  /\ rew_eot_margin' = LongerMargin(loc)
        /\ min_rewind' = IF off /\ seek.quick
                         THEN Greatest(OvershootLow, min_rewind + error) ELSE min_rewind
        /\ rew_overshoot' = IF off /\ ~seek.quick
                            THEN Clip(rew_overshoot + error) ELSE rew_overshoot

(* Skip again while the tape is ahead of the target, with that many ids    *)
(* not found so far.  (validate() holds of every segment looked for:       *)
(* location.track is its track, or unknown.)                               *)
ReverseOn(on, failures) ==
    /\ pc' = IF on THEN "reverse" ELSE "forward"
    /\ seek' = IF on THEN [NoSeek EXCEPT !.failures = failures] ELSE NoSeek

ReverseRead ==
    /\ pc = "rev_read"
    /\ \E id \in Ids :
          /\ ftape_read_id(id)
          /\ \/ /\ id.loc.known
                /\ LearnReverse(id.loc)
                /\ ReverseOn(id.loc.segment > RevTarget, seek.failures)
             \/ /\ ~id.loc.known
                /\ ReverseOn(/\ id.running /\ seek.failures < MaxReadIds
                             /\ location.segment > RevTarget, seek.failures + 1)
                /\ UNCHANGED <<rew_eot_margin, min_rewind, rew_overshoot>>
    /\ UNCHANGED <<args, retry, result, start_offset, might_be_off_track, ffw_overshoot, drift>>

-----------------------------------------------------------------------------
(* seek_forward()                                                           *)

FwdTarget == wanted - (IF short_start THEN 0 ELSE 1)
FwdCount  == FwdTarget - 1 - location.segment - ffw_overshoot
FastSeek  == /\ retry <= SoftRetries \div 2
             /\ FwdCount > MinCount + (IF location.bot THEN 1 ELSE 0)

(* From the begin of the track, to the first segment slowly.               *)
FastFrom  == IF location.bot THEN Greatest(at, 0) ELSE at
FastSent  == Sent(FwdCount, FwdCount - (IF location.bot THEN 1 ELSE 0))

(* Where the drive ends.                                                   *)
SkippedAhead == Greatest(Bot, Least(Eot, FastFrom + FastSent + drift.ahead))

(* Mutant: past the target is taken for at the target.                     *)
FwdNext_Past(seg) == IF seg < FwdTarget THEN "fwd_read" ELSE "running"

(* The search ends: at the target, past it, or not yet.                    *)
FwdNext(seg) == IF seg < FwdTarget THEN "fwd_read"
                ELSE IF seg > FwdTarget THEN "loop" ELSE "running"

Arrive(next, locals) ==
    /\ pc' = next
    /\ seek' = IF next = "fwd_read" THEN locals ELSE NoSeek
    /\ result' = IF next = "running" THEN "ok" ELSE result
    /\ retry' = IF next = "running" THEN 0 ELSE retry

Forward ==
    /\ pc = "forward"
    /\ \/ /\ ~location.known                      \* once more
          /\ pc' = "loop"
          /\ NoFault
          /\ UNCHANGED <<retry, result, location, tape_running, seek, at, moving>>
       \/ /\ location.known /\ location.segment >= wanted - Slack
          /\ Arrive(IF location.segment = FwdTarget THEN "running" ELSE "loop", NoSeek)
          /\ NoFault
          /\ UNCHANGED <<location, tape_running, at, moving>>
       \/ /\ location.known /\ location.segment < wanted - Slack
          /\ Arrive(FwdNext(location.segment),
                    [NoSeek EXCEPT !.quick = FastSeek, !.expected = FwdTarget - 1])
          /\ IF FastSeek
             THEN /\ \/ /\ NoFault
                        /\ logical_forward(SkippedAhead)
                     \/ Fault("drive") /\ logical_forward(at)
                  /\ location' = Unknown(location)
             ELSE /\ NoFault
                  /\ IF tape_running THEN UNCHANGED <<at, moving, tape_running>>
                                     ELSE logical_forward(at)
                  /\ UNCHANGED location
    /\ UNCHANGED <<args, start_offset, might_be_off_track, tuning, head, drift>>

(* What the outcome of a fast skip teaches.                                *)
LearnForward(loc) ==
    ffw_overshoot' = IF seek.quick /\ (loc.segment - seek.expected) \notin {0, 1}
                     THEN Clip(ffw_overshoot + loc.segment - seek.expected)
                     ELSE ffw_overshoot

ForwardRead ==
    /\ pc = "fwd_read"
    /\ \E id \in Ids :
          /\ ftape_read_id(id)
          /\ \/ /\ id.loc.known
                /\ LearnForward(id.loc)
                /\ Arrive(FwdNext(id.loc.segment), [seek EXCEPT !.quick = FALSE])
             \/ /\ ~id.loc.known
                /\ Arrive(IF id.running /\ seek.failures < MaxReadIds
                          THEN "fwd_read" ELSE "loop",
                          [seek EXCEPT !.failures = @ + 1])
                /\ UNCHANGED ffw_overshoot
    /\ UNCHANGED <<args, start_offset, might_be_off_track, rew_overshoot,
                   min_rewind, rew_eot_margin, drift>>

-----------------------------------------------------------------------------
(* The tape runs under the interrupt handler, until that pauses it, the    *)
(* process stops it, or the track ends.  Only the last does not touch the  *)
(* location.                                                               *)

RunEnds == /\ pc = "running" /\ pc' = "idle" /\ moving' = FALSE
           /\ UNCHANGED <<args, retry, result, start_offset, tuning, seek, head, drift, faults>>

Passed == IF moving THEN at .. Eot ELSE {at}

(* The pause command makes the drive back up.                              *)
Pause ==
    /\ RunEnds
    /\ at' \in 0 .. N - 1
    /\ location' = Unknown(location) /\ tape_running' = FALSE
    /\ might_be_off_track' \in {might_be_off_track, TRUE}

DumbStop ==
    /\ RunEnds
    /\ at' \in Passed
    /\ location' = Unknown(location) /\ tape_running' = FALSE
    /\ UNCHANGED might_be_off_track

LogicalEot ==
    /\ RunEnds
    /\ moving /\ at' = Eot
    /\ UNCHANGED <<location, tape_running, might_be_off_track>>

(* After a start that failed nobody stops the tape.                        *)
RunOut ==
    /\ pc = "idle" /\ moving
    /\ at' = Eot /\ moving' = FALSE
    /\ UNCHANGED <<pc, args, retry, result, location, tape_running, start_offset,
                   might_be_off_track, tuning, seek, head, drift, faults>>

Process == \/ SeekTrack \/ Attempt \/ Determine \/ DetermineRead \/ Where \/ Stop
           \/ Rewind \/ SkipReverse \/ ReverseRead \/ Forward \/ ForwardRead

Next == Call \/ Process \/ Signal \/ Pause \/ DumbStop \/ LogicalEot \/ RunOut

(* The process is scheduled, the drive answers, and the tape moves.        *)
Fairness == WF_vars(Process)

Spec == Init /\ [][Next]_vars /\ Fairness

-----------------------------------------------------------------------------
(* Properties                                                               *)

(***************************************************************************)
(* A drive without faults, whatever its skips' drift, is never given up:   *)
(* what the driver learns converges before its retries are used up.        *)
(***************************************************************************)
HealthyDriveStarts == (pc = "idle" /\ result = "err") => faults > 0

(* Just before the wanted segment or, for a short start, in it.            *)
InPlace == moving /\ head * N + at = FwdTarget

(***************************************************************************)
(* ftape_start_tape() gets the tape running just before the wanted segment *)
(* if it read an id last, and did not take an end of the track for the     *)
(* place it looks for: through skips that go astray, lost ids, commands    *)
(* that fail, and a head that may be on the wrong track.                   *)
(***************************************************************************)
StartsWhereIdsSay == (pc = "running" /\ ~location.bot /\ ~location.eot) => InPlace

(***************************************************************************)
(* ftape_start_tape() returns, whatever fails, except if the head could    *)
(* not be moved to the track: the end of the tape, read as one of track    *)
(* -1, then lies before every segment, and seek_forward() waits for ids    *)
(* that a standing tape will never show.                                   *)
(***************************************************************************)
StartReturns ==
    (pc \notin {"idle", "running"}) ~> (pc \in {"idle", "running"}
                                         \/ location.track = NoTrack)

=============================================================================
