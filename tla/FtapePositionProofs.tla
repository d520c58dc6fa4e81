------------------------- MODULE FtapePositionProofs -------------------------
(***************************************************************************)
(* ftape_start_tape() on any tape, with any drive: however far its skips   *)
(* go astray and whatever ids, commands and head movements fail, what the  *)
(* driver knows stays in its types, and if it takes the place of the tape  *)
(* from an id, the tape runs just before the segment that was asked for.   *)
(***************************************************************************)
EXTENDS FtapePosition, TLAPS

USE DEF N, Bot, Eot, NoTrack

Places    == -1 .. SegmentsPerTrack
Locations == [known : BOOLEAN, segment : (-1 - N) .. (N * Tracks - 1),
              bot : BOOLEAN, eot : BOOLEAN, track : NoTrack .. Tracks - 1]
Searches  == [failures : 0 .. MaxReadIds, expected : Int, quick : BOOLEAN,
              from_eot : BOOLEAN]

(* The driver takes the location from an id, not from an end of the track. *)
FromId == location.known /\ ~location.bot /\ ~location.eot

(* The tape is where the driver takes it to be.                            *)
Exact == moving /\ location.segment = head * N + at

(***************************************************************************)
(* The inductive invariant: a tape that moves has not reached the end, the *)
(* head changes tracks on a standing tape, and the driver's view, where it *)
(* relies on it without asking again, is the truth.  Of a tape it has      *)
(* stopped it may still have a stale view; then it goes on to read ids     *)
(* before it answers.                                                      *)
(***************************************************************************)
MotionOK == /\ moving => at < Eot
            /\ pc = "track" => ~tape_running

ViewOK ==
    /\ (pc \in {"loop", "where", "forward"} /\ FromId /\ tape_running) => Exact
    /\ (pc = "forward" /\ FromId) => (Exact \/ location.segment < wanted - Slack)
    /\ (pc = "running" /\ ~location.bot /\ ~location.eot) =>
           (Exact /\ location.segment = FwdTarget)

PositionInv == PositionTypeOK /\ MotionOK /\ ViewOK

-----------------------------------------------------------------------------
(* Places on the tape                                                       *)

(* Quotient and remainder are what they should be.                         *)
LEMMA PositionDivMod ==
    ASSUME NEW a \in Nat, NEW b \in Nat \ {0}
    PROVE  /\ a \div b \in Nat /\ a % b \in Nat
           /\ a = b * (a \div b) + (a % b) /\ a % b < b
BY Z3

(* A product with a larger factor is larger.                               *)
LEMMA PositionMonotone ==
    ASSUME NEW a \in Int, NEW b \in Int, NEW c \in Nat, a <= b
    PROVE  a * c <= b * c /\ a * c \in Int /\ b * c \in Int
BY Z3

(* A place on a track is one on the tape.                                  *)
LEMMA PlaceOnTape ==
    ASSUME NEW h \in -1 .. Tracks - 1
    PROVE  /\ h * N \in Int /\ -N <= h * N /\ h * N <= N * Tracks - N
           /\ h >= 0 => 0 <= h * N
           /\ N * Tracks \in Nat
<1>1. N \in Nat /\ N >= 1 /\ Tracks \in Nat /\ h \in Int
  BY TapeAssumption
<1>2. (-1) * N <= h * N /\ h * N \in Int
  BY <1>1, PositionMonotone
<1>3. h * N <= (Tracks - 1) * N
  BY <1>1, PositionMonotone
<1>4. (Tracks - 1) * N = N * Tracks - N /\ (-1) * N = -N /\ N * Tracks \in Nat
  BY <1>1, Z3
<1>5. h >= 0 => 0 * N <= h * N
  BY <1>1, PositionMonotone
<1> QED
  BY <1>1, <1>2, <1>3, <1>4, <1>5

(* The track of a segment is one of the tape's.                            *)
LEMMA TrackOfSegment ==
    ASSUME NEW seg \in Segments
    PROVE  seg \div N \in 0 .. Tracks - 1
<1>1. N \in Nat /\ N >= 1 /\ Tracks \in Nat /\ Tracks >= 1
  BY TapeAssumption
<1>2. N * Tracks \in Nat
  BY <1>1, Z3
<1>3. seg \in Nat /\ seg < N * Tracks
  BY <1>2 DEF Segments
<1> DEFINE q == seg \div N
           r == seg % N
<1>4. q \in Nat /\ r \in Nat /\ seg = N * q + r
  BY <1>1, <1>3, PositionDivMod
<1> HIDE DEF q
<1>5. ~(Tracks <= q)
  <2>1. SUFFICES ASSUME Tracks <= q PROVE FALSE
    OBVIOUS
  <2>2. Tracks * N <= q * N
    BY <1>1, <1>4, <2>1, PositionMonotone
  <2>3. Tracks * N = N * Tracks /\ q * N = N * q /\ N * q \in Nat
    BY <1>1, <1>4, Z3
  <2> QED
    BY <1>2, <1>3, <1>4, <2>2, <2>3
<1>6. q \in 0 .. Tracks - 1
  BY <1>1, <1>4, <1>5
<1> QED
  BY <1>6 DEF q

(* The driver's computations on segments stay integers.                    *)
LEMMA QuotientIsInt ==
    ASSUME NEW a \in Int
    PROVE  Quotient(a, N) \in Int
<1>1. N \in Nat \ {0}
  BY TapeAssumption
<1>2. CASE a < 0
  <2>1. -a \in Nat
    BY <1>2
  <2>2. (-a) \div N \in Nat
    BY <1>1, <2>1, PositionDivMod
  <2> QED
    BY <1>2, <2>2 DEF Quotient
<1>3. CASE ~(a < 0)
  BY <1>1, <1>3, PositionDivMod DEF Quotient
<1> QED
  BY <1>2, <1>3

-----------------------------------------------------------------------------
(* What the driver is told                                                  *)

(* A status tells of an end of the track that the tape is at, and leaves   *)
(* the location unknown anywhere else.                                     *)
LEMMA EndOfTrack ==
    ASSUME NEW loc \in Locations, NEW p \in Places
    PROVE  /\ check_bot_eot(loc, p) \in Locations
           /\ check_bot_eot(loc, p).known <=> p \in {Bot, Eot}
           /\ check_bot_eot(loc, p).known =>
                  (check_bot_eot(loc, p).bot <=> ~check_bot_eot(loc, p).eot)
<1> DEFINE bot == (p = Bot) = SameWay(loc.track, head)
           seg == (loc.track + (IF bot THEN 0 ELSE 1)) * N - 1
<1>1. loc.track \in -1 .. Tracks - 1
  BY DEF Locations
<1>2. N \in Nat /\ N >= 1 /\ Tracks \in Nat /\ Tracks >= 1
  BY TapeAssumption
<1>3. bot \in BOOLEAN
  OBVIOUS
<1>4. seg \in (-1 - N) .. (N * Tracks - 1)
  <2>1. /\ loc.track * N \in Int /\ -N <= loc.track * N
        /\ loc.track * N <= N * Tracks - N /\ N * Tracks \in Nat
    BY <1>1, PlaceOnTape
  <2>2. loc.track \in Int
    BY <1>1
  <2>3. (loc.track + 0) * N = loc.track * N
    BY <2>2
  <2>4. (loc.track + 1) * N = loc.track * N + N
    BY <1>2, <2>2, Z3
  <2> HIDE DEF bot
  <2>5. CASE bot
    BY <1>2, <2>1, <2>3, <2>5
  <2>6. CASE ~bot
    BY <1>2, <2>1, <2>4, <2>6
  <2> QED
    BY <2>5, <2>6
<1> HIDE DEF seg
<1>5. CASE p \in {Bot, Eot}
  <2>1. check_bot_eot(loc, p) =
            [loc EXCEPT !.bot = bot, !.eot = ~bot, !.known = TRUE, !.segment = seg]
    BY <1>5 DEF check_bot_eot, seg
  <2> HIDE DEF bot
  <2> QED
    BY <1>3, <1>4, <1>5, <2>1 DEF Locations
<1>6. CASE p \notin {Bot, Eot}
  <2>1. check_bot_eot(loc, p) = [loc EXCEPT !.known = FALSE]
    BY <1>6 DEF check_bot_eot
  <2> QED
    BY <1>6, <2>1 DEF Locations
<1> QED
  BY <1>5, <1>6

(* A head that changes tracks.                                             *)
LEMMA TrackFacts ==
    ASSUME NEW loc \in Locations, NEW k \in BOOLEAN, NEW t \in -1 .. Tracks - 1
    PROVE  [loc EXCEPT !.known = k, !.track = t] \in Locations
BY DEF Locations

(* A location that is forgotten has its type.                              *)
LEMMA UnknownFacts ==
    ASSUME NEW loc \in Locations
    PROVE  /\ Unknown(loc) \in Locations /\ ~Unknown(loc).known
           /\ Unknown(loc).bot = loc.bot /\ Unknown(loc).eot = loc.eot
BY DEF Unknown, Locations

(* A lost status leaves the location unknown or at an end of the track.    *)
LEMMA GarbageFacts ==
    ASSUME location \in Locations, NEW g \in Garbage
    PROVE  g \in Locations /\ ~(g.known /\ ~g.bot /\ ~g.eot)
<1>1. CASE g = Unknown(location)
  BY <1>1, UnknownFacts
<1>2. CASE \E p \in {Bot, Eot} : g = check_bot_eot(location, p)
  <2>1. PICK p \in {Bot, Eot} : g = check_bot_eot(location, p)
    BY <1>2
  <2>2. p \in Places
    BY <2>1, TapeAssumption DEF Places
  <2> QED
    BY <2>1, <2>2, EndOfTrack
<1> QED
  BY <1>1, <1>2 DEF Garbage

(* The types that the steps below read.                                    *)
LEMMA PositionTypes ==
    ASSUME PositionTypeOK
    PROVE  /\ N \in Nat /\ N >= 1 /\ Tracks \in Nat /\ Tracks >= 1
           /\ pc \in Steps /\ wanted \in Segments /\ wanted \in Int
           /\ short_start \in BOOLEAN
           /\ retry \in 0 .. SoftRetries + 1 /\ SoftRetries \in Nat
           /\ location \in Locations /\ location.segment \in Int
           /\ location.known \in BOOLEAN /\ location.bot \in BOOLEAN
           /\ location.eot \in BOOLEAN
           /\ tape_running \in BOOLEAN /\ might_be_off_track \in BOOLEAN
           /\ start_offset \in 1 .. MaxStartOffset /\ start_offset \in Nat
           /\ ffw_overshoot \in OvershootLow .. OvershootLimit
           /\ rew_overshoot \in OvershootLow .. OvershootLimit
           /\ ffw_overshoot \in Int /\ rew_overshoot \in Int
           /\ min_rewind \in Int /\ rew_eot_margin \in Nat
           /\ seek \in Searches /\ seek.failures \in 0 .. MaxReadIds
           /\ seek.expected \in Int /\ seek.quick \in BOOLEAN
           /\ head \in 0 .. Tracks - 1 /\ at \in Places /\ at \in Int
           /\ moving \in BOOLEAN
           /\ drift.ahead \in Int /\ drift.back \in Int /\ drift.gaps \in Int
<1>1. /\ N \in Nat /\ N >= 1 /\ Tracks \in Nat /\ Tracks >= 1
      /\ MaxStartOffset \in Nat /\ SoftRetries \in Nat
      /\ OvershootLow \in Int /\ OvershootLimit \in Int
  BY TapeAssumption, LimitsAssumption
<1>2. N * Tracks \in Nat
  BY <1>1, Z3
<1>3. /\ wanted \in Segments /\ wanted \in Int
  BY <1>2 DEF PositionTypeOK, Segments
<1>4. /\ location \in Locations /\ location.segment \in Int
      /\ location.known \in BOOLEAN /\ location.bot \in BOOLEAN
      /\ location.eot \in BOOLEAN
  BY <1>1, <1>2 DEF PositionTypeOK, Locations
<1>5. /\ seek \in Searches /\ seek.failures \in 0 .. MaxReadIds
      /\ seek.expected \in Int /\ seek.quick \in BOOLEAN
  BY DEF PositionTypeOK, Searches
<1>6. drift.ahead \in Int /\ drift.back \in Int /\ drift.gaps \in Int
  <2>1. drift \in [ahead : ForwardDrifts, back : ReverseDrifts, gaps : EotGaps]
    BY DEF PositionTypeOK, Drifts
  <2>2. /\ drift.ahead \in ForwardDrifts /\ drift.back \in ReverseDrifts
        /\ drift.gaps \in EotGaps
    BY <2>1
  <2>3. drift.ahead \in Int /\ drift.back \in Int /\ drift.gaps \in Nat
    BY <2>2, DriftAssumption, Zenon
  <2> QED
    BY <2>3
<1>7. head \in 0 .. Tracks - 1 /\ at \in Places /\ at \in Int
  BY <1>1 DEF PositionTypeOK, Places
<1>8. start_offset \in 1 .. MaxStartOffset /\ start_offset \in Nat
  BY <1>1 DEF PositionTypeOK
<1>9. /\ ffw_overshoot \in OvershootLow .. OvershootLimit
      /\ rew_overshoot \in OvershootLow .. OvershootLimit
      /\ ffw_overshoot \in Int /\ rew_overshoot \in Int
  BY <1>1 DEF PositionTypeOK
<1>10. /\ pc \in Steps /\ short_start \in BOOLEAN
       /\ retry \in 0 .. SoftRetries + 1
       /\ tape_running \in BOOLEAN /\ might_be_off_track \in BOOLEAN
       /\ min_rewind \in Int /\ rew_eot_margin \in Nat /\ moving \in BOOLEAN
  BY DEF PositionTypeOK
<1> QED
  BY <1>1, <1>3, <1>4, <1>5, <1>6, <1>7, <1>8, <1>9, <1>10

(***************************************************************************)
(* What ftape_read_id() leaves: an id is that of the place the tape is at, *)
(* a tape that has stopped is at an end of the track or nobody knows, and  *)
(* a tape that goes on has not reached the end.                            *)
(***************************************************************************)
LEMMA IdFacts ==
    ASSUME PositionTypeOK, MotionOK, NEW id \in Ids
    PROVE  /\ id.at \in Places /\ id.moving \in BOOLEAN /\ id.running \in BOOLEAN
           /\ id.loc \in Locations
           /\ id.moving => id.at < Eot
           /\ (id.loc.known /\ ~id.loc.bot /\ ~id.loc.eot) =>
                  (id.moving /\ id.loc.segment = head * N + id.at)
<1>1. /\ N \in Nat /\ N >= 1 /\ Tracks \in Nat /\ location \in Locations
      /\ at \in Places /\ at \in Int /\ moving \in BOOLEAN
      /\ tape_running \in BOOLEAN /\ head \in 0 .. Tracks - 1
  BY PositionTypes
<1>2. Elapsed \subseteq Places /\ (moving => Elapsed \subseteq 0 .. N)
  BY <1>1 DEF Elapsed, MotionOK, Places
<1>3. CASE \E p \in Elapsed : moving /\ p < Eot /\ id = IdAt(p)
  <2>1. PICK p \in Elapsed : moving /\ p < Eot /\ id = IdAt(p)
    BY <1>3
  <2>2. p \in 0 .. N - 1 /\ p \in Places
    BY <1>1, <1>2, <2>1
  <2> DEFINE seg == head * N + p
  <2>3. seg \in (-1 - N) .. (N * Tracks - 1)
    <3>1. /\ head * N \in Int /\ 0 <= head * N
          /\ head * N <= N * Tracks - N /\ N * Tracks \in Nat
      <4>1. head \in -1 .. Tracks - 1 /\ head >= 0
        BY <1>1
      <4> QED
        BY <4>1, PlaceOnTape
    <3> QED
      BY <1>1, <2>2, <3>1
  <2>4. /\ id.at = p /\ id.moving = TRUE /\ id.running = tape_running
        /\ id.loc = [location EXCEPT !.known = TRUE, !.segment = seg,
                                     !.bot = FALSE, !.eot = FALSE]
    BY <2>1 DEF IdAt
  <2>5. id.loc \in Locations /\ id.loc.segment = seg
    <3> HIDE DEF seg
    <3> QED
      BY <1>1, <2>3, <2>4 DEF Locations
  <2> QED
    BY <1>1, <2>1, <2>2, <2>4, <2>5
<1>4. CASE \E p \in Elapsed : (~moving \/ p = Eot) /\ id = StoppedAt(p)
  <2>1. PICK p \in Elapsed : (~moving \/ p = Eot) /\ id = StoppedAt(p)
    BY <1>4
  <2>2. p \in Places
    BY <1>2, <2>1
  <2>3. /\ id.at = p /\ id.moving = FALSE /\ id.running = FALSE
        /\ id.loc = check_bot_eot(location, p)
    BY <2>1 DEF StoppedAt
  <2> QED
    BY <1>1, <2>2, <2>3, EndOfTrack
<1>5. CASE \E p \in Elapsed : moving /\ p < Eot /\ id = NoIdAt(p)
  <2>1. PICK p \in Elapsed : moving /\ p < Eot /\ id = NoIdAt(p)
    BY <1>5
  <2>2. p \in Places
    BY <1>2, <2>1
  <2>3. /\ id.at = p /\ id.moving = TRUE /\ id.running = tape_running
        /\ id.loc = Unknown(location)
    BY <2>1 DEF NoIdAt
  <2> QED
    BY <1>1, <2>1, <2>2, <2>3, UnknownFacts
<1> QED
  BY <1>3, <1>4, <1>5 DEF Ids

(* Nothing is sought: a search of no ids read so far.                      *)
LEMMA NoSeekFacts ==
    /\ NoSeek \in Searches
    /\ \A f \in 0 .. MaxReadIds : [NoSeek EXCEPT !.failures = f] \in Searches
<1>1. NoSeek \in Searches
  BY LimitsAssumption DEF NoSeek, Searches
<1>2. ASSUME NEW f \in 0 .. MaxReadIds
      PROVE  [NoSeek EXCEPT !.failures = f] \in Searches
  BY <1>1 DEF Searches
<1> QED
  BY <1>1, <1>2

(* A fault is counted, and no more than MaxFaults of them.                 *)
LEMMA FaultFacts ==
    ASSUME PositionTypeOK, NEW kind, Fault(kind) \/ NoFault
    PROVE  faults' \in 0 .. MaxFaults
BY PositionFaultsAssumption DEF PositionTypeOK, Fault, NoFault

(* A standing drive is started, or a drive that moves goes on.             *)
LEMMA ForwardFacts ==
    ASSUME NEW p \in Places, logical_forward(p)
    PROVE  /\ at' \in Places /\ at' = p /\ moving' \in BOOLEAN
           /\ moving' <=> p < Eot
           /\ tape_running' = TRUE
<1>1. at' = p /\ tape_running' = TRUE /\ moving' = (p < Eot)
  BY DEF logical_forward
<1>2. moving' \in BOOLEAN
  BY <1>1
<1>3. moving' <=> p < Eot
  BY <1>1, Zenon
<1> QED
  BY <1>1, <1>2, <1>3

-----------------------------------------------------------------------------
(* The call, its track, and its tries                                       *)

LEMMA CallKeepsPosition ==
    ASSUME PositionInv, Call
    PROVE  PositionInv'
<1>1. PositionTypeOK'
  <2>1. wanted' \in Segments /\ pc' \in Steps
    BY DEF Call, Steps
  <2>2. retry' \in 0 .. SoftRetries + 1
    BY LimitsAssumption DEF Call
  <2>3. short_start' \in BOOLEAN /\ tape_running' \in BOOLEAN /\ result' = "none"
    BY DEF Call
  <2> QED
    BY <2>1, <2>2, <2>3 DEF Call, PositionInv, PositionTypeOK, tuning, drive
<1>2. MotionOK'
  BY DEF Call, PositionInv, MotionOK, drive
<1>3. ViewOK'
  <2>1. pc' \in {"track", "loop"} /\ tape_running' = FALSE
    BY DEF Call
  <2> QED
    BY <2>1 DEF ViewOK
<1> QED
  BY <1>1, <1>2, <1>3 DEF PositionInv

LEMMA SeekTrackKeepsPosition ==
    ASSUME PositionInv, SeekTrack
    PROVE  PositionInv'
<1> DEFINE track == wanted \div N
           p     == IF moving THEN Eot ELSE at
<1>1. PositionTypeOK
  BY DEF PositionInv
<1>2. p \in Places /\ N - 1 - p \in Places
  BY <1>1, PositionTypes DEF Places
<1>3. track \in 0 .. Tracks - 1
  BY <1>1, PositionTypes, TrackOfSegment
<1> HIDE DEF p, track
<1>4. /\ pc = "track" /\ moving' = FALSE /\ pc' = "loop"
      /\ UNCHANGED <<wanted, short_start, retry, result, tape_running, start_offset,
                     ffw_overshoot, rew_overshoot, min_rewind, rew_eot_margin, seek, drift>>
  BY DEF SeekTrack, args, tuning
<1>5. /\ head' \in 0 .. Tracks - 1 /\ at' \in Places /\ location' \in Locations
      /\ might_be_off_track' \in BOOLEAN /\ faults' \in 0 .. MaxFaults
  <2>1. CASE /\ NoFault
             /\ head' = track
             /\ at' = IF SameWay(head, track) THEN p ELSE N - 1 - p
             /\ location' = [location EXCEPT !.known = FALSE, !.track = track]
             /\ might_be_off_track' = FALSE
    <3>1. location' \in Locations
      <4>1. track \in -1 .. Tracks - 1 /\ location \in Locations
        BY <1>1, <1>3, PositionTypes
      <4> QED
        BY <2>1, <4>1, TrackFacts
    <3> QED
      BY <1>1, <1>2, <1>3, <2>1, <3>1, FaultFacts
  <2>2. CASE /\ Fault("track")
             /\ at' = p
             /\ \E k \in {FALSE, location.known} :
                    location' = [location EXCEPT !.known = k, !.track = NoTrack]
             /\ UNCHANGED <<head, might_be_off_track>>
    <3>1. location' \in Locations
      <4>1. -1 \in -1 .. Tracks - 1 /\ location \in Locations
        BY <1>1, PositionTypes
      <4>2. PICK k \in BOOLEAN :
                location' = [location EXCEPT !.known = k, !.track = -1]
        BY <1>1, <2>2, PositionTypes
      <4> QED
        BY <4>1, <4>2, TrackFacts
    <3> QED
      BY <1>1, <1>2, <2>2, <3>1, PositionTypes, FaultFacts
  <2> QED
    BY <2>1, <2>2 DEF SeekTrack, p, track
<1>6. PositionTypeOK'
  BY <1>1, <1>4, <1>5 DEF PositionTypeOK, Steps, Locations, Places
<1>7. tape_running' = FALSE
  BY <1>1, <1>4, PositionTypes DEF PositionInv, MotionOK
<1> QED
  BY <1>4, <1>6, <1>7 DEF PositionInv, MotionOK, ViewOK

LEMMA AttemptKeepsPosition ==
    ASSUME PositionInv, Attempt
    PROVE  PositionInv'
<1>1. PositionTypeOK
  BY DEF PositionInv
<1>2. /\ pc = "loop"
      /\ UNCHANGED <<wanted, short_start, location, tape_running, might_be_off_track,
                     ffw_overshoot, rew_overshoot, min_rewind, rew_eot_margin,
                     head, at, moving, drift, faults>>
  BY DEF Attempt, args, tuning, drive
<1>3. /\ pc' \in {"idle", "where", "determine"}
      /\ retry' \in 0 .. SoftRetries + 1 /\ result' \in {"none", "ok", "err"}
      /\ start_offset' \in 1 .. MaxStartOffset /\ seek' \in Searches
  <2>1. CASE retry > SoftRetries
    <3>1. /\ pc' = "idle" /\ result' = "err" /\ retry' = 0 /\ seek' = NoSeek
          /\ UNCHANGED start_offset
      BY <2>1 DEF Attempt, Fail
    <3> QED
      BY <1>1, <3>1, NoSeekFacts, PositionTypes, LimitsAssumption
  <2>2. CASE ~(retry > SoftRetries)
    <3>1. start_offset' \in 1 .. MaxStartOffset
      BY <1>1, <2>2, PositionTypes, LimitsAssumption DEF Attempt, LongerRunUp, Least
    <3>2. retry' \in 0 .. SoftRetries + 1
      BY <1>1, <2>2, PositionTypes DEF Attempt
    <3>3. UNCHANGED <<result, seek>> /\ pc' \in {"where", "determine"}
      BY <2>2 DEF Attempt
    <3> QED
      BY <1>1, <3>1, <3>2, <3>3 DEF PositionTypeOK, Searches
  <2> QED
    BY <2>1, <2>2
<1>4. PositionTypeOK'
  BY <1>1, <1>2, <1>3 DEF PositionTypeOK, Steps, Searches
<1>5. MotionOK' /\ ViewOK'
  BY <1>2, <1>3 DEF PositionInv, MotionOK, ViewOK, FromId, Exact
<1> QED
  BY <1>4, <1>5 DEF PositionInv

LEMMA SignalKeepsPosition ==
    ASSUME PositionInv, Signal
    PROVE  PositionInv'
<1>1. PositionTypeOK
  BY DEF PositionInv
<1>2. /\ pc' = "idle" /\ result' = "err" /\ retry' = 0 /\ seek' = NoSeek
      /\ UNCHANGED <<wanted, short_start, tape_running, start_offset, might_be_off_track,
                     ffw_overshoot, rew_overshoot, min_rewind, rew_eot_margin,
                     head, at, moving, drift>>
  BY DEF Signal, Fail, args, tuning, drive
<1>3. location' \in Locations
  BY <1>1, PositionTypes, UnknownFacts DEF Signal
<1>4. faults' \in 0 .. MaxFaults
  BY <1>1, FaultFacts DEF Signal
<1>5. seek' \in Searches /\ retry' \in 0 .. SoftRetries + 1
  BY <1>2, LimitsAssumption DEF NoSeek, Searches
<1>6. PositionTypeOK'
  BY <1>1, <1>2, <1>3, <1>4, <1>5 DEF PositionTypeOK, Steps, Locations, Searches
<1>7. MotionOK' /\ ViewOK'
  BY <1>2 DEF PositionInv, MotionOK, ViewOK
<1> QED
  BY <1>6, <1>7 DEF PositionInv

-----------------------------------------------------------------------------
(* Where the tape is, and where it has to go                                *)

LEMMA DetermineKeepsPosition ==
    ASSUME PositionInv, Determine
    PROVE  PositionInv'
<1> DEFINE p   == IF moving THEN Eot ELSE at
           loc == check_bot_eot(location, p)
<1>1. PositionTypeOK /\ MotionOK
  BY DEF PositionInv
<1>2. p \in Places
  BY <1>1, PositionTypes DEF Places
<1> HIDE DEF p
<1>3. loc \in Locations /\ (loc.known => (loc.bot <=> ~loc.eot))
  BY <1>1, <1>2, PositionTypes, EndOfTrack
<1> HIDE DEF loc
<1>4. /\ UNCHANGED <<wanted, short_start, retry, result, start_offset, might_be_off_track,
                     ffw_overshoot, rew_overshoot, min_rewind, rew_eot_margin, seek, head,
                     drift>>
  BY DEF Determine, args, tuning
<1>5. /\ pc' \in {"where", "det_read"} /\ location' \in Locations
      /\ tape_running' \in BOOLEAN /\ at' \in Places /\ moving' \in BOOLEAN
      /\ moving' => at' < Eot
      /\ faults' \in 0 .. MaxFaults
      /\ pc' = "where" => ~FromId'
  <2>1. CASE /\ tape_running /\ moving
             /\ NoFault
             /\ pc' = "det_read"
             /\ UNCHANGED <<location, tape_running, at, moving>>
    BY <1>1, <2>1, FaultFacts, PositionTypes DEF MotionOK
  <2>2. CASE /\ NoFault
             /\ location' = loc
             /\ pc' = IF loc.known THEN "where" ELSE "det_read"
             /\ IF loc.known /\ loc.eot
                THEN at' = p /\ moving' = FALSE /\ UNCHANGED tape_running
                ELSE logical_forward(p)
    <3>1. /\ at' \in Places /\ moving' \in BOOLEAN /\ tape_running' \in BOOLEAN
          /\ moving' => at' < Eot
      <4>1. CASE loc.known /\ loc.eot
        BY <1>1, <1>2, <2>2, <4>1, PositionTypes
      <4>2. CASE ~(loc.known /\ loc.eot)
        BY <1>2, <2>2, <4>2, ForwardFacts
      <4> QED
        BY <4>1, <4>2
    <3> QED
      BY <1>1, <1>3, <2>2, <3>1, FaultFacts DEF FromId
  <2>3. CASE /\ Fault("drive")
             /\ location' \in Garbage
             /\ pc' = IF location'.known THEN "where" ELSE "det_read"
             /\ UNCHANGED <<tape_running, at, moving>>
    <3>1. location' \in Locations /\ ~FromId'
      BY <1>1, <2>3, PositionTypes, GarbageFacts DEF FromId
    <3> QED
      BY <1>1, <2>3, <3>1, FaultFacts, PositionTypes DEF MotionOK
  <2> QED
    BY <2>1, <2>2, <2>3 DEF Determine, p, loc
<1>6. PositionTypeOK'
  BY <1>1, <1>4, <1>5 DEF PositionTypeOK, Steps, Locations, Places
<1>7. MotionOK' /\ ViewOK'
  BY <1>5 DEF MotionOK, ViewOK
<1> QED
  BY <1>6, <1>7 DEF PositionInv

(***************************************************************************)
(* A step that reads an id and goes on with what it says.                  *)
(***************************************************************************)
LEMMA ReadIdFacts ==
    ASSUME PositionInv, NEW id \in Ids, ftape_read_id(id)
    PROVE  /\ location' = id.loc /\ location' \in Locations
           /\ tape_running' \in BOOLEAN /\ at' \in Places /\ moving' \in BOOLEAN
           /\ head' = head /\ faults' \in 0 .. MaxFaults
           /\ moving' => at' < Eot
           /\ FromId' => Exact'
<1>1. PositionTypeOK /\ MotionOK
  BY DEF PositionInv
<1>2. /\ at' = id.at /\ moving' = id.moving /\ tape_running' = id.running
      /\ location' = id.loc /\ head' = head
  BY DEF ftape_read_id
<1>3. faults' \in 0 .. MaxFaults
  <2>1. Fault("noid") \/ NoFault
    BY DEF ftape_read_id
  <2> QED
    BY <1>1, <2>1, FaultFacts
<1> QED
  BY <1>1, <1>2, <1>3, IdFacts DEF FromId, Exact

LEMMA DetermineReadKeepsPosition ==
    ASSUME PositionInv, DetermineRead
    PROVE  PositionInv'
<1>1. PositionTypeOK
  BY DEF PositionInv
<1>2. PICK id \in Ids :
          /\ ftape_read_id(id)
          /\ IF ~id.loc.known /\ id.moving /\ seek.failures + 1 < MaxReadIds
             THEN seek' = [seek EXCEPT !.failures = @ + 1] /\ UNCHANGED pc
             ELSE /\ pc' = IF id.loc.known THEN "where" ELSE "forward"
                  /\ seek' = NoSeek
  BY DEF DetermineRead
<1>3. /\ pc = "det_read"
      /\ UNCHANGED <<wanted, short_start, retry, result, start_offset, might_be_off_track,
                     ffw_overshoot, rew_overshoot, min_rewind, rew_eot_margin, drift>>
  BY DEF DetermineRead, args, tuning
<1>4. /\ location' = id.loc /\ location' \in Locations
      /\ tape_running' \in BOOLEAN /\ at' \in Places /\ moving' \in BOOLEAN
      /\ head' = head /\ faults' \in 0 .. MaxFaults
      /\ moving' => at' < Eot
      /\ FromId' => Exact'
  BY <1>2, ReadIdFacts
<1>5. seek' \in Searches /\ pc' \in {"det_read", "where", "forward"}
  <2>1. CASE ~id.loc.known /\ id.moving /\ seek.failures + 1 < MaxReadIds
    <3>1. seek.failures + 1 \in 0 .. MaxReadIds /\ seek \in Searches
      BY <1>1, <2>1, PositionTypes, LimitsAssumption
    <3>2. seek' = [seek EXCEPT !.failures = seek.failures + 1] /\ pc' = pc
      BY <1>2, <2>1
    <3> QED
      BY <1>3, <3>1, <3>2 DEF Searches
  <2>2. CASE ~(~id.loc.known /\ id.moving /\ seek.failures + 1 < MaxReadIds)
    BY <1>2, <2>2, NoSeekFacts
  <2> QED
    BY <2>1, <2>2
<1>6. PositionTypeOK'
  BY <1>1, <1>3, <1>4, <1>5 DEF PositionTypeOK, Steps, Locations, Searches, Places
<1>7. MotionOK' /\ ViewOK'
  BY <1>4, <1>5 DEF MotionOK, ViewOK
<1> QED
  BY <1>6, <1>7 DEF PositionInv

LEMMA WhereKeepsPosition ==
    ASSUME PositionInv, Where
    PROVE  PositionInv'
<1>1. PositionTypeOK
  BY DEF PositionInv
<1>2. /\ pc = "where" /\ pc' \in {"forward", "stop", "rewind", "reverse"}
      /\ pc' = "forward" => location.segment < wanted - Slack
      /\ UNCHANGED <<wanted, short_start, retry, result, location, tape_running,
                     start_offset, might_be_off_track, ffw_overshoot, rew_overshoot,
                     min_rewind, rew_eot_margin, seek, head, at, moving, drift, faults>>
  BY DEF Where, Reposition, args, tuning, drive
<1>3. PositionTypeOK'
  BY <1>1, <1>2 DEF PositionTypeOK, Steps
<1>4. MotionOK' /\ ViewOK'
  BY <1>2 DEF PositionInv, MotionOK, ViewOK, FromId, Exact, Slack
<1> QED
  BY <1>3, <1>4 DEF PositionInv

LEMMA StopKeepsPosition ==
    ASSUME PositionInv, Stop
    PROVE  PositionInv'
<1>1. PositionTypeOK /\ MotionOK
  BY DEF PositionInv
<1>2. UNCHANGED <<wanted, short_start, location, start_offset, might_be_off_track,
                  ffw_overshoot, rew_overshoot, min_rewind, rew_eot_margin, head, drift>>
  BY DEF Stop, args, tuning
<1>3. Elapsed \subseteq Places
  BY <1>1, PositionTypes DEF Elapsed, MotionOK, Places
<1>4. /\ pc' \in {"rewind", "reverse", "idle"}
      /\ retry' \in 0 .. SoftRetries + 1 /\ result' \in {"none", "ok", "err"}
      /\ seek' \in Searches
      /\ at' \in Places /\ moving' \in BOOLEAN /\ (moving' => at' < Eot)
      /\ tape_running' \in BOOLEAN /\ faults' \in 0 .. MaxFaults
  <2>1. CASE /\ NoFault
             /\ at' \in Elapsed /\ moving' = FALSE
             /\ tape_running' = FALSE
             /\ pc' = Reposition
             /\ UNCHANGED <<retry, result, seek>>
    <3>1. result' \in {"none", "ok", "err"} /\ seek' \in Searches
      BY <1>1, <2>1, PositionTypes DEF PositionTypeOK
    <3> QED
      BY <1>1, <1>3, <2>1, <3>1, PositionTypes, FaultFacts DEF Reposition
  <2>2. CASE Fault("drive") /\ Fail /\ UNCHANGED <<at, moving, tape_running>>
    BY <1>1, <2>2, PositionTypes, FaultFacts, NoSeekFacts, LimitsAssumption
       DEF Fail, MotionOK
  <2> QED
    BY <2>1, <2>2 DEF Stop
<1>5. PositionTypeOK'
  BY <1>1, <1>2, <1>4 DEF PositionTypeOK, Steps, Places, Searches
<1>6. MotionOK' /\ ViewOK'
  BY <1>4 DEF MotionOK, ViewOK
<1> QED
  BY <1>5, <1>6 DEF PositionInv

LEMMA RewindKeepsPosition ==
    ASSUME PositionInv, Rewind
    PROVE  PositionInv'
<1>1. PositionTypeOK /\ MotionOK
  BY DEF PositionInv
<1>2. /\ pc' = "forward"
      /\ UNCHANGED <<wanted, short_start, retry, result, tape_running, start_offset,
                     might_be_off_track, ffw_overshoot, rew_overshoot, min_rewind,
                     rew_eot_margin, seek, head, drift>>
  BY DEF Rewind, args, tuning
<1>3. /\ location' \in Locations /\ ~FromId'
      /\ at' \in Places /\ moving' \in BOOLEAN /\ (moving' => at' < Eot)
      /\ faults' \in 0 .. MaxFaults
  <2>1. CASE /\ NoFault
             /\ at' = IF SameWay(location.track, head) THEN Bot ELSE Eot
             /\ moving' = FALSE
             /\ location' = check_bot_eot(location, at')
    <3>1. at' \in Places
      BY <2>1, TapeAssumption DEF Places
    <3>2. /\ location' \in Locations
          /\ location'.known => (location'.bot <=> ~location'.eot)
      BY <1>1, <2>1, <3>1, PositionTypes, EndOfTrack
    <3> QED
      BY <1>1, <2>1, <3>1, <3>2, FaultFacts DEF FromId
  <2>2. CASE Fault("drive") /\ location' \in Garbage /\ UNCHANGED <<at, moving>>
    <3>1. location' \in Locations /\ ~FromId'
      BY <1>1, <2>2, PositionTypes, GarbageFacts DEF FromId
    <3> QED
      BY <1>1, <2>2, <3>1, FaultFacts, PositionTypes DEF MotionOK
  <2> QED
    BY <2>1, <2>2 DEF Rewind
<1>4. PositionTypeOK'
  BY <1>1, <1>2, <1>3 DEF PositionTypeOK, Steps, Locations, Places
<1>5. MotionOK' /\ ViewOK'
  BY <1>2, <1>3 DEF MotionOK, ViewOK
<1> QED
  BY <1>4, <1>5 DEF PositionInv

-----------------------------------------------------------------------------
(* Skipping back                                                            *)

(* A remainder is a number.                                                *)
LEMMA RemainderIsInt ==
    ASSUME NEW a \in Int, NEW b \in Nat \ {0}
    PROVE  a % b \in Int
BY Z3

(* What is sent to the drive is a number of segments.                      *)
LEMMA SentIsInt ==
    ASSUME NEW asked \in Int, NEW count \in Int
    PROVE  Sent(asked, count) \in Int
<1>1. ShortSkips \in Nat \ {0}
  BY LimitsAssumption
<1>2. count - 1 \in Int
  OBVIOUS
<1>3. (count - 1) % ShortSkips \in Int
  BY <1>1, <1>2, RemainderIsInt
<1> QED
  BY <1>3 DEF Sent

(* Wherever a skip would take it, the tape stays between its ends.         *)
LEMMA SkipsStayOnTape ==
    ASSUME NEW p \in Int
    PROVE  /\ Greatest(Bot, Least(p, Eot)) \in Places
           /\ Greatest(Bot, Least(Eot, p)) \in Places
BY TapeAssumption DEF Greatest, Least, Places

(* An overshoot is kept within its limits.                                 *)
LEMMA ClipFacts ==
    ASSUME NEW x \in Int
    PROVE  Clip(x) \in OvershootLow .. OvershootLimit
BY LimitsAssumption DEF Clip, Greatest, Least

(* The target of a skip, and the place expected after it.                  *)
LEMMA ReverseFacts ==
    ASSUME PositionTypeOK
    PROVE  /\ SkippedBack \in Places
           /\ RevExpected \in Int /\ ShortSeek \in BOOLEAN /\ FromEot \in BOOLEAN
           /\ RevTarget \in Int
<1>1. /\ location.segment \in Int /\ wanted \in Int /\ start_offset \in Int
      /\ min_rewind \in Int /\ rew_overshoot \in Int /\ rew_eot_margin \in Int
      /\ at \in Int /\ drift.back \in Int /\ drift.gaps \in Int /\ N \in Int
  BY PositionTypes
<1>2. RevTarget \in Int
  BY <1>1 DEF RevTarget
<1>3. Distance \in Int
  BY <1>1, <1>2 DEF Distance
<1>4. ShortSeek \in BOOLEAN
  BY DEF ShortSeek
<1>5. FromEot \in BOOLEAN
  BY DEF FromEot
<1>6. RevSent \in Int
  <2>1. RevCount \in Int
    BY <1>1, <1>3 DEF RevCount
  <2>2. RevCount + (IF FromEot THEN rew_eot_margin ELSE 0) \in Int
    BY <1>1, <2>1
  <2> QED
    BY <2>1, <2>2, SentIsInt DEF RevSent
<1>7. SkippedBack \in Places
  <2> DEFINE p == at - RevSent - drift.back + (IF at = Eot THEN drift.gaps ELSE 0)
  <2>1. p \in Int
    BY <1>1, <1>6
  <2>2. SkippedBack = Greatest(Bot, Least(p, Eot))
    BY DEF SkippedBack
  <2> HIDE DEF p
  <2> QED
    BY <2>1, <2>2, SkipsStayOnTape
<1>8. RevExpected \in Int
  <2>1. location.track \in Int
    BY PositionTypes DEF Locations
  <2>2. location.track * N \in Int /\ location.segment - min_rewind \in Int
        /\ RevTarget - 1 \in Int
    BY <1>1, <1>2, <2>1, Z3
  <2> QED
    BY <2>2 DEF RevExpected
<1> QED
  BY <1>2, <1>4, <1>5, <1>7, <1>8

LEMMA SkipReverseKeepsPosition ==
    ASSUME PositionInv, SkipReverse
    PROVE  PositionInv'
<1>1. PositionTypeOK
  BY DEF PositionInv
<1>2. /\ pc' = "rev_read" /\ location' = Unknown(location)
      /\ seek' = [seek EXCEPT !.expected = RevExpected, !.quick = ShortSeek,
                              !.from_eot = FromEot]
      /\ UNCHANGED <<wanted, short_start, retry, result, start_offset, might_be_off_track,
                     ffw_overshoot, rew_overshoot, min_rewind, rew_eot_margin, head, drift>>
  BY DEF SkipReverse, args, tuning
<1>3. /\ at' \in Places /\ moving' \in BOOLEAN /\ (moving' => at' < Eot)
      /\ tape_running' \in BOOLEAN /\ faults' \in 0 .. MaxFaults
  <2>1. PICK p \in {SkippedBack, at} : logical_forward(p)
    BY DEF SkipReverse
  <2>2. p \in Places
    BY <1>1, <2>1, ReverseFacts, PositionTypes
  <2>3. Fault("drive") \/ NoFault
    BY DEF SkipReverse
  <2> QED
    BY <1>1, <2>1, <2>2, <2>3, ForwardFacts, FaultFacts
<1>4. location' \in Locations
  BY <1>1, <1>2, PositionTypes, UnknownFacts
<1>5. seek' \in Searches
  <2>1. /\ RevExpected \in Int /\ ShortSeek \in BOOLEAN /\ FromEot \in BOOLEAN
        /\ seek \in Searches
    BY <1>1, ReverseFacts, PositionTypes
  <2> QED
    BY <1>2, <2>1 DEF Searches
<1>6. PositionTypeOK'
  BY <1>1, <1>2, <1>3, <1>4, <1>5 DEF PositionTypeOK, Steps, Locations, Searches, Places
<1>7. MotionOK' /\ ViewOK'
  BY <1>2, <1>3 DEF MotionOK, ViewOK
<1> QED
  BY <1>6, <1>7 DEF PositionInv

(* What is learned from a skip stays in range.                             *)
LEMMA LearnReverseFacts ==
    ASSUME PositionTypeOK, NEW loc \in Locations, LearnReverse(loc)
    PROVE  /\ rew_eot_margin' \in Nat
           /\ min_rewind' \in Int /\ min_rewind' >= OvershootLow
           /\ rew_overshoot' \in OvershootLow .. OvershootLimit
<1> DEFINE error == seek.expected - loc.segment
<1>1. /\ seek.expected \in Int /\ min_rewind \in Int /\ rew_overshoot \in Int
      /\ rew_eot_margin \in Nat /\ OvershootLow \in Int /\ N \in Nat /\ Tracks \in Nat
      /\ rew_overshoot \in OvershootLow .. OvershootLimit
      /\ min_rewind >= OvershootLow /\ MinCount \in Nat /\ MinCount >= 1
  BY PositionTypes, LimitsAssumption DEF PositionTypeOK
<1>2. N * Tracks \in Nat
  BY <1>1, Z3
<1>3. error \in Int
  <2>1. loc.segment \in Int
    BY <1>1, <1>2 DEF Locations
  <2> QED
    BY <1>1, <2>1
<1> HIDE DEF error
<1>4. /\ rew_eot_margin' = LongerMargin(loc)
      /\ min_rewind' \in {min_rewind, Greatest(OvershootLow, min_rewind + error)}
      /\ rew_overshoot' \in {rew_overshoot, Clip(rew_overshoot + error)}
  BY DEF LearnReverse, error
<1>5. rew_eot_margin' \in Nat
  BY <1>1, <1>4 DEF LongerMargin
<1>6. min_rewind' \in Int /\ min_rewind' >= OvershootLow
  BY <1>1, <1>3, <1>4 DEF Greatest
<1>7. rew_overshoot' \in OvershootLow .. OvershootLimit
  <2>1. rew_overshoot + error \in Int
    BY <1>1, <1>3
  <2> QED
    BY <1>1, <1>4, <2>1, ClipFacts
<1> QED
  BY <1>5, <1>6, <1>7

LEMMA ReverseReadKeepsPosition ==
    ASSUME PositionInv, ReverseRead
    PROVE  PositionInv'
<1>1. PositionTypeOK
  BY DEF PositionInv
<1>2. PICK id \in Ids :
          /\ ftape_read_id(id)
          /\ \/ /\ id.loc.known
                /\ LearnReverse(id.loc)
                /\ ReverseOn(id.loc.segment > RevTarget, seek.failures)
             \/ /\ ~id.loc.known
                /\ ReverseOn(/\ id.running /\ seek.failures < MaxReadIds
                             /\ location.segment > RevTarget, seek.failures + 1)
                /\ UNCHANGED <<rew_eot_margin, min_rewind, rew_overshoot>>
  BY DEF ReverseRead
<1>3. UNCHANGED <<wanted, short_start, retry, result, start_offset, might_be_off_track,
                  ffw_overshoot, drift>>
  BY DEF ReverseRead, args
<1>4. /\ location' = id.loc /\ location' \in Locations
      /\ tape_running' \in BOOLEAN /\ at' \in Places /\ moving' \in BOOLEAN
      /\ head' = head /\ faults' \in 0 .. MaxFaults
      /\ moving' => at' < Eot
      /\ FromId' => Exact'
  BY <1>2, ReadIdFacts
<1>5. /\ pc' \in {"reverse", "forward"} /\ seek' \in Searches
      /\ rew_eot_margin' \in Nat
      /\ min_rewind' \in Int /\ min_rewind' >= OvershootLow
      /\ rew_overshoot' \in OvershootLow .. OvershootLimit
  <2>1. CASE /\ LearnReverse(id.loc)
             /\ ReverseOn(id.loc.segment > RevTarget, seek.failures)
    <3>1. pc' \in {"reverse", "forward"} /\ seek' \in Searches
      BY <1>1, <2>1, PositionTypes, NoSeekFacts DEF ReverseOn
    <3>2. id.loc \in Locations
      BY <1>4
    <3> QED
      BY <1>1, <2>1, <3>1, <3>2, LearnReverseFacts
  <2>2. CASE /\ ReverseOn(/\ id.running /\ seek.failures < MaxReadIds
                          /\ location.segment > RevTarget, seek.failures + 1)
             /\ UNCHANGED <<rew_eot_margin, min_rewind, rew_overshoot>>
    <3> DEFINE on == /\ id.running /\ seek.failures < MaxReadIds
                     /\ location.segment > RevTarget
    <3>1. on => seek.failures + 1 \in 0 .. MaxReadIds
      BY <1>1, PositionTypes, LimitsAssumption
    <3>2. ReverseOn(on, seek.failures + 1)
      BY <2>2
    <3> HIDE DEF on
    <3>3. pc' \in {"reverse", "forward"} /\ seek' \in Searches
      BY <3>1, <3>2, NoSeekFacts DEF ReverseOn
    <3> QED
      BY <1>1, <2>2, <3>3 DEF PositionTypeOK
  <2> QED
    BY <1>2, <2>1, <2>2
<1>6. PositionTypeOK'
  BY <1>1, <1>3, <1>4, <1>5 DEF PositionTypeOK, Steps, Locations, Searches, Places
<1>7. MotionOK' /\ ViewOK'
  BY <1>4, <1>5 DEF MotionOK, ViewOK
<1> QED
  BY <1>6, <1>7 DEF PositionInv

-----------------------------------------------------------------------------
(* Going forward                                                            *)

(* The segment before which, or in which, the tape shall run.              *)
LEMMA ForwardTypes ==
    ASSUME PositionTypeOK
    PROVE  /\ FwdTarget \in Int /\ FwdTarget >= wanted - 1
           /\ FwdCount \in Int /\ SkippedAhead \in Places
<1>1. /\ location.segment \in Int /\ wanted \in Int /\ ffw_overshoot \in Int
      /\ at \in Int /\ drift.ahead \in Int
  BY PositionTypes
<1>2. FwdTarget \in Int /\ FwdTarget >= wanted - 1
  BY <1>1 DEF FwdTarget
<1>3. FwdCount \in Int
  BY <1>1, <1>2 DEF FwdCount
<1>4. FastSent \in Int
  <2>1. FwdCount - (IF location.bot THEN 1 ELSE 0) \in Int
    BY <1>3
  <2> QED
    BY <1>3, <2>1, SentIsInt DEF FastSent
<1>5. FastFrom \in Int
  BY <1>1 DEF FastFrom, Greatest
<1>6. SkippedAhead \in Places
  <2> DEFINE p == FastFrom + FastSent + drift.ahead
  <2>1. p \in Int
    BY <1>1, <1>4, <1>5
  <2>2. SkippedAhead = Greatest(Bot, Least(Eot, p))
    BY DEF SkippedAhead
  <2> HIDE DEF p
  <2> QED
    BY <2>1, <2>2, SkipsStayOnTape
<1> QED
  BY <1>2, <1>3, <1>6

(***************************************************************************)
(* A fast skip is only made to a target ahead: however far the drive is    *)
(* taken to fall short, min_count is more.  So ids are read after it.      *)
(***************************************************************************)
LEMMA FastSkipsReadIds ==
    ASSUME PositionTypeOK, FastSeek
    PROVE  FwdNext(location.segment) = "fwd_read"
<1>1. /\ location.segment \in Int /\ ffw_overshoot \in Int /\ FwdTarget \in Int
      /\ ffw_overshoot \in OvershootLow .. OvershootLimit
      /\ OvershootLow \in Int /\ OvershootLimit \in Int /\ MinCount \in Int
      /\ -OvershootLow <= MinCount + 1
  BY PositionTypes, ForwardTypes, LimitsAssumption
<1>2. ffw_overshoot >= OvershootLow
  BY <1>1
<1>3. FwdTarget - 1 - location.segment - ffw_overshoot > MinCount
  BY <1>1 DEF FastSeek, FwdCount
<1>4. location.segment < FwdTarget
  BY <1>1, <1>2, <1>3
<1> QED
  BY <1>4 DEF FwdNext

(* From a standing tape, or one in front of a run-up, too.                 *)
LEMMA StandingReadsIds ==
    ASSUME PositionTypeOK, ~tape_running, ~location.bot,
           location.segment < wanted - Slack
    PROVE  FwdNext(location.segment) = "fwd_read"
<1>1. /\ location.segment \in Int /\ wanted \in Int /\ start_offset \in Nat
      /\ start_offset \in 1 .. MaxStartOffset
      /\ FwdTarget \in Int /\ FwdTarget >= wanted - 1 /\ MaxStartOffset \in Nat
  BY PositionTypes, ForwardTypes, LimitsAssumption
<1>2. start_offset >= 1 /\ Slack = start_offset
  BY <1>1 DEF Slack
<1>3. location.segment < FwdTarget
  BY <1>1, <1>2
<1> QED
  BY <1>3 DEF FwdNext

(* What the end of a search leaves.                                        *)
LEMMA ArriveFacts ==
    ASSUME PositionTypeOK, NEW next \in Steps, NEW locals,
           next = "fwd_read" => locals \in Searches, Arrive(next, locals)
    PROVE  /\ pc' = next /\ seek' \in Searches
           /\ result' \in {"none", "ok", "err"} /\ retry' \in 0 .. SoftRetries + 1
<1>1. result' \in {"none", "ok", "err"} /\ retry' \in 0 .. SoftRetries + 1
  BY LimitsAssumption DEF Arrive, PositionTypeOK
<1>2. seek' \in Searches
  BY NoSeekFacts DEF Arrive
<1> QED
  BY <1>1, <1>2 DEF Arrive

LEMMA NextFacts ==
    ASSUME NEW seg \in Int, PositionTypeOK
    PROVE  /\ FwdNext(seg) \in {"fwd_read", "loop", "running"}
           /\ FwdNext(seg) = "running" => seg = FwdTarget
<1>1. FwdTarget \in Int
  BY ForwardTypes
<1> QED
  BY <1>1 DEF FwdNext

LEMMA ForwardKeepsPosition ==
    ASSUME PositionInv, Forward
    PROVE  PositionInv'
<1>1. PositionTypeOK /\ MotionOK /\ ViewOK
  BY DEF PositionInv
<1>2. /\ pc = "forward"
      /\ UNCHANGED <<wanted, short_start, start_offset, might_be_off_track,
                     ffw_overshoot, rew_overshoot, min_rewind, rew_eot_margin, head, drift>>
  BY DEF Forward, args, tuning
<1>3. FwdTarget' = FwdTarget
  BY <1>2 DEF FwdTarget
<1> DEFINE Types == /\ pc' \in Steps /\ seek' \in Searches
                    /\ result' \in {"none", "ok", "err"}
                    /\ retry' \in 0 .. SoftRetries + 1
                    /\ location' \in Locations /\ tape_running' \in BOOLEAN
                    /\ at' \in Places /\ moving' \in BOOLEAN /\ (moving' => at' < Eot)
                    /\ faults' \in 0 .. MaxFaults
           View == /\ pc' \in {"fwd_read", "loop", "running"}
                   /\ (pc' = "loop" /\ FromId' /\ tape_running') => Exact'
                   /\ (pc' = "running" /\ ~location'.bot /\ ~location'.eot) =>
                          (Exact' /\ location'.segment = FwdTarget)
<1>4. ASSUME /\ ~location.known
             /\ pc' = "loop"
             /\ NoFault
             /\ UNCHANGED <<retry, result, location, tape_running, seek, at, moving>>
      PROVE  Types /\ View
  <2>1. Types
    <3>1. result' \in {"none", "ok", "err"}
      BY <1>1, <1>4 DEF PositionTypeOK
    <3> QED
      BY <1>1, <1>4, <3>1, PositionTypes, FaultFacts DEF Steps, MotionOK
  <2>2. View
    BY <1>4 DEF FromId
  <2> QED
    BY <2>1, <2>2
<1>5. ASSUME /\ location.known /\ location.segment >= wanted - Slack
             /\ Arrive(IF location.segment = FwdTarget THEN "running" ELSE "loop", NoSeek)
             /\ NoFault
             /\ UNCHANGED <<location, tape_running, at, moving>>
      PROVE  Types /\ View
  <2> DEFINE next == IF location.segment = FwdTarget THEN "running" ELSE "loop"
  <2>1. next \in Steps
    BY DEF Steps
  <2>2. Arrive(next, NoSeek) /\ (next = "fwd_read" => NoSeek \in Searches)
    BY <1>5, NoSeekFacts
  <2>3. next \in {"loop", "running"} /\ (next = "running" => location.segment = FwdTarget)
    OBVIOUS
  <2> HIDE DEF next
  <2>4. /\ pc' = next /\ seek' \in Searches
        /\ result' \in {"none", "ok", "err"} /\ retry' \in 0 .. SoftRetries + 1
    BY <1>1, <2>1, <2>2, ArriveFacts
  <2>5. Types
    BY <1>1, <1>5, <2>1, <2>4, PositionTypes, FaultFacts DEF MotionOK
  <2>6. View
    <3>1. ASSUME FromId, tape_running PROVE Exact
      BY <1>1, <1>2, <3>1 DEF ViewOK
    <3>2. ASSUME FromId PROVE Exact
      <4>1. ~(location.segment < wanted - Slack)
        <5>1. location.segment \in Int /\ wanted - Slack \in Int
          BY <1>1, PositionTypes DEF Slack
        <5> QED
          BY <1>5, <5>1
      <4> QED
        BY <1>1, <1>2, <3>2, <4>1 DEF ViewOK
    <3>3. UNCHANGED <<location, tape_running, at, moving, head>>
      BY <1>2, <1>5
    <3> QED
      BY <1>5, <2>3, <2>4, <3>2, <3>3 DEF FromId, Exact
  <2> QED
    BY <2>5, <2>6
<1>6. ASSUME /\ location.known /\ location.segment < wanted - Slack
             /\ Arrive(FwdNext(location.segment),
                       [NoSeek EXCEPT !.quick = FastSeek, !.expected = FwdTarget - 1])
             /\ IF FastSeek
                THEN /\ \/ NoFault /\ logical_forward(SkippedAhead)
                        \/ Fault("drive") /\ logical_forward(at)
                     /\ location' = Unknown(location)
                ELSE /\ NoFault
                     /\ IF tape_running THEN UNCHANGED <<at, moving, tape_running>>
                                        ELSE logical_forward(at)
                     /\ UNCHANGED location
      PROVE  Types /\ View
  <2> DEFINE next == FwdNext(location.segment)
             locals == [NoSeek EXCEPT !.quick = FastSeek, !.expected = FwdTarget - 1]
  <2>1. next \in {"fwd_read", "loop", "running"} /\ (next = "running" => location.segment = FwdTarget)
    BY <1>1, PositionTypes, NextFacts
  <2>2. locals \in Searches
    <3>1. FwdTarget - 1 \in Int /\ FastSeek \in BOOLEAN
      BY <1>1, ForwardTypes DEF FastSeek
    <3> QED
      BY <3>1, NoSeekFacts DEF Searches
  <2>3. Arrive(next, locals)
    BY <1>6
  <2> HIDE DEF locals
  <2>4. /\ pc' = next /\ seek' \in Searches
        /\ result' \in {"none", "ok", "err"} /\ retry' \in 0 .. SoftRetries + 1
    <3>1. next \in Steps
      BY <2>1 DEF Steps
    <3> HIDE DEF next
    <3> QED
      BY <1>1, <2>2, <2>3, <3>1, ArriveFacts
  <2>5. CASE FastSeek
    <3>1. next = "fwd_read"
      BY <1>1, <2>5, FastSkipsReadIds
    <3>2. PICK p \in {SkippedAhead, at} : logical_forward(p)
      BY <1>6, <2>5
    <3>3. p \in Places
      BY <1>1, <3>2, ForwardTypes, PositionTypes
    <3>4. /\ at' \in Places /\ moving' \in BOOLEAN /\ (moving' => at' < Eot)
          /\ tape_running' \in BOOLEAN
      BY <3>2, <3>3, ForwardFacts
    <3>5. location' \in Locations
      BY <1>1, <1>6, <2>5, PositionTypes, UnknownFacts
    <3>6. faults' \in 0 .. MaxFaults
      BY <1>1, <1>6, <2>5, FaultFacts
    <3> HIDE DEF next
    <3> QED
      BY <2>1, <2>4, <3>1, <3>4, <3>5, <3>6 DEF Steps
  <2>6. CASE ~FastSeek
    <3>1. UNCHANGED location /\ faults' \in 0 .. MaxFaults
      BY <1>1, <1>6, <2>6, FaultFacts
    <3>2. location' \in Locations
      BY <1>1, <3>1, PositionTypes
    <3>3. CASE tape_running
      <4>1. UNCHANGED <<at, moving, tape_running>>
        BY <1>6, <2>6, <3>3
      <4>2. ASSUME FromId PROVE Exact
        BY <1>1, <1>2, <3>3, <4>2 DEF ViewOK
      <4>3. Types
        <5> HIDE DEF next
        <5> QED
          BY <1>1, <2>1, <2>4, <3>1, <3>2, <4>1, PositionTypes DEF Steps, MotionOK
      <4>4. View
        <5> HIDE DEF next
        <5> QED
          BY <1>2, <1>6, <2>1, <2>4, <3>1, <4>1, <4>2 DEF FromId, Exact
      <4> QED
        BY <4>3, <4>4
    <3>4. CASE ~tape_running
      <4>1. logical_forward(at)
        BY <1>6, <2>6, <3>4
      <4>2. /\ at' \in Places /\ moving' \in BOOLEAN /\ (moving' => at' < Eot)
            /\ tape_running' \in BOOLEAN
        BY <1>1, <4>1, ForwardFacts, PositionTypes
      <4>3. ~location.bot => next = "fwd_read"
        BY <1>1, <1>6, <3>4, StandingReadsIds
      <4> HIDE DEF next
      <4>4. Types
        BY <2>1, <2>4, <3>1, <3>2, <4>2 DEF Steps
      <4>5. View
        BY <2>1, <2>4, <3>1, <4>3 DEF FromId
      <4> QED
        BY <4>4, <4>5
    <3> QED
      BY <3>3, <3>4
  <2> QED
    BY <2>5, <2>6
<1>7. Types /\ View
  BY <1>4, <1>5, <1>6 DEF Forward
<1> HIDE DEF View
<1>8. PositionTypeOK'
  BY <1>1, <1>2, <1>7 DEF PositionTypeOK, Locations, Searches, Places
<1>9. MotionOK' /\ ViewOK'
  BY <1>3, <1>7 DEF MotionOK, ViewOK, View
<1> QED
  BY <1>8, <1>9 DEF PositionInv

LEMMA ForwardReadKeepsPosition ==
    ASSUME PositionInv, ForwardRead
    PROVE  PositionInv'
<1>1. PositionTypeOK
  BY DEF PositionInv
<1>2. PICK id \in Ids :
          /\ ftape_read_id(id)
          /\ \/ /\ id.loc.known
                /\ LearnForward(id.loc)
                /\ Arrive(FwdNext(id.loc.segment), [seek EXCEPT !.quick = FALSE])
             \/ /\ ~id.loc.known
                /\ Arrive(IF id.running /\ seek.failures < MaxReadIds
                          THEN "fwd_read" ELSE "loop",
                          [seek EXCEPT !.failures = @ + 1])
                /\ UNCHANGED ffw_overshoot
  BY DEF ForwardRead
<1>3. UNCHANGED <<wanted, short_start, start_offset, might_be_off_track, rew_overshoot,
                  min_rewind, rew_eot_margin, drift>>
  BY DEF ForwardRead, args
<1>4. /\ location' = id.loc /\ location' \in Locations
      /\ tape_running' \in BOOLEAN /\ at' \in Places /\ moving' \in BOOLEAN
      /\ head' = head /\ faults' \in 0 .. MaxFaults
      /\ moving' => at' < Eot
      /\ FromId' => Exact'
  BY <1>2, ReadIdFacts
<1>5. seek \in Searches /\ seek.failures \in 0 .. MaxReadIds
  BY <1>1, PositionTypes
<1>6. /\ pc' \in {"fwd_read", "loop", "running"} /\ seek' \in Searches
      /\ result' \in {"none", "ok", "err"} /\ retry' \in 0 .. SoftRetries + 1
      /\ ffw_overshoot' \in OvershootLow .. OvershootLimit
      /\ pc' = "running" => (id.loc.known /\ id.loc.segment = FwdTarget)
  <2>1. CASE /\ id.loc.known
             /\ LearnForward(id.loc)
             /\ Arrive(FwdNext(id.loc.segment), [seek EXCEPT !.quick = FALSE])
    <3> DEFINE next   == FwdNext(id.loc.segment)
               locals == [seek EXCEPT !.quick = FALSE]
    <3>1. id.loc.segment \in Int
      <4>1. id.loc \in Locations /\ N \in Nat /\ Tracks \in Nat
        BY <1>1, <1>4, PositionTypes
      <4>2. N * Tracks \in Nat
        BY <4>1, Z3
      <4> QED
        BY <4>1, <4>2 DEF Locations
    <3>2. /\ next \in {"fwd_read", "loop", "running"}
          /\ next = "running" => id.loc.segment = FwdTarget
      BY <1>1, <3>1, NextFacts
    <3>3. locals \in Searches
      BY <1>5 DEF Searches
    <3>4. Arrive(next, locals)
      BY <2>1
    <3> HIDE DEF next, locals
    <3>5. /\ pc' = next /\ seek' \in Searches
          /\ result' \in {"none", "ok", "err"} /\ retry' \in 0 .. SoftRetries + 1
      <4>1. next \in Steps
        BY <3>2 DEF Steps
      <4> QED
        BY <1>1, <3>3, <3>4, <4>1, ArriveFacts
    <3>6. ffw_overshoot' \in OvershootLow .. OvershootLimit
      <4>1. /\ ffw_overshoot \in Int /\ seek.expected \in Int
            /\ ffw_overshoot \in OvershootLow .. OvershootLimit
        BY <1>1, PositionTypes
      <4>2. ffw_overshoot + id.loc.segment - seek.expected \in Int
        BY <3>1, <4>1
      <4>3. Clip(ffw_overshoot + id.loc.segment - seek.expected)
                \in OvershootLow .. OvershootLimit
        BY <4>2, ClipFacts
      <4> QED
        BY <2>1, <4>1, <4>3 DEF LearnForward
    <3> QED
      BY <2>1, <3>2, <3>5, <3>6
  <2>2. CASE /\ ~id.loc.known
             /\ Arrive(IF id.running /\ seek.failures < MaxReadIds
                       THEN "fwd_read" ELSE "loop",
                       [seek EXCEPT !.failures = @ + 1])
             /\ UNCHANGED ffw_overshoot
    <3> DEFINE next   == IF id.running /\ seek.failures < MaxReadIds
                         THEN "fwd_read" ELSE "loop"
               locals == [seek EXCEPT !.failures = seek.failures + 1]
    <3>1. next = "fwd_read" => locals \in Searches
      <4>1. ASSUME seek.failures < MaxReadIds PROVE locals \in Searches
        <5>1. seek.failures + 1 \in 0 .. MaxReadIds
          BY <1>5, <4>1, LimitsAssumption
        <5> QED
          BY <1>5, <5>1 DEF Searches
      <4> QED
        BY <4>1
    <3>2. next \in {"fwd_read", "loop"}
      OBVIOUS
    <3>3. Arrive(next, locals)
      BY <2>2
    <3> HIDE DEF next, locals
    <3>4. /\ pc' = next /\ seek' \in Searches
          /\ result' \in {"none", "ok", "err"} /\ retry' \in 0 .. SoftRetries + 1
      <4>1. next \in Steps
        BY <3>2 DEF Steps
      <4> QED
        BY <1>1, <3>1, <3>3, <4>1, ArriveFacts
    <3> QED
      BY <1>1, <2>2, <3>2, <3>4, PositionTypes
  <2> QED
    BY <1>2, <2>1, <2>2
<1>7. PositionTypeOK'
  <2>1. pc' \in Steps
    BY <1>6 DEF Steps
  <2> QED
    BY <1>1, <1>3, <1>4, <1>6, <2>1 DEF PositionTypeOK, Locations, Searches, Places
<1>8. MotionOK' /\ ViewOK'
  <2>1. FwdTarget' = FwdTarget
    BY <1>3 DEF FwdTarget
  <2> QED
    BY <1>4, <1>6, <2>1 DEF MotionOK, ViewOK, FromId
<1> QED
  BY <1>7, <1>8 DEF PositionInv

-----------------------------------------------------------------------------
(* The tape runs, and stops                                                 *)

LEMMA RunEndKeepsPosition ==
    ASSUME PositionInv, Pause \/ DumbStop \/ LogicalEot
    PROVE  PositionInv'
<1>1. PositionTypeOK /\ MotionOK
  BY DEF PositionInv
<1>2. /\ pc' = "idle" /\ moving' = FALSE
      /\ UNCHANGED <<wanted, short_start, retry, result, start_offset, ffw_overshoot,
                     rew_overshoot, min_rewind, rew_eot_margin, seek, head, drift, faults>>
  BY DEF Pause, DumbStop, LogicalEot, RunEnds, args, tuning
<1>3. /\ at' \in Places /\ location' \in Locations /\ tape_running' \in BOOLEAN
      /\ might_be_off_track' \in BOOLEAN
  <2>1. /\ N \in Nat /\ location \in Locations /\ tape_running \in BOOLEAN
        /\ might_be_off_track \in BOOLEAN /\ at \in Places
        /\ Unknown(location) \in Locations
    BY <1>1, PositionTypes, UnknownFacts
  <2>2. CASE Pause
    <3>1. at' \in Places
      BY <2>1, <2>2 DEF Pause, Places
    <3>2. /\ location' = Unknown(location) /\ tape_running' = FALSE
          /\ might_be_off_track' \in {might_be_off_track, TRUE}
      BY <2>2 DEF Pause
    <3>3. might_be_off_track' \in BOOLEAN
      BY <2>1, <3>2
    <3> QED
      BY <2>1, <3>1, <3>2, <3>3
  <2>3. CASE DumbStop
    <3>1. Passed \subseteq Places
      BY <2>1 DEF Passed, Places
    <3> QED
      BY <2>1, <2>3, <3>1 DEF DumbStop
  <2>4. CASE LogicalEot
    BY <2>1, <2>4 DEF LogicalEot, Places
  <2> QED
    BY <2>2, <2>3, <2>4
<1>4. PositionTypeOK'
  BY <1>1, <1>2, <1>3 DEF PositionTypeOK, Steps, Locations, Places
<1>5. MotionOK' /\ ViewOK'
  BY <1>2 DEF MotionOK, ViewOK
<1> QED
  BY <1>4, <1>5 DEF PositionInv

LEMMA RunOutKeepsPosition ==
    ASSUME PositionInv, RunOut
    PROVE  PositionInv'
<1>1. PositionTypeOK
  BY DEF PositionInv
<1>2. /\ pc = "idle" /\ moving' = FALSE /\ at' = Eot
      /\ UNCHANGED <<pc, wanted, short_start, retry, result, location, tape_running,
                     start_offset, might_be_off_track, ffw_overshoot, rew_overshoot,
                     min_rewind, rew_eot_margin, seek, head, drift, faults>>
  BY DEF RunOut, args, tuning
<1>3. at' \in Places
  BY <1>2, TapeAssumption DEF Places
<1>4. PositionTypeOK'
  BY <1>1, <1>2, <1>3 DEF PositionTypeOK, Places
<1>5. MotionOK' /\ ViewOK'
  BY <1>2 DEF MotionOK, ViewOK
<1> QED
  BY <1>4, <1>5 DEF PositionInv

-----------------------------------------------------------------------------
(* Theorems                                                                 *)

LEMMA PositionInit ==
    ASSUME Init
    PROVE  PositionInv
<1>1. /\ N \in Nat /\ N >= 1 /\ Tracks \in Nat /\ Tracks >= 1
  BY TapeAssumption
<1>2. N * Tracks \in Nat /\ N * Tracks >= 1
  <2>1. 1 * N <= Tracks * N
    BY <1>1, PositionMonotone
  <2>2. Tracks * N = N * Tracks /\ N * Tracks \in Nat
    BY <1>1, Z3
  <2> QED
    BY <1>1, <2>1, <2>2
<1>3. wanted \in Segments
  BY <1>1, <1>2 DEF Init, Segments
<1>4. location \in Locations
  BY <1>1, <1>2 DEF Init, Locations
<1>5. at \in Places
  <2>1. N \div 2 \in Nat /\ N \div 2 <= N
    BY <1>1
  <2> QED
    BY <1>1, <2>1 DEF Init, Places
<1>6. /\ start_offset \in 1 .. MaxStartOffset
      /\ ffw_overshoot \in OvershootLow .. OvershootLimit
      /\ rew_overshoot \in OvershootLow .. OvershootLimit
      /\ min_rewind \in Int /\ min_rewind >= OvershootLow
      /\ rew_eot_margin \in Nat /\ retry \in 0 .. SoftRetries + 1
  BY LimitsAssumption DEF Init
<1>7. seek \in Searches
  BY NoSeekFacts DEF Init
<1>8. head \in 0 .. Tracks - 1 /\ faults \in 0 .. MaxFaults
  BY <1>1, PositionFaultsAssumption DEF Init
<1>9. PositionTypeOK
  BY <1>3, <1>4, <1>5, <1>6, <1>7, <1>8
     DEF Init, PositionTypeOK, Steps, Locations, Searches, Places
<1>10. MotionOK /\ ViewOK
  BY DEF Init, MotionOK, ViewOK
<1> QED
  BY <1>9, <1>10 DEF PositionInv

LEMMA PositionStep ==
    ASSUME PositionInv, [Next]_vars
    PROVE  PositionInv'
<1>1. CASE Call
  BY <1>1, CallKeepsPosition
<1>2. CASE SeekTrack
  BY <1>2, SeekTrackKeepsPosition
<1>3. CASE Attempt
  BY <1>3, AttemptKeepsPosition
<1>4. CASE Determine
  BY <1>4, DetermineKeepsPosition
<1>5. CASE DetermineRead
  BY <1>5, DetermineReadKeepsPosition
<1>6. CASE Where
  BY <1>6, WhereKeepsPosition
<1>7. CASE Stop
  BY <1>7, StopKeepsPosition
<1>8. CASE Rewind
  BY <1>8, RewindKeepsPosition
<1>9. CASE SkipReverse
  BY <1>9, SkipReverseKeepsPosition
<1>10. CASE ReverseRead
  BY <1>10, ReverseReadKeepsPosition
<1>11. CASE Forward
  BY <1>11, ForwardKeepsPosition
<1>12. CASE ForwardRead
  BY <1>12, ForwardReadKeepsPosition
<1>13. CASE Signal
  BY <1>13, SignalKeepsPosition
<1>14. CASE Pause \/ DumbStop \/ LogicalEot
  BY <1>14, RunEndKeepsPosition
<1>15. CASE RunOut
  BY <1>15, RunOutKeepsPosition
<1>16. CASE UNCHANGED vars
  BY <1>16 DEF vars, args, tuning, drive, PositionInv, PositionTypeOK, MotionOK,
               ViewOK, FromId, Exact, FwdTarget, Slack
<1> QED
  BY <1>1, <1>2, <1>3, <1>4, <1>5, <1>6, <1>7, <1>8, <1>9, <1>10, <1>11, <1>12,
     <1>13, <1>14, <1>15, <1>16 DEF Next, Process

(***************************************************************************)
(* Whatever ids, commands and head movements fail, the search keeps its    *)
(* invariant.                                                              *)
(***************************************************************************)
THEOREM PositionInvariant == Spec => []PositionInv
<1>1. Init => PositionInv
  BY PositionInit
<1>2. PositionInv /\ [Next]_vars => PositionInv'
  BY PositionStep
<1> QED
  BY <1>1, <1>2, PTL DEF Spec

(***************************************************************************)
(* The location, also that computed from an end of the track by a driver   *)
(* that does not know its track, the learned overshoots and the counters   *)
(* of the search stay in their ranges.                                     *)
(***************************************************************************)
THEOREM PositionTypeCorrect == Spec => []PositionTypeOK
<1>1. PositionInv => PositionTypeOK
  BY DEF PositionInv
<1> QED
  BY <1>1, PositionInvariant, PTL

(***************************************************************************)
(* When ftape_start_tape() returns success and the place of the tape was   *)
(* taken from an id, the tape runs just before the segment asked for.      *)
(***************************************************************************)
THEOREM StartsInPlace == Spec => []StartsWhereIdsSay
<1>1. PositionInv => StartsWhereIdsSay
  <2>1. SUFFICES ASSUME PositionInv, pc = "running", ~location.bot, ~location.eot
                 PROVE  InPlace
    BY DEF StartsWhereIdsSay
  <2>2. Exact /\ location.segment = FwdTarget
    BY <2>1 DEF PositionInv, ViewOK
  <2> QED
    BY <2>2 DEF Exact, InPlace
<1> QED
  BY <1>1, PositionInvariant, PTL

=============================================================================
