------------------------- MODULE FtapeFormatProofs -------------------------
(***************************************************************************)
(* Proofs about FtapeFormat, for every length of the ring and of the       *)
(* track, every number of segments in a buffer and every fault but one: a  *)
(* setup_format_buffer() that fails, which only the controllers of the     *)
(* parallel port can do and whose result both callers drop.                *)
(*                                                                         *)
(* The argument.  The handler never looks at an id before it uses it: that *)
(* the ids are right rests on what the process has left in the ring.  A    *)
(* buffer of this track whose status is "waiting" is Fresh: its ids are    *)
(* those of the segments it announces.  The process writes to TAIL without *)
(* a lock; it may, because the buffers from TAIL up to HEAD are "done"     *)
(* (Behind), which the handler refuses.  Buffers of the ring that this     *)
(* track has no need of are left from an earlier track with any content:   *)
(* the invariant quantifies over the set U of those in use, which the      *)
(* handler never leaves.                                                   *)
(***************************************************************************)
EXTENDS FtapeFormat, TLAPS

(* The values a buffer may have, for a track of n segments.                *)
Buffer(n) ==
    [ status : {"waiting", "formatting", "done", "error"},
      segment_id : 0 .. n, next_segment : 0 .. (n - 1),
      remaining : 0 .. (Wrap - 1), ptr : 0 .. SegsPerBuf, ids : Seq(Int) ]

Live == fdc_mode = "formatting"

(* ftape_format_track() before the tape is started.                        *)
Starting == caller = "track" /\ pc \in {"fill", "fields", "ready", "switch", "go"}

(* A buffer for track t of n segments.  The ids from ptr on are those of   *)
(* the segments from segment_id on, up to where next_segment says that the *)
(* following buffer takes over.                                            *)
Good(b, t, n) ==
    /\ b.ptr + b.remaining = Len(b.ids)
    /\ Len(b.ids) <= SegsPerBuf
    /\ \A i \in (b.ptr + 1) .. Len(b.ids) :
          b.ids[i] = t * n + (b.segment_id + i - b.ptr - 1)
    /\ b.segment_id + b.remaining <= n
    /\ b.next_segment = IF b.segment_id + b.remaining < n
                        THEN b.segment_id + b.remaining ELSE 0

Fresh(b, t, n) == Good(b, t, n) /\ b.remaining > 0

(* The buffers from a up to, but not including, h.                         *)
Between(a, i, h) ==
    \/ a <= i /\ i < h
    \/ h < a /\ (a <= i \/ i < h)

(* The first buffer behind HEAD that has not been filled again.            *)
First == IF pc = "switch" /\ caller = "status" THEN next(tail) ELSE tail

PlacesOK ==
    /\ caller = "track" => Starting \/ pc = "user"
    /\ pc = "go" => caller = "track"
    /\ Starting => /\ ~Live /\ runner_status = "idle"
                   /\ laid = <<>> /\ head = 0 /\ out.segment = 0
    /\ ~Starting => location \in {track, Unknown}
    /\ runner_status # "idle" => ~Live
    /\ runner_status = "logical_eot" => Len(laid) = spt

(* TAIL while it is being filled.                                          *)
TailOK ==
    Starting \/ Live =>
      /\ pc = "fields" =>
            /\ Len(buffers[tail].ids) = ToDo
            /\ \A i \in 1 .. ToDo :
                  buffers[tail].ids[i] = track * spt + (switch_segment + i - 1)
      /\ pc = "ready" => Fresh(buffers[tail], track, spt)
      /\ pc = "switch" /\ Starting =>
            Fresh(buffers[tail], track, spt) /\ buffers[tail].status = "waiting"

StartingOK ==
    Starting /\ pc # "go" =>
      /\ \A i \in Ring : i < tail =>
            Fresh(buffers[i], track, spt) /\ buffers[i].status = "waiting"
      /\ tail = 0 /\ pc # "switch" => switch_segment = 0
      /\ tail > 0 \/ pc \in {"ready", "switch"} => buffers[0].segment_id = 0

HeadOK ==
    Live =>
      /\ Fresh(buffers[head], track, spt)
      /\ buffers[head].status = "formatting"
      /\ buffers[head].segment_id = Len(laid)
      /\ location = track

(* While a refill is under way.                                            *)
RefillOK ==
    Live /\ caller = "status" =>
      /\ pc \in {"wait", "fill", "fields", "ready"} => switch_segment # 0 /\ head # tail
      /\ pc = "switch" => switch_segment # 0

Behind ==
    Live /\ switch_segment # 0 =>
      \A i \in Ring : Between(First, i, head) => buffers[i].status = "done"

OutcomeOK ==
    out.res \in {"ok", "end"} /\ out.segment = (track + 1) * spt => Len(laid) = spt

(* U: the buffers this track uses.                                         *)
UsedOK(U) ==
    /\ 0 \in U /\ head \in U
    /\ \A i \in U : buffers[i].segment_id = spt => Len(laid) = spt
    /\ Live \/ pc = "go" =>
         /\ \A i \in U : buffers[i].next_segment # 0 => next(i) \in U
         /\ \A i \in U : buffers[i].status = "waiting" => Fresh(buffers[i], track, spt)
         /\ switch_segment # 0 => U = Ring
    /\ pc = "go" => /\ Fresh(buffers[0], track, spt) /\ buffers[0].segment_id = 0
                    /\ switch_segment # 0 => tail = 0

FormatInv ==
    /\ FormatTypeOK
    /\ IdsAreInOrder
    /\ PlacesOK
    /\ TailOK
    /\ StartingOK
    /\ HeadOK
    /\ RefillOK
    /\ Behind
    /\ OutcomeOK
    /\ ~Starting \/ pc = "go" => \E U \in SUBSET Ring : UsedOK(U)

-----------------------------------------------------------------------------
(* The ring and the set up of a buffer                                      *)

(* next() without the remainder.                                           *)
LEMMA NextFact ==
    ASSUME NEW i \in Ring
    PROVE  /\ next(i) \in Ring
           /\ next(i) = IF i = NrBuffers - 1 THEN 0 ELSE i + 1
  BY FormatAssumption DEF Ring, next

(* What a set up lays down is a number of segments of the track.           *)
LEMMA ToDoFact ==
    ASSUME FormatTypeOK
    PROVE  /\ ToDo \in Nat /\ ToDo >= 1 /\ ToDo <= SegsPerBuf
           /\ switch_segment \in Nat
           /\ switch_segment + ToDo <= spt
           /\ NextSegment \in 0 .. (spt - 1)
<1>1. /\ spt \in Nat \ {0} /\ SegsPerBuf \in Nat \ {0}
      /\ switch_segment \in 0 .. (spt - 1)
  BY FormatAssumption DEF FormatTypeOK
<1>2. QED
  BY <1>1 DEF ToDo, MinOf, NextSegment

(* The number of a track's segment is an integer.                          *)
LEMMA ProductType ==
    ASSUME FormatTypeOK
    PROVE  /\ spt \in Nat \ {0}
           /\ track \in Nat
           /\ track * spt \in Nat
           /\ FormattedTrack * spt \in Int
           /\ location * spt \in Int
           /\ (track + 1) * spt = track * spt + spt
<1>1. spt \in Nat \ {0} /\ track \in Nat /\ location \in Int
  BY FormatAssumption DEF FormatTypeOK, Unknown
<1>2. FormattedTrack \in Int
  BY <1>1 DEF FormattedTrack
<1>3. \A a \in Int, b \in Nat : a * b \in Int /\ (a \in Nat => a * b \in Nat)
  OBVIOUS
<1>5. \A a, b \in Nat : (a + 1) * b = a * b + b
  OBVIOUS
<1>4. QED
  BY <1>1, <1>2, <1>3, <1>5

(* When HEAD goes on, the buffers behind it are those that were and the    *)
(* one it leaves; when TAIL does, the one it leaves is no longer among     *)
(* them.                                                                   *)
LEMMA BetweenFact ==
    ASSUME NEW a \in Ring, NEW h \in Ring, NEW i \in Ring
    PROVE  /\ Between(a, i, next(h)) => i = h \/ Between(a, i, h)
           /\ a # h => Between(a, a, h)
           /\ a # h /\ Between(next(a), i, h) => Between(a, i, h) /\ i # a
           /\ ~ Between(a, i, a)
  BY NextFact, FormatAssumption DEF Between, Ring

(* The count of faults stays within its bound.                             *)
LEMMA OccursFact ==
    ASSUME FormatTypeOK, NEW kind, Occurs(kind)
    PROVE  faults' \in 0 .. MaxFaults
<1>1. faults \in Nat /\ MaxFaults \in Nat
  BY FormatAssumption DEF FormatTypeOK
<1>2. QED
  BY <1>1 DEF Occurs

(* A buffer the process writes to while the handler is live is one the     *)
(* handler refuses to take.                                                *)
LEMMA TailIsDone ==
    ASSUME FormatInv, Live, pc \in {"wait", "fill", "fields", "ready"}
    PROVE  /\ caller = "status" /\ ~ Starting
           /\ head # tail /\ switch_segment # 0
           /\ buffers[tail].status = "done"
           /\ location = track
<1>1. caller = "status" /\ ~ Starting
  BY DEF FormatInv, FormatTypeOK, PlacesOK, Starting
<1>2. head # tail /\ switch_segment # 0
  BY <1>1 DEF FormatInv, RefillOK
<1>3. First = tail /\ head \in Ring /\ tail \in Ring
  BY DEF First, FormatInv, FormatTypeOK
<1>4. Between(First, tail, head)
  BY <1>2, <1>3, BetweenFact
<1>5. QED
  BY <1>1, <1>2, <1>3, <1>4 DEF FormatInv, Behind, HeadOK

-----------------------------------------------------------------------------
(* The set up of TAIL                                                       *)

(* The ids are written.                                                    *)
LEMMA FillStep ==
    ASSUME FormatInv, "fill" \notin Faults, fill_format_buffer
    PROVE  FormatInv'
<1> DEFINE new == [i \in 1 .. ToDo |-> FormattedTrack * spt + switch_segment + i - 1]
<1>1. /\ pc = "fill" /\ pc' = "fields"
      /\ buffers' = [buffers EXCEPT ![tail].ids = new]
      /\ UNCHANGED <<head, tail, switch_segment, runner_status, fdc_mode,
                     interrupt_seen, spt, track, location, caller, out, starts,
                     faults, moving, laid>>
  BY DEF fill_format_buffer, Occurs, controller
<1>2. /\ new \in Seq(Int) /\ Len(new) = ToDo
      /\ \A i \in 1 .. ToDo : new[i] = FormattedTrack * spt + (switch_segment + i - 1)
  <2>1. ToDo \in Nat /\ switch_segment \in Nat /\ FormattedTrack * spt \in Int
    BY ToDoFact, ProductType DEF FormatInv
  <2>2. QED
    BY <2>1
<1> HIDE DEF new
<1>3. tail \in Ring /\ head \in Ring /\ buffers \in [Ring -> Buffer(spt)]
  BY DEF FormatInv, FormatTypeOK, Buffer
<1>4. /\ buffers'[tail] = [buffers[tail] EXCEPT !.ids = new]
      /\ \A i \in Ring : i # tail => buffers'[i] = buffers[i]
      /\ \A i \in Ring : /\ buffers'[i].status = buffers[i].status
                         /\ buffers'[i].segment_id = buffers[i].segment_id
                         /\ buffers'[i].next_segment = buffers[i].next_segment
      /\ buffers' \in [Ring -> Buffer(spt)]
  BY <1>1, <1>2, <1>3 DEF Buffer
<1>5. FormatTypeOK'
  BY <1>1, <1>4 DEF FormatInv, FormatTypeOK, Buffer
<1>6. IdsAreInOrder' /\ PlacesOK' /\ OutcomeOK' /\ RefillOK'
  BY <1>1 DEF FormatInv, IdsAreInOrder, PlacesOK, OutcomeOK, RefillOK, Starting, Live
<1>7. TailOK'
  <2>1. buffers'[tail].ids = new /\ ToDo' = ToDo
    BY <1>1, <1>3, <1>4 DEF Buffer, ToDo
  <2>2. Starting' \/ Live' => FormattedTrack = track
    BY <1>1, TailIsDone DEF FormattedTrack, Starting, Live
  <2>3. QED
    BY <1>1, <1>2, <2>1, <2>2 DEF TailOK
<1>8. StartingOK'
  BY <1>1, <1>3, <1>4, FormatAssumption DEF FormatInv, StartingOK, Starting, Ring
<1>9. HeadOK'
  BY <1>1, <1>3, <1>4, TailIsDone DEF FormatInv, HeadOK, Live
<1>10. Behind'
  BY <1>1, <1>3, <1>4 DEF FormatInv, Behind, Live, First
<1>11. ~ Starting' => \E U \in SUBSET Ring : UsedOK(U)'
  <2> SUFFICES ASSUME ~ Starting'
               PROVE  \E U \in SUBSET Ring : UsedOK(U)'
    OBVIOUS
  <2>1. PICK U \in SUBSET Ring : UsedOK(U)
    BY <1>1 DEF FormatInv, Starting
  <2>2. Live => buffers[tail].status # "waiting"
    BY <1>1, TailIsDone
  <2>3. UsedOK(U)'
    BY <1>1, <1>3, <1>4, <2>1, <2>2 DEF UsedOK, Live
  <2>4. QED
    BY <2>3
<1>12. QED
  BY <1>1, <1>5, <1>6, <1>7, <1>8, <1>9, <1>10, <1>11 DEF FormatInv

(* The fields are set, while the handler still refuses the buffer.         *)
LEMMA FieldsStep ==
    ASSUME FormatInv, setup_format_buffer
    PROVE  FormatInv'
<1> DEFINE b == [buffers[tail] EXCEPT !.ptr = 0, !.remaining = ToDo,
                    !.segment_id = switch_segment, !.next_segment = NextSegment]
<1>1. /\ pc = "fields" /\ pc' = "ready"
      /\ buffers' = [buffers EXCEPT ![tail].ptr = 0, ![tail].remaining = ToDo,
            ![tail].segment_id = switch_segment, ![tail].next_segment = NextSegment]
      /\ UNCHANGED <<head, tail, switch_segment, runner_status, fdc_mode,
                     interrupt_seen, spt, track, location, caller, out, starts,
                     faults, moving, laid>>
  BY DEF setup_format_buffer, controller, world
<1>2. tail \in Ring /\ head \in Ring /\ buffers \in [Ring -> Buffer(spt)]
  BY DEF FormatInv, FormatTypeOK, Buffer
<1>3. /\ ToDo \in Nat /\ ToDo >= 1 /\ ToDo <= SegsPerBuf
      /\ switch_segment \in Nat /\ switch_segment + ToDo <= spt
      /\ NextSegment \in 0 .. (spt - 1)
      /\ spt \in Nat /\ SegsPerBuf \in Nat /\ Wrap \in Nat /\ SegsPerBuf < Wrap
  BY ToDoFact, ProductType, FormatAssumption DEF FormatInv
<1>4. /\ buffers'[tail] = b
      /\ \A i \in Ring : i # tail => buffers'[i] = buffers[i]
  BY <1>1, <1>2 DEF Buffer
<1>5. /\ b \in Buffer(spt)
      /\ b.status = buffers[tail].status /\ b.ids = buffers[tail].ids
      /\ b.ptr = 0 /\ b.remaining = ToDo
      /\ b.segment_id = switch_segment /\ b.next_segment = NextSegment
  <2>1. /\ buffers[tail] \in Buffer(spt)
        /\ switch_segment \in 0 .. spt /\ ToDo \in 0 .. (Wrap - 1)
        /\ 0 \in 0 .. SegsPerBuf
    BY <1>2, <1>3
  <2>2. QED
    BY <1>3, <2>1 DEF Buffer
<1> HIDE DEF b
<1>6. FormatTypeOK'
  <2>1. buffers' \in [Ring -> Buffer(spt)]
    BY <1>1, <1>2, <1>4, <1>5
  <2>2. QED
    BY <1>1, <2>1 DEF FormatInv, FormatTypeOK, Buffer
<1>7. IdsAreInOrder' /\ PlacesOK' /\ OutcomeOK' /\ RefillOK'
  BY <1>1 DEF FormatInv, IdsAreInOrder, PlacesOK, OutcomeOK, RefillOK, Starting, Live
<1>8. TailOK'
  <2>1. ASSUME Starting \/ Live PROVE Fresh(b, track, spt)
    <3>1. /\ Len(b.ids) = ToDo
          /\ \A i \in 1 .. ToDo : b.ids[i] = track * spt + (switch_segment + i - 1)
      BY <1>1, <1>5, <2>1 DEF FormatInv, TailOK
    <3>2. \A i \in 1 .. ToDo : switch_segment + i - 1 = switch_segment + i - 0 - 1
      BY <1>3
    <3>3. QED
      BY <1>3, <1>5, <3>1, <3>2 DEF Fresh, Good, NextSegment
  <2>2. QED
    BY <1>1, <1>4, <2>1 DEF TailOK, Starting, Live
<1>9. StartingOK'
  <2>1. ASSUME Starting, tail = 0 PROVE switch_segment = 0
    BY <1>1, <2>1 DEF FormatInv, StartingOK
  <2>2. QED
    BY <1>1, <1>2, <1>4, <1>5, <2>1, FormatAssumption
       DEF FormatInv, StartingOK, Starting, Ring
<1>10. HeadOK'
  BY <1>1, <1>2, <1>4, TailIsDone DEF FormatInv, HeadOK, Live
<1>11. Behind'
  BY <1>1, <1>2, <1>4, <1>5 DEF FormatInv, Behind, Live, First
<1>12. ~ Starting' => \E U \in SUBSET Ring : UsedOK(U)'
  <2> SUFFICES ASSUME ~ Starting'
               PROVE  \E U \in SUBSET Ring : UsedOK(U)'
    OBVIOUS
  <2>1. PICK U \in SUBSET Ring : UsedOK(U)
    BY <1>1 DEF FormatInv, Starting
  <2>2. Live => buffers[tail].status # "waiting" /\ switch_segment # 0
    BY <1>1, TailIsDone
  <2>3. Live => U = Ring
    BY <2>1, <2>2 DEF UsedOK
  <2>4. UsedOK(U)'
    BY <1>1, <1>2, <1>3, <1>4, <1>5, <2>1, <2>2, <2>3, NextFact DEF UsedOK, Live
  <2>5. QED
    BY <2>4
<1>13. QED
  BY <1>1, <1>6, <1>7, <1>8, <1>9, <1>10, <1>11, <1>12 DEF FormatInv

(* The buffer is handed to the handler.                                    *)
LEMMA ReadyStep ==
    ASSUME FormatInv, setup_format_buffer_ready
    PROVE  FormatInv'
<1>1. /\ pc = "ready" /\ pc' = "switch"
      /\ buffers' = [buffers EXCEPT ![tail].status = "waiting"]
      /\ UNCHANGED <<head, tail, switch_segment, runner_status, fdc_mode,
                     interrupt_seen, spt, track, location, caller, out, starts,
                     faults, moving, laid>>
  BY DEF setup_format_buffer_ready, controller, world
<1>2. tail \in Ring /\ head \in Ring /\ buffers \in [Ring -> Buffer(spt)]
  BY DEF FormatInv, FormatTypeOK, Buffer
<1>3. /\ buffers'[tail] = [buffers[tail] EXCEPT !.status = "waiting"]
      /\ \A i \in Ring : i # tail => buffers'[i] = buffers[i]
      /\ \A i \in Ring : /\ buffers'[i].segment_id = buffers[i].segment_id
                         /\ buffers'[i].next_segment = buffers[i].next_segment
                         /\ buffers'[i].remaining = buffers[i].remaining
                         /\ buffers'[i].ptr = buffers[i].ptr
                         /\ buffers'[i].ids = buffers[i].ids
      /\ buffers'[tail].status = "waiting"
      /\ buffers' \in [Ring -> Buffer(spt)]
  BY <1>1, <1>2 DEF Buffer
<1>4. FormatTypeOK'
  BY <1>1, <1>3 DEF FormatInv, FormatTypeOK, Buffer
<1>5. IdsAreInOrder' /\ PlacesOK' /\ OutcomeOK'
  BY <1>1 DEF FormatInv, IdsAreInOrder, PlacesOK, OutcomeOK, Starting, Live
<1>6. RefillOK'
  BY <1>1, TailIsDone DEF RefillOK, Live
<1>7. Starting \/ Live => Fresh(buffers'[tail], track, spt)
  BY <1>1, <1>2, <1>3 DEF FormatInv, TailOK, Fresh, Good
<1>8. TailOK'
  BY <1>1, <1>3, <1>7 DEF TailOK, Starting, Live
<1>9. StartingOK'
  BY <1>1, <1>2, <1>3, FormatAssumption DEF FormatInv, StartingOK, Starting, Ring
<1>10. HeadOK'
  BY <1>1, <1>2, <1>3, TailIsDone DEF FormatInv, HeadOK, Live
<1>11. Behind'
  <2> SUFFICES ASSUME Live, NEW i \in Ring, Between(next(tail), i, head)
               PROVE  buffers'[i].status = "done"
    BY <1>1, TailIsDone DEF Behind, First, Live
  <2>1. head # tail /\ switch_segment # 0
    BY <1>1, TailIsDone
  <2>2. Between(tail, i, head) /\ i # tail
    BY <1>2, <2>1, BetweenFact
  <2>3. QED
    BY <1>1, <1>3, <2>1, <2>2 DEF FormatInv, Behind, First
<1>12. ~ Starting' => \E U \in SUBSET Ring : UsedOK(U)'
  <2> SUFFICES ASSUME ~ Starting'
               PROVE  \E U \in SUBSET Ring : UsedOK(U)'
    OBVIOUS
  <2>1. PICK U \in SUBSET Ring : UsedOK(U)
    BY <1>1 DEF FormatInv, Starting
  <2>2. UsedOK(U)'
    BY <1>1, <1>2, <1>3, <1>7, <2>1 DEF UsedOK, Live
  <2>3. QED
    BY <2>2
<1>13. QED
  BY <1>1, <1>4, <1>5, <1>6, <1>8, <1>9, <1>10, <1>11, <1>12 DEF FormatInv

-----------------------------------------------------------------------------
(* FTFMT_FORMAT_TRACK                                                       *)

(* The count of calls stays within its bound.                              *)
LEMMA StartsFact ==
    ASSUME FormatTypeOK, NEW t \in Tracks, ftape_format_track(t)
    PROVE  starts' \in 0 .. MaxStarts
<1>1. starts \in Nat /\ MaxStarts \in Nat
  BY FormatAssumption DEF FormatTypeOK
<1>2. starts < MaxStarts /\ starts' = starts + 1
  BY DEF ftape_format_track
<1>3. QED
  BY <1>1, <1>2

(* The call gives up before it touches anything, or it starts with an      *)
(* empty ring, a controller and a tape at rest.                            *)
LEMMA TrackStep ==
    ASSUME FormatInv, NEW t \in Tracks, ftape_format_track(t)
    PROVE  FormatInv'
<1>1. CASE pc' = "user"
  <2>1. /\ pc = "user" /\ out'.res \in {"ETIME", "EIO"} /\ out'.segment = out.segment
        /\ starts' \in 0 .. MaxStarts /\ faults' \in 0 .. MaxFaults
        /\ UNCHANGED <<buffers, head, tail, switch_segment, runner_status, fdc_mode,
                       interrupt_seen, spt, track, location, caller, moving, laid>>
    <3>1. FormatTypeOK /\ starts' \in 0 .. MaxStarts /\ faults \in 0 .. MaxFaults
      BY StartsFact DEF FormatInv, FormatTypeOK
    <3>2. Occurs("seek") => faults' \in 0 .. MaxFaults
      BY <3>1, OccursFact
    <3>3. QED
      BY <1>1, <3>1, <3>2 DEF ftape_format_track, Return, ring, controller, world
  <2>2. FormatTypeOK'
    BY <2>1, <1>1 DEF FormatInv, FormatTypeOK
  <2>3. /\ IdsAreInOrder' /\ PlacesOK' /\ TailOK' /\ StartingOK' /\ HeadOK'
        /\ RefillOK' /\ OutcomeOK'
    BY <1>1, <2>1
       DEF FormatInv, IdsAreInOrder, PlacesOK, TailOK, StartingOK, HeadOK, RefillOK,
           OutcomeOK, Starting, Live
  <2>4. Behind'
    BY <1>1, <2>1 DEF FormatInv, Behind, First, Live
  <2>5. PICK U \in SUBSET Ring : UsedOK(U)
    BY <2>1 DEF FormatInv, Starting
  <2>6. UsedOK(U)'
    BY <1>1, <2>1, <2>5 DEF UsedOK, Live
  <2>7. QED
    BY <2>2, <2>3, <2>4, <2>6 DEF FormatInv
<1>2. CASE pc' # "user"
  <2>1. /\ buffers' = [i \in Ring |-> [buffers[i] EXCEPT !.status = "waiting"]]
        /\ head' = 0 /\ tail' = 0 /\ switch_segment' = 0
        /\ runner_status' = "idle" /\ fdc_mode' = "idle" /\ interrupt_seen' = FALSE
        /\ moving' = FALSE /\ track' = t /\ laid' = <<>>
        /\ pc' = "fill" /\ caller' = "track"
        /\ out' = [res |-> "none", segment |-> 0]
        /\ starts' \in 0 .. MaxStarts
        /\ UNCHANGED <<faults, spt, location>>
    <3>1. starts' \in 0 .. MaxStarts
      BY StartsFact DEF FormatInv
    <3>2. QED
      BY <1>2, <3>1 DEF ftape_format_track, Return, ftape_abort_operation
  <2>2. buffers' \in [Ring -> Buffer(spt)]
    BY <2>1 DEF FormatInv, FormatTypeOK, Buffer
  <2>3. 0 \in Ring /\ 0 \in 0 .. (spt - 1)
    BY ProductType, FormatAssumption DEF Ring, FormatInv
  <2>4. FormatTypeOK'
    <3>1. {interrupt_seen', moving'} \subseteq BOOLEAN
      BY <2>1, Zenon
    <3>2. laid' \in Seq(Int) /\ out'.res = "none" /\ out'.segment = 0
      BY <2>1
    <3>3. /\ head' \in Ring /\ tail' \in Ring /\ switch_segment' \in 0 .. (spt' - 1)
          /\ spt' \in Lengths /\ track' \in Tracks /\ location' \in Tracks \cup {Unknown}
          /\ faults' \in 0 .. MaxFaults /\ buffers' \in [Ring -> Buffer(spt')]
      BY <2>1, <2>2, <2>3 DEF FormatInv, FormatTypeOK
    <3>4. /\ runner_status' \in {"idle", "aborting", "logical_eot"}
          /\ fdc_mode' \in {"idle", "formatting"}
          /\ pc' \in {"user", "fill", "fields", "ready", "switch", "go", "check",
                     "wait", "stop", "sleep", "report", "report_end"}
          /\ caller' \in {"track", "status"}
      BY <2>1
    <3>5. QED
      BY <2>1, <3>1, <3>2, <3>3, <3>4 DEF FormatTypeOK, Buffer
  <2>5. /\ IdsAreInOrder' /\ PlacesOK' /\ TailOK' /\ HeadOK'
        /\ RefillOK' /\ OutcomeOK' /\ Behind'
    BY <2>1
       DEF IdsAreInOrder, PlacesOK, TailOK, HeadOK, RefillOK, OutcomeOK, Behind,
           Starting, Live
  <2>6. StartingOK'
    BY <2>1, FormatAssumption DEF StartingOK, Ring
  <2>7. Starting' /\ pc' # "go"
    BY <2>1 DEF Starting
  <2>8. QED
    BY <2>4, <2>5, <2>6, <2>7 DEF FormatInv
<1>3. QED
  BY <1>1, <1>2

(* The ring fills up from buffer 0, and the last buffer of the track, or   *)
(* of the ring, closes the set of those in use.                            *)
LEMMA InitialStep ==
    ASSUME FormatInv, NextInitial
    PROVE  FormatInv'
<1> DEFINE following == buffers[tail].next_segment
<1>1. /\ pc = "switch" /\ caller = "track" /\ Starting /\ head = 0
      /\ switch_segment' = following
      /\ tail' = IF following # 0 THEN next(tail) ELSE tail
      /\ pc' = IF following # 0 /\ next(tail) # head THEN "fill" ELSE "go"
      /\ UNCHANGED <<buffers, head, runner_status, fdc_mode,
                     interrupt_seen, spt, track, location, caller, out, starts,
                     faults, moving, laid>>
  BY DEF NextInitial, controller, world, Starting, FormatInv, PlacesOK
<1>2. /\ tail \in Ring /\ next(tail) \in Ring /\ 0 \in Ring
      /\ buffers \in [Ring -> Buffer(spt)]
      /\ following \in 0 .. (spt - 1)
  <2>1. tail \in Ring /\ buffers \in [Ring -> Buffer(spt)]
    BY DEF FormatInv, FormatTypeOK, Buffer
  <2>2. 0 \in Ring
    BY FormatAssumption DEF Ring
  <2>3. QED
    BY <2>1, <2>2, NextFact DEF Buffer
<1>3. /\ Fresh(buffers[tail], track, spt) /\ buffers[tail].status = "waiting"
      /\ \A i \in Ring : i < tail =>
             Fresh(buffers[i], track, spt) /\ buffers[i].status = "waiting"
      /\ buffers[0].segment_id = 0
      /\ ~ Live
  BY <1>1 DEF FormatInv, TailOK, StartingOK, PlacesOK
<1> HIDE DEF following
<1>4. FormatTypeOK'
  BY <1>1, <1>2 DEF FormatInv, FormatTypeOK
<1>5. /\ IdsAreInOrder' /\ PlacesOK' /\ TailOK' /\ HeadOK'
      /\ RefillOK' /\ OutcomeOK' /\ Behind'
  BY <1>1, <1>3
     DEF FormatInv, IdsAreInOrder, PlacesOK, TailOK, HeadOK, RefillOK, OutcomeOK,
         Behind, Starting, Live
<1>6. \A i \in Ring : i <= tail =>
         Fresh(buffers[i], track, spt) /\ buffers[i].status = "waiting"
  BY <1>2, <1>3, FormatAssumption DEF Ring
<1>7. StartingOK'
  <2> SUFFICES ASSUME pc' = "fill"
               PROVE  StartingOK'
    BY <1>1 DEF StartingOK
  <2>1. tail' = tail + 1
    BY <1>1, <1>2, NextFact
  <2>2. \A i \in Ring : i < tail' => i <= tail
    BY <1>2, <2>1, FormatAssumption DEF Ring
  <2>3. tail' > 0
    BY <1>2, <2>1, FormatAssumption DEF Ring
  <2>4. QED
    BY <1>1, <1>3, <1>6, <2>2, <2>3 DEF StartingOK
<1>8. pc' = "go" => \E U \in SUBSET Ring : UsedOK(U)'
  <2> SUFFICES ASSUME pc' = "go"
               PROVE  \E U \in SUBSET Ring : UsedOK(U)'
    OBVIOUS
  <2>6. PICK U \in SUBSET Ring : U = { i \in Ring : i <= tail }
    OBVIOUS
  <2>1. 0 \in U /\ head' \in U
    BY <1>1, <1>2, <2>6, FormatAssumption DEF Ring
  <2>2. \A i \in U : Fresh(buffers[i], track, spt)
    BY <1>6, <2>6
  <2>3. \A i \in Ring : Fresh(buffers[i], track, spt) => buffers[i].segment_id # spt
    <3> SUFFICES ASSUME NEW i \in Ring, Fresh(buffers[i], track, spt)
                 PROVE  buffers[i].segment_id # spt
      OBVIOUS
    <3>1. /\ buffers[i].segment_id \in Nat /\ buffers[i].remaining \in Nat
          /\ spt \in Nat
      <4>1. buffers[i] \in Buffer(spt) /\ Wrap \in Nat /\ spt \in Nat
        BY <1>2, ProductType, FormatAssumption DEF FormatInv
      <4>2. QED
        BY <4>1 DEF Buffer
    <3>2. buffers[i].remaining > 0 /\ buffers[i].segment_id + buffers[i].remaining <= spt
      BY DEF Fresh, Good
    <3>3. QED
      BY <3>1, <3>2
  <2>4. following # 0 => U = Ring /\ tail' = 0
    <3> SUFFICES ASSUME following # 0 PROVE U = Ring /\ tail' = 0
      OBVIOUS
    <3>1. next(tail) = 0
      BY <1>1
    <3>2. tail = NrBuffers - 1
      BY <1>2, <3>1, NextFact, FormatAssumption DEF Ring
    <3>3. QED
      BY <1>1, <2>6, <3>1, <3>2, FormatAssumption DEF Ring
  <2>5. \A i \in U : buffers[i].next_segment # 0 => next(i) \in U
    <3> SUFFICES ASSUME NEW i \in U, buffers[i].next_segment # 0
                 PROVE  next(i) \in U
      OBVIOUS
    <3>1. CASE i = tail
      BY <1>2, <2>4, <3>1 DEF following
    <3>2. CASE i # tail
      <4>1. i \in Ring /\ i < tail /\ tail <= NrBuffers - 1
        BY <1>2, <2>6, <3>2, FormatAssumption DEF Ring
      <4>2. next(i) \in Ring /\ next(i) = i + 1
        BY <1>2, <4>1, NextFact, FormatAssumption DEF Ring
      <4>4. next(i) <= tail
        BY <1>2, <4>1, <4>2, FormatAssumption DEF Ring
      <4>3. QED
        BY <2>6, <4>2, <4>4
    <3>3. QED
      BY <3>1, <3>2
  <2>7. UsedOK(U)'
    BY <1>1, <1>2, <1>3, <2>1, <2>2, <2>3, <2>4, <2>5, <2>6 DEF UsedOK
  <2>8. QED
    BY <2>7
<1>9. QED
  BY <1>1, <1>4, <1>5, <1>7, <1>8 DEF FormatInv, Starting

(* The tape is started, or the call fails with the handler asleep.         *)
LEMMA GoStep ==
    ASSUME FormatInv, StartFormatting
    PROVE  FormatInv'
<1>1. /\ pc = "go" /\ pc' = "user" /\ caller = "track" /\ Starting
      /\ head = 0 /\ laid = <<>> /\ runner_status = "idle" /\ ~ Live
      /\ buffers' = [buffers EXCEPT ![head].status = "formatting"]
      /\ out'.segment = out.segment /\ out'.res \in {"ok", "EIO"}
      /\ location' \in {track, Unknown}
      /\ faults' \in 0 .. MaxFaults
      /\ moving' \in BOOLEAN /\ interrupt_seen' \in BOOLEAN
      /\ fdc_mode' \in {"idle", "formatting"}
      /\ fdc_mode' = "formatting" => location' = track
      /\ UNCHANGED <<head, tail, switch_segment, runner_status, spt, track, caller,
                     starts, laid>>
  <2>1. /\ FormatTypeOK /\ fdc_mode \in {"idle", "formatting"}
        /\ faults \in 0 .. MaxFaults /\ moving \in BOOLEAN /\ interrupt_seen \in BOOLEAN
    BY DEF FormatInv, FormatTypeOK
  <2>2. /\ pc = "go" /\ pc' = "user" /\ caller = "track" /\ Starting
        /\ head = 0 /\ laid = <<>> /\ runner_status = "idle" /\ ~ Live
    BY DEF StartFormatting, Return, FormatInv, PlacesOK, Starting
  <2>3. \A kind : Occurs(kind) => faults' \in 0 .. MaxFaults
    BY <2>1, OccursFact
  <2>4. /\ buffers' = [buffers EXCEPT ![head].status = "formatting"]
        /\ out'.segment = out.segment /\ out'.res \in {"ok", "EIO"}
        /\ location' \in {track, Unknown}
        /\ faults' \in 0 .. MaxFaults
        /\ fdc_mode' \in {"idle", "formatting"}
        /\ fdc_mode' = "formatting" => location' = track
        /\ UNCHANGED <<head, tail, switch_segment, runner_status, spt, track, caller,
                       starts, laid>>
    BY <2>1, <2>2, <2>3 DEF StartFormatting, controller, Return, Live
  <2>5. moving' \in BOOLEAN /\ interrupt_seen' \in BOOLEAN
    BY <2>1, Zenon DEF StartFormatting, controller
  <2>6. QED
    BY <2>2, <2>4, <2>5
<1>2. head \in Ring /\ 0 \in Ring /\ buffers \in [Ring -> Buffer(spt)]
  BY <1>1 DEF FormatInv, FormatTypeOK, Buffer
<1>3. /\ buffers'[0] = [buffers[0] EXCEPT !.status = "formatting"]
      /\ \A i \in Ring : i # 0 => buffers'[i] = buffers[i]
      /\ \A i \in Ring : /\ buffers'[i].segment_id = buffers[i].segment_id
                         /\ buffers'[i].next_segment = buffers[i].next_segment
                         /\ buffers'[i].remaining = buffers[i].remaining
                         /\ buffers'[i].ptr = buffers[i].ptr
                         /\ buffers'[i].ids = buffers[i].ids
      /\ buffers'[0].status = "formatting"
      /\ buffers' \in [Ring -> Buffer(spt)]
  BY <1>1, <1>2 DEF Buffer
<1>4. PICK U \in SUBSET Ring : UsedOK(U)
  BY <1>1 DEF FormatInv
<1>5. FormatTypeOK'
  <2>1. {interrupt_seen', moving'} \subseteq BOOLEAN
    BY <1>1
  <2>2. QED
    BY <1>1, <1>3, <2>1 DEF FormatInv, FormatTypeOK, Buffer
<1>6. /\ IdsAreInOrder' /\ PlacesOK' /\ TailOK' /\ StartingOK' /\ RefillOK'
  BY <1>1
     DEF FormatInv, IdsAreInOrder, PlacesOK, TailOK, StartingOK, RefillOK, Starting, Live
<1>7. OutcomeOK'
  BY <1>1, ProductType DEF FormatInv, PlacesOK, OutcomeOK
<1>8. HeadOK'
  <2>1. Fresh(buffers'[0], track, spt) /\ buffers'[0].segment_id = 0
    BY <1>1, <1>2, <1>3, <1>4 DEF UsedOK, Fresh, Good
  <2>2. QED
    BY <1>1, <1>3, <2>1 DEF HeadOK, Live
<1>9. Behind'
  <2>1. switch_segment # 0 => tail = 0
    BY <1>1, <1>4 DEF UsedOK
  <2>2. First' = tail
    BY <1>1 DEF First
  <2>3. \A i \in Ring : ~ Between(0, i, 0)
    BY <1>2, BetweenFact
  <2>4. QED
    BY <1>1, <2>1, <2>2, <2>3 DEF Behind
<1>10. UsedOK(U)'
  BY <1>1, <1>2, <1>3, <1>4 DEF UsedOK, Live
<1>11. QED
  BY <1>1, <1>5, <1>6, <1>7, <1>8, <1>9, <1>10 DEF FormatInv

-----------------------------------------------------------------------------
(* The interrupt handler                                                    *)

(* While the handler is live the track is not complete, and no user has    *)
(* been told that it is.                                                   *)
LEMMA LiveFact ==
    ASSUME FormatInv, Live
    PROVE  /\ ~ Starting /\ pc # "go"
           /\ Len(laid) \in Nat /\ Len(laid) < spt
           /\ ~ (out.res \in {"ok", "end"} /\ out.segment = (track + 1) * spt)
<1>1. ~ Starting /\ pc # "go"
  BY DEF FormatInv, PlacesOK, Starting
<1>2. /\ buffers[head] \in Buffer(spt) /\ Fresh(buffers[head], track, spt)
      /\ buffers[head].segment_id = Len(laid)
  BY DEF FormatInv, FormatTypeOK, HeadOK, Buffer
<1>3. /\ buffers[head].segment_id \in Nat /\ buffers[head].remaining \in Nat
      /\ spt \in Nat
  <2>1. Wrap \in Nat /\ spt \in Nat
    BY ProductType, FormatAssumption DEF FormatInv
  <2>2. QED
    BY <1>2, <2>1 DEF Buffer
<1>4. Len(laid) < spt
  BY <1>2, <1>3 DEF Fresh, Good
<1>5. QED
  BY <1>1, <1>2, <1>3, <1>4 DEF FormatInv, OutcomeOK

(* The account of a segment leaves a good buffer, and the id it was laid   *)
(* with is the segment's.                                                  *)
LEMMA AdvancedFact ==
    ASSUME NEW n \in Nat, NEW t, t * n \in Int,
           NEW b \in Buffer(n), Fresh(b, t, n)
    PROVE  /\ Advanced(b) \in Buffer(n)
           /\ Good(Advanced(b), t, n)
           /\ Advanced(b).segment_id = b.segment_id + 1
           /\ Advanced(b).next_segment = b.next_segment
           /\ Advanced(b).status = b.status
           /\ Id(b) = t * n + b.segment_id
<1>1. /\ SegsPerBuf \in Nat /\ Wrap \in Nat /\ SegsPerBuf < Wrap
  BY FormatAssumption
<1>2. /\ b.ptr \in Nat /\ b.remaining \in Nat /\ b.segment_id \in Nat
      /\ b.ids \in Seq(Int) /\ Len(b.ids) \in Nat
      /\ b.remaining > 0 /\ b.segment_id + b.remaining <= n
      /\ b.ptr + b.remaining = Len(b.ids) /\ Len(b.ids) <= SegsPerBuf
  BY <1>1 DEF Buffer, Fresh, Good
<1>3. \A r, w \in Nat : 0 < r /\ r <= w => (r - 1) % w = r - 1
  OBVIOUS
<1>4. /\ \A p, r, m \in Nat : 0 < r /\ p + r <= m => p + 1 \in 0 .. m
      /\ \A p, r, m, w \in Nat : 0 < r /\ p + r <= m /\ m < w =>
            r <= w /\ r - 1 \in 0 .. (w - 1)
  OBVIOUS
<1>11. /\ (b.remaining - 1) % Wrap = b.remaining - 1
       /\ b.ptr + 1 \in 0 .. SegsPerBuf
       /\ b.remaining - 1 \in 0 .. (Wrap - 1)
       /\ b.segment_id + 1 \in 0 .. n
  BY <1>1, <1>2, <1>3, <1>4
<1>12. \A p, r \in Nat : (p + 1) + (r - 1) = p + r
  OBVIOUS
<1>13. \A p, i, g \in Nat : (g + 1) + i - (p + 1) - 1 = g + i - p - 1
  OBVIOUS
<1>5. /\ Advanced(b) \in Buffer(n)
      /\ Advanced(b).segment_id = b.segment_id + 1
      /\ Advanced(b).next_segment = b.next_segment
      /\ Advanced(b).status = b.status
      /\ Advanced(b).ids = b.ids
      /\ Advanced(b).ptr = b.ptr + 1
      /\ Advanced(b).remaining = b.remaining - 1
  BY <1>11 DEF Advanced, Buffer
<1>6. \A i \in (b.ptr + 1) .. Len(b.ids) : b.ids[i] = t * n + (b.segment_id + i - b.ptr - 1)
  BY DEF Fresh, Good
<1>7. Id(b) = t * n + b.segment_id
  <2>1. b.ptr + 1 \in (b.ptr + 1) .. Len(b.ids) /\ b.ptr < Len(b.ids)
    BY <1>2
  <2>2. b.segment_id + (b.ptr + 1) - b.ptr - 1 = b.segment_id
    BY <1>2
  <2>3. QED
    BY <1>6, <2>1, <2>2 DEF Id
<1>8. \A i \in (b.ptr + 1 + 1) .. Len(b.ids) :
         b.ids[i] = t * n + ((b.segment_id + 1) + i - (b.ptr + 1) - 1)
  <2> SUFFICES ASSUME NEW i \in (b.ptr + 1 + 1) .. Len(b.ids)
               PROVE  b.ids[i] = t * n + ((b.segment_id + 1) + i - (b.ptr + 1) - 1)
    OBVIOUS
  <2>1. i \in (b.ptr + 1) .. Len(b.ids) /\ i \in Nat
    BY <1>2
  <2>2. (b.segment_id + 1) + i - (b.ptr + 1) - 1 = b.segment_id + i - b.ptr - 1
    BY <1>2, <1>13, <2>1, Zenon
  <2>3. QED
    BY <1>6, <2>1, <2>2
<1>9. Good(Advanced(b), t, n)
  <2>1. /\ (b.ptr + 1) + (b.remaining - 1) = b.ptr + b.remaining
        /\ (b.segment_id + 1) + (b.remaining - 1) = b.segment_id + b.remaining
    BY <1>2, <1>12
  <2>2. QED
    BY <1>2, <1>5, <1>8, <2>1 DEF Good, Fresh
<1>10. QED
  BY <1>5, <1>7, <1>9

(* What every run of the handler leaves alone.                             *)
HandlerFrame ==
    /\ interrupt_seen' \in BOOLEAN /\ faults' \in 0 .. MaxFaults
    /\ buffers' \in [Ring -> Buffer(spt)]
    /\ laid' \in Seq(Int) /\ IdsAreInOrder'
    /\ buffers'[head].segment_id = Len(laid')
    /\ \A i \in Ring : i # head => buffers'[i].segment_id = buffers[i].segment_id
    /\ head' = head \/ (head' = next(head) /\ buffers[head].next_segment # 0)
    /\ UNCHANGED <<tail, switch_segment, spt, track, location, pc, caller, out,
                   starts, moving>>

(* A run of the handler that is the last one.                              *)
LEMMA Stopped ==
    ASSUME FormatInv, Live, HandlerFrame, fdc_mode' = "idle",
           \/ runner_status' = "aborting"
           \/ runner_status' = "logical_eot" /\ Len(laid') = spt
    PROVE  FormatInv'
<1>1. /\ ~ Starting /\ pc # "go" /\ Len(laid) # spt
      /\ ~ (out.res \in {"ok", "end"} /\ out.segment = (track + 1) * spt)
  BY LiveFact
<1>2. PICK U \in SUBSET Ring : UsedOK(U)
  BY <1>1 DEF FormatInv
<1>3. head \in Ring /\ head' \in Ring /\ head' \in U
  BY <1>2, NextFact DEF FormatInv, FormatTypeOK, HandlerFrame, UsedOK
<1>4. FormatTypeOK'
  <2>1. {interrupt_seen', moving'} \subseteq BOOLEAN
    BY Zenon DEF HandlerFrame, FormatInv, FormatTypeOK
  <2>2. QED
    BY <1>3, <2>1 DEF HandlerFrame, FormatInv, FormatTypeOK, Buffer
<1>5. IdsAreInOrder' /\ OutcomeOK' /\ ~ Starting' /\ ~ Live' /\ pc' # "go"
  BY <1>1 DEF HandlerFrame, OutcomeOK, Starting, Live
<1>6. PlacesOK'
  BY <1>1, <1>5 DEF PlacesOK, HandlerFrame, FormatInv, Starting
<1>7. TailOK' /\ StartingOK' /\ HeadOK' /\ RefillOK' /\ Behind'
  BY <1>5 DEF TailOK, StartingOK, HeadOK, RefillOK, Behind
<1>8. UsedOK(U)'
  BY <1>1, <1>2, <1>3, <1>5 DEF UsedOK, HandlerFrame
<1>9. QED
  BY <1>4, <1>5, <1>6, <1>7, <1>8 DEF FormatInv

(* A run that sets up the next segment, in this buffer or in the next one  *)
(* that was waiting.                                                       *)
LEMMA Continued ==
    ASSUME FormatInv, Live, HandlerFrame, UNCHANGED <<fdc_mode, runner_status>>,
           Fresh(buffers'[head'], track, spt),
           buffers'[head'].status = "formatting",
           buffers'[head'].segment_id = Len(laid'),
           \A i \in Ring : i # head /\ i # head' => buffers'[i] = buffers[i],
           \A i \in Ring : buffers'[i].next_segment = buffers[i].next_segment,
           \/ head' = head
           \/ /\ head' # head
              /\ buffers[head'].status = "waiting"
              /\ buffers'[head].status = "done"
    PROVE  FormatInv'
<1>1. /\ ~ Starting /\ pc # "go" /\ Len(laid) # spt
      /\ ~ (out.res \in {"ok", "end"} /\ out.segment = (track + 1) * spt)
  BY LiveFact
<1>2. PICK U \in SUBSET Ring : UsedOK(U)
  BY <1>1 DEF FormatInv
<1>3. head \in Ring /\ head' \in Ring /\ head' \in U /\ tail \in Ring
  BY <1>2, NextFact DEF FormatInv, FormatTypeOK, HandlerFrame, UsedOK
<1>4. FormatTypeOK'
  <2>1. {interrupt_seen', moving'} \subseteq BOOLEAN
    BY Zenon DEF HandlerFrame, FormatInv, FormatTypeOK
  <2>2. QED
    BY <1>3, <2>1 DEF HandlerFrame, FormatInv, FormatTypeOK, Buffer
<1>5. IdsAreInOrder' /\ OutcomeOK' /\ ~ Starting' /\ Live' /\ pc' # "go"
  BY <1>1 DEF HandlerFrame, OutcomeOK, Starting, Live
<1>6. PlacesOK'
  BY <1>1, <1>5 DEF PlacesOK, HandlerFrame, FormatInv, Starting, Live
<1>7. ASSUME pc \in {"wait", "fill", "fields", "ready"}
      PROVE  tail # head /\ tail # head' /\ buffers'[tail] = buffers[tail]
  BY <1>3, <1>7, TailIsDone
<1>8. TailOK' /\ RefillOK'
  BY <1>1, <1>5, <1>7
     DEF FormatInv, HandlerFrame, TailOK, RefillOK, ToDo, MinOf, Live
<1>9. StartingOK' /\ HeadOK'
  BY <1>5 DEF StartingOK, HeadOK, HandlerFrame, FormatInv
<1>10. Behind'
  <2> SUFFICES ASSUME switch_segment # 0, NEW i \in Ring, Between(First, i, head')
               PROVE  buffers'[i].status = "done"
    BY DEF Behind, First, HandlerFrame
  <2>1. First \in Ring
    BY <1>3, NextFact DEF First
  <2>2. Between(First, i, head) => buffers[i].status = "done"
    BY DEF FormatInv, Behind
  <2>3. CASE head' = head
    BY <1>3, <2>1, <2>2, <2>3 DEF FormatInv, HeadOK
  <2>4. CASE head' # head
    <3>1. head' = next(head)
      BY <2>4 DEF HandlerFrame
    <3>2. i = head \/ Between(First, i, head)
      BY <1>3, <2>1, <3>1, BetweenFact
    <3>3. QED
      BY <2>2, <2>4, <3>2
  <2>5. QED
    BY <2>3, <2>4
<1>11. UsedOK(U)'
  BY <1>1, <1>2, <1>3, <1>5 DEF UsedOK, HandlerFrame, Live
<1>12. QED
  BY <1>4, <1>5, <1>6, <1>8, <1>9, <1>10, <1>11 DEF FormatInv

(* One run of the handler.                                                 *)
LEMMA InterruptStep ==
    ASSUME FormatInv, FormatInterrupt
    PROVE  FormatInv'
<1> DEFINE b    == buffers[head]
           adv  == Advanced(b)
           bufs == [buffers EXCEPT ![head] = adv]
           over == [bufs EXCEPT ![head].status = "done"]
<1>1. /\ Live /\ interrupt_seen' = TRUE
      /\ UNCHANGED <<tail, switch_segment, spt, track, location, pc, caller, out,
                     starts, moving>>
  BY DEF FormatInterrupt, Live
<1>2. /\ head \in Ring /\ next(head) \in Ring /\ buffers \in [Ring -> Buffer(spt)]
      /\ spt \in Nat /\ track * spt \in Int /\ b \in Buffer(spt)
      /\ faults \in 0 .. MaxFaults
      /\ laid \in Seq(Int) /\ Len(laid) \in Nat /\ Len(laid) < spt
  <2>1. head \in Ring /\ faults \in 0 .. MaxFaults /\ laid \in Seq(Int)
    BY DEF FormatInv, FormatTypeOK
  <2>2. buffers \in [Ring -> Buffer(spt)]
    BY DEF FormatInv, FormatTypeOK, Buffer
  <2>3. spt \in Nat /\ track * spt \in Int
    BY ProductType DEF FormatInv
  <2>4. QED
    BY <1>1, <2>1, <2>2, <2>3, NextFact, LiveFact
<1>3. /\ Fresh(b, track, spt) /\ b.status = "formatting" /\ b.segment_id = Len(laid)
  BY <1>1 DEF FormatInv, HeadOK
<1>4. /\ adv \in Buffer(spt) /\ Good(adv, track, spt)
      /\ adv.segment_id = Len(laid) + 1 /\ adv.next_segment = b.next_segment
      /\ adv.status = "formatting" /\ Id(b) = track * spt + Len(laid)
  BY <1>2, <1>3, AdvancedFact
<1>5. interrupt_seen' \in BOOLEAN
  BY <1>1, Zenon
<1>6. \A kind : Occurs(kind) => faults' \in 0 .. MaxFaults
  BY OccursFact DEF FormatInv
<1> HIDE DEF adv
<1>7. /\ bufs[head] = adv
      /\ \A i \in Ring : i # head => bufs[i] = buffers[i]
      /\ bufs \in [Ring -> Buffer(spt)]
  BY <1>2, <1>4
<1>8. /\ over[head] = [adv EXCEPT !.status = "done"]
      /\ \A i \in Ring : i # head => over[i] = buffers[i]
      /\ over \in [Ring -> Buffer(spt)]
  BY <1>2, <1>4, <1>7 DEF Buffer
<1>9. over[head].status = "done" /\ over[head].segment_id = Len(laid) + 1
      /\ over[head].next_segment = b.next_segment
  BY <1>4, <1>8 DEF Buffer
<1>10. CASE /\ laid' = Append(laid, Id(buffers[head]))
            /\ continue_formatting(bufs)
  <2>1. /\ laid' \in Seq(Int) /\ Len(laid') = Len(laid) + 1
        /\ laid'[Len(laid) + 1] = track * spt + Len(laid)
        /\ \A i \in 1 .. Len(laid) : laid'[i] = laid[i]
    BY <1>2, <1>4, <1>10
  <2>2. IdsAreInOrder'
    <3> SUFFICES ASSUME NEW i \in 1 .. Len(laid')
                 PROVE  laid'[i] = track * spt + i - 1
      BY <1>1 DEF IdsAreInOrder
    <3>1. CASE i \in 1 .. Len(laid)
      BY <2>1, <3>1 DEF FormatInv, IdsAreInOrder
    <3>2. CASE i = Len(laid) + 1
      <4>1. track * spt + Len(laid) = track * spt + i - 1
        BY <1>2, <3>2
      <4>2. QED
        BY <2>1, <3>2, <4>1
    <3>3. QED
      BY <1>2, <2>1, <3>1, <3>2
  <2> HIDE DEF bufs, over
  <2>3. CASE SetupFormatting(bufs, head) /\ UNCHANGED head /\ adv.remaining > 0
    <3>1. CASE Occurs("setup") /\ SetupError(bufs, head)
      <4>1. buffers' = [bufs EXCEPT ![head].status = "error"]
        BY <3>1 DEF SetupError
      <4>2. /\ buffers' \in [Ring -> Buffer(spt)]
            /\ buffers'[head].segment_id = Len(laid) + 1
            /\ \A i \in Ring : i # head => buffers'[i] = buffers[i]
        BY <1>2, <1>4, <1>7, <4>1 DEF Buffer
      <4>3. HandlerFrame
        BY <1>1, <1>5, <1>6, <2>1, <2>2, <2>3, <3>1, <4>2 DEF HandlerFrame
      <4>4. QED
        BY <1>1, <3>1, <4>3, Stopped DEF SetupError, Stop
    <3>2. CASE /\ buffers' = [bufs EXCEPT ![head].status = "formatting"]
               /\ UNCHANGED <<runner_status, fdc_mode, faults>>
      <4>1. /\ buffers' \in [Ring -> Buffer(spt)]
            /\ buffers'[head] = adv
            /\ \A i \in Ring : i # head => buffers'[i] = buffers[i]
        BY <1>2, <1>4, <1>7, <3>2 DEF Buffer
      <4>2. HandlerFrame
        BY <1>1, <1>2, <1>4, <1>5, <2>1, <2>2, <2>3, <3>2, <4>1 DEF HandlerFrame
      <4>3. Fresh(adv, track, spt)
        BY <1>4, <2>3 DEF Fresh
      <4>4. \A i \in Ring : buffers'[i].next_segment = buffers[i].next_segment
        BY <1>4, <4>1
      <4>5. QED
        BY <1>1, <1>4, <2>1, <2>3, <3>2, <4>1, <4>2, <4>3, <4>4, Continued
    <3>3. QED
      BY <2>3, <3>1, <3>2 DEF SetupFormatting
  <2>4. CASE /\ adv.remaining = 0 /\ adv.next_segment = 0
             /\ buffers' = over /\ Stop("logical_eot") /\ UNCHANGED <<head, faults>>
    <3>1. Len(laid') = spt
      BY <1>2, <1>4, <2>1, <2>4 DEF Good
    <3>2. HandlerFrame
      BY <1>1, <1>2, <1>5, <1>8, <1>9, <2>1, <2>2, <2>4 DEF HandlerFrame
    <3>3. QED
      BY <1>1, <2>4, <3>1, <3>2, Stopped DEF Stop
  <2>5. CASE adv.remaining = 0 /\ adv.next_segment # 0 /\ head' = next(head)
             /\ SetupError(over, next(head)) /\ faults' \in 0 .. MaxFaults
    <3>1. buffers' = [over EXCEPT ![next(head)].status = "error"]
      BY <2>5 DEF SetupError
    <3>2. /\ buffers' \in [Ring -> Buffer(spt)]
          /\ buffers'[head].segment_id = Len(laid) + 1
          /\ \A i \in Ring : i # head => buffers'[i].segment_id = buffers[i].segment_id
      BY <1>2, <1>8, <1>9, <3>1 DEF Buffer
    <3>3. HandlerFrame
      BY <1>1, <1>4, <1>5, <2>1, <2>2, <2>5, <3>2 DEF HandlerFrame
    <3>4. QED
      BY <1>1, <2>5, <3>3, Stopped DEF SetupError, Stop
  <2>6. CASE /\ adv.remaining = 0 /\ adv.next_segment # 0 /\ head' = next(head)
             /\ MayUse(bufs[next(head)], adv.next_segment)
             /\ buffers' = [over EXCEPT ![next(head)].status = "formatting"]
             /\ UNCHANGED <<runner_status, fdc_mode, faults>>
    <3>1. /\ next(head) # head
          /\ buffers[next(head)].status = "waiting"
          /\ buffers[next(head)].segment_id = Len(laid')
      <4>1. next(head) # head
        BY <1>4, <1>7, <2>6 DEF MayUse
      <4>2. adv.next_segment = Len(laid')
        BY <1>2, <1>4, <2>1, <2>6 DEF Good
      <4>3. QED
        BY <1>2, <1>7, <2>6, <4>1, <4>2 DEF MayUse
    <3>2. /\ buffers' \in [Ring -> Buffer(spt)]
          /\ buffers'[head] = over[head]
          /\ buffers'[next(head)] = [buffers[next(head)] EXCEPT !.status = "formatting"]
          /\ \A i \in Ring : i # head /\ i # next(head) => buffers'[i] = buffers[i]
      <4>1. over[next(head)] = buffers[next(head)]
        BY <1>2, <1>8, <3>1
      <4>2. [buffers[next(head)] EXCEPT !.status = "formatting"] \in Buffer(spt)
        BY <1>2 DEF Buffer
      <4>3. buffers' = [over EXCEPT ![next(head)] =
                          [buffers[next(head)] EXCEPT !.status = "formatting"]]
        BY <2>6, <4>1
      <4>4. QED
        BY <1>2, <1>8, <3>1, <4>2, <4>3
    <3>3. /\ buffers'[next(head)].status = "formatting"
          /\ buffers'[next(head)].segment_id = buffers[next(head)].segment_id
          /\ buffers'[next(head)].next_segment = buffers[next(head)].next_segment
          /\ buffers'[next(head)].remaining = buffers[next(head)].remaining
          /\ buffers'[next(head)].ptr = buffers[next(head)].ptr
          /\ buffers'[next(head)].ids = buffers[next(head)].ids
      BY <1>2, <3>2 DEF Buffer
    <3>4. HandlerFrame
      BY <1>1, <1>2, <1>4, <1>5, <1>9, <2>1, <2>2, <2>6, <3>2, <3>3 DEF HandlerFrame
    <3>5. Fresh(buffers'[head'], track, spt)
      <4>1. PICK U \in SUBSET Ring : UsedOK(U)
        BY <1>1, LiveFact DEF FormatInv
      <4>2. next(head) \in U
        BY <1>1, <1>4, <2>6, <4>1 DEF UsedOK
      <4>3. Fresh(buffers[next(head)], track, spt)
        BY <1>1, <3>1, <4>1, <4>2 DEF UsedOK
      <4>4. QED
        BY <2>6, <3>3, <4>3 DEF Fresh, Good
    <3>6. \A i \in Ring : buffers'[i].next_segment = buffers[i].next_segment
      BY <1>9, <3>2, <3>3
    <3>7. QED
      BY <1>1, <1>9, <2>1, <2>6, <3>1, <3>2, <3>3, <3>4, <3>5, <3>6, Continued
  <2>7. QED
    BY <1>2, <1>6, <1>7, <1>10, <2>3, <2>4, <2>5, <2>6
       DEF continue_formatting, SetupFormatting, over
<1>11. CASE /\ Occurs("medium") /\ Stop("aborting") /\ UNCHANGED <<head, laid>>
            /\ buffers' = [buffers EXCEPT ![head] = determine_fmt_progress(@, "medium")]
  <2>1. buffers' = [buffers EXCEPT ![head].status = "error"]
    BY <1>2, <1>11 DEF determine_fmt_progress
  <2>2. /\ buffers' \in [Ring -> Buffer(spt)]
        /\ buffers'[head].segment_id = Len(laid)
        /\ \A i \in Ring : i # head => buffers'[i] = buffers[i]
    BY <1>2, <1>3, <2>1 DEF Buffer
  <2>3. IdsAreInOrder'
    BY <1>1, <1>11 DEF FormatInv, IdsAreInOrder
  <2>4. HandlerFrame
    BY <1>1, <1>2, <1>5, <1>6, <1>11, <2>2, <2>3 DEF HandlerFrame
  <2>5. QED
    BY <1>1, <1>11, <2>4, Stopped DEF Stop
<1>12. QED
  BY <1>10, <1>11 DEF FormatInterrupt, determine_fmt_progress, adv

-----------------------------------------------------------------------------
(* FTFMT_STATUS                                                             *)

(* The steps that leave the ring, the controller's mode or the handler's   *)
(* work alone, and do not enter the set up of a buffer.                    *)
QuietFrame ==
    /\ {interrupt_seen', moving'} \subseteq BOOLEAN /\ faults' \in 0 .. MaxFaults
    /\ out'.res \in {"none", "ok", "end", "EAGAIN", "EIO", "ETIME"}
    /\ out'.segment \in Int
    /\ caller' = "status" \/ (pc' = pc /\ caller' = caller /\ out' = out)
    /\ UNCHANGED <<buffers, head, tail, switch_segment, runner_status, spt, track,
                   location, starts, laid>>

(* Such a step, wherever it takes the process.                             *)
LEMMA QuietStep ==
    ASSUME FormatInv, QuietFrame,
           fdc_mode' = fdc_mode \/ fdc_mode' = "idle",
           OutcomeOK',
           \/ UNCHANGED <<pc, caller, out>>
           \/ /\ ~ Starting
              /\ caller' = "status"
              /\ pc' \in {"user", "check", "wait", "fill", "stop", "sleep", "report",
                         "report_end"}
              /\ pc' \in {"wait", "fill"} /\ Live => switch_segment # 0 /\ head # tail
              /\ pc # "switch"
    PROVE  FormatInv'
<1>1. FormatTypeOK'
  BY DEF FormatInv, FormatTypeOK, QuietFrame
<1>2. Live' => Live
  BY DEF Live
<1>3. (Starting' => Starting) /\ (pc' = "go" => pc = "go") /\ (Starting => pc' = pc)
  BY DEF Starting
<1>4. IdsAreInOrder' /\ PlacesOK'
  BY <1>2, <1>3 DEF FormatInv, IdsAreInOrder, PlacesOK, QuietFrame, Starting
<1>5. HeadOK' /\ RefillOK'
  BY <1>2 DEF FormatInv, HeadOK, RefillOK, QuietFrame
<1>6. Behind'
  BY <1>2 DEF FormatInv, Behind, QuietFrame, First
<1>7. StartingOK'
  BY <1>3 DEF FormatInv, StartingOK, QuietFrame
<1>8. TailOK'
  BY <1>2, <1>3 DEF FormatInv, TailOK, QuietFrame, ToDo, MinOf
<1>9. ASSUME ~ Starting' \/ pc' = "go" PROVE \E U \in SUBSET Ring : UsedOK(U)'
  <2>1. PICK U \in SUBSET Ring : UsedOK(U)
    BY <1>3, <1>9 DEF FormatInv, Starting
  <2>2. UsedOK(U)'
    BY <1>2, <1>3, <2>1 DEF UsedOK, QuietFrame
  <2>3. QED
    BY <2>2
<1>10. QED
  BY <1>1, <1>4, <1>5, <1>6, <1>7, <1>8, <1>9 DEF FormatInv

(* TapeEnds, ftape_format_status, CheckBuffers, ftape_wait_segment.        *)
LEMMA QuietActions ==
    ASSUME FormatInv,
           TapeEnds \/ ftape_format_status \/ CheckBuffers \/ ftape_wait_segment
    PROVE  FormatInv'
<1>1. /\ interrupt_seen \in BOOLEAN /\ moving \in BOOLEAN
      /\ faults \in 0 .. MaxFaults
      /\ out.res \in {"none", "ok", "end", "EAGAIN", "EIO", "ETIME"}
      /\ out.segment \in Int /\ FormatTypeOK
      /\ OutcomeOK /\ caller \in {"track", "status"}
  BY DEF FormatInv, FormatTypeOK
<1>2. \A kind : Occurs(kind) => faults' \in 0 .. MaxFaults
  BY <1>1, OccursFact
<1>3. CASE TapeEnds
  <2>1. {interrupt_seen', moving'} \subseteq BOOLEAN
    BY <1>1, <1>3, Zenon DEF TapeEnds, controller
  <2>2. /\ QuietFrame /\ fdc_mode' = fdc_mode /\ OutcomeOK'
        /\ UNCHANGED <<pc, caller, out>>
    BY <1>1, <1>2, <1>3, <2>1 DEF TapeEnds, QuietFrame, OutcomeOK, ring, controller
  <2>3. QED
    BY <2>2, QuietStep
<1>4. CASE ftape_format_status
  <2>1. {interrupt_seen', moving'} \subseteq BOOLEAN
    BY <1>1, <1>4, Zenon DEF ftape_format_status, controller, world
  <2>2. /\ QuietFrame /\ fdc_mode' = fdc_mode /\ OutcomeOK'
        /\ pc = "user" /\ pc' = "check" /\ caller' = "status"
    BY <1>1, <1>4, <2>1
       DEF ftape_format_status, QuietFrame, OutcomeOK, ring, controller, world
  <2>3. QED
    BY <2>2, QuietStep DEF Starting
<1>5. CASE CheckBuffers
  <2>1. {interrupt_seen', moving'} \subseteq BOOLEAN
    BY <1>1, <1>5, Zenon DEF CheckBuffers, controller, world
  <2>2. ~ Starting /\ caller = "status"
    BY <1>1, <1>5 DEF CheckBuffers, Starting, FormatInv, PlacesOK
  <2>3. /\ QuietFrame /\ fdc_mode' = fdc_mode /\ OutcomeOK'
        /\ pc = "check" /\ pc' \in {"wait", "stop"} /\ caller' = "status"
        /\ pc' = "wait" => switch_segment # 0 /\ head # tail
    BY <1>1, <1>5, <2>1, <2>2
       DEF CheckBuffers, QuietFrame, OutcomeOK, NeedsBuffers, ring, controller, world
  <2>4. QED
    BY <2>2, <2>3, QuietStep
<1>6. CASE ftape_wait_segment
  <2>1. {interrupt_seen', moving'} \subseteq BOOLEAN
    BY <1>1, <1>6, Zenon DEF ftape_wait_segment, controller
  <2>2. pc = "wait" /\ ~ Starting /\ caller = "status"
    BY <1>1, <1>6 DEF ftape_wait_segment, Starting, FormatInv, PlacesOK
  <2>3. /\ QuietFrame /\ fdc_mode' = fdc_mode /\ OutcomeOK'
        /\ pc' \in {"user", "fill"} /\ caller' = "status"
    BY <1>1, <1>2, <1>6, <2>1, <2>2
       DEF ftape_wait_segment, QuietFrame, OutcomeOK, Return, ring, controller
  <2>4. Live => switch_segment # 0 /\ head # tail
    BY <2>2, TailIsDone
  <2>5. QED
    BY <2>2, <2>3, <2>4, QuietStep
<1>7. QED
  BY <1>3, <1>4, <1>5, <1>6

(* The sleep ends, and the process reports the segment HEAD has come to.   *)
LEMMA ReportActions ==
    ASSUME FormatInv, fdc_interrupt_wait \/ ReportSegment
    PROVE  FormatInv'
<1>1. /\ interrupt_seen \in BOOLEAN /\ moving \in BOOLEAN
      /\ faults \in 0 .. MaxFaults
      /\ out.res \in {"none", "ok", "end", "EAGAIN", "EIO", "ETIME"}
      /\ out.segment \in Int
      /\ OutcomeOK /\ caller \in {"track", "status"}
  BY DEF FormatInv, FormatTypeOK
<1>2. pc \in {"sleep", "report", "report_end"} /\ ~ Starting /\ caller = "status"
  BY <1>1 DEF fdc_interrupt_wait, ReportSegment, Starting, FormatInv, PlacesOK
<1>3. CASE fdc_interrupt_wait
  <2>1. {interrupt_seen', moving'} \subseteq BOOLEAN
    BY <1>1, <1>3, Zenon DEF fdc_interrupt_wait, world
  <2>2. /\ QuietFrame /\ fdc_mode' \in {fdc_mode, "idle"} /\ OutcomeOK'
        /\ pc' \in {"report", "report_end"} /\ caller' = "status"
    BY <1>1, <1>2, <1>3, <2>1
       DEF fdc_interrupt_wait, QuietFrame, OutcomeOK, ring, world
  <2>3. QED
    BY <1>2, <2>2, QuietStep
<1>4. CASE ReportSegment
  <2>1. {interrupt_seen', moving'} \subseteq BOOLEAN
    BY <1>1, <1>4, Zenon DEF ReportSegment, controller, world
  <2>2. /\ out'.segment = location * spt + buffers[head].segment_id
        /\ out'.res \in {"ok", "end"}
        /\ pc' = "user" /\ caller' = caller /\ faults' = faults
        /\ UNCHANGED <<buffers, head, tail, switch_segment, runner_status, fdc_mode, spt,
                       track, location, starts, laid>>
    BY <1>4 DEF ReportSegment, ring, controller, world
  <2>3. /\ spt \in Nat \ {0} /\ track \in Nat /\ track * spt \in Nat
        /\ (track + 1) * spt = track * spt + spt
        /\ location * spt \in Int
        /\ location \in {track, Unknown}
    BY <1>2, ProductType DEF FormatInv, PlacesOK
  <2>4. head \in Ring /\ buffers[head].segment_id \in 0 .. spt
    BY DEF FormatInv, FormatTypeOK
  <2>5. QuietFrame
    <3>1. out'.segment \in Int
      BY <2>2, <2>3, <2>4
    <3>2. QED
      BY <1>1, <1>2, <2>1, <2>2, <3>1 DEF QuietFrame
  <2>6. OutcomeOK'
    <3> SUFFICES ASSUME location * spt + buffers[head].segment_id = track * spt + spt
                 PROVE  Len(laid) = spt
      BY <2>2, <2>3 DEF OutcomeOK
    <3>1. location = track
      <4>1. ASSUME location = Unknown PROVE location * spt = - spt
        BY <2>3, <4>1 DEF Unknown
      <4>2. QED
        BY <2>3, <2>4, <4>1
    <3>2. buffers[head].segment_id = spt
      BY <2>3, <2>4, <3>1
    <3>3. PICK U \in SUBSET Ring : UsedOK(U)
      BY <1>2 DEF FormatInv
    <3>4. QED
      BY <3>2, <3>3 DEF UsedOK
  <2>7. QED
    BY <1>2, <2>2, <2>5, <2>6, QuietStep
<1>5. QED
  BY <1>3, <1>4

(* TAIL goes on to the next buffer.                                        *)
LEMMA RefillStep ==
    ASSUME FormatInv, NextRefill
    PROVE  FormatInv'
<1>1. /\ pc = "switch" /\ caller = "status" /\ pc' = "check"
      /\ switch_segment' = buffers[tail].next_segment
      /\ tail' = IF switch_segment' # 0 THEN next(tail) ELSE tail
      /\ UNCHANGED <<buffers, head, runner_status, fdc_mode, interrupt_seen, spt, track,
                     location, caller, out, starts, faults, moving, laid>>
  BY DEF NextRefill, controller, world
<1>2. ~ Starting /\ ~ Starting' /\ tail \in Ring /\ next(tail) \in Ring
  BY <1>1, NextFact DEF Starting, FormatInv, FormatTypeOK
<1>3. switch_segment' \in 0 .. (spt - 1)
  BY <1>1 DEF FormatInv, FormatTypeOK
<1>4. FormatTypeOK'
  BY <1>1, <1>2, <1>3 DEF FormatInv, FormatTypeOK
<1>5. /\ IdsAreInOrder' /\ PlacesOK' /\ TailOK' /\ StartingOK' /\ HeadOK' /\ RefillOK'
      /\ OutcomeOK'
  BY <1>1, <1>2
     DEF FormatInv, IdsAreInOrder, PlacesOK, TailOK, StartingOK, HeadOK, RefillOK,
         OutcomeOK, Live
<1>6. Live => switch_segment # 0
  BY <1>1 DEF FormatInv, RefillOK
<1>7. Behind'
  BY <1>1, <1>6 DEF FormatInv, Behind, First, Live
<1>8. PICK U \in SUBSET Ring : UsedOK(U)
  BY <1>2 DEF FormatInv
<1>9. UsedOK(U)'
  BY <1>1, <1>6, <1>8 DEF UsedOK, Live
<1>10. QED
  BY <1>2, <1>4, <1>5, <1>7, <1>9 DEF FormatInv

(* The operation is aborted after the handler has stopped, or it goes on.  *)
LEMMA StopStep ==
    ASSUME FormatInv, StopIfAborting
    PROVE  FormatInv'
<1>1. pc = "stop" /\ caller = "status" /\ ~ Starting
  BY DEF StopIfAborting, FormatInv, FormatTypeOK, PlacesOK, Starting
<1>2. /\ interrupt_seen \in BOOLEAN /\ moving \in BOOLEAN
      /\ faults \in 0 .. MaxFaults
      /\ out.res \in {"none", "ok", "end", "EAGAIN", "EIO", "ETIME"}
      /\ out.segment \in Int /\ OutcomeOK
  BY DEF FormatInv, FormatTypeOK
<1>3. CASE runner_status # "aborting"
  <2>1. /\ pc' = "sleep"
        /\ UNCHANGED <<buffers, head, tail, controller, moving, out, switch_segment, spt,
                       track, location, caller, starts, laid, faults>>
    BY <1>3 DEF StopIfAborting
  <2>2. {interrupt_seen', moving'} \subseteq BOOLEAN
    BY <1>2, <2>1, Zenon DEF controller
  <2>3. QuietFrame /\ OutcomeOK' /\ fdc_mode' = fdc_mode
    BY <1>1, <1>2, <2>1, <2>2 DEF QuietFrame, OutcomeOK, controller
  <2>4. QED
    BY <1>1, <2>1, <2>3, QuietStep
<1>4. CASE runner_status = "aborting"
  <2>1. /\ buffers' = [i \in Ring |-> [buffers[i] EXCEPT !.status = "waiting"]]
        /\ head' = 0 /\ tail' = 0
        /\ runner_status' = "idle" /\ fdc_mode' = "idle"
        /\ interrupt_seen' = FALSE /\ moving' = FALSE
        /\ out'.res \in {"EAGAIN", "EIO"} /\ out'.segment = out.segment
        /\ pc' = "user"
        /\ UNCHANGED <<switch_segment, spt, track, location, caller, starts, laid, faults>>
    BY <1>4 DEF StopIfAborting, ftape_abort_operation, Return
  <2>2. {interrupt_seen', moving'} \subseteq BOOLEAN
    BY <2>1, Zenon
  <2>3. buffers \in [Ring -> Buffer(spt)] /\ 0 \in Ring
    BY FormatAssumption DEF FormatInv, FormatTypeOK, Buffer, Ring
  <2>4. /\ buffers' \in [Ring -> Buffer(spt)]
        /\ \A i \in Ring : buffers'[i].segment_id = buffers[i].segment_id
    BY <2>1, <2>3 DEF Buffer
  <2>5. FormatTypeOK'
    BY <2>1, <2>2, <2>3, <2>4 DEF FormatInv, FormatTypeOK, Buffer
  <2>6. /\ IdsAreInOrder' /\ PlacesOK' /\ TailOK' /\ StartingOK' /\ HeadOK' /\ RefillOK'
        /\ OutcomeOK' /\ Behind' /\ ~ Starting'
    BY <1>1, <2>1
       DEF FormatInv, IdsAreInOrder, PlacesOK, TailOK, StartingOK, HeadOK, RefillOK,
           OutcomeOK, Behind, Live, Starting
  <2>7. PICK U \in SUBSET Ring : UsedOK(U)
    BY <1>1 DEF FormatInv
  <2>8. UsedOK(U)'
    BY <2>1, <2>4, <2>7 DEF UsedOK, Live
  <2>9. QED
    BY <2>5, <2>6, <2>8 DEF FormatInv
<1>5. QED
  BY <1>3, <1>4

-----------------------------------------------------------------------------
(* The invariant holds when the device is opened for formatting.           *)
LEMMA FormatInit ==
    ASSUME Init
    PROVE  FormatInv
<1>1. /\ pc = "user" /\ caller = "status" /\ fdc_mode = "idle" /\ runner_status = "idle"
      /\ laid = <<>> /\ location = Unknown /\ head = 0 /\ tail = 0
      /\ switch_segment = 0 /\ starts = 0 /\ faults = 0
      /\ out = [res |-> "none", segment |-> 0]
      /\ spt \in Lengths /\ track \in Tracks
  BY DEF Init
<1>2. {interrupt_seen, moving} \subseteq BOOLEAN
  BY Zenon DEF Init
<1>3. /\ spt \in Nat \ {0} /\ SegsPerBuf \in Nat /\ Wrap \in Nat \ {0}
      /\ MaxStarts \in Nat /\ MaxFaults \in Nat /\ 0 \in Ring
  BY <1>1, FormatAssumption DEF Ring
<1>4. NewBuffer \in Buffer(spt) /\ NewBuffer.segment_id = 0
  BY <1>3 DEF NewBuffer, Buffer
<1>5. buffers \in [Ring -> Buffer(spt)] /\ \A i \in Ring : buffers[i] = NewBuffer
  BY <1>4 DEF Init
<1>6. FormatTypeOK
  <2>1. /\ out.res = "none" /\ out.segment = 0 /\ laid \in Seq(Int)
        /\ switch_segment \in 0 .. (spt - 1)
        /\ starts \in 0 .. MaxStarts /\ faults \in 0 .. MaxFaults
    BY <1>1, <1>3
  <2>2. QED
    BY <1>1, <1>2, <1>3, <1>5, <2>1 DEF FormatTypeOK, Buffer
<1>7. /\ IdsAreInOrder /\ PlacesOK /\ TailOK /\ StartingOK /\ HeadOK /\ RefillOK
      /\ OutcomeOK /\ Behind /\ ~ Starting
  BY <1>1
     DEF IdsAreInOrder, PlacesOK, TailOK, StartingOK, HeadOK, RefillOK, OutcomeOK, Behind,
         Live, Starting
<1>8. UsedOK(Ring)
  BY <1>1, <1>3, <1>4, <1>5 DEF UsedOK, Live
<1>9. QED
  BY <1>6, <1>7, <1>8 DEF FormatInv

(* Every step of the process, the handler and the tape keeps it.           *)
LEMMA FormatNext ==
    ASSUME "fill" \notin Faults, FormatInv, [Next]_vars
    PROVE  FormatInv'
<1>1. CASE Process
  BY <1>1, FillStep, FieldsStep, ReadyStep, InitialStep, GoStep, QuietActions, RefillStep,
     StopStep, ReportActions DEF Process
<1>2. CASE mtiocftformat
  BY <1>2, QuietActions, TrackStep DEF mtiocftformat
<1>3. CASE FormatInterrupt
  BY <1>3, InterruptStep
<1>4. CASE TapeEnds
  BY <1>4, QuietActions
<1>5. CASE UNCHANGED vars
  <2>1. {interrupt_seen', moving'} \subseteq BOOLEAN
    BY <1>5, Zenon DEF vars, FormatInv, FormatTypeOK, controller, world
  <2>2. QuietFrame /\ OutcomeOK' /\ fdc_mode' = fdc_mode /\ UNCHANGED <<pc, caller, out>>
    BY <1>5, <2>1
       DEF vars, ring, controller, world, QuietFrame, FormatInv, FormatTypeOK, OutcomeOK
  <2>3. QED
    BY <2>2, QuietStep
<1>6. QED
  BY <1>1, <1>2, <1>3, <1>4, <1>5 DEF Next

(* However late the process refills the ring, and wherever the handler     *)
(* interrupts it, the ids that pass the head are those of the track's      *)
(* segments in their order: for every ring, every track and every fault of *)
(* the drive, the medium and the internal controllers.                     *)
THEOREM FormatWritesIdsInOrder ==
    ASSUME "fill" \notin Faults
    PROVE  Spec => [](FormatTypeOK /\ IdsAreInOrder)
<1>1. Init => FormatInv
  BY FormatInit
<1>2. FormatInv /\ [Next]_vars => FormatInv'
  BY FormatNext
<1>3. FormatInv => FormatTypeOK /\ IdsAreInOrder
  BY DEF FormatInv
<1>4. QED
  BY <1>1, <1>2, <1>3, PTL DEF Spec

(* A user who is told of the segment behind the last one has a track that  *)
(* is formatted as a whole, and the runner stops at the logical end of the *)
(* track only then.                                                        *)
THEOREM FormatEndMeansWhole ==
    ASSUME "fill" \notin Faults
    PROVE  Spec => []EndMeansWhole
<1>1. Init => FormatInv
  BY FormatInit
<1>2. FormatInv /\ [Next]_vars => FormatInv'
  BY FormatNext
<1>3. FormatInv => EndMeansWhole
  BY DEF FormatInv, PlacesOK, OutcomeOK, EndMeansWhole
<1>4. QED
  BY <1>1, <1>2, <1>3, PTL DEF Spec
=============================================================================
