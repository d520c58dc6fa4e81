--------------------------- MODULE FdcSyncProofs ---------------------------
(***************************************************************************)
(* How the process and the handler share the controller, for any number of *)
(* cylinders, clusters and faults and for calls nested as deeply as they   *)
(* may be: the nesting of the interrupt's mask, the commands that must not *)
(* mix, the seeks that must be exact, and the types.                       *)
(*                                                                         *)
(* A function that masks the interrupt keeps it masked while it calls      *)
(* others at some of its labels: irq_level is the number of the frames on  *)
(* the stack that are at such a label, and in_reset says whether one frame *)
(* is within a reset, of which there is never a second one.  That is what  *)
(* SyncInv says; every call and every return is shown to keep the count.   *)
(*                                                                         *)
(* ExactInv says, for each place the process can be at, what the           *)
(* controller may be doing: nothing but polling the drives in a reset, the *)
(* seek that fdc_seek() waits for, or a transfer or a hidden seek of the   *)
(* handler otherwise.  It needs the shape of the call stack: which         *)
(* function may have called which.                                         *)
(***************************************************************************)
EXTENDS FdcSync, SequenceTheorems, TLAPS

(* At these labels a function holds the interrupt masked, once.            *)
Masking == {"iw", "seek_issued", "readid_issued", "setup_perpend", "setup_done"}

(* At these fdc_reset() is between its begin and its end.                  *)
Resets == {"reset_waited", "reset_specify", "reset_end"}

ProcFrames == [at : Labels, cmd : [op : {"none", "other", "seek", "readid", "xfer"},
                                   from : Cylinders, to : Cylinders, by : {"process"},
                                   exact : BOOLEAN]]

One(S, label) == IF label \in S THEN 1 ELSE 0

(* n frames of the stack s are at a label in S: k counts them from each    *)
(* frame downwards.                                                        *)
Counts(s, S, n) ==
    \E k \in [1 .. (Len(s) + 1) -> Nat] :
        /\ k[Len(s) + 1] = 0
        /\ \A i \in 1 .. Len(s) : k[i] = k[i + 1] + One(S, s[i].at)
        /\ k[1] = n

Bit(b) == IF b THEN 1 ELSE 0

MaskOK ==
    /\ stack \in Seq(ProcFrames)
    /\ irq_level \in Nat /\ in_reset \in BOOLEAN
    /\ Counts(stack, Masking, irq_level)
    /\ Counts(stack, Resets, Bit(in_reset))

(* While the handler's seek is under way hide_interrupt says so, and no    *)
(* other interrupt is to be served that would clear it.                    *)
IsrSeekOK == IsrCommand(work) => hide_interrupt /\ intr = None

SyncInv == MaskOK /\ IsrSeekOK

-----------------------------------------------------------------------------
(* Counting frames                                                          *)

(* An empty stack has none.                                                *)
LEMMA CountsEmpty ==
    ASSUME NEW S, NEW n
    PROVE  Counts(<<>>, S, n) <=> n = 0
<1>1. ASSUME Counts(<<>>, S, n) PROVE n = 0
  BY <1>1 DEF Counts
<1>2. ASSUME n = 0 PROVE Counts(<<>>, S, n)
  <2> DEFINE k == [i \in 1 .. (Len(<<>>) + 1) |-> 0]
  <2>1. k \in [1 .. (Len(<<>>) + 1) -> Nat]
    OBVIOUS
  <2>2. k[1] = 0 /\ k[Len(<<>>) + 1] = 0
    OBVIOUS
  <2> HIDE DEF k
  <2>3. QED
    BY <1>2, <2>1, <2>2 DEF Counts
<1>3. QED
  BY <1>1, <1>2

(* A call puts a frame on the stack.                                       *)
LEMMA CountsPush ==
    ASSUME NEW s \in Seq(ProcFrames), NEW f \in ProcFrames, NEW S, NEW n \in Nat,
           Counts(s, S, n)
    PROVE  /\ <<f>> \o s \in Seq(ProcFrames)
           /\ Counts(<<f>> \o s, S, n + One(S, f.at))
<1> DEFINE t == <<f>> \o s
<1>1. /\ t \in Seq(ProcFrames) /\ Len(t) = Len(s) + 1 /\ t[1] = f
      /\ \A i \in 1 .. Len(s) : t[i + 1] = s[i]
  OBVIOUS
<1>2. PICK k \in [1 .. (Len(s) + 1) -> Nat] :
         /\ k[Len(s) + 1] = 0
         /\ \A i \in 1 .. Len(s) : k[i] = k[i + 1] + One(S, s[i].at)
         /\ k[1] = n
  BY DEF Counts
<1>3. One(S, f.at) \in Nat /\ Len(s) \in Nat
  BY DEF One
<1> HIDE DEF t
<1> DEFINE m == [i \in 1 .. (Len(t) + 1) |-> IF i = 1 THEN n + One(S, f.at) ELSE k[i - 1]]
<1>4. m \in [1 .. (Len(t) + 1) -> Nat]
  <2>1. \A i \in 1 .. (Len(t) + 1) : i # 1 => i - 1 \in 1 .. (Len(s) + 1)
    BY <1>1, <1>3
  <2>2. QED
    BY <1>2, <1>3, <2>1
<1>5. m[Len(t) + 1] = 0 /\ m[1] = n + One(S, f.at)
  BY <1>1, <1>2, <1>3
<1>6. \A i \in 1 .. Len(t) : m[i] = m[i + 1] + One(S, t[i].at)
  <2>1. SUFFICES ASSUME NEW i \in 1 .. Len(t) PROVE m[i] = m[i + 1] + One(S, t[i].at)
    OBVIOUS
  <2>2. CASE i = 1
    BY <1>1, <1>2, <1>3, <2>2
  <2>3. CASE i # 1
    <3>1. /\ i - 1 \in 1 .. Len(s) /\ i \in 1 .. (Len(t) + 1)
          /\ i + 1 \in 1 .. (Len(t) + 1)
          /\ (i - 1) + 1 = i /\ (i + 1) - 1 = i /\ i + 1 # 1
      BY <1>1, <1>3, <2>3
    <3>2. m[i] = k[i - 1] /\ m[i + 1] = k[i]
      BY <2>3, <3>1
    <3>3. t[i] = s[i - 1]
      BY <1>1, <3>1
    <3>4. k[i - 1] = k[i] + One(S, s[i - 1].at)
      BY <1>2, <3>1
    <3>5. QED
      BY <3>2, <3>3, <3>4
  <2>4. QED
    BY <2>2, <2>3
<1> HIDE DEF m
<1>7. QED
  BY <1>1, <1>4, <1>5, <1>6 DEF Counts, t

(* A return takes it off again.                                            *)
LEMMA CountsPop ==
    ASSUME NEW s \in Seq(ProcFrames), s # <<>>, NEW S, NEW n \in Nat, Counts(s, S, n)
    PROVE  /\ Tail(s) \in Seq(ProcFrames) /\ Head(s) \in ProcFrames
           /\ n - One(S, Head(s).at) \in Nat
           /\ Counts(Tail(s), S, n - One(S, Head(s).at))
<1> DEFINE t == Tail(s)
<1>1. /\ t \in Seq(ProcFrames) /\ Head(s) \in ProcFrames /\ Len(s) = Len(t) + 1
      /\ Head(s) = s[1]
      /\ \A i \in 1 .. Len(t) : t[i] = s[i + 1]
  OBVIOUS
<1>2. PICK k \in [1 .. (Len(s) + 1) -> Nat] :
         /\ k[Len(s) + 1] = 0
         /\ \A i \in 1 .. Len(s) : k[i] = k[i + 1] + One(S, s[i].at)
         /\ k[1] = n
  BY DEF Counts
<1>3. One(S, Head(s).at) \in Nat /\ Len(t) \in Nat
  BY DEF One
<1> HIDE DEF t
<1>4. k[1] = k[2] + One(S, Head(s).at) /\ k[2] \in Nat /\ k[2] = n - One(S, Head(s).at)
  <2>1. 1 \in 1 .. Len(s) /\ 2 \in 1 .. (Len(s) + 1) /\ 1 + 1 = 2
    BY <1>1, <1>3
  <2>2. k[1] = k[2] + One(S, Head(s).at) /\ k[2] \in Nat
    BY <1>1, <1>2, <2>1
  <2>3. QED
    BY <1>2, <1>3, <2>2
<1> DEFINE m == [i \in 1 .. (Len(t) + 1) |-> k[i + 1]]
<1>5. m \in [1 .. (Len(t) + 1) -> Nat]
  <2>1. \A i \in 1 .. (Len(t) + 1) : i + 1 \in 1 .. (Len(s) + 1)
    BY <1>1, <1>3
  <2>2. QED
    BY <1>2, <2>1
<1>6. m[Len(t) + 1] = 0 /\ m[1] = k[2]
  BY <1>1, <1>2, <1>3
<1>7. \A i \in 1 .. Len(t) : m[i] = m[i + 1] + One(S, t[i].at)
  <2>1. SUFFICES ASSUME NEW i \in 1 .. Len(t) PROVE m[i] = m[i + 1] + One(S, t[i].at)
    OBVIOUS
  <2>2. /\ i \in 1 .. (Len(t) + 1) /\ i + 1 \in 1 .. (Len(t) + 1)
        /\ i + 1 \in 1 .. Len(s)
    BY <1>1, <1>3
  <2>3. m[i] = k[i + 1] /\ m[i + 1] = k[(i + 1) + 1]
    BY <2>2
  <2>4. k[i + 1] = k[(i + 1) + 1] + One(S, s[i + 1].at)
    BY <1>2, <2>2
  <2>5. QED
    BY <1>1, <2>3, <2>4
<1> HIDE DEF m
<1>8. Counts(t, S, n - One(S, Head(s).at))
  BY <1>4, <1>5, <1>6, <1>7 DEF Counts
<1>9. QED
  BY <1>1, <1>4, <1>8 DEF t

-----------------------------------------------------------------------------
(* The three moves of the process: within a function, into one, out of one  *)

(* What the frame on top counts is in the counters.                        *)
LEMMA TopCounts ==
    ASSUME MaskOK, NEW from, At(from)
    PROVE  /\ stack # <<>> /\ Tail(stack) \in Seq(ProcFrames)
           /\ Top \in ProcFrames /\ Top.at = from
           /\ irq_level - One(Masking, from) \in Nat
           /\ Bit(in_reset) - One(Resets, from) \in Nat
           /\ Counts(Tail(stack), Masking, irq_level - One(Masking, from))
           /\ Counts(Tail(stack), Resets, Bit(in_reset) - One(Resets, from))
<1>1. stack \in Seq(ProcFrames) /\ stack # <<>> /\ Top.at = from
  BY DEF MaskOK, At
<1>2. irq_level \in Nat /\ Bit(in_reset) \in Nat
  BY DEF MaskOK, Bit
<1>3. Counts(stack, Masking, irq_level) /\ Counts(stack, Resets, Bit(in_reset))
  BY DEF MaskOK
<1>4. QED
  BY <1>1, <1>2, <1>3, CountsPop DEF Top

(* The frame on top gives way to f.                                        *)
LEMMA Replaced ==
    ASSUME MaskOK, NEW from, At(from), NEW f \in ProcFrames,
           stack' = <<f>> \o Tail(stack),
           irq_level' = (irq_level - One(Masking, from)) + One(Masking, f.at),
           in_reset' \in BOOLEAN,
           Bit(in_reset') = (Bit(in_reset) - One(Resets, from)) + One(Resets, f.at)
    PROVE  MaskOK'
<1>1. /\ Tail(stack) \in Seq(ProcFrames)
      /\ irq_level - One(Masking, from) \in Nat
      /\ Bit(in_reset) - One(Resets, from) \in Nat
      /\ Counts(Tail(stack), Masking, irq_level - One(Masking, from))
      /\ Counts(Tail(stack), Resets, Bit(in_reset) - One(Resets, from))
  BY TopCounts
<1>2. /\ stack' \in Seq(ProcFrames)
      /\ Counts(stack', Masking, irq_level') /\ Counts(stack', Resets, Bit(in_reset'))
  BY <1>1, CountsPush
<1>3. irq_level' \in Nat
  BY <1>1 DEF One
<1>4. QED
  BY <1>2, <1>3 DEF MaskOK, Bit

(* The function on top goes on at a label.                                 *)
LEMMA Moved ==
    ASSUME MaskOK, NEW from, At(from), NEW to \in Labels, Goto(to),
           irq_level' = (irq_level - One(Masking, from)) + One(Masking, to),
           in_reset' \in BOOLEAN,
           Bit(in_reset') = (Bit(in_reset) - One(Resets, from)) + One(Resets, to)
    PROVE  MaskOK'
<1> DEFINE f == [Top EXCEPT !.at = to]
<1>1. Top \in ProcFrames
  BY TopCounts
<1>2. f \in ProcFrames /\ f.at = to
  BY <1>1 DEF ProcFrames
<1>3. stack' = <<f>> \o Tail(stack)
  BY DEF Goto
<1> HIDE DEF f
<1>4. QED
  BY <1>2, <1>3, Replaced

(* It calls another, whose frame is g.                                     *)
LEMMA Called ==
    ASSUME MaskOK, NEW from, At(from), NEW to \in Labels, NEW g \in ProcFrames,
           Call(g, to),
           irq_level' = ((irq_level - One(Masking, from)) + One(Masking, to))
                        + One(Masking, g.at),
           in_reset' \in BOOLEAN,
           Bit(in_reset') = ((Bit(in_reset) - One(Resets, from)) + One(Resets, to))
                            + One(Resets, g.at)
    PROVE  MaskOK'
<1> DEFINE f == [Top EXCEPT !.at = to]
           s == <<f>> \o Tail(stack)
           m == (irq_level - One(Masking, from)) + One(Masking, to)
           n == (Bit(in_reset) - One(Resets, from)) + One(Resets, to)
<1>1. /\ Top \in ProcFrames /\ Tail(stack) \in Seq(ProcFrames)
      /\ irq_level - One(Masking, from) \in Nat
      /\ Bit(in_reset) - One(Resets, from) \in Nat
      /\ Counts(Tail(stack), Masking, irq_level - One(Masking, from))
      /\ Counts(Tail(stack), Resets, Bit(in_reset) - One(Resets, from))
  BY TopCounts
<1>2. f \in ProcFrames /\ f.at = to
  BY <1>1 DEF ProcFrames
<1>3. m \in Nat /\ n \in Nat
  BY <1>1 DEF One
<1>4. stack' = <<g>> \o s
  <2>1. stack' = <<g, f>> \o Tail(stack)
    BY DEF Call
  <2> HIDE DEF f
  <2>2. <<g, f>> \o Tail(stack) = <<g>> \o (<<f>> \o Tail(stack))
    BY <1>1, <1>2
  <2>3. QED
    BY <2>1, <2>2
<1> HIDE DEF f
<1>5. s \in Seq(ProcFrames) /\ Counts(s, Masking, m) /\ Counts(s, Resets, n)
  BY <1>1, <1>2, CountsPush
<1>6. irq_level' = m + One(Masking, g.at) /\ Bit(in_reset') = n + One(Resets, g.at)
  OBVIOUS
<1> HIDE DEF s, m, n
<1>7. /\ stack' \in Seq(ProcFrames)
      /\ Counts(stack', Masking, irq_level') /\ Counts(stack', Resets, Bit(in_reset'))
  BY <1>3, <1>4, <1>5, <1>6, CountsPush
<1>8. irq_level' \in Nat
  BY <1>3, <1>6 DEF One
<1>9. QED
  BY <1>7, <1>8 DEF MaskOK, Bit

(* It returns.                                                             *)
LEMMA Returned ==
    ASSUME MaskOK, NEW from, At(from), stack' = Tail(stack),
           irq_level' = irq_level - One(Masking, from),
           in_reset' \in BOOLEAN,
           Bit(in_reset') = Bit(in_reset) - One(Resets, from)
    PROVE  MaskOK'
<1>1. /\ Tail(stack) \in Seq(ProcFrames)
      /\ irq_level - One(Masking, from) \in Nat
      /\ Counts(Tail(stack), Masking, irq_level - One(Masking, from))
      /\ Counts(Tail(stack), Resets, Bit(in_reset) - One(Resets, from))
  BY TopCounts
<1>2. QED
  BY <1>1 DEF MaskOK, Bit

(* The frames the functions call with.                                     *)
LEMMA CalledFrames ==
    /\ \A label \in Labels : Frame(label) \in ProcFrames /\ Frame(label).at = label
    /\ \A op \in {"other", "readid", "xfer"} :
          [at |-> "issue", cmd |-> Cmd(op)] \in ProcFrames
<1>1. 0 \in Cylinders
  BY CylindersAssumption
<1>2. QED
  BY <1>1 DEF Frame, None, Cmd, ProcFrames, Labels

LEMMA MaskType ==
    ASSUME MaskOK
    PROVE  irq_level \in Nat /\ in_reset \in BOOLEAN /\ Bit(in_reset) \in Nat
BY DEF MaskOK, Bit

-----------------------------------------------------------------------------
(* fdc_interrupt_wait()                                                     *)
LEMMA WaitMask ==
    ASSUME MaskOK, Wait \/ Woken \/ WaitInVain \/ WaitFailed
    PROVE  MaskOK'
<1>1. CASE Wait
  <2>1. /\ At("iw") /\ Goto("iw_sleep") /\ in_reset' = in_reset
        /\ irq_level' = fdc_enable_irq(irq_level)
    BY <1>1 DEF Wait, driver
  <2>2. irq_level' = (irq_level - One(Masking, "iw")) + One(Masking, "iw_sleep")
    BY <2>1, TopCounts, MaskType DEF One, Masking, fdc_enable_irq
  <2>3. QED
    BY <2>1, <2>2, Moved, MaskType DEF One, Resets, Labels
<1>2. CASE Woken
  <2>1. /\ At("iw_sleep") /\ stack' = Tail(stack) /\ in_reset' = in_reset
        /\ irq_level' = irq_level
    BY <1>2 DEF Woken, Return
  <2>2. QED
    BY <2>1, Returned, MaskType DEF One, Masking, Resets
<1>3. CASE WaitInVain
  <2>1. /\ At("iw_sleep") /\ Call(Frame("reset"), "iw_cleaned") /\ in_reset' = in_reset
        /\ irq_level' = irq_level
    BY <1>3 DEF WaitInVain, driver
  <2>2. Frame("reset") \in ProcFrames /\ Frame("reset").at = "reset"
    BY CalledFrames DEF Labels
  <2>3. QED
    BY <2>1, <2>2, Called, MaskType DEF One, Masking, Resets, Labels
<1>4. CASE WaitFailed
  <2>1. /\ At("iw_cleaned") /\ stack' = Tail(stack) /\ in_reset' = in_reset
        /\ irq_level' = irq_level
    BY <1>4 DEF WaitFailed, Return, driver
  <2>2. QED
    BY <2>1, Returned, MaskType DEF One, Masking, Resets
<1>5. QED
  BY <1>1, <1>2, <1>3, <1>4

(* fdc_reset(): at reset_waited and further frames are counted, and there  *)
(* is none yet when in_reset is not set.                                   *)
LEMMA ResetMask ==
    ASSUME MaskOK, ResetNested \/ Reset \/ ResetWaited \/ ResetSpecify \/ ResetEnd
    PROVE  MaskOK'
<1>1. CASE ResetNested
  <2>1. /\ At("reset") /\ stack' = Tail(stack) /\ in_reset' = in_reset
        /\ irq_level' = fdc_enable_irq(fdc_disable_irq(irq_level))
    BY <1>1 DEF ResetNested, Return, driver
  <2>2. irq_level' = irq_level
    BY <2>1, MaskType DEF fdc_enable_irq, fdc_disable_irq
  <2>3. QED
    BY <2>1, <2>2, Returned, MaskType DEF One, Masking, Resets
<1>2. CASE Reset
  <2>1. /\ At("reset") /\ Call(Frame("iw"), "reset_waited") /\ ~in_reset
        /\ in_reset' = TRUE /\ irq_level' = irq_level + 1
    BY <1>2 DEF Reset, fdc_disable_irq
  <2>2. Frame("iw") \in ProcFrames /\ Frame("iw").at = "iw"
    BY CalledFrames DEF Labels
  <2>3. Bit(in_reset) = 0 /\ Bit(in_reset') = 1
    BY <2>1 DEF Bit
  <2>4. QED
    BY <2>1, <2>2, <2>3, Called, MaskType DEF One, Masking, Resets, Labels
<1>3. CASE ResetWaited
  <2>1. At("reset_waited") /\ in_reset' = in_reset
    BY <1>3 DEF ResetWaited, driver
  <2>2. Frame("iw") \in ProcFrames /\ Frame("iw").at = "iw"
    BY CalledFrames DEF Labels
  <2>3. CASE Goto("reset_specify") /\ irq_level' = irq_level
    BY <2>1, <2>3, Moved, MaskType DEF One, Masking, Resets, Labels
  <2>4. CASE Call(Frame("iw"), "reset_waited") /\ irq_level' = irq_level + 1
    BY <2>1, <2>2, <2>4, Called, MaskType DEF One, Masking, Resets, Labels
  <2>5. QED
    BY <1>3, <2>3, <2>4 DEF ResetWaited, fdc_disable_irq
<1>4. CASE ResetSpecify
  <2> DEFINE g == [at |-> "issue", cmd |-> Cmd("other")]
  <2>1. /\ At("reset_specify") /\ Call(g, "reset_end") /\ in_reset' = in_reset
        /\ irq_level' = irq_level
    BY <1>4 DEF ResetSpecify, driver
  <2>2. g \in ProcFrames /\ g.at = "issue"
    BY CalledFrames
  <2> HIDE DEF g
  <2>3. QED
    BY <2>1, <2>2, Called, MaskType DEF One, Masking, Resets, Labels
<1>5. CASE ResetEnd
  <2>1. At("reset_end") /\ stack' = Tail(stack) /\ irq_level' = irq_level
    BY <1>5 DEF ResetEnd, Return
  <2>2. Bit(in_reset) = 1 /\ Bit(in_reset') = 0
    <3>1. Bit(in_reset) - 1 \in Nat
      BY <2>1, TopCounts DEF One, Resets
    <3>2. ~in_reset'
      BY <1>5 DEF ResetEnd
    <3>3. QED
      BY <3>1, <3>2 DEF Bit
  <2>3. in_reset' \in BOOLEAN
    BY <1>5 DEF ResetEnd
  <2>4. /\ irq_level' = irq_level - One(Masking, "reset_end")
        /\ Bit(in_reset') = Bit(in_reset) - One(Resets, "reset_end")
    BY <2>1, <2>2, MaskType DEF One, Masking, Resets
  <2>5. QED
    BY <2>1, <2>3, <2>4, Returned
<1>6. QED
  BY <1>1, <1>2, <1>3, <1>4, <1>5

-----------------------------------------------------------------------------
(* fdc_issue_command()                                                      *)
LEMMA IssueMask ==
    ASSUME MaskOK, Issue \/ IssueWaits \/ IssueChecked
    PROVE  MaskOK'
<1>1. CASE Issue
  <2>1. /\ At("issue") /\ stack' = Tail(stack) /\ in_reset' = in_reset
        /\ irq_level' = irq_level
    BY <1>1 DEF Issue, SendCommand
  <2>2. QED
    BY <2>1, Returned, MaskType DEF One, Masking, Resets
<1>2. CASE IssueWaits
  <2>1. /\ At("issue") /\ Call(Frame("iw"), "issue_checked") /\ in_reset' = in_reset
        /\ irq_level' = irq_level + 1
    BY <1>2 DEF IssueWaits, driver, fdc_disable_irq
  <2>2. Frame("iw") \in ProcFrames /\ Frame("iw").at = "iw"
    BY CalledFrames DEF Labels
  <2>3. QED
    BY <2>1, <2>2, Called, MaskType DEF One, Masking, Resets, Labels
<1>3. CASE IssueChecked
  <2>1. /\ At("issue_checked") /\ stack' = Tail(stack) /\ in_reset' = in_reset
        /\ irq_level' = irq_level
    BY <1>3 DEF IssueChecked, SendCommand, Return, driver
  <2>2. QED
    BY <2>1, Returned, MaskType DEF One, Masking, Resets
<1>4. QED
  BY <1>1, <1>2, <1>3

(* fdc_seek()                                                               *)
LEMMA SeekMask ==
    ASSUME MaskOK, Seek \/ SeekLock \/ SeekIssued \/ SeekFailed \/ SeekWaited
    PROVE  MaskOK'
<1>1. CASE Seek
  <2>1. At("seek") /\ Goto("seek_lock") /\ in_reset' = in_reset /\ irq_level' = irq_level
    BY <1>1 DEF Seek
  <2>2. QED
    BY <2>1, Moved, MaskType DEF One, Masking, Resets, Labels
<1>2. CASE SeekLock
  <2> DEFINE g == [at |-> "issue", cmd |-> Top.cmd]
  <2>1. /\ At("seek_lock") /\ Call(g, "seek_issued") /\ in_reset' = in_reset
        /\ irq_level' = irq_level + 1
    BY <1>2 DEF SeekLock, driver, fdc_disable_irq
  <2>2. g \in ProcFrames /\ g.at = "issue"
    <3>1. Top \in ProcFrames
      BY <2>1, TopCounts
    <3>2. QED
      BY <3>1 DEF ProcFrames, Labels
  <2> HIDE DEF g
  <2>3. QED
    BY <2>1, <2>2, Called, MaskType DEF One, Masking, Resets, Labels
<1>3. CASE SeekIssued
  <2>1. At("seek_issued") /\ in_reset' = in_reset
    BY <1>3 DEF SeekIssued, driver
  <2>2. \A label \in {"iw", "reset"} :
           Frame(label) \in ProcFrames /\ Frame(label).at = label
    BY CalledFrames DEF Labels
  <2>3. CASE Call(Frame("iw"), "seek_waited") /\ irq_level' = irq_level
    BY <2>1, <2>2, <2>3, Called, MaskType DEF One, Masking, Resets, Labels
  <2>4. CASE Call(Frame("reset"), "seek_failed") /\ irq_level' = fdc_enable_irq(irq_level)
    <3>1. irq_level' = irq_level - 1
      BY <2>1, <2>4, TopCounts, MaskType DEF One, Masking, fdc_enable_irq
    <3>2. QED
      BY <2>1, <2>2, <2>4, <3>1, Called, MaskType DEF One, Masking, Resets, Labels
  <2>5. QED
    BY <1>3, <2>3, <2>4 DEF SeekIssued
<1>4. CASE SeekFailed
  <2>1. /\ At("seek_failed") /\ stack' = Tail(stack) /\ in_reset' = in_reset
        /\ irq_level' = irq_level
    BY <1>4 DEF SeekFailed, Return, driver
  <2>2. QED
    BY <2>1, Returned, MaskType DEF One, Masking, Resets
<1>5. CASE SeekWaited
  <2>1. /\ At("seek_waited") /\ stack' = Tail(stack) /\ in_reset' = in_reset
        /\ irq_level' = irq_level
    BY <1>5 DEF SeekWaited, Return, driver
  <2>2. QED
    BY <2>1, Returned, MaskType DEF One, Masking, Resets
<1>6. QED
  BY <1>1, <1>2, <1>3, <1>4, <1>5

(* ftape_read_id() and fdc_setup_read_write()                              *)
LEMMA CommandMask ==
    ASSUME MaskOK, ReadId \/ ReadIdIssued \/ Setup \/ SetupPerpend \/ SetupDone
    PROVE  MaskOK'
<1> DEFINE g(op) == [at |-> "issue", cmd |-> Cmd(op)]
<1>1. \A op \in {"other", "readid", "xfer"} : g(op) \in ProcFrames /\ g(op).at = "issue"
  BY CalledFrames
<1>2. CASE ReadId
  <2>1. /\ At("readid") /\ Call(g("readid"), "readid_issued") /\ in_reset' = in_reset
        /\ irq_level' = irq_level + 1
    BY <1>2 DEF ReadId, driver, fdc_disable_irq
  <2> HIDE DEF g
  <2>2. QED
    BY <1>1, <2>1, Called, MaskType DEF One, Masking, Resets, Labels
<1>3. CASE ReadIdIssued
  <2>1. At("readid_issued") /\ in_reset' = in_reset
    BY <1>3 DEF ReadIdIssued, driver
  <2>2. CASE stack' = <<Frame("iw")>> \o Tail(stack) /\ irq_level' = irq_level
    <3>1. Frame("iw") \in ProcFrames /\ Frame("iw").at = "iw"
      BY CalledFrames DEF Labels
    <3>2. QED
      BY <2>1, <2>2, <3>1, Replaced, MaskType DEF One, Masking, Resets
  <2>3. CASE stack' = Tail(stack) /\ irq_level' = fdc_enable_irq(irq_level)
    <3>1. irq_level' = irq_level - 1
      BY <2>1, <2>3, TopCounts, MaskType DEF One, Masking, fdc_enable_irq
    <3>2. QED
      BY <2>1, <2>3, <3>1, Returned, MaskType DEF One, Masking, Resets
  <2>4. QED
    BY <1>3, <2>2, <2>3 DEF ReadIdIssued, Return
<1>4. CASE Setup
  <2>1. At("setup") /\ in_reset' = in_reset /\ irq_level' = irq_level + 1
    BY <1>4 DEF Setup, driver, fdc_disable_irq
  <2>2. Call(g("other"), "setup_perpend") \/ Call(g("xfer"), "setup_done")
    BY <1>4 DEF Setup
  <2> HIDE DEF g
  <2>3. QED
    BY <1>1, <2>1, <2>2, Called, MaskType DEF One, Masking, Resets, Labels
<1>5. CASE SetupPerpend
  <2>1. At("setup_perpend") /\ in_reset' = in_reset /\ irq_level' = irq_level
    BY <1>5 DEF SetupPerpend, driver
  <2>2. CASE Call(g("xfer"), "setup_done")
    <3> HIDE DEF g
    <3>1. QED
      BY <1>1, <2>1, <2>2, Called, MaskType DEF One, Masking, Resets, Labels
  <2>3. CASE Goto("setup_done")
    BY <2>1, <2>3, Moved, MaskType DEF One, Masking, Resets, Labels
  <2>4. QED
    BY <1>5, <2>2, <2>3 DEF SetupPerpend
<1>6. CASE SetupDone
  <2>1. /\ At("setup_done") /\ stack' = Tail(stack) /\ in_reset' = in_reset
        /\ irq_level' = fdc_enable_irq(irq_level)
    BY <1>6 DEF SetupDone, Return
  <2>2. irq_level' = irq_level - 1
    BY <2>1, TopCounts, MaskType DEF One, Masking, fdc_enable_irq
  <2>3. QED
    BY <2>1, <2>2, Returned, MaskType DEF One, Masking, Resets
<1>7. QED
  BY <1>2, <1>3, <1>4, <1>5, <1>6

(* ftape_wait_segment(), ftape_dumb_stop() and fdc_disable()               *)
LEMMA OtherMask ==
    ASSUME MaskOK,
           \/ WaitSegment \/ WaitSegmentEnd \/ StopTape \/ StopTapeEnd
           \/ Disable \/ DisableReset \/ DisableLock \/ DisableEnd
    PROVE  MaskOK'
<1>1. \A label \in {"iw", "reset"} :
         Frame(label) \in ProcFrames /\ Frame(label).at = label
  BY CalledFrames DEF Labels
<1>2. CASE WaitSegment
  <2>1. At("waitseg") /\ in_reset' = in_reset
    BY <1>2 DEF WaitSegment, driver
  <2>2. CASE Call(Frame("iw"), "waitseg_end") /\ irq_level' = irq_level + 1
    BY <1>1, <2>1, <2>2, Called, MaskType DEF One, Masking, Resets, Labels
  <2>3. CASE stack' = Tail(stack) /\ irq_level' = irq_level
    BY <2>1, <2>3, Returned, MaskType DEF One, Masking, Resets
  <2>4. QED
    BY <1>2, <2>2, <2>3 DEF WaitSegment, Return, fdc_disable_irq
<1>3. CASE WaitSegmentEnd
  <2>1. At("waitseg_end") /\ in_reset' = in_reset /\ irq_level' = irq_level
    BY <1>3 DEF WaitSegmentEnd, driver
  <2>2. CASE Goto("waitseg")
    BY <2>1, <2>2, Moved, MaskType DEF One, Masking, Resets, Labels
  <2>3. CASE stack' = Tail(stack)
    BY <2>1, <2>3, Returned, MaskType DEF One, Masking, Resets
  <2>4. QED
    BY <1>3, <2>2, <2>3 DEF WaitSegmentEnd, Return
<1>4. CASE StopTape
  <2>1. At("stop") /\ in_reset' = in_reset /\ irq_level' = irq_level
    BY <1>4 DEF StopTape, driver
  <2>2. CASE Call(Frame("reset"), "stop_end")
    BY <1>1, <2>1, <2>2, Called, MaskType DEF One, Masking, Resets, Labels
  <2>3. CASE Goto("stop_end")
    BY <2>1, <2>3, Moved, MaskType DEF One, Masking, Resets, Labels
  <2>4. QED
    BY <1>4, <2>2, <2>3 DEF StopTape
<1>5. CASE StopTapeEnd
  <2>1. /\ At("stop_end") /\ stack' = Tail(stack) /\ in_reset' = in_reset
        /\ irq_level' = irq_level
    BY <1>5 DEF StopTapeEnd, Return, driver
  <2>2. QED
    BY <2>1, Returned, MaskType DEF One, Masking, Resets
<1>6. CASE Disable
  <2> DEFINE g == [at |-> "issue", cmd |-> Cmd("other")]
  <2>1. At("disable") /\ in_reset' = in_reset /\ irq_level' = irq_level
    BY <1>6 DEF Disable, driver
  <2>2. g \in ProcFrames /\ g.at = "issue"
    BY CalledFrames
  <2>3. Call(g, "disable_reset") \/ Goto("disable_reset")
    BY <1>6 DEF Disable
  <2> HIDE DEF g
  <2>4. CASE Call(g, "disable_reset")
    BY <2>1, <2>2, <2>4, Called, MaskType DEF One, Masking, Resets, Labels
  <2>5. CASE Goto("disable_reset")
    BY <2>1, <2>5, Moved, MaskType DEF One, Masking, Resets, Labels
  <2>6. QED
    BY <2>3, <2>4, <2>5
<1>7. CASE DisableReset
  <2>1. /\ At("disable_reset") /\ Goto("disable_lock") /\ in_reset' = in_reset
        /\ irq_level' = irq_level
    BY <1>7 DEF DisableReset
  <2>2. QED
    BY <2>1, Moved, MaskType DEF One, Masking, Resets, Labels
<1>8. CASE DisableLock
  <2>1. /\ At("disable_lock") /\ Call(Frame("iw"), "disable_end") /\ in_reset' = in_reset
        /\ irq_level' = irq_level + 1
    BY <1>8 DEF DisableLock, fdc_disable_irq
  <2>2. QED
    BY <1>1, <2>1, Called, MaskType DEF One, Masking, Resets, Labels
<1>9. CASE DisableEnd
  <2>1. /\ At("disable_end") /\ stack' = Tail(stack) /\ in_reset' = in_reset
        /\ irq_level' = irq_level
    BY <1>9 DEF DisableEnd, Return
  <2>2. QED
    BY <2>1, Returned, MaskType DEF One, Masking, Resets
<1>10. QED
  BY <1>2, <1>3, <1>4, <1>5, <1>6, <1>7, <1>8, <1>9

(* The process calls a function, from outside the driver: its frame is the *)
(* only one, and at none of the counted labels.                            *)
LEMMA NewCallMask ==
    ASSUME MaskOK, NewCall
    PROVE  MaskOK'
<1>1. /\ irq_level = 0 /\ Bit(in_reset) = 0
      /\ irq_level' = irq_level /\ in_reset' = in_reset
  <2>1. stack = <<>>
    BY DEF NewCall
  <2>2. irq_level = 0 /\ Bit(in_reset) = 0
    BY <2>1, CountsEmpty DEF MaskOK
  <2>3. QED
    BY <2>2 DEF NewCall
<1>2. PICK f \in ProcFrames :
         stack' = <<f>> /\ f.at \in {"reset", "waitseg", "stop", "disable", "readid",
                                     "setup", "seek"}
  <2>1. CASE \E label \in {"reset", "waitseg", "stop", "disable", "readid", "setup"} :
                stack' = <<Frame(label)>>
    BY <2>1, CalledFrames DEF Labels
  <2>2. CASE ft_send_to_drive
    <3> DEFINE g(c, t) == [at |-> "seek", cmd |-> [Cmd("seek") EXCEPT !.from = c, !.to = t]]
    <3>1. PICK c \in Cylinders, t \in Cylinders : stack' = <<g(c, t)>>
      BY <2>2 DEF ft_send_to_drive
    <3>2. g(c, t) \in ProcFrames /\ g(c, t).at = "seek"
      BY DEF ProcFrames, Cmd, Labels
    <3>3. QED
      BY <3>1, <3>2
  <2>3. QED
    BY <2>1, <2>2 DEF NewCall
<1>3. <<f>> = <<f>> \o <<>> /\ <<>> \in Seq(ProcFrames)
  OBVIOUS
<1>4. One(Masking, f.at) = 0 /\ One(Resets, f.at) = 0
  BY <1>2 DEF One, Masking, Resets
<1>5. /\ stack' \in Seq(ProcFrames) /\ Counts(stack', Masking, 0)
      /\ Counts(stack', Resets, 0)
  <2>1. Counts(<<>>, Masking, 0) /\ Counts(<<>>, Resets, 0)
    BY CountsEmpty
  <2>2. /\ <<f>> \o <<>> \in Seq(ProcFrames)
        /\ Counts(<<f>> \o <<>>, Masking, 0 + One(Masking, f.at))
        /\ Counts(<<f>> \o <<>>, Resets, 0 + One(Resets, f.at))
    BY <1>2, <1>3, <2>1, CountsPush
  <2>3. QED
    BY <1>2, <1>3, <1>4, <2>2
<1>6. QED
  BY <1>1, <1>5, MaskType DEF MaskOK

-----------------------------------------------------------------------------
(* The handler's seek                                                       *)

(* The commands of the process and of a reset are no seeks of the handler. *)
LEMMA ProcessCommands ==
    /\ \A op : ~IsrCommand(Cmd(op))
    /\ \A f \in ProcFrames, b \in BOOLEAN : ~IsrCommand([f.cmd EXCEPT !.exact = b])
BY DEF IsrCommand, Cmd, ProcFrames

(* A command is written only when the handler's seek is not under way.     *)
LEMMA IssueSeek ==
    ASSUME MaskOK, IsrSeekOK, Issue \/ IssueChecked
    PROVE  IsrSeekOK' /\ (ret' = "ok" => ~IsrCommand(work))
<1>1. CASE ~IsrSeeks /\ SendCommand
  <2>1. ~hide_interrupt
    BY <1>1 DEF IsrSeeks
  <2>2. ~IsrCommand(work)
    BY <2>1 DEF IsrSeekOK
  <2>3. Top \in ProcFrames
    BY TopCounts DEF Issue, IssueChecked
  <2>4. ~IsrCommand(work')
    <3>1. work' = work \/ \E b \in BOOLEAN : work' = [Top.cmd EXCEPT !.exact = b]
      BY <1>1 DEF SendCommand, __fdc_command
    <3>2. QED
      BY <2>2, <2>3, <3>1, ProcessCommands
  <2>5. QED
    BY <2>2, <2>4 DEF IsrSeekOK
<1>2. CASE IsrSeeks /\ Return("err") /\ UNCHANGED <<driver, hardware, left, faults>>
  BY <1>2 DEF Return, driver, hardware, IsrSeekOK
<1>3. QED
  BY <1>1, <1>2 DEF Issue, IssueChecked

(* The handler clears hide_interrupt, or has a seek of its own begin.      *)
LEMMA HandlerSeek ==
    ASSUME IsrSeekOK, fdc_isr
    PROVE  IsrSeekOK'
<1>1. ~IsrCommand(work) /\ intr' = None
  BY DEF fdc_isr, IsrSeekOK
<1>2. ~IsrCommand(work') \/ hide_interrupt'
  <2>1. CASE handle_fdc_busy /\ mode = "xfer" /\ TransferEnded
    BY <1>1, <2>1, ProcessCommands DEF TransferEnded, None
  <2>2. CASE handle_fdc_busy /\ mode # "xfer"
    BY <1>1, <2>2 DEF handle_fdc_busy
  <2>3. CASE SenseInterrupt
    BY <1>1, <2>3 DEF SenseInterrupt
  <2>4. QED
    BY <2>1, <2>2, <2>3 DEF fdc_isr, handle_fdc_busy
<1>3. QED
  BY <1>1, <1>2 DEF IsrSeekOK, IsrCommand

(* The other steps leave the controller alone, reset it, or end a command. *)
LEMMA QuietSeek ==
    ASSUME IsrSeekOK,
           \/ work' = work /\ hide_interrupt' = hide_interrupt /\ intr' = intr
           \/ \E op : work' = Cmd(op)
    PROVE  IsrSeekOK'
<1>1. CASE work' = work /\ hide_interrupt' = hide_interrupt /\ intr' = intr
  BY <1>1 DEF IsrSeekOK, IsrCommand, None, Cmd
<1>2. CASE \E op : work' = Cmd(op)
  BY <1>2 DEF IsrSeekOK, IsrCommand, Cmd
<1>3. QED
  BY <1>1, <1>2

-----------------------------------------------------------------------------
(* The steps                                                                *)

(* The process's steps, but for the writing of a command.                  *)
LEMMA ProcessStep ==
    ASSUME SyncInv, Process
    PROVE  SyncInv'
<1>1. MaskOK /\ IsrSeekOK
  BY DEF SyncInv
<1>2. MaskOK'
  BY <1>1, WaitMask, ResetMask, IssueMask, SeekMask, CommandMask, OtherMask DEF Process
<1>3. CASE Issue \/ IssueChecked
  BY <1>1, <1>2, <1>3, IssueSeek DEF SyncInv
<1>4. CASE Reset \/ DisableLock
  <2>1. \E op : work' = Cmd(op)
    BY <1>4 DEF Reset, DisableLock, dor_reset
  <2>2. QED
    BY <1>1, <1>2, <2>1, QuietSeek DEF SyncInv
<1>5. CASE DisableEnd
  <2>1. work' = Cmd("none")
    BY <1>5 DEF DisableEnd, None
  <2>2. QED
    BY <1>1, <1>2, <2>1, QuietSeek DEF SyncInv
<1>6. CASE \/ Wait \/ Woken \/ WaitInVain \/ WaitFailed
           \/ ResetNested \/ ResetWaited \/ ResetSpecify \/ ResetEnd
  <2>1. work' = work /\ hide_interrupt' = hide_interrupt /\ intr' = intr
    BY <1>6 DEF Wait, Woken, WaitInVain, WaitFailed, ResetNested, ResetWaited,
                ResetSpecify, ResetEnd, driver, hardware
  <2>2. QED
    BY <1>1, <1>2, <2>1, QuietSeek DEF SyncInv
<1>7. CASE \/ IssueWaits \/ Seek \/ SeekLock \/ SeekIssued \/ SeekFailed \/ SeekWaited
           \/ ReadId \/ ReadIdIssued \/ Setup \/ SetupPerpend \/ SetupDone
  <2>1. work' = work /\ hide_interrupt' = hide_interrupt /\ intr' = intr
    BY <1>7 DEF IssueWaits, Seek, SeekLock, SeekIssued, SeekFailed, SeekWaited,
                ReadId, ReadIdIssued, Setup, SetupPerpend, SetupDone, driver, hardware
  <2>2. QED
    BY <1>1, <1>2, <2>1, QuietSeek DEF SyncInv
<1>8. CASE \/ WaitSegment \/ WaitSegmentEnd \/ StopTape \/ StopTapeEnd
           \/ Disable \/ DisableReset
  <2>1. work' = work /\ hide_interrupt' = hide_interrupt /\ intr' = intr
    BY <1>8 DEF WaitSegment, WaitSegmentEnd, StopTape, StopTapeEnd, Disable,
                DisableReset, driver, hardware
  <2>2. QED
    BY <1>1, <1>2, <2>1, QuietSeek DEF SyncInv
<1>9. QED
  BY <1>3, <1>4, <1>5, <1>6, <1>7, <1>8 DEF Process

(* A step of the process, the controller or the handler.                   *)
LEMMA SyncStep ==
    ASSUME SyncInv, [Next]_vars
    PROVE  SyncInv'
<1>1. MaskOK /\ IsrSeekOK
  BY DEF SyncInv
<1>2. ASSUME stack' = stack, irq_level' = irq_level, in_reset' = in_reset
      PROVE  MaskOK'
  BY <1>1, <1>2 DEF MaskOK
<1>3. CASE NewCall
  <2>1. work' = work /\ hide_interrupt' = hide_interrupt /\ intr' = intr
    BY <1>3 DEF NewCall, hardware
  <2>2. QED
    BY <1>1, <1>3, <2>1, NewCallMask, QuietSeek DEF SyncInv
<1>4. CASE Process
  BY <1>4, ProcessStep
<1>5. CASE Complete
  <2>1. work' = Cmd("none")
    BY <1>5 DEF Complete, None
  <2>2. MaskOK'
    BY <1>2, <1>5 DEF Complete, driver
  <2>3. QED
    BY <1>1, <2>1, <2>2, QuietSeek DEF SyncInv
<1>6. CASE fdc_isr
  <2>1. MaskOK'
    BY <1>2, <1>6 DEF fdc_isr
  <2>2. QED
    BY <1>1, <1>6, <2>1, HandlerSeek DEF SyncInv
<1>7. CASE UNCHANGED vars
  <2>1. work' = work /\ hide_interrupt' = hide_interrupt /\ intr' = intr
    BY <1>7 DEF vars, driver, hardware
  <2>2. MaskOK'
    BY <1>2, <1>7 DEF vars, driver
  <2>3. QED
    BY <1>1, <2>1, <2>2, QuietSeek DEF SyncInv
<1>8. QED
  BY <1>3, <1>4, <1>5, <1>6, <1>7 DEF Next

LEMMA SyncInit == Init => SyncInv
<1>1. SUFFICES ASSUME Init PROVE SyncInv
  OBVIOUS
<1>2. stack = <<>> /\ irq_level = 0 /\ ~in_reset /\ in_reset \in BOOLEAN
  BY <1>1 DEF Init
<1>3. Bit(in_reset) = 0
  BY <1>2 DEF Bit
<1>4. MaskOK
  BY <1>2, <1>3, CountsEmpty DEF MaskOK
<1>5. IsrSeekOK
  BY <1>1 DEF Init, IsrSeekOK, IsrCommand, None, Cmd
<1>6. QED
  BY <1>4, <1>5 DEF SyncInv

-----------------------------------------------------------------------------
(* Theorems                                                                 *)

(***************************************************************************)
(* The inductive invariant: the interrupt is masked as often as frames on  *)
(* the stack say, one reset at most is under way, and the handler's seek   *)
(* is hidden.                                                              *)
(***************************************************************************)
THEOREM SyncInvariant == Spec => []SyncInv
  BY SyncInit, SyncStep, PTL DEF Spec

(***************************************************************************)
(* Every fdc_disable_irq() is undone, on every path through the functions  *)
(* that use the controller: when the process is outside of them the        *)
(* interrupt is not masked, and no reset is unfinished.                    *)
(***************************************************************************)
THEOREM MaskReleased == Spec => []MaskIsReleased
<1>1. SyncInv => MaskIsReleased
  <2>1. SUFFICES ASSUME SyncInv, stack = <<>> PROVE irq_level = 0 /\ ~in_reset
    BY DEF MaskIsReleased
  <2>2. irq_level = 0 /\ Bit(in_reset) = 0
    BY <2>1, CountsEmpty DEF SyncInv, MaskOK
  <2>3. QED
    BY <2>2 DEF Bit
<1>2. QED
  BY <1>1, SyncInvariant, PTL

(***************************************************************************)
(* fdc_issue_command() never succeeds in writing a command while the       *)
(* handler's seek is under way.                                            *)
(***************************************************************************)
THEOREM CommandsNeverMix == Spec => CommandsDoNotMix
<1> DEFINE Apart == (Issue \/ IssueChecked) /\ ret' = "ok" => ~IsrCommand(work)
<1>1. SyncInv /\ [Next]_vars => [Apart]_vars
  BY IssueSeek DEF SyncInv
<1>2. QED
  BY <1>1, SyncInvariant, PTL DEF Spec, CommandsDoNotMix

-----------------------------------------------------------------------------
(* Where the process is: the label it is at, the one it returns to, and     *)
(* the one in the function that was called from outside.                    *)

TopOf(s)  == IF s = <<>> THEN "out" ELSE s[1].at
NextOf(s) == IF Len(s) < 2 THEN "out" ELSE s[2].at
LastOf(s) == IF s = <<>> THEN "out" ELSE s[Len(s)].at
AimOf(s)  == s[Len(s)].cmd.to

Here  == TopOf(stack)
Back  == NextOf(stack)
Outer == LastOf(stack)
Aim   == AimOf(stack)

(* The labels of fdc_interrupt_wait(), fdc_reset(), fdc_issue_command(),   *)
(* and fdc_seek(); the others are of functions called from outside only.   *)
WaitLabels  == {"iw", "iw_sleep", "iw_cleaned"}
ResetLabels == {"reset", "reset_waited", "reset_specify", "reset_end"}
IssueLabels == {"issue", "issue_checked"}
SeekLabels  == {"seek", "seek_lock", "seek_issued", "seek_failed", "seek_waited"}

(* They hold the interrupt masked while they issue a command.              *)
OuterMasks == {"seek_issued", "readid_issued", "setup_perpend", "setup_done"}

(* f may have been called from g.                                          *)
Fits(f, g) ==
    \/ f.at \in WaitLabels /\ g.at \in {"reset_waited", "issue_checked", "seek_waited",
                                        "waitseg_end", "disable_end"}
    \/ f.at \in ResetLabels /\ g.at \in {"iw_cleaned", "seek_failed", "stop_end"}
    \/ /\ f.at \in IssueLabels
       /\ \/ g.at \in {"reset_end", "setup_perpend", "disable_reset"} /\ f.cmd.op = "other"
          \/ g.at = "seek_issued" /\ f.cmd = g.cmd
          \/ g.at = "readid_issued" /\ f.cmd.op = "readid"
          \/ g.at = "setup_done" /\ f.cmd.op = "xfer"

Sound(f) == f.at \in SeekLabels => f.cmd.op = "seek"

Shape(s) ==
    /\ s \in Seq(ProcFrames)
    /\ \A i \in 1 .. (Len(s) - 1) : Fits(s[i], s[i + 1])
    /\ \A i \in 1 .. Len(s) : Sound(s[i])
    /\ LastOf(s) \notin IssueLabels

(* Two labels of one function.                                             *)
Kin(a, b) ==
    /\ a \in WaitLabels <=> b \in WaitLabels
    /\ a \in ResetLabels <=> b \in ResetLabels
    /\ a \in IssueLabels <=> b \in IssueLabels
    /\ a \in SeekLabels <=> b \in SeekLabels

(* A stack of one frame is called from outside; in a larger one the top    *)
(* frame fits to the one below.                                            *)
LEMMA ShapeFacts ==
    ASSUME NEW s, Shape(s), s # <<>>
    PROVE  /\ Len(s) \in Nat /\ Len(s) >= 1 /\ Head(s) = s[1]
           /\ s[1] \in ProcFrames /\ s[1].at = TopOf(s) /\ TopOf(s) \in Labels
           /\ Sound(s[1])
           /\ Len(s) = 1 => NextOf(s) = "out" /\ LastOf(s) = TopOf(s)
                            /\ AimOf(s) = s[1].cmd.to
           /\ Len(s) # 1 => /\ Len(s) >= 2 /\ s[2] \in ProcFrames
                            /\ NextOf(s) = s[2].at /\ Fits(s[1], s[2])
           /\ Len(s) = 2 => NextOf(s) = LastOf(s) /\ AimOf(s) = s[2].cmd.to
           /\ Len(s) > 2 => Fits(s[2], s[3])
<1>1. s \in Seq(ProcFrames) /\ Len(s) \in Nat /\ Len(s) >= 1 /\ Head(s) = s[1]
  BY DEF Shape
<1>2. \A i \in 1 .. Len(s) : s[i] \in ProcFrames
  BY <1>1
<1>3. s[1] \in ProcFrames /\ s[1].at = TopOf(s) /\ TopOf(s) \in Labels /\ Sound(s[1])
  BY <1>1, <1>2 DEF TopOf, ProcFrames, Shape
<1>4. ASSUME Len(s) = 1
      PROVE  NextOf(s) = "out" /\ LastOf(s) = TopOf(s) /\ AimOf(s) = s[1].cmd.to
  BY <1>1, <1>4 DEF NextOf, LastOf, TopOf, AimOf
<1>5. ASSUME Len(s) # 1
      PROVE  Len(s) >= 2 /\ s[2] \in ProcFrames /\ NextOf(s) = s[2].at /\ Fits(s[1], s[2])
  <2>1. Len(s) >= 2 /\ 2 \in 1 .. Len(s) /\ 1 \in 1 .. (Len(s) - 1) /\ 1 + 1 = 2
    <3>1. /\ 1 + 1 = 2
          /\ \A n \in Nat : n >= 1 /\ n # 1
                => n >= 2 /\ 2 \in 1 .. n /\ 1 \in 1 .. (n - 1)
      OBVIOUS
    <3>2. Len(s) \in Nat /\ Len(s) >= 1 /\ Len(s) # 1
      BY <1>1, <1>5
    <3>3. QED
      BY <3>1, <3>2, Zenon
  <2>2. Fits(s[1], s[1 + 1])
    <3>1. \A i \in 1 .. (Len(s) - 1) : Fits(s[i], s[i + 1])
      BY DEF Shape
    <3>2. QED
      BY <2>1, <3>1
  <2>3. QED
    BY <1>2, <2>1, <2>2 DEF NextOf
<1>6. ASSUME Len(s) = 2
      PROVE  NextOf(s) = LastOf(s) /\ AimOf(s) = s[2].cmd.to
  BY <1>1, <1>6 DEF NextOf, LastOf, AimOf
<1>7. ASSUME Len(s) > 2
      PROVE  Fits(s[2], s[3])
  <2>1. 2 \in 1 .. (Len(s) - 1) /\ 2 + 1 = 3
    BY <1>1, <1>7
  <2>2. Fits(s[2], s[2 + 1])
    BY <2>1 DEF Shape
  <2>3. QED
    BY <2>1, <2>2
<1>8. QED
  BY <1>1, <1>3, <1>4, <1>5, <1>6, <1>7

(* The top frame goes on to another label of its function.                 *)
LEMMA ReplaceShape ==
    ASSUME NEW s, Shape(s), s # <<>>, NEW f \in ProcFrames,
           Kin(s[1].at, f.at), f.cmd = s[1].cmd
    PROVE  LET r == <<f>> \o Tail(s)
           IN  /\ Shape(r) /\ r # <<>> /\ r[1] = f /\ Len(r) = Len(s)
               /\ TopOf(r) = f.at /\ NextOf(r) = NextOf(s)
               /\ LastOf(r) = (IF Len(s) = 1 THEN f.at ELSE LastOf(s))
               /\ AimOf(r) = AimOf(s)
<1> DEFINE r == <<f>> \o Tail(s)
<1>1. s \in Seq(ProcFrames) /\ Len(s) \in Nat /\ Len(s) >= 1
  BY DEF Shape
<1>2. /\ r \in Seq(ProcFrames) /\ Len(r) = Len(s) /\ r[1] = f /\ r # <<>>
      /\ \A i \in 1 .. Len(s) : i # 1 => r[i] = s[i]
  BY <1>1
<1> HIDE DEF r
<1>3. \A i \in 1 .. (Len(r) - 1) : Fits(r[i], r[i + 1])
  <2>1. SUFFICES ASSUME NEW i \in 1 .. (Len(r) - 1) PROVE Fits(r[i], r[i + 1])
    OBVIOUS
  <2>2. /\ i \in 1 .. (Len(s) - 1) /\ i \in 1 .. Len(s) /\ i + 1 \in 1 .. Len(s)
        /\ i + 1 # 1
    BY <1>1, <1>2
  <2>3. Fits(s[i], s[i + 1]) /\ r[i + 1] = s[i + 1]
    BY <1>2, <2>2 DEF Shape
  <2>4. CASE i = 1
    BY <1>2, <2>3, <2>4 DEF Fits, Kin
  <2>5. CASE i # 1
    BY <1>2, <2>2, <2>3, <2>5
  <2>6. QED
    BY <2>4, <2>5
<1>4. \A i \in 1 .. Len(r) : Sound(r[i])
  <2>1. \A i \in 1 .. Len(s) : Sound(s[i])
    BY DEF Shape
  <2>2. Sound(f)
    BY <1>1, <2>1 DEF Sound, Kin
  <2>3. QED
    BY <1>1, <1>2, <2>1, <2>2
<1>5. TopOf(r) = f.at
  BY <1>2 DEF TopOf
<1>6. NextOf(r) = NextOf(s)
  BY <1>1, <1>2 DEF NextOf
<1>7. /\ LastOf(r) = (IF Len(s) = 1 THEN f.at ELSE LastOf(s))
      /\ AimOf(r) = AimOf(s)
  BY <1>1, <1>2 DEF LastOf, AimOf
<1>8. Shape(r)
  <2>1. LastOf(r) \notin IssueLabels
    <3>1. LastOf(s) \notin IssueLabels
      BY DEF Shape
    <3>2. Len(s) = 1 => LastOf(s) = s[1].at
      BY <1>1 DEF LastOf
    <3>3. QED
      BY <1>7, <3>1, <3>2 DEF Kin
  <2>2. QED
    BY <1>2, <1>3, <1>4, <2>1 DEF Shape
<1>9. QED
  BY <1>2, <1>5, <1>6, <1>7, <1>8 DEF r

(* A function is called.                                                   *)
LEMMA PushShape ==
    ASSUME NEW s, Shape(s), s # <<>>, NEW g \in ProcFrames, Fits(g, s[1]), Sound(g)
    PROVE  LET r == <<g>> \o s
           IN  /\ Shape(r) /\ r # <<>> /\ Len(r) = Len(s) + 1
               /\ TopOf(r) = g.at /\ NextOf(r) = TopOf(s)
               /\ LastOf(r) = LastOf(s) /\ AimOf(r) = AimOf(s)
<1> DEFINE r == <<g>> \o s
<1>1. s \in Seq(ProcFrames) /\ Len(s) \in Nat /\ Len(s) >= 1
  BY DEF Shape
<1>2. /\ r \in Seq(ProcFrames) /\ Len(r) = Len(s) + 1 /\ r[1] = g /\ r # <<>>
      /\ \A i \in 1 .. Len(s) : r[i + 1] = s[i]
  BY <1>1
<1> HIDE DEF r
<1>3. \A i \in 1 .. (Len(r) - 1) : Fits(r[i], r[i + 1])
  <2>1. SUFFICES ASSUME NEW i \in 1 .. (Len(r) - 1) PROVE Fits(r[i], r[i + 1])
    OBVIOUS
  <2>2. i \in 1 .. Len(s) /\ r[i + 1] = s[i]
    BY <1>1, <1>2
  <2>3. CASE i = 1
    BY <1>2, <2>2, <2>3
  <2>4. CASE i # 1
    <3>1. /\ i - 1 \in 1 .. (Len(s) - 1) /\ i - 1 \in 1 .. Len(s)
          /\ (i - 1) + 1 = i
      BY <1>1, <2>2, <2>4
    <3>2. Fits(s[i - 1], s[i]) /\ r[i] = s[i - 1]
      BY <1>2, <3>1 DEF Shape
    <3>3. QED
      BY <2>2, <3>2
  <2>5. QED
    BY <2>3, <2>4
<1>4. \A i \in 1 .. Len(r) : Sound(r[i])
  <2>1. SUFFICES ASSUME NEW i \in 1 .. Len(r), i # 1 PROVE Sound(r[i])
    BY <1>2
  <2>2. i - 1 \in 1 .. Len(s) /\ (i - 1) + 1 = i
    BY <1>1, <1>2, <2>1
  <2>3. r[i] = s[i - 1]
    BY <1>2, <2>2
  <2>4. QED
    BY <2>2, <2>3 DEF Shape
<1>5. r[2] = s[1] /\ r[Len(r)] = s[Len(s)]
  <2>1. 1 \in 1 .. Len(s) /\ 1 + 1 = 2 /\ Len(s) \in 1 .. Len(s)
    BY <1>1
  <2>2. QED
    BY <1>2, <2>1
<1>6. TopOf(r) = g.at /\ NextOf(r) = TopOf(s)
  <2>1. ~(Len(r) < 2) /\ s # <<>>
    BY <1>1, <1>2
  <2>2. QED
    BY <1>2, <1>5, <2>1 DEF TopOf, NextOf
<1>7. LastOf(r) = LastOf(s) /\ AimOf(r) = AimOf(s)
  BY <1>2, <1>5 DEF LastOf, AimOf
<1>8. Shape(r)
  BY <1>2, <1>3, <1>4, <1>7 DEF Shape
<1>9. QED
  BY <1>2, <1>6, <1>7, <1>8 DEF r

(* It returns.                                                             *)
LEMMA PopShape ==
    ASSUME NEW s, Shape(s), s # <<>>
    PROVE  LET r == Tail(s)
           IN  /\ Shape(r) /\ Len(r) = Len(s) - 1 /\ (r = <<>> <=> Len(s) = 1)
               /\ TopOf(r) = NextOf(s)
               /\ LastOf(r) = (IF Len(s) = 1 THEN "out" ELSE LastOf(s))
               /\ Len(s) # 1 => AimOf(r) = AimOf(s)
<1> DEFINE r == Tail(s)
<1>1. s \in Seq(ProcFrames) /\ Len(s) \in Nat /\ Len(s) >= 1
  BY DEF Shape
<1>2. /\ r \in Seq(ProcFrames) /\ Len(r) = Len(s) - 1 /\ (r = <<>> <=> Len(s) = 1)
      /\ \A i \in 1 .. Len(r) : r[i] = s[i + 1]
  <2>1. r \in Seq(ProcFrames) /\ Len(r) = Len(s) - 1
    BY <1>1
  <2>2. \A i \in 1 .. Len(r) : r[i] = s[i + 1]
    BY <1>1
  <2> HIDE DEF r
  <2>3. r = <<>> <=> Len(r) = 0
    BY <2>1, EmptySeq
  <2>4. QED
    BY <1>1, <2>1, <2>2, <2>3
<1> HIDE DEF r
<1>3. \A i \in 1 .. (Len(r) - 1) : Fits(r[i], r[i + 1])
  <2>1. SUFFICES ASSUME NEW i \in 1 .. (Len(r) - 1) PROVE Fits(r[i], r[i + 1])
    OBVIOUS
  <2>2. i \in 1 .. Len(r) /\ i + 1 \in 1 .. Len(r) /\ i + 1 \in 1 .. (Len(s) - 1)
    BY <1>1, <1>2
  <2>3. r[i] = s[i + 1] /\ r[i + 1] = s[(i + 1) + 1]
    BY <1>2, <2>2
  <2>4. Fits(s[i + 1], s[(i + 1) + 1])
    BY <2>2 DEF Shape
  <2>5. QED
    BY <2>3, <2>4
<1>4. \A i \in 1 .. Len(r) : Sound(r[i])
  <2>1. SUFFICES ASSUME NEW i \in 1 .. Len(r) PROVE Sound(r[i])
    OBVIOUS
  <2>2. i + 1 \in 1 .. Len(s) /\ r[i] = s[i + 1]
    BY <1>1, <1>2
  <2>3. QED
    BY <2>2 DEF Shape
<1>5. ASSUME LastOf(r) \notin IssueLabels PROVE Shape(r)
  BY <1>2, <1>3, <1>4, <1>5 DEF Shape
<1>6. CASE Len(s) = 1
  <2>1. LastOf(r) = "out" /\ TopOf(r) = NextOf(s)
    BY <1>2, <1>6 DEF TopOf, NextOf, LastOf
  <2>2. Shape(r)
    BY <1>5, <2>1 DEF IssueLabels
  <2>3. QED
    BY <1>2, <1>6, <2>1, <2>2 DEF r
<1>7. CASE Len(s) # 1
  <2>1. /\ 1 \in 1 .. Len(r) /\ Len(r) \in 1 .. Len(r) /\ 1 + 1 = 2
        /\ Len(r) + 1 = Len(s)
    BY <1>1, <1>2, <1>7
  <2>2. r[1] = s[2] /\ r[Len(r)] = s[Len(s)] /\ r # <<>> /\ Len(s) >= 2
    BY <1>1, <1>2, <1>7, <2>1
  <2>3. TopOf(r) = NextOf(s)
    BY <1>1, <2>2 DEF TopOf, NextOf
  <2>4. LastOf(r) = LastOf(s) /\ AimOf(r) = AimOf(s)
    BY <2>2 DEF LastOf, AimOf
  <2>5. Shape(r)
    BY <1>5, <2>4 DEF Shape
  <2>6. QED
    BY <1>2, <1>7, <2>3, <2>4, <2>5 DEF r
<1>8. QED
  BY <1>6, <1>7

-----------------------------------------------------------------------------
(* The moves of the process, again                                          *)

Alone == Len(stack) = 1

(* What the label of the top frame says of the ones below.                 *)
LEMMA PlaceFacts ==
    ASSUME Shape(stack), NEW from, At(from)
    PROVE  /\ stack # <<>> /\ Here = from /\ from \in Labels
           /\ Top = stack[1] /\ Top \in ProcFrames /\ Top.at = from /\ Sound(Top)
           /\ Alone => /\ Outer = from /\ Back = "out" /\ Aim = Top.cmd.to
                       /\ from \notin IssueLabels
           /\ ~Alone => Back = stack[2].at /\ Fits(Top, stack[2]) /\ Sound(stack[2])
           /\ ~Alone /\ Back \notin WaitLabels \cup ResetLabels \cup IssueLabels
                => Outer = Back /\ Aim = stack[2].cmd.to
<1>1. stack # <<>> /\ Top.at = from
  BY DEF At
<1>2. /\ Head(stack) = stack[1] /\ stack[1] \in ProcFrames /\ stack[1].at = TopOf(stack)
      /\ TopOf(stack) \in Labels /\ Sound(stack[1])
  BY <1>1, ShapeFacts
<1>3. /\ Alone => /\ NextOf(stack) = "out" /\ LastOf(stack) = TopOf(stack)
                  /\ AimOf(stack) = stack[1].cmd.to
      /\ ~Alone => NextOf(stack) = stack[2].at /\ Fits(stack[1], stack[2])
  BY <1>1, ShapeFacts DEF Alone
<1>4. Alone => from \notin IssueLabels
  BY <1>1, <1>2, <1>3 DEF Shape, Top
<1>5. ~Alone => Sound(stack[2])
  <2>1. \A n \in Nat : n >= 2 => 2 \in 1 .. n
    OBVIOUS
  <2>2. ~Alone => Len(stack) \in Nat /\ Len(stack) >= 2
    BY <1>1, ShapeFacts DEF Alone
  <2>3. \A i \in 1 .. Len(stack) : Sound(stack[i])
    BY DEF Shape
  <2>4. QED
    BY <2>1, <2>2, <2>3
<1>6. ASSUME ~Alone, stack[2].at \notin WaitLabels \cup ResetLabels \cup IssueLabels
      PROVE  LastOf(stack) = NextOf(stack) /\ AimOf(stack) = stack[2].cmd.to
  <2>1. Len(stack) > 2 => Fits(stack[2], stack[3])
    BY <1>1, ShapeFacts
  <2>2. ~(Len(stack) > 2)
    BY <1>6, <2>1 DEF Fits
  <2>3. Len(stack) = 2
    <3>1. \A n \in Nat : n >= 2 /\ ~(n > 2) => n = 2
      OBVIOUS
    <3>2. Len(stack) \in Nat /\ Len(stack) >= 2
      BY <1>1, <1>6, ShapeFacts DEF Alone
    <3>3. QED
      BY <2>2, <3>1, <3>2
  <2>4. QED
    BY <1>1, <2>3, ShapeFacts
<1>7. QED
  BY <1>1, <1>2, <1>3, <1>4, <1>5, <1>6 DEF Top, Here, Back, Outer, Aim

LEMMA GotoPlace ==
    ASSUME Shape(stack), NEW from, At(from), NEW to \in Labels, Kin(from, to), Goto(to)
    PROVE  /\ Shape(stack') /\ stack' # <<>> /\ ret' = ret
           /\ Here' = to /\ Back' = Back /\ Aim' = Aim
           /\ Outer' = IF Alone THEN to ELSE Outer
<1> DEFINE f == [Top EXCEPT !.at = to]
<1>1. stack # <<>> /\ Top = stack[1] /\ Top \in ProcFrames /\ Top.at = from
  BY PlaceFacts
<1>2. f \in ProcFrames /\ f.at = to /\ f.cmd = stack[1].cmd
  BY <1>1 DEF ProcFrames
<1>3. stack' = <<f>> \o Tail(stack) /\ ret' = ret
  BY DEF Goto
<1> HIDE DEF f
<1>4. Kin(stack[1].at, f.at)
  BY <1>1, <1>2
<1>5. QED
  BY <1>1, <1>2, <1>3, <1>4, ReplaceShape DEF Here, Back, Outer, Aim, Alone

LEMMA CallPlace ==
    ASSUME Shape(stack), NEW from, At(from), NEW to \in Labels, Kin(from, to),
           NEW g \in ProcFrames, Fits(g, [Top EXCEPT !.at = to]), g.at \notin SeekLabels,
           Call(g, to)
    PROVE  /\ Shape(stack') /\ stack' # <<>> /\ ret' = ret
           /\ Here' = g.at /\ Back' = to /\ Aim' = Aim
           /\ Outer' = IF Alone THEN to ELSE Outer
<1> DEFINE f == [Top EXCEPT !.at = to]
           s == <<f>> \o Tail(stack)
<1>1. /\ stack # <<>> /\ Top = stack[1] /\ Top \in ProcFrames /\ Top.at = from
      /\ Tail(stack) \in Seq(ProcFrames)
  <2>1. stack # <<>> /\ Top = stack[1] /\ Top \in ProcFrames /\ Top.at = from
    BY PlaceFacts
  <2>2. QED
    BY <2>1 DEF Shape
<1>2. f \in ProcFrames /\ f.at = to /\ f.cmd = stack[1].cmd
  BY <1>1 DEF ProcFrames
<1>3. stack' = <<g>> \o s /\ ret' = ret
  <2>1. stack' = <<g, f>> \o Tail(stack) /\ ret' = ret
    BY DEF Call
  <2> HIDE DEF f
  <2>2. <<g, f>> \o Tail(stack) = <<g>> \o (<<f>> \o Tail(stack))
    BY <1>1, <1>2
  <2>3. QED
    BY <2>1, <2>2
<1>4. Fits(g, f) /\ Sound(g)
  BY DEF Sound
<1> HIDE DEF f
<1>5. Kin(stack[1].at, f.at)
  BY <1>1, <1>2
<1>6. /\ Shape(s) /\ s # <<>> /\ s[1] = f /\ TopOf(s) = to
      /\ LastOf(s) = (IF Alone THEN to ELSE Outer) /\ AimOf(s) = Aim
  BY <1>1, <1>2, <1>5, ReplaceShape DEF Outer, Aim, Alone
<1> HIDE DEF s
<1>7. QED
  BY <1>3, <1>4, <1>6, PushShape DEF Here, Back, Outer, Aim

LEMMA ReturnPlace ==
    ASSUME Shape(stack), NEW from, At(from), stack' = Tail(stack)
    PROVE  /\ Shape(stack') /\ (Alone <=> stack' = <<>>)
           /\ Here' = Back /\ (~Alone => Aim' = Aim)
           /\ Outer' = IF Alone THEN "out" ELSE Outer
BY PlaceFacts, PopShape DEF Here, Back, Outer, Aim, Alone

-----------------------------------------------------------------------------
(* What is under way at the controller, as long as no interrupt is lost     *)

(* An interrupt is masked by fdc_interrupt_wait(), and once more by the    *)
(* function that has a command issued.                                     *)
LevelOK == irq_level = One({"iw"}, Here) + One(OuterMasks, Outer)

(* fdc_issue_command() waits with the interrupt masked only for the        *)
(* handler's seek, of which it can then not hear.                          *)
HiddenOK == Outer \in OuterMasks /\ Here # "issue" /\ Here # Outer => hide_interrupt

Still == work = None /\ intr = None
Polls == \/ work = Cmd("poll") /\ intr \in {None, Cmd("stray")}
         \/ work = None /\ intr = Cmd("poll")

(* Within a reset the drives are polled; the reset goes on once that is    *)
(* over, or, with the interrupt masked, never heard of.                    *)
ResetOK ==
    /\ resetting => Polls
    /\ ~resetting => Still /\ ~hide_interrupt /\ current_cylinder = pcn
    /\ Outer \in OuterMasks => resetting /\ hide_interrupt
    /\ resetting /\ Outer \notin OuterMasks
         => \/ Here \in {"iw", "iw_sleep"} /\ Back = "reset_waited"
            \/ Here = "reset_waited" /\ ret = "ok"
    /\ ~resetting /\ Here \in {"iw", "iw_sleep"} => interrupt_seen
    /\ Outer \in OuterMasks /\ work # None
         => Here \in {"iw", "iw_sleep"} /\ Back = "reset_waited" /\ ~interrupt_seen
    /\ Outer # "seek_waited"

(* fdc_seek() has its command sent and has not returned yet.               *)
Sent == (Here = "seek_issued" /\ ret = "ok") \/ Outer = "seek_waited"

SentOK ==
    /\ ~hide_interrupt
    /\ \/ /\ ~interrupt_seen /\ Here # "seek_waited"
          /\ \/ /\ work.op = "seek" /\ work.by = "process" /\ work.to = Aim /\ intr = None
                /\ work.from = current_cylinder => work.exact
             \/ work = None /\ intr.op = "seek" /\ pcn = Aim
       \/ /\ Still /\ current_cylinder = pcn /\ pcn = Aim
          /\ interrupt_seen \/ Here = "seek_waited"
    /\ \/ Here \in {"seek_issued", "seek_waited"}
       \/ Here \in {"iw", "iw_sleep"} /\ Back = "seek_waited"

(* The driver knows where the head is, except when the controller has been *)
(* given up and is about to be reset.                                      *)
Known == current_cylinder = pcn \/ Outer = "reset"

PlainOK ==
    /\ ~hide_interrupt =>
          /\ Known
          /\ \/ Still
             \/ work.op \in {"xfer", "readid"} /\ intr = None
             \/ work = None /\ intr.op \in {"xfer", "readid"}
    /\ hide_interrupt =>
          \/ IsrCommand(work) /\ work.exact /\ intr = None
          \/ work = None /\ intr.op \in {"seek", "poll"}
          \/ Still /\ Known
    /\ Outer = "reset" => Still

ClosingOK ==
    /\ work \in {None, Cmd("poll"), Cmd("stray")}
    /\ intr \in {None, Cmd("poll"), Cmd("stray")}

PhaseOK ==
    \/ ~active /\ stack = <<>> /\ Still
    \/ active /\ in_reset /\ ResetOK
    \/ active /\ ~in_reset /\ Outer = "disable_end" /\ ClosingOK
    \/ active /\ ~in_reset /\ Outer # "disable_end" /\ Sent /\ SentOK
    \/ active /\ ~in_reset /\ Outer # "disable_end" /\ ~Sent /\ PlainOK

FaultsOK == faults \in [Faults -> Nat]

ExactInv == /\ Shape(stack) /\ FaultsOK /\ LevelOK
            /\ Undisturbed => HiddenOK /\ PhaseOK

Controller == <<work, intr, pcn, current_cylinder, hide_interrupt, active>>

LEMMA CmdOps ==
    /\ \A op : Cmd(op).op = op /\ Cmd(op).by = "process"
    /\ None.op = "none"
BY DEF None, Cmd

(* No fault is forgotten.                                                  *)
LEMMA FaultsGrow ==
    ASSUME FaultsOK, faults' = faults \/ \E kind : Fault(kind)
    PROVE  FaultsOK' /\ (Undisturbed' => Undisturbed /\ ~Fault("lost") /\ ~Fault("wakeup"))
<1>1. CASE faults' = faults
  <2>1. FaultsOK'
    BY <1>1 DEF FaultsOK
  <2>2. Undisturbed' => Undisturbed
    BY <1>1 DEF Undisturbed
  <2>3. \A kind : ~Fault(kind)
    BY <1>1 DEF Fault, FaultsOK
  <2>4. QED
    BY <2>1, <2>2, <2>3
<1>2. CASE \E kind : Fault(kind)
  <2>1. PICK kind : Fault(kind)
    BY <1>2
  <2>2. FaultsOK'
    BY <2>1 DEF Fault, FaultsOK
  <2>3. \A k \in Faults : faults'[k] = 0 => faults[k] = 0 /\ k # kind
    BY <2>1 DEF Fault, FaultsOK
  <2>4. Undisturbed' => Undisturbed
    BY <2>3 DEF Undisturbed
  <2>5. \A k \in {"lost", "wakeup"} : Undisturbed' => ~Fault(k)
    BY DEF Undisturbed, Fault, FaultsOK
  <2>6. QED
    BY <2>2, <2>4, <2>5
<1>3. QED
  BY <1>1, <1>2

LEMMA WaitExact ==
    ASSUME MaskOK, ExactInv, Wait
    PROVE  ExactInv'
<1>1. /\ At("iw") /\ Goto("iw_sleep") /\ irq_level' = fdc_enable_irq(irq_level)
      /\ UNCHANGED <<Controller, in_reset, resetting, interrupt_seen, faults>>
  BY DEF Wait, driver, hardware, Controller
<1>2. Here = "iw" /\ stack # <<>> /\ (Alone => Outer = "iw")
  BY <1>1, PlaceFacts DEF ExactInv
<1>3. /\ Shape(stack') /\ stack' # <<>> /\ ret' = ret
      /\ Here' = "iw_sleep" /\ Back' = Back /\ Aim' = Aim
      /\ Outer' = IF Alone THEN "iw_sleep" ELSE Outer
  BY <1>1, GotoPlace DEF ExactInv, Labels, Kin, WaitLabels, ResetLabels, IssueLabels,
     SeekLabels
<1>4. LevelOK'
  BY <1>1, <1>2, <1>3 DEF ExactInv, LevelOK, One, OuterMasks, fdc_enable_irq
<1>5. FaultsOK' /\ (Undisturbed' => HiddenOK /\ PhaseOK)
  BY <1>1, FaultsGrow DEF ExactInv
<1>6. HiddenOK /\ PhaseOK => HiddenOK' /\ PhaseOK'
  BY <1>1, <1>2, <1>3 DEF HiddenOK, PhaseOK, ResetOK, Sent, SentOK, Known, PlainOK,
     ClosingOK, Still, Polls, OuterMasks, Controller, IsrCommand
<1>7. QED
  BY <1>3, <1>4, <1>5, <1>6 DEF ExactInv

-----------------------------------------------------------------------------
(* The functions called from outside                                        *)

OuterLabels == Labels \ (WaitLabels \cup ResetLabels \cup IssueLabels)

(* While one of them is on top, it is alone, and no reset is under way.    *)
LEMMA OuterFacts ==
    ASSUME MaskOK, ExactInv, NEW from \in OuterLabels, At(from)
    PROVE  /\ stack # <<>> /\ Alone /\ ~in_reset
           /\ Here = from /\ Outer = from /\ Back = "out" /\ Aim = Top.cmd.to
           /\ Top \in ProcFrames /\ Sound(Top)
           /\ irq_level = One(OuterMasks, from)
<1>1. /\ stack # <<>> /\ Here = from /\ Top \in ProcFrames /\ Top.at = from /\ Sound(Top)
      /\ Alone => Outer = from /\ Back = "out" /\ Aim = Top.cmd.to
      /\ ~Alone => Fits(Top, stack[2])
  BY PlaceFacts DEF ExactInv
<1>2. Alone
  BY <1>1 DEF Fits, OuterLabels
<1>3. ~in_reset
  <2>1. Tail(stack) = <<>>
    <3>1. Shape(stack)
      BY DEF ExactInv
    <3>2. QED
      BY <1>1, <1>2, <3>1, PopShape DEF Alone
  <2>2. Bit(in_reset) - One(Resets, from) = 0
    <3>1. Counts(Tail(stack), Resets, Bit(in_reset) - One(Resets, from))
      BY TopCounts
    <3>2. \A n : Counts(<<>>, Resets, n) => n = 0
      BY CountsEmpty
    <3>3. QED
      BY <2>1, <3>1, <3>2, Zenon
  <2>3. One(Resets, from) = 0
    BY DEF One, Resets, OuterLabels, ResetLabels
  <2>4. Bit(in_reset) = 0
    BY <2>2, <2>3 DEF Bit
  <2>5. QED
    BY <2>4 DEF Bit
<1>4. irq_level = One(OuterMasks, from)
  <2>1. One({"iw"}, from) = 0
    BY DEF One, OuterLabels, WaitLabels
  <2>2. irq_level = One({"iw"}, from) + One(OuterMasks, from)
    BY <1>1, <1>2 DEF ExactInv, LevelOK
  <2>3. QED
    BY <2>1, <2>2 DEF One
<1>5. QED
  BY <1>1, <1>2, <1>3, <1>4

(* They keep what is said of the controller as long as they leave it alone *)
(* and mask the interrupt only to issue a command.                         *)
LEMMA OuterKeeps ==
    ASSUME MaskOK, ExactInv, NEW from \in OuterLabels, At(from),
           ~Sent, from # "disable_end",
           UNCHANGED <<Controller, in_reset, faults>>,
           Shape(stack'), LevelOK', ~Sent', Outer' \notin {"reset", "disable_end"},
           Outer' \in OuterMasks => Here' = "issue" \/ Here' = Outer'
    PROVE  ExactInv'
<1>1. Outer = from /\ stack # <<>> /\ ~in_reset /\ from # "reset"
  BY OuterFacts DEF OuterLabels, ResetLabels
<1>2. FaultsOK' /\ (Undisturbed' => PhaseOK)
  BY FaultsGrow DEF ExactInv
<1>3. PhaseOK => PhaseOK'
  BY <1>1 DEF PhaseOK, PlainOK, Known, Still, Controller, IsrCommand
<1>4. HiddenOK'
  BY DEF HiddenOK
<1>5. QED
  BY <1>2, <1>3, <1>4 DEF ExactInv

LEMMA OuterGoto ==
    ASSUME MaskOK, ExactInv, NEW from \in OuterLabels, At(from), ~Sent,
           from # "disable_end", UNCHANGED <<Controller, in_reset, faults>>,
           NEW to \in OuterLabels, Kin(from, to), Goto(to),
           to \notin {"disable_end", "seek_waited", "seek_issued"},
           irq_level' = One(OuterMasks, to)
    PROVE  ExactInv'
<1>1. Alone /\ to \in Labels
  BY OuterFacts DEF OuterLabels
<1>2. Shape(stack') /\ Here' = to /\ Outer' = to
  BY <1>1, GotoPlace DEF ExactInv
<1>3. LevelOK'
  <2>1. One({"iw"}, to) = 0 /\ One(OuterMasks, to) \in Nat
    BY DEF One, OuterLabels, WaitLabels
  <2>2. QED
    BY <1>2, <2>1 DEF LevelOK
<1>4. ~Sent' /\ to # "reset"
  BY <1>2 DEF Sent, OuterLabels, ResetLabels
<1>5. QED
  BY <1>2, <1>3, <1>4, OuterKeeps

LEMMA OuterCall ==
    ASSUME MaskOK, ExactInv, NEW from \in OuterLabels, At(from), ~Sent,
           from # "disable_end", UNCHANGED <<Controller, in_reset, faults>>,
           NEW to \in OuterLabels, Kin(from, to), NEW g \in ProcFrames, Call(g, to),
           Fits(g, [Top EXCEPT !.at = to]), g.at \notin OuterLabels,
           to \notin {"disable_end", "seek_waited"},
           to \in OuterMasks => g.at = "issue",
           irq_level' = One({"iw"}, g.at) + One(OuterMasks, to)
    PROVE  ExactInv'
<1>1. Alone /\ to \in Labels
  BY OuterFacts DEF OuterLabels
<1>2. g.at \notin SeekLabels
  BY DEF OuterLabels, SeekLabels, WaitLabels, ResetLabels, IssueLabels, Labels
<1>3. Shape(stack') /\ Here' = g.at /\ Outer' = to
  BY <1>1, <1>2, CallPlace DEF ExactInv
<1>4. LevelOK'
  BY <1>3 DEF LevelOK
<1>5. ~Sent' /\ to # "reset"
  BY <1>2, <1>3 DEF Sent, OuterLabels, ResetLabels, SeekLabels
<1>6. QED
  BY <1>3, <1>4, <1>5, OuterKeeps

LEMMA OuterReturn ==
    ASSUME MaskOK, ExactInv, NEW from \in OuterLabels, At(from), ~Sent,
           from # "disable_end", UNCHANGED <<Controller, in_reset, faults>>,
           stack' = Tail(stack), irq_level' = 0
    PROVE  ExactInv'
<1>1. Alone /\ Back = "out"
  BY OuterFacts
<1>2. Shape(stack') /\ Here' = "out" /\ Outer' = "out"
  BY <1>1, ReturnPlace DEF ExactInv
<1>3. LevelOK' /\ ~Sent' /\ "out" \notin OuterMasks
  BY <1>2 DEF LevelOK, One, OuterMasks, Sent
<1>4. QED
  BY <1>2, <1>3, OuterKeeps

LEMMA IssueFrames ==
    /\ \A op \in {"other", "readid", "xfer"} :
          LET g == [at |-> "issue", cmd |-> Cmd(op)]
          IN  g \in ProcFrames /\ g.at = "issue" /\ g.cmd.op = op
    /\ \A label \in Labels : Frame(label) \in ProcFrames /\ Frame(label).at = label
BY CalledFrames, CmdOps

LEMMA LabelKinds ==
    /\ {"iw", "issue", "reset"} \cap OuterLabels = {}
    /\ {"seek", "seek_lock", "seek_issued", "seek_failed", "seek_waited", "readid",
        "readid_issued", "setup", "setup_perpend", "setup_done", "waitseg", "waitseg_end",
        "stop", "stop_end", "disable", "disable_reset", "disable_lock", "disable_end"}
          \subseteq OuterLabels
    /\ \A a, b \in OuterLabels \ SeekLabels : Kin(a, b)
    /\ \A a, b \in OuterLabels \cap SeekLabels : Kin(a, b)
BY DEF OuterLabels, Labels, WaitLabels, ResetLabels, IssueLabels, SeekLabels, Kin

-----------------------------------------------------------------------------
(* The functions called from outside                                        *)

(* fdc_seek(), but for what follows a command that was sent.               *)
LEMMA SeekExact ==
    ASSUME MaskOK, ExactInv, Seek \/ SeekLock \/ SeekFailed \/ (SeekIssued /\ ret # "ok")
    PROVE  ExactInv'
<1>1. CASE Seek
  <2>1. /\ At("seek") /\ Goto("seek_lock") /\ irq_level' = irq_level
        /\ UNCHANGED <<Controller, in_reset, faults>>
    BY <1>1 DEF Seek, hardware, Controller
  <2>2. irq_level = One(OuterMasks, "seek") /\ Here = "seek" /\ Outer = "seek"
    BY <2>1, OuterFacts, LabelKinds
  <2>3. ~Sent /\ irq_level' = One(OuterMasks, "seek_lock") /\ Kin("seek", "seek_lock")
    BY <2>1, <2>2, LabelKinds DEF Sent, One, OuterMasks, SeekLabels
  <2>4. QED
    BY <2>1, <2>3, LabelKinds, OuterGoto
<1>2. CASE SeekLock
  <2> DEFINE g == [at |-> "issue", cmd |-> Top.cmd]
  <2>1. /\ At("seek_lock") /\ Call(g, "seek_issued") /\ irq_level' = irq_level + 1
        /\ UNCHANGED <<Controller, in_reset, faults>>
    BY <1>2 DEF SeekLock, driver, hardware, Controller, fdc_disable_irq
  <2>2. /\ irq_level = One(OuterMasks, "seek_lock") /\ Here = "seek_lock"
        /\ Outer = "seek_lock" /\ Top \in ProcFrames
    BY <2>1, OuterFacts, LabelKinds
  <2>3. g \in ProcFrames /\ g.at = "issue" /\ Fits(g, [Top EXCEPT !.at = "seek_issued"])
    BY <2>2 DEF ProcFrames, Labels, Fits, IssueLabels
  <2> HIDE DEF g
  <2>4. /\ ~Sent /\ Kin("seek_lock", "seek_issued")
        /\ irq_level' = One({"iw"}, g.at) + One(OuterMasks, "seek_issued")
    BY <2>1, <2>2, <2>3, LabelKinds DEF Sent, One, OuterMasks, SeekLabels
  <2>5. QED
    BY <2>1, <2>3, <2>4, LabelKinds, OuterCall
<1>3. CASE SeekFailed
  <2>1. /\ At("seek_failed") /\ stack' = Tail(stack) /\ irq_level' = irq_level
        /\ UNCHANGED <<Controller, in_reset, faults>>
    BY <1>3 DEF SeekFailed, Return, driver, hardware, Controller
  <2>2. irq_level = One(OuterMasks, "seek_failed") /\ Here = "seek_failed"
        /\ Outer = "seek_failed"
    BY <2>1, OuterFacts, LabelKinds
  <2>3. ~Sent /\ irq_level' = 0
    BY <2>1, <2>2 DEF Sent, One, OuterMasks
  <2>4. QED
    BY <2>1, <2>3, LabelKinds, OuterReturn
<1>4. CASE SeekIssued /\ ret # "ok"
  <2> DEFINE g == Frame("reset")
  <2>1. /\ At("seek_issued") /\ Call(g, "seek_failed")
        /\ irq_level' = fdc_enable_irq(irq_level)
        /\ UNCHANGED <<Controller, in_reset, faults>>
    BY <1>4 DEF SeekIssued, driver, hardware, Controller
  <2>2. /\ irq_level = One(OuterMasks, "seek_issued") /\ Here = "seek_issued"
        /\ Outer = "seek_issued" /\ Top \in ProcFrames
    BY <2>1, OuterFacts, LabelKinds
  <2>3. g \in ProcFrames /\ g.at = "reset"
    BY IssueFrames DEF Labels
  <2> HIDE DEF g
  <2>4. Fits(g, [Top EXCEPT !.at = "seek_failed"])
    BY <2>2, <2>3 DEF ProcFrames, Fits, ResetLabels
  <2>5. /\ ~Sent /\ Kin("seek_issued", "seek_failed")
        /\ irq_level' = One({"iw"}, g.at) + One(OuterMasks, "seek_failed")
    BY <1>4, <2>1, <2>2, <2>3, LabelKinds
       DEF Sent, One, OuterMasks, SeekLabels, fdc_enable_irq
  <2>6. QED
    BY <2>1, <2>3, <2>4, <2>5, LabelKinds, OuterCall DEF OuterMasks
<1>5. QED
  BY <1>1, <1>2, <1>3, <1>4

(* ftape_read_id() and fdc_setup_read_write()                              *)
LEMMA CommandExact ==
    ASSUME MaskOK, ExactInv, ReadId \/ ReadIdIssued \/ Setup \/ SetupPerpend \/ SetupDone
    PROVE  ExactInv'
<1> DEFINE g(op) == [at |-> "issue", cmd |-> Cmd(op)]
<1>1. \A op \in {"other", "readid", "xfer"} :
         g(op) \in ProcFrames /\ g(op).at = "issue" /\ g(op).cmd.op = op
  BY IssueFrames
<1>2. CASE ReadId
  <2>1. /\ At("readid") /\ Call(g("readid"), "readid_issued") /\ irq_level' = irq_level + 1
        /\ UNCHANGED <<Controller, in_reset, faults>>
    BY <1>2 DEF ReadId, driver, hardware, Controller, fdc_disable_irq
  <2>2. /\ irq_level = One(OuterMasks, "readid") /\ Here = "readid" /\ Outer = "readid"
        /\ Top \in ProcFrames
    BY <2>1, OuterFacts, LabelKinds
  <2> HIDE DEF g
  <2>3. Fits(g("readid"), [Top EXCEPT !.at = "readid_issued"])
    BY <1>1, <2>2 DEF ProcFrames, Fits, IssueLabels
  <2>4. /\ ~Sent /\ Kin("readid", "readid_issued")
        /\ irq_level' = One({"iw"}, "issue") + One(OuterMasks, "readid_issued")
    BY <2>1, <2>2, LabelKinds DEF Sent, One, OuterMasks, SeekLabels
  <2>5. QED
    BY <1>1, <2>1, <2>3, <2>4, LabelKinds, OuterCall
<1>3. CASE ReadIdIssued
  <2>1. At("readid_issued") /\ UNCHANGED <<Controller, in_reset, faults>>
    BY <1>3 DEF ReadIdIssued, driver, hardware, Controller
  <2>2. /\ irq_level = 1 /\ Here = "readid_issued" /\ Outer = "readid_issued" /\ ~Sent
        /\ Alone
    BY <2>1, OuterFacts, LabelKinds DEF One, OuterMasks, Sent
  <2>3. CASE stack' = <<Frame("iw")>> \o Tail(stack) /\ irq_level' = irq_level
    <3>1. Frame("iw") \in ProcFrames /\ Frame("iw").at = "iw"
      BY IssueFrames DEF Labels
    <3>2. stack' = <<Frame("iw")>>
      <4>1. Shape(stack) /\ stack # <<>>
        BY <2>1, OuterFacts, LabelKinds DEF ExactInv
      <4>2. Tail(stack) = <<>>
        BY <2>2, <4>1, PopShape DEF Alone
      <4>3. <<Frame("iw")>> \o <<>> = <<Frame("iw")>>
        BY <3>1
      <4>4. QED
        BY <2>3, <4>2, <4>3
    <3>3. Len(stack') = 1 /\ stack'[1] = Frame("iw") /\ stack' # <<>>
          /\ stack' \in Seq(ProcFrames)
      BY <3>1, <3>2
    <3>4. Here' = "iw" /\ Outer' = "iw"
      BY <3>1, <3>3 DEF Here, Outer, TopOf, LastOf
    <3>5. Shape(stack')
      <4>1. LastOf(stack') \notin IssueLabels
        BY <3>4 DEF Outer, IssueLabels
      <4>2. \A i \in 1 .. Len(stack') : Sound(stack'[i])
        BY <3>1, <3>3 DEF Sound, SeekLabels
      <4>3. \A i \in 1 .. (Len(stack') - 1) : FALSE
        BY <3>3
      <4>4. QED
        BY <3>3, <4>1, <4>2, <4>3 DEF Shape
    <3>6. LevelOK' /\ ~Sent'
      BY <2>2, <2>3, <3>4 DEF LevelOK, One, OuterMasks, Sent
    <3>7. QED
      BY <2>1, <2>2, <3>4, <3>5, <3>6, LabelKinds, OuterKeeps DEF OuterMasks
  <2>4. CASE stack' = Tail(stack) /\ irq_level' = fdc_enable_irq(irq_level)
    BY <2>1, <2>2, <2>4, LabelKinds, OuterReturn DEF fdc_enable_irq
  <2>5. QED
    BY <1>3, <2>3, <2>4 DEF ReadIdIssued, Return
<1>4. CASE Setup
  <2>1. /\ At("setup") /\ irq_level' = irq_level + 1
        /\ UNCHANGED <<Controller, in_reset, faults>>
        /\ Call(g("other"), "setup_perpend") \/ Call(g("xfer"), "setup_done")
    BY <1>4 DEF Setup, driver, hardware, Controller, fdc_disable_irq
  <2>2. /\ irq_level = One(OuterMasks, "setup") /\ Here = "setup" /\ Outer = "setup"
        /\ Top \in ProcFrames
    BY <2>1, OuterFacts, LabelKinds
  <2> HIDE DEF g
  <2>3. /\ Fits(g("other"), [Top EXCEPT !.at = "setup_perpend"])
        /\ Fits(g("xfer"), [Top EXCEPT !.at = "setup_done"])
    BY <1>1, <2>2 DEF ProcFrames, Fits, IssueLabels
  <2>4. /\ ~Sent /\ Kin("setup", "setup_perpend") /\ Kin("setup", "setup_done")
        /\ irq_level' = One({"iw"}, "issue") + One(OuterMasks, "setup_perpend")
        /\ irq_level' = One({"iw"}, "issue") + One(OuterMasks, "setup_done")
    BY <2>1, <2>2, LabelKinds DEF Sent, One, OuterMasks, SeekLabels
  <2>5. CASE Call(g("other"), "setup_perpend")
    BY <1>1, <2>1, <2>3, <2>4, <2>5, LabelKinds, OuterCall
  <2>6. CASE Call(g("xfer"), "setup_done")
    BY <1>1, <2>1, <2>3, <2>4, <2>6, LabelKinds, OuterCall
  <2>7. QED
    BY <2>1, <2>5, <2>6
<1>5. CASE SetupPerpend
  <2>1. /\ At("setup_perpend") /\ irq_level' = irq_level
        /\ UNCHANGED <<Controller, in_reset, faults>>
        /\ Call(g("xfer"), "setup_done") \/ Goto("setup_done")
    BY <1>5 DEF SetupPerpend, driver, hardware, Controller
  <2>2. /\ irq_level = One(OuterMasks, "setup_perpend") /\ Here = "setup_perpend"
        /\ Outer = "setup_perpend" /\ Top \in ProcFrames
    BY <2>1, OuterFacts, LabelKinds
  <2> HIDE DEF g
  <2>3. Fits(g("xfer"), [Top EXCEPT !.at = "setup_done"])
    BY <1>1, <2>2 DEF ProcFrames, Fits, IssueLabels
  <2>4. /\ ~Sent /\ Kin("setup_perpend", "setup_done")
        /\ irq_level' = One({"iw"}, "issue") + One(OuterMasks, "setup_done")
        /\ irq_level' = One(OuterMasks, "setup_done")
    BY <2>1, <2>2, LabelKinds DEF Sent, One, OuterMasks, SeekLabels
  <2>5. CASE Call(g("xfer"), "setup_done")
    BY <1>1, <2>1, <2>3, <2>4, <2>5, LabelKinds, OuterCall
  <2>6. CASE Goto("setup_done")
    BY <2>1, <2>4, <2>6, LabelKinds, OuterGoto
  <2>7. QED
    BY <2>1, <2>5, <2>6
<1>6. CASE SetupDone
  <2>1. /\ At("setup_done") /\ stack' = Tail(stack)
        /\ irq_level' = fdc_enable_irq(irq_level)
        /\ UNCHANGED <<Controller, in_reset, faults>>
    BY <1>6 DEF SetupDone, Return, hardware, Controller
  <2>2. /\ irq_level = One(OuterMasks, "setup_done") /\ Here = "setup_done"
        /\ Outer = "setup_done"
    BY <2>1, OuterFacts, LabelKinds
  <2>3. ~Sent /\ irq_level' = 0
    BY <2>1, <2>2 DEF Sent, One, OuterMasks, fdc_enable_irq
  <2>4. QED
    BY <2>1, <2>3, LabelKinds, OuterReturn
<1>7. QED
  BY <1>2, <1>3, <1>4, <1>5, <1>6

(* ftape_wait_segment(), ftape_dumb_stop() and fdc_disable() up to its     *)
(* reset.                                                                  *)
LEMMA OtherExact ==
    ASSUME MaskOK, ExactInv,
           \/ WaitSegment \/ WaitSegmentEnd \/ StopTape \/ StopTapeEnd
           \/ Disable \/ DisableReset
    PROVE  ExactInv'
<1> DEFINE g == [at |-> "issue", cmd |-> Cmd("other")]
<1>1. /\ g \in ProcFrames /\ g.at = "issue" /\ g.cmd.op = "other"
      /\ \A label \in {"iw", "reset"} :
            Frame(label) \in ProcFrames /\ Frame(label).at = label
  BY IssueFrames DEF Labels
<1>2. ASSUME NEW from \in {"waitseg", "waitseg_end", "stop", "stop_end", "disable",
                           "disable_reset"}, At(from)
      PROVE  irq_level = 0 /\ ~Sent /\ Top \in ProcFrames
  <2>1. from \in OuterLabels
    BY LabelKinds
  <2>2. irq_level = One(OuterMasks, from) /\ Here = from /\ Outer = from
        /\ Top \in ProcFrames
    BY <1>2, <2>1, OuterFacts
  <2>3. QED
    BY <2>2 DEF Sent, One, OuterMasks
<1>3. \A a, b \in {"waitseg", "waitseg_end", "stop", "stop_end", "disable",
                   "disable_reset", "disable_lock"} :
         Kin(a, b) /\ One(OuterMasks, b) = 0
  BY LabelKinds DEF One, OuterMasks, SeekLabels
<1>4. CASE WaitSegment
  <2>1. At("waitseg") /\ UNCHANGED <<Controller, in_reset, faults>>
    BY <1>4 DEF WaitSegment, driver, hardware, Controller
  <2>2. CASE Call(Frame("iw"), "waitseg_end") /\ irq_level' = irq_level + 1
    <3>1. Fits(Frame("iw"), [Top EXCEPT !.at = "waitseg_end"])
      BY <1>1, <1>2, <2>1 DEF ProcFrames, Fits, WaitLabels
    <3>2. irq_level' = One({"iw"}, "iw") + One(OuterMasks, "waitseg_end")
      BY <1>2, <1>3, <2>1, <2>2 DEF One
    <3>3. QED
      BY <1>1, <1>2, <1>3, <2>1, <2>2, <3>1, <3>2, LabelKinds, OuterCall DEF OuterMasks
  <2>3. CASE stack' = Tail(stack) /\ irq_level' = irq_level
    BY <1>2, <2>1, <2>3, LabelKinds, OuterReturn
  <2>4. QED
    BY <1>4, <2>2, <2>3 DEF WaitSegment, Return, fdc_disable_irq
<1>5. CASE WaitSegmentEnd
  <2>1. /\ At("waitseg_end") /\ irq_level' = irq_level
        /\ UNCHANGED <<Controller, in_reset, faults>>
    BY <1>5 DEF WaitSegmentEnd, driver, hardware, Controller
  <2>2. CASE Goto("waitseg")
    BY <1>2, <1>3, <2>1, <2>2, LabelKinds, OuterGoto
  <2>3. CASE stack' = Tail(stack)
    BY <1>2, <2>1, <2>3, LabelKinds, OuterReturn
  <2>4. QED
    BY <1>5, <2>2, <2>3 DEF WaitSegmentEnd, Return
<1>6. CASE StopTape
  <2>1. /\ At("stop") /\ irq_level' = irq_level
        /\ UNCHANGED <<Controller, in_reset, faults>>
    BY <1>6 DEF StopTape, driver, hardware, Controller
  <2>2. CASE Call(Frame("reset"), "stop_end")
    <3>1. Fits(Frame("reset"), [Top EXCEPT !.at = "stop_end"])
      BY <1>1, <1>2, <2>1 DEF ProcFrames, Fits, ResetLabels
    <3>2. irq_level' = One({"iw"}, "reset") + One(OuterMasks, "stop_end")
      BY <1>2, <1>3, <2>1, <2>2 DEF One
    <3>3. QED
      BY <1>1, <1>2, <1>3, <2>1, <2>2, <3>1, <3>2, LabelKinds, OuterCall DEF OuterMasks
  <2>3. CASE Goto("stop_end")
    BY <1>2, <1>3, <2>1, <2>3, LabelKinds, OuterGoto
  <2>4. QED
    BY <1>6, <2>2, <2>3 DEF StopTape
<1>7. CASE StopTapeEnd
  <2>1. /\ At("stop_end") /\ stack' = Tail(stack) /\ irq_level' = irq_level
        /\ UNCHANGED <<Controller, in_reset, faults>>
    BY <1>7 DEF StopTapeEnd, Return, driver, hardware, Controller
  <2>2. QED
    BY <1>2, <2>1, LabelKinds, OuterReturn
<1>8. CASE Disable
  <2>1. /\ At("disable") /\ irq_level' = irq_level
        /\ UNCHANGED <<Controller, in_reset, faults>>
        /\ Call(g, "disable_reset") \/ Goto("disable_reset")
    BY <1>8 DEF Disable, driver, hardware, Controller
  <2> HIDE DEF g
  <2>2. CASE Call(g, "disable_reset")
    <3>1. Fits(g, [Top EXCEPT !.at = "disable_reset"])
      BY <1>1, <1>2, <2>1 DEF ProcFrames, Fits, IssueLabels
    <3>2. irq_level' = One({"iw"}, "issue") + One(OuterMasks, "disable_reset")
      BY <1>2, <1>3, <2>1, <2>2 DEF One
    <3>3. QED
      BY <1>1, <1>2, <1>3, <2>1, <2>2, <3>1, <3>2, LabelKinds, OuterCall
  <2>3. CASE Goto("disable_reset")
    BY <1>2, <1>3, <2>1, <2>3, LabelKinds, OuterGoto
  <2>4. QED
    BY <2>1, <2>2, <2>3
<1>9. CASE DisableReset
  <2>1. /\ At("disable_reset") /\ Goto("disable_lock") /\ irq_level' = irq_level
        /\ UNCHANGED <<Controller, in_reset, faults>>
    BY <1>9 DEF DisableReset, hardware, Controller
  <2>2. QED
    BY <1>2, <1>3, <2>1, LabelKinds, OuterGoto
<1>10. QED
  BY <1>4, <1>5, <1>6, <1>7, <1>8, <1>9

-----------------------------------------------------------------------------
(* The functions they call: fdc_interrupt_wait()                            *)

(* What the label of an inner function says of its caller.                 *)
LEMMA InnerFacts ==
    ASSUME ExactInv, NEW from, At(from)
    PROVE  /\ stack # <<>> /\ Here = from /\ Top \in ProcFrames
           /\ Alone => Outer = from /\ Back = "out" /\ from \notin IssueLabels
           /\ ~Alone /\ from \in WaitLabels
                => Back \in {"reset_waited", "issue_checked", "seek_waited",
                             "waitseg_end", "disable_end"}
           /\ ~Alone /\ from \in ResetLabels
                => Back \in {"iw_cleaned", "seek_failed", "stop_end"}
           /\ from \in IssueLabels
                => Back \in {"reset_end", "disable_reset", "seek_issued", "readid_issued",
                             "setup_perpend", "setup_done"}
           /\ Back \in OuterLabels => Outer = Back
<1>1. Shape(stack)
  BY DEF ExactInv
<1>2. /\ stack # <<>> /\ Here = from /\ Top \in ProcFrames /\ Top.at = from
      /\ Alone => Outer = from /\ Back = "out" /\ from \notin IssueLabels
      /\ ~Alone => Back = stack[2].at /\ Fits(Top, stack[2])
      /\ ~Alone /\ Back \notin WaitLabels \cup ResetLabels \cup IssueLabels
           => Outer = Back
  BY <1>1, PlaceFacts
<1>3. "out" \notin OuterLabels
  BY DEF OuterLabels, Labels
<1>4. QED
  BY <1>2, <1>3 DEF Fits, WaitLabels, ResetLabels, IssueLabels, OuterLabels

(* Two labels of fdc_interrupt_wait(), fdc_reset(), fdc_issue_command().   *)
LEMMA InnerKin ==
    /\ \A a, b \in WaitLabels : Kin(a, b)
    /\ \A a, b \in ResetLabels : Kin(a, b)
    /\ \A a, b \in IssueLabels : Kin(a, b)
BY DEF Kin, WaitLabels, ResetLabels, IssueLabels, SeekLabels

LEMMA InnerLabels ==
    /\ WaitLabels = {"iw", "iw_sleep", "iw_cleaned"}
    /\ ResetLabels = {"reset", "reset_waited", "reset_specify", "reset_end"}
    /\ IssueLabels = {"issue", "issue_checked"}
    /\ WaitLabels \cup ResetLabels \cup IssueLabels \subseteq Labels
    /\ (WaitLabels \cup ResetLabels \cup IssueLabels) \cap SeekLabels = {}
BY DEF WaitLabels, ResetLabels, IssueLabels, SeekLabels, Labels

(* A frame at the label reset_waited and so on means a reset.              *)
LEMMA InReset ==
    ASSUME MaskOK, Shape(stack), NEW from, At(from), from \in Resets \/ Back \in Resets
    PROVE  in_reset
<1>1. CASE from \in Resets
  <2>1. Bit(in_reset) - 1 \in Nat
    BY <1>1, TopCounts DEF One
  <2>2. QED
    BY <2>1 DEF Bit
<1>2. CASE from \notin Resets /\ Back \in Resets
  <2>1. stack # <<>>
    BY PlaceFacts
  <2>2. ~Alone
    BY <1>2, PlaceFacts DEF Resets
  <2>3. /\ Tail(stack) \in Seq(ProcFrames) /\ Counts(Tail(stack), Resets, Bit(in_reset))
        /\ Bit(in_reset) \in Nat
    <3>1. /\ Tail(stack) \in Seq(ProcFrames)
          /\ Bit(in_reset) - One(Resets, from) \in Nat
          /\ Counts(Tail(stack), Resets, Bit(in_reset) - One(Resets, from))
      BY TopCounts
    <3>2. One(Resets, from) = 0
      BY <1>2 DEF One
    <3>3. Bit(in_reset) \in Nat /\ Bit(in_reset) - 0 = Bit(in_reset)
      BY DEF Bit
    <3>4. QED
      BY <3>1, <3>2, <3>3
  <2>4. Tail(stack) # <<>> /\ TopOf(Tail(stack)) = Back /\ Shape(Tail(stack))
    BY <2>1, <2>2, PopShape DEF Alone, Back
  <2>5. Head(Tail(stack)).at = Back
    BY <2>4, ShapeFacts
  <2>6. Bit(in_reset) - One(Resets, Back) \in Nat
    BY <2>3, <2>4, <2>5, CountsPop
  <2>7. Bit(in_reset) - 1 \in Nat
    BY <1>2, <2>6 DEF One
  <2>8. QED
    BY <2>7 DEF Bit
<1>3. QED
  BY <1>1, <1>2

(* fdc_interrupt_wait()                                                     *)
LEMMA WokenExact ==
    ASSUME MaskOK, ExactInv, Woken
    PROVE  ExactInv'
<1>1. /\ At("iw_sleep") /\ stack' = Tail(stack) /\ irq_level' = irq_level /\ ret' = "ok"
      /\ interrupt_seen
      /\ UNCHANGED <<Controller, in_reset, resetting, faults>>
  BY DEF Woken, Return, hardware, Controller
<1>2. /\ Here = "iw_sleep" /\ stack # <<>> /\ (Alone => Outer = "iw_sleep" /\ Back = "out")
      /\ ~Alone => Back \in {"reset_waited", "issue_checked", "seek_waited",
                             "waitseg_end", "disable_end"}
      /\ Back \in {"seek_waited", "waitseg_end", "disable_end"} => Outer = Back
  BY <1>1, InnerFacts, InnerLabels, LabelKinds
<1>3. /\ Shape(stack') /\ (Alone <=> stack' = <<>>) /\ Here' = Back
      /\ Outer' = (IF Alone THEN "out" ELSE Outer) /\ (~Alone => Aim' = Aim)
  BY <1>1, ReturnPlace DEF ExactInv
<1>4. LevelOK'
  BY <1>1, <1>2, <1>3 DEF ExactInv, LevelOK, One, OuterMasks
<1>5. FaultsOK' /\ (Undisturbed' => HiddenOK /\ PhaseOK)
  BY <1>1, FaultsGrow DEF ExactInv
<1>6. HiddenOK /\ PhaseOK => HiddenOK' /\ PhaseOK'
  BY <1>1, <1>2, <1>3 DEF HiddenOK, PhaseOK, ResetOK, Sent, SentOK, Known, PlainOK,
     ClosingOK, Still, Polls, OuterMasks, Controller, IsrCommand
<1>7. QED
  BY <1>3, <1>4, <1>5, <1>6 DEF ExactInv

LEMMA WaitInVainExact ==
    ASSUME MaskOK, ExactInv, WaitInVain
    PROVE  ExactInv'
<1>1. /\ At("iw_sleep") /\ Call(Frame("reset"), "iw_cleaned") /\ irq_level' = irq_level
      /\ ~interrupt_seen
      /\ UNCHANGED <<Controller, in_reset, resetting, interrupt_seen>>
  BY DEF WaitInVain, driver, hardware, Controller
<1>2. /\ Here = "iw_sleep" /\ stack # <<>> /\ Top \in ProcFrames
      /\ (Alone => Outer = "iw_sleep" /\ Back = "out")
  BY <1>1, InnerFacts
<1>3. Frame("reset") \in ProcFrames /\ Frame("reset").at = "reset"
  BY IssueFrames DEF Labels
<1>4. Fits(Frame("reset"), [Top EXCEPT !.at = "iw_cleaned"])
  BY <1>2, <1>3 DEF ProcFrames, Fits, ResetLabels
<1>5. Kin("iw_sleep", "iw_cleaned") /\ "iw_cleaned" \in Labels /\ "reset" \notin SeekLabels
  BY InnerKin, InnerLabels
<1>6. /\ Shape(stack') /\ stack' # <<>> /\ ret' = ret /\ Here' = "reset"
      /\ Back' = "iw_cleaned" /\ Aim' = Aim
      /\ Outer' = IF Alone THEN "iw_cleaned" ELSE Outer
  BY <1>1, <1>3, <1>4, <1>5, CallPlace DEF ExactInv
<1>7. LevelOK'
  BY <1>1, <1>2, <1>6 DEF ExactInv, LevelOK, One, OuterMasks
<1>8. faults' = faults \/ \E kind : Fault(kind)
  BY DEF WaitInVain
<1>9. FaultsOK' /\ (Undisturbed' => HiddenOK /\ PhaseOK /\ Hopeless)
  BY <1>8, FaultsGrow DEF ExactInv, WaitInVain
<1>10. Outer \notin OuterMasks => irq_level = 0
  BY <1>2 DEF ExactInv, LevelOK, One
<1>11. Hopeless => work = None /\ (Outer \notin OuterMasks => intr = None)
  BY <1>10 DEF Hopeless
<1>12. None # Cmd("poll") /\ None.op # "seek"
  BY CmdOps
<1>13. HiddenOK /\ PhaseOK /\ Hopeless => HiddenOK' /\ PhaseOK'
  BY <1>1, <1>2, <1>6, <1>11, <1>12 DEF HiddenOK, PhaseOK, ResetOK, Sent, SentOK, Known,
     PlainOK, ClosingOK, Still, Polls, OuterMasks, Controller, IsrCommand
<1>14. QED
  BY <1>6, <1>7, <1>9, <1>13 DEF ExactInv

LEMMA WaitFailedExact ==
    ASSUME MaskOK, ExactInv, WaitFailed
    PROVE  ExactInv'
<1>1. /\ At("iw_cleaned") /\ stack' = Tail(stack) /\ irq_level' = irq_level /\ ret' = "err"
      /\ UNCHANGED <<Controller, in_reset, resetting, interrupt_seen, faults>>
  BY DEF WaitFailed, Return, driver, hardware, Controller
<1>2. /\ Here = "iw_cleaned" /\ stack # <<>>
      /\ (Alone => Outer = "iw_cleaned" /\ Back = "out")
      /\ ~Alone => Back \in {"reset_waited", "issue_checked", "seek_waited",
                             "waitseg_end", "disable_end"}
      /\ Back \in {"seek_waited", "waitseg_end", "disable_end"} => Outer = Back
  BY <1>1, InnerFacts, InnerLabels, LabelKinds
<1>3. /\ Shape(stack') /\ (Alone <=> stack' = <<>>) /\ Here' = Back
      /\ Outer' = (IF Alone THEN "out" ELSE Outer) /\ (~Alone => Aim' = Aim)
  BY <1>1, ReturnPlace DEF ExactInv
<1>4. LevelOK'
  BY <1>1, <1>2, <1>3 DEF ExactInv, LevelOK, One, OuterMasks
<1>5. FaultsOK' /\ (Undisturbed' => HiddenOK /\ PhaseOK)
  BY <1>1, FaultsGrow DEF ExactInv
<1>6. HiddenOK /\ PhaseOK => HiddenOK' /\ PhaseOK'
  BY <1>1, <1>2, <1>3 DEF HiddenOK, PhaseOK, ResetOK, Sent, SentOK, Known, PlainOK,
     ClosingOK, Still, Polls, OuterMasks, Controller, IsrCommand
<1>7. QED
  BY <1>3, <1>4, <1>5, <1>6 DEF ExactInv

-----------------------------------------------------------------------------
(* The functions they call: fdc_reset()                                     *)

(* fdc_reset()                                                              *)
LEMMA ResetNestedExact ==
    ASSUME MaskOK, ExactInv, ResetNested
    PROVE  ExactInv'
<1>1. /\ At("reset") /\ stack' = Tail(stack) /\ ret' = ret /\ in_reset
      /\ irq_level' = fdc_enable_irq(fdc_disable_irq(irq_level))
      /\ UNCHANGED <<Controller, in_reset, resetting, interrupt_seen, faults>>
  BY DEF ResetNested, Return, driver, hardware, Controller
<1>2. /\ Here = "reset" /\ stack # <<>> /\ (Alone => Outer = "reset" /\ Back = "out")
      /\ ~Alone => Back \in {"iw_cleaned", "seek_failed", "stop_end"}
      /\ Back \in {"seek_failed", "stop_end"} => Outer = Back
  BY <1>1, InnerFacts, InnerLabels, LabelKinds
<1>3. /\ Shape(stack') /\ (Alone <=> stack' = <<>>) /\ Here' = Back
      /\ Outer' = (IF Alone THEN "out" ELSE Outer) /\ (~Alone => Aim' = Aim)
  BY <1>1, ReturnPlace DEF ExactInv
<1>4. irq_level' = irq_level
  BY <1>1, MaskType DEF fdc_enable_irq, fdc_disable_irq
<1>5. LevelOK'
  BY <1>2, <1>3, <1>4 DEF ExactInv, LevelOK, One, OuterMasks
<1>6. FaultsOK' /\ (Undisturbed' => HiddenOK /\ PhaseOK)
  BY <1>1, FaultsGrow DEF ExactInv
<1>7. HiddenOK /\ PhaseOK => HiddenOK' /\ PhaseOK'
  BY <1>1, <1>2, <1>3 DEF HiddenOK, PhaseOK, ResetOK, Still, Polls, OuterMasks,
     Controller
<1>8. QED
  BY <1>3, <1>5, <1>6, <1>7 DEF ExactInv

LEMMA ResetExact ==
    ASSUME MaskOK, ExactInv, Reset
    PROVE  ExactInv'
<1>1. /\ At("reset") /\ Call(Frame("iw"), "reset_waited") /\ irq_level' = irq_level + 1
      /\ ~in_reset /\ in_reset' /\ resetting' /\ ~interrupt_seen'
      /\ work' = Cmd("poll") /\ intr' \in {None, Cmd("stray")} /\ pcn' = 0
      /\ UNCHANGED <<hide_interrupt, active, faults>>
  BY DEF Reset, dor_reset, fdc_disable_irq
<1>2. /\ Here = "reset" /\ stack # <<>> /\ Top \in ProcFrames
      /\ (Alone => Outer = "reset" /\ Back = "out")
  BY <1>1, InnerFacts
<1>3. Frame("iw") \in ProcFrames /\ Frame("iw").at = "iw"
  BY IssueFrames DEF Labels
<1>4. Fits(Frame("iw"), [Top EXCEPT !.at = "reset_waited"])
  BY <1>2, <1>3 DEF ProcFrames, Fits, WaitLabels
<1>5. Kin("reset", "reset_waited") /\ "reset_waited" \in Labels /\ "iw" \notin SeekLabels
  BY InnerKin, InnerLabels
<1>6. /\ Shape(stack') /\ stack' # <<>> /\ Here' = "iw" /\ Back' = "reset_waited"
      /\ Outer' = IF Alone THEN "reset_waited" ELSE Outer
  BY <1>1, <1>3, <1>4, <1>5, CallPlace DEF ExactInv
<1>7. LevelOK'
  BY <1>1, <1>2, <1>6, MaskType DEF ExactInv, LevelOK, One, OuterMasks
<1>8. FaultsOK' /\ (Undisturbed' => HiddenOK /\ PhaseOK)
  BY <1>1, FaultsGrow DEF ExactInv
<1>9. HiddenOK /\ PhaseOK => HiddenOK' /\ PhaseOK'
  <2>1. SUFFICES ASSUME HiddenOK, PhaseOK PROVE HiddenOK' /\ PhaseOK'
    OBVIOUS
  <2>2. active /\ Outer # "seek_waited"
    BY <1>1, <1>2, <2>1 DEF PhaseOK, Sent, SentOK
  <2>3. Outer \in OuterMasks => hide_interrupt
    BY <1>2, <2>1 DEF HiddenOK, OuterMasks
  <2>4. Polls'
    BY <1>1 DEF Polls
  <2>5. ResetOK' /\ HiddenOK'
    BY <1>1, <1>2, <1>6, <2>2, <2>3, <2>4 DEF ResetOK, HiddenOK, OuterMasks
  <2>6. QED
    BY <1>1, <2>2, <2>5 DEF PhaseOK
<1>10. QED
  BY <1>6, <1>7, <1>8, <1>9 DEF ExactInv

LEMMA ResetWaitedExact ==
    ASSUME MaskOK, ExactInv, ResetWaited
    PROVE  ExactInv'
<1>1. /\ At("reset_waited")
      /\ UNCHANGED <<Controller, in_reset, resetting, interrupt_seen, faults>>
  BY DEF ResetWaited, driver, hardware, Controller
<1>2. /\ Here = "reset_waited" /\ stack # <<>> /\ Top \in ProcFrames
      /\ (Alone => Outer = "reset_waited" /\ Back = "out") /\ Shape(stack)
  BY <1>1, InnerFacts DEF ExactInv
<1>3. in_reset
  BY <1>1, <1>2, InReset DEF Resets
<1>4. FaultsOK' /\ (Undisturbed' => HiddenOK /\ PhaseOK)
  BY <1>1, FaultsGrow DEF ExactInv
<1>5. CASE ResetOver /\ Goto("reset_specify") /\ irq_level' = irq_level
  <2>1. Kin("reset_waited", "reset_specify") /\ "reset_specify" \in Labels
    BY InnerKin, InnerLabels
  <2>2. /\ Shape(stack') /\ stack' # <<>> /\ ret' = ret /\ Here' = "reset_specify"
        /\ Back' = Back /\ Outer' = IF Alone THEN "reset_specify" ELSE Outer
    BY <1>1, <1>5, <2>1, GotoPlace DEF ExactInv
  <2>3. LevelOK'
    BY <1>2, <1>5, <2>2 DEF ExactInv, LevelOK, One, OuterMasks
  <2>4. HiddenOK /\ PhaseOK => HiddenOK' /\ PhaseOK'
    BY <1>1, <1>2, <1>3, <1>5, <2>2 DEF HiddenOK, PhaseOK, ResetOK, Still, Polls,
       OuterMasks, Controller, ResetOver
  <2>5. QED
    BY <1>4, <2>2, <2>3, <2>4 DEF ExactInv
<1>6. CASE ~ResetOver /\ Call(Frame("iw"), "reset_waited") /\ irq_level' = irq_level + 1
  <2>1. Frame("iw") \in ProcFrames /\ Frame("iw").at = "iw"
    BY IssueFrames DEF Labels
  <2>2. Fits(Frame("iw"), [Top EXCEPT !.at = "reset_waited"])
    BY <1>2, <2>1 DEF ProcFrames, Fits, WaitLabels
  <2>3. /\ Kin("reset_waited", "reset_waited") /\ "reset_waited" \in Labels
        /\ "iw" \notin SeekLabels
    BY InnerKin, InnerLabels
  <2>4. /\ Shape(stack') /\ stack' # <<>> /\ ret' = ret /\ Here' = "iw"
        /\ Back' = "reset_waited" /\ Outer' = IF Alone THEN "reset_waited" ELSE Outer
    BY <1>1, <1>6, <2>1, <2>2, <2>3, CallPlace DEF ExactInv
  <2>5. LevelOK'
    BY <1>2, <1>6, <2>4, MaskType DEF ExactInv, LevelOK, One, OuterMasks
  <2>6. HiddenOK /\ PhaseOK => HiddenOK' /\ PhaseOK'
    BY <1>1, <1>2, <1>3, <1>6, <2>4 DEF HiddenOK, PhaseOK, ResetOK, Still, Polls,
       OuterMasks, Controller, ResetOver
  <2>7. QED
    BY <1>4, <2>4, <2>5, <2>6 DEF ExactInv
<1>7. QED
  BY <1>5, <1>6 DEF ResetWaited, fdc_disable_irq

LEMMA ResetSpecifyExact ==
    ASSUME MaskOK, ExactInv, ResetSpecify
    PROVE  ExactInv'
<1> DEFINE g == [at |-> "issue", cmd |-> Cmd("other")]
<1>1. /\ At("reset_specify") /\ Call(g, "reset_end") /\ irq_level' = irq_level
      /\ UNCHANGED <<Controller, in_reset, resetting, interrupt_seen, faults>>
  BY DEF ResetSpecify, driver, hardware, Controller
<1>2. /\ Here = "reset_specify" /\ stack # <<>> /\ Top \in ProcFrames
      /\ (Alone => Outer = "reset_specify" /\ Back = "out") /\ Shape(stack)
  BY <1>1, InnerFacts DEF ExactInv
<1>3. in_reset
  BY <1>1, <1>2, InReset DEF Resets
<1>4. g \in ProcFrames /\ g.at = "issue" /\ g.cmd.op = "other"
  BY IssueFrames
<1> HIDE DEF g
<1>5. Fits(g, [Top EXCEPT !.at = "reset_end"])
  BY <1>2, <1>4 DEF ProcFrames, Fits, IssueLabels
<1>6. /\ Kin("reset_specify", "reset_end") /\ "reset_end" \in Labels
      /\ "issue" \notin SeekLabels
  BY InnerKin, InnerLabels
<1>7. /\ Shape(stack') /\ stack' # <<>> /\ ret' = ret /\ Here' = "issue"
      /\ Back' = "reset_end" /\ Outer' = IF Alone THEN "reset_end" ELSE Outer
  BY <1>1, <1>4, <1>5, <1>6, CallPlace DEF ExactInv
<1>8. LevelOK'
  BY <1>1, <1>2, <1>7 DEF ExactInv, LevelOK, One, OuterMasks
<1>9. FaultsOK' /\ (Undisturbed' => HiddenOK /\ PhaseOK)
  BY <1>1, FaultsGrow DEF ExactInv
<1>10. HiddenOK /\ PhaseOK => HiddenOK' /\ PhaseOK'
  BY <1>1, <1>2, <1>3, <1>7 DEF HiddenOK, PhaseOK, ResetOK, Still, Polls, OuterMasks,
     Controller
<1>11. QED
  BY <1>7, <1>8, <1>9, <1>10 DEF ExactInv

LEMMA ResetEndExact ==
    ASSUME MaskOK, ExactInv, ResetEnd
    PROVE  ExactInv'
<1>1. /\ At("reset_end") /\ stack' = Tail(stack) /\ ret' = ret /\ ~in_reset'
      /\ irq_level' = irq_level
      /\ UNCHANGED <<Controller, resetting, interrupt_seen, faults>>
  BY DEF ResetEnd, Return, hardware, Controller
<1>2. /\ Here = "reset_end" /\ stack # <<>> /\ (Alone => Outer = "reset_end" /\ Back = "out")
      /\ ~Alone => Back \in {"iw_cleaned", "seek_failed", "stop_end"}
      /\ Back \in {"seek_failed", "stop_end"} => Outer = Back
      /\ Shape(stack)
  BY <1>1, InnerFacts, InnerLabels, LabelKinds DEF ExactInv
<1>3. in_reset
  BY <1>1, <1>2, InReset DEF Resets
<1>4. /\ Shape(stack') /\ (Alone <=> stack' = <<>>) /\ Here' = Back
      /\ Outer' = (IF Alone THEN "out" ELSE Outer) /\ (~Alone => Aim' = Aim)
  BY <1>1, ReturnPlace DEF ExactInv
<1>5. LevelOK'
  BY <1>1, <1>2, <1>4 DEF ExactInv, LevelOK, One, OuterMasks
<1>6. FaultsOK' /\ (Undisturbed' => HiddenOK /\ PhaseOK)
  BY <1>1, FaultsGrow DEF ExactInv
<1>7. HiddenOK /\ PhaseOK => HiddenOK' /\ PhaseOK'
  <2>1. SUFFICES ASSUME HiddenOK, PhaseOK PROVE HiddenOK' /\ PhaseOK'
    OBVIOUS
  <2>2. active /\ ResetOK
    BY <1>3, <1>2, <2>1 DEF PhaseOK
  <2>3. CASE Outer \in OuterMasks
    <3>1. hide_interrupt /\ work = None /\ intr = Cmd("poll")
      BY <1>2, <2>2, <2>3, CmdOps DEF ResetOK, Polls
    <3>2. intr'.op = "poll" /\ work' = None /\ hide_interrupt' /\ active'
      BY <1>1, <2>2, <3>1, CmdOps DEF Controller
    <3>3. ~Sent' /\ Outer' \notin {"reset", "disable_end"}
      BY <1>2, <1>4, <2>2, <2>3 DEF Sent, ResetOK, OuterMasks
    <3>4. QED
      BY <1>1, <3>2, <3>3 DEF PhaseOK, PlainOK, HiddenOK
  <2>4. CASE Outer \notin OuterMasks
    <3>1. Still /\ ~hide_interrupt /\ current_cylinder = pcn /\ Outer # "seek_waited"
      BY <1>2, <2>2, <2>4 DEF ResetOK
    <3>2. Still' /\ ~hide_interrupt' /\ (current_cylinder = pcn)' /\ active'
      BY <1>1, <2>2, <3>1 DEF Still, Controller
    <3>3. ~Sent' /\ Outer' \notin OuterMasks
      BY <1>2, <1>4, <2>4, <3>1 DEF Sent, OuterMasks
    <3>4. QED
      BY <1>1, <3>2, <3>3 DEF PhaseOK, PlainOK, ClosingOK, HiddenOK, Known, Still
  <2>5. QED
    BY <2>3, <2>4
<1>8. QED
  BY <1>4, <1>5, <1>6, <1>7 DEF ExactInv

-----------------------------------------------------------------------------
(* The functions they call: fdc_issue_command()                             *)

(* fdc_issue_command()                                                      *)
LEMMA IssueWaitsExact ==
    ASSUME MaskOK, ExactInv, IssueWaits
    PROVE  ExactInv'
<1>1. /\ At("issue") /\ Call(Frame("iw"), "issue_checked") /\ irq_level' = irq_level + 1
      /\ hide_interrupt
      /\ UNCHANGED <<Controller, in_reset, resetting, interrupt_seen, faults>>
  BY DEF IssueWaits, IsrSeeks, driver, hardware, Controller, fdc_disable_irq
<1>2. Here = "issue" /\ stack # <<>> /\ Top \in ProcFrames /\ ~Alone
  BY <1>1, InnerFacts, InnerLabels
<1>3. Frame("iw") \in ProcFrames /\ Frame("iw").at = "iw"
  BY IssueFrames DEF Labels
<1>4. Fits(Frame("iw"), [Top EXCEPT !.at = "issue_checked"])
  BY <1>2, <1>3 DEF ProcFrames, Fits, WaitLabels
<1>5. Kin("issue", "issue_checked") /\ "issue_checked" \in Labels /\ "iw" \notin SeekLabels
  BY InnerKin, InnerLabels
<1>6. /\ Shape(stack') /\ stack' # <<>> /\ ret' = ret /\ Here' = "iw"
      /\ Back' = "issue_checked" /\ Outer' = Outer /\ Aim' = Aim
  BY <1>1, <1>2, <1>3, <1>4, <1>5, CallPlace DEF ExactInv
<1>7. LevelOK'
  BY <1>1, <1>2, <1>6, MaskType DEF ExactInv, LevelOK, One, OuterMasks
<1>8. FaultsOK' /\ (Undisturbed' => HiddenOK /\ PhaseOK)
  BY <1>1, FaultsGrow DEF ExactInv
<1>9. HiddenOK /\ PhaseOK => HiddenOK' /\ PhaseOK'
  BY <1>1, <1>2, <1>6 DEF HiddenOK, PhaseOK, ResetOK, Sent, SentOK, Known, PlainOK,
     ClosingOK, Still, Polls, OuterMasks, Controller, IsrCommand
<1>10. QED
  BY <1>6, <1>7, <1>8, <1>9 DEF ExactInv

(* The command is written: what it is follows from who issues it.          *)
LEMMA SendExact ==
    ASSUME MaskOK, ExactInv, NEW from \in IssueLabels, At(from), ~hide_interrupt,
           SendCommand, irq_level' = irq_level
    PROVE  ExactInv'
<1>1. /\ stack' = Tail(stack) /\ ~interrupt_seen'
      /\ UNCHANGED <<pcn, current_cylinder, hide_interrupt, active, resetting, in_reset>>
  BY DEF SendCommand
<1>2. /\ Here = from /\ stack # <<>> /\ Top \in ProcFrames /\ ~Alone /\ Shape(stack)
      /\ Back \in {"reset_end", "disable_reset", "seek_issued", "readid_issued",
                   "setup_perpend", "setup_done"}
      /\ Back \in OuterLabels => Outer = Back
  BY InnerFacts, InnerLabels DEF ExactInv
<1>3. /\ Shape(stack') /\ stack' # <<>> /\ Here' = Back /\ Outer' = Outer /\ Aim' = Aim
  BY <1>1, <1>2, ReturnPlace
<1>4. /\ Back \in {"reset_end", "disable_reset", "setup_perpend"} => Top.cmd.op = "other"
      /\ Back = "readid_issued" => Top.cmd.op = "readid"
      /\ Back = "setup_done" => Top.cmd.op = "xfer"
      /\ Back = "seek_issued" => Top.cmd.op = "seek" /\ Top.cmd.to = Aim
  <2>1. /\ Top = stack[1] /\ Top.at = from /\ Back = stack[2].at /\ Fits(Top, stack[2])
        /\ Sound(stack[2])
        /\ Back \notin WaitLabels \cup ResetLabels \cup IssueLabels
             => Aim = stack[2].cmd.to
    BY <1>2, PlaceFacts
  <2>2. \A label \in WaitLabels \cup ResetLabels : from # label
    BY InnerLabels
  <2>3. "seek_issued" \notin WaitLabels \cup ResetLabels \cup IssueLabels
    BY InnerLabels
  <2>4. Back = "seek_issued" => Top.cmd = stack[2].cmd
    BY <2>1, <2>2 DEF Fits
  <2>5. Back = "seek_issued" => stack[2].cmd.op = "seek" /\ Aim = stack[2].cmd.to
    BY <2>1, <2>3 DEF Sound, SeekLabels
  <2>6. /\ Back \in {"reset_end", "disable_reset", "setup_perpend"} => Top.cmd.op = "other"
        /\ Back = "readid_issued" => Top.cmd.op = "readid"
        /\ Back = "setup_done" => Top.cmd.op = "xfer"
    BY <2>1, <2>2 DEF Fits
  <2>7. QED
    BY <2>4, <2>5, <2>6
<1>5. LevelOK'
  <2>1. from # "iw" /\ Back # "iw"
    BY <1>2, InnerLabels
  <2>2. QED
    BY <1>2, <1>3, <2>1 DEF ExactInv, LevelOK, One
<1>6. faults' = faults \/ \E kind : Fault(kind)
  BY DEF SendCommand, __fdc_command
<1>7. FaultsOK' /\ (Undisturbed' => HiddenOK /\ PhaseOK)
  BY <1>6, FaultsGrow DEF ExactInv
<1>8. ASSUME HiddenOK, PhaseOK
      PROVE  HiddenOK' /\ PhaseOK'
  <2>1. active /\ Outer # "seek_waited" /\ Here \notin {"seek_issued", "iw", "iw_sleep",
                                                        "reset_waited", "seek_waited"}
    BY <1>2, <1>8, InnerLabels DEF PhaseOK, ResetOK, Sent, SentOK
  <2>2. CASE in_reset
    <3>1. ~resetting /\ Outer \notin OuterMasks
      BY <1>8, <2>1, <2>2 DEF PhaseOK, ResetOK
    <3>2. Still /\ current_cylinder = pcn
      BY <1>8, <2>1, <2>2, <3>1 DEF PhaseOK, ResetOK
    <3>3. Back \in {"reset_end", "disable_reset"}
      BY <1>2, <3>1, LabelKinds DEF OuterMasks
    <3>4. work' = work /\ intr' = intr
      BY <1>4, <3>3 DEF SendCommand, __fdc_command
    <3>5. QED
      BY <1>1, <1>3, <2>1, <2>2, <3>1, <3>2, <3>3, <3>4
         DEF PhaseOK, ResetOK, HiddenOK, Still
  <2>3. CASE ~in_reset
    <3>1. Back \in OuterLabels /\ Outer = Back
      <4>1. Back # "reset_end"
        BY <1>2, <2>3, InReset DEF Resets
      <4>2. QED
        BY <1>2, <4>1, LabelKinds
    <3>2. HiddenOK'
      BY <1>3, <3>1 DEF HiddenOK
    <3>3. ~Sent /\ PlainOK /\ Outer # "disable_end"
      BY <1>2, <1>8, <2>1, <2>3, <3>1 DEF PhaseOK, Sent
    <3>4. /\ current_cylinder = pcn
          /\ \/ Still
             \/ work.op \in {"xfer", "readid"} /\ intr = None
             \/ work = None /\ intr.op \in {"xfer", "readid"}
      BY <1>2, <3>1, <3>3 DEF PlainOK, Known
    <3>5. CASE ret' = "err"
      <4>1. work' = work /\ intr' = intr
        BY <3>5 DEF SendCommand, __fdc_command
      <4>2. ~Sent'
        BY <1>3, <2>1, <3>5 DEF Sent
      <4>3. PlainOK'
        BY <1>1, <1>3, <3>3, <4>1 DEF PlainOK, Known, Still, IsrCommand
      <4>4. QED
        BY <1>1, <1>3, <2>1, <2>3, <3>2, <3>3, <4>2, <4>3 DEF PhaseOK
    <3>6. CASE ret' = "ok"
      <4>1. ~MsrBusy /\ work' = IF Top.cmd.op = "other" THEN work
                                ELSE [Top.cmd EXCEPT !.exact = (Top.cmd.from = pcn)]
        BY <3>6 DEF SendCommand, __fdc_command
      <4>2. Still
        BY <3>4, <4>1 DEF MsrBusy
      <4>3. intr' = None
        BY <4>2, CmdOps DEF SendCommand, Still
      <4>4. CASE Top.cmd.op = "other"
        <5>1. Still'
          BY <4>1, <4>2, <4>3, <4>4 DEF Still
        <5>2. ~Sent'
          BY <1>3, <1>4, <2>1, <4>4 DEF Sent
        <5>3. PlainOK'
          BY <1>1, <1>3, <3>4, <5>1 DEF PlainOK, Known
        <5>4. QED
          BY <1>1, <1>3, <2>1, <2>3, <3>2, <3>3, <5>2, <5>3 DEF PhaseOK
      <4>5. CASE Top.cmd.op # "other"
        <5>1. /\ work'.op = Top.cmd.op /\ work'.to = Top.cmd.to /\ work'.by = "process"
              /\ work'.from = Top.cmd.from /\ work'.exact = (Top.cmd.from = pcn)
          BY <1>2, <4>1, <4>5 DEF ProcFrames
        <5>2. CASE Back = "seek_issued"
          <6>1. Sent' /\ SentOK'
            BY <1>1, <1>3, <1>4, <3>4, <3>6, <4>3, <5>1, <5>2 DEF Sent, SentOK
          <6>2. QED
            BY <1>1, <1>3, <2>1, <2>3, <3>2, <3>3, <6>1 DEF PhaseOK
        <5>3. CASE Back # "seek_issued"
          <6>1. work'.op \in {"readid", "xfer"}
            BY <1>2, <1>4, <4>5, <5>1, <5>3
          <6>2. ~Sent'
            BY <1>3, <2>1, <5>3 DEF Sent
          <6>3. PlainOK'
            BY <1>1, <1>2, <1>3, <3>1, <3>4, <4>3, <6>1 DEF PlainOK, Known
          <6>4. QED
            BY <1>1, <1>3, <2>1, <2>3, <3>2, <3>3, <6>2, <6>3 DEF PhaseOK
        <5>4. QED
          BY <5>2, <5>3
      <4>6. QED
        BY <4>4, <4>5
    <3>7. QED
      BY <3>5, <3>6 DEF SendCommand, __fdc_command
  <2>4. QED
    BY <2>2, <2>3
<1>9. QED
  BY <1>3, <1>5, <1>7, <1>8 DEF ExactInv

LEMMA IssueExact ==
    ASSUME MaskOK, ExactInv, Issue \/ IssueChecked
    PROVE  ExactInv'
<1>1. CASE Issue
  BY <1>1, InnerLabels, SendExact DEF Issue, IsrSeeks
<1>2. CASE IssueChecked /\ ~IsrSeeks
  BY <1>2, InnerLabels, SendExact DEF IssueChecked, IsrSeeks
<1>3. CASE IssueChecked /\ IsrSeeks
  <2>1. /\ At("issue_checked") /\ stack' = Tail(stack) /\ ret' = "err" /\ hide_interrupt
        /\ irq_level' = irq_level
        /\ UNCHANGED <<Controller, in_reset, resetting, interrupt_seen, faults>>
    BY <1>3 DEF IssueChecked, IsrSeeks, Return, driver, hardware, Controller
  <2>2. /\ Here = "issue_checked" /\ stack # <<>> /\ ~Alone
        /\ Back \in {"reset_end", "disable_reset", "seek_issued", "readid_issued",
                     "setup_perpend", "setup_done"}
    BY <2>1, InnerFacts, InnerLabels
  <2>3. /\ Shape(stack') /\ stack' # <<>> /\ Here' = Back /\ Outer' = Outer /\ Aim' = Aim
    BY <2>1, <2>2, ReturnPlace DEF ExactInv
  <2>4. LevelOK'
    BY <2>1, <2>2, <2>3 DEF ExactInv, LevelOK, One
  <2>5. FaultsOK' /\ (Undisturbed' => HiddenOK /\ PhaseOK)
    BY <2>1, FaultsGrow DEF ExactInv
  <2>6. HiddenOK /\ PhaseOK => HiddenOK' /\ PhaseOK'
    BY <2>1, <2>2, <2>3 DEF HiddenOK, PhaseOK, ResetOK, Sent, SentOK, Known, PlainOK,
       ClosingOK, Still, Polls, OuterMasks, Controller, IsrCommand
  <2>7. QED
    BY <2>3, <2>4, <2>5, <2>6 DEF ExactInv
<1>4. QED
  BY <1>1, <1>2, <1>3

-----------------------------------------------------------------------------
(* Seeks that were sent, closing, and calls from outside                    *)

(* fdc_seek() waits for its seek, and looks what has become of it.         *)
LEMMA SeekSentExact ==
    ASSUME MaskOK, ExactInv, (SeekIssued /\ ret = "ok") \/ SeekWaited
    PROVE  ExactInv'
<1>1. CASE SeekIssued /\ ret = "ok"
  <2>1. /\ At("seek_issued") /\ Call(Frame("iw"), "seek_waited") /\ irq_level' = irq_level
        /\ UNCHANGED <<Controller, in_reset, resetting, interrupt_seen, faults>>
    BY <1>1 DEF SeekIssued, driver, hardware, Controller
  <2>2. /\ Here = "seek_issued" /\ Outer = "seek_issued" /\ stack # <<>> /\ Alone
        /\ Top \in ProcFrames /\ ~in_reset /\ irq_level = One(OuterMasks, "seek_issued")
    BY <2>1, OuterFacts, LabelKinds
  <2>3. Frame("iw") \in ProcFrames /\ Frame("iw").at = "iw"
    BY IssueFrames DEF Labels
  <2>4. Fits(Frame("iw"), [Top EXCEPT !.at = "seek_waited"])
    BY <2>2, <2>3 DEF ProcFrames, Fits, WaitLabels
  <2>5. /\ Kin("seek_issued", "seek_waited") /\ "seek_waited" \in Labels
        /\ "iw" \notin SeekLabels
    BY LabelKinds DEF SeekLabels, Labels
  <2>6. /\ Shape(stack') /\ stack' # <<>> /\ Here' = "iw" /\ Back' = "seek_waited"
        /\ Outer' = "seek_waited" /\ Aim' = Aim
    BY <2>1, <2>2, <2>3, <2>4, <2>5, CallPlace DEF ExactInv
  <2>7. LevelOK'
    BY <2>1, <2>2, <2>6 DEF LevelOK, One, OuterMasks
  <2>8. FaultsOK' /\ (Undisturbed' => HiddenOK /\ PhaseOK)
    BY <2>1, FaultsGrow DEF ExactInv
  <2>9. HiddenOK /\ PhaseOK => HiddenOK' /\ PhaseOK'
    BY <1>1, <2>1, <2>2, <2>6 DEF HiddenOK, PhaseOK, Sent, SentOK, Still, OuterMasks,
       Controller
  <2>10. QED
    BY <2>6, <2>7, <2>8, <2>9 DEF ExactInv
<1>2. CASE SeekWaited
  <2>1. /\ At("seek_waited") /\ stack' = Tail(stack) /\ irq_level' = irq_level
        /\ UNCHANGED <<Controller, in_reset, resetting, interrupt_seen, faults>>
    BY <1>2 DEF SeekWaited, Return, driver, hardware, Controller
  <2>2. /\ Here = "seek_waited" /\ Outer = "seek_waited" /\ Back = "out" /\ stack # <<>>
        /\ Alone /\ ~in_reset /\ irq_level = One(OuterMasks, "seek_waited")
    BY <2>1, OuterFacts, LabelKinds
  <2>3. Shape(stack') /\ Here' = "out" /\ Outer' = "out"
    BY <2>1, <2>2, ReturnPlace DEF ExactInv
  <2>4. LevelOK'
    BY <2>1, <2>2, <2>3 DEF LevelOK, One, OuterMasks
  <2>5. FaultsOK' /\ (Undisturbed' => HiddenOK /\ PhaseOK)
    BY <2>1, FaultsGrow DEF ExactInv
  <2>6. HiddenOK /\ PhaseOK => HiddenOK' /\ PhaseOK'
    BY <2>1, <2>2, <2>3 DEF HiddenOK, PhaseOK, Sent, SentOK, PlainOK, Known, Still,
       OuterMasks, Controller
  <2>7. QED
    BY <2>3, <2>4, <2>5, <2>6 DEF ExactInv
<1>3. QED
  BY <1>1, <1>2

(* fdc_disable() resets the controller and lets it go.                     *)
LEMMA DisableExact ==
    ASSUME MaskOK, ExactInv, DisableLock \/ DisableEnd
    PROVE  ExactInv'
<1>1. CASE DisableLock
  <2>1. /\ At("disable_lock") /\ Call(Frame("iw"), "disable_end")
        /\ irq_level' = irq_level + 1 /\ UNCHANGED <<in_reset, active, faults>>
        /\ work' \in {None, Cmd("poll"), Cmd("stray")}
        /\ intr' \in {None, Cmd("stray")}
    BY <1>1 DEF DisableLock, dor_reset, fdc_disable_irq, None
  <2>2. /\ Here = "disable_lock" /\ Outer = "disable_lock" /\ stack # <<>> /\ Alone
        /\ Top \in ProcFrames /\ ~in_reset /\ irq_level = One(OuterMasks, "disable_lock")
    BY <2>1, OuterFacts, LabelKinds
  <2>3. Frame("iw") \in ProcFrames /\ Frame("iw").at = "iw"
    BY IssueFrames DEF Labels
  <2>4. Fits(Frame("iw"), [Top EXCEPT !.at = "disable_end"])
    BY <2>2, <2>3 DEF ProcFrames, Fits, WaitLabels
  <2>5. /\ Kin("disable_lock", "disable_end") /\ "disable_end" \in Labels
        /\ "iw" \notin SeekLabels
    BY LabelKinds DEF SeekLabels, Labels
  <2>6. Shape(stack') /\ stack' # <<>> /\ Here' = "iw" /\ Outer' = "disable_end"
    BY <2>1, <2>2, <2>3, <2>4, <2>5, CallPlace DEF ExactInv
  <2>7. LevelOK'
    BY <2>1, <2>2, <2>6 DEF LevelOK, One, OuterMasks
  <2>8. FaultsOK' /\ (Undisturbed' => PhaseOK)
    BY <2>1, FaultsGrow DEF ExactInv
  <2>9. HiddenOK' /\ (PhaseOK => PhaseOK')
    BY <2>1, <2>2, <2>6 DEF HiddenOK, PhaseOK, ClosingOK, OuterMasks
  <2>10. QED
    BY <2>6, <2>7, <2>8, <2>9 DEF ExactInv
<1>2. CASE DisableEnd
  <2>1. /\ At("disable_end") /\ stack' = Tail(stack) /\ irq_level' = irq_level
        /\ ~active' /\ work' = None /\ intr' = None /\ faults' = faults
    BY <1>2 DEF DisableEnd, Return
  <2>2. Alone /\ Back = "out" /\ irq_level = One(OuterMasks, "disable_end")
    BY <2>1, OuterFacts, LabelKinds
  <2>3. Shape(stack') /\ stack' = <<>> /\ Here' = "out" /\ Outer' = "out"
    BY <2>1, <2>2, ReturnPlace DEF ExactInv
  <2>4. LevelOK'
    BY <2>1, <2>2, <2>3 DEF LevelOK, One, OuterMasks
  <2>5. FaultsOK'
    BY <2>1, FaultsGrow DEF ExactInv
  <2>6. HiddenOK' /\ PhaseOK'
    BY <2>1, <2>3 DEF HiddenOK, PhaseOK, Still, OuterMasks
  <2>7. QED
    BY <2>3, <2>4, <2>5, <2>6 DEF ExactInv
<1>3. QED
  BY <1>1, <1>2

(* A stack of one frame.                                                   *)
LEMMA OneFrame ==
    ASSUME NEW f \in ProcFrames, f.at \notin IssueLabels, Sound(f)
    PROVE  Shape(<<f>>) /\ TopOf(<<f>>) = f.at /\ LastOf(<<f>>) = f.at
<1> DEFINE s == <<f>>
<1>1. s \in Seq(ProcFrames) /\ Len(s) = 1 /\ s[1] = f /\ s # <<>>
  OBVIOUS
<1> HIDE DEF s
<1>2. TopOf(s) = f.at /\ LastOf(s) = f.at
  BY <1>1 DEF TopOf, LastOf
<1>3. \A i \in 1 .. (Len(s) - 1) : FALSE
  BY <1>1
<1>4. \A i \in 1 .. Len(s) : i = 1
  BY <1>1
<1>5. Shape(s)
  BY <1>1, <1>2, <1>3, <1>4 DEF Shape
<1>6. QED
  BY <1>2, <1>5 DEF s

(* A call from outside.                                                    *)
LEMMA NewCallExact ==
    ASSUME MaskOK, ExactInv, NewCall
    PROVE  ExactInv'
<1>1. /\ stack = <<>> /\ ~in_reset /\ irq_level = 0 /\ irq_level' = 0
      /\ UNCHANGED <<work, intr, pcn, current_cylinder, hide_interrupt, in_reset, faults>>
  <2>1. stack = <<>> /\ irq_level' = irq_level
    BY DEF NewCall
  <2>2. irq_level = 0 /\ Bit(in_reset) = 0
    BY <2>1, CountsEmpty DEF MaskOK
  <2>3. ~in_reset
    BY <2>2 DEF Bit
  <2>4. QED
    BY <2>1, <2>2, <2>3 DEF NewCall, hardware
<1>2. Here = "out" /\ Outer = "out"
  BY <1>1 DEF Here, Outer, TopOf, LastOf
<1>3. PICK f \in ProcFrames :
         /\ stack' = <<f>> /\ Sound(f) /\ active'
         /\ \/ ~active /\ f.at = "reset"
            \/ active /\ f.at \in {"waitseg", "stop", "disable", "readid", "setup", "seek"}
  <2>1. CASE ~active /\ active' /\ stack' = <<Frame("reset")>>
    BY <2>1, IssueFrames DEF Labels, Sound, SeekLabels
  <2>2. CASE /\ active /\ active' = active
             /\ \E label \in {"waitseg", "stop", "disable", "readid", "setup"} :
                   stack' = <<Frame(label)>>
    BY <2>2, IssueFrames DEF Labels, Sound, SeekLabels
  <2>3. CASE active /\ active' = active /\ ft_send_to_drive
    <3> DEFINE g(c, t) == [at |-> "seek", cmd |-> [Cmd("seek") EXCEPT !.from = c, !.to = t]]
    <3>1. PICK c \in Cylinders, t \in Cylinders : stack' = <<g(c, t)>>
      BY <2>3 DEF ft_send_to_drive
    <3>2. g(c, t) \in ProcFrames /\ g(c, t).at = "seek" /\ Sound(g(c, t))
      BY DEF ProcFrames, Cmd, Labels, Sound
    <3>3. QED
      BY <2>3, <3>1, <3>2
  <2>4. QED
    BY <2>1, <2>2, <2>3 DEF NewCall
<1>4. Shape(stack') /\ Here' = f.at /\ Outer' = f.at
  <2>1. f.at \notin IssueLabels
    BY <1>3, InnerLabels
  <2>2. QED
    BY <1>3, <2>1, OneFrame DEF Here, Outer
<1>5. LevelOK' /\ ~Sent' /\ HiddenOK' /\ f.at # "disable_end"
  BY <1>1, <1>3, <1>4 DEF LevelOK, One, OuterMasks, Sent, HiddenOK
<1>6. FaultsOK' /\ (Undisturbed' => PhaseOK)
  BY <1>1, FaultsGrow DEF ExactInv
<1>7. PhaseOK => PhaseOK'
  <2>1. CASE ~active /\ f.at = "reset"
    BY <1>1, <1>3, <1>4, <1>5, <2>1 DEF PhaseOK, PlainOK, Known, Still
  <2>2. CASE active /\ f.at # "reset"
    <3>1. PhaseOK => PlainOK
      BY <1>1, <1>2, <2>2 DEF PhaseOK, Sent
    <3>2. PlainOK => PlainOK'
      BY <1>1, <1>2, <1>4, <2>2 DEF PlainOK, Known, Still, IsrCommand
    <3>3. QED
      BY <1>1, <1>3, <1>4, <1>5, <3>1, <3>2 DEF PhaseOK
  <2>3. QED
    BY <1>3, <2>1, <2>2
<1>8. QED
  BY <1>4, <1>5, <1>6, <1>7 DEF ExactInv

-----------------------------------------------------------------------------
(* The controller and the handler                                           *)

(* Where the process is does not change with the controller or handler.    *)
LEMMA PlaceKept ==
    ASSUME stack' = stack, ret' = ret, irq_level' = irq_level
    PROVE  /\ Here' = Here /\ Back' = Back /\ Outer' = Outer /\ Aim' = Aim
           /\ (Shape(stack))' = Shape(stack) /\ (LevelOK' <=> LevelOK) /\ (Sent' <=> Sent)
BY DEF Here, Back, Outer, Aim, Shape, LevelOK, Sent

(* The controller ends a command; an interrupt is not lost.                *)
LEMMA CompleteExact ==
    ASSUME MaskOK, ExactInv, Complete
    PROVE  ExactInv'
<1>1. /\ stack' = stack /\ ret' = ret /\ irq_level' = irq_level
      /\ work # None /\ work' = None
      /\ pcn' = (IF work.op = "seek" THEN work.to ELSE pcn)
      /\ UNCHANGED <<current_cylinder, hide_interrupt, active, in_reset, resetting,
                     interrupt_seen>>
  BY DEF Complete, driver
<1>2. /\ Here' = Here /\ Back' = Back /\ Outer' = Outer /\ Aim' = Aim
      /\ Shape(stack') /\ LevelOK' /\ (Sent' <=> Sent)
  BY <1>1, PlaceKept DEF ExactInv
<1>3. faults' = faults \/ \E kind : Fault(kind)
  BY DEF Complete
<1>4. FaultsOK' /\ (Undisturbed' => HiddenOK /\ PhaseOK /\ intr' = work)
  BY <1>3, FaultsGrow DEF ExactInv, Complete
<1>5. /\ Cmd("poll").op # "seek" /\ Cmd("stray").op # "seek" /\ None.op = "none"
      /\ Cmd("poll").op = "poll"
  BY CmdOps
<1>6. ASSUME HiddenOK, PhaseOK, intr' = work
      PROVE  HiddenOK' /\ PhaseOK'
  <2>1. HiddenOK'
    BY <1>1, <1>2, <1>6 DEF HiddenOK
  <2>2. CASE in_reset
    <3>1. ResetOK /\ active
      BY <1>1, <1>6, <2>2 DEF PhaseOK, Still
    <3>2. work = Cmd("poll") /\ resetting
      BY <1>1, <3>1 DEF ResetOK, Polls, Still
    <3>3. ResetOK'
      BY <1>1, <1>2, <1>5, <1>6, <3>1, <3>2 DEF ResetOK, Polls
    <3>4. QED
      BY <1>1, <2>1, <2>2, <3>1, <3>3 DEF PhaseOK
  <2>3. CASE ~in_reset /\ Outer = "disable_end"
    BY <1>1, <1>2, <1>6, <2>1, <2>3 DEF PhaseOK, ClosingOK, Still
  <2>4. CASE ~in_reset /\ Outer # "disable_end" /\ Sent
    <3>1. SentOK /\ active
      BY <1>1, <1>6, <2>4 DEF PhaseOK, Still
    <3>2. SentOK'
      BY <1>1, <1>2, <1>6, <3>1 DEF SentOK, Still
    <3>3. QED
      BY <1>1, <1>2, <2>1, <2>4, <3>1, <3>2 DEF PhaseOK
  <2>5. CASE ~in_reset /\ Outer # "disable_end" /\ ~Sent
    <3>1. PlainOK /\ active
      BY <1>1, <1>6, <2>5 DEF PhaseOK, Still
    <3>2. PlainOK'
      BY <1>1, <1>2, <1>6, <3>1 DEF PlainOK, Still, Known, IsrCommand
    <3>3. QED
      BY <1>1, <1>2, <2>1, <2>5, <3>1, <3>2 DEF PhaseOK
  <2>6. QED
    BY <2>2, <2>3, <2>4, <2>5
<1>7. QED
  BY <1>2, <1>4, <1>6 DEF ExactInv

(* The handler runs only if the interrupt is not masked: no function has   *)
(* it masked to issue a command, and nobody is about to sleep.             *)
LEMMA HandlerExact ==
    ASSUME MaskOK, ExactInv, fdc_isr
    PROVE  ExactInv'
<1>1. /\ stack' = stack /\ ret' = ret /\ irq_level' = irq_level /\ irq_level = 0 /\ active
      /\ intr # None /\ intr' = None /\ UNCHANGED <<in_reset, active, pcn>>
  BY DEF fdc_isr
<1>2. /\ Here' = Here /\ Back' = Back /\ Outer' = Outer /\ Aim' = Aim
      /\ Shape(stack') /\ LevelOK' /\ (Sent' <=> Sent)
  BY <1>1, PlaceKept DEF ExactInv
<1>3. Outer \notin OuterMasks /\ Here # "iw"
  BY <1>1 DEF ExactInv, LevelOK, One
<1>4. HiddenOK'
  BY <1>2, <1>3 DEF HiddenOK
<1>5. faults' = faults \/ \E kind : Fault(kind)
  BY DEF fdc_isr, handle_fdc_busy, TransferEnded, SenseInterrupt
<1>6. FaultsOK' /\ (Undisturbed' => PhaseOK)
  BY <1>5, FaultsGrow DEF ExactInv
<1>7. \A op : Cmd(op).op = op /\ Cmd(op).by = "process"
  BY CmdOps
<1>8. CASE SenseInterrupt
  <2>1. /\ ~hide_interrupt' /\ interrupt_seen' /\ work' = work
        /\ intr.op # "stray" => current_cylinder' = pcn /\ ~resetting'
        /\ resetting' => resetting
        /\ intr.op = "stray" => current_cylinder' = current_cylinder
                                /\ resetting' = (resetting /\ TRUE)
    BY <1>8 DEF SenseInterrupt, SensedCylinder, WakeUp
  <2>2. intr.op = "stray" /\ resetting => resetting'
    BY <2>1
  <2>3. intr.op \in {"stray", "poll", "seek"}
    BY <1>8 DEF SenseInterrupt
  <2>4. ASSUME PhaseOK PROVE PhaseOK'
    <3>1. CASE in_reset
      <4>1. ResetOK
        BY <1>1, <2>4, <3>1 DEF PhaseOK
      <4>2. resetting /\ Polls
        BY <1>1, <4>1 DEF ResetOK, Still
      <4>3. CASE work = Cmd("poll") /\ intr = Cmd("stray")
        <5>1. resetting' /\ Polls'
          BY <1>1, <1>7, <2>1, <2>2, <4>2, <4>3 DEF Polls
        <5>2. ResetOK'
          BY <1>2, <1>3, <4>1, <4>2, <5>1, <1>1 DEF ResetOK
        <5>3. QED
          BY <1>1, <3>1, <5>2 DEF PhaseOK
      <4>4. CASE work = None /\ intr = Cmd("poll")
        <5>1. /\ intr.op = "poll" /\ ~resetting' /\ Still'
              /\ current_cylinder' = pcn'
          BY <1>1, <1>7, <2>1, <4>4 DEF Still
        <5>2. ResetOK'
          BY <1>2, <1>3, <2>1, <4>1, <5>1 DEF ResetOK
        <5>3. QED
          BY <1>1, <3>1, <5>2 DEF PhaseOK
      <4>5. QED
        BY <1>1, <4>2, <4>3, <4>4 DEF Polls
    <3>2. CASE ~in_reset /\ Outer = "disable_end"
      BY <1>1, <1>2, <2>1, <2>4, <3>2 DEF PhaseOK, ClosingOK
    <3>3. CASE ~in_reset /\ Outer # "disable_end" /\ Sent
      <4>1. SentOK
        BY <1>1, <2>4, <3>3 DEF PhaseOK
      <4>2. work = None /\ intr.op = "seek" /\ pcn = Aim
        BY <1>1, <4>1 DEF SentOK, Still
      <4>3. SentOK'
        BY <1>1, <1>2, <2>1, <4>1, <4>2 DEF SentOK, Still
      <4>4. QED
        BY <1>1, <1>2, <3>3, <4>3 DEF PhaseOK
    <3>4. CASE ~in_reset /\ Outer # "disable_end" /\ ~Sent
      <4>1. PlainOK
        BY <1>1, <2>4, <3>4 DEF PhaseOK
      <4>2. work = None /\ intr.op # "stray"
        BY <1>1, <2>3, <4>1 DEF PlainOK, Still
      <4>3. PlainOK'
        BY <1>1, <1>2, <2>1, <4>1, <4>2 DEF PlainOK, Still, Known
      <4>4. QED
        BY <1>1, <1>2, <3>4, <4>3 DEF PhaseOK
    <3>5. QED
      BY <3>1, <3>2, <3>3, <3>4
  <2>5. QED
    BY <1>2, <1>4, <1>6, <2>4 DEF ExactInv
<1>9. CASE handle_fdc_busy
  <2>1. intr.op \in {"xfer", "readid"} /\ current_cylinder' = current_cylinder
    BY <1>9 DEF handle_fdc_busy
  <2>2. ASSUME PhaseOK PROVE PhaseOK'
    <3>1. ~in_reset /\ Outer # "disable_end" /\ ~Sent /\ PlainOK
      <4>1. \A op \in {"none", "poll", "stray", "seek"} : intr # Cmd(op) /\ intr.op # op
        BY <1>7, <2>1
      <4>2. intr # None
        BY <1>1
      <4>3. ~ClosingOK /\ ~ResetOK /\ ~SentOK
        BY <4>1, <4>2, <1>3 DEF ClosingOK, ResetOK, Polls, Still, SentOK
      <4>4. QED
        BY <1>1, <2>2, <4>3 DEF PhaseOK
    <3>2. ~hide_interrupt /\ work = None /\ Known /\ Outer # "reset"
      BY <1>1, <2>1, <3>1 DEF PlainOK, Still
    <3>3. current_cylinder = pcn
      BY <3>2 DEF Known
    <3>4. PlainOK'
      <4>1. CASE WakeUp /\ work' = Cmd("xfer")
        BY <1>1, <1>2, <1>7, <2>1, <3>2, <3>3, <4>1 DEF PlainOK, WakeUp, Known
      <4>2. CASE WakeUp /\ work' = None
        BY <1>1, <1>2, <2>1, <3>2, <3>3, <4>2 DEF PlainOK, WakeUp, Known, Still
      <4>3. CASE hide_interrupt' /\ \E t \in Cylinders :
                   work' = [op |-> "seek", from |-> current_cylinder, to |-> t,
                            by |-> "isr", exact |-> (current_cylinder = pcn)]
        <5>1. work'.op = "seek" /\ work'.by = "isr"
          BY <4>3
        <5>2. work'.exact
          <6>1. \A t : [op |-> "seek", from |-> current_cylinder, to |-> t, by |-> "isr",
                        exact |-> (current_cylinder = pcn)].exact = (current_cylinder = pcn)
            OBVIOUS
          <6>2. work'.exact = (current_cylinder = pcn)
            BY <4>3, <6>1, Zenon
          <6>3. QED
            BY <3>3, <6>2, Zenon
        <5>3. QED
          BY <1>1, <1>2, <3>2, <4>3, <5>1, <5>2 DEF PlainOK, IsrCommand
      <4>4. CASE hide_interrupt' /\ work' = work
        BY <1>1, <1>2, <2>1, <3>2, <3>3, <4>4 DEF PlainOK, Known, Still
      <4>5. QED
        BY <1>9, <3>2, <4>1, <4>2, <4>3, <4>4 DEF handle_fdc_busy, TransferEnded
    <3>5. QED
      BY <1>1, <1>2, <3>1, <3>4 DEF PhaseOK
  <2>3. QED
    BY <1>2, <1>4, <1>6, <2>2 DEF ExactInv
<1>10. QED
  BY <1>8, <1>9 DEF fdc_isr

-----------------------------------------------------------------------------
LEMMA ExactStep ==
    ASSUME MaskOK, ExactInv, [Next]_vars
    PROVE  ExactInv'
<1>1. CASE NewCall
  BY <1>1, NewCallExact
<1>2. CASE Process
  <2>1. CASE Wait \/ Woken \/ WaitInVain \/ WaitFailed
    BY <2>1, WaitExact, WokenExact, WaitInVainExact, WaitFailedExact
  <2>2. CASE ResetNested \/ Reset \/ ResetWaited \/ ResetSpecify \/ ResetEnd
    BY <2>2, ResetNestedExact, ResetExact, ResetWaitedExact, ResetSpecifyExact,
       ResetEndExact
  <2>3. CASE Issue \/ IssueWaits \/ IssueChecked
    BY <2>3, IssueExact, IssueWaitsExact
  <2>4. CASE Seek \/ SeekLock \/ SeekIssued \/ SeekFailed \/ SeekWaited
    BY <2>4, SeekExact, SeekSentExact
  <2>5. CASE ReadId \/ ReadIdIssued \/ Setup \/ SetupPerpend \/ SetupDone
    BY <2>5, CommandExact
  <2>6. CASE \/ WaitSegment \/ WaitSegmentEnd \/ StopTape \/ StopTapeEnd
             \/ Disable \/ DisableReset
    BY <2>6, OtherExact
  <2>7. CASE DisableLock \/ DisableEnd
    BY <2>7, DisableExact
  <2>8. QED
    BY <1>2, <2>1, <2>2, <2>3, <2>4, <2>5, <2>6, <2>7 DEF Process
<1>3. CASE Complete
  BY <1>3, CompleteExact
<1>4. CASE fdc_isr
  BY <1>4, HandlerExact
<1>5. CASE UNCHANGED vars
  <2>1. /\ stack' = stack /\ ret' = ret /\ irq_level' = irq_level
        /\ UNCHANGED <<Controller, in_reset, resetting, interrupt_seen, faults>>
    BY <1>5 DEF vars, driver, hardware, Controller
  <2>2. /\ Here' = Here /\ Back' = Back /\ Outer' = Outer /\ Aim' = Aim
        /\ Shape(stack') /\ LevelOK' /\ (Sent' <=> Sent)
    BY <2>1, PlaceKept DEF ExactInv
  <2>3. FaultsOK' /\ (Undisturbed' => HiddenOK /\ PhaseOK)
    BY <2>1, FaultsGrow DEF ExactInv
  <2>4. HiddenOK /\ PhaseOK => HiddenOK' /\ PhaseOK'
    BY <2>1, <2>2 DEF HiddenOK, PhaseOK, ResetOK, SentOK, Known, PlainOK,
       ClosingOK, Still, Polls, Controller, IsrCommand
  <2>5. QED
    BY <2>2, <2>3, <2>4 DEF ExactInv
<1>6. QED
  BY <1>1, <1>2, <1>3, <1>4, <1>5 DEF Next

LEMMA ExactInit == Init => ExactInv
<1>1. SUFFICES ASSUME Init PROVE ExactInv
  OBVIOUS
<1>2. /\ stack = <<>> /\ irq_level = 0 /\ ~active /\ work = None /\ intr = None
      /\ FaultsOK
  BY <1>1 DEF Init, FaultsOK
<1>3. Here = "out" /\ Outer = "out"
  BY <1>2 DEF Here, Outer, TopOf, LastOf
<1>4. Shape(stack)
  <2>1. stack \in Seq(ProcFrames) /\ Len(stack) = 0
    BY <1>2
  <2>2. \A i \in 1 .. Len(stack) : FALSE
    BY <2>1
  <2>3. \A i \in 1 .. (Len(stack) - 1) : FALSE
    BY <2>1
  <2>4. LastOf(stack) \notin IssueLabels
    BY <1>3 DEF Outer, IssueLabels
  <2>5. QED
    BY <2>1, <2>2, <2>3, <2>4 DEF Shape
<1>5. LevelOK /\ HiddenOK /\ PhaseOK
  BY <1>2, <1>3 DEF LevelOK, One, OuterMasks, HiddenOK, PhaseOK, Still
<1>6. QED
  BY <1>2, <1>4, <1>5 DEF ExactInv

(***************************************************************************)
(* fdc_seek() succeeds only after the seek it asked for has ended with the *)
(* head where the caller wants it.  The seeks of the handler               *)
(* (handle_fdc_busy) always start from the cylinder the controller is at,  *)
(* those of the process if current_cylinder has not changed since          *)
(* ft_send_to_drive() looked at it: no interleaving of calls, interrupts   *)
(* and resets has a seek start with a stale current_cylinder, as long as   *)
(* no interrupt is lost and no sleep is cut short.                         *)
(***************************************************************************)
THEOREM SeeksExact == Spec => []SeeksAreExact
<1>1. SyncInv /\ ExactInv => SeeksAreExact
  <2>1. SUFFICES ASSUME MaskOK, ExactInv, Undisturbed
                 PROVE  /\ At("seek_waited") /\ SeekDone
                             => pcn = Top.cmd.to /\ work.op # "seek"
                        /\ /\ work.op = "seek"
                           /\ work.by = "isr" \/ work.from = current_cylinder
                           => work.exact
    BY DEF SyncInv, SeeksAreExact
  <2>2. PhaseOK
    BY <2>1 DEF ExactInv
  <2>3. ASSUME At("seek_waited") PROVE pcn = Top.cmd.to /\ work.op # "seek"
    <3>1. /\ Here = "seek_waited" /\ Outer = "seek_waited" /\ ~in_reset
          /\ Aim = Top.cmd.to /\ stack # <<>>
      BY <2>1, <2>3, OuterFacts, LabelKinds
    <3>2. SentOK
      BY <2>2, <3>1 DEF PhaseOK, Sent
    <3>3. Still /\ pcn = Aim
      BY <3>1, <3>2 DEF SentOK
    <3>4. QED
      BY <3>1, <3>3, CmdOps DEF Still
  <2>4. ASSUME work.op = "seek", work.by = "isr" \/ work.from = current_cylinder
        PROVE  work.exact
    <3>1. work # None /\ work # Cmd("poll") /\ work # Cmd("stray")
      BY <2>4, CmdOps
    <3>2. CASE PlainOK
      BY <2>4, <3>1, <3>2 DEF PlainOK, Still, IsrCommand
    <3>3. CASE SentOK
      BY <2>4, <3>1, <3>3 DEF SentOK, Still
    <3>4. PlainOK \/ SentOK
      BY <2>2, <3>1 DEF PhaseOK, ResetOK, Polls, Still, ClosingOK
    <3>5. QED
      BY <3>2, <3>3, <3>4
  <2>5. QED
    BY <2>3, <2>4
<1>2. Spec => [](SyncInv /\ ExactInv)
  <2>1. SyncInv => MaskOK
    BY DEF SyncInv
  <2>2. QED
    BY <2>1, SyncInit, SyncStep, ExactInit, ExactStep, PTL DEF Spec
<1>3. QED
  BY <1>1, <1>2, PTL

-----------------------------------------------------------------------------
(* Types                                                                    *)

(* The types of what the invariants above do not mention.                  *)
RestOK ==
    /\ ret \in {"ok", "err"}
    /\ mode \in {"idle", "other", "seek", "readid", "xfer"}
    /\ hide_interrupt \in BOOLEAN /\ interrupt_seen \in BOOLEAN /\ resetting \in BOOLEAN
    /\ active \in BOOLEAN /\ seek_result \in BOOLEAN
    /\ current_cylinder \in Cylinders /\ pcn \in Cylinders
    /\ work \in Commands /\ intr \in Commands
    /\ left \in 0 .. Clusters
    /\ faults \in [Faults -> 0 .. MaxFaults]

LEMMA CmdTypes ==
    /\ \A op \in {"none", "other", "seek", "readid", "xfer", "poll", "stray"} :
          Cmd(op) \in Commands
    /\ None \in Commands /\ 0 \in Cylinders
BY CylindersAssumption DEF None, Cmd, Commands

LEMMA FaultType ==
    ASSUME faults \in [Faults -> 0 .. MaxFaults],
           faults' = faults \/ \E kind : Fault(kind)
    PROVE  faults' \in [Faults -> 0 .. MaxFaults]
<1>1. CASE faults' = faults
  BY <1>1
<1>2. CASE \E kind : Fault(kind)
  <2>1. PICK kind \in Faults : /\ faults[kind] < MaxFaults
                               /\ faults' = [faults EXCEPT ![kind] = @ + 1]
    BY <1>2 DEF Fault
  <2>2. faults[kind] + 1 \in 0 .. MaxFaults
    BY <2>1, SyncFaultsAssumption
  <2>3. QED
    BY <2>1, <2>2
<1>3. QED
  BY <1>1, <1>2

(* Steps that move the process and touch a flag at most.                   *)
LEMMA QuietRest ==
    ASSUME RestOK, ret' \in {"ok", "err"}, interrupt_seen' \in BOOLEAN,
           resetting' \in BOOLEAN, seek_result' \in BOOLEAN, active' \in BOOLEAN,
           mode' \in {"idle", "other", "seek", "readid", "xfer"}, left' \in 0 .. Clusters,
           work' \in Commands, intr' \in Commands, pcn' \in Cylinders,
           UNCHANGED <<hide_interrupt, current_cylinder>>,
           faults' = faults \/ \E kind : Fault(kind)
    PROVE  RestOK'
BY FaultType DEF RestOK

(* A command that is issued is one of these.                               *)
LEMMA IssuedCommand ==
    ASSUME ExactInv, At("issue") \/ At("issue_checked")
    PROVE  /\ Top.cmd.op \in {"other", "seek", "readid", "xfer"}
           /\ \A b \in BOOLEAN : [Top.cmd EXCEPT !.exact = b] \in Commands
<1>1. PICK from \in IssueLabels : At(from)
  BY InnerLabels
<1>2. /\ Top \in ProcFrames /\ Top.at = from /\ Fits(Top, stack[2]) /\ Sound(stack[2])
  BY <1>1, PlaceFacts DEF ExactInv
<1>3. Top.cmd.op \in {"other", "seek", "readid", "xfer"}
  BY <1>1, <1>2, InnerLabels DEF Fits, Sound, SeekLabels
<1>4. QED
  BY <1>2, <1>3 DEF ProcFrames, Commands

LEMMA ProcessRest ==
    ASSUME MaskOK, ExactInv, RestOK, Process
    PROVE  RestOK'
<1> USE CmdTypes, QuietRest, ClustersAssumption
<1>1. CASE Wait \/ Woken \/ WaitInVain \/ WaitFailed
  BY <1>1 DEF RestOK, Wait, Woken, WaitInVain, WaitFailed, Goto, Call, Return,
     driver, hardware
<1>2. CASE ResetNested \/ ResetWaited \/ ResetSpecify \/ ResetEnd
  BY <1>2 DEF RestOK, ResetNested, ResetWaited, ResetSpecify, ResetEnd, Goto, Call,
     Return, driver, hardware
<1>3. CASE Reset
  BY <1>3 DEF RestOK, Reset, dor_reset, Call
<1>4. CASE IssueWaits
  BY <1>4 DEF RestOK, IssueWaits, Call, driver, hardware
<1>6. CASE Seek \/ SeekLock \/ SeekIssued \/ SeekFailed \/ SeekWaited
  BY <1>6 DEF RestOK, Seek, SeekLock, SeekIssued, SeekFailed, SeekWaited, Goto, Call,
     Return, driver, hardware
<1>7. CASE ReadId \/ ReadIdIssued \/ Setup \/ SetupPerpend \/ SetupDone
  BY <1>7 DEF RestOK, ReadId, ReadIdIssued, Setup, SetupPerpend, SetupDone, Goto,
     Call, Return, driver, hardware
<1>8. CASE WaitSegment \/ WaitSegmentEnd \/ StopTape \/ StopTapeEnd
  BY <1>8 DEF RestOK, WaitSegment, WaitSegmentEnd, StopTape, StopTapeEnd, Goto, Call,
     Return, driver, hardware
<1>9. CASE Disable \/ DisableReset
  BY <1>9 DEF RestOK, Disable, DisableReset, Goto, Call, driver, hardware
<1>10. CASE DisableLock
  BY <1>10 DEF RestOK, DisableLock, dor_reset, Call
<1>11. CASE DisableEnd
  <2>1. resetting' \in BOOLEAN /\ active' \in BOOLEAN
    BY <1>11, Zenon DEF DisableEnd
  <2>2. work' \in Commands /\ intr' \in Commands /\ left' \in 0 .. Clusters
    BY <1>11 DEF DisableEnd
  <2>3. ret' \in {"ok", "err"}
    BY <1>11 DEF DisableEnd, Return
  <2>4. QED
    BY <1>11, <2>1, <2>2, <2>3 DEF RestOK, DisableEnd
<1>5. CASE Issue \/ IssueChecked
  <2>1. /\ Top.cmd.op \in {"other", "seek", "readid", "xfer"}
        /\ \A b \in BOOLEAN : [Top.cmd EXCEPT !.exact = b] \in Commands
    BY <1>5, IssuedCommand DEF Issue, IssueChecked
  <2>2. CASE SendCommand
    <3>1. ret' \in {"ok", "err"} /\ mode' \in {"idle", "other", "seek", "readid", "xfer"}
      BY <2>1, <2>2 DEF RestOK, SendCommand, __fdc_command
    <3>2. work' \in Commands
      <4>1. (Top.cmd.from = pcn) \in BOOLEAN
        OBVIOUS
      <4>2. \/ work' = work
            \/ work' = [Top.cmd EXCEPT !.exact = (Top.cmd.from = pcn)]
        BY <2>2 DEF SendCommand, __fdc_command
      <4>3. QED
        BY <2>1, <4>1, <4>2 DEF RestOK
    <3>3. intr' \in Commands /\ (faults' = faults \/ \E kind : Fault(kind))
      BY <2>2 DEF RestOK, SendCommand, __fdc_command
    <3>4. QED
      BY <2>2, <3>1, <3>2, <3>3 DEF RestOK, SendCommand
  <2>3. CASE Return("err") /\ UNCHANGED <<driver, hardware, left, faults>>
    BY <2>3 DEF RestOK, Return, driver, hardware
  <2>4. QED
    BY <1>5, <2>2, <2>3 DEF Issue, IssueChecked
<1>12. QED
  BY <1>1, <1>2, <1>3, <1>4, <1>5, <1>6, <1>7, <1>8, <1>9, <1>10, <1>11 DEF Process

LEMMA HandlerRest ==
    ASSUME RestOK, fdc_isr
    PROVE  RestOK'
<1>1. intr' \in Commands /\ UNCHANGED <<ret, active, pcn>>
  BY CmdTypes DEF fdc_isr
<1>2. faults' \in [Faults -> 0 .. MaxFaults]
  <2>1. faults' = faults \/ \E kind : Fault(kind)
    BY DEF fdc_isr, handle_fdc_busy, TransferEnded, SenseInterrupt
  <2>2. QED
    BY <2>1, FaultType DEF RestOK
<1>3. CASE SenseInterrupt
  <2>1. resetting' \in BOOLEAN /\ seek_result' \in BOOLEAN
    BY <1>3, Zenon DEF SenseInterrupt
  <2>2. QED
    BY <1>1, <1>2, <1>3, <2>1 DEF RestOK, SenseInterrupt, WakeUp, SensedCylinder
<1>4. CASE handle_fdc_busy
  <2>1. work' \in Commands
    <3>1. \A c, t \in Cylinders, b \in BOOLEAN :
             [op |-> "seek", from |-> c, to |-> t, by |-> "isr", exact |-> b] \in Commands
      BY DEF Commands
    <3>2. (current_cylinder = pcn) \in BOOLEAN
      OBVIOUS
    <3>3. \/ work' \in {work, None, Cmd("xfer")}
          \/ \E t \in Cylinders :
                work' = [op |-> "seek", from |-> current_cylinder, to |-> t,
                         by |-> "isr", exact |-> (current_cylinder = pcn)]
      BY <1>4 DEF handle_fdc_busy, TransferEnded
    <3>4. QED
      BY <3>1, <3>2, <3>3, CmdTypes DEF RestOK
  <2>2. left' \in 0 .. Clusters
    BY <1>4, ClustersAssumption DEF RestOK, handle_fdc_busy, TransferEnded
  <2>3. mode' \in {"idle", "other", "seek", "readid", "xfer"}
    BY <1>4 DEF RestOK, handle_fdc_busy, TransferEnded
  <2>4. /\ hide_interrupt' \in BOOLEAN /\ interrupt_seen' \in BOOLEAN
        /\ seek_result' \in BOOLEAN
    BY <1>4 DEF RestOK, handle_fdc_busy, TransferEnded, WakeUp
  <2>5. QED
    BY <1>1, <1>2, <1>4, <2>1, <2>2, <2>3, <2>4 DEF RestOK, handle_fdc_busy
<1>5. QED
  BY <1>3, <1>4 DEF fdc_isr

LEMMA RestStep ==
    ASSUME MaskOK, ExactInv, RestOK, [Next]_vars
    PROVE  RestOK'
<1>1. CASE NewCall
  BY <1>1 DEF RestOK, NewCall, hardware
<1>2. CASE Process
  BY <1>2, ProcessRest
<1>3. CASE Complete
  <2>1. faults' \in [Faults -> 0 .. MaxFaults]
    <3>1. faults' = faults \/ \E kind : Fault(kind)
      BY <1>3 DEF Complete
    <3>2. QED
      BY <3>1, FaultType DEF RestOK
  <2>2. pcn' \in Cylinders
    BY <1>3 DEF RestOK, Complete, Commands
  <2>3. QED
    BY <1>3, <2>1, <2>2, CmdTypes DEF RestOK, Complete, driver
<1>4. CASE fdc_isr
  BY <1>4, HandlerRest
<1>5. CASE UNCHANGED vars
  BY <1>5 DEF RestOK, vars, driver, hardware
<1>6. QED
  BY <1>1, <1>2, <1>3, <1>4, <1>5 DEF Next

LEMMA RestInit == Init => RestOK
<1> SUFFICES ASSUME Init PROVE RestOK
  OBVIOUS
<1>1. /\ hide_interrupt \in BOOLEAN /\ interrupt_seen \in BOOLEAN /\ resetting \in BOOLEAN
      /\ active \in BOOLEAN /\ seek_result \in BOOLEAN
  BY Zenon DEF Init
<1>2. work \in Commands /\ intr \in Commands
  BY CmdTypes DEF Init
<1>3. 0 \in 0 .. Clusters /\ 0 \in 0 .. MaxFaults
  BY ClustersAssumption, SyncFaultsAssumption
<1>4. faults \in [Faults -> 0 .. MaxFaults]
  BY <1>3 DEF Init
<1>5. QED
  BY <1>1, <1>2, <1>3, <1>4, CmdTypes DEF Init, RestOK

(***************************************************************************)
(* Every variable keeps its type: the controller is only ever sent         *)
(* commands of the driver, the call stack holds frames of the modelled     *)
(* functions only, and fdc_disable_irq() nests at most twice.              *)
(***************************************************************************)
THEOREM SyncTypeCorrect == Spec => []SyncTypeOK
<1>1. SyncInv /\ ExactInv /\ RestOK => SyncTypeOK
  <2>1. SUFFICES ASSUME SyncInv, ExactInv, RestOK PROVE SyncTypeOK
    OBVIOUS
  <2>2. stack \in Seq(Frames)
    <3>1. ProcFrames \subseteq Frames
      BY DEF ProcFrames, Frames, Commands
    <3>2. stack \in Seq(ProcFrames)
      BY <2>1 DEF SyncInv, MaskOK
    <3>3. QED
      BY <3>1, <3>2
  <2>3. irq_level \in 0 .. MaxLevel
    BY <2>1 DEF ExactInv, LevelOK, One, MaxLevel
  <2>4. in_reset \in BOOLEAN
    BY <2>1 DEF SyncInv, MaskOK
  <2>5. QED
    BY <2>1, <2>2, <2>3, <2>4 DEF RestOK, SyncTypeOK
<1>2. Spec => [](SyncInv /\ ExactInv /\ RestOK)
  <2>1. SyncInv => MaskOK
    BY DEF SyncInv
  <2>2. QED
    BY <2>1, SyncInit, SyncStep, ExactInit, ExactStep, RestInit, RestStep, PTL DEF Spec
<1>3. QED
  BY <1>1, <1>2, PTL

=============================================================================
