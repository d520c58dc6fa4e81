---------------------------- MODULE FtapeCtlProofs ----------------------------
(***************************************************************************)
(* Opening and closing, for any drives and cartridges, any controller, any *)
(* timeout, any number of incidents and any sequence of device calls: a    *)
(* device that is closed, or could not be opened, holds neither the        *)
(* controller nor, unless something went wrong, a drive that is awake.     *)
(*                                                                         *)
(* The functions of the driver are frames of a stack, and what a function  *)
(* may rely on when it goes on is what the ones it called have left        *)
(* behind.  The inductive invariant, ReleaseInv, therefore speaks of the   *)
(* stack: which frame may be on which (Stacked, Bottom, BareOK), how many  *)
(* levels of ftape_command() the frames hold (Nested), which commands are  *)
(* under way (CommandsOK), and what is already true at the places that     *)
(* only a function that has done its work gives way to (Asleep).  A drive  *)
(* that needs no waking up is asleep only if something put it to sleep,    *)
(* which is what StaysAwake excludes: ftape_activate_drive() would find it *)
(* only by trying, and the first method tried is none.                     *)
(*                                                                         *)
(* Most functions of the driver take part in none of this.  Their steps    *)
(* (PlainMove) replace the frame on top by others that are as free         *)
(* (FreeRun), and one lemma, Plainly, answers for all of them.             *)
(***************************************************************************)
EXTENDS FtapeCtl, TLAPS

(* These frames hold one level of ftape_command().                         *)
Counted == {"send", "checked", "recheck"}

(* ftape_enable(), to its end or to that of ftape_disable().               *)
Chain == {"enable", "activate", "activate_1", "activate_all", "activate_got",
          "enable_1", "enable_2", "enable_3", "enable_4", "detach", "detached"}

(* The command that puts a drive to sleep is being sent.                   *)
Deselecting(f) == f[1] \in {"command", "send"} /\ f[2] = "deselect"

(* Frame a may be on frame b.                                              *)
May(a, b) ==
    /\ b[1] = "open_1" => a[1] \in Chain
    /\ b[1] \in {"close_1", "enable"} => a[1] \in {"detach", "detached"}
    /\ b[1] = "detached" => a[1] = "sleep" \/ Deselecting(a)
    /\ b[1] # "sleep"

(* _zft_close() goes on only when nothing else is under way.               *)
Stacked(s) ==
    \A i \in 1 .. Len(s) - 1 : May(s[i], s[i + 1]) /\ s[i][1] # "close_1"

(* No frame from the n-th on holds a level.                                *)
Calm(s, n) == \A i \in n .. Len(s) : s[i][1] \notin Counted

(* The levels held: none; one by a command, which may be waiting for the   *)
(* drive or about to read its error; and one more by the reading of the    *)
(* error, which may be waiting for the drive itself.                       *)
Nested(s, level) ==
    \/ Calm(s, 1) /\ level = 0
    \/ /\ Len(s) >= 1 /\ Calm(s, 2) /\ level = 1
       /\ s[1][1] \in Counted
    \/ /\ Len(s) >= 2 /\ Calm(s, 3) /\ level = 1
       /\ \/ s[1][1] = "ready_wait" /\ s[2][1] = "checked"
          \/ s[1][1] = "command" /\ s[1][2] = "error" /\ s[2][1] = "recheck"
    \/ /\ Len(s) >= 2 /\ Calm(s, 3) /\ level = 2
       /\ s[1][1] \in {"send", "checked"} /\ s[1][2] = "error" /\ s[2][1] = "recheck"
    \/ /\ Len(s) >= 3 /\ Calm(s, 4) /\ level = 2
       /\ s[1][1] = "ready_wait" /\ s[2][1] = "checked" /\ s[2][2] = "error"
       /\ s[3][1] = "recheck"

(* Who has the device open.                                                *)
Closed == zft.open = "closed"
Bare == zft.open = "bare"

(* What is under way on a device that is not open yet is an open.          *)
Bottom == Closed /\ stack # <<>> =>
              stack[Len(stack)][1] \in {"open_1", "open_2", "detach", "detached"}

(* "format mode" is sent only to drives that format; the command that puts *)
(* the drive to sleep is never kept back, and the driver sends it only     *)
(* from ftape_put_drive_to_sleep(), where nothing is above it.             *)
CommandsOK == \A i \in 1 .. Len(stack) :
    /\ stack[i][1] = "command" /\ stack[i][2] = "format_mode"
         => "cant_format" \notin drive.kind.flags
    /\ stack[i][1] \in {"checked", "recheck"} => stack[i][2] # "deselect"
    /\ Deselecting(stack[i]) /\ ~Bare => i = 1 /\ ftape.wake_up \in {"colorado", "mountain"}

(* Through the bare device nothing but commands and parameters is sent.    *)
BarePlaces == Counted \cup {"command", "ready_wait", "parameter", "bare_1"}
BareOK == Bare => \A i \in 1 .. Len(stack) : stack[i][1] \in BarePlaces

(* A drive that was woken up by its own method is asleep again, and one    *)
(* that needs none is awake; with the controller, that is all an open      *)
(* takes.                                                                  *)
Quiet == incidents = 0 /\ ftape.wake_up = drive.kind.wake_up =>
             drive.awake = (drive.kind.wake_up = "none")
Released == ~ftape.active /\ ~ftape.fdc /\ Quiet

(* ftape_activate_drive() tries the method "none", or has just seen it     *)
(* fail: only then may a drive be asleep that the driver takes for one     *)
(* that needs no waking up.                                                *)
Tries(f) == f[1] \in {"wakeup", "wakeup_2"} /\ f[2] = "none"

Trying ==
    \/ Here("activate_all") \/ (Here("activate_got") /\ Failed)
    \/ Len(stack) >= 2 /\ Tries(stack[1]) /\ stack[2][1] = "activate_got"

StaysAwake ==
    incidents = 0 /\ drive.kind.wake_up = "none" /\ ftape.wake_up = "none" /\ ~Trying
        => drive.awake

(* What has been done where these functions go on.                         *)
Asleep ==
    /\ Here("sleep") => Arg = ftape.wake_up
    /\ Here("detached") => Quiet
    /\ Here("close_1") \/ (Closed /\ (Idle \/ Here("enable"))) => Released
    /\ Here("open_1") /\ Closed /\ Failed /\ Arg # TRUE => Released

(* All of it.  While the bare device is open, its user may put the drive   *)
(* to sleep and wake it up as he likes.                                    *)
ClosedInv ==
    /\ ftape.flags \subseteq drive.kind.flags
    /\ Stacked(stack) /\ Nested(stack, ftape.level) /\ Bottom /\ CommandsOK /\ BareOK
    /\ ~Bare => StaysAwake /\ Asleep

(* What is assumed of the shape of the state.                              *)
Fields ==
    /\ {"active", "fdc", "level", "wake_up", "flags"} \subseteq DOMAIN ftape
    /\ {"kind", "awake"} \subseteq DOMAIN drive /\ "open" \in DOMAIN zft
    /\ drive.awake \in BOOLEAN /\ drive.kind \in Kinds /\ incidents \in Nat
    /\ ftape.flags \subseteq drive.kind.flags

-----------------------------------------------------------------------------
(* The frames on top give way to others                                     *)

(* A stack is a sequence, of frames of any kind.                           *)
IsStack(s) == \E S : s \in Seq(S)

(* What the places of a new stack hold.                                    *)
LEMMA NewStack ==
    ASSUME NEW s, IsStack(s), s # <<>>, NEW fs, IsStack(fs)
    PROVE  /\ IsStack(fs \o Tail(s))
           /\ Len(fs) \in Nat /\ Len(s) \in Nat \ {0} /\ Head(s) = s[1]
           /\ Len(fs \o Tail(s)) = Len(fs) + Len(s) - 1
           /\ \A i \in 1 .. Len(fs) : (fs \o Tail(s))[i] = fs[i]
           /\ \A i \in 2 .. Len(s) : (fs \o Tail(s))[Len(fs) + i - 1] = s[i]
<1>1. PICK S : s \in Seq(S)
  BY DEF IsStack
<1>2. PICK T : fs \in Seq(T)
  BY DEF IsStack
<1> DEFINE U == S \cup T
<1>3. s \in Seq(U) /\ fs \in Seq(U)
  BY <1>1, <1>2
<1> HIDE DEF U
<1>4. /\ Tail(s) \in Seq(U) /\ Len(Tail(s)) = Len(s) - 1 /\ Len(s) \in Nat \ {0}
      /\ \A i \in 1 .. Len(s) - 1 : Tail(s)[i] = s[i + 1]
  BY <1>3
<1> DEFINE t == Tail(s)
<1> HIDE DEF t
<1>5. /\ fs \o t \in Seq(U) /\ Len(fs \o t) = Len(fs) + Len(t) /\ Len(fs) \in Nat
      /\ \A i \in 1 .. Len(fs) : (fs \o t)[i] = fs[i]
      /\ \A i \in 1 .. Len(t) : (fs \o t)[Len(fs) + i] = t[i]
  BY <1>3, <1>4 DEF t
<1>6. ASSUME NEW i \in 2 .. Len(s) PROVE (fs \o t)[Len(fs) + i - 1] = s[i]
  <2>1. i - 1 \in 1 .. Len(t) /\ i - 1 \in 1 .. Len(s) - 1 /\ (i - 1) + 1 = i
    BY <1>4, <1>6 DEF t
  <2>2. (fs \o t)[Len(fs) + (i - 1)] = s[i]
    BY <1>4, <1>5, <2>1 DEF t
  <2>3. Len(fs) + (i - 1) = Len(fs) + i - 1
    BY <1>5, <2>1
  <2>4. QED
    BY <2>2, <2>3
<1>7. IsStack(fs \o t)
  BY <1>5 DEF IsStack
<1>8. QED
  BY <1>3, <1>4, <1>5, <1>6, <1>7 DEF t

(* A frame on its own, and one run of frames behind another.               *)
LEMMA OneFrame ==
    ASSUME NEW f
    PROVE  IsStack(<<f>>) /\ Len(<<f>>) = 1 /\ <<f>>[1] = f
<1>1. <<f>> \in Seq({f})
  OBVIOUS
<1>2. QED
  BY <1>1 DEF IsStack

(* No frames at all.                                                       *)
LEMMA NoFrames == IsStack(<<>>) /\ Len(<<>>) = 0
<1>1. <<>> \in Seq({})
  OBVIOUS
<1>2. QED
  BY <1>1 DEF IsStack

(* One run of frames behind another.                                       *)
LEMMA TwoRuns ==
    ASSUME NEW fs, IsStack(fs), NEW gs, IsStack(gs)
    PROVE  /\ IsStack(fs \o gs)
           /\ Len(fs) \in Nat /\ Len(gs) \in Nat
           /\ Len(fs \o gs) = Len(fs) + Len(gs)
           /\ \A i \in 1 .. Len(fs) : (fs \o gs)[i] = fs[i]
           /\ \A i \in 1 .. Len(gs) : (fs \o gs)[Len(fs) + i] = gs[i]
<1>1. PICK S : fs \in Seq(S)
  BY DEF IsStack
<1>2. PICK T : gs \in Seq(T)
  BY DEF IsStack
<1> DEFINE U == S \cup T
<1>3. gs \in Seq(U) /\ fs \in Seq(U)
  BY <1>1, <1>2
<1> HIDE DEF U
<1>4. QED
  BY <1>3 DEF IsStack

(* The indices of a run of frames.                                         *)
LEMMA NewLength ==
    ASSUME NEW fs, IsStack(fs)
    PROVE  /\ Len(fs) \in Nat
           /\ \A i \in 1 .. Len(fs) - 1 : i \in 1 .. Len(fs) /\ i + 1 \in 1 .. Len(fs)
           /\ fs # <<>> => Len(fs) > 0 /\ 1 \in 1 .. Len(fs) /\ Head(fs) = fs[1]
<1>1. PICK S : fs \in Seq(S)
  BY DEF IsStack
<1>2. QED
  BY <1>1
-----------------------------------------------------------------------------
(* The stack, when frames fs take the place of the one on top               *)

(* These frames say something of the frame that is under them.             *)
Proper == Chain \cup {"open_1", "open_2", "close_1", "sleep"}

(* The frame on top gives way to the frames fs.                            *)
Gives(fs) == stack # <<>> /\ IsStack(fs) /\ stack' = fs \o Tail(stack)

(* The top of a stack that is not empty.                                   *)
LEMMA TopFrame ==
    ASSUME IsStack(stack), stack # <<>>
    PROVE  Head(stack) = stack[1] /\ Len(stack) \in Nat \ {0}
BY NewStack, NoFrames

(* Where the frames of the new stack come from.                            *)
LEMMA GivesStack ==
    ASSUME IsStack(stack), NEW fs, Gives(fs)
    PROVE  /\ IsStack(stack')
           /\ Len(fs) \in Nat /\ Len(stack) \in Nat \ {0} /\ Head(stack) = stack[1]
           /\ Len(stack') = Len(fs) + Len(stack) - 1
           /\ \A i \in 1 .. Len(fs) : stack'[i] = fs[i]
           /\ \A i \in 2 .. Len(stack) : stack'[Len(fs) + i - 1] = stack[i]
           /\ \A i \in 1 .. Len(stack') :
                 \/ i \in 1 .. Len(fs) /\ stack'[i] = fs[i]
                 \/ \E j \in 2 .. Len(stack) :
                       i = Len(fs) + j - 1 /\ stack'[i] = stack[j]
<1>1. /\ IsStack(stack')
      /\ Len(fs) \in Nat /\ Len(stack) \in Nat \ {0} /\ Head(stack) = stack[1]
      /\ Len(stack') = Len(fs) + Len(stack) - 1
      /\ \A i \in 1 .. Len(fs) : stack'[i] = fs[i]
      /\ \A i \in 2 .. Len(stack) : stack'[Len(fs) + i - 1] = stack[i]
  BY NewStack DEF Gives
<1>2. ASSUME NEW i \in 1 .. Len(stack'), i \notin 1 .. Len(fs)
      PROVE  \E j \in 2 .. Len(stack) : i = Len(fs) + j - 1 /\ stack'[i] = stack[j]
  <2> DEFINE j == i + 1 - Len(fs)
  <2>1. j \in 2 .. Len(stack) /\ i = Len(fs) + j - 1
    BY <1>1, <1>2
  <2>2. stack'[Len(fs) + j - 1] = stack[j]
    BY <1>1, <2>1
  <2>3. QED
    BY <2>1, <2>2
<1>3. QED
  BY <1>1, <1>2

(* The order of the frames is kept if the new ones may stand where they    *)
(* stand.                                                                  *)
LEMMA GivesStacked ==
    ASSUME IsStack(stack), Stacked(stack), NEW fs, Gives(fs),
           \A i \in 1 .. Len(fs) - 1 : May(fs[i], fs[i + 1]) /\ fs[i][1] # "close_1",
           Len(fs) > 0 /\ Len(stack) > 1 =>
               May(fs[Len(fs)], stack[2]) /\ fs[Len(fs)][1] # "close_1"
    PROVE  Stacked(stack)'
<1>1. SUFFICES ASSUME NEW i \in 1 .. Len(stack') - 1
               PROVE  May(stack'[i], stack'[i + 1]) /\ stack'[i][1] # "close_1"
  BY DEF Stacked, May
<1>2. /\ Len(fs) \in Nat /\ Len(stack) \in Nat \ {0}
      /\ Len(stack') = Len(fs) + Len(stack) - 1
      /\ \A k \in 1 .. Len(fs) : stack'[k] = fs[k]
      /\ \A k \in 2 .. Len(stack) : stack'[Len(fs) + k - 1] = stack[k]
  BY GivesStack
<1>3. CASE i < Len(fs)
  <2>1. i \in 1 .. Len(fs) - 1 /\ i \in 1 .. Len(fs) /\ i + 1 \in 1 .. Len(fs)
    BY <1>2, <1>3
  <2>2. QED
    BY <1>2, <2>1
<1>4. CASE i = Len(fs)
  <2>1. Len(fs) > 0 /\ Len(stack) > 1 /\ i \in 1 .. Len(fs) /\ 2 \in 2 .. Len(stack)
        /\ i + 1 = Len(fs) + 2 - 1
    BY <1>1, <1>2, <1>4
  <2>2. stack'[i] = fs[Len(fs)] /\ stack'[i + 1] = stack[2]
    BY <1>2, <1>4, <2>1
  <2>3. QED
    BY <2>1, <2>2
<1>5. CASE i > Len(fs)
  <2> DEFINE j == i + 1 - Len(fs)
  <2>1. /\ j \in 2 .. Len(stack) /\ j + 1 \in 2 .. Len(stack) /\ j \in 1 .. Len(stack) - 1
        /\ i = Len(fs) + j - 1 /\ i + 1 = Len(fs) + (j + 1) - 1
    BY <1>1, <1>2, <1>5
  <2>2. stack'[i] = stack[j] /\ stack'[i + 1] = stack[j + 1]
    BY <1>2, <2>1
  <2>3. QED
    BY <2>1, <2>2 DEF Stacked
<1>6. QED
  BY <1>2, <1>3, <1>4, <1>5

(* No level is held if neither the new frames nor those left hold one.     *)
LEMMA GivesCalm ==
    ASSUME IsStack(stack), NEW fs, Gives(fs), Calm(stack, 2),
           \A i \in 1 .. Len(fs) : fs[i][1] \notin Counted
    PROVE  Calm(stack, 1)'
<1>1. \A i \in 1 .. Len(stack') :
         \/ i \in 1 .. Len(fs) /\ stack'[i] = fs[i]
         \/ \E j \in 2 .. Len(stack) : i = Len(fs) + j - 1 /\ stack'[i] = stack[j]
  BY GivesStack
<1>2. QED
  BY <1>1 DEF Calm, Counted

(* A frame that is neither held nor one of ready_wait() or of a command is *)
(* on a stack that holds no level.                                         *)
LEMMA PlainIsCalm ==
    ASSUME Nested(stack, ftape.level), IsStack(stack), stack # <<>>,
           stack[1][1] \notin Counted \cup {"ready_wait", "command"}
    PROVE  Calm(stack, 1) /\ Calm(stack, 2) /\ ftape.level = 0
<1>1. Calm(stack, 1) /\ ftape.level = 0
  BY DEF Nested, Counted
<1>2. QED
  BY <1>1 DEF Calm

(* The commands under way are as they should be if the new ones are.       *)
LEMMA GivesTheseCommands ==
    ASSUME IsStack(stack), CommandsOK, NEW fs, Gives(fs),
           drive'.kind = drive.kind, Bare' <=> Bare,
           \A i \in 1 .. Len(fs) :
               /\ fs[i][1] = "command" /\ fs[i][2] = "format_mode"
                    => "cant_format" \notin drive.kind.flags
               /\ fs[i][1] \in {"checked", "recheck"} => fs[i][2] # "deselect"
               /\ Deselecting(fs[i]) /\ ~Bare
                    => i = 1 /\ ftape'.wake_up \in {"colorado", "mountain"}
    PROVE  CommandsOK'
<1>1. \A i \in 1 .. Len(stack') :
         \/ i \in 1 .. Len(fs) /\ stack'[i] = fs[i]
         \/ \E j \in 2 .. Len(stack) : i = Len(fs) + j - 1 /\ stack'[i] = stack[j]
  BY GivesStack
<1>2. Bare' <=> Bare
  OBVIOUS
<1>3. \A j \in 2 .. Len(stack) :
         /\ stack[j][1] = "command" /\ stack[j][2] = "format_mode"
              => "cant_format" \notin drive.kind.flags
         /\ stack[j][1] \in {"checked", "recheck"} => stack[j][2] # "deselect"
         /\ ~(Deselecting(stack[j]) /\ ~Bare)
  <2>1. SUFFICES ASSUME NEW j \in 2 .. Len(stack)
                 PROVE  /\ stack[j][1] = "command" /\ stack[j][2] = "format_mode"
                              => "cant_format" \notin drive.kind.flags
                        /\ stack[j][1] \in {"checked", "recheck"} => stack[j][2] # "deselect"
                        /\ ~(Deselecting(stack[j]) /\ ~Bare)
    OBVIOUS
  <2>2. j \in 1 .. Len(stack) /\ j # 1
    BY GivesStack
  <2>3. QED
    BY <2>2 DEF CommandsOK
<1>4. SUFFICES ASSUME NEW i \in 1 .. Len(stack')
               PROVE  /\ stack'[i][1] = "command" /\ stack'[i][2] = "format_mode"
                            => "cant_format" \notin drive'.kind.flags
                      /\ stack'[i][1] \in {"checked", "recheck"} => stack'[i][2] # "deselect"
                      /\ Deselecting(stack'[i]) /\ ~Bare
                            => i = 1 /\ ftape'.wake_up \in {"colorado", "mountain"}
  BY <1>2 DEF CommandsOK, Deselecting
<1>5. CASE i \in 1 .. Len(fs) /\ stack'[i] = fs[i]
  BY <1>5 DEF Deselecting
<1>6. CASE \E j \in 2 .. Len(stack) : i = Len(fs) + j - 1 /\ stack'[i] = stack[j]
  BY <1>3, <1>6 DEF Deselecting
<1>7. QED
  BY <1>1, <1>5, <1>6

(* The same where the device stays as open as it was.                      *)
LEMMA GivesCommands ==
    ASSUME IsStack(stack), CommandsOK, NEW fs, Gives(fs),
           drive'.kind = drive.kind, zft'.open = zft.open,
           \A i \in 1 .. Len(fs) :
               /\ fs[i][1] = "command" /\ fs[i][2] = "format_mode"
                    => "cant_format" \notin drive.kind.flags
               /\ fs[i][1] \in {"checked", "recheck"} => fs[i][2] # "deselect"
               /\ Deselecting(fs[i]) /\ ~Bare
                    => i = 1 /\ ftape'.wake_up \in {"colorado", "mountain"}
    PROVE  CommandsOK'
<1>1. Bare' <=> Bare
  BY DEF Bare
<1>2. QED
  BY <1>1, GivesTheseCommands

(* Through the bare device only commands are sent if the new frames are    *)
(* commands.                                                               *)
LEMMA GivesBare ==
    ASSUME IsStack(stack), BareOK, NEW fs, Gives(fs), zft'.open = zft.open,
           \A i \in 1 .. Len(fs) : Bare => fs[i][1] \in BarePlaces
    PROVE  BareOK'
<1>1. \A i \in 1 .. Len(stack') :
         \/ i \in 1 .. Len(fs) /\ stack'[i] = fs[i]
         \/ \E j \in 2 .. Len(stack) : i = Len(fs) + j - 1 /\ stack'[i] = stack[j]
  BY GivesStack
<1>2. Bare' <=> Bare
  BY DEF Bare
<1>3. Bare => \A j \in 2 .. Len(stack) : stack[j][1] \in BarePlaces
  <2>1. \A j \in 2 .. Len(stack) : j \in 1 .. Len(stack)
    BY GivesStack
  <2>2. QED
    BY <2>1 DEF BareOK
<1>4. Bare => \A i \in 1 .. Len(stack') : stack'[i][1] \in BarePlaces
  BY <1>1, <1>3
<1>5. QED
  BY <1>2, <1>4 DEF BareOK, BarePlaces, Counted

(* A function that sends no command does not run on the bare device.       *)
LEMMA NotBare ==
    ASSUME IsStack(stack), BareOK, stack # <<>>, stack[1][1] \notin BarePlaces
    PROVE  ~Bare
<1>1. 1 \in 1 .. Len(stack)
  BY TopFrame
<1>2. QED
  BY <1>1 DEF BareOK

(* A number that is not zero.                                              *)
LEMMA OneOrMore ==
    ASSUME NEW n \in Nat \ {0}
    PROVE  (n = 1 \/ n > 1) /\ (n # 1 => n \in 2 .. n)
OBVIOUS

(* Only one frame can give way to none and leave nothing.                  *)
LEMMA NoneLeft ==
    ASSUME NEW n \in Nat \ {0}, NEW k \in Nat, k + n - 1 = 0
    PROVE  n = 1
OBVIOUS

(* The bottom of the stack changes only when there was but one frame.      *)
LEMMA GivesBottom ==
    ASSUME IsStack(stack), Bottom, NEW fs, Gives(fs), zft'.open = zft.open,
           Closed /\ Len(stack) = 1 /\ Len(fs) > 0 =>
               fs[Len(fs)][1] \in {"open_1", "open_2", "detach", "detached"}
    PROVE  Bottom'
<1>1. /\ Len(fs) \in Nat /\ Len(stack) \in Nat \ {0} /\ IsStack(stack')
      /\ Len(stack') = Len(fs) + Len(stack) - 1
      /\ \A i \in 1 .. Len(fs) : stack'[i] = fs[i]
      /\ \A i \in 2 .. Len(stack) : stack'[Len(fs) + i - 1] = stack[i]
  BY GivesStack
<1>2. SUFFICES ASSUME Closed', stack' # <<>>
               PROVE  stack'[Len(stack')][1] \in {"open_1", "open_2", "detach", "detached"}
  BY DEF Bottom
<1>3. Closed /\ stack # <<>>
  BY <1>2 DEF Closed, Gives
<1>4. CASE Len(stack) = 1
  <2>1. Len(stack') # 0
    BY <1>1, <1>2, NewStack
  <2>2. Len(fs) > 0 /\ Len(fs) \in 1 .. Len(fs) /\ Len(stack') = Len(fs)
    BY <1>1, <1>4, <2>1
  <2>3. QED
    BY <1>1, <1>3, <1>4, <2>2
<1>5. CASE Len(stack) # 1
  <2>1. Len(stack) \in Nat \ {0} /\ Len(stack') = Len(fs) + Len(stack) - 1
    BY <1>1
  <2> DEFINE n == Len(stack)
  <2> HIDE DEF n
  <2>2. n \in 2 .. n
    BY <1>5, <2>1, OneOrMore DEF n
  <2>3. stack'[Len(fs) + n - 1] = stack[n] /\ Len(stack') = Len(fs) + n - 1
    BY <1>1, <2>1, <2>2 DEF n
  <2>4. stack'[Len(stack')] = stack[Len(stack)]
    BY <2>3 DEF n
  <2>5. QED
    BY <1>3, <2>4 DEF Bottom
<1>6. QED
  BY <1>4, <1>5

(* The frame that is on top afterwards.                                    *)
LEMMA GivesTop ==
    ASSUME IsStack(stack), NEW fs, Gives(fs)
    PROVE  /\ Len(fs) > 0 => stack' # <<>> /\ Head(stack') = fs[1]
           /\ Len(fs) = 0 /\ Len(stack) > 1 => stack' # <<>> /\ Head(stack') = stack[2]
           /\ Len(fs) = 0 /\ Len(stack) = 1 => stack' = <<>>
<1>1. /\ Len(fs) \in Nat /\ Len(stack) \in Nat \ {0} /\ IsStack(stack')
      /\ Len(stack') = Len(fs) + Len(stack) - 1
      /\ \A i \in 1 .. Len(fs) : stack'[i] = fs[i]
      /\ \A i \in 2 .. Len(stack) : stack'[Len(fs) + i - 1] = stack[i]
  BY GivesStack
<1>2. Len(stack') = 0 <=> stack' = <<>>
  <2>1. PICK S : stack' \in Seq(S)
    BY <1>1 DEF IsStack
  <2>2. QED
    BY <2>1
<1>3. stack' # <<>> => Head(stack') = stack'[1]
  BY <1>1, NewStack
<1>4. CASE Len(fs) > 0
  <2>1. 1 \in 1 .. Len(fs) /\ Len(stack') # 0
    BY <1>1, <1>4
  <2>2. QED
    BY <1>1, <1>2, <1>3, <1>4, <2>1
<1>5. CASE Len(fs) = 0 /\ Len(stack) > 1
  <2>1. 2 \in 2 .. Len(stack) /\ Len(stack') # 0 /\ Len(fs) + 2 - 1 = 1
    BY <1>1, <1>5
  <2>2. stack'[1] = stack[2]
    BY <1>1, <2>1
  <2>3. QED
    BY <1>2, <1>3, <1>5, <2>1, <2>2
<1>6. CASE Len(fs) = 0 /\ Len(stack) = 1
  BY <1>1, <1>2, <1>6
<1>7. QED
  BY <1>1, <1>4, <1>5, <1>6

-----------------------------------------------------------------------------
(* The steps that no promise depends on                                     *)

(* The inductive invariant.                                                *)
ReleaseInv == Fields /\ IsStack(stack) /\ ClosedInv

(* What such a step leaves alone.                                          *)
Keeps ==
    /\ DOMAIN ftape' = DOMAIN ftape /\ DOMAIN drive' = DOMAIN drive
    /\ DOMAIN zft' = DOMAIN zft
    /\ ftape'.wake_up = ftape.wake_up /\ ftape'.flags \subseteq drive.kind.flags
    /\ drive'.kind = drive.kind /\ drive'.awake \in BOOLEAN
    /\ drive.kind.wake_up = "none" /\ drive.awake => drive'.awake
    /\ zft'.open = zft.open /\ incidents' \in Nat /\ incidents' >= incidents

(* The shape of the state is kept.                                         *)
LEMMA KeepsFields ==
    ASSUME Fields, Keeps
    PROVE  Fields' /\ (ftape.flags \subseteq drive.kind.flags)'
BY DEF Fields, Keeps

(* The frame on top is not one a promise depends on, and does not become   *)
(* one: what is to be shown is only what becomes of the levels.            *)
LEMMA Calmly ==
    ASSUME ReleaseInv, Keeps, NEW fs, Gives(fs),
           stack[1][1] \notin Proper, ~Deselecting(stack[1]),
           \A i \in 1 .. Len(fs) : fs[i][1] \notin Proper,
           \A i \in 1 .. Len(fs) : Bare => fs[i][1] \in BarePlaces,
           Nested(stack, ftape.level)', CommandsOK', ~Bare => StaysAwake'
    PROVE  ReleaseInv'
<1> USE DEF ReleaseInv
<1>1. Fields' /\ (ftape.flags \subseteq drive.kind.flags)'
  BY KeepsFields
<1>2. /\ Len(fs) \in Nat /\ Len(stack) \in Nat \ {0} /\ Head(stack) = stack[1]
      /\ IsStack(stack)' /\ stack # <<>>
  BY GivesStack DEF Gives
<1>3. Len(stack) > 1 =>
        stack[2][1] \notin {"open_1", "close_1", "enable", "detached", "sleep"}
  <2>1. ASSUME Len(stack) > 1
        PROVE  May(stack[1], stack[2])
    <3>1. 1 \in 1 .. Len(stack) - 1 /\ 1 + 1 = 2
      BY <1>2, <2>1
    <3>2. QED
      BY <3>1 DEF ClosedInv, Stacked
  <2>2. QED
    BY <2>1 DEF May, Proper, Chain
<1>4. Stacked(stack)'
  <2>1. \A i \in 1 .. Len(fs) - 1 : May(fs[i], fs[i + 1]) /\ fs[i][1] # "close_1"
    <3>1. \A i \in 1 .. Len(fs) - 1 : i \in 1 .. Len(fs) /\ i + 1 \in 1 .. Len(fs)
      BY <1>2
    <3>2. QED
      BY <3>1 DEF May, Proper, Chain
  <2>2. Len(fs) > 0 /\ Len(stack) > 1 =>
            May(fs[Len(fs)], stack[2]) /\ fs[Len(fs)][1] # "close_1"
    <3>1. Len(fs) > 0 => Len(fs) \in 1 .. Len(fs)
      BY <1>2
    <3>2. QED
      BY <1>3, <3>1 DEF May, Proper, Chain
  <2>3. QED
    BY <2>1, <2>2, GivesStacked DEF ClosedInv
<1>5. ~(Closed /\ Len(stack) = 1)
  BY <1>2 DEF ClosedInv, Bottom, Proper, Chain
<1>6. Bottom'
  BY <1>5, GivesBottom DEF ClosedInv, Keeps
<1>7. /\ Len(fs) > 0 => stack' # <<>> /\ Head(stack') = fs[1]
      /\ Len(fs) = 0 /\ Len(stack) > 1 => stack' # <<>> /\ Head(stack') = stack[2]
      /\ Len(fs) = 0 /\ Len(stack) = 1 => stack' = <<>>
  BY GivesTop
<1>8. stack' # <<>> =>
        Head(stack')[1] \notin {"open_1", "close_1", "enable", "detached", "sleep"}
  <2>1. Len(fs) > 0 => 1 \in 1 .. Len(fs)
    BY <1>2
  <2>2. Len(fs) > 0 => fs[1][1] \notin {"open_1", "close_1", "enable", "detached", "sleep"}
    BY <2>1 DEF Proper, Chain
  <2>3. CASE Len(fs) > 0
    BY <1>7, <2>2, <2>3
  <2>4. CASE Len(fs) = 0 /\ Len(stack) > 1
    BY <1>3, <1>7, <2>4
  <2>5. CASE Len(fs) = 0 /\ Len(stack) = 1
    BY <1>7, <2>5
  <2>6. Len(fs) \in Nat /\ Len(stack) \in Nat \ {0}
    BY <1>2
  <2>7. Len(fs) > 0 \/ (Len(fs) = 0 /\ (Len(stack) > 1 \/ Len(stack) = 1))
    <3>1. Len(stack) > 1 \/ Len(stack) = 1
      BY <2>6, OneOrMore
    <3>2. QED
      BY <2>6, <3>1
  <2>8. QED
    BY <2>3, <2>4, <2>5, <2>7
<1>9. Bare' <=> Bare
  BY DEF Bare, Keeps
<1>10. BareOK'
  BY GivesBare DEF ClosedInv, Keeps
<1>11. Asleep'
  <2>1. stack' = <<>> => ~Closed'
    <3>1. stack' = <<>> => Len(stack) = 1
      <4>1. ASSUME stack' = <<>> PROVE Len(stack') = 0
        BY <4>1, NoFrames
      <4>2. /\ Len(stack') = Len(fs) + Len(stack) - 1
            /\ Len(fs) \in Nat /\ Len(stack) \in Nat \ {0}
        BY GivesStack
      <4>3. QED
        BY <4>1, <4>2, NoneLeft
    <3>2. QED
      BY <1>5, <3>1 DEF Closed, Keeps
  <2>2. QED
    BY <1>8, <2>1 DEF Asleep, Here, Idle
<1>12. QED
  BY <1>1, <1>2, <1>4, <1>6, <1>9, <1>10, <1>11 DEF ClosedInv

(* The same, where no drive is being tried: what keeps a drive awake is    *)
(* kept.                                                                   *)
LEMMA Quietly ==
    ASSUME ReleaseInv, Keeps, NEW fs, Gives(fs),
           stack[1][1] \notin Proper, ~Deselecting(stack[1]), ~Tries(stack[1]),
           \A i \in 1 .. Len(fs) : fs[i][1] \notin Proper,
           \A i \in 1 .. Len(fs) : Bare => fs[i][1] \in BarePlaces,
           Nested(stack, ftape.level)', CommandsOK'
    PROVE  ReleaseInv'
<1>1. Head(stack) = stack[1] /\ IsStack(stack)
  BY GivesStack DEF ReleaseInv
<1>2. ASSUME ~Bare PROVE StaysAwake'
  <2>1. ~Trying
    BY <1>1 DEF Trying, Here, Failed, Proper, Chain, Tries
  <2>2. StaysAwake
    BY <1>2 DEF ClosedInv, ReleaseInv
  <2>3. QED
    BY <2>1, <2>2 DEF StaysAwake, Keeps, Fields, ReleaseInv
<1>3. QED
  BY <1>2, Calmly

(* A frame like most.                                                      *)
Free(f) ==
    /\ f[1] \notin Proper \cup Counted
    /\ f[1] = "command" => f[2] \notin {"deselect", "format_mode"}
(* A run of such frames.                                                   *)
FreeRun(fs) == IsStack(fs) /\ \A i \in 1 .. Len(fs) : Free(fs[i])

(* A step of most functions: other frames like most come on top.           *)
PlainTop ==
    /\ stack # <<>> /\ ~Tries(Head(stack))
    /\ Head(stack)[1] \notin Proper \cup BarePlaces
(* The frame on top gives way to such a run.                               *)
PlainStep == \E fs : FreeRun(fs) /\ stack' = fs \o Tail(stack)

(* Frames that are free, on top of a frame that is: no promise is touched. *)
LEMMA FreeStep ==
    ASSUME ReleaseInv, Keeps, ftape'.level = ftape.level, NEW fs, FreeRun(fs),
           stack # <<>>, stack' = fs \o Tail(stack), ~Tries(stack[1]),
           stack[1][1] \notin Proper \cup Counted \cup {"command", "ready_wait"},
           \A i \in 1 .. Len(fs) : Bare => fs[i][1] \in BarePlaces
    PROVE  ReleaseInv'
<1>1. Gives(fs) /\ IsStack(stack)
  BY DEF Gives, FreeRun, ReleaseInv
<1>2. Calm(stack, 2) /\ ftape.level = 0
  BY <1>1, PlainIsCalm DEF ReleaseInv, ClosedInv
<1>3. Calm(stack, 1)'
  BY <1>1, <1>2, GivesCalm DEF FreeRun, Free
<1>4. Nested(stack, ftape.level)'
  BY <1>2, <1>3 DEF Nested
<1>5. CommandsOK'
  <2>1. \A i \in 1 .. Len(fs) :
            /\ ~(fs[i][1] = "command" /\ fs[i][2] = "format_mode")
            /\ fs[i][1] \notin {"checked", "recheck"} /\ ~Deselecting(fs[i])
    BY DEF FreeRun, Free, Deselecting, Counted
  <2>2. QED
    BY <1>1, <2>1, GivesCommands DEF ReleaseInv, ClosedInv, Keeps
<1>6. stack[1][1] \notin Proper /\ ~Deselecting(stack[1])
  BY DEF Deselecting, Counted
<1>7. \A i \in 1 .. Len(fs) : fs[i][1] \notin Proper
  BY DEF FreeRun, Free
<1>8. QED
  BY <1>1, <1>4, <1>5, <1>6, <1>7, Quietly

(* The step of a function no promise depends on preserves the invariant.   *)
LEMMA Plainly ==
    ASSUME ReleaseInv, Keeps, ftape'.level = ftape.level, PlainTop, PlainStep
    PROVE  ReleaseInv'
<1>1. PICK fs : FreeRun(fs) /\ stack' = fs \o Tail(stack)
  BY DEF PlainStep
<1>2. stack # <<>> /\ Head(stack) = stack[1] /\ IsStack(stack)
  BY TopFrame DEF PlainTop, ReleaseInv
<1>3. /\ ~Tries(stack[1]) /\ stack[1][1] \notin BarePlaces
      /\ stack[1][1] \notin Proper \cup Counted \cup {"command", "ready_wait"}
  BY <1>2 DEF PlainTop, BarePlaces
<1>4. ~Bare
  BY <1>2, <1>3, NotBare DEF ReleaseInv, ClosedInv
<1>5. QED
  BY <1>1, <1>2, <1>3, <1>4, FreeStep

(* Runs of such frames.                                                    *)
LEMMA FreeNone == FreeRun(<<>>)
BY NoFrames DEF FreeRun

(* A function returns: nothing comes on top.                               *)
LEMMA FreeLeave ==
    ASSUME ReleaseInv, Keeps, ftape'.level = ftape.level, stack # <<>>, stack' = Tail(stack),
           ~Tries(stack[1]),
           stack[1][1] \notin Proper \cup Counted \cup {"command", "ready_wait"}
    PROVE  ReleaseInv'
<1>1. stack' = <<>> \o Tail(stack)
  <2>1. PICK S : stack \in Seq(S)
    BY DEF ReleaseInv, IsStack
  <2>2. QED
    BY <2>1
<1>2. \A i \in 1 .. 0 : Bare => <<>>[i][1] \in BarePlaces
  OBVIOUS
<1>3. \A i \in 1 .. Len(<<>>) : Bare => <<>>[i][1] \in BarePlaces
  BY <1>2, NoFrames
<1>4. QED
  BY <1>1, <1>3, FreeNone, FreeStep

(* A free frame is a free run, ...                                         *)
LEMMA FreeOne ==
    ASSUME NEW f, Free(f)
    PROVE  FreeRun(<<f>>)
BY OneFrame DEF FreeRun

(* ... and so are two free runs one behind the other, ...                  *)
LEMMA FreeMore ==
    ASSUME NEW fs, FreeRun(fs), NEW gs, FreeRun(gs)
    PROVE  FreeRun(fs \o gs)
<1>1. IsStack(fs) /\ IsStack(gs)
  BY DEF FreeRun
<1>2. /\ IsStack(fs \o gs)
      /\ Len(fs) \in Nat /\ Len(gs) \in Nat
      /\ Len(fs \o gs) = Len(fs) + Len(gs)
      /\ \A i \in 1 .. Len(fs) : (fs \o gs)[i] = fs[i]
      /\ \A i \in 1 .. Len(gs) : (fs \o gs)[Len(fs) + i] = gs[i]
  BY <1>1, TwoRuns
<1>3. ASSUME NEW i \in 1 .. Len(fs \o gs) PROVE Free((fs \o gs)[i])
  <2>1. CASE i \in 1 .. Len(fs)
    BY <1>2, <2>1 DEF FreeRun
  <2>2. CASE i \notin 1 .. Len(fs)
    <3> DEFINE j == i - Len(fs)
    <3>1. j \in 1 .. Len(gs) /\ i = Len(fs) + j
      BY <1>2, <1>3, <2>2
    <3>2. QED
      BY <1>2, <3>1 DEF FreeRun
  <2>3. QED
    BY <2>1, <2>2
<1>4. QED
  BY <1>2, <1>3 DEF FreeRun

(* ... two free frames ...                                                 *)
LEMMA FreePair ==
    ASSUME NEW f, Free(f), NEW g, Free(g)
    PROVE  FreeRun(<<f, g>>)
<1>1. <<f, g>> = <<f>> \o <<g>>
  OBVIOUS
<1>2. QED
  BY <1>1, FreeOne, FreeMore

(* ... and three.                                                          *)
LEMMA FreeTriple ==
    ASSUME NEW f, Free(f), NEW g, Free(g), NEW h, Free(h)
    PROVE  FreeRun(<<f, g, h>>)
<1>1. <<f, g, h>> = <<f, g>> \o <<h>>
  OBVIOUS
<1>2. QED
  BY <1>1, FreeOne, FreePair, FreeMore

(* The moves of a function whose frame is on top: it returns, goes on at   *)
(* another place, or calls others and goes on when they have returned.     *)
LEMMA Returns ==
    ASSUME IsStack(stack), stack # <<>>, stack' = Tail(stack)
    PROVE  PlainStep
<1>1. <<>> \o Tail(stack) = Tail(stack)
  <2>1. PICK S : stack \in Seq(S)
    BY DEF IsStack
  <2>2. Tail(stack) \in Seq(S)
    BY <2>1
  <2>3. QED
    BY <2>2
<1>2. QED
  BY <1>1, FreeNone DEF PlainStep

(* It goes on at another place.                                            *)
LEMMA Goes ==
    ASSUME NEW p, NEW a, Free(<<p, a>>), stack' = <<<<p, a>>>> \o Tail(stack)
    PROVE  PlainStep
BY FreeOne DEF PlainStep

(* It calls another function.                                              *)
LEMMA Asks ==
    ASSUME NEW p, NEW a, Free(<<p, a>>), NEW q, NEW b, Free(<<q, b>>),
           stack' = (<<<<p, a>>>> \o <<<<q, b>>>>) \o Tail(stack)
    PROVE  PlainStep
BY FreeOne, FreeMore DEF PlainStep

(* A place that says nothing of the frames under it.                       *)
Plain == {"then_wait", "configuration_1", "configuration_2",
          "configuration_3", "rate_test", "rate_test_1", "rate_test_2",
          "set_rate", "set_rate_1", "set_rate_2", "set_rate_3", "set_rate_3a",
          "set_rate_4", "half_rate", "seek_head_1", "wakeup_1", "wakeup_1a",
          "reset_drive", "reset_1", "reset_2", "reset_3", "reset_4", "reset_5",
          "door", "door_1", "door_2", "door_3", "door_4", "door_5",
          "partition_1", "partition_2", "partition_3", "fails", "seek_to_1",
          "vendor_id", "vendor_got", "cms_1", "cms_2", "cms_3", "cms_4",
          "get_status", "status_loop", "status_1", "status_2", "status_3",
          "init_drive", "init_1", "init_2", "init_3", "init_4", "init_5",
          "timeouts", "succeeds", "calibrate_rate", "calibrate", "calibrate_1",
          "use_1", "use_2", "mt_reset_1", "mt_load", "mt_load_1", "mt_load_2",
          "set_part"}

(* The plain places are none of those a promise depends on.                *)
LEMMA PlainPlaces ==
    \A p \in Plain : p \notin Proper \cup BarePlaces \cup {"wakeup", "wakeup_2"}
BY DEF Plain, Proper, Chain, BarePlaces, Counted

(* A frame at a plain place is free, ...                                   *)
LEMMA PlainFrames ==
    ASSUME NEW p \in Plain \cup {"parameter", "ready_wait", "wakeup", "wakeup_2", "bare_1"}, NEW a
    PROVE  Free(<<p, a>>)
<1>1. p \notin Proper \cup Counted \cup {"command"}
  BY PlainPlaces DEF Proper, Chain, Counted, BarePlaces
<1>2. QED
  BY <1>1 DEF Free

(* ... and so is that of nearly every command.                             *)
LEMMA CommandFrames ==
    ASSUME NEW c, c \notin {"deselect", "format_mode"}
    PROVE  Free(<<"command", c>>)
BY DEF Free, Proper, Chain, Counted

(* A plain place is on top.                                                *)
LEMMA PlainHere ==
    ASSUME NEW p \in Plain, Here(p)
    PROVE  PlainTop
BY PlainPlaces DEF Here, PlainTop, Tries

(* The same, said of what the model calls them.                            *)
LEMMA LeaveStep ==
    ASSUME ReleaseInv, stack # <<>>, NEW res, NEW st, Leave(res, st)
    PROVE  PlainStep
BY Returns DEF Leave, ReleaseInv

(* A report is passed on.                                                  *)
LEMMA ReportStep ==
    ASSUME ReleaseInv, stack # <<>>, NEW conf, LeaveReport(conf)
    PROVE  PlainStep
BY Returns DEF LeaveReport, ReleaseInv

(* The function goes on at another place.                                  *)
LEMMA GotoStep ==
    ASSUME NEW p, NEW a, Free(<<p, a>>), Goto(p, a)
    PROVE  PlainStep
BY Goes DEF Goto, Frame

(* It calls another and goes on when that has returned.                    *)
LEMMA CallStep ==
    ASSUME NEW p, NEW a, Free(<<p, a>>), NEW q, NEW b, Free(<<q, b>>), Call(p, a, q, b)
    PROVE  PlainStep
BY Asks DEF Call, RunThen, Run, Frame

(* It calls several.                                                       *)
LEMMA RunStep ==
    ASSUME NEW fs, FreeRun(fs), Run(fs)
    PROVE  PlainStep
BY DEF Run, PlainStep

(* It calls several and goes on when they have returned.                   *)
LEMMA RunThenStep ==
    ASSUME NEW fs, FreeRun(fs), NEW q, NEW b, Free(<<q, b>>), RunThen(fs, q, b)
    PROVE  PlainStep
BY FreeOne, FreeMore DEF RunThen, Run, Frame, PlainStep

(* What several functions call.                                            *)
LEMMA ParameterRun ==
    ASSUME NEW c, NEW v
    PROVE  FreeRun(ftape_parameter_wait(c, v))
<1>1. "then_wait" \in Plain
  BY DEF Plain
<1>2. QED
  BY <1>1, PlainFrames, FreePair DEF ftape_parameter_wait, Frame

(* A command and the wait for the drive.                                   *)
LEMMA CommandRun ==
    ASSUME NEW c, c \notin {"deselect", "format_mode"}
    PROVE  FreeRun(ftape_command_wait(c))
<1>1. "then_wait" \in Plain
  BY DEF Plain
<1>2. QED
  BY <1>1, PlainFrames, CommandFrames, FreePair DEF ftape_command_wait, Frame

(* The report of the configuration, the head, the ends of the tape.        *)
LEMMA OtherRuns ==
    /\ FreeRun(ftape_report_configuration)
    /\ FreeRun(ftape_seek_head)
    /\ \A end : FreeRun(ftape_seek_to(end))
<1>1. {"configuration_1", "seek_head_1", "seek_to_1"} \subseteq Plain
  BY DEF Plain
<1>2. FreeRun(ftape_report_configuration)
  BY <1>1, PlainFrames, CommandFrames, FreePair DEF ftape_report_configuration, Frame
<1>3. FreeRun(ftape_seek_head)
  BY <1>1, PlainFrames, CommandFrames, FreePair DEF ftape_seek_head, Frame
<1>4. ASSUME NEW end PROVE FreeRun(ftape_seek_to(end))
  BY <1>1, PlainFrames, FreePair DEF ftape_seek_to, Frame
<1>5. QED
  BY <1>2, <1>3, <1>4

(* The frame on top is a plain one, and gives way to plain ones.           *)
PlainMove == PlainTop /\ PlainStep /\ Keeps /\ ftape'.level = ftape.level

(* Nothing but the stack is changed, or what a promise does not speak of.  *)
LEMMA UnchangedKeeps ==
    ASSUME ReleaseInv, Unchanged
    PROVE  Keeps /\ ftape'.level = ftape.level
BY DEF ReleaseInv, Fields, Keeps, Unchanged

(* The same where ftape is changed, ...                                    *)
LEMMA FtapeKeeps ==
    ASSUME ReleaseInv, UNCHANGED <<drive, zft, incidents>>,
           DOMAIN ftape' = DOMAIN ftape, ftape'.wake_up = ftape.wake_up,
           ftape'.flags = ftape.flags, ftape'.level = ftape.level
    PROVE  Keeps
BY DEF ReleaseInv, Fields, Keeps

(* ... and where zft is.                                                   *)
LEMMA ZftKeeps ==
    ASSUME ReleaseInv, UNCHANGED <<ftape, drive, incidents>>,
           DOMAIN zft' = DOMAIN zft, zft'.open = zft.open
    PROVE  Keeps /\ ftape'.level = ftape.level
BY DEF ReleaseInv, Fields, Keeps

(* Waits, reports and data rates.                                           *)
LEMMA RatesPlain ==
    ASSUME ReleaseInv
    PROVE  /\ ThenWait => PlainMove
           /\ Configuration1 => PlainMove
           /\ Configuration2 => PlainMove
           /\ Configuration3 => PlainMove
           /\ RateTest => PlainMove
           /\ RateTest1 => PlainMove
           /\ RateTest2 => PlainMove
           /\ SetRate => PlainMove
           /\ SetRate1 => PlainMove
           /\ SetRate2 => PlainMove
           /\ SetRate3 => PlainMove
           /\ SetRate3a => PlainMove
           /\ SetRate4 => PlainMove
           /\ HalfRate => PlainMove
<1>p. \A p \in Plain : Here(p) => PlainTop /\ stack # <<>>
  BY PlainHere DEF Here
<1>f. \A a : /\ Free(<<"then_wait", a>>)
            /\ Free(<<"ready_wait", a>>)
            /\ Free(<<"configuration_2", a>>)
            /\ Free(<<"configuration_3", a>>)
            /\ Free(<<"rate_test", a>>)
            /\ Free(<<"rate_test_1", a>>)
            /\ Free(<<"rate_test_2", a>>)
            /\ Free(<<"set_rate", a>>)
            /\ Free(<<"set_rate_1", a>>)
            /\ Free(<<"set_rate_2", a>>)
            /\ Free(<<"set_rate_3", a>>)
            /\ Free(<<"set_rate_3a", a>>)
            /\ Free(<<"set_rate_4", a>>)
  BY DEF Free, Proper, Chain, Counted
<1>c. /\ Free(<<"command", "ext_config">>)
      /\ Free(<<"command", "tape_status">>)
      /\ Free(<<"command", "rate">>)
      /\ Free(<<"command", "error">>)
  BY CommandFrames
<1>1. ASSUME ThenWait PROVE PlainMove
  <2>1. PlainTop /\ stack # <<>>
    BY <1>1, <1>p DEF ThenWait, Plain
  <2>2. PlainStep
    BY <1>1, <1>f, <1>c, <2>1, LeaveStep, GotoStep DEF ThenWait
  <2>3. QED
    BY <1>1, <2>1, <2>2, UnchangedKeeps DEF ThenWait, PlainMove
<1>2. ASSUME Configuration1 PROVE PlainMove
  <2>1. PlainTop /\ stack # <<>>
    BY <1>2, <1>p DEF Configuration1, Plain
  <2>2. PlainStep
    BY <1>2, <1>f, <1>c, <2>1, ReportStep, GotoStep, CallStep DEF Configuration1
  <2>3. QED
    BY <1>2, <2>1, <2>2, UnchangedKeeps DEF Configuration1, PlainMove
<1>3. ASSUME Configuration2 PROVE PlainMove
  <2>1. PlainTop /\ stack # <<>>
    BY <1>3, <1>p DEF Configuration2, Plain
  <2>2. PlainStep
    BY <1>3, <1>f, <1>c, <2>1, LeaveStep, CallStep DEF Configuration2
  <2>3. QED
    BY <1>3, <2>1, <2>2, UnchangedKeeps DEF Configuration2, PlainMove
<1>4. ASSUME Configuration3 PROVE PlainMove
  <2>1. PlainTop /\ stack # <<>>
    BY <1>4, <1>p DEF Configuration3, Plain
  <2>2. PlainStep
    BY <1>4, <1>f, <1>c, <2>1, ReportStep DEF Configuration3
  <2>3. QED
    BY <1>4, <2>1, <2>2, UnchangedKeeps DEF Configuration3, PlainMove
<1>5. ASSUME RateTest PROVE PlainMove
  <2>1. PlainTop /\ stack # <<>>
    BY <1>5, <1>p DEF RateTest, Plain
  <2>2. PlainStep
    BY <1>5, <1>f, <1>c, <2>1, LeaveStep, CallStep DEF RateTest, Tested
  <2>3. \/ UNCHANGED ftape
        \/ ftape' = [ftape EXCEPT !.drive_max_rate = Arg, !.set_rate_supported = FALSE]
    BY <1>5 DEF RateTest, Tested
  <2>4. UNCHANGED <<drive, zft, incidents>>
    BY <1>5 DEF RateTest
  <2>5. ASSUME UNCHANGED ftape PROVE Keeps /\ ftape'.level = ftape.level
    BY <2>4, <2>5, FtapeKeeps
  <2>6. ASSUME ftape' = [ftape EXCEPT !.drive_max_rate = Arg, !.set_rate_supported = FALSE]
        PROVE  Keeps /\ ftape'.level = ftape.level
    BY <2>4, <2>6, FtapeKeeps
  <2>7. QED
    BY <2>1, <2>2, <2>3, <2>5, <2>6 DEF PlainMove
<1>6. ASSUME RateTest1 PROVE PlainMove
  <2>1. PlainTop /\ stack # <<>>
    BY <1>6, <1>p DEF RateTest1, Plain
  <2>2. PlainStep
    BY <1>6, <1>f, <1>c, <2>1, GotoStep, RunThenStep, ParameterRun DEF RateTest1
  <2>3. QED
    BY <1>6, <2>1, <2>2, UnchangedKeeps DEF RateTest1, PlainMove
<1>7. ASSUME RateTest2 PROVE PlainMove
  <2>1. PlainTop /\ stack # <<>>
    BY <1>7, <1>p DEF RateTest2, Plain
  <2>2. PlainStep
    BY <1>7, <1>f, <1>c, <2>1, GotoStep, CallStep, LeaveStep DEF RateTest2, Tested
  <2>3. \/ UNCHANGED ftape
        \/ ftape' = [ftape EXCEPT !.drive_max_rate = Arg, !.set_rate_supported = TRUE]
    BY <1>7 DEF RateTest2, Tested
  <2>4. UNCHANGED <<drive, zft, incidents>>
    BY <1>7 DEF RateTest2
  <2>5. ASSUME UNCHANGED ftape PROVE Keeps /\ ftape'.level = ftape.level
    BY <2>4, <2>5, FtapeKeeps
  <2>6. ASSUME ftape' = [ftape EXCEPT !.drive_max_rate = Arg, !.set_rate_supported = TRUE]
        PROVE  Keeps /\ ftape'.level = ftape.level
    BY <2>4, <2>6, FtapeKeeps
  <2>7. QED
    BY <2>1, <2>2, <2>3, <2>5, <2>6 DEF PlainMove
<1>8. ASSUME SetRate PROVE PlainMove
  <2>1. PlainTop /\ stack # <<>>
    BY <1>8, <1>p DEF SetRate, Plain
  <2>2. PlainStep
    BY <1>8, <1>f, <1>c, <2>1, GotoStep, CallStep DEF SetRate
  <2>3. QED
    BY <1>8, <2>1, <2>2, UnchangedKeeps DEF SetRate, PlainMove
<1>9. ASSUME SetRate1 PROVE PlainMove
  <2>1. PlainTop /\ stack # <<>>
    BY <1>9, <1>p DEF SetRate1, Plain
  <2>2. PlainStep
    BY <1>9, <1>f, <1>c, <2>1, CallStep, RunThenStep, OtherRuns DEF SetRate1
  <2>3. QED
    BY <1>9, <2>1, <2>2, UnchangedKeeps DEF SetRate1, PlainMove
<1>10. ASSUME SetRate2 PROVE PlainMove
  <2>1. PlainTop /\ stack # <<>>
    BY <1>10, <1>p DEF SetRate2, Plain
  <2>2. PlainStep
    BY <1>10, <1>f, <1>c, <2>1, RunThenStep, ParameterRun DEF SetRate2
  <2>3. QED
    BY <1>10, <2>1, <2>2, UnchangedKeeps DEF SetRate2, PlainMove
<1>11. ASSUME SetRate3 PROVE PlainMove
  <2>1. PlainTop /\ stack # <<>>
    BY <1>11, <1>p DEF SetRate3, Plain
  <2>2. PlainStep
    BY <1>11, <1>f, <1>c, <2>1, CallStep, RunThenStep, OtherRuns DEF SetRate3
  <2>3. QED
    BY <1>11, <2>1, <2>2, UnchangedKeeps DEF SetRate3, PlainMove
<1>12. ASSUME SetRate3a PROVE PlainMove
  <2>1. PlainTop /\ stack # <<>>
    BY <1>12, <1>p DEF SetRate3a, Plain
  <2>2. PlainStep
    BY <1>12, <1>f, <1>c, <2>1, RunThenStep, OtherRuns DEF SetRate3a
  <2>3. QED
    BY <1>12, <2>1, <2>2, UnchangedKeeps DEF SetRate3a, PlainMove
<1>13. ASSUME SetRate4 PROVE PlainMove
  <2>1. PlainTop /\ stack # <<>>
    BY <1>13, <1>p DEF SetRate4, Plain
  <2>2. PlainStep
    BY <1>13, <1>f, <1>c, <2>1, LeaveStep DEF SetRate4
  <2>3. \/ UNCHANGED ftape
        \/ ftape' = [ftape EXCEPT !.data_rate = ret.conf.rate, !.fdc_rate = ret.conf.rate]
    BY <1>13 DEF SetRate4
  <2>4. UNCHANGED <<drive, zft, incidents>>
    BY <1>13 DEF SetRate4
  <2>5. ASSUME UNCHANGED ftape PROVE Keeps /\ ftape'.level = ftape.level
    BY <2>4, <2>5, FtapeKeeps
  <2>6. ASSUME ftape' = [ftape EXCEPT !.data_rate = ret.conf.rate, !.fdc_rate = ret.conf.rate]
        PROVE  Keeps /\ ftape'.level = ftape.level
    BY <2>4, <2>6, FtapeKeeps
  <2>7. QED
    BY <2>1, <2>2, <2>3, <2>5, <2>6 DEF PlainMove
<1>14. ASSUME HalfRate PROVE PlainMove
  <2>1. PlainTop /\ stack # <<>>
    BY <1>14, <1>p DEF HalfRate, Plain
  <2>2. PlainStep
    <3>1. Leave("eio", {}) \/ \E a : Goto("set_rate", a)
      BY <1>14 DEF HalfRate
    <3>2. QED
      BY <1>f, <2>1, <3>1, LeaveStep, GotoStep
  <2>3. QED
    BY <1>14, <2>1, <2>2, UnchangedKeeps DEF HalfRate, PlainMove
<1>15. QED
  BY <1>1, <1>2, <1>3, <1>4, <1>5, <1>6, <1>7, <1>8, <1>9, <1>10, <1>11, <1>12, <1>13, <1>14

(* Parameters, head and reset.                                              *)
LEMMA ResetPlain ==
    ASSUME ReleaseInv
    PROVE  /\ SeekHead1 => PlainMove
           /\ Wakeup1 => PlainMove
           /\ Wakeup1a => PlainMove
           /\ ResetDrive => PlainMove
           /\ Reset1 => PlainMove
           /\ Reset2 => PlainMove
           /\ Reset3 => PlainMove
           /\ Reset4 => PlainMove
           /\ Reset5 => PlainMove
<1>p. \A p \in Plain : Here(p) => PlainTop /\ stack # <<>>
  BY PlainHere DEF Here
<1>f. \A a : /\ Free(<<"parameter", a>>)
            /\ Free(<<"ready_wait", a>>)
            /\ Free(<<"wakeup", a>>)
            /\ Free(<<"wakeup_1a", a>>)
            /\ Free(<<"wakeup_2", a>>)
            /\ Free(<<"reset_drive", a>>)
            /\ Free(<<"reset_1", a>>)
            /\ Free(<<"reset_2", a>>)
            /\ Free(<<"reset_3", a>>)
            /\ Free(<<"reset_4", a>>)
            /\ Free(<<"reset_5", a>>)
            /\ Free(<<"set_rate", a>>)
  BY DEF Free, Proper, Chain, Counted
<1>c. /\ Free(<<"command", "reset">>)
      /\ Free(<<"command", "error">>)
  BY CommandFrames
<1>1. ASSUME SeekHead1 PROVE PlainMove
  <2>1. PlainTop /\ stack # <<>>
    BY <1>1, <1>p DEF SeekHead1, Plain
  <2>2. PlainStep
    BY <1>1, <1>f, <1>c, <2>1, LeaveStep, RunStep, ParameterRun DEF SeekHead1
  <2>3. QED
    BY <1>1, <2>1, <2>2, UnchangedKeeps DEF SeekHead1, PlainMove
<1>2. ASSUME Wakeup1 PROVE PlainMove
  <2>1. PlainTop /\ stack # <<>>
    BY <1>2, <1>p DEF Wakeup1, Plain
  <2>2. PlainStep
    BY <1>2, <1>f, <1>c, <2>1, LeaveStep, CallStep DEF Wakeup1
  <2>3. QED
    BY <1>2, <2>1, <2>2, UnchangedKeeps DEF Wakeup1, PlainMove
<1>3. ASSUME Wakeup1a PROVE PlainMove
  <2>1. PlainTop /\ stack # <<>>
    BY <1>3, <1>p DEF Wakeup1a, Plain
  <2>2. PlainStep
    BY <1>3, <1>f, <1>c, <2>1, LeaveStep, GotoStep DEF Wakeup1a
  <2>3. QED
    BY <1>3, <2>1, <2>2, UnchangedKeeps DEF Wakeup1a, PlainMove
<1>4. ASSUME ResetDrive PROVE PlainMove
  <2>1. PlainTop /\ stack # <<>>
    BY <1>4, <1>p DEF ResetDrive, Plain
  <2>2. PlainStep
    BY <1>4, <1>f, <1>c, <2>1, LeaveStep, CallStep DEF ResetDrive, ResetEnds
  <2>3. \/ UNCHANGED ftape
        \/ ftape' = [ftape EXCEPT !.init_needed = TRUE]
    BY <1>4 DEF ResetDrive, ResetEnds
  <2>4. UNCHANGED <<drive, zft, incidents>>
    BY <1>4 DEF ResetDrive
  <2>5. ASSUME UNCHANGED ftape PROVE Keeps /\ ftape'.level = ftape.level
    BY <2>4, <2>5, FtapeKeeps
  <2>6. ASSUME ftape' = [ftape EXCEPT !.init_needed = TRUE]
        PROVE  Keeps /\ ftape'.level = ftape.level
    BY <2>4, <2>6, FtapeKeeps
  <2>7. QED
    BY <2>1, <2>2, <2>3, <2>5, <2>6 DEF PlainMove
<1>5. ASSUME Reset1 PROVE PlainMove
  <2>1. PlainTop /\ stack # <<>>
    BY <1>5, <1>p DEF Reset1, Plain
  <2>2. PlainStep
    BY <1>5, <1>f, <1>c, <2>1, GotoStep, CallStep DEF Reset1
  <2>3. QED
    BY <1>5, <2>1, <2>2, UnchangedKeeps DEF Reset1, PlainMove
<1>6. ASSUME Reset2 PROVE PlainMove
  <2>1. PlainTop /\ stack # <<>>
    BY <1>6, <1>p DEF Reset2, Plain
  <2>2. PlainStep
    BY <1>6, <1>f, <1>c, <2>1, CallStep DEF Reset2
  <2>3. QED
    BY <1>6, <2>1, <2>2, UnchangedKeeps DEF Reset2, PlainMove
<1>7. ASSUME Reset3 PROVE PlainMove
  <2>1. PlainTop /\ stack # <<>>
    BY <1>7, <1>p DEF Reset3, Plain
  <2>2. PlainStep
    BY <1>7, <1>f, <1>c, <2>1, GotoStep, CallStep DEF Reset3
  <2>3. QED
    BY <1>7, <2>1, <2>2, UnchangedKeeps DEF Reset3, PlainMove
<1>8. ASSUME Reset4 PROVE PlainMove
  <2>1. PlainTop /\ stack # <<>>
    BY <1>8, <1>p DEF Reset4, Plain
  <2>2. PlainStep
    BY <1>8, <1>f, <1>c, <2>1, GotoStep, CallStep DEF Reset4
  <2>3. QED
    BY <1>8, <2>1, <2>2, UnchangedKeeps DEF Reset4, PlainMove
<1>9. ASSUME Reset5 PROVE PlainMove
  <2>1. PlainTop /\ stack # <<>>
    BY <1>9, <1>p DEF Reset5, Plain
  <2>2. PlainStep
    BY <1>9, <1>f, <1>c, <2>1, LeaveStep DEF Reset5
  <2>3. Keeps /\ ftape'.level = ftape.level
    BY <1>9, FtapeKeeps DEF Reset5
  <2>4. QED
    BY <2>1, <2>2, <2>3 DEF PlainMove
<1>10. QED
  BY <1>1, <1>2, <1>3, <1>4, <1>5, <1>6, <1>7, <1>8, <1>9

(* Door, partition and the ends of the tape.                                *)
LEMMA DoorPlain ==
    ASSUME ReleaseInv
    PROVE  /\ Door => PlainMove
           /\ Door1 => PlainMove
           /\ Door2 => PlainMove
           /\ Door3 => PlainMove
           /\ Door4 => PlainMove
           /\ Door5 => PlainMove
           /\ Partition1 => PlainMove
           /\ Partition2 => PlainMove
           /\ Partition3 => PlainMove
           /\ Fails => PlainMove
           /\ SeekTo1 => PlainMove
<1>p. \A p \in Plain : Here(p) => PlainTop /\ stack # <<>>
  BY PlainHere DEF Here
<1>f. \A a : /\ Free(<<"ready_wait", a>>)
            /\ Free(<<"door_1", a>>)
            /\ Free(<<"door_2", a>>)
            /\ Free(<<"door_3", a>>)
            /\ Free(<<"door_4", a>>)
            /\ Free(<<"door_5", a>>)
            /\ Free(<<"partition_1", a>>)
            /\ Free(<<"partition_2", a>>)
            /\ Free(<<"partition_3", a>>)
            /\ Free(<<"fails", a>>)
            /\ Free(<<"seek_to_1", a>>)
  BY DEF Free, Proper, Chain, Counted
<1>c. /\ Free(<<"command", "loader">>)
      /\ Free(<<"command", "partition">>)
      /\ Free(<<"command", "error">>)
  BY CommandFrames
<1>1. ASSUME Door PROVE PlainMove
  <2>1. PlainTop /\ stack # <<>>
    BY <1>1, <1>p DEF Door, Plain
  <2>2. PlainStep
    BY <1>1, <1>f, <1>c, <2>1, LeaveStep, CallStep DEF Door
  <2>3. QED
    BY <1>1, <2>1, <2>2, UnchangedKeeps DEF Door, PlainMove
<1>2. ASSUME Door1 PROVE PlainMove
  <2>1. PlainTop /\ stack # <<>>
    BY <1>2, <1>p DEF Door1, Plain
  <2>2. PlainStep
    BY <1>2, <1>f, <1>c, <2>1, LeaveStep, CallStep DEF Door1
  <2>3. QED
    BY <1>2, <2>1, <2>2, UnchangedKeeps DEF Door1, PlainMove
<1>3. ASSUME Door2 PROVE PlainMove
  <2>1. PlainTop /\ stack # <<>>
    BY <1>3, <1>p DEF Door2, Plain
  <2>2. PlainStep
    <3>1. \/ \E r, st : Leave(r, st)
          \/ \E a : Call("command", "partition", "partition_1", a)
          \/ Run(ftape_command_wait("lock"))
          \/ \E a : RunThen(ftape_command_wait("load"), "door_3", a)
      BY <1>3 DEF Door2
    <3>2. QED
      BY <1>f, <1>c, <2>1, <3>1, LeaveStep, CallStep, RunStep, RunThenStep, CommandRun
  <2>3. QED
    BY <1>3, <2>1, <2>2, UnchangedKeeps DEF Door2, PlainMove
<1>4. ASSUME Door3 PROVE PlainMove
  <2>1. PlainTop /\ stack # <<>>
    BY <1>4, <1>p DEF Door3, Plain
  <2>2. PlainStep
    BY <1>4, <1>f, <1>c, <2>1, CallStep DEF Door3
  <2>3. QED
    BY <1>4, <2>1, <2>2, UnchangedKeeps DEF Door3, PlainMove
<1>5. ASSUME Door4 PROVE PlainMove
  <2>1. PlainTop /\ stack # <<>>
    BY <1>5, <1>p DEF Door4, Plain
  <2>2. PlainStep
    BY <1>5, <1>f, <1>c, <2>1, LeaveStep, CallStep DEF Door4
  <2>3. QED
    BY <1>5, <2>1, <2>2, UnchangedKeeps DEF Door4, PlainMove
<1>6. ASSUME Door5 PROVE PlainMove
  <2>1. PlainTop /\ stack # <<>>
    BY <1>6, <1>p DEF Door5, Plain
  <2>2. PlainStep
    BY <1>6, <1>f, <1>c, <2>1, LeaveStep DEF Door5
  <2>3. QED
    BY <1>6, <2>1, <2>2, UnchangedKeeps DEF Door5, PlainMove
<1>7. ASSUME Partition1 PROVE PlainMove
  <2>1. PlainTop /\ stack # <<>>
    BY <1>7, <1>p DEF Partition1, Plain
  <2>2. PlainStep
    BY <1>7, <1>f, <1>c, <2>1, LeaveStep, RunThenStep, ParameterRun DEF Partition1
  <2>3. QED
    BY <1>7, <2>1, <2>2, UnchangedKeeps DEF Partition1, PlainMove
<1>8. ASSUME Partition2 PROVE PlainMove
  <2>1. PlainTop /\ stack # <<>>
    BY <1>8, <1>p DEF Partition2, Plain
  <2>2. PlainStep
    BY <1>8, <1>f, <1>c, <2>1, LeaveStep, CallStep DEF Partition2
  <2>3. \/ UNCHANGED ftape
        \/ ftape' = [ftape EXCEPT !.init_needed = TRUE, !.failure = TRUE]
    BY <1>8 DEF Partition2
  <2>4. UNCHANGED <<drive, zft, incidents>>
    BY <1>8 DEF Partition2
  <2>5. ASSUME UNCHANGED ftape PROVE Keeps /\ ftape'.level = ftape.level
    BY <2>4, <2>5, FtapeKeeps
  <2>6. ASSUME ftape' = [ftape EXCEPT !.init_needed = TRUE, !.failure = TRUE]
        PROVE  Keeps /\ ftape'.level = ftape.level
    BY <2>4, <2>6, FtapeKeeps
  <2>7. QED
    BY <2>1, <2>2, <2>3, <2>5, <2>6 DEF PlainMove
<1>9. ASSUME Partition3 PROVE PlainMove
  <2>1. PlainTop /\ stack # <<>>
    BY <1>9, <1>p DEF Partition3, Plain
  <2>2. PlainStep
    BY <1>9, <1>f, <1>c, <2>1, CallStep DEF Partition3
  <2>3. QED
    BY <1>9, <2>1, <2>2, UnchangedKeeps DEF Partition3, PlainMove
<1>10. ASSUME Fails PROVE PlainMove
  <2>1. PlainTop /\ stack # <<>>
    BY <1>10, <1>p DEF Fails, Plain
  <2>2. PlainStep
    BY <1>10, <1>f, <1>c, <2>1, LeaveStep DEF Fails
  <2>3. QED
    BY <1>10, <2>1, <2>2, UnchangedKeeps DEF Fails, PlainMove
<1>11. ASSUME SeekTo1 PROVE PlainMove
  <2>1. PlainTop /\ stack # <<>>
    BY <1>11, <1>p DEF SeekTo1, Plain
  <2>2. PlainStep
    BY <1>11, <1>f, <1>c, <2>1, LeaveStep, RunThenStep, CommandRun DEF SeekTo1
  <2>3. QED
    BY <1>11, <2>1, <2>2, UnchangedKeeps DEF SeekTo1, PlainMove
<1>12. QED
  BY <1>1, <1>2, <1>3, <1>4, <1>5, <1>6, <1>7, <1>8, <1>9, <1>10, <1>11

(* Who the drive is, and how it is.                                         *)
LEMMA StatusPlain ==
    ASSUME ReleaseInv
    PROVE  /\ VendorId => PlainMove
           /\ VendorGot => PlainMove
           /\ Cms1 => PlainMove
           /\ Cms2 => PlainMove
           /\ Cms3 => PlainMove
           /\ Cms4 => PlainMove
           /\ GetStatus => PlainMove
           /\ StatusLoop => PlainMove
           /\ Status1 => PlainMove
           /\ Status2 => PlainMove
           /\ Status3 => PlainMove
<1>p. \A p \in Plain : Here(p) => PlainTop /\ stack # <<>>
  BY PlainHere DEF Here
<1>f. \A a : /\ Free(<<"ready_wait", a>>)
            /\ Free(<<"vendor_id", a>>)
            /\ Free(<<"vendor_got", a>>)
            /\ Free(<<"cms_1", a>>)
            /\ Free(<<"cms_2", a>>)
            /\ Free(<<"cms_3", a>>)
            /\ Free(<<"cms_4", a>>)
            /\ Free(<<"status_loop", a>>)
            /\ Free(<<"status_1", a>>)
            /\ Free(<<"status_2", a>>)
            /\ Free(<<"status_3", a>>)
            /\ Free(<<"reset_drive", a>>)
            /\ Free(<<"fails", a>>)
  BY DEF Free, Proper, Chain, Counted
<1>c. /\ Free(<<"command", "old_vendor">>)
      /\ Free(<<"command", "vendor">>)
      /\ Free(<<"command", "rom">>)
      /\ Free(<<"command", "diagnostic">>)
      /\ Free(<<"command", "error">>)
      /\ Free(<<"command", "primary">>)
  BY CommandFrames
<1>1. ASSUME VendorId PROVE PlainMove
  <2>1. PlainTop /\ stack # <<>>
    BY <1>1, <1>p DEF VendorId, Plain
  <2>2. PlainStep
    BY <1>1, <1>f, <1>c, <2>1, LeaveStep, CallStep DEF VendorId
  <2>3. \/ UNCHANGED ftape
        \/ ftape' = [ftape EXCEPT
                         !.vendor = IF ftape.wake_up = "colorado" THEN "colorado" ELSE "unknown"]
    BY <1>1 DEF VendorId
  <2>4. UNCHANGED <<drive, zft, incidents>>
    BY <1>1 DEF VendorId
  <2>5. ASSUME UNCHANGED ftape PROVE Keeps /\ ftape'.level = ftape.level
    BY <2>4, <2>5, FtapeKeeps
  <2>6. ASSUME ftape' = [ftape EXCEPT !.vendor =
                          IF ftape.wake_up = "colorado" THEN "colorado" ELSE "unknown"]
        PROVE  Keeps /\ ftape'.level = ftape.level
    BY <2>4, <2>6, FtapeKeeps
  <2>7. QED
    BY <2>1, <2>2, <2>3, <2>5, <2>6 DEF PlainMove
<1>2. ASSUME VendorGot PROVE PlainMove
  <2>1. PlainTop /\ stack # <<>>
    BY <1>2, <1>p DEF VendorGot, Plain
  <2>2. PlainStep
    BY <1>2, <1>f, <1>c, <2>1, GotoStep, LeaveStep, CallStep DEF VendorGot
  <2>3. \/ UNCHANGED ftape
        \/ ftape' = [ftape EXCEPT !.vendor = drive.kind.vendor, !.flags = drive.kind.flags]
    BY <1>2 DEF VendorGot
  <2>4. UNCHANGED <<drive, zft, incidents>>
    BY <1>2 DEF VendorGot
  <2>5. ASSUME UNCHANGED ftape PROVE Keeps /\ ftape'.level = ftape.level
    BY <2>4, <2>5, FtapeKeeps
  <2>6. ASSUME ftape' = [ftape EXCEPT !.vendor = drive.kind.vendor, !.flags = drive.kind.flags]
        PROVE  Keeps /\ ftape'.level = ftape.level
    BY <2>4, <2>6 DEF Keeps, ReleaseInv, Fields
  <2>7. QED
    BY <2>1, <2>2, <2>3, <2>5, <2>6 DEF PlainMove
<1>3. ASSUME Cms1 PROVE PlainMove
  <2>1. PlainTop /\ stack # <<>>
    BY <1>3, <1>p DEF Cms1, Plain
  <2>2. PlainStep
    BY <1>3, <1>f, <1>c, <2>1, LeaveStep, RunStep, FreeTriple DEF Cms1, Frame
  <2>3. QED
    BY <1>3, <2>1, <2>2, UnchangedKeeps DEF Cms1, PlainMove
<1>4. ASSUME Cms2 PROVE PlainMove
  <2>1. PlainTop /\ stack # <<>>
    BY <1>4, <1>p DEF Cms2, Plain
  <2>2. PlainStep
    BY <1>4, <1>f, <1>c, <2>1, CallStep DEF Cms2
  <2>3. Keeps /\ ftape'.level = ftape.level
    BY <1>4, FtapeKeeps DEF Cms2
  <2>4. QED
    BY <2>1, <2>2, <2>3 DEF PlainMove
<1>5. ASSUME Cms3 PROVE PlainMove
  <2>1. PlainTop /\ stack # <<>>
    BY <1>5, <1>p DEF Cms3, Plain
  <2>2. PlainStep
    BY <1>5, <1>f, <1>c, <2>1, RunStep, FreeTriple DEF Cms3, Frame
  <2>3. QED
    BY <1>5, <2>1, <2>2, UnchangedKeeps DEF Cms3, PlainMove
<1>6. ASSUME Cms4 PROVE PlainMove
  <2>1. PlainTop /\ stack # <<>>
    BY <1>6, <1>p DEF Cms4, Plain
  <2>2. PlainStep
    BY <1>6, <1>f, <1>c, <2>1, LeaveStep DEF Cms4
  <2>3. Keeps /\ ftape'.level = ftape.level
    BY <1>6, FtapeKeeps DEF Cms4
  <2>4. QED
    BY <2>1, <2>2, <2>3 DEF PlainMove
<1>7. ASSUME GetStatus PROVE PlainMove
  <2>1. PlainTop /\ stack # <<>>
    BY <1>7, <1>p DEF GetStatus, Plain
  <2>2. PlainStep
    BY <1>7, <1>f, <1>c, <2>1, GotoStep DEF GetStatus
  <2>3. Keeps /\ ftape'.level = ftape.level
    BY <1>7, FtapeKeeps DEF GetStatus
  <2>4. QED
    BY <2>1, <2>2, <2>3 DEF PlainMove
<1>8. ASSUME StatusLoop PROVE PlainMove
  <2>1. PlainTop /\ stack # <<>>
    BY <1>8, <1>p DEF StatusLoop, Plain
  <2>2. PlainStep
    BY <1>8, <1>f, <1>c, <2>1, CallStep DEF StatusLoop
  <2>3. QED
    BY <1>8, <2>1, <2>2, UnchangedKeeps DEF StatusLoop, PlainMove
<1>9. ASSUME Status1 PROVE PlainMove
  <2>1. PlainTop /\ stack # <<>>
    BY <1>9, <1>p DEF Status1, Plain
  <2>2. PlainStep
    BY <1>9, <1>f, <1>c, <2>1, LeaveStep, GotoStep, CallStep DEF Status1
  <2>3. QED
    BY <1>9, <2>1, <2>2, UnchangedKeeps DEF Status1, PlainMove
<1>10. ASSUME Status2 PROVE PlainMove
  <2>1. PlainTop /\ stack # <<>>
    BY <1>10, <1>p DEF Status2, Plain
  <2>2. PlainStep
    BY <1>10, <1>f, <1>c, <2>1, GotoStep, CallStep DEF Status2
  <2>3. QED
    BY <1>10, <2>1, <2>2, UnchangedKeeps DEF Status2, PlainMove
<1>11. ASSUME Status3 PROVE PlainMove
  <2>1. PlainTop /\ stack # <<>>
    BY <1>11, <1>p DEF Status3, Plain
  <2>2. PlainStep
    BY <1>11, <1>f, <1>c, <2>1, LeaveStep, GotoStep DEF Status3
  <2>3. \/ UNCHANGED ftape
        \/ ftape' = [ftape EXCEPT !.new_tape = @ \/ "new" \in Arg]
        \/ ftape' = [ftape EXCEPT !.new_tape = @ \/ "new" \in Arg,
                               !.no_tape = "present" \notin Arg,
                               !.write_protected = "write_protect" \in Arg]
    BY <1>11 DEF Status3
  <2>4. UNCHANGED <<drive, zft, incidents>>
    BY <1>11 DEF Status3
  <2>5. ASSUME UNCHANGED ftape PROVE Keeps /\ ftape'.level = ftape.level
    BY <2>4, <2>5, FtapeKeeps
  <2>6. ASSUME ftape' = [ftape EXCEPT !.new_tape = @ \/ "new" \in Arg]
        PROVE  Keeps /\ ftape'.level = ftape.level
    BY <2>4, <2>6, FtapeKeeps
  <2>7. ASSUME ftape' = [ftape EXCEPT !.new_tape = @ \/ "new" \in Arg,
                               !.no_tape = "present" \notin Arg,
                               !.write_protected = "write_protect" \in Arg]
        PROVE  Keeps /\ ftape'.level = ftape.level
    BY <2>4, <2>7, FtapeKeeps
  <2>8. QED
    BY <2>1, <2>2, <2>3, <2>5, <2>6, <2>7 DEF PlainMove
<1>12. QED
  BY <1>1, <1>2, <1>3, <1>4, <1>5, <1>6, <1>7, <1>8, <1>9, <1>10, <1>11

(* A new cartridge, and its rate.                                           *)
LEMMA InitPlain ==
    ASSUME ReleaseInv
    PROVE  /\ InitDrive => PlainMove
           /\ Init1 => PlainMove
           /\ Init2 => PlainMove
           /\ Init3 => PlainMove
           /\ Init4 => PlainMove
           /\ Init5 => PlainMove
           /\ Timeouts => PlainMove
           /\ Succeeds => PlainMove
           /\ CalibrateRate => PlainMove
           /\ Calibrate => PlainMove
           /\ Calibrate1 => PlainMove
<1>p. \A p \in Plain : Here(p) => PlainTop /\ stack # <<>>
  BY PlainHere DEF Here
<1>f. \A a : /\ Free(<<"init_1", a>>)
            /\ Free(<<"init_2", a>>)
            /\ Free(<<"init_3", a>>)
            /\ Free(<<"init_4", a>>)
            /\ Free(<<"init_5", a>>)
            /\ Free(<<"timeouts", a>>)
            /\ Free(<<"succeeds", a>>)
            /\ Free(<<"calibrate_rate", a>>)
            /\ Free(<<"calibrate", a>>)
            /\ Free(<<"calibrate_1", a>>)
            /\ Free(<<"set_rate", a>>)
  BY DEF Free, Proper, Chain, Counted
<1>1. ASSUME InitDrive PROVE PlainMove
  <2>1. PlainTop /\ stack # <<>>
    BY <1>1, <1>p DEF InitDrive, Plain
  <2>2. PlainStep
    BY <1>1, <1>f, <2>1, LeaveStep, GotoStep, RunThenStep, OtherRuns DEF InitDrive
  <2>3. /\ \/ ftape' = [ftape EXCEPT !.init_needed = FALSE]
           \/ ftape' = [Reported(ftape) EXCEPT !.init_needed = FALSE]
        /\ UNCHANGED <<drive, zft>> /\ (incidents' = incidents \/ incidents' = incidents + 1)
    BY <1>1 DEF InitDrive, Fine, Unheard, UnheardAt, Fault
  <2>4. ASSUME \/ ftape' = [ftape EXCEPT !.init_needed = FALSE]
               \/ ftape' = [Reported(ftape) EXCEPT !.init_needed = FALSE]
        PROVE  /\ DOMAIN ftape' = DOMAIN ftape /\ ftape'.wake_up = ftape.wake_up
               /\ ftape'.flags = ftape.flags /\ ftape'.level = ftape.level
    <3>1. ASSUME ftape' = [ftape EXCEPT !.init_needed = FALSE]
          PROVE  /\ DOMAIN ftape' = DOMAIN ftape /\ ftape'.wake_up = ftape.wake_up
                 /\ ftape'.flags = ftape.flags /\ ftape'.level = ftape.level
      BY <3>1
    <3>2. ASSUME ftape' = [Reported(ftape) EXCEPT !.init_needed = FALSE]
          PROVE  /\ DOMAIN ftape' = DOMAIN ftape /\ ftape'.wake_up = ftape.wake_up
                 /\ ftape'.flags = ftape.flags /\ ftape'.level = ftape.level
      BY <3>2 DEF Reported
    <3>3. QED
      BY <2>4, <3>1, <3>2
  <2>5. QED
    BY <2>1, <2>2, <2>3, <2>4 DEF PlainMove, Keeps, ReleaseInv, Fields
<1>2. ASSUME Init1 PROVE PlainMove
  <2>1. PlainTop /\ stack # <<>>
    BY <1>2, <1>p DEF Init1, Plain
  <2>2. PlainStep
    BY <1>2, <1>f, <2>1, GotoStep, RunThenStep, CommandRun DEF Init1
  <2>3. QED
    BY <1>2, <2>1, <2>2, UnchangedKeeps DEF Init1, PlainMove
<1>3. ASSUME Init2 PROVE PlainMove
  <2>1. PlainTop /\ stack # <<>>
    BY <1>3, <1>p DEF Init2, Plain
  <2>2. PlainStep
    BY <1>3, <1>f, <2>1, LeaveStep, GotoStep DEF Init2
  <2>3. QED
    BY <1>3, <2>1, <2>2, UnchangedKeeps DEF Init2, PlainMove
<1>4. ASSUME Init3 PROVE PlainMove
  <2>1. PlainTop /\ stack # <<>>
    BY <1>4, <1>p DEF Init3, Plain
  <2>2. PlainStep
    BY <1>4, <1>f, <2>1, RunThenStep, OtherRuns DEF Init3
  <2>3. Keeps /\ ftape'.level = ftape.level
    BY <1>4, FtapeKeeps DEF Init3
  <2>4. QED
    BY <2>1, <2>2, <2>3 DEF PlainMove
<1>5. ASSUME Init4 PROVE PlainMove
  <2>1. PlainTop /\ stack # <<>>
    BY <1>5, <1>p DEF Init4, Plain
  <2>2. PlainStep
    BY <1>5, <1>f, <2>1, LeaveStep, GotoStep, CallStep DEF Init4
  <2>3. \/ UNCHANGED ftape
        \/ ftape' = [ftape EXCEPT !.data_rate = ret.conf.rate]
    BY <1>5 DEF Init4
  <2>4. UNCHANGED <<drive, zft, incidents>>
    BY <1>5 DEF Init4
  <2>5. ASSUME UNCHANGED ftape PROVE Keeps /\ ftape'.level = ftape.level
    BY <2>4, <2>5, FtapeKeeps
  <2>6. ASSUME ftape' = [ftape EXCEPT !.data_rate = ret.conf.rate]
        PROVE  Keeps /\ ftape'.level = ftape.level
    BY <2>4, <2>6, FtapeKeeps
  <2>7. QED
    BY <2>1, <2>2, <2>3, <2>5, <2>6 DEF PlainMove
<1>6. ASSUME Init5 PROVE PlainMove
  <2>1. PlainTop /\ stack # <<>>
    BY <1>6, <1>p DEF Init5, Plain
  <2>2. PlainStep
    BY <1>6, <1>f, <2>1, LeaveStep, GotoStep DEF Init5
  <2>3. \/ UNCHANGED ftape
        \/ ftape' = [ftape EXCEPT !.write_protected =
                   @ \/ (ftape.vendor = "t3000" /\ ftape.qic_std \in {"qic40", "qic80"})]
    BY <1>6 DEF Init5
  <2>4. UNCHANGED <<drive, zft, incidents>>
    BY <1>6 DEF Init5
  <2>5. ASSUME UNCHANGED ftape PROVE Keeps /\ ftape'.level = ftape.level
    BY <2>4, <2>5, FtapeKeeps
  <2>6. ASSUME ftape' = [ftape EXCEPT !.write_protected =
                   @ \/ (ftape.vendor = "t3000" /\ ftape.qic_std \in {"qic40", "qic80"})]
        PROVE  Keeps /\ ftape'.level = ftape.level
    BY <2>4, <2>6, FtapeKeeps
  <2>7. QED
    BY <2>1, <2>2, <2>3, <2>5, <2>6 DEF PlainMove
<1>7. ASSUME Timeouts PROVE PlainMove
  <2>1. PlainTop /\ stack # <<>>
    BY <1>7, <1>p DEF Timeouts, Plain
  <2>2. PlainStep
    BY <1>7, <1>f, <2>1, LeaveStep, RunThenStep, OtherRuns, FreeMore DEF Timeouts
  <2>3. \/ UNCHANGED ftape
        \/ ftape' = [ftape EXCEPT !.first_time = FALSE]
    BY <1>7 DEF Timeouts
  <2>4. UNCHANGED <<drive, zft, incidents>>
    BY <1>7 DEF Timeouts
  <2>5. ASSUME UNCHANGED ftape PROVE Keeps /\ ftape'.level = ftape.level
    BY <2>4, <2>5, FtapeKeeps
  <2>6. ASSUME ftape' = [ftape EXCEPT !.first_time = FALSE]
        PROVE  Keeps /\ ftape'.level = ftape.level
    BY <2>4, <2>6, FtapeKeeps
  <2>7. QED
    BY <2>1, <2>2, <2>3, <2>5, <2>6 DEF PlainMove
<1>8. ASSUME Succeeds PROVE PlainMove
  <2>1. PlainTop /\ stack # <<>>
    BY <1>8, <1>p DEF Succeeds, Plain
  <2>2. PlainStep
    BY <1>8, <1>f, <2>1, LeaveStep DEF Succeeds
  <2>3. QED
    BY <1>8, <2>1, <2>2, UnchangedKeeps DEF Succeeds, PlainMove
<1>9. ASSUME CalibrateRate PROVE PlainMove
  <2>1. PlainTop /\ stack # <<>>
    BY <1>9, <1>p DEF CalibrateRate, Plain
  <2>2. PlainStep
    BY <1>9, <1>f, <2>1, LeaveStep, GotoStep DEF CalibrateRate
  <2>3. \/ UNCHANGED ftape
        \/ ftape' = [ftape EXCEPT !.qic_std = Arg]
        \/ ftape' = [ftape EXCEPT !.qic_std = Arg, !.fdc_rate = RateLimit]
    BY <1>9 DEF CalibrateRate
  <2>4. UNCHANGED <<drive, zft, incidents>>
    BY <1>9 DEF CalibrateRate
  <2>5. ASSUME UNCHANGED ftape PROVE Keeps /\ ftape'.level = ftape.level
    BY <2>4, <2>5, FtapeKeeps
  <2>6. ASSUME ftape' = [ftape EXCEPT !.qic_std = Arg]
        PROVE  Keeps /\ ftape'.level = ftape.level
    BY <2>4, <2>6, FtapeKeeps
  <2>7. ASSUME ftape' = [ftape EXCEPT !.qic_std = Arg, !.fdc_rate = RateLimit]
        PROVE  Keeps /\ ftape'.level = ftape.level
    BY <2>4, <2>7, FtapeKeeps
  <2>8. QED
    BY <2>1, <2>2, <2>3, <2>5, <2>6, <2>7 DEF PlainMove
<1>10. ASSUME Calibrate PROVE PlainMove
  <2>1. PlainTop /\ stack # <<>>
    BY <1>10, <1>p DEF Calibrate, Plain
  <2>2. PlainStep
    BY <1>10, <1>f, <2>1, CallStep DEF Calibrate
  <2>3. QED
    BY <1>10, <2>1, <2>2, UnchangedKeeps DEF Calibrate, PlainMove
<1>11. ASSUME Calibrate1 PROVE PlainMove
  <2>1. PlainTop /\ stack # <<>>
    BY <1>11, <1>p DEF Calibrate1, Plain
  <2>2. PlainStep
    BY <1>11, <1>f, <2>1, LeaveStep, GotoStep DEF Calibrate1
  <2>3. \/ UNCHANGED ftape
        \/ ftape' = [ftape EXCEPT !.data_rate = Arg]
    BY <1>11 DEF Calibrate1
  <2>4. UNCHANGED <<drive, zft, incidents>>
    BY <1>11 DEF Calibrate1
  <2>5. ASSUME UNCHANGED ftape PROVE Keeps /\ ftape'.level = ftape.level
    BY <2>4, <2>5, FtapeKeeps
  <2>6. ASSUME ftape' = [ftape EXCEPT !.data_rate = Arg]
        PROVE  Keeps /\ ftape'.level = ftape.level
    BY <2>4, <2>6, FtapeKeeps
  <2>7. QED
    BY <2>1, <2>2, <2>3, <2>5, <2>6 DEF PlainMove
<1>12. QED
  BY <1>1, <1>2, <1>3, <1>4, <1>5, <1>6, <1>7, <1>8, <1>9, <1>10, <1>11

(* What the device calls.                                                   *)
LEMMA UsePlain ==
    ASSUME ReleaseInv
    PROVE  /\ Use1 => PlainMove
           /\ Use2 => PlainMove
           /\ SetPart => PlainMove
<1>p. \A p \in Plain : Here(p) => PlainTop /\ stack # <<>>
  BY PlainHere DEF Here
<1>f. \A a : /\ Free(<<"use_2", a>>)
            /\ Free(<<"door", a>>)
  BY DEF Free, Proper, Chain, Counted
<1>c. /\ Free(<<"command", "forward">>)
  BY CommandFrames
<1>1. ASSUME Use1 PROVE PlainMove
  <2>1. PlainTop /\ stack # <<>>
    BY <1>1, <1>p DEF Use1, Plain
  <2>2. PlainStep
    BY <1>1, <1>f, <1>c, <2>1, LeaveStep, CallStep DEF Use1, End
  <2>3. QED
    BY <1>1, <2>1, <2>2, UnchangedKeeps DEF Use1, PlainMove
<1>2. ASSUME Use2 PROVE PlainMove
  <2>1. PlainTop /\ stack # <<>>
    BY <1>2, <1>p DEF Use2, Plain
  <2>2. PlainStep
    BY <1>2, <1>f, <1>c, <2>1, LeaveStep, RunStep, CommandRun DEF Use2, End
  <2>3. Keeps /\ ftape'.level = ftape.level
    BY <1>2, ZftKeeps DEF Use2, End
  <2>4. QED
    BY <2>1, <2>2, <2>3 DEF PlainMove
<1>3. ASSUME SetPart PROVE PlainMove
  <2>1. PlainTop /\ stack # <<>>
    BY <1>3, <1>p DEF SetPart, Plain
  <2>2. PlainStep
    BY <1>3, <1>f, <1>c, <2>1, LeaveStep, GotoStep DEF SetPart, End
  <2>3. \/ UNCHANGED zft
        \/ zft' = [zft EXCEPT !.tables = NoTables, !.going_offline = FALSE]
    BY <1>3 DEF SetPart
  <2>4. UNCHANGED <<ftape, drive, incidents>>
    BY <1>3 DEF SetPart
  <2>5. ASSUME UNCHANGED zft PROVE Keeps /\ ftape'.level = ftape.level
    BY <2>4, <2>5, ZftKeeps
  <2>6. ASSUME zft' = [zft EXCEPT !.tables = NoTables, !.going_offline = FALSE]
        PROVE  Keeps /\ ftape'.level = ftape.level
    BY <2>4, <2>6, ZftKeeps
  <2>7. QED
    BY <2>1, <2>2, <2>3, <2>5, <2>6 DEF PlainMove
<1>4. QED
  BY <1>1, <1>2, <1>3

-----------------------------------------------------------------------------
(* Commands, and the levels they hold                                       *)

(* What the drive makes of a command and of a parameter.                   *)
LEMMA Obeyed ==
    ASSUME NEW t, {"kind", "awake"} \subseteq DOMAIN t, t.awake \in BOOLEAN, NEW c
    PROVE  /\ DOMAIN Obey(t, c) = DOMAIN t /\ Obey(t, c).kind = t.kind
           /\ Obey(t, c).awake \in BOOLEAN
           /\ c # "deselect" /\ t.kind.wake_up = "none" /\ t.awake => Obey(t, c).awake
<1>1. CASE Difference(Status(t), c) # {}
  BY <1>1 DEF Obey, Refuse
<1>2. CASE Difference(Status(t), c) = {}
  <2>1. CASE c = "error"
    BY <1>2, <2>1 DEF Obey
  <2>2. CASE c = "reset"
    BY <1>2, <2>2 DEF Obey
  <2>3. CASE c \in {"forward", "reverse", "fast", "load_point"}
    BY <1>2, <2>3 DEF Obey, Busy
  <2>4. CASE c = "stop"
    BY <1>2, <2>4 DEF Obey, Busy
  <2>5. CASE c = "deselect"
    BY <1>2, <2>5 DEF Obey
  <2>6. CASE c = "old_vendor"
    BY <1>2, <2>6 DEF Obey
  <2>7. CASE c = "lock"
    BY <1>2, <2>7 DEF Obey
  <2>8. CASE c = "load"
    BY <1>2, <2>8 DEF Obey
  <2>9. CASE c \notin {"error", "reset", "forward", "reverse", "fast", "load_point", "stop",
                       "deselect", "old_vendor", "lock", "load"}
    BY <1>2, <2>9 DEF Obey
  <2>10. QED
    BY <2>1, <2>2, <2>3, <2>4, <2>5, <2>6, <2>7, <2>8, <2>9
<1>3. QED
  BY <1>1, <1>2

(* A drive that is told to sleep sleeps.                                   *)
LEMMA DeselectObeyed ==
    ASSUME NEW t, {"kind", "awake"} \subseteq DOMAIN t
    PROVE  Obey(t, "deselect").awake = FALSE
<1>1. Difference(Status(t), "deselect") = {}
  BY DEF Difference, qic117_cmds, Row
<1>2. QED
  BY <1>1 DEF Obey

(* A parameter puts no drive to sleep.                                     *)
LEMMA ParameterObeyed ==
    ASSUME NEW t, {"kind", "awake"} \subseteq DOMAIN t, t.awake \in BOOLEAN, NEW c, NEW p
    PROVE  /\ DOMAIN ObeyParameter(t, c, p) = DOMAIN t
           /\ ObeyParameter(t, c, p).kind = t.kind
           /\ ObeyParameter(t, c, p).awake \in BOOLEAN
           /\ t.awake => ObeyParameter(t, c, p).awake
<1>1. CASE c = "select"
  BY <1>1 DEF ObeyParameter
<1>2. CASE c # "select" /\ (~t.awake \/ t.error # NoError)
  BY <1>2 DEF ObeyParameter
<1>3. CASE ~(c = "select" \/ (~t.awake \/ t.error # NoError))
  <2>1. CASE c = "rate"
    BY <1>3, <2>1 DEF ObeyParameter, Refuse
  <2>2. CASE c = "partition"
    BY <1>3, <2>2 DEF ObeyParameter, Refuse, Busy
  <2>3. CASE c \notin {"rate", "partition"}
    BY <1>3, <2>3 DEF ObeyParameter, Busy
  <2>4. QED
    BY <2>1, <2>2, <2>3
<1>4. QED
  BY <1>1, <1>2, <1>3

(* The level of the function on top of the stack, which is at work on c.   *)
Held(s, k, c) ==
    \/ k = 0 /\ Calm(s, 2)
    \/ k = 1 /\ c = "error" /\ Len(s) >= 2 /\ s[2][1] = "recheck" /\ Calm(s, 3)

(* How many levels are held is read off the frame on top.                  *)
LEMMA TopHolds ==
    ASSUME ReleaseInv, stack # <<>>
    PROVE  /\ stack[1][1] = "command" => Held(stack, ftape.level, stack[1][2])
           /\ stack[1][1] \in Counted => Held(stack, ftape.level - 1, stack[1][2])
           /\ stack[1][1] \in Counted => ftape.level \in {1, 2}
           /\ stack[1][1] = "command" => ftape.level \in {0, 1}
<1>1. Nested(stack, ftape.level) /\ Len(stack) \in Nat \ {0}
  BY TopFrame DEF ReleaseInv, ClosedInv
<1>2. Calm(stack, 1) => Calm(stack, 2) /\ stack[1][1] \notin Counted
  BY <1>1 DEF Calm
<1>3. QED
  BY <1>1, <1>2 DEF Nested, Held, Counted

(* How many frames take the place of the one on top.                       *)
Many(fs, l) == Len(fs) = l

(* Below the new frames no level is held if none was held below the old    *)
(* one.                                                                    *)
LEMMA StillCalm ==
    ASSUME IsStack(stack), NEW fs, Gives(fs), NEW m \in Nat, m >= 2, Calm(stack, m),
           NEW l \in Nat, Many(fs, l), NEW n \in Nat, n + 1 = l + m
    PROVE  Calm(stack', n)
<1>1. /\ Len(fs) \in Nat /\ Len(stack) \in Nat \ {0}
      /\ Len(stack') = Len(fs) + Len(stack) - 1
      /\ \A i \in 2 .. Len(stack) : stack'[Len(fs) + i - 1] = stack[i]
  BY GivesStack
<1> USE DEF Many
<1>2. ASSUME NEW i \in n .. Len(stack') PROVE stack'[i][1] \notin Counted
  <2> DEFINE j == i + 1 - Len(fs)
  <2>1. j \in 2 .. Len(stack) /\ j \in m .. Len(stack) /\ i = Len(fs) + j - 1
    BY <1>1, <1>2
  <2>2. stack'[i] = stack[j]
    BY <1>1, <2>1
  <2>3. QED
    BY <2>1, <2>2 DEF Calm
<1>3. QED
  BY <1>2 DEF Calm, Counted

(* A command that ends gives its level back.                               *)
LEMMA HeldNone ==
    ASSUME IsStack(stack), Gives(<<>>), NEW k, NEW c, Held(stack, k, c)
    PROVE  Nested(stack', k)
<1>1. Many(<<>>, 0)
  BY NoFrames DEF Many
<1>2. /\ Len(stack) \in Nat \ {0} /\ Len(stack') = Len(stack) - 1
      /\ \A i \in 2 .. Len(stack) : stack'[i - 1] = stack[i]
  BY GivesStack, NoFrames
<1>3. CASE k = 0 /\ Calm(stack, 2)
  <2>1. Calm(stack', 1)
    BY <1>1, <1>3, StillCalm
  <2>2. QED
    BY <1>3, <2>1 DEF Nested
<1>4. CASE k = 1 /\ c = "error" /\ Len(stack) >= 2 /\ stack[2][1] = "recheck" /\ Calm(stack, 3)
  <2>1. Calm(stack', 2)
    BY <1>1, <1>4, StillCalm
  <2>2. 2 \in 2 .. Len(stack) /\ Len(stack') >= 1
    BY <1>2, <1>4
  <2>3. stack'[1] = stack[2]
    BY <1>2, <2>2
  <2>4. QED
    BY <1>4, <2>1, <2>2, <2>3 DEF Nested, Counted
<1>5. QED
  BY <1>3, <1>4 DEF Held

(* A command that goes on holds one level.                                 *)
LEMMA HeldOne ==
    ASSUME IsStack(stack), NEW fs, Gives(fs), Len(fs) = 1, NEW k, Held(stack, k, fs[1][2]),
           fs[1][1] \in {"send", "checked"}
    PROVE  Nested(stack', k + 1)
<1>1. /\ Len(stack) \in Nat \ {0} /\ Len(stack') = Len(stack)
      /\ \A i \in 1 .. 1 : stack'[i] = fs[i]
      /\ \A i \in 2 .. Len(stack) : stack'[1 + i - 1] = stack[i]
  <2>1. /\ Len(stack) \in Nat \ {0} /\ Len(stack') = Len(fs) + Len(stack) - 1
        /\ \A i \in 1 .. Len(fs) : stack'[i] = fs[i]
        /\ \A i \in 2 .. Len(stack) : stack'[Len(fs) + i - 1] = stack[i]
    BY GivesStack
  <2>2. QED
    BY <2>1
<1>2. Many(fs, 1)
  BY DEF Many
<1>3. stack'[1] = fs[1] /\ (Len(stack) >= 2 => stack'[2] = stack[2])
  <2>1. 1 \in 1 .. 1 /\ (Len(stack) >= 2 => 2 \in 2 .. Len(stack)) /\ 1 + 2 - 1 = 2
    BY <1>1
  <2>2. QED
    BY <1>1, <2>1
<1>4. CASE k = 0 /\ Calm(stack, 2)
  <2>1. Calm(stack', 2)
    BY <1>4, <1>2, StillCalm
  <2>2. QED
    BY <1>1, <1>3, <1>4, <2>1 DEF Nested, Counted
<1>5. CASE k = 1 /\ fs[1][2] = "error" /\ Len(stack) >= 2 /\ stack[2][1] = "recheck"
           /\ Calm(stack, 3)
  <2>1. Calm(stack', 3)
    BY <1>5, <1>2, StillCalm
  <2>2. QED
    BY <1>1, <1>3, <1>5, <2>1 DEF Nested
<1>6. QED
  BY <1>4, <1>5 DEF Held

(* One frame on another.                                                   *)
LEMMA OneAndOne ==
    ASSUME NEW fs, IsStack(fs), Many(fs, 1), NEW gs, IsStack(gs), Many(gs, 1)
    PROVE  /\ IsStack(fs \o gs) /\ Len(fs \o gs) = 2
           /\ (fs \o gs)[1] = fs[1] /\ (fs \o gs)[2] = gs[1]
<1>1. /\ IsStack(fs \o gs)
      /\ Len(fs \o gs) = Len(fs) + Len(gs)
      /\ \A i \in 1 .. Len(fs) : (fs \o gs)[i] = fs[i]
      /\ \A i \in 1 .. Len(gs) : (fs \o gs)[Len(fs) + i] = gs[i]
  BY TwoRuns
<1>2. 1 \in 1 .. Len(fs) /\ 1 \in 1 .. Len(gs) /\ Len(fs) + 1 = 2
  BY DEF Many
<1>3. (fs \o gs)[1] = fs[1] /\ (fs \o gs)[Len(fs) + 1] = gs[1]
  BY <1>1, <1>2
<1>4. QED
  BY <1>1, <1>3 DEF Many

(* The same, of frames given.                                              *)
LEMMA TwoFrames ==
    ASSUME NEW f, NEW g
    PROVE  /\ IsStack(<<f>> \o <<g>>) /\ Len(<<f>> \o <<g>>) = 2
           /\ (<<f>> \o <<g>>)[1] = f /\ (<<f>> \o <<g>>)[2] = g
<1>1. /\ IsStack(<<f>>) /\ Len(<<f>>) = 1 /\ <<f>>[1] = f
      /\ IsStack(<<g>>) /\ Len(<<g>>) = 1 /\ <<g>>[1] = g
  BY OneFrame
<1>2. QED
  BY <1>1, OneAndOne DEF Many

(* A command that waits for the drive, or reads its error, holds one level.*)
LEMMA HeldTwo ==
    ASSUME IsStack(stack), NEW fs, Gives(fs), Len(fs) = 2, NEW k, Held(stack, k, fs[2][2]),
           \/ fs[1][1] = "ready_wait" /\ fs[2][1] = "checked"
           \/ fs[1][1] = "command" /\ fs[1][2] = "error" /\ fs[2][1] = "recheck" /\ k = 0
    PROVE  Nested(stack', k + 1)
<1>1. /\ Len(stack) \in Nat \ {0} /\ Len(stack') = Len(stack) + 1
      /\ \A i \in 1 .. 2 : stack'[i] = fs[i]
      /\ \A i \in 2 .. Len(stack) : stack'[2 + i - 1] = stack[i]
  <2>1. /\ Len(stack) \in Nat \ {0} /\ Len(stack') = Len(fs) + Len(stack) - 1
        /\ \A i \in 1 .. Len(fs) : stack'[i] = fs[i]
        /\ \A i \in 2 .. Len(stack) : stack'[Len(fs) + i - 1] = stack[i]
    BY GivesStack
  <2>2. QED
    BY <2>1
<1>2. Many(fs, 2)
  BY DEF Many
<1>3. stack'[1] = fs[1] /\ stack'[2] = fs[2] /\ (Len(stack) >= 2 => stack'[3] = stack[2])
  <2>1. 1 \in 1 .. 2 /\ 2 \in 1 .. 2 /\ (Len(stack) >= 2 => 2 \in 2 .. Len(stack))
        /\ 2 + 2 - 1 = 3
    BY <1>1
  <2>2. QED
    BY <1>1, <2>1
<1>4. CASE k = 0 /\ Calm(stack, 2)
  <2>1. Calm(stack', 3)
    BY <1>4, <1>2, StillCalm
  <2>2. QED
    BY <1>1, <1>3, <1>4, <2>1 DEF Nested
<1>5. CASE k = 1 /\ fs[2][2] = "error" /\ Len(stack) >= 2 /\ stack[2][1] = "recheck"
           /\ Calm(stack, 3)
  <2>1. Calm(stack', 4)
    BY <1>5, <1>2, StillCalm
  <2>2. QED
    BY <1>1, <1>3, <1>5, <2>1 DEF Nested
<1>6. QED
  BY <1>4, <1>5 DEF Held

(* A step of a command, which brings frames that deselect nothing.         *)
LEMMA Inner ==
    ASSUME ReleaseInv, Keeps, NEW fs, Gives(fs),
           stack[1][1] \in Counted \cup {"command", "ready_wait"}, ~Deselecting(stack[1]),
           \A i \in 1 .. Len(fs) :
               /\ fs[i][1] \in Counted \cup {"command", "ready_wait"}
               /\ fs[i][1] = "command" => fs[i][2] = "error"
               /\ fs[i][1] \in Counted => fs[i][2] # "deselect",
           Nested(stack', ftape'.level)
    PROVE  ReleaseInv'
<1>1. stack[1][1] \notin Proper /\ ~Tries(stack[1])
  BY DEF Proper, Chain, Counted, Tries
<1>2. \A i \in 1 .. Len(fs) : fs[i][1] \notin Proper
  BY DEF Proper, Chain, Counted
<1>3. CommandsOK'
  <2>1. \A i \in 1 .. Len(fs) :
            /\ ~(fs[i][1] = "command" /\ fs[i][2] = "format_mode")
            /\ fs[i][1] \in {"checked", "recheck"} => fs[i][2] # "deselect"
            /\ ~Deselecting(fs[i])
    BY DEF Counted, Deselecting
  <2>2. QED
    BY <2>1, GivesCommands DEF ReleaseInv, ClosedInv, Keeps
<1>4. Nested(stack, ftape.level)'
  OBVIOUS
<1>5. \A i \in 1 .. Len(fs) : Bare => fs[i][1] \in BarePlaces
  BY DEF BarePlaces
<1>6. QED
  BY <1>1, <1>2, <1>3, <1>4, <1>5, Quietly

(* ftape_command() has got so far: ftape is f, one level is held for c.    *)
Along(f, k) ==
    /\ DOMAIN f = DOMAIN ftape /\ f.level = k + 1
    /\ f.wake_up = ftape.wake_up /\ f.flags = ftape.flags

(* A function of ftape_command() is on top.                                *)
Commanding ==
    /\ stack # <<>> /\ stack[1][1] \in Counted \cup {"command"} /\ ~(stack[1][2] = "deselect")
    /\ UNCHANGED <<drive, zft>> /\ incidents' \in Nat /\ incidents' >= incidents

(* It changes nothing but the level and what the status says.              *)
LEMMA AlongKeeps ==
    ASSUME ReleaseInv, Commanding, NEW k, NEW f, Along(f, k),
           \/ ftape' = f
           \/ ftape' = [f EXCEPT !.level = @ - 1]
    PROVE  Keeps
BY DEF ReleaseInv, Fields, Commanding, Along, Keeps

(* The command is refused, ...                                             *)
LEMMA RefusedStep ==
    ASSUME ReleaseInv, Commanding, NEW k \in Nat, Held(stack, k, stack[1][2]),
           NEW f, Along(f, k), Refused(f)
    PROVE  ReleaseInv'
<1>1. IsStack(stack) /\ stack # <<>>
  BY DEF ReleaseInv, Commanding
<1>2. Gives(<<>>)
  <2>1. PICK S : stack \in Seq(S)
    BY <1>1 DEF IsStack
  <2>2. stack' = <<>> \o Tail(stack)
    BY <1>1, <2>1 DEF Refused, Leave
  <2>3. QED
    BY <1>1, <2>2, NoFrames DEF Gives
<1>3. ftape'.level = k
  <2>1. "level" \in DOMAIN f
    BY DEF Along, ReleaseInv, Fields
  <2>2. QED
    BY <2>1 DEF Refused, Along
<1>4. Nested(stack', ftape'.level)
  BY <1>1, <1>2, <1>3, HeldNone
<1>5. Keeps
  BY AlongKeeps DEF Refused
<1>6. ~Deselecting(stack[1]) /\ stack[1][1] \in Counted \cup {"command", "ready_wait"}
  BY DEF Commanding, Deselecting
<1>7. QED
  BY <1>2, <1>4, <1>5, <1>6, NoFrames, Inner

(* ... is sent, ...                                                        *)
LEMMA SendStep ==
    ASSUME ReleaseInv, Commanding, NEW k \in Nat, NEW c, c = stack[1][2], Held(stack, k, c),
           NEW f, Along(f, k), ftape' = f, Goto("send", c)
    PROVE  ReleaseInv'
<1>1. IsStack(stack) /\ stack # <<>>
  BY DEF ReleaseInv, Commanding
<1>2. /\ IsStack(<<<<"send", c>>>>) /\ Len(<<<<"send", c>>>>) = 1
      /\ <<<<"send", c>>>>[1] = <<"send", c>>
  BY OneFrame
<1>3. Gives(<<<<"send", c>>>>)
  BY <1>1, <1>2 DEF Gives, Goto, Frame
<1>4. <<"send", c>>[1] = "send" /\ <<"send", c>>[2] = c
  OBVIOUS
<1>5. Nested(stack', ftape'.level)
  <2>1. Nested(stack', k + 1)
    BY <1>1, <1>2, <1>3, <1>4, HeldOne
  <2>2. QED
    BY <2>1 DEF Along
<1>6. Keeps
  BY AlongKeeps
<1>7. ~Deselecting(stack[1]) /\ stack[1][1] \in Counted \cup {"command", "ready_wait"}
  BY DEF Commanding, Deselecting
<1>8. ASSUME NEW i \in 1 .. 1
      PROVE  <<<<"send", c>>>>[i][1] = "send" /\ <<<<"send", c>>>>[i][2] # "deselect"
  <2>1. i = 1
    OBVIOUS
  <2>2. QED
    BY <1>2, <1>4, <2>1 DEF Commanding
<1>9. QED
  BY <1>2, <1>3, <1>5, <1>6, <1>7, <1>8, Inner DEF Counted

(* ... or has to wait for the drive or for the error to be read.           *)
LEMMA AskStep ==
    ASSUME ReleaseInv, Commanding, NEW k \in Nat, NEW c, c = stack[1][2], Held(stack, k, c),
           NEW f, Along(f, k), ftape' = f, NEW p, NEW a, NEW q, Call(p, a, q, c),
           \/ p = "ready_wait" /\ q = "checked"
           \/ p = "command" /\ a = "error" /\ q = "recheck" /\ c # "error"
    PROVE  ReleaseInv'
<1>1. IsStack(stack) /\ stack # <<>>
  BY DEF ReleaseInv, Commanding
<1> DEFINE g == <<p, a>>
<1> DEFINE h == <<q, c>>
<1>2. g[1] = p /\ g[2] = a /\ h[1] = q /\ h[2] = c
  OBVIOUS
<1>3. stack' = (<<g>> \o <<h>>) \o Tail(stack)
  BY DEF Call, RunThen, Run, Frame
<1> HIDE DEF g, h
<1> DEFINE fs == <<g>> \o <<h>>
<1>4. IsStack(fs) /\ Len(fs) = 2 /\ fs[1] = g /\ fs[2] = h
  BY TwoFrames
<1>5. Gives(fs)
  BY <1>1, <1>3, <1>4 DEF Gives
<1> HIDE DEF fs
<1>6. Nested(stack', ftape'.level)
  <2>1. c # "error" => k = 0
    BY DEF Held
  <2>2. Nested(stack', k + 1)
    BY <1>1, <1>2, <1>3, <1>4, <1>5, <2>1, HeldTwo
  <2>3. QED
    BY <2>2 DEF Along
<1>7. Keeps
  BY AlongKeeps
<1>8. ~Deselecting(stack[1]) /\ stack[1][1] \in Counted \cup {"command", "ready_wait"}
  BY DEF Commanding, Deselecting
<1>9. ASSUME NEW i \in 1 .. 2
      PROVE  /\ fs[i][1] \in Counted \cup {"command", "ready_wait"}
             /\ fs[i][1] = "command" => fs[i][2] = "error"
             /\ fs[i][1] \in Counted => fs[i][2] # "deselect"
  <2>1. i = 1 \/ i = 2
    OBVIOUS
  <2>2. QED
    BY <1>2, <1>4, <2>1 DEF Commanding, Counted
<1>10. QED
  BY <1>4, <1>5, <1>6, <1>7, <1>8, <1>9, Inner

(* ft_check_cmd_restrictions() has seen the status.                        *)
LEMMA DecideStep ==
    ASSUME ReleaseInv, Commanding, NEW k \in Nat, NEW c, c = stack[1][2], Held(stack, k, c),
           NEW f, Along(f, k), NEW st, Decide(f, c, st)
    PROVE  ReleaseInv'
<1> DEFINE off == Difference(st, c)
<1>1. CASE off = {} /\ ftape' = f /\ Goto("send", c)
  BY <1>1, SendStep
<1>2. CASE "ready" \in off /\ ftape' = f /\ Call("ready_wait", Timeout, "checked", c)
  BY <1>2, AskStep
<1>3. CASE "error" \in off /\ ftape' = f /\ Call("command", "error", "recheck", c)
  <2>1. c # "error"
    BY <1>3 DEF Difference, qic117_cmds, Row
  <2>2. QED
    BY <1>3, <2>1, AskStep
<1>4. CASE Refused([f EXCEPT !.failure = @ \/ {"present", "new", "referenced"} \cap off # {}])
  <2> DEFINE g == [f EXCEPT !.failure = @ \/ {"present", "new", "referenced"} \cap off # {}]
  <2>1. Along(g, k)
    BY DEF Along
  <2> HIDE DEF g
  <2>2. Refused(g)
    BY <1>4 DEF g
  <2>3. QED
    BY <2>1, <2>2, RefusedStep
<1>5. QED
  BY <1>1, <1>2, <1>3, <1>4 DEF Decide

(* A command, unless it is one that deselects the drive.                   *)
LEMMA CommandStep ==
    ASSUME ReleaseInv, Command, ~Deselecting(stack[1])
    PROVE  ReleaseInv'
<1>1. /\ stack # <<>> /\ Head(stack) = stack[1] /\ IsStack(stack)
      /\ Head(stack)[1] = "command" /\ UNCHANGED <<drive, zft>>
      /\ incidents \in Nat
  BY TopFrame DEF Command, Here, ReleaseInv, Fields
<1> DEFINE c == stack[1][2]
<1> DEFINE k == ftape.level
<1> DEFINE f == [ftape EXCEPT !.level = IF @ >= 5 THEN @ ELSE @ + 1]
<1>2. k \in {0, 1} /\ Held(stack, k, c)
  BY <1>1, TopHolds
<1>3. ~(k >= 5) /\ ~(c = "format_mode" /\ "cant_format" \in ftape.flags)
  <2>1. 1 \in 1 .. Len(stack)
    BY <1>1, TopFrame
  <2>2. c = "format_mode" => "cant_format" \notin drive.kind.flags
    BY <1>1, <2>1 DEF ReleaseInv, ClosedInv, CommandsOK
  <2>3. QED
    BY <1>2, <2>2 DEF ReleaseInv, Fields
<1>4. "level" \in DOMAIN ftape
  BY DEF ReleaseInv, Fields
<1>5. Along(f, k) /\ Along(Reported(f), k)
  BY <1>2, <1>4 DEF Along, Reported
<1>6. Arg = c
  BY <1>1 DEF Arg
<1>7. \/ ftape' = f /\ Fine /\ Goto("send", c)
      \/ /\ Fine
         /\ \/ ftape' = f /\ Call("ready_wait", Timeout, "checked", c)
            \/ Decide(Reported(f), c, Status(drive))
      \/ UnheardAt(f.level) /\ Refused(f)
  BY <1>3, <1>6 DEF Command
<1> HIDE DEF f, c, k
<1>8. incidents' \in Nat /\ incidents' >= incidents
  BY <1>1, <1>7 DEF Fine, UnheardAt, Fault
<1>9. Commanding /\ c = stack[1][2] /\ k \in Nat
  BY <1>1, <1>2, <1>8 DEF Commanding, Deselecting, c
<1>10. CASE ftape' = f /\ Goto("send", c)
  BY <1>2, <1>5, <1>9, <1>10, SendStep
<1>11. CASE ftape' = f /\ Call("ready_wait", Timeout, "checked", c)
  BY <1>2, <1>5, <1>9, <1>11, AskStep
<1>12. CASE Decide(Reported(f), c, Status(drive))
  <2>1. \E g : Along(g, k) /\ Decide(g, c, Status(drive))
    BY <1>5, <1>12
  <2>2. QED
    BY <1>2, <1>9, <2>1, DecideStep
<1>13. CASE Refused(f)
  BY <1>2, <1>5, <1>9, <1>13, RefusedStep
<1>14. QED
  BY <1>7, <1>10, <1>11, <1>12, <1>13

(* The command is looked at again after a wait or after the error was read.*)
LEMMA CheckedStep ==
    ASSUME ReleaseInv, Checked \/ Recheck
    PROVE  ReleaseInv'
<1>1. /\ stack # <<>> /\ Head(stack) = stack[1] /\ IsStack(stack)
      /\ Head(stack)[1] \in {"checked", "recheck"} /\ UNCHANGED <<drive, zft>>
      /\ incidents \in Nat
  BY TopFrame DEF Checked, Recheck, Here, ReleaseInv, Fields
<1> DEFINE c == stack[1][2]
<1> DEFINE k == ftape.level - 1
<1>2. ftape.level \in {1, 2} /\ k \in Nat /\ Held(stack, k, c)
  BY <1>1, TopHolds DEF Counted
<1>3. Along(ftape, k) /\ Along(Reported(ftape), k)
  BY <1>2 DEF Along, Reported
<1>4. \/ Fine /\ Decide(ftape, c, ret.st)
      \/ Fine /\ Decide(Reported(ftape), c, Status(drive))
      \/ Unheard /\ Refused(ftape)
  BY <1>1 DEF Checked, Recheck, Arg, Fine
<1>5. incidents' \in Nat /\ incidents' >= incidents
  BY <1>1, <1>4 DEF Fine, Unheard, UnheardAt, Fault
<1>6. c # "deselect"
  <2>1. 1 \in 1 .. Len(stack)
    BY <1>1, TopFrame
  <2>2. QED
    BY <1>1, <2>1 DEF ReleaseInv, ClosedInv, CommandsOK
<1>7. Commanding
  BY <1>1, <1>5, <1>6 DEF Commanding, Counted
<1> HIDE DEF c, k
<1>8. CASE Refused(ftape)
  <2>1. k \in Nat /\ Held(stack, k, stack[1][2])
    BY <1>2 DEF c
  <2>2. QED
    BY <1>3, <1>7, <1>8, <2>1, RefusedStep
<1>9. CASE \E st : Decide(ftape, c, st) \/ Decide(Reported(ftape), c, st)
  <2>1. \E g, st : Along(g, k) /\ Decide(g, c, st)
    BY <1>3, <1>9
  <2>2. c = stack[1][2]
    BY DEF c
  <2>3. QED
    BY <1>2, <1>7, <2>1, <2>2, DecideStep
<1>10. QED
  BY <1>4, <1>8, <1>9

(* The drive is sent a command, unless it is one that deselects it.        *)
LEMMA SentStep ==
    ASSUME ReleaseInv, Send, ~Deselecting(stack[1])
    PROVE  ReleaseInv'
<1>1. /\ stack # <<>> /\ Head(stack) = stack[1] /\ IsStack(stack)
      /\ Head(stack)[1] = "send" /\ UNCHANGED zft /\ incidents \in Nat
  BY TopFrame DEF Send, Here, ReleaseInv, Fields
<1>2. Arg = stack[1][2] /\ Arg # "deselect"
  BY <1>1 DEF Arg, Deselecting
<1>3. ftape' = [ftape EXCEPT !.level = @ - 1, !.current = Arg]
  BY DEF Send
<1>4. stack' = Tail(stack) /\ incidents' \in Nat /\ incidents' >= incidents
  BY <1>1 DEF Send, Leave, Fine, Fault
<1>5. drive' = drive \/ drive' = Obey(drive, Arg)
  BY DEF Send
<1>6. Keeps
  <2>1. /\ drive'.kind = drive.kind /\ DOMAIN drive' = DOMAIN drive
        /\ drive'.awake \in BOOLEAN
        /\ drive.kind.wake_up = "none" /\ drive.awake => drive'.awake
    BY <1>2, <1>5, Obeyed DEF ReleaseInv, Fields
  <2>2. QED
    BY <1>1, <1>3, <1>4, <2>1 DEF Keeps, ReleaseInv, Fields
<1>7. Gives(<<>>)
  <2>1. PICK S : stack \in Seq(S)
    BY <1>1 DEF IsStack
  <2>2. stack' = <<>> \o Tail(stack)
    BY <1>1, <1>4, <2>1
  <2>3. QED
    BY <1>1, <2>2, NoFrames DEF Gives
<1>8. Nested(stack', ftape'.level)
  <2>1. Held(stack, ftape.level - 1, stack[1][2])
    BY <1>1, TopHolds DEF Counted
  <2>2. Nested(stack', ftape.level - 1)
    BY <1>1, <1>7, <2>1, HeldNone
  <2>3. ftape'.level = ftape.level - 1
    BY <1>3 DEF ReleaseInv, Fields
  <2>4. QED
    BY <2>2, <2>3
<1>9. stack[1][1] \in Counted \cup {"command", "ready_wait"}
  BY <1>1 DEF Counted
<1>10. QED
  BY <1>6, <1>7, <1>8, <1>9, NoFrames, Inner

(* A command that deselects the drive is not restricted.                   *)
LEMMA DeselectCommand ==
    ASSUME ReleaseInv, Command, Deselecting(stack[1])
    PROVE  ReleaseInv'
<1> DEFINE f == <<"send", "deselect">>
<1> DEFINE fs == <<f>>
<1>1. /\ stack # <<>> /\ Head(stack) = stack[1] /\ IsStack(stack)
      /\ Head(stack)[1] = "command" /\ UNCHANGED <<drive, zft>>
      /\ Len(stack) \in Nat \ {0} /\ ClosedInv /\ Fields /\ incidents \in Nat
  BY TopFrame DEF Command, Here, ReleaseInv, Fields
<1>2. Arg = "deselect" /\ stack[1][2] = "deselect"
  BY <1>1 DEF Arg, Deselecting
<1>3. ~Restricted("deselect")
  BY DEF Restricted, Interrupts, qic117_cmds, Row
<1>4. ftape.level = 0 /\ Calm(stack, 2)
  <2>1. Held(stack, ftape.level, "deselect")
    BY <1>1, <1>2, TopHolds
  <2>2. QED
    BY <2>1 DEF Held
<1>5. ftape' = [ftape EXCEPT !.level = 1] /\ Fine /\ Goto("send", "deselect")
  BY <1>2, <1>3, <1>4 DEF Command
<1>6. Keeps /\ Fields'
  <2>1. Keeps
    BY <1>1, <1>5 DEF Keeps, Fields, Fine
  <2>2. QED
    BY <1>1, <2>1, KeepsFields
<1>7. f[1] = "send" /\ f[2] = "deselect"
  OBVIOUS
<1> HIDE DEF f
<1>8. IsStack(fs) /\ Len(fs) = 1 /\ fs[1] = f
  BY OneFrame
<1>9. stack' = fs \o Tail(stack)
  BY <1>5 DEF f, Goto, Frame
<1> HIDE DEF fs
<1>10. Gives(fs)
  BY <1>1, <1>8, <1>9 DEF Gives
<1>11. \A i \in 1 .. Len(fs) : i = 1 /\ fs[i] = f
  BY <1>8
<1>12. Len(stack) > 1 => May(stack[1], stack[2])
  <2>1. Len(stack) > 1 => 1 \in 1 .. Len(stack) - 1 /\ 1 + 1 = 2
    BY <1>1
  <2>2. QED
    BY <1>1, <2>1 DEF ClosedInv, Stacked
<1>13. Stacked(stack)'
  <2>1. Len(stack) > 1 => May(f, stack[2]) /\ f[1] # "close_1"
    BY <1>1, <1>2, <1>7, <1>12 DEF May, Deselecting, Chain
  <2>2. \A i \in 1 .. Len(fs) - 1 : May(fs[i], fs[i + 1]) /\ fs[i][1] # "close_1"
    BY <1>8
  <2>3. QED
    BY <1>1, <1>8, <1>10, <2>1, <2>2, GivesStacked DEF ClosedInv
<1>14. Nested(stack, ftape.level)'
  <2>1. Held(stack, 0, "deselect")
    BY <1>4 DEF Held
  <2>2. Nested(stack', 0 + 1)
    BY <1>1, <1>7, <1>8, <1>10, <2>1, HeldOne
  <2>3. ftape'.level = 0 + 1
    BY <1>1, <1>5 DEF Fields
  <2>4. QED
    BY <2>2, <2>3
<1>15. ~(Closed /\ Len(stack) = 1)
  BY <1>1 DEF ClosedInv, Bottom
<1>16. Bottom'
  BY <1>1, <1>10, <1>15, GivesBottom DEF ClosedInv
<1>17. CommandsOK'
  <2>1. 1 \in 1 .. Len(stack)
    BY <1>1
  <2>2. ~Bare => ftape.wake_up \in {"colorado", "mountain"}
    BY <1>1, <2>1 DEF ClosedInv, CommandsOK
  <2>3. ftape'.wake_up = ftape.wake_up /\ drive'.kind = drive.kind /\ zft'.open = zft.open
    BY <1>6 DEF Keeps
  <2>4. \A i \in 1 .. Len(fs) :
               /\ fs[i][1] = "command" /\ fs[i][2] = "format_mode"
                    => "cant_format" \notin drive.kind.flags
               /\ fs[i][1] \in {"checked", "recheck"} => fs[i][2] # "deselect"
               /\ Deselecting(fs[i]) /\ ~Bare
                    => i = 1 /\ ftape'.wake_up \in {"colorado", "mountain"}
    BY <1>7, <1>11, <2>2, <2>3
  <2>5. QED
    BY <1>1, <1>10, <2>3, <2>4, GivesCommands DEF ClosedInv
<1>18. stack' # <<>> /\ Head(stack') = f
  BY <1>1, <1>8, <1>10, GivesTop
<1>19. ASSUME ~Bare PROVE StaysAwake' /\ Asleep'
  <2>1. ~Trying
    BY <1>1 DEF Trying, Here, Tries
  <2>2. StaysAwake
    BY <1>1, <1>19 DEF ClosedInv
  <2>3. StaysAwake'
    BY <1>1, <1>6, <2>1, <2>2 DEF StaysAwake, Keeps, Fields
  <2>4. Asleep'
    BY <1>7, <1>18 DEF Asleep, Here, Idle
  <2>5. QED
    BY <2>3, <2>4
<1>20. IsStack(stack)'
  BY <1>1, <1>10, GivesStack
<1>21. Bare' <=> Bare
  BY <1>1 DEF Bare
<1>22. BareOK'
  BY <1>1, <1>7, <1>10, <1>11, GivesBare DEF ClosedInv, BarePlaces, Counted
<1>23. QED
  BY <1>6, <1>13, <1>14, <1>16, <1>17, <1>19, <1>20, <1>21, <1>22
    DEF ReleaseInv, ClosedInv, Fields

(* The drive is asleep when that command has been sent.                    *)
LEMMA DeselectSent ==
    ASSUME ReleaseInv, Send, Deselecting(stack[1])
    PROVE  ReleaseInv'
<1>1. /\ stack # <<>> /\ Head(stack) = stack[1] /\ IsStack(stack)
      /\ Head(stack)[1] = "send" /\ UNCHANGED zft
      /\ Len(stack) \in Nat \ {0} /\ ClosedInv /\ Fields /\ incidents \in Nat
  BY TopFrame DEF Send, Here, ReleaseInv, Fields
<1>2. Arg = "deselect" /\ stack[1][2] = "deselect"
  BY <1>1 DEF Arg, Deselecting
<1>3. ftape' = [ftape EXCEPT !.level = @ - 1, !.current = "deselect"]
  BY <1>2 DEF Send
<1>4. stack' = Tail(stack) /\ incidents' \in Nat /\ incidents' >= incidents
  BY <1>1 DEF Send, Leave, Fine, Fault
<1>5. /\ drive' = drive \/ drive' = Obey(drive, "deselect")
      /\ incidents' = 0 /\ drive' = drive => ~drive.awake \/ drive = Obey(drive, "deselect")
  BY <1>1, <1>2 DEF Send, Fine, Fault
<1>6. /\ drive'.kind = drive.kind /\ DOMAIN drive' = DOMAIN drive
      /\ drive'.awake \in BOOLEAN /\ (incidents' = 0 => drive'.awake = FALSE)
  <2> DEFINE d == Obey(drive, "deselect")
  <2>1. /\ d.kind = drive.kind /\ DOMAIN d = DOMAIN drive /\ d.awake = FALSE
        /\ drive.awake \in BOOLEAN
    BY <1>1, Obeyed, DeselectObeyed DEF Fields
  <2>2. /\ drive' = drive \/ drive' = d
        /\ incidents' = 0 /\ drive' = drive => ~drive.awake \/ drive = d
    BY <1>5
  <2> HIDE DEF d
  <2>3. CASE drive' = d
    BY <2>1, <2>3
  <2>4. CASE drive' = drive
    BY <2>1, <2>2, <2>4
  <2>5. QED
    BY <2>2, <2>3, <2>4
<1>7. Fields' /\ ftape'.wake_up = ftape.wake_up /\ ftape'.level = ftape.level - 1
  BY <1>1, <1>3, <1>4, <1>6 DEF Fields
<1>8. Gives(<<>>)
  <2>1. PICK S : stack \in Seq(S)
    BY <1>1 DEF IsStack
  <2>2. stack' = <<>> \o Tail(stack)
    BY <1>1, <1>4, <2>1
  <2>3. QED
    BY <1>1, <2>2, NoFrames DEF Gives
<1>9. Len(stack) > 1 => May(stack[1], stack[2])
  <2>1. Len(stack) > 1 => 1 \in 1 .. Len(stack) - 1 /\ 1 + 1 = 2
    BY <1>1
  <2>2. QED
    BY <1>1, <2>1 DEF ClosedInv, Stacked
<1>10. Stacked(stack)'
  BY <1>1, <1>8, NoFrames, GivesStacked DEF ClosedInv
<1>11. Nested(stack, ftape.level)'
  <2>1. Held(stack, ftape.level - 1, "deselect")
    BY <1>1, <1>2, TopHolds DEF Counted
  <2>2. Nested(stack', ftape.level - 1)
    BY <1>1, <1>8, <2>1, HeldNone
  <2>3. QED
    BY <1>7, <2>2
<1>12. ~(Closed /\ Len(stack) = 1)
  BY <1>1 DEF ClosedInv, Bottom
<1>13. Bottom'
  BY <1>1, <1>8, <1>12, NoFrames, GivesBottom DEF ClosedInv
<1>14. CommandsOK'
  BY <1>1, <1>6, <1>8, NoFrames, GivesCommands DEF ClosedInv
<1>15. /\ Len(stack) > 1 => stack' # <<>> /\ Head(stack') = stack[2]
       /\ Len(stack) = 1 => stack' = <<>>
       /\ Len(stack) > 1 \/ Len(stack) = 1
  BY <1>1, <1>8, NoFrames, GivesTop, OneOrMore
<1>16. ASSUME ~Bare PROVE StaysAwake' /\ Asleep'
  <2>1. 1 \in 1 .. Len(stack)
    BY <1>1
  <2>2. ftape.wake_up \in {"colorado", "mountain"}
    BY <1>1, <1>16, <2>1 DEF ClosedInv, CommandsOK
  <2>3. StaysAwake'
    BY <1>7, <2>2 DEF StaysAwake
  <2>4. Quiet'
    BY <1>6, <1>7, <2>2 DEF Quiet
  <2>5. CASE Len(stack) > 1
    <3>1. Head(stack')[1] \notin {"open_1", "close_1", "enable", "sleep"} /\ stack' # <<>>
      BY <1>1, <1>9, <1>15, <2>5 DEF May, Chain
    <3>2. QED
      BY <2>3, <2>4, <3>1 DEF Asleep, Here, Idle
  <2>6. CASE Len(stack) = 1
    <3>1. stack' = <<>> /\ ~Closed'
      BY <1>1, <1>12, <1>15, <2>6 DEF Closed
    <3>2. QED
      BY <2>3, <3>1 DEF Asleep, Here, Idle
  <2>7. QED
    BY <1>15, <2>5, <2>6
<1>17. IsStack(stack)'
  BY <1>1, <1>8, GivesStack
<1>18. Bare' <=> Bare
  BY <1>1 DEF Bare
<1>19. BareOK'
  BY <1>1, <1>8, NoFrames, GivesBare DEF ClosedInv
<1>20. QED
  BY <1>7, <1>10, <1>11, <1>13, <1>14, <1>16, <1>17, <1>18, <1>19
    DEF ReleaseInv, ClosedInv, Fields

(* A parameter may wake the drive up.                                      *)
LEMMA ParameterStep ==
    ASSUME ReleaseInv, Parameter
    PROVE  ReleaseInv'
<1>1. stack # <<>> /\ Head(stack) = stack[1] /\ stack[1][1] = "parameter" /\ IsStack(stack)
  BY TopFrame DEF Parameter, Here, ReleaseInv
<1>2. stack' = Tail(stack)
  BY DEF Parameter, Leave
<1>3. Keeps /\ ftape'.level = ftape.level
  <2>1. drive' = drive \/ drive' = ObeyParameter(drive, Arg.cmd, Arg.value)
    BY DEF Parameter
  <2>2. /\ drive'.kind = drive.kind /\ DOMAIN drive' = DOMAIN drive
        /\ drive'.awake \in BOOLEAN /\ (drive.awake => drive'.awake)
    BY <2>1, ParameterObeyed DEF ReleaseInv, Fields
  <2>3. UNCHANGED <<ftape, zft>> /\ incidents' \in Nat /\ incidents' >= incidents
    BY DEF Parameter, Fine, Fault, ReleaseInv, Fields
  <2>4. QED
    BY <2>2, <2>3 DEF Keeps, ReleaseInv, Fields
<1>4. /\ ~Tries(stack[1])
      /\ stack[1][1] \notin Proper \cup Counted \cup {"command", "ready_wait"}
  BY <1>1 DEF Tries, Proper, Chain, Counted
<1>5. QED
  BY <1>1, <1>2, <1>3, <1>4, FreeLeave

(* mtiocftcmd() sends the method after the command that selects a drive.   *)
LEMMA BareOneStep ==
    ASSUME ReleaseInv, Bare1
    PROVE  ReleaseInv'
<1>1. /\ stack # <<>> /\ Head(stack) = stack[1] /\ stack[1][1] = "bare_1" /\ IsStack(stack)
      /\ Keeps /\ ftape'.level = ftape.level
  BY TopFrame, UnchangedKeeps DEF Bare1, Here, ReleaseInv
<1>2. /\ ~Tries(stack[1])
      /\ stack[1][1] \notin Proper \cup Counted \cup {"command", "ready_wait"}
  BY <1>1 DEF Tries, Proper, Chain, Counted
<1>3. stack' = Tail(stack) \/ \E a : stack' = <<<<"parameter", a>>>> \o Tail(stack)
  BY DEF Bare1, End, Leave, Goto, Frame
<1>4. CASE stack' = Tail(stack)
  BY <1>1, <1>2, <1>4, FreeLeave
<1>5. CASE \E a : stack' = <<<<"parameter", a>>>> \o Tail(stack)
  <2>1. PICK a : stack' = <<<<"parameter", a>>>> \o Tail(stack)
    BY <1>5
  <2> DEFINE f == <<"parameter", a>>
  <2>2. f[1] = "parameter" /\ Free(f)
    BY PlainFrames
  <2>3. stack' = <<f>> \o Tail(stack)
    BY <2>1
  <2> HIDE DEF f
  <2>4. Len(<<f>>) = 1 /\ <<f>>[1] = f /\ FreeRun(<<f>>)
    BY <2>2, OneFrame, FreeOne
  <2>5. \A i \in 1 .. 1 : i = 1
    OBVIOUS
  <2>6. \A i \in 1 .. Len(<<f>>) : Bare => <<f>>[i][1] \in BarePlaces
    BY <2>2, <2>4, <2>5 DEF BarePlaces
  <2>7. QED
    BY <1>1, <1>2, <2>3, <2>4, <2>6, FreeStep
<1>6. QED
  BY <1>3, <1>4, <1>5

(* ftape_ready_wait() returns, or waits on.                                *)
LEMMA ReadyNone ==
    ASSUME ReleaseInv, Gives(<<>>), stack[1][1] = "ready_wait"
    PROVE  Nested(stack', ftape.level)
<1>1. /\ Len(stack) \in Nat \ {0} /\ Len(stack') = Len(stack) - 1
      /\ \A i \in 2 .. Len(stack) : stack'[i - 1] = stack[i]
  BY GivesStack, NoFrames DEF ReleaseInv
<1>2. Many(<<>>, 0) /\ IsStack(stack)
  BY NoFrames DEF Many, ReleaseInv
<1>3. \/ Calm(stack, 2) /\ ftape.level = 0
      \/ Len(stack) >= 2 /\ Calm(stack, 3) /\ ftape.level = 1 /\ stack[2][1] = "checked"
      \/ /\ Len(stack) >= 3 /\ Calm(stack, 4) /\ ftape.level = 2
         /\ stack[2][1] = "checked" /\ stack[2][2] = "error" /\ stack[3][1] = "recheck"
  BY <1>1 DEF ReleaseInv, ClosedInv, Nested, Calm, Counted
<1>4. CASE Calm(stack, 2) /\ ftape.level = 0
  <2>1. Calm(stack', 1)
    BY <1>2, <1>4, StillCalm
  <2>2. QED
    BY <1>4, <2>1 DEF Nested
<1>5. CASE Len(stack) >= 2 /\ Calm(stack, 3) /\ ftape.level = 1 /\ stack[2][1] = "checked"
  <2>1. Calm(stack', 2)
    BY <1>2, <1>5, StillCalm
  <2>2. 2 \in 2 .. Len(stack) /\ Len(stack') >= 1 /\ 2 - 1 = 1
    BY <1>1, <1>5
  <2>3. stack'[1] = stack[2]
    BY <1>1, <2>2
  <2>4. QED
    BY <1>5, <2>1, <2>2, <2>3 DEF Nested, Counted
<1>6. CASE /\ Len(stack) >= 3 /\ Calm(stack, 4) /\ ftape.level = 2
           /\ stack[2][1] = "checked" /\ stack[2][2] = "error" /\ stack[3][1] = "recheck"
  <2>1. Calm(stack', 3)
    BY <1>2, <1>6, StillCalm
  <2>2. /\ 2 \in 2 .. Len(stack) /\ 3 \in 2 .. Len(stack) /\ Len(stack') >= 2
        /\ 2 - 1 = 1 /\ 3 - 1 = 2
    BY <1>1, <1>6
  <2>3. stack'[1] = stack[2] /\ stack'[2] = stack[3]
    BY <1>1, <2>2
  <2>4. QED
    BY <1>6, <2>1, <2>2, <2>3 DEF Nested
<1>7. QED
  BY <1>3, <1>4, <1>5, <1>6

(* It waits on.                                                            *)
LEMMA ReadyOne ==
    ASSUME ReleaseInv, NEW fs, Gives(fs), Len(fs) = 1, fs[1][1] = "ready_wait",
           stack[1][1] = "ready_wait"
    PROVE  Nested(stack', ftape.level)
<1>1. Many(fs, 1) /\ IsStack(stack)
  BY DEF Many, ReleaseInv
<1>2. /\ Len(stack) \in Nat \ {0} /\ Len(stack') = Len(stack) /\ stack'[1] = fs[1]
      /\ \A i \in 2 .. Len(stack) : stack'[i] = stack[i]
  <2>1. /\ Len(stack) \in Nat \ {0} /\ Len(stack') = Len(fs) + Len(stack) - 1
        /\ \A i \in 1 .. Len(fs) : stack'[i] = fs[i]
        /\ \A i \in 2 .. Len(stack) : stack'[Len(fs) + i - 1] = stack[i]
    BY <1>1, GivesStack
  <2>2. \A i \in 2 .. Len(stack) : Len(fs) + i - 1 = i
    BY <2>1
  <2>3. QED
    BY <2>1, <2>2
<1>3. \/ Calm(stack, 2) /\ ftape.level = 0
      \/ Len(stack) >= 2 /\ Calm(stack, 3) /\ ftape.level = 1 /\ stack[2][1] = "checked"
      \/ /\ Len(stack) >= 3 /\ Calm(stack, 4) /\ ftape.level = 2
         /\ stack[2][1] = "checked" /\ stack[2][2] = "error" /\ stack[3][1] = "recheck"
  BY <1>2 DEF ReleaseInv, ClosedInv, Nested, Calm, Counted
<1>4. CASE Calm(stack, 2) /\ ftape.level = 0
  <2>1. Calm(stack', 1)
    BY <1>2, <1>4 DEF Calm, Counted
  <2>2. QED
    BY <1>4, <2>1 DEF Nested
<1>5. CASE Len(stack) >= 2 /\ Calm(stack, 3) /\ ftape.level = 1 /\ stack[2][1] = "checked"
  <2>1. Calm(stack', 3)
    BY <1>2, <1>5 DEF Calm
  <2>2. 2 \in 2 .. Len(stack)
    BY <1>2, <1>5
  <2>3. QED
    BY <1>2, <1>5, <2>1, <2>2 DEF Nested
<1>6. CASE /\ Len(stack) >= 3 /\ Calm(stack, 4) /\ ftape.level = 2
           /\ stack[2][1] = "checked" /\ stack[2][2] = "error" /\ stack[3][1] = "recheck"
  <2>1. Calm(stack', 4)
    BY <1>2, <1>6 DEF Calm
  <2>2. 2 \in 2 .. Len(stack) /\ 3 \in 2 .. Len(stack)
    BY <1>2, <1>6
  <2>3. QED
    BY <1>2, <1>6, <2>1, <2>2 DEF Nested
<1>7. QED
  BY <1>3, <1>4, <1>5, <1>6

(* A step of ftape_ready_wait().                                           *)
LEMMA ReadyStep ==
    ASSUME ReleaseInv, ReadyWait
    PROVE  ReleaseInv'
<1>1. /\ stack # <<>> /\ Head(stack) = stack[1] /\ IsStack(stack)
      /\ stack[1][1] = "ready_wait" /\ UNCHANGED <<drive, zft>> /\ Fields
  BY TopFrame DEF ReadyWait, Here, ReleaseInv
<1>2. UNCHANGED ftape \/ ftape' = Reported(ftape)
  BY DEF ReadyWait, RawStatus
<1>3. incidents' \in Nat /\ incidents' >= incidents
  BY <1>1 DEF ReadyWait, RawStatus, Fine, Fault, Unheard, UnheardAt, Fields
<1>4. Keeps /\ ftape'.level = ftape.level
  BY <1>1, <1>2, <1>3 DEF Keeps, Reported, Fields
<1>5. stack' = Tail(stack) \/ \E left : stack' = <<<<"ready_wait", left>>>> \o Tail(stack)
  BY DEF ReadyWait, RawStatus, Leave, Goto, Frame
<1>6. ~Deselecting(stack[1]) /\ stack[1][1] \in Counted \cup {"command", "ready_wait"}
  BY <1>1 DEF Deselecting
<1>7. CASE stack' = Tail(stack)
  <2>1. Gives(<<>>)
    <3>1. PICK S : stack \in Seq(S)
      BY <1>1 DEF IsStack
    <3>2. stack' = <<>> \o Tail(stack)
      BY <1>1, <1>7, <3>1
    <3>3. QED
      BY <1>1, <3>2, NoFrames DEF Gives
  <2>2. Nested(stack', ftape'.level)
    BY <1>1, <1>4, <2>1, ReadyNone
  <2>3. QED
    BY <1>4, <1>6, <2>1, <2>2, NoFrames, Inner
<1>8. CASE \E left : stack' = <<<<"ready_wait", left>>>> \o Tail(stack)
  <2>1. PICK left : stack' = <<<<"ready_wait", left>>>> \o Tail(stack)
    BY <1>8
  <2> DEFINE f == <<"ready_wait", left>>
  <2>2. f[1] = "ready_wait"
    OBVIOUS
  <2>3. stack' = <<f>> \o Tail(stack)
    BY <2>1
  <2> HIDE DEF f
  <2>4. IsStack(<<f>>) /\ Len(<<f>>) = 1 /\ <<f>>[1] = f
    BY OneFrame
  <2>5. Gives(<<f>>)
    BY <1>1, <2>3, <2>4 DEF Gives
  <2>6. Nested(stack', ftape'.level)
    BY <1>1, <1>4, <2>2, <2>4, <2>5, ReadyOne
  <2>7. ASSUME NEW i \in 1 .. 1 PROVE <<f>>[i][1] = "ready_wait"
    <3>1. i = 1
      OBVIOUS
    <3>2. QED
      BY <2>2, <2>4, <3>1
  <2>8. QED
    BY <1>4, <1>6, <2>4, <2>5, <2>6, <2>7, Inner DEF Counted
<1>9. QED
  BY <1>5, <1>7, <1>8

-----------------------------------------------------------------------------
(* Waking the drive up                                                      *)

(* What says that a drive that needs no waking up stays awake.             *)
LEMMA StillAwake ==
    ASSUME ReleaseInv, ~Bare, ~Trying, drive'.kind = drive.kind,
           drive.kind.wake_up = "none" /\ drive.awake => drive'.awake,
           ftape'.wake_up = "none" => ftape.wake_up = "none",
           incidents' \in Nat, incidents' >= incidents
    PROVE  StaysAwake'
<1>1. StaysAwake /\ incidents \in Nat
  BY DEF ReleaseInv, ClosedInv, Fields
<1>2. incidents' = 0 => incidents = 0
  BY <1>1
<1>3. QED
  BY <1>1, <1>2 DEF StaysAwake

(* ftape_wakeup_drive() *)
LEMMA WakeupStep ==
    ASSUME ReleaseInv, Wakeup
    PROVE  ReleaseInv'
<1>1. /\ stack # <<>> /\ Head(stack) = stack[1] /\ IsStack(stack) /\ stack[1][1] = "wakeup"
      /\ Arg = stack[1][2] /\ UNCHANGED <<ftape, zft, incidents>> /\ Fields /\ ClosedInv
      /\ Len(stack) \in Nat \ {0}
  BY TopFrame DEF Wakeup, Here, Arg, ReleaseInv
<1>2. stack[1][1] \notin Proper \cup BarePlaces /\ ~Deselecting(stack[1])
  BY <1>1 DEF Proper, Chain, BarePlaces, Counted, Deselecting
<1>3. ~Bare
  BY <1>1, <1>2, NotBare DEF ClosedInv
<1>4. "wakeup_1" \in Plain
  BY DEF Plain
<1>5. CASE Arg # "none"
  <2>1. PlainTop
    BY <1>1, <1>2, <1>5 DEF PlainTop, Tries
  <2>2. PlainStep
    <3>1. /\ Free(<<"command", "select">>) /\ Free(<<"wakeup_1", Arg>>)
          /\ Free(<<"wakeup_2", Arg>>)
      BY <1>4, CommandFrames, PlainFrames
    <3>2. QED
      BY <1>5, <3>1, CallStep, GotoStep DEF Wakeup
  <2>3. drive' = drive \/ drive' = [drive EXCEPT !.awake = @ \/ drive.kind.wake_up = "motor"]
    BY <1>5 DEF Wakeup
  <2>4. Keeps
    <3>1. ASSUME drive' = drive PROVE Keeps
      BY <1>1, <3>1 DEF Keeps, Fields
    <3>2. ASSUME drive' = [drive EXCEPT !.awake = @ \/ drive.kind.wake_up = "motor"]
          PROVE  Keeps
      BY <1>1, <3>2 DEF Keeps, Fields
    <3>3. QED
      BY <2>3, <3>1, <3>2
  <2>5. QED
    BY <1>1, <2>1, <2>2, <2>4, Plainly
<1>6. CASE Arg = "none"
  <2> DEFINE f == <<"wakeup_2", Arg>>
  <2>1. stack' = <<f>> \o Tail(stack) /\ drive' = drive
    BY <1>6 DEF Wakeup, Goto, Frame
  <2>2. f[1] = "wakeup_2" /\ f[2] = "none" /\ Free(f)
    BY <1>6, PlainFrames
  <2> HIDE DEF f
  <2>3. IsStack(<<f>>) /\ Len(<<f>>) = 1 /\ <<f>>[1] = f
    BY OneFrame
  <2>4. Gives(<<f>>)
    BY <1>1, <2>1, <2>3 DEF Gives
  <2>5. \A i \in 1 .. Len(<<f>>) : i = 1 /\ <<f>>[i] = f
    BY <2>3
  <2>6. Keeps /\ ftape'.level = ftape.level
    BY <1>1, <2>1 DEF Keeps, Fields
  <2>7. Calm(stack, 2) /\ ftape.level = 0
    BY <1>1, PlainIsCalm DEF ClosedInv, Counted
  <2>8. Calm(stack, 1)'
    BY <1>1, <2>2, <2>4, <2>5, <2>7, GivesCalm DEF Free
  <2>9. Nested(stack, ftape.level)'
    BY <2>6, <2>7, <2>8 DEF Nested
  <2>10. CommandsOK'
    BY <1>1, <2>1, <2>2, <2>4, <2>5, GivesCommands DEF ClosedInv, Deselecting
  <2>11. StaysAwake'
    <3>1. CASE Trying
      <4>1. Len(stack) >= 2 /\ stack[2][1] = "activate_got"
        BY <1>1, <3>1 DEF Trying, Here
      <4>2. /\ Len(stack') = Len(<<f>>) + Len(stack) - 1
            /\ \A i \in 1 .. Len(<<f>>) : stack'[i] = <<f>>[i]
            /\ \A i \in 2 .. Len(stack) : stack'[Len(<<f>>) + i - 1] = stack[i]
        BY <1>1, <2>4, GivesStack
      <4>3. 1 \in 1 .. Len(<<f>>) /\ 2 \in 2 .. Len(stack) /\ Len(<<f>>) + 2 - 1 = 2
        BY <1>1, <2>3, <4>1
      <4>4. stack'[1] = f /\ stack'[2] = stack[2] /\ Len(stack') = Len(stack)
        BY <1>1, <2>3, <4>2, <4>3
      <4>5. Trying'
        BY <2>2, <4>1, <4>4 DEF Trying, Tries
      <4>6. QED
        BY <4>5 DEF StaysAwake
    <3>2. CASE ~Trying
      BY <1>1, <1>3, <2>1, <3>2, StillAwake DEF Fields
    <3>3. QED
      BY <3>1, <3>2
  <2>12. \A i \in 1 .. Len(<<f>>) : <<f>>[i][1] \notin Proper
    BY <2>2, <2>5 DEF Free
  <2>13. QED
    BY <1>2, <1>3, <2>4, <2>6, <2>9, <2>10, <2>11, <2>12, Calmly
<1>7. QED
  BY <1>5, <1>6

(* The end of ftape_wakeup_drive(): a status is asked for.                 *)
LEMMA WakeupTwoStep ==
    ASSUME ReleaseInv, Wakeup2
    PROVE  ReleaseInv'
<1>1. /\ stack # <<>> /\ Head(stack) = stack[1] /\ IsStack(stack) /\ stack[1][1] = "wakeup_2"
      /\ Arg = stack[1][2] /\ UNCHANGED zft /\ Fields /\ ClosedInv
      /\ Len(stack) \in Nat \ {0}
  BY TopFrame DEF Wakeup2, Here, Arg, ReleaseInv
<1>2. stack[1][1] \notin Proper \cup BarePlaces /\ ~Deselecting(stack[1])
  BY <1>1 DEF Proper, Chain, BarePlaces, Counted, Deselecting
<1>3. ~Bare
  BY <1>1, <1>2, NotBare DEF ClosedInv
<1>4. /\ stack' = Tail(stack)
      /\ UNCHANGED ftape \/ ftape' = Reported(ftape)
      /\ incidents' \in Nat /\ incidents' >= incidents
  BY <1>1 DEF Wakeup2, RawStatus, Leave, Unheard, UnheardAt, Fine, Fault, Fields
<1>5. drive' = drive \/ drive' = MotorOff(Arg)
  BY DEF Wakeup2
<1>6. Keeps /\ ftape'.level = ftape.level
  <2>1. /\ drive'.kind = drive.kind /\ DOMAIN drive' = DOMAIN drive
        /\ drive'.awake \in BOOLEAN
        /\ drive.kind.wake_up = "none" /\ drive.awake => drive'.awake
    BY <1>1, <1>5 DEF MotorOff, Fields
  <2>2. /\ DOMAIN ftape' = DOMAIN ftape /\ ftape'.wake_up = ftape.wake_up
        /\ ftape'.flags = ftape.flags /\ ftape'.level = ftape.level
    <3>1. ASSUME ftape' = Reported(ftape)
          PROVE  /\ DOMAIN ftape' = DOMAIN ftape /\ ftape'.wake_up = ftape.wake_up
                 /\ ftape'.flags = ftape.flags /\ ftape'.level = ftape.level
      BY <1>1, <3>1 DEF Reported, Fields
    <3>2. QED
      BY <1>4, <3>1
  <2>3. QED
    BY <1>1, <1>4, <2>1, <2>2 DEF Keeps, Fields
<1>7. CASE Arg # "none"
  BY <1>1, <1>2, <1>4, <1>6, <1>7, FreeLeave DEF Tries, BarePlaces
<1>8. CASE Arg = "none"
  <2>1. Gives(<<>>)
    <3>1. PICK S : stack \in Seq(S)
      BY <1>1 DEF IsStack
    <3>2. stack' = <<>> \o Tail(stack)
      BY <1>1, <1>4, <3>1
    <3>3. QED
      BY <1>1, <3>2, NoFrames DEF Gives
  <2>2. drive' = drive
    BY <1>8 DEF Wakeup2, MotorOff
  <2>3. Calm(stack, 2) /\ ftape.level = 0
    BY <1>1, PlainIsCalm DEF ClosedInv, Counted
  <2>4. Calm(stack, 1)'
    BY <1>1, <2>1, <2>3, NoFrames, GivesCalm
  <2>5. Nested(stack, ftape.level)'
    BY <1>6, <2>3, <2>4 DEF Nested
  <2>6. CommandsOK'
    BY <1>1, <2>1, <2>2, NoFrames, GivesCommands DEF ClosedInv
  <2>7. StaysAwake'
    <3>1. CASE Trying
      <4>1. Len(stack) >= 2 /\ stack[2][1] = "activate_got"
        BY <1>1, <3>1 DEF Trying, Here
      <4>2. stack' # <<>> /\ Head(stack') = stack[2]
        BY <1>1, <2>1, <4>1, NoFrames, GivesTop
      <4>3. ret'.res # "ok" \/ drive.awake
        BY DEF Wakeup2, RawStatus, Heard, HeardAt, Leave, Result
      <4>4. CASE ret'.res # "ok"
        <5>1. Trying'
          BY <4>1, <4>2, <4>4 DEF Trying, Here, Failed
        <5>2. QED
          BY <5>1 DEF StaysAwake
      <4>5. CASE drive.awake
        BY <2>2, <4>5 DEF StaysAwake
      <4>6. QED
        BY <4>3, <4>4, <4>5
    <3>2. CASE ~Trying
      BY <1>3, <1>4, <1>6, <2>2, <3>2, StillAwake DEF Keeps
    <3>3. QED
      BY <3>1, <3>2
  <2>8. \A i \in 1 .. Len(<<>>) : <<>>[i][1] \notin Proper /\ (Bare => <<>>[i][1] \in BarePlaces)
    <3>1. \A i \in 1 .. 0 : <<>>[i][1] \notin Proper /\ (Bare => <<>>[i][1] \in BarePlaces)
      OBVIOUS
    <3>2. QED
      BY <3>1, NoFrames
  <2>9. QED
    BY <1>2, <1>6, <2>1, <2>5, <2>6, <2>7, <2>8, Calmly
<1>9. QED
  BY <1>7, <1>8

-----------------------------------------------------------------------------
(* Opening and closing: the frames a promise depends on                     *)

(* A frame that holds no level and is neither of the two commands.         *)
Mild(f) ==
    /\ f[1] \notin Counted
    /\ f[1] = "command" => f[2] \notin {"deselect", "format_mode"}

(* The step changes neither the drive's kind nor the level, nor who has    *)
(* the device open.                                                        *)
Stays ==
    /\ Fields' /\ ftape'.level = ftape.level /\ drive'.kind = drive.kind
    /\ zft'.open = zft.open

(* Frames that a promise depends on take the place of the one on top.      *)
LEMMA Placed ==
    ASSUME ReleaseInv, Stays, NEW fs, Gives(fs), stack[1][1] \notin BarePlaces,
           \A i \in 1 .. Len(fs) : Mild(fs[i]),
           \A i \in 1 .. Len(fs) - 1 : May(fs[i], fs[i + 1]) /\ fs[i][1] # "close_1",
           Len(fs) > 0 /\ Len(stack) > 1 =>
               May(fs[Len(fs)], stack[2]) /\ fs[Len(fs)][1] # "close_1",
           Closed /\ Len(stack) = 1 /\ Len(fs) > 0 =>
               fs[Len(fs)][1] \in {"open_1", "open_2", "detach", "detached"},
           StaysAwake', Asleep'
    PROVE  ReleaseInv'
<1>1. IsStack(stack) /\ stack # <<>> /\ ClosedInv
  BY DEF ReleaseInv, Gives
<1>2. ~Bare
  BY <1>1, NotBare DEF ClosedInv
<1>3. Stacked(stack)'
  BY <1>1, GivesStacked DEF ClosedInv
<1>4. Calm(stack, 2) /\ ftape.level = 0
  BY <1>1, PlainIsCalm DEF ClosedInv, BarePlaces
<1>5. Calm(stack, 1)'
  BY <1>1, <1>4, GivesCalm DEF Mild
<1>6. Nested(stack, ftape.level)'
  BY <1>4, <1>5 DEF Nested, Stays
<1>7. Bottom'
  BY <1>1, GivesBottom DEF ClosedInv, Stays
<1>8. CommandsOK'
  <2>1. \A i \in 1 .. Len(fs) :
            /\ ~(fs[i][1] = "command" /\ fs[i][2] = "format_mode")
            /\ fs[i][1] \notin {"checked", "recheck"} /\ ~Deselecting(fs[i])
    BY DEF Mild, Deselecting, Counted
  <2>2. QED
    BY <1>1, <2>1, GivesCommands DEF ClosedInv, Stays
<1>9. BareOK'
  BY <1>1, <1>2, GivesBare DEF ClosedInv, Stays
<1>10. IsStack(stack)'
  BY <1>1, GivesStack
<1>11. QED
  BY <1>3, <1>6, <1>7, <1>8, <1>9, <1>10 DEF ReleaseInv, ClosedInv, Stays, Fields

(* What may be under the frame on top.                                     *)
LEMMA Under ==
    ASSUME ReleaseInv, stack # <<>>
    PROVE  /\ Head(stack) = stack[1] /\ Len(stack) \in Nat \ {0} /\ IsStack(stack)
           /\ Len(stack) > 1 => May(stack[1], stack[2]) /\ stack[1][1] # "close_1"
           /\ Closed /\ Len(stack) = 1 =>
                stack[1][1] \in {"open_1", "open_2", "detach", "detached"}
           /\ Len(stack) > 1 \/ Len(stack) = 1
<1>1. Head(stack) = stack[1] /\ Len(stack) \in Nat \ {0} /\ IsStack(stack) /\ ClosedInv
  BY TopFrame DEF ReleaseInv
<1>2. ASSUME Len(stack) > 1 PROVE May(stack[1], stack[2]) /\ stack[1][1] # "close_1"
  <2>1. 1 \in 1 .. Len(stack) - 1 /\ 1 + 1 = 2
    BY <1>1, <1>2
  <2>2. QED
    BY <1>1, <2>1 DEF ClosedInv, Stacked
<1>3. ASSUME Closed, Len(stack) = 1
      PROVE  stack[1][1] \in {"open_1", "open_2", "detach", "detached"}
  BY <1>1, <1>3 DEF ClosedInv, Bottom
<1>4. Len(stack) > 1 \/ Len(stack) = 1
  BY <1>1, OneOrMore
<1>5. QED
  BY <1>1, <1>2, <1>3, <1>4

(* The function on top goes on at another place, ...                       *)
LEMMA GoesOn ==
    ASSUME ReleaseInv, Stays, stack # <<>>, stack[1][1] \notin BarePlaces,
           NEW p, NEW a, stack' = <<<<p, a>>>> \o Tail(stack),
           Mild(<<p, a>>), p \notin {"close_1", "sleep", "detached", "enable"},
           Closed /\ p = "open_1" => a = TRUE,
           Len(stack) > 1 => May(<<p, a>>, stack[2]),
           Closed /\ Len(stack) = 1 => p \in {"open_1", "open_2", "detach", "detached"},
           p = "activate_all" \/ StaysAwake'
    PROVE  ReleaseInv'
<1> DEFINE f == <<p, a>>
<1>1. f[1] = p /\ f[2] = a
  OBVIOUS
<1>2. stack' = <<f>> \o Tail(stack) /\ Mild(f) /\ (Len(stack) > 1 => May(f, stack[2]))
  OBVIOUS
<1> HIDE DEF f
<1>3. IsStack(<<f>>) /\ Len(<<f>>) = 1 /\ <<f>>[1] = f /\ IsStack(stack)
  BY OneFrame DEF ReleaseInv
<1>4. Gives(<<f>>)
  BY <1>2, <1>3 DEF Gives
<1>5. stack' # <<>> /\ Head(stack') = f
  BY <1>3, <1>4, GivesTop
<1>6. StaysAwake'
  <2>1. ASSUME p = "activate_all" PROVE Trying'
    BY <1>1, <1>5, <2>1 DEF Trying, Here
  <2>2. QED
    BY <2>1 DEF StaysAwake
<1>7. Asleep'
  <2>1. Closed' <=> Closed
    BY DEF Stays, Closed
  <2>2. QED
    BY <1>1, <1>5, <2>1 DEF Asleep, Here, Idle, Arg
<1>8. \A i \in 1 .. Len(<<f>>) : i = 1 /\ <<f>>[i] = f /\ Mild(<<f>>[i])
  BY <1>2, <1>3
<1>9. \A i \in 1 .. Len(<<f>>) - 1 :
          May(<<f>>[i], <<f>>[i + 1]) /\ <<f>>[i][1] # "close_1"
  BY <1>3
<1>10. Len(<<f>>) > 0 /\ Len(stack) > 1 =>
          May(<<f>>[Len(<<f>>)], stack[2]) /\ <<f>>[Len(<<f>>)][1] # "close_1"
  BY <1>1, <1>2, <1>3
<1>11. Closed /\ Len(stack) = 1 /\ Len(<<f>>) > 0 =>
          <<f>>[Len(<<f>>)][1] \in {"open_1", "open_2", "detach", "detached"}
  BY <1>1, <1>3
<1>12. QED
  BY <1>4, <1>6, <1>7, <1>8, <1>9, <1>10, <1>11, Placed

(* ... calls another, ...                                                  *)
LEMMA CallsOn ==
    ASSUME ReleaseInv, Stays, stack # <<>>, stack[1][1] \notin BarePlaces,
           NEW p, NEW a, NEW q, NEW b,
           stack' = (<<<<p, a>>>> \o <<<<q, b>>>>) \o Tail(stack),
           Mild(<<p, a>>), Mild(<<q, b>>),
           p \notin {"close_1", "detached", "enable", "open_1"}, q # "close_1",
           p = "sleep" => a = ftape'.wake_up,
           May(<<p, a>>, <<q, b>>),
           Len(stack) > 1 => May(<<q, b>>, stack[2]),
           Closed /\ Len(stack) = 1 => q \in {"open_1", "open_2", "detach", "detached"},
           (p = "wakeup" /\ a = "none" /\ q = "activate_got") \/ StaysAwake'
    PROVE  ReleaseInv'
<1> DEFINE f == <<p, a>>
<1> DEFINE g == <<q, b>>
<1>1. f[1] = p /\ f[2] = a /\ g[1] = q /\ g[2] = b
  OBVIOUS
<1>2. /\ stack' = (<<f>> \o <<g>>) \o Tail(stack) /\ Mild(f) /\ Mild(g) /\ May(f, g)
      /\ Len(stack) > 1 => May(g, stack[2])
  OBVIOUS
<1> HIDE DEF f, g
<1> DEFINE fs == <<f>> \o <<g>>
<1>3. IsStack(fs) /\ Len(fs) = 2 /\ fs[1] = f /\ fs[2] = g /\ IsStack(stack)
  BY TwoFrames DEF ReleaseInv
<1>4. Gives(fs)
  BY <1>2, <1>3 DEF Gives
<1> HIDE DEF fs
<1>5. stack' # <<>> /\ Head(stack') = f
  BY <1>3, <1>4, GivesTop
<1>6. Len(stack') >= 2 /\ stack'[1] = f /\ stack'[2] = g
  <2>1. /\ Len(stack) \in Nat \ {0} /\ Len(stack') = Len(fs) + Len(stack) - 1
        /\ \A i \in 1 .. Len(fs) : stack'[i] = fs[i]
    BY <1>3, <1>4, GivesStack
  <2>2. 1 \in 1 .. Len(fs) /\ 2 \in 1 .. Len(fs)
    BY <1>3
  <2>3. QED
    BY <1>3, <2>1, <2>2
<1>7. StaysAwake'
  <2>1. ASSUME p = "wakeup", a = "none", q = "activate_got" PROVE Trying'
    BY <1>1, <1>6, <2>1 DEF Trying, Tries
  <2>2. QED
    BY <2>1 DEF StaysAwake
<1>8. Asleep'
  BY <1>1, <1>5 DEF Asleep, Here, Idle, Arg
<1>9. \A i \in 1 .. Len(fs) : Mild(fs[i])
  <2>1. SUFFICES ASSUME NEW i \in 1 .. Len(fs) PROVE Mild(fs[i])
    OBVIOUS
  <2>2. i = 1 \/ i = 2
    BY <1>3
  <2>3. CASE i = 1
    BY <1>2, <1>3, <2>3
  <2>4. CASE i = 2
    BY <1>2, <1>3, <2>4
  <2>5. QED
    BY <2>2, <2>3, <2>4
<1>10. \A i \in 1 .. Len(fs) - 1 : May(fs[i], fs[i + 1]) /\ fs[i][1] # "close_1"
  <2>1. \A i \in 1 .. Len(fs) - 1 : i = 1 /\ i + 1 = 2
    BY <1>3
  <2>2. QED
    BY <1>1, <1>2, <1>3, <2>1
<1>11. Len(fs) > 0 /\ Len(stack) > 1 =>
          May(fs[Len(fs)], stack[2]) /\ fs[Len(fs)][1] # "close_1"
  BY <1>1, <1>2, <1>3
<1>12. Closed /\ Len(stack) = 1 /\ Len(fs) > 0 =>
          fs[Len(fs)][1] \in {"open_1", "open_2", "detach", "detached"}
  BY <1>1, <1>3
<1>13. QED
  BY <1>4, <1>7, <1>8, <1>9, <1>10, <1>11, <1>12, Placed

(* ... or returns: under it may be the frame that speaks of what it did.   *)
LEMMA ComesBack ==
    ASSUME ReleaseInv, Stays, stack # <<>>, stack[1][1] \notin BarePlaces,
           NEW res, NEW st, Leave(res, st), StaysAwake',
           stack[1][1] = "sleep" => Quiet',
           stack[1][1] \in {"detach", "detached"} => Released',
           Closed /\ stack[1][1] \in Chain \cup {"open_1"} /\ res # "ok" => Released',
           Closed /\ stack[1][1] = "open_1" => res # "ok",
           Closed => stack[1][1] # "open_2"
    PROVE  ReleaseInv'
<1>1. /\ Len(stack) \in Nat \ {0} /\ IsStack(stack)
      /\ Len(stack) > 1 => May(stack[1], stack[2]) /\ stack[1][1] # "close_1"
      /\ Closed /\ Len(stack) = 1 =>
           stack[1][1] \in {"open_1", "open_2", "detach", "detached"}
      /\ Len(stack) > 1 \/ Len(stack) = 1
  BY Under
<1>2. Gives(<<>>)
  <2>1. PICK S : stack \in Seq(S)
    BY <1>1 DEF IsStack
  <2>2. stack' = <<>> \o Tail(stack)
    BY <2>1 DEF Leave
  <2>3. QED
    BY <2>2, NoFrames DEF Gives
<1>3. Closed' <=> Closed
  BY DEF Stays, Closed
<1>4. Failed' => res # "ok"
  BY DEF Failed, Leave, Result
<1>5. Asleep'
  <2>1. CASE Len(stack) > 1
    <3>1. stack' # <<>> /\ Head(stack') = stack[2] /\ May(stack[1], stack[2])
      BY <1>1, <1>2, <2>1, NoFrames, GivesTop
    <3>2. stack[2][1] # "sleep"
      BY <3>1 DEF May
    <3>3. stack[2][1] = "detached" => stack[1][1] = "sleep"
      BY <3>1 DEF May, Deselecting, BarePlaces, Counted
    <3>4. stack[2][1] \in {"close_1", "enable"} => stack[1][1] \in {"detach", "detached"}
      BY <3>1 DEF May
    <3>5. stack[2][1] = "open_1" => stack[1][1] \in Chain
      BY <3>1 DEF May
    <3>6. QED
      BY <1>3, <1>4, <3>1, <3>2, <3>3, <3>4, <3>5 DEF Asleep, Here, Idle
  <2>2. CASE Len(stack) = 1
    <3>1. stack' = <<>>
      BY <1>1, <1>2, <2>2, NoFrames, GivesTop
    <3>2. Closed => Released'
      BY <1>1, <2>2
    <3>3. QED
      BY <1>3, <3>1, <3>2 DEF Asleep, Here, Idle
  <2>3. QED
    BY <1>1, <2>1, <2>2
<1>6. QED
  BY <1>2, <1>5, NoFrames, Placed

(* Frames of other functions say nothing of what is under them.            *)
LEMMA Loose ==
    ASSUME NEW p, p \notin Chain \cup {"close_1", "sleep", "open_1", "open_2"} \cup BarePlaces,
           NEW a
    PROVE  /\ Mild(<<p, a>>)
           /\ \A b : b[1] \in Chain \ {"enable", "detached"} => May(<<p, a>>, b)
BY DEF Mild, May, Chain, BarePlaces, Counted

(* The frames of the chain hold no level.                                  *)
LEMMA LinkIsMild ==
    ASSUME NEW p \in Chain \cup {"open_1", "open_2", "sleep"}, NEW a
    PROVE  Mild(<<p, a>>)
BY DEF Mild, Chain, Counted

(* One place of the chain follows another.                                 *)
LEMMA LinkMay ==
    ASSUME ReleaseInv, stack # <<>>, stack[1][1] \in Chain \cup {"open_1"},
           NEW p \in Chain \cup {"open_2"}, NEW a,
           stack[1][1] \in {"detach", "detached"} => p \in {"detach", "detached"},
           stack[1][1] = "open_1" <=> p = "open_2" \/ (stack[1][1] = "open_1" /\ p = "detach")
    PROVE  Len(stack) > 1 => May(<<p, a>>, stack[2])
<1>1. Len(stack) > 1 => May(stack[1], stack[2])
  BY Under
<1>2. QED
  BY <1>1 DEF May, Chain, Deselecting

(* They are not places of the bare device.                                 *)
LEMMA ChainPlaces ==
    \A p \in Chain \cup {"open_1", "open_2", "sleep", "close_1"} : p \notin BarePlaces
BY DEF Chain, BarePlaces, Counted

(* Nothing but the stack, and what the promises do not speak of.           *)
LEMMA SameStays ==
    ASSUME ReleaseInv, Unchanged
    PROVE  Stays /\ (~Bare /\ ~Trying => StaysAwake')
<1>1. Fields
  BY DEF ReleaseInv
<1>2. Stays
  BY <1>1 DEF Stays, Unchanged, Fields
<1>3. QED
  BY <1>1, <1>2, StillAwake DEF Unchanged, Stays, Fields

(* ftape_enable() *)
LEMMA EnableStep ==
    ASSUME ReleaseInv, Enable
    PROVE  ReleaseInv'
<1>1. /\ stack # <<>> /\ Head(stack) = stack[1] /\ IsStack(stack) /\ stack[1][1] = "enable"
      /\ UNCHANGED <<drive, zft>> /\ Fields /\ ClosedInv /\ Here("enable")
  BY Under DEF Enable, Here, ReleaseInv
<1>2. stack[1][1] \notin BarePlaces /\ stack[1][1] \in Chain
  BY <1>1, ChainPlaces DEF Chain
<1>3. ~Bare /\ ~Trying
  BY <1>1, <1>2, NotBare DEF ClosedInv, Trying, Here, Tries
<1>4. ASSUME ftape' = [ftape EXCEPT !.active = TRUE, !.failure = FALSE, !.fdc = TRUE,
                                    !.fdc_rate = ftape.data_rate],
             Fine, Goto("activate", 0)
      PROVE  ReleaseInv'
  <2>1. Stays /\ ftape'.wake_up = ftape.wake_up
    BY <1>1, <1>4 DEF Stays, Fields, Fine
  <2>2. StaysAwake'
    BY <1>1, <1>3, <1>4, <2>1, StillAwake DEF Fine, Fields
  <2>3. Len(stack) > 1 => May(<<"activate", 0>>, stack[2])
    BY <1>1, <1>2, LinkMay DEF Chain
  <2>4. ~(Closed /\ Len(stack) = 1)
    BY <1>1, Under
  <2>5. Mild(<<"activate", 0>>)
    BY LinkIsMild DEF Chain
  <2>6. QED
    BY <1>1, <1>2, <1>4, <2>1, <2>2, <2>3, <2>4, <2>5, GoesOn DEF Goto, Frame
<1>5. ASSUME ftape' = [ftape EXCEPT !.failure = FALSE], Fault, Leave("enxio", {})
      PROVE  ReleaseInv'
  <2>1. /\ Stays /\ ftape'.wake_up = ftape.wake_up
        /\ ftape'.active = ftape.active /\ ftape'.fdc = ftape.fdc
    BY <1>1, <1>5 DEF Stays, Fields, Fault
  <2>2. incidents' \in Nat /\ incidents' > incidents /\ incidents' # 0
    BY <1>1, <1>5 DEF Fault, Fields
  <2>3. StaysAwake'
    BY <1>1, <1>3, <2>1, <2>2, StillAwake DEF Fields
  <2>4. Closed => Released
    BY <1>1, <1>3 DEF ClosedInv, Asleep
  <2>5. Closed => Released'
    BY <2>1, <2>2, <2>4 DEF Released, Quiet
  <2>6. QED
    BY <1>1, <1>2, <1>5, <2>1, <2>3, <2>5, ComesBack
<1>6. QED
  BY <1>4, <1>5 DEF Enable

(* What is known where one of these frames is on top.                      *)
LEMMA ChainTop ==
    ASSUME ReleaseInv, NEW p \in Chain \cup {"open_1", "open_2", "sleep", "close_1"}, Here(p)
    PROVE  /\ stack # <<>> /\ Head(stack) = stack[1] /\ IsStack(stack)
           /\ stack[1][1] = p /\ p \notin BarePlaces /\ Arg = stack[1][2]
           /\ ~Bare /\ Fields /\ ClosedInv
           /\ p \notin {"activate_all", "activate_got"} => ~Trying
           /\ Len(stack) > 1 => May(stack[1], stack[2]) /\ p # "close_1"
           /\ Closed /\ Len(stack) = 1 => p \in {"open_1", "open_2", "detach", "detached"}
<1>1. /\ stack # <<>> /\ Head(stack) = stack[1] /\ IsStack(stack)
      /\ stack[1][1] = p /\ Arg = stack[1][2] /\ Fields /\ ClosedInv
  BY Under DEF Here, Arg, ReleaseInv
<1>2. p \notin BarePlaces
  BY ChainPlaces
<1>3. ~Bare
  BY <1>1, <1>2, NotBare DEF ClosedInv
<1>4. p \notin {"activate_all", "activate_got"} => ~Trying
  BY <1>1 DEF Trying, Here, Tries, Chain
<1>5. QED
  BY <1>1, <1>2, <1>3, <1>4, Under

(* ftape_enable() goes on, or calls another function.                      *)
Enabling == Chain \ {"detach", "detached"}

(* It goes on at another place of the chain, ...                           *)
LEMMA ChainGoes ==
    ASSUME ReleaseInv, Stays, NEW p \in Enabling, Here(p),
           NEW q \in Chain \ {"enable", "detached"}, NEW a, Goto(q, a),
           q = "activate_all" \/ StaysAwake'
    PROVE  ReleaseInv'
<1>1. p \in Chain /\ q \in Chain
  BY DEF Enabling
<1>2. /\ stack # <<>> /\ Head(stack) = stack[1] /\ stack[1][1] = p /\ p \notin BarePlaces
      /\ ~(Closed /\ Len(stack) = 1)
  BY <1>1, ChainTop DEF Enabling, Chain
<1>3. Mild(<<q, a>>)
  BY <1>1, LinkIsMild
<1>4. Len(stack) > 1 => May(<<q, a>>, stack[2])
  BY <1>1, <1>2, LinkMay DEF Enabling, Chain
<1>5. q \notin {"close_1", "sleep", "detached", "enable", "open_1"}
  BY DEF Chain
<1>6. QED
  BY <1>2, <1>3, <1>4, <1>5, GoesOn DEF Goto, Frame

(* ... calls a function outside it, ...                                    *)
LEMMA ChainCalls ==
    ASSUME ReleaseInv, Stays, NEW p \in Enabling, Here(p),
           NEW f, f \notin Chain \cup {"close_1", "sleep", "open_1", "open_2"} \cup BarePlaces,
           NEW q \in Chain \ {"enable", "detached"}, NEW a, NEW b, Call(f, a, q, b),
           (f = "wakeup" /\ a = "none" /\ q = "activate_got") \/ StaysAwake'
    PROVE  ReleaseInv'
<1>1. p \in Chain /\ q \in Chain
  BY DEF Enabling
<1>2. /\ stack # <<>> /\ Head(stack) = stack[1] /\ stack[1][1] = p /\ p \notin BarePlaces
      /\ ~(Closed /\ Len(stack) = 1)
  BY <1>1, ChainTop DEF Enabling, Chain
<1>3. Mild(<<q, b>>) /\ Mild(<<f, a>>)
  BY <1>1, LinkIsMild, Loose
<1>4. Len(stack) > 1 => May(<<q, b>>, stack[2])
  BY <1>1, <1>2, LinkMay DEF Enabling, Chain
<1>5. May(<<f, a>>, <<q, b>>)
  <2>1. \A g : g[1] \in Chain \ {"enable", "detached"} => May(<<f, a>>, g)
    BY Loose
  <2> DEFINE g == <<q, b>>
  <2>2. g[1] = q
    OBVIOUS
  <2> HIDE DEF g
  <2>3. May(<<f, a>>, g)
    BY <2>1, <2>2
  <2>4. QED
    BY <2>3 DEF g
<1>6. /\ f \notin {"close_1", "detached", "enable", "open_1", "sleep"} /\ q # "close_1"
  BY DEF Chain
<1>7. stack' = (<<<<f, a>>>> \o <<<<q, b>>>>) \o Tail(stack)
  BY DEF Call, RunThen, Run, Frame
<1>8. QED
  BY <1>2, <1>3, <1>4, <1>5, <1>6, <1>7, CallsOn

(* ... or returns.                                                         *)
LEMMA ChainLeaves ==
    ASSUME ReleaseInv, Stays, NEW p \in Enabling, Here(p), NEW res, Leave(res, {}),
           StaysAwake', Closed /\ res # "ok" => Released'
    PROVE  ReleaseInv'
<1>1. p \in Chain /\ p \notin {"sleep", "detach", "detached", "open_1", "open_2"}
  BY DEF Enabling, Chain
<1>2. /\ stack # <<>> /\ Head(stack) = stack[1] /\ stack[1][1] = p /\ p \notin BarePlaces
  BY <1>1, ChainTop
<1>3. QED
  BY <1>1, <1>2, ComesBack

(* ftape_activate_drive()                                                  *)
LEMMA ActivateStep ==
    ASSUME ReleaseInv, Activate
    PROVE  ReleaseInv'
<1>1. Here("activate") /\ "activate" \in Enabling /\ "activate" \in Chain
  BY DEF Activate, Enabling, Chain
<1>2. Stays /\ StaysAwake'
  BY <1>1, ChainTop, SameStays DEF Activate
<1>3. ASSUME Goto("activate_all", 1) PROVE ReleaseInv'
  BY <1>1, <1>2, <1>3, ChainGoes DEF Chain
<1>4. ASSUME Call("wakeup", ftape.wake_up, "activate_1", 0) PROVE ReleaseInv'
  BY <1>1, <1>2, <1>4, ChainCalls DEF Chain, BarePlaces, Counted
<1>5. QED
  BY <1>3, <1>4 DEF Activate

(* The known method failed or woke the drive up.                           *)
LEMMA ActivateOneStep ==
    ASSUME ReleaseInv, Activate1
    PROVE  ReleaseInv'
<1>1. Here("activate_1") /\ "activate_1" \in Enabling /\ "activate_1" \in Chain
  BY DEF Activate1, Enabling, Chain
<1>2. Stays /\ StaysAwake'
  BY <1>1, ChainTop, SameStays DEF Activate1
<1>3. ASSUME Goto("activate_all", 1) PROVE ReleaseInv'
  BY <1>1, <1>2, <1>3, ChainGoes DEF Chain
<1>4. ASSUME Goto("enable_1", 0) PROVE ReleaseInv'
  BY <1>1, <1>2, <1>4, ChainGoes DEF Chain
<1>5. QED
  BY <1>3, <1>4 DEF Activate1

(* ftape_activate_drive() tries the next method, or has tried them all.    *)
LEMMA ActivateAllStep ==
    ASSUME ReleaseInv, ActivateAll
    PROVE  ReleaseInv'
<1>1. /\ Here("activate_all") /\ "activate_all" \in Enabling /\ "activate_all" \in Chain
      /\ UNCHANGED <<drive, zft, incidents>>
  BY DEF ActivateAll, Enabling, Chain
<1>2. Fields /\ drive.kind.wake_up # "unknown"
  BY KindsAssumption DEF ReleaseInv, Fields
<1>3. ASSUME ftape' = [ftape EXCEPT !.wake_up = "unknown", !.fdc = FALSE, !.active = FALSE],
             Leave("enodev", {})
      PROVE  ReleaseInv'
  <2>1. /\ Stays /\ ~ftape'.active /\ ~ftape'.fdc /\ ftape'.wake_up = "unknown"
    BY <1>1, <1>2, <1>3 DEF Stays, Fields
  <2>2. Released' /\ StaysAwake'
    BY <1>1, <1>2, <2>1 DEF Released, Quiet, StaysAwake, Stays
  <2>3. QED
    BY <1>1, <1>3, <2>1, <2>2, ChainLeaves
<1>4. ASSUME ftape' = [ftape EXCEPT !.wake_up = Methods[Arg]],
             Call("wakeup", Methods[Arg], "activate_got", Arg)
      PROVE  ReleaseInv'
  <2>1. Stays /\ ftape'.wake_up = Methods[Arg]
    BY <1>1, <1>2, <1>4 DEF Stays, Fields
  <2>2. Methods[Arg] = "none" \/ StaysAwake'
    BY <2>1 DEF StaysAwake
  <2>3. QED
    BY <1>1, <1>4, <2>1, <2>2, ChainCalls DEF Chain, BarePlaces, Counted
<1>5. QED
  BY <1>3, <1>4 DEF ActivateAll

(* The drive answered, or the next method is tried.                        *)
LEMMA ActivateGotStep ==
    ASSUME ReleaseInv, ActivateGot
    PROVE  ReleaseInv'
<1>1. Here("activate_got") /\ "activate_got" \in Enabling /\ "activate_got" \in Chain
  BY DEF ActivateGot, Enabling, Chain
<1>2. Stays /\ (~Trying => StaysAwake')
  BY <1>1, ChainTop, SameStays DEF ActivateGot
<1>3. ASSUME Goto("activate_all", Arg + 1) PROVE ReleaseInv'
  BY <1>1, <1>2, <1>3, ChainGoes DEF Chain
<1>4. ASSUME Goto("enable_1", 0), ~Failed PROVE ReleaseInv'
  <2>1. ~Trying
    <3>1. Head(stack) = stack[1] /\ stack[1][1] = "activate_got"
      BY <1>1, ChainTop
    <3>2. QED
      BY <1>4, <3>1 DEF Trying, Here, Tries
  <2>2. QED
    BY <1>1, <1>2, <1>4, <2>1, ChainGoes DEF Chain
<1>5. QED
  BY <1>3, <1>4 DEF ActivateGot

(* The rest of ftape_enable()                                              *)
LEMMA EnableOneStep ==
    ASSUME ReleaseInv, Enable1
    PROVE  ReleaseInv'
<1>1. Here("enable_1") /\ "enable_1" \in Enabling /\ "enable_1" \in Chain
  BY DEF Enable1, Enabling, Chain
<1>2. Stays /\ StaysAwake'
  BY <1>1, ChainTop, SameStays DEF Enable1
<1>3. ASSUME Call("vendor_id", 1, "enable_2", 0) PROVE ReleaseInv'
  BY <1>1, <1>2, <1>3, ChainCalls DEF Chain, BarePlaces, Counted
<1>4. ASSUME Goto("enable_2", 0) PROVE ReleaseInv'
  BY <1>1, <1>2, <1>4, ChainGoes DEF Chain
<1>5. QED
  BY <1>3, <1>4 DEF Enable1

(* The status is read and cleared.                                         *)
LEMMA EnableTwoStep ==
    ASSUME ReleaseInv, Enable2
    PROVE  ReleaseInv'
<1>1. Here("enable_2") /\ "enable_2" \in Enabling /\ "enable_2" \in Chain
  BY DEF Enable2, Enabling, Chain
<1>2. Stays /\ StaysAwake'
  BY <1>1, ChainTop, SameStays DEF Enable2
<1>3. QED
  BY <1>1, <1>2, ChainCalls DEF Enable2, Chain, BarePlaces, Counted

(* The status has been read: a new cartridge is prepared.                  *)
LEMMA EnableThreeStep ==
    ASSUME ReleaseInv, Enable3
    PROVE  ReleaseInv'
<1>1. /\ Here("enable_3") /\ "enable_3" \in Enabling /\ "enable_3" \in Chain
      /\ UNCHANGED <<drive, zft, incidents>>
  BY DEF Enable3, Enabling, Chain
<1>2. ASSUME Goto("detach", "eio"), UNCHANGED ftape PROVE ReleaseInv'
  <2>1. Stays /\ StaysAwake'
    BY <1>1, <1>2, ChainTop, SameStays DEF Unchanged
  <2>2. QED
    BY <1>1, <1>2, <2>1, ChainGoes DEF Chain
<1>3. ASSUME NEW needed, ftape' = [ftape EXCEPT !.init_needed = needed],
             Call("init_drive", 0, "enable_4", 0) \/ Leave("ok", {})
      PROVE  ReleaseInv'
  <2>1. /\ Fields /\ ~Bare /\ ~Trying
    BY <1>1, ChainTop
  <2>2. Stays /\ ftape'.wake_up = ftape.wake_up
    BY <1>1, <1>3, <2>1 DEF Stays, Fields
  <2>3. StaysAwake'
    BY <1>1, <2>1, <2>2, StillAwake DEF Fields
  <2>4. ASSUME Call("init_drive", 0, "enable_4", 0) PROVE ReleaseInv'
    BY <1>1, <2>2, <2>3, <2>4, ChainCalls DEF Chain, BarePlaces, Counted
  <2>5. ASSUME Leave("ok", {}) PROVE ReleaseInv'
    BY <1>1, <2>2, <2>3, <2>5, ChainLeaves
  <2>6. QED
    BY <1>3, <2>4, <2>5
<1>4. QED
  BY <1>2, <1>3 DEF Enable3

(* The cartridge was prepared, or the drive is given up.                   *)
LEMMA EnableFourStep ==
    ASSUME ReleaseInv, Enable4
    PROVE  ReleaseInv'
<1>1. Here("enable_4") /\ "enable_4" \in Enabling /\ "enable_4" \in Chain
  BY DEF Enable4, Enabling, Chain
<1>2. Stays /\ StaysAwake'
  BY <1>1, ChainTop, SameStays DEF Enable4
<1>3. ASSUME Goto("detach", "eio") PROVE ReleaseInv'
  BY <1>1, <1>2, <1>3, ChainGoes DEF Chain
<1>4. ASSUME Leave("ok", {}) PROVE ReleaseInv'
  BY <1>1, <1>2, <1>4, ChainLeaves
<1>5. QED
  BY <1>3, <1>4 DEF Enable4

(* ftape_detach_drive() and the end of ftape_disable()                     *)
LEMMA DetachStep ==
    ASSUME ReleaseInv, Detach
    PROVE  ReleaseInv'
<1>1. Here("detach") /\ "detach" \in Chain /\ "detached" \in Chain
  BY DEF Detach, Chain
<1>2. Stays /\ StaysAwake' /\ ftape' = ftape
  BY <1>1, ChainTop, SameStays DEF Detach, Unchanged
<1>3. /\ stack # <<>> /\ stack[1][1] = "detach" /\ stack[1][1] \notin BarePlaces
  BY <1>1, ChainTop
<1>4. stack' = (<<<<"sleep", ftape.wake_up>>>> \o <<<<"detached", Arg>>>>) \o Tail(stack)
  BY DEF Detach, Call, RunThen, Run, Frame
<1>5. Mild(<<"sleep", ftape.wake_up>>) /\ Mild(<<"detached", Arg>>)
  BY <1>1, LinkIsMild
<1>6. Len(stack) > 1 => May(<<"detached", Arg>>, stack[2])
  BY <1>1, <1>3, LinkMay
<1>7. May(<<"sleep", ftape.wake_up>>, <<"detached", Arg>>)
  BY DEF May
<1>8. QED
  BY <1>2, <1>3, <1>4, <1>5, <1>6, <1>7, CallsOn

(* The controller is released.                                             *)
LEMMA DetachedStep ==
    ASSUME ReleaseInv, Detached
    PROVE  ReleaseInv'
<1>1. Here("detached") /\ "detached" \in Chain /\ UNCHANGED <<drive, zft, incidents>>
  BY DEF Detached, Chain
<1>2. /\ stack # <<>> /\ stack[1][1] = "detached" /\ stack[1][1] \notin BarePlaces
      /\ ~Bare /\ ~Trying /\ Fields /\ ClosedInv
  BY <1>1, ChainTop
<1>3. Stays /\ ftape'.wake_up = ftape.wake_up /\ ~ftape'.active /\ ~ftape'.fdc
  BY <1>1, <1>2 DEF Detached, Stays, Fields
<1>4. StaysAwake'
  BY <1>1, <1>2, <1>3, StillAwake DEF Fields
<1>5. Released'
  <2>1. Quiet
    BY <1>1, <1>2 DEF ClosedInv, Asleep
  <2>2. QED
    BY <1>1, <1>3, <2>1 DEF Released, Quiet
<1>6. Leave(Arg, {})
  BY DEF Detached
<1>7. QED
  BY <1>2, <1>3, <1>4, <1>5, <1>6, ComesBack

(* ftape_put_drive_to_sleep(): a command, the motor, or nothing.           *)
LEMMA SleepDeselects ==
    ASSUME ReleaseInv, Here("sleep"), Arg \in {"colorado", "mountain"},
           UNCHANGED <<ftape, drive, zft, incidents>>, Goto("command", "deselect")
    PROVE  ReleaseInv'
<1> DEFINE f == <<"command", "deselect">>
<1>1. stack' = <<f>> \o Tail(stack)
  BY DEF Goto, Frame
<1>2. f[1] = "command" /\ f[2] = "deselect" /\ Deselecting(f)
  BY DEF Deselecting
<1> HIDE DEF f
<1>3. /\ stack # <<>> /\ IsStack(stack) /\ stack[1][1] = "sleep" /\ stack[1][1] \notin BarePlaces
      /\ ~Bare /\ ~Trying /\ Fields /\ ClosedInv
      /\ (Len(stack) > 1 => May(stack[1], stack[2])) /\ ~(Closed /\ Len(stack) = 1)
  BY ChainTop
<1>4. Stays /\ StaysAwake'
  BY <1>3, SameStays DEF Unchanged
<1>5. IsStack(<<f>>) /\ Len(<<f>>) = 1 /\ <<f>>[1] = f
  BY OneFrame
<1>6. Gives(<<f>>)
  BY <1>1, <1>3, <1>5 DEF Gives
<1>7. \A i \in 1 .. Len(<<f>>) : i = 1 /\ <<f>>[i] = f
  BY <1>5
<1>8. Stacked(stack)'
  <2>1. Len(stack) > 1 => May(f, stack[2]) /\ f[1] # "close_1"
    BY <1>2, <1>3 DEF May, Chain, Deselecting
  <2>2. \A i \in 1 .. Len(<<f>>) - 1 : May(<<f>>[i], <<f>>[i + 1]) /\ <<f>>[i][1] # "close_1"
    BY <1>5
  <2>3. Len(<<f>>) > 0 /\ Len(stack) > 1 =>
            May(<<f>>[Len(<<f>>)], stack[2]) /\ <<f>>[Len(<<f>>)][1] # "close_1"
    BY <1>5, <2>1
  <2>4. QED
    BY <1>3, <1>6, <2>2, <2>3, GivesStacked DEF ClosedInv
<1>9. Nested(stack, ftape.level)'
  <2>1. Calm(stack, 2) /\ ftape.level = 0
    BY <1>3, PlainIsCalm DEF ClosedInv, Counted
  <2>2. \A i \in 1 .. Len(<<f>>) : <<f>>[i][1] \notin Counted
    BY <1>2, <1>7 DEF Counted
  <2>3. Calm(stack, 1)'
    BY <1>3, <1>6, <2>1, <2>2, GivesCalm
  <2>4. QED
    BY <1>4, <2>1, <2>3 DEF Nested, Stays
<1>10. Bottom'
  BY <1>3, <1>4, <1>6, GivesBottom DEF ClosedInv, Stays
<1>11. CommandsOK'
  <2>1. Arg = ftape.wake_up /\ ftape'.wake_up = ftape.wake_up
    BY <1>3 DEF ClosedInv, Asleep
  <2>2. \A i \in 1 .. Len(<<f>>) :
           /\ <<f>>[i][1] = "command" /\ <<f>>[i][2] = "format_mode"
                => "cant_format" \notin drive.kind.flags
           /\ <<f>>[i][1] \in {"checked", "recheck"} => <<f>>[i][2] # "deselect"
           /\ Deselecting(<<f>>[i]) /\ ~Bare
                => i = 1 /\ ftape'.wake_up \in {"colorado", "mountain"}
    BY <1>2, <1>7, <2>1
  <2>3. QED
    BY <1>3, <1>4, <1>6, <2>2, GivesCommands DEF ClosedInv, Stays
<1>12. BareOK'
  BY <1>3, <1>4, <1>6, GivesBare DEF ClosedInv, Stays
<1>13. Asleep'
  <2>1. stack' # <<>> /\ Head(stack') = f
    BY <1>3, <1>5, <1>6, GivesTop
  <2>2. QED
    BY <1>2, <2>1 DEF Asleep, Here, Idle
<1>14. IsStack(stack)'
  BY <1>3, <1>6, GivesStack
<1>15. QED
  BY <1>4, <1>8, <1>9, <1>10, <1>11, <1>12, <1>13, <1>14
     DEF ReleaseInv, ClosedInv, Stays, Fields

(* A step of ftape_put_drive_to_sleep().                                   *)
LEMMA SleepStep ==
    ASSUME ReleaseInv, Sleep
    PROVE  ReleaseInv'
<1>1. Here("sleep") /\ UNCHANGED <<ftape, zft, incidents>>
  BY DEF Sleep
<1>2. ASSUME Arg \in {"colorado", "mountain"}, UNCHANGED drive, Goto("command", "deselect")
      PROVE  ReleaseInv'
  BY <1>1, <1>2, SleepDeselects
<1>3. ASSUME Arg \notin {"colorado", "mountain"}, drive' = MotorOff(Arg), Leave("ok", {})
      PROVE  ReleaseInv'
  <2>1. /\ stack # <<>> /\ stack[1][1] = "sleep" /\ stack[1][1] \notin BarePlaces
        /\ ~Bare /\ ~Trying /\ Fields /\ ClosedInv
    BY <1>1, ChainTop
  <2>2. /\ drive'.kind = drive.kind /\ DOMAIN drive' = DOMAIN drive
        /\ drive'.awake \in BOOLEAN
        /\ Arg # "motor" => drive'.awake = drive.awake
        /\ Arg = "motor" => drive'.awake = (drive.awake /\ drive.kind.wake_up # "motor")
    BY <1>3, <2>1 DEF MotorOff, Fields
  <2>3. Stays
    BY <1>1, <2>1, <2>2 DEF Stays, Fields
  <2>4. drive.kind.wake_up = "none" /\ drive.awake => drive'.awake
    BY <2>2
  <2>5. StaysAwake'
    BY <1>1, <2>1, <2>2, <2>4, StillAwake DEF Fields
  <2>6. Quiet'
    <3>1. Arg = ftape.wake_up /\ StaysAwake
      BY <1>1, <2>1 DEF ClosedInv, Asleep
    <3>2. drive.kind.wake_up \in {"none", "colorado", "mountain", "motor"}
      BY <2>1, KindsAssumption DEF Fields
    <3>3. SUFFICES ASSUME incidents = 0, ftape.wake_up = drive.kind.wake_up
                   PROVE  drive'.awake = (drive.kind.wake_up = "none")
      BY <1>1, <2>2 DEF Quiet
    <3>4. CASE Arg = "motor"
      BY <2>2, <3>1, <3>3, <3>4
    <3>5. CASE Arg = "none"
      <4>1. drive.awake
        BY <2>1, <3>1, <3>3, <3>5 DEF StaysAwake
      <4>2. QED
        BY <2>2, <3>1, <3>3, <3>5, <4>1
    <3>6. QED
      BY <1>3, <3>1, <3>2, <3>3, <3>4, <3>5
  <2>7. stack[1][1] \notin {"detach", "detached", "open_1", "open_2"} \cup Chain
    BY <2>1 DEF Chain
  <2>8. QED
    BY <1>3, <2>1, <2>3, <2>5, <2>6, <2>7, ComesBack
<1>4. QED
  BY <1>2, <1>3 DEF Sleep

-----------------------------------------------------------------------------
(* The device calls                                                         *)

(* _zft_open(), when ftape_enable() has come back                          *)
LEMMA OpenOneStep ==
    ASSUME ReleaseInv, Open1
    PROVE  ReleaseInv'
<1>1. Here("open_1") /\ UNCHANGED <<ftape, drive, incidents>>
  BY DEF Open1
<1>2. /\ stack # <<>> /\ stack[1][1] = "open_1" /\ stack[1][1] \notin BarePlaces
      /\ ~Bare /\ ~Trying /\ Fields /\ ClosedInv
      /\ Len(stack) > 1 => May(stack[1], stack[2])
  BY <1>1, ChainTop
<1>3. DOMAIN zft' = DOMAIN zft /\ zft'.open = zft.open
  BY <1>2 DEF Open1, Fields
<1>4. Stays /\ StaysAwake'
  <2>1. Stays
    BY <1>1, <1>2, <1>3 DEF Stays, Fields
  <2>2. QED
    BY <1>1, <1>2, <2>1, StillAwake DEF Fields
<1>5. ASSUME Failed, ~Arg, End PROVE ReleaseInv'
  <2>1. Arg # TRUE /\ ret.res # "ok"
    BY <1>5 DEF Failed
  <2>2. Closed => Released
    BY <1>1, <1>2, <1>5, <2>1 DEF ClosedInv, Asleep
  <2>3. Closed => Released'
    BY <1>1, <2>2 DEF Released, Quiet
  <2>4. QED
    BY <1>2, <1>4, <1>5, <2>1, <2>3, ComesBack DEF End
<1>6. ASSUME Goto("detach", "erofs") PROVE ReleaseInv'
  <2>1. "detach" \in Chain /\ Mild(<<"detach", "erofs">>)
    BY LinkIsMild DEF Chain
  <2>2. Len(stack) > 1 => May(<<"detach", "erofs">>, stack[2])
    BY <1>2, <2>1, LinkMay
  <2>3. QED
    BY <1>2, <1>4, <1>6, <2>1, <2>2, GoesOn DEF Goto, Frame
<1>7. ASSUME NEW a, Call("door", a, "open_2", 0) PROVE ReleaseInv'
  <2>1. "door" \notin Chain \cup {"close_1", "sleep", "open_1", "open_2"} \cup BarePlaces
    BY DEF Chain, BarePlaces, Counted
  <2>2. Mild(<<"door", a>>) /\ Mild(<<"open_2", 0>>)
    BY <2>1, LinkIsMild, Loose
  <2>3. Len(stack) > 1 => May(<<"open_2", 0>>, stack[2])
    BY <1>2, LinkMay
  <2>4. May(<<"door", a>>, <<"open_2", 0>>)
    BY DEF May
  <2>5. stack' = (<<<<"door", a>>>> \o <<<<"open_2", 0>>>>) \o Tail(stack)
    BY <1>7 DEF Call, RunThen, Run, Frame
  <2>6. QED
    BY <1>2, <1>4, <2>2, <2>3, <2>4, <2>5, CallsOn
<1>8. QED
  BY <1>5, <1>6, <1>7 DEF Open1

(* _zft_open() has locked the door: the device is open.                    *)
LEMMA OpenTwoStep ==
    ASSUME ReleaseInv, Open2
    PROVE  ReleaseInv'
<1>1. /\ Here("open_2") /\ Leave("ok", {}) /\ UNCHANGED <<ftape, drive, incidents>>
      /\ zft' = [zft EXCEPT !.open = "regular"]
  BY DEF Open2
<1>2. /\ stack # <<>> /\ stack[1][1] = "open_2" /\ IsStack(stack)
      /\ ~Bare /\ ~Trying /\ Fields /\ ClosedInv
      /\ Len(stack) > 1 => May(stack[1], stack[2])
  BY <1>1, ChainTop
<1>3. Fields' /\ ~Closed' /\ ~Bare'
  BY <1>1, <1>2 DEF Fields, Closed, Bare
<1>4. Gives(<<>>)
  <2>1. PICK S : stack \in Seq(S)
    BY <1>2 DEF IsStack
  <2>2. stack' = <<>> \o Tail(stack)
    BY <1>1, <2>1 DEF Leave
  <2>3. QED
    BY <1>2, <2>2, NoFrames DEF Gives
<1>5. Stacked(stack)'
  BY <1>2, <1>4, NoFrames, GivesStacked DEF ClosedInv
<1>6. Nested(stack, ftape.level)'
  <2>1. Calm(stack, 2) /\ ftape.level = 0
    BY <1>2, PlainIsCalm DEF ClosedInv, Counted
  <2>2. Calm(stack, 1)'
    BY <1>2, <1>4, <2>1, NoFrames, GivesCalm
  <2>3. QED
    BY <1>1, <2>1, <2>2 DEF Nested
<1>7. CommandsOK'
  BY <1>1, <1>2, <1>3, <1>4, NoFrames, GivesTheseCommands DEF ClosedInv
<1>8. StaysAwake'
  BY <1>1, <1>2, StillAwake DEF Fields
<1>9. Asleep'
  <2>1. Len(stack) = 1 \/ Len(stack) > 1
    BY <1>2, Under DEF ReleaseInv
  <2>2. CASE Len(stack) > 1
    <3>1. stack' # <<>> /\ Head(stack') = stack[2]
      BY <1>2, <1>4, <2>2, NoFrames, GivesTop
    <3>2. stack[2][1] \notin {"open_1", "close_1", "enable", "detached", "sleep"}
      BY <1>2, <2>2 DEF May, Chain, Deselecting
    <3>3. QED
      BY <1>3, <3>1, <3>2 DEF Asleep, Here, Idle
  <2>3. CASE Len(stack) = 1
    <3>1. stack' = <<>>
      BY <1>2, <1>4, <2>3, NoFrames, GivesTop
    <3>2. QED
      BY <1>3, <3>1 DEF Asleep, Here, Idle
  <2>4. QED
    BY <2>1, <2>2, <2>3
<1>10. IsStack(stack)'
  BY <1>2, <1>4, GivesStack
<1>11. QED
  BY <1>3, <1>5, <1>6, <1>7, <1>8, <1>9, <1>10
     DEF ReleaseInv, ClosedInv, Bottom, BareOK, Fields

(* Nothing is under way.                                                   *)
LEMMA Nothing ==
    ASSUME NEW s, s = <<>>
    PROVE  /\ IsStack(s) /\ Stacked(s) /\ Calm(s, 1)
           /\ \A n : Nested(s, n) => n = 0
<1>1. IsStack(s) /\ Len(s) = 0
  BY NoFrames
<1>2. Stacked(s)
  BY <1>1 DEF Stacked
<1>3. Calm(s, 1)
  BY <1>1 DEF Calm
<1>4. ASSUME NEW n, Nested(s, n) PROVE n = 0
  BY <1>1, <1>4 DEF Nested
<1>5. QED
  BY <1>1, <1>2, <1>3, <1>4

(* A call has ended, or none has begun.                                    *)
LEMMA Rests ==
    ASSUME Fields', stack' = <<>>, ftape'.level = 0,
           ~Bare' => StaysAwake', Closed' => Released'
    PROVE  ReleaseInv'
<1>1. IsStack(stack') /\ Stacked(stack') /\ Calm(stack', 1) /\ Len(stack') = 0
  BY Nothing, NoFrames
<1>2. CommandsOK' /\ BareOK' /\ Bottom'
  BY <1>1 DEF CommandsOK, BareOK, Bottom
<1>3. Asleep'
  BY DEF Asleep, Here
<1>4. QED
  BY <1>1, <1>2, <1>3 DEF ReleaseInv, ClosedInv, Nested, Fields

(* _zft_close(), when ftape_disable() has come back                        *)
LEMMA CloseOneStep ==
    ASSUME ReleaseInv, Close1
    PROVE  ReleaseInv'
<1>1. /\ Here("close_1") /\ End /\ UNCHANGED <<ftape, drive, incidents>>
      /\ zft' = [zft EXCEPT !.open = "closed", !.writer = FALSE]
  BY DEF Close1
<1>2. /\ stack # <<>> /\ stack[1][1] = "close_1" /\ IsStack(stack)
      /\ ~Bare /\ ~Trying /\ Fields /\ ClosedInv /\ ~(Len(stack) > 1)
  BY <1>1, ChainTop
<1>3. Len(stack) = 1
  BY <1>2, Under
<1>4. stack' = <<>>
  <2>1. PICK S : stack \in Seq(S)
    BY <1>2 DEF IsStack
  <2>2. stack' = <<>> \o Tail(stack)
    BY <1>1, <2>1 DEF End, Leave
  <2>3. Gives(<<>>)
    BY <1>2, <2>2, NoFrames DEF Gives
  <2>4. QED
    BY <1>2, <1>3, <2>3, NoFrames, GivesTop
<1>5. ftape.level = 0
  BY <1>2, PlainIsCalm DEF ClosedInv, Counted
<1>6. StaysAwake'
  BY <1>1, <1>2, StillAwake DEF Fields
<1>7. Released'
  <2>1. Released
    BY <1>1, <1>2 DEF ClosedInv, Asleep
  <2>2. QED
    BY <1>1, <2>1 DEF Released, Quiet
<1>8. Fields'
  BY <1>1, <1>2 DEF Fields
<1>9. QED
  BY <1>1, <1>4, <1>5, <1>6, <1>7, <1>8, Rests

(* A function is done with the cartridge, and opens the device again.      *)
LEMMA OpensAgain ==
    ASSUME ReleaseInv, Stays, NEW p \in Plain, Here(p), StaysAwake', Goto("open_1", TRUE)
    PROVE  ReleaseInv'
<1>1. /\ stack # <<>> /\ stack[1][1] = p
      /\ Len(stack) > 1 => May(stack[1], stack[2])
      /\ Closed /\ Len(stack) = 1 => p \in {"open_1", "open_2", "detach", "detached"}
  BY Under DEF Here
<1>2. p \notin Proper \cup BarePlaces
  BY PlainPlaces
<1>3. ~(Closed /\ Len(stack) = 1)
  BY <1>1, <1>2 DEF Proper, Chain
<1>4. Len(stack) > 1 => May(<<"open_1", TRUE>>, stack[2])
  BY <1>1, <1>2 DEF May, Proper, Chain, Deselecting, BarePlaces, Counted
<1>5. Mild(<<"open_1", TRUE>>)
  BY LinkIsMild
<1>6. QED
  BY <1>1, <1>2, <1>3, <1>4, <1>5, GoesOn DEF Goto, Frame

(* The same, said of a step in a plain place.                              *)
LEMMA PlainStays ==
    ASSUME ReleaseInv, NEW p \in Plain, Here(p), UNCHANGED <<ftape, drive, incidents>>,
           DOMAIN zft' = DOMAIN zft, zft'.open = zft.open
    PROVE  /\ stack # <<>> /\ ~Bare /\ Stays /\ StaysAwake' /\ PlainTop
           /\ Keeps /\ ftape'.level = ftape.level
<1>1. PlainTop /\ Keeps /\ ftape'.level = ftape.level
  BY PlainHere, ZftKeeps
<1>2. stack # <<>> /\ Head(stack) = stack[1] /\ stack[1][1] = p /\ IsStack(stack)
  BY Under DEF Here
<1>3. p \notin Proper \cup BarePlaces \cup {"wakeup", "wakeup_2"}
  BY PlainPlaces
<1>4. ~Bare
  BY <1>2, <1>3, NotBare DEF ReleaseInv, ClosedInv
<1>5. ~Trying
  BY <1>2, <1>3 DEF Trying, Here, Tries, Proper, Chain
<1>6. Stays
  BY DEF ReleaseInv, Stays, Fields
<1>7. StaysAwake'
  BY <1>4, <1>5, StillAwake DEF ReleaseInv, Fields
<1>8. QED
  BY <1>1, <1>2, <1>4, <1>6, <1>7

(* mt_reset(), when the drive has been reset.                              *)
LEMMA MtResetOneStep ==
    ASSUME ReleaseInv, MtReset1
    PROVE  ReleaseInv'
<1>1. /\ Here("mt_reset_1") /\ "mt_reset_1" \in Plain /\ "mt_load" \in Plain
      /\ UNCHANGED <<ftape, drive, incidents>>
  BY DEF MtReset1, Plain
<1>2. DOMAIN zft' = DOMAIN zft /\ zft'.open = zft.open
  BY DEF MtReset1, ReleaseInv, Fields
<1>3. /\ stack # <<>> /\ Stays /\ StaysAwake' /\ PlainTop
      /\ Keeps /\ ftape'.level = ftape.level
  BY <1>1, <1>2, PlainStays
<1>4. ASSUME End PROVE ReleaseInv'
  BY <1>3, <1>4, LeaveStep, Plainly DEF End
<1>5. ASSUME Goto("mt_load", TRUE) PROVE ReleaseInv'
  BY <1>1, <1>3, <1>5, PlainFrames, GotoStep, Plainly
<1>6. ASSUME Goto("open_1", TRUE) PROVE ReleaseInv'
  BY <1>1, <1>3, <1>6, OpensAgain
<1>7. QED
  BY <1>4, <1>5, <1>6 DEF MtReset1

(* mt_load() closes the door, ...                                          *)
LEMMA MtLoadStep ==
    ASSUME ReleaseInv, MtLoad
    PROVE  ReleaseInv'
<1>1. /\ Here("mt_load") /\ {"mt_load", "mt_load_1", "door"} \subseteq Plain
      /\ UNCHANGED <<ftape, drive, incidents>>
  BY DEF MtLoad, Plain
<1>2. DOMAIN zft' = DOMAIN zft /\ zft'.open = zft.open
  BY DEF MtLoad, ReleaseInv, Fields
<1>3. /\ stack # <<>> /\ Stays /\ StaysAwake' /\ PlainTop
      /\ Keeps /\ ftape'.level = ftape.level
  BY <1>1, <1>2, PlainStays
<1>4. ASSUME Run(<<Unlock, OpenDoor(FALSE), Frame("mt_load_1", TRUE)>>) PROVE ReleaseInv'
  <2>1. Free(Unlock) /\ Free(OpenDoor(FALSE)) /\ Free(Frame("mt_load_1", TRUE))
    BY <1>1, PlainFrames DEF Unlock, OpenDoor, Frame
  <2>2. FreeRun(<<Unlock, OpenDoor(FALSE), Frame("mt_load_1", TRUE)>>)
    BY <2>1, FreeTriple
  <2>3. QED
    BY <1>3, <1>4, <2>2, RunStep, Plainly
<1>5. ASSUME Goto("open_1", TRUE) PROVE ReleaseInv'
  BY <1>1, <1>3, <1>5, OpensAgain
<1>6. QED
  BY <1>4, <1>5 DEF MtLoad

(* ... and, when it has been looked at, opens the device again ...         *)
LEMMA MtLoadTwoStep ==
    ASSUME ReleaseInv, MtLoad2
    PROVE  ReleaseInv'
<1>1. Here("mt_load_2") /\ "mt_load_2" \in Plain /\ UNCHANGED <<ftape, drive, zft, incidents>>
  BY DEF MtLoad2, Plain, Unchanged
<1>2. /\ stack # <<>> /\ Stays /\ StaysAwake' /\ PlainTop
      /\ Keeps /\ ftape'.level = ftape.level
  BY <1>1, PlainStays
<1>3. ASSUME End PROVE ReleaseInv'
  BY <1>2, <1>3, LeaveStep, Plainly DEF End
<1>4. ASSUME Goto("open_1", TRUE) PROVE ReleaseInv'
  BY <1>1, <1>2, <1>4, OpensAgain
<1>5. QED
  BY <1>3, <1>4 DEF MtLoad2

(* ftape_disable() and ftape_enable() again                                *)
LEMMA Again ==
    ASSUME NEW a, NEW b, NEW c
    PROVE  LET fs == <<<<"detach", a>>, <<"enable", b>>, <<"mt_load_2", c>>>>
           IN  /\ IsStack(fs) /\ Len(fs) = 3 /\ fs[1][1] = "detach"
               /\ \A i \in 1 .. Len(fs) : Mild(fs[i])
               /\ \A i \in 1 .. Len(fs) - 1 : May(fs[i], fs[i + 1]) /\ fs[i][1] # "close_1"
               /\ fs[Len(fs)][1] = "mt_load_2"
<1> DEFINE f == <<"detach", a>>
<1> DEFINE g == <<"enable", b>>
<1> DEFINE h == <<"mt_load_2", c>>
<1>1. /\ f[1] = "detach" /\ g[1] = "enable" /\ h[1] = "mt_load_2"
      /\ Mild(f) /\ Mild(g) /\ Mild(h) /\ May(f, g) /\ May(g, h)
  BY DEF Mild, May, Counted
<1> HIDE DEF f, g, h
<1> DEFINE fs == <<f, g, h>>
<1>2. fs \in Seq({f, g, h}) /\ Len(fs) = 3 /\ fs[1] = f /\ fs[2] = g /\ fs[3] = h
  OBVIOUS
<1> HIDE DEF fs
<1>3. IsStack(fs)
  BY <1>2 DEF IsStack
<1>4. \A i \in 1 .. Len(fs) : Mild(fs[i])
  <2>1. SUFFICES ASSUME NEW i \in 1 .. Len(fs) PROVE Mild(fs[i])
    OBVIOUS
  <2>2. i = 1 \/ i = 2 \/ i = 3
    BY <1>2
  <2>3. QED
    BY <1>1, <1>2, <2>2
<1>5. \A i \in 1 .. Len(fs) - 1 : May(fs[i], fs[i + 1]) /\ fs[i][1] # "close_1"
  <2>1. SUFFICES ASSUME NEW i \in 1 .. Len(fs) - 1
                 PROVE  May(fs[i], fs[i + 1]) /\ fs[i][1] # "close_1"
    OBVIOUS
  <2>2. i \in 1 .. 2
    BY <1>2
  <2>3. CASE i = 1
    BY <1>1, <1>2, <2>3
  <2>4. CASE i = 2
    BY <1>1, <1>2, <2>4
  <2>5. QED
    BY <2>2, <2>3, <2>4
<1>6. fs[Len(fs)][1] = "mt_load_2" /\ fs[1][1] = "detach"
  BY <1>1, <1>2
<1>7. QED
  BY <1>2, <1>3, <1>4, <1>5, <1>6 DEF fs, f, g, h

(* ... after looking at the drive again.                                   *)
LEMMA MtLoadOneStep ==
    ASSUME ReleaseInv, MtLoad1
    PROVE  ReleaseInv'
<1>1. Here("mt_load_1") /\ "mt_load_1" \in Plain /\ UNCHANGED <<ftape, drive, zft, incidents>>
  BY DEF MtLoad1, Plain, Unchanged
<1>2. /\ stack # <<>> /\ ~Bare /\ Stays /\ StaysAwake' /\ PlainTop
      /\ Keeps /\ ftape'.level = ftape.level
  BY <1>1, PlainStays
<1>3. ASSUME End PROVE ReleaseInv'
  BY <1>2, <1>3, LeaveStep, Plainly DEF End
<1>4. ASSUME Run(<<Frame("detach", "ok"), Frame("enable", 0), Frame("mt_load_2", TRUE)>>)
      PROVE  ReleaseInv'
  <2> DEFINE fs == <<<<"detach", "ok">>, <<"enable", 0>>, <<"mt_load_2", TRUE>>>>
  <2>1. stack' = fs \o Tail(stack)
    BY <1>4 DEF Run, Frame
  <2>2. /\ IsStack(fs) /\ Len(fs) = 3 /\ fs[1][1] = "detach"
        /\ \A i \in 1 .. Len(fs) : Mild(fs[i])
        /\ \A i \in 1 .. Len(fs) - 1 : May(fs[i], fs[i + 1]) /\ fs[i][1] # "close_1"
        /\ fs[Len(fs)][1] = "mt_load_2"
    BY Again
  <2> HIDE DEF fs
  <2>3. Gives(fs) /\ IsStack(stack) /\ Len(fs) > 0
    BY <1>2, <2>1, <2>2 DEF Gives, ReleaseInv
  <2>4. /\ stack[1][1] = "mt_load_1" /\ stack[1][1] \notin BarePlaces
        /\ Len(stack) > 1 => May(stack[1], stack[2])
        /\ ~(Closed /\ Len(stack) = 1)
    BY <1>1, Under, PlainPlaces DEF Here
  <2>5. Len(stack) > 1 => May(fs[Len(fs)], stack[2])
    BY <2>2, <2>4 DEF May, Chain, Deselecting
  <2>6. Asleep'
    <3>1. stack' # <<>> /\ Head(stack') = fs[1]
      BY <2>3, GivesTop
    <3>2. QED
      BY <2>2, <3>1 DEF Asleep, Here, Idle
  <2>7. QED
    BY <1>2, <2>2, <2>3, <2>4, <2>5, <2>6, Placed
<1>5. QED
  BY <1>3, <1>4 DEF MtLoad1

(* A device call begins: its frames are all there is.                      *)
LEMMA Begins ==
    ASSUME ReleaseInv, Idle, Fields', ~Bare', NEW fs, IsStack(fs), Then(fs),
           UNCHANGED <<ftape, drive, incidents>>, zft'.open = zft.open,
           \A i \in 1 .. Len(fs) : Mild(fs[i]),
           \A i \in 1 .. Len(fs) - 1 : May(fs[i], fs[i + 1]) /\ fs[i][1] # "close_1",
           Closed => fs # <<>> /\
               fs[Len(fs)][1] \in {"open_1", "open_2", "detach", "detached"},
           fs = <<>> \/ Head(fs)[1] \notin {"sleep", "detached", "close_1", "open_1"}
    PROVE  ReleaseInv'
<1>1. stack' = fs /\ stack = <<>> /\ ClosedInv /\ ~Bare /\ Fields
  BY DEF Then, Idle, ReleaseInv, Bare
<1>2. Stacked(stack')
  BY <1>1 DEF Stacked
<1>3. Nested(stack', ftape'.level)
  <2>1. ftape.level = 0
    BY <1>1, Nothing DEF ClosedInv
  <2>2. Calm(stack', 1)
    BY <1>1 DEF Calm, Mild
  <2>3. QED
    BY <2>1, <2>2 DEF Nested
<1>4. Bottom'
  BY <1>1 DEF Bottom, Closed
<1>5. CommandsOK'
  <2>1. \A i \in 1 .. Len(fs) :
            /\ ~(fs[i][1] = "command" /\ fs[i][2] = "format_mode")
            /\ fs[i][1] \notin {"checked", "recheck"} /\ ~Deselecting(fs[i])
    BY DEF Mild, Deselecting, Counted
  <2>2. QED
    BY <1>1, <2>1 DEF CommandsOK, Deselecting
<1>6. BareOK'
  BY DEF BareOK
<1>7. StaysAwake'
  <2>1. ~Trying
    <3>1. ~(Len(stack) >= 2)
      BY <1>1, NoFrames
    <3>2. QED
      BY <1>1, <3>1 DEF Trying, Here
  <2>2. QED
    BY <1>1, <2>1, StillAwake DEF Fields
<1>8. Asleep'
  <2>1. Closed => Released
    BY <1>1 DEF ClosedInv, Asleep, Idle
  <2>2. Closed' => Released'
    BY <2>1 DEF Released, Quiet, Closed
  <2>3. QED
    BY <1>1, <2>2 DEF Asleep, Here, Idle
<1>9. QED
  BY <1>1, <1>2, <1>3, <1>4, <1>5, <1>6, <1>7, <1>8 DEF ReleaseInv, ClosedInv, Fields

(* Frames like most are what most calls begin with.                        *)
LEMMA BeginsFree ==
    ASSUME ReleaseInv, Idle, NEW fs, FreeRun(fs), Then(fs), zft.open = "regular",
           UNCHANGED <<ftape, drive, incidents>>, zft'.open = zft.open,
           DOMAIN zft' = DOMAIN zft
    PROVE  ReleaseInv'
<1>1. Fields' /\ ~Bare' /\ ~Closed /\ IsStack(fs)
  BY DEF ReleaseInv, Fields, Bare, Closed, FreeRun
<1>2. \A i \in 1 .. Len(fs) : Mild(fs[i]) /\ fs[i][1] \notin Proper
  BY DEF FreeRun, Free, Mild
<1>3. \A i \in 1 .. Len(fs) - 1 : May(fs[i], fs[i + 1]) /\ fs[i][1] # "close_1"
  <2>1. \A i \in 1 .. Len(fs) - 1 : i \in 1 .. Len(fs) /\ i + 1 \in 1 .. Len(fs)
    BY <1>1, NewLength
  <2>2. QED
    BY <1>2, <2>1 DEF May, Proper, Chain
<1>4. fs = <<>> \/ Head(fs)[1] \notin {"sleep", "detached", "close_1", "open_1"}
  <2>1. fs # <<>> => 1 \in 1 .. Len(fs) /\ Head(fs) = fs[1]
    BY <1>1, NewLength
  <2>2. QED
    BY <1>2, <2>1 DEF Proper, Chain
<1>5. QED
  BY <1>1, <1>2, <1>3, <1>4, Begins

(* _zft_open() and _zft_close()                                            *)
LEMMA OpenStep ==
    ASSUME ReleaseInv, NEW writer, Open(writer)
    PROVE  ReleaseInv'
<1> DEFINE f == <<"enable", 0>>
<1> DEFINE g == <<"open_1", FALSE>>
<1>1. Then(<<f, g>>) /\ zft' = [zft EXCEPT !.writer = writer]
      /\ Idle /\ zft.open = "closed" /\ UNCHANGED <<ftape, drive, incidents>>
  BY DEF Open, Frame
<1>2. f[1] = "enable" /\ g[1] = "open_1" /\ Mild(f) /\ Mild(g) /\ May(f, g)
  BY DEF Mild, May, Counted, Chain
<1> HIDE DEF f, g
<1> DEFINE fs == <<f, g>>
<1>3. fs \in Seq({f, g}) /\ Len(fs) = 2 /\ fs[1] = f /\ fs[2] = g /\ Head(fs) = f /\ fs # <<>>
  OBVIOUS
<1> HIDE DEF fs
<1>4. IsStack(fs)
  BY <1>3 DEF IsStack
<1>5. \A i \in 1 .. Len(fs) : Mild(fs[i])
  <2>1. SUFFICES ASSUME NEW i \in 1 .. Len(fs) PROVE Mild(fs[i])
    OBVIOUS
  <2>2. i = 1 \/ i = 2
    BY <1>3
  <2>3. QED
    BY <1>2, <1>3, <2>2
<1>6. \A i \in 1 .. Len(fs) - 1 : May(fs[i], fs[i + 1]) /\ fs[i][1] # "close_1"
  <2>1. \A i \in 1 .. Len(fs) - 1 : i = 1 /\ i + 1 = 2
    BY <1>3
  <2>2. QED
    BY <1>2, <1>3, <2>1
<1>7. Fields' /\ ~Bare' /\ zft'.open = zft.open
  BY <1>1 DEF ReleaseInv, Fields, Bare
<1>8. fs # <<>> /\ fs[Len(fs)][1] \in {"open_1", "open_2", "detach", "detached"}
  BY <1>2, <1>3
<1>9. Head(fs)[1] \notin {"sleep", "detached", "close_1", "open_1"}
  BY <1>2, <1>3
<1>10. Then(fs)
  BY <1>1 DEF fs
<1>11. QED
  BY <1>1, <1>4, <1>5, <1>6, <1>7, <1>8, <1>9, <1>10, Begins

(* Frames like most, and ftape_disable() under them.                       *)
LEMMA Closing ==
    ASSUME NEW fs, FreeRun(fs), NEW gs, IsStack(gs), Many(gs, 2),
           gs[1][1] = "detach", gs[2][1] = "close_1"
    PROVE  LET all == fs \o gs
           IN  /\ IsStack(all)
               /\ \A i \in 1 .. Len(all) : Mild(all[i])
               /\ \A i \in 1 .. Len(all) - 1 : May(all[i], all[i + 1]) /\ all[i][1] # "close_1"
               /\ Head(all)[1] \notin {"sleep", "detached", "close_1", "open_1"}
<1> DEFINE all == fs \o gs
<1>1. /\ IsStack(all) /\ Len(fs) \in Nat /\ Len(all) = Len(fs) + 2
      /\ \A i \in 1 .. Len(fs) : all[i] = fs[i]
      /\ all[Len(fs) + 1] = gs[1] /\ all[Len(fs) + 2] = gs[2]
  <2>1. /\ IsStack(all) /\ Len(fs) \in Nat /\ Len(all) = Len(fs) + Len(gs)
        /\ \A i \in 1 .. Len(fs) : all[i] = fs[i]
        /\ \A i \in 1 .. Len(gs) : all[Len(fs) + i] = gs[i]
    <3>1. IsStack(fs)
      BY DEF FreeRun
    <3>2. QED
      BY <3>1, TwoRuns
  <2>2. Len(gs) = 2 /\ 1 \in 1 .. Len(gs) /\ 2 \in 1 .. Len(gs)
    BY DEF Many
  <2>3. QED
    BY <2>1, <2>2
<1> HIDE DEF all
<1>2. \A i \in 1 .. Len(fs) : Mild(all[i]) /\ all[i][1] \notin Proper
  BY <1>1 DEF FreeRun, Free, Mild
<1>3. /\ Mild(all[Len(fs) + 1]) /\ Mild(all[Len(fs) + 2])
      /\ all[Len(fs) + 1][1] = "detach" /\ all[Len(fs) + 2][1] = "close_1"
  BY <1>1 DEF Mild, Counted
<1>4. ASSUME NEW i \in 1 .. Len(all) PROVE Mild(all[i])
  <2>1. i \in 1 .. Len(fs) \/ i = Len(fs) + 1 \/ i = Len(fs) + 2
    BY <1>1
  <2>2. QED
    BY <1>2, <1>3, <2>1
<1>5. ASSUME NEW i \in 1 .. Len(all) - 1
      PROVE  May(all[i], all[i + 1]) /\ all[i][1] # "close_1"
  <2>1. \/ i \in 1 .. Len(fs) /\ i + 1 \in 1 .. Len(fs)
        \/ i \in 1 .. Len(fs) /\ i + 1 = Len(fs) + 1
        \/ i = Len(fs) + 1 /\ i + 1 = Len(fs) + 2
    BY <1>1
  <2>2. CASE i \in 1 .. Len(fs) /\ i + 1 \in 1 .. Len(fs)
    BY <1>2, <2>2 DEF May, Proper, Chain
  <2>3. CASE i \in 1 .. Len(fs) /\ i + 1 = Len(fs) + 1
    BY <1>2, <1>3, <2>3 DEF May, Proper
  <2>4. CASE i = Len(fs) + 1 /\ i + 1 = Len(fs) + 2
    BY <1>3, <2>4 DEF May
  <2>5. QED
    BY <2>1, <2>2, <2>3, <2>4
<1>6. Head(all)[1] \notin {"sleep", "detached", "close_1", "open_1"}
  <2>1. Head(all) = all[1]
    <3>1. all # <<>>
      BY <1>1, NoFrames
    <3>2. QED
      BY <1>1, <3>1, NewLength
  <2>2. 1 \in 1 .. Len(fs) \/ 1 = Len(fs) + 1
    BY <1>1
  <2>3. QED
    BY <1>2, <1>3, <2>1, <2>2 DEF Proper, Chain
<1>7. QED
  BY <1>1, <1>4, <1>5, <1>6 DEF all

(* The door.                                                               *)
LEMMA DoorFrames ==
    /\ Free(Unlock) /\ \A flag : Free(OpenDoor(flag))
    /\ \A a : Free(Frame("get_status", a))
<1>1. {"door", "get_status"} \subseteq Plain
  BY DEF Plain
<1>2. QED
  BY <1>1, PlainFrames DEF Unlock, OpenDoor, Frame

(* _zft_close() rewinds, unlocks the door and disables the drive.          *)
LEMMA CloseStep ==
    ASSUME ReleaseInv, NEW rewind, NEW saved, Close(rewind, saved)
    PROVE  ReleaseInv'
<1> DEFINE going == zft.going_offline /\ ~zft.offline
<1> DEFINE back == IF rewind /\ ~zft.offline THEN ftape_seek_to("at_bot") ELSE <<>>
<1> DEFINE doors == IF going THEN <<Unlock, OpenDoor(TRUE), Frame("get_status", 0)>>
                    ELSE IF saved THEN <<Unlock>> ELSE <<>>
<1> DEFINE gs == <<Frame("detach", "ok"), Frame("close_1", 0)>>
<1>1. /\ Then(back \o doors \o gs) /\ Idle /\ zft.open = "regular"
      /\ UNCHANGED <<ftape, drive, incidents>>
      /\ DOMAIN zft' = DOMAIN zft /\ zft'.open = zft.open
  BY DEF Close, ReleaseInv, Fields
<1>2. FreeRun(back) /\ FreeRun(doors)
  <2>1. FreeRun(back)
    BY OtherRuns, FreeNone
  <2>2. FreeRun(<<Unlock, OpenDoor(TRUE), Frame("get_status", 0)>>) /\ FreeRun(<<Unlock>>)
    BY DoorFrames, FreeTriple, FreeOne
  <2>3. QED
    BY <2>1, <2>2, FreeNone
<1>3. IsStack(gs) /\ Many(gs, 2) /\ gs[1][1] = "detach" /\ gs[2][1] = "close_1"
  <2>1. gs \in Seq({Frame("detach", "ok"), Frame("close_1", 0)})
    OBVIOUS
  <2>2. QED
    BY <2>1 DEF IsStack, Frame, Many
<1> HIDE DEF back, doors, gs
<1>4. FreeRun(back \o doors)
  BY <1>2, FreeMore
<1> DEFINE fs == back \o doors \o gs
<1>5. /\ IsStack(fs)
      /\ \A i \in 1 .. Len(fs) : Mild(fs[i])
      /\ \A i \in 1 .. Len(fs) - 1 : May(fs[i], fs[i + 1]) /\ fs[i][1] # "close_1"
      /\ Head(fs)[1] \notin {"sleep", "detached", "close_1", "open_1"}
  <2> DEFINE free == back \o doors
  <2>1. FreeRun(free)
    BY <1>4
  <2> HIDE DEF free
  <2>2. LET all == free \o gs
        IN  /\ IsStack(all)
            /\ \A i \in 1 .. Len(all) : Mild(all[i])
            /\ \A i \in 1 .. Len(all) - 1 : May(all[i], all[i + 1]) /\ all[i][1] # "close_1"
            /\ Head(all)[1] \notin {"sleep", "detached", "close_1", "open_1"}
    BY <1>3, <2>1, Closing
  <2>3. QED
    BY <2>2 DEF free
<1>6. Then(fs)
  BY <1>1
<1> HIDE DEF fs
<1>7. Fields' /\ ~Bare' /\ ~Closed
  BY <1>1 DEF ReleaseInv, Fields, Bare, Closed
<1>8. QED
  BY <1>1, <1>5, <1>6, <1>7, Begins

(* zft_read(), zft_write() and the ioctls                                  *)
LEMMA UseStep ==
    ASSUME ReleaseInv, NEW overruns, Use(overruns)
    PROVE  ReleaseInv'
<1> DEFINE slower == IF overruns THEN <<Frame("half_rate", 0)>> ELSE <<>>
<1>1. /\ Then(slower \o ftape_seek_head \o <<Frame("use_1", 0)>>) /\ Idle
      /\ zft.open = "regular" /\ UNCHANGED <<ftape, drive, zft, incidents>>
  BY DEF Use, Ready
<1>2. Free(Frame("half_rate", 0)) /\ Free(Frame("use_1", 0))
  <2>1. {"half_rate", "use_1"} \subseteq Plain
    BY DEF Plain
  <2>2. QED
    BY <2>1, PlainFrames DEF Frame
<1>3. FreeRun(slower) /\ FreeRun(<<Frame("use_1", 0)>>)
  BY <1>2, FreeOne, FreeNone
<1> HIDE DEF slower
<1>4. FreeRun(slower \o ftape_seek_head \o <<Frame("use_1", 0)>>)
  BY <1>3, OtherRuns, FreeMore
<1>5. QED
  BY <1>1, <1>4, BeginsFree

(* mt_reset(), mt_load(), mt_offl() and mt_setpart() begin.                *)
LEMMA MtCallsStep ==
    ASSUME ReleaseInv,
           MtReset \/ CallMtLoad \/ MtOffl \/ (\E p \in {0, 1} : MtSetPart(p))
    PROVE  ReleaseInv'
<1> USE DEF Ready
<1>1. {"reset_drive", "mt_reset_1", "mt_load", "set_part"} \subseteq Plain
  BY DEF Plain
<1>2. \A end : FreeRun(ftape_seek_to(end))
  BY OtherRuns
<1>3. ASSUME MtReset PROVE ReleaseInv'
  <2>1. Free(Frame("reset_drive", 0)) /\ Free(Frame("mt_reset_1", 0))
    BY <1>1, PlainFrames DEF Frame
  <2>2. FreeRun(ftape_seek_to("at_bot") \o <<Frame("reset_drive", 0), Frame("mt_reset_1", 0)>>)
    BY <1>2, <2>1, FreePair, FreeMore
  <2>3. QED
    BY <1>3, <2>2, BeginsFree DEF MtReset
<1>4. ASSUME CallMtLoad PROVE ReleaseInv'
  <2>1. FreeRun(<<Frame("mt_load", TRUE)>>)
    BY <1>1, PlainFrames, FreeOne DEF Frame
  <2>2. QED
    BY <1>4, <2>1, BeginsFree DEF CallMtLoad
<1>5. ASSUME MtOffl PROVE ReleaseInv'
  <2>1. FreeRun(<<Unlock, OpenDoor(TRUE), Frame("get_status", 0)>>)
    BY DoorFrames, FreeTriple
  <2>2. DOMAIN zft' = DOMAIN zft /\ zft'.open = zft.open
    BY <1>5 DEF MtOffl, ReleaseInv, Fields
  <2>3. /\ Idle /\ zft.open = "regular" /\ UNCHANGED <<ftape, drive, incidents>>
        /\ \/ Then(<<Unlock, OpenDoor(TRUE), Frame("get_status", 0)>>)
           \/ Then(ftape_seek_to("at_bot"))
    BY <1>5 DEF MtOffl
  <2>4. QED
    BY <1>2, <2>1, <2>2, <2>3, BeginsFree
<1>6. ASSUME NEW p, MtSetPart(p) PROVE ReleaseInv'
  <2> DEFINE back == IF zft.tables # NoTables THEN ftape_seek_to("at_bot") ELSE <<>>
  <2>1. /\ Then(back \o <<Frame("set_part", p)>>) /\ Idle /\ zft.open = "regular"
        /\ UNCHANGED <<ftape, drive, zft, incidents>>
    BY <1>6 DEF MtSetPart
  <2>2. FreeRun(back) /\ FreeRun(<<Frame("set_part", p)>>)
    BY <1>1, <1>2, FreeNone, PlainFrames, FreeOne DEF Frame
  <2> HIDE DEF back
  <2>3. FreeRun(back \o <<Frame("set_part", p)>>)
    BY <2>2, FreeMore
  <2>4. QED
    BY <2>1, <2>3, BeginsFree
<1>7. QED
  BY <1>3, <1>4, <1>5, <1>6

(* The bare device                                                         *)
LEMMA OpenBareStep ==
    ASSUME ReleaseInv, OpenBare
    PROVE  ReleaseInv'
<1>1. Idle /\ zft.open = "closed" /\ UNCHANGED <<drive, stack, ret>> /\ stack' = <<>>
  BY DEF OpenBare, Idle
<1>2. Fields /\ ClosedInv /\ ~Bare /\ Closed /\ ftape.level = 0
  <2>1. Fields /\ ClosedInv /\ ~Bare /\ Closed
    BY <1>1 DEF ReleaseInv, Bare, Closed
  <2>2. QED
    BY <1>1, <2>1, Nothing DEF ClosedInv, Idle
<1>3. ASSUME Fine, zft' = [zft EXCEPT !.open = "bare"],
             ftape' = [ftape EXCEPT !.active = TRUE, !.failure = FALSE, !.fdc = TRUE,
                                    !.fdc_rate = ftape.data_rate]
      PROVE  ReleaseInv'
  <2>1. Fields' /\ Bare' /\ ~Closed' /\ ftape'.level = 0
    BY <1>1, <1>2, <1>3 DEF Fields, Fine, Bare, Closed
  <2>2. QED
    BY <1>1, <2>1, Rests
<1>4. ASSUME Fault, UNCHANGED zft, ftape' = [ftape EXCEPT !.failure = FALSE]
      PROVE  ReleaseInv'
  <2>1. incidents' \in Nat /\ incidents' # 0
    BY <1>2, <1>4 DEF Fault, Fields
  <2>2. /\ Fields' /\ ftape'.level = 0
        /\ ftape'.active = ftape.active /\ ftape'.fdc = ftape.fdc
    BY <1>1, <1>2, <1>4, <2>1 DEF Fields
  <2>3. StaysAwake'
    BY <2>1 DEF StaysAwake
  <2>4. Released
    BY <1>1, <1>2 DEF ClosedInv, Asleep
  <2>5. Released'
    BY <2>1, <2>2, <2>4 DEF Released, Quiet
  <2>6. QED
    BY <1>1, <2>2, <2>3, <2>5, Rests
<1>5. QED
  BY <1>3, <1>4 DEF OpenBare

(* Nobody sends "format mode" by hand to a drive that is known to refuse   *)
(* it: ftape_command() would count a level and never count it down.        *)
FormatsByHand ==
    \A k \in Kinds : "format_mode" \in k.bare => "cant_format" \notin k.flags

(* mtiocftcmd() sends a command by hand.                                   *)
LEMMA BareCommandStep ==
    ASSUME ReleaseInv, FormatsByHand, NEW c \in drive.kind.bare, BareCommand(c)
    PROVE  ReleaseInv'
<1> DEFINE f == <<"command", c>>
<1> DEFINE g == <<"bare_1", c>>
<1>1. /\ stack' = <<f, g>> /\ Idle /\ zft.open = "bare" /\ UNCHANGED <<drive, zft, incidents>>
      /\ ftape' = [ftape EXCEPT !.diagnostic = TRUE]
  BY DEF BareCommand, Then, Frame
<1>2. f[1] = "command" /\ f[2] = c /\ g[1] = "bare_1"
  OBVIOUS
<1> HIDE DEF f, g
<1> DEFINE fs == <<f, g>>
<1>3. fs \in Seq({f, g}) /\ Len(fs) = 2 /\ fs[1] = f /\ fs[2] = g
  OBVIOUS
<1> HIDE DEF fs
<1>4. stack' = fs /\ \A i \in 1 .. Len(fs) : fs[i] = f \/ fs[i] = g
  <2>1. SUFFICES ASSUME NEW i \in 1 .. Len(fs) PROVE fs[i] = f \/ fs[i] = g
    BY <1>1 DEF fs
  <2>2. i = 1 \/ i = 2
    BY <1>3
  <2>3. QED
    BY <1>3, <2>2
<1>5. Fields /\ ClosedInv /\ Bare /\ ~Closed /\ ftape.level = 0
  <2>1. Fields /\ ClosedInv /\ Bare /\ ~Closed
    BY <1>1 DEF ReleaseInv, Bare, Closed
  <2>2. QED
    BY <1>1, <2>1, Nothing DEF ClosedInv, Idle
<1>6. Fields' /\ Bare' /\ ~Closed' /\ ftape'.level = 0
  BY <1>1, <1>5 DEF Fields, Bare, Closed
<1>7. Stacked(fs)
  <2>1. \A i \in 1 .. Len(fs) - 1 : i = 1 /\ i + 1 = 2
    BY <1>3
  <2>2. May(f, g) /\ f[1] # "close_1"
    BY <1>2 DEF May
  <2>3. QED
    BY <1>3, <2>1, <2>2 DEF Stacked
<1>8. Nested(fs, ftape'.level)
  <2>1. \A i \in 1 .. Len(fs) : fs[i][1] \notin Counted
    BY <1>2, <1>4 DEF Counted
  <2>2. QED
    BY <1>6, <2>1 DEF Nested, Calm
<1>9. CommandsOK'
  <2>1. c = "format_mode" => "cant_format" \notin drive.kind.flags
    BY <1>5 DEF FormatsByHand, Fields
  <2>2. ASSUME NEW i \in 1 .. Len(fs)
        PROVE  /\ fs[i][1] = "command" /\ fs[i][2] = "format_mode"
                    => "cant_format" \notin drive'.kind.flags
               /\ fs[i][1] \in {"checked", "recheck"} => fs[i][2] # "deselect"
    BY <1>1, <1>2, <1>4, <2>1
  <2>3. QED
    BY <1>4, <1>6, <2>2 DEF CommandsOK
<1>10. BareOK'
  BY <1>2, <1>4 DEF BareOK, BarePlaces
<1>11. IsStack(fs)
  BY <1>3 DEF IsStack
<1>12. QED
  BY <1>4, <1>6, <1>7, <1>8, <1>9, <1>10, <1>11 DEF ReleaseInv, ClosedInv, Bottom, Fields

(* ftape_disable_bare() forgets how the drive was woken up.                *)
LEMMA CloseBareStep ==
    ASSUME ReleaseInv, CloseBare
    PROVE  ReleaseInv'
<1>1. /\ Idle /\ stack' = <<>> /\ zft' = [zft EXCEPT !.open = "closed"]
      /\ ftape' = [ftape EXCEPT !.fdc = FALSE, !.active = FALSE, !.failure = TRUE,
                                !.wake_up = "unknown", !.init_needed = TRUE]
      /\ UNCHANGED <<drive, incidents>>
  BY DEF CloseBare, Idle
<1>2. Fields /\ ftape.level = 0
  BY <1>1, Nothing DEF ReleaseInv, ClosedInv, Idle
<1>3. /\ Fields' /\ ftape'.level = 0 /\ ftape'.wake_up = "unknown"
      /\ ~ftape'.active /\ ~ftape'.fdc
  BY <1>1, <1>2 DEF Fields
<1>4. drive'.kind.wake_up # "unknown"
  BY <1>1, <1>2, KindsAssumption DEF Fields
<1>5. StaysAwake' /\ Released'
  BY <1>3, <1>4 DEF StaysAwake, Released, Quiet
<1>6. QED
  BY <1>1, <1>3, <1>5, Rests

-----------------------------------------------------------------------------
(* The drive and the cartridge, and the whole                               *)

(* What the driver keeps is not changed, nor the drive's kind or sleep.    *)
LEMMA Aside ==
    ASSUME ReleaseInv, UNCHANGED <<ftape, stack, ret, zft>>,
           drive'.kind = drive.kind, drive'.awake = drive.awake, DOMAIN drive' = DOMAIN drive,
           incidents' \in Nat, incidents' >= incidents
    PROVE  ReleaseInv'
<1>1. Fields' /\ ClosedInv /\ (incidents' = 0 => incidents = 0)
  BY DEF ReleaseInv, Fields
<1>2. (Bare' <=> Bare) /\ (Closed' <=> Closed) /\ (Trying' <=> Trying)
  BY DEF Bare, Closed, Trying, Here, Failed
<1>3. Quiet => Quiet'
  BY <1>1 DEF Quiet
<1>4. Released => Released'
  BY <1>3 DEF Released
<1>5. StaysAwake => StaysAwake'
  BY <1>1, <1>2 DEF StaysAwake
<1>6. Asleep => Asleep'
  BY <1>2, <1>3, <1>4 DEF Asleep, Here, Idle, Failed, Arg
<1>7. (Bottom /\ CommandsOK /\ BareOK) => (Bottom /\ CommandsOK /\ BareOK)'
  BY <1>2 DEF Bottom, CommandsOK, BareOK
<1>8. QED
  BY <1>1, <1>2, <1>5, <1>6, <1>7 DEF ReleaseInv, ClosedInv

(* A drive that is done with a motion is no less awake.                    *)
LEMMA Finished ==
    ASSUME NEW t, {"kind", "awake"} \subseteq DOMAIN t
    PROVE  Done(t).kind = t.kind /\ Done(t).awake = t.awake /\ DOMAIN Done(t) = DOMAIN t
<1> DEFINE s == [t EXCEPT !.ready = TRUE, !.job = "none"]
<1>1. s.kind = t.kind /\ s.awake = t.awake /\ DOMAIN s = DOMAIN t
  OBVIOUS
<1>2. CASE t.job = "reverse"
  BY <1>1, <1>2 DEF Done
<1>3. CASE t.job \in {"fast", "forward"}
  BY <1>1, <1>3 DEF Done
<1>4. CASE t.job = "load_point"
  BY <1>1, <1>4 DEF Done
<1>5. CASE t.job = "stop"
  BY <1>1, <1>5 DEF Done
<1>6. CASE t.job \notin {"reverse", "fast", "forward", "load_point", "stop"}
  BY <1>1, <1>6 DEF Done
<1>7. QED
  BY <1>2, <1>3, <1>4, <1>5, <1>6

(* The drive finishes, a cartridge is removed or inserted.                 *)
LEMMA WorldStep ==
    ASSUME ReleaseInv, World
    PROVE  ReleaseInv'
<1>1. Fields
  BY DEF ReleaseInv
<1>2. ASSUME DriveDone PROVE ReleaseInv'
  <2>1. /\ drive'.kind = drive.kind /\ drive'.awake = drive.awake
        /\ DOMAIN drive' = DOMAIN drive
    BY <1>1, <1>2, Finished DEF DriveDone, Fields
  <2>2. QED
    BY <1>1, <1>2, <2>1, Aside DEF DriveDone, Fields
<1>3. ASSUME Remove PROVE ReleaseInv'
  <2>1. /\ drive'.kind = drive.kind /\ drive'.awake = drive.awake
        /\ DOMAIN drive' = DOMAIN drive
    BY <1>1, <1>3 DEF Remove, Removed, Fields
  <2>2. incidents' \in Nat /\ incidents' >= incidents
    BY <1>1, <1>3 DEF Remove, Fault, Fields
  <2>3. QED
    BY <1>3, <2>1, <2>2, Aside DEF Remove
<1>4. ASSUME NEW c, Insert(c) PROVE ReleaseInv'
  <2>1. /\ drive'.kind = drive.kind /\ drive'.awake = drive.awake
        /\ DOMAIN drive' = DOMAIN drive
    BY <1>1, <1>4 DEF Insert, Inserted, Busy, Fields
  <2>2. QED
    BY <1>1, <1>4, <2>1, Aside DEF Insert, Fields
<1>5. QED
  BY <1>2, <1>3, <1>4 DEF World

(* The step of a function no promise depends on.                           *)
LEMMA PlainMoves ==
    ASSUME ReleaseInv, PlainMove
    PROVE  ReleaseInv'
BY Plainly DEF PlainMove

(* Every step of ftape-io.c, ...                                           *)
LEMMA IoStep ==
    ASSUME ReleaseInv, IoNext
    PROVE  ReleaseInv'
<1>1. CASE Command
  BY <1>1, CommandStep, DeselectCommand
<1>2. CASE Send
  BY <1>2, SentStep, DeselectSent
<1>3. CASE Checked \/ Recheck \/ Parameter \/ ReadyWait \/ Wakeup \/ Wakeup2 \/ Sleep
  BY <1>3, CheckedStep, ParameterStep, ReadyStep, WakeupStep, WakeupTwoStep, SleepStep
<1>4. CASE \/ ThenWait \/ Configuration1 \/ Configuration2 \/ Configuration3
           \/ RateTest \/ RateTest1 \/ RateTest2 \/ SetRate \/ SetRate1 \/ SetRate2
           \/ SetRate3 \/ SetRate3a \/ SetRate4 \/ HalfRate
  BY <1>4, RatesPlain, PlainMoves
<1>5. CASE \/ SeekHead1 \/ Wakeup1 \/ Wakeup1a \/ ResetDrive \/ Reset1 \/ Reset2
           \/ Reset3 \/ Reset4 \/ Reset5
  BY <1>5, ResetPlain, PlainMoves
<1>6. CASE \/ Door \/ Door1 \/ Door2 \/ Door3 \/ Door4 \/ Door5
           \/ Partition1 \/ Partition2 \/ Partition3 \/ Fails \/ SeekTo1
  BY <1>6, DoorPlain, PlainMoves
<1>7. QED
  BY <1>1, <1>2, <1>3, <1>4, <1>5, <1>6 DEF IoNext

(* ... every step of ftape-ctl.c and zftape-ctl.c, ...                     *)
LEMMA CtlStep ==
    ASSUME ReleaseInv, CtlNext
    PROVE  ReleaseInv'
<1>1. CASE \/ Enable \/ Activate \/ Activate1 \/ ActivateAll \/ ActivateGot
           \/ Enable1 \/ Enable2 \/ Enable3 \/ Enable4 \/ Detach \/ Detached
  BY <1>1, EnableStep, ActivateStep, ActivateOneStep, ActivateAllStep, ActivateGotStep,
     EnableOneStep, EnableTwoStep, EnableThreeStep, EnableFourStep, DetachStep, DetachedStep
<1>2. CASE \/ VendorId \/ VendorGot \/ Cms1 \/ Cms2 \/ Cms3 \/ Cms4
           \/ GetStatus \/ StatusLoop \/ Status1 \/ Status2 \/ Status3
  BY <1>2, StatusPlain, PlainMoves
<1>3. CASE \/ InitDrive \/ Init1 \/ Init2 \/ Init3 \/ Init4 \/ Init5 \/ Timeouts \/ Succeeds
           \/ CalibrateRate \/ Calibrate \/ Calibrate1
  BY <1>3, InitPlain, PlainMoves
<1>4. CASE Use1 \/ Use2 \/ SetPart
  BY <1>4, UsePlain, PlainMoves
<1>5. CASE \/ Open1 \/ Open2 \/ Close1 \/ MtReset1 \/ MtLoad \/ MtLoad1 \/ MtLoad2 \/ Bare1
  BY <1>5, OpenOneStep, OpenTwoStep, CloseOneStep, MtResetOneStep, MtLoadStep, MtLoadOneStep,
     MtLoadTwoStep, BareOneStep
<1>6. QED
  BY <1>1, <1>2, <1>3, <1>4, <1>5 DEF CtlNext

(* ... and every device call preserves the invariant.                      *)
LEMMA CallersStep ==
    ASSUME ReleaseInv, FormatsByHand, Callers
    PROVE  ReleaseInv'
<1>1. ASSUME NEW b, Open(b) PROVE ReleaseInv'
  BY <1>1, OpenStep
<1>2. ASSUME NEW b, Use(b) PROVE ReleaseInv'
  BY <1>2, UseStep
<1>3. ASSUME NEW b, NEW saved, Close(b, saved) PROVE ReleaseInv'
  BY <1>3, CloseStep
<1>4. ASSUME MtReset \/ CallMtLoad \/ MtOffl \/ (\E p \in {0, 1} : MtSetPart(p))
      PROVE  ReleaseInv'
  BY <1>4, MtCallsStep
<1>5. ASSUME NEW c \in drive.kind.bare, BareCommand(c) PROVE ReleaseInv'
  BY <1>5, BareCommandStep
<1>6. QED
  BY <1>1, <1>2, <1>3, <1>4, <1>5, OpenBareStep, CloseBareStep DEF Callers

(* It holds before the first call.                                         *)
LEMMA InitStep ==
    ASSUME CtlInit
    PROVE  ReleaseInv
<1>1. PICK k \in Kinds : \E c \in k.fits \cup {Empty} : drive = PowerOn(k, c)
  BY DEF CtlInit
<1>2. /\ {"kind", "awake"} \subseteq DOMAIN drive /\ drive.kind = k
      /\ drive.awake = (k.wake_up = "none")
  BY <1>1 DEF PowerOn
<1>3. /\ {"active", "fdc", "level", "wake_up", "flags"} \subseteq DOMAIN ftape
      /\ ftape.wake_up = "unknown" /\ ftape.level = 0 /\ ftape.flags = {}
      /\ ~ftape.active /\ ~ftape.fdc
  BY DEF CtlInit
<1>4. "open" \in DOMAIN zft /\ zft.open = "closed" /\ stack = <<>> /\ incidents = 0
  BY DEF CtlInit
<1>5. Fields /\ ~Bare
  BY <1>2, <1>3, <1>4 DEF Fields, Bare
<1>6. IsStack(stack) /\ Stacked(stack) /\ Calm(stack, 1) /\ Len(stack) = 0
  BY <1>4, Nothing, NoFrames
<1>7. CommandsOK /\ BareOK /\ Bottom
  BY <1>4, <1>6 DEF CommandsOK, BareOK, Bottom
<1>8. k.wake_up # "unknown"
  BY KindsAssumption
<1>9. StaysAwake /\ Released
  BY <1>2, <1>3, <1>8 DEF StaysAwake, Released, Quiet
<1>10. Asleep
  BY <1>4, <1>9 DEF Asleep, Here
<1>11. QED
  BY <1>3, <1>5, <1>6, <1>7, <1>9, <1>10 DEF ReleaseInv, ClosedInv, Nested, Fields

(***************************************************************************)
(* The invariant holds of every behaviour: of ftape_enable(),              *)
(* ftape_disable(), and of what they and the device calls leave behind on  *)
(* the stack.                                                              *)
(***************************************************************************)
THEOREM ReleaseInvariant ==
    ASSUME FormatsByHand
    PROVE  Spec => []ReleaseInv
<1>1. CtlInit => ReleaseInv
  BY InitStep
<1>2. ReleaseInv /\ [Next]_vars => ReleaseInv'
  <2>1. SUFFICES ASSUME ReleaseInv, [Next]_vars PROVE ReleaseInv'
    OBVIOUS
  <2>2. CASE IoNext \/ CtlNext
    BY <2>1, <2>2, IoStep, CtlStep
  <2>3. CASE Callers
    BY <2>1, <2>3, CallersStep
  <2>4. CASE World
    BY <2>1, <2>4, WorldStep
  <2>5. CASE UNCHANGED vars
    <3>1. /\ UNCHANGED <<ftape, stack, ret, zft>> /\ drive' = drive
          /\ incidents' \in Nat /\ incidents' >= incidents
      BY <2>1, <2>5 DEF vars, ReleaseInv, Fields
    <3>2. QED
      BY <2>1, <3>1, Aside
  <2>6. QED
    BY <2>1, <2>2, <2>3, <2>4, <2>5 DEF Next, Driver
<1>3. QED
  BY <1>1, <1>2, PTL DEF Spec

(***************************************************************************)
(* Between two calls a closed device holds neither the controller nor,     *)
(* unless something went wrong, a drive that is awake: after _zft_close(), *)
(* after a ftape_enable() that failed at any point, and after the bare     *)
(* device was closed.                                                      *)
(***************************************************************************)
THEOREM ReleasedWhenClosed ==
    ASSUME FormatsByHand
    PROVE  Spec => []ClosedIsReleased
<1>1. ReleaseInv => ClosedIsReleased
  <2>1. SUFFICES ASSUME ReleaseInv, Idle, zft.open = "closed" PROVE Released
    BY DEF ClosedIsReleased, Released, Quiet
  <2>2. ~Bare /\ Closed
    BY <2>1 DEF Bare, Closed
  <2>3. QED
    BY <2>1, <2>2 DEF ReleaseInv, ClosedInv, Asleep
<1>2. QED
  BY <1>1, ReleaseInvariant, PTL

(***************************************************************************)
(* ftape_command() counts its levels down again on every path: when a call *)
(* has ended none is left, and during one there are at most two, so that   *)
(* no command is ever refused for the depth it is called at.               *)
(***************************************************************************)
THEOREM LevelsAreCounted ==
    ASSUME FormatsByHand
    PROVE  Spec => [](ftape.level \in 0 .. 2 /\ (Idle => ftape.level = 0))
<1>1. ReleaseInv => ftape.level \in 0 .. 2
  <2>1. ASSUME ReleaseInv PROVE ftape.level \in {0, 1, 2}
    BY <2>1 DEF ReleaseInv, ClosedInv, Nested
  <2>2. QED
    BY <2>1
<1>2. ReleaseInv => (Idle => ftape.level = 0)
  BY Nothing DEF ReleaseInv, ClosedInv, Idle
<1>3. QED
  BY <1>1, <1>2, ReleaseInvariant, PTL
=============================================================================
