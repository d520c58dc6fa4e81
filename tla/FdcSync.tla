------------------------------ MODULE FdcSync ------------------------------
(***************************************************************************)
(* How the process and the interrupt handler share the floppy controller:  *)
(* the nested masking of the controller's interrupt (fdc_disable_irq), the *)
(* sleep until an interrupt (fdc_interrupt_wait), the reset that ends a    *)
(* sleep in vain (fdc_reset), and the seek by which the handler itself     *)
(* sends a command to the drive, hidden from the process                   *)
(* (hide_interrupt, fdc_seek_check).                                       *)
(*                                                                         *)
(* The process runs nested C functions: stack is its call stack, topmost   *)
(* frame first.  A frame is at a label of its function; what lies between  *)
(* two labels runs with the interrupt masked, or touches nothing the       *)
(* handler looks at.  Interrupts come between any two steps, if they are   *)
(* not masked.  One run of the handler is one action.                      *)
(***************************************************************************)
EXTENDS Integers, Sequences

CONSTANTS Cylinders,    \* the controller's cylinder numbers
          Clusters,     \* clusters in the segment the process waits for
          MaxFaults, Faults

ASSUME CylindersAssumption == 0 \in Cylinders /\ Cylinders \subseteq Nat
ASSUME ClustersAssumption == Clusters \in Nat \ {0}
ASSUME SyncFaultsAssumption ==
    /\ MaxFaults \in Nat
    /\ Faults \subseteq {"lost", "wakeup", "command", "pause"}

VARIABLES
    stack, ret,       \* the process: call stack, result of the last call
    irq_level,        \* fdc->irq_level, the interrupt is masked if > 0
    mode,             \* fdc->mode
    hide_interrupt, interrupt_seen, resetting, in_reset, active,
    seek_result,      \* fdc->seek_result & ST0_SEEK_END
    current_cylinder, \* fdc->current_cylinder
    work,             \* the controller: the command it executes
    intr,             \* the command whose interrupt is to be served
    pcn,              \* the cylinder the controller is at
    left,             \* clusters still to be transferred to or from TAIL
    faults            \* how many faults of each kind have occurred

driver == <<mode, hide_interrupt, interrupt_seen, resetting, in_reset, active,
            seek_result, current_cylinder>>
hardware == <<work, intr, pcn>>
vars == <<stack, ret, irq_level, driver, hardware, left, faults>>

(* by: who sent the command; from: the cylinder from which the sender has  *)
(* worked out the target of a seek, which is as many cylinders away as the *)
(* drive is to see steps; exact: the head was there when the seek began.   *)
Commands == [ op : {"none", "other", "seek", "readid", "xfer", "poll", "stray"},
              from : Cylinders, to : Cylinders, by : {"process", "isr"},
              exact : BOOLEAN ]
IsrCommand(c) == c.op = "seek" /\ c.by = "isr"
Cmd(op) == [op |-> op, from |-> 0, to |-> 0, by |-> "process", exact |-> TRUE]
None    == Cmd("none")

Labels == {"iw", "iw_sleep", "iw_cleaned", "reset", "reset_waited", "reset_specify",
           "reset_end", "issue", "issue_checked", "seek", "seek_lock", "seek_issued",
           "seek_failed", "seek_waited", "readid", "readid_issued", "setup",
           "setup_perpend", "setup_done", "waitseg", "waitseg_end", "stop", "stop_end",
           "disable", "disable_reset", "disable_lock", "disable_end"}
Frames == [at : Labels, cmd : Commands]
Frame(at) == [at |-> at, cmd |-> None]

(* How deeply the masking of the interrupt can nest: the function that has *)
(* a command issued masks it, and so does the wait that this may need.     *)
MaxLevel == 2

SyncTypeOK ==
    /\ stack \in Seq(Frames) /\ ret \in {"ok", "err"}
    /\ irq_level \in 0 .. MaxLevel
    /\ mode \in {"idle", "other", "seek", "readid", "xfer"}
    /\ {hide_interrupt, interrupt_seen, resetting, in_reset, active, seek_result}
          \subseteq BOOLEAN
    /\ current_cylinder \in Cylinders /\ pcn \in Cylinders
    /\ work \in Commands /\ intr \in Commands
    /\ left \in 0 .. Clusters
    /\ faults \in [Faults -> 0 .. MaxFaults]

Init ==
    /\ stack = <<>> /\ ret = "ok"
    /\ irq_level = 0
    /\ mode = "idle" /\ hide_interrupt = FALSE /\ interrupt_seen = FALSE
    /\ resetting = FALSE /\ in_reset = FALSE /\ active = FALSE
    /\ seek_result = FALSE /\ current_cylinder = 0
    /\ work = None /\ intr = None /\ pcn = 0
    /\ left = 0 /\ faults = [kind \in Faults |-> 0]

(* MaxFaults bounds the faults of each kind.                               *)
Fault(kind) ==
    /\ kind \in Faults /\ faults[kind] < MaxFaults
    /\ faults' = [faults EXCEPT ![kind] = @ + 1]

-----------------------------------------------------------------------------
(* The call stack                                                           *)

Top == Head(stack)
At(label) == stack # <<>> /\ Top.at = label

Goto(label) == stack' = <<[Top EXCEPT !.at = label]>> \o Tail(stack) /\ UNCHANGED ret
Call(callee, label) ==
    /\ stack' = <<callee, [Top EXCEPT !.at = label]>> \o Tail(stack)
    /\ UNCHANGED ret
Return(r) == stack' = Tail(stack) /\ ret' = r

(* fdc_enable_irq() complains of a level below 1 and takes it for 1.       *)
fdc_enable_irq(level) == IF level <= 0 THEN 0 ELSE level - 1
fdc_disable_irq(level) == level + 1

-----------------------------------------------------------------------------
(* The controller                                                           *)

MsrBusy == {work.op, intr.op} \cap {"xfer", "readid"} # {}

(* A command ends with an interrupt, unless that is lost.                  *)
Complete ==
    /\ work # None
    /\ work' = None
    /\ \/ intr' = work /\ UNCHANGED faults
       \/ Fault("lost") /\ UNCHANGED intr
    /\ pcn' = IF work.op = "seek" THEN work.to ELSE pcn
    /\ UNCHANGED <<stack, ret, irq_level, driver, left>>

(* A reset ends whatever goes on; an interrupt that was already raised may *)
(* still reach the handler, without a cause.  polls: what is raised next.  *)
dor_reset(polls) ==
    /\ work' \in {Cmd(op) : op \in polls}
    /\ intr' \in IF intr = None THEN {None} ELSE {None, Cmd("stray")}
    /\ pcn' = 0

(* __fdc_command() writes a command to the controller.                     *)
__fdc_command(cmd) ==
    \/ /\ MsrBusy                                  \* -EBUSY
       /\ ret' = "err"
       /\ UNCHANGED <<mode, work, faults>>
    \/ /\ ~MsrBusy /\ Fault("command")             \* fdc_write timeout, fatal
       /\ ret' = "err" /\ mode' = cmd.op
       /\ UNCHANGED work
    \/ /\ ~MsrBusy
       /\ ret' = "ok" /\ mode' = cmd.op
       /\ work' = IF cmd.op = "other" THEN work
                  ELSE [cmd EXCEPT !.exact = (cmd.from = pcn)]
       /\ UNCHANGED faults

-----------------------------------------------------------------------------
(* fdc_interrupt_wait(), called with the interrupt masked once              *)

Wait ==
    /\ At("iw")
    /\ irq_level' = fdc_enable_irq(irq_level)
    /\ Goto("iw_sleep")
    /\ UNCHANGED <<driver, hardware, left, faults>>

Woken ==
    /\ At("iw_sleep") /\ interrupt_seen
    /\ interrupt_seen' = FALSE
    /\ Return("ok")
    /\ UNCHANGED <<irq_level, mode, hide_interrupt, resetting, in_reset, active,
                   seek_result, current_cylinder, hardware, left, faults>>

(* No interrupt will come: nothing is under way any more, and the          *)
(* interrupt is masked or has been served or lost.                         *)
Hopeless == work = None /\ (irq_level > 0 \/ intr = None)

(* The time is up, or a signal ended the sleep.                            *)
WaitInVain ==
    /\ At("iw_sleep") /\ ~interrupt_seen
    /\ IF Hopeless THEN UNCHANGED faults ELSE Fault("wakeup")
    /\ Call(Frame("reset"), "iw_cleaned")
    /\ UNCHANGED <<irq_level, driver, hardware, left>>

WaitFailed ==
    /\ At("iw_cleaned")
    /\ Return("err")
    /\ UNCHANGED <<irq_level, driver, hardware, left, faults>>

-----------------------------------------------------------------------------
(* fdc_reset()                                                              *)

(* Mutant: the early return forgets to unmask the interrupt.               *)
ResetNested_Masked ==
    /\ At("reset") /\ in_reset
    /\ irq_level' = fdc_disable_irq(irq_level)
    /\ Return(ret)
    /\ UNCHANGED <<driver, hardware, left, faults>>

(* A reset within a reset does nothing.                                    *)
ResetNested ==
    /\ At("reset") /\ in_reset
    /\ irq_level' = fdc_enable_irq(fdc_disable_irq(irq_level))
    /\ Return(ret)
    /\ UNCHANGED <<driver, hardware, left, faults>>

Reset ==
    /\ At("reset") /\ ~in_reset
    /\ irq_level' = fdc_disable_irq(irq_level)
    /\ in_reset' = TRUE /\ resetting' = TRUE
    /\ dor_reset({"poll"})
    /\ mode' = "idle" /\ interrupt_seen' = FALSE
    /\ Call(Frame("iw"), "reset_waited")
    /\ UNCHANGED <<hide_interrupt, active, seek_result, current_cylinder, left, faults>>

(* Mutant: a wait in vain does not end the reset.                          *)
ResetOver_Served == ~resetting

(* The interrupt that ends the polling of the drives has been served.      *)
ResetOver == ret = "err" \/ ~resetting

ResetWaited ==
    /\ At("reset_waited")
    /\ IF ResetOver
       THEN Goto("reset_specify") /\ UNCHANGED irq_level
       ELSE /\ irq_level' = fdc_disable_irq(irq_level)
            /\ Call(Frame("iw"), "reset_waited")
    /\ UNCHANGED <<driver, hardware, left, faults>>

(* fdc_set_seek_rate() and fdc_set_drive_specs().                          *)
ResetSpecify ==
    /\ At("reset_specify")
    /\ Call([at |-> "issue", cmd |-> Cmd("other")], "reset_end")
    /\ UNCHANGED <<irq_level, driver, hardware, left, faults>>

ResetEnd ==
    /\ At("reset_end")
    /\ in_reset' = FALSE
    /\ Return(ret)
    /\ UNCHANGED <<irq_level, mode, hide_interrupt, interrupt_seen, resetting, active,
                   seek_result, current_cylinder, hardware, left, faults>>

-----------------------------------------------------------------------------
(* fdc_issue_command() with fdc_seek_check()                                *)

(* Mutant: nobody looks for the handler's seek.                            *)
IsrSeeks_Never == FALSE

(* The handler's seek is under way.                                        *)
IsrSeeks == hide_interrupt

(* With the interrupt masked again: clear interrupt_seen, send.  A polling *)
(* of the drives that nobody waits for any more ends at the command.       *)
SendCommand ==
    /\ interrupt_seen' = FALSE
    /\ __fdc_command(Top.cmd)
    /\ intr' = IF work.op = "poll" /\ work' # work THEN work ELSE intr
    /\ stack' = Tail(stack)
    /\ UNCHANGED <<pcn, hide_interrupt, resetting, in_reset, active, seek_result,
                   current_cylinder, left>>

Issue ==
    /\ At("issue") /\ ~IsrSeeks
    /\ SendCommand
    /\ UNCHANGED irq_level        \* masked and unmasked

IssueWaits ==
    /\ At("issue") /\ IsrSeeks
    /\ irq_level' = fdc_disable_irq(irq_level)
    /\ Call(Frame("iw"), "issue_checked")
    /\ UNCHANGED <<driver, hardware, left, faults>>

IssueChecked ==
    /\ At("issue_checked")
    /\ \/ ~IsrSeeks /\ SendCommand
       \/ /\ IsrSeeks /\ Return("err")
          /\ UNCHANGED <<driver, hardware, left, faults>>
    /\ UNCHANGED irq_level        \* masked and unmasked

-----------------------------------------------------------------------------
(* fdc_seek(): send a command to the drive, as so many steps of its head    *)

Seek ==
    /\ At("seek")
    /\ seek_result' = FALSE
    /\ Goto("seek_lock")
    /\ UNCHANGED <<irq_level, mode, hide_interrupt, interrupt_seen, resetting, in_reset,
                   active, current_cylinder, hardware, left, faults>>

SeekLock ==
    /\ At("seek_lock")
    /\ irq_level' = fdc_disable_irq(irq_level)
    /\ Call([at |-> "issue", cmd |-> Top.cmd], "seek_issued")
    /\ UNCHANGED <<driver, hardware, left, faults>>

SeekIssued ==
    /\ At("seek_issued")
    /\ IF ret = "ok"
       THEN Call(Frame("iw"), "seek_waited") /\ UNCHANGED irq_level
       ELSE /\ Call(Frame("reset"), "seek_failed")
            /\ irq_level' = fdc_enable_irq(irq_level)
    /\ UNCHANGED <<driver, hardware, left, faults>>

SeekFailed ==
    /\ At("seek_failed")
    /\ Return("err")
    /\ UNCHANGED <<irq_level, driver, hardware, left, faults>>

SeekDone == ret = "ok" /\ seek_result /\ current_cylinder = Top.cmd.to

SeekWaited ==
    /\ At("seek_waited")
    /\ Return(IF SeekDone THEN "ok" ELSE "err")
    /\ UNCHANGED <<irq_level, driver, hardware, left, faults>>

-----------------------------------------------------------------------------
(* The other functions that use the controller                              *)

(* ftape_read_id()                                                         *)
ReadId ==
    /\ At("readid")
    /\ irq_level' = fdc_disable_irq(irq_level)
    /\ Call([at |-> "issue", cmd |-> Cmd("readid")], "readid_issued")
    /\ UNCHANGED <<driver, hardware, left, faults>>

ReadIdIssued ==
    /\ At("readid_issued")
    /\ IF ret = "ok"
       THEN stack' = <<Frame("iw")>> \o Tail(stack) /\ UNCHANGED <<irq_level, ret>>
       ELSE Return("err") /\ irq_level' = fdc_enable_irq(irq_level)
    /\ UNCHANGED <<driver, hardware, left, faults>>

(* fdc_setup_read_write(); perpendicular mode is switched first if need be.*)
Setup ==
    /\ At("setup")
    /\ irq_level' = fdc_disable_irq(irq_level)
    /\ \/ Call([at |-> "issue", cmd |-> Cmd("other")], "setup_perpend")
       \/ Call([at |-> "issue", cmd |-> Cmd("xfer")], "setup_done")
    /\ UNCHANGED <<driver, hardware, left, faults>>

SetupPerpend ==
    /\ At("setup_perpend")
    /\ IF ret = "ok" THEN Call([at |-> "issue", cmd |-> Cmd("xfer")], "setup_done")
                     ELSE Goto("setup_done")
    /\ UNCHANGED <<irq_level, driver, hardware, left, faults>>

SetupDone ==
    /\ At("setup_done")
    /\ irq_level' = fdc_enable_irq(irq_level)
    /\ mode' = IF ret = "ok" THEN mode ELSE "idle"
    /\ left' = IF ret = "ok" THEN Clusters ELSE left
    /\ Return(ret)
    /\ UNCHANGED <<hide_interrupt, interrupt_seen, resetting, in_reset, active,
                   seek_result, current_cylinder, hardware, faults>>

(* ftape_wait_segment(): sleep while TAIL is being worked on.  A failure   *)
(* has the operation aborted, which frees the buffers.                     *)
WaitSegment ==
    /\ At("waitseg")
    /\ IF left > 0
       THEN irq_level' = fdc_disable_irq(irq_level) /\ Call(Frame("iw"), "waitseg_end")
       ELSE Return("ok") /\ UNCHANGED irq_level
    /\ UNCHANGED <<driver, hardware, left, faults>>

WaitSegmentEnd ==
    /\ At("waitseg_end")
    /\ IF ret = "ok" THEN Goto("waitseg") /\ UNCHANGED left
                     ELSE Return("err") /\ left' = 0
    /\ UNCHANGED <<irq_level, driver, hardware, faults>>

(* ftape_dumb_stop(): a controller that is busy is reset.                  *)
StopTape ==
    /\ At("stop")
    /\ IF MsrBusy THEN Call(Frame("reset"), "stop_end") ELSE Goto("stop_end")
    /\ UNCHANGED <<irq_level, driver, hardware, left, faults>>

StopTapeEnd ==
    /\ At("stop_end")
    /\ left' = 0
    /\ Return("ok")
    /\ UNCHANGED <<irq_level, driver, hardware, faults>>

(* fdc_disable().  One command stands for the ones that restore the FIFO.  *)
Disable ==
    /\ At("disable")
    /\ \/ Call([at |-> "issue", cmd |-> Cmd("other")], "disable_reset")
       \/ Goto("disable_reset")
    /\ UNCHANGED <<irq_level, driver, hardware, left, faults>>

DisableReset ==
    /\ At("disable_reset")
    /\ resetting' = TRUE
    /\ Goto("disable_lock")
    /\ UNCHANGED <<irq_level, mode, hide_interrupt, interrupt_seen, in_reset, active,
                   seek_result, current_cylinder, hardware, left, faults>>

(* Without a drive selected most controllers do not poll, but interrupt.   *)
DisableLock ==
    /\ At("disable_lock")
    /\ irq_level' = fdc_disable_irq(irq_level)
    /\ interrupt_seen' = FALSE
    /\ dor_reset({"poll", "stray", "none"})
    /\ Call(Frame("iw"), "disable_end")
    /\ UNCHANGED <<mode, hide_interrupt, resetting, in_reset, active, seek_result,
                   current_cylinder, left, faults>>

DisableEnd ==
    /\ At("disable_end")
    /\ resetting' = FALSE /\ active' = FALSE
    /\ work' = None /\ intr' = None
    /\ left' = 0
    /\ Return("ok")
    /\ UNCHANGED <<irq_level, mode, hide_interrupt, interrupt_seen, in_reset,
                   seek_result, current_cylinder, pcn, faults>>

-----------------------------------------------------------------------------
(* ft_send_to_drive() reads current_cylinder before fdc_seek() masks the   *)
(* interrupt, and so before fdc_seek_check() waits for the handler's seek. *)
ft_send_to_drive ==
    \E from, to \in Cylinders :
       /\ from = current_cylinder /\ to # from
       /\ stack' = <<[at |-> "seek", cmd |-> [Cmd("seek") EXCEPT !.from = from,
                                                                !.to = to]]>>

(* What the process may call next: fdc_init_one() while the controller is  *)
(* not in use, else any of the functions; a transfer is set up or an id    *)
(* read only if no transfer is under way (RestartIsSafe of FtapeRead).     *)
NewCall ==
    /\ stack = <<>>
    /\ \/ /\ ~active
          /\ active' = TRUE
          /\ stack' = <<Frame("reset")>>
       \/ /\ active
          /\ \/ \E label \in {"waitseg", "stop", "disable"} : stack' = <<Frame(label)>>
             \/ /\ left = 0 /\ work.op # "xfer"
                /\ \E label \in {"readid", "setup"} : stack' = <<Frame(label)>>
             \/ ft_send_to_drive
          /\ UNCHANGED active
    /\ UNCHANGED <<ret, irq_level, mode, hide_interrupt, interrupt_seen, resetting,
                   in_reset, seek_result, current_cylinder, hardware, left, faults>>

-----------------------------------------------------------------------------
(* fdc_isr()                                                                *)

(* The sleep code at the end of the handler.                               *)
WakeUp == hide_interrupt' = FALSE /\ interrupt_seen' = TRUE

(* A transfer has ended and the handler goes on with the next cluster,     *)
(* stops, or pauses the tape.                                              *)
TransferEnded ==
    \/ /\ WakeUp                                  \* the next cluster
       /\ work' = Cmd("xfer")
       /\ left' = IF left > 0 THEN left - 1 ELSE 0
       /\ UNCHANGED <<mode, seek_result, faults>>
    \/ /\ WakeUp                                  \* stop
       /\ work' = None /\ mode' = "idle" /\ left' = 0
       /\ UNCHANGED <<seek_result, faults>>
    \/ /\ hide_interrupt' = TRUE                  \* pause_tape()
       /\ \E t \in Cylinders \ {current_cylinder} :
             work' = [op |-> "seek", from |-> current_cylinder, to |-> t, by |-> "isr",
                      exact |-> (current_cylinder = pcn)]
       /\ mode' = "seek" /\ seek_result' = FALSE /\ left' = 0
       /\ UNCHANGED <<interrupt_seen, faults>>
    \/ /\ hide_interrupt' = TRUE                  \* pause_tape() fails
       /\ Fault("pause")
       /\ left' = 0
       /\ UNCHANGED <<interrupt_seen, work, mode, seek_result>>

(* The result phase of a command that transferred data or read an id.      *)
handle_fdc_busy ==
    /\ intr.op \in {"xfer", "readid"}
    /\ \/ mode = "xfer" /\ TransferEnded
       \/ /\ mode # "xfer"
          /\ WakeUp
          /\ mode' = "idle"
          /\ UNCHANGED <<work, left, seek_result, faults>>
    /\ UNCHANGED <<resetting, current_cylinder>>

(* Mutant: a reset does not tell the driver where the head is.             *)
SensedCylinder_Seek == IF intr.op = "seek" THEN pcn ELSE current_cylinder

(* What Sense Interrupt Status says of the head's cylinder.                *)
SensedCylinder == IF intr.op = "stray" THEN current_cylinder ELSE pcn

(* The interrupt's cause is asked for: none, a reset, a seek, or one       *)
(* nobody waits for.                                                       *)
SenseInterrupt ==
    /\ intr.op \in {"stray", "poll", "seek"}
    /\ current_cylinder' = SensedCylinder
    /\ resetting' = (resetting /\ intr.op = "stray")
    /\ seek_result' = (seek_result \/ (~resetting /\ mode = "seek" /\ intr.op = "seek"))
    /\ mode' = "idle"
    /\ WakeUp
    /\ UNCHANGED <<work, left, faults>>

fdc_isr ==
    /\ irq_level = 0 /\ active /\ intr # None
    /\ handle_fdc_busy \/ SenseInterrupt
    /\ intr' = None
    /\ UNCHANGED <<stack, ret, irq_level, in_reset, active, pcn>>

Process == \/ Wait \/ Woken \/ WaitInVain \/ WaitFailed
           \/ ResetNested \/ Reset \/ ResetWaited \/ ResetSpecify \/ ResetEnd
           \/ Issue \/ IssueWaits \/ IssueChecked
           \/ Seek \/ SeekLock \/ SeekIssued \/ SeekFailed \/ SeekWaited
           \/ ReadId \/ ReadIdIssued \/ Setup \/ SetupPerpend \/ SetupDone
           \/ WaitSegment \/ WaitSegmentEnd \/ StopTape \/ StopTapeEnd
           \/ Disable \/ DisableReset \/ DisableLock \/ DisableEnd

Next == NewCall \/ Process \/ Complete \/ fdc_isr

(* The process is scheduled, the controller works, the handler is called.  *)
Fairness == WF_vars(Process) /\ WF_vars(Complete) /\ WF_vars(fdc_isr)

Spec == Init /\ [][Next]_vars /\ Fairness

-----------------------------------------------------------------------------
(* Properties                                                               *)

(***************************************************************************)
(* However deeply the calls and their error paths nest, every              *)
(* fdc_disable_irq() is undone: between two calls of the process the       *)
(* interrupt is not masked, and no reset is left unfinished.               *)
(***************************************************************************)
MaskIsReleased == stack = <<>> => irq_level = 0 /\ ~in_reset

(***************************************************************************)
(* The process never writes a command to the controller while the handler  *)
(* has it seek: the steps of the two would reach the drive as one command. *)
(***************************************************************************)
CommandsDoNotMix ==
    [][(Issue \/ IssueChecked) /\ ret' = "ok" => ~IsrCommand(work)]_vars

(***************************************************************************)
(* fdc_seek() succeeds only after the seek it asked for has ended, with    *)
(* the head at the cylinder asked for.  And the head is where the sender   *)
(* of a seek takes it to be, so that the drive sees as many steps as were  *)
(* meant, which is what carries the command to it: for a seek of the       *)
(* handler always, for one of the process if current_cylinder is still     *)
(* what it was when ft_send_to_drive() worked out the target.  It may not  *)
(* be: the interrupt is masked only later, and the handler's pause may end *)
(* in between (see README).  An interrupt that was lost, or not waited for *)
(* because of a signal, leaves the driver without the head's position; no  *)
(* other failure does.                                                     *)
(***************************************************************************)
Undisturbed == \A kind \in Faults \cap {"lost", "wakeup"} : faults[kind] = 0

SeeksAreExact ==
    Undisturbed =>
        /\ (At("seek_waited") /\ SeekDone) => pcn = Top.cmd.to /\ work.op # "seek"
        /\ (work.op = "seek" /\ (work.by = "isr" \/ work.from = current_cylinder))
             => work.exact

(***************************************************************************)
(* The process sleeps in fdc_interrupt_wait() only with the interrupt      *)
(* enabled: otherwise it sleeps until the timeout and resets the           *)
(* controller.                                                             *)
(***************************************************************************)
SleepsUnmasked == At("iw_sleep") => irq_level = 0

(***************************************************************************)
(* Every call ends, whatever interrupts are lost: no wait waits for an     *)
(* interrupt that another wait has consumed, and a reset within a reset    *)
(* does not start over.                                                    *)
(***************************************************************************)
CallsEnd == (stack # <<>>) ~> (stack = <<>>)

=============================================================================
