-------------------------------- MODULE FtapeIo ------------------------------
(***************************************************************************)
(* QIC-117 commands (ftape-io.c): how the driver talks to the drive.       *)
(*                                                                         *)
(* Every exchange with the drive is one step, so that between a status     *)
(* report and the command it was asked for the drive may finish a motion   *)
(* and somebody may change the cartridge.  The functions of the driver are *)
(* frames of a stack: a frame is a place in a function and its argument;   *)
(* ret is what the last function returned, and the status, error code or   *)
(* configuration it passed on.                                             *)
(* Polling is counted in units of the polling delay, in an unsigned of     *)
(* Width values.                                                           *)
(***************************************************************************)
EXTENDS Qic117, FiniteSetsExt

CONSTANTS
    FdcRates,       \* the data rates the controller can be set to
    RateLimit,      \* fdc->rate_limit
    Timeout,        \* every timeout, in polling delays
    Width,          \* 2^32 in the code: the values of an unsigned
    DeadDrives,     \* TRUE: a drive may stay busy for ever
    MaxIncidents    \* bound: faults and removals of a cartridge

ASSUME IoAssumption ==
    /\ Timeout \in 1 .. (Width - 1) /\ Width \in Nat /\ MaxIncidents \in Nat
    /\ RateLimit \in FdcRates

VARIABLES
    ftape,          \* ftape_info_t, as far as it is about the drive
    drive,          \* the drive (external)
    stack, ret,     \* where the driver is
    zft,            \* what zftape keeps: see FtapeCtl
    incidents       \* how often something went wrong

(* A frame of the call stack: where its function is, and its argument.     *)
Frame(place, arg) == <<place, arg>>
Here(place) == stack # <<>> /\ Head(stack)[1] = place
Arg == Head(stack)[2]

Goto(place, arg) == stack' = <<Frame(place, arg)>> \o Tail(stack) /\ UNCHANGED ret
Run(frames) == stack' = frames \o Tail(stack) /\ UNCHANGED ret
RunThen(frames, place, mine) == Run(frames \o <<Frame(place, mine)>>)
Call(f, arg, place, mine) == RunThen(<<Frame(f, arg)>>, place, mine)
NoReport == [rate |-> 0, qic_std |-> "qic_unknown"]
Result(res, st) == [res |-> res, st |-> st, conf |-> NoReport]
Leave(res, st) == stack' = Tail(stack) /\ ret' = Result(res, st)
LeaveReport(conf) ==
    stack' = Tail(stack) /\ ret' = [res |-> "ok", st |-> {}, conf |-> conf]
Failed == ret.res # "ok"

Unchanged == UNCHANGED <<ftape, drive, zft, incidents>>
Fault == incidents < MaxIncidents /\ incidents' = incidents + 1
Fine == UNCHANGED incidents

Ditto == "ditto_max" \in ftape.flags

-----------------------------------------------------------------------------
(* ftape_report_raw_drive_status(): succeeds in one of four trials, or not. *)
(* The commands it sends count one level themselves.                       *)
HeardAt(level) == drive.awake /\ level < 5
UnheardAt(level) == (HeardAt(level) /\ Fault) \/ (~HeardAt(level) /\ Fine)
Heard == HeardAt(ftape.level)
Unheard == UnheardAt(ftape.level)
Reported(f) == [f EXCEPT !.current = IF drive.ready THEN "none" ELSE @]

RawStatus ==
    \/ Heard /\ Fine /\ Leave("ok", Status(drive)) /\ ftape' = Reported(ftape)
    \/ Unheard /\ Leave("eio", {}) /\ UNCHANGED ftape

(* ft_check_cmd_restrictions(), once the status is known: f is ftape so    *)
(* far, c the command.  ftape_command() counts one level less when it is   *)
(* refused.                                                                *)
Interrupts(c) == qic117_cmds[c].motion /\ qic117_cmds[ftape.current].non_intr
Restricted(c) == ~ftape.diagnostic /\ (qic117_cmds[c].mask # {} \/ Interrupts(c))

(* Mutant: the level is not counted down. *)
Refused_Leaks(f) == ftape' = f /\ Leave("eio", {})
Refused(f) == ftape' = [f EXCEPT !.level = @ - 1] /\ Leave("eio", {})

Decide(f, c, st) ==
    LET off == Difference(st, c) IN
    \/ off = {} /\ ftape' = f /\ Goto("send", c)
    \/ "ready" \in off /\ ftape' = f /\ Call("ready_wait", Timeout, "checked", c)
    \/ /\ "ready" \notin off /\ "error" \in off
       /\ ftape' = f /\ Call("command", "error", "recheck", c)
    \/ /\ off # {} /\ {"ready", "error"} \cap off = {}
       /\ Refused([f EXCEPT !.failure =
                       @ \/ {"present", "new", "referenced"} \cap off # {}])

(* ftape_command() *)
Command ==
    /\ Here("command") /\ UNCHANGED <<drive, zft>>
    /\ LET f == [ftape EXCEPT !.level = IF @ >= 5 THEN @ ELSE @ + 1]
           impossible == \/ ftape.level >= 5
                         \/ Arg = "format_mode" /\ "cant_format" \in ftape.flags
       IN  \/ /\ impossible \/ ~Restricted(Arg)
              /\ ftape' = f /\ Fine
              /\ IF impossible THEN Leave("eio", {}) ELSE Goto("send", Arg)
           \/ /\ ~impossible /\ Restricted(Arg)
              /\ \/ /\ HeardAt(f.level) /\ Fine
                    /\ IF Interrupts(Arg) /\ ~drive.ready
                       THEN ftape' = f /\ Call("ready_wait", Timeout, "checked", Arg)
                       ELSE Decide(Reported(f), Arg, Status(drive))
                 \/ UnheardAt(f.level) /\ Refused(f)
Checked ==
    Here("checked") /\ Decide(ftape, Arg, ret.st) /\ UNCHANGED <<drive, zft, incidents>>
Recheck ==
    /\ Here("recheck") /\ UNCHANGED <<drive, zft>>
    /\ \/ Heard /\ Fine /\ Decide(Reported(ftape), Arg, Status(drive))
       \/ Unheard /\ Refused(ftape)

(* The end of ftape_command(): ft_send_to_drive(), and for a report what   *)
(* ftape_report_operation() waits for: the acknowledge and the bits.  The  *)
(* error code read is passed on in the place of the status.                *)
Answer(c) == IF c = "error" THEN {drive.error}
             ELSE IF c = "loader" THEN {x \in {"locked", "open"} : drive[x]} ELSE {}

Send ==
    /\ Here("send")
    /\ ftape' = [ftape EXCEPT !.level = @ - 1, !.current = Arg]
    /\ \/ /\ Fine
          /\ drive' = IF drive.awake THEN Obey(drive, Arg) ELSE drive
          /\ IF Arg \in Reports /\ ~(drive.awake /\ Arg \in drive.kind.answers /\
                                     Difference(Status(drive), Arg) = {})
             THEN Leave("eio", {}) ELSE Leave("ok", Answer(Arg))
       \/ /\ Fault /\ Leave("eio", {})
          /\ drive' \in {drive, IF drive.awake THEN Obey(drive, Arg) ELSE drive}
    /\ UNCHANGED zft

(* ftape_parameter(), and ftape_parameter_wait() with what follows *)
Parameter ==
    /\ Here("parameter")
    /\ \/ Fine /\ drive' = ObeyParameter(drive, Arg.cmd, Arg.value) /\ Leave("ok", {})
       \/ Fault /\ UNCHANGED drive /\ Leave("eio", {})
    /\ UNCHANGED <<ftape, zft>>

ftape_parameter_wait(c, v) ==
    <<Frame("parameter", [cmd |-> c, value |-> v]), Frame("then_wait", 0)>>
ftape_command_wait(c) == <<Frame("command", c), Frame("then_wait", 0)>>
ThenWait ==
    /\ Here("then_wait") /\ Unchanged
    /\ IF Failed THEN Leave(ret.res, ret.st) ELSE Goto("ready_wait", Timeout)

(* ftape_ready_wait(): timeout is unsigned, and the wait is over only when *)
(* it is exactly 0.  A drive that is not ready in time is an incident,     *)
(* unless drives die.                                                      *)
ReadyWait ==
    /\ Here("ready_wait")
    /\ \/ RawStatus /\ (ret'.res = "ok" => drive.ready)
       \/ /\ Heard /\ ~drive.ready /\ UNCHANGED ftape
          /\ \E spent \in {0, 1} :
                LET left == (Arg - spent) % Width IN
                \/ left = 0 /\ (IF DeadDrives THEN Fine ELSE Fault) /\ Leave("etime", {})
                \/ left # 0 /\ Fine /\ Goto("ready_wait", (left - 1) % Width)
    /\ UNCHANGED <<drive, zft>>

-----------------------------------------------------------------------------
(* ftape_report_configuration(): which rate and which cartridge.  A drive  *)
(* without the report is taken for a prehistoric one at 500 Kbps.          *)
ftape_report_configuration == <<Frame("command", "config"), Frame("configuration_1", 0)>>

Configuration1 ==
    /\ Here("configuration_1") /\ Unchanged
    /\ IF Failed THEN LeaveReport([rate |-> 500, qic_std |-> "qic40"])
       ELSE IF Ditto THEN Call("command", "ext_config", "configuration_2", 0)
       ELSE Goto("configuration_2", 0)
Configuration2 ==
    /\ Here("configuration_2") /\ Unchanged
    /\ IF Ditto /\ Failed THEN Leave("eio", {})
       ELSE Call("command", "tape_status", "configuration_3", drive.rate)
Configuration3 ==
    /\ Here("configuration_3") /\ Unchanged
    /\ LeaveReport([rate |-> Arg, qic_std |-> drive.cartridge.qic_std])

(* ftape_set_rate_test(): the highest rate the drive accepts.  Arg is the  *)
(* rate being tried.                                                       *)
TopRate == IF Ditto THEN 4000 ELSE 2000
LowestRate == IF Ditto THEN 1000 ELSE 250
(* Mutant: the rate is not lowered. *)
NextTest_Same(rate) == rate
NextTest(rate) == IF Ditto THEN rate - 1000 ELSE rate \div 2

Tested(rate, yes) ==
    /\ ftape' = [ftape EXCEPT !.drive_max_rate = rate, !.set_rate_supported = yes]
    /\ Leave("ok", {})

RateTest ==
    /\ Here("rate_test") /\ UNCHANGED <<drive, zft, incidents>>
    /\ \/ Arg < LowestRate /\ Tested(Arg, FALSE)
       \/ Arg >= LowestRate /\ UNCHANGED ftape /\ Call("command", "rate", "rate_test_1", Arg)
RateTest1 ==
    /\ Here("rate_test_1") /\ Unchanged
    /\ IF Failed THEN Goto("rate_test", NextTest(Arg))
       ELSE RunThen(ftape_parameter_wait("rate", Arg), "rate_test_2", Arg)
RateTest2 ==
    /\ Here("rate_test_2") /\ UNCHANGED <<drive, zft, incidents>>
    /\ IF Failed THEN Goto("rate_test", NextTest(Arg)) /\ UNCHANGED ftape
       ELSE IF "error" \in ret.st
       THEN Call("command", "error", "rate_test", NextTest(Arg)) /\ UNCHANGED ftape
       ELSE Tested(Arg, TRUE)

(* ftape_set_data_rate(): Arg is the rate and the standard of the cartridge. *)
(* When the parameter could not be sent or no status came back, the status *)
(* tested afterwards was never set.                                        *)
SetRate ==
    /\ Here("set_rate") /\ Unchanged
    /\ IF ftape.drive_max_rate = 0 THEN Call("rate_test", TopRate, "set_rate_1", Arg)
       ELSE Goto("set_rate_1", Arg)
SetRate1 ==
    /\ Here("set_rate_1") /\ Unchanged
    /\ IF ftape.set_rate_supported THEN Call("command", "rate", "set_rate_2", Arg)
       ELSE RunThen(ftape_report_configuration, "set_rate_4", Arg)
SetRate2 ==
    /\ Here("set_rate_2") /\ Unchanged
    /\ RunThen(ftape_parameter_wait("rate", Arg.rate), "set_rate_3", Arg)
SetRate3 ==
    /\ Here("set_rate_3") /\ Unchanged
    /\ \/ (Failed \/ "error" \in ret.st)
          /\ Call("command", "error", "set_rate_3a", Arg)
       \/ (Failed \/ "error" \notin ret.st)
          /\ RunThen(ftape_report_configuration, "set_rate_4", Arg)
SetRate3a ==
    /\ Here("set_rate_3a") /\ Unchanged
    /\ RunThen(ftape_report_configuration, "set_rate_4", Arg)

TooFast(qic_std, rate) == \/ qic_std = "qic40" /\ rate > 500
                          \/ qic_std = "qic80" /\ rate > 1000

SetRate4 ==
    /\ Here("set_rate_4") /\ UNCHANGED <<drive, zft, incidents>>
    /\ \/ Failed /\ Leave("eio", {}) /\ UNCHANGED ftape
       \/ /\ ~Failed
          /\ LET got == ret.conf.rate
                 usable == ~TooFast(Arg.qic_std, got) /\ got \in FdcRates IN
             /\ ftape' = IF usable THEN [ftape EXCEPT !.data_rate = got, !.fdc_rate = got]
                         ELSE ftape
             /\ Leave(IF usable /\ got = Arg.rate THEN "ok" ELSE "einval", {})

(* ftape_half_data_rate() *)
HalfRate ==
    /\ Here("half_rate") /\ Unchanged
    /\ IF ftape.data_rate < 500 THEN Leave("eio", {})
       ELSE Goto("set_rate",
                 [rate |-> IF ftape.data_rate > 2000 THEN ftape.data_rate - 1000
                           ELSE ftape.data_rate \div 2,
                  qic_std |-> ftape.qic_std])

-----------------------------------------------------------------------------
(* ftape_seek_head_to_track() *)
ftape_seek_head == <<Frame("command", "head"), Frame("seek_head_1", 0)>>
SeekHead1 ==
    /\ Here("seek_head_1") /\ Unchanged
    /\ IF Failed THEN Leave(ret.res, {})
       ELSE Run(ftape_parameter_wait("head", 0))

(* ftape_wakeup_drive(): Arg is the method. *)
Wakeup ==
    /\ Here("wakeup") /\ UNCHANGED <<ftape, zft, incidents>>
    /\ \/ Arg \in {"colorado", "mountain"} /\ UNCHANGED drive
          /\ Call("command", "select", "wakeup_1", Arg)
       \/ Arg = "motor" /\ Goto("wakeup_2", Arg)
          /\ drive' = [drive EXCEPT !.awake = @ \/ drive.kind.wake_up = "motor"]
       \/ Arg = "none" /\ Goto("wakeup_2", Arg) /\ UNCHANGED drive
Wakeup1 ==
    /\ Here("wakeup_1") /\ Unchanged
    /\ IF Failed THEN Leave(ret.res, {})
       ELSE Call("parameter", [cmd |-> "select", value |-> Arg], "wakeup_1a", Arg)
Wakeup1a ==
    /\ Here("wakeup_1a") /\ Unchanged
    /\ IF Failed THEN Leave(ret.res, {}) ELSE Goto("wakeup_2", Arg)

MotorOff(m) == IF m = "motor" THEN [drive EXCEPT !.awake = @ /\ drive.kind.wake_up # "motor"]
               ELSE drive

Wakeup2 ==
    /\ Here("wakeup_2") /\ UNCHANGED zft
    /\ RawStatus
    /\ drive' = IF ret'.res = "ok" THEN drive ELSE MotorOff(Arg)

(* ftape_put_drive_to_sleep() *)
Sleep ==
    /\ Here("sleep") /\ UNCHANGED <<ftape, zft, incidents>>
    /\ \/ Arg \in {"colorado", "mountain"} /\ UNCHANGED drive /\ Goto("command", "deselect")
       \/ Arg \notin {"colorado", "mountain"} /\ drive' = MotorOff(Arg) /\ Leave("ok", {})

(* ftape_reset_drive(): twice at most; Arg counts. *)
ResetEnds ==
    /\ ftape' = [ftape EXCEPT !.init_needed = TRUE]
    /\ Leave("eio", {})

ResetDrive ==
    /\ Here("reset_drive") /\ UNCHANGED <<drive, zft, incidents>>
    /\ \/ Arg < 2 /\ Call("command", "reset", "reset_1", Arg) /\ UNCHANGED ftape
       \/ Arg = 2 /\ ResetEnds
Reset1 ==
    /\ Here("reset_1") /\ Unchanged
    /\ IF Failed THEN Goto("reset_drive", Arg + 1)
       ELSE Call("wakeup", ftape.wake_up, "reset_2", Arg)
Reset2 ==
    /\ Here("reset_2") /\ Unchanged /\ Call("ready_wait", Timeout, "reset_3", Arg)
Reset3 ==
    /\ Here("reset_3") /\ Unchanged
    /\ IF ~Failed /\ "error" \in ret.st THEN Call("command", "error", "reset_4", Arg)
       ELSE Goto("reset_drive", Arg + 1)
(* Mutant: the rate is not restored after the reset. *)
Reset4_Forgets ==
    /\ Here("reset_4") /\ Unchanged
    /\ Goto(IF ~Failed /\ ret.st = {SoftReset} THEN "reset_5" ELSE "reset_drive", Arg + 1)
Reset4 ==
    /\ Here("reset_4") /\ Unchanged
    /\ IF ~Failed /\ ret.st = {SoftReset}
       THEN Call("set_rate", [rate |-> ftape.data_rate, qic_std |-> ftape.qic_std],
                 "reset_5", 0)
       ELSE Goto("reset_drive", Arg + 1)
Reset5 ==
    /\ Here("reset_5") /\ UNCHANGED <<drive, zft, incidents>>
    /\ ftape' = [ftape EXCEPT !.init_needed = TRUE] /\ Leave("ok", {})

-----------------------------------------------------------------------------
(* ftape_door_lock(), ftape_door_open() and ftape_set_partition() do       *)
(* something only on a drive with the DITTO MAX extensions.  Arg is what   *)
(* they are to do; the loader's status decides whether the door is to move.*)
Door ==
    /\ Here("door") /\ Unchanged
    /\ IF ~Ditto \/ (Arg.what = "locked" /\ ftape.no_tape) THEN Leave("ok", {})
       ELSE Call("ready_wait", Timeout, "door_1", Arg)
Door1 ==
    /\ Here("door_1") /\ Unchanged
    /\ IF Failed THEN Leave(ret.res, {}) ELSE Call("command", "loader", "door_2", Arg)

Is(what) == (what \in ret.st)

Door2 ==
    /\ Here("door_2") /\ Unchanged
    /\ IF Failed THEN Leave(ret.res, {})
       ELSE IF Arg.what = "partition"
       THEN Call("command", "partition", "partition_1", Arg.flag)
       ELSE IF Arg.what = "locked"
       THEN IF Is("locked") = Arg.flag THEN Leave("ok", {})
            ELSE Run(ftape_command_wait("lock"))
       ELSE IF Is("locked") THEN Leave("eio", {})
       ELSE IF Is("open") = Arg.flag THEN Leave("ok", {})
       ELSE RunThen(ftape_command_wait("load"), "door_3", Arg)

(* The door takes its time, and the drive is ready all the while. *)
Door3 ==
    Here("door_3") /\ Unchanged /\ Call("ready_wait", Timeout, "door_4", Arg)
Door4 ==
    /\ Here("door_4") /\ Unchanged
    /\ IF Failed THEN Leave(ret.res, {}) ELSE Call("command", "loader", "door_5", Arg)
Door5 ==
    /\ Here("door_5") /\ Unchanged
    /\ Leave(IF ~Failed /\ Is("open") = Arg.flag THEN "ok" ELSE "eio", {})

Partition1 ==
    /\ Here("partition_1") /\ Unchanged
    /\ IF Failed THEN Leave(ret.res, {})
       ELSE RunThen(ftape_parameter_wait("partition", Arg), "partition_2", 0)
Partition2 ==
    /\ Here("partition_2") /\ UNCHANGED <<drive, zft, incidents>>
    /\ IF Failed THEN Leave(ret.res, {}) /\ UNCHANGED ftape
       ELSE IF "error" \in ret.st
       THEN Call("command", "error", "partition_3", 0) /\ UNCHANGED ftape
       ELSE /\ ftape' = [ftape EXCEPT !.init_needed = TRUE, !.failure = TRUE]
            /\ Leave("ok", {})
Partition3 ==
    Here("partition_3") /\ Unchanged /\ Call("ready_wait", Timeout, "fails", 0)
Fails == Here("fails") /\ Unchanged /\ Leave("eio", {})

(* ftape_seek_to_bot() and ftape_seek_to_eot(): Arg is the end of the tape. *)
Inoperable(st) == (st \cap {"error", "present", "new"}) # {"present"}

ftape_seek_to(end) == <<Frame("ready_wait", Timeout), Frame("seek_to_1", end)>>
SeekTo1 ==
    /\ Here("seek_to_1") /\ Unchanged
    /\ CASE Failed -> Leave(ret.res, {})
         [] ~Failed /\ Arg \in ret.st -> Leave("ok", {})
         [] ~Failed /\ Arg \notin ret.st ->
               IF Inoperable(ret.st) THEN Leave("eio", {})
               ELSE RunThen(ftape_command_wait(IF Arg = "at_bot" THEN "reverse" ELSE "fast"),
                         "seek_to_1", Arg)

IoNext ==
    \/ Command \/ Checked \/ Recheck \/ Send \/ Parameter \/ ThenWait \/ ReadyWait
    \/ Configuration1 \/ Configuration2 \/ Configuration3
    \/ RateTest \/ RateTest1 \/ RateTest2
    \/ SetRate \/ SetRate1 \/ SetRate2 \/ SetRate3 \/ SetRate3a \/ SetRate4 \/ HalfRate
    \/ SeekHead1 \/ Wakeup \/ Wakeup1 \/ Wakeup1a \/ Wakeup2 \/ Sleep
    \/ ResetDrive \/ Reset1 \/ Reset2 \/ Reset3 \/ Reset4 \/ Reset5
    \/ Door \/ Door1 \/ Door2 \/ Door3 \/ Door4 \/ Door5
    \/ Partition1 \/ Partition2 \/ Partition3 \/ Fails \/ SeekTo1
=============================================================================
