-------------------------------- MODULE FtapeCtl -----------------------------
(***************************************************************************)
(* Drive control (ftape-ctl.c) and the device calls that use it            *)
(* (zftape-ctl.c): opening finds the drive, wakes it up, clears its errors *)
(* and prepares a new cartridge; closing puts it to sleep.                 *)
(*                                                                         *)
(* Of zftape, only what depends on the drive is kept: the cartridge whose  *)
(* header segments and volume table are in memory, and whether the device  *)
(* is offline.  A use of the tape is a head seek, a logical forward and a  *)
(* stop; what is read and written between them is the business of the      *)
(* other modules.  Signals are left out.                                   *)
(***************************************************************************)
EXTENDS FtapeIo

CONSTANTS
    Calls,          \* the device calls tried besides open, close and use
    Habits          \* what users keep to: "close" the device before they
                    \* change the cartridge, "deselect" a drive they woke up
                    \* by hand

vars == <<ftape, drive, stack, ret, zft, incidents>>

Methods == <<"none", "colorado", "mountain", "motor">>
NoTables == Empty

Idle == stack = <<>>
Then(frames) == stack' = frames /\ ret' = Result("ok", {})
End == Leave(ret.res, {})

(* ftape_init_driver(), for a drive with or without a cartridge *)
CtlInit ==
    /\ ftape = [active |-> FALSE, fdc |-> FALSE, failure |-> TRUE,
                wake_up |-> "unknown", vendor |-> "unknown", flags |-> {},
                init_needed |-> TRUE, no_tape |-> TRUE, new_tape |-> TRUE,
                write_protected |-> TRUE, formatted |-> FALSE,
                current |-> "none", level |-> 0, diagnostic |-> FALSE,
                data_rate |-> 500, fdc_rate |-> 500, qic_std |-> "qic_unknown",
                drive_max_rate |-> 0, set_rate_supported |-> FALSE,
                first_time |-> TRUE]
    /\ \E k \in Kinds : \E c \in k.fits \cup {Empty} : drive = PowerOn(k, c)
    /\ zft = [open |-> "closed", writer |-> FALSE, tables |-> NoTables,
              offline |-> FALSE, going_offline |-> FALSE]
    /\ stack = <<>> /\ ret = Result("ok", {}) /\ incidents = 0

-----------------------------------------------------------------------------
(* ftape_enable(): claim the controller, ... *)
Enable ==
    /\ Here("enable") /\ UNCHANGED <<drive, zft>>
    /\ \/ /\ Fine /\ Goto("activate", 0)
          /\ ftape' = [ftape EXCEPT !.active = TRUE, !.failure = FALSE, !.fdc = TRUE,
                                    !.fdc_rate = ftape.data_rate]
       \/ /\ Fault /\ Leave("enxio", {})
          /\ ftape' = [ftape EXCEPT !.failure = FALSE]

(* ... ftape_activate_drive(): the known method first, then all of them, ... *)
Activate ==
    /\ Here("activate") /\ Unchanged
    /\ IF ftape.wake_up = "unknown" THEN Goto("activate_all", 1)
       ELSE Call("wakeup", ftape.wake_up, "activate_1", 0)
Activate1 ==
    /\ Here("activate_1") /\ Unchanged
    /\ IF Failed THEN Goto("activate_all", 1) ELSE Goto("enable_1", 0)
ActivateAll ==
    /\ Here("activate_all") /\ UNCHANGED <<drive, zft, incidents>>
    /\ IF Arg > Len(Methods)
       THEN /\ ftape' = [ftape EXCEPT !.wake_up = "unknown", !.fdc = FALSE,
                                      !.active = FALSE]
            /\ Leave("enodev", {})
       ELSE /\ ftape' = [ftape EXCEPT !.wake_up = Methods[Arg]]
            /\ Call("wakeup", Methods[Arg], "activate_got", Arg)
ActivateGot ==
    /\ Here("activate_got") /\ Unchanged
    /\ IF Failed THEN Goto("activate_all", Arg + 1) ELSE Goto("enable_1", 0)

(* ... identify it once, read and clear its status, ... *)
Enable1 ==
    /\ Here("enable_1") /\ Unchanged
    /\ IF ftape.vendor = "unknown" THEN Call("vendor_id", 1, "enable_2", 0)
       ELSE Goto("enable_2", 0)
Enable2 == Here("enable_2") /\ Unchanged /\ Call("get_status", 0, "enable_3", 0)

(* ... and prepare the cartridge when it is new or was never prepared. *)
Enable3 ==
    /\ Here("enable_3") /\ UNCHANGED <<drive, zft, incidents>>
    /\ IF Failed THEN Goto("detach", "eio") /\ UNCHANGED ftape
       ELSE LET needed == ftape.init_needed \/ ftape.new_tape IN
            /\ ftape' = [ftape EXCEPT !.init_needed = needed]
            /\ IF needed /\ ~ftape.no_tape THEN Call("init_drive", 0, "enable_4", 0)
               ELSE Leave("ok", {})
(* Mutant: the drive is not detached when its preparation fails. *)
Enable4_Stays ==
    /\ Here("enable_4") /\ Unchanged
    /\ IF Failed THEN Leave("eio", {}) ELSE Leave("ok", {})
Enable4 ==
    /\ Here("enable_4") /\ Unchanged
    /\ IF Failed THEN Goto("detach", "eio") ELSE Leave("ok", {})

(* ftape_detach_drive() and the end of ftape_disable(): Arg is the result. *)
Detach ==
    Here("detach") /\ Unchanged /\ Call("sleep", ftape.wake_up, "detached", Arg)
Detached ==
    /\ Here("detached") /\ UNCHANGED <<drive, zft, incidents>>
    /\ ftape' = [ftape EXCEPT !.fdc = FALSE, !.active = FALSE]
    /\ Leave(Arg, {})

(* ftape_log_vendor_id(), ftape_report_vendor_id(): three ways to ask. *)
VendorId ==
    /\ Here("vendor_id") /\ UNCHANGED <<drive, zft, incidents>>
    /\ IF Arg <= 3
       THEN /\ Call("command", IF Arg = 3 THEN "old_vendor" ELSE "vendor", "vendor_got", Arg)
            /\ UNCHANGED ftape
       ELSE /\ ftape' = [ftape EXCEPT
                  !.vendor = IF ftape.wake_up = "colorado" THEN "colorado" ELSE "unknown"]
            /\ Leave("ok", {})
VendorGot ==
    /\ Here("vendor_got") /\ UNCHANGED <<drive, zft, incidents>>
    /\ IF Failed THEN Goto("vendor_id", Arg + 1) /\ UNCHANGED ftape
       ELSE /\ ftape' = [ftape EXCEPT !.vendor = drive.kind.vendor,
                                      !.flags = drive.kind.flags]
            /\ IF drive.kind.vendor = "cms" THEN Call("command", "rom", "cms_1", 0)
               ELSE Leave("ok", {})

(* A Colorado drive is asked for its signature in diagnostic mode, where   *)
(* no command is checked.                                                  *)
Cms1 ==
    /\ Here("cms_1") /\ Unchanged
    /\ IF Failed THEN Leave("ok", {})
       ELSE Run(<<Frame("command", "diagnostic"), Frame("command", "diagnostic"),
                  Frame("cms_2", 0)>>)
Cms2 ==
    /\ Here("cms_2") /\ ftape' = [ftape EXCEPT !.diagnostic = TRUE]
    /\ Call("command", "rom", "cms_3", 0) /\ UNCHANGED <<drive, zft, incidents>>
Cms3 ==
    /\ Here("cms_3") /\ Unchanged
    /\ Run(<<Frame("command", IF Failed THEN "error" ELSE "rom"),
             Frame("command", "primary"), Frame("cms_4", 0)>>)
Cms4 ==
    /\ Here("cms_4") /\ ftape' = [ftape EXCEPT !.diagnostic = FALSE]
    /\ Leave("ok", {}) /\ UNCHANGED <<drive, zft, incidents>>

-----------------------------------------------------------------------------
(* ftape_get_drive_status(): until no error is left. *)
GetStatus ==
    /\ Here("get_status") /\ Goto("status_loop", 0)
    /\ ftape' = [ftape EXCEPT !.no_tape = FALSE, !.write_protected = FALSE,
                              !.new_tape = FALSE]
    /\ UNCHANGED <<drive, zft, incidents>>
StatusLoop ==
    Here("status_loop") /\ Unchanged /\ Call("ready_wait", Timeout, "status_1", 0)
Status1 ==
    /\ Here("status_1") /\ Unchanged
    /\ IF Failed THEN Leave("eio", {})
       ELSE IF "error" \in ret.st THEN Call("command", "error", "status_2", ret.st)
       ELSE Goto("status_2", ret.st)
Status2 ==
    /\ Here("status_2") /\ Unchanged
    /\ IF Failed THEN Call("reset_drive", 0, "fails", 0)
       ELSE IF "new" \in Arg THEN Call("command", "error", "status_3", Arg)
       ELSE Goto("status_3", Arg)
Status3 ==
    /\ Here("status_3") /\ UNCHANGED <<drive, zft, incidents>>
    /\ IF "error" \in Arg
       THEN /\ ftape' = [ftape EXCEPT !.new_tape = @ \/ "new" \in Arg]
            /\ Goto("status_loop", 0)
       ELSE /\ ftape' = [ftape EXCEPT !.new_tape = @ \/ "new" \in Arg,
                                      !.no_tape = "present" \notin Arg,
                                      !.write_protected = "write_protect" \in Arg]
            /\ Leave("ok", {})

(* ftape_init_drive(): rewind, look for the format, negotiate the rate. *)
InitDrive ==
    /\ Here("init_drive") /\ UNCHANGED <<drive, zft>>
    /\ \/ /\ Unheard /\ Leave("eio", {}) /\ ftape' = [ftape EXCEPT !.init_needed = FALSE]
       \/ /\ Heard /\ Fine
          /\ ftape' = [Reported(ftape) EXCEPT !.init_needed = FALSE]
          /\ IF {"present", "at_bot"} \cap Status(drive) = {"present"}
             THEN RunThen(ftape_seek_to("at_bot"), "init_1", Status(drive))
             ELSE Goto("init_1", Status(drive))
Init1 ==
    /\ Here("init_1") /\ Unchanged
    /\ IF {"present", "referenced"} \cap Arg = {"present"}
       THEN RunThen(ftape_command_wait("load_point"), "init_2", 0)
       ELSE Goto("init_3", Arg)
Init2 ==
    /\ Here("init_2") /\ Unchanged
    /\ IF Failed THEN Leave("eio", {}) ELSE Goto("init_3", ret.st)
Init3 ==
    /\ Here("init_3") /\ UNCHANGED <<drive, zft, incidents>>
    /\ ftape' = [ftape EXCEPT !.formatted = "referenced" \in Arg]
    /\ RunThen(ftape_report_configuration, "init_4", 0)
Init4 ==
    /\ Here("init_4") /\ UNCHANGED <<drive, zft, incidents>>
    /\ IF Failed THEN Leave("eio", {}) /\ UNCHANGED ftape
       ELSE IF ftape.formatted
       THEN Call("calibrate_rate", ret.conf.qic_std, "init_5", 0) /\ UNCHANGED ftape
       ELSE /\ ftape' = [ftape EXCEPT !.data_rate = ret.conf.rate]
            /\ Goto("timeouts", 0)

(* A drive said to write QIC-40 and QIC-80 cartridges that it cannot write *)
(* is write protected by hand.                                             *)
Init5 ==
    /\ Here("init_5") /\ UNCHANGED <<drive, zft, incidents>>
    /\ IF Failed THEN Leave("eio", {}) /\ UNCHANGED ftape
       ELSE /\ ftape' = [ftape EXCEPT !.write_protected =
                            @ \/ (ftape.vendor = "t3000" /\ ftape.qic_std \in {"qic40", "qic80"})]
            /\ Goto("timeouts", 0)

(* ftape_calc_timeouts(), ftape_new_cartridge(): the speed of an unknown   *)
(* drive is measured once.                                                 *)
Timeouts ==
    /\ Here("timeouts") /\ UNCHANGED <<drive, zft, incidents>>
    /\ IF ftape.vendor = "unknown" /\ ftape.first_time
       THEN /\ ftape' = [ftape EXCEPT !.first_time = FALSE] 
            /\ RunThen(ftape_seek_to("at_bot") \o ftape_seek_to("at_eot") \o
                       ftape_seek_to("at_bot"), "succeeds", 0)
       ELSE Leave("ok", {}) /\ UNCHANGED ftape
Succeeds == Here("succeeds") /\ Unchanged /\ Leave("ok", {})

(* ftape_calibrate_data_rate(): the highest rate of controller and drive. *)
Lower(rate) == IF rate > 2000 THEN rate - 1000 ELSE rate \div 2

CalibrateRate ==
    /\ Here("calibrate_rate") /\ UNCHANGED <<drive, zft, incidents>>
    /\ IF Arg = "qic_unknown"
       THEN Leave("eio", {}) /\ ftape' = [ftape EXCEPT !.qic_std = Arg]
       ELSE /\ ftape' = [ftape EXCEPT !.qic_std = Arg, !.fdc_rate = RateLimit]
            /\ Goto("calibrate", RateLimit)
Calibrate ==
    /\ Here("calibrate") /\ Unchanged
    /\ Call("set_rate", [rate |-> Arg, qic_std |-> ftape.qic_std], "calibrate_1", Arg)
Calibrate1 ==
    /\ Here("calibrate_1") /\ UNCHANGED <<drive, zft, incidents>>
    /\ IF ret.res = "einval" /\ Arg > 250 THEN Goto("calibrate", Lower(Arg)) /\ UNCHANGED ftape
       ELSE IF Failed THEN Leave("eio", {}) /\ UNCHANGED ftape
       ELSE ftape' = [ftape EXCEPT !.data_rate = Arg] /\ Leave("ok", {})

-----------------------------------------------------------------------------
(* _zft_open(): tables of another cartridge are forgotten. *)
Open(writer) ==
    /\ Idle /\ zft.open = "closed"
    /\ zft' = [zft EXCEPT !.writer = writer]
    /\ Then(<<Frame("enable", 0), Frame("open_1", FALSE)>>)
    /\ UNCHANGED <<ftape, drive, incidents>>

(* Arg: a fake reopen, which forgets in any case *)
(* Mutant: a new cartridge does not matter. *)
Open1_Keeps ==
    /\ Here("open_1") /\ UNCHANGED <<ftape, drive, incidents>>
    /\ LET forget == Arg \/ ftape.no_tape \/ ~ftape.formatted IN
       IF Failed /\ ~Arg THEN End /\ UNCHANGED zft
       ELSE /\ zft' = [zft EXCEPT !.tables = IF forget THEN NoTables ELSE @,
                                  !.going_offline = @ /\ ~forget,
                                  !.offline = ftape.no_tape \/ (@ /\ ~forget)]
            /\ IF zft.writer /\ (ftape.write_protected \/ ftape.no_tape)
               THEN Goto("detach", "erofs")
               ELSE Call("door", [what |-> "locked", flag |-> TRUE], "open_2", 0)
Open1 ==
    /\ Here("open_1") /\ UNCHANGED <<ftape, drive, incidents>>
    /\ LET forget == Arg \/ ftape.new_tape \/ ftape.no_tape \/ ~ftape.formatted IN
       IF Failed /\ ~Arg THEN End /\ UNCHANGED zft
       ELSE /\ zft' = [zft EXCEPT !.tables = IF forget THEN NoTables ELSE @,
                                  !.going_offline = @ /\ ~forget,
                                  !.offline = ftape.no_tape \/ (@ /\ ~forget)]
            /\ IF zft.writer /\ (ftape.write_protected \/ ftape.no_tape)
               THEN Goto("detach", "erofs")
               ELSE Call("door", [what |-> "locked", flag |-> TRUE], "open_2", 0)
Open2 ==
    /\ Here("open_2") /\ Leave("ok", {})
    /\ zft' = [zft EXCEPT !.open = "regular"]
    /\ UNCHANGED <<ftape, drive, incidents>>

(* _zft_close(): Close(rewind, saved) for the rewinding and the other      *)
(* devices.  The door stays locked while tables are to be saved, if there  *)
(* is one.                                                                 *)
Unlock == Frame("door", [what |-> "locked", flag |-> FALSE])
OpenDoor(flag) == Frame("door", [what |-> "open", flag |-> flag])

Close(rewind, saved) ==
    /\ Idle /\ zft.open = "regular" /\ ftape.active
    /\ saved \/ (Ditto /\ zft.tables # NoTables /\ zft.writer /\ ~zft.offline)
    /\ LET going == zft.going_offline /\ ~zft.offline
           back == IF rewind /\ ~zft.offline THEN ftape_seek_to("at_bot") ELSE <<>>
           doors == IF going THEN <<Unlock, OpenDoor(TRUE), Frame("get_status", 0)>>
                    ELSE IF saved THEN <<Unlock>> ELSE <<>>
       IN  /\ Then(back \o doors \o <<Frame("detach", "ok"), Frame("close_1", 0)>>)
           /\ zft' = [zft EXCEPT !.tables = IF going THEN NoTables ELSE @,
                                 !.going_offline = FALSE, !.offline = @ \/ going]
    /\ UNCHANGED <<ftape, drive, incidents>>
Close1 ==
    /\ Here("close_1") /\ End
    /\ zft' = [zft EXCEPT !.open = "closed", !.writer = FALSE]
    /\ UNCHANGED <<ftape, drive, incidents>>

(* The guard of zft_ioctl(), zft_read() and zft_write() *)
Ready == Idle /\ zft.open = "regular" /\ ftape.active /\ ~ftape.failure

(* The tape is used: header segments are read when they are not known yet. *)
(* ftape_start_tape() lowers the rate first when there were too many       *)
(* overruns, whether that succeeds or not.                                 *)
MayLower ==
    ftape.data_rate > CASE ftape.qic_std = "qic3020" -> 1000
                        [] ftape.qic_std = "ditto_max" -> 2000
                        [] OTHER -> 500

Use(overruns) ==
    /\ Ready /\ ~zft.offline /\ ftape.formatted
    /\ overruns => "overruns" \in Calls /\ MayLower
    /\ LET slower == IF overruns THEN <<Frame("half_rate", 0)>> ELSE <<>>
       IN  Then(slower \o ftape_seek_head \o <<Frame("use_1", 0)>>)
    /\ UNCHANGED <<ftape, drive, zft, incidents>>
Use1 ==
    /\ Here("use_1") /\ Unchanged
    /\ IF Failed THEN End ELSE Call("command", "forward", "use_2", 0)
Use2 ==
    /\ Here("use_2") /\ UNCHANGED <<ftape, drive, incidents>>
    /\ zft' = [zft EXCEPT !.tables =
                  IF ~Failed /\ @ = NoTables /\ drive.job = "forward"
                  THEN drive.cartridge ELSE @]
    /\ IF Failed THEN End ELSE Run(ftape_command_wait("stop"))

(* mt_reset() *)
MtReset ==
    /\ Ready /\ "reset" \in Calls
    /\ Then(ftape_seek_to("at_bot") \o <<Frame("reset_drive", 0), Frame("mt_reset_1", 0)>>)
    /\ UNCHANGED <<ftape, drive, zft, incidents>>
MtReset1 ==
    /\ Here("mt_reset_1") /\ UNCHANGED <<ftape, drive, incidents>>
    /\ IF Failed
       THEN zft' = [zft EXCEPT !.tables = NoTables, !.offline = TRUE] /\ End
       ELSE UNCHANGED zft /\ Goto(IF ftape.no_tape THEN "mt_load" ELSE "open_1", TRUE)

(* mt_load(): the door is closed and the drive looked at again. *)
CallMtLoad ==
    /\ Ready /\ "load" \in Calls /\ (ftape.no_tape \/ zft.offline)
    /\ Then(<<Frame("mt_load", TRUE)>>) /\ UNCHANGED <<ftape, drive, zft, incidents>>
MtLoad ==
    /\ Here("mt_load") /\ UNCHANGED <<ftape, drive, incidents>>
    /\ zft' = [zft EXCEPT !.offline = FALSE]
    /\ IF ftape.no_tape
       THEN Run(<<Unlock, OpenDoor(FALSE), Frame("mt_load_1", TRUE)>>)
       ELSE Goto("open_1", TRUE)
MtLoad1 ==
    /\ Here("mt_load_1") /\ Unchanged
    /\ IF Failed THEN End
       ELSE Run(<<Frame("detach", "ok"), Frame("enable", 0), Frame("mt_load_2", TRUE)>>)
MtLoad2 ==
    /\ Here("mt_load_2") /\ Unchanged
    /\ IF Failed THEN End ELSE Goto("open_1", TRUE)

(* mt_offl(): the door opens at once when the device is offline already, *)
(* otherwise when it is closed.                                            *)
MtOffl ==
    /\ Ready /\ "offline" \in Calls
    /\ IF zft.offline
       THEN /\ Then(<<Unlock, OpenDoor(TRUE), Frame("get_status", 0)>>)
            /\ UNCHANGED zft
       ELSE /\ Then(ftape_seek_to("at_bot"))
            /\ zft' = [zft EXCEPT !.going_offline = TRUE]
    /\ UNCHANGED <<ftape, drive, incidents>>

(* mt_setpart(): the tables are saved at the begin of the tape first. *)
MtSetPart(partition) ==
    /\ Ready /\ ~zft.offline /\ "partition" \in Calls
    /\ LET back == IF zft.tables # NoTables THEN ftape_seek_to("at_bot") ELSE <<>>
       IN  Then(back \o <<Frame("set_part", partition)>>)
    /\ UNCHANGED <<ftape, drive, zft, incidents>>
SetPart ==
    /\ Here("set_part") /\ UNCHANGED <<ftape, drive, incidents>>
    /\ IF Failed THEN End /\ UNCHANGED zft
       ELSE /\ Goto("door", [what |-> "partition", flag |-> Arg])
            /\ zft' = [zft EXCEPT !.tables = NoTables, !.going_offline = FALSE]

-----------------------------------------------------------------------------
(* The bare device: ftape_enable_bare(), mtiocftcmd(), ftape_disable_bare() *)
OpenBare ==
    /\ Idle /\ zft.open = "closed" /\ drive.kind.bare # {} /\ UNCHANGED <<drive, stack, ret>>
    /\ \/ /\ Fine /\ zft' = [zft EXCEPT !.open = "bare"]
          /\ ftape' = [ftape EXCEPT !.active = TRUE, !.failure = FALSE, !.fdc = TRUE,
                                    !.fdc_rate = ftape.data_rate]
       \/ /\ Fault /\ UNCHANGED zft
          /\ ftape' = [ftape EXCEPT !.failure = FALSE]
BareCommand(c) ==
    /\ Idle /\ zft.open = "bare"
    /\ ftape' = [ftape EXCEPT !.diagnostic = TRUE]
    /\ Then(<<Frame("command", c), Frame("bare_1", c)>>)
    /\ UNCHANGED <<drive, zft, incidents>>
Bare1 ==
    /\ Here("bare_1") /\ Unchanged
    /\ IF Failed \/ Arg # "select" THEN End
       ELSE Goto("parameter", [cmd |-> Arg, value |-> "colorado"])
CloseBare ==
    /\ Idle /\ zft.open = "bare"
    /\ "deselect" \in Habits => drive.awake = (drive.kind.wake_up = "none")
    /\ zft' = [zft EXCEPT !.open = "closed"]
    /\ ftape' = [ftape EXCEPT !.fdc = FALSE, !.active = FALSE, !.failure = TRUE,
                              !.wake_up = "unknown", !.init_needed = TRUE]
    /\ UNCHANGED <<drive, stack, ret, incidents>>

-----------------------------------------------------------------------------
(* The drive finishes; the cartridge is pulled out of a closed device, or  *)
(* at any time, and one is put in when the driver is not looking: a call   *)
(* ends sooner than a cartridge is changed.                                *)
DriveDone ==
    /\ ~drive.ready
    /\ drive' = Done(drive) /\ UNCHANGED <<ftape, stack, ret, zft, incidents>>
Remove ==
    /\ drive.cartridge # Empty /\ ~drive.locked /\ Fault
    /\ "close" \in Habits => Idle /\ zft.open = "closed"
    /\ drive' = Removed(drive) /\ UNCHANGED <<ftape, stack, ret, zft>>
Insert(c) ==
    /\ Idle /\ drive.cartridge = Empty
    /\ drive' = Inserted(drive, c) /\ UNCHANGED <<ftape, stack, ret, zft, incidents>>

CtlNext ==
    \/ Enable \/ Activate \/ Activate1 \/ ActivateAll \/ ActivateGot
    \/ Enable1 \/ Enable2 \/ Enable3 \/ Enable4 \/ Detach \/ Detached
    \/ VendorId \/ VendorGot \/ Cms1 \/ Cms2 \/ Cms3 \/ Cms4
    \/ GetStatus \/ StatusLoop \/ Status1 \/ Status2 \/ Status3
    \/ InitDrive \/ Init1 \/ Init2 \/ Init3 \/ Init4 \/ Init5 \/ Timeouts \/ Succeeds
    \/ CalibrateRate \/ Calibrate \/ Calibrate1
    \/ Open1 \/ Open2 \/ Close1 \/ Use1 \/ Use2
    \/ MtReset1 \/ MtLoad \/ MtLoad1 \/ MtLoad2 \/ SetPart \/ Bare1

Driver == IoNext \/ CtlNext
Callers ==
    \/ \E b \in BOOLEAN : Open(b) \/ Use(b) \/ \E saved \in BOOLEAN : Close(b, saved)
    \/ MtReset \/ CallMtLoad \/ MtOffl \/ (\E p \in {0, 1} : MtSetPart(p))
    \/ OpenBare \/ (\E c \in drive.kind.bare : BareCommand(c)) \/ CloseBare
World == DriveDone \/ Remove \/ \E c \in drive.kind.fits : Insert(c)

Next == Driver \/ Callers \/ World

(* The driver runs while a call is in progress; a drive that is alive ends *)
(* what it was asked to do.                                                *)
Fairness == WF_vars(Driver) /\ (DeadDrives \/ WF_vars(DriveDone))

Spec == CtlInit /\ [][Next]_vars /\ Fairness

-----------------------------------------------------------------------------
(* The state has the right shape. *)
CtlTypeOK ==
    /\ ftape.level \in 0 .. 5 /\ ftape.current \in Commands
    /\ ftape.flags \subseteq {"ditto_max", "cant_format"}
    /\ ftape.wake_up \in {Methods[i] : i \in DOMAIN Methods} \cup {"unknown"}
    /\ {ftape.data_rate, ftape.fdc_rate} \subseteq FdcRates
    /\ zft.tables \in Cartridges \cup {NoTables}
    /\ zft.open \in {"closed", "regular", "bare"}
    /\ incidents \in 0 .. MaxIncidents

(* The tape is never moved for reading or writing on another cartridge     *)
(* than the one whose header segments and volume table zftape holds.       *)
KnownCartridge ==
    drive.job = "forward" => zft.tables \in {NoTables, drive.cartridge}

(* A device that is closed, or could not be opened, holds neither the      *)
(* controller nor, unless something went wrong, a drive that is awake. (A  *)
(* drive that the bare device left awake is taken for one that needs no    *)
(* waking up.)                                                             *)
ClosedIsReleased ==
    Idle /\ zft.open = "closed" =>
        /\ ~ftape.active /\ ~ftape.fdc
        /\ incidents = 0 /\ ftape.wake_up = drive.kind.wake_up =>
              drive.awake = (drive.kind.wake_up = "none")

(* When a call has ended on a prepared cartridge and left the device       *)
(* online, drive and controller run at the rate the driver believes in.    *)
RatesAgree ==
    Idle /\ zft.open = "regular" /\ ~zft.offline /\ ftape.formatted /\ incidents = 0 =>
        ftape.data_rate = drive.rate /\ ftape.fdc_rate = drive.rate

(* Whatever the calls before left behind, a drive that meets no incident   *)
(* is found, woken up and prepared by the next open.                       *)
HealthyDriveOpens == Here("open_1") /\ ~Arg /\ incidents = 0 => ~Failed

(* Every call of the driver ends. *)
CallsEnd == ~Idle ~> Idle
=============================================================================
