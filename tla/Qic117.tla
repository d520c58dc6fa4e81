-------------------------------- MODULE Qic117 -------------------------------
(***************************************************************************)
(* The QIC-117 command set (qic117.h) and the tape drive that obeys it.    *)
(*                                                                         *)
(* A status byte is the set of its bits.  The command table is the         *)
(* driver's own; the drive is external, modelled from what the driver      *)
(* expects of it: a drive demands the state the table prescribes, answers  *)
(* a command it cannot obey with an error, keeps the error and the "new    *)
(* cartridge" bit until the error code is read, and listens only while it  *)
(* is selected.                                                            *)
(***************************************************************************)
EXTENDS Integers, Sequences, FiniteSets

CONSTANT
    Kinds           \* drives: vendor, wake_up, flags, accepts (data rates),
                    \* default (rate after power on), answers (kinds of report),
                    \* fits (cartridges: id, qic_std, formatted, write_protect),
                    \* bare (commands users send to it by hand)

(* The ways to wake a drive up: see the table of methods.                  *)
ASSUME KindsAssumption ==
    \A k \in Kinds : k.wake_up \in {"none", "colorado", "mountain", "motor"}

Cartridges == UNION {k.fits : k \in Kinds}

StatusBits == {"ready", "error", "present", "write_protect", "new", "referenced",
               "at_bot", "at_eot"}

(* A row of QIC117_COMMANDS: the bits that matter, the value they must     *)
(* have, whether the command moves the tape and whether it must not be     *)
(* interrupted.                                                            *)
Row(mask, state, motion, non_intr) ==
    [mask |-> mask, state |-> state, motion |-> motion, non_intr |-> non_intr]

Loaded == {"ready", "error", "present", "new"}
Usable == Loaded \cup {"referenced"}

qic117_cmds ==
    [none         |-> Row({}, {}, FALSE, FALSE),
     reset        |-> Row({}, {}, TRUE, TRUE),
     error        |-> Row({"ready"}, {"ready"}, FALSE, FALSE),
     config       |-> Row({}, {}, FALSE, FALSE),
     ext_config   |-> Row({}, {}, FALSE, FALSE),
     rom          |-> Row({}, {}, FALSE, FALSE),
     vendor       |-> Row({}, {}, FALSE, FALSE),
     old_vendor   |-> Row({}, {}, FALSE, FALSE),
     tape_status  |-> Row({"present"}, {"present"}, FALSE, FALSE),
     forward      |-> Row(Usable, {"ready", "present", "referenced"}, TRUE, FALSE),
     reverse      |-> Row(Loaded, {"ready", "present"}, TRUE, FALSE),
     fast         |-> Row(Loaded, {"ready", "present"}, TRUE, FALSE),
     head         |-> Row(Usable, {"ready", "present", "referenced"}, TRUE, FALSE),
     load_point   |-> Row(Loaded, {"ready", "present"}, TRUE, TRUE),
     format_mode  |-> Row(Loaded \cup {"write_protect"}, {"ready", "present"},
                          FALSE, FALSE),
     stop         |-> Row({}, {}, TRUE, TRUE),
     select       |-> Row({}, {}, FALSE, FALSE),
     deselect     |-> Row({}, {}, FALSE, FALSE),
     diagnostic   |-> Row({}, {}, FALSE, FALSE),
     primary      |-> Row({}, {}, FALSE, FALSE),
     rate         |-> Row({"ready", "error"}, {"ready"}, FALSE, FALSE),
     load         |-> Row({"ready", "error"}, {"ready"}, FALSE, FALSE),
     lock         |-> Row({"ready", "error", "present"}, {"ready", "present"},
                          FALSE, FALSE),
     loader       |-> Row({"error"}, {}, FALSE, FALSE),
     partition    |-> Row({"ready", "error", "present"}, {"ready", "present"},
                          FALSE, FALSE)]

Commands == DOMAIN qic117_cmds
Reports == {"error", "config", "ext_config", "rom", "vendor", "old_vendor",
            "tape_status", "loader"}

(* The bits of a status that keep a command from being sent. *)
Difference(status, c) ==
    ((status \ qic117_cmds[c].state) \cup (qic117_cmds[c].state \ status))
        \cap qic117_cmds[c].mask

-----------------------------------------------------------------------------
(* The drive. *)
Empty == [id |-> "none", qic_std |-> "qic_unknown", formatted |-> FALSE,
          write_protect |-> FALSE]

(* The codes of QIC117_ERRORS the driver tells apart: 27 is the answer to  *)
(* a soft reset.                                                           *)
NoError == "no_error"
SoftReset == "soft_reset"
OtherError == "other"

PowerOn(kind, cartridge) ==
    [kind |-> kind, awake |-> kind.wake_up = "none", ready |-> TRUE,
     error |-> NoError, cartridge |-> cartridge, new |-> cartridge # Empty,
     referenced |-> FALSE, at |-> "bot", rate |-> kind.default,
     locked |-> FALSE, open |-> FALSE, job |-> "none"]

Status(t) ==
    {b \in StatusBits :
        \/ b = "ready" /\ t.ready
        \/ b = "error" /\ t.error # NoError
        \/ b = "present" /\ t.cartridge # Empty
        \/ b = "write_protect" /\ t.cartridge.write_protect
        \/ b = "new" /\ t.new
        \/ b = "referenced" /\ t.referenced
        \/ b = "at_bot" /\ t.cartridge # Empty /\ t.at = "bot"
        \/ b = "at_eot" /\ t.cartridge # Empty /\ t.at = "eot"}

Refuse(t) == [t EXCEPT !.error = IF @ = NoError THEN OtherError ELSE @]
Busy(t, job) == [t EXCEPT !.ready = FALSE, !.job = job]

(* What a drive that listens makes of a command.  Commands with a          *)
(* parameter do their work when it arrives.  Command 24, the old request   *)
(* for the vendor, is also the one that deselects a Mountain drive.        *)
Obey(t, c) ==
    IF Difference(Status(t), c) # {} THEN Refuse(t)
    ELSE CASE c = "error"    -> [t EXCEPT !.error = NoError, !.new = FALSE]
           [] c = "reset"    -> [t EXCEPT !.error = SoftReset, !.ready = TRUE, !.at = "bot",
                                          !.job = "none", !.rate = t.kind.default,
                                          !.awake = t.kind.wake_up = "none"]
           [] c \in {"forward", "reverse", "fast", "load_point"} -> Busy(t, c)
           [] c = "stop"     -> IF t.job = "none" THEN t ELSE Busy(t, c)
           [] c = "deselect" -> [t EXCEPT !.awake = FALSE]
           [] c = "old_vendor" -> [t EXCEPT !.awake = t.kind.wake_up # "mountain"]
           [] c = "lock"     -> [t EXCEPT !.locked = ~@]
           [] c = "load"     -> [t EXCEPT !.open = ~@]
           [] OTHER          -> t

(* A parameter: p is the data rate, the wake-up method, the track; there   *)
(* is only partition 0.                                                    *)
ObeyParameter(t, c, p) ==
    IF c = "select" THEN [t EXCEPT !.awake = @ \/ p = t.kind.wake_up]
    ELSE IF ~t.awake \/ t.error # NoError THEN t
    ELSE IF c = "rate" THEN IF p \in t.kind.accepts THEN [t EXCEPT !.rate = p] ELSE Refuse(t)
    ELSE IF c = "partition" /\ p # 0 THEN Refuse(t)
    ELSE IF t.ready THEN Busy(t, c) ELSE t

(* The drive has done what it was asked. *)
Done(t) ==
    LET s == [t EXCEPT !.ready = TRUE, !.job = "none"]
    IN  CASE t.job = "reverse"    -> [s EXCEPT !.at = "bot"]
          [] t.job \in {"fast", "forward"} -> [s EXCEPT !.at = "eot"]
          [] t.job = "load_point" -> [s EXCEPT !.at = "bot",
                                               !.referenced = t.cartridge.formatted]
          [] t.job = "stop"       -> [s EXCEPT !.at = "middle"]
          [] OTHER                -> s

(* The cartridge is pulled out, and one is put in. *)
Removed(t) ==
    [t EXCEPT !.cartridge = Empty, !.new = FALSE, !.referenced = FALSE,
              !.ready = TRUE, !.job = "none",
              !.error = IF t.job = "none" \/ @ # NoError THEN @ ELSE OtherError]

Inserted(t, c) ==
    Busy([t EXCEPT !.cartridge = c, !.new = TRUE, !.at = "bot", !.open = FALSE], "insert")
=============================================================================
