---------------------------- MODULE TerminalModes ----------------------------
(* The terminal driver of the terminal UI (terminal.rs): raw mode, the         *)
(* alternate screen and mouse capture are switched on one after the other,     *)
(* each with a flag, and switched off in the reverse order when the session    *)
(* stops, fails to start or is dropped, by a return, an error or a panic.      *)
(*                                                                         *)
(* The terminal is external: a command may fail, without effect or (an error   *)
(* of the flush) with it.                                                    *)


VARIABLES
    screenMode,  \* ScreenMode: "Main" or "Alternate"
    tty,         \* what is on in the terminal
    driver,      \* the flags of CrosstermDriver
    driverAt,    \* "raw", "alternate", "mouse": the next step of start;
                 \* "rollback", "started", "stopped", "dropped"
    mishap       \* a command failed in a way the driver cannot make good

terminalVars == <<screenMode, tty, driver, driverAt, mishap>>

TerminalFeatures == {"raw", "alternate", "mouse"}

TerminalInit ==
    /\ screenMode \in {"Main", "Alternate"}
    /\ tty = {} /\ driver = {} /\ driverAt = "raw" /\ mishap = FALSE

NextMode(m) ==
    CASE m = "raw" -> IF screenMode = "Alternate" THEN "alternate" ELSE "mouse"
      [] m = "alternate" -> "mouse"
      [] OTHER -> "started"

SwitchOn(m) ==
    /\ driverAt = m
    /\ tty' = tty \cup {m} /\ driver' = driver \cup {m} /\ driverAt' = NextMode(m)
    /\ UNCHANGED <<screenMode, mishap>>

(* enable_raw_mode()? returns at once; the two others stop first.  If the      *)
(* command took effect all the same, nothing will undo it.                   *)
SwitchFails(m) ==
    /\ driverAt = m
    /\ driverAt' = IF m = "raw" THEN "stopped" ELSE "rollback"
    /\ \E effect \in BOOLEAN :
         /\ tty' = IF effect THEN tty \cup {m} ELSE tty
         /\ mishap' = (mishap \/ effect)
    /\ UNCHANGED <<screenMode, driver>>

(* Mutant: the alternate screen is forgotten. *)
StopKeepingAlternate(failing) ==
    /\ tty' = tty \ ((driver \ {"alternate"}) \ failing)
    /\ driver' = {}
    /\ mishap' = (mishap \/ driver \cap failing # {})

(* stop: each flag that is set has its command sent and is cleared; errors are *)
(* ignored.  `failing` are the commands that fail.                           *)
StopDriver(failing) ==
    /\ tty' = tty \ (driver \ failing)
    /\ driver' = {}
    /\ mishap' = (mishap \/ driver \cap failing # {})

(* A start that failed has stopped the driver before it returns the error.   *)
RollBack ==
    /\ driverAt = "rollback"
    /\ \E failing \in SUBSET TerminalFeatures : StopDriver(failing)
    /\ driverAt' = "stopped"
    /\ UNCHANGED screenMode

StopSession ==
    /\ driverAt \in {"started", "stopped"}
    /\ \E failing \in SUBSET TerminalFeatures : StopDriver(failing)
    /\ driverAt' = "stopped"
    /\ UNCHANGED screenMode

(* TerminalSession::drop, then CrosstermDriver::drop, and only the latter if    *)
(* start had failed: two stops in a row, of which the second finds no flag.    *)
DropTerminal ==
    /\ driverAt \in {"started", "stopped"}
    /\ \E failing \in SUBSET TerminalFeatures : StopDriver(failing)
    /\ driverAt' = "dropped"
    /\ UNCHANGED screenMode

TerminalNext ==
    \/ \E m \in TerminalFeatures : SwitchOn(m) \/ SwitchFails(m)
    \/ RollBack \/ StopSession \/ DropTerminal

TerminalSpec == TerminalInit /\ [][TerminalNext]_terminalVars

-----------------------------------------------------------------------------
(* However far the start came and however the session ends, the terminal is    *)
(* left as it was found, unless the terminal itself failed a command.        *)
TerminalIsRestored == driverAt \in {"stopped", "dropped"} /\ ~mishap => tty = {}

(* The flags never claim more than what is on, and miss nothing but what a     *)
(* failed command left on: a stop undoes all that was done and no more.      *)
FlagsTellTheTruth == driver \subseteq tty /\ (tty # driver => mishap)
=============================================================================
