------------------------------- MODULE Reboot -------------------------------
(***************************************************************************)
(* The reboot of board.c over the saving of the configuration: the REBOOT  *)
(* command sets a timer; kickTheBucket, its callback, resets the device if *)
(* ConfigIsDone, else forces a save and tries again, a few times.          *)
(*                                                                         *)
(* A Tempus callout runs some time after it is set (Tempus), so nothing    *)
(* here counts seconds.                                                    *)
(***************************************************************************)
EXTENDS ConfigStore

CONSTANT Tries  \* how often a reset waits for a save (3 in the code)

ASSUME RebootAssumption == Tries \in Nat

VARIABLES rebootTimer, \* whether it is set
          ktbCounter,
          overlapped   \* history: a save was asked for while another went on

rebootVars == <<rebootTimer, ktbCounter>>
deviceVars == <<vars, rebootVars, overlapped>>

DeviceTypeOK ==
    /\ TypeOK
    /\ rebootTimer \in BOOLEAN
    /\ ktbCounter \in 0 .. Tries
    /\ overlapped \in BOOLEAN

DeviceInit == Init /\ rebootTimer = FALSE /\ ktbCounter = 0 /\ overlapped = FALSE

\* A save asked for now, and not during one.
Overlap == overlapped' = (overlapped \/ Saving)

\* REBOOT: Future(seconds) is never 0 once the clock runs, so the command
\* always sets the timer.
RebootCommand ==
    /\ Request
    /\ rebootTimer' = TRUE
    /\ UNCHANGED <<config, flashVars, request, flashComplete, staging, state, timerVars,
                   latest, asked, saved, crashes, ktbCounter, overlapped>>

\* NVIC_SystemReset, or the power goes: RAM is zero again.
ClearReboot == rebootTimer' = FALSE /\ ktbCounter' = 0 /\ overlapped' = FALSE

ConfigIsDone == ~configSaving

\* Mutant of MayReset: it does not wait for the save the last time.
BugOneTryLess == ConfigIsDone \/ ktbCounter + 1 >= Tries
MayReset == ConfigIsDone \/ ktbCounter >= Tries

BucketDue == rebootTimer /\ state # "INIT0"

\* kickTheBucket, called by the super loop when its timer is due.
KickResets ==
    /\ BucketDue
    /\ MayReset
    /\ LoseRam
    /\ ClearReboot
    /\ UNCHANGED crashes

\* Mutant of KickAgain: it does not set its timer again.
BugNoRearm ==
    /\ BucketDue
    /\ ~MayReset
    /\ StoreConfiguration(TRUE, config.ver)
    /\ Overlap
    /\ ktbCounter' = ktbCounter + 1
    /\ rebootTimer' = FALSE
    /\ UNCHANGED <<config, flashVars, request, flashComplete, staging, state,
                   latest, saved, requests, crashes>>

KickAgain ==
    /\ BucketDue
    /\ ~MayReset
    /\ StoreConfiguration(TRUE, config.ver)
    /\ Overlap
    /\ ktbCounter' = ktbCounter + 1
    /\ UNCHANGED <<config, flashVars, request, flashComplete, staging, state,
                   latest, saved, requests, crashes, rebootTimer>>

KickTheBucket == KickResets \/ KickAgain

DeviceNext ==
    \/ (SetField \/ ForceSave) /\ Overlap /\ UNCHANGED rebootVars
    \/ (SuperLoop \/ ConfigDefault \/ TimerExpires \/ StoreList \/ FlashLands \/ FlashReports)
       /\ UNCHANGED <<rebootVars, overlapped>>
    \/ RebootCommand
    \/ KickTheBucket
    \/ PowerLoss /\ ClearReboot

DeviceSpec == DeviceInit /\ [][DeviceNext]_deviceVars

\* As in ConfigStore, and a callout that is due is run (Tempus).
DeviceFairSpec ==
    /\ DeviceSpec
    /\ WF_deviceVars(SuperLoop /\ UNCHANGED <<rebootVars, overlapped>>)
    /\ WF_deviceVars(TimerExpires /\ UNCHANGED <<rebootVars, overlapped>>)
    /\ WF_deviceVars(FlashReports /\ UNCHANGED <<rebootVars, overlapped>>)
    /\ WF_deviceVars(KickTheBucket)

-----------------------------------------------------------------------------
\* "If the config is in the middle of writing an entry, try again later"
\* (board.c:226): before its tries run out kickTheBucket cuts no save short,
\* and the reset keeps all that was asked.  That is so unless a save was ever
\* asked for while another was in the flash: from then on configSaving is down
\* although a save is to come or under way (ConfigStoreDone).
ResetKeeps ==
    [][(KickResets /\ ktbCounter < Tries /\ ~overlapped) =>
          ~Outstanding /\ Durable.ver >= asked]_deviceVars

\* A reboot asked for is carried out, however long saves take and whatever is
\* asked in between.
EventuallyResets == rebootTimer ~> state = "INIT0"
=============================================================================
