------------------------------ MODULE NetConfig ------------------------------
(***************************************************************************)
(* The network configuration.  It exists five times: mNetworkConfig (RAM), *)
(* its backup for ESC, the EEPROM, the working copy gWIZNETINFO and        *)
(* gSERVERNETINFO, and the registers of the W5500.  The setting menu       *)
(* (setMenu in menu.c, in the timer interrupt) and the Bluetooth commands  *)
(* (parse_cmd in app.c, in the main loop) both change it; ethUpdate, in    *)
(* the main loop, brings it to the chip.                                   *)
(*                                                                         *)
(* Editing a digit is choosing a value.  Collisions on the EEPROM bus are  *)
(* the subject of EventLog and left out here.                              *)
(***************************************************************************)
EXTENDS Integers, FiniteSets

CONSTANTS
  EthField,     \* members of mNetworkConfig.eth (ip, sn, gw, ...)
  ServerField,  \* members with a command and a page of their own (port, ...)
  Val,          \* their values
  Default       \* cNetworkConfig, a function from fields to values

Field == EthField \cup ServerField
Config == [Field -> Val]

ASSUME DefaultAssumption == Default \in Config
ASSUME FieldAssumption ==
  Field \cap {"off", "idle", "copyEth", "write", "default", "clear",
              "other", "home"} = {}

VARIABLES
  mNetworkConfig, bkupNetworkConfig,
  eep,         \* the block at EEP_ADDR_NETWORK_CONFIG
  net,         \* gWIZNETINFO and gSERVERNETINFO
  chip,        \* the registers of the W5500
  mEthUpdate,
  page,        \* the page being set: a field, "other", or "home" (shopping)
  pc,          \* where the main loop is
  want,        \* history: the value last confirmed for each field, also
               \* before a power loss
  mixed        \* history: see MenuAlone

menu == <<bkupNetworkConfig, page>>
vars == <<mNetworkConfig, bkupNetworkConfig, eep, net, chip, mEthUpdate,
          page, pc, want, mixed>>

TypeOK ==
  /\ mNetworkConfig \in Config /\ bkupNetworkConfig \in Config
  /\ eep \in Config /\ net \in Config /\ want \in Config
  /\ chip \in [EthField -> Val]
  /\ mEthUpdate \in BOOLEAN
  /\ page \in Field \cup {"other", "home"}
  /\ pc \in {"off", "idle", "copyEth", "write", "default", "clear"}
            \cup ServerField
  /\ mixed \in BOOLEAN

\* Definitions named "Wrong..." are variants with one mistake each; the
\* properties are seen to fail when one of them replaces the definition
\* that follows it.

EthPart(c) == [f \in EthField |-> c[f]]

Init ==
  /\ eep \in Config
  /\ mNetworkConfig = eep /\ bkupNetworkConfig = eep /\ net = eep
  /\ chip = EthPart(eep)
  /\ mEthUpdate = FALSE
  /\ page = "home"
  /\ pc = "idle"
  /\ want = eep
  /\ mixed = FALSE

-----------------------------------------------------------------------------
(* app_init: loadSystemConfig, w5500_ip_init, initMenu; or saveDefultConfig *)
(* in the place of loadSystemConfig when three buttons are held.           *)
Boot(c, confirmed) ==
  /\ pc = "off"
  /\ pc' = "idle"
  /\ eep' = c
  /\ mNetworkConfig' = c /\ bkupNetworkConfig' = c /\ net' = c
  /\ chip' = EthPart(c)
  /\ mEthUpdate' = FALSE /\ page' = "home"
  /\ want' = confirmed /\ mixed' = FALSE

(* Power loss or the command REBOOT.  The block is less than a page of the *)
(* EEPROM and is written as a whole or not at all, so that power loss      *)
(* during ENTER is power loss before it or after it.                       *)
PowerLoss ==
  /\ pc # "off"
  /\ pc' = "off"
  /\ UNCHANGED <<mNetworkConfig, eep, net, chip, mEthUpdate, menu, want, mixed>>

-----------------------------------------------------------------------------
(* The timer interrupt: the setting menu.                                  *)

(* BTN_SET on a setting page.                                              *)
OpenPage(p) ==
  /\ pc # "off" /\ page = "home"
  /\ page' = p
  /\ UNCHANGED <<mNetworkConfig, bkupNetworkConfig, eep, net, chip,
                 mEthUpdate, pc, want, mixed>>

(* BTN_UP and BTN_DOWN on a digit.                                         *)
Edit(v) ==
  /\ pc # "off" /\ page \in Field
  /\ mNetworkConfig' = [mNetworkConfig EXCEPT ![page] = v]
  /\ UNCHANGED <<eep, net, chip, mEthUpdate, menu, pc, want, mixed>>

(* BTN_ENTER: saveSystemConfig, loadSystemConfig, backupNetworkConfig; the *)
(* menu stays on the page.                                                 *)
Enter ==
  /\ pc # "off" /\ page # "home"
  /\ eep' = mNetworkConfig
  /\ net' = mNetworkConfig
  /\ bkupNetworkConfig' = mNetworkConfig
  /\ mEthUpdate' = (mEthUpdate \/ page \in Field)
  /\ want' = IF page \in Field
             THEN [want EXCEPT ![page] = mNetworkConfig[page]] ELSE want
  /\ UNCHANGED <<mNetworkConfig, chip, page, pc, mixed>>

WrongAfterEsc == mNetworkConfig
AfterEsc == IF mEthUpdate THEN mNetworkConfig ELSE bkupNetworkConfig

(* BTN_ESC: without a save the edit is taken back, but not while an update *)
(* of the chip is pending.                                                 *)
Esc ==
  /\ pc # "off" /\ page # "home"
  /\ page' = "home"
  /\ mNetworkConfig' = AfterEsc
  /\ mixed' = (mixed \/ mEthUpdate)
  /\ UNCHANGED <<bkupNetworkConfig, eep, net, chip, mEthUpdate, pc, want>>

(* BTN_LEFT on a sensor or mode page, and the right passcode, end the      *)
(* setting without a restore.                                              *)
LeaveOther ==
  /\ pc # "off" /\ page = "other"
  /\ page' = "home"
  /\ UNCHANGED <<mNetworkConfig, bkupNetworkConfig, eep, net, chip,
                 mEthUpdate, pc, want, mixed>>

(* autoReturnToHome after ten minutes on any page: initMenu backs up what  *)
(* is there, also an edit nobody confirmed.                                *)
AutoReturn ==
  /\ pc # "off"
  /\ page' = "home"
  /\ bkupNetworkConfig' = mNetworkConfig
  /\ mixed' = (mixed \/ page # "home")
  /\ UNCHANGED <<mNetworkConfig, eep, net, chip, mEthUpdate, pc, want>>

-----------------------------------------------------------------------------
(* The main loop: a Bluetooth command changes the working copy, takes it   *)
(* over into mNetworkConfig (of an eth member: all of eth) and saves.      *)
Command(f, v) ==
  /\ pc = "idle"
  /\ net' = [net EXCEPT ![f] = v]
  /\ want' = [want EXCEPT ![f] = v]
  /\ mixed' = TRUE
  /\ pc' = IF f \in EthField THEN "copyEth" ELSE f
  /\ UNCHANGED <<mNetworkConfig, eep, chip, mEthUpdate, menu>>

CopyToConfig ==
  /\ pc \in {"copyEth"} \cup ServerField
  /\ mNetworkConfig' = [f \in Field |->
       IF f = pc \/ (pc = "copyEth" /\ f \in EthField)
       THEN net[f] ELSE mNetworkConfig[f]]
  /\ pc' = "write"
  /\ UNCHANGED <<eep, net, chip, mEthUpdate, menu, want, mixed>>

WriteConfig ==
  /\ pc = "write"
  /\ eep' = mNetworkConfig
  /\ pc' = "idle"
  /\ UNCHANGED <<mNetworkConfig, net, chip, mEthUpdate, menu, want, mixed>>

(* The command DEF: saveDefultConfig writes and then loads.                *)
CommandDefault ==
  /\ pc = "idle"
  /\ eep' = Default
  /\ want' = Default
  /\ mixed' = TRUE
  /\ pc' = "default"
  /\ UNCHANGED <<mNetworkConfig, net, chip, mEthUpdate, menu>>

LoadDefault ==
  /\ pc = "default"
  /\ mNetworkConfig' = eep /\ net' = eep
  /\ pc' = "idle"
  /\ UNCHANGED <<eep, chip, mEthUpdate, menu, want, mixed>>

WrongEthUpdate ==    \* from the backup, which commands do not change
  /\ pc = "idle" /\ mEthUpdate
  /\ chip' = EthPart(bkupNetworkConfig)
  /\ pc' = "clear"
  /\ UNCHANGED <<mNetworkConfig, eep, net, mEthUpdate, menu, want, mixed>>

(* ethUpdate resets and configures the chip, then clears the request.      *)
EthUpdate ==
  /\ pc = "idle" /\ mEthUpdate
  /\ chip' = EthPart(net)
  /\ pc' = "clear"
  /\ UNCHANGED <<mNetworkConfig, eep, net, mEthUpdate, menu, want, mixed>>

EthUpdateDone ==
  /\ pc = "clear"
  /\ mEthUpdate' = FALSE
  /\ pc' = "idle"
  /\ UNCHANGED <<mNetworkConfig, eep, net, chip, menu, want, mixed>>

-----------------------------------------------------------------------------
Menu == \/ \E p \in Field \cup {"other"} : OpenPage(p)
        \/ \E v \in Val : Edit(v)
        \/ Enter \/ Esc \/ LeaveOther \/ AutoReturn
Commands == (\E f \in Field, v \in Val : Command(f, v)) \/ CommandDefault
Finish == CopyToConfig \/ WriteConfig \/ LoadDefault \/ EthUpdateDone

(* What was confirmed remains so over a restart; with other changes in the *)
(* history, what the EEPROM holds is what counts from here on.             *)
PowerUp == \/ Boot(eep, IF mixed THEN eep ELSE want)
           \/ Boot(Default, Default)

Next == PowerUp \/ PowerLoss \/ Menu \/ Commands \/ Finish \/ EthUpdate

(* A command that has begun ends, and every pass of the main loop calls    *)
(* ethUpdate, however many commands come in between.                       *)
Spec == Init /\ [][Next]_vars /\ WF_vars(Finish) /\ SF_vars(EthUpdate)

-----------------------------------------------------------------------------
(* Properties.                                                             *)

(* The menu alone: no command has come in, no setting page was left by the *)
(* ten-minute return, and none by ESC while an update of the chip was      *)
(* pending, neither since power-up nor, if so before it, earlier.  Then    *)
(* the EEPROM holds exactly what was confirmed with ENTER, whatever was    *)
(* edited and given up with ESC and whenever the power fails; RAM has it   *)
(* again after a restart, and holds no unconfirmed edit on the home page.  *)
MenuAlone ==
  ~mixed =>
    /\ eep = want
    /\ pc # "off" /\ page = "home" => mNetworkConfig = want

(* An update requested before ethUpdate has read the configuration reaches *)
(* the chip, however many more changes and commands follow.  One that      *)
(* comes between that reading and the end of ethUpdate is lost: the end    *)
(* clears it unseen.                                                       *)
RequestReachesChip ==
  (mEthUpdate /\ pc # "clear") ~> (pc = "off" \/ chip = EthPart(net))
=============================================================================
