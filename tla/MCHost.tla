-------------------------------- MODULE MCHost --------------------------------
(***************************************************************************)
(* What the integration does within Home Assistant: its Telegram alerts,   *)
(* the settings it reads and uploads, the changes of its config entry, and *)
(* the phones that pair with it.  Each is checked on its own: a behaviour  *)
(* is one of the part it starts with, and the others stand still.          *)
(***************************************************************************)
EXTENDS TelegramAlerts, SettingsSync, EntryUpdates, LocalPairing, TLC

VARIABLE part

hostVars == <<part, tgVars, ssVars, euVars, lpVars>>

HostInit ==
    /\ part \in {"alerts", "settings", "entry", "pairing"}
    /\ TgInit /\ SsInit /\ EuInit /\ LpInit
    /\ part # "pairing" => shownCodes = 0
    /\ part = "settings" \/ \A u, w \in Units : conf[u] = conf[w] /\ conf[u] \in DeyeModels

HostNext ==
    /\ UNCHANGED part
    /\ \/ part = "alerts" /\ TgNext /\ UNCHANGED <<ssVars, euVars, lpVars>>
       \/ part = "settings" /\ SsNext /\ UNCHANGED <<tgVars, euVars, lpVars>>
       \/ part = "entry" /\ EuNext /\ UNCHANGED <<tgVars, ssVars, lpVars>>
       \/ part = "pairing" /\ LpNext /\ UNCHANGED <<tgVars, ssVars, euVars>>

HostSpec == HostInit /\ [][HostNext]_hostVars

HostTypeOK == TgTypeOK /\ SsTypeOK /\ EuTypeOK /\ LpTypeOK
=============================================================================
