----------------------------- MODULE Interface -----------------------------
(***************************************************************************)
(* The parts of the interface that keep a state of their own and share     *)
(* none of it: the messages, the settings, the flags of an editor and an   *)
(* animated icon.  All run on the main thread and none calls another, so   *)
(* that a behaviour of one says nothing of the others: a behaviour here is *)
(* one of any single part.                                                 *)
(***************************************************************************)
EXTENDS MessageStack, Settings, FlagPages, IconAnim

VARIABLE part           \* whose behaviour this is

interfaceVars == <<part, messageVars, settingsVars, flagVars, iconVars>>

Init ==
    /\ part \in {"messages", "settings", "flags", "icon"}
    /\ MessageInit /\ SettingsInit /\ FlagsInit /\ IconInit

Messages ==
    /\ part = "messages" /\ MessageNext
    /\ UNCHANGED <<part, settingsVars, flagVars, iconVars>>

Configuration ==
    /\ part = "settings" /\ SettingsNext
    /\ UNCHANGED <<part, messageVars, flagVars, iconVars>>

SaveFlags ==
    /\ part = "flags" /\ FlagsNext
    /\ UNCHANGED <<part, messageVars, settingsVars, iconVars>>

Icon ==
    /\ part = "icon" /\ IconNext
    /\ UNCHANGED <<part, messageVars, settingsVars, flagVars>>

Next == Messages \/ Configuration \/ SaveFlags \/ Icon

\* The event loop runs the timers and timelines of the messages; notifyAll()
\* is not interrupted.
Spec == Init /\ [][Next]_interfaceVars /\ MessageFairness /\ SettingsFairness
=============================================================================
