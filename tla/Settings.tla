------------------------------ MODULE Settings ------------------------------
(***************************************************************************)
(* ConfigStore and the settings of the main window that are registered     *)
(* with it: loading at startup, the notification of all slots, the user's  *)
(* choices and saving on exit.  set() and notifyAll() invoke the slots     *)
(* with the non-recursive mutex mtxSignalMaps locked; a slot that calls    *)
(* set() with another value waits for it on the thread that holds it.      *)
(***************************************************************************)
EXTENDS Naturals

CONSTANTS
    InstalledLanguages, \* the translations TranslationManager enumerates
    FileLanguages,      \* languages a configuration file names
    Supported           \* isAnimImageFormatSupported(): APNG or GIF may lack

Keys == {"preferredRegion", "searchUsedBlocks", "animIconFormat", "language"}
Regions == {"E", "J"}       \* of the four in the menu
Formats == <<"APNG", "GIF", "PNG-FPF", "PNG-VS", "PNG-HS">>
FormatNames == {Formats[i] : i \in 1..5}

ASSUME SettingsAssumption ==
    /\ "" \notin InstalledLanguages
    /\ InstalledLanguages \cup {""} \subseteq FileLanguages
    /\ Supported \subseteq FormatNames
    /\ {"PNG-FPF", "PNG-VS", "PNG-HS"} \subseteq Supported

VARIABLES
    config,           \* mcrecover.conf
    settings,       \* ConfigStore's settings
    checked,        \* which action of each menu is checked
    preferredRegion,\* the window's copy, used by the search
    locale,         \* LanguageMenu's locale, "" for the system default
    locked,         \* mtxSignalMaps
    toNotify,       \* keys notifyAll() has yet to visit
    phase           \* of the process: "off", "starting", "running", "hung"

settingsVars == <<config, settings, checked, preferredRegion, locale, locked,
                  toNotify, phase>>

\* What a file can hold: set by the program, or edited to something unknown.
\* Validate() turns searchUsedBlocks into a bool and accepts the rest.
Stored ==
    {[preferredRegion |-> r, searchUsedBlocks |-> u, animIconFormat |-> f,
      language |-> l] : r \in Regions \cup {"?"}, u \in BOOLEAN,
                        f \in FormatNames \cup {"?"}, l \in FileLanguages}
Defaults ==
    [preferredRegion |-> "E", searchUsedBlocks |-> FALSE,
     animIconFormat |-> "APNG", language |-> ""]

\* Actions of a new window are unchecked; LanguageMenu starts with "".
NothingChecked == [key \in Keys |-> IF key = "searchUsedBlocks" THEN FALSE ELSE "none"]

SettingsInit ==
    /\ config = Defaults /\ settings = Defaults
    /\ checked = NothingChecked
    /\ preferredRegion = "none" /\ locale = ""
    /\ locked = FALSE /\ toNotify = {}
    /\ phase = "off"

\* animIconFormat(): the stored format, or else the first one supported.
EffectiveFormat(f) ==
    IF f \in Supported THEN f
    ELSE LET first == CHOOSE i \in 1..5 :
                         /\ Formats[i] \in Supported
                         /\ \A j \in 1..(i - 1) : Formats[j] \notin Supported
         IN  Formats[first]

\* setAnimIconFormat_cfg_slot() checks the action of PNG-HS for PNG-VS too.
FormatAction(f) == IF f = "PNG-VS" THEN "PNG-HS" ELSE f

\* setPreferredRegion_slot(QVariant): an unknown region is taken for USA.
RegionOf(r) == IF r \in Regions THEN r ELSE "E"

\* LanguageMenu: the locale, or the system default when it is not installed.
LocaleOf(l) == IF l \in InstalledLanguages THEN l ELSE ""

\* Seeded fault: the slot leaves the copy of the region to the menu's signal.
SlotLeavesRegion(key, value) ==
    checked' = [checked EXCEPT ![key] = RegionOf(value)]
    /\ UNCHANGED <<preferredRegion, locale>>

RegionSlot(key, value) ==
    /\ checked' = [checked EXCEPT ![key] = RegionOf(value)]
    /\ preferredRegion' = RegionOf(value)
    /\ UNCHANGED locale

\* The effect of the slot registered for a key, before what it sets in turn.
Slot(key, value) ==
    \/ key = "preferredRegion" /\ RegionSlot(key, value)
    \/ /\ key = "searchUsedBlocks"
       /\ checked' = [checked EXCEPT ![key] = value]
       /\ UNCHANGED <<preferredRegion, locale>>
    \/ /\ key = "animIconFormat"
       /\ checked' = [checked EXCEPT ![key] = FormatAction(EffectiveFormat(value))]
       /\ UNCHANGED <<preferredRegion, locale>>
    \/ /\ key = "language"
       /\ locale' = LocaleOf(value)
       /\ checked' = [checked EXCEPT ![key] = LocaleOf(value)]
       /\ UNCHANGED preferredRegion

\* Seeded fault: set() does without the comparison with the old value.
SetsAlways(key, value) == key = "language" /\ (value = "" \/ value # locale)

\* setLanguage() of the menu emits languageChanged(), whose slot calls set();
\* that stops at a value the store has already.
SetsAgain(key, value) ==
    /\ key = "language"
    /\ value = "" \/ value # locale
    /\ LocaleOf(value) # settings[key]

-----------------------------------------------------------------------------
\* load(), then the window is built and notifyAll() takes the mutex.
StartProgram ==
    /\ phase = "off"
    /\ phase' = "starting"
    /\ settings' = config
    /\ locked' = TRUE /\ toNotify' = Keys
    /\ UNCHANGED <<config, checked, preferredRegion, locale>>

\* notifyAll(), one registered slot: its set() of another value never returns.
NotifySlot(key) ==
    /\ phase = "starting" /\ key \in toNotify
    /\ Slot(key, settings[key])
    /\ toNotify' = toNotify \ {key}
    /\ IF SetsAgain(key, settings[key])
         THEN /\ settings' = [settings EXCEPT ![key] = LocaleOf(settings[key])]
              /\ phase' = "hung"
         ELSE UNCHANGED <<settings, phase>>
    /\ UNCHANGED <<config, locked>>

NotifyDone ==
    /\ phase = "starting" /\ toNotify = {}
    /\ locked' = FALSE
    /\ phase' = "running"
    /\ UNCHANGED <<config, settings, checked, preferredRegion, locale, toNotify>>

\* The user checks an action of a menu; its slot calls set(), which locks,
\* invokes the slot and unlocks.  A nested set() has nothing to change.
\* (LocaleChange triggers the checked language as a click on it does.)
Choose(key, value) ==
    /\ phase = "running"
    /\ \/ /\ value = settings[key] /\ key # "language"
          /\ checked' = [checked EXCEPT ![key] = value]
          /\ preferredRegion' = IF key = "preferredRegion" THEN value
                                ELSE preferredRegion
          /\ UNCHANGED <<settings, locale>>
       \/ /\ value # settings[key] \/ key = "language"
          /\ settings' = [settings EXCEPT ![key] = value]
          /\ Slot(key, value)
    /\ UNCHANGED <<config, locked, toNotify, phase>>

ChooseSetting ==
    \/ \E r \in Regions : Choose("preferredRegion", r)
    \/ Choose("searchUsedBlocks", ~ checked.searchUsedBlocks)
    \/ \E f \in Supported : Choose("animIconFormat", f)
    \/ \E l \in InstalledLanguages \cup {""} : Choose("language", l)

ProcessEnds ==
    /\ phase' = "off"
    /\ settings' = Defaults /\ checked' = NothingChecked
    /\ preferredRegion' = "none" /\ locale' = ""
    /\ locked' = FALSE /\ toNotify' = {}

\* The window and then the store save on the way out.
ExitProgram ==
    /\ phase = "running"
    /\ config' = settings
    /\ ProcessEnds

\* The process is killed: nothing is saved.
Kill ==
    /\ phase # "off"
    /\ ProcessEnds
    /\ UNCHANGED config

\* The file comes from another version or from an editor.
EditFile ==
    /\ phase = "off"
    /\ config' \in Stored
    /\ UNCHANGED <<settings, checked, preferredRegion, locale, locked,
                   toNotify, phase>>

Notifying == NotifyDone \/ \E key \in Keys : NotifySlot(key)

SettingsNext ==
    \/ StartProgram \/ Notifying \/ ChooseSetting
    \/ ExitProgram \/ Kill \/ EditFile

SettingsSpec == SettingsInit /\ [][SettingsNext]_settingsVars

\* The constructor of the window runs on; whether a user ever kills a process
\* that hangs is not assumed.
SettingsFairness == WF_settingsVars(Notifying)

-----------------------------------------------------------------------------
\* While the window waits for the user every menu shows the setting in the
\* store, as the program uses it: the region the search will prefer, the
\* format files are saved in, the language of the interface.  PNG-VS is the
\* exception: its notification checks PNG-HS, a click on it itself.
MenusShowSettings ==
    phase = "running" =>
        /\ ~ locked
        /\ checked.preferredRegion = RegionOf(settings.preferredRegion)
        /\ preferredRegion = RegionOf(settings.preferredRegion)
        /\ checked.searchUsedBlocks = settings.searchUsedBlocks
        /\ LET f == EffectiveFormat(settings.animIconFormat)
           IN  checked.animIconFormat \in {f, FormatAction(f)}
        /\ checked.language = settings.language
        /\ locale = settings.language

\* The notification of the slots at startup ends and frees the mutex, when the
\* file names an installed language or none.
NotificationEnds ==
    (locked /\ config.language \in InstalledLanguages \cup {""}) ~> ~ locked

\* The comment in setLanguage(): a language that is not installed is taken
\* for the system default, and the program goes on with it.
UnknownLanguageFallsBack ==
    (phase = "starting" /\ settings.language \notin InstalledLanguages)
        ~> (locale = "" /\ ~ locked)
=============================================================================
