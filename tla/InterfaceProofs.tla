--------------------------- MODULE InterfaceProofs ---------------------------
(***************************************************************************)
(* Theorems about three parts of Interface and their proofs: the settings, *)
(* the flags of an editor and an animated icon.  A behaviour of Interface  *)
(* is one of each part, so that what holds of the parts holds of it.       *)
(***************************************************************************)
EXTENDS Interface, TLAPS

-----------------------------------------------------------------------------
(* The settings: the menus show what the program uses, for any set of      *)
(* languages and of supported formats, whatever the configuration file     *)
(* holds.  During notifyAll() this holds of the keys already visited.      *)

\* The window agrees with the store about a setting.
KeyShown(key) ==
    /\ key = "preferredRegion" =>
           /\ checked["preferredRegion"] = RegionOf(settings["preferredRegion"])
           /\ preferredRegion = RegionOf(settings["preferredRegion"])
    /\ key = "searchUsedBlocks" =>
           checked["searchUsedBlocks"] = settings["searchUsedBlocks"]
    /\ key = "animIconFormat" =>
           LET f == EffectiveFormat(settings["animIconFormat"])
           IN  checked["animIconFormat"] \in {f, FormatAction(f)}
    /\ key = "language" =>
           /\ checked["language"] = settings["language"]
           /\ locale = settings["language"]

SettingsInv ==
    /\ DOMAIN config = Keys /\ DOMAIN settings = Keys /\ DOMAIN checked = Keys
    /\ phase = "off" => locale = ""
    /\ phase = "starting" =>
           /\ \A key \in Keys \ toNotify : KeyShown(key)
           /\ "language" \in toNotify => locale = ""
    /\ phase = "running" => ~ locked /\ \A key \in Keys : KeyShown(key)

-----------------------------------------------------------------------------
LEMMA ShownIsMenus == SettingsInv => MenusShowSettings
<1> SUFFICES ASSUME SettingsInv, phase = "running"
             PROVE  MenusShowSettings
  BY DEF MenusShowSettings
<1>1. ~ locked /\ \A key \in Keys : KeyShown(key) BY DEF SettingsInv
<1>2. KeyShown("preferredRegion") /\ KeyShown("searchUsedBlocks")
      /\ KeyShown("animIconFormat") /\ KeyShown("language")
  BY <1>1 DEF Keys
<1> QED BY <1>1, <1>2 DEF KeyShown, MenusShowSettings

\* The slot of a key, called with the value in the store, shows it; for the
\* language only if there is nothing to set in turn.
LEMMA SlotShows ==
    ASSUME NEW key \in Keys, NEW value, DOMAIN checked = Keys,
           settings'[key] = value, Slot(key, value),
           key = "language" => LocaleOf(value) = value
    PROVE  /\ KeyShown(key)' /\ DOMAIN checked' = Keys
           /\ key # "language" => locale' = locale
           /\ \A k \in Keys \ {key} :
                  checked'[k] = checked[k]
                  /\ (k = "preferredRegion" => preferredRegion' = preferredRegion)
                  /\ (k = "language" => locale' = locale)
<1>1. CASE key = "preferredRegion"
  <2>1. RegionSlot(key, value) BY <1>1 DEF Slot
  <2> QED BY <1>1, <2>1 DEF RegionSlot, KeyShown
<1>2. CASE key = "searchUsedBlocks"
  <2>1. checked' = [checked EXCEPT ![key] = value]
        /\ preferredRegion' = preferredRegion /\ locale' = locale
    BY <1>2 DEF Slot
  <2> QED BY <1>2, <2>1 DEF KeyShown
<1>3. CASE key = "animIconFormat"
  <2>1. checked' = [checked EXCEPT ![key] = FormatAction(EffectiveFormat(value))]
        /\ preferredRegion' = preferredRegion /\ locale' = locale
    BY <1>3 DEF Slot
  <2>2. checked'["animIconFormat"] = FormatAction(EffectiveFormat(settings'["animIconFormat"]))
    BY <1>3, <2>1
  <2>3. KeyShown(key)' BY <1>3, <2>2 DEF KeyShown
  <2> QED BY <1>3, <2>1, <2>3
<1>4. CASE key = "language"
  <2>1. locale' = LocaleOf(value) /\ preferredRegion' = preferredRegion
        /\ checked' = [checked EXCEPT ![key] = LocaleOf(value)]
    BY <1>4 DEF Slot
  <2> QED BY <1>4, <2>1 DEF KeyShown
<1> QED BY <1>1, <1>2, <1>3, <1>4 DEF Keys

\* What is shown stays shown when nothing it depends on changes.
LEMMA OthersStay ==
    ASSUME NEW k \in Keys, KeyShown(k),
           settings'[k] = settings[k], checked'[k] = checked[k],
           k = "preferredRegion" => preferredRegion' = preferredRegion,
           k = "language" => locale' = locale
    PROVE  KeyShown(k)'
<1>1. CASE k = "preferredRegion" BY <1>1 DEF KeyShown
<1>2. CASE k = "searchUsedBlocks" BY <1>2 DEF KeyShown
<1>3. CASE k = "animIconFormat" BY <1>3 DEF KeyShown
<1>4. CASE k = "language" BY <1>4 DEF KeyShown
<1> QED BY <1>1, <1>2, <1>3, <1>4 DEF Keys

-----------------------------------------------------------------------------
LEMMA NotifyStep ==
    ASSUME SettingsInv, NEW key \in Keys, NotifySlot(key)
    PROVE  SettingsInv'
<1>1. /\ phase = "starting" /\ key \in toNotify /\ toNotify' = toNotify \ {key}
      /\ Slot(key, settings[key]) /\ config' = config
      /\ IF SetsAgain(key, settings[key])
           THEN /\ settings' = [settings EXCEPT ![key] = LocaleOf(settings[key])]
                /\ phase' = "hung"
           ELSE settings' = settings /\ phase' = phase
  BY DEF NotifySlot
<1>2. /\ DOMAIN config = Keys /\ DOMAIN settings = Keys /\ DOMAIN checked = Keys
      /\ \A k \in Keys \ toNotify : KeyShown(k)
      /\ "language" \in toNotify => locale = ""
  BY <1>1 DEF SettingsInv
<1>3. CASE SetsAgain(key, settings[key])
  <2>1. DOMAIN checked' = Keys BY <1>1, <1>2 DEF Slot, RegionSlot
  <2> QED BY <1>1, <1>2, <1>3, <2>1 DEF SettingsInv
<1>4. CASE ~ SetsAgain(key, settings[key])
  <2>1. key = "language" => LocaleOf(settings[key]) = settings[key]
    BY <1>1, <1>2, <1>4 DEF SetsAgain, LocaleOf
  <2>2. settings' = settings /\ phase' = "starting" BY <1>1, <1>4
  <2>3. /\ KeyShown(key)' /\ DOMAIN checked' = Keys
        /\ key # "language" => locale' = locale
        /\ \A k \in Keys \ {key} :
               checked'[k] = checked[k]
               /\ (k = "preferredRegion" => preferredRegion' = preferredRegion)
               /\ (k = "language" => locale' = locale)
    BY <1>1, <1>2, <2>1, <2>2, SlotShows
  <2>4. ASSUME NEW k \in Keys \ toNotify' PROVE KeyShown(k)'
    <3>1. CASE k = key BY <2>3, <3>1
    <3>2. CASE k # key
      <4>1. KeyShown(k) BY <1>1, <1>2, <3>2
      <4> QED BY <2>2, <2>3, <3>2, <4>1, OthersStay
    <3> QED BY <3>1, <3>2
  <2>5. "language" \in toNotify' => locale' = "" BY <1>1, <1>2, <2>3
  <2> QED BY <1>1, <1>2, <2>2, <2>3, <2>4, <2>5 DEF SettingsInv
<1> QED BY <1>3, <1>4

\* A choice the menus offer: what is stored is what is used.
Offered(key, value) ==
    /\ key = "preferredRegion" => value \in Regions
    /\ key = "animIconFormat" => value \in Supported
    /\ key = "language" => value \in InstalledLanguages \cup {""}

LEMMA ChooseStep ==
    ASSUME SettingsInv, NEW key \in Keys, NEW value, Offered(key, value),
           Choose(key, value)
    PROVE  SettingsInv'
<1>1. /\ phase = "running" /\ phase' = phase
      /\ config' = config /\ locked' = locked
      /\ DOMAIN config = Keys /\ DOMAIN settings = Keys /\ DOMAIN checked = Keys
      /\ ~ locked /\ \A k \in Keys : KeyShown(k)
  BY DEF Choose, SettingsInv
<1>2. CASE /\ value = settings[key] /\ key # "language"
           /\ checked' = [checked EXCEPT ![key] = value]
           /\ preferredRegion' = IF key = "preferredRegion" THEN value
                                 ELSE preferredRegion
           /\ UNCHANGED <<settings, locale>>
  <2>1. KeyShown(key)'
    <3>1. key = "preferredRegion" => RegionOf(value) = value
      BY DEF Offered, RegionOf
    <3>2. key = "animIconFormat" => EffectiveFormat(value) = value
      BY DEF Offered, EffectiveFormat
    <3> QED BY <1>1, <1>2, <3>1, <3>2 DEF KeyShown
  <2>2. ASSUME NEW k \in Keys, k # key PROVE KeyShown(k)'
    BY <1>1, <1>2, <2>2, OthersStay
  <2> QED BY <1>1, <1>2, <2>1, <2>2 DEF SettingsInv
<1>3. CASE settings' = [settings EXCEPT ![key] = value] /\ Slot(key, value)
  <2>1. key = "language" => LocaleOf(value) = value BY DEF Offered, LocaleOf
  <2>2. /\ KeyShown(key)' /\ DOMAIN checked' = Keys
        /\ \A k \in Keys \ {key} :
               checked'[k] = checked[k]
               /\ (k = "preferredRegion" => preferredRegion' = preferredRegion)
               /\ (k = "language" => locale' = locale)
    BY <1>1, <1>3, <2>1, SlotShows
  <2>3. ASSUME NEW k \in Keys, k # key PROVE KeyShown(k)'
    <3>1. settings'[k] = settings[k] BY <1>1, <1>3, <2>3
    <3> QED BY <1>1, <2>2, <2>3, <3>1, OthersStay
  <2> QED BY <1>1, <1>3, <2>2, <2>3 DEF SettingsInv
<1> QED BY <1>2, <1>3 DEF Choose

LEMMA SettingsStep ==
    ASSUME SettingsInv, [SettingsNext]_settingsVars
    PROVE  SettingsInv'
<1>1. CASE StartProgram BY <1>1 DEF StartProgram, SettingsInv
<1>2. ASSUME NEW key \in Keys, NotifySlot(key) PROVE SettingsInv'
  BY <1>2, NotifyStep
<1>3. CASE NotifyDone BY <1>3 DEF NotifyDone, SettingsInv, KeyShown
<1>4. CASE ChooseSetting
  <2>1. ASSUME NEW r \in Regions, Choose("preferredRegion", r) PROVE SettingsInv'
    BY <2>1, ChooseStep DEF Offered, Keys
  <2>2. CASE Choose("searchUsedBlocks", ~ checked.searchUsedBlocks)
    <3>1. "searchUsedBlocks" \in Keys BY DEF Keys
    <3>2. ASSUME NEW used PROVE Offered("searchUsedBlocks", used) BY DEF Offered
    <3> QED BY <2>2, <3>1, <3>2, ChooseStep, Zenon
  <2>3. ASSUME NEW f \in Supported, Choose("animIconFormat", f) PROVE SettingsInv'
    BY <2>3, ChooseStep DEF Offered, Keys
  <2>4. ASSUME NEW l \in InstalledLanguages \cup {""}, Choose("language", l)
        PROVE  SettingsInv'
    BY <2>4, ChooseStep DEF Offered, Keys
  <2> QED BY <1>4, <2>1, <2>2, <2>3, <2>4 DEF ChooseSetting
<1>5. CASE ExitProgram
  BY <1>5 DEF ExitProgram, ProcessEnds, SettingsInv, Defaults, NothingChecked, Keys
<1>6. CASE Kill
  BY <1>6 DEF Kill, ProcessEnds, SettingsInv, Defaults, NothingChecked, Keys
<1>7. CASE EditFile
  <2>1. config' \in Stored /\ phase = "off" /\ phase' = phase
        /\ settings' = settings /\ checked' = checked /\ locale' = locale
    BY <1>7 DEF EditFile
  <2>2. DOMAIN config' = Keys
    <3>1. PICK r, u, f, l :
              config' = [preferredRegion |-> r, searchUsedBlocks |-> u,
                         animIconFormat |-> f, language |-> l]
      BY <2>1 DEF Stored
    <3> QED BY <3>1 DEF Keys
  <2> QED BY <2>1, <2>2 DEF SettingsInv
<1>8. CASE UNCHANGED settingsVars
  BY <1>8 DEF settingsVars, SettingsInv, KeyShown
<1> QED BY <1>1, <1>2, <1>3, <1>4, <1>5, <1>6, <1>7, <1>8
        DEF SettingsNext, Notifying

\* While the window waits for the user each menu shows the value that
\* ConfigStore holds, as the program uses it, and the mutex is free, whatever
\* the file held before and whichever order the slots were notified in.
THEOREM MenusFollowSettings == SettingsSpec => []MenusShowSettings
<1>1. SettingsInit => SettingsInv
  BY DEF SettingsInit, SettingsInv, Defaults, NothingChecked, Keys
<1>2. SettingsInv /\ [SettingsNext]_settingsVars => SettingsInv' BY SettingsStep
<1> QED BY <1>1, <1>2, ShownIsMenus, PTL DEF SettingsSpec

-----------------------------------------------------------------------------
(* The flags: pages are arithmetic, the bytes of a slot and its flags are  *)
(* two views of the same bits.                                             *)

FlagSet(k) == [Rows(k) -> [Columns(k) -> BOOLEAN]]

\* The page shown is the one of the tab, computed for the rows there are.
PagesInv ==
    IF kind = "none" THEN tab = 0 /\ pages.current = 0 /\ pageSize = PageSize
    ELSE /\ kind \in Kinds
         /\ pageSize = PageSizeOf(kind)
         /\ pages = CalcPageOffsets(pageSize, tab, NumRows(kind))
         /\ tabs = PageCount(pageSize, NumRows(kind))
         /\ tab \in 0..(tabs - 1)

\* The rows are what was checked, and so are the bytes once saved.
FlagsInv ==
    kind # "none" =>
        /\ flags \in FlagSet(kind) /\ flags = wanted
        /\ saved => Meaning(kind, image) = wanted

-----------------------------------------------------------------------------
\* There is a row, and a page size is a number.
LEMMA Sizes ==
    ASSUME NEW k \in Kinds
    PROVE  /\ NumRows(k) \in Nat \ {0} /\ PageSizeOf(k) \in Nat
           /\ Rows(k) = 0..(NumRows(k) - 1)
<1>1. NumBytes * ByteBits \in Nat \ {0}
  BY FlagsAssumption
<1> QED BY <1>1, FlagsAssumption DEF NumRows, PageSizeOf, Rows

\* A quotient is the number of the interval the dividend is in.
LEMMA Quotient ==
    ASSUME NEW r \in Nat, NEW s \in Nat \ {0}, NEW t \in Nat
    PROVE  /\ r \div s \in Nat /\ r % s \in 0..(s - 1)
           /\ r = s * (r \div s) + (r % s)
           /\ (r \div s = t) <=> (s * t <= r /\ r < s * t + s)
           /\ (r \div s >= t) <=> (s * t <= r)
<1> DEFINE q == r \div s  m == r % s
<1>1. q \in Int /\ m \in 0..(s - 1) /\ r = s * q + m
  OBVIOUS
<1>2. q >= 0
  <2>1. SUFFICES ASSUME q <= -1 PROVE FALSE BY <1>1
  <2>2. s * q <= s * (-1) BY <1>1, <2>1
  <2> QED BY <1>1, <2>2
<1> HIDE DEF q, m
<1>3. ASSUME q > t PROVE s * q >= s * t + s
  <2>1. q >= t + 1 BY <1>1, <1>3
  <2>2. s * q >= s * (t + 1) BY <1>1, <2>1
  <2> QED BY <1>1, <2>2
<1>4. ASSUME q < t PROVE s * t >= s * q + s
  <2>1. t >= q + 1 BY <1>1, <1>4
  <2>2. s * t >= s * (q + 1) BY <1>1, <2>1
  <2> QED BY <1>1, <2>2
<1>5. s * q \in Int /\ s * t \in Int BY <1>1
<1>6. (q = t) <=> (s * t <= r /\ r < s * t + s)
  BY <1>1, <1>3, <1>4, <1>5
<1>7. (q >= t) <=> (s * t <= r)
  <2>1. CASE q = t BY <1>1, <1>5, <2>1
  <2>2. CASE q > t BY <1>1, <1>3, <1>5, <2>2
  <2>3. CASE q < t BY <1>1, <1>4, <1>5, <2>3
  <2> QED BY <1>1, <2>1, <2>2, <2>3
<1> QED BY <1>1, <1>2, <1>6, <1>7 DEF q, m

\* Every row is on one of the pages, and each page begins with a row.
LEMMA PagesCover ==
    ASSUME NEW rows \in Nat \ {0}, NEW s \in Nat \ {0}
    PROVE  /\ PageCount(s, rows) \in Nat \ {0}
           /\ \A r \in 0..(rows - 1) : r \div s < PageCount(s, rows)
           /\ \A t \in 0..(PageCount(s, rows) - 1) : s * t <= rows - 1
<1> DEFINE q == rows \div s  m == rows % s  n == PageCount(s, rows)
<1>1. q \in Nat /\ m \in 0..(s - 1) /\ rows = s * q + m
  BY Quotient
<1>2. n = q + (IF m > 0 THEN 1 ELSE 0)
  BY DEF PageCount
<1> HIDE DEF q, m, n
<1>3. n \in Nat BY <1>1, <1>2
<1>4. s * n >= rows
  <2>1. CASE m > 0
    <3>1. s * n = s * q + s BY <1>1, <1>2, <2>1
    <3> QED BY <1>1, <3>1
  <2>2. CASE m = 0 BY <1>1, <1>2, <2>2
  <2> QED BY <1>1, <2>1, <2>2
<1>5. n # 0 BY <1>3, <1>4
<1>6. ASSUME NEW r \in 0..(rows - 1) PROVE r \div s < n
  <2>1. ~ (s * n <= r) /\ r \in Nat BY <1>3, <1>4, <1>6
  <2>2. r \div s \in Nat /\ ~ (r \div s >= n) BY <1>3, <2>1, Quotient
  <2> QED BY <1>3, <2>2
<1>7. ASSUME NEW t \in 0..(n - 1) PROVE s * t <= rows - 1
  <2>1. t \in Nat /\ t <= n - 1 BY <1>3, <1>7
  <2>2. CASE m > 0
    <3>1. t <= q BY <1>1, <1>2, <2>1, <2>2
    <3>2. s * t <= s * q BY <1>1, <2>1, <3>1
    <3> QED BY <1>1, <2>1, <2>2, <3>2
  <2>3. CASE m = 0
    <3>1. t + 1 <= q BY <1>1, <1>2, <2>1, <2>3
    <3>2. s * (t + 1) <= s * q BY <1>1, <2>1, <3>1
    <3> QED BY <1>1, <2>1, <2>3, <3>2
  <2> QED BY <1>1, <2>2, <2>3
<1> QED BY <1>3, <1>5, <1>6, <1>7 DEF n

\* The rows of a page are those whose quotient is its number.
LEMMA PageRows ==
    ASSUME NEW rows \in Nat \ {0}, NEW s \in Nat,
           NEW t \in 0..(PageCount(s, rows) - 1), NEW r \in 0..(rows - 1)
    PROVE  LET page == CalcPageOffsets(s, t, rows) IN
           /\ page.current = t /\ page.count = PageCount(s, rows)
           /\ page.start = (IF s = 0 THEN 0 ELSE s * t) /\ page.end \in Int
           /\ page.end <= rows - 1
           /\ (r \in page.start..page.end)
                 <=> ((IF s = 0 THEN 0 ELSE r \div s) = t)
           /\ (IF s = 0 THEN 0 ELSE r \div s) < page.count
<1> DEFINE page == CalcPageOffsets(s, t, rows)  n == PageCount(s, rows)
<1>1. CASE s = 0
  <2>1. n = 1 /\ t = 0 BY <1>1 DEF PageCount
  <2>2. page = [current |-> 0, count |-> 1, start |-> 0, end |-> rows - 1]
    BY <1>1, <2>1 DEF CalcPageOffsets, PageCount, Least
  <2> QED BY <1>1, <2>1, <2>2
<1>2. CASE s # 0
  <2>1. s \in Nat \ {0} /\ s > 0 BY <1>2
  <2>2. n \in Nat \ {0} /\ s * t <= rows - 1 /\ r \div s < n
    BY <2>1, PagesCover
  <2>3. t \in Nat /\ t <= n - 1 BY <2>2
  <2>4. Least(t, n - 1) = t BY <2>2, <2>3 DEF Least
  <2>5. s * t \in Nat BY <2>1, <2>3
  <2>6. page = [current |-> t, count |-> n, start |-> Least(s * t, rows - 1),
                end |-> Least(s * t + s, rows) - 1]
    BY <2>1, <2>4 DEF CalcPageOffsets
  <2>7. page.start = s * t BY <2>2, <2>5, <2>6 DEF Least
  <2>8. page.end = (IF s * t + s < rows THEN s * t + s ELSE rows) - 1
    BY <2>6 DEF Least
  <2>9. (r \in page.start..page.end) <=> (s * t <= r /\ r < s * t + s)
    BY <2>5, <2>7, <2>8
  <2>10. (r \div s = t) <=> (s * t <= r /\ r < s * t + s)
    <3>1. r \in Nat OBVIOUS
    <3> HIDE DEF page, n
    <3> QED BY <2>1, <2>3, <3>1, Quotient
  <2> QED BY <1>2, <2>1, <2>2, <2>5, <2>6, <2>7, <2>8, <2>9, <2>10
<1> QED BY <1>1, <1>2

\* The first page of a new source.
LEMMA FirstPage ==
    ASSUME NEW k \in Kinds, NEW img, PagesInv, SetFlagsModel(k, img)
    PROVE  PagesInv'
<1> DEFINE rows == NumRows(k)  s == PageSizeOf(k)
           first == CalcPageOffsets(pageSize, pages.current, rows)
<1>1. kind = "none" /\ tab = 0 /\ pages.current = 0 /\ pageSize = PageSize
  BY DEF SetFlagsModel, PagesInv
<1>2. /\ kind' = k /\ pageSize' = s /\ tab' = 0 /\ tabs' = pages'.count
      /\ pages' = IF s = pageSize THEN first ELSE CalcPageOffsets(s, first.current, rows)
  BY <1>1 DEF SetFlagsModel
<1>3. rows \in Nat \ {0} /\ s \in Nat BY Sizes
<1> HIDE DEF rows, s
<1>4. ASSUME NEW size \in Nat
      PROVE  /\ CalcPageOffsets(size, 0, rows).current = 0
             /\ CalcPageOffsets(size, 0, rows).count = PageCount(size, rows)
             /\ 0 \in 0..(PageCount(size, rows) - 1)
  <2>1. PageCount(size, rows) \in Nat \ {0}
    <3>1. CASE size = 0 BY <3>1 DEF PageCount
    <3>2. CASE size # 0 BY <1>3, <3>2, PagesCover
    <3> QED BY <3>1, <3>2
  <2> QED BY <2>1 DEF CalcPageOffsets, Least
<1>5. first.current = 0 /\ (s = pageSize => first = CalcPageOffsets(s, 0, rows))
  BY <1>1, <1>4, FlagsAssumption
<1>6. pages' = CalcPageOffsets(s, 0, rows) BY <1>2, <1>5
<1> HIDE DEF first
<1>7. tabs' = PageCount(s, rows) /\ 0 \in 0..(tabs' - 1)
  BY <1>2, <1>3, <1>4, <1>6
<1>8. kind' \in Kinds /\ kind' # "none" BY <1>2 DEF Kinds
<1> QED BY <1>2, <1>6, <1>7, <1>8 DEF PagesInv, rows, s

\* A tab's page is computed when it is selected.
LEMMA TurnedPage ==
    ASSUME PagesInv, NEW t \in 0..(tabs - 1), SelectTab(t)
    PROVE  PagesInv'
<1>1. /\ kind \in Kinds /\ kind # "none" /\ pageSize = PageSizeOf(kind)
      /\ pages = CalcPageOffsets(pageSize, tab, NumRows(kind))
      /\ tabs = PageCount(pageSize, NumRows(kind)) /\ tab \in 0..(tabs - 1)
  BY DEF PagesInv, SelectTab
<1>2. NumRows(kind) \in Nat \ {0} /\ pageSize \in Nat BY <1>1, Sizes
<1>3. 0 \in 0..(NumRows(kind) - 1) BY <1>2
<1>4. pages.current = tab /\ pages.count = tabs BY <1>1, <1>2, <1>3, PageRows
<1>5. /\ tab' = t /\ t # tab /\ kind' = kind /\ pageSize' = pageSize /\ tabs' = tabs
      /\ pages' = CalcPageOffsets(pageSize, t, NumRows(kind))
  BY <1>4 DEF SelectTab, SetCurrentPage
<1> QED BY <1>1, <1>5 DEF PagesInv

LEMMA PagesInductive == PagesInv /\ [FlagsNext]_flagVars => PagesInv'
<1> SUFFICES ASSUME PagesInv, [FlagsNext]_flagVars PROVE PagesInv'
  OBVIOUS
<1>1. ASSUME NEW k \in Kinds, NEW img \in Images, SetFlagsModel(k, img) PROVE PagesInv'
  BY <1>1, FirstPage
<1>2. ASSUME NEW t \in 0..(tabs - 1), SelectTab(t) PROVE PagesInv'
  BY <1>2, TurnedPage
<1>3. CASE UNCHANGED <<kind, pageSize, pages, tab, tabs>>
  BY <1>3 DEF PagesInv
<1> QED
  BY <1>1, <1>2, <1>3 DEF FlagsNext, CheckFlag, SaveSlot, LoadSlot, flagVars

-----------------------------------------------------------------------------
\* A row that is one bit lies in a byte, all of whose bits have rows.
LEMMA RowInBytes ==
    ASSUME NEW k \in Kinds, k # "missions", NEW r \in Rows(k)
    PROVE  LET b == r \div ByteBits  c == r % ByteBits IN
           /\ b \in Bytes /\ c \in Bits /\ b * ByteBits + c = r
           /\ b * ByteBits + ByteBits <= NumBytes * ByteBits
<1> DEFINE b == r \div ByteBits  c == r % ByteBits
<1>1. r \in Nat /\ r < NumBytes * ByteBits /\ NumBytes * ByteBits \in Nat
  BY FlagsAssumption DEF Rows, NumRows
<1>2. ByteBits \in Nat \ {0} /\ NumBytes \in Nat \ {0} BY FlagsAssumption
<1>3. /\ b \in Nat /\ c \in 0..(ByteBits - 1) /\ r = ByteBits * b + c
      /\ (b >= NumBytes) <=> (ByteBits * NumBytes <= r)
  BY <1>1, <1>2, Quotient
<1> HIDE DEF b, c
<1>4. b + 1 <= NumBytes BY <1>1, <1>2, <1>3
<1>5. (b + 1) * ByteBits <= NumBytes * ByteBits BY <1>2, <1>3, <1>4
<1>6. (b + 1) * ByteBits = b * ByteBits + ByteBits BY <1>2, <1>3
<1> QED BY <1>1, <1>2, <1>3, <1>4, <1>5, <1>6 DEF Bytes, Bits, b, c

\* setAllFlags() gives each row its bit.
LEMMA Loaded ==
    ASSUME NEW k \in Kinds, NEW img \in Images
    PROVE  SetAllFlags(k, img) \in FlagSet(k) /\ SetAllFlags(k, img) = Meaning(k, img)
<1>1. CASE k = "missions"
  <2>1. Rows(k) = Bytes /\ Columns(k) = Bits
    BY <1>1 DEF Rows, NumRows, Bytes, Columns
  <2>2. img \in [Rows(k) -> [Columns(k) -> BOOLEAN]] BY <2>1 DEF Images
  <2>3. img = [r \in Rows(k) |-> [c \in Columns(k) |-> img[r][c]]] BY <2>2
  <2> QED BY <1>1, <2>2, <2>3 DEF SetAllFlags, Meaning, FlagSet
<1>2. CASE k # "missions"
  <2>1. Columns(k) = {0} BY <1>2 DEF Columns
  <2>2. ASSUME NEW r \in Rows(k) PROVE img[r \div ByteBits][r % ByteBits] \in BOOLEAN
    <3>1. r \div ByteBits \in Bytes /\ r % ByteBits \in Bits
      BY <1>2, <2>2, RowInBytes
    <3> QED BY <3>1 DEF Images
  <2>3. SetAllFlags(k, img)
          = [r \in Rows(k) |-> [c \in {0} |-> img[r \div ByteBits][r % ByteBits]]]
    BY <1>2 DEF SetAllFlags
  <2>4. Meaning(k, img)
          = [r \in Rows(k) |-> [c \in {0} |-> img[r \div ByteBits][r % ByteBits]]]
    BY <1>2, <2>1 DEF Meaning
  <2>5. SetAllFlags(k, img) \in [Rows(k) -> [{0} -> BOOLEAN]] BY <2>2, <2>3
  <2> QED BY <2>1, <2>3, <2>4, <2>5 DEF FlagSet
<1> QED BY <1>1, <1>2

\* allFlags() fills every byte: the shifts of its eight flags leave each where
\* its row says.
LEMMA Saved ==
    ASSUME NEW k \in Kinds, NEW fl \in FlagSet(k)
    PROVE  Meaning(k, AllFlags(k, fl)) = fl
<1>1. CASE k = "missions"
  <2>1. Meaning(k, AllFlags(k, fl)) = [r \in Rows(k) |-> [c \in Columns(k) |-> fl[r][c]]]
    BY <1>1 DEF Meaning, AllFlags
  <2> QED BY <2>1 DEF FlagSet
<1>2. CASE k # "missions"
  <2>1. Columns(k) = {0} BY <1>2 DEF Columns
  <2>2. ASSUME NEW r \in Rows(k)
        PROVE  AllFlags(k, fl)[r \div ByteBits][r % ByteBits] = fl[r][0]
    <3> DEFINE b == r \div ByteBits  c == r % ByteBits
    <3>1. b \in Bytes /\ c \in Bits /\ b * ByteBits + c = r
          /\ b * ByteBits + ByteBits <= NumBytes * ByteBits
      BY <1>2, <2>2, RowInBytes
    <3>2. AllFlags(k, fl)[b] = ShiftedIn(fl, b) BY <1>2, <3>1 DEF AllFlags
    <3>3. fl[r][0] \in BOOLEAN BY <2>1, <2>2 DEF FlagSet
    <3> HIDE DEF b, c
    <3>4. Least(ByteBits, NumRows("events") - b * ByteBits) = ByteBits
      <4>1. b * ByteBits \in Int /\ NumBytes * ByteBits \in Int /\ ByteBits \in Int
        BY <3>1, FlagsAssumption DEF Bytes
      <4>2. NumRows("events") = NumBytes * ByteBits BY DEF NumRows
      <4> QED BY <3>1, <4>1, <4>2 DEF Least
    <3>5. ByteBits - ByteBits = 0 /\ c - 0 = c /\ c >= 0 /\ c \in Int
      BY <3>1, FlagsAssumption DEF Bits
    <3>6. ShiftedIn(fl, b)[c] = (c >= ByteBits - ByteBits
                                 /\ fl[b * ByteBits + c - (ByteBits - ByteBits)][0])
      BY <3>1, <3>4 DEF ShiftedIn
    <3>7. b * ByteBits + c - (ByteBits - ByteBits) = r
      <4>1. r \in Int BY <2>2 DEF Rows
      <4> QED BY <3>1, <3>5, <4>1
    <3>8. ShiftedIn(fl, b)[c] = (TRUE /\ fl[r][0])
      BY <3>5, <3>6, <3>7
    <3>9. ShiftedIn(fl, b)[c] = fl[r][0]
      <4>1. CASE fl[r][0] = TRUE BY <3>8, <4>1
      <4>2. CASE fl[r][0] = FALSE BY <3>8, <4>2
      <4> QED BY <3>3, <4>1, <4>2
    <3> QED BY <3>2, <3>9 DEF b, c
  <2>3. Meaning(k, AllFlags(k, fl))
          = [r \in Rows(k) |-> [c \in {0} |-> AllFlags(k, fl)[r \div ByteBits][r % ByteBits]]]
    BY <1>2, <2>1 DEF Meaning
  <2>4. fl = [r \in Rows(k) |-> [c \in {0} |-> fl[r][0]]]
    <3>1. fl \in [Rows(k) -> [{0} -> BOOLEAN]] BY <2>1 DEF FlagSet
    <3> QED BY <3>1
  <2> QED BY <2>2, <2>3, <2>4
<1> QED BY <1>1, <1>2

LEMMA ClickKeeps ==
    ASSUME PagesInv, FlagsInv, NEW row \in Rows(kind), NEW c \in Columns(kind),
           CheckFlag(row, c)
    PROVE  FlagsInv'
<1> DEFINE r == pages.start + row
<1>1. kind # "none" /\ kind' = kind /\ ~ saved' BY DEF CheckFlag
<1>2. flags \in FlagSet(kind) /\ flags = wanted BY <1>1 DEF FlagsInv
<1>3. /\ kind \in Kinds /\ pageSize = PageSizeOf(kind)
      /\ pages = CalcPageOffsets(pageSize, tab, NumRows(kind))
      /\ tab \in 0..(PageCount(pageSize, NumRows(kind)) - 1)
  BY <1>1 DEF PagesInv
<1>4. NumRows(kind) \in Nat \ {0} /\ pageSize \in Nat BY <1>3, Sizes
<1>5. 0 \in 0..(NumRows(kind) - 1) BY <1>4
<1>6. pages.start = IF pageSize = 0 THEN 0 ELSE pageSize * tab
  BY <1>3, <1>4, <1>5, PageRows
<1>7. tab \in Int BY <1>3
<1>8. PageSizeOf(kind) * tab + row = r BY <1>3, <1>4, <1>6, <1>7
<1> HIDE DEF r
<1>9. /\ flags' = [flags EXCEPT ![r][c] = ~ @] /\ wanted' = [wanted EXCEPT ![r][c] = ~ @]
  BY <1>8 DEF CheckFlag, r
<1>10. flags' \in FlagSet(kind)
  <2>1. ASSUME r \in Rows(kind) PROVE [flags[r] EXCEPT ![c] = ~ @] \in [Columns(kind) -> BOOLEAN]
    BY <1>2, <2>1 DEF FlagSet
  <2>2. flags' = [flags EXCEPT ![r] = [flags[r] EXCEPT ![c] = ~ @]] \/ r \notin Rows(kind)
    BY <1>2, <1>9 DEF FlagSet
  <2> QED BY <1>2, <1>9, <2>1, <2>2 DEF FlagSet
<1> QED BY <1>1, <1>2, <1>9, <1>10 DEF FlagsInv, FlagSet

LEMMA FlagsInductive == PagesInv /\ FlagsInv /\ [FlagsNext]_flagVars => FlagsInv'
<1> SUFFICES ASSUME PagesInv, FlagsInv, [FlagsNext]_flagVars PROVE FlagsInv'
  OBVIOUS
<1>1. ASSUME NEW k \in Kinds, NEW img \in Images, SetFlagsModel(k, img) PROVE FlagsInv'
  <2>1. kind' = k /\ image' = img /\ flags' = SetAllFlags(k, img)
        /\ wanted' = Meaning(k, img)
    BY <1>1 DEF SetFlagsModel
  <2> QED BY <2>1, Loaded DEF FlagsInv, FlagSet, Meaning
<1>2. ASSUME NEW t \in 0..(tabs - 1), SelectTab(t) PROVE FlagsInv'
  BY <1>2 DEF SelectTab, FlagsInv, FlagSet, Meaning
<1>3. ASSUME kind # "none", NEW row \in Rows(kind), NEW c \in Columns(kind),
             CheckFlag(row, c)
      PROVE  FlagsInv'
  BY <1>3, ClickKeeps
<1>4. CASE SaveSlot
  <2>1. kind # "none" /\ kind' = kind /\ image' = AllFlags(kind, flags)
        /\ flags' = flags /\ wanted' = wanted
    BY <1>4 DEF SaveSlot
  <2>2. kind \in Kinds /\ flags \in FlagSet(kind) /\ flags = wanted
    BY <2>1 DEF PagesInv, FlagsInv
  <2>3. Meaning(kind, AllFlags(kind, flags)) = flags BY <2>2, Saved
  <2> QED BY <2>1, <2>2, <2>3 DEF FlagsInv, FlagSet, Meaning
<1>5. ASSUME NEW img \in Images, LoadSlot(img) PROVE FlagsInv'
  <2>1. kind # "none" /\ kind' = kind /\ image' = img /\ flags' = SetAllFlags(kind, img)
        /\ wanted' = Meaning(kind, img)
    BY <1>5 DEF LoadSlot
  <2>2. kind \in Kinds BY <2>1 DEF PagesInv
  <2> QED BY <2>1, <2>2, Loaded DEF FlagsInv, FlagSet, Meaning
<1>6. CASE UNCHANGED flagVars
  BY <1>6 DEF flagVars, FlagsInv, FlagSet, Meaning
<1> QED BY <1>1, <1>2, <1>3, <1>4, <1>5, <1>6 DEF FlagsNext

\* What is shown and saved, for any bytes, page size and number of flags.
THEOREM FlagsInvariance == FlagsSpec => [](PagesInv /\ FlagsInv)
<1>1. FlagsInit => PagesInv /\ FlagsInv
  BY DEF FlagsInit, PagesInv, FlagsInv
<1>2. PagesInv /\ FlagsInv /\ [FlagsNext]_flagVars => (PagesInv /\ FlagsInv)'
  BY PagesInductive, FlagsInductive
<1> QED BY <1>1, <1>2, PTL DEF FlagsSpec

\* Every row of the flags is on exactly one page and every page has its tab:
\* calcPageOffsets() and setCurrentPage(), for any size of a page.
THEOREM PagesPartition == FlagsSpec => []TabsPartitionRows
<1>1. ASSUME PagesInv PROVE TabsPartitionRows
  <2> SUFFICES ASSUME kind # "none" PROVE TabsPartitionRows
    BY DEF TabsPartitionRows
  <2>1. /\ kind \in Kinds /\ pageSize = PageSizeOf(kind)
        /\ pages = CalcPageOffsets(pageSize, tab, NumRows(kind))
        /\ tabs = PageCount(pageSize, NumRows(kind))
        /\ tab \in 0..(PageCount(pageSize, NumRows(kind)) - 1)
    BY <1>1 DEF PagesInv
  <2>2. /\ NumRows(kind) \in Nat \ {0} /\ pageSize \in Nat
        /\ Rows(kind) = 0..(NumRows(kind) - 1) /\ 0 \in Rows(kind)
    BY <2>1, Sizes
  <2>3. \A r \in Rows(kind) :
          /\ pages.current = tab /\ pages.count = tabs
          /\ (r \in pages.start..pages.end) <=> ((IF pageSize = 0 THEN 0 ELSE r \div pageSize) = tab)
          /\ (IF pageSize = 0 THEN 0 ELSE r \div pageSize) < tabs
    BY <2>1, <2>2, PageRows
  <2> QED BY <2>2, <2>3 DEF TabsPartitionRows
<1> QED BY <1>1, FlagsInvariance, PTL

\* What is saved is what was checked on the page that was shown, and all other
\* bits come back as they were loaded: setAllFlags(), allFlags() and the map
\* from the rows of a page to those of the flags.
THEOREM SavesAreChecked == FlagsSpec => []SavesWhatWasChecked
<1>1. FlagsInv => SavesWhatWasChecked BY DEF FlagsInv, SavesWhatWasChecked
<1> QED BY <1>1, FlagsInvariance, PTL

-----------------------------------------------------------------------------
(* An animated icon, for any number of icons and any delays.               *)
(* IconFollowsScript alone is not inductive: what frame comes next depends *)
(* on the direction, so the invariant relates the direction to the place   *)
(* in the script, and knows that an enabled animation has at least two     *)
(* frames.                                                                 *)

IsFile(f) ==
    /\ f.frames \in 0..MaxIcons
    /\ f.speeds \in [0..(f.frames - 1) -> Delays]
    /\ f.images \subseteq 0..(f.frames - 1)
    /\ f.bounce \in BOOLEAN

\* Backwards on the way down and still on the frame 0 it ends in.
Course ==
    /\ direction \in BOOLEAN
    /\ direction => file.bounce /\ (place = 0 \/ place >= file.frames)
    /\ ~ direction => place < file.frames

IconInv ==
    /\ file = NoFile \/ IsFile(file)
    /\ enabled = IsAnimated(file)
    /\ enabled => Course
    /\ IconFollowsScript

-----------------------------------------------------------------------------
\* What the choice of a file gives.
LEMMA FileShape ==
    ASSUME NEW f \in Files
    PROVE  IsFile(f)
<1>1. PICK n \in 0..MaxIcons : f \in FilesOf(n)
  BY DEF Files
<1>2. f.frames = n /\ f.speeds \in [0..(n - 1) -> Delays]
      /\ f.images \subseteq 0..(n - 1) /\ f.bounce \in BOOLEAN
  BY <1>1 DEF FilesOf
<1> QED BY <1>1, <1>2 DEF IsFile

\* An animated file has at least two frames, and is not the empty one.
LEMMA AnimatedShape ==
    ASSUME NEW f, f = NoFile \/ IsFile(f), IsAnimated(f)
    PROVE  IsFile(f) /\ f.frames \in 2..MaxIcons
<1>1. PICK i \in f.images : i > 0
  BY DEF IsAnimated
<1>2. IsFile(f)
  <2>1. f # NoFile BY <1>1 DEF NoFile
  <2> QED BY <2>1
<1>3. i \in 0..(f.frames - 1) /\ f.frames \in 0..MaxIcons
  BY <1>1, <1>2 DEF IsFile
<1> QED BY <1>1, <1>2, <1>3, IconAssumption

\* IsLast() recognises the last frame of the table and no other: neither the
\* end of the entry nor a frame of delay 0 comes earlier.
LEMMA LastFrame ==
    ASSUME IsFile(file), NEW i \in 0..(file.frames - 1)
    PROVE  IsLast(i) <=> i = file.frames - 1
<1>1. file.frames \in 0..MaxIcons /\ MaxIcons \in Nat /\ i \in Nat
      /\ i + 1 <= file.frames
  BY IconAssumption DEF IsFile
<1>2. CASE i = file.frames - 1
  <2>1. i + 1 \notin 0..(file.frames - 1) BY <1>1, <1>2
  <2> QED BY <1>2, <2>1 DEF IsLast, IconDelay
<1>3. CASE i # file.frames - 1
  <2>1. i + 1 \in 0..(file.frames - 1) /\ i # MaxIcons - 1 BY <1>1, <1>3
  <2>2. file.speeds[i + 1] \in Delays BY <2>1 DEF IsFile
  <2>3. IconDelay(file, i + 1) # 0 BY <2>1, <2>2, IconAssumption DEF IconDelay
  <2> QED BY <1>3, <2>1, <2>3 DEF IsLast
<1> QED BY <1>2, <1>3

\* reset() begins the script of the new file.
LEMMA ResetStarts ==
    ASSUME NEW f, f = NoFile \/ IsFile(f), ResetTo(f)
    PROVE  IconInv'
<1>1. file' = f /\ enabled' = IsAnimated(f) /\ frame' = 0 /\ lastValidFrame' = 0
      /\ direction' = FALSE /\ place' = 0
  BY DEF ResetTo
<1>2. CASE ~ IsAnimated(f)
  BY <1>1, <1>2 DEF IconInv, IconFollowsScript, Course, IsFile, IsAnimated
<1>3. CASE IsAnimated(f)
  <2>1. IsFile(f) /\ f.frames \in 2..MaxIcons BY <1>3, AnimatedShape
  <2>2. f.bounce \in BOOLEAN /\ f.frames \in Int /\ f.frames >= 2
    BY <2>1, IconAssumption DEF IsFile
  <2>3. Period(f) \in Int /\ Period(f) > 0 BY <2>2 DEF Period
  <2>4. Script(f, 0) = 0 BY <2>2 DEF Script
  <2>5. IconFollowsScript' BY <1>1, <2>2, <2>3, <2>4 DEF IconFollowsScript, Period, Script
  <2>6. Course'
    <3>1. place' < file'.frames BY <1>1, <2>2
    <3> QED BY <1>1, <3>1 DEF Course
  <2> QED BY <1>1, <2>1, <2>5, <2>6 DEF IconInv, IsFile, IsAnimated
<1> QED BY <1>2, <1>3

\* The next frame of the table is the next frame of the script.
LEMMA NextFrameFollows ==
    ASSUME IconInv, enabled, NextFrame, UNCHANGED <<file, enabled>>
    PROVE  IconInv'
<1> DEFINE n == file.frames
           OnScript == /\ place' \in 0..(Period(file) - 1)
                       /\ frame' = Script(file, place')
                       /\ frame' \in 0..(n - 1)
           OnTheWayBack == place' = 0 \/ place' >= n
<1>1. IsFile(file) /\ n \in 2..MaxIcons BY AnimatedShape DEF IconInv
<1>2. n \in Int /\ n >= 2 /\ file.bounce \in BOOLEAN
  BY <1>1, IconAssumption DEF IsFile
<1>3. place \in 0..(Period(file) - 1) /\ frame = Script(file, place)
      /\ frame \in 0..(n - 1) /\ lastValidFrame \in file.images \cup {0}
  BY DEF IconInv, IconFollowsScript
<1>4. Course BY DEF IconInv
<1>5. IsLast(frame) <=> frame = n - 1 BY <1>1, <1>3, LastFrame
<1>6. place' = IF place + 1 = Period(file) THEN 0 ELSE place + 1
  BY DEF NextFrame
<1> HIDE DEF n
<1>7. /\ OnScript
      /\ direction' \in BOOLEAN
      /\ direction' => file.bounce /\ OnTheWayBack
      /\ ~ direction' => place' < n
  <2>1. CASE ~ direction /\ frame = n - 1 /\ file.bounce
    <3>1. direction' = TRUE /\ frame' = n - 2
      BY <2>1, <1>2, <1>5 DEF NextFrame
    <3>2. Period(file) = 2 * (n - 1) BY <2>1 DEF Period, n
    <3>3. place = n - 1 BY <1>2, <1>3, <1>4, <2>1 DEF Script, Course, n
    <3>4. OnScript /\ OnTheWayBack
      BY <1>2, <1>6, <3>1, <3>2, <3>3 DEF Script, n
    <3> QED BY <2>1, <3>1, <3>4
  <2>2. CASE ~ direction /\ frame = n - 1 /\ ~ file.bounce
    <3>1. direction' = FALSE /\ frame' = 0
      BY <2>2, <1>2, <1>4, <1>5 DEF NextFrame, Course
    <3>2. Period(file) = n BY <2>2 DEF Period, n
    <3>3. place = n - 1 BY <1>2, <1>3, <1>4, <2>2 DEF Script, Course, n
    <3>4. OnScript /\ place' < n BY <1>2, <1>6, <3>1, <3>2, <3>3 DEF Script, n
    <3> QED BY <3>1, <3>4
  <2>3. CASE ~ direction /\ frame # n - 1
    <3>1. direction' = FALSE /\ frame' = frame + 1
      BY <2>3, <1>2, <1>4, <1>5 DEF NextFrame, Course
    <3>2. Period(file) >= n /\ Period(file) \in Int BY <1>2 DEF Period, n
    <3>3. place = frame BY <1>2, <1>3, <1>4, <2>3 DEF Script, Course, n
    <3>4. place' = place + 1 /\ place' < n BY <1>2, <1>3, <1>6, <2>3, <3>2, <3>3
    <3>5. OnScript BY <1>2, <1>3, <3>1, <3>2, <3>3, <3>4 DEF Script, n
    <3> QED BY <3>1, <3>4, <3>5
  <2>4. CASE direction /\ frame = 0
    <3>1. direction' = FALSE /\ frame' = 1 BY <2>4 DEF NextFrame
    <3>2. Period(file) = 2 * (n - 1) /\ file.bounce
      BY <1>4, <2>4 DEF Period, Course, n
    <3>3. place = 0
      BY <1>2, <1>3, <1>4, <2>4, <3>2 DEF Script, Course, n
    <3>4. OnScript /\ place' < n BY <1>2, <1>6, <3>1, <3>2, <3>3 DEF Script, n
    <3> QED BY <3>1, <3>4
  <2>5. CASE direction /\ frame # 0
    <3>1. direction' = TRUE /\ frame' = frame - 1 BY <2>5, <1>4 DEF NextFrame, Course
    <3>2. Period(file) = 2 * (n - 1) /\ file.bounce
      BY <1>4, <2>5 DEF Period, Course, n
    <3>3. place >= n /\ place \in Int /\ place < 2 * (n - 1) /\ frame = 2 * (n - 1) - place
      BY <1>2, <1>3, <1>4, <2>5, <3>2 DEF Script, Course, n
    <3>4. CASE place + 1 = 2 * (n - 1)
      <4>1. place' = 0 /\ frame' = 0 BY <1>6, <3>1, <3>2, <3>3, <3>4
      <4> QED BY <1>2, <3>1, <3>2, <4>1 DEF Script, n
    <3>5. CASE place + 1 # 2 * (n - 1)
      <4>1. place' = place + 1 BY <1>6, <3>2, <3>5
      <4>2. place' \in Int /\ n < place' /\ place' < 2 * (n - 1)
            /\ frame' = 2 * (n - 1) - place'
        BY <1>2, <3>1, <3>3, <3>5, <4>1
      <4>3. frame' \in 0..(n - 1) BY <1>2, <4>2 DEF n
      <4>4. frame' = Script(file, place') BY <1>2, <4>2 DEF Script, n
      <4>5. OnScript /\ OnTheWayBack BY <1>2, <3>2, <4>2, <4>3, <4>4 DEF n
      <4> QED BY <3>1, <3>2, <4>5
    <3> QED BY <3>4, <3>5
  <2> QED BY <2>1, <2>2, <2>3, <2>4, <2>5, <1>4 DEF Course
<1>8. /\ frame' \in file.images => lastValidFrame' = frame'
      /\ lastValidFrame' \in file.images \cup {0}
  BY <1>3 DEF NextFrame
<1>9. IconFollowsScript'
  BY <1>7, <1>8 DEF IconFollowsScript, Period, Script, n
<1>10. Course' BY <1>7 DEF Course, n
<1> QED BY <1>1, <1>9, <1>10 DEF IconInv, IsFile, IsAnimated

\* While a frame waits for its delay nothing is shown anew.
LEMMA WaitingKeeps ==
    ASSUME IconInv, Waiting, UNCHANGED <<file, enabled>>
    PROVE  IconInv'
BY DEF IconInv, Waiting, Course, IconFollowsScript, IsFile, IsAnimated,
       Period, Script

LEMMA IconInvInductive ==
    ASSUME IconInv, [IconNext]_iconVars
    PROVE  IconInv'
<1>1. CASE FileDestroyed BY <1>1, ResetStarts DEF FileDestroyed
<1>2. CASE Tick BY <1>2, NextFrameFollows, WaitingKeeps DEF Tick
<1>3. ASSUME NEW f \in Files, SetFile(f) PROVE IconInv'
  BY <1>3, FileShape, ResetStarts DEF SetFile
<1>4. CASE UNCHANGED iconVars
  BY <1>4 DEF iconVars, IconInv, Course, IconFollowsScript, IsFile, IsAnimated,
              Period, Script
<1> QED BY <1>1, <1>2, <1>3, <1>4 DEF IconNext

-----------------------------------------------------------------------------
\* An animation plays its script, whatever frames lack an image and whenever
\* another file is set: IconAnimHelper never leaves its table of frames
\* (tick(), the unsigned frame number of a bouncing icon) and shows the image
\* of the frame it is at.
THEOREM IconAnimation == IconSpec => []IconFollowsScript
<1>1. IconInit => IconInv
  <2>1. IsAnimated(NoFile) = FALSE BY DEF IsAnimated, NoFile
  <2>2. IconInit => enabled = FALSE /\ file = NoFile BY DEF IconInit
  <2> QED BY <2>1, <2>2 DEF IconInv, IconFollowsScript
<1>2. IconInv /\ [IconNext]_iconVars => IconInv' BY IconInvInductive
<1>3. IconInv => IconFollowsScript BY DEF IconInv
<1> QED BY <1>1, <1>2, <1>3, PTL DEF IconSpec

-----------------------------------------------------------------------------
(* The parts together                                                      *)

\* Each part moves as it does alone, or stands still.
LEMMA Parts == Spec => SettingsSpec /\ FlagsSpec /\ IconSpec
<1>1. Init => SettingsInit /\ FlagsInit /\ IconInit
  BY DEF Init
<1>2. [Next]_interfaceVars =>
        /\ [SettingsNext]_settingsVars /\ [FlagsNext]_flagVars /\ [IconNext]_iconVars
  BY DEF Next, Messages, Configuration, SaveFlags, Icon, interfaceVars
<1> QED
  BY <1>1, <1>2, PTL DEF Spec, SettingsSpec, FlagsSpec, IconSpec

\* Whatever the user does in the interface: the menus show the settings the
\* program uses, each flag is on one page and is saved as it was checked, and
\* an animated icon plays its script.
THEOREM InterfaceShows ==
    Spec => [](/\ MenusShowSettings /\ TabsPartitionRows
               /\ SavesWhatWasChecked /\ IconFollowsScript)
BY Parts, MenusFollowSettings, PagesPartition, SavesAreChecked, IconAnimation, PTL
==============================================================================
