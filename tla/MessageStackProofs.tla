------------------------- MODULE MessageStackProofs -------------------------
(***************************************************************************)
(* Messages leave for a reason, for any number of messages.  The invariant *)
(* behind it is about each widget and the card: it ties the flags of a     *)
(* widget to the direction of its timeline.                                *)
(***************************************************************************)
EXTENDS MessageStack, TLAPS

\* MessageState of a widget in a window whose card is open or not.
Sound(w, open) ==
    /\ w \in Widgets
    /\ w.ticking => w.line = "stopped" /\ w.timed
    /\ (w.line = "backward") <=> (w.why # "none")
    /\ w.timeout => w.why = "timer"
    /\ w.bound => open /\ w.why # "card"

AllSound(ws, open) ==
    /\ DOMAIN ws \subseteq MsgIds
    /\ \A m \in DOMAIN ws : Sound(ws[m], open)

MessageInv == cardOpen \in BOOLEAN /\ AllSound(messageWidgets, cardOpen)

\* A message of the card folds up when the card takes the widget's connection
\* with it, and goes on folding up.
FoldsWithCard(w, v) ==
    /\ (w.line = "stopped" /\ w.bound /\ ~ v.bound) => v.line = "backward"
    /\ w.line = "backward" => v.line = "backward"

\* What MessagesLeaveForAReason says of a step.
LeavesForAReason ==
    \A m \in DOMAIN messageWidgets :
        LET w == messageWidgets[m] IN
        /\ ~ Has(m)' => w.why # "none" /\ (w.timeout => w.why = "timer")
        /\ Has(m)' => FoldsWithCard(w, messageWidgets'[m])

LEMMA InvIsTypeAndState == MessageInv <=> MessageTypeOK /\ MessagesConsistent
BY DEF MessageInv, AllSound, Sound, MessageTypeOK, MessagesConsistent, MessageState

-----------------------------------------------------------------------------
(* One widget *)

LEMMA NewSound ==
    ASSUME NEW timed \in BOOLEAN, NEW open \in BOOLEAN, NEW bound \in BOOLEAN,
           bound => open
    PROVE  Sound(NewWidget(timed, bound), open)
BY DEF Sound, NewWidget, Widgets

LEMMA UserDismissSound ==
    ASSUME NEW open \in BOOLEAN, NEW w, Sound(w, open)
    PROVE  /\ Sound(Dismiss(w, "user"), open) /\ Dismiss(w, "user").bound = w.bound
           /\ w.line = "backward" => Dismiss(w, "user").line = "backward"
<1>1. CASE w.line # "stopped" BY <1>1 DEF Dismiss
<1>2. CASE w.line = "stopped"
  BY <1>2 DEF Dismiss, HideAnimated, Sound, Widgets
<1> QED BY <1>1, <1>2

\* destroyed() of the card leaves no connection behind.
LEMMA CardDismissSound ==
    ASSUME NEW open \in BOOLEAN, NEW later \in BOOLEAN,
           NEW w, Sound(w, open), w.bound,
           NEW v, v = [Dismiss(w, "card") EXCEPT !.bound = FALSE]
    PROVE  Sound(v, later) /\ FoldsWithCard(w, v)
<1>1. CASE w.line # "stopped"
  BY <1>1 DEF Dismiss, Sound, Widgets, FoldsWithCard
<1>2. CASE w.line = "stopped"
  BY <1>2 DEF Dismiss, HideAnimated, Sound, Widgets, FoldsWithCard
<1> QED BY <1>1, <1>2

LEMMA UnfoldedSound ==
    ASSUME NEW open \in BOOLEAN, NEW w, Sound(w, open), w.line = "forward"
    PROVE  Sound(Unfolded(w), open) /\ Unfolded(w).bound = w.bound
BY DEF Unfolded, Sound, Widgets

\* A timer runs only on a message that stands: hideAnimated() starts its
\* timeline and turns none around.
LEMMA ExpirySound ==
    ASSUME NEW open \in BOOLEAN, NEW w, Sound(w, open), w.ticking,
           NEW v, v = HideAnimated([w EXCEPT !.timeout = TRUE, !.why = "timer"])
    PROVE  Sound(v, open) /\ v.bound = w.bound /\ v.line = "backward"
BY DEF HideAnimated, Sound, Widgets

\* Being shown again changes nothing but the flag of a timeout.
LEMMA ReshownSound ==
    ASSUME NEW open \in BOOLEAN, NEW w, Sound(w, open)
    PROVE  Sound(Reshown(w), open) /\ FoldsWithCard(w, Reshown(w))
BY DEF Reshown, Sound, Widgets, FoldsWithCard

-----------------------------------------------------------------------------
(* The stack *)

LEMMA AddSound ==
    ASSUME NEW open \in BOOLEAN, NEW ws, AllSound(ws, open), Room(ws),
           NEW w, Sound(w, open)
    PROVE  /\ AllSound(Add(ws, w), open)
           /\ \A i \in DOMAIN ws : i \in DOMAIN Add(ws, w) /\ Add(ws, w)[i] = ws[i]
<1> DEFINE m == CHOOSE i \in MsgIds : i \notin DOMAIN ws
<1>1. m \in MsgIds /\ m \notin DOMAIN ws
  <2>1. \E i \in MsgIds : i \notin DOMAIN ws BY DEF Room, AllSound
  <2> QED BY <2>1
<1>2. Add(ws, w) = [i \in DOMAIN ws \cup {m} |-> IF i = m THEN w ELSE ws[i]]
  BY DEF Add
<1> HIDE DEF m
<1> QED BY <1>1, <1>2 DEF AllSound

LEMMA SetSound ==
    ASSUME NEW open \in BOOLEAN, NEW ws, AllSound(ws, open),
           NEW m \in DOMAIN ws, NEW w, Sound(w, open)
    PROVE  /\ AllSound(Set(ws, m, w), open)
           /\ DOMAIN Set(ws, m, w) = DOMAIN ws
           /\ Set(ws, m, w)[m] = w
           /\ \A i \in DOMAIN ws \ {m} : Set(ws, m, w)[i] = ws[i]
BY DEF AllSound, Set

\* After the card is gone no widget is bound, so that it does not matter
\* whether another card is open.
LEMMA DestroyedSound ==
    ASSUME NEW open \in BOOLEAN, NEW ws, AllSound(ws, open), NEW later \in BOOLEAN
    PROVE  /\ AllSound(CardDestroyed(ws), later)
           /\ DOMAIN CardDestroyed(ws) = DOMAIN ws
           /\ \A m \in DOMAIN ws : FoldsWithCard(ws[m], CardDestroyed(ws)[m])
<1>1. DOMAIN CardDestroyed(ws) = DOMAIN ws BY DEF CardDestroyed
<1>2. ASSUME NEW m \in DOMAIN ws
      PROVE  Sound(CardDestroyed(ws)[m], later)
             /\ FoldsWithCard(ws[m], CardDestroyed(ws)[m])
  <2>1. Sound(ws[m], open) BY DEF AllSound
  <2>2. CASE ws[m].bound
    <3>1. CardDestroyed(ws)[m] = [Dismiss(ws[m], "card") EXCEPT !.bound = FALSE]
      BY <2>2 DEF CardDestroyed
    <3> QED BY <2>1, <2>2, <3>1, CardDismissSound
  <2>3. CASE ~ ws[m].bound
    <3>1. CardDestroyed(ws)[m] = ws[m] BY <2>3 DEF CardDestroyed
    <3> QED BY <2>1, <2>3, <3>1 DEF Sound, FoldsWithCard
  <2> QED BY <2>2, <2>3
<1> QED BY <1>1, <1>2 DEF AllSound

\* A step that keeps every message, and whether it is bound, is fine.
LEMMA KeepingIsFine ==
    ASSUME \A m \in DOMAIN messageWidgets :
               m \in DOMAIN messageWidgets'
               /\ FoldsWithCard(messageWidgets[m], messageWidgets'[m])
    PROVE  LeavesForAReason
BY DEF LeavesForAReason, Has

\* One widget of the stack changes and stays bound as it is.
LEMMA SettingIsFine ==
    ASSUME MessageInv, NEW m \in DOMAIN messageWidgets,
           NEW w, Sound(w, cardOpen), w.bound = messageWidgets[m].bound,
           messageWidgets[m].line = "backward" => w.line = "backward",
           messageWidgets' = Set(messageWidgets, m, w), UNCHANGED cardOpen
    PROVE  MessageInv' /\ LeavesForAReason
<1>1. MessageInv' BY SetSound DEF MessageInv
<1>2. \A i \in DOMAIN messageWidgets :
          i \in DOMAIN messageWidgets'
          /\ FoldsWithCard(messageWidgets[i], messageWidgets'[i])
  <2>1. DOMAIN messageWidgets' = DOMAIN messageWidgets /\ messageWidgets'[m] = w
        /\ \A i \in DOMAIN messageWidgets \ {m} : messageWidgets'[i] = messageWidgets[i]
    BY SetSound DEF MessageInv
  <2> QED BY <2>1 DEF FoldsWithCard
<1> QED BY <1>1, <1>2, KeepingIsFine

-----------------------------------------------------------------------------
LEMMA OpenCardStep ==
    ASSUME MessageInv, MessageOpenCard
    PROVE  MessageInv' /\ LeavesForAReason
<1> DEFINE ws == CardDestroyed(messageWidgets)
<1>1. /\ AllSound(ws, TRUE) /\ AllSound(ws, FALSE)
      /\ DOMAIN ws = DOMAIN messageWidgets
      /\ \A m \in DOMAIN messageWidgets : FoldsWithCard(messageWidgets[m], ws[m])
  BY DestroyedSound DEF MessageInv
<1>2. /\ Sound(NewWidget(FALSE, TRUE), TRUE)
      /\ Sound(NewWidget(FALSE, FALSE), FALSE)
  BY NewSound
<1>3. \/ messageWidgets' = ws /\ cardOpen' = TRUE
      \/ Room(ws) /\ messageWidgets' = Add(ws, NewWidget(FALSE, TRUE)) /\ cardOpen' = TRUE
      \/ Room(ws) /\ messageWidgets' = Add(ws, NewWidget(FALSE, FALSE)) /\ cardOpen' = FALSE
  BY DEF MessageOpenCard
<1> HIDE DEF ws
<1>4. CASE messageWidgets' = ws /\ cardOpen' = TRUE
  BY <1>1, <1>4, KeepingIsFine DEF MessageInv
<1>5. ASSUME NEW w, NEW open \in BOOLEAN, Sound(w, open), AllSound(ws, open), Room(ws),
             messageWidgets' = Add(ws, w), cardOpen' = open
      PROVE  MessageInv' /\ LeavesForAReason
  <2>1. AllSound(messageWidgets', open)
        /\ \A i \in DOMAIN ws : i \in DOMAIN messageWidgets' /\ messageWidgets'[i] = ws[i]
    BY <1>5, AddSound
  <2>2. MessageInv' BY <1>5, <2>1 DEF MessageInv
  <2> QED BY <1>1, <2>1, <2>2, KeepingIsFine
<1> QED BY <1>1, <1>2, <1>3, <1>4, <1>5

LEMMA ShowMessageStep ==
    ASSUME MessageInv, NEW timed \in BOOLEAN, ShowMessage(timed)
    PROVE  MessageInv' /\ LeavesForAReason
<1>1. Sound(NewWidget(timed, FALSE), cardOpen) BY NewSound DEF MessageInv
<1>2. /\ AllSound(messageWidgets', cardOpen)
      /\ \A i \in DOMAIN messageWidgets :
            i \in DOMAIN messageWidgets' /\ messageWidgets'[i] = messageWidgets[i]
  BY <1>1, AddSound DEF MessageInv, ShowMessage
<1>3. MessageInv' BY <1>2 DEF MessageInv, ShowMessage
<1> QED BY <1>2, <1>3, KeepingIsFine DEF FoldsWithCard

LEMMA DismissedStep ==
    ASSUME MessageInv, NEW m \in DOMAIN messageWidgets, MessageDismissed(m)
    PROVE  MessageInv' /\ LeavesForAReason
<1>1. /\ DOMAIN messageWidgets' = DOMAIN messageWidgets \ {m}
      /\ \A i \in DOMAIN messageWidgets' : messageWidgets'[i] = messageWidgets[i]
      /\ cardOpen' = cardOpen /\ messageWidgets[m].line = "backward"
  BY DEF MessageDismissed
<1>2. MessageInv'
  <2>1. ASSUME NEW i \in DOMAIN messageWidgets'
        PROVE  i \in MsgIds /\ Sound(messageWidgets'[i], cardOpen)
    BY <1>1 DEF MessageInv, AllSound
  <2>2. AllSound(messageWidgets', cardOpen) BY <2>1 DEF AllSound
  <2> QED BY <1>1, <2>2 DEF MessageInv
<1>3. messageWidgets[m].why # "none"
      /\ (messageWidgets[m].timeout => messageWidgets[m].why = "timer")
  <2>1. Sound(messageWidgets[m], cardOpen) BY DEF MessageInv, AllSound
  <2> QED BY <1>1, <2>1 DEF Sound
<1>4. ASSUME NEW i \in DOMAIN messageWidgets, i # m
      PROVE  i \in DOMAIN messageWidgets' /\ messageWidgets'[i] = messageWidgets[i]
  BY <1>1, <1>4
<1>5. m \notin DOMAIN messageWidgets' BY <1>1
<1>6. LeavesForAReason
  BY <1>3, <1>4, <1>5 DEF LeavesForAReason, Has, FoldsWithCard
<1> QED BY <1>2, <1>6

LEMMA RestoreStep ==
    ASSUME MessageInv, RestoreWindow
    PROVE  MessageInv' /\ LeavesForAReason
<1>1. /\ DOMAIN messageWidgets' = DOMAIN messageWidgets
      /\ \A m \in DOMAIN messageWidgets : messageWidgets'[m] = Reshown(messageWidgets[m])
      /\ cardOpen' = cardOpen
  BY DEF RestoreWindow
<1>2. ASSUME NEW m \in DOMAIN messageWidgets
      PROVE  /\ Sound(messageWidgets'[m], cardOpen)
             /\ FoldsWithCard(messageWidgets[m], messageWidgets'[m])
  BY <1>1, ReshownSound DEF MessageInv, AllSound
<1>3. MessageInv' BY <1>1, <1>2 DEF MessageInv, AllSound
<1> QED BY <1>1, <1>2, <1>3, KeepingIsFine

LEMMA MessageStep ==
    ASSUME MessageInv, [MessageNext]_messageVars
    PROVE  MessageInv' /\ (LeavesForAReason \/ UNCHANGED messageVars)
<1>1. CASE MessageOpenCard BY <1>1, OpenCardStep
<1>2. CASE MessageCloseCard
  <2>1. /\ AllSound(messageWidgets', cardOpen')
        /\ DOMAIN messageWidgets' = DOMAIN messageWidgets
        /\ \A m \in DOMAIN messageWidgets :
               FoldsWithCard(messageWidgets[m], messageWidgets'[m])
    BY <1>2, DestroyedSound DEF MessageInv, MessageCloseCard
  <2> QED BY <1>2, <2>1, KeepingIsFine DEF MessageInv, MessageCloseCard
<1>3. ASSUME NEW timed \in BOOLEAN, ShowMessage(timed) PROVE MessageInv' /\ LeavesForAReason
  BY <1>3, ShowMessageStep
<1>4. ASSUME NEW m \in MsgIds, MessageClock(m) PROVE MessageInv' /\ LeavesForAReason
  <2>1. m \in DOMAIN messageWidgets BY <1>4 DEF MessageClock, Has
  <2>2. Sound(messageWidgets[m], cardOpen) /\ cardOpen \in BOOLEAN
    BY <2>1 DEF MessageInv, AllSound
  <2>3. CASE MessageUnfolded(m)
    BY <2>1, <2>2, <2>3, UnfoldedSound, SettingIsFine DEF MessageUnfolded
  <2>4. CASE MessageDismissed(m) BY <2>1, <2>4, DismissedStep
  <2>5. CASE TimerExpires(m)
    BY <2>1, <2>2, <2>5, ExpirySound, SettingIsFine DEF TimerExpires
  <2> QED BY <1>4, <2>3, <2>4, <2>5 DEF MessageClock
<1>5. ASSUME NEW m \in DOMAIN messageWidgets, ClickDismiss(m)
      PROVE  MessageInv' /\ LeavesForAReason
  <2>1. Sound(messageWidgets[m], cardOpen) /\ cardOpen \in BOOLEAN
    BY DEF MessageInv, AllSound
  <2> QED BY <1>5, <2>1, UserDismissSound, SettingIsFine DEF ClickDismiss
<1>6. CASE RestoreWindow BY <1>6, RestoreStep
<1>7. CASE UNCHANGED messageVars BY <1>7 DEF messageVars, MessageInv
<1> QED BY <1>1, <1>2, <1>3, <1>4, <1>5, <1>6, <1>7 DEF MessageNext

LEMMA MessageInvInvariant == MessageSpec => []MessageInv
<1>1. MessageInit => MessageInv
  BY DEF MessageInit, MessageInv, AllSound
<1>2. MessageInv /\ [MessageNext]_messageVars => MessageInv' BY MessageStep
<1> QED BY <1>1, <1>2, PTL DEF MessageSpec

\* The widgets are well-formed, their timers run only while they stand, and
\* what a widget will report as it folds up agrees with why it does.
THEOREM MessagesSound == MessageSpec => [](MessageTypeOK /\ MessagesConsistent)
BY MessageInvInvariant, InvIsTypeAndState, PTL

\* MessageWidget emits dismissed() only after it was dismissed, with the flag
\* of a timeout set for nothing but a timeout; a message that folds up goes on
\* with it, and one about a card that stands goes with its card.
THEOREM MessagesLeave == MessageSpec => MessagesLeaveForAReason
<1>1. MessageInv /\ [MessageNext]_messageVars => [LeavesForAReason]_messageVars
  BY MessageStep
<1>2. LeavesForAReason =>
      \A m \in DOMAIN messageWidgets :
        LET w == messageWidgets[m] IN
        /\ ~ Has(m)' => w.why # "none" /\ (w.timeout => w.why = "timer")
        /\ (Has(m)' /\ w.line = "backward") => messageWidgets'[m].line = "backward"
        /\ (Has(m)' /\ w.line = "stopped" /\ w.bound /\ ~ messageWidgets'[m].bound)
               => messageWidgets'[m].line = "backward"
  BY DEF LeavesForAReason, FoldsWithCard
<1> QED BY <1>1, <1>2, MessageInvInvariant, PTL DEF MessageSpec, MessagesLeaveForAReason
=============================================================================
