---------------------------- MODULE MessageStack ----------------------------
(***************************************************************************)
(* MessageWidgetStack and its MessageWidgets: the messages above the file  *)
(* list.  A message unfolds, stays until it is dismissed by its button, by *)
(* its timer or by the destruction of the card it is about, folds up again *)
(* and is deleted.  The QTimeLine of a widget is its direction while it    *)
(* runs; texts, icons and heights are left out.                            *)
(***************************************************************************)
EXTENDS Naturals

CONSTANT MaxMessages        \* bound: messages on the stack at a time

ASSUME MessagesAssumption == MaxMessages \in Nat \ {0}

VARIABLES
    messageWidgets, \* the set of the same name, with the state of each widget
    cardOpen        \* d->card of the main window is an open card

messageVars == <<messageWidgets, cardOpen>>

MsgIds == 1..MaxMessages

\* line: timeLine.  timed: the interval of tmrTimeout is positive.  ticking:
\* tmrTimeout runs.  timeout: "True if message was dismissed via timeout."
\* bound: destroyed() of the open card is connected to the widget.
\* why (history): what the widget has accepted as the reason to go.
Widgets == [line : {"forward", "stopped", "backward"}, timed : BOOLEAN,
            ticking : BOOLEAN, timeout : BOOLEAN, bound : BOOLEAN,
            why : {"none", "user", "timer", "card"}]

MessageTypeOK ==
    /\ DOMAIN messageWidgets \subseteq MsgIds
    /\ \A m \in DOMAIN messageWidgets : messageWidgets[m] \in Widgets
    /\ cardOpen \in BOOLEAN

MessageInit ==
    /\ messageWidgets = [m \in {} |-> 0]
    /\ cardOpen = FALSE

\* A new widget: shown, its timeline started by the first showEvent().
NewWidget(timed, bound) ==
    [line |-> "forward", timed |-> timed, ticking |-> FALSE,
     timeout |-> FALSE, bound |-> bound, why |-> "none"]

\* hideAnimated(): a timeline that runs already only changes its direction.
HideAnimated(w) == [w EXCEPT !.ticking = FALSE, !.line = "backward"]

\* Seeded fault: the flag of the last timeout is kept.
DismissKeepsFlag(w, why) ==
    IF w.line # "stopped" THEN w
    ELSE HideAnimated([w EXCEPT !.why = why, !.timeout = (why = "card")])

\* on_btnDismiss_clicked(): ignored while an animation runs.
Dismiss(w, why) ==
    IF w.line # "stopped" THEN w
    ELSE HideAnimated([w EXCEPT !.why = why, !.timeout = FALSE])

Has(m) == m \in DOMAIN messageWidgets
Set(ws, m, w) == [ws EXCEPT ![m] = w]

\* showMessage() of the stack: one more widget.
Add(ws, w) ==
    LET m == CHOOSE i \in MsgIds : i \notin DOMAIN ws
    IN  [i \in DOMAIN ws \cup {m} |-> IF i = m THEN w ELSE ws[i]]
Room(ws) == MsgIds # DOMAIN ws

\* delete d->card: destroyed() reaches the widgets connected to it.
CardDestroyed(ws) ==
    [m \in DOMAIN ws |->
        IF ws[m].bound THEN [Dismiss(ws[m], "card") EXCEPT !.bound = FALSE]
        ELSE ws[m]]

\* openCard(): the old card goes first.  A card that cannot be opened leaves
\* a message of its own, one with errors a message bound to it.
MessageOpenCard ==
    LET ws == CardDestroyed(messageWidgets) IN
    \/ /\ messageWidgets' = ws
       /\ cardOpen' = TRUE
    \/ /\ Room(ws)
       /\ messageWidgets' = Add(ws, NewWidget(FALSE, TRUE))
       /\ cardOpen' = TRUE
    \/ /\ Room(ws)
       /\ messageWidgets' = Add(ws, NewWidget(FALSE, FALSE))
       /\ cardOpen' = FALSE

MessageCloseCard ==
    /\ cardOpen
    /\ messageWidgets' = CardDestroyed(messageWidgets)
    /\ cardOpen' = FALSE

\* chkAllowWrite_clicked() shows an untimed message; the timeout of
\* showMessage() is there for other callers.
ShowMessage(timed) ==
    /\ Room(messageWidgets)
    /\ timed \/ cardOpen
    /\ messageWidgets' = Add(messageWidgets, NewWidget(timed, FALSE))
    /\ UNCHANGED cardOpen

ClickDismiss(m) ==
    /\ messageWidgets' = Set(messageWidgets, m, Dismiss(messageWidgets[m], "user"))
    /\ UNCHANGED cardOpen

\* Seeded fault: the timer is started for messages without a timeout.
UnfoldedAlwaysTimes(w) ==
    [w EXCEPT !.line = "stopped", !.timeout = FALSE, !.ticking = ~w.timed]

\* timeLineFinished_slot(), forward.
Unfolded(w) ==
    [w EXCEPT !.line = "stopped", !.timeout = FALSE, !.ticking = w.timed]

MessageUnfolded(m) ==
    /\ messageWidgets[m].line = "forward"
    /\ messageWidgets' = Set(messageWidgets, m, Unfolded(messageWidgets[m]))
    /\ UNCHANGED cardOpen

\* timeLineFinished_slot(), backward: dismissed() makes the stack delete it.
MessageDismissed(m) ==
    /\ messageWidgets[m].line = "backward"
    /\ messageWidgets' = [i \in DOMAIN messageWidgets \ {m} |-> messageWidgets[i]]
    /\ UNCHANGED cardOpen

TimerExpires(m) ==
    /\ messageWidgets[m].ticking
    /\ messageWidgets' = Set(messageWidgets, m,
           HideAnimated([messageWidgets[m] EXCEPT !.timeout = TRUE, !.why = "timer"]))
    /\ UNCHANGED cardOpen

\* showEvent() again, of a window that was minimized: of all its widgets.
Reshown(w) == [w EXCEPT !.timeout = FALSE]

RestoreWindow ==
    /\ messageWidgets' = [m \in DOMAIN messageWidgets |-> Reshown(messageWidgets[m])]
    /\ UNCHANGED cardOpen

MessageClock(m) ==
    /\ Has(m)
    /\ MessageUnfolded(m) \/ MessageDismissed(m) \/ TimerExpires(m)

MessageNext ==
    \/ MessageOpenCard
    \/ MessageCloseCard
    \/ \E timed \in BOOLEAN : ShowMessage(timed)
    \/ \E m \in MsgIds : MessageClock(m)
    \/ \E m \in DOMAIN messageWidgets : ClickDismiss(m)
    \/ RestoreWindow

MessageSpec == MessageInit /\ [][MessageNext]_messageVars

\* The timers and timelines of Qt go on as long as the event loop runs.
MessageFairness == \A m \in MsgIds : WF_messageVars(MessageClock(m))

-----------------------------------------------------------------------------
\* The strengthening behind the action property: a timer runs only behind a
\* message that stands and has a timeout, so that it never cuts an animation
\* short; a message that folds up knows why, and dismissed() will call nothing
\* else a timeout; and only a message of the open card is bound to it.
MessageState(w) ==
    /\ w.ticking => w.line = "stopped" /\ w.timed
    /\ (w.line = "backward") <=> (w.why # "none")
    /\ w.timeout => w.why = "timer"
    /\ w.bound => cardOpen /\ w.why # "card"
MessagesConsistent == \A m \in DOMAIN messageWidgets : MessageState(messageWidgets[m])

\* A message is deleted only after the user, its timer or its card dismissed
\* it, and no other dismissal is reported as a timeout (a timeout may be
\* reported as another: showEvent() clears the flag); one that folds up never
\* unfolds again; and a standing message about a card goes when the card does.
MessagesLeaveForAReason ==
    [][\A m \in DOMAIN messageWidgets :
        LET w == messageWidgets[m] IN
        /\ ~ Has(m)' => w.why # "none" /\ (w.timeout => w.why = "timer")
        /\ (Has(m)' /\ w.line = "backward") => messageWidgets'[m].line = "backward"
        /\ (Has(m)' /\ w.line = "stopped" /\ w.bound /\ ~ messageWidgets'[m].bound)
               => messageWidgets'[m].line = "backward"]_messageVars

\* A message with a closeOnDestroy object closes when that is destroyed: it
\* folds up in the very step, for no later one still knows of the object.
ClosesOnDestroy ==
    [][\A m \in DOMAIN messageWidgets :
        (Has(m)' /\ messageWidgets[m].bound /\ ~ messageWidgets'[m].bound)
            => messageWidgets'[m].line = "backward"]_messageVars

\* Every message with a timeout, and every message that has accepted its
\* dismissal, goes.
DismissedMessagesGo ==
    \A m \in MsgIds :
        (Has(m) /\ (messageWidgets[m].timed \/ messageWidgets[m].why # "none"))
            ~> ~ Has(m)
=============================================================================
