--------------------------------- MODULE Ui ---------------------------------
(***************************************************************************)
(* The button, the menu and the status screens (ui.c, gui_menu.c,          *)
(* gui_status.c).  An interrupt at each edge and two timers turn what the  *)
(* button does into events; the button thread handles them, and draws the  *)
(* menu or a status screen; every five seconds another thread, which has a *)
(* lower priority, draws the status screen anew.                           *)
(*                                                                         *)
(* draw[t] is what thread t has yet to draw.  Status screens are drawn     *)
(* under a mutex, the menu is not.  Some screens ask the WIFI module, and  *)
(* wait; to send a picture to the display is to wait, too.  What a menu    *)
(* item does is left to the modules of what it does.                       *)
(***************************************************************************)
EXTENDS Integers, Sequences

CONSTANTS
  NSCREENS,     \* status screens
  WifiScreens,  \* those that ask the WIFI module
  nitems,       \* of the menu
  MAX_VISIBLE,  \* items that are seen at a time
  MaxEdges, MaxUpdates  \* bounds: edges of the button, periods of gui_thread

ASSUME UiAssumption ==
  {NSCREENS, nitems, MAX_VISIBLE} \subseteq Nat \ {0} /\ {MaxEdges, MaxUpdates} \subseteq Nat

VARIABLES
  down,        \* the button is held down
  irq,         \* an interrupt of the button is pending
  button,      \* buttdown, pressed, and the timers vtb and vtb1
  butt_event,  \* the kind of event, 0: none, and (history) its number
  sem,         \* ui_srv is free: a signal came while the thread was at work
  service,     \* where ui_service_thread is
  status_current, \* current of gui_status.c: the status screen
  menu,        \* start, selection and menu_active
  draw,        \* thread -> what it has yet to draw
  gui_mutex,   \* the thread that has it, or "free"
  picture,     \* what was drawn since the picture was cleared
  shown,       \* what the display shows
  seen         \* history: edges, presses, events made and handled, updates, calm, tidy

ui == <<down, irq, button, butt_event, sem, service, status_current, menu, draw, gui_mutex,
        picture, shown, seen>>

SHORT == 1
LONG == 2
NoEvent == [kind |-> 0, nr |-> 0]

UiInit ==
  /\ down = FALSE /\ irq = FALSE
  /\ button = [buttdown |-> FALSE, pressed |-> FALSE, vtb |-> FALSE, vtb1 |-> FALSE]
  /\ butt_event = NoEvent /\ sem = FALSE /\ service = "wait"
  /\ status_current = 0
  /\ menu = [start |-> 0, selection |-> 0, active |-> FALSE]
  /\ draw = [t \in {"button", "gui"} |-> << >>] /\ gui_mutex = "free"
  /\ picture = << <<"status", 0, 1>>, <<"status", 0, 2>> >> /\ shown = picture
  /\ seen = [edges |-> 0, presses |-> 0, made |-> 0, handled |-> << >>, updates |-> 0,
             calm |-> TRUE, tidy |-> TRUE]

screen == <<status_current, menu, draw, gui_mutex, picture, shown>>

----------------------------------------------------------------------------
(* Interrupts. *)

\* The button moves, or bounces.
Edge ==
  /\ seen.edges < MaxEdges /\ seen' = [seen EXCEPT !.edges = @ + 1]
  /\ down' = ~down /\ irq' = TRUE
  /\ UNCHANGED <<button, butt_event, sem, service, screen>>

\* clickhandler and holdhandler: the event, and the semaphore.
Make(kind) ==
  /\ butt_event' = [kind |-> kind, nr |-> seen.made + 1]
  /\ service' = IF service = "wait" THEN "short" ELSE service
  /\ sem' = (sem \/ service # "wait")
  /\ seen' = [seen EXCEPT !.made = @ + 1, !.calm = @ /\ service = "wait"]

\* button_handler: both timers start again, or stop.
button_handler ==
  /\ irq /\ irq' = FALSE
  /\ IF down
     THEN /\ button' = [button EXCEPT !.buttdown = TRUE, !.vtb = TRUE, !.vtb1 = TRUE]
          /\ seen' = [seen EXCEPT !.presses = @ + 1]
          /\ UNCHANGED <<butt_event, sem, service>>
     ELSE /\ button' = [buttdown |-> FALSE, pressed |-> FALSE, vtb |-> FALSE, vtb1 |-> FALSE]
          /\ IF button.pressed THEN Make(SHORT) ELSE UNCHANGED <<butt_event, sem, service, seen>>
  /\ UNCHANGED <<down, screen>>

\* 10 ms
bphandler ==
  /\ button.vtb
  /\ button' = [button EXCEPT !.vtb = FALSE, !.pressed = @ \/ (down /\ button.buttdown)]
  /\ UNCHANGED <<down, irq, butt_event, sem, service, screen, seen>>

\* Mutant: the release of a button that was held is a click as well.
HoldAndClick ==
  /\ button.vtb1 /\ ~button.vtb
  /\ button' = [button EXCEPT !.vtb1 = FALSE]
  /\ Make(LONG)
  /\ UNCHANGED <<down, irq, screen>>

\* 600 ms
holdhandler ==
  /\ button.vtb1 /\ ~button.vtb
  /\ button' = [button EXCEPT !.vtb1 = FALSE, !.pressed = FALSE]
  /\ Make(LONG)
  /\ UNCHANGED <<down, irq, screen>>

----------------------------------------------------------------------------
(* Drawing. *)
ClearOp == [op |-> "clear"]
TextOp(what) == [op |-> "text", what |-> what]
LockOp == [op |-> "lock"]

StatusPicture(k) == << <<"status", k, 1>>, <<"status", k, 2>> >>
MenuPicture(m) == << <<"menu", m.start, m.selection>> >>

\* status_show, after it has the mutex.
status_screen(k) ==
  <<ClearOp, TextOp(<<"status", k, 1>>)>>
  \o (IF k \in WifiScreens THEN <<[op |-> "wait"]>> ELSE << >>)
  \o <<TextOp(<<"status", k, 2>>), [op |-> "flush"], [op |-> "unlock"]>>

status_show == <<LockOp>>

menu_show(m) == <<ClearOp, TextOp(MenuPicture(m)[1]), [op |-> "flush"]>>

menu_end == <<ClearOp>> \o status_show

Waits(t) ==
  /\ draw[t] # << >>
  /\ \/ Head(draw[t]).op \in {"wait", "flush"}
     \/ Head(draw[t]).op = "lock" /\ gui_mutex # "free"

\* gui_thread runs when the button thread has to wait.
MayDraw(t) ==
  \/ t = "button" \/ service \in {"wait", "beep", "beeps"}
  \/ service = "draw" /\ Waits("button")

Draw(t) ==
  /\ draw[t] # << >> /\ MayDraw(t)
  /\ LET s == Head(draw[t])
         rest == [draw EXCEPT ![t] = Tail(@)]
     IN  \/ /\ s.op = "lock" /\ gui_mutex = "free" /\ gui_mutex' = t
            /\ draw' = [draw EXCEPT ![t] = status_screen(status_current) \o Tail(@)]
            /\ UNCHANGED <<picture, shown>>
         \/ /\ s.op = "unlock" /\ gui_mutex' = "free"
            /\ draw' = rest /\ UNCHANGED <<picture, shown>>
         \/ /\ s.op \in {"clear", "text"}
            /\ picture' = IF s.op = "clear" THEN << >> ELSE Append(picture, s.what)
            /\ draw' = rest /\ UNCHANGED <<gui_mutex, shown>>
         \/ /\ s.op = "flush" /\ shown' = picture
            /\ draw' = rest /\ UNCHANGED <<gui_mutex, picture>>
         \/ /\ s.op = "wait"
            /\ draw' = rest /\ UNCHANGED <<gui_mutex, picture, shown>>
  /\ UNCHANGED <<down, irq, button, butt_event, sem, service, status_current, menu, seen>>

\* Mutant: the status screen is drawn over the menu.
UpdateAlways ==
  /\ draw["gui"] = << >> /\ MayDraw("gui")
  /\ seen.updates < MaxUpdates /\ seen' = [seen EXCEPT !.updates = @ + 1]
  /\ draw' = [draw EXCEPT !["gui"] = status_show]
  /\ UNCHANGED <<down, irq, button, butt_event, sem, service, status_current, menu, gui_mutex,
                 picture, shown>>

\* gui_thread wakes up.
Update ==
  /\ draw["gui"] = << >> /\ MayDraw("gui")
  /\ seen.updates < MaxUpdates /\ seen' = [seen EXCEPT !.updates = @ + 1]
  /\ draw' = [draw EXCEPT !["gui"] = IF menu.active THEN << >> ELSE status_show]
  /\ UNCHANGED <<down, irq, button, butt_event, sem, service, status_current, menu, gui_mutex,
                 picture, shown>>

----------------------------------------------------------------------------
(* The button thread. *)

\* What is drawn over the picture of gui_thread, and with what mutex.
Draws(ops) ==
  /\ draw' = [draw EXCEPT !["button"] = ops]
  /\ seen' = [seen EXCEPT !.handled = Append(@, butt_event.nr),
                          !.tidy = @ /\ (ops[1] = LockOp \/ draw["gui"] = << >>)]

menu_increment ==
  IF menu.start + menu.selection >= nitems - 1
  THEN menu' = [menu EXCEPT !.active = FALSE] /\ Draws(menu_end)
  ELSE /\ menu' = IF menu.selection >= MAX_VISIBLE - 1
                  THEN [menu EXCEPT !.start = @ + 1] ELSE [menu EXCEPT !.selection = @ + 1]
       /\ Draws(menu_show(menu'))

click_handler ==
  IF menu.active THEN menu_increment /\ UNCHANGED status_current
  ELSE status_current' = (status_current + 1) % NSCREENS /\ Draws(status_show) /\ UNCHANGED menu

\* menu_select and menu_activate
push_handler ==
  IF menu.active THEN menu' = [menu EXCEPT !.active = FALSE] /\ Draws(menu_end)
  ELSE /\ menu' = [start |-> 0, selection |-> 0, active |-> TRUE]
       /\ Draws(menu_show(menu'))

\* "short" and "long" are the two tests of butt_event.
TestShort ==
  /\ service = "short"
  /\ service' = IF butt_event.kind = SHORT THEN "beep" ELSE "long"
  /\ UNCHANGED <<down, irq, button, butt_event, sem, screen, seen>>

\* After beep: the handler is that of the test.
HandleShort ==
  /\ service = "beep" /\ service' = "draw"
  /\ click_handler
  /\ UNCHANGED <<down, irq, button, butt_event, sem, gui_mutex, picture, shown>>

TestLong ==
  /\ service = "long"
  /\ service' = IF butt_event.kind = LONG THEN "beeps" ELSE "clear"
  /\ UNCHANGED <<down, irq, button, butt_event, sem, screen, seen>>

HandleLong ==
  /\ service = "beeps" /\ service' = "draw"
  /\ push_handler
  /\ UNCHANGED <<down, irq, button, butt_event, sem, status_current, gui_mutex, picture, shown>>

Drawn ==
  /\ service = "draw" /\ draw["button"] = << >> /\ service' = "clear"
  /\ UNCHANGED <<down, irq, button, butt_event, sem, screen, seen>>

\* butt_event = 0, and WAIT_BUTTON
Again ==
  /\ service = "clear"
  /\ butt_event' = NoEvent
  /\ service' = IF sem THEN "short" ELSE "wait"
  /\ sem' = FALSE
  /\ UNCHANGED <<down, irq, button, screen, seen>>

UiNext ==
  \/ Edge \/ button_handler \/ bphandler \/ holdhandler
  \/ Update \/ \E t \in {"button", "gui"} : Draw(t)
  \/ TestShort \/ HandleShort \/ TestLong \/ HandleLong \/ Drawn \/ Again

----------------------------------------------------------------------------
UiIdle == service = "wait" /\ draw["button"] = << >> /\ draw["gui"] = << >>

(***************************************************************************)
(* "UI service thread to handle button events" (ui.c:217, 235-252): an     *)
(* event is handled at most once, in the order the events were made; each  *)
(* takes a press of its own, so that a push is not a click as well         *)
(* (ui.c:273-314); and none is lost, as long as none is made before the    *)
(* one before it is handled, for then butt_event = 0 takes it away.        *)
(***************************************************************************)
ButtonExact ==
  /\ \A i, j \in DOMAIN seen.handled : i < j => seen.handled[i] < seen.handled[j]
  /\ seen.made <= seen.presses
  /\ UiIdle /\ seen.calm => Len(seen.handled) = seen.made

(***************************************************************************)
(* When nobody draws, the display shows the menu with the selected item if *)
(* the menu is active, and else the current status screen, nothing of what *)
(* was there before (gui_menu.c:78-122, 151-157), and all visible items    *)
(* exist; as long as the menu, which takes no mutex, is not drawn while    *)
(* the other thread draws a status screen.                                 *)
(***************************************************************************)
ScreenExact ==
  /\ menu.start + (IF nitems < MAX_VISIBLE THEN nitems ELSE MAX_VISIBLE) <= nitems
  /\ UiIdle /\ seen.tidy =>
       shown = IF menu.active THEN MenuPicture(menu) ELSE StatusPicture(status_current)

=============================================================================
