------------------------------- MODULE Igate --------------------------------
(***************************************************************************)
(* The igate (igate.c): igate_activate starts and stops a main thread that *)
(* connects to an APRS-IS server and listens to it, and while connected    *)
(* runs a child, the radio thread, that sends on what decoder and tracker  *)
(* put into rxqueue.  Data from the server comes by way of the WIFI        *)
(* monitor (wifi.c) and read_queue; closing is reported by a flag only.    *)
(*                                                                         *)
(* Queues hold "item" (a packet or data) or "signal" (the empty buffer of  *)
(* fbq_signal).  One thread at a time turns the igate on and off.          *)
(***************************************************************************)
EXTENDS Integers, Sequences, SequencesExt

CONSTANTS
  Size,     \* HDLC_DECODER_QUEUE_SIZE
  ReadSize  \* INET_RX_QUEUE_SIZE

ASSUME IgateAssumption == Size \in Nat \ {0} /\ ReadSize \in Nat \ {0}

VARIABLES
  control,          \* where igate_activate stands
  main, radio,      \* where the threads stand
  igate_on, igate_run,
  subscribed,       \* who puts into rxqueue: mqueue[2] and gate are set
  putter,           \* whether decoder or tracker waits in fbq_put
  rxqueue, read_queue,
  inet_connected,
  tries,
  lost,             \* history: the server has closed a connection
  crowded           \* history: a fbq_signal has found the queue full

flags == <<igate_on, igate_run>>
history == <<lost, crowded>>
vars == <<control, main, radio, flags, subscribed, putter, rxqueue, read_queue,
          inet_connected, tries, history>>

Putters == {"decoder", "tracker"}

Init ==
  /\ control = "off" /\ main = "none" /\ radio = "none"
  /\ igate_on = FALSE /\ igate_run = FALSE
  /\ subscribed = {} /\ putter = [p \in Putters |-> "idle"]
  /\ rxqueue = << >> /\ read_queue = << >>
  /\ inet_connected = FALSE /\ tries = 0
  /\ lost = FALSE /\ crowded = FALSE

----------------------------------------------------------------------------
(* The radio thread. *)

RadioLoop == radio' = IF igate_run THEN "get" ELSE "none"

\* After its first sleep; after rf2inet and the sleep that follows.
RadioNext ==
  /\ radio \in {"start", "busy"} /\ RadioLoop
  /\ UNCHANGED <<control, main, flags, subscribed, putter, rxqueue, read_queue, inet_connected,
                 tries, history>>

RadioGet ==
  /\ radio = "get" /\ rxqueue # << >>
  /\ rxqueue' = Tail(rxqueue) /\ radio' = "busy"
  /\ UNCHANGED <<control, main, flags, subscribed, putter, read_queue, inet_connected, tries,
                 history>>

Radio == RadioNext \/ RadioGet

----------------------------------------------------------------------------
(* Decoder and tracker put packets into rxqueue, waiting while it is full. *)

Put(p) ==
  /\ p \in subscribed /\ putter[p] = "idle"
  /\ IF Len(rxqueue) < Size
       THEN rxqueue' = Append(rxqueue, "item") /\ UNCHANGED putter
       ELSE putter' = [putter EXCEPT ![p] = "wait"] /\ UNCHANGED rxqueue
  /\ UNCHANGED <<control, main, radio, flags, subscribed, read_queue, inet_connected, tries, history>>

PutResume(p) ==
  /\ putter[p] = "wait" /\ Len(rxqueue) < Size
  /\ rxqueue' = Append(rxqueue, "item") /\ putter' = [putter EXCEPT ![p] = "idle"]
  /\ UNCHANGED <<control, main, radio, flags, subscribed, read_queue, inet_connected, tries, history>>

\* Mutant: the queue of the previous subscription is kept.
SubscribeKeeps(q) ==
  /\ UNCHANGED <<rxqueue, putter>>
  /\ subscribed' = IF q THEN subscribed \cup {"decoder"} ELSE subscribed \ {"decoder"}

(* hdlc_subscribe_rx(q or NULL, 2), which clears the queue of the previous *)
(* subscription and so lets go those who wait to put.                      *)
Subscribe(q) ==
  /\ IF "decoder" \in subscribed
       THEN rxqueue' = << >> /\ putter' = [p \in Putters |-> "idle"]
       ELSE UNCHANGED <<rxqueue, putter>>
  /\ subscribed' = IF q THEN subscribed \cup {"decoder"} ELSE subscribed \ {"decoder"}

----------------------------------------------------------------------------
(* The main thread. *)

Goto(place) == main' = place /\ UNCHANGED <<control, subscribed, putter, inet_connected, history>>

\* The head of the outer loop.
Start ==
  /\ main \in {"start", "pause"}
  /\ Goto(IF igate_on THEN "connect" ELSE "none")
  /\ tries' = 0
  /\ UNCHANGED <<radio, flags, rxqueue, read_queue>>

(* While the WIFI has no access point the thread sleeps and asks again;    *)
(* igate_on is not asked before there is a connection.                     *)
Connect ==
  /\ main = "connect"
  /\ inet_connected' = TRUE
  /\ main' = IF igate_on THEN "welcome" ELSE "none"
  /\ UNCHANGED <<control, radio, flags, subscribed, putter, rxqueue, read_queue, tries, history>>

\* res is the value of "inet_open(...) != 0 && tries++ < 3": 0 at the fourth failure.
ConnectFails ==
  /\ main = "connect"
  /\ IF tries < 3
       THEN tries' = tries + 1 /\ UNCHANGED main
       ELSE /\ UNCHANGED tries
            /\ main' = IF ~igate_on THEN "none" ELSE IF inet_connected THEN "welcome" ELSE "login"
  /\ UNCHANGED <<control, radio, flags, subscribed, putter, rxqueue, read_queue, inet_connected,
                 history>>

\* fbq_get in inet_ignoreInput, for the welcome and for the answer to the login.
Ignore ==
  /\ main \in {"welcome", "reply"} /\ read_queue # << >>
  /\ read_queue' = Tail(read_queue)
  /\ Goto(IF main = "welcome" THEN "login" ELSE "begin")
  /\ UNCHANGED <<radio, flags, rxqueue, tries>>

\* inet_write in igate_login, which takes time.
Login ==
  /\ main = "login"
  /\ igate_run' = TRUE
  /\ Goto(IF inet_connected THEN "reply" ELSE "begin")
  /\ UNCHANGED <<radio, igate_on, rxqueue, read_queue, tries>>

Listening == IF inet_connected /\ igate_on THEN "listen" ELSE "end"

Begin ==
  /\ main = "begin"
  /\ radio' = "start"
  /\ Subscribe(TRUE)
  /\ main' = Listening
  /\ UNCHANGED <<control, flags, read_queue, inet_connected, tries, history>>

Listen ==
  /\ main = "listen" /\ read_queue # << >>
  /\ read_queue' = Tail(read_queue)
  /\ Goto(Listening)
  /\ UNCHANGED <<radio, flags, rxqueue, tries>>

\* fbq_signal(&rxqueue)
End ==
  /\ main = "end"
  /\ igate_run' = FALSE
  /\ IF Len(rxqueue) < Size
       THEN rxqueue' = Append(rxqueue, "signal") /\ main' = "unsubscribe" /\ UNCHANGED crowded
       ELSE main' = "signal" /\ crowded' = TRUE /\ UNCHANGED rxqueue
  /\ UNCHANGED <<control, radio, igate_on, subscribed, putter, read_queue, inet_connected, tries,
                 lost>>

EndResume ==
  /\ main = "signal" /\ Len(rxqueue) < Size
  /\ rxqueue' = Append(rxqueue, "signal")
  /\ Goto("unsubscribe")
  /\ UNCHANGED <<radio, flags, read_queue, tries>>

\* After a sleep, in which a radio thread that waited for a buffer gets it.
Unsubscribe ==
  /\ main = "unsubscribe" /\ ~(radio = "get" /\ rxqueue # << >>)
  /\ Subscribe(FALSE)
  /\ main' = "join"
  /\ UNCHANGED <<control, radio, flags, read_queue, inet_connected, tries, history>>

\* Mutant: the radio thread is not waited for.
JoinNot ==
  /\ main = "join"
  /\ Goto(IF igate_on THEN "pause" ELSE "none")
  /\ UNCHANGED <<radio, flags, rxqueue, read_queue, tries>>

\* chThdWait(igt); a pause if the connection failed, cut short when turned off.
Join ==
  /\ main = "join" /\ radio = "none"
  /\ Goto(IF igate_on THEN "pause" ELSE "none")
  /\ UNCHANGED <<radio, flags, rxqueue, read_queue, tries>>

Main ==
  \/ Start \/ ConnectFails \/ Ignore \/ Login \/ Begin \/ Listen
  \/ End \/ EndResume \/ Unsubscribe \/ Join

----------------------------------------------------------------------------
(* What the WIFI monitor reports. *)

\* It never waits for a place.
Data ==
  /\ inet_connected /\ Len(read_queue) < ReadSize
  /\ read_queue' = Append(read_queue, "item")
  /\ UNCHANGED <<control, main, radio, flags, subscribed, putter, rxqueue, inet_connected, tries,
                 history>>

(* By the server, or since inet_close asked for it: then it is reported    *)
(* while igate_activate sleeps.                                            *)
Closed ==
  /\ inet_connected /\ inet_connected' = FALSE
  /\ control' = IF control = "closing" THEN "wake" ELSE control
  /\ lost' = (lost \/ control # "closing")
  /\ UNCHANGED <<main, radio, flags, subscribed, putter, rxqueue, read_queue, tries, crowded>>

----------------------------------------------------------------------------
(* igate_activate. *)

Activate ==
  /\ control = "off" /\ control' = "on"
  /\ igate_on' = TRUE /\ main' = "start"
  /\ subscribed' = Putters
  /\ UNCHANGED <<radio, igate_run, putter, rxqueue, read_queue, inet_connected, tries, history>>

Deactivate ==
  /\ control = "on" /\ control' = "radio" /\ igate_on' = FALSE
  /\ UNCHANGED <<main, radio, igate_run, subscribed, putter, rxqueue, read_queue, inet_connected,
                 tries, history>>

\* radio_release has returned: inet_close.
Close ==
  /\ control = "radio" /\ control' = IF inet_connected THEN "closing" ELSE "wake"
  /\ UNCHANGED <<main, radio, flags, subscribed, putter, rxqueue, read_queue, inet_connected, tries,
                 history>>


\* inet_signalReader, after a sleep.
Wake ==
  /\ control = "wake"
  /\ IF Len(read_queue) < ReadSize
       THEN /\ read_queue' = Append(read_queue, "signal")
            /\ control' = "join" /\ UNCHANGED crowded
       ELSE ~crowded /\ crowded' = TRUE /\ UNCHANGED <<read_queue, control>>
  /\ UNCHANGED <<main, radio, flags, subscribed, putter, rxqueue, inet_connected, tries, lost>>

Deactivated ==
  /\ control = "join" /\ main = "none" /\ control' = "off"
  /\ IF "decoder" \in subscribed
       THEN rxqueue' = << >> /\ putter' = [p \in Putters |-> "idle"]
       ELSE UNCHANGED <<rxqueue, putter>>
  /\ subscribed' = {}
  /\ UNCHANGED <<main, radio, flags, read_queue, inet_connected, tries, history>>

Control == Close \/ Wake \/ Deactivated

Next ==
  \/ Radio \/ Main \/ Connect \/ Data \/ Closed \/ Activate \/ Deactivate \/ Control
  \/ \E p \in Putters : Put(p) \/ PutResume(p)

(***************************************************************************)
(* Threads that can run do; connecting succeeds in the end (access point   *)
(* and server are there), the server sends (APRS-IS servers send comments  *)
(* at intervals), and a connection that inet_close has closed is reported. *)
(***************************************************************************)
Fairness ==
  /\ WF_vars(Radio) /\ WF_vars(Main) /\ SF_vars(Connect) /\ WF_vars(Data)
  /\ WF_vars(Closed /\ control = "closing") /\ WF_vars(Control)
  /\ \A p \in Putters : SF_vars(PutResume(p))

Spec == Init /\ [][Next]_vars /\ Fairness

----------------------------------------------------------------------------
TypeOK ==
  /\ control \in {"off", "on", "radio", "closing", "wake", "join"}
  /\ main \in {"none", "start", "connect", "welcome", "login", "reply", "begin", "listen", "end",
               "signal", "unsubscribe", "join", "pause"}
  /\ radio \in {"none", "start", "get", "busy"}
  /\ {igate_on, igate_run, inet_connected, lost, crowded} \subseteq BOOLEAN
  /\ subscribed \subseteq Putters /\ putter \in [Putters -> {"idle", "wait"}]
  /\ rxqueue \in BoundedSeq({"item", "signal"}, Size)
  /\ read_queue \in BoundedSeq({"item", "signal"}, ReadSize)
  /\ tries \in 0..3

(***************************************************************************)
(* When igate_activate(false) has returned nothing of the igate is left:   *)
(* no thread, no subscription, and no decoder that waits to put            *)
(* (igate.c:227-242).                                                      *)
(***************************************************************************)
NothingLeft ==
  control = "off" =>
    /\ main = "none" /\ radio = "none"
    /\ subscribed = {} /\ putter["decoder"] = "idle"

(***************************************************************************)
(* igate_activate(false) returns, whatever the igate was doing: the one    *)
(* signal is not used up by a read that is not the last (igate.c:132, 152, *)
(* 320) - as long as no queue is full that a signal is put into.           *)
(***************************************************************************)
StopReturns == control = "radio" ~> control = "off" \/ crowded

(***************************************************************************)
(* The decoder, which serves the digipeater as well, is not held up for    *)
(* ever by a queue that nobody empties before there is a connection        *)
(* (igate.c:218, hdlc_decoder.c:145) - as long as connecting succeeds some *)
(* time and the server does not close the connection.                      *)
(***************************************************************************)
DecoderGoesOn == putter["decoder"] = "wait" ~> putter["decoder"] = "idle" \/ lost \/ crowded

(***************************************************************************)
(* "Connection failure. Wait for 2 minutes" (igate.c:167): the main thread *)
(* notices that the server has closed the connection and connects again.   *)
(***************************************************************************)
LossNoticed == main = "listen" /\ ~inet_connected ~> main # "listen"

=============================================================================
