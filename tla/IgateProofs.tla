---------------------------- MODULE IgateProofs ----------------------------
(***************************************************************************)
(* The igate leaves nothing behind when it is turned off, and never has    *)
(* two radio threads, for all sizes of its queues.                         *)
(***************************************************************************)
EXTENDS Igate, TLAPS

\* The places of the main thread at which it has a child.
WithRadio == {"listen", "end", "signal", "unsubscribe", "join"}

\* The child does not outlive what started it; the decoder waits only for a
\* queue that it is subscribed to; the main thread lives between activation
\* and the end of deactivation.
IgateInv ==
  /\ subscribed \subseteq Putters /\ putter \in [Putters -> {"idle", "wait"}]
  /\ radio # "none" => main \in WithRadio
  /\ putter["decoder"] = "wait" => "decoder" \in subscribed
  /\ control = "off" => main = "none" /\ subscribed = {}

LEMMA IgateInit == Init => IgateInv
BY DEF Init, IgateInv, Putters

\* A subscription that changes lets those go who wait for its queue.
LEMMA SubscribeFacts ==
  ASSUME IgateInv, NEW q \in BOOLEAN, Subscribe(q)
  PROVE  /\ subscribed' \subseteq Putters /\ putter' \in [Putters -> {"idle", "wait"}]
         /\ putter'["decoder"] = "wait" => "decoder" \in subscribed'
<1>1. subscribed' \subseteq Putters
  BY DEF IgateInv, Subscribe, Putters
<1>2. putter' \in [Putters -> {"idle", "wait"}]
  BY DEF IgateInv, Subscribe
<1>3. CASE "decoder" \in subscribed
  <2>1. putter'["decoder"] = "idle"
    BY <1>3 DEF Subscribe, Putters
  <2> QED
    BY <1>1, <1>2, <2>1
<1>4. CASE "decoder" \notin subscribed
  <2>1. putter'["decoder"] # "wait"
    BY <1>4 DEF Subscribe, IgateInv
  <2> QED
    BY <1>1, <1>2, <2>1
<1> QED
  BY <1>3, <1>4

LEMMA IgateMain == IgateInv /\ (Main \/ Connect) => IgateInv'
<1> SUFFICES ASSUME IgateInv, Main \/ Connect PROVE IgateInv'
  OBVIOUS
<1> USE DEF WithRadio
\* A main thread that runs has been activated.
<1>1. main # "none" /\ control # "off" /\ control' = control
  BY DEF IgateInv, Main, Start, Connect, ConnectFails, Ignore, Login, Begin, Listen, End, EndResume,
         Unsubscribe, Join, Goto
<1>2. radio' # "none" => main' \in WithRadio
  <2>1. CASE Begin
    BY <2>1 DEF Begin, Listening
  <2>2. CASE Listen \/ End \/ EndResume \/ Unsubscribe
    BY <2>2 DEF Listen, End, EndResume, Unsubscribe, Goto, Listening
  <2>3. CASE Join
    BY <2>3 DEF Join, Goto
  <2>4. CASE Start \/ Connect \/ ConnectFails \/ Ignore \/ Login
    BY <2>4 DEF Start, Connect, ConnectFails, Ignore, Login, Goto, IgateInv
  <2> QED
    BY <2>1, <2>2, <2>3, <2>4 DEF Main
<1>3. /\ subscribed' \subseteq Putters /\ putter' \in [Putters -> {"idle", "wait"}]
      /\ putter'["decoder"] = "wait" => "decoder" \in subscribed'
  <2>1. CASE Begin \/ Unsubscribe
    BY <2>1, SubscribeFacts DEF Begin, Unsubscribe
  <2>2. CASE ~(Begin \/ Unsubscribe)
    <3>1. UNCHANGED <<subscribed, putter>>
      BY <2>2 DEF Main, Start, Connect, ConnectFails, Ignore, Login, Listen, End, EndResume, Join, Goto
    <3> QED
      BY <3>1 DEF IgateInv
  <2> QED
    BY <2>1, <2>2
<1> QED
  BY <1>1, <1>2, <1>3 DEF IgateInv

LEMMA IgateControl == IgateInv /\ (Activate \/ Deactivate \/ Control) => IgateInv'
<1> SUFFICES ASSUME IgateInv, Activate \/ Deactivate \/ Control PROVE IgateInv'
  OBVIOUS
<1>1. CASE Activate
  BY <1>1 DEF Activate, IgateInv, WithRadio, Putters
<1>2. CASE Deactivated
  <2>1. putter' \in [Putters -> {"idle", "wait"}] /\ putter'["decoder"] # "wait"
    <3>1. CASE "decoder" \in subscribed
      <4>1. putter' = [p \in Putters |-> "idle"]
        BY <1>2, <3>1 DEF Deactivated
      <4> QED
        BY <4>1 DEF Putters
    <3>2. CASE "decoder" \notin subscribed
      BY <1>2, <3>2 DEF Deactivated, IgateInv
    <3> QED
      BY <3>1, <3>2
  <2> QED
    BY <1>2, <2>1 DEF Deactivated, IgateInv
<1>3. CASE Deactivate \/ Close \/ Wake
  BY <1>3 DEF Deactivate, Close, Wake, IgateInv
<1> QED
  BY <1>1, <1>2, <1>3 DEF Control

LEMMA IgateOthers ==
  ASSUME IgateInv,
         Radio \/ Data \/ Closed \/ (\E p \in Putters : Put(p) \/ PutResume(p)) \/ UNCHANGED vars
  PROVE  IgateInv'
<1>1. CASE Radio
  BY <1>1 DEF Radio, RadioNext, RadioLoop, RadioGet, IgateInv
<1>2. CASE Data \/ UNCHANGED vars
  BY <1>2 DEF Data, vars, IgateInv
<1>3. CASE Closed
  BY <1>3 DEF Closed, IgateInv
<1>4. ASSUME NEW p \in Putters, Put(p) \/ PutResume(p) PROVE IgateInv'
  <2>1. UNCHANGED <<control, main, radio, subscribed>>
    BY <1>4 DEF Put, PutResume
  <2>2. putter' \in [Putters -> {"idle", "wait"}]
    BY <1>4 DEF Put, PutResume, IgateInv
  <2>3. putter'["decoder"] = "wait" => "decoder" \in subscribed
    BY <1>4 DEF Put, PutResume, IgateInv, Putters
  <2> QED
    BY <2>1, <2>2, <2>3 DEF IgateInv
<1> QED
  BY <1>1, <1>2, <1>3, <1>4

LEMMA IgateStep == IgateInv /\ [Next]_vars => IgateInv'
BY IgateMain, IgateControl, IgateOthers DEF Next

(* NothingLeft: when igate_activate(false) has returned there is no thread *)
(* and no subscription, and no decoder waits, whatever the queues' sizes.  *)
THEOREM NothingLeftHolds == Spec => []NothingLeft
<1>1. IgateInv => NothingLeft
  BY DEF IgateInv, NothingLeft, WithRadio, Putters
<1> QED
  BY <1>1, IgateInit, IgateStep, PTL DEF Spec

\* A radio thread is started when there is none.
OneRadioThread == [][Begin => radio = "none"]_vars

(* However often the connection is lost, made again or the igate turned    *)
(* off and on, a radio thread is started only after the one before has     *)
(* ended (igate.c:147-161).                                                *)
THEOREM OneRadioThreadHolds == Spec => OneRadioThread
<1>1. IgateInv /\ [Next]_vars => [Begin => radio = "none"]_vars
  BY DEF IgateInv, Begin, WithRadio
<1> QED
  BY <1>1, IgateInit, IgateStep, PTL DEF Spec, OneRadioThread

=============================================================================
