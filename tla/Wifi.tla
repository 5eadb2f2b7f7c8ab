-------------------------------- MODULE Wifi --------------------------------
(***************************************************************************)
(* The serial line to the WIFI module (ui/wifi.c).  Threads of the         *)
(* firmware invoke commands on the module and wait for the answer, with a  *)
(* time limit; a monitor thread reads all that the module sends: answers   *)
(* (@), requests for parameters (#), closed connections (!) and the        *)
(* message that it has booted ($).  Data (:) is in Igate.                  *)
(*                                                                         *)
(* Commands are numbered; the module takes and answers them in order.      *)
(* wifi_mutex guards the line, data_mutex the buffer cbuf.                 *)
(***************************************************************************)
EXTENDS Integers, Sequences, SequencesExt

CONSTANTS
  Clients,       \* threads that invoke commands: igate, shell, button and menu
  DataClients,   \* those that use inet_open, inet_write and inet_close
  ShellClients,  \* those that may connect to the module's own shell
  Requests,      \* what the module asks for: "param" (#R and #W), "ap" (#A)
  MaxCalls,      \* bound: commands in a behaviour
  MaxEvents      \* bound: requests, restarts and power switches in a behaviour

ASSUME WifiAssumption ==
  /\ DataClients \subseteq Clients /\ ShellClients \subseteq Clients \ DataClients
  /\ Clients \cap {"monitor", "none"} = {}
  /\ Requests \subseteq {"param", "ap"} /\ MaxCalls \in Nat /\ MaxEvents \in Nat

VARIABLES
  wifi_mutex, data_mutex,      \* who owns them
  response_pending,            \* the semaphore is signalled
  client_active, client_buf,   \* a client wants an answer, and which one
  pc, cmd, buf,                \* of each client: place, command, answer read
  monitor, reading,            \* place of the monitor, what it is handling
  wifiEnabled, running, shell, inet_connected,
  line,                        \* from the module, not yet read
  commands, open,              \* module: commands not answered, connection
  calls, events,               \* counted for the bounds
  clean      \* history: no command timed out, no message that a connection is closed
             \* went to the user of the shell or came before inet_open returned, and
             \* the module was not restarted while it had something to do

mutexes == <<wifi_mutex, data_mutex>>
client == <<pc, cmd>>
answer == <<response_pending, client_active, client_buf, buf>>
listener == <<monitor, reading>>
flags == <<wifiEnabled, running, shell, inet_connected>>
module == <<line, commands, open>>
count == <<calls, events, clean>>
vars == <<mutexes, client, answer, listener, flags, module, count>>

None == "none"
Monitor == "monitor"
Idle == [id |-> 0, kind |-> "none"]
Unread == [type |-> "answer", id |-> 0, ok |-> FALSE]
Message(t) == [Unread EXCEPT !.type = t]

\* wifi_init, with the WIFI on: the module boots.
Init ==
  /\ wifi_mutex = None /\ data_mutex = None
  /\ response_pending = FALSE /\ client_active = FALSE /\ client_buf = None
  /\ pc = [c \in Clients |-> "idle"] /\ cmd = [c \in Clients |-> Idle]
  /\ buf = [c \in Clients |-> Unread]
  /\ monitor = "read" /\ reading = Unread
  /\ wifiEnabled = TRUE /\ running = FALSE /\ shell = None /\ inet_connected = FALSE
  /\ line = <<Message("boot")>> /\ commands = << >> /\ open = FALSE
  /\ calls = 0 /\ events = 0 /\ clean = TRUE

----------------------------------------------------------------------------
(* Clients. *)

\* wifi_doCommandN begins: what is disabled is not asked.
Entered == IF wifiEnabled THEN "lock" ELSE "refused"

(* inet_open, inet_write, inet_writeFB and inet_close take data_mutex      *)
(* first; wifi_status, wifi_is_connected and the shell's requests do not.  *)
Call(c) ==
  /\ pc[c] = "idle" /\ calls < MaxCalls
  /\ \E kind \in IF c \in DataClients
                   THEN {"OPEN"} \cup (IF inet_connected THEN {"DATA", "CLOSE"} ELSE {})
                   ELSE {"STATUS"} :
       cmd' = [cmd EXCEPT ![c] = [id |-> calls + 1, kind |-> kind]]
  /\ calls' = calls + 1
  /\ pc' = [pc EXCEPT ![c] = IF c \in DataClients THEN "data" ELSE Entered]
  /\ buf' = [buf EXCEPT ![c] = Unread]
  /\ UNCHANGED <<mutexes, response_pending, client_active, client_buf, listener, flags, module,
                 events, clean>>

LockData(c) ==
  /\ pc[c] = "data" /\ data_mutex = None
  /\ data_mutex' = c
  /\ pc' = [pc EXCEPT ![c] = Entered]
  /\ UNCHANGED <<wifi_mutex, cmd, answer, listener, flags, module, count>>

\* The command is written; a semaphore signalled before is not waited for.
Written(c) ==
  /\ commands' = Append(commands, cmd[c])
  /\ client_active' = TRUE /\ client_buf' = c
  /\ response_pending' = FALSE
  /\ pc' = [pc EXCEPT ![c] = IF response_pending THEN "ready" ELSE "wait"]
  /\ UNCHANGED <<data_mutex, cmd, buf, listener, flags, line, open, count>>

\* Mutant: the line is not locked.
LockUnguarded(c) == pc[c] = "lock" /\ wifi_mutex' = c /\ Written(c)

Lock(c) == pc[c] = "lock" /\ wifi_mutex = None /\ wifi_mutex' = c /\ Written(c)

\* Mutant: WAIT_RESPONSE instead of WAIT_RESPONSE_TIMEOUT.
TimeOutNever(c) == pc[c] = "timeout" /\ UNCHANGED vars

(* The wait ends; the client runs some time later.                         *)
TimeOut(c) ==
  /\ pc[c] = "wait"
  /\ pc' = [pc EXCEPT ![c] = "expired"]
  /\ clean' = FALSE
  /\ UNCHANGED <<mutexes, cmd, answer, listener, flags, module, calls, events>>

(* wifi_doCommandN returns, and the function that called it; inet_open     *)
(* sets inet_connected after it has released data_mutex.                   *)
Return(c) ==
  /\ pc[c] \in {"ready", "expired", "refused"}
  /\ pc' = [pc EXCEPT ![c] = "idle"]
  /\ client_active' = IF pc[c] = "refused" THEN client_active ELSE FALSE
  /\ wifi_mutex' = IF wifi_mutex = c THEN None ELSE wifi_mutex
  /\ data_mutex' = IF data_mutex = c THEN None ELSE data_mutex
  /\ inet_connected' =
       (inet_connected \/ (pc[c] = "ready" /\ cmd[c].kind = "OPEN" /\ buf[c].ok))
  /\ cmd' = [cmd EXCEPT ![c] = Idle]
  /\ UNCHANGED <<response_pending, client_buf, buf, listener, wifiEnabled, running, shell, module,
                 count>>

(* wifi_shell: the user types into the module's shell, and the server is   *)
(* resumed when he is done.                                                *)
ShellWanted(c) ==
  /\ c \in ShellClients /\ pc[c] = "idle" /\ wifiEnabled /\ events < MaxEvents
  /\ pc' = [pc EXCEPT ![c] = "shell"] /\ events' = events + 1
  /\ UNCHANGED <<mutexes, cmd, answer, listener, flags, module, calls, clean>>

ShellBegin(c) ==
  /\ pc[c] = "shell" /\ wifi_mutex = None
  /\ wifi_mutex' = c /\ shell' = c
  /\ UNCHANGED <<data_mutex, client, answer, listener, wifiEnabled, running, inet_connected, module,
                 count>>

ShellEnd(c) ==
  /\ shell = c
  /\ shell' = None /\ running' = TRUE /\ wifi_mutex' = None
  /\ pc' = [pc EXCEPT ![c] = "idle"]
  /\ UNCHANGED <<data_mutex, cmd, answer, listener, wifiEnabled, inet_connected, module, count>>

Client(c) == Call(c) \/ LockData(c) \/ Lock(c) \/ Return(c) \/ ShellWanted(c) \/ ShellBegin(c) \/ ShellEnd(c)

----------------------------------------------------------------------------
(* The monitor thread. *)

(* What comes first on the line, if it is t.                               *)
Arrived(t) ==
  /\ monitor = "read" /\ line # << >> /\ Head(line).type = t
  /\ line' = Tail(line)
  /\ UNCHANGED <<commands, open>>

(* While the shell is used everything is for its user; before the module   *)
(* has booted nothing else is understood; an answer nobody wants is        *)
(* skipped.                                                                *)
Skip ==
  /\ \E t \in {"answer", "param", "ap", "closed", "boot"} :
       /\ Arrived(t)
       /\ \/ shell # None
          \/ (t # "boot" /\ ~running)
          \/ (t = "answer" /\ ~client_active)
  /\ clean' = (clean /\ Head(line).type # "closed")
  /\ UNCHANGED <<mutexes, client, answer, listener, flags, calls, events>>

Heard(t) == Arrived(t) /\ shell = None /\ (t = "boot" \/ running)

\* The monitor begins to read a line, into the buffer of the client at the time.
ReadAnswer ==
  /\ Heard("answer") /\ client_active
  /\ monitor' = "answer" /\ reading' = [Head(line) EXCEPT !.type = client_buf]
  /\ UNCHANGED <<mutexes, client, answer, flags, count>>

\* The line is complete: SIGNAL_RESPONSE.
Signal ==
  /\ monitor = "answer" /\ monitor' = "read"
  /\ buf' = [buf EXCEPT ![reading.type] = [reading EXCEPT !.type = "answer"]]
  /\ LET waiting == {c \in Clients : pc[c] = "wait"}
     IN  /\ pc' = [c \in Clients |-> IF c \in waiting THEN "ready" ELSE pc[c]]
         /\ response_pending' = (waiting = {})
  /\ UNCHANGED <<mutexes, cmd, client_active, client_buf, reading, flags, module, count>>

\* Mutant: the message is not acted upon.
ReadClosedIgnored ==
  /\ Heard("closed")
  /\ UNCHANGED <<mutexes, client, answer, listener, flags, count>>

ReadClosed ==
  /\ Heard("closed")
  /\ inet_connected' = FALSE
  /\ UNCHANGED <<mutexes, client, answer, listener, wifiEnabled, running, shell, count>>

ReadBoot ==
  /\ Heard("boot") /\ monitor' = "boot"
  /\ UNCHANGED <<mutexes, client, answer, reading, flags, count>>

\* wifi_start_server, which sleeps between the commands it writes.
ServerStarted ==
  /\ monitor = "boot" /\ monitor' = "read" /\ running' = TRUE
  /\ UNCHANGED <<mutexes, client, answer, reading, wifiEnabled, shell, inet_connected, module, count>>

\* wifi_command
ReadRequest ==
  /\ Heard("param") \/ Heard("ap")
  /\ monitor' = "lock" /\ reading' = Head(line)
  /\ UNCHANGED <<mutexes, client, answer, flags, count>>

MonitorLock ==
  /\ monitor = "lock" /\ wifi_mutex = None
  /\ wifi_mutex' = Monitor /\ monitor' = "line"
  /\ UNCHANGED <<data_mutex, client, answer, reading, flags, module, count>>

\* readline; cmd_getParm and cmd_setParm take data_mutex.
MonitorLine ==
  /\ monitor = "line" /\ monitor' = reading.type
  /\ UNCHANGED <<mutexes, client, answer, reading, flags, module, count>>

Serve ==
  /\ monitor \in {"param", "ap"}
  /\ monitor = "param" => data_mutex = None
  /\ monitor' = "read" /\ wifi_mutex' = None
  /\ UNCHANGED <<data_mutex, client, answer, reading, flags, module, count>>

Listener ==
  \/ Skip \/ ReadAnswer \/ Signal \/ ReadClosed \/ ReadBoot \/ ServerStarted
  \/ ReadRequest \/ MonitorLock \/ MonitorLine \/ Serve

----------------------------------------------------------------------------
(* The WIFI module, and its power. *)

Sends(messages) == line' = line \o messages

Reply ==
  /\ commands # << >> /\ wifiEnabled
  /\ LET c == Head(commands)
     IN \E ok \in IF c.kind = "OPEN" THEN BOOLEAN ELSE {TRUE} :
          /\ open' = CASE c.kind = "OPEN" -> open \/ ok [] c.kind = "CLOSE" -> FALSE [] OTHER -> open
          /\ Sends(<<[type |-> "answer", id |-> c.id, ok |-> ok]>>
                   \o (IF open /\ ~open' THEN <<Message("closed")>> ELSE << >>))
  /\ commands' = Tail(commands)
  /\ UNCHANGED <<mutexes, client, answer, listener, flags, count>>

\* Some client has asked for a connection and does not know yet.
Opening == \E c \in Clients : cmd[c].kind = "OPEN"

ServerCloses ==
  /\ open /\ open' = FALSE /\ Sends(<<Message("closed")>>)
  /\ clean' = (clean /\ ~Opening)
  /\ UNCHANGED <<mutexes, client, answer, listener, flags, commands, calls, events>>

Ask ==
  /\ wifiEnabled /\ events < MaxEvents /\ events' = events + 1
  /\ \E r \in Requests : Sends(<<Message(r)>>)
  /\ UNCHANGED <<mutexes, client, answer, listener, flags, commands, open, calls, clean>>

\* Restarted: by wifi_disable and wifi_enable, or by itself; running is not reset.
Restart ==
  /\ events < MaxEvents /\ events' = events + 1
  /\ commands' = << >> /\ open' = FALSE
  /\ clean' = (clean /\ commands = << >> /\ ~open /\ ~inet_connected)
  /\ \/ /\ wifiEnabled /\ Sends(<<Message("boot")>>) /\ UNCHANGED wifiEnabled
     \/ /\ wifiEnabled /\ wifiEnabled' = FALSE /\ UNCHANGED line
     \/ /\ ~wifiEnabled /\ wifiEnabled' = TRUE /\ Sends(<<Message("boot")>>)
  /\ UNCHANGED <<mutexes, client, answer, listener, running, shell, inet_connected, calls>>

Module == Reply \/ ServerCloses \/ Ask \/ Restart

Next == Listener \/ Module \/ \E c \in Clients : Client(c) \/ TimeOut(c)

(***************************************************************************)
(* Threads that can run do, and a mutex that is free is taken (chMtxUnlock *)
(* hands it to the thread that has waited longest); time passes; the user  *)
(* leaves the module's shell.  Nothing is assumed of the module.           *)
(***************************************************************************)
Fairness ==
  /\ WF_vars(Listener)
  /\ \A c \in Clients : WF_vars(Client(c) /\ pc[c] # "idle") /\ WF_vars(TimeOut(c))

Spec == Init /\ [][Next]_vars /\ Fairness

----------------------------------------------------------------------------
Answers == [type : Clients \cup {"answer", "param", "ap", "closed", "boot"}, id : 0..MaxCalls, ok : BOOLEAN]

TypeOK ==
  /\ wifi_mutex \in Clients \cup {Monitor, None} /\ data_mutex \in DataClients \cup {None}
  /\ response_pending \in BOOLEAN /\ client_active \in BOOLEAN
  /\ client_buf \in Clients \cup {None}
  /\ pc \in [Clients -> {"idle", "data", "lock", "wait", "ready", "expired", "refused", "shell"}]
  /\ buf \in [Clients -> Answers]
  /\ monitor \in {"read", "answer", "boot", "lock", "line", "param", "ap"} /\ reading \in Answers
  /\ {wifiEnabled, running, inet_connected, open, clean} \subseteq BOOLEAN
  /\ shell \in ShellClients \cup {None}
  /\ line \in Seq(Answers)

(***************************************************************************)
(* A command gets the answer to itself (wifi.c:162-176), whoever else      *)
(* invokes commands, asks for parameters or uses the module's shell - in   *)
(* behaviours that are clean: no command has timed out (its answer is      *)
(* still to come, and is then taken for the next one's) and the module has *)
(* not been restarted with something to do, nor a close been missed.       *)
(***************************************************************************)
Matches(c) == pc[c] = "ready" => buf[c].id = cmd[c].id

AnswerMatches == clean => \A c \in Clients : Matches(c)

(***************************************************************************)
(* "Response to command from WIFI module" (wifi.c:713): the same, of every *)
(* behaviour.                                                              *)
(***************************************************************************)
EveryAnswerMatches == \A c \in Clients : Matches(c)

(***************************************************************************)
(* The firmware believes in a connection (inet_is_connected) only while    *)
(* there is one or the message that it is closed has still to be read -    *)
(* in clean behaviours: no command has timed out (a late OK to one         *)
(* NET.OPEN would be taken by the next), no connection is closed before    *)
(* inet_open has returned or while the module's shell is used, and the     *)
(* module is not restarted with a connection or a command                  *)
(* (wifi.c:232-243, 741-744).                                              *)
(***************************************************************************)
Believed == inet_connected => open \/ \E k \in 1..Len(line) : line[k].type = "closed"

ConnectedExact == clean => Believed

(***************************************************************************)
(* "Connection closed" (wifi.c:742): the same, of every behaviour.         *)
(***************************************************************************)
EveryCloseSeen == Believed

(***************************************************************************)
(* Who invokes a command gets control back, with whatever the module does, *)
(* and whoever holds the mutexes (wifi.c:159-179, 669-685) - unless the    *)
(* monitor, with wifi_mutex, waits for data_mutex, and the client that     *)
(* holds it for wifi_mutex (wifi.c:368, 233).                              *)
(***************************************************************************)
Crossed == monitor = "param" /\ data_mutex # None /\ pc[data_mutex] = "lock"

CallReturns == \A c \in Clients : pc[c] # "idle" ~> pc[c] = "idle" \/ Crossed

(***************************************************************************)
(* "Get and execute a command from the WIFI module" (wifi.c:661): a        *)
(* request that is begun is served and the monitor reads on.               *)
(***************************************************************************)
RequestServed == monitor = "lock" ~> monitor = "read"

=============================================================================
