----------------------------- MODULE WifiProofs -----------------------------
(***************************************************************************)
(* On the serial line to the WIFI module every command gets its own        *)
(* answer, and the firmware knows of a connection that is closed or will   *)
(* hear of it, for any number of threads that use the line.                *)
(*                                                                         *)
(* LockInv: who owns wifi_mutex.  AnswerInv: while no command has timed    *)
(* out there is one at most under way, that of the thread that waits.      *)
(* OpenInv: the connection that inet_open returns with is still open.      *)
(***************************************************************************)
EXTENDS Wifi, SequenceTheorems, TLAPS

Commands == [id : 0..MaxCalls, kind : {"OPEN", "DATA", "CLOSE", "STATUS", "none"}]

CallTypes ==
  /\ pc \in [Clients -> {"idle", "data", "lock", "wait", "ready", "expired", "refused", "shell"}]
  /\ cmd \in [Clients -> Commands] /\ calls \in 0..MaxCalls

AnswerTypes ==
  /\ buf \in [Clients -> Answers] /\ reading \in Answers
  /\ client_active \in BOOLEAN
  /\ client_active => client_buf \in Clients
  /\ monitor \in {"read", "answer", "boot", "lock", "line", "param", "ap"}
  /\ monitor \in {"lock", "line"} => reading.type \in {"param", "ap"}
  /\ monitor = "answer" => reading.type \in Clients

LineTypes == line \in Seq(Answers) /\ commands \in Seq(Commands)

MutexTypes ==
  wifi_mutex \in Clients \cup {Monitor, None} /\ shell \in Clients \cup {None}

FlagTypes ==
  /\ response_pending \in BOOLEAN /\ client_buf \in Clients \cup {None}
  /\ wifiEnabled \in BOOLEAN /\ running \in BOOLEAN /\ inet_connected \in BOOLEAN
  /\ open \in BOOLEAN /\ clean \in BOOLEAN

WifiTypes == CallTypes /\ AnswerTypes /\ LineTypes /\ MutexTypes /\ FlagTypes

\* The places of a client that has written a command and not returned.
Busy == {"wait", "ready", "expired"}

\* Who has written a command owns wifi_mutex until its function returns; so
\* does the user of the shell, and the monitor while it serves a request.
LockInv ==
  /\ \A c \in Clients : wifi_mutex = c <=> pc[c] \in Busy \/ shell = c
  /\ \A c \in Clients : pc[c] \in Busy => client_active /\ client_buf = c
  /\ \A c \in Clients : shell = c => pc[c] = "shell"
  /\ wifi_mutex = Monitor <=> monitor \in {"line", "param", "ap"}

\* A command that is under way, or its answer, is that of the thread that
\* waits, and there is one of them at most.
NoneLate == ~response_pending /\ \A c \in Clients : pc[c] # "expired"
CommandsOwn ==
  /\ Len(commands) <= 1
  /\ commands # << >> => \E c \in Clients : pc[c] = "wait" /\ Head(commands) = cmd[c]
AnswersOwn == \A k \in 1..Len(line) : line[k].type = "answer" =>
  /\ commands = << >> /\ monitor # "answer"
  /\ \E c \in Clients : pc[c] = "wait" /\ line[k].id = cmd[c].id
OneAnswer ==
  \A k, l \in 1..Len(line) : line[k].type = "answer" /\ line[l].type = "answer" => k = l
ReadingOwn == monitor = "answer" =>
  commands = << >> /\ pc[reading.type] = "wait" /\ reading.id = cmd[reading.type].id
ReadyOwn == \A c \in Clients : pc[c] = "ready" => buf[c].id = cmd[c].id

AnswerInv == clean =>
  NoneLate /\ CommandsOwn /\ AnswersOwn /\ OneAnswer /\ ReadingOwn /\ ReadyOwn

\* The module has answered "ok" to the command OPEN: the connection is open
\* until inet_open has returned, or "clean" is over.
AnswersOpen == \A k \in 1..Len(line), c \in Clients :
  line[k].type = "answer" /\ line[k].ok /\ pc[c] = "wait" /\ cmd[c].kind = "OPEN" => open
ReadingOpen == monitor = "answer" /\ reading.ok /\ cmd[reading.type].kind = "OPEN" => open
ReadyOpen == \A c \in Clients : pc[c] = "ready" /\ buf[c].ok /\ cmd[c].kind = "OPEN" => open
ConnectedKnown == inet_connected => open \/ \E k \in 1..Len(line) : line[k].type = "closed"

OpenInv == clean => AnswersOpen /\ ReadingOpen /\ ReadyOpen /\ ConnectedKnown

----------------------------------------------------------------------------
(* The line. *)

LEMMA TailFacts ==
  ASSUME NEW S, NEW s \in Seq(S), s # << >>
  PROVE  /\ Tail(s) \in Seq(S) /\ Len(s) \in Nat \ {0} /\ Len(Tail(s)) = Len(s) - 1
         /\ Head(s) = s[1] /\ 1 \in 1..Len(s) /\ Head(s) \in S
         /\ \A k \in 1..Len(Tail(s)) : k + 1 \in 1..Len(s) /\ Tail(s)[k] = s[k+1]
OBVIOUS

LEMMA AppendFacts ==
  ASSUME NEW S, NEW s \in Seq(S), NEW m \in S
  PROVE  /\ Append(s, m) \in Seq(S) /\ Len(Append(s, m)) = Len(s) + 1
         /\ \A k \in 1..Len(Append(s, m)) :
              \/ k \in 1..Len(s) /\ Append(s, m)[k] = s[k]
              \/ k = Len(s) + 1 /\ Append(s, m)[k] = m
         /\ \A k \in 1..Len(s) : k \in 1..Len(Append(s, m)) /\ Append(s, m)[k] = s[k]
         /\ Len(Append(s, m)) \in 1..Len(Append(s, m)) /\ Append(s, m)[Len(Append(s, m))] = m
OBVIOUS

LEMMA MessageFacts ==
  \A t \in {"answer", "param", "ap", "closed", "boot"} :
    Message(t) \in Answers /\ Message(t).type = t
<1>1. 0 \in 0..MaxCalls
  BY WifiAssumption
<1> QED
  BY <1>1 DEF Message, Unread, Answers

\* What the module sends is one message, or an answer and one that the
\* connection is closed.
LEMMA ReplySends ==
  ASSUME WifiTypes, Reply
  PROVE  /\ commands # << >> /\ commands' = Tail(commands)
         /\ \E m \in Answers :
              /\ m.type = "answer" /\ m.id = Head(commands).id
              /\ \/ /\ line' = Append(line, m)
                    /\ ~(open /\ ~open')
                    /\ Head(commands).kind = "OPEN" => (open' <=> open \/ m.ok)
                    /\ open => open'
                 \/ /\ line' = Append(Append(line, m), Message("closed"))
                    /\ open /\ ~open' /\ Head(commands).kind # "OPEN"
         /\ open' \in BOOLEAN
<1>1. commands # << >> /\ commands \in Seq(Commands) /\ line \in Seq(Answers) /\ open \in BOOLEAN
  BY DEF Reply, WifiTypes, LineTypes, FlagTypes
<1>2. Head(commands) \in Commands
  BY <1>1
<1> DEFINE c == Head(commands)
<1>3. PICK ok \in BOOLEAN :
        /\ open' = CASE c.kind = "OPEN" -> open \/ ok [] c.kind = "CLOSE" -> FALSE [] OTHER -> open
        /\ line' = line \o (<<[type |-> "answer", id |-> c.id, ok |-> ok]>>
                            \o (IF open /\ ~open' THEN <<Message("closed")>> ELSE << >>))
  BY DEF Reply, Sends
<1> DEFINE m == [type |-> "answer", id |-> c.id, ok |-> ok]
<1>4. m \in Answers /\ m.type = "answer" /\ m.id = c.id /\ m.ok = ok
  BY <1>2 DEF Commands, Answers
<1>5. Message("closed") \in Answers
  BY MessageFacts
<1>6. /\ open' \in BOOLEAN
      /\ c.kind = "OPEN" => (open' <=> open \/ ok)
      /\ open /\ ~open' => c.kind # "OPEN"
  BY <1>1, <1>3
<1> HIDE DEF m, c
<1>7. CASE open /\ ~open'
  <2>1. line' = line \o (<<m>> \o <<Message("closed")>>)
    BY <1>3, <1>7 DEF m
  <2>2. line' = Append(Append(line, m), Message("closed"))
    BY <1>1, <1>4, <1>5, <2>1
  <2> QED
    BY <1>1, <1>4, <1>6, <1>7, <2>2 DEF c, Reply
<1>8. CASE ~(open /\ ~open')
  <2>1. line' = line \o (<<m>> \o << >>)
    BY <1>3, <1>8 DEF m
  <2>2. line' = Append(line, m)
    BY <1>1, <1>4, <2>1
  <2> QED
    BY <1>1, <1>4, <1>6, <1>8, <2>2 DEF c, Reply
<1> QED
  BY <1>7, <1>8

\* The other things that are sent.
LEMMA ModuleSends ==
  ASSUME WifiTypes, ServerCloses \/ Ask \/ Restart
  PROVE  \/ line' = line /\ Restart
         \/ \E t \in {"param", "ap", "closed", "boot"} : line' = Append(line, Message(t))
               /\ (ServerCloses => t = "closed")
<1>1. line \in Seq(Answers)
  BY DEF WifiTypes, LineTypes
<1>2. \A t \in {"param", "ap", "closed", "boot"} : line \o <<Message(t)>> = Append(line, Message(t))
  BY <1>1, MessageFacts
<1>3. CASE ServerCloses
  BY <1>2, <1>3 DEF ServerCloses, Sends
<1>4. CASE Ask /\ ~ServerCloses
  BY <1>2, <1>4, WifiAssumption DEF Ask, Sends
<1>5. CASE Restart /\ ~ServerCloses
  BY <1>2, <1>5 DEF Restart, Sends
<1> QED
  BY <1>3, <1>4, <1>5

\* The monitor takes the first message.
LEMMA TakeFacts ==
  ASSUME WifiTypes, Skip \/ ReadAnswer \/ ReadClosed \/ ReadBoot \/ ReadRequest
  PROVE  line # << >> /\ line' = Tail(line) /\ UNCHANGED <<commands, open>> /\ monitor = "read"
BY DEF Skip, ReadAnswer, ReadClosed, ReadBoot, ReadRequest, Heard, Arrived

----------------------------------------------------------------------------
(* Types. *)

LEMMA WifiTypesInit == Init => WifiTypes
<1> SUFFICES ASSUME Init PROVE WifiTypes
  OBVIOUS
<1>0. 0 \in 0..MaxCalls /\ Unread \in Answers
  BY WifiAssumption DEF Unread, Answers
<1>1. CallTypes
  BY <1>0 DEF Init, CallTypes, Commands, Idle
<1>2. AnswerTypes
  BY <1>0 DEF Init, AnswerTypes
<1>3. LineTypes
  BY MessageFacts DEF Init, LineTypes
<1>4. MutexTypes /\ FlagTypes
  BY DEF Init, MutexTypes, FlagTypes
<1> QED
  BY <1>1, <1>2, <1>3, <1>4 DEF WifiTypes

LEMMA CallStep == WifiTypes /\ Next => CallTypes'
<1> SUFFICES ASSUME WifiTypes, Next PROVE CallTypes'
  OBVIOUS
<1>0. CallTypes
  BY DEF WifiTypes
<1>1. ASSUME NEW c \in Clients, Call(c) PROVE CallTypes'
  <2>1. calls < MaxCalls /\ calls' = calls + 1 /\ calls \in 0..MaxCalls /\ MaxCalls \in Nat
    BY <1>0, <1>1, WifiAssumption DEF Call, CallTypes
  <2>2. calls + 1 \in 0..MaxCalls
    BY <2>1
  <2>3. PICK kind \in {"OPEN", "DATA", "CLOSE", "STATUS"} :
          cmd' = [cmd EXCEPT ![c] = [id |-> calls + 1, kind |-> kind]]
    BY <1>1 DEF Call
  <2>4. cmd' \in [Clients -> Commands]
    BY <1>0, <2>2, <2>3 DEF CallTypes, Commands
  <2>5. pc' \in [Clients -> {"idle", "data", "lock", "wait", "ready", "expired", "refused", "shell"}]
    BY <1>0, <1>1 DEF Call, Entered, CallTypes
  <2> QED
    BY <2>1, <2>2, <2>4, <2>5 DEF CallTypes
<1>2. ASSUME NEW c \in Clients, Return(c) PROVE CallTypes'
  <2>1. 0 \in 0..MaxCalls
    BY WifiAssumption
  <2>2. Idle \in Commands
    BY <2>1 DEF Idle, Commands
  <2> QED
    BY <1>0, <1>2, <2>2 DEF Return, CallTypes, count
<1>3. ASSUME NEW c \in Clients,
             LockData(c) \/ Lock(c) \/ ShellWanted(c) \/ ShellBegin(c) \/ ShellEnd(c) \/ TimeOut(c)
      PROVE  CallTypes'
  <2>1. UNCHANGED <<cmd, calls>>
    BY <1>3 DEF LockData, Lock, Written, ShellWanted, ShellBegin, ShellEnd, TimeOut, client, count
  <2>2. pc' \in [Clients -> {"idle", "data", "lock", "wait", "ready", "expired", "refused", "shell"}]
    BY <1>0, <1>3 DEF LockData, Lock, Written, ShellWanted, ShellBegin, ShellEnd, TimeOut, client,
                      Entered, CallTypes
  <2> QED
    BY <1>0, <2>1, <2>2 DEF CallTypes
<1>4. CASE Signal
  BY <1>0, <1>4 DEF Signal, CallTypes, count
<1>5. CASE UNCHANGED <<client, calls>>
  BY <1>0, <1>5 DEF CallTypes, client
<1> QED
  BY <1>1, <1>2, <1>3, <1>4, <1>5
     DEF Next, Listener, Skip, ReadAnswer, ReadClosed, ReadBoot, ServerStarted, ReadRequest,
         MonitorLock, MonitorLine, Serve, Module, Reply, ServerCloses, Ask, Restart, Client, count

LEMMA AnswerStep == WifiTypes /\ Next => AnswerTypes'
<1> SUFFICES ASSUME WifiTypes, Next PROVE AnswerTypes'
  OBVIOUS
<1>0. AnswerTypes /\ line \in Seq(Answers)
  BY DEF WifiTypes, LineTypes
<1>1. line # << >> => Head(line) \in Answers
  BY <1>0
<1>2. ASSUME NEW c \in Clients, Call(c) PROVE AnswerTypes'
  <2>1. Unread \in Answers
    <3>1. 0 \in 0..MaxCalls
      BY WifiAssumption
    <3> QED
      BY <3>1 DEF Unread, Answers
  <2>2. buf' = [buf EXCEPT ![c] = Unread] /\ UNCHANGED <<reading, client_active, client_buf, monitor>>
    BY <1>2 DEF Call, listener
  <2> QED
    BY <1>0, <2>1, <2>2 DEF AnswerTypes
<1>3. ASSUME NEW c \in Clients, Lock(c) PROVE AnswerTypes'
  BY <1>0, <1>3 DEF Lock, Written, listener, AnswerTypes
<1>4. ASSUME NEW c \in Clients, Return(c) PROVE AnswerTypes'
  BY <1>0, <1>4 DEF Return, listener, AnswerTypes
<1>5. CASE ReadAnswer
  <2>1. /\ monitor' = "answer" /\ reading' = [Head(line) EXCEPT !.type = client_buf]
        /\ client_active /\ line # << >> /\ UNCHANGED <<buf, client_active, client_buf>>
    BY <1>5 DEF ReadAnswer, Heard, Arrived, answer
  <2>2. client_buf \in Clients
    BY <1>0, <2>1 DEF AnswerTypes
  <2>3. reading' \in Answers /\ reading'.type = client_buf
    BY <1>1, <2>1, <2>2 DEF Answers
  <2> QED
    BY <1>0, <2>1, <2>2, <2>3 DEF AnswerTypes
<1>6. CASE Signal
  <2>1. /\ monitor = "answer" /\ monitor' = "read" /\ UNCHANGED <<reading, client_active, client_buf>>
        /\ buf' = [buf EXCEPT ![reading.type] = [reading EXCEPT !.type = "answer"]]
    BY <1>6 DEF Signal
  <2>2. [reading EXCEPT !.type = "answer"] \in Answers
    BY <1>0 DEF AnswerTypes, Answers
  <2> QED
    BY <1>0, <2>1, <2>2 DEF AnswerTypes
<1>7. CASE ReadRequest
  <2>1. /\ monitor' = "lock" /\ reading' = Head(line) /\ line # << >>
        /\ Head(line).type \in {"param", "ap"} /\ UNCHANGED <<buf, client_active, client_buf>>
    BY <1>7 DEF ReadRequest, Heard, Arrived, answer
  <2> QED
    BY <1>0, <1>1, <2>1 DEF AnswerTypes
<1>8. CASE ReadBoot \/ ServerStarted \/ MonitorLock \/ MonitorLine \/ Serve
  <2>1. UNCHANGED <<buf, reading, client_active, client_buf>>
    BY <1>8 DEF ReadBoot, ServerStarted, MonitorLock, MonitorLine, Serve, answer
  <2>2. \/ monitor' \in {"read", "boot", "param", "ap"}
        \/ monitor = "lock" /\ monitor' = "line"
    BY <1>0, <1>8 DEF ReadBoot, ServerStarted, MonitorLock, MonitorLine, Serve, AnswerTypes
  <2> QED
    BY <1>0, <2>1, <2>2 DEF AnswerTypes
<1>9. CASE UNCHANGED <<answer, listener>> \/ UNCHANGED <<buf, client_active, client_buf, listener>>
  BY <1>0, <1>9 DEF AnswerTypes, answer, listener
<1> QED
  BY <1>2, <1>3, <1>4, <1>5, <1>6, <1>7, <1>8, <1>9
     DEF Next, Listener, Skip, ReadClosed, Module, Reply, ServerCloses, Ask, Restart, Client,
         LockData, ShellWanted, ShellBegin, ShellEnd, TimeOut

LEMMA LineStep == WifiTypes /\ Next => LineTypes'
<1> SUFFICES ASSUME WifiTypes, Next PROVE LineTypes'
  OBVIOUS
<1>0. line \in Seq(Answers) /\ commands \in Seq(Commands)
  BY DEF WifiTypes, LineTypes
<1>1. CASE Skip \/ ReadAnswer \/ ReadClosed \/ ReadBoot \/ ReadRequest
  BY <1>0, <1>1, TakeFacts, TailFacts DEF LineTypes
<1>2. CASE Reply
  <2>1. commands' \in Seq(Commands)
    <3>1. commands # << >> /\ commands' = Tail(commands)
      BY <1>2, ReplySends
    <3> QED
      BY <1>0, <3>1
  <2>2. PICK m \in Answers :
          line' = Append(line, m) \/ line' = Append(Append(line, m), Message("closed"))
    BY <1>2, ReplySends
  <2>3. Append(line, m) \in Seq(Answers)
    BY <1>0
  <2>4. Append(Append(line, m), Message("closed")) \in Seq(Answers)
    <3>1. Message("closed") \in Answers
      BY MessageFacts
    <3> QED
      BY <2>3, <3>1
  <2> QED
    BY <2>1, <2>2, <2>3, <2>4 DEF LineTypes
<1>3. CASE ServerCloses \/ Ask \/ Restart
  <2>1. commands' = commands \/ commands' = << >>
    BY <1>3 DEF ServerCloses, Ask, Restart
  <2>2. commands' \in Seq(Commands)
    BY <1>0, <2>1, EmptySeq
  <2>3. CASE line' = line
    BY <1>0, <2>2, <2>3 DEF LineTypes
  <2>4. CASE \E t \in {"param", "ap", "closed", "boot"} : line' = Append(line, Message(t))
    <3>1. PICK t \in {"param", "ap", "closed", "boot"} : line' = Append(line, Message(t))
      BY <2>4
    <3>2. Message(t) \in Answers
      BY MessageFacts
    <3>3. Append(line, Message(t)) \in Seq(Answers)
      BY <1>0, <3>2
    <3> QED
      BY <2>2, <3>1, <3>3 DEF LineTypes
  <2> QED
    BY <1>3, <2>3, <2>4, ModuleSends
<1>4. ASSUME NEW c \in Clients, Lock(c) PROVE LineTypes'
  <2>1. commands' = Append(commands, cmd[c]) /\ cmd[c] \in Commands /\ line' = line
    BY <1>4 DEF Lock, Written, WifiTypes, CallTypes
  <2> QED
    BY <1>0, <2>1 DEF LineTypes
<1>5. CASE UNCHANGED <<line, commands>>
  BY <1>0, <1>5 DEF LineTypes
<1> QED
  BY <1>1, <1>2, <1>3, <1>4, <1>5
     DEF Next, Listener, Signal, ServerStarted, MonitorLock, MonitorLine, Serve, Module, Client,
         Call, LockData, Return, ShellWanted, ShellBegin, ShellEnd, TimeOut, module

LEMMA MutexStep == WifiTypes /\ Next => MutexTypes'
<1> SUFFICES ASSUME WifiTypes, Next PROVE MutexTypes'
  OBVIOUS
<1>0. MutexTypes
  BY DEF WifiTypes
<1>1. ASSUME NEW c \in Clients,
             Call(c) \/ LockData(c) \/ Lock(c) \/ Return(c) \/ ShellWanted(c) \/ ShellBegin(c)
               \/ ShellEnd(c) \/ TimeOut(c)
      PROVE  MutexTypes'
  <2>1. wifi_mutex' \in {wifi_mutex, c, None}
    BY <1>1 DEF Call, LockData, Lock, Written, Return, ShellWanted, ShellBegin, ShellEnd, TimeOut,
                mutexes
  <2>2. shell' = shell \/ shell' = c \/ shell' = None
    BY <1>1 DEF Call, LockData, Lock, Written, Return, ShellWanted, ShellBegin, ShellEnd, TimeOut,
                flags
  <2> QED
    BY <1>0, <2>1, <2>2 DEF MutexTypes
<1>2. CASE MonitorLock \/ Serve
  BY <1>0, <1>2 DEF MonitorLock, Serve, MutexTypes, flags
<1>3. CASE UNCHANGED <<mutexes, shell>>
  BY <1>0, <1>3 DEF MutexTypes, mutexes
<1> QED
  BY <1>1, <1>2, <1>3
     DEF Next, Listener, Skip, ReadAnswer, ReadClosed, ReadBoot, ServerStarted, ReadRequest,
         MonitorLine, Signal, Module, Reply, ServerCloses, Ask, Restart, Client, flags

LEMMA FlagStep == WifiTypes /\ Next => FlagTypes'
<1> SUFFICES ASSUME WifiTypes, Next PROVE FlagTypes'
  OBVIOUS
<1>0. FlagTypes
  BY DEF WifiTypes
<1>1. ASSUME NEW c \in Clients, Client(c) \/ TimeOut(c) PROVE FlagTypes'
  <2>1. client_buf' \in Clients \cup {None} /\ response_pending' \in BOOLEAN
    BY <1>0, <1>1 DEF Client, Call, LockData, Lock, Written, Return, ShellWanted, ShellBegin, ShellEnd,
                      TimeOut, FlagTypes, answer
  <2>2. inet_connected' \in BOOLEAN
    BY <1>0, <1>1 DEF Client, Call, LockData, Lock, Written, Return, ShellWanted, ShellBegin, ShellEnd,
                      TimeOut, FlagTypes, flags
  <2>3. wifiEnabled' \in BOOLEAN /\ running' \in BOOLEAN /\ open' \in BOOLEAN /\ clean' \in BOOLEAN
    BY <1>0, <1>1 DEF Client, Call, LockData, Lock, Written, Return, ShellWanted, ShellBegin, ShellEnd,
                      TimeOut, FlagTypes, flags, module, count
  <2> QED
    BY <2>1, <2>2, <2>3 DEF FlagTypes
<1>2. CASE Listener
  <2>1. client_buf' \in Clients \cup {None} /\ response_pending' \in BOOLEAN
    BY <1>0, <1>2 DEF Listener, Skip, ReadAnswer, ReadClosed, ReadBoot, ServerStarted, ReadRequest,
         MonitorLock, MonitorLine, Serve, Signal, FlagTypes, answer
  <2>2. clean' \in BOOLEAN /\ open' \in BOOLEAN
    BY <1>0, <1>2 DEF Listener, Skip, ReadAnswer, ReadClosed, ReadBoot, ServerStarted, ReadRequest,
         MonitorLock, MonitorLine, Serve, Signal, FlagTypes, count, module, Heard, Arrived
  <2>3. wifiEnabled' \in BOOLEAN /\ running' \in BOOLEAN /\ inet_connected' \in BOOLEAN
    BY <1>0, <1>2 DEF Listener, Skip, ReadAnswer, ReadClosed, ReadBoot, ServerStarted, ReadRequest,
         MonitorLock, MonitorLine, Serve, Signal, FlagTypes, flags
  <2> QED
    BY <2>1, <2>2, <2>3 DEF FlagTypes
<1>3. CASE Module
  <2>1. UNCHANGED <<client_buf, response_pending, running, inet_connected>>
    BY <1>3 DEF Module, Reply, ServerCloses, Ask, Restart, answer, flags
  <2>2. wifiEnabled' \in BOOLEAN /\ clean' \in BOOLEAN
    BY <1>0, <1>3 DEF Module, Reply, ServerCloses, Ask, Restart, flags, count, FlagTypes
  <2>3. open' \in BOOLEAN
    BY <1>0, <1>3, ReplySends DEF Module, ServerCloses, Ask, Restart, FlagTypes
  <2> QED
    BY <1>0, <2>1, <2>2, <2>3 DEF FlagTypes
<1> QED
  BY <1>1, <1>2, <1>3 DEF Next

LEMMA WifiTypesStep == WifiTypes /\ [Next]_vars => WifiTypes'
<1>1. WifiTypes /\ UNCHANGED vars => WifiTypes'
  BY DEF WifiTypes, CallTypes, AnswerTypes, LineTypes, MutexTypes, FlagTypes, vars, mutexes, client,
         answer, listener, flags, module, count
<1> QED
  BY <1>1, CallStep, AnswerStep, LineStep, MutexStep, FlagStep DEF WifiTypes

----------------------------------------------------------------------------
(* Who owns wifi_mutex. *)

LEMMA LockInvInit == Init => LockInv
BY WifiAssumption DEF Init, LockInv, Busy, None, Monitor

LEMMA LockInvUnchanged ==
  ASSUME LockInv, UNCHANGED <<wifi_mutex, pc, shell, client_active, client_buf, monitor>>
  PROVE  LockInv'
BY DEF LockInv

LEMMA LockInvClient ==
  ASSUME WifiTypes, LockInv, NEW c \in Clients, Client(c) \/ TimeOut(c)
  PROVE  LockInv'
<1>0. /\ pc \in [Clients -> {"idle", "data", "lock", "wait", "ready", "expired", "refused", "shell"}]
      /\ None \notin Clients /\ Monitor \notin Clients /\ None # Monitor
  BY WifiAssumption DEF WifiTypes, CallTypes, None, Monitor
<1>1. CASE Call(c) \/ LockData(c) \/ ShellWanted(c)
  <2>1. UNCHANGED <<wifi_mutex, shell, client_active, client_buf, monitor>>
    BY <1>1 DEF Call, LockData, ShellWanted, mutexes, answer, listener, flags
  <2>2. /\ pc[c] \in {"idle", "data"}
        /\ \E p \in {"data", "lock", "refused", "shell"} : pc' = [pc EXCEPT ![c] = p]
    BY <1>1 DEF Call, LockData, ShellWanted, Entered
  <2> QED
    BY <1>0, <2>1, <2>2 DEF LockInv, Busy
<1>2. CASE Lock(c)
  <2>1. /\ pc[c] = "lock" /\ wifi_mutex = None /\ wifi_mutex' = c
        /\ client_active' /\ client_buf' = c /\ UNCHANGED <<shell, monitor>>
        /\ \E p \in {"ready", "wait"} : pc' = [pc EXCEPT ![c] = p]
    BY <1>2 DEF Lock, Written, flags, listener
  <2> QED
    BY <1>0, <2>1 DEF LockInv, Busy
<1>3. CASE TimeOut(c)
  <2>1. /\ pc[c] = "wait" /\ pc' = [pc EXCEPT ![c] = "expired"]
        /\ UNCHANGED <<wifi_mutex, shell, client_active, client_buf, monitor>>
    BY <1>3 DEF TimeOut, mutexes, answer, listener, flags
  <2> QED
    BY <1>0, <2>1 DEF LockInv, Busy
<1>4. CASE Return(c)
  <2>1. /\ pc[c] \in {"ready", "expired", "refused"} /\ pc' = [pc EXCEPT ![c] = "idle"]
        /\ client_active' = IF pc[c] = "refused" THEN client_active ELSE FALSE
        /\ wifi_mutex' = IF wifi_mutex = c THEN None ELSE wifi_mutex
        /\ UNCHANGED <<client_buf, shell, monitor>>
    BY <1>4 DEF Return, listener
  <2> QED
    BY <1>0, <2>1 DEF LockInv, Busy
<1>5. CASE ShellBegin(c)
  <2>1. /\ pc[c] = "shell" /\ wifi_mutex = None /\ wifi_mutex' = c /\ shell' = c
        /\ UNCHANGED <<pc, client_active, client_buf, monitor>>
    BY <1>5 DEF ShellBegin, client, answer, listener
  <2> QED
    BY <1>0, <2>1 DEF LockInv, Busy
<1>6. CASE ShellEnd(c)
  <2>1. /\ shell = c /\ shell' = None /\ wifi_mutex' = None /\ pc' = [pc EXCEPT ![c] = "idle"]
        /\ UNCHANGED <<client_active, client_buf, monitor>>
    BY <1>6 DEF ShellEnd, answer, listener
  <2> QED
    BY <1>0, <2>1 DEF LockInv, Busy
<1> QED
  BY <1>1, <1>2, <1>3, <1>4, <1>5, <1>6 DEF Client

LEMMA LockInvListener ==
  ASSUME WifiTypes, LockInv, Listener
  PROVE  LockInv'
<1>0. /\ pc \in [Clients -> {"idle", "data", "lock", "wait", "ready", "expired", "refused", "shell"}]
      /\ None \notin Clients /\ Monitor \notin Clients /\ None # Monitor
      /\ monitor \in {"lock", "line"} => reading.type \in {"param", "ap"}
  BY WifiAssumption DEF WifiTypes, CallTypes, AnswerTypes, None, Monitor
<1>1. CASE Signal
  <2>1. /\ monitor = "answer" /\ monitor' = "read"
        /\ pc' = [c \in Clients |-> IF pc[c] = "wait" THEN "ready" ELSE pc[c]]
        /\ UNCHANGED <<wifi_mutex, shell, client_active, client_buf>>
    BY <1>1 DEF Signal, mutexes, flags
  <2> QED
    BY <1>0, <2>1 DEF LockInv, Busy
<1>2. CASE MonitorLock \/ MonitorLine \/ Serve
  <2>1. UNCHANGED <<pc, shell, client_active, client_buf>>
    BY <1>2 DEF MonitorLock, MonitorLine, Serve, client, answer, flags
  <2>2. \/ wifi_mutex = None /\ wifi_mutex' = Monitor /\ monitor' = "line" /\ monitor = "lock"
        \/ wifi_mutex' = wifi_mutex /\ monitor = "line" /\ monitor' \in {"param", "ap"}
        \/ wifi_mutex' = None /\ monitor \in {"param", "ap"} /\ monitor' = "read"
    BY <1>0, <1>2 DEF MonitorLock, MonitorLine, Serve, mutexes
  <2> QED
    BY <1>0, <2>1, <2>2 DEF LockInv
<1>3. CASE Skip \/ ReadAnswer \/ ReadClosed \/ ReadBoot \/ ServerStarted \/ ReadRequest
  <2>1. UNCHANGED <<wifi_mutex, pc, shell, client_active, client_buf>>
    BY <1>3 DEF Skip, ReadAnswer, ReadClosed, ReadBoot, ServerStarted, ReadRequest, mutexes, client,
                answer, flags
  <2>2. monitor \in {"read", "boot"} /\ monitor' \in {"read", "answer", "boot", "lock"}
    BY <1>3 DEF Skip, ReadAnswer, ReadClosed, ReadBoot, ServerStarted, ReadRequest, Heard, Arrived,
                listener
  <2> QED
    BY <2>1, <2>2 DEF LockInv
<1> QED
  BY <1>1, <1>2, <1>3 DEF Listener

LEMMA LockInvStep == WifiTypes /\ LockInv /\ [Next]_vars => LockInv'
<1> SUFFICES ASSUME WifiTypes, LockInv, [Next]_vars PROVE LockInv'
  OBVIOUS
<1>1. CASE Module \/ UNCHANGED vars
  <2>1. UNCHANGED <<wifi_mutex, pc, shell, client_active, client_buf, monitor>>
    BY <1>1 DEF Module, Reply, ServerCloses, Ask, Restart, vars, mutexes, client, answer, listener,
                flags
  <2> QED
    BY <2>1, LockInvUnchanged
<1> QED
  BY <1>1, LockInvClient, LockInvListener DEF Next

----------------------------------------------------------------------------
(* One command at a time, and its answer. *)

Places == {"idle", "data", "lock", "wait", "ready", "expired", "refused", "shell"}

\* What is on the line is what was there, without the first message perhaps,
\* and what is new is no answer.
SameAnswers == \E first \in {0, 1} : \A k \in 1..Len(line') :
  line'[k].type # "answer" \/ (k + first \in 1..Len(line) /\ line'[k] = line[k + first])

\* Nobody begins to wait, ceases to wait or is answered, and who waits or is
\* answered keeps his command.
SameClients == \A c \in Clients :
  /\ pc'[c] = "wait" <=> pc[c] = "wait"
  /\ pc'[c] = "ready" => pc[c] = "ready"
  /\ pc'[c] = "expired" => pc[c] = "expired"
  /\ pc'[c] \in {"wait", "ready"} => cmd'[c] = cmd[c] /\ buf'[c] = buf[c]

\* The monitor does not begin to read an answer.
SameReading == monitor' = "answer" => monitor = "answer" /\ reading' = reading

\* The steps that neither send nor read an answer.
LEMMA SameMonitor ==
  ASSUME UNCHANGED listener \/ Skip \/ ReadClosed \/ ReadBoot \/ ServerStarted \/ ReadRequest
           \/ MonitorLock \/ MonitorLine \/ Serve,
         WifiTypes
  PROVE  SameReading
<1>1. monitor = "line" => reading.type \in {"param", "ap"}
  BY DEF WifiTypes, AnswerTypes
<1> QED
  BY <1>1 DEF listener, Skip, ReadClosed, ReadBoot, ServerStarted, ReadRequest, MonitorLock,
              MonitorLine, Serve, SameReading

LEMMA SameLine ==
  ASSUME WifiTypes,
         \/ line' = line
         \/ line # << >> /\ line' = Tail(line)
         \/ \E t \in {"param", "ap", "closed", "boot"} : line' = Append(line, Message(t))
  PROVE  SameAnswers
<1>0. line \in Seq(Answers)
  BY DEF WifiTypes, LineTypes
<1>1. CASE line' = line
  <2>1. \A k \in 1..Len(line') : k + 0 \in 1..Len(line) /\ line'[k] = line[k + 0]
    BY <1>0, <1>1
  <2> QED
    BY <2>1 DEF SameAnswers
<1>2. CASE line # << >> /\ line' = Tail(line)
  <2>1. \A k \in 1..Len(line') : k + 1 \in 1..Len(line) /\ line'[k] = line[k + 1]
    BY <1>0, <1>2, TailFacts
  <2> QED
    BY <2>1 DEF SameAnswers
<1>3. CASE \E t \in {"param", "ap", "closed", "boot"} : line' = Append(line, Message(t))
  <2>1. PICK t \in {"param", "ap", "closed", "boot"} : line' = Append(line, Message(t))
    BY <1>3
  <2>2. Message(t) \in Answers /\ Message(t).type # "answer"
    BY MessageFacts
  <2>3. \A k \in 1..Len(line') :
          line'[k].type # "answer" \/ (k \in 1..Len(line) /\ line'[k] = line[k])
    BY <1>0, <2>1, <2>2, AppendFacts
  <2>4. \A k \in 1..Len(line) : k + 0 = k
    BY <1>0
  <2>5. \A k \in 1..Len(line') :
          line'[k].type # "answer" \/ (k + 0 \in 1..Len(line) /\ line'[k] = line[k + 0])
    BY <2>3, <2>4
  <2> QED
    BY <2>5 DEF SameAnswers
<1> QED
  BY <1>1, <1>2, <1>3

LEMMA AnswerQuiet ==
  ASSUME WifiTypes, AnswerInv, clean, ~response_pending', SameAnswers, SameClients, SameReading,
         commands' = commands \/ commands' = << >>
  PROVE  AnswerInv'
<1>0. NoneLate /\ CommandsOwn /\ AnswersOwn /\ OneAnswer /\ ReadingOwn /\ ReadyOwn
  BY DEF AnswerInv
<1>1. monitor = "answer" => reading.type \in Clients
  BY DEF WifiTypes, AnswerTypes
<1>2. NoneLate'
  BY <1>0 DEF NoneLate, SameClients
<1>3. CommandsOwn'
  BY <1>0 DEF CommandsOwn, SameClients
<1>4. PICK first \in {0, 1} : \A k \in 1..Len(line') :
        line'[k].type # "answer" \/ (k + first \in 1..Len(line) /\ line'[k] = line[k + first])
  BY DEF SameAnswers
<1>5. ASSUME NEW k \in 1..Len(line'), line'[k].type = "answer"
      PROVE  /\ commands' = << >> /\ monitor' # "answer"
             /\ \E c \in Clients : pc'[c] = "wait" /\ line'[k].id = cmd'[c].id
  <2>1. k + first \in 1..Len(line) /\ line'[k] = line[k + first]
    BY <1>4, <1>5
  <2>2. PICK c \in Clients : pc[c] = "wait" /\ line[k + first].id = cmd[c].id
    BY <1>0, <1>5, <2>1 DEF AnswersOwn
  <2>3. commands = << >> /\ monitor # "answer"
    BY <1>0, <1>5, <2>1 DEF AnswersOwn
  <2> QED
    BY <2>1, <2>2, <2>3 DEF SameClients, SameReading
<1>6. AnswersOwn'
  BY <1>5 DEF AnswersOwn
<1>7. OneAnswer'
  <2> SUFFICES ASSUME NEW k \in 1..Len(line'), NEW l \in 1..Len(line'),
                      line'[k].type = "answer", line'[l].type = "answer"
               PROVE  k = l
    BY DEF OneAnswer
  <2>1. /\ k + first \in 1..Len(line) /\ line'[k] = line[k + first]
        /\ l + first \in 1..Len(line) /\ line'[l] = line[l + first]
    BY <1>4
  <2>2. k + first = l + first
    BY <1>0, <2>1 DEF OneAnswer
  <2>3. k \in Int /\ l \in Int
    OBVIOUS
  <2> QED
    BY <2>2, <2>3
<1>8. ReadingOwn'
  BY <1>0, <1>1 DEF ReadingOwn, SameReading, SameClients
<1>9. ReadyOwn'
  BY <1>0 DEF ReadyOwn, SameClients
<1> QED
  BY <1>2, <1>3, <1>6, <1>7, <1>8, <1>9 DEF AnswerInv

\* Nobody waits: nothing is under way.
LEMMA NobodyWaits ==
  ASSUME WifiTypes, NoneLate, CommandsOwn, AnswersOwn, ReadingOwn, \A c \in Clients : pc[c] # "wait"
  PROVE  /\ commands = << >> /\ monitor # "answer"
         /\ \A k \in 1..Len(line) : line[k].type # "answer"
<1>1. monitor = "answer" => reading.type \in Clients
  BY DEF WifiTypes, AnswerTypes
<1> QED
  BY <1>1 DEF CommandsOwn, AnswersOwn, ReadingOwn

LEMMA AnswerLock ==
  ASSUME WifiTypes, LockInv, AnswerInv, clean, NEW c \in Clients, Lock(c)
  PROVE  AnswerInv'
<1>0. NoneLate /\ CommandsOwn /\ AnswersOwn /\ OneAnswer /\ ReadingOwn /\ ReadyOwn
  BY DEF AnswerInv
<1>1. /\ pc \in [Clients -> Places] /\ commands \in Seq(Commands) /\ cmd[c] \in Commands
      /\ None \notin Clients
  BY WifiAssumption DEF WifiTypes, CallTypes, LineTypes, Places, None
<1>2. /\ wifi_mutex = None /\ commands' = Append(commands, cmd[c]) /\ ~response_pending'
      /\ pc' = [pc EXCEPT ![c] = IF response_pending THEN "ready" ELSE "wait"]
      /\ UNCHANGED <<cmd, buf, line, monitor, reading>>
  BY DEF Lock, Written, listener
<1>3. pc' = [pc EXCEPT ![c] = "wait"]
  BY <1>0, <1>2 DEF NoneLate
<1>4. \A d \in Clients : pc[d] \notin Busy
  BY <1>1, <1>2 DEF LockInv
<1>5. /\ commands = << >> /\ monitor # "answer"
      /\ \A k \in 1..Len(line) : line[k].type # "answer"
  BY <1>0, <1>4, NobodyWaits DEF Busy
<1>6. NoneLate'
  BY <1>1, <1>2, <1>3, <1>4 DEF NoneLate, Busy
<1>7. commands' # << >> /\ Len(commands') = 1 /\ Head(commands') = cmd[c]
  BY <1>1, <1>2, <1>5
<1>8. CommandsOwn'
  BY <1>1, <1>2, <1>3, <1>7 DEF CommandsOwn
<1>9. AnswersOwn' /\ OneAnswer' /\ ReadingOwn'
  BY <1>2, <1>5 DEF AnswersOwn, OneAnswer, ReadingOwn
<1>10. ReadyOwn'
  BY <1>0, <1>1, <1>2, <1>3 DEF ReadyOwn
<1> QED
  BY <1>6, <1>8, <1>9, <1>10 DEF AnswerInv

LEMMA AnswerRead ==
  ASSUME WifiTypes, LockInv, AnswerInv, clean, ReadAnswer
  PROVE  AnswerInv'
<1>0. NoneLate /\ CommandsOwn /\ AnswersOwn /\ OneAnswer /\ ReadingOwn /\ ReadyOwn
  BY DEF AnswerInv
<1>1. /\ line # << >> /\ Head(line).type = "answer" /\ line' = Tail(line)
      /\ reading' = [Head(line) EXCEPT !.type = client_buf]
      /\ UNCHANGED <<pc, cmd, buf, response_pending, commands>>
  BY DEF ReadAnswer, Heard, Arrived, client, answer
<1>2. line \in Seq(Answers)
  BY DEF WifiTypes, LineTypes
<1>3. Head(line) = line[1] /\ 1 \in 1..Len(line) /\ Head(line) \in Answers
  BY <1>1, <1>2, TailFacts
<1>4. PICK c \in Clients : pc[c] = "wait" /\ Head(line).id = cmd[c].id
  BY <1>0, <1>1, <1>3 DEF AnswersOwn
<1>5. commands = << >> /\ client_buf = c
  BY <1>0, <1>1, <1>3, <1>4 DEF AnswersOwn, LockInv, Busy
<1>6. reading'.type = c /\ reading'.id = cmd[c].id
  BY <1>1, <1>3, <1>4, <1>5 DEF Answers
<1>7. \A k \in 1..Len(line') : line'[k].type # "answer"
  <2> SUFFICES ASSUME NEW k \in 1..Len(line'), line'[k].type = "answer" PROVE FALSE
    OBVIOUS
  <2>1. k + 1 \in 1..Len(line) /\ line'[k] = line[k + 1]
    BY <1>1, <1>2, TailFacts
  <2>2. k + 1 = 1
    BY <1>0, <1>1, <1>3, <2>1 DEF OneAnswer
  <2>3. k \in Int /\ k >= 1
    BY <1>1, <1>2
  <2> QED
    BY <2>2, <2>3
<1>8. NoneLate' /\ CommandsOwn' /\ ReadyOwn'
  BY <1>0, <1>1 DEF NoneLate, CommandsOwn, ReadyOwn
<1>9. AnswersOwn' /\ OneAnswer'
  BY <1>7 DEF AnswersOwn, OneAnswer
<1>10. ReadingOwn'
  BY <1>1, <1>4, <1>5, <1>6 DEF ReadingOwn
<1> QED
  BY <1>8, <1>9, <1>10 DEF AnswerInv

LEMMA AnswerSignal ==
  ASSUME WifiTypes, LockInv, AnswerInv, clean, Signal
  PROVE  AnswerInv'
<1>0. NoneLate /\ CommandsOwn /\ AnswersOwn /\ OneAnswer /\ ReadingOwn /\ ReadyOwn
  BY DEF AnswerInv
<1>1. /\ pc \in [Clients -> Places] /\ reading.type \in Clients /\ reading \in Answers
      /\ buf \in [Clients -> Answers]
  BY DEF WifiTypes, CallTypes, AnswerTypes, Places, Signal
<1> DEFINE r == reading.type
<1>2. /\ monitor = "answer" /\ monitor' = "read"
      /\ buf' = [buf EXCEPT ![r] = [reading EXCEPT !.type = "answer"]]
      /\ pc' = [c \in Clients |-> IF pc[c] = "wait" THEN "ready" ELSE pc[c]]
      /\ response_pending' = ({c \in Clients : pc[c] = "wait"} = {})
      /\ UNCHANGED <<cmd, line, commands>>
  BY DEF Signal, module
<1>3. pc[r] = "wait" /\ reading.id = cmd[r].id /\ commands = << >>
  BY <1>0, <1>2 DEF ReadingOwn
<1>4. ~response_pending'
  BY <1>1, <1>2, <1>3
<1>5. \A c \in Clients : pc[c] \in {"wait", "ready"} => c = r
  BY <1>1, <1>3 DEF LockInv, Busy
<1>6. buf'[r].id = cmd[r].id
  BY <1>1, <1>2, <1>3 DEF Answers
<1>7. NoneLate' /\ CommandsOwn' /\ ReadingOwn'
  BY <1>0, <1>2, <1>3, <1>4 DEF NoneLate, CommandsOwn, ReadingOwn
<1>8. AnswersOwn' /\ OneAnswer'
  BY <1>0, <1>2 DEF AnswersOwn, OneAnswer
<1>9. ReadyOwn'
  BY <1>2, <1>5, <1>6 DEF ReadyOwn
<1> QED
  BY <1>7, <1>8, <1>9 DEF AnswerInv

LEMMA AnswerReply ==
  ASSUME WifiTypes, AnswerInv, clean, Reply
  PROVE  AnswerInv'
<1>0. NoneLate /\ CommandsOwn /\ AnswersOwn /\ OneAnswer /\ ReadingOwn /\ ReadyOwn
  BY DEF AnswerInv
<1>1. /\ commands \in Seq(Commands) /\ line \in Seq(Answers)
      /\ UNCHANGED <<pc, cmd, buf, response_pending, monitor, reading>>
  BY DEF WifiTypes, LineTypes, Reply, client, answer, listener
<1>2. commands # << >> /\ commands' = Tail(commands)
  BY ReplySends
<1>3. PICK m \in Answers :
        /\ m.type = "answer" /\ m.id = Head(commands).id
        /\ line' = Append(line, m) \/ line' = Append(Append(line, m), Message("closed"))
  BY ReplySends
<1>4. commands' = << >>
  BY <1>0, <1>1, <1>2 DEF CommandsOwn
<1>5. PICK c \in Clients : pc[c] = "wait" /\ m.id = cmd[c].id
  BY <1>0, <1>2, <1>3 DEF CommandsOwn
<1>6. monitor # "answer" /\ \A k \in 1..Len(line) : line[k].type # "answer"
  BY <1>0, <1>2 DEF ReadingOwn, AnswersOwn
<1>7. \A k \in 1..Len(line') :
        line'[k].type = "answer" => k = Len(line) + 1 /\ line'[k] = m
  <2>1. Message("closed") \in Answers /\ Message("closed").type # "answer"
    BY MessageFacts
  <2>2. /\ Append(line, m) \in Seq(Answers)
        /\ \A k \in 1..Len(Append(line, m)) :
             Append(line, m)[k].type = "answer" => k = Len(line) + 1 /\ Append(line, m)[k] = m
    BY <1>1, <1>6, AppendFacts
  <2>3. CASE line' = Append(line, m)
    BY <2>2, <2>3
  <2>4. CASE line' = Append(Append(line, m), Message("closed"))
    <3> DEFINE s == Append(line, m)
    <3>1. \A k \in 1..Len(line') :
            (k \in 1..Len(s) /\ line'[k] = s[k]) \/ line'[k] = Message("closed")
      BY <2>1, <2>2, <2>4, AppendFacts
    <3> QED
      BY <2>1, <2>2, <3>1
  <2> QED
    BY <1>3, <2>3, <2>4
<1>8. NoneLate' /\ CommandsOwn' /\ ReadingOwn' /\ ReadyOwn'
  <2>1. Len(commands') = 0
    BY <1>4
  <2> QED
    BY <1>0, <1>1, <1>4, <1>6, <2>1 DEF NoneLate, CommandsOwn, ReadingOwn, ReadyOwn
<1>9. AnswersOwn' /\ OneAnswer'
  BY <1>1, <1>4, <1>5, <1>6, <1>7 DEF AnswersOwn, OneAnswer
<1> QED
  BY <1>8, <1>9 DEF AnswerInv

LEMMA AnswerInvInit == Init => AnswerInv
<1> SUFFICES ASSUME Init PROVE AnswerInv
  OBVIOUS
<1>1. Len(commands) = 0 /\ Len(line) = 1 /\ line[1].type = "boot"
  BY MessageFacts DEF Init
<1> QED
  BY <1>1 DEF Init, AnswerInv, NoneLate, CommandsOwn, AnswersOwn, OneAnswer, ReadingOwn, ReadyOwn

\* What the steps that are no exchange of a command and its answer leave alone.
LEMMA QuietClient ==
  ASSUME WifiTypes, NoneLate, NEW c \in Clients,
         Call(c) \/ LockData(c) \/ Return(c) \/ ShellWanted(c) \/ ShellBegin(c) \/ ShellEnd(c),
         LockInv
  PROVE  SameClients /\ UNCHANGED <<line, commands, open, response_pending, listener, clean>>
<1>1. pc \in [Clients -> Places] /\ cmd \in [Clients -> Commands] /\ buf \in [Clients -> Answers]
  BY DEF WifiTypes, CallTypes, AnswerTypes, Places
<1>2. CASE Call(c)
  <2>1. /\ pc[c] = "idle" /\ \E p \in {"data", "lock", "refused"} : pc' = [pc EXCEPT ![c] = p]
        /\ \E i : cmd' = [cmd EXCEPT ![c] = i]
        /\ buf' = [buf EXCEPT ![c] = Unread]
        /\ UNCHANGED <<line, commands, open, response_pending, listener, clean>>
    BY <1>1, <1>2 DEF Call, Entered, module
  <2> QED
    BY <1>1, <2>1 DEF SameClients
<1>3. CASE LockData(c) \/ ShellWanted(c)
  <2>1. /\ pc[c] \in {"idle", "data"}
        /\ \E p \in {"lock", "refused", "shell"} : pc' = [pc EXCEPT ![c] = p]
        /\ UNCHANGED <<cmd, buf, line, commands, open, response_pending, listener, clean>>
    BY <1>3 DEF LockData, ShellWanted, Entered, answer, module, count
  <2> QED
    BY <1>1, <2>1 DEF SameClients
<1>4. CASE Return(c)
  <2>1. /\ pc[c] # "wait" /\ pc' = [pc EXCEPT ![c] = "idle"] /\ cmd' = [cmd EXCEPT ![c] = Idle]
        /\ UNCHANGED <<buf, line, commands, open, response_pending, listener, clean>>
    BY <1>4 DEF Return, module, count
  <2> QED
    BY <1>1, <2>1 DEF SameClients
<1>5. CASE ShellBegin(c) \/ ShellEnd(c)
  <2>1. /\ pc[c] = "shell" /\ (pc' = pc \/ pc' = [pc EXCEPT ![c] = "idle"])
        /\ UNCHANGED <<cmd, buf, line, commands, open, response_pending, listener, clean>>
    BY <1>5 DEF ShellBegin, ShellEnd, client, answer, module, count, LockInv
  <2> QED
    BY <1>1, <2>1 DEF SameClients
<1> QED
  BY <1>2, <1>3, <1>4, <1>5

\* The monitor, but for the answers it reads, and the module, but for those it
\* sends.
QuietListener ==
  Skip \/ ReadClosed \/ ReadBoot \/ ServerStarted \/ ReadRequest \/ MonitorLock \/ MonitorLine \/ Serve
QuietModule == ServerCloses \/ Ask \/ Restart

LEMMA QuietOther ==
  ASSUME WifiTypes, QuietListener \/ QuietModule \/ UNCHANGED vars
  PROVE  /\ SameAnswers /\ SameReading /\ (commands' = commands \/ commands' = << >>)
         /\ UNCHANGED <<pc, cmd, buf, response_pending>> /\ SameClients
<1>1. UNCHANGED <<pc, cmd, buf, response_pending>>
  BY DEF QuietListener, QuietModule, Skip, ReadClosed, ReadBoot, ServerStarted, ReadRequest,
         MonitorLock, MonitorLine, Serve, ServerCloses, Ask, Restart, vars, client, answer
<1>2. commands' = commands \/ commands' = << >>
  BY DEF QuietListener, QuietModule, Skip, ReadClosed, ReadBoot, ServerStarted, ReadRequest, Heard,
         Arrived, MonitorLock, MonitorLine, Serve, ServerCloses, Ask, Restart, vars, module
<1>3. SameReading
  BY SameMonitor DEF QuietListener, QuietModule, ServerCloses, Ask, Restart, vars
<1>4. SameAnswers
  <2>1. CASE Skip \/ ReadClosed \/ ReadBoot \/ ReadRequest
    BY <2>1, TakeFacts, SameLine
  <2>2. CASE QuietModule
    BY <2>2, ModuleSends, SameLine DEF QuietModule
  <2>3. CASE ServerStarted \/ MonitorLock \/ MonitorLine \/ Serve \/ UNCHANGED vars
    <3>1. line' = line
      BY <2>3 DEF ServerStarted, MonitorLock, MonitorLine, Serve, vars, module
    <3> QED
      BY <3>1, SameLine
  <2> QED
    BY <2>1, <2>2, <2>3 DEF QuietListener
<1>5. SameClients
  BY <1>1 DEF SameClients
<1> QED
  BY <1>1, <1>2, <1>3, <1>4, <1>5

\* A history that is over stays over.
LEMMA CleanBefore == WifiTypes /\ [Next]_vars /\ clean' => clean
<1> SUFFICES ASSUME WifiTypes, [Next]_vars, clean' PROVE clean
  OBVIOUS
<1>1. clean \in BOOLEAN
  BY DEF WifiTypes, FlagTypes
<1>2. ASSUME NEW c \in Clients, Client(c) \/ TimeOut(c) PROVE clean
  BY <1>1, <1>2 DEF Client, Call, LockData, Lock, Written, Return, ShellWanted, ShellBegin, ShellEnd,
                    TimeOut, count
<1>3. CASE Listener
  BY <1>1, <1>3 DEF Listener, Skip, ReadAnswer, Signal, ReadClosed, ReadBoot, ServerStarted,
                    ReadRequest, MonitorLock, MonitorLine, Serve, count
<1>4. CASE Module \/ UNCHANGED vars
  BY <1>1, <1>4 DEF Module, Reply, ServerCloses, Ask, Restart, vars, count
<1> QED
  BY <1>2, <1>3, <1>4 DEF Next

LEMMA StepKinds ==
  ASSUME [Next]_vars
  PROVE  \/ \E c \in Clients : \/ Call(c) \/ LockData(c) \/ Return(c)
                               \/ ShellWanted(c) \/ ShellBegin(c) \/ ShellEnd(c)
         \/ \E c \in Clients : Lock(c) \/ TimeOut(c)
         \/ ReadAnswer \/ Signal \/ Reply
         \/ QuietListener \/ QuietModule \/ UNCHANGED vars
BY DEF Next, Client, Listener, Module, QuietListener, QuietModule

LEMMA AnswerInvStep == WifiTypes /\ LockInv /\ AnswerInv /\ [Next]_vars => AnswerInv'
<1> SUFFICES ASSUME WifiTypes, LockInv, AnswerInv, [Next]_vars, clean' PROVE AnswerInv'
  BY DEF AnswerInv
<1>0. clean /\ NoneLate
  BY CleanBefore DEF AnswerInv
<1>1. ASSUME NEW c \in Clients,
             Call(c) \/ LockData(c) \/ Return(c) \/ ShellWanted(c) \/ ShellBegin(c) \/ ShellEnd(c)
      PROVE  AnswerInv'
  <2>1. SameClients /\ UNCHANGED <<line, commands, response_pending, listener>>
    BY <1>0, <1>1, QuietClient
  <2>2. SameAnswers /\ SameReading
    BY <2>1, SameLine, SameMonitor
  <2> QED
    BY <1>0, <2>1, <2>2, AnswerQuiet DEF NoneLate
<1>2. ASSUME NEW c \in Clients, Lock(c) \/ TimeOut(c) PROVE AnswerInv'
  BY <1>0, <1>2, AnswerLock DEF TimeOut
<1>3. CASE ReadAnswer \/ Signal \/ Reply
  BY <1>0, <1>3, AnswerRead, AnswerSignal, AnswerReply
<1>4. CASE QuietListener \/ QuietModule \/ UNCHANGED vars
  <2>1. /\ SameAnswers /\ SameReading /\ SameClients /\ (commands' = commands \/ commands' = << >>)
        /\ response_pending' = response_pending
    BY <1>4, QuietOther
  <2> QED
    BY <1>0, <2>1, AnswerQuiet DEF NoneLate
<1> QED
  BY <1>1, <1>2, <1>3, <1>4, StepKinds

----------------------------------------------------------------------------
(* The connection. *)

ClosedOn(l) == \E k \in 1..Len(l) : l[k].type = "closed"

LEMMA ClosedKept ==
  ASSUME WifiTypes, ClosedOn(line),
         \/ line' = line
         \/ line # << >> /\ line' = Tail(line) /\ Head(line).type # "closed"
         \/ \E m \in Answers : line' = Append(line, m)
  PROVE  ClosedOn(line')
<1>0. line \in Seq(Answers)
  BY DEF WifiTypes, LineTypes
<1>1. PICK k \in 1..Len(line) : line[k].type = "closed"
  BY DEF ClosedOn
<1>2. CASE line' = line
  BY <1>2
<1>3. CASE line # << >> /\ line' = Tail(line) /\ Head(line).type # "closed"
  <2>1. k # 1
    BY <1>0, <1>1, <1>3, TailFacts
  <2>2. k - 1 \in 1..Len(line') /\ line'[k - 1] = line[k]
    BY <1>0, <1>3, <2>1
  <2> QED
    BY <1>1, <2>2 DEF ClosedOn
<1>4. CASE \E m \in Answers : line' = Append(line, m)
  BY <1>0, <1>1, <1>4, AppendFacts DEF ClosedOn
<1> QED
  BY <1>2, <1>3, <1>4

LEMMA OpenQuiet ==
  ASSUME WifiTypes, AnswerInv, OpenInv, clean, SameAnswers, SameClients, SameReading,
         open => open', ConnectedKnown'
  PROVE  OpenInv'
<1>0. AnswersOpen /\ ReadingOpen /\ ReadyOpen /\ ReadingOwn
  BY DEF OpenInv, AnswerInv
<1>1. monitor = "answer" => reading.type \in Clients
  BY DEF WifiTypes, AnswerTypes
<1>2. PICK first \in {0, 1} : \A k \in 1..Len(line') :
        line'[k].type # "answer" \/ (k + first \in 1..Len(line) /\ line'[k] = line[k + first])
  BY DEF SameAnswers
<1>3. ASSUME NEW k \in 1..Len(line'), NEW c \in Clients,
             line'[k].type = "answer", line'[k].ok, pc'[c] = "wait", cmd'[c].kind = "OPEN"
      PROVE  open'
  <2>1. k + first \in 1..Len(line) /\ line'[k] = line[k + first]
    BY <1>2, <1>3
  <2>2. pc[c] = "wait" /\ cmd[c].kind = "OPEN"
    BY <1>3 DEF SameClients
  <2> QED
    BY <1>0, <1>3, <2>1, <2>2 DEF AnswersOpen
<1>4. AnswersOpen'
  BY <1>3 DEF AnswersOpen
<1>5. ReadingOpen'
  BY <1>0, <1>1 DEF ReadingOpen, ReadingOwn, SameReading, SameClients
<1>6. ReadyOpen'
  BY <1>0 DEF ReadyOpen, SameClients
<1> QED
  BY <1>4, <1>5, <1>6 DEF OpenInv

LEMMA OpenInvInit == Init => OpenInv
<1> SUFFICES ASSUME Init PROVE OpenInv
  OBVIOUS
<1>1. Len(line) = 1 /\ line[1].type = "boot"
  BY MessageFacts DEF Init
<1> QED
  BY <1>1 DEF Init, OpenInv, AnswersOpen, ReadingOpen, ReadyOpen, ConnectedKnown

LEMMA OpenClient ==
  ASSUME WifiTypes, LockInv, AnswerInv, OpenInv, clean, NEW c \in Clients,
         Call(c) \/ LockData(c) \/ Return(c) \/ ShellWanted(c) \/ ShellBegin(c) \/ ShellEnd(c)
  PROVE  OpenInv'
<1>0. NoneLate /\ ReadyOpen /\ ConnectedKnown
  BY DEF AnswerInv, OpenInv
<1>1. SameClients /\ UNCHANGED <<line, commands, open, response_pending, listener>>
  BY <1>0, QuietClient
<1>2. SameAnswers /\ SameReading
  BY <1>1, SameLine, SameMonitor
<1>3. inet_connected' => inet_connected \/ (pc[c] = "ready" /\ cmd[c].kind = "OPEN" /\ buf[c].ok)
  BY DEF Call, LockData, Return, ShellWanted, ShellBegin, ShellEnd, flags
<1>4. ConnectedKnown'
  BY <1>0, <1>1, <1>3 DEF ConnectedKnown, ReadyOpen
<1> QED
  BY <1>1, <1>2, <1>4, OpenQuiet

LEMMA OpenLock ==
  ASSUME WifiTypes, LockInv, AnswerInv, OpenInv, clean, NEW c \in Clients, Lock(c)
  PROVE  OpenInv'
<1>0. /\ NoneLate /\ CommandsOwn /\ AnswersOwn /\ ReadingOwn
      /\ AnswersOpen /\ ReadingOpen /\ ReadyOpen /\ ConnectedKnown
  BY DEF AnswerInv, OpenInv
<1>1. pc \in [Clients -> Places] /\ None \notin Clients
  BY WifiAssumption DEF WifiTypes, CallTypes, Places, None
<1>2. /\ wifi_mutex = None /\ pc' = [pc EXCEPT ![c] = "wait"]
      /\ UNCHANGED <<cmd, buf, line, monitor, reading, open, inet_connected>>
  BY <1>0 DEF Lock, Written, listener, flags, NoneLate
<1>3. \A d \in Clients : pc[d] \notin Busy
  BY <1>1, <1>2 DEF LockInv
<1>4. monitor # "answer" /\ \A k \in 1..Len(line) : line[k].type # "answer"
  BY <1>0, <1>3, NobodyWaits DEF Busy
<1>5. AnswersOpen' /\ ReadingOpen'
  BY <1>2, <1>4 DEF AnswersOpen, ReadingOpen
<1>6. ReadyOpen'
  BY <1>0, <1>1, <1>2 DEF ReadyOpen
<1>7. ConnectedKnown'
  BY <1>0, <1>2 DEF ConnectedKnown
<1> QED
  BY <1>5, <1>6, <1>7 DEF OpenInv

LEMMA OpenRead ==
  ASSUME WifiTypes, LockInv, AnswerInv, OpenInv, clean, ReadAnswer
  PROVE  OpenInv'
<1>0. AnswersOwn /\ AnswersOpen /\ ReadyOpen /\ ConnectedKnown
  BY DEF AnswerInv, OpenInv
<1>1. /\ line # << >> /\ Head(line).type = "answer" /\ line' = Tail(line)
      /\ reading' = [Head(line) EXCEPT !.type = client_buf]
      /\ UNCHANGED <<pc, cmd, buf, open, inet_connected>>
  BY DEF ReadAnswer, Heard, Arrived, client, answer, flags
<1>2. line \in Seq(Answers)
  BY DEF WifiTypes, LineTypes
<1>3. Head(line) = line[1] /\ 1 \in 1..Len(line) /\ Head(line) \in Answers
  BY <1>1, <1>2, TailFacts
<1>4. PICK c \in Clients : pc[c] = "wait" /\ Head(line).id = cmd[c].id
  BY <1>0, <1>1, <1>3 DEF AnswersOwn
<1>5. client_buf = c
  BY <1>4 DEF LockInv, Busy
<1>6. reading'.type = c /\ reading'.ok = Head(line).ok
  BY <1>1, <1>3, <1>5 DEF Answers
<1>7. ReadingOpen'
  BY <1>0, <1>1, <1>3, <1>4, <1>6 DEF ReadingOpen, AnswersOpen
<1>8. AnswersOpen'
  <2>1. \A k \in 1..Len(line') : k + 1 \in 1..Len(line) /\ line'[k] = line[k + 1]
    BY <1>1, <1>2, TailFacts
  <2> QED
    BY <1>0, <1>1, <2>1 DEF AnswersOpen
<1>9. ReadyOpen'
  BY <1>0, <1>1 DEF ReadyOpen
<1>10. ConnectedKnown'
  BY <1>0, <1>1, ClosedKept DEF ConnectedKnown, ClosedOn
<1> QED
  BY <1>7, <1>8, <1>9, <1>10 DEF OpenInv

LEMMA OpenSignal ==
  ASSUME WifiTypes, LockInv, AnswerInv, OpenInv, clean, Signal
  PROVE  OpenInv'
<1>0. ReadingOwn /\ AnswersOpen /\ ReadingOpen /\ ReadyOpen /\ ConnectedKnown
  BY DEF AnswerInv, OpenInv
<1>1. /\ pc \in [Clients -> Places] /\ reading.type \in Clients /\ reading \in Answers
      /\ buf \in [Clients -> Answers]
  BY DEF WifiTypes, CallTypes, AnswerTypes, Places, Signal
<1> DEFINE r == reading.type
<1>2. /\ monitor = "answer" /\ monitor' = "read"
      /\ buf' = [buf EXCEPT ![r] = [reading EXCEPT !.type = "answer"]]
      /\ pc' = [c \in Clients |-> IF pc[c] = "wait" THEN "ready" ELSE pc[c]]
      /\ UNCHANGED <<cmd, line, open, inet_connected>>
  BY DEF Signal, module, flags
<1>3. pc[r] = "wait"
  BY <1>0, <1>2 DEF ReadingOwn
<1>4. \A c \in Clients : pc[c] \in {"wait", "ready"} => c = r
  BY <1>1, <1>3 DEF LockInv, Busy
<1>5. buf'[r].ok = reading.ok
  BY <1>1, <1>2 DEF Answers
<1>6. ReadyOpen'
  BY <1>0, <1>2, <1>4, <1>5 DEF ReadyOpen, ReadingOpen
<1>7. AnswersOpen' /\ ReadingOpen' /\ ConnectedKnown'
  BY <1>0, <1>2 DEF AnswersOpen, ReadingOpen, ConnectedKnown
<1> QED
  BY <1>6, <1>7 DEF OpenInv

LEMMA OpenReply ==
  ASSUME WifiTypes, LockInv, AnswerInv, OpenInv, clean, Reply
  PROVE  OpenInv'
<1>0. CommandsOwn /\ AnswersOwn /\ ReadingOwn /\ ReadyOpen /\ ConnectedKnown
  BY DEF AnswerInv, OpenInv
<1>1. line \in Seq(Answers) /\ UNCHANGED <<pc, cmd, buf, monitor, reading, inet_connected>>
  BY DEF WifiTypes, LineTypes, Reply, client, answer, listener, flags
<1>2. PICK m \in Answers :
        \/ /\ line' = Append(line, m)
           /\ Head(commands).kind = "OPEN" => (open' <=> open \/ m.ok)
           /\ open => open'
        \/ /\ line' = Append(Append(line, m), Message("closed"))
           /\ Head(commands).kind # "OPEN"
  BY ReplySends
<1>3. commands # << >>
  BY ReplySends
<1>4. PICK d \in Clients : pc[d] = "wait" /\ Head(commands) = cmd[d]
  BY <1>0, <1>3 DEF CommandsOwn
<1>5. \A c \in Clients : pc[c] \in Busy => c = d
  BY <1>4 DEF LockInv, Busy
<1>6. monitor # "answer" /\ \A k \in 1..Len(line) : line[k].type # "answer"
  BY <1>0, <1>3 DEF ReadingOwn, AnswersOwn
<1>7. ReadingOpen' /\ ReadyOpen'
  BY <1>1, <1>4, <1>5, <1>6 DEF ReadingOpen, ReadyOpen, Busy
<1>8. CASE Head(commands).kind = "OPEN"
  <2>1. line' = Append(line, m) /\ (open' <=> open \/ m.ok) /\ (open => open')
    BY <1>2, <1>8
  <2>2. \A k \in 1..Len(line') : line'[k].type = "answer" => line'[k] = m
    BY <1>1, <1>6, <2>1, AppendFacts
  <2>3. AnswersOpen'
    BY <2>1, <2>2 DEF AnswersOpen
  <2>4. ConnectedKnown'
    BY <1>0, <1>1, <2>1, ClosedKept DEF ConnectedKnown, ClosedOn
  <2> QED
    BY <1>7, <2>3, <2>4 DEF OpenInv
<1>9. CASE Head(commands).kind # "OPEN"
  <2>1. AnswersOpen'
    BY <1>1, <1>4, <1>5, <1>9 DEF AnswersOpen, Busy
  <2>2. CASE line' = Append(line, m) /\ (open => open')
    <3>1. ConnectedKnown'
      BY <1>0, <1>1, <2>2, ClosedKept DEF ConnectedKnown, ClosedOn
    <3> QED
      BY <1>7, <2>1, <3>1 DEF OpenInv
  <2>3. CASE line' = Append(Append(line, m), Message("closed"))
    <3>1. Append(line, m) \in Seq(Answers) /\ Message("closed") \in Answers
      BY <1>1, MessageFacts
    <3>2. Len(line') \in 1..Len(line') /\ line'[Len(line')] = Message("closed")
      BY <2>3, <3>1, AppendFacts
    <3>3. ConnectedKnown'
      BY <3>2, MessageFacts DEF ConnectedKnown
    <3> QED
      BY <1>7, <2>1, <3>3 DEF OpenInv
  <2> QED
    BY <1>2, <2>2, <2>3
<1> QED
  BY <1>8, <1>9

LEMMA OpenListener ==
  ASSUME WifiTypes, AnswerInv, OpenInv, clean, clean', QuietListener
  PROVE  OpenInv'
<1>0. ConnectedKnown
  BY DEF OpenInv
<1>1. SameAnswers /\ SameReading /\ SameClients
  BY QuietOther
<1>2. open' = open
  BY DEF QuietListener, Skip, ReadClosed, ReadBoot, ServerStarted, ReadRequest, Heard, Arrived,
         MonitorLock, MonitorLine, Serve, module
<1>3. CASE ReadClosed
  BY <1>1, <1>2, <1>3, OpenQuiet DEF ReadClosed, ConnectedKnown
<1>4. CASE Skip \/ ReadBoot \/ ReadRequest
  <2>1. Head(line).type # "closed" /\ line # << >> /\ line' = Tail(line) /\ UNCHANGED inet_connected
    BY <1>4 DEF Skip, ReadBoot, ReadRequest, Heard, Arrived, flags
  <2>2. ConnectedKnown'
    BY <1>0, <1>2, <2>1, ClosedKept DEF ConnectedKnown, ClosedOn
  <2> QED
    BY <1>1, <1>2, <2>2, OpenQuiet
<1>5. CASE ServerStarted \/ MonitorLock \/ MonitorLine \/ Serve
  <2>1. UNCHANGED <<line, inet_connected>>
    BY <1>5 DEF ServerStarted, MonitorLock, MonitorLine, Serve, module, flags
  <2>2. ConnectedKnown'
    BY <1>0, <1>2, <2>1 DEF ConnectedKnown
  <2> QED
    BY <1>1, <1>2, <2>2, OpenQuiet
<1> QED
  BY <1>3, <1>4, <1>5 DEF QuietListener

LEMMA OpenModule ==
  ASSUME WifiTypes, AnswerInv, OpenInv, clean, clean', QuietModule
  PROVE  OpenInv'
<1>0. ConnectedKnown /\ line \in Seq(Answers)
  BY DEF OpenInv, WifiTypes, LineTypes
<1>1. SameAnswers /\ SameReading /\ SameClients /\ UNCHANGED <<pc, cmd, buf>>
  BY QuietOther
<1>2. CASE ServerCloses
  <2>1. \A c \in Clients : cmd[c].kind # "OPEN"
    BY <1>2 DEF ServerCloses, Opening
  <2>2. line' = Append(line, Message("closed"))
    BY <1>2, ModuleSends DEF ServerCloses, Restart
  <2>3. AnswersOpen' /\ ReadyOpen'
    BY <1>1, <2>1 DEF AnswersOpen, ReadyOpen
  <2>4. ReadingOpen'
    <3>1. UNCHANGED listener /\ (monitor = "answer" => reading.type \in Clients)
      BY <1>2 DEF ServerCloses, WifiTypes, AnswerTypes
    <3> QED
      BY <1>1, <2>1, <3>1 DEF ReadingOpen, listener
  <2>5. ConnectedKnown'
    <3>1. Message("closed") \in Answers /\ Message("closed").type = "closed"
      BY MessageFacts
    <3>2. Len(line') \in 1..Len(line') /\ line'[Len(line')] = Message("closed")
      BY <1>0, <2>2, <3>1, AppendFacts
    <3> QED
      BY <3>1, <3>2 DEF ConnectedKnown
  <2> QED
    BY <2>3, <2>4, <2>5 DEF OpenInv
<1>3. CASE Ask
  <2>1. UNCHANGED <<open, inet_connected>>
    BY <1>3 DEF Ask, flags
  <2>2. line' = line \/ \E m \in Answers : line' = Append(line, m)
    BY <1>3, ModuleSends, MessageFacts
  <2>3. ConnectedKnown'
    BY <1>0, <2>1, <2>2, ClosedKept DEF ConnectedKnown, ClosedOn
  <2> QED
    BY <1>1, <2>1, <2>3, OpenQuiet
<1>4. CASE Restart
  BY <1>1, <1>4, OpenQuiet DEF Restart, ConnectedKnown
<1> QED
  BY <1>2, <1>3, <1>4 DEF QuietModule

LEMMA OpenInvStep == WifiTypes /\ LockInv /\ AnswerInv /\ OpenInv /\ [Next]_vars => OpenInv'
<1> SUFFICES ASSUME WifiTypes, LockInv, AnswerInv, OpenInv, [Next]_vars, clean' PROVE OpenInv'
  BY DEF OpenInv
<1>0. clean
  BY CleanBefore
<1>1. ASSUME NEW c \in Clients, Lock(c) \/ TimeOut(c) PROVE OpenInv'
  BY <1>0, <1>1, OpenLock DEF TimeOut
<1>2. CASE UNCHANGED vars
  <2>1. UNCHANGED <<pc, cmd, buf, monitor, reading, line, open, inet_connected, clean>>
    BY <1>2 DEF vars, client, answer, listener, flags, module, count
  <2> QED
    BY <2>1 DEF OpenInv, AnswersOpen, ReadingOpen, ReadyOpen, ConnectedKnown
<1> QED
  BY <1>0, <1>1, <1>2, OpenClient, OpenRead, OpenSignal, OpenReply, OpenListener, OpenModule, StepKinds

----------------------------------------------------------------------------
(* The theorems. *)

WifiInv == WifiTypes /\ LockInv /\ AnswerInv /\ OpenInv

\* Invariant of the line: types, locks, the exchange, the connection.
LEMMA WifiInvHolds == Spec => []WifiInv
<1>1. Init => WifiInv
  BY WifiTypesInit, LockInvInit, AnswerInvInit, OpenInvInit DEF WifiInv
<1>2. WifiInv /\ [Next]_vars => WifiInv'
  BY WifiTypesStep, LockInvStep, AnswerInvStep, OpenInvStep DEF WifiInv
<1> QED
  BY <1>1, <1>2, PTL DEF Spec

\* In a clean behaviour (no time-out, no restart with something to do, no missed
\* close) a command gets the answer to itself (wifi.c:162-176).
THEOREM AnswerMatchesHolds == Spec => []AnswerMatches
<1>1. WifiInv => AnswerMatches
  BY DEF WifiInv, AnswerInv, ReadyOwn, AnswerMatches, Matches
<1> QED
  BY <1>1, WifiInvHolds, PTL

\* In a clean behaviour the firmware believes in a connection only while there is
\* one, or will hear that it is closed (wifi.c:232-243, 741-744).
THEOREM ConnectedExactHolds == Spec => []ConnectedExact
<1>1. WifiInv => ConnectedExact
  BY DEF WifiInv, OpenInv, ConnectedKnown, ConnectedExact, Believed
<1> QED
  BY <1>1, WifiInvHolds, PTL

=============================================================================
