------------------------------- MODULE Bridge -------------------------------
(***************************************************************************)
(* The service worker of the browser extension (background.js): one global *)
(* ws for however many WebSockets there are, two alarms that keep it alive *)
(* or look for the server, and the handlers of commands, which attach the  *)
(* debugger to tabs and detach it, with other handlers in between at every *)
(* await.                                                                  *)
(***************************************************************************)
EXTENDS Naturals, Sequences, FiniteSets

CONSTANTS
  Tabs,         \* tabs of the browser
  Commands,     \* the commands that arrive
  MaxSockets,   \* bound: WebSockets that are not closed
  MaxFailures   \* bound: stops of the server, lost connections, restarts of the worker

ASSUME BridgeAssumption ==
  /\ IsFiniteSet(Tabs) /\ MaxSockets \in Nat \ {0} /\ MaxFailures \in Nat
  /\ "none" \notin Tabs

VARIABLES
  server,    \* the server listens
  failures,  \* failures so far
  socket,    \* readyState of each WebSocket
  ws,        \* the global: a socket, or null
  alarms,    \* the alarms that are set
  probes,    \* onAlarm handlers that await isServerAlive
  command,   \* the handler of each command
  attached   \* tabs that the debugger is attached to

link == <<server, failures, socket, ws, alarms, probes>>
vars == <<link, command, attached>>

Null == 0
Sockets == 1..MaxSockets
NoTab == "none"

(* A handler: what it has to do yet, the tab it believes it is attached to.*)
Waiting == [pc |-> "new", batch |-> FALSE, todo |-> <<>>, held |-> NoTab]
Finished == [Waiting EXCEPT !.pc = "done"]

-----------------------------------------------------------------------------
(* connectWS and the alarms.                                               *)

Live(w, s) == w # Null /\ s[w] \in {"connecting", "open"}

(* connectWS, from the socket states s and the global w.                   *)
ConnectWS(w, s) ==
  IF Live(w, s) THEN ws' = w /\ socket' = s
  ELSE \E i \in Sockets :
         /\ s[i] = "closed" /\ \A j \in 1..(i - 1) : s[j] # "closed"
         /\ ws' = i /\ socket' = [s EXCEPT ![i] = "connecting"]

Failed == failures < MaxFailures /\ failures' = failures + 1

Init ==
  /\ server \in BOOLEAN /\ failures = 0
  /\ socket = [i \in Sockets |-> IF i = 1 THEN "connecting" ELSE "closed"]
  /\ ws = 1 /\ alarms = {} /\ probes = 0
  /\ command = [c \in Commands |-> Waiting] /\ attached = {}

(* The keepalive alarm: ping, or look for the server.  That it comes due   *)
(* within the handshake of a new socket, 24 s after another one was opened,*)
(* counts as a failure: it cannot go on for ever.                          *)
KeepaliveFires ==
  /\ "keepalive" \in alarms
  /\ IF ws # Null /\ socket[ws] = "open"
     THEN UNCHANGED <<ws, alarms>>
     ELSE ws' = Null /\ alarms' = (alarms \ {"keepalive"}) \cup {"probe"}
  /\ IF ws # Null /\ socket[ws] = "connecting" THEN Failed ELSE UNCHANGED failures
  /\ UNCHANGED <<server, socket, probes, command, attached>>

(* The probe alarm: the handler asks the server and awaits the answer.     *)
ProbeFires ==
  /\ "probe" \in alarms
  /\ alarms' = alarms \ {"probe"}
  /\ probes' = IF Live(ws, socket) THEN probes ELSE probes + 1
  /\ UNCHANGED <<server, failures, socket, ws, command, attached>>

(* The answer of isServerAlive.                                            *)
ProbeAnswered ==
  /\ probes > 0 /\ probes' = probes - 1
  /\ IF server THEN ConnectWS(ws, socket) /\ UNCHANGED alarms
     ELSE alarms' = alarms \cup {"probe"} /\ UNCHANGED <<ws, socket>>
  /\ UNCHANGED <<server, failures, command, attached>>

(* onopen.                                                                 *)
SocketOpens(i) ==
  /\ server /\ socket[i] = "connecting"
  /\ socket' = [socket EXCEPT ![i] = "open"]
  /\ alarms' = alarms \cup {"keepalive"}
  /\ UNCHANGED <<server, failures, ws, probes, command, attached>>

(* Mutant: onclose leaves the probing to the alarms.                       *)
SocketClosesQuietly(i) ==
  /\ socket[i] = "closing" \/ (socket[i] = "connecting" /\ ~server)
  /\ socket' = [socket EXCEPT ![i] = "closed"]
  /\ ws' = Null /\ UNCHANGED alarms
  /\ UNCHANGED <<server, failures, probes, command, attached>>

(* onclose of any socket: the global is null, whatever socket it led to.   *)
SocketCloses(i) ==
  /\ socket[i] = "closing" \/ (socket[i] = "connecting" /\ ~server)
  /\ socket' = [socket EXCEPT ![i] = "closed"]
  /\ ws' = Null /\ alarms' = alarms \cup {"probe"}
  /\ UNCHANGED <<server, failures, probes, command, attached>>

-----------------------------------------------------------------------------
(* What goes wrong around the extension.                                   *)

ServerStops ==
  /\ server /\ Failed
  /\ server' = FALSE
  /\ socket' = [i \in Sockets |-> IF socket[i] = "open" THEN "closing" ELSE socket[i]]
  /\ UNCHANGED <<ws, alarms, probes, command, attached>>

ServerStarts ==
  /\ ~server /\ server' = TRUE
  /\ UNCHANGED <<failures, socket, ws, alarms, probes, command, attached>>

ConnectionLost(i) ==
  /\ socket[i] \in {"connecting", "open"} /\ Failed
  /\ socket' = [socket EXCEPT ![i] = "closing"]
  /\ UNCHANGED <<server, ws, alarms, probes, command, attached>>

(* The worker is killed and an event has started it again: the alarms are  *)
(* what is left, and the script connects anew.                             *)
WorkerRestarts ==
  /\ Failed
  /\ ConnectWS(Null, [i \in Sockets |-> "closed"])
  /\ probes' = 0 /\ attached' = {}
  /\ command' = [c \in Commands |-> IF command[c].pc = "new" THEN Waiting
                                    ELSE Finished]
  /\ UNCHANGED <<server, alarms>>

-----------------------------------------------------------------------------
(* The handlers of commands.                                               *)

At(c, pc) == command[c].pc = pc
Tab(c) == Head(command[c].todo)
Goto(c, pc) ==
  command' = [command EXCEPT ![c] = IF pc = "done" THEN Finished ELSE [@ EXCEPT !.pc = pc]]

(* handleCDP and the fallback of handleWsExec attach to one tab, handleBatch*)
(* to one after the other.                                                 *)
CommandArrives(c) ==
  /\ At(c, "new")
  /\ \/ \E t \in Tabs, pc \in {"script", "attach"} :
          command' = [command EXCEPT ![c] = [Waiting EXCEPT !.pc = pc, !.todo = <<t>>]]
     \/ \E t, u \in Tabs :
          command' = [command EXCEPT ![c] =
                        [pc |-> "attach", batch |-> TRUE, todo |-> <<t, u>>, held |-> NoTab]]
  /\ UNCHANGED <<link, attached>>

(* The script ran in the page, or the page forbids it.                     *)
ScriptRan(c) ==
  /\ At(c, "script")
  /\ \E pc \in {"attach", "done"} : Goto(c, pc)
  /\ UNCHANGED <<link, attached>>

(* What follows a call that threw: the catch block detaches the tab of the *)
(* command, whoever attached it; that of a batch only what it holds.       *)
Caught(c) ==
  IF command[c].batch /\ command[c].held = NoTab THEN "done" ELSE "catch"

(* A batch that stays on its tab does not attach again; one that moves on  *)
(* detaches first.                                                         *)
Attach(c) ==
  /\ At(c, "attach")
  /\ IF command[c].held = Tab(c) THEN Goto(c, "send") /\ UNCHANGED attached
     ELSE IF command[c].held # NoTab
     THEN IF command[c].held \in attached
          THEN /\ attached' = attached \ {command[c].held}
               /\ command' = [command EXCEPT ![c].held = NoTab]
          ELSE Goto(c, "catch") /\ UNCHANGED attached
     ELSE IF Tab(c) \in attached THEN Goto(c, Caught(c)) /\ UNCHANGED attached
     ELSE /\ attached' = attached \cup {Tab(c)}
          /\ command' = [command EXCEPT ![c].pc = "send", ![c].held = Tab(c)]
  /\ UNCHANGED link

(* sendCommand needs no more than that the tab is attached.                *)
SendCommand(c) ==
  /\ At(c, "send")
  /\ \/ Tab(c) \in attached /\ command' = [command EXCEPT ![c].todo = Tail(@),
                                ![c].pc = IF Len(command[c].todo) = 1 THEN "detach" ELSE "attach"]
     \/ Goto(c, "catch")
  /\ UNCHANGED <<link, attached>>

(* Mutant: a command that failed does not detach.                          *)
DetachOnSuccess(c) ==
  /\ At(c, "detach") \/ At(c, "catch")
  /\ Goto(c, "done")
  /\ attached' = IF At(c, "catch") THEN attached ELSE attached \ {command[c].held}
  /\ UNCHANGED link

(* The detach at the end, and the one of the catch block, whose own error  *)
(* is ignored.  A detach that throws is caught by a detach that throws.    *)
Detach(c) ==
  /\ At(c, "detach") \/ At(c, "catch")
  /\ Goto(c, "done")
  /\ attached' = attached \ {IF command[c].held = NoTab THEN Tab(c) ELSE command[c].held}
  /\ UNCHANGED link

(* The user dismisses the debugger, or the tab is closed.                  *)
UserDetaches(t) ==
  /\ t \in attached /\ attached' = attached \ {t}
  /\ UNCHANGED <<link, command>>

Handle(c) == CommandArrives(c) \/ ScriptRan(c) \/ Attach(c) \/ SendCommand(c) \/ Detach(c)

Next ==
  \/ KeepaliveFires \/ ProbeFires \/ ProbeAnswered
  \/ \E i \in Sockets : SocketOpens(i) \/ SocketCloses(i) \/ ConnectionLost(i)
  \/ ServerStops \/ ServerStarts \/ WorkerRestarts
  \/ \E c \in Commands : Handle(c)
  \/ \E t \in Tabs : UserDetaches(t)

(* The browser fires alarms, answers requests and finishes handshakes, and *)
(* a server that was stopped is started again.                             *)
Fairness ==
  /\ WF_vars(KeepaliveFires) /\ WF_vars(ProbeFires) /\ WF_vars(ProbeAnswered)
  /\ \A i \in Sockets : WF_vars(SocketOpens(i)) /\ WF_vars(SocketCloses(i))
  /\ WF_vars(ServerStarts)

Spec == Init /\ [][Next]_vars /\ Fairness

-----------------------------------------------------------------------------
(* Properties.                                                             *)

(* Whatever closes late, fires twice or restarts: once nothing goes wrong  *)
(* any more the worker has a connection that is open, and keeps it.        *)
Connected == ws # Null /\ socket[ws] = "open"
Reconnects == <>[]Connected

(* Whatever handlers share a tab, and whatever calls of theirs fail: a tab *)
(* that the debugger is attached to has a handler that will detach it.     *)
DebuggerReleased ==
  \A t \in attached : \E c \in Commands :
    command[c].held = t /\ command[c].pc \in {"attach", "send", "detach", "catch"}
=============================================================================
