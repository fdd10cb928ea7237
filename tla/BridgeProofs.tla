---------------------------- MODULE BridgeProofs ----------------------------
(***************************************************************************)
(* The debugger of the browser bridge, for every set of tabs and commands: *)
(* whatever handlers interleave, fail or die with their worker, a tab stays*)
(* attached only while a handler is about to detach it.                    *)
(***************************************************************************)
EXTENDS Bridge, SequenceTheorems, TLAPS

Steps == {"new", "script", "attach", "send", "detach", "catch", "done"}
Holding == {"attach", "send", "detach", "catch"}
Handlers == [pc : Steps, batch : BOOLEAN, todo : Seq(Tabs), held : Tabs \cup {NoTab}]

(* Handlers are well formed, and one that is not at its end has a tab to   *)
(* work on.                                                                *)
HandlerOK(h) ==
  h \in Handlers /\ (h.pc \in {"script", "attach", "send"} => h.todo # <<>>)

CommandsOK == DOMAIN command = Commands /\ \A c \in Commands : HandlerOK(command[c])

DebuggerInv == CommandsOK /\ NoTab \notin attached /\ DebuggerReleased

-----------------------------------------------------------------------------

(* The records of a handler that is idle, and of one that ended.           *)
LEMMA IdleHandlers == HandlerOK(Waiting) /\ HandlerOK(Finished)
<1> DEFINE none == <<>>
<1>1. none \in Seq(Tabs)
  BY EmptySeq
<1>2. Waiting = [pc |-> "new", batch |-> FALSE, todo |-> none, held |-> NoTab]
  BY DEF Waiting
<1> HIDE DEF none
<1>3. Finished = [Waiting EXCEPT !.pc = "done"]
  BY DEF Finished
<1>4. Finished = [pc |-> "done", batch |-> FALSE, todo |-> none, held |-> NoTab]
  BY <1>2, <1>3
<1> QED
  BY <1>1, <1>2, <1>4 DEF HandlerOK, Handlers, Steps

(* The tab a handler works on is a tab.                                    *)
LEMMA TabType ==
  ASSUME NEW h, HandlerOK(h), h.todo # <<>>
  PROVE  Head(h.todo) \in Tabs /\ Tail(h.todo) \in Seq(Tabs) /\ Len(h.todo) \in Nat
         /\ (Len(h.todo) # 1 => Tail(h.todo) # <<>>)
<1>1. h.todo \in Seq(Tabs) /\ h.todo # <<>>
  BY DEF HandlerOK, Handlers
<1>2. Head(h.todo) \in Tabs /\ Tail(h.todo) \in Seq(Tabs) /\ Len(h.todo) \in Nat
  BY <1>1
<1>3. Len(Tail(h.todo)) = Len(h.todo) - 1
  BY <1>1
<1>4. ASSUME Len(h.todo) # 1 PROVE Tail(h.todo) # <<>>
  <2>1. Len(Tail(h.todo)) # 0
    BY <1>2, <1>3, <1>4
  <2>2. Len(<<>>) = 0
    BY EmptySeq
  <2> QED
    BY <2>1, <2>2
<1> QED
  BY <1>2, <1>4

(* A step of one handler that neither attaches nor lets go of a tab, or    *)
(* that lets go of the tab it detaches, or that holds the tab it attaches. *)
LEMMA OneHandler ==
  ASSUME DebuggerInv, NEW c \in Commands, NEW h, HandlerOK(h),
         command' = [command EXCEPT ![c] = h],
         NoTab \notin attached',
         \A t \in attached' : t \in attached \/ (h.held = t /\ h.pc \in Holding),
         \A t \in attached' : command[c].held = t /\ command[c].pc \in Holding
                                => h.held = t /\ h.pc \in Holding
  PROVE  DebuggerInv'
<1>1. command'[c] = h /\ \A d \in Commands : d # c => command'[d] = command[d]
  BY DEF DebuggerInv, CommandsOK
<1>2. CommandsOK'
  BY <1>1 DEF DebuggerInv, CommandsOK, HandlerOK
<1>3. DebuggerReleased'
  <2> SUFFICES ASSUME NEW t \in attached'
               PROVE  \E d \in Commands : command'[d].held = t /\ command'[d].pc \in Holding
    BY DEF DebuggerReleased, Holding
  <2>1. CASE h.held = t /\ h.pc \in Holding
    BY <1>1, <2>1
  <2>2. CASE t \in attached
    <3>1. PICK d \in Commands : command[d].held = t /\ command[d].pc \in Holding
      BY <2>2 DEF DebuggerInv, DebuggerReleased, Holding
    <3> QED
      BY <1>1, <3>1
  <2> QED
    BY <2>1, <2>2
<1> QED
  BY <1>2, <1>3 DEF DebuggerInv

(* A handler that goes to another step, and holds what it held.            *)
LEMMA GoesTo ==
  ASSUME DebuggerInv, NEW c \in Commands, NEW pc \in {"attach", "send", "detach", "catch"},
         Goto(c, pc), UNCHANGED attached,
         pc \in {"attach", "send"} => command[c].todo # <<>>
  PROVE  DebuggerInv'
<1> DEFINE h == [command[c] EXCEPT !.pc = pc]
<1>1. command' = [command EXCEPT ![c] = h]
  BY DEF Goto
<1>2. HandlerOK(command[c])
  BY DEF DebuggerInv, CommandsOK
<1>3. HandlerOK(h) /\ h.held = command[c].held /\ h.pc = pc
  BY <1>2 DEF HandlerOK, Handlers, Steps
<1> HIDE DEF h
<1>4. NoTab \notin attached'
  BY DEF DebuggerInv
<1> QED
  BY <1>1, <1>3, <1>4, OneHandler DEF Holding

(* A handler that ends, and holds no tab that stays attached.              *)
LEMMA Ends ==
  ASSUME DebuggerInv, NEW c \in Commands, Goto(c, "done"),
         attached' \subseteq attached,
         command[c].pc \in Holding => command[c].held \notin attached'
  PROVE  DebuggerInv'
<1>1. command' = [command EXCEPT ![c] = Finished]
  BY DEF Goto
<1>2. NoTab \notin attached'
  BY DEF DebuggerInv
<1> QED
  BY <1>1, <1>2, IdleHandlers, OneHandler

-----------------------------------------------------------------------------

(* Every step of a handler keeps the debugger's invariant.                 *)
LEMMA HandleKeeps ==
  ASSUME DebuggerInv, NEW c \in Commands, Handle(c)
  PROVE  DebuggerInv'
<1>1. HandlerOK(command[c]) /\ NoTab \notin attached
  BY DEF DebuggerInv, CommandsOK
<1>2. CASE CommandArrives(c)
  <2>1. PICK h : /\ command' = [command EXCEPT ![c] = h]
                 /\ \/ \E t \in Tabs, pc \in {"script", "attach"} :
                         h = [Waiting EXCEPT !.pc = pc, !.todo = <<t>>]
                    \/ \E t, u \in Tabs :
                         h = [pc |-> "attach", batch |-> TRUE, todo |-> <<t, u>>, held |-> NoTab]
    BY <1>2 DEF CommandArrives
  <2>2. HandlerOK(h)
    <3>1. ASSUME NEW t \in Tabs, NEW pc \in {"script", "attach"},
                 h = [Waiting EXCEPT !.pc = pc, !.todo = <<t>>]
          PROVE  HandlerOK(h)
      <4>1. h = [pc |-> pc, batch |-> FALSE, todo |-> <<t>>, held |-> NoTab]
        BY <3>1 DEF Waiting
      <4>2. <<t>> \in Seq(Tabs) /\ <<t>> # <<>>
        BY SMT
      <4> QED
        BY <4>1, <4>2 DEF HandlerOK, Handlers, Steps
    <3>2. ASSUME NEW t \in Tabs, NEW u \in Tabs,
                 h = [pc |-> "attach", batch |-> TRUE, todo |-> <<t, u>>, held |-> NoTab]
          PROVE  HandlerOK(h)
      <4>1. <<t, u>> \in Seq(Tabs) /\ <<t, u>> # <<>>
        BY SMT
      <4> QED
        BY <3>2, <4>1 DEF HandlerOK, Handlers, Steps
    <3> QED
      BY <2>1, <3>1, <3>2
  <2>3. UNCHANGED attached /\ command[c].pc = "new"
    BY <1>2 DEF CommandArrives, At
  <2> QED
    BY <1>1, <2>1, <2>2, <2>3, OneHandler DEF Holding
<1>3. CASE ScriptRan(c)
  <2>1. PICK pc \in {"attach", "done"} : Goto(c, pc)
    BY <1>3 DEF ScriptRan
  <2>2. UNCHANGED attached /\ command[c].pc = "script"
    BY <1>3 DEF ScriptRan, At
  <2>3. command[c].todo # <<>>
    BY <1>1, <2>2 DEF HandlerOK
  <2>4. CASE pc = "attach"
    BY <2>1, <2>2, <2>3, <2>4, GoesTo
  <2>5. CASE pc = "done"
    BY <2>1, <2>2, <2>5, Ends DEF Holding
  <2> QED
    BY <2>4, <2>5
<1>4. CASE Attach(c)
  <2>1. /\ command[c].pc = "attach" /\ command[c].todo # <<>>
        /\ Tab(c) \in Tabs /\ command[c].held \in Tabs \cup {NoTab}
    BY <1>1, <1>4, TabType DEF Attach, At, HandlerOK, Handlers, Tab
  <2>2. CASE Goto(c, "send") /\ UNCHANGED attached
    BY <2>1, <2>2, GoesTo
  <2>3. CASE Goto(c, "catch") /\ UNCHANGED attached
    BY <2>3, GoesTo
  <2>4. CASE Goto(c, "done") /\ UNCHANGED attached /\ command[c].held = NoTab
    BY <1>1, <2>4, Ends
  <2>5. CASE /\ attached' = attached \ {command[c].held}
             /\ command' = [command EXCEPT ![c].held = NoTab]
    <3> DEFINE h == [command[c] EXCEPT !.held = NoTab]
    <3>1. command' = [command EXCEPT ![c] = h]
      BY <2>5
    <3>2. HandlerOK(h)
      BY <1>1 DEF HandlerOK, Handlers
    <3> HIDE DEF h
    <3> QED
      BY <1>1, <2>5, <3>1, <3>2, OneHandler
  <2>6. CASE /\ command[c].held = NoTab
             /\ attached' = attached \cup {Tab(c)}
             /\ command' = [command EXCEPT ![c].pc = "send", ![c].held = Tab(c)]
    <3> DEFINE h == [command[c] EXCEPT !.pc = "send", !.held = Tab(c)]
    <3>1. command' = [command EXCEPT ![c] = h]
      BY <2>6
    <3>2. HandlerOK(h) /\ h.pc = "send" /\ h.held = Tab(c)
      BY <1>1, <2>1 DEF HandlerOK, Handlers, Steps
    <3>3. NoTab \notin attached'
      BY <1>1, <2>1, <2>6, BridgeAssumption DEF NoTab
    <3>4. \A t \in attached' : t \in attached \/ (h.held = t /\ h.pc \in Holding)
      BY <2>6, <3>2 DEF Holding
    <3>5. \A t \in attached' : command[c].held = t /\ command[c].pc \in Holding
                                => h.held = t /\ h.pc \in Holding
      BY <2>6, <3>3
    <3> HIDE DEF h
    <3> QED
      BY <3>1, <3>2, <3>3, <3>4, <3>5, OneHandler
  <2> QED
    BY <1>4, <2>2, <2>3, <2>4, <2>5, <2>6 DEF Attach, Caught
<1>5. CASE SendCommand(c)
  <2>1. /\ command[c].pc = "send" /\ command[c].todo # <<>> /\ UNCHANGED attached
    BY <1>1, <1>5 DEF SendCommand, At, HandlerOK
  <2>2. CASE Goto(c, "catch")
    BY <2>1, <2>2, GoesTo
  <2>3. CASE command' = [command EXCEPT ![c].todo = Tail(@),
                ![c].pc = IF Len(command[c].todo) = 1 THEN "detach" ELSE "attach"]
    <3> DEFINE next == IF Len(command[c].todo) = 1 THEN "detach" ELSE "attach"
               h == [command[c] EXCEPT !.todo = Tail(@), !.pc = next]
    <3>1. command' = [command EXCEPT ![c] = h]
      BY <2>3
    <3>2. Tail(command[c].todo) \in Seq(Tabs)
          /\ (next = "attach" => Tail(command[c].todo) # <<>>) /\ next \in {"detach", "attach"}
      BY <1>1, <2>1, TabType
    <3> HIDE DEF next
    <3>3. HandlerOK(h) /\ h.held = command[c].held /\ h.pc \in Holding
      BY <1>1, <3>2 DEF HandlerOK, Handlers, Steps, Holding
    <3> HIDE DEF h
    <3> QED
      BY <1>1, <2>1, <3>1, <3>3, OneHandler
  <2> QED
    BY <1>5, <2>2, <2>3 DEF SendCommand
<1>6. CASE Detach(c)
  <2>1. Goto(c, "done")
    BY <1>6 DEF Detach
  <2>2. attached' \subseteq attached /\ command[c].held \notin attached'
    BY <1>1, <1>6 DEF Detach
  <2> QED
    BY <2>1, <2>2, Ends
<1> QED
  BY <1>2, <1>3, <1>4, <1>5, <1>6 DEF Handle

(* The worker dies with its handlers, and the browser detaches its tabs.   *)
LEMMA RestartKeeps ==
  ASSUME DebuggerInv, WorkerRestarts
  PROVE  DebuggerInv'
<1>1. DOMAIN command' = Commands /\ \A c \in Commands : command'[c] \in {Waiting, Finished}
  BY DEF WorkerRestarts
<1>2. CommandsOK'
  BY <1>1, IdleHandlers DEF CommandsOK
<1>3. attached' = {}
  BY DEF WorkerRestarts
<1> QED
  BY <1>2, <1>3 DEF DebuggerInv, DebuggerReleased

(* A tab the debugger is attached to has a handler that will detach it:    *)
(* handleCDP, handleWsExec and handleBatch of background.js leave no tab   *)
(* with the debugger, however many of them run and whichever calls fail.   *)
THEOREM DebuggersReleased == Spec => []DebuggerReleased
<1>1. Init => DebuggerInv
  BY IdleHandlers DEF Init, DebuggerInv, CommandsOK, DebuggerReleased
<1>2. DebuggerInv /\ [Next]_vars => DebuggerInv'
  <2> SUFFICES ASSUME DebuggerInv, [Next]_vars PROVE DebuggerInv'
    OBVIOUS
  <2>1. CASE UNCHANGED <<command, attached>>
    BY <2>1 DEF DebuggerInv, CommandsOK, DebuggerReleased
  <2>2. ASSUME NEW t \in Tabs, UserDetaches(t) PROVE DebuggerInv'
    BY <2>2 DEF DebuggerInv, CommandsOK, DebuggerReleased, UserDetaches
  <2>3. CASE KeepaliveFires \/ ProbeFires \/ ProbeAnswered \/ ServerStops \/ ServerStarts
    BY <2>1, <2>3 DEF KeepaliveFires, ProbeFires, ProbeAnswered, ServerStops, ServerStarts
  <2>4. ASSUME NEW i \in Sockets, SocketOpens(i) \/ SocketCloses(i) \/ ConnectionLost(i)
        PROVE  DebuggerInv'
    BY <2>1, <2>4 DEF SocketOpens, SocketCloses, ConnectionLost
  <2>5. CASE UNCHANGED vars
    BY <2>1, <2>5 DEF vars
  <2> QED
    BY <2>2, <2>3, <2>4, <2>5, HandleKeeps, RestartKeeps DEF Next
<1>3. DebuggerInv => DebuggerReleased
  BY DEF DebuggerInv
<1> QED
  BY <1>1, <1>2, <1>3, PTL DEF Spec
=============================================================================
