---------------------------- MODULE FrontendProofs ----------------------------
(***************************************************************************)
(* Theorems about the TUI process, for every number of lines, keys and     *)
(* approvals and every kind of line: the types of its variables, where the *)
(* submitted lines are and in which order they go, and that an approval    *)
(* the gateway waits for can be given.                                     *)
(*                                                                         *)
(* The parts need each other: a request has an id in Ids because every     *)
(* line is sent once and every call is asked about once.                   *)
(***************************************************************************)
EXTENDS Frontend, FiniteSetTheorems, TLAPS

Ordered(s) == \A i, j \in DOMAIN s : i < j => s[i] < s[j]

(* The lines ts with a timer come before those of the queue q.             *)
QueueInOrder(ts, q) ==
  Ordered(ts) /\ Ordered(q) /\ \A i \in DOMAIN ts, j \in DOMAIN q : ts[i] < q[j]

LinesOf(ts, q) == {ts[i] : i \in DOMAIN ts} \cup {q[i] : i \in DOMAIN q}
Waiting == LinesOf(timers, queue)

Typed == {p \in Prompts : kindOf[p] # "none"}

(* The kinds of lines that become a request.                               *)
Sendable == {"chat", "slash", "exit", "bash"}

Approves == Sent("chat.approve")

(* The ids are given in turn, and a promise whose caller waits settled.    *)
Ledger ==
  /\ DOMAIN arg = Ids
  /\ \A i \in Ids : /\ i < nextId <=> method[i] # "none"
                    /\ i < nextId <=> call[i] # "unused"
  /\ \A i \in continuations : call[i] \in {"resolved", "rejected"}

(* The lines are numbered as they were typed; those that went through the  *)
(* queue pass from it to the timers and to the gateway in this order.      *)
LinesInOrder ==
  /\ Typed = 1..Submitted
  /\ QueueInOrder(timers, queue)
  /\ Waiting \subseteq held /\ held \subseteq Typed
  /\ \A i \in HeldRequests :
       /\ \A p \in Waiting : arg[i] < p
       /\ \A j \in HeldRequests : i < j => arg[i] < arg[j]

(* A line is sent once, and one that App does not handle itself is         *)
(* somewhere.                                                              *)
LinesOnce ==
  /\ \A i \in PromptRequests : arg[i] \in Typed
  /\ \A i, j \in PromptRequests : arg[i] = arg[j] => i = j
  /\ \A p \in Prompts : kindOf[p] \in Sendable =>
       p \in Waiting \/ \E i \in PromptRequests : arg[i] = p

(* The gateway reads the requests in the order of their ids.               *)
RequestsInTurn ==
  /\ Ordered(toServer)
  /\ \A j \in DOMAIN toServer : slot < toServer[j] /\ toServer[j] < nextId

(* A call is of a turn the gateway has begun, and of the current turn only *)
(* if it was asked about.                                                  *)
Begun(c) ==
  /\ c[1] \in Sent("chat.send")
  /\ \A j \in DOMAIN toServer : c[1] < toServer[j]
  /\ c[1] = slot => c[2] <= asked

(* A call is asked about once: the request for the decision is in the      *)
(* pipe, on the screen, or decided.                                        *)
CallsOnce ==
  /\ \A j \in DOMAIN toClient, c \in Calls : toClient[j] = ApprovalEvent(c) =>
       /\ Begun(c) /\ approval # c
       /\ \A k \in DOMAIN toClient : toClient[k] = toClient[j] => k = j
       /\ \A i \in Approves : arg[i] # c
  /\ approval # NoCall => Begun(approval) /\ \A i \in Approves : arg[i] # approval
  /\ \A i \in Approves : /\ Begun(arg[i])
                         /\ \A k \in Approves : arg[k] = arg[i] => k = i

(* What the gateway waits for was the last thing it asked for.             *)
AskedLast ==
  asking # NoCall =>
    /\ slot # 0 /\ ~replied /\ asking = <<slot, asked>>
    /\ \A j \in DOMAIN toClient : toClient[j][1] = "approval" =>
         \E k \in DOMAIN toClient : j <= k /\ toClient[k] = ApprovalEvent(asking)

(* What is on its way to the user or back is about the call the turn waits *)
(* for.                                                                    *)
DecisionsCurrent ==
  alive =>
    /\ approval # NoCall => approval = asking
    /\ \A j \in DOMAIN toClient, c \in Calls : toClient[j] = ApprovalEvent(c) => c = asking
    /\ \A j \in DOMAIN toServer :
         method[toServer[j]] = "chat.approve" => arg[toServer[j]] = asking

(* App runs from the answer to the status on, and sends nothing before.    *)
Stages ==
  /\ app = "starting" => nextId = 1
  /\ app = "status" => nextId = 2 /\ \A i \in Ids : method[i] \in {"none", "runtime.status"}
  /\ app = "failed" => \A i \in Ids : method[i] \in {"none", "gateway.shutdown"}
  /\ app \in {"starting", "status", "failed"} => timers = <<>> /\ queue = <<>>
  /\ \A i \in Sent("runtime.status") :
       i \in Pending \cup continuations => app = "status" \/ AppEnded

(* Every request has its cause: a line, a decision, an /exit that was      *)
(* agreed to, a key, or the start.                                         *)
Exited == {i \in Sent("commands.dispatch") : ExitAgreed(i) /\ i \notin continuations}

Causes ==
  Cardinality(PromptRequests) + Cardinality(Approves) + Cardinality(Exited)
    + keys + (IF app = "starting" THEN 0 ELSE 1)

RequestsCounted == nextId <= 1 + Causes

FrontendInv ==
  /\ TypeOK /\ Ledger
  /\ LinesInOrder /\ LinesOnce
  /\ RequestsInTurn /\ CallsOnce /\ AskedLast /\ DecisionsCurrent
  /\ Stages /\ RequestsCounted
  /\ ActiveIsPending /\ ApprovalReachable

-----------------------------------------------------------------------------
(* Sequences and frames, as far as the steps need them.                    *)

LEMMA AppendIs ==
  ASSUME NEW S, NEW s \in Seq(S), NEW x \in S
  PROVE  /\ Append(s, x) \in Seq(S)
         /\ Len(s) \in Nat /\ DOMAIN s = 1..Len(s)
         /\ DOMAIN Append(s, x) = 1..(Len(s) + 1)
         /\ \A i \in DOMAIN s : Append(s, x)[i] = s[i]
         /\ Append(s, x)[Len(s) + 1] = x
OBVIOUS

LEMMA TailIs ==
  ASSUME NEW S, NEW s \in Seq(S), s # <<>>
  PROVE  /\ Tail(s) \in Seq(S) /\ Head(s) \in S
         /\ Len(s) \in Nat /\ DOMAIN s = 1..Len(s)
         /\ 1 \in DOMAIN s /\ Head(s) = s[1]
         /\ DOMAIN Tail(s) = 1..(Len(s) - 1)
         /\ \A i \in DOMAIN Tail(s) : i + 1 \in DOMAIN s /\ Tail(s)[i] = s[i + 1]
OBVIOUS

(* The three kinds of frames, told apart by their first component.         *)
LEMMA FrameShapes ==
  /\ \A i \in Ids, ok \in BOOLEAN : Response(i, ok) \in Frames /\ Response(i, ok)[1] = "response"
  /\ \A ok \in BOOLEAN : ReadyEvent(ok) \in Frames /\ ReadyEvent(ok)[1] = "ready"
  /\ \A c \in Calls : /\ ApprovalEvent(c) \in Frames /\ ApprovalEvent(c)[1] = "approval"
                      /\ ApprovalEvent(c)[2] = c
  /\ \A f \in Frames :
       /\ f[1] = "response" => f[2] \in Ids /\ f[3] \in BOOLEAN
       /\ f[1] = "ready" => f[2] \in BOOLEAN
       /\ f[1] = "approval" => f[2] \in Calls /\ f = ApprovalEvent(f[2])
<1>1. \A f \in Frames :
        \/ \E i \in Ids, ok \in BOOLEAN : f = Response(i, ok)
        \/ \E ok \in BOOLEAN : f = ReadyEvent(ok)
        \/ \E c \in Calls : f = ApprovalEvent(c)
  BY DEF Frames
<1>2. \A i, ok : /\ Response(i, ok)[1] = "response" /\ Response(i, ok)[2] = i
                 /\ Response(i, ok)[3] = ok
  BY DEF Response
<1>3. \A ok : ReadyEvent(ok)[1] = "ready" /\ ReadyEvent(ok)[2] = ok
  BY DEF ReadyEvent
<1>4. \A c : ApprovalEvent(c)[1] = "approval" /\ ApprovalEvent(c)[2] = c
  BY DEF ApprovalEvent
<1>5. /\ \A i \in Ids, ok \in BOOLEAN : Response(i, ok) \in Frames
      /\ \A ok \in BOOLEAN : ReadyEvent(ok) \in Frames
      /\ \A c \in Calls : ApprovalEvent(c) \in Frames
  BY DEF Frames
<1>6. ASSUME NEW f \in Frames
      PROVE  /\ f[1] = "response" => f[2] \in Ids /\ f[3] \in BOOLEAN
             /\ f[1] = "ready" => f[2] \in BOOLEAN
             /\ f[1] = "approval" => f[2] \in Calls /\ f = ApprovalEvent(f[2])
  <2>1. CASE \E i \in Ids, ok \in BOOLEAN : f = Response(i, ok)
    BY <1>2, <2>1
  <2>2. CASE \E ok \in BOOLEAN : f = ReadyEvent(ok)
    BY <1>3, <2>2
  <2>3. CASE \E c \in Calls : f = ApprovalEvent(c)
    BY <1>4, <2>3
  <2>. QED
    BY <1>1, <2>1, <2>2, <2>3
<1>. QED
  BY <1>2, <1>3, <1>4, <1>5, <1>6

LEMMA CallShapes ==
  /\ \A c \in Calls : c = <<c[1], c[2]>> /\ c[1] \in Ids /\ c[2] \in 1..MaxCalls /\ c # NoCall
  /\ \A i \in Ids, n \in 1..MaxCalls : /\ <<i, n>> \in Calls
                                       /\ <<i, n>>[1] = i /\ <<i, n>>[2] = n
<1>1. \A c \in Calls : c = <<c[1], c[2]>> /\ c[1] \in Ids /\ c[2] \in 1..MaxCalls
  BY DEF Calls
<1>2. ASSUME NEW c \in Calls PROVE c # NoCall
  <2>1. Len(<<c[1], c[2]>>) = 2 /\ Len(<<>>) = 0
    OBVIOUS
  <2>. QED
    BY <1>1, <2>1 DEF NoCall
<1>3. \A i \in Ids, n \in 1..MaxCalls : /\ <<i, n>> \in Calls
                                        /\ <<i, n>>[1] = i /\ <<i, n>>[2] = n
  BY DEF Calls
<1>. QED
  BY <1>1, <1>2, <1>3

-----------------------------------------------------------------------------
(* The request that is about to be sent has an id in Ids.                  *)

LEMMA Bounds ==
  /\ IsFiniteSet(Ids) /\ IsFiniteSet(Prompts) /\ Cardinality(Prompts) = MaxPrompts
  /\ IsFiniteSet(Prompts \X (1..MaxCalls))
  /\ Cardinality(Prompts \X (1..MaxCalls)) = MaxPrompts * MaxCalls
  /\ MaxPrompts * MaxCalls \in Nat
  /\ \A n \in Nat \ {0} : n <= 1 + MaxPrompts + MaxPrompts * MaxCalls + MaxPrompts + MaxKeys
                            => n \in Ids
<1>. DEFINE n == MaxPrompts * MaxCalls
            top == 1 + MaxPrompts * (2 + MaxCalls) + MaxKeys
<1>1. MaxPrompts \in Nat /\ MaxPrompts > 0 /\ MaxCalls \in Nat /\ MaxKeys \in Nat /\ n \in Nat
  BY FrontendAssumption
<1>2. MaxPrompts * (2 + MaxCalls) = MaxPrompts + n + MaxPrompts
  BY <1>1
<1>3. IsFiniteSet(Prompts) /\ Cardinality(Prompts) = MaxPrompts
  BY <1>1, FS_Interval DEF Prompts
<1>4. IsFiniteSet(1..MaxCalls) /\ Cardinality(1..MaxCalls) = MaxCalls
  BY <1>1, FS_Interval
<1>5. /\ IsFiniteSet(Prompts \X (1..MaxCalls))
      /\ Cardinality(Prompts \X (1..MaxCalls)) = n
  BY <1>3, <1>4, FS_Product
<1>. HIDE DEF n
<1>6. top = 1 + MaxPrompts + n + MaxPrompts + MaxKeys
  BY <1>1, <1>2
<1>7. Ids = 1..top
  BY DEF Ids
<1>8. IsFiniteSet(Ids)
  BY <1>1, <1>6, <1>7, FS_Interval
<1>9. \A m \in Nat \ {0} : m <= 1 + MaxPrompts + n + MaxPrompts + MaxKeys => m \in Ids
  BY <1>1, <1>6, <1>7
<1>. QED
  BY <1>1, <1>3, <1>5, <1>8, <1>9 DEF n

(* No more requests for lines than lines, nor for decisions than calls.    *)
LEMMA FewerThan ==
  ASSUME NEW S \in SUBSET Ids, NEW T, IsFiniteSet(T), NEW f,
         \A i \in S : f[i] \in T, \A i, j \in S : f[i] = f[j] => i = j
  PROVE  /\ IsFiniteSet(S) /\ Cardinality(S) \in Nat /\ Cardinality(T) \in Nat
         /\ Cardinality(S) <= Cardinality(T)
<1>. DEFINE g == [i \in S |-> f[i]]
<1>1. g \in Injection(S, T)
  BY DEF Injection, IsInjective
<1>2. IsFiniteSet(S) /\ Cardinality(S) <= Cardinality(T)
  BY <1>1, FS_Injection
<1>. QED
  BY <1>2, FS_CardinalityType

LEMMA LinesBound ==
  ASSUME TypeOK, LinesOnce
  PROVE  /\ IsFiniteSet(PromptRequests) /\ Cardinality(PromptRequests) \in Nat
         /\ Cardinality(PromptRequests) <= MaxPrompts
         /\ \A p \in Prompts : (\A i \in PromptRequests : arg[i] # p)
                                 => Cardinality(PromptRequests) <= MaxPrompts - 1
<1>1. /\ PromptRequests \in SUBSET Ids
      /\ \A i \in PromptRequests : arg[i] \in Prompts
      /\ \A i, j \in PromptRequests : arg[i] = arg[j] => i = j
  BY DEF PromptRequests, TypeOK, LinesOnce
<1>2. /\ IsFiniteSet(PromptRequests) /\ Cardinality(PromptRequests) \in Nat
      /\ Cardinality(PromptRequests) <= MaxPrompts
  BY <1>1, FewerThan, Bounds
<1>3. ASSUME NEW p \in Prompts, \A i \in PromptRequests : arg[i] # p
      PROVE  Cardinality(PromptRequests) <= MaxPrompts - 1
  <2>1. IsFiniteSet(Prompts \ {p}) /\ Cardinality(Prompts \ {p}) = MaxPrompts - 1
    BY Bounds, FS_RemoveElement
  <2>2. \A i \in PromptRequests : arg[i] \in Prompts \ {p}
    BY <1>1, <1>3
  <2>3. Cardinality(PromptRequests) <= Cardinality(Prompts \ {p})
    BY <1>1, <2>1, <2>2, FewerThan
  <2>. QED
    BY <2>1, <2>3
<1>. QED
  BY <1>2, <1>3

LEMMA DecisionsBound ==
  ASSUME TypeOK, LinesOnce, CallsOnce
  PROVE  /\ IsFiniteSet(Approves) /\ Cardinality(Approves) \in Nat
         /\ Cardinality(Approves) <= MaxPrompts * MaxCalls
         /\ approval # NoCall => Cardinality(Approves) <= MaxPrompts * MaxCalls - 1
<1>. DEFINE T == Prompts \X (1..MaxCalls)
            place(c) == <<arg[c[1]], c[2]>>
            f == [i \in Ids |-> place(arg[i])]
<1>1. /\ Approves \in SUBSET Ids
      /\ \A i \in Approves : arg[i] \in Calls /\ Begun(arg[i])
      /\ \A i, j \in Approves : arg[i] = arg[j] => i = j
  BY DEF Approves, Sent, TypeOK, CallsOnce
<1>2. \A c \in Calls : Begun(c) => c[1] \in PromptRequests /\ c[2] \in 1..MaxCalls
  BY CallShapes DEF Begun, Sent, PromptRequests, PromptMethods
<1>3. \A c \in Calls : Begun(c) => place(c) \in T
  BY <1>2 DEF PromptRequests, TypeOK
<1>4. ASSUME NEW c \in Calls, NEW d \in Calls, Begun(c), Begun(d), place(c) = place(d)
      PROVE  c = d
  <2>1. arg[c[1]] = arg[d[1]] /\ c[2] = d[2]
    BY <1>4
  <2>2. c[1] = d[1]
    BY <1>2, <1>4, <2>1 DEF LinesOnce
  <2>. QED
    BY <2>1, <2>2, CallShapes
<1>. HIDE DEF place
<1>5. \A i \in Approves : f[i] = place(arg[i])
  BY <1>1
<1>. HIDE DEF f
<1>6. \A i, j \in Approves : f[i] = f[j] => i = j
  BY <1>1, <1>4, <1>5
<1>7. IsFiniteSet(T) /\ Cardinality(T) = MaxPrompts * MaxCalls
  BY Bounds
<1>. HIDE DEF T
<1>8. /\ IsFiniteSet(Approves) /\ Cardinality(Approves) \in Nat
      /\ Cardinality(Approves) <= Cardinality(T)
  <2>1. \A i \in Approves : f[i] \in T
    BY <1>1, <1>3, <1>5
  <2>. QED
    BY <1>1, <1>6, <1>7, <2>1, FewerThan
<1>9. ASSUME approval # NoCall
      PROVE  Cardinality(Approves) <= MaxPrompts * MaxCalls - 1
  <2>1. /\ approval \in Calls /\ Begun(approval)
        /\ \A i \in Approves : arg[i] # approval
    BY <1>9 DEF TypeOK, CallsOnce
  <2>2. place(approval) \in T
    BY <1>3, <2>1
  <2>3. \A i \in Approves : f[i] \in T \ {place(approval)}
    BY <1>1, <1>3, <1>4, <1>5, <2>1
  <2>4. /\ IsFiniteSet(T \ {place(approval)})
        /\ Cardinality(T \ {place(approval)}) = Cardinality(T) - 1
    BY <1>7, <2>2, FS_RemoveElement
  <2>5. Cardinality(Approves) <= Cardinality(T \ {place(approval)})
    BY <1>1, <1>6, <2>3, <2>4, FewerThan
  <2>. QED
    BY <1>7, <2>4, <2>5
<1>. QED
  BY <1>7, <1>8, <1>9

LEMMA ExitsBound ==
  ASSUME TypeOK, LinesOnce
  PROVE  /\ IsFiniteSet(Exited) /\ Cardinality(Exited) \in Nat
         /\ Cardinality(Exited) <= MaxPrompts
         /\ \A i \in continuations : i \in Sent("commands.dispatch")
              => Cardinality(Exited) <= MaxPrompts - 1
<1>1. Exited \in SUBSET PromptRequests
  BY DEF Exited, Sent, PromptRequests, PromptMethods
<1>2. /\ IsFiniteSet(Exited) /\ Cardinality(Exited) \in Nat
      /\ Cardinality(Exited) <= Cardinality(PromptRequests)
  BY <1>1, LinesBound, FS_Subset, FS_CardinalityType
<1>3. ASSUME NEW i \in continuations, i \in Sent("commands.dispatch")
      PROVE  Cardinality(Exited) <= MaxPrompts - 1
  <2>1. i \in PromptRequests
    BY <1>3 DEF Sent, PromptRequests, PromptMethods
  <2>2. Exited \in SUBSET (PromptRequests \ {i})
    BY <1>1, <1>3 DEF Exited
  <2>3. /\ IsFiniteSet(PromptRequests \ {i})
        /\ Cardinality(PromptRequests \ {i}) = Cardinality(PromptRequests) - 1
    BY <2>1, LinesBound, FS_RemoveElement
  <2>4. Cardinality(Exited) <= Cardinality(PromptRequests \ {i})
    BY <2>2, <2>3, FS_Subset
  <2>. QED
    BY <1>2, <2>3, <2>4, LinesBound, FrontendAssumption
<1>. QED
  BY <1>2, <1>3, LinesBound, FrontendAssumption

(* There is room for one more request whenever there is a cause for it.    *)
LEMMA RoomForRequest ==
  ASSUME FrontendInv
  PROVE  /\ Causes \in Nat
         /\ \A p \in Prompts : (\A i \in PromptRequests : arg[i] # p) => nextId \in Ids
         /\ approval # NoCall => nextId \in Ids
         /\ \A i \in continuations : i \in Sent("commands.dispatch") => nextId \in Ids
         /\ keys < MaxKeys => nextId \in Ids
         /\ app = "starting" => nextId \in Ids
<1>. DEFINE a == Cardinality(PromptRequests)
            b == Cardinality(Approves)
            c == Cardinality(Exited)
            d == IF app = "starting" THEN 0 ELSE 1
            n == MaxPrompts * MaxCalls
<1>1. /\ a \in Nat /\ a <= MaxPrompts
      /\ \A p \in Prompts : (\A i \in PromptRequests : arg[i] # p) => a <= MaxPrompts - 1
  BY LinesBound DEF FrontendInv
<1>2. b \in Nat /\ b <= n /\ (approval # NoCall => b <= n - 1) /\ n \in Nat
  BY DecisionsBound, Bounds DEF FrontendInv
<1>3. /\ c \in Nat /\ c <= MaxPrompts
      /\ \A i \in continuations : i \in Sent("commands.dispatch") => c <= MaxPrompts - 1
  BY ExitsBound DEF FrontendInv
<1>4. /\ d \in {0, 1} /\ (app = "starting" => d = 0)
      /\ keys \in Nat /\ keys <= MaxKeys /\ MaxKeys \in Nat /\ MaxPrompts \in Nat
      /\ nextId \in Nat \ {0} /\ Causes = a + b + c + keys + d /\ nextId <= 1 + Causes
  BY FrontendAssumption DEF FrontendInv, TypeOK, RequestsCounted, Causes
<1>5. nextId <= 1 + MaxPrompts + n + MaxPrompts + MaxKeys => nextId \in Ids
  BY <1>4, Bounds
<1>. HIDE DEF a, b, c, d, n
<1>. QED
  BY <1>1, <1>2, <1>3, <1>4, <1>5

-----------------------------------------------------------------------------
(* What the steps do to the requests.                                      *)

Settled == {"resolved", "rejected"}

(* Promises settle, continuations run; nothing is sent.                    *)
Settles ==
  /\ UNCHANGED <<nextId, method, arg>>
  /\ call' \in [Ids -> {"unused", "pending", "resolved", "rejected"}]
  /\ continuations' \in SUBSET Ids
  /\ \A i \in Ids : \/ call'[i] = call[i]
                    \/ call[i] = "pending" /\ call'[i] \in Settled /\ i \in continuations'
  /\ \A i \in continuations' : \/ i \in continuations
                               \/ call[i] = "pending" /\ call'[i] \in Settled

(* One request is sent: method m about a.                                  *)
Asks(m, a) ==
  /\ nextId \in Ids /\ nextId' = nextId + 1
  /\ continuations' \in SUBSET continuations
  /\ DOMAIN arg' = Ids
  /\ method' \in [Ids -> Methods \cup {"none"}]
  /\ call' \in [Ids -> {"unused", "pending", "resolved", "rejected"}]
  /\ method[nextId] = "none" /\ call[nextId] = "unused"
  /\ method'[nextId] = m /\ arg'[nextId] = a /\ call'[nextId] = "pending"
  /\ \A i \in Ids : i # nextId => /\ method'[i] = method[i] /\ arg'[i] = arg[i]
                                  /\ call'[i] = call[i]

(* ... about a line that no request was about.                             *)
AsksForLine(p) ==
  /\ \A i \in PromptRequests : arg[i] # p
  /\ \E m \in PromptMethods : Asks(m, p)

LEMMA SendAsks ==
  ASSUME FrontendInv, nextId \in Ids, NEW m \in Methods, NEW a,
         NEW cs \in SUBSET continuations, Send(m, a, cs)
  PROVE  Asks(m, a)
<1>1. /\ nextId' = nextId + 1 /\ continuations' = cs
      /\ method' = [method EXCEPT ![nextId] = m]
      /\ arg' = [arg EXCEPT ![nextId] = a]
      /\ call' = [call EXCEPT ![nextId] = "pending"]
  BY DEF Send
<1>2. /\ method \in [Ids -> Methods \cup {"none"}] /\ DOMAIN arg = Ids
      /\ call \in [Ids -> {"unused", "pending", "resolved", "rejected"}]
      /\ nextId \in Nat
  BY DEF FrontendInv, TypeOK, Ledger
<1>3. method[nextId] = "none" /\ call[nextId] = "unused"
  BY <1>2 DEF FrontendInv, Ledger
<1>. QED
  BY <1>1, <1>2, <1>3 DEF Asks

LEMMA QuietSettles ==
  ASSUME FrontendInv, UNCHANGED <<callVars>>, NEW cs \in SUBSET continuations,
         continuations' = cs
  PROVE  Settles
BY DEF FrontendInv, TypeOK, Settles, callVars

LEMMA FailSettles ==
  ASSUME FrontendInv, NEW cs \in SUBSET continuations, FailPending(cs),
         UNCHANGED <<nextId, method, arg>>
  PROVE  Settles
BY DEF FrontendInv, TypeOK, Settles, FailPending, Pending, Settled

LEMMA ResponseSettles ==
  ASSUME FrontendInv, NEW f \in Frames, ResponseArrives(f), UNCHANGED <<nextId, method, arg>>
  PROVE  Settles
<1>1. f[2] \in Ids /\ f[3] \in BOOLEAN
  BY FrameShapes DEF ResponseArrives
<1>. QED
  BY <1>1 DEF FrontendInv, TypeOK, Settles, ResponseArrives, Pending, Settled

(* The next line the user types is a new one.                              *)
LEMMA NextLine ==
  ASSUME FrontendInv, Submitted < MaxPrompts
  PROVE  /\ Submitted \in Nat
         /\ Submitted + 1 \in Prompts /\ Submitted + 1 \notin Typed
         /\ \A p \in Typed : p \in 1..Submitted
         /\ \A i \in PromptRequests : arg[i] # Submitted + 1
<1>1. Submitted = Cardinality(Typed) /\ IsFiniteSet(Typed)
  BY Bounds, FS_Subset DEF Submitted, Typed
<1>2. Submitted \in Nat
  BY <1>1, FS_CardinalityType
<1>3. Typed = 1..Submitted
  BY DEF FrontendInv, LinesInOrder
<1>4. Submitted + 1 \in Prompts /\ Submitted + 1 \notin Typed
  BY <1>2, <1>3, FrontendAssumption DEF Prompts
<1>. QED
  BY <1>2, <1>3, <1>4 DEF FrontendInv, LinesOnce

(* The line of the first timer was not sent before.                        *)
LEMMA TimerLine ==
  ASSUME FrontendInv, timers # <<>>
  PROVE  /\ Head(timers) \in Prompts /\ Head(timers) \in held
         /\ kindOf[Head(timers)] \in Kinds
         /\ \A i \in PromptRequests : arg[i] # Head(timers)
<1>1. 1 \in DOMAIN timers /\ Head(timers) = timers[1] /\ Head(timers) \in Prompts
  BY TailIs DEF FrontendInv, TypeOK
<1>2. Head(timers) \in held /\ held \subseteq Typed
  BY <1>1 DEF FrontendInv, LinesInOrder, Waiting, LinesOf
<1>3. kindOf[Head(timers)] \in Kinds
  BY <1>1, <1>2 DEF FrontendInv, TypeOK, Typed
<1>4. \A i \in HeldRequests : arg[i] < Head(timers)
  BY <1>1 DEF FrontendInv, LinesInOrder, Waiting, LinesOf
<1>5. ASSUME NEW i \in PromptRequests, arg[i] = Head(timers) PROVE FALSE
  <2>1. i \in HeldRequests
    BY <1>2, <1>5 DEF HeldRequests
  <2>. QED
    BY <1>1, <1>4, <1>5, <2>1 DEF Prompts
<1>. QED
  BY <1>1, <1>2, <1>3, <1>5

LEMMA MethodsOfKinds ==
  /\ \A k \in Sendable : MethodOf(k) \in PromptMethods
  /\ MethodOf("chat") = "chat.send"
  /\ PromptMethods \subseteq Methods
BY DEF MethodOf, PromptMethods, Methods, Sendable

LEMMA SubmitCoreRequests ==
  ASSUME FrontendInv, NEW p \in Prompts, \A i \in PromptRequests : arg[i] # p,
         NEW k, NEW ts, SubmitCore(p, k, ts)
  PROVE  \/ Settles /\ UNCHANGED <<toServer, active, callVars, continuations>>
         \/ /\ k \in Sendable
            /\ AsksForLine(p) /\ Asks(MethodOf(k), p)
<1>1. CASE k \in Sendable /\ Send(MethodOf(k), p, continuations)
  <2>1. nextId \in Ids
    BY RoomForRequest
  <2>2. MethodOf(k) \in PromptMethods /\ MethodOf(k) \in Methods
    BY <1>1, MethodsOfKinds
  <2>3. Asks(MethodOf(k), p)
    BY <1>1, <2>1, <2>2, SendAsks
  <2>. QED
    BY <1>1, <2>2, <2>3 DEF AsksForLine
<1>2. CASE SendsNothing /\ UNCHANGED <<active, transcript>>
  BY <1>2, QuietSettles DEF SendsNothing, clientVars
<1>. QED
  BY <1>1, <1>2 DEF SubmitCore, Sendable

-----------------------------------------------------------------------------
(* What the steps do to the lines.                                         *)

NoLine == Settles \/ \E m \in Methods \ PromptMethods : \E a : Asks(m, a)

(* p is typed as a line of kind k.                                         *)
Types(p, k) ==
  /\ Submitted \in Nat /\ p = Submitted + 1 /\ p \in Prompts \ Typed
  /\ kindOf' = [kindOf EXCEPT ![p] = k]

WaitingStays == UNCHANGED <<held, Waiting>>

(* p, the first of the waiting lines, waits no more.                       *)
Leaves(p) ==
  /\ p \in Waiting /\ Waiting = Waiting' \cup {p}
  /\ \A q \in Waiting' : p < q
  /\ UNCHANGED <<kindOf, held>>

LineStep ==
  \/ NoLine /\ WaitingStays /\ UNCHANGED kindOf
  \/ \E p \in Prompts, k \in Kinds :
       /\ Types(p, k)
       /\ \/ NoLine /\ held' = held \cup {p} /\ Waiting' = Waiting \cup {p}
          \/ AsksForLine(p) /\ WaitingStays
          \/ NoLine /\ WaitingStays /\ k \notin Sendable
  \/ \E p \in Prompts : /\ Leaves(p)
                        /\ AsksForLine(p) \/ (NoLine /\ kindOf[p] \notin Sendable)

QueueTypes == timers' \in Seq(Prompts) /\ queue' \in Seq(Prompts)

LEMMA ScheduleKeeps ==
  ASSUME NEW ts \in Seq(Prompts), queue \in Seq(Prompts), QueueInOrder(ts, queue),
         ScheduleNext(ts)
  PROVE  /\ QueueTypes /\ QueueInOrder(timers', queue')
         /\ Waiting' = LinesOf(ts, queue) /\ held' = held
<1>1. CASE queue = <<>>
  BY <1>1 DEF ScheduleNext, QueueTypes, Waiting
<1>2. CASE queue # <<>>
  <2>. DEFINE n == Len(ts)
              m == Len(queue)
              x == queue[1]
  <2>1. timers' = Append(ts, x) /\ queue' = Tail(queue) /\ held' = held
    BY <1>2, TailIs DEF ScheduleNext
  <2>2. /\ x \in Prompts
        /\ n \in Nat /\ DOMAIN ts = 1..n /\ DOMAIN timers' = 1..(n + 1)
        /\ \A i \in 1..n : timers'[i] = ts[i]
        /\ timers'[n + 1] = x
        /\ timers' \in Seq(Prompts)
    BY <1>2, <2>1, TailIs, AppendIs
  <2>3. /\ m \in Nat /\ DOMAIN queue = 1..m /\ 1 \in 1..m /\ DOMAIN queue' = 1..(m - 1)
        /\ \A i \in 1..(m - 1) : i + 1 \in 1..m /\ queue'[i] = queue[i + 1]
        /\ queue' \in Seq(Prompts)
    BY <1>2, <2>1, TailIs
  <2>. HIDE DEF n, m
  <2>4. /\ \A i, j \in 1..n : i < j => ts[i] < ts[j]
        /\ \A i, j \in 1..m : i < j => queue[i] < queue[j]
        /\ \A i \in 1..n, j \in 1..m : ts[i] < queue[j]
    BY <2>2, <2>3 DEF QueueInOrder, Ordered
  <2>5. ASSUME NEW i \in 1..(n + 1), NEW j \in 1..(n + 1), i < j
        PROVE  timers'[i] < timers'[j]
    <3>1. i \in 1..n
      BY <2>2, <2>5
    <3>2. CASE j = n + 1
      BY <2>2, <2>3, <2>4, <3>1, <3>2
    <3>3. CASE j # n + 1
      <4>1. j \in 1..n
        BY <2>2, <3>3
      <4>. QED
        BY <2>2, <2>4, <2>5, <3>1, <4>1
    <3>. QED
      BY <3>2, <3>3
  <2>6. \A i, j \in 1..(m - 1) : i < j => queue'[i] < queue'[j]
    BY <2>3, <2>4
  <2>7. \A i \in 1..(n + 1), j \in 1..(m - 1) : timers'[i] < queue'[j]
    BY <2>2, <2>3, <2>4
  <2>8. QueueInOrder(timers', queue')
    BY <2>2, <2>3, <2>5, <2>6, <2>7 DEF QueueInOrder, Ordered
  <2>9. \A p : p \in {timers'[i] : i \in 1..(n + 1)} <=> p = x \/ p \in {ts[i] : i \in 1..n}
    BY <2>2
  <2>10. \A p : p \in {queue[i] : i \in 1..m} <=> p = x \/ p \in {queue'[i] : i \in 1..(m - 1)}
    <3>1. ASSUME NEW i \in 1..m PROVE queue[i] = x \/ queue[i] \in {queue'[j] : j \in 1..(m - 1)}
      <4>1. CASE i = 1
        BY <4>1
      <4>2. CASE i # 1
        <5>1. i - 1 \in 1..(m - 1) /\ (i - 1) + 1 = i
          BY <2>3, <4>2
        <5>2. queue'[i - 1] = queue[i]
          BY <2>3, <5>1
        <5>. QED
          BY <5>1, <5>2
      <4>. QED
        BY <4>1, <4>2
    <3>2. \A i \in 1..(m - 1) : queue'[i] \in {queue[j] : j \in 1..m}
      BY <2>3
    <3>3. x \in {queue[j] : j \in 1..m}
      BY <2>3
    <3>. QED
      BY <3>1, <3>2, <3>3
  <2>11. Waiting' = LinesOf(ts, queue)
    BY <2>2, <2>3, <2>9, <2>10 DEF Waiting, LinesOf
  <2>. QED
    BY <2>1, <2>2, <2>3, <2>8, <2>11 DEF QueueTypes
<1>. QED
  BY <1>1, <1>2

LEMMA TailKeeps ==
  ASSUME timers \in Seq(Prompts), timers # <<>>, QueueInOrder(timers, queue)
  PROVE  /\ Tail(timers) \in Seq(Prompts) /\ QueueInOrder(Tail(timers), queue)
         /\ Head(timers) \in Waiting
         /\ Waiting = LinesOf(Tail(timers), queue) \cup {Head(timers)}
         /\ \A q \in LinesOf(Tail(timers), queue) : Head(timers) < q
<1>. DEFINE n == Len(timers)
            r == Tail(timers)
            x == Head(timers)
<1>1. /\ r \in Seq(Prompts) /\ n \in Nat /\ DOMAIN timers = 1..n /\ 1 \in 1..n
      /\ x = timers[1] /\ DOMAIN r = 1..(n - 1)
      /\ \A i \in 1..(n - 1) : i + 1 \in 1..n /\ r[i] = timers[i + 1]
  BY TailIs
<1>. HIDE DEF n, r, x
<1>2. /\ \A i, j \in 1..n : i < j => timers[i] < timers[j]
      /\ \A i \in 1..n, j \in DOMAIN queue : timers[i] < queue[j]
      /\ Ordered(queue)
  BY <1>1 DEF QueueInOrder, Ordered
<1>3. QueueInOrder(r, queue)
  BY <1>1, <1>2 DEF QueueInOrder, Ordered
<1>4. \A q \in LinesOf(r, queue) : x < q
  BY <1>1, <1>2 DEF LinesOf
<1>5. \A p : p \in {timers[i] : i \in 1..n} <=> p = x \/ p \in {r[i] : i \in 1..(n - 1)}
  <2>1. ASSUME NEW i \in 1..n PROVE timers[i] = x \/ timers[i] \in {r[j] : j \in 1..(n - 1)}
    <3>1. CASE i = 1
      BY <1>1, <3>1
    <3>2. CASE i # 1
      <4>1. i - 1 \in 1..(n - 1) /\ (i - 1) + 1 = i
        BY <1>1, <3>2
      <4>2. r[i - 1] = timers[i]
        BY <1>1, <4>1
      <4>. QED
        BY <4>1, <4>2
    <3>. QED
      BY <3>1, <3>2
  <2>2. \A i \in 1..(n - 1) : r[i] \in {timers[j] : j \in 1..n}
    BY <1>1
  <2>3. x \in {timers[j] : j \in 1..n}
    BY <1>1
  <2>. QED
    BY <2>1, <2>2, <2>3
<1>6. Waiting = LinesOf(r, queue) \cup {x} /\ x \in Waiting
  BY <1>1, <1>5 DEF Waiting, LinesOf
<1>. QED
  BY <1>1, <1>3, <1>4, <1>6 DEF r, x

LEMMA EnqueueKeeps ==
  ASSUME timers \in Seq(Prompts), queue \in Seq(Prompts), QueueInOrder(timers, queue),
         NEW p \in Prompts, \A q \in Waiting : q < p, Enqueue(p)
  PROVE  /\ QueueTypes /\ QueueInOrder(timers', queue')
         /\ Waiting' = Waiting \cup {p} /\ held' = held \cup {p}
<1>. DEFINE m == Len(queue)
<1>1. queue' = Append(queue, p) /\ timers' = timers /\ held' = held \cup {p}
  BY DEF Enqueue
<1>2. /\ queue' \in Seq(Prompts) /\ m \in Nat /\ DOMAIN queue = 1..m
      /\ DOMAIN queue' = 1..(m + 1) /\ \A i \in 1..m : queue'[i] = queue[i]
      /\ queue'[m + 1] = p
  BY <1>1, AppendIs
<1>. HIDE DEF m
<1>3. /\ \A i \in DOMAIN timers : timers[i] < p
      /\ \A i \in 1..m : queue[i] < p
  BY <1>2 DEF Waiting, LinesOf
<1>4. QueueInOrder(timers', queue')
  BY <1>1, <1>2, <1>3 DEF QueueInOrder, Ordered
<1>5. Waiting' = Waiting \cup {p}
  <2>1. \A q : q \in {queue'[i] : i \in 1..(m + 1)} <=> q = p \/ q \in {queue[i] : i \in 1..m}
    BY <1>2
  <2>. QED
    BY <1>1, <1>2, <2>1 DEF Waiting, LinesOf
<1>. QED
  BY <1>1, <1>2, <1>4, <1>5 DEF QueueTypes

-----------------------------------------------------------------------------
(* The actions, as the requests and the lines see them.                    *)

ServerStep == Backend \/ TurnAsks \/ Dies

LEMMA ServerQuiet ==
  ASSUME ServerStep
  PROVE  ClientUnchanged
<1>1. CASE ReadLine
  BY <1>1 DEF ReadLine, Reads, ReadsChatSend, ReadsChatCancel, ReadsChatApprove,
     ReadsSessionNew, ReadsCommand, ReadsToolsRun, ReadsShutdown
<1>2. CASE Announce \/ TurnEnds \/ SlotReleased \/ BackendExits \/ TurnAsks \/ Dies
  BY <1>2 DEF Announce, TurnEnds, SlotReleased, BackendExits, TurnAsks, Dies
<1>3. CASE \E i \in running : ToolsRunEnds(i)
  BY <1>3 DEF ToolsRunEnds
<1>. QED
  BY <1>1, <1>2, <1>3 DEF ServerStep, Backend

(* The continuations that send nothing.                                    *)
QuietContinuation ==
  \E i \in continuations :
    ChatSettled(i) \/ CommandSettled(i) \/ ShutdownSettled(i) \/ StatusSettled(i) \/ OtherSettled(i)

LEMMA SettlingSteps ==
  ASSUME FrontendInv,
         \/ LineArrives \/ ExitArrives \/ SpawnFails \/ QuietContinuation \/ LoopEmpties
         \/ ServerStep \/ UNCHANGED vars
  PROVE  Settles
<1>1. CASE LineArrives
  <2>. DEFINE f == Head(toClient)
  <2>1. /\ toClient \in Seq(Frames) /\ toClient # <<>>
        /\ UNCHANGED <<nextId, method, arg>>
        /\ ResponseArrives(f) \/ ReadyArrives(f) \/ ApprovalArrives(f)
    BY <1>1 DEF LineArrives, FrontendInv, TypeOK
  <2>2. f \in Frames
    BY <2>1, TailIs
  <2>. HIDE DEF f
  <2>3. CASE ResponseArrives(f)
    BY <2>1, <2>2, <2>3, ResponseSettles
  <2>4. CASE ReadyArrives(f) \/ ApprovalArrives(f)
    BY <2>1, <2>4, QuietSettles DEF ReadyArrives, ApprovalArrives, callVars
  <2>. QED
    BY <2>1, <2>3, <2>4
<1>2. CASE ExitArrives \/ SpawnFails
  <2>1. FailPending({}) /\ UNCHANGED <<nextId, method, arg>> /\ {} \in SUBSET continuations
    BY <1>2 DEF ExitArrives, SpawnFails
  <2>. QED
    BY <2>1, FailSettles
<1>3. CASE QuietContinuation
  <2>. SUFFICES ASSUME NEW i \in continuations,
                       \/ ChatSettled(i) \/ CommandSettled(i) \/ ShutdownSettled(i)
                       \/ StatusSettled(i) \/ OtherSettled(i)
                PROVE  Settles
    BY <1>3 DEF QuietContinuation
  <2>1. continuations \ {i} \in SUBSET continuations
    OBVIOUS
  <2>2. CASE ShutdownSettled(i)
    BY <2>1, <2>2, FailSettles DEF ShutdownSettled
  <2>3. CASE ChatSettled(i) \/ CommandSettled(i) \/ StatusSettled(i) \/ OtherSettled(i)
    <3>1. Continues(i)
      BY <2>3 DEF ChatSettled, CommandSettled, StatusSettled, OtherSettled
    <3>. QED
      BY <2>1, <3>1, QuietSettles DEF Continues
  <2>. QED
    BY <2>2, <2>3
<1>4. CASE LoopEmpties \/ ServerStep \/ UNCHANGED vars
  <2>1. UNCHANGED clientVars
    BY <1>4, ServerQuiet DEF LoopEmpties, ClientUnchanged, vars
  <2>. QED
    BY <2>1, QuietSettles DEF clientVars
<1>. QED
  BY <1>1, <1>2, <1>3, <1>4

LEMMA AskingSteps ==
  ASSUME FrontendInv
  PROVE  /\ \A i \in continuations : ExitCommandSettled(i) => Asks("gateway.shutdown", 0)
         /\ ReadySettled => \/ Asks("runtime.status", 0) /\ app' = "status"
                            \/ Asks("gateway.shutdown", 0) /\ app' = "failed"
         /\ Interrupt => Asks("chat.cancel", active)
         /\ Quit \/ CtrlC => Asks("gateway.shutdown", 0)
         /\ Clear => Asks("session.new", 0)
         /\ Decide => Asks("chat.approve", approval)
<1>1. {"gateway.shutdown", "runtime.status", "chat.cancel", "session.new", "chat.approve"}
        \subseteq Methods
  BY DEF Methods
<1>2. ASSUME NEW i \in continuations, ExitCommandSettled(i)
      PROVE  Asks("gateway.shutdown", 0)
  <2>1. i \in Sent("commands.dispatch")
    BY <1>2 DEF ExitCommandSettled, Resumes, FrontendInv, TypeOK, Sent
  <2>2. nextId \in Ids
    BY <2>1, RoomForRequest
  <2>. QED
    BY <1>1, <1>2, <2>2, SendAsks DEF ExitCommandSettled
<1>3. ASSUME ReadySettled
      PROVE  \/ Asks("runtime.status", 0) /\ app' = "status"
             \/ Asks("gateway.shutdown", 0) /\ app' = "failed"
  <2>1. nextId \in Ids
    BY <1>3, RoomForRequest DEF ReadySettled, ReadyWaits
  <2>. QED
    BY <1>1, <1>3, <2>1, SendAsks DEF ReadySettled
<1>4. ControlKey => nextId \in Ids
  BY RoomForRequest DEF ControlKey
<1>5. /\ Interrupt => Asks("chat.cancel", active)
      /\ Quit \/ CtrlC => Asks("gateway.shutdown", 0)
      /\ Clear => Asks("session.new", 0)
  BY <1>1, <1>4, SendAsks DEF Interrupt, Quit, CtrlC, Clear
<1>6. Decide => Asks("chat.approve", approval)
  BY <1>1, RoomForRequest, SendAsks DEF Decide
<1>. QED
  BY <1>2, <1>3, <1>5, <1>6

LEMMA LinesOfSteps ==
  ASSUME FrontendInv, [Next]_vars
  PROVE  LineStep /\ QueueTypes /\ QueueInOrder(timers', queue')
<1>. DEFINE Result == LineStep /\ QueueTypes /\ QueueInOrder(timers', queue')
<1>1. /\ timers \in Seq(Prompts) /\ queue \in Seq(Prompts) /\ QueueInOrder(timers, queue)
      /\ Waiting \subseteq held /\ held \subseteq Typed /\ kindOf \in [Prompts -> Kinds \cup {"none"}]
  BY DEF FrontendInv, TypeOK, LinesInOrder
<1>2. ASSUME UNCHANGED <<kindOf, timers, queue, held>>, NoLine PROVE Result
  BY <1>1, <1>2 DEF LineStep, WaitingStays, Waiting, QueueTypes
<1>3. ASSUME NEW k \in Kinds, Submit(k) PROVE Result
  <2>. DEFINE p == Submitted + 1
  <2>1. /\ Submitted < MaxPrompts /\ kindOf' = [kindOf EXCEPT ![p] = k]
        /\ IF active # 0 THEN Enqueue(p) ELSE SubmitCore(p, k, timers)
    BY <1>3 DEF Submit
  <2>2. /\ Types(p, k) /\ p \in Prompts /\ \A q \in Typed : q \in 1..Submitted
        /\ Submitted \in Nat
        /\ \A i \in PromptRequests : arg[i] # p
    BY <2>1, NextLine DEF Types
  <2>3. \A q \in Waiting : q < p
    BY <1>1, <2>2
  <2>. HIDE DEF p
  <2>4. CASE active # 0
    <3>1. Enqueue(p) /\ Settles
      BY <2>1, <2>4, QuietSettles DEF Enqueue, SendsNothing, clientVars
    <3>. QED
      BY <1>1, <2>2, <2>3, <3>1, EnqueueKeeps DEF LineStep, NoLine
  <2>5. CASE active = 0
    <3>1. SubmitCore(p, k, timers)
      BY <2>1, <2>5
    <3>2. CASE /\ k \in Sendable /\ Send(MethodOf(k), p, continuations)
               /\ UNCHANGED <<timers, queue, held>>
      <4>1. AsksForLine(p)
        <5>1. nextId \in Ids
          BY <2>2, RoomForRequest
        <5>. QED
          BY <2>2, <3>2, <5>1, MethodsOfKinds, SendAsks DEF AsksForLine
      <4>. QED
        BY <1>1, <2>2, <3>2, <4>1 DEF LineStep, WaitingStays, Waiting, QueueTypes
    <3>3. CASE k = "bang" /\ SendsNothing /\ UNCHANGED <<timers, queue, held>>
      <4>1. Settles
        BY <3>3, QuietSettles DEF SendsNothing, clientVars
      <4>. QED
        BY <1>1, <2>2, <3>3, <4>1 DEF LineStep, NoLine, WaitingStays, Waiting, QueueTypes, Sendable
    <3>4. CASE k = "local" /\ SendsNothing /\ ScheduleNext(timers)
      <4>1. Settles
        BY <3>4, QuietSettles DEF SendsNothing, clientVars
      <4>2. /\ QueueTypes /\ QueueInOrder(timers', queue')
            /\ Waiting' = Waiting /\ held' = held
        BY <1>1, <3>4, ScheduleKeeps DEF Waiting
      <4>. QED
        BY <2>2, <3>4, <4>1, <4>2 DEF LineStep, NoLine, WaitingStays, Sendable
    <3>. QED
      BY <3>1, <3>2, <3>3, <3>4 DEF SubmitCore, Sendable
  <2>. QED
    BY <2>4, <2>5
<1>4. ASSUME TimerFires PROVE Result
  <2>. DEFINE p == Head(timers)
              k == kindOf[p]
              ts == Tail(timers)
  <2>1. timers # <<>> /\ SubmitCore(p, k, ts) /\ UNCHANGED kindOf
    BY <1>4 DEF TimerFires
  <2>2. p \in Prompts /\ \A i \in PromptRequests : arg[i] # p
    BY <2>1, TimerLine
  <2>3. /\ ts \in Seq(Prompts) /\ QueueInOrder(ts, queue) /\ p \in Waiting
        /\ Waiting = LinesOf(ts, queue) \cup {p}
        /\ \A q \in LinesOf(ts, queue) : p < q
    BY <1>1, <2>1, TailKeeps
  <2>. HIDE DEF p, ts
  <2>4. Waiting' = LinesOf(ts, queue) /\ held' = held => Leaves(p)
    BY <2>1, <2>3 DEF Leaves
  <2>5. CASE /\ k \in Sendable /\ Send(MethodOf(k), p, continuations)
             /\ timers' = ts /\ UNCHANGED <<queue, held>>
    <3>1. AsksForLine(p)
      <4>1. nextId \in Ids
        BY <2>2, RoomForRequest
      <4>. QED
        BY <2>2, <2>5, <4>1, MethodsOfKinds, SendAsks DEF AsksForLine
    <3>. QED
      BY <1>1, <2>2, <2>3, <2>4, <2>5, <3>1 DEF LineStep, Waiting, QueueTypes
  <2>6. CASE k = "bang" /\ SendsNothing /\ timers' = ts /\ UNCHANGED <<queue, held>>
    <3>1. Settles
      BY <2>6, QuietSettles DEF SendsNothing, clientVars
    <3>. QED
      BY <1>1, <2>2, <2>3, <2>4, <2>6, <3>1 DEF LineStep, NoLine, Waiting, QueueTypes, Sendable
  <2>7. CASE k = "local" /\ SendsNothing /\ ScheduleNext(ts)
    <3>1. Settles
      BY <2>7, QuietSettles DEF SendsNothing, clientVars
    <3>2. /\ QueueTypes /\ QueueInOrder(timers', queue')
          /\ Waiting' = LinesOf(ts, queue) /\ held' = held
      BY <1>1, <2>3, <2>7, ScheduleKeeps
    <3>. QED
      BY <2>2, <2>4, <2>7, <3>1, <3>2 DEF LineStep, NoLine, Sendable
  <2>. QED
    BY <2>1, <2>5, <2>6, <2>7 DEF SubmitCore, Sendable
<1>5. ASSUME NEW i \in continuations, ChatSettled(i) \/ CommandSettled(i) PROVE Result
  <2>1. Settles
    BY <1>5, SettlingSteps DEF QuietContinuation
  <2>2. ScheduleNext(timers) /\ UNCHANGED kindOf
    BY <1>5 DEF ChatSettled, CommandSettled
  <2>3. /\ QueueTypes /\ QueueInOrder(timers', queue')
        /\ Waiting' = Waiting /\ held' = held
    BY <1>1, <2>2, ScheduleKeeps DEF Waiting
  <2>. QED
    BY <2>1, <2>2, <2>3 DEF LineStep, NoLine, WaitingStays
<1>6. ASSUME NEW i \in continuations, ShutdownSettled(i) \/ StatusSettled(i) \/ OtherSettled(i)
      PROVE  Result
  <2>1. Settles
    BY <1>6, SettlingSteps DEF QuietContinuation
  <2>. QED
    BY <1>2, <1>6, <2>1 DEF NoLine, ShutdownSettled, StatusSettled, OtherSettled, promptVars, queueVars
<1>7. ASSUME \/ LineArrives \/ ExitArrives \/ SpawnFails \/ LoopEmpties
             \/ ServerStep \/ UNCHANGED vars
      PROVE  Result
  <2>1. Settles
    BY <1>7, SettlingSteps
  <2>2. UNCHANGED promptVars
    BY <1>7, ServerQuiet DEF LineArrives, ExitArrives, SpawnFails, LoopEmpties, ClientUnchanged, vars
  <2>. QED
    BY <1>2, <2>1, <2>2 DEF NoLine, promptVars, queueVars
<1>8. ASSUME \/ Interrupt \/ Quit \/ CtrlC \/ Clear \/ Decide \/ ReadySettled
             \/ \E i \in continuations : ExitCommandSettled(i)
      PROVE  Result
  <2>1. \E m \in {"gateway.shutdown", "runtime.status", "chat.cancel", "session.new",
                  "chat.approve"} : \E a : Asks(m, a)
    BY <1>8, AskingSteps
  <2>2. NoLine
    BY <2>1 DEF NoLine, Methods, PromptMethods
  <2>3. UNCHANGED promptVars
    BY <1>8 DEF Interrupt, Quit, CtrlC, Clear, Decide, ReadySettled, ExitCommandSettled, ControlKey
  <2>. QED
    BY <1>2, <2>2, <2>3 DEF promptVars, queueVars
<1>. HIDE DEF Result
<1>9. Result
  BY <1>3, <1>4, <1>5, <1>6, <1>7, <1>8
     DEF Next, Client, Continuation, User, ServerStep
<1>. QED
  BY <1>9 DEF Result

-----------------------------------------------------------------------------
(* Lines and requests: every step keeps their order and their number.      *)

LEMMA RequestsOfSteps ==
  ASSUME FrontendInv, [Next]_vars
  PROVE  Settles \/ \E m \in Methods : \E a : Asks(m, a)
BY LinesOfSteps, MethodsOfKinds DEF LineStep, NoLine, AsksForLine

LEMMA LedgerKept ==
  ASSUME FrontendInv, [Next]_vars
  PROVE  Ledger'
<1>1. CASE Settles
  BY <1>1 DEF Settles, Settled, FrontendInv, TypeOK, Ledger
<1>2. ASSUME NEW m \in Methods, NEW a, Asks(m, a) PROVE Ledger'
  <2>1. m # "none" /\ nextId \in Nat
    BY DEF Methods, PromptMethods, FrontendInv, TypeOK
  <2>2. \A i \in Ids : i \in Nat
    BY DEF Ids
  <2>3. \A i \in continuations : call[i] \in {"resolved", "rejected"} /\ i # nextId /\ i \in Ids
    BY <1>2 DEF FrontendInv, TypeOK, Ledger, Asks
  <2>4. \A i \in continuations' : call'[i] \in {"resolved", "rejected"}
    BY <1>2, <2>3 DEF Asks
  <2>5. ASSUME NEW i \in Ids
        PROVE  /\ i < nextId' <=> method'[i] # "none"
               /\ i < nextId' <=> call'[i] # "unused"
    <3>1. CASE i = nextId
      BY <1>2, <2>1, <3>1 DEF Asks
    <3>2. CASE i # nextId
      BY <1>2, <2>1, <2>2, <3>2 DEF Asks, FrontendInv, Ledger
    <3>. QED
      BY <3>1, <3>2
  <2>. QED
    BY <1>2, <2>4, <2>5 DEF Ledger, Asks
<1>. QED
  BY <1>1, <1>2, RequestsOfSteps

LEMMA NoLineRequests ==
  ASSUME FrontendInv, NoLine
  PROVE  PromptRequests' = PromptRequests /\ \A i \in PromptRequests : arg'[i] = arg[i]
<1>1. CASE Settles
  BY <1>1 DEF Settles, PromptRequests
<1>2. ASSUME NEW m \in Methods \ PromptMethods, NEW a, Asks(m, a)
      PROVE  PromptRequests' = PromptRequests /\ \A i \in PromptRequests : arg'[i] = arg[i]
  <2>1. "none" \notin PromptMethods
    BY DEF PromptMethods
  <2>. QED
    BY <1>2, <2>1 DEF Asks, PromptRequests
<1>. QED
  BY <1>1, <1>2 DEF NoLine

LEMMA LineRequests ==
  ASSUME FrontendInv, NEW p, AsksForLine(p)
  PROVE  /\ PromptRequests' = PromptRequests \cup {nextId}
         /\ arg'[nextId] = p /\ nextId \in Ids /\ nextId \notin PromptRequests
         /\ \A i \in PromptRequests : arg'[i] = arg[i] /\ i < nextId
         /\ \A i \in PromptRequests : arg[i] # p
<1>1. PICK m \in PromptMethods : Asks(m, p)
  BY DEF AsksForLine
<1>2. "none" \notin PromptMethods
  BY DEF PromptMethods
<1>3. \A i \in PromptRequests : i \in Ids /\ method[i] # "none" /\ i < nextId /\ i # nextId
  BY <1>1, <1>2 DEF PromptRequests, FrontendInv, Ledger, Asks
<1>. QED
  BY <1>1, <1>2, <1>3 DEF Asks, PromptRequests, AsksForLine

LEMMA TypedLine ==
  ASSUME FrontendInv, NEW p, NEW k \in Kinds, Types(p, k)
  PROVE  /\ Typed' = Typed \cup {p} /\ Typed' = 1..Submitted'
         /\ p \notin Typed /\ \A q \in Typed : q < p
         /\ kindOf'[p] = k /\ \A q \in Prompts : q # p => kindOf'[q] = kindOf[q]
<1>1. /\ kindOf' = [kindOf EXCEPT ![p] = k] /\ kindOf \in [Prompts -> Kinds \cup {"none"}]
      /\ p \in Prompts /\ p \notin Typed /\ Submitted \in Nat /\ p = Submitted + 1
      /\ Typed = 1..Submitted /\ k # "none"
  BY FrontendAssumption DEF Types, FrontendInv, TypeOK, LinesInOrder, AllKinds
<1>2. kindOf'[p] = k /\ \A q \in Prompts : q # p => kindOf'[q] = kindOf[q]
  BY <1>1
<1>3. Typed' = Typed \cup {p}
  BY <1>1, <1>2 DEF Typed
<1>4. Typed' = 1..(Submitted + 1)
  BY <1>1, <1>3
<1>5. Submitted' = Cardinality(Typed')
  BY DEF Submitted, Typed
<1>6. Cardinality(1..(Submitted + 1)) = Submitted + 1
  BY <1>1, FS_Interval
<1>7. Typed' = 1..Submitted'
  BY <1>4, <1>5, <1>6
<1>. QED
  BY <1>1, <1>2, <1>3, <1>7

LEMMA OrderKept ==
  ASSUME FrontendInv, [Next]_vars
  PROVE  LinesInOrder' /\ LinesOnce'
<1>. DEFINE R == PromptRequests
<1>1. LineStep /\ QueueInOrder(timers', queue')
  BY LinesOfSteps
<1>2. /\ Typed = 1..Submitted /\ Waiting \subseteq held /\ held \subseteq Typed
      /\ \A i \in R : /\ arg[i] \in Typed
                      /\ arg[i] \in held => \A p \in Waiting : arg[i] < p
      /\ \A i, j \in R : arg[i] = arg[j] => i = j
      /\ \A i, j \in R : arg[i] \in held /\ arg[j] \in held /\ i < j => arg[i] < arg[j]
      /\ \A p \in Prompts : kindOf[p] \in Sendable => p \in Waiting \/ \E i \in R : arg[i] = p
  BY DEF FrontendInv, LinesInOrder, LinesOnce, HeldRequests
<1>3. Typed \subseteq Prompts /\ Prompts \subseteq Nat /\ Ids \subseteq Nat /\ R \subseteq Ids
  BY DEF Typed, Prompts, Ids, PromptRequests
<1>. DEFINE Goal == /\ Typed' = 1..Submitted' /\ Waiting' \subseteq held' /\ held' \subseteq Typed'
                    /\ \A i \in R' : /\ arg'[i] \in Typed'
                                     /\ arg'[i] \in held' => \A p \in Waiting' : arg'[i] < p
                    /\ \A i, j \in R' : arg'[i] = arg'[j] => i = j
                    /\ \A i, j \in R' : arg'[i] \in held' /\ arg'[j] \in held' /\ i < j
                                          => arg'[i] < arg'[j]
                    /\ \A p \in Prompts : kindOf'[p] \in Sendable =>
                         p \in Waiting' \/ \E i \in R' : arg'[i] = p
<1>4. UNCHANGED kindOf => Typed' = Typed /\ Submitted' = Submitted
  BY DEF Typed, Submitted
<1>. HIDE DEF R
<1>5. NoLine => R' = R /\ \A i \in R : arg'[i] = arg[i]
  BY NoLineRequests DEF R
<1>6. ASSUME NEW p, AsksForLine(p)
      PROVE  /\ R' = R \cup {nextId}
             /\ arg'[nextId] = p /\ nextId \in Ids /\ nextId \notin R
             /\ \A i \in R : arg'[i] = arg[i] /\ i < nextId
             /\ \A i \in R : arg[i] # p
  BY <1>6, LineRequests DEF R
<1>7. ASSUME NoLine, WaitingStays, UNCHANGED kindOf PROVE Goal
  BY <1>2, <1>4, <1>5, <1>7 DEF WaitingStays
<1>8. ASSUME NEW p \in Prompts, NEW k \in Kinds, Types(p, k),
             NoLine, held' = held \cup {p}, Waiting' = Waiting \cup {p}
      PROVE  Goal
  <2>1. /\ Typed' = Typed \cup {p} /\ Typed' = 1..Submitted'
        /\ p \notin Typed /\ \A q \in Typed : q < p
        /\ kindOf'[p] = k /\ \A q \in Prompts : q # p => kindOf'[q] = kindOf[q]
    BY <1>8, TypedLine
  <2>2. R' = R /\ \A i \in R : arg'[i] = arg[i]
    BY <1>5, <1>8
  <2>3. \A i \in R : arg[i] # p /\ arg[i] < p
    BY <1>2, <2>1
  <2>4. \A i \in R' : /\ arg'[i] \in Typed'
                      /\ arg'[i] \in held' => \A q \in Waiting' : arg'[i] < q
    <3>. SUFFICES ASSUME NEW i \in R'
                  PROVE  /\ arg'[i] \in Typed'
                         /\ arg'[i] \in held' => \A q \in Waiting' : arg'[i] < q
      OBVIOUS
    <3>1. i \in R /\ arg'[i] = arg[i] /\ arg[i] \in Typed /\ arg[i] # p /\ arg[i] < p
      BY <1>2, <2>2, <2>3
    <3>2. arg[i] \in held => \A q \in Waiting : arg[i] < q
      BY <1>2, <3>1
    <3>. QED
      BY <1>8, <2>1, <3>1, <3>2
  <2>5. \A i, j \in R' : arg'[i] \in held' /\ arg'[j] \in held' /\ i < j => arg'[i] < arg'[j]
    BY <1>2, <1>8, <2>2, <2>3
  <2>6. \A i, j \in R' : arg'[i] = arg'[j] => i = j
    BY <1>2, <2>2
  <2>7. \A q \in Prompts : kindOf'[q] \in Sendable =>
          q \in Waiting' \/ \E i \in R' : arg'[i] = q
    BY <1>2, <1>8, <2>1, <2>2
  <2>. QED
    BY <1>2, <1>8, <2>1, <2>4, <2>5, <2>6, <2>7
<1>9. ASSUME NEW p \in Prompts, NEW k \in Kinds, Types(p, k), AsksForLine(p), WaitingStays
      PROVE  Goal
  <2>1. /\ Typed' = Typed \cup {p} /\ Typed' = 1..Submitted'
        /\ p \notin Typed /\ \A q \in Typed : q < p
        /\ kindOf'[p] = k /\ \A q \in Prompts : q # p => kindOf'[q] = kindOf[q]
    BY <1>9, TypedLine
  <2>2. /\ R' = R \cup {nextId}
        /\ arg'[nextId] = p /\ nextId \in Ids /\ nextId \notin R
        /\ \A i \in R : arg'[i] = arg[i] /\ i < nextId
        /\ \A i \in R : arg[i] # p
    BY <1>6, <1>9
  <2>3. held' = held /\ Waiting' = Waiting
    BY <1>9 DEF WaitingStays
  <2>. QED
    BY <1>2, <2>1, <2>2, <2>3
<1>10. ASSUME NEW p \in Prompts, NEW k \in Kinds, Types(p, k), NoLine, WaitingStays,
              k \notin Sendable
       PROVE  Goal
  <2>1. /\ Typed' = Typed \cup {p} /\ Typed' = 1..Submitted'
        /\ kindOf'[p] = k /\ \A q \in Prompts : q # p => kindOf'[q] = kindOf[q]
    BY <1>10, TypedLine
  <2>2. R' = R /\ \A i \in R : arg'[i] = arg[i]
    BY <1>5, <1>10
  <2>. QED
    BY <1>2, <1>10, <2>1, <2>2 DEF WaitingStays
<1>11. ASSUME NEW p \in Prompts, Leaves(p), AsksForLine(p)
       PROVE  Goal
  <2>1. /\ R' = R \cup {nextId}
        /\ arg'[nextId] = p /\ nextId \in Ids /\ nextId \notin R
        /\ \A i \in R : arg'[i] = arg[i] /\ i < nextId
        /\ \A i \in R : arg[i] # p
    BY <1>6, <1>11
  <2>2. /\ p \in Waiting /\ Waiting = Waiting' \cup {p} /\ \A q \in Waiting' : p < q
        /\ kindOf' = kindOf /\ held' = held /\ Typed' = Typed /\ Submitted' = Submitted
    BY <1>4, <1>11 DEF Leaves
  <2>3. \A i, j \in R' : arg'[i] \in held' /\ arg'[j] \in held' /\ i < j => arg'[i] < arg'[j]
    BY <1>2, <1>3, <2>1, <2>2
  <2>4. \A i \in R' : /\ arg'[i] \in Typed'
                      /\ arg'[i] \in held' => \A q \in Waiting' : arg'[i] < q
    BY <1>2, <2>1, <2>2
  <2>5. \A i, j \in R' : arg'[i] = arg'[j] => i = j
    BY <1>2, <2>1
  <2>6. \A q \in Prompts : kindOf'[q] \in Sendable =>
          q \in Waiting' \/ \E i \in R' : arg'[i] = q
    BY <1>2, <2>1, <2>2
  <2>. QED
    BY <1>2, <2>2, <2>3, <2>4, <2>5, <2>6
<1>12. ASSUME NEW p \in Prompts, Leaves(p), NoLine, kindOf[p] \notin Sendable
       PROVE  Goal
  <2>1. R' = R /\ \A i \in R : arg'[i] = arg[i]
    BY <1>5, <1>12
  <2>2. /\ Waiting = Waiting' \cup {p}
        /\ kindOf' = kindOf /\ held' = held /\ Typed' = Typed /\ Submitted' = Submitted
    BY <1>4, <1>12 DEF Leaves
  <2>. QED
    BY <1>2, <1>12, <2>1, <2>2
<1>13. Goal
  BY <1>1, <1>7, <1>8, <1>9, <1>10, <1>11, <1>12 DEF LineStep
<1>. QED
  BY <1>1, <1>13 DEF LinesInOrder, LinesOnce, HeldRequests, R

-----------------------------------------------------------------------------
(* Every request has its cause.                                            *)

(* The actions that send a request, and the others.                        *)
LEMMA StepsAndRequests ==
  ASSUME FrontendInv, [Next]_vars
  PROVE  \/ Settles
         \/ \E p \in Prompts : AsksForLine(p)
         \/ ReadySettled \/ Interrupt \/ Quit \/ CtrlC \/ Clear \/ Decide
         \/ \E i \in continuations : ExitCommandSettled(i)
<1>1. ASSUME NEW k \in Kinds, Submit(k)
      PROVE  Settles \/ \E p \in Prompts : AsksForLine(p)
  <2>. DEFINE p == Submitted + 1
  <2>1. /\ Submitted < MaxPrompts
        /\ IF active # 0 THEN Enqueue(p) ELSE SubmitCore(p, k, timers)
    BY <1>1 DEF Submit
  <2>2. p \in Prompts /\ \A i \in PromptRequests : arg[i] # p
    BY <2>1, NextLine
  <2>. HIDE DEF p
  <2>3. CASE Enqueue(p)
    BY <2>3, QuietSettles DEF Enqueue, SendsNothing, clientVars
  <2>4. CASE SubmitCore(p, k, timers)
    BY <2>2, <2>4, SubmitCoreRequests
  <2>. QED
    BY <2>1, <2>3, <2>4
<1>2. ASSUME TimerFires
      PROVE  Settles \/ \E p \in Prompts : AsksForLine(p)
  <2>. DEFINE p == Head(timers)
  <2>1. timers # <<>> /\ SubmitCore(p, kindOf[p], Tail(timers))
    BY <1>2 DEF TimerFires
  <2>2. p \in Prompts /\ \A i \in PromptRequests : arg[i] # p
    BY <2>1, TimerLine
  <2>. HIDE DEF p
  <2>. QED
    BY <2>1, <2>2, SubmitCoreRequests
<1>. QED
  BY <1>1, <1>2, SettlingSteps
     DEF Next, Client, Continuation, QuietContinuation, User, ServerStep

LEMMA KeysAndStages ==
  ASSUME FrontendInv, [Next]_vars
  PROVE  /\ keys' \in Nat /\ keys <= keys'
         /\ app' = "starting" => app = "starting"
<1>1. keys \in Nat
  BY DEF FrontendInv, TypeOK
<1>2. CASE Interrupt \/ Quit \/ CtrlC \/ Clear
  BY <1>1, <1>2 DEF Interrupt, Quit, CtrlC, Clear, ControlKey
<1>3. CASE ServerStep \/ UNCHANGED vars
  BY <1>1, <1>3, ServerQuiet DEF ClientUnchanged, vars
<1>4. CASE \/ LineArrives \/ ExitArrives \/ SpawnFails \/ LoopEmpties \/ Decide \/ ReadySettled
           \/ TimerFires \/ \E k \in Kinds : Submit(k)
  BY <1>1, <1>4 DEF LineArrives, ExitArrives, SpawnFails, LoopEmpties, Decide, ReadySettled,
     TimerFires, Submit, NothingElse
<1>5. CASE \E i \in continuations :
             \/ ChatSettled(i) \/ CommandSettled(i) \/ ExitCommandSettled(i)
             \/ ShutdownSettled(i) \/ StatusSettled(i) \/ OtherSettled(i)
  BY <1>1, <1>5 DEF ChatSettled, CommandSettled, ExitCommandSettled, ShutdownSettled,
     StatusSettled, OtherSettled, NothingElse
<1>. QED
  BY <1>2, <1>3, <1>4, <1>5 DEF Next, Client, Continuation, User, ServerStep

(* A cause stays one.                                                      *)
LEMMA CausesStay ==
  ASSUME FrontendInv, [Next]_vars
  PROVE  /\ PromptRequests \subseteq PromptRequests' /\ PromptRequests' \subseteq Ids
         /\ Approves \subseteq Approves' /\ Approves' \subseteq Ids
         /\ Exited \subseteq Exited' /\ Exited' \subseteq Ids
<1>1. \/ Settles \/ \E m \in Methods : \E a : Asks(m, a)
  BY RequestsOfSteps
<1>2. \A i \in Ids : method[i] # "none" => method'[i] = method[i] /\ arg'[i] = arg[i]
  BY <1>1 DEF Settles, Asks
<1>3. \A i \in Ids : call[i] = "resolved" /\ i \notin continuations
                       => call'[i] = "resolved" /\ i \notin continuations'
  BY <1>1 DEF Settles, Asks, Settled
<1>4. \A p \in Typed : kindOf'[p] = kindOf[p]
  <2>1. CASE UNCHANGED kindOf
    BY <2>1
  <2>2. CASE \E p \in Prompts, k \in Kinds : Types(p, k)
    BY <2>2, TypedLine DEF Typed
  <2>. QED
    BY <2>1, <2>2, LinesOfSteps DEF LineStep, Leaves
<1>5. PromptRequests \subseteq PromptRequests' /\ Approves \subseteq Approves'
  BY <1>2 DEF PromptRequests, PromptMethods, Approves, Sent
<1>6. ASSUME NEW i \in Exited PROVE i \in Exited'
  <2>1. /\ i \in Ids /\ method[i] = "commands.dispatch" /\ i \notin continuations
        /\ kindOf[arg[i]] = "exit" /\ call[i] = "resolved"
    BY DEF Exited, Sent, ExitAgreed
  <2>2. arg[i] \in Typed
    BY <2>1 DEF FrontendInv, LinesOnce, PromptRequests, PromptMethods
  <2>. QED
    BY <1>2, <1>3, <1>4, <2>1, <2>2 DEF Exited, Sent, ExitAgreed
<1>. QED
  BY <1>5, <1>6 DEF PromptRequests, Approves, Exited, Sent

LEMMA Grows ==
  ASSUME NEW S, NEW T, S \subseteq T, T \subseteq Ids
  PROVE  /\ Cardinality(S) \in Nat /\ Cardinality(T) \in Nat
         /\ Cardinality(S) <= Cardinality(T)
         /\ T # S => Cardinality(S) + 1 <= Cardinality(T)
<1>1. IsFiniteSet(T)
  BY Bounds, FS_Subset
<1>2. /\ Cardinality(S) <= Cardinality(T) /\ IsFiniteSet(S)
      /\ Cardinality(S) = Cardinality(T) => S = T
  BY <1>1, FS_Subset
<1>3. Cardinality(S) \in Nat /\ Cardinality(T) \in Nat
  BY <1>1, <1>2, FS_CardinalityType
<1>. QED
  BY <1>2, <1>3

LEMMA CountKept ==
  ASSUME FrontendInv, [Next]_vars
  PROVE  RequestsCounted'
<1>. DEFINE a == Cardinality(PromptRequests)
            b == Cardinality(Approves)
            c == Cardinality(Exited)
            d == IF app = "starting" THEN 0 ELSE 1
<1>1. /\ a \in Nat /\ a' \in Nat /\ a <= a' /\ (PromptRequests' # PromptRequests => a + 1 <= a')
      /\ b \in Nat /\ b' \in Nat /\ b <= b' /\ (Approves' # Approves => b + 1 <= b')
      /\ c \in Nat /\ c' \in Nat /\ c <= c' /\ (Exited' # Exited => c + 1 <= c')
  BY CausesStay, Grows
<1>2. /\ keys \in Nat /\ keys' \in Nat /\ keys <= keys'
      /\ d \in {0, 1} /\ d' \in {0, 1} /\ (d = 0 \/ d' = 1)
      /\ nextId \in Nat
  BY KeysAndStages DEF FrontendInv, TypeOK
<1>21. nextId <= 1 + (a + b + c + keys + d)
  BY DEF FrontendInv, RequestsCounted, Causes
<1>3. RequestsCounted' <=> nextId' <= 1 + (a' + b' + c' + keys' + d')
  BY DEF RequestsCounted, Causes
<1>4. CASE Settles
  <2>1. nextId' = nextId
    BY <1>4 DEF Settles
  <2>. QED
    BY <1>1, <1>2, <1>21, <1>3, <2>1
<1>5. ASSUME nextId' = nextId + 1,
             a + 1 <= a' \/ b + 1 <= b' \/ c + 1 <= c' \/ keys' = keys + 1 \/ (d = 0 /\ d' = 1)
      PROVE  RequestsCounted'
  <2>. QED
    BY <1>1, <1>2, <1>21, <1>3, <1>5
<1>6. ASSUME NEW p \in Prompts, AsksForLine(p) PROVE RequestsCounted'
  <2>1. nextId \in PromptRequests' /\ nextId \notin PromptRequests
    BY <1>6, LineRequests
  <2>2. nextId' = nextId + 1
    BY <1>6 DEF AsksForLine, Asks
  <2>. QED
    BY <1>1, <1>5, <2>1, <2>2
<1>7. ASSUME ReadySettled PROVE RequestsCounted'
  <2>1. app = "starting" /\ app' # "starting" /\ nextId' = nextId + 1
    BY <1>7, AskingSteps DEF ReadySettled, ReadyWaits, Asks
  <2>. QED
    BY <1>5, <2>1
<1>8. ASSUME Interrupt \/ Quit \/ CtrlC \/ Clear PROVE RequestsCounted'
  <2>1. keys' = keys + 1 /\ nextId' = nextId + 1
    BY <1>8, AskingSteps DEF Interrupt, Quit, CtrlC, Clear, ControlKey, Asks
  <2>. QED
    BY <1>5, <2>1
<1>9. ASSUME Decide PROVE RequestsCounted'
  <2>1. Asks("chat.approve", approval)
    BY <1>9, AskingSteps
  <2>2. nextId \in Approves' /\ nextId \notin Approves /\ nextId' = nextId + 1
    BY <2>1 DEF Asks, Approves, Sent
  <2>. QED
    BY <1>1, <1>5, <2>2
<1>10. ASSUME NEW i \in continuations, ExitCommandSettled(i) PROVE RequestsCounted'
  <2>1. Asks("gateway.shutdown", 0)
    BY <1>10, AskingSteps
  <2>2. /\ method[i] = "commands.dispatch" /\ kindOf[arg[i]] = "exit" /\ call[i] = "resolved"
        /\ continuations' = continuations \ {i} /\ UNCHANGED kindOf /\ i \in Ids
    BY <1>10 DEF ExitCommandSettled, Resumes, ExitAgreed, Send, promptVars, FrontendInv, TypeOK
  <2>3. i \in Exited' /\ i \notin Exited /\ nextId' = nextId + 1
    BY <2>1, <2>2 DEF Exited, Sent, ExitAgreed, Asks
  <2>. QED
    BY <1>1, <1>5, <2>3
<1>. QED
  BY <1>4, <1>6, <1>7, <1>8, <1>9, <1>10, StepsAndRequests

-----------------------------------------------------------------------------
(* The stages of entry.tsx, and the active turn.                           *)

Early == app \in {"starting", "status", "failed"}

LEMMA AppSteps ==
  ASSUME [Next]_vars
  PROVE  \/ app' = app
         \/ ReadySettled
         \/ \E i \in continuations : StatusSettled(i) \/ ShutdownSettled(i)
         \/ LoopEmpties
         \/ app = "running" /\ app' = "leaving"
<1>1. CASE Interrupt \/ Quit \/ CtrlC \/ Clear
  BY <1>1 DEF Interrupt, Quit, CtrlC, Clear, ControlKey
<1>2. CASE ServerStep \/ UNCHANGED vars
  BY <1>2, ServerQuiet DEF ClientUnchanged, vars
<1>3. CASE \/ LineArrives \/ ExitArrives \/ SpawnFails \/ Decide
           \/ TimerFires \/ \E k \in Kinds : Submit(k)
  BY <1>3 DEF LineArrives, ExitArrives, SpawnFails, Decide, TimerFires, Submit
<1>4. CASE \E i \in continuations :
             ChatSettled(i) \/ CommandSettled(i) \/ ExitCommandSettled(i) \/ OtherSettled(i)
  BY <1>4 DEF ChatSettled, CommandSettled, ExitCommandSettled, OtherSettled
<1>. QED
  BY <1>1, <1>2, <1>3, <1>4 DEF Next, Client, Continuation, User, ServerStep

(* Before App runs only main() goes on.                                    *)
LEMMA EarlySteps ==
  ASSUME FrontendInv, [Next]_vars, Early
  PROVE  /\ timers' = <<>> /\ queue' = <<>>
         /\ Settles \/ ReadySettled
         /\ \/ app' = app /\ Settles
            \/ ReadySettled
            \/ app' \in {"running", "done", "silent"}
<1>1. /\ timers = <<>> /\ queue = <<>> /\ app # "running"
      /\ \A i \in Ids : method[i] \in {"none", "runtime.status", "gateway.shutdown"}
  <2>1. app = "starting" => \A i \in Ids : method[i] = "none"
    BY DEF FrontendInv, Stages, Ledger, Ids
  <2>. QED
    BY <2>1 DEF FrontendInv, Stages, Early
<1>2. ASSUME NEW i \in continuations
      PROVE  ~ChatSettled(i) /\ ~CommandSettled(i) /\ ~ExitCommandSettled(i)
  BY <1>1 DEF ChatSettled, CommandSettled, ExitCommandSettled, Resumes, FrontendInv, TypeOK
<1>3. /\ ~Interrupt /\ ~Quit /\ ~CtrlC /\ ~Clear /\ ~Decide /\ ~TimerFires
      /\ \A k \in Kinds : ~Submit(k)
  BY <1>1 DEF Interrupt, Quit, CtrlC, Clear, ControlKey, Decide, TimerFires, Submit
<1>4. Settles \/ ReadySettled
  BY <1>2, <1>3, SettlingSteps
     DEF Next, Client, Continuation, QuietContinuation, User, ServerStep
<1>5. UNCHANGED promptVars
  <2>1. CASE LineArrives \/ ExitArrives \/ SpawnFails \/ LoopEmpties \/ ReadySettled
    BY <2>1 DEF LineArrives, ExitArrives, SpawnFails, LoopEmpties, ReadySettled
  <2>2. CASE ServerStep \/ UNCHANGED vars
    BY <2>2, ServerQuiet DEF ClientUnchanged, vars
  <2>3. CASE \E i \in continuations : ShutdownSettled(i) \/ StatusSettled(i) \/ OtherSettled(i)
    BY <2>3 DEF ShutdownSettled, StatusSettled, OtherSettled
  <2>. QED
    BY <1>2, <1>3, <2>1, <2>2, <2>3 DEF Next, Client, Continuation, User, ServerStep
<1>6. \/ app' = app
      \/ ReadySettled
      \/ app' \in {"running", "done", "silent"}
  BY <1>1, AppSteps DEF StatusSettled, ShutdownSettled, LoopEmpties
<1>. QED
  BY <1>1, <1>4, <1>5, <1>6 DEF promptVars, queueVars

LEMMA StagesKept ==
  ASSUME FrontendInv, [Next]_vars
  PROVE  Stages'
<1>1. /\ app' = "starting" => app = "starting"
      /\ app = "status" => nextId = 2 /\ \A i \in Ids : method[i] \in {"none", "runtime.status"}
      /\ app = "starting" => nextId = 1
      /\ app = "failed" => \A i \in Ids : method[i] \in {"none", "gateway.shutdown"}
  BY KeysAndStages DEF FrontendInv, Stages
<1>2. app = "starting" => \A i \in Ids : method[i] = "none"
  BY DEF FrontendInv, Stages, Ledger, Ids
<1>3. ASSUME ReadySettled
      PROVE  /\ app = "starting" /\ nextId' = 2
             /\ \E m \in {"runtime.status", "gateway.shutdown"} :
                  /\ app' = IF m = "runtime.status" THEN "status" ELSE "failed"
                  /\ \A i \in Ids : method'[i] = IF i = nextId THEN m ELSE "none"
  <2>1. app = "starting"
    BY <1>3 DEF ReadySettled, ReadyWaits
  <2>. QED
    BY <1>1, <1>2, <1>3, <2>1, AskingSteps DEF Asks
<1>4. /\ app' = "starting" => nextId' = 1
      /\ app' = "status" => nextId' = 2 /\ \A i \in Ids : method'[i] \in {"none", "runtime.status"}
      /\ app' = "failed" => \A i \in Ids : method'[i] \in {"none", "gateway.shutdown"}
      /\ app' \in {"starting", "status", "failed"} => timers' = <<>> /\ queue' = <<>>
  <2>1. CASE ReadySettled
    BY <1>3, <2>1, EarlySteps DEF Early
  <2>2. CASE Early /\ ~ReadySettled
    <3>1. Settles /\ timers' = <<>> /\ queue' = <<>>
          /\ (app' = app \/ app' \in {"running", "done", "silent"})
      BY <2>2, EarlySteps
    <3>. QED
      BY <1>1, <3>1 DEF Settles
  <2>3. CASE ~Early
    <3>1. app' \notin {"starting", "status", "failed"}
      BY <2>3, AppSteps DEF Early, ReadySettled, ReadyWaits, StatusSettled, ShutdownSettled,
         LoopEmpties
    <3>. QED
      BY <3>1
  <2>. QED
    BY <2>1, <2>2, <2>3
<1>5. ASSUME NEW i \in Ids, method'[i] = "runtime.status",
             i \in Pending' \/ i \in continuations'
      PROVE  app' = "status" \/ AppEnded'
  <2>1. CASE ReadySettled
    BY <1>3, <1>5, <2>1
  <2>2. CASE ~ReadySettled
    <3>1. /\ method[i] = "runtime.status"
          /\ call[i] = "pending" \/ i \in continuations
      <4>1. CASE Settles
        BY <1>5, <4>1 DEF Settles, Pending, Settled
      <4>2. ASSUME NEW m, NEW a, Asks(m, a), m # "runtime.status"
            PROVE  /\ method[i] = "runtime.status"
                   /\ call[i] = "pending" \/ i \in continuations
        BY <1>5, <4>2 DEF Asks, Pending
      <4>3. (\E p \in Prompts : AsksForLine(p))
              => \E m, a : Asks(m, a) /\ m # "runtime.status"
        BY DEF AsksForLine, PromptMethods
      <4>. QED
        BY <2>2, <4>1, <4>2, <4>3, AskingSteps, StepsAndRequests
    <3>2. app = "status" \/ AppEnded
      BY <3>1 DEF FrontendInv, Stages, Sent, Pending
    <3>3. CASE AppEnded
      <4>1. app' = app
        BY <2>2, <3>3, AppSteps DEF AppEnded, StatusSettled, ShutdownSettled, Resumes,
           LoopEmpties, Macrotask, Idle
      <4>. QED
        BY <3>3, <4>1 DEF AppEnded
    <3>4. CASE app = "status"
      <4>1. i = 1 /\ \A j \in continuations : method[j] = "runtime.status" => j = 1
        <5>1. \A j \in Ids : method[j] = "runtime.status" => j = 1
          BY <1>1, <3>4 DEF FrontendInv, Ledger, Ids
        <5>. QED
          BY <3>1, <5>1 DEF FrontendInv, TypeOK
      <4>2. ASSUME NEW j \in continuations, StatusSettled(j) PROVE FALSE
        <5>1. j = i /\ call' = call /\ continuations' = continuations \ {i}
          BY <4>1, <4>2 DEF StatusSettled, Resumes, Continues, callVars
        <5>2. call[i] # "pending"
          BY <4>2, <5>1 DEF FrontendInv, Ledger
        <5>. QED
          BY <1>5, <5>1, <5>2 DEF Pending
      <4>3. app' \in {"status", "done", "silent"}
        BY <2>2, <3>4, <4>2, AppSteps DEF ShutdownSettled, LoopEmpties
      <4>. QED
        BY <4>3 DEF AppEnded
    <3>. QED
      BY <3>2, <3>3, <3>4
  <2>. QED
    BY <2>1, <2>2
<1>. QED
  BY <1>4, <1>5 DEF Stages, Sent

(* A chat.send is on its way, or its caller waits, until the caller goes   *)
(* on; activeRequestRef follows the latest one.                            *)
LEMMA ActiveSteps ==
  ASSUME FrontendInv, [Next]_vars
  PROVE  /\ \A i \in Sent("chat.send") :
              i \in Pending \cup continuations =>
                i \in Pending' \cup continuations' \/ ChatSettled(i)
         /\ (\E i \in continuations : ChatSettled(i)) => active' = 0
         /\ active' \in {active, 0} \/ (active' = nextId /\ \E a : Asks("chat.send", a))
<1>1. ASSUME NEW p \in Prompts, NEW k, NEW ts, SubmitCore(p, k, ts),
             \A i \in PromptRequests : arg[i] # p
      PROVE  /\ active' = active \/ (active' = nextId /\ \E a : Asks("chat.send", a))
             /\ continuations' = continuations
             /\ \A i \in Ids : call[i] = "pending" => call'[i] = "pending"
  <2>1. \/ Settles /\ UNCHANGED <<toServer, active, callVars, continuations>>
        \/ k \in Sendable /\ Asks(MethodOf(k), p)
    BY <1>1, SubmitCoreRequests
  <2>2. CASE UNCHANGED <<active, callVars, continuations>>
    BY <2>2 DEF callVars
  <2>3. CASE k \in Sendable /\ Asks(MethodOf(k), p)
    <3>1. /\ active' = IF k = "chat" THEN nextId ELSE active
          /\ continuations' = continuations
      BY <1>1, <2>3 DEF SubmitCore, Sendable, Send
    <3>2. \A i \in Ids : call[i] = "pending" => call'[i] = "pending"
      BY <2>3 DEF Asks
    <3>. QED
      BY <2>3, <3>1, <3>2, MethodsOfKinds
  <2>. QED
    BY <2>1, <2>2, <2>3
<1>. DEFINE Stay == \A i \in Sent("chat.send") :
                      i \in Pending \cup continuations => i \in Pending' \cup continuations'
            Follow == active' = active \/ (active' = nextId /\ \E a : Asks("chat.send", a))
<1>2. ASSUME NEW k \in Kinds, Submit(k) PROVE Stay /\ Follow
  <2>1. CASE active # 0
    <3>1. Enqueue(Submitted + 1)
      BY <1>2, <2>1 DEF Submit
    <3>. QED
      BY <3>1 DEF Enqueue, SendsNothing, clientVars, callVars, Pending
  <2>2. CASE active = 0
    BY <1>1, <1>2, <2>2, NextLine DEF Submit, Pending
  <2>. QED
    BY <2>1, <2>2
<1>3. ASSUME TimerFires PROVE Stay /\ Follow
  BY <1>1, <1>3, TimerLine DEF TimerFires, Pending
<1>4. ASSUME Interrupt \/ Quit \/ CtrlC \/ Clear \/ Decide \/ ReadySettled PROVE Stay /\ Follow
  <2>1. /\ continuations' = continuations
        /\ UNCHANGED active
    BY <1>4 DEF Interrupt, Quit, CtrlC, Clear, Decide, ReadySettled, ControlKey, Send, promptVars
  <2>2. \E m, a : Asks(m, a)
    BY <1>4, AskingSteps
  <2>. QED
    BY <2>1, <2>2 DEF Asks, Pending
<1>5. ASSUME NEW i \in continuations, ExitCommandSettled(i) PROVE Stay /\ Follow
  <2>1. /\ continuations' = continuations \ {i} /\ method[i] = "commands.dispatch"
        /\ UNCHANGED active
    BY <1>5 DEF ExitCommandSettled, Resumes, Send, promptVars
  <2>2. Asks("gateway.shutdown", 0)
    BY <1>5, AskingSteps
  <2>. QED
    BY <2>1, <2>2 DEF Asks, Pending, Sent
<1>6. ASSUME NEW i \in continuations,
             CommandSettled(i) \/ StatusSettled(i) \/ OtherSettled(i)
      PROVE  Stay /\ Follow
  <2>1. /\ continuations' = continuations \ {i} /\ method[i] # "chat.send" /\ call' = call
        /\ UNCHANGED active
    BY <1>6 DEF CommandSettled, StatusSettled, OtherSettled, Resumes, Continues, callVars, promptVars
  <2>. QED
    BY <2>1 DEF Pending, Sent
<1>7. ASSUME NEW i \in continuations, ShutdownSettled(i) PROVE Stay /\ Follow
  BY <1>7 DEF ShutdownSettled, Resumes, FailPending, Pending, Sent, promptVars
<1>8. ASSUME LineArrives \/ ExitArrives \/ SpawnFails \/ LoopEmpties \/ ServerStep \/ UNCHANGED vars
      PROVE  Stay /\ Follow
  <2>1. Settles
    BY <1>8, SettlingSteps
  <2>2. UNCHANGED active /\ continuations \subseteq continuations'
    <3>1. CASE LineArrives
      BY <3>1 DEF LineArrives, ResponseArrives, ReadyArrives, ApprovalArrives, promptVars
    <3>2. CASE ExitArrives \/ SpawnFails
      BY <3>2 DEF ExitArrives, SpawnFails, Macrotask, Idle, promptVars
    <3>3. CASE LoopEmpties \/ ServerStep \/ UNCHANGED vars
      BY <3>3, ServerQuiet DEF LoopEmpties, ClientUnchanged, vars, clientVars, promptVars
    <3>. QED
      BY <1>8, <3>1, <3>2, <3>3
  <2>. QED
    BY <2>1, <2>2 DEF Settles, Pending, Sent
<1>9. ASSUME NEW i \in continuations, ChatSettled(i)
      PROVE  /\ active' = 0
             /\ \A j \in Sent("chat.send") :
                  j \in Pending \cup continuations => j \in Pending' \cup continuations' \/ j = i
  BY <1>9 DEF ChatSettled, Continues, callVars, Pending
<1>. HIDE DEF Stay, Follow
<1>10. (\E i \in continuations : ChatSettled(i)) \/ (Stay /\ Follow)
  BY <1>2, <1>3, <1>4, <1>5, <1>6, <1>7, <1>8
     DEF Next, Client, Continuation, User, ServerStep
<1>. QED
  BY <1>9, <1>10 DEF Stay, Follow

LEMMA ActiveKept ==
  ASSUME FrontendInv, [Next]_vars
  PROVE  ActiveIsPending' /\ (active' # 0 => method'[active'] = "chat.send" /\ active' \in Ids)
<1>1. active \in Sent("chat.send") \cup {0} /\ (active # 0 => active \in Pending \cup continuations)
  BY DEF FrontendInv, TypeOK, ActiveIsPending
<1>2. CASE active' = active /\ active # 0
  <2>1. active' \in Pending' \cup continuations'
    BY <1>1, <1>2, ActiveSteps DEF ChatSettled, Resumes
  <2>2. method'[active] = "chat.send"
    <3>1. active \in Ids /\ method[active] = "chat.send" /\ method[active] # "none"
      BY <1>1, <1>2 DEF Sent
    <3>. QED
      BY <3>1, RequestsOfSteps DEF Settles, Asks
  <2>. QED
    BY <1>1, <1>2, <2>1, <2>2 DEF ActiveIsPending, Sent
<1>3. CASE active' = nextId /\ \E a : Asks("chat.send", a)
  BY <1>3 DEF Asks, ActiveIsPending, Pending
<1>4. CASE active' = 0
  BY <1>4 DEF ActiveIsPending
<1>. QED
  BY <1>2, <1>3, <1>4, ActiveSteps

-----------------------------------------------------------------------------
(* What the steps do to the pipes, the approval and the turn.              *)

(* Frames that ask for nothing are written, at most one.                   *)
Tells ==
  \/ toClient' = toClient
  \/ \E f \in Frames : f[1] # "approval" /\ toClient' = Append(toClient, f)

(* App or main() sends; an approval leaves the screen when it is decided.  *)
SendStep ==
  \E m \in Methods : \E a :
    /\ Asks(m, a)
    /\ toServer' = IF alive THEN Append(toServer, nextId) ELSE toServer
    /\ UNCHANGED <<toClient, childVars>>
    /\ \/ m # "chat.approve" /\ approval' = approval
       \/ m = "chat.approve" /\ a = approval /\ approval # NoCall /\ approval' = NoCall
    /\ m = "chat.cancel" => a = active /\ active # 0
    /\ m \in PromptMethods => a \in Prompts
    /\ app' = "running" => app = "running"

QuietStep ==
  /\ Settles
  /\ UNCHANGED <<toServer, toClient, approval, announced, turnVars, running, stopping>>
  /\ alive' \in {alive, FALSE}
  /\ app' = "running" => app = "running" \/ app = "status"

(* The gateway begins the turn it reads, or reads another line ...         *)
TurnBegins ==
  /\ toServer # <<>> /\ toServer' = Tail(toServer)
  /\ method[Head(toServer)] = "chat.send"
  /\ slot = 0 /\ slot' = Head(toServer) /\ asked' = 0
  /\ UNCHANGED <<toClient, asking, alive, stopping>>

LineRead ==
  /\ toServer # <<>> /\ toServer' = Tail(toServer) /\ Tells
  /\ \/ /\ asking' = NoCall
        /\ method[Head(toServer)] = "chat.approve" /\ arg[Head(toServer)] = asking
     \/ /\ asking' = asking
        /\ method[Head(toServer)] # "chat.approve" \/ arg[Head(toServer)] # asking
  /\ stopping = "no"
  /\ UNCHANGED <<slot, replied, asked, alive>>

(* ... or works.                                                           *)
ServerWorks ==
  /\ UNCHANGED <<toServer, asking, asked, stopping>> /\ Tells
  /\ alive' \in {alive, FALSE}
  /\ slot' \in {slot, 0}
  /\ slot # 0 /\ asking # NoCall /\ ~replied => UNCHANGED <<slot, replied>>

LEMMA ServerViews ==
  ASSUME FrontendInv, ServerStep
  PROVE  TurnBegins \/ LineRead \/ ServerWorks \/ TurnAsks
<1>1. \A i \in Ids, ok \in BOOLEAN : Writes(Response(i, ok)) => Tells
  BY FrameShapes DEF Writes, Tells
<1>2. CASE Announce
  <2>1. Tells
    BY <1>2, FrameShapes, FrontendAssumption DEF Announce, Writes, Tells
  <2>. QED
    BY <1>2, <2>1 DEF Announce, ServerWorks, turnVars
<1>3. ASSUME NEW i \in Ids, NEW m, Reads(i, m)
      PROVE  /\ toServer # <<>> /\ toServer' = Tail(toServer) /\ i = Head(toServer)
             /\ method[i] = m /\ stopping = "no" /\ alive' = alive
  BY <1>3 DEF Reads
<1>4. ASSUME NEW i \in Ids, ReadsChatSend(i) PROVE TurnBegins \/ LineRead
  <2>1. Reads(i, "chat.send")
    BY <1>4 DEF ReadsChatSend
  <2>2. CASE slot = 0
    BY <1>3, <1>4, <2>1, <2>2 DEF ReadsChatSend, TurnBegins
  <2>3. CASE slot # 0
    <3>1. /\ Writes(Response(i, FALSE))
          /\ UNCHANGED <<slot, asked, replied, asking, stopping>>
      BY <1>4, <2>3 DEF ReadsChatSend
    <3>2. Tells
      BY <1>1, <3>1
    <3>3. method[Head(toServer)] = "chat.send" /\ stopping = "no" /\ alive' = alive
          /\ toServer # <<>> /\ toServer' = Tail(toServer)
      BY <1>3, <2>1
    <3>. QED
      BY <3>1, <3>2, <3>3 DEF LineRead
  <2>. QED
    BY <2>2, <2>3
<1>5. ASSUME NEW i \in Ids, ReadsChatCancel(i) PROVE LineRead
  <2>1. Reads(i, "chat.cancel") /\ Tells
    BY <1>1, <1>5 DEF ReadsChatCancel
  <2>. QED
    BY <1>3, <1>5, <2>1 DEF ReadsChatCancel, LineRead
<1>6. ASSUME NEW i \in Ids, ReadsChatApprove(i) PROVE LineRead
  <2>1. Reads(i, "chat.approve") /\ Tells
    BY <1>1, <1>6 DEF ReadsChatApprove
  <2>. QED
    BY <1>3, <1>6, <2>1 DEF ReadsChatApprove, LineRead
<1>7. ASSUME NEW i \in Ids,
             ReadsSessionNew(i) \/ ReadsCommand(i) \/ ReadsToolsRun(i) \/ ReadsShutdown(i)
      PROVE  LineRead
  <2>1. Tells
    BY <1>1, <1>7 DEF ReadsSessionNew, ReadsCommand, ReadsToolsRun, ReadsShutdown, Tells
  <2>2. \E m \in {"session.new", "commands.dispatch", "runtime.status", "tools.run",
                  "gateway.shutdown"} : Reads(i, m)
    BY <1>7 DEF ReadsSessionNew, ReadsCommand, ReadsToolsRun, ReadsShutdown
  <2>3. UNCHANGED <<slot, replied, asking, asked>>
    BY <1>7 DEF ReadsSessionNew, ReadsCommand, ReadsToolsRun, ReadsShutdown, turnVars
  <2>. QED
    BY <1>3, <2>1, <2>2, <2>3 DEF LineRead
<1>8. CASE TurnEnds
  <2>1. slot \in Ids
    BY <1>8 DEF TurnEnds, FrontendInv, TypeOK, Sent
  <2>2. Tells
    BY <1>1, <1>8, <2>1 DEF TurnEnds
  <2>. QED
    BY <1>8, <2>2 DEF TurnEnds, ServerWorks
<1>9. CASE SlotReleased
  BY <1>9 DEF SlotReleased, ServerWorks, Tells
<1>10. ASSUME NEW i \in running, ToolsRunEnds(i) PROVE ServerWorks
  <2>1. i \in Ids
    BY DEF FrontendInv, TypeOK
  <2>2. Tells
    BY <1>1, <1>10, <2>1 DEF ToolsRunEnds
  <2>. QED
    BY <1>10, <2>2 DEF ToolsRunEnds, ServerWorks, turnVars
<1>11. CASE BackendExits \/ Dies
  BY <1>11 DEF BackendExits, Dies, ServerWorks, turnVars, Tells
<1>. QED
  BY <1>2, <1>4, <1>5, <1>6, <1>7, <1>8, <1>9, <1>10, <1>11 DEF ServerStep, Backend, ReadLine

LEMMA StepViews ==
  ASSUME FrontendInv, [Next]_vars
  PROVE  SendStep \/ QuietStep \/ LineArrives \/ ServerStep
<1>1. ASSUME NEW p \in Prompts, NEW k, NEW ts, SubmitCore(p, k, ts),
             \A i \in PromptRequests : arg[i] # p,
             UNCHANGED <<app, approval, toClient, childVars>>
      PROVE  SendStep \/ QuietStep
  <2>1. CASE Settles /\ toServer' = toServer
    BY <1>1, <2>1 DEF QuietStep, childVars
  <2>2. CASE k \in Sendable /\ Asks(MethodOf(k), p)
    <3>1. toServer' = IF alive THEN Append(toServer, nextId) ELSE toServer
      BY <1>1, <2>2 DEF SubmitCore, Sendable, Send
    <3>2. MethodOf(k) \in Methods /\ MethodOf(k) \notin {"chat.cancel", "chat.approve"}
      BY <2>2, MethodsOfKinds DEF PromptMethods
    <3>. QED
      BY <1>1, <2>2, <3>1, <3>2 DEF SendStep
  <2>. QED
    BY <1>1, <2>1, <2>2, SubmitCoreRequests
<1>2. ASSUME NEW k \in Kinds, Submit(k) PROVE SendStep \/ QuietStep
  <2>1. UNCHANGED <<app, approval, toClient, childVars>> /\ Submitted < MaxPrompts
    BY <1>2 DEF Submit
  <2>2. CASE active # 0
    <3>1. Enqueue(Submitted + 1)
      BY <1>2, <2>2 DEF Submit
    <3>2. Settles /\ toServer' = toServer
      BY <3>1, QuietSettles DEF Enqueue, SendsNothing, clientVars
    <3>. QED
      BY <2>1, <3>2 DEF QuietStep, childVars
  <2>3. CASE active = 0
    BY <1>1, <1>2, <2>1, <2>3, NextLine DEF Submit
  <2>. QED
    BY <2>2, <2>3
<1>3. ASSUME TimerFires PROVE SendStep \/ QuietStep
  BY <1>1, <1>3, TimerLine DEF TimerFires
<1>4. {"gateway.shutdown", "runtime.status", "chat.cancel", "session.new", "chat.approve"}
        \subseteq Methods \ PromptMethods
  BY DEF Methods, PromptMethods
<1>5. ASSUME Interrupt \/ Quit \/ CtrlC \/ Clear PROVE SendStep
  <2>1. /\ toServer' = IF alive THEN Append(toServer, nextId) ELSE toServer
        /\ UNCHANGED <<toClient, childVars, approval>> /\ app = "running"
    BY <1>5 DEF Interrupt, Quit, CtrlC, Clear, ControlKey, Send
  <2>2. \/ Asks("gateway.shutdown", 0) \/ Asks("session.new", 0)
        \/ Asks("chat.cancel", active) /\ active # 0
    BY <1>5, AskingSteps DEF Interrupt
  <2>. QED
    BY <1>4, <2>1, <2>2 DEF SendStep
<1>6. ASSUME Decide PROVE SendStep
  <2>1. /\ toServer' = IF alive THEN Append(toServer, nextId) ELSE toServer
        /\ UNCHANGED <<toClient, childVars, app>> /\ approval # NoCall /\ approval' = NoCall
        /\ Asks("chat.approve", approval)
    BY <1>6, AskingSteps DEF Decide, Send
  <2>. QED
    BY <1>4, <2>1 DEF SendStep
<1>7. ASSUME ReadySettled \/ \E i \in continuations : ExitCommandSettled(i) PROVE SendStep
  <2>1. /\ toServer' = IF alive THEN Append(toServer, nextId) ELSE toServer
        /\ UNCHANGED <<toClient, childVars, approval>>
    BY <1>7 DEF ReadySettled, ExitCommandSettled, Send, NothingElse
  <2>2. Asks("gateway.shutdown", 0) \/ Asks("runtime.status", 0)
    BY <1>7, AskingSteps
  <2>3. app' = "running" => app = "running"
    BY <1>7 DEF ReadySettled, ExitCommandSettled
  <2>. QED
    BY <1>4, <2>1, <2>2, <2>3 DEF SendStep
<1>8. ASSUME NEW i \in continuations, StatusSettled(i) PROVE QuietStep
  <2>1. Settles
    BY <1>8, SettlingSteps DEF QuietContinuation
  <2>2. app = "status"
    BY <1>8 DEF StatusSettled, Resumes, FrontendInv, TypeOK, Stages, Sent
  <2>. QED
    BY <1>8, <2>1, <2>2 DEF StatusSettled, Continues, NothingElse, childVars, QuietStep
<1>9. ASSUME NEW i \in continuations,
             ChatSettled(i) \/ CommandSettled(i) \/ OtherSettled(i)
      PROVE  QuietStep
  <2>1. Settles
    BY <1>9, SettlingSteps DEF QuietContinuation
  <2>2. /\ UNCHANGED <<approval, toClient, childVars, app, toServer>>
    BY <1>9 DEF ChatSettled, CommandSettled, OtherSettled, Continues, NothingElse
  <2>. QED
    BY <2>1, <2>2 DEF childVars, QuietStep
<1>10. ASSUME NEW i \in continuations, ShutdownSettled(i) PROVE QuietStep
  <2>1. Settles
    BY <1>10, SettlingSteps DEF QuietContinuation
  <2>. QED
    BY <1>10, <2>1 DEF ShutdownSettled, QuietStep
<1>11. ASSUME ExitArrives \/ SpawnFails \/ LoopEmpties \/ UNCHANGED vars PROVE QuietStep
  <2>1. Settles
    BY <1>11, SettlingSteps
  <2>. QED
    BY <1>11, <2>1 DEF ExitArrives, SpawnFails, LoopEmpties, vars, childVars, QuietStep
<1>. QED
  BY <1>2, <1>3, <1>5, <1>6, <1>7, <1>8, <1>9, <1>10, <1>11
     DEF Next, Client, Continuation, User, ServerStep

-----------------------------------------------------------------------------
(* The gateway reads the requests in turn, and a call is asked about once. *)

LEMMA RequestsInTurnKept ==
  ASSUME FrontendInv, [Next]_vars
  PROVE  RequestsInTurn'
<1>1. /\ toServer \in Seq(Ids) /\ Ids \subseteq Nat /\ nextId \in Nat /\ slot \in Nat
      /\ slot < nextId /\ Ordered(toServer)
      /\ \A j \in DOMAIN toServer : slot < toServer[j] /\ toServer[j] < nextId
  BY DEF FrontendInv, TypeOK, Ledger, RequestsInTurn, Sent, Ids
<1>11. \A j \in DOMAIN toServer : toServer[j] \in Nat
  <2>1. \A j \in DOMAIN toServer : toServer[j] \in Ids
    BY <1>1
  <2>. QED
    BY <1>1, <2>1
<1>2. CASE toServer' = toServer /\ slot' \in {slot, 0} /\ nextId' \in {nextId, nextId + 1}
  BY <1>1, <1>11, <1>2 DEF RequestsInTurn
<1>3. CASE SendStep
  <2>1. /\ nextId \in Ids /\ nextId' = nextId + 1 /\ slot' = slot
        /\ toServer' = toServer \/ toServer' = Append(toServer, nextId)
    BY <1>3 DEF SendStep, Asks, childVars, turnVars
  <2>2. CASE toServer' = Append(toServer, nextId)
    <3>1. /\ Len(toServer) \in Nat /\ DOMAIN toServer = 1..Len(toServer)
          /\ DOMAIN toServer' = 1..(Len(toServer) + 1)
          /\ \A i \in DOMAIN toServer : toServer'[i] = toServer[i]
          /\ toServer'[Len(toServer) + 1] = nextId
      BY <1>1, <2>1, <2>2, AppendIs
    <3>2. \A j \in DOMAIN toServer' : slot < toServer'[j] /\ toServer'[j] < nextId + 1
      BY <1>1, <1>11, <3>1
    <3>3. Ordered(toServer')
      <4>. SUFFICES ASSUME NEW i \in DOMAIN toServer', NEW j \in DOMAIN toServer', i < j
                    PROVE  toServer'[i] < toServer'[j]
        BY DEF Ordered
      <4>1. i \in DOMAIN toServer
        BY <3>1
      <4>2. CASE j = Len(toServer) + 1
        BY <1>1, <3>1, <4>1, <4>2
      <4>3. CASE j # Len(toServer) + 1
        <5>1. j \in DOMAIN toServer
          BY <3>1, <4>3
        <5>. QED
          BY <1>1, <3>1, <4>1, <5>1 DEF Ordered
      <4>. QED
        BY <4>2, <4>3
    <3>. QED
      BY <2>1, <3>2, <3>3 DEF RequestsInTurn
  <2>. QED
    BY <1>2, <2>1, <2>2
<1>4. CASE TurnBegins \/ LineRead
  <2>1. /\ toServer # <<>> /\ toServer' = Tail(toServer) /\ slot' \in {slot, Head(toServer)}
        /\ nextId' = nextId
    <3>1. CASE ServerStep
      BY <1>4, <3>1, ServerQuiet DEF TurnBegins, LineRead, ClientUnchanged, clientVars, callVars
    <3>2. CASE ~ServerStep
      <4>1. toServer' # toServer
        <5>1. Len(Tail(toServer)) # Len(toServer)
          BY <1>1, <1>4 DEF TurnBegins, LineRead
        <5>. QED
          BY <1>4, <5>1 DEF TurnBegins, LineRead
      <4>2. SendStep
        BY <3>2, <4>1, StepViews DEF QuietStep, LineArrives
      <4>3. toServer' = Append(toServer, nextId) /\ Len(toServer') = Len(toServer) + 1
        BY <1>1, <4>1, <4>2 DEF SendStep, Asks
      <4>4. Len(toServer') = Len(toServer) - 1
        BY <1>1, <1>4 DEF TurnBegins, LineRead
      <4>. QED
        BY <1>1, <4>3, <4>4
    <3>. QED
      BY <3>1, <3>2
  <2>2. /\ Len(toServer) \in Nat /\ DOMAIN toServer = 1..Len(toServer)
        /\ 1 \in DOMAIN toServer /\ Head(toServer) = toServer[1]
        /\ DOMAIN toServer' = 1..(Len(toServer) - 1)
        /\ \A i \in DOMAIN toServer' : i + 1 \in DOMAIN toServer /\ toServer'[i] = toServer[i + 1]
    BY <1>1, <2>1, TailIs
  <2>3. \A j \in DOMAIN toServer' : slot' < toServer'[j] /\ toServer'[j] < nextId
    BY <1>1, <2>1, <2>2 DEF Ordered
  <2>4. Ordered(toServer')
    BY <1>1, <2>2 DEF Ordered
  <2>. QED
    BY <2>1, <2>3, <2>4 DEF RequestsInTurn
<1>5. CASE QuietStep \/ LineArrives
  BY <1>2, <1>5 DEF QuietStep, Settles, LineArrives, childVars, turnVars
<1>6. CASE ServerStep /\ (ServerWorks \/ TurnAsks)
  BY <1>2, <1>6, ServerQuiet
     DEF ServerWorks, TurnAsks, ClientUnchanged, clientVars, callVars
<1>. QED
  BY <1>3, <1>4, <1>5, <1>6, StepViews, ServerViews

(* The calls stay of begun turns, and the next one is none of them.        *)
LEMMA BegunStays ==
  ASSUME FrontendInv, [Next]_vars, NEW c \in Calls, Begun(c)
  PROVE  Begun(c)'
<1>1. /\ toServer \in Seq(Ids) /\ Ids \subseteq Nat /\ nextId \in Nat
      /\ c[1] \in Ids /\ c[1] < nextId /\ method[c[1]] = "chat.send"
      /\ c[2] \in Nat /\ asked \in Nat
      /\ \A j \in DOMAIN toServer : c[1] < toServer[j]
      /\ c[1] = slot => c[2] <= asked
  BY CallShapes DEF FrontendInv, TypeOK, Ledger, Begun, Sent, Ids
<1>2. method'[c[1]] = "chat.send"
  BY <1>1, RequestsOfSteps DEF Settles, Asks
<1>3. CASE SendStep
  <2>1. /\ nextId \in Ids /\ slot' = slot /\ asked' = asked
        /\ toServer' = toServer \/ toServer' = Append(toServer, nextId)
    BY <1>3 DEF SendStep, Asks, childVars, turnVars
  <2>2. CASE toServer' = Append(toServer, nextId)
    <3>1. /\ Len(toServer) \in Nat /\ DOMAIN toServer = 1..Len(toServer)
          /\ DOMAIN toServer' = 1..(Len(toServer) + 1)
          /\ \A i \in DOMAIN toServer : toServer'[i] = toServer[i]
          /\ toServer'[Len(toServer) + 1] = nextId
      BY <1>1, <2>1, <2>2, AppendIs
    <3>. QED
      BY <1>1, <1>2, <2>1, <3>1 DEF Begun, Sent
  <2>. QED
    BY <1>1, <1>2, <2>1, <2>2 DEF Begun, Sent
<1>4. CASE TurnBegins \/ LineRead
  <2>1. toServer # <<>> /\ toServer' = Tail(toServer)
    BY <1>4 DEF TurnBegins, LineRead
  <2>2. /\ 1 \in DOMAIN toServer /\ Head(toServer) = toServer[1]
        /\ \A i \in DOMAIN toServer' : i + 1 \in DOMAIN toServer /\ toServer'[i] = toServer[i + 1]
    BY <1>1, <2>1, TailIs
  <2>3. \A j \in DOMAIN toServer' : c[1] < toServer'[j]
    BY <1>1, <2>2
  <2>4. c[1] < Head(toServer) /\ c[1] # Head(toServer)
    <3>1. toServer[1] \in Ids
      BY <1>1, <2>2
    <3>2. toServer[1] \in Nat /\ c[1] \in Nat /\ c[1] < toServer[1]
      BY <1>1, <2>2, <3>1
    <3>. QED
      BY <2>2, <3>2
  <2>5. c[1] = slot' => c[2] <= asked'
    BY <1>1, <1>4, <2>4 DEF TurnBegins, LineRead
  <2>. QED
    BY <1>1, <1>2, <2>3, <2>5 DEF Begun, Sent
<1>5. CASE QuietStep \/ LineArrives
  <2>1. UNCHANGED <<toServer, slot, asked>>
    BY <1>5 DEF QuietStep, LineArrives, childVars, turnVars
  <2>. QED
    BY <1>1, <1>2, <2>1 DEF Begun, Sent
<1>6. CASE ServerWorks \/ TurnAsks
  <2>1. toServer' = toServer /\ slot' \in {slot, 0} /\ asked' \in {asked, asked + 1}
    BY <1>6 DEF ServerWorks, TurnAsks
  <2>2. c[1] # 0
    BY <1>1 DEF Ids
  <2>. QED
    BY <1>1, <1>2, <2>1, <2>2 DEF Begun, Sent
<1>. QED
  BY <1>3, <1>4, <1>5, <1>6, StepViews, ServerViews

LEMMA NextCall ==
  ASSUME FrontendInv, TurnAsks
  PROVE  /\ <<slot, asked + 1>> \in Calls /\ ~Begun(<<slot, asked + 1>>)
         /\ toClient' = Append(toClient, ApprovalEvent(<<slot, asked + 1>>))
         /\ asking' = <<slot, asked + 1>> /\ asked' = asked + 1
         /\ slot # 0 /\ ~replied
         /\ \A c \in Calls : c = <<slot, asked + 1>> => Begun(c)'
<1>1. /\ slot \in Ids /\ method[slot] = "chat.send" /\ asked \in Nat /\ asked + 1 \in 1..MaxCalls
  BY FrontendAssumption DEF TurnAsks, FrontendInv, TypeOK, Sent
<1>2. /\ <<slot, asked + 1>> \in Calls
      /\ <<slot, asked + 1>>[1] = slot /\ <<slot, asked + 1>>[2] = asked + 1
  BY <1>1, CallShapes
<1>3. ~Begun(<<slot, asked + 1>>)
  BY <1>1, <1>2 DEF Begun
<1>4. UNCHANGED <<method, toServer, slot>> /\ asked' = asked + 1
  BY DEF TurnAsks, ClientUnchanged, clientVars, callVars
<1>5. \A j \in DOMAIN toServer : slot < toServer[j]
  BY DEF FrontendInv, RequestsInTurn
<1>6. \A c \in Calls : c = <<slot, asked + 1>> => Begun(c)'
  BY <1>1, <1>2, <1>4, <1>5 DEF Begun, Sent
<1>. QED
  BY <1>2, <1>3, <1>6 DEF TurnAsks, Writes

(* What a step does to the frames in the pipe: the first is read, one is   *)
(* written, or none.                                                       *)
LEMMA FramesOfSteps ==
  ASSUME FrontendInv, [Next]_vars
  PROVE  /\ toClient \in Seq(Frames)
         /\ \/ toClient' = toClient
            \/ toClient # <<>> /\ toClient' = Tail(toClient) /\ LineArrives
            \/ \E f \in Frames : /\ toClient' = Append(toClient, f) /\ ServerStep
                                 /\ f[1] # "approval" \/ TurnAsks
<1>1. toClient \in Seq(Frames)
  BY DEF FrontendInv, TypeOK
<1>2. CASE SendStep \/ QuietStep
  BY <1>1, <1>2 DEF SendStep, QuietStep
<1>3. CASE LineArrives
  BY <1>1, <1>3 DEF LineArrives
<1>4. CASE ServerStep /\ (TurnBegins \/ LineRead \/ ServerWorks)
  BY <1>1, <1>4 DEF TurnBegins, LineRead, ServerWorks, Tells
<1>5. CASE ServerStep /\ TurnAsks
  BY <1>1, <1>5, NextCall, FrameShapes
<1>. QED
  BY <1>2, <1>3, <1>4, <1>5, StepViews, ServerViews

(* What a step does to the decisions that were sent.                       *)
LEMMA DecisionsOfSteps ==
  ASSUME FrontendInv, [Next]_vars
  PROVE  /\ \A i \in Approves : arg'[i] = arg[i]
         /\ \/ Approves' = Approves
            \/ /\ Approves' = Approves \cup {nextId} /\ arg'[nextId] = approval
               /\ approval # NoCall /\ approval' = NoCall /\ toClient' = toClient
<1>1. CASE SendStep
  <2>1. PICK m \in Methods : \E a :
          /\ Asks(m, a) /\ toClient' = toClient
          /\ \/ m # "chat.approve" /\ approval' = approval
             \/ m = "chat.approve" /\ a = approval /\ approval # NoCall /\ approval' = NoCall
    BY <1>1 DEF SendStep
  <2>. QED
    BY <2>1 DEF Asks, Approves, Sent
<1>2. CASE QuietStep
  BY <1>2 DEF QuietStep, Settles, Approves, Sent
<1>3. CASE LineArrives
  BY <1>3 DEF LineArrives, Approves, Sent
<1>4. CASE ServerStep
  BY <1>4, ServerQuiet DEF ClientUnchanged, clientVars, callVars, Approves, Sent
<1>. QED
  BY <1>1, <1>2, <1>3, <1>4, StepViews

(* ... and to the approval on the screen.                                  *)
LEMMA ApprovalOfSteps ==
  ASSUME FrontendInv, [Next]_vars
  PROVE  \/ approval' = approval
         \/ approval' = NoCall
         \/ /\ LineArrives /\ app = "running" /\ toClient # <<>>
            /\ approval' \in Calls /\ Head(toClient) = ApprovalEvent(approval')
<1>1. CASE LineArrives
  <2>1. Head(toClient) \in Frames /\ toClient # <<>>
    BY <1>1, TailIs DEF LineArrives, FrontendInv, TypeOK
  <2>. QED
    BY <1>1, <2>1, FrameShapes DEF LineArrives, ResponseArrives, ReadyArrives, ApprovalArrives
<1>. QED
  BY <1>1, StepViews, ServerQuiet DEF SendStep, QuietStep, ClientUnchanged

LEMMA CallsOnceKept ==
  ASSUME FrontendInv, [Next]_vars
  PROVE  CallsOnce'
<1>. DEFINE n == Len(toClient)
            Tracked(c) == /\ Begun(c)' /\ approval' # c
                          /\ \A i \in Approves' : arg'[i] # c
<1>1. /\ toClient \in Seq(Frames) /\ n \in Nat /\ DOMAIN toClient = 1..n
      /\ approval \in Calls \cup {NoCall}
      /\ \A i \in Approves : arg[i] \in Calls
  BY DEF FrontendInv, TypeOK, Approves
<1>2. /\ \A j \in 1..n, c \in Calls : toClient[j] = ApprovalEvent(c) =>
           /\ Begun(c) /\ approval # c
           /\ \A k \in 1..n : toClient[k] = toClient[j] => k = j
           /\ \A i \in Approves : arg[i] # c
      /\ approval # NoCall => Begun(approval) /\ \A i \in Approves : arg[i] # approval
      /\ \A i \in Approves : /\ Begun(arg[i])
                             /\ \A k \in Approves : arg[k] = arg[i] => k = i
  BY <1>1 DEF FrontendInv, CallsOnce
<1>3. /\ \A i \in Approves : arg'[i] = arg[i]
      /\ \/ Approves' = Approves
         \/ /\ Approves' = Approves \cup {nextId} /\ arg'[nextId] = approval
            /\ approval # NoCall /\ approval' = NoCall /\ toClient' = toClient
  BY DecisionsOfSteps
<1>4. \A c \in Calls : Begun(c) => Begun(c)'
  BY BegunStays
<1>. HIDE DEF n
<1>5. ASSUME NEW i \in Approves'
      PROVE  /\ Begun(arg[i])'
             /\ \A k \in Approves' : arg'[k] = arg'[i] => k = i
  <2>1. CASE i \in Approves
    <3>1. arg[i] \in Calls /\ Begun(arg[i]) /\ arg'[i] = arg[i]
      BY <1>1, <1>2, <1>3, <2>1
    <3>2. Begun(arg[i])'
      BY <1>4, <3>1 DEF Begun
    <3>. QED
      BY <1>2, <1>3, <2>1, <3>2
  <2>2. CASE i \notin Approves
    <3>1. approval \in Calls /\ Begun(approval) /\ arg'[i] = approval
      BY <1>1, <1>2, <1>3, <2>2
    <3>2. Begun(arg[i])'
      BY <1>4, <3>1 DEF Begun
    <3>. QED
      BY <1>2, <1>3, <2>2, <3>2
  <2>. QED
    BY <2>1, <2>2
<1>6. ASSUME approval' # NoCall
      PROVE  Begun(approval)' /\ \A i \in Approves' : arg'[i] # approval'
  <2>1. Approves' = Approves
    BY <1>3, <1>6
  <2>2. /\ approval' \in Calls /\ Begun(approval')
        /\ \A i \in Approves : arg[i] # approval'
    <3>1. CASE approval' = approval
      BY <1>1, <1>2, <1>6, <3>1
    <3>2. CASE toClient # <<>> /\ approval' \in Calls /\ Head(toClient) = ApprovalEvent(approval')
      <4>1. 1 \in 1..n /\ Head(toClient) = toClient[1]
        BY <3>2, <1>1, TailIs
      <4>. QED
        BY <1>2, <3>2, <4>1
    <3>. QED
      BY <1>6, <3>1, <3>2, ApprovalOfSteps
  <2>3. Begun(approval)'
    BY <1>4, <2>2 DEF Begun
  <2>. QED
    BY <1>3, <2>1, <2>2, <2>3
<1>7. CASE toClient' = toClient
  <2>1. approval' \in {approval, NoCall}
    <3>1. ~LineArrives
      <4>1. Len(Tail(toClient)) # Len(toClient) \/ toClient = <<>>
        BY <1>1
      <4>. QED
        BY <1>7, <4>1 DEF LineArrives
    <3>. QED
      BY <3>1, ApprovalOfSteps
  <2>2. ASSUME NEW j \in 1..n, NEW c \in Calls, toClient[j] = ApprovalEvent(c) PROVE Tracked(c)
    <3>1. Begun(c)'
      BY <1>2, <1>4, <2>2
    <3>2. c # NoCall
      BY CallShapes
    <3>. QED
      BY <1>2, <1>3, <2>1, <2>2, <3>1, <3>2
  <2>. QED
    BY <1>1, <1>2, <1>5, <1>6, <1>7, <2>2 DEF CallsOnce
<1>8. CASE toClient # <<>> /\ toClient' = Tail(toClient) /\ LineArrives
  <2>1. /\ DOMAIN toClient' = 1..(n - 1) /\ 1 \in 1..n /\ Head(toClient) = toClient[1]
        /\ \A i \in 1..(n - 1) : i + 1 \in 1..n /\ toClient'[i] = toClient[i + 1]
    BY <1>1, <1>8, TailIs
  <2>2. Approves' = Approves
    BY <1>8 DEF LineArrives, Approves, Sent
  <2>3. ASSUME NEW j \in 1..(n - 1), NEW c \in Calls, toClient'[j] = ApprovalEvent(c)
        PROVE  Tracked(c) /\ \A k \in 1..(n - 1) : toClient'[k] = toClient'[j] => k = j
    <3>1. j + 1 \in 1..n /\ j + 1 # 1 /\ toClient[j + 1] = ApprovalEvent(c)
      BY <1>1, <2>1, <2>3
    <3>2. /\ Begun(c)' /\ approval # c /\ c # NoCall
          /\ \A i \in Approves : arg[i] # c
          /\ \A k \in 1..n : toClient[k] = ApprovalEvent(c) => k = j + 1
      BY <1>2, <1>4, <3>1, CallShapes
    <3>3. approval' # c
      BY <2>1, <3>1, <3>2, ApprovalOfSteps
    <3>4. ASSUME NEW k \in 1..(n - 1), toClient'[k] = toClient'[j] PROVE k = j
      <4>1. k + 1 \in 1..n /\ toClient[k + 1] = ApprovalEvent(c)
        BY <2>1, <2>3, <3>4
      <4>2. k + 1 = j + 1
        BY <3>2, <4>1
      <4>. QED
        BY <4>2
    <3>. QED
      BY <1>3, <2>2, <3>2, <3>3, <3>4
  <2>. QED
    BY <1>5, <1>6, <2>1, <2>3 DEF CallsOnce
<1>9. ASSUME NEW f \in Frames, toClient' = Append(toClient, f), ServerStep,
             f[1] # "approval" \/ TurnAsks
      PROVE  CallsOnce'
  <2>1. /\ DOMAIN toClient' = 1..(n + 1) /\ toClient'[n + 1] = f
        /\ \A i \in 1..n : toClient'[i] = toClient[i]
    BY <1>1, <1>9, AppendIs
  <2>2. approval' = approval /\ Approves' = Approves
    BY <1>9, ServerQuiet DEF ClientUnchanged, clientVars, callVars, Approves, Sent
  <2>3. \A c \in Calls : c # NoCall /\ ApprovalEvent(c)[1] = "approval" /\ ApprovalEvent(c)[2] = c
    BY CallShapes, FrameShapes
  <2>4. ASSUME NEW c \in Calls, f = ApprovalEvent(c)
        PROVE  ~Begun(c) /\ Begun(c)'
    <3>1. TurnAsks /\ f = ApprovalEvent(<<slot, asked + 1>>)
      <4>1. TurnAsks
        BY <1>9, <2>3, <2>4
      <4>2. toClient' = Append(toClient, ApprovalEvent(<<slot, asked + 1>>))
        BY <4>1, NextCall
      <4>3. ApprovalEvent(<<slot, asked + 1>>) \in Frames
        BY <4>1, NextCall, FrameShapes
      <4>4. toClient'[n + 1] = ApprovalEvent(<<slot, asked + 1>>)
        BY <1>1, <4>2, <4>3, AppendIs DEF n
      <4>. QED
        BY <2>1, <4>1, <4>4
    <3>2. c = <<slot, asked + 1>>
      <4>1. <<slot, asked + 1>> \in Calls
        BY <3>1, NextCall
      <4>. QED
        BY <2>3, <2>4, <3>1, <4>1
    <3>. QED
      BY <3>1, <3>2, NextCall
  <2>5. ASSUME NEW j \in 1..n, NEW c \in Calls, toClient[j] = ApprovalEvent(c)
        PROVE  /\ Tracked(c) /\ f # ApprovalEvent(c)
               /\ \A k \in 1..n : toClient[k] = toClient[j] => k = j
    <3>1. Begun(c) /\ Begun(c)'
      BY <1>2, <1>4, <2>5
    <3>2. f # ApprovalEvent(c)
      BY <2>4, <3>1
    <3>. QED
      BY <1>2, <1>3, <2>2, <2>5, <3>1, <3>2
  <2>6. ASSUME NEW c \in Calls, f = ApprovalEvent(c)
        PROVE  /\ Tracked(c) /\ \A k \in 1..n : toClient[k] # f
    <3>1. ~Begun(c) /\ Begun(c)'
      BY <2>4, <2>6
    <3>2. approval # c /\ \A i \in Approves : arg[i] # c
      BY <1>2, <2>3, <3>1
    <3>3. \A k \in 1..n : toClient[k] # f
      BY <1>2, <2>6, <3>1
    <3>. QED
      BY <1>3, <2>2, <3>1, <3>2, <3>3
  <2>7. ASSUME NEW j \in 1..(n + 1), NEW c \in Calls, toClient'[j] = ApprovalEvent(c)
        PROVE  Tracked(c) /\ \A k \in 1..(n + 1) : toClient'[k] = toClient'[j] => k = j
    <3>1. CASE j \in 1..n
      BY <1>1, <2>1, <2>5, <2>7, <3>1
    <3>2. CASE j = n + 1
      BY <1>1, <2>1, <2>6, <2>7, <3>2
    <3>. QED
      BY <1>1, <3>1, <3>2
  <2>. QED
    BY <1>5, <1>6, <2>1, <2>7 DEF CallsOnce
<1>. QED
  BY <1>7, <1>8, <1>9, FramesOfSteps

-----------------------------------------------------------------------------
(* What the gateway waits for can be decided.                              *)

LEMMA AskedLastKept ==
  ASSUME FrontendInv, [Next]_vars
  PROVE  AskedLast'
<1>. DEFINE n == Len(toClient)
<1>1. /\ toClient \in Seq(Frames) /\ n \in Nat /\ DOMAIN toClient = 1..n
      /\ AskedLast
  BY DEF FrontendInv, TypeOK
<1>. SUFFICES ASSUME asking' # NoCall PROVE AskedLast'
  BY DEF AskedLast
<1>2. ASSUME ServerStep, TurnAsks PROVE AskedLast'
  <2>. DEFINE c == <<slot, asked + 1>>
  <2>1. /\ c \in Calls /\ toClient' = Append(toClient, ApprovalEvent(c))
        /\ asking' = c /\ asked' = asked + 1 /\ slot # 0 /\ ~replied
    BY <1>2, NextCall
  <2>2. UNCHANGED <<slot, replied>>
    BY <1>2 DEF TurnAsks
  <2>3. ApprovalEvent(c) \in Frames
    BY <2>1, FrameShapes
  <2>4. asking' = <<slot', asked'>>
    BY <2>1, <2>2
  <2>. HIDE DEF c
  <2>5. DOMAIN toClient' = 1..(n + 1) /\ toClient'[n + 1] = ApprovalEvent(c)
    BY <2>1, <2>3, <1>1, AppendIs
  <2>6. \A j \in DOMAIN toClient' : j <= n + 1 /\ n + 1 \in DOMAIN toClient'
    BY <1>1, <2>5
  <2>. QED
    BY <2>1, <2>2, <2>4, <2>5, <2>6 DEF AskedLast
<1>3. ASSUME asking' = asking,
             asking # NoCall => UNCHANGED <<slot, replied, asked>>,
             ~(ServerStep /\ TurnAsks)
      PROVE  AskedLast'
  <2>1. /\ slot # 0 /\ ~replied /\ asking = <<slot, asked>>
        /\ UNCHANGED <<slot, replied, asked>>
        /\ \A j \in 1..n : toClient[j][1] = "approval" =>
             \E k \in 1..n : j <= k /\ toClient[k] = ApprovalEvent(asking)
    BY <1>1, <1>3 DEF AskedLast
  <2>2. CASE toClient' = toClient
    BY <1>1, <1>3, <2>1, <2>2 DEF AskedLast
  <2>3. CASE toClient # <<>> /\ toClient' = Tail(toClient)
    <3>1. /\ DOMAIN toClient' = 1..(n - 1)
          /\ \A i \in 1..(n - 1) : i + 1 \in 1..n /\ toClient'[i] = toClient[i + 1]
      BY <1>1, <2>3, TailIs
    <3>2. ASSUME NEW j \in 1..(n - 1), toClient'[j][1] = "approval"
          PROVE  \E k \in 1..(n - 1) : j <= k /\ toClient'[k] = ApprovalEvent(asking)
      <4>1. toClient[j + 1][1] = "approval" /\ j + 1 \in 1..n
        BY <3>1, <3>2
      <4>2. PICK k \in 1..n : j + 1 <= k /\ toClient[k] = ApprovalEvent(asking)
        BY <2>1, <4>1
      <4>3. k - 1 \in 1..(n - 1) /\ j <= k - 1 /\ (k - 1) + 1 = k
        BY <1>1, <4>2
      <4>4. toClient'[k - 1] = ApprovalEvent(asking)
        BY <3>1, <4>2, <4>3
      <4>. QED
        BY <4>3, <4>4
    <3>. QED
      BY <1>3, <2>1, <3>1, <3>2 DEF AskedLast
  <2>4. ASSUME NEW f \in Frames, toClient' = Append(toClient, f), f[1] # "approval"
        PROVE  AskedLast'
    <3>1. /\ DOMAIN toClient' = 1..(n + 1) /\ toClient'[n + 1] = f
          /\ \A i \in 1..n : toClient'[i] = toClient[i]
      BY <1>1, <2>4, AppendIs
    <3>2. ASSUME NEW j \in 1..(n + 1), toClient'[j][1] = "approval"
          PROVE  \E k \in 1..(n + 1) : j <= k /\ toClient'[k] = ApprovalEvent(asking)
      <4>1. j \in 1..n
        BY <1>1, <2>4, <3>1, <3>2
      <4>2. PICK k \in 1..n : j <= k /\ toClient[k] = ApprovalEvent(asking)
        BY <2>1, <3>1, <3>2, <4>1
      <4>. QED
        BY <1>1, <3>1, <4>2
    <3>. QED
      BY <1>3, <2>1, <3>1, <3>2 DEF AskedLast
  <2>. QED
    BY <1>3, <2>2, <2>3, <2>4, FramesOfSteps
<1>4. CASE SendStep \/ QuietStep \/ LineArrives
  <2>1. UNCHANGED <<asking, slot, replied, asked>>
    BY <1>4 DEF SendStep, QuietStep, LineArrives, childVars, turnVars
  <2>2. ASSUME ServerStep, TurnAsks PROVE AskedLast'
    BY <1>2, <2>2
  <2>. QED
    BY <1>3, <2>1, <2>2
<1>5. CASE ServerStep /\ ~TurnAsks
  <2>1. TurnBegins \/ LineRead \/ ServerWorks
    BY <1>5, ServerViews
  <2>2. CASE TurnBegins
    BY <1>1, <2>2 DEF TurnBegins, AskedLast
  <2>3. CASE LineRead
    BY <1>3, <1>5, <2>3 DEF LineRead
  <2>4. CASE ServerWorks
    BY <1>1, <1>3, <1>5, <2>4 DEF ServerWorks, AskedLast
  <2>. QED
    BY <2>1, <2>2, <2>3, <2>4
<1>. QED
  BY <1>2, <1>4, <1>5, StepViews

(* The gateway answers a decision by waiting for nothing more, and asks    *)
(* again only when nothing of the last call is on its way.                 *)
LEMMA DecisionsCurrentKept ==
  ASSUME FrontendInv, [Next]_vars
  PROVE  DecisionsCurrent'
<1>. DEFINE n == Len(toClient)
            m == Len(toServer)
<1>1. /\ toClient \in Seq(Frames) /\ n \in Nat /\ DOMAIN toClient = 1..n
      /\ toServer \in Seq(Ids) /\ m \in Nat /\ DOMAIN toServer = 1..m
      /\ asking \in Calls \cup {NoCall} /\ approval \in Calls \cup {NoCall}
      /\ NoCall \notin Calls
      /\ alive \in BOOLEAN
      /\ \A i \in Approves : arg[i] \in Calls
  BY CallShapes DEF FrontendInv, TypeOK, Approves
<1>2. /\ \A j \in 1..m : toServer[j] \in Ids /\ toServer[j] # nextId
      /\ \A i, j \in 1..m : i < j => toServer[i] < toServer[j]
  <2>1. \A j \in 1..m : toServer[j] \in Ids /\ toServer[j] < nextId
    BY <1>1 DEF FrontendInv, RequestsInTurn
  <2>2. \A i, j \in 1..m : i < j => toServer[i] < toServer[j]
    BY <1>1 DEF FrontendInv, RequestsInTurn, Ordered
  <2>3. ASSUME NEW j \in 1..m PROVE toServer[j] # nextId
    BY <2>1 DEF Ids
  <2>. QED
    BY <2>1, <2>2, <2>3
<1>. SUFFICES ASSUME alive' PROVE DecisionsCurrent'
  BY DEF DecisionsCurrent
<1>. DEFINE Shown(a, b) == a # NoCall => a = b
            Told(w, b) == \A j \in DOMAIN w, c \in Calls : w[j] = ApprovalEvent(c) => c = b
            Sends(w, b) == \A j \in DOMAIN w :
                             method'[w[j]] = "chat.approve" => arg'[w[j]] = b
<1>3. SUFFICES /\ Shown(approval', asking') /\ Told(toClient', asking')
               /\ Sends(toServer', asking')
  BY DEF DecisionsCurrent
<1>4. alive => /\ Shown(approval, asking) /\ Told(toClient, asking)
               /\ \A j \in 1..m : method[toServer[j]] = "chat.approve" => arg[toServer[j]] = asking
  BY <1>1 DEF FrontendInv, DecisionsCurrent
<1>5. CASE SendStep
  <2>1. PICK k \in Methods : \E a :
          /\ Asks(k, a)
          /\ toServer' = IF alive THEN Append(toServer, nextId) ELSE toServer
          /\ UNCHANGED <<toClient, childVars>>
          /\ \/ k # "chat.approve" /\ approval' = approval
             \/ k = "chat.approve" /\ a = approval /\ approval # NoCall /\ approval' = NoCall
    BY <1>5 DEF SendStep
  <2>2. /\ UNCHANGED <<toClient, asking, alive>> /\ nextId \in Ids
        /\ toServer' = Append(toServer, nextId)
        /\ \A i \in Ids : i # nextId => method'[i] = method[i] /\ arg'[i] = arg[i]
        /\ method'[nextId] = "chat.approve" => arg'[nextId] = approval /\ approval # NoCall
        /\ approval' \in {approval, NoCall}
    BY <2>1 DEF childVars, turnVars, Asks
  <2>3. /\ DOMAIN toServer' = 1..(m + 1) /\ toServer'[m + 1] = nextId
        /\ \A i \in 1..m : toServer'[i] = toServer[i]
    BY <1>1, <2>2, AppendIs
  <2>4. ASSUME NEW j \in 1..(m + 1), method'[toServer'[j]] = "chat.approve"
        PROVE  arg'[toServer'[j]] = asking'
    <3>1. CASE j = m + 1
      BY <1>4, <2>2, <2>3, <2>4, <3>1
    <3>2. CASE j # m + 1
      <4>1. j \in 1..m
        BY <1>1, <3>2
      <4>. QED
        BY <1>2, <1>4, <2>2, <2>3, <2>4, <4>1
    <3>. QED
      BY <3>1, <3>2
  <2>. QED
    BY <1>4, <2>2, <2>3, <2>4
<1>6. CASE QuietStep
  <2>1. UNCHANGED <<toServer, toClient, approval, asking, method, arg>> /\ alive
    BY <1>1, <1>6 DEF QuietStep, turnVars, Settles
  <2>. QED
    BY <1>1, <1>4, <2>1
<1>7. CASE LineArrives
  <2>1. /\ toClient # <<>> /\ toClient' = Tail(toClient)
        /\ UNCHANGED <<toServer, asking, alive, method, arg>>
    BY <1>7 DEF LineArrives, childVars, turnVars
  <2>2. /\ DOMAIN toClient' = 1..(n - 1) /\ 1 \in 1..n /\ Head(toClient) = toClient[1]
        /\ \A i \in 1..(n - 1) : i + 1 \in 1..n /\ toClient'[i] = toClient[i + 1]
    BY <1>1, <2>1, TailIs
  <2>3. Told(toClient', asking')
    BY <1>1, <1>4, <2>1, <2>2
  <2>4. Shown(approval', asking')
    BY <1>1, <1>4, <2>1, <2>2, ApprovalOfSteps
  <2>. QED
    BY <1>1, <1>4, <2>1, <2>3, <2>4
<1>8. CASE ServerStep
  <2>1. UNCHANGED <<approval, method, arg>> /\ alive
    <3>1. UNCHANGED <<approval, method, arg>>
      BY <1>8, ServerQuiet DEF ClientUnchanged, clientVars, callVars
    <3>2. alive
      BY <1>1, <1>8, ServerViews DEF TurnBegins, LineRead, ServerWorks, TurnAsks
    <3>. QED
      BY <3>1, <3>2
  <2>2. ASSUME Tells PROVE Told(toClient', asking)
    <3>1. CASE toClient' = toClient
      BY <1>4, <2>1, <3>1
    <3>2. CASE toClient' # toClient
      <4>1. PICK f \in Frames : toClient' = Append(toClient, f) /\ f[1] # "approval"
        BY <2>2, <3>2 DEF Tells
      <4>2. /\ DOMAIN toClient' = 1..(n + 1) /\ toClient'[n + 1] = f
            /\ \A j \in 1..n : toClient'[j] = toClient[j]
        BY <1>1, <4>1, AppendIs
      <4>3. \A c \in Calls : ApprovalEvent(c)[1] = "approval"
        BY FrameShapes
      <4>4. ASSUME NEW j \in 1..(n + 1), NEW c \in Calls, toClient'[j] = ApprovalEvent(c)
            PROVE  c = asking
        <5>1. j # n + 1
          BY <4>1, <4>2, <4>3, <4>4
        <5>2. j \in 1..n
          BY <1>1, <5>1
        <5>. QED
          BY <1>1, <1>4, <2>1, <4>2, <4>4, <5>2
      <4>. QED
        BY <4>2, <4>4
    <3>. QED
      BY <3>1, <3>2
  <2>3. ASSUME toServer # <<>>, toServer' = Tail(toServer)
        PROVE  /\ 1 \in 1..m /\ Head(toServer) = toServer[1] /\ DOMAIN toServer' = 1..(m - 1)
               /\ \A i \in 1..(m - 1) : /\ i + 1 \in 1..m
                                       /\ toServer'[i] = toServer[i + 1]
    BY <1>1, <2>3, TailIs
  <2>4. CASE TurnBegins
    <3>1. /\ toServer # <<>> /\ toServer' = Tail(toServer)
          /\ UNCHANGED <<toClient, asking>>
      BY <2>4 DEF TurnBegins
    <3>2. Sends(toServer', asking')
      BY <1>4, <2>1, <2>3, <3>1
    <3>. QED
      BY <1>4, <2>1, <3>1, <3>2
  <2>5. CASE LineRead /\ asking' = asking
    <3>1. toServer # <<>> /\ toServer' = Tail(toServer) /\ Tells
      BY <2>5 DEF LineRead
    <3>2. Sends(toServer', asking')
      BY <1>4, <2>1, <2>3, <2>5, <3>1
    <3>3. Told(toClient', asking')
      BY <2>2, <2>5, <3>1
    <3>. QED
      BY <1>4, <2>1, <2>5, <3>2, <3>3
  <2>6. CASE LineRead /\ asking' # asking
    <3>. DEFINE i == toServer[1]
    <3>1. /\ toServer # <<>> /\ toServer' = Tail(toServer) /\ Tells /\ asking' = NoCall
          /\ method[Head(toServer)] = "chat.approve" /\ arg[Head(toServer)] = asking
      BY <2>6 DEF LineRead
    <3>2. i \in Approves /\ arg[i] = asking /\ asking \in Calls
      BY <1>1, <1>2, <2>3, <3>1 DEF Approves, Sent
    <3>3. approval = NoCall
      BY <1>4, <2>1, <3>2 DEF FrontendInv, CallsOnce
    <3>4. \A j \in 1..n, c \in Calls : toClient[j] # ApprovalEvent(c)
      BY <1>1, <1>4, <2>1, <3>2 DEF FrontendInv, CallsOnce
    <3>5. Told(toClient', asking')
      <4>1. CASE toClient' = toClient
        BY <1>1, <3>4, <4>1
      <4>2. CASE toClient' # toClient
        <5>1. PICK f \in Frames : toClient' = Append(toClient, f) /\ f[1] # "approval"
          BY <3>1, <4>2 DEF Tells
        <5>2. /\ DOMAIN toClient' = 1..(n + 1) /\ toClient'[n + 1] = f
              /\ \A j \in 1..n : toClient'[j] = toClient[j]
          BY <1>1, <5>1, AppendIs
        <5>3. \A c \in Calls : ApprovalEvent(c)[1] = "approval"
          BY FrameShapes
        <5>4. ASSUME NEW j \in 1..(n + 1), NEW c \in Calls PROVE toClient'[j] # ApprovalEvent(c)
          <6>1. CASE j = n + 1
            BY <5>1, <5>2, <5>3, <6>1
          <6>2. CASE j # n + 1
            BY <1>1, <3>4, <5>2, <6>2
          <6>. QED
            BY <6>1, <6>2
        <5>. QED
          BY <5>2, <5>4
      <4>. QED
        BY <4>1, <4>2
    <3>6. ASSUME NEW j \in 1..(m - 1), method[toServer'[j]] = "chat.approve" PROVE FALSE
      <4>1. /\ j + 1 \in 1..m /\ toServer'[j] = toServer[j + 1] /\ 1 < j + 1
        BY <1>1, <2>3, <3>1, <3>6
      <4>2. toServer[j + 1] \in Approves /\ arg[toServer[j + 1]] = arg[i]
        BY <1>2, <1>4, <2>1, <3>2, <3>6, <4>1 DEF Approves, Sent
      <4>3. toServer[j + 1] = i
        BY <3>2, <4>2 DEF FrontendInv, CallsOnce
      <4>4. i < toServer[j + 1] /\ i \in Nat
        BY <1>2, <2>3, <3>1, <4>1 DEF Ids
      <4>. QED
        BY <4>3, <4>4
    <3>7. Sends(toServer', asking')
      BY <2>1, <2>3, <3>1, <3>6
    <3>. QED
      BY <2>1, <3>3, <3>5, <3>7
  <2>7. CASE ServerWorks
    <3>1. UNCHANGED <<toServer, asking>> /\ Tells
      BY <2>7 DEF ServerWorks
    <3>2. Told(toClient', asking')
      BY <2>2, <3>1
    <3>. QED
      BY <1>1, <1>4, <2>1, <3>1, <3>2
  <2>8. CASE TurnAsks
    <3>1. /\ <<slot, asked + 1>> \in Calls /\ asking' = <<slot, asked + 1>>
          /\ toClient' = Append(toClient, ApprovalEvent(<<slot, asked + 1>>))
      BY <2>8, NextCall
    <3>2. asking = NoCall /\ toServer' = toServer
      BY <2>8 DEF TurnAsks
    <3>3. approval = NoCall /\ \A j \in 1..n, c \in Calls : toClient[j] # ApprovalEvent(c)
      BY <1>1, <1>4, <2>1, <3>2
    <3>4. \A j \in 1..m : method[toServer[j]] # "chat.approve"
      BY <1>1, <1>2, <1>4, <2>1, <3>2 DEF Approves, Sent
    <3>5. /\ DOMAIN toClient' = 1..(n + 1) /\ toClient'[n + 1] = ApprovalEvent(asking')
          /\ \A j \in 1..n : toClient'[j] = toClient[j]
      BY <1>1, <3>1, FrameShapes, AppendIs
    <3>6. ASSUME NEW j \in 1..(n + 1), NEW c \in Calls, toClient'[j] = ApprovalEvent(c)
          PROVE  c = asking'
      <4>1. j = n + 1
        BY <1>1, <3>3, <3>5, <3>6
      <4>2. ApprovalEvent(c)[2] = c /\ ApprovalEvent(asking')[2] = asking'
        BY <3>1, FrameShapes
      <4>. QED
        BY <3>5, <3>6, <4>1, <4>2
    <3>. QED
      BY <1>1, <2>1, <3>2, <3>3, <3>4, <3>5, <3>6
  <2>. QED
    BY <1>8, <2>4, <2>5, <2>6, <2>7, <2>8, ServerViews
<1>. QED
  BY <1>5, <1>6, <1>7, <1>8, StepViews

LEMMA ReachableKept ==
  ASSUME FrontendInv, [Next]_vars
  PROVE  ApprovalReachable'
<1>. DEFINE n == Len(toClient)
            m == Len(toServer)
<1>1. /\ toClient \in Seq(Frames) /\ n \in Nat /\ DOMAIN toClient = 1..n
      /\ toServer \in Seq(Ids) /\ m \in Nat /\ DOMAIN toServer = 1..m
      /\ asking \in Calls \cup {NoCall} /\ AskedLast
      /\ \A j \in 1..m : toServer[j] \in Ids /\ toServer[j] < nextId
  BY DEF FrontendInv, TypeOK, RequestsInTurn
<1>2. asking # NoCall /\ alive /\ app = "running" =>
        \/ \E i \in 1..n : toClient[i] = ApprovalEvent(asking)
        \/ approval = asking
        \/ \E i \in 1..m : method[toServer[i]] = "chat.approve" /\ arg[toServer[i]] = asking
        \/ stopping # "no"
  BY <1>1 DEF FrontendInv, ApprovalReachable
<1>. SUFFICES ASSUME asking' # NoCall, alive', app' = "running", stopping' = "no"
              PROVE  \/ \E i \in DOMAIN toClient' : toClient'[i] = ApprovalEvent(asking')
                     \/ approval' = asking'
                     \/ \E i \in DOMAIN toServer' :
                          /\ method'[toServer'[i]] = "chat.approve"
                          /\ arg'[toServer'[i]] = asking'
  BY DEF ApprovalReachable
<1>. DEFINE Decided == \E i \in DOMAIN toServer' :
                         /\ method'[toServer'[i]] = "chat.approve"
                         /\ arg'[toServer'[i]] = asking'
            Asked == \E i \in DOMAIN toClient' : toClient'[i] = ApprovalEvent(asking')
<1>3. CASE SendStep
  <2>1. PICK k \in Methods : \E a :
          /\ Asks(k, a)
          /\ toServer' = IF alive THEN Append(toServer, nextId) ELSE toServer
          /\ UNCHANGED <<toClient, childVars>>
          /\ \/ k # "chat.approve" /\ approval' = approval
             \/ k = "chat.approve" /\ a = approval /\ approval # NoCall /\ approval' = NoCall
          /\ app' = "running" => app = "running"
    BY <1>3 DEF SendStep
  <2>2. /\ UNCHANGED <<toClient, asking, alive, stopping>> /\ app = "running" /\ nextId \in Ids
        /\ toServer' = Append(toServer, nextId)
    BY <2>1 DEF childVars, turnVars, Asks
  <2>3. /\ DOMAIN toServer' = 1..(m + 1) /\ toServer'[m + 1] = nextId
        /\ \A i \in 1..m : toServer'[i] = toServer[i]
    BY <1>1, <2>2, AppendIs
  <2>4. CASE \E i \in 1..m : method[toServer[i]] = "chat.approve" /\ arg[toServer[i]] = asking
    <3>1. PICK i \in 1..m : method[toServer[i]] = "chat.approve" /\ arg[toServer[i]] = asking
      BY <2>4
    <3>2. toServer[i] # nextId
      <4>1. toServer[i] \in Nat /\ nextId \in Nat /\ toServer[i] < nextId
        BY <1>1, <2>2 DEF Ids
      <4>. QED
        BY <4>1
    <3>3. i \in 1..(m + 1)
      BY <1>1
    <3>. QED
      BY <1>1, <2>1, <2>2, <2>3, <3>1, <3>2, <3>3 DEF Asks
  <2>5. CASE approval = asking /\ approval' # approval
    <3>1. method'[nextId] = "chat.approve" /\ arg'[nextId] = asking
      BY <2>1, <2>5 DEF Asks
    <3>2. m + 1 \in 1..(m + 1)
      BY <1>1
    <3>. QED
      BY <2>2, <2>3, <3>1, <3>2
  <2>. QED
    BY <1>1, <1>2, <2>2, <2>4, <2>5
<1>4. CASE QuietStep
  <2>1. /\ UNCHANGED <<toServer, toClient, approval, asking, stopping, slot, method, arg>>
        /\ alive /\ app \in {"running", "status"}
    BY <1>4 DEF QuietStep, turnVars, Settles, FrontendInv, TypeOK
  <2>2. app = "running"
    <3>. SUFFICES ASSUME app = "status" PROVE FALSE
      BY <2>1
    <3>1. slot \in Ids /\ method[slot] = "chat.send"
      BY <1>1, <2>1 DEF AskedLast, FrontendInv, TypeOK, Sent
    <3>. QED
      BY <3>1 DEF FrontendInv, Stages
  <2>. QED
    BY <1>1, <1>2, <2>1, <2>2
<1>5. CASE LineArrives
  <2>1. /\ toClient # <<>> /\ toClient' = Tail(toClient)
        /\ UNCHANGED <<toServer, asking, stopping, alive, app, method, arg>>
    BY <1>5 DEF LineArrives, childVars, turnVars
  <2>2. /\ DOMAIN toClient' = 1..(n - 1) /\ 1 \in 1..n /\ Head(toClient) = toClient[1]
        /\ \A i \in 1..(n - 1) : i + 1 \in 1..n /\ toClient'[i] = toClient[i + 1]
    BY <1>1, <2>1, TailIs
  <2>3. /\ Head(toClient)[1] = "approval" => approval' = Head(toClient)[2]
        /\ Head(toClient)[1] # "approval" => approval' = approval
    BY <1>5, <2>1 DEF LineArrives, ResponseArrives, ReadyArrives, ApprovalArrives
  <2>4. asking \in Calls /\ ApprovalEvent(asking)[2] = asking
        /\ ApprovalEvent(asking)[1] = "approval"
    BY <1>1, <2>1, FrameShapes
  <2>5. CASE \E i \in 1..n : toClient[i] = ApprovalEvent(asking)
    <3>1. PICK i \in 1..n : toClient[i] = ApprovalEvent(asking)
      BY <2>5
    <3>2. CASE i = 1
      BY <2>1, <2>2, <2>3, <2>4, <3>1, <3>2
    <3>3. CASE i # 1
      <4>1. i - 1 \in 1..(n - 1) /\ (i - 1) + 1 = i
        BY <1>1, <3>3
      <4>2. toClient'[i - 1] = ApprovalEvent(asking)
        BY <2>2, <3>1, <4>1
      <4>. QED
        BY <2>1, <2>2, <4>1, <4>2
    <3>. QED
      BY <3>2, <3>3
  <2>6. CASE /\ approval = asking
             /\ ~ \E i \in 1..n : toClient[i] = ApprovalEvent(asking)
    <3>1. Head(toClient)[1] # "approval"
      BY <1>1, <2>1, <2>2, <2>6 DEF AskedLast
    <3>. QED
      BY <2>1, <2>3, <2>6, <3>1
  <2>. QED
    BY <1>1, <1>2, <2>1, <2>5, <2>6
<1>6. CASE ServerStep
  <2>1. UNCHANGED <<approval, app, method, arg>>
    BY <1>6, ServerQuiet DEF ClientUnchanged, clientVars, callVars
  <2>2. ASSUME Tells, NEW i \in 1..n, toClient[i] = ApprovalEvent(asking'), toClient' # toClient
        PROVE  Asked
    <3>1. PICK f \in Frames : toClient' = Append(toClient, f)
      BY <2>2 DEF Tells
    <3>2. /\ DOMAIN toClient' = 1..(n + 1)
          /\ \A j \in 1..n : toClient'[j] = toClient[j]
      BY <1>1, <3>1, AppendIs
    <3>3. i \in 1..(n + 1)
      BY <1>1
    <3>. QED
      BY <2>2, <3>2, <3>3
  <2>3. Tells /\ (\E i \in 1..n : toClient[i] = ApprovalEvent(asking')) => Asked
    BY <1>1, <2>2
  <2>. HIDE DEF Asked
  <2>4. CASE TurnBegins
    BY <1>1, <2>4 DEF TurnBegins, AskedLast
  <2>5. CASE LineRead
    <3>1. /\ toServer # <<>> /\ toServer' = Tail(toServer) /\ Tells /\ asking' = asking
          /\ method[Head(toServer)] # "chat.approve" \/ arg[Head(toServer)] # asking
          /\ stopping = "no" /\ alive
      BY <2>5 DEF LineRead
    <3>2. /\ DOMAIN toServer' = 1..(m - 1) /\ Head(toServer) = toServer[1]
          /\ \A i \in 1..(m - 1) : i + 1 \in 1..m /\ toServer'[i] = toServer[i + 1]
      BY <1>1, <3>1, TailIs
    <3>3. CASE \E i \in 1..m : method[toServer[i]] = "chat.approve" /\ arg[toServer[i]] = asking
      <4>1. PICK i \in 1..m : method[toServer[i]] = "chat.approve" /\ arg[toServer[i]] = asking
        BY <3>3
      <4>2. i # 1
        BY <3>1, <3>2, <4>1
      <4>3. i - 1 \in 1..(m - 1) /\ (i - 1) + 1 = i
        BY <1>1, <4>2
      <4>4. toServer'[i - 1] = toServer[i]
        BY <3>2, <4>3
      <4>. QED
        BY <2>1, <3>1, <3>2, <4>1, <4>3, <4>4
    <3>. QED
      BY <1>2, <2>1, <2>3, <3>1, <3>3 DEF Asked
  <2>6. CASE ServerWorks
    <3>1. /\ UNCHANGED <<toServer, asking, stopping>> /\ Tells /\ alive
      BY <2>6 DEF ServerWorks, FrontendInv, TypeOK
    <3>. QED
      BY <1>1, <1>2, <2>1, <2>3, <3>1 DEF Asked
  <2>7. CASE TurnAsks
    <3>1. /\ <<slot, asked + 1>> \in Calls /\ asking' = <<slot, asked + 1>>
          /\ toClient' = Append(toClient, ApprovalEvent(<<slot, asked + 1>>))
      BY <2>7, NextCall
    <3>2. toClient' = Append(toClient, ApprovalEvent(asking')) /\ ApprovalEvent(asking') \in Frames
      BY <3>1, FrameShapes
    <3>3. DOMAIN toClient' = 1..(n + 1) /\ toClient'[n + 1] = ApprovalEvent(asking')
      BY <1>1, <3>2, AppendIs
    <3>4. n + 1 \in 1..(n + 1)
      BY <1>1
    <3>. QED
      BY <3>3, <3>4
  <2>. QED
    BY <1>6, <2>4, <2>5, <2>6, <2>7, ServerViews
<1>. QED
  BY <1>3, <1>4, <1>5, <1>6, StepViews

-----------------------------------------------------------------------------
(* Types.                                                                  *)

Flags ==
  /\ ready \in {"waiting", "resolved", "rejected"}
  /\ closed \in BOOLEAN /\ chunk \in BOOLEAN
  /\ app \in {"starting", "status", "failed", "running", "leaving", "done", "silent"}
  /\ keys \in 0..MaxKeys
  /\ {alive, announced, exitSeen, replied, cancelled} \subseteq BOOLEAN
  /\ stopping \in {"no", "cancels", "waits"}

LEMMA FlagsKept ==
  ASSUME Flags, [Next]_vars
  PROVE  Flags'
<1>. USE DEF Flags
<1>1. ASSUME NEW p, NEW k, NEW ts, SubmitCore(p, k, ts) PROVE UNCHANGED <<ready, closed>>
  BY <1>1 DEF SubmitCore, Send, SendsNothing, clientVars
<1>2. ASSUME NEW k \in Kinds, Submit(k) PROVE Flags'
  <2>1. UNCHANGED <<ready, closed>>
    BY <1>1, <1>2 DEF Submit, Enqueue, SendsNothing, clientVars
  <2>. QED
    BY <1>2, <2>1 DEF Submit, Macrotask, childVars, turnVars
<1>3. CASE TimerFires
  BY <1>1, <1>3 DEF TimerFires, Macrotask, childVars, turnVars
<1>4. CASE LineArrives
  <2>1. ready' \in {ready, "resolved", "rejected"}
    BY <1>4 DEF LineArrives, ResponseArrives, ReadyArrives, ApprovalArrives
  <2>. QED
    BY <1>4, <2>1 DEF LineArrives, childVars, turnVars
<1>5. CASE ExitArrives \/ SpawnFails \/ LoopEmpties
  BY <1>5 DEF ExitArrives, SpawnFails, LoopEmpties, Macrotask, clientVars, childVars, turnVars
<1>6. ASSUME NEW i \in continuations,
             \/ ChatSettled(i) \/ CommandSettled(i) \/ ExitCommandSettled(i)
             \/ StatusSettled(i) \/ OtherSettled(i)
      PROVE  Flags'
  <2>1. UNCHANGED <<ready, closed>> /\ chunk' = FALSE /\ NothingElse
    BY <1>6 DEF ChatSettled, CommandSettled, ExitCommandSettled, StatusSettled, OtherSettled,
       Resumes, Continues, Send
  <2>2. app' \in {app, "running"}
    BY <1>6 DEF ChatSettled, CommandSettled, ExitCommandSettled, StatusSettled, OtherSettled
  <2>. QED
    BY <2>1, <2>2 DEF NothingElse, childVars, turnVars
<1>7. ASSUME NEW i \in continuations, ShutdownSettled(i) PROVE Flags'
  BY <1>7 DEF ShutdownSettled, Resumes, turnVars
<1>8. CASE ReadySettled
  BY <1>8 DEF ReadySettled, Send, NothingElse, childVars, turnVars
<1>9. CASE Interrupt \/ Quit \/ CtrlC \/ Clear
  <2>1. /\ keys < MaxKeys /\ keys' = keys + 1 /\ chunk' = FALSE /\ app' \in {app, "leaving"}
        /\ UNCHANGED <<exitSeen, childVars, ready, closed>>
    BY <1>9 DEF Interrupt, Quit, CtrlC, Clear, ControlKey, Macrotask, Send
  <2>2. keys' \in 0..MaxKeys
    BY <2>1, FrontendAssumption
  <2>. QED
    BY <2>1, <2>2 DEF childVars, turnVars
<1>10. CASE Decide
  BY <1>10 DEF Decide, Macrotask, Send, childVars, turnVars
<1>11. CASE ServerStep
  <2>1. UNCHANGED <<ready, closed, chunk, app, keys, exitSeen>>
    BY <1>11, ServerQuiet DEF ClientUnchanged, clientVars
  <2>2. CASE ReadLine
    <3>1. ASSUME NEW i \in Ids, ReadsChatSend(i) \/ ReadsChatCancel(i) \/ ReadsChatApprove(i)
                                \/ ReadsSessionNew(i)
          PROVE  UNCHANGED <<alive, announced, replied, stopping>>
      BY <3>1 DEF ReadsChatSend, ReadsChatCancel, ReadsChatApprove, ReadsSessionNew, Reads
    <3>2. ASSUME NEW i \in Ids, ReadsCommand(i) \/ ReadsToolsRun(i) \/ ReadsShutdown(i)
          PROVE  /\ UNCHANGED <<alive, announced, replied>>
                 /\ stopping' \in {stopping, "cancels", "waits"}
      BY <3>2 DEF ReadsCommand, ReadsToolsRun, ReadsShutdown, Reads, turnVars
    <3>3. ASSUME NEW i \in Ids, ReadsChatCancel(i) PROVE cancelled' \in BOOLEAN
      BY <3>3 DEF ReadsChatCancel
    <3>4. ASSUME NEW i \in Ids, ReadsChatSend(i) \/ ReadsChatApprove(i) \/ ReadsSessionNew(i)
          PROVE  cancelled' \in {cancelled, FALSE}
      BY <3>4 DEF ReadsChatSend, ReadsChatApprove, ReadsSessionNew
    <3>5. ASSUME NEW i \in Ids, ReadsCommand(i) \/ ReadsToolsRun(i) \/ ReadsShutdown(i)
          PROVE  cancelled' = cancelled
      BY <3>5 DEF ReadsCommand, ReadsToolsRun, ReadsShutdown, turnVars
    <3>6. cancelled' \in BOOLEAN
      BY <2>2, <3>3, <3>4, <3>5 DEF ReadLine
    <3>. QED
      BY <2>1, <2>2, <3>1, <3>2, <3>6 DEF ReadLine
  <2>3. CASE Announce \/ TurnEnds \/ SlotReleased \/ BackendExits \/ TurnAsks \/ Dies
             \/ \E i \in running : ToolsRunEnds(i)
    BY <2>1, <2>3 DEF Announce, TurnEnds, SlotReleased, BackendExits, TurnAsks, Dies,
       ToolsRunEnds, turnVars
  <2>. QED
    BY <1>11, <2>2, <2>3 DEF ServerStep, Backend
<1>12. CASE UNCHANGED vars
  BY <1>12 DEF vars, clientVars, childVars, turnVars
<1>. QED
  BY <1>2, <1>3, <1>4, <1>5, <1>6, <1>7, <1>8, <1>9, <1>10, <1>11, <1>12
     DEF Next, Client, Continuation, User, ServerStep

LEMMA RequestsTyped ==
  ASSUME FrontendInv, [Next]_vars
  PROVE  /\ nextId' \in Nat \ {0}
         /\ method' \in [Ids -> Methods \cup {"none"}]
         /\ call' \in [Ids -> {"unused", "pending", "resolved", "rejected"}]
         /\ continuations' \subseteq Ids
         /\ \A i \in PromptRequests' : arg'[i] \in Prompts
         /\ \A i \in Sent("chat.cancel")' : arg'[i] \in Sent("chat.send")'
         /\ \A i \in Sent("chat.approve")' : arg'[i] \in Calls
         /\ Sent("chat.send") \subseteq Sent("chat.send")'
<1>1. /\ nextId \in Nat \ {0} /\ method \in [Ids -> Methods \cup {"none"}]
      /\ \A i \in PromptRequests : arg[i] \in Prompts
      /\ \A i \in Sent("chat.cancel") : arg[i] \in Sent("chat.send")
      /\ \A i \in Sent("chat.approve") : arg[i] \in Calls
      /\ continuations \subseteq Ids
      /\ active \in Sent("chat.send") \cup {0} /\ approval \in Calls \cup {NoCall}
  BY DEF FrontendInv, TypeOK
<1>2. CASE Settles
  BY <1>1, <1>2 DEF Settles, PromptRequests, Sent
<1>3. CASE SendStep
  <2>. DEFINE About(m, a) ==
          /\ Asks(m, a)
          /\ \/ m # "chat.approve"
             \/ m = "chat.approve" /\ a = approval /\ approval # NoCall
          /\ m = "chat.cancel" => a = active /\ active # 0
          /\ m \in PromptMethods => a \in Prompts
  <2>0. PICK m \in Methods : \E a : About(m, a)
    BY <1>3 DEF SendStep
  <2>1. PICK a : About(m, a)
    BY <2>0
  <2>2. /\ nextId' = nextId + 1 /\ nextId \in Ids
        /\ method' \in [Ids -> Methods \cup {"none"}]
        /\ method[nextId] = "none" /\ method'[nextId] = m /\ arg'[nextId] = a
        /\ \A i \in Ids : i # nextId => method'[i] = method[i] /\ arg'[i] = arg[i]
    BY <2>1 DEF Asks
  <2>3. Sent("chat.send") \subseteq Sent("chat.send")'
    BY <2>2 DEF Sent
  <2>4. ASSUME NEW i \in Ids, method'[i] \in PromptMethods PROVE arg'[i] \in Prompts
    BY <1>1, <2>1, <2>2, <2>4 DEF PromptRequests
  <2>5. ASSUME NEW i \in Ids, method'[i] = "chat.cancel" PROVE arg'[i] \in Sent("chat.send")'
    <3>1. arg'[i] \in Sent("chat.send")
      BY <1>1, <2>1, <2>2, <2>5 DEF Sent
    <3>. QED
      BY <2>3, <3>1
  <2>6. ASSUME NEW i \in Ids, method'[i] = "chat.approve" PROVE arg'[i] \in Calls
    BY <1>1, <2>1, <2>2, <2>6 DEF Sent
  <2>. QED
    BY <1>1, <2>1, <2>2, <2>3, <2>4, <2>5, <2>6 DEF Asks, PromptRequests, Sent
<1>4. QuietStep \/ LineArrives \/ ServerStep => Settles
  BY SettlingSteps DEF QuietStep
<1>. QED
  BY <1>2, <1>3, <1>4, StepViews

(* What is typed and shown.                                                *)
LEMMA LinesTyped ==
  ASSUME FrontendInv, [Next]_vars
  PROVE  /\ kindOf' \in [Prompts -> Kinds \cup {"none"}]
         /\ held' \subseteq Prompts
         /\ transcript' \subseteq Prompts
<1>1. /\ kindOf \in [Prompts -> Kinds \cup {"none"}] /\ held \subseteq Prompts
      /\ transcript \subseteq Prompts
  BY DEF FrontendInv, TypeOK
<1>2. kindOf' \in [Prompts -> Kinds \cup {"none"}] /\ held' \subseteq Prompts
  <2>1. UNCHANGED kindOf \/ \E p \in Prompts, k \in Kinds : kindOf' = [kindOf EXCEPT ![p] = k]
    BY LinesOfSteps DEF LineStep, Types, Leaves
  <2>2. held' = held \/ \E p \in Prompts : held' = held \cup {p}
    BY LinesOfSteps DEF LineStep, WaitingStays, Leaves
  <2>. QED
    BY <1>1, <2>1, <2>2
<1>3. ASSUME NEW p \in Prompts, NEW k, NEW ts, SubmitCore(p, k, ts)
      PROVE  transcript' \subseteq Prompts
  BY <1>1, <1>3 DEF SubmitCore
<1>4. ASSUME NEW k \in Kinds, Submit(k) PROVE transcript' \subseteq Prompts
  BY <1>1, <1>3, <1>4, NextLine DEF Submit, Enqueue
<1>5. ASSUME TimerFires PROVE transcript' \subseteq Prompts
  BY <1>3, <1>5, TimerLine DEF TimerFires
<1>6. ASSUME UNCHANGED transcript PROVE transcript' \subseteq Prompts
  BY <1>1, <1>6
<1>7. (\E i \in continuations :
         \/ ChatSettled(i) \/ CommandSettled(i) \/ ExitCommandSettled(i)
         \/ ShutdownSettled(i) \/ StatusSettled(i) \/ OtherSettled(i)) => UNCHANGED transcript
  BY DEF ChatSettled, CommandSettled, ExitCommandSettled, ShutdownSettled, StatusSettled,
     OtherSettled, promptVars
<1>8. (\/ LineArrives \/ ExitArrives \/ SpawnFails \/ LoopEmpties \/ ReadySettled
       \/ Interrupt \/ Quit \/ CtrlC \/ Clear \/ Decide) => UNCHANGED transcript
  BY DEF LineArrives, ExitArrives, SpawnFails, LoopEmpties, ReadySettled, Interrupt, Quit,
     CtrlC, Clear, Decide, ControlKey, promptVars
<1>9. ServerStep \/ UNCHANGED vars => UNCHANGED transcript
  BY ServerQuiet DEF ClientUnchanged, promptVars, vars
<1>. QED
  BY <1>2, <1>4, <1>5, <1>6, <1>7, <1>8, <1>9 DEF Next, Client, Continuation, User, ServerStep

(* The pipes and what the gateway keeps.                                   *)
LEMMA PipesTyped ==
  ASSUME FrontendInv, [Next]_vars
  PROVE  toServer' \in Seq(Ids) /\ toClient' \in Seq(Frames) /\ approval' \in Calls \cup {NoCall}
<1>1. /\ toServer \in Seq(Ids) /\ toClient \in Seq(Frames)
      /\ approval \in Calls \cup {NoCall}
  BY DEF FrontendInv, TypeOK
<1>2. toClient' \in Seq(Frames)
  <2>1. CASE toClient # <<>> /\ toClient' = Tail(toClient)
    BY <1>1, <2>1, TailIs
  <2>2. ASSUME NEW f \in Frames, toClient' = Append(toClient, f) PROVE toClient' \in Seq(Frames)
    BY <1>1, <2>2, AppendIs
  <2>. QED
    BY <1>1, <2>1, <2>2, FramesOfSteps
<1>3. approval' \in Calls \cup {NoCall}
  BY <1>1, ApprovalOfSteps
<1>4. \/ toServer' = toServer
      \/ toServer # <<>> /\ toServer' = Tail(toServer)
      \/ nextId \in Ids /\ toServer' = Append(toServer, nextId)
  <2>1. SendStep => \/ toServer' = toServer
                    \/ nextId \in Ids /\ toServer' = Append(toServer, nextId)
    BY DEF SendStep, Asks
  <2>2. QuietStep \/ LineArrives => toServer' = toServer
    BY DEF QuietStep, LineArrives
  <2>3. ServerStep => toServer' = toServer \/ (toServer # <<>> /\ toServer' = Tail(toServer))
    BY ServerViews DEF TurnBegins, LineRead, ServerWorks, TurnAsks
  <2>. QED
    BY <2>1, <2>2, <2>3, StepViews
<1>5. toServer' \in Seq(Ids)
  BY <1>1, <1>4, AppendIs, TailIs
<1>. QED
  BY <1>2, <1>3, <1>5

LEMMA TurnTyped ==
  ASSUME FrontendInv, [Next]_vars
  PROVE  /\ slot' \in Sent("chat.send") \cup {0}
         /\ asking' \in Calls \cup {NoCall} /\ asked' \in 0..MaxCalls
         /\ conversation' \cup copied' \subseteq Prompts
         /\ running' \subseteq Ids
<1>. DEFINE Result == /\ slot' \in Sent("chat.send") \cup {0}
                      /\ asking' \in Calls \cup {NoCall} /\ asked' \in 0..MaxCalls
                      /\ conversation' \cup copied' \subseteq Prompts
                      /\ running' \subseteq Ids
<1>1. /\ slot \in Sent("chat.send") \cup {0}
      /\ asking \in Calls \cup {NoCall} /\ asked \in 0..MaxCalls
      /\ conversation \cup copied \subseteq Prompts
      /\ running \subseteq Ids
      /\ \A i \in Sent("chat.send") : arg[i] \in Prompts
      /\ MaxCalls \in Nat
  BY FrontendAssumption DEF FrontendInv, TypeOK, Sent, PromptRequests, PromptMethods
<1>2. CASE UNCHANGED <<turnVars, running>>
  BY <1>1, <1>2 DEF turnVars
<1>3. (SendStep \/ QuietStep \/ LineArrives) => UNCHANGED <<turnVars, running>>
  BY DEF SendStep, QuietStep, LineArrives, childVars
<1>4. ASSUME NEW i \in Ids, ReadsChatSend(i) PROVE Result
  <2>1. i \in Sent("chat.send")
    BY <1>4 DEF ReadsChatSend, Reads, Sent
  <2>2. /\ slot' \in {slot, i} /\ asked' \in {asked, 0} /\ copied' \in {copied, conversation}
        /\ UNCHANGED <<asking, conversation, running>>
    BY <1>4 DEF ReadsChatSend
  <2>. QED
    BY <1>1, <2>1, <2>2
<1>5. ASSUME NEW i \in Ids, ReadsChatCancel(i) \/ ReadsChatApprove(i) \/ ReadsSessionNew(i)
      PROVE  Result
  BY <1>1, <1>5 DEF ReadsChatCancel, ReadsChatApprove, ReadsSessionNew
<1>6. ASSUME NEW i \in Ids, ReadsCommand(i) \/ ReadsToolsRun(i) \/ ReadsShutdown(i)
      PROVE  Result
  BY <1>1, <1>6 DEF ReadsCommand, ReadsToolsRun, ReadsShutdown, turnVars
<1>7. CASE Announce \/ BackendExits \/ Dies \/ \E i \in running : ToolsRunEnds(i)
  BY <1>1, <1>7 DEF Announce, BackendExits, Dies, ToolsRunEnds, turnVars
<1>8. CASE TurnAsks
  <2>1. asking' \in Calls /\ asked' = asked + 1
    BY <1>8, NextCall
  <2>. QED
    BY <1>1, <1>8, <2>1 DEF TurnAsks
<1>9. CASE TurnEnds
  BY <1>1, <1>9 DEF TurnEnds
<1>10. CASE SlotReleased
  BY <1>1, <1>10 DEF SlotReleased
<1>. QED
  BY <1>2, <1>3, <1>4, <1>5, <1>6, <1>7, <1>8, <1>9, <1>10, StepViews
     DEF ServerStep, Backend, ReadLine

LEMMA TypeKept ==
  ASSUME FrontendInv, [Next]_vars
  PROVE  TypeOK'
<1>1. Flags'
  <2>1. Flags
    BY DEF FrontendInv, TypeOK, Flags
  <2>. QED
    BY <2>1, FlagsKept
<1>2. queue' \in Seq(Prompts) /\ timers' \in Seq(Prompts)
  BY LinesOfSteps DEF QueueTypes
<1>3. active' \in Sent("chat.send")' \cup {0}
  BY ActiveKept DEF Sent
<1>4. slot' \in Sent("chat.send")' \cup {0}
  BY RequestsTyped, TurnTyped
<1>. QED
  BY <1>1, <1>2, <1>3, <1>4, RequestsTyped, LinesTyped, PipesTyped, TurnTyped DEF TypeOK, Flags

-----------------------------------------------------------------------------
(* The theorems.                                                           *)

LEMMA FrontendInit ==
  ASSUME Init
  PROVE  FrontendInv
<1>. USE DEF Init
<1>1. /\ MaxKeys \in Nat /\ MaxCalls \in Nat /\ "none" \notin Kinds
      /\ "none" \notin Methods /\ "none" \notin PromptMethods /\ "none" \notin Sendable
  BY FrontendAssumption DEF AllKinds, Methods, PromptMethods, Sendable
<1>2. /\ PromptRequests = {} /\ Approves = {} /\ Exited = {} /\ Typed = {} /\ Waiting = {}
      /\ \A m \in Methods : Sent(m) = {}
  BY <1>1 DEF PromptRequests, Approves, Exited, Sent, Typed, Waiting, LinesOf
<1>3. Cardinality({}) = 0
  BY FS_EmptySet
<1>4. TypeOK
  <2>1. Sent("chat.cancel") = {} /\ Sent("chat.approve") = {}
    BY <1>2 DEF Methods
  <2>2. {alive, announced, exitSeen, replied, cancelled} \subseteq BOOLEAN
    OBVIOUS
  <2>21. keys \in 0..MaxKeys /\ nextId \in Nat \ {0}
    BY <1>1
  <2>3. /\ queue \in Seq(Prompts) /\ timers \in Seq(Prompts)
        /\ toServer \in Seq(Ids) /\ toClient \in Seq(Frames)
    OBVIOUS
  <2>4. /\ method \in [Ids -> Methods \cup {"none"}]
        /\ call \in [Ids -> {"unused", "pending", "resolved", "rejected"}]
        /\ kindOf \in [Prompts -> Kinds \cup {"none"}]
    OBVIOUS
  <2>5. asked \in 0..MaxCalls /\ conversation \cup copied \subseteq Prompts
    BY <1>1
  <2>6. /\ slot \in Sent("chat.send") \cup {0} /\ active \in Sent("chat.send") \cup {0}
        /\ asking \in Calls \cup {NoCall} /\ approval \in Calls \cup {NoCall}
    OBVIOUS
  <2>. QED
    BY <1>2, <2>1, <2>2, <2>21, <2>3, <2>4, <2>5, <2>6 DEF TypeOK
<1>5. Ledger
  BY <1>1 DEF Ledger, Ids
<1>6. LinesInOrder /\ LinesOnce
  <2>1. Submitted = 0
    BY <1>2, <1>3 DEF Submitted, Typed
  <2>2. HeldRequests = {}
    BY <1>2 DEF HeldRequests
  <2>3. QueueInOrder(timers, queue)
    BY DEF QueueInOrder, Ordered
  <2>. QED
    BY <1>1, <1>2, <2>1, <2>2, <2>3 DEF LinesInOrder, LinesOnce
<1>7. /\ RequestsInTurn /\ AskedLast /\ DecisionsCurrent
      /\ ActiveIsPending /\ ApprovalReachable
  BY DEF RequestsInTurn, Ordered, AskedLast, DecisionsCurrent, ActiveIsPending, ApprovalReachable
<1>8. CallsOnce
  BY <1>2 DEF CallsOnce
<1>9. Stages
  BY <1>2 DEF Stages, Methods
<1>10. RequestsCounted
  BY <1>2, <1>3 DEF RequestsCounted, Causes
<1>. QED
  BY <1>4, <1>5, <1>6, <1>7, <1>8, <1>9, <1>10 DEF FrontendInv

LEMMA FrontendStep ==
  ASSUME FrontendInv, [Next]_vars
  PROVE  FrontendInv'
BY TypeKept, LedgerKept, OrderKept, RequestsInTurnKept, CallsOnceKept, AskedLastKept,
   DecisionsCurrentKept, StagesKept, CountKept, ActiveKept, ReachableKept
   DEF FrontendInv

(* The parts of FrontendInv hold at every moment: in particular every      *)
(* request has an id within the bound that the lines, the calls and the    *)
(* keys allow, and is sent for one cause.                                  *)
THEOREM FrontendInvHolds == Spec => []FrontendInv
<1>1. Init => FrontendInv
  BY FrontendInit
<1>2. FrontendInv /\ [Next]_vars => FrontendInv'
  BY FrontendStep
<1>. QED
  BY <1>1, <1>2, PTL DEF Spec

(* The variables of the TUI keep their types: chat.cancel names a turn     *)
(* that was sent and chat.approve a call that was asked about.             *)
THEOREM FrontendTypes == Spec => []TypeOK
<1>1. FrontendInv => TypeOK
  BY DEF FrontendInv
<1>. QED
  BY <1>1, FrontendInvHolds, PTL

(* activeRequestRef never names a turn whose answer was handled, however   *)
(* answers, the exit of the child, timers and keys follow each other: no   *)
(* line is queued behind a turn that is over.                              *)
THEOREM ActiveStaysPending == Spec => []ActiveIsPending
<1>1. FrontendInv => ActiveIsPending
  BY DEF FrontendInv
<1>. QED
  BY <1>1, FrontendInvHolds, PTL

(* While a turn waits for a decision, one that chat.cancel has flagged     *)
(* included, its request is in the pipe, on the screen or decided, for any *)
(* number of turns and calls: setPendingApproval never replaces a prompt   *)
(* that a turn waits on.                                                   *)
THEOREM ApprovalsReachable == Spec => []ApprovalReachable
<1>1. FrontendInv => ApprovalReachable
  BY DEF FrontendInv
<1>. QED
  BY <1>1, FrontendInvHolds, PTL

(* A decision that is under way to a gateway that runs is the only one and *)
(* names the call its turn waits for, however cancels, turns and prompts   *)
(* overlap and whatever ids the provider gave its calls.                   *)
THEOREM DecisionsMeetTheirCalls == Spec => []DecisionsMeetTheirCall
<1>1. FrontendInv => DecisionsMeetTheirCall
  <2>. SUFFICES ASSUME FrontendInv, alive,
                       NEW j \in DOMAIN toServer, method[toServer[j]] = "chat.approve",
                       NEW k \in DOMAIN toServer, method[toServer[k]] = "chat.approve"
                PROVE  arg[toServer[j]] = asking /\ j = k
    BY DEF DecisionsMeetTheirCall
  <2>1. /\ DOMAIN toServer = 1..Len(toServer) /\ Len(toServer) \in Nat
        /\ toServer[j] \in Ids /\ toServer[k] \in Ids
    BY DEF FrontendInv, TypeOK
  <2>2. arg[toServer[j]] = asking /\ arg[toServer[k]] = asking
    BY DEF FrontendInv, DecisionsCurrent
  <2>3. toServer[j] = toServer[k]
    BY <2>1, <2>2 DEF FrontendInv, CallsOnce, Approves, Sent
  <2>4. ~(j < k) /\ ~(k < j)
    BY <2>1, <2>3 DEF FrontendInv, RequestsInTurn, Ordered, Ids
  <2>. QED
    BY <2>1, <2>2, <2>4
<1>. QED
  BY <1>1, FrontendInvHolds, PTL

(* The lines that wait, first those with a timer.                          *)
LEMMA WaitingInOrder ==
  ASSUME NEW s \in Seq(Prompts), NEW t \in Seq(Prompts), QueueInOrder(s, t)
  PROVE  /\ Ordered(s \o t)
         /\ \A j \in DOMAIN (s \o t) : (s \o t)[j] \in LinesOf(s, t)
<1>. DEFINE n == Len(s)
            m == Len(t)
            w == s \o t
<1>1. /\ n \in Nat /\ m \in Nat /\ DOMAIN s = 1..n /\ DOMAIN t = 1..m
      /\ DOMAIN w = 1..(n + m)
      /\ \A i \in 1..(n + m) : w[i] = IF i <= n THEN s[i] ELSE t[i - n]
  OBVIOUS
<1>. HIDE DEF n, m, w
<1>2. \A i \in 1..(n + m) : /\ i <= n => i \in 1..n /\ w[i] = s[i]
                            /\ ~(i <= n) => i - n \in 1..m /\ w[i] = t[i - n]
  BY <1>1
<1>3. /\ \A i, j \in 1..n : i < j => s[i] < s[j]
      /\ \A i, j \in 1..m : i < j => t[i] < t[j]
      /\ \A i \in 1..n, j \in 1..m : s[i] < t[j]
  BY <1>1 DEF QueueInOrder, Ordered
<1>4. ASSUME NEW i \in 1..(n + m), NEW j \in 1..(n + m), i < j
      PROVE  w[i] < w[j]
  <2>1. CASE j <= n
    <3>1. i <= n
      BY <1>1, <1>4, <2>1
    <3>. QED
      BY <1>2, <1>3, <1>4, <2>1, <3>1
  <2>2. CASE i <= n /\ ~(j <= n)
    BY <1>2, <1>3, <2>2
  <2>3. CASE ~(i <= n) /\ ~(j <= n)
    <3>1. i - n < j - n
      BY <1>1, <1>4
    <3>. QED
      BY <1>2, <1>3, <2>3, <3>1
  <2>. QED
    BY <2>1, <2>2, <2>3
<1>5. \A j \in 1..(n + m) : w[j] \in {s[i] : i \in 1..n} \cup {t[i] : i \in 1..m}
  BY <1>2
<1>. QED
  BY <1>1, <1>4, <1>5 DEF w, Ordered, LinesOf

(* Queued lines are sent in the order in which they were typed, for any    *)
(* number of lines and kinds: submitCore, the timers of                    *)
(* scheduleNextQueuedPrompt and the finally blocks that call it never let  *)
(* one pass another.                                                       *)
THEOREM QueuedInOrder == Spec => []FirstInFirstOut
<1>1. FrontendInv => FirstInFirstOut
  <2>. SUFFICES ASSUME FrontendInv PROVE FirstInFirstOut
    OBVIOUS
  <2>1. /\ timers \in Seq(Prompts) /\ queue \in Seq(Prompts) /\ QueueInOrder(timers, queue)
        /\ \A i \in HeldRequests : /\ \A p \in Waiting : arg[i] < p
                                   /\ \A j \in HeldRequests : i < j => arg[i] < arg[j]
    BY DEF FrontendInv, TypeOK, LinesInOrder
  <2>2. /\ Ordered(timers \o queue)
        /\ \A j \in DOMAIN (timers \o queue) : (timers \o queue)[j] \in Waiting
    BY <2>1, WaitingInOrder DEF Waiting
  <2>. QED
    BY <2>1, <2>2 DEF FirstInFirstOut, Ordered
<1>. QED
  BY <1>1, FrontendInvHolds, PTL

(* A set without two elements.                                             *)
LEMMA AtMostOne ==
  ASSUME NEW S, \A x, y \in S : x = y
  PROVE  /\ Cardinality(S) \in {0, 1}
         /\ Cardinality(S) = 0 <=> S = {}
<1>1. CASE S = {}
  BY <1>1, FS_EmptySet
<1>2. ASSUME NEW x \in S PROVE Cardinality(S) = 1 /\ S # {}
  <2>1. S = {x}
    BY <1>2
  <2>. QED
    BY <2>1, FS_Singleton
<1>. QED
  BY <1>1, <1>2

(* A line is at one place: in the queue, with a timer or sent, and sent    *)
(* once.  Only a line that App handles itself is at none.                  *)
THEOREM PromptsKept == Spec => []PromptsConserved
<1>1. FrontendInv => PromptsConserved
  <2>. SUFFICES ASSUME FrontendInv, NEW p \in Prompts
                PROVE  /\ Places(p) <= 1
                       /\ kindOf[p] \in Sendable => Places(p) = 1
    BY DEF PromptsConserved, Sendable
  <2>. DEFINE Q == {i \in DOMAIN queue : queue[i] = p}
              T == {i \in DOMAIN timers : timers[i] = p}
              R == {i \in PromptRequests : arg[i] = p}
  <2>1. /\ timers \in Seq(Prompts) /\ queue \in Seq(Prompts) /\ p \in Nat
        /\ QueueInOrder(timers, queue)
    BY DEF FrontendInv, TypeOK, LinesInOrder, Prompts
  <2>2. /\ Len(timers) \in Nat /\ DOMAIN timers = 1..Len(timers)
        /\ Len(queue) \in Nat /\ DOMAIN queue = 1..Len(queue)
    BY <2>1
  <2>3. /\ \A i, j \in Q : i = j
        /\ \A i, j \in T : i = j
        /\ Q = {} \/ T = {}
    <3>1. ASSUME NEW i \in Q, NEW j \in Q PROVE i = j
      BY <2>1, <2>2 DEF QueueInOrder, Ordered
    <3>2. ASSUME NEW i \in T, NEW j \in T PROVE i = j
      BY <2>1, <2>2 DEF QueueInOrder, Ordered
    <3>3. ASSUME NEW i \in T, NEW j \in Q PROVE FALSE
      BY <2>1 DEF QueueInOrder
    <3>. QED
      BY <3>1, <3>2, <3>3
  <2>4. \A i, j \in R : i = j
    BY DEF FrontendInv, LinesOnce
  <2>5. p \in Waiting <=> Q # {} \/ T # {}
    BY DEF Waiting, LinesOf
  <2>6. p \in Waiting => R = {}
    <3>. SUFFICES ASSUME p \in Waiting, NEW i \in R PROVE FALSE
      OBVIOUS
    <3>1. i \in HeldRequests /\ arg[i] = p
      BY DEF FrontendInv, LinesInOrder, HeldRequests
    <3>2. p < p
      BY <3>1 DEF FrontendInv, LinesInOrder
    <3>. QED
      BY <2>1, <3>2
  <2>7. kindOf[p] \in Sendable => p \in Waiting \/ R # {}
    BY DEF FrontendInv, LinesOnce
  <2>8. Places(p) = Cardinality(Q) + Cardinality(T) + Cardinality(R)
    BY DEF Places
  <2>. HIDE DEF Q, T, R
  <2>9. /\ Cardinality(Q) \in {0, 1} /\ (Cardinality(Q) = 0 <=> Q = {})
        /\ Cardinality(T) \in {0, 1} /\ (Cardinality(T) = 0 <=> T = {})
        /\ Cardinality(R) \in {0, 1} /\ (Cardinality(R) = 0 <=> R = {})
    BY <2>3, <2>4, AtMostOne
  <2>. QED
    BY <2>3, <2>5, <2>6, <2>7, <2>8, <2>9
<1>. QED
  BY <1>1, FrontendInvHolds, PTL

=============================================================================
