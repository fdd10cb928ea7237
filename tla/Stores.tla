------------------------------- MODULE Stores -------------------------------
(***************************************************************************)
(* The two files that the gateways of one user share: approvals.json       *)
(* (runtime/approvals.py, commands/permissions.py) and auth.json           *)
(* (auth/store.py, auth/openai_oauth.py).  A gateway does one thing at a   *)
(* time, but every system call is a step: another gateway or a crash can   *)
(* come in between.  A name leads to an inode; what is written goes to the *)
(* inode that was opened, whatever the name leads to by then.              *)
(***************************************************************************)
EXTENDS Naturals, FiniteSets

CONSTANTS
  Gateways,    \* the gateway processes
  Tools,       \* the tools that ask for approval
  Providers,   \* providers with a record in auth.json
  Codex,       \* the provider whose token is refreshed
  MaxOps,      \* bound: operations begun
  MaxCrashes   \* bound: gateways killed

ASSUME StoresAssumption ==
  /\ IsFiniteSet(Gateways) /\ Codex \in Providers
  /\ {MaxOps, MaxCrashes} \subseteq Nat

None == 0
Inodes == 1..(3 + Cardinality(Gateways))
Files == {"approvals", "tmp", "auth"}

Empty == <<>>             \* what opening for writing leaves
Whole(value) == <<value>>
Torn == <<"one", "other">>  \* part of one text behind part of another

VARIABLES
  up,        \* the gateways that run
  allow,     \* ApprovalStore.always_allow of each gateway
  op,        \* what each gateway is doing
  names,     \* the inode of each file, None where there is no file
  content,   \* what is in the inodes
  ops,       \* operations begun
  crashes,   \* gateways killed
  decided,   \* history: the tools that the user always allows
  expected,  \* history: the records as the finished operations make them
  blame      \* history: saves that overlapped, a logout cut short, raced operations

files == <<names, content>>
history == <<decided, expected, blame>>
vars == <<up, allow, op, files, ops, crashes, history>>

Idle == [kind |-> "idle", pc |-> "idle", value |-> <<>>, fd |-> None]

Init ==
  /\ up = {} /\ allow = [g \in Gateways |-> {}] /\ op = [g \in Gateways |-> Idle]
  /\ names = [file \in Files |-> IF file = "auth" THEN 1 ELSE None]
  /\ content = [i \in Inodes |-> IF i = 1 THEN Whole([p \in Providers |-> 1]) ELSE Empty]
  /\ ops = 0 /\ crashes = 0
  /\ decided = {} /\ expected = [p \in Providers |-> 1] /\ blame = {}

-----------------------------------------------------------------------------
(* The file system.                                                        *)

Readable(file) == content[names[file]] \notin {Empty, Torn}
Read(file) == content[names[file]][1]

Free == CHOOSE i \in Inodes : /\ \A file \in Files : names[file] # i
                              /\ \A g \in Gateways : op[g].fd # i

(* open(path, "w").                                                        *)
Open(g, file, next) ==
  LET i == IF names[file] = None THEN Free ELSE names[file]
  IN /\ names' = [names EXCEPT ![file] = i]
     /\ content' = [content EXCEPT ![i] = Empty]
     /\ op' = [op EXCEPT ![g].fd = i, ![g].pc = next]

(* The text is written from the start; behind it may be what is left of a  *)
(* longer one that another process wrote meanwhile.                        *)
Written(g) ==
  \E after \in IF content[op[g].fd] = Empty THEN {op[g].value} ELSE {op[g].value, Torn} :
    content' = [content EXCEPT ![op[g].fd] = after]

Done(g) == op' = [op EXCEPT ![g] = Idle]

IsIdle(g) == op[g].kind = "idle"
Begin(g) == g \in up /\ IsIdle(g) /\ ops < MaxOps /\ ops' = ops + 1
At(g, kind, pc) == op[g].kind = kind /\ op[g].pc = pc
Started(g, kind, pc, value) ==
  op' = [op EXCEPT ![g] = [kind |-> kind, pc |-> pc, value |-> value, fd |-> None]]

-----------------------------------------------------------------------------
(* ApprovalStore.                                                          *)

(* load: what cannot be read counts as nothing.                            *)
Loaded == IF names["approvals"] = None \/ ~Readable("approvals") THEN {} ELSE Read("approvals")

(* The user answers "always" in gateway g: its own set is what is saved.   *)
AlwaysAllowed(g, t) ==
  /\ Begin(g) /\ t \notin allow[g]
  /\ allow' = [allow EXCEPT ![g] = @ \cup {t}]
  /\ decided' = decided \cup {t}
  /\ Started(g, "save", "open", Whole(allow'[g]))
  /\ UNCHANGED <<up, files, crashes, expected, blame>>

(* /permissions in gateway g works on a store of its own, read anew.       *)
Permission(g, value, decision) ==
  /\ Begin(g)
  /\ decided' = decision
  /\ Started(g, "save", "open", Whole(value))
  /\ UNCHANGED <<up, allow, files, crashes, expected, blame>>

PermissionAllowed(g, t) == Permission(g, Loaded \cup {t}, decided \cup {t})
PermissionRevoked(g, t) == t \in Loaded /\ Permission(g, Loaded \ {t}, decided \ {t})
PermissionsCleared(g) == Permission(g, {}, {})

(* Mutant: approvals.json itself is opened and written.                    *)
SaveOpensInPlace(g) ==
  /\ At(g, "save", "open")
  /\ Open(g, "approvals", "write")
  /\ UNCHANGED <<up, allow, ops, crashes, history>>

(* save: the temporary file has one name for all gateways.                 *)
SaveOpens(g) ==
  /\ At(g, "save", "open")
  /\ Open(g, "tmp", "write")
  /\ blame' = IF \E h \in Gateways \ {g} : op[h].kind = "save" /\ op[h].fd # None
              THEN blame \cup {"overlap"} ELSE blame
  /\ UNCHANGED <<up, allow, ops, crashes, decided, expected>>

SaveWrites(g) ==
  /\ At(g, "save", "write")
  /\ Written(g)
  /\ op' = [op EXCEPT ![g].pc = "replace"]
  /\ UNCHANGED <<up, allow, names, ops, crashes, history>>

(* os.replace; it raises when the other gateway has moved the file away.   *)
SaveReplaces(g) ==
  /\ At(g, "save", "replace")
  /\ names' = IF names["tmp"] = None THEN names
              ELSE [names EXCEPT !["approvals"] = names["tmp"], !["tmp"] = None]
  /\ Done(g)
  /\ UNCHANGED <<up, allow, content, ops, crashes, history>>

-----------------------------------------------------------------------------
(* AuthStore.                                                              *)

AuthOps == {"refresh", "logout"}
Raced(g) ==
  IF \E h \in Gateways \ {g} : op[h].kind \in AuthOps THEN blame \cup {"raced"} ELSE blame

(* refresh_if_needed: the record is there and has expired.                 *)
RefreshBegins(g) ==
  /\ Begin(g)
  /\ Readable("auth") /\ Read("auth")[Codex] # None
  /\ Started(g, "refresh", "ask", <<>>)
  /\ blame' = Raced(g)
  /\ UNCHANGED <<up, allow, files, crashes, decided, expected>>

(* The provider refuses, or auth.json cannot be read when put loads it.    *)
RefreshFails(g) ==
  /\ At(g, "refresh", "ask")
  /\ Done(g)
  /\ UNCHANGED <<up, allow, files, ops, crashes, history>>

Token == Cardinality(Gateways) + ops   \* a token that no record holds yet

(* Mutant: put does not load what is in the file.                          *)
RefreshAnsweredAlone(g) ==
  /\ At(g, "refresh", "ask") /\ Readable("auth")
  /\ Started(g, "refresh", "put", Whole([p \in Providers |-> IF p = Codex THEN Token ELSE None]))
  /\ UNCHANGED <<up, allow, files, ops, crashes, history>>

(* The new token is there; put loads the records and adds it.              *)
RefreshAnswered(g) ==
  /\ At(g, "refresh", "ask") /\ Readable("auth")
  /\ Started(g, "refresh", "put", Whole([Read("auth") EXCEPT ![Codex] = Token]))
  /\ UNCHANGED <<up, allow, files, ops, crashes, history>>

(* The private temporary file, already written, takes the name.            *)
RefreshStored(g) ==
  /\ At(g, "refresh", "put")
  /\ names' = [names EXCEPT !["auth"] = Free]
  /\ content' = [content EXCEPT ![Free] = op[g].value]
  /\ expected' = [expected EXCEPT ![Codex] = op[g].value[1][Codex]]
  /\ Done(g)
  /\ UNCHANGED <<up, allow, ops, crashes, decided, blame>>

(* delete: the records are loaded and one is dropped.                      *)
LogoutBegins(g, p) ==
  /\ Begin(g) /\ Readable("auth")
  /\ Started(g, "logout", "open", Whole([Read("auth") EXCEPT ![p] = None]))
  /\ blame' = Raced(g)
  /\ UNCHANGED <<up, allow, files, crashes, decided, expected>>

(* write_text opens auth.json itself ...                                   *)
LogoutOpens(g) ==
  /\ At(g, "logout", "open")
  /\ Open(g, "auth", "write")
  /\ UNCHANGED <<up, allow, ops, crashes, history>>

(* ... and writes the text.                                                *)
LogoutWrites(g) ==
  /\ At(g, "logout", "write")
  /\ Written(g)
  /\ expected' = [p \in Providers |-> IF op[g].value[1][p] = None THEN None ELSE expected[p]]
  /\ Done(g)
  /\ UNCHANGED <<up, allow, names, ops, crashes, decided, blame>>

-----------------------------------------------------------------------------
(* Gateways come and go.                                                   *)

Start(g) ==
  /\ g \notin up /\ up' = up \cup {g}
  /\ allow' = [allow EXCEPT ![g] = Loaded]
  /\ UNCHANGED <<op, files, ops, crashes, history>>

Crash(g) ==
  /\ g \in up /\ crashes < MaxCrashes
  /\ up' = up \ {g} /\ crashes' = crashes + 1
  /\ allow' = [allow EXCEPT ![g] = {}]
  /\ Done(g)
  /\ blame' = IF At(g, "logout", "write") THEN blame \cup {"cut"} ELSE blame
  /\ UNCHANGED <<files, ops, decided, expected>>

Next ==
  \E g \in Gateways :
    \/ Start(g) \/ Crash(g)
    \/ \E t \in Tools : AlwaysAllowed(g, t) \/ PermissionAllowed(g, t) \/ PermissionRevoked(g, t)
    \/ PermissionsCleared(g)
    \/ SaveOpens(g) \/ SaveWrites(g) \/ SaveReplaces(g)
    \/ RefreshBegins(g) \/ RefreshFails(g) \/ RefreshAnswered(g) \/ RefreshStored(g)
    \/ \E p \in Providers : LogoutBegins(g, p)
    \/ LogoutOpens(g) \/ LogoutWrites(g)

Spec == Init /\ [][Next]_vars

-----------------------------------------------------------------------------
(* Properties.                                                             *)

(* Whatever the order of the gateways' steps and wherever a crash falls:   *)
(* approvals.json is whole, unless two gateways had the temporary file     *)
(* open at once; auth.json is whole, unless a logout is between its two    *)
(* steps, was cut short there, or ran beside another operation.            *)
WholeFiles ==
  /\ names["approvals"] # None => Readable("approvals") \/ "overlap" \in blame
  /\ \/ Readable("auth")
     \/ \E g \in Gateways : At(g, "logout", "write")
     \/ blame \cap {"cut", "raced"} # {}

(* As long as no two operations on auth.json ran at once, it holds what the*)
(* finished ones make of it: a refresh loses no other record and brings no *)
(* record back, a crash before the end changes nothing.                    *)
RecordsKept ==
  blame \cap {"cut", "raced"} = {} /\ (\A g \in Gateways : ~At(g, "logout", "write"))
    => Read("auth") = expected

(* SHORTCUTS.md:53: "always allow this tool (persisted to ...              *)
(* approvals.json)": between saves the file says what the user decided.    *)
DecisionsPersist ==
  (\A g \in Gateways : IsIdle(g)) /\ names["approvals"] # None => Read("approvals") = decided
=============================================================================
