---------------------------- MODULE StoresProofs ----------------------------
(***************************************************************************)
(* The files that gateways share, for any number of gateways, operations   *)
(* and crashes and any tools and providers: when approvals.json and        *)
(* auth.json are whole, and that auth.json holds what the finished         *)
(* operations made of it.  The argument is about inodes: who may write     *)
(* behind which name.                                                      *)
(***************************************************************************)
EXTENDS Stores, Sequences, FiniteSetTheorems, TLAPS

Lists == {Whole(s) : s \in SUBSET Tools}
Records == {Whole(r) : r \in [Providers -> Nat]}
Broken == {Empty, Torn}

Operations ==
  [kind : {"idle", "save", "refresh", "logout"},
   pc : {"idle", "open", "write", "replace", "ask", "put"},
   value : {<<>>} \cup Lists \cup Records,
   fd : {None} \cup Inodes]

(* What an operation holds at each of its steps.                           *)
OperationOK(o) ==
  /\ o \in Operations
  /\ o.kind = "save" => o.value \in Lists
  /\ o.kind = "refresh" /\ o.pc = "put" => o.value \in Records
  /\ o.kind = "logout" => o.value \in Records /\ o.pc \in {"open", "write"}
  /\ o.fd # None <=> o.kind \in {"save", "logout"} /\ o.pc # "open"

StoresTypeOK ==
  /\ allow \in [Gateways -> SUBSET Tools]
  /\ DOMAIN op = Gateways /\ \A g \in Gateways : OperationOK(op[g])
  /\ names \in [Files -> {None} \cup Inodes] /\ names["auth"] # None
  /\ content \in [Inodes -> Broken \cup Lists \cup Records]
  /\ ops \in Nat
  /\ expected \in [Providers -> Nat]
  /\ blame \in SUBSET {"overlap", "cut", "raced"}

(* The gateways that have a file open.                                     *)
Saving(g) == op[g].kind = "save" /\ op[g].fd # None
LoggingOut(g) == op[g].kind = "logout" /\ op[g].fd # None

(* No inode has two names, and what is written to the approvals never goes *)
(* to the records, nor the other way.                                      *)
Apart ==
  /\ \A e, f \in Files : names[e] # None /\ names[e] = names[f] => e = f
  /\ \A g \in Gateways : Saving(g) =>
       /\ op[g].fd # names["auth"]
       /\ \A h \in Gateways : LoggingOut(h) => op[h].fd # op[g].fd
  /\ \A g \in Gateways : LoggingOut(g) =>
       op[g].fd # names["approvals"] /\ op[g].fd # names["tmp"]

(* What each name can lead to.                                             *)
Sorted ==
  /\ names["approvals"] # None => content[names["approvals"]] \in Broken \cup Lists
  /\ names["tmp"] # None => content[names["tmp"]] \in Broken \cup Lists
  /\ content[names["auth"]] \in Broken \cup Records

(* Without an overlap the temporary file is that of the only save under    *)
(* way, which finds in it what it wrote.                                   *)
SavesAlone ==
  "overlap" \notin blame =>
    /\ names["approvals"] # None => content[names["approvals"]] \in Lists
    /\ \A g, h \in Gateways : Saving(g) /\ Saving(h) => g = h
    /\ \A g \in Gateways : Saving(g) =>
         /\ op[g].fd = names["tmp"]
         /\ content[op[g].fd] = IF op[g].pc = "write" THEN Empty ELSE op[g].value

Clean == "cut" \notin blame /\ "raced" \notin blame

(* The text that an operation is about to write changes the records as the *)
(* operation should.                                                       *)
Prepared(g) ==
  LET r == op[g].value[1]
  IN IF op[g].kind = "logout"
     THEN \A p \in Providers : r[p] = None \/ r[p] = expected[p]
     ELSE op[g].pc = "put" => \A p \in Providers \ {Codex} : r[p] = expected[p]

(* Operations on auth.json that run one at a time find what the one before *)
(* left there.                                                             *)
AuthAlone ==
  Clean =>
    /\ \A g, h \in Gateways : op[g].kind \in AuthOps /\ op[h].kind \in AuthOps => g = h
    /\ \A g \in Gateways : op[g].kind \in AuthOps => Prepared(g)
    /\ \A g \in Gateways : LoggingOut(g) =>
         op[g].fd = names["auth"] /\ content[op[g].fd] = Empty
    /\ (\A g \in Gateways : ~LoggingOut(g)) => content[names["auth"]] = Whole(expected)

StoresInv == StoresTypeOK /\ Apart /\ Sorted /\ SavesAlone /\ AuthAlone

-----------------------------------------------------------------------------
(* Texts and inodes.                                                       *)

(* A whole text is neither empty nor torn, and holds what was written.     *)
LEMMA WholeTexts ==
  /\ \A v : Whole(v) \notin Broken /\ Whole(v)[1] = v
  /\ \A x \in Lists : x \notin Broken /\ x[1] \in SUBSET Tools /\ x = Whole(x[1])
  /\ \A x \in Records : x \notin Broken /\ x[1] \in [Providers -> Nat] /\ x = Whole(x[1])
<1>1. ASSUME NEW v
      PROVE  Whole(v) \notin Broken /\ Whole(v)[1] = v
  <2>1. Len(<<v>>) = 1 /\ Len(<<>>) = 0 /\ Len(<<"one", "other">>) = 2 /\ <<v>>[1] = v
    OBVIOUS
  <2>. QED
    BY <2>1 DEF Whole, Broken, Empty, Torn
<1>. QED
  BY <1>1 DEF Lists, Records

(* There is always an inode that no name leads to and no gateway has open. *)
LEMMA FreeInode ==
  ASSUME StoresTypeOK, NEW g \in Gateways, op[g].fd = None
  PROVE  /\ Free \in Inodes
         /\ \A file \in Files : names[file] # Free
         /\ \A h \in Gateways : op[h].fd # Free
<1>. DEFINE Others == Gateways \ {g}
            fds == [h \in Others |-> op[h].fd]
            Open1 == {fds[h] : h \in Others}
            Named == {names["approvals"], names["tmp"], names["auth"]}
            Used == Open1 \cup Named
            n == Cardinality(Gateways)
<1>1. IsFiniteSet(Others) /\ Cardinality(Others) = n - 1 /\ n \in Nat
  BY StoresAssumption, FS_RemoveElement, FS_CardinalityType
<1>2. IsFiniteSet(Open1) /\ Cardinality(Open1) <= n - 1 /\ Cardinality(Open1) \in Nat
  <2>1. fds \in Surjection(Others, Open1)
    BY DEF Surjection
  <2>2. IsFiniteSet(Open1) /\ Cardinality(Open1) <= Cardinality(Others)
    BY <1>1, <2>1, FS_Surjection
  <2>. QED
    BY <1>1, <2>2, FS_CardinalityType
<1>3. IsFiniteSet(Named) /\ Cardinality(Named) <= 3 /\ Cardinality(Named) \in Nat
  <2>. DEFINE a == names["approvals"]
              t == names["tmp"]
              u == names["auth"]
              two == {a} \cup {t}
  <2>1. IsFiniteSet({a}) /\ Cardinality({a}) = 1
    BY FS_Singleton
  <2>2. IsFiniteSet(two) /\ Cardinality(two) <= 2
    BY <2>1, FS_AddElement
  <2>3. Named = two \cup {u}
    OBVIOUS
  <2>. HIDE DEF two, Named
  <2>4. Cardinality(two) \in Nat
    BY <2>2, FS_CardinalityType
  <2>5. /\ IsFiniteSet(two \cup {u})
        /\ Cardinality(two \cup {u}) = IF u \in two THEN Cardinality(two)
                                                    ELSE Cardinality(two) + 1
    BY <2>2, FS_AddElement
  <2>6. IsFiniteSet(Named) /\ Cardinality(Named) <= 3
    BY <2>2, <2>3, <2>4, <2>5
  <2>. QED
    BY <2>6, FS_CardinalityType
<1>4. IsFiniteSet(Used) /\ Cardinality(Used) <= n + 2
  <2>. HIDE DEF Open1, Named
  <2>1. /\ IsFiniteSet(Used) /\ IsFiniteSet(Open1 \cap Named)
        /\ Cardinality(Used) = Cardinality(Open1) + Cardinality(Named)
                                 - Cardinality(Open1 \cap Named)
    BY <1>2, <1>3, FS_Union, FS_Intersection
  <2>2. Cardinality(Open1 \cap Named) \in Nat
    BY <2>1, FS_CardinalityType
  <2>. QED
    BY <1>1, <1>2, <1>3, <2>1, <2>2
<1>5. IsFiniteSet(Inodes) /\ Cardinality(Inodes) = n + 3
  <2>1. 1 \in Int /\ 3 + n \in Int /\ ~(1 > 3 + n) /\ (3 + n) - 1 + 1 = n + 3
    BY <1>1
  <2>2. IsFiniteSet(1..(3 + n)) /\ Cardinality(1..(3 + n)) = (3 + n) - 1 + 1
    BY <2>1, FS_Interval
  <2>. QED
    BY <2>1, <2>2 DEF Inodes
<1>6. ~(Inodes \subseteq Used)
  <2>. SUFFICES ASSUME Inodes \in SUBSET Used PROVE FALSE
    OBVIOUS
  <2>. HIDE DEF Used
  <2>1. Cardinality(Inodes) <= Cardinality(Used) /\ Cardinality(Used) \in Nat
    BY <1>4, FS_Subset, FS_CardinalityType
  <2>. QED
    BY <1>1, <1>4, <1>5, <2>1
<1>7. PICK i \in Inodes : i \notin Used
  BY <1>6
<1>8. \A file \in Files : names[file] # i
  BY <1>7 DEF Files
<1>9. \A h \in Gateways : op[h].fd # i
  <2>1. i # None
    BY DEF Inodes, None
  <2>2. \A h \in Others : op[h].fd \in Open1
    OBVIOUS
  <2>. QED
    BY <1>7, <2>1, <2>2
<1>. QED
  BY <1>8, <1>9 DEF Free

-----------------------------------------------------------------------------
(* The steps that open, write and rename nothing.                          *)

(* Beginning, preparing or dropping an operation leaves the files alone.   *)
LEMMA FilesUntouched ==
  ASSUME StoresInv, NEW g \in Gateways, NEW o, OperationOK(o), o.fd = None,
         op' = [op EXCEPT ![g] = o], UNCHANGED <<files, expected>>,
         blame \in SUBSET blame', blame' \in SUBSET {"overlap", "cut", "raced"},
         allow' \in [Gateways -> SUBSET Tools], ops' \in Nat
  PROVE  StoresTypeOK' /\ Apart' /\ Sorted' /\ SavesAlone'
<1>1. names' = names /\ content' = content
  BY DEF files
<1>2. DOMAIN op = Gateways /\ \A h \in Gateways : op'[h] = IF h = g THEN o ELSE op[h]
  BY DEF StoresInv, StoresTypeOK
<1>3. StoresTypeOK'
  BY <1>1, <1>2 DEF StoresInv, StoresTypeOK
<1>4. \A h \in Gateways : /\ Saving(h)' => Saving(h) /\ op'[h] = op[h]
                          /\ LoggingOut(h)' => LoggingOut(h) /\ op'[h] = op[h]
  BY <1>2 DEF Saving, LoggingOut
<1>5. Apart'
  BY <1>1, <1>4 DEF StoresInv, Apart
<1>6. Sorted'
  BY <1>1 DEF StoresInv, Sorted
<1>7. SavesAlone'
  BY <1>1, <1>4 DEF StoresInv, SavesAlone
<1>. QED
  BY <1>3, <1>5, <1>6, <1>7

(* The records when nothing is being written to auth.json.                 *)
LEMMA AuthRead ==
  ASSUME StoresInv
  PROVE  /\ Readable("auth") => /\ content[names["auth"]] \in Records
                                /\ Read("auth") \in [Providers -> Nat]
         /\ Clean /\ (\A h \in Gateways : ~LoggingOut(h)) => Read("auth") = expected
<1>1. ASSUME Readable("auth")
      PROVE  content[names["auth"]] \in Records /\ Read("auth") \in [Providers -> Nat]
  <2>1. content[names["auth"]] \in Records
    BY <1>1 DEF StoresInv, Sorted, Readable, Broken
  <2>. QED
    BY <2>1, WholeTexts DEF Read
<1>2. ASSUME Clean, \A h \in Gateways : ~LoggingOut(h)
      PROVE  Read("auth") = expected
  BY <1>2, WholeTexts DEF StoresInv, AuthAlone, Read
<1>. QED
  BY <1>1, <1>2

(* A step beside auth.json, and the end of an operation that has not yet   *)
(* opened it, leaves the argument about it as it is.                       *)
LEMMA AuthUntouched ==
  ASSUME StoresInv, blame \in SUBSET blame', expected' = expected,
         names'["auth"] = names["auth"],
         content'[names["auth"]] = content[names["auth"]],
         Clean' => \A h \in Gateways :
                     \/ op'[h] = op[h]
                     \/ op'[h].kind \notin AuthOps /\ ~LoggingOut(h)
  PROVE  AuthAlone'
<1>. SUFFICES ASSUME Clean' PROVE AuthAlone'
  BY DEF AuthAlone
<1>1. Clean
  BY DEF Clean
<1>2. \A h \in Gateways : op'[h].kind \in AuthOps => op'[h] = op[h]
  OBVIOUS
<1>3. \A h \in Gateways : LoggingOut(h)' => op'[h] = op[h] /\ LoggingOut(h)
  BY <1>2 DEF LoggingOut, AuthOps
<1>4. \A h \in Gateways : LoggingOut(h) => LoggingOut(h)'
  BY DEF LoggingOut
<1>. QED
  BY <1>1, <1>2, <1>3, <1>4 DEF StoresInv, AuthAlone, Prepared

(* An operation on auth.json that runs alone starts or goes on.            *)
LEMMA AuthGoesOn ==
  ASSUME StoresInv, NEW g \in Gateways, NEW o, OperationOK(o), o.fd = None,
         op' = [op EXCEPT ![g] = o], op[g].fd = None,
         UNCHANGED <<files, expected>>, blame \in SUBSET blame',
         Clean' => /\ \A h \in Gateways \ {g} : op[h].kind \notin AuthOps
                   /\ Prepared(g)'
  PROVE  AuthAlone'
<1>. SUFFICES ASSUME Clean' PROVE AuthAlone'
  BY DEF AuthAlone
<1>1. names' = names /\ content' = content /\ Clean
  BY DEF files, Clean
<1>2. DOMAIN op = Gateways /\ \A h \in Gateways : op'[h] = IF h = g THEN o ELSE op[h]
  BY DEF StoresInv, StoresTypeOK
<1>3. \A h \in Gateways : op'[h].kind \in AuthOps => h = g
  BY <1>2
<1>4. \A h \in Gateways : ~LoggingOut(h) /\ ~LoggingOut(h)'
  BY <1>2 DEF LoggingOut, AuthOps
<1>5. content[names["auth"]] = Whole(expected)
  BY <1>1, <1>4 DEF StoresInv, AuthAlone
<1>. QED
  BY <1>1, <1>3, <1>4, <1>5 DEF AuthAlone

-----------------------------------------------------------------------------
(* The steps, one after the other.                                         *)

LEMMA IdleIsOK == OperationOK(Idle) /\ Idle.fd = None /\ Idle.kind \notin AuthOps
BY DEF OperationOK, Operations, Idle, AuthOps, None

(* Loading approvals.json gives a set of tools.                            *)
LEMMA LoadedType ==
  ASSUME StoresInv
  PROVE  Loaded \in SUBSET Tools
<1>. SUFFICES ASSUME names["approvals"] # None, Readable("approvals")
              PROVE  Read("approvals") \in SUBSET Tools
  BY DEF Loaded
<1>1. content[names["approvals"]] \in Lists
  BY DEF StoresInv, Sorted, Readable, Broken
<1>. QED
  BY <1>1, WholeTexts DEF Read

(* Starting and losing a gateway.                                          *)
LEMMA ComeAndGo ==
  ASSUME StoresInv, NEW g \in Gateways, Start(g) \/ Crash(g)
  PROVE  StoresInv'
<1>1. CASE Start(g)
  <2>1. allow' \in [Gateways -> SUBSET Tools]
    BY <1>1, LoadedType DEF Start, StoresInv, StoresTypeOK
  <2>2. UNCHANGED <<op, names, content, ops, expected, blame>>
    BY <1>1 DEF Start, files, history
  <2>3. StoresTypeOK'
    BY <2>1, <2>2 DEF StoresInv, StoresTypeOK
  <2>4. Apart' /\ Sorted'
    BY <2>2 DEF StoresInv, Apart, Sorted, Saving, LoggingOut
  <2>5. SavesAlone'
    BY <2>2 DEF StoresInv, SavesAlone, Saving
  <2>6. AuthAlone'
    BY <2>2, AuthUntouched
  <2>. QED
    BY <2>3, <2>4, <2>5, <2>6 DEF StoresInv
<1>2. CASE Crash(g)
  <2>1. /\ op' = [op EXCEPT ![g] = Idle]
        /\ UNCHANGED <<files, expected, names, content>> /\ ops' = ops
        /\ blame' = IF At(g, "logout", "write") THEN blame \cup {"cut"} ELSE blame
    BY <1>2 DEF Crash, Done, files
  <2>2. allow' \in [Gateways -> SUBSET Tools]
    BY <1>2 DEF Crash, StoresInv, StoresTypeOK
  <2>3. /\ blame \in SUBSET blame' /\ blame' \in SUBSET {"overlap", "cut", "raced"}
        /\ ops' \in Nat
    BY <2>1 DEF StoresInv, StoresTypeOK
  <2>4. StoresTypeOK' /\ Apart' /\ Sorted' /\ SavesAlone'
    BY <2>1, <2>2, <2>3, IdleIsOK, FilesUntouched
  <2>5. Clean' => ~LoggingOut(g)
    BY <2>1 DEF Clean, LoggingOut, At, StoresInv, StoresTypeOK, OperationOK
  <2>6. \A h \in Gateways : op'[h] = IF h = g THEN Idle ELSE op[h]
    BY <2>1 DEF StoresInv, StoresTypeOK
  <2>7. AuthAlone'
    BY <2>1, <2>3, <2>5, <2>6, IdleIsOK, AuthUntouched
  <2>. QED
    BY <2>4, <2>7 DEF StoresInv
<1>. QED
  BY <1>1, <1>2

(* A save begins.                                                          *)
LEMMA SaveBegins ==
  ASSUME StoresInv, NEW g \in Gateways, IsIdle(g), NEW list \in SUBSET Tools,
         Started(g, "save", "open", Whole(list)),
         UNCHANGED <<files, expected, blame>>,
         allow' \in [Gateways -> SUBSET Tools], ops' \in Nat
  PROVE  StoresInv'
<1>. DEFINE o == [kind |-> "save", pc |-> "open", value |-> Whole(list), fd |-> None]
<1>1. op' = [op EXCEPT ![g] = o]
  BY DEF Started
<1>2. OperationOK(o) /\ o.fd = None /\ o.kind \notin AuthOps
  BY DEF OperationOK, Operations, Lists, AuthOps
<1>3. blame \in SUBSET blame' /\ blame' \in SUBSET {"overlap", "cut", "raced"}
  BY DEF StoresInv, StoresTypeOK
<1>. HIDE DEF o
<1>4. StoresTypeOK' /\ Apart' /\ Sorted' /\ SavesAlone'
  BY <1>1, <1>2, <1>3, FilesUntouched
<1>5. \A h \in Gateways : op'[h] = IF h = g THEN o ELSE op[h]
  BY <1>1 DEF StoresInv, StoresTypeOK
<1>6. ~LoggingOut(g)
  BY DEF IsIdle, LoggingOut
<1>7. names' = names /\ content' = content
  BY DEF files
<1>8. AuthAlone'
  BY <1>2, <1>3, <1>5, <1>6, <1>7, AuthUntouched
<1>. QED
  BY <1>4, <1>8 DEF StoresInv

(* The user decides on a tool.                                             *)
LEMMA DecisionSteps ==
  ASSUME StoresInv, NEW g \in Gateways,
         \/ \E t \in Tools : \/ AlwaysAllowed(g, t) \/ PermissionAllowed(g, t)
                             \/ PermissionRevoked(g, t)
         \/ PermissionsCleared(g)
  PROVE  StoresInv'
<1>1. allow \in [Gateways -> SUBSET Tools] /\ ops \in Nat /\ ops + 1 \in Nat
  BY DEF StoresInv, StoresTypeOK
<1>2. ASSUME NEW t \in Tools, AlwaysAllowed(g, t)
      PROVE  StoresInv'
  <2>1. allow'[g] \in SUBSET Tools /\ allow' \in [Gateways -> SUBSET Tools]
    BY <1>1, <1>2 DEF AlwaysAllowed
  <2>. QED
    BY <1>1, <1>2, <2>1, SaveBegins DEF AlwaysAllowed, Begin
<1>3. ASSUME NEW list \in SUBSET Tools, NEW d, Permission(g, list, d)
      PROVE  StoresInv'
  BY <1>1, <1>3, SaveBegins DEF Permission, Begin
<1>4. \A t \in Tools : Loaded \cup {t} \in SUBSET Tools /\ Loaded \ {t} \in SUBSET Tools
  BY LoadedType
<1>. QED
  BY <1>2, <1>3, <1>4 DEF PermissionAllowed, PermissionRevoked, PermissionsCleared

(* A refresh begins, goes on or fails.                                     *)
LEMMA RefreshSteps ==
  ASSUME StoresInv, NEW g \in Gateways, RefreshBegins(g) \/ RefreshFails(g) \/ RefreshAnswered(g)
  PROVE  StoresInv'
<1>1. allow \in [Gateways -> SUBSET Tools] /\ ops \in Nat /\ ops + 1 \in Nat
      /\ blame \in SUBSET {"overlap", "cut", "raced"}
      /\ \A h \in Gateways : OperationOK(op[h])
  BY DEF StoresInv, StoresTypeOK
<1>2. CASE RefreshBegins(g)
  <2>. DEFINE o == [kind |-> "refresh", pc |-> "ask", value |-> <<>>, fd |-> None]
  <2>1. /\ op' = [op EXCEPT ![g] = o] /\ UNCHANGED <<files, expected, allow>> /\ ops' = ops + 1
        /\ op[g].kind = "idle" /\ blame' = Raced(g)
    BY <1>2 DEF RefreshBegins, Started, Begin, IsIdle
  <2>2. OperationOK(o) /\ o.fd = None
    BY DEF OperationOK, Operations
  <2>3. /\ blame \in SUBSET blame' /\ blame' \in SUBSET {"overlap", "cut", "raced"}
        /\ Clean' => \A h \in Gateways \ {g} : op[h].kind \notin AuthOps
    BY <1>1, <2>1 DEF Raced, Clean
  <2>4. op[g].fd = None
    BY <1>1, <2>1 DEF OperationOK
  <2>5. Prepared(g)'
    <3>1. op'[g] = o
      BY <2>1 DEF StoresInv, StoresTypeOK
    <3>. QED
      BY <3>1 DEF Prepared
  <2>. HIDE DEF o
  <2>6. StoresTypeOK' /\ Apart' /\ Sorted' /\ SavesAlone'
    BY <1>1, <2>1, <2>2, <2>3, FilesUntouched
  <2>7. AuthAlone'
    BY <2>1, <2>2, <2>3, <2>4, <2>5, AuthGoesOn
  <2>. QED
    BY <2>6, <2>7 DEF StoresInv
<1>3. CASE RefreshFails(g)
  <2>1. /\ op' = [op EXCEPT ![g] = Idle]
        /\ UNCHANGED <<files, expected, allow, ops, blame, names, content>>
        /\ op[g].kind = "refresh"
    BY <1>3 DEF RefreshFails, Done, At, history, files
  <2>2. StoresTypeOK' /\ Apart' /\ Sorted' /\ SavesAlone'
    BY <1>1, <2>1, IdleIsOK, FilesUntouched
  <2>3. \A h \in Gateways : op'[h] = IF h = g THEN Idle ELSE op[h]
    BY <2>1 DEF StoresInv, StoresTypeOK
  <2>4. AuthAlone'
    BY <2>1, <2>3, IdleIsOK, AuthUntouched DEF LoggingOut
  <2>. QED
    BY <2>2, <2>4 DEF StoresInv
<1>4. CASE RefreshAnswered(g)
  <2>. DEFINE r == [Read("auth") EXCEPT ![Codex] = Token]
              o == [kind |-> "refresh", pc |-> "put", value |-> Whole(r), fd |-> None]
  <2>1. /\ op' = [op EXCEPT ![g] = o]
        /\ UNCHANGED <<files, expected, allow, ops, blame, names, content>>
        /\ op[g].kind = "refresh" /\ Readable("auth")
    BY <1>4 DEF RefreshAnswered, Started, At, history, files
  <2>2. Read("auth") \in [Providers -> Nat]
    BY <2>1, AuthRead
  <2>3. Token \in Nat
    BY <1>1, StoresAssumption, FS_CardinalityType DEF Token
  <2>4. r \in [Providers -> Nat]
    BY <2>2, <2>3
  <2>5. \A p \in Providers \ {Codex} : r[p] = Read("auth")[p]
    BY <2>2
  <2>. HIDE DEF r
  <2>6. OperationOK(o) /\ o.fd = None /\ o.pc = "put" /\ o.kind = "refresh"
        /\ o.value[1] = r
    BY <2>4, WholeTexts DEF OperationOK, Operations, Records
  <2>7. op[g].fd = None
    BY <1>1, <2>1 DEF OperationOK
  <2>. HIDE DEF o
  <2>8. op'[g] = o
    BY <2>1 DEF StoresInv, StoresTypeOK
  <2>9. Clean' => /\ \A h \in Gateways \ {g} : op[h].kind \notin AuthOps
                  /\ Prepared(g)'
    <3>. SUFFICES ASSUME Clean'
                  PROVE  /\ \A h \in Gateways \ {g} : op[h].kind \notin AuthOps
                         /\ Prepared(g)'
      OBVIOUS
    <3>1. Clean
      BY <2>1 DEF Clean
    <3>2. \A h \in Gateways \ {g} : op[h].kind \notin AuthOps
      BY <2>1, <3>1 DEF StoresInv, AuthAlone, AuthOps
    <3>3. Read("auth") = expected
      BY <2>1, <3>1, <3>2, AuthRead DEF LoggingOut, AuthOps
    <3>. QED
      BY <2>1, <2>5, <2>6, <2>8, <3>2, <3>3 DEF Prepared
  <2>10. StoresTypeOK' /\ Apart' /\ Sorted' /\ SavesAlone'
    BY <1>1, <2>1, <2>6, FilesUntouched
  <2>11. AuthAlone'
    BY <2>1, <2>6, <2>7, <2>9, AuthGoesOn
  <2>. QED
    BY <2>10, <2>11 DEF StoresInv
<1>. QED
  BY <1>2, <1>3, <1>4

(* A logout begins.                                                        *)
LEMMA LogoutBeginSteps ==
  ASSUME StoresInv, NEW g \in Gateways, NEW p \in Providers, LogoutBegins(g, p)
  PROVE  StoresInv'
<1>. DEFINE r == [Read("auth") EXCEPT ![p] = None]
            o == [kind |-> "logout", pc |-> "open", value |-> Whole(r), fd |-> None]
<1>1. allow \in [Gateways -> SUBSET Tools] /\ ops \in Nat /\ ops + 1 \in Nat
      /\ blame \in SUBSET {"overlap", "cut", "raced"}
      /\ \A h \in Gateways : OperationOK(op[h])
  BY DEF StoresInv, StoresTypeOK
<1>2. /\ op' = [op EXCEPT ![g] = o] /\ UNCHANGED <<files, expected, allow>> /\ ops' = ops + 1
      /\ op[g].kind = "idle" /\ blame' = Raced(g) /\ Readable("auth")
  BY DEF LogoutBegins, Started, Begin, IsIdle
<1>3. Read("auth") \in [Providers -> Nat]
  BY <1>2, AuthRead
<1>4. r \in [Providers -> Nat] /\ \A q \in Providers : r[q] = None \/ r[q] = Read("auth")[q]
  BY <1>3 DEF None
<1>. HIDE DEF r
<1>5. OperationOK(o) /\ o.fd = None /\ o.kind = "logout" /\ o.value[1] = r
  BY <1>4, WholeTexts DEF OperationOK, Operations, Records
<1>6. op[g].fd = None
  BY <1>1, <1>2 DEF OperationOK
<1>7. /\ blame \in SUBSET blame' /\ blame' \in SUBSET {"overlap", "cut", "raced"}
      /\ Clean' => Clean /\ \A h \in Gateways \ {g} : op[h].kind \notin AuthOps
  BY <1>1, <1>2 DEF Raced, Clean
<1>. HIDE DEF o
<1>8. op'[g] = o
  BY <1>2 DEF StoresInv, StoresTypeOK
<1>9. Clean' => Prepared(g)'
  <2>1. Clean' => Read("auth") = expected
    BY <1>2, <1>7, AuthRead DEF LoggingOut, AuthOps
  <2>. QED
    BY <1>2, <1>4, <1>5, <1>8, <2>1 DEF Prepared
<1>10. StoresTypeOK' /\ Apart' /\ Sorted' /\ SavesAlone'
  BY <1>1, <1>2, <1>5, <1>7, FilesUntouched
<1>11. AuthAlone'
  BY <1>2, <1>5, <1>6, <1>7, <1>9, AuthGoesOn
<1>. QED
  BY <1>10, <1>11 DEF StoresInv

(* Opening a file: the inode is the one its name leads to or a free one.   *)
LEMMA Opened ==
  ASSUME StoresInv, NEW g \in Gateways, NEW file \in Files, op[g].fd = None,
         NEW next, Open(g, file, next)
  PROVE  \E i \in Inodes :
           /\ names' = [names EXCEPT ![file] = i]
           /\ content' = [content EXCEPT ![i] = Empty]
           /\ op' = [op EXCEPT ![g].fd = i, ![g].pc = next]
           /\ \/ names[file] = i
              \/ /\ \A f \in Files : names[f] # i
                 /\ \A h \in Gateways : op[h].fd # i
<1>. DEFINE i == IF names[file] = None THEN Free ELSE names[file]
<1>1. /\ names' = [names EXCEPT ![file] = i]
      /\ content' = [content EXCEPT ![i] = Empty]
      /\ op' = [op EXCEPT ![g].fd = i, ![g].pc = next]
  BY DEF Open
<1>2. i \in Inodes
  BY FreeInode DEF StoresInv, StoresTypeOK
<1>3. \/ names[file] = i
      \/ /\ \A f \in Files : names[f] # i
         /\ \A h \in Gateways : op[h].fd # i
  BY FreeInode DEF StoresInv
<1>. QED
  BY <1>1, <1>2, <1>3

(* What a gateway holds after it opened its file.                          *)
LEMMA OpenedOperation ==
  ASSUME StoresTypeOK, NEW g \in Gateways, NEW i \in Inodes,
         op[g].kind \in {"save", "logout"},
         op' = [op EXCEPT ![g].fd = i, ![g].pc = "write"]
  PROVE  /\ DOMAIN op' = Gateways
         /\ \A h \in Gateways : h # g => op'[h] = op[h]
         /\ op'[g].kind = op[g].kind /\ op'[g].value = op[g].value
         /\ op'[g].fd = i /\ op'[g].pc = "write" /\ i # None
         /\ OperationOK(op'[g])
<1>1. OperationOK(op[g]) /\ DOMAIN op = Gateways
  BY DEF StoresTypeOK
<1>2. i # None
  BY DEF Inodes, None
<1>3. op[g] \in Operations
  BY <1>1 DEF OperationOK
<1>4. /\ op'[g].kind = op[g].kind /\ op'[g].value = op[g].value
      /\ op'[g].fd = i /\ op'[g].pc = "write" /\ op'[g] \in Operations
  BY <1>1, <1>3 DEF Operations
<1>. QED
  BY <1>1, <1>2, <1>4 DEF OperationOK

(* A save opens the temporary file.                                        *)
LEMMA SaveOpenSteps ==
  ASSUME StoresInv, NEW g \in Gateways, SaveOpens(g)
  PROVE  StoresInv'
<1>1. /\ op[g].kind = "save" /\ op[g].pc = "open" /\ Open(g, "tmp", "write")
      /\ blame' = IF \E h \in Gateways \ {g} : op[h].kind = "save" /\ op[h].fd # None
                  THEN blame \cup {"overlap"} ELSE blame
      /\ UNCHANGED <<allow, ops, expected>>
  BY DEF SaveOpens, At
<1>2. OperationOK(op[g]) /\ op[g].fd = None
  BY <1>1 DEF StoresInv, StoresTypeOK, OperationOK
<1>3. PICK i \in Inodes :
        /\ names' = [names EXCEPT !["tmp"] = i]
        /\ content' = [content EXCEPT ![i] = Empty]
        /\ op' = [op EXCEPT ![g].fd = i, ![g].pc = "write"]
        /\ \/ names["tmp"] = i
           \/ /\ \A f \in Files : names[f] # i
              /\ \A h \in Gateways : op[h].fd # i
  BY <1>1, <1>2, Opened DEF Files
<1>4. /\ DOMAIN op' = Gateways
      /\ \A h \in Gateways : h # g => op'[h] = op[h]
      /\ op'[g].kind = "save" /\ op'[g].value = op[g].value
      /\ op'[g].fd = i /\ op'[g].pc = "write" /\ i # None
      /\ OperationOK(op'[g])
  BY <1>1, <1>3, OpenedOperation DEF StoresInv
<1>5. /\ \A f \in Files : names'[f] = IF f = "tmp" THEN i ELSE names[f]
      /\ \A j \in Inodes : content'[j] = IF j = i THEN Empty ELSE content[j]
      /\ names' \in [Files -> {None} \cup Inodes]
      /\ content' \in [Inodes -> Broken \cup Lists \cup Records]
      /\ names["auth"] \in Inodes /\ names["approvals"] \in {None} \cup Inodes
      /\ "tmp" \in Files /\ "auth" \in Files /\ "approvals" \in Files
  BY <1>3 DEF StoresInv, StoresTypeOK, Broken, Files
<1>6. /\ i # names["auth"] /\ i # names["approvals"]
      /\ \A h \in Gateways : LoggingOut(h) => op[h].fd # i
  BY <1>3, <1>4, <1>5 DEF StoresInv, Apart
<1>7. /\ names'["auth"] = names["auth"] /\ names'["approvals"] = names["approvals"]
      /\ names'["tmp"] = i
  BY <1>5
<1>8. \A h \in Gateways : /\ LoggingOut(h)' <=> LoggingOut(h)
                          /\ Saving(h)' <=> Saving(h) \/ h = g
  BY <1>1, <1>4 DEF LoggingOut, Saving
<1>9. StoresTypeOK'
  BY <1>1, <1>4, <1>5, <1>7 DEF StoresInv, StoresTypeOK
<1>10. Apart'
  <2>1. \A e, f \in Files : names'[e] # None /\ names'[e] = names'[f] => e = f
    BY <1>3, <1>5, <1>6 DEF StoresInv, Apart, Files
  <2>2. \A h \in Gateways : Saving(h)' =>
          /\ op'[h].fd # names'["auth"]
          /\ \A k \in Gateways : LoggingOut(k)' => op'[k].fd # op'[h].fd
    <3>1. \A k \in Gateways : LoggingOut(k) => k # g
      BY <1>1 DEF LoggingOut
    <3>. QED
      BY <1>4, <1>6, <1>7, <1>8, <3>1 DEF StoresInv, Apart
  <2>3. \A h \in Gateways : LoggingOut(h)' =>
          op'[h].fd # names'["approvals"] /\ op'[h].fd # names'["tmp"]
    <3>1. \A k \in Gateways : LoggingOut(k) => k # g
      BY <1>1 DEF LoggingOut
    <3>. QED
      BY <1>4, <1>6, <1>7, <1>8, <3>1 DEF StoresInv, Apart
  <2>. QED
    BY <2>1, <2>2, <2>3 DEF Apart
<1>11. Sorted'
  BY <1>5, <1>6, <1>7 DEF StoresInv, Sorted, Broken
<1>12. SavesAlone'
  <2>. SUFFICES ASSUME "overlap" \notin blame' PROVE SavesAlone'
    BY DEF SavesAlone
  <2>1. "overlap" \notin blame /\ \A h \in Gateways : ~Saving(h)
    BY <1>1, <1>2 DEF Saving
  <2>. QED
    BY <1>4, <1>5, <1>6, <1>7, <1>8, <2>1 DEF StoresInv, SavesAlone
<1>13. AuthAlone'
  <2>1. blame \in SUBSET blame'
    BY <1>1
  <2>2. \A h \in Gateways : \/ op'[h] = op[h]
                            \/ op'[h].kind \notin AuthOps /\ ~LoggingOut(h)
    BY <1>1, <1>4 DEF AuthOps, LoggingOut
  <2>. QED
    BY <1>1, <1>5, <1>6, <1>7, <2>1, <2>2, AuthUntouched
<1>. QED
  BY <1>9, <1>10, <1>11, <1>12, <1>13 DEF StoresInv

(* A save writes its text.                                                 *)
LEMMA SaveWriteSteps ==
  ASSUME StoresInv, NEW g \in Gateways, SaveWrites(g)
  PROVE  StoresInv'
<1>1. /\ op[g].kind = "save" /\ op[g].pc = "write"
      /\ op' = [op EXCEPT ![g].pc = "replace"]
      /\ UNCHANGED <<allow, names, ops, expected, blame>>
  BY DEF SaveWrites, At, history
<1>2. /\ OperationOK(op[g]) /\ DOMAIN op = Gateways /\ op[g] \in Operations
      /\ op[g].fd # None /\ op[g].fd \in Inodes /\ op[g].value \in Lists
  BY <1>1 DEF StoresInv, StoresTypeOK, OperationOK, Operations
<1>3. PICK after : /\ after \in IF content[op[g].fd] = Empty THEN {op[g].value}
                                                             ELSE {op[g].value, Torn}
                   /\ content' = [content EXCEPT ![op[g].fd] = after]
  BY DEF SaveWrites, Written
<1>4. after \in Broken \cup Lists
  BY <1>2, <1>3 DEF Broken
<1>5. /\ \A h \in Gateways : /\ op'[h].kind = op[h].kind /\ op'[h].fd = op[h].fd
                             /\ op'[h].value = op[h].value
                             /\ h # g => op'[h] = op[h]
      /\ DOMAIN op' = Gateways /\ op'[g].pc = "replace" /\ op'[g] \in Operations
  BY <1>1, <1>2 DEF Operations
<1>6. OperationOK(op'[g])
  BY <1>1, <1>2, <1>5 DEF OperationOK
<1>7. \A j \in Inodes : content'[j] = IF j = op[g].fd THEN after ELSE content[j]
  BY <1>3 DEF StoresInv, StoresTypeOK
<1>8. /\ names["auth"] \in Inodes /\ names["approvals"] \in {None} \cup Inodes
      /\ names["tmp"] \in {None} \cup Inodes
      /\ content' \in [Inodes -> Broken \cup Lists \cup Records]
  BY <1>2, <1>3, <1>4 DEF StoresInv, StoresTypeOK, Files
<1>9. \A h \in Gateways : (LoggingOut(h)' <=> LoggingOut(h)) /\ (Saving(h)' <=> Saving(h))
  BY <1>5 DEF LoggingOut, Saving
<1>10. Saving(g) /\ ~LoggingOut(g) /\ op[g].fd # names["auth"]
  BY <1>1, <1>2 DEF Saving, LoggingOut, StoresInv, Apart
<1>11. StoresTypeOK'
  BY <1>1, <1>5, <1>6, <1>8 DEF StoresInv, StoresTypeOK
<1>12. Apart'
  BY <1>1, <1>5, <1>9 DEF StoresInv, Apart
<1>13. Sorted'
  BY <1>1, <1>4, <1>7, <1>8, <1>10 DEF StoresInv, Sorted
<1>14. SavesAlone'
  <2>. SUFFICES ASSUME "overlap" \notin blame' PROVE SavesAlone'
    BY DEF SavesAlone
  <2>1. /\ names["approvals"] # None => content[names["approvals"]] \in Lists
        /\ \A h \in Gateways : Saving(h) => h = g
        /\ op[g].fd = names["tmp"]
        /\ content[op[g].fd] = Empty
    BY <1>1, <1>10 DEF StoresInv, SavesAlone
  <2>2. content'[op[g].fd] = op[g].value
    BY <1>2, <1>3, <1>7, <2>1
  <2>3. names["approvals"] # None => names["approvals"] # op[g].fd
    BY <2>1 DEF StoresInv, Apart, Files
  <2>. QED
    BY <1>1, <1>5, <1>7, <1>8, <1>9, <2>1, <2>2, <2>3 DEF SavesAlone
<1>15. AuthAlone'
  <2>1. \A h \in Gateways : \/ op'[h] = op[h]
                            \/ op'[h].kind \notin AuthOps /\ ~LoggingOut(h)
    BY <1>1, <1>5, <1>10 DEF AuthOps
  <2>. QED
    BY <1>1, <1>7, <1>8, <1>10, <2>1, AuthUntouched
<1>. QED
  BY <1>11, <1>12, <1>13, <1>14, <1>15 DEF StoresInv

(* The temporary file takes the place of approvals.json.                   *)
LEMMA SaveReplaceSteps ==
  ASSUME StoresInv, NEW g \in Gateways, SaveReplaces(g)
  PROVE  StoresInv'
<1>1. /\ op[g].kind = "save" /\ op[g].pc = "replace"
      /\ op' = [op EXCEPT ![g] = Idle]
      /\ UNCHANGED <<allow, content, ops, expected, blame>>
      /\ names' = IF names["tmp"] = None THEN names
                  ELSE [names EXCEPT !["approvals"] = names["tmp"], !["tmp"] = None]
  BY DEF SaveReplaces, At, Done, history
<1>2. /\ DOMAIN op = Gateways /\ Saving(g) /\ ~LoggingOut(g)
      /\ \A h \in Gateways : op'[h] = IF h = g THEN Idle ELSE op[h]
  BY <1>1 DEF StoresInv, StoresTypeOK, OperationOK, Saving, LoggingOut
<1>3. \A h \in Gateways : /\ Saving(h)' => Saving(h) /\ op'[h] = op[h] /\ h # g
                          /\ LoggingOut(h)' <=> LoggingOut(h)
                          /\ LoggingOut(h) => op'[h] = op[h]
  BY <1>2, IdleIsOK DEF Saving, LoggingOut, AuthOps, None
<1>4. /\ names'["auth"] = names["auth"]
      /\ names'["approvals"] = IF names["tmp"] = None THEN names["approvals"] ELSE names["tmp"]
      /\ names'["tmp"] = None
      /\ names' \in [Files -> {None} \cup Inodes]
  BY <1>1 DEF StoresInv, StoresTypeOK, Files
<1>5. StoresTypeOK'
  BY <1>1, <1>2, <1>4, IdleIsOK DEF StoresInv, StoresTypeOK
<1>6. Apart'
  <2>1. \A e, f \in Files : names'[e] # None /\ names'[e] = names'[f] => e = f
    BY <1>4 DEF StoresInv, Apart, Files
  <2>2. \A h \in Gateways : Saving(h)' =>
          /\ op'[h].fd # names'["auth"]
          /\ \A k \in Gateways : LoggingOut(k)' => op'[k].fd # op'[h].fd
    BY <1>3, <1>4 DEF StoresInv, Apart
  <2>3. \A h \in Gateways : LoggingOut(h)' =>
          op'[h].fd # names'["approvals"] /\ op'[h].fd # names'["tmp"]
    BY <1>3, <1>4 DEF StoresInv, Apart, LoggingOut
  <2>. QED
    BY <2>1, <2>2, <2>3 DEF Apart
<1>7. Sorted'
  BY <1>1, <1>4 DEF StoresInv, Sorted
<1>8. SavesAlone'
  <2>. SUFFICES ASSUME "overlap" \notin blame' PROVE SavesAlone'
    BY DEF SavesAlone
  <2>1. /\ \A h \in Gateways : Saving(h) => h = g
        /\ op[g].fd = names["tmp"] /\ content[op[g].fd] = op[g].value
    BY <1>1, <1>2 DEF StoresInv, SavesAlone
  <2>2. op[g].value \in Lists /\ names["tmp"] # None
    BY <1>1, <1>2, <2>1 DEF StoresInv, StoresTypeOK, OperationOK, Saving
  <2>. QED
    BY <1>1, <1>3, <1>4, <2>1, <2>2 DEF SavesAlone
<1>9. AuthAlone'
  <2>1. \A h \in Gateways : \/ op'[h] = op[h]
                            \/ op'[h].kind \notin AuthOps /\ ~LoggingOut(h)
    BY <1>2, IdleIsOK
  <2>. QED
    BY <1>1, <1>4, <2>1, AuthUntouched
<1>. QED
  BY <1>5, <1>6, <1>7, <1>8, <1>9 DEF StoresInv

(* A refresh puts its file in the place of auth.json.                      *)
LEMMA RefreshStoreSteps ==
  ASSUME StoresInv, NEW g \in Gateways, RefreshStored(g)
  PROVE  StoresInv'
<1>. DEFINE i == Free
            x == op[g].value
<1>1. /\ op[g].kind = "refresh" /\ op[g].pc = "put"
      /\ op' = [op EXCEPT ![g] = Idle]
      /\ names' = [names EXCEPT !["auth"] = i]
      /\ content' = [content EXCEPT ![i] = x]
      /\ expected' = [expected EXCEPT ![Codex] = x[1][Codex]]
      /\ UNCHANGED <<allow, ops, blame>>
  BY DEF RefreshStored, At, Done
<1>2. /\ DOMAIN op = Gateways /\ x \in Records /\ op[g].fd = None
      /\ \A h \in Gateways : op'[h] = IF h = g THEN Idle ELSE op[h]
  BY <1>1 DEF StoresInv, StoresTypeOK, OperationOK
<1>3. /\ i \in Inodes /\ i # None
      /\ \A file \in Files : names[file] # i
      /\ \A h \in Gateways : op[h].fd # i
  BY <1>2, FreeInode DEF StoresInv, Inodes, None
<1>. HIDE DEF i, x
<1>4. x[1] \in [Providers -> Nat] /\ x = Whole(x[1]) /\ x[1][Codex] \in Nat
  BY <1>2, WholeTexts, StoresAssumption
<1>5. \A h \in Gateways : /\ Saving(h)' => Saving(h) /\ op'[h] = op[h]
                          /\ LoggingOut(h)' => LoggingOut(h) /\ op'[h] = op[h]
  BY <1>2, IdleIsOK DEF Saving, LoggingOut, AuthOps, None
<1>6. /\ names'["auth"] = i /\ names'["approvals"] = names["approvals"]
      /\ names'["tmp"] = names["tmp"]
      /\ \A f \in Files : names'[f] = IF f = "auth" THEN i ELSE names[f]
      /\ names' \in [Files -> {None} \cup Inodes]
      /\ \A j \in Inodes : content'[j] = IF j = i THEN x ELSE content[j]
      /\ content' \in [Inodes -> Broken \cup Lists \cup Records]
      /\ "approvals" \in Files /\ "tmp" \in Files
      /\ names["approvals"] \in {None} \cup Inodes /\ names["tmp"] \in {None} \cup Inodes
  BY <1>1, <1>2, <1>3 DEF StoresInv, StoresTypeOK, Files
<1>7. expected' \in [Providers -> Nat]
  BY <1>1, <1>4 DEF StoresInv, StoresTypeOK
<1>8. StoresTypeOK'
  BY <1>1, <1>2, <1>3, <1>6, <1>7, IdleIsOK DEF StoresInv, StoresTypeOK
<1>9. Apart'
  <2>1. \A e, f \in Files : names'[e] # None /\ names'[e] = names'[f] => e = f
    BY <1>3, <1>6 DEF StoresInv, Apart
  <2>2. \A h \in Gateways : Saving(h)' =>
          /\ op'[h].fd # names'["auth"]
          /\ \A k \in Gateways : LoggingOut(k)' => op'[k].fd # op'[h].fd
    BY <1>3, <1>5, <1>6 DEF StoresInv, Apart
  <2>3. \A h \in Gateways : LoggingOut(h)' =>
          op'[h].fd # names'["approvals"] /\ op'[h].fd # names'["tmp"]
    BY <1>5, <1>6 DEF StoresInv, Apart
  <2>. QED
    BY <2>1, <2>2, <2>3 DEF Apart
<1>10. Sorted'
  BY <1>2, <1>3, <1>6 DEF StoresInv, Sorted
<1>11. SavesAlone'
  <2>. SUFFICES ASSUME "overlap" \notin blame' PROVE SavesAlone'
    BY DEF SavesAlone
  <2>1. \A h \in Gateways : Saving(h) => op[h].fd \in Inodes
    BY DEF StoresInv, StoresTypeOK, OperationOK, Operations, Saving
  <2>. QED
    BY <1>1, <1>3, <1>5, <1>6, <2>1 DEF StoresInv, SavesAlone
<1>12. AuthAlone'
  <2>. SUFFICES ASSUME Clean' PROVE AuthAlone'
    BY DEF AuthAlone
  <2>1. Clean /\ op[g].kind \in AuthOps
    BY <1>1 DEF Clean, AuthOps
  <2>2. \A h \in Gateways : op'[h].kind \notin AuthOps
    BY <1>2, <2>1, IdleIsOK DEF StoresInv, AuthAlone
  <2>3. \A p \in Providers \ {Codex} : x[1][p] = expected[p]
    BY <1>1, <2>1 DEF StoresInv, AuthAlone, Prepared, x
  <2>4. expected' = x[1]
    <3>1. \A p \in Providers : expected'[p] = x[1][p]
      BY <1>1, <2>3 DEF StoresInv, StoresTypeOK
    <3>. QED
      BY <1>4, <1>7, <3>1
  <2>5. content'[names'["auth"]] = Whole(expected')
    BY <1>3, <1>4, <1>6, <2>4
  <2>6. \A h \in Gateways : ~LoggingOut(h)'
    BY <2>2 DEF LoggingOut, AuthOps
  <2>. QED
    BY <2>2, <2>5, <2>6 DEF AuthAlone
<1>. QED
  BY <1>8, <1>9, <1>10, <1>11, <1>12 DEF StoresInv

(* A logout opens auth.json.                                               *)
LEMMA LogoutOpenSteps ==
  ASSUME StoresInv, NEW g \in Gateways, LogoutOpens(g)
  PROVE  StoresInv'
<1>1. /\ op[g].kind = "logout" /\ op[g].pc = "open" /\ Open(g, "auth", "write")
      /\ UNCHANGED <<allow, ops, expected, blame>>
  BY DEF LogoutOpens, At, history
<1>2. OperationOK(op[g]) /\ op[g].fd = None
  BY <1>1 DEF StoresInv, StoresTypeOK, OperationOK
<1>. DEFINE i == names["auth"]
<1>3. /\ i \in Inodes /\ i # None /\ names' = names
      /\ content' = [content EXCEPT ![i] = Empty]
      /\ op' = [op EXCEPT ![g].fd = i, ![g].pc = "write"]
  BY <1>1 DEF Open, StoresInv, StoresTypeOK, Files
<1>. HIDE DEF i
<1>4. /\ DOMAIN op' = Gateways
      /\ \A h \in Gateways : h # g => op'[h] = op[h]
      /\ op'[g].kind = "logout" /\ op'[g].value = op[g].value
      /\ op'[g].fd = i /\ op'[g].pc = "write"
      /\ OperationOK(op'[g])
  BY <1>1, <1>3, OpenedOperation DEF StoresInv
<1>5. /\ \A j \in Inodes : content'[j] = IF j = i THEN Empty ELSE content[j]
      /\ content' \in [Inodes -> Broken \cup Lists \cup Records]
      /\ names["approvals"] \in {None} \cup Inodes /\ names["tmp"] \in {None} \cup Inodes
      /\ i = names["auth"]
  BY <1>3 DEF StoresInv, StoresTypeOK, Broken, Files, i
<1>6. i # names["approvals"] /\ i # names["tmp"]
  BY <1>3, <1>5 DEF StoresInv, Apart, Files
<1>7. \A h \in Gateways : /\ Saving(h)' <=> Saving(h)
                          /\ Saving(h) => h # g /\ op'[h] = op[h]
                          /\ LoggingOut(h)' <=> LoggingOut(h) \/ h = g
  BY <1>1, <1>3, <1>4 DEF LoggingOut, Saving
<1>8. StoresTypeOK'
  BY <1>1, <1>3, <1>4, <1>5 DEF StoresInv, StoresTypeOK
<1>9. Apart'
  <2>1. \A h \in Gateways : Saving(h)' =>
          /\ op'[h].fd # names'["auth"]
          /\ \A k \in Gateways : LoggingOut(k)' => op'[k].fd # op'[h].fd
    BY <1>3, <1>4, <1>5, <1>7 DEF StoresInv, Apart
  <2>2. \A h \in Gateways : LoggingOut(h)' =>
          op'[h].fd # names'["approvals"] /\ op'[h].fd # names'["tmp"]
    BY <1>3, <1>4, <1>6, <1>7 DEF StoresInv, Apart
  <2>. QED
    BY <1>3, <2>1, <2>2 DEF StoresInv, Apart
<1>10. Sorted'
  BY <1>3, <1>5, <1>6 DEF StoresInv, Sorted, Broken
<1>11. SavesAlone'
  <2>. SUFFICES ASSUME "overlap" \notin blame' PROVE SavesAlone'
    BY DEF SavesAlone
  <2>1. \A h \in Gateways : Saving(h) => op[h].fd \in Inodes /\ op[h].fd # i
    BY <1>5 DEF StoresInv, StoresTypeOK, OperationOK, Operations, Saving, Apart
  <2>2. /\ names["approvals"] # None => content[names["approvals"]] \in Lists
        /\ \A h, k \in Gateways : Saving(h) /\ Saving(k) => h = k
        /\ \A h \in Gateways : Saving(h) =>
             /\ op[h].fd = names["tmp"]
             /\ content[op[h].fd] = IF op[h].pc = "write" THEN Empty ELSE op[h].value
    BY <1>1 DEF StoresInv, SavesAlone
  <2>3. names'["approvals"] # None => content'[names'["approvals"]] \in Lists
    BY <1>3, <1>5, <1>6, <2>2
  <2>4. \A h, k \in Gateways : Saving(h)' /\ Saving(k)' => h = k
    BY <1>7, <2>2
  <2>5. ASSUME NEW h \in Gateways, Saving(h)'
        PROVE  /\ op'[h].fd = names'["tmp"]
               /\ content'[op'[h].fd]
                    = IF op'[h].pc = "write" THEN Empty ELSE op'[h].value
    <3>1. Saving(h) /\ op'[h] = op[h]
      BY <1>7, <2>5
    <3>. QED
      BY <1>3, <1>5, <2>1, <2>2, <3>1
  <2>. QED
    BY <2>3, <2>4, <2>5 DEF SavesAlone
<1>12. AuthAlone'
  <2>. SUFFICES ASSUME Clean' PROVE AuthAlone'
    BY DEF AuthAlone
  <2>1. Clean /\ op[g].kind \in AuthOps
    BY <1>1 DEF Clean, AuthOps
  <2>2. \A h \in Gateways : op'[h].kind \in AuthOps => h = g
    BY <1>4, <2>1 DEF StoresInv, AuthAlone
  <2>3. Prepared(g)'
    BY <1>1, <1>4, <2>1 DEF StoresInv, AuthAlone, Prepared
  <2>4. \A h \in Gateways : LoggingOut(h)' => h = g
    BY <2>2 DEF LoggingOut, AuthOps
  <2>5. op'[g].fd = names'["auth"] /\ content'[op'[g].fd] = Empty
    BY <1>3, <1>4, <1>5
  <2>6. LoggingOut(g)'
    BY <1>7
  <2>. QED
    BY <2>2, <2>3, <2>4, <2>5, <2>6 DEF AuthAlone
<1>. QED
  BY <1>8, <1>9, <1>10, <1>11, <1>12 DEF StoresInv

(* A logout writes the records that are left.                              *)
LEMMA LogoutWriteSteps ==
  ASSUME StoresInv, NEW g \in Gateways, LogoutWrites(g)
  PROVE  StoresInv'
<1>. DEFINE i == op[g].fd
            x == op[g].value
<1>1. /\ op[g].kind = "logout" /\ op[g].pc = "write"
      /\ op' = [op EXCEPT ![g] = Idle]
      /\ expected' = [p \in Providers |-> IF x[1][p] = None THEN None ELSE expected[p]]
      /\ UNCHANGED <<allow, names, ops, blame>>
  BY DEF LogoutWrites, At, Done
<1>2. /\ DOMAIN op = Gateways /\ x \in Records /\ i \in Inodes /\ i # None
      /\ \A h \in Gateways : op'[h] = IF h = g THEN Idle ELSE op[h]
  BY <1>1 DEF StoresInv, StoresTypeOK, OperationOK, Operations
<1>3. PICK after : /\ after \in IF content[i] = Empty THEN {x} ELSE {x, Torn}
                   /\ content' = [content EXCEPT ![i] = after]
  BY DEF LogoutWrites, Written
<1>. HIDE DEF i, x
<1>4. LoggingOut(g) /\ op[g].fd = i /\ op[g].value = x
  BY <1>1, <1>2 DEF LoggingOut, i, x
<1>5. after \in Broken \cup Records
  BY <1>2, <1>3 DEF Broken
<1>6. x[1] \in [Providers -> Nat] /\ x = Whole(x[1])
  BY <1>2, WholeTexts
<1>7. \A h \in Gateways : /\ Saving(h)' => Saving(h) /\ op'[h] = op[h]
                          /\ LoggingOut(h)' => LoggingOut(h) /\ op'[h] = op[h]
  BY <1>2, IdleIsOK DEF Saving, LoggingOut, AuthOps, None
<1>8. /\ \A j \in Inodes : content'[j] = IF j = i THEN after ELSE content[j]
      /\ content' \in [Inodes -> Broken \cup Lists \cup Records]
      /\ names["approvals"] \in {None} \cup Inodes /\ names["tmp"] \in {None} \cup Inodes
      /\ names["auth"] \in Inodes
  BY <1>2, <1>3, <1>5 DEF StoresInv, StoresTypeOK, Files
<1>9. i # names["approvals"] /\ i # names["tmp"]
  BY <1>4 DEF StoresInv, Apart
<1>10. expected' \in [Providers -> Nat]
  BY <1>1 DEF StoresInv, StoresTypeOK, None
<1>11. StoresTypeOK'
  BY <1>1, <1>2, <1>8, <1>10, IdleIsOK DEF StoresInv, StoresTypeOK
<1>12. Apart'
  BY <1>1, <1>7 DEF StoresInv, Apart
<1>13. Sorted'
  BY <1>1, <1>5, <1>8, <1>9 DEF StoresInv, Sorted
<1>14. SavesAlone'
  <2>1. \A h \in Gateways : Saving(h) => op[h].fd \in Inodes /\ op[h].fd # i
    BY <1>4 DEF StoresInv, StoresTypeOK, OperationOK, Operations, Saving, Apart
  <2>. QED
    BY <1>1, <1>7, <1>8, <1>9, <2>1 DEF StoresInv, SavesAlone
<1>15. AuthAlone'
  <2>. SUFFICES ASSUME Clean' PROVE AuthAlone'
    BY DEF AuthAlone
  <2>1. Clean /\ op[g].kind \in AuthOps
    BY <1>1 DEF Clean, AuthOps
  <2>2. \A h \in Gateways : op'[h].kind \notin AuthOps
    BY <1>2, <2>1, IdleIsOK DEF StoresInv, AuthAlone
  <2>3. /\ i = names["auth"] /\ content[i] = Empty
        /\ \A p \in Providers : x[1][p] = None \/ x[1][p] = expected[p]
    BY <1>1, <1>4, <2>1 DEF StoresInv, AuthAlone, Prepared
  <2>4. expected' = x[1]
    <3>1. \A p \in Providers : expected'[p] = x[1][p]
      BY <1>1, <2>3
    <3>. QED
      BY <1>6, <1>10, <3>1
  <2>5. content'[names'["auth"]] = Whole(expected')
    BY <1>1, <1>3, <1>6, <1>8, <2>3, <2>4
  <2>6. \A h \in Gateways : ~LoggingOut(h)'
    BY <2>2 DEF LoggingOut, AuthOps
  <2>. QED
    BY <2>2, <2>5, <2>6 DEF AuthAlone
<1>. QED
  BY <1>11, <1>12, <1>13, <1>14, <1>15 DEF StoresInv

-----------------------------------------------------------------------------
(* The theorems.                                                           *)

(* What is known of the files is inductive.                                *)
LEMMA StoresInvInductive ==
  /\ Init => StoresInv
  /\ StoresInv /\ [Next]_vars => StoresInv'
<1>1. ASSUME Init
      PROVE  StoresInv
  <2>. DEFINE r == [p \in Providers |-> 1]
  <2>1. 1 \in Inodes /\ 1 # None /\ r \in [Providers -> Nat]
    BY StoresAssumption, FS_CardinalityType DEF Inodes, None
  <2>. HIDE DEF r
  <2>2. /\ op = [g \in Gateways |-> Idle] /\ blame = {} /\ ops = 0 /\ expected = r
        /\ allow = [g \in Gateways |-> {}]
        /\ names = [file \in Files |-> IF file = "auth" THEN 1 ELSE None]
        /\ content = [j \in Inodes |-> IF j = 1 THEN Whole(r) ELSE Empty]
    BY <1>1 DEF Init, r
  <2>3. names["auth"] = 1 /\ names["approvals"] = None /\ names["tmp"] = None
        /\ content[1] = Whole(r) /\ Whole(r) \in Records
    BY <2>1, <2>2 DEF Files, Records
  <2>4. \A g \in Gateways : ~Saving(g) /\ ~LoggingOut(g) /\ op[g].kind \notin AuthOps
    BY <2>2, IdleIsOK DEF Saving, LoggingOut
  <2>5. StoresTypeOK
    <3>1. content \in [Inodes -> Broken \cup Lists \cup Records]
      BY <2>2, <2>3 DEF Broken
    <3>2. names \in [Files -> {None} \cup Inodes]
      BY <2>1, <2>2
    <3>. QED
      BY <2>1, <2>2, <2>3, <3>1, <3>2, IdleIsOK DEF StoresTypeOK
  <2>6. Apart
    BY <2>1, <2>2, <2>4 DEF Apart
  <2>7. Sorted /\ SavesAlone /\ AuthAlone
    BY <2>2, <2>3, <2>4 DEF Sorted, SavesAlone, AuthAlone
  <2>. QED
    BY <2>5, <2>6, <2>7 DEF StoresInv
<1>2. ASSUME StoresInv, Next
      PROVE  StoresInv'
  BY <1>2, ComeAndGo, DecisionSteps, RefreshSteps, LogoutBeginSteps, SaveOpenSteps,
     SaveWriteSteps, SaveReplaceSteps, RefreshStoreSteps, LogoutOpenSteps, LogoutWriteSteps
     DEF Next
<1>3. ASSUME StoresInv, UNCHANGED vars
      PROVE  StoresInv'
  BY <1>3 DEF vars, files, history, StoresInv, StoresTypeOK, Apart, Sorted, SavesAlone,
              AuthAlone, Saving, LoggingOut, Clean, Prepared
<1>. QED
  BY <1>1, <1>2, <1>3

(* approvals.json is whole unless two saves overlapped, and auth.json      *)
(* unless a logout is at its write, was cut short there or ran beside      *)
(* another operation, for any number of gateways and crashes (save of      *)
(* ApprovalStore, put and delete of AuthStore).                            *)
THEOREM AlwaysWholeFiles == Spec => []WholeFiles
<1>1. StoresInv => WholeFiles
  <2>. SUFFICES ASSUME StoresInv PROVE WholeFiles
    OBVIOUS
  <2>1. names["approvals"] # None => Readable("approvals") \/ "overlap" \in blame
    BY WholeTexts DEF StoresInv, SavesAlone, Readable, Broken
  <2>2. \A g \in Gateways : LoggingOut(g) => At(g, "logout", "write")
    BY DEF StoresInv, StoresTypeOK, OperationOK, LoggingOut, At
  <2>3. Clean /\ (\A g \in Gateways : ~LoggingOut(g)) => Readable("auth")
    BY WholeTexts DEF StoresInv, AuthAlone, Readable, Broken
  <2>. QED
    BY <2>1, <2>2, <2>3 DEF WholeFiles, Clean
<1>. QED
  BY <1>1, StoresInvInductive, PTL DEF Spec

(* Operations on auth.json that run one at a time lose no record and bring *)
(* none back, wherever a crash falls before the write of a logout.         *)
THEOREM AlwaysRecordsKept == Spec => []RecordsKept
<1>1. StoresInv => RecordsKept
  <2>. SUFFICES ASSUME StoresInv, blame \cap {"cut", "raced"} = {},
                       \A g \in Gateways : ~At(g, "logout", "write")
                PROVE  Read("auth") = expected
    BY DEF RecordsKept
  <2>1. \A g \in Gateways : ~LoggingOut(g)
    BY DEF StoresInv, StoresTypeOK, OperationOK, LoggingOut, At
  <2>. QED
    BY <2>1, AuthRead DEF Clean
<1>. QED
  BY <1>1, StoresInvInductive, PTL DEF Spec

=============================================================================
