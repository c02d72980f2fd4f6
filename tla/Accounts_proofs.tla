-------------------------- MODULE Accounts_proofs --------------------------
(***************************************************************************)
(* Proofs about Accounts, for every number of workers, names, columns,     *)
(* accounts and resets, and for every limit of failed logins.              *)
(***************************************************************************)
EXTENDS Accounts, FiniteSetTheorems, TLAPS

(***************************************************************************)
(* Type correctness                                                        *)
(***************************************************************************)

\* TypeOK in four parts, so that a step is argued part by part.
BootOK == /\ keyfile \in Workers \cup {NoKey, EmptyKey}
          /\ key \in [Workers -> Workers \cup {NoKey}]
          /\ schema \in 0 .. Columns + 1 /\ have \in [Workers -> 0 .. Columns + 1]
          /\ epoch \in Nat /\ made \in Nat /\ epochs \in Nat
RowsOK == users \in [Ids -> Row \cup {NoRow}] /\ lastId \in 0 .. MaxAccounts
DataOK == /\ failures \in [Names -> Nat]
          /\ files \in SUBSET Nat /\ listed \in SUBSET Nat /\ blind \in BOOLEAN
          /\ sessions \subseteq Session
          /\ reset \in {"no", "files", "schema", "columns", "epoch", "seed"}
WorkOK == pc \in [Workers -> Starting \cup Serving] /\ req \in [Workers -> Request]

LEMMA Parts == TypeOK <=> BootOK /\ RowsOK /\ DataOK /\ WorkOK
  BY DEF TypeOK, BootOK, RowsOK, DataOK, WorkOK

LEMMA PartsPrime == BootOK' /\ RowsOK' /\ DataOK' /\ WorkOK' => TypeOK'
  BY DEF TypeOK, BootOK, RowsOK, DataOK, WorkOK

LEMMA InitTypeOK == Init => TypeOK
<1> SUFFICES ASSUME Init PROVE TypeOK
  OBVIOUS
<1>1. BootOK
  BY BoundsNatural DEF Init, BootOK
<1>2. RowsOK
  BY BoundsNatural DEF Init, RowsOK
<1>3. DataOK
  <2>1. NoSession \in Session
    BY DEF Session, NoSession
  <2>2. QED BY <2>1 DEF Init, DataOK
<1>4. WorkOK
  BY BoundsNatural, AdminNamed DEF Init, WorkOK, Request, Idle, Ids, Starting
<1>5. QED BY <1>1, <1>2, <1>3, <1>4, Parts

LEMMA InsertUserType ==
  ASSUME TypeOK, NEW n \in Names, NEW r \in Roles, NEW m \in BOOLEAN, InsertUser(n, r, m)
  PROVE  RowsOK' /\ made' \in Nat /\ lastId + 1 \in Ids
<1>1. lastId + 1 \in Ids /\ made' \in Nat /\ lastId' \in 0 .. MaxAccounts
  BY BoundsNatural DEF TypeOK, InsertUser, Ids
<1>2. users' \in [Ids -> Row \cup {NoRow}]
  BY <1>1 DEF TypeOK, InsertUser, Row
<1>3. QED BY <1>1, <1>2 DEF RowsOK


\* The row a request works with is one of the table's.
LEMMA EnterType ==
  ASSUME TypeOK, NEW w \in Workers, NEW s \in sessions, NEW where \in Serving,
         NEW form \in Request, Enter(w, s, where, form)
  PROVE  TypeOK'
<1>1. s \in Session /\ s.uid \in Ids
  BY DEF TypeOK, Enter, Valid, Accounts
<1>2. users[s.uid] \in Row \cup {NoRow} /\ s.born \in Nat
  BY <1>1 DEF TypeOK, Session
<1>3. [form EXCEPT !.user = users[s.uid], !.as = s.born] \in Request
  BY <1>2 DEF Request
<1>4. WorkOK'
  BY <1>3 DEF TypeOK, WorkOK, Enter, Goto
<1>5. BootOK' /\ RowsOK' /\ DataOK'
  BY DEF TypeOK, BootOK, RowsOK, DataOK, Enter, boot, base, command, counts
<1>6. QED BY <1>4, <1>5, PartsPrime

LEMMA IdleType == Idle \in Request
  BY BoundsNatural, AdminNamed DEF Idle, Request, Ids

LEMMA RequestNumbers ==
  ASSUME NEW r \in Request
  PROVE  r.user.id \in Nat /\ r.user.born \in Nat
<1>1. r.user \in Row \cup {NoRow}
  BY DEF Request
<1>2. CASE r.user \in Row
  BY <1>2, BoundsNatural DEF Row, Ids
<1>3. CASE r.user = NoRow
  BY <1>3 DEF NoRow
<1>4. QED BY <1>1, <1>2, <1>3

LEMMA UserType ==
  ASSUME TypeOK, NEW w \in Workers
  PROVE  req[w].user.id \in Nat /\ req[w].user.born \in Nat
<1>1. req[w] \in Request
  BY DEF TypeOK
<1>2. QED BY <1>1, RequestNumbers

LEMMA BootType ==
  ASSUME TypeOK, NEW w \in Workers, Boot(w) \/ StartDies(w)
  PROVE  TypeOK'
<1> USE DEF Goto, Gone, boot, base, command, counts
<1>1. CASE CreateKey(w) \/ WriteKey(w) \/ ReadKey(w)
  BY ZenonT(40), <1>1, KeysDiffer DEF TypeOK, CreateKey, WriteKey, ReadKey, Starting
<1>2. CASE Schema(w) \/ ReadColumns(w) \/ Seed(w) \/ StartDies(w)
  <2>1. CASE Schema(w)
    BY <2>1, BoundsNatural DEF TypeOK, Schema, Created, Starting
  <2>2. CASE ReadColumns(w)
    BY <2>2 DEF TypeOK, ReadColumns, Starting
  <2>3. CASE Seed(w)
    BY <2>3 DEF TypeOK, Seed, Starting, Serving
  <2>4. CASE StartDies(w)
    BY <2>4, BoundsNatural DEF TypeOK, StartDies, Starting
  <2>5. QED BY <1>2, <2>1, <2>2, <2>3, <2>4
<1>3. CASE AddColumn(w)
  BY <1>3, BoundsNatural DEF TypeOK, AddColumn, Starting
<1>4. CASE Epoch(w)
  BY <1>4 DEF TypeOK, Epoch, NewEpoch, Starting
<1>5. CASE InsertAdmin(w)
  <2>1. RowsOK' /\ made' \in Nat
    BY <1>5, InsertUserType, AdminNamed DEF InsertAdmin, Roles, TypeOK, RowsOK
  <2>2. key' \in [Workers -> Workers \cup {NoKey}] /\ have' \in [Workers -> 0 .. Columns + 1]
    <3>1. /\ key \in [Workers -> Workers \cup {NoKey}]
          /\ have \in [Workers -> 0 .. Columns + 1]
      BY DEF TypeOK
    <3>2. UNCHANGED <<key, have>> \/ Gone(w)
      BY <1>5 DEF InsertAdmin
    <3>3. 0 \in 0 .. Columns + 1
      BY BoundsNatural
    <3>4. QED BY <3>1, <3>2, <3>3
  <2> BootOK'
    BY <1>5, <2>1, <2>2 DEF InsertAdmin, TypeOK, BootOK
  <2>3. WorkOK' /\ DataOK'
    BY <1>5 DEF InsertAdmin, TypeOK, WorkOK, DataOK, Starting, Serving
  <2>4. QED BY <2>1, <2>2, <2>3, PartsPrime
<1>6. QED BY <1>1, <1>2, <1>3, <1>4, <1>5 DEF Boot

LEMMA AskType ==
  ASSUME TypeOK, NEW w \in Workers, Ask(w)
  PROVE  TypeOK'
<1>1. ASSUME NEW n \in Names, Count(w, n) \/ Validate(w, n) PROVE TypeOK'
  <2>1. [req[w] EXCEPT !.name = n] \in Request
    BY DEF TypeOK, Request
  <2>2. QED BY <1>1, <2>1 DEF Count, Validate, TypeOK, Goto, Serving, boot, base,
                              command, counts
<1>2. ASSUME NEW s \in sessions, AskChange(w, s) \/ AskWork(w, s) PROVE TypeOK'
  BY <1>2, EnterType, IdleType DEF AskChange, AskWork, Serving
<1>3. ASSUME NEW s \in sessions, NEW i \in Accounts, AskDelete(w, s, i) PROVE TypeOK'
  <2>1. [Idle EXCEPT !.target = i] \in Request
    BY IdleType DEF Request, Accounts
  <2>2. QED BY <1>3, <2>1, EnterType DEF AskDelete, Serving
<1>4. ASSUME NEW s \in sessions, NEW i \in Accounts, NEW on \in BOOLEAN,
             AskToggle(w, s, i, on)
      PROVE TypeOK'
  <2>1. [Idle EXCEPT !.target = i, !.on = on] \in Request
    BY IdleType DEF Request, Accounts
  <2>2. QED BY <1>4, <2>1, EnterType DEF AskToggle, Serving
<1>5. QED BY <1>1, <1>2, <1>3, <1>4 DEF Ask

LEMMA ServeType ==
  ASSUME TypeOK, NEW w \in Workers, Serve(w)
  PROVE  TypeOK'
<1> USE IdleType DEF Goto, Done, boot, base, command, counts
<1>1. CASE Check(w)
  <2>1. ASSUME NEW i \in Ids PROVE [req[w] EXCEPT !.user = users[i]] \in Request
    BY DEF TypeOK, Request
  <2>2. QED BY <1>1, <2>1 DEF Check, TypeOK, Serving, Named, Accounts
<1>2. CASE RecordFailure(w)
  <2>1. req[w].name \in Names
    BY DEF TypeOK, Request
  <2>2. QED BY <1>2, <2>1 DEF RecordFailure, TypeOK, Serving
<1>3. CASE SignIn(w)
  <2>1. req[w].user.id \in Nat /\ req[w].user.born \in Nat
    BY UserType
  <2>2. [uid |-> req[w].user.id, epoch |-> epoch, born |-> req[w].user.born] \in Session
    BY <2>1 DEF TypeOK, Session
  <2>3. QED BY <1>3, <2>2 DEF SignIn, TypeOK, Serving
<1>4. CASE Insert(w)
  <2>1. req[w].name \in Names
    BY DEF TypeOK, Request
  <2>2. CASE InsertUser(req[w].name, "user", FALSE)
    <3>1. RowsOK' /\ made' \in Nat /\ lastId + 1 \in Ids
      BY <2>1, <2>2, InsertUserType DEF Roles
    <3>2. [uid |-> lastId + 1, epoch |-> epoch, born |-> made + 1] \in Session
      BY <3>1 DEF TypeOK, Session, Ids
    <3>3. QED BY <1>4, <3>1, <3>2 DEF Insert, RowsOK, TypeOK, Serving
  <2>3. QED BY <1>4, <2>2 DEF Insert, TypeOK, Serving
<1>5. CASE Change(w) \/ Toggle(w)
  <2>1. ASSUME NEW i \in Ids, NEW b \in BOOLEAN, users[i].id # 0
        PROVE  /\ [users[i] EXCEPT !.must = FALSE, !.fresh = TRUE] \in Row
               /\ [users[i] EXCEPT !.active = b] \in Row
    <3>1. users[i] \in Row
      BY <2>1 DEF TypeOK, NoRow
    <3>2. QED BY <3>1 DEF Row
  <2>2. req[w].target \in Ids /\ req[w].on \in BOOLEAN
    BY DEF TypeOK, Request
  <2>3. CASE Change(w)
    BY <1>5, <2>1, <2>3 DEF Change, TypeOK, Serving
  <2>4. CASE Toggle(w)
    BY <1>5, <2>1, <2>2, <2>4 DEF Toggle, TypeOK, Serving
  <2>5. QED BY <1>5, <2>3, <2>4
<1>6. CASE Work(w)
  <2>1. req[w].user.born \in Nat
    BY UserType
  <2>2. QED BY <1>6, <2>1 DEF Work, TypeOK, Serving
<1>7. CASE Delete(w)
  <2>1. BootOK' /\ RowsOK' /\ WorkOK'
    BY <1>7 DEF Delete, TypeOK, BootOK, RowsOK, WorkOK, Serving
  <2> failures \in [Names -> Nat] /\ files \in SUBSET Nat
    BY DEF TypeOK
  <2>2. failures' \in [Names -> Nat] /\ files' \in SUBSET Nat
    BY <1>7 DEF Delete
  <2>3. DataOK'
    BY <1>7, <2>2 DEF Delete, TypeOK, DataOK
  <2>4. QED BY <2>1, <2>3, PartsPrime
<1>8. QED BY <1>1, <1>2, <1>3, <1>4, <1>5, <1>6, <1>7 DEF Serve

LEMMA ResetType ==
  ASSUME TypeOK, Reset
  PROVE  TypeOK'
<1> USE DEF boot, base, command, counts
<1>1. CASE ResetBegins
  <2>1. DataOK' /\ WorkOK'
    BY <1>1 DEF ResetBegins, TypeOK, DataOK, WorkOK, Starting
  <2>2. BootOK' /\ RowsOK'
    BY <1>1, BoundsNatural DEF ResetBegins, TypeOK, BootOK, RowsOK
  <2>3. QED BY <2>1, <2>2, PartsPrime
<1>2. CASE ResetEnds \/ DropDatabase \/ \E f \in listed : ResetRemoves(f)
  <2> DataOK
    BY DEF TypeOK, DataOK
  <2> DataOK'
    <3>1. CASE ResetEnds
      BY <3>1 DEF ResetEnds, ResetOver, DataOK
    <3>2. CASE DropDatabase
      BY <3>2 DEF DropDatabase, DataOK
    <3>3. CASE \E f \in listed : ResetRemoves(f)
      BY <3>3 DEF ResetRemoves, DataOK
    <3>4. QED BY <1>2, <3>1, <3>2, <3>3
  <2>1. DataOK' /\ WorkOK'
    BY <1>2 DEF ResetEnds, DropDatabase, ResetRemoves, TypeOK, WorkOK
  <2>2. BootOK' /\ RowsOK'
    BY <1>2, BoundsNatural DEF ResetEnds, DropDatabase, ResetRemoves, TypeOK, BootOK, RowsOK
  <2>3. QED BY <2>1, <2>2, PartsPrime
<1>3. CASE ResetSeed
  <2>1. RowsOK' /\ made' \in Nat
    BY <1>3, InsertUserType, AdminNamed DEF ResetSeed, Roles
  <2>2. QED BY <1>3, <2>1 DEF ResetSeed, ResetOver, RowsOK, TypeOK
<1>4. CASE ResetSchema \/ ResetColumns
  <2>1. schema' \in 0 .. Columns + 1
    BY <1>4, BoundsNatural DEF ResetSchema, ResetColumns, Created, TypeOK
  <2>2. QED BY <1>4, <2>1 DEF ResetSchema, ResetColumns, TypeOK
<1>5. CASE ResetEpoch
  BY <1>5 DEF ResetEpoch, NewEpoch, TypeOK
<1>6. QED BY <1>1, <1>2, <1>3, <1>4, <1>5 DEF Reset

LEMMA StepTypeOK == ASSUME TypeOK, [Next]_vars PROVE TypeOK'
<1>1. ASSUME NEW n \in Names, Expire(n) PROVE TypeOK'
  BY <1>1 DEF Expire, TypeOK, boot, base, command, counts
<1>2. CASE UNCHANGED vars
  BY <1>2 DEF TypeOK, vars, boot, base, command, counts
<1>3. QED BY <1>1, <1>2, BootType, AskType, ServeType, ResetType DEF Next

(***************************************************************************)
(* The inductive invariant                                                 *)
(***************************************************************************)

\* No worker runs beside a reset.
Quiet == reset # "no" => \A w \in Workers : pc[w] = "down"

\* One worker at most is about to write the key, and the file waits for it;
\* whoever has read the key has the one that is in the file for good.
KeyKept ==
  /\ \A w \in Workers : pc[w] = "write_key" =>
       keyfile = EmptyKey /\ \A v \in Workers : pc[v] = "write_key" => v = w
  /\ \A w \in Workers : pc[w] = "read_key" => keyfile # NoKey
  /\ \A w \in Workers : pc[w] \notin {"down", "write_key", "read_key"} =>
       keyfile \in Workers /\ key[w] = keyfile

\* How far the schema is when a start is so far.
TablesKept ==
  \A w \in Workers :
    /\ pc[w] = "columns" => schema > 0
    /\ pc[w] = "add" => 0 < have[w] /\ have[w] <= schema
    /\ pc[w] \in {"epoch", "seed", "insert_admin"} \cup Serving => schema = Columns + 1
    /\ pc[w] \in {"seed", "insert_admin"} \cup Serving => epoch # 0

\* The rows: their identifiers, and one account for each name; the one that
\* has the administrator's name is the administrator, and is not disabled; a
\* password that need not be changed is not the seeded one.
RowsSound ==
  /\ \A i \in Ids : users[i] # NoRow =>
       /\ users[i].id = i /\ i <= lastId
       /\ 0 < users[i].born /\ users[i].born <= made
       /\ users[i].must \/ users[i].fresh
       /\ users[i].role = "admin" <=> users[i].name = AdminName
       /\ users[i].role = "admin" => users[i].active
  /\ \A i, j \in Ids : users[i] # NoRow /\ users[j] # NoRow /\ users[i].name = users[j].name
                         => i = j

\* The administrator is there before anybody serves, and what is disabled or
\* deleted is somebody else.
AdminKept ==
  \A w \in Workers :
    /\ pc[w] \in Serving => \E i \in Ids : users[i] # NoRow /\ users[i].role = "admin"
    /\ pc[w] \in {"toggle", "delete"} =>
         req[w].target <= lastId /\ users[req[w].target].role # "admin"

\* A session of this epoch names the account it was made for, or one that is
\* gone and whose identifier is not used again.
Denotes(id, born) == id <= lastId /\ \A i \in Ids : i = id /\ users[i] # NoRow => users[i].born = born

SessionsSound ==
  /\ epoch <= epochs
  /\ \A s \in sessions :
       /\ s.epoch <= epochs
       /\ s.epoch = 0 => s.uid = 0
       /\ s.epoch = epoch /\ epoch # 0 => Denotes(s.uid, s.born)
  /\ \A w \in Workers : pc[w] = "clear" =>
       req[w].user.id # 0 /\ Denotes(req[w].user.id, req[w].user.born)

\* What a handler knows of the account it works for.
RequestsSound ==
  \A w \in Workers :
    /\ Working(w) => req[w].user.fresh
    /\ Working(w) \/ pc[w] = "change" => req[w].user.born = req[w].as
    /\ pc[w] = "work" => req[w].user.born # 0

\* A reset from which the store hides nothing has listed every file.
FilesListed ==
  /\ 0 \notin files
  /\ reset = "files" /\ ~blind => files \subseteq listed

IInv == /\ TypeOK /\ Quiet /\ KeyKept /\ TablesKept /\ RowsSound /\ AdminKept
        /\ SessionsSound /\ RequestsSound /\ FilesListed /\ AttemptsBounded

\* A request moves only its own worker, which serves before and after, and
\* leaves the start-up's variables and the reset's alone.
Frame(w) ==
  /\ UNCHANGED <<keyfile, key, have, schema, epoch, epochs, reset, listed, blind>>
  /\ pc[w] \in Serving /\ pc'[w] \in Serving
  /\ \A v \in Workers \ {w} : pc'[v] = pc[v] /\ req'[v] = req[v]

LEMMA RequestFrame ==
  ASSUME TypeOK, NEW w \in Workers, Ask(w) \/ Serve(w)
  PROVE  Frame(w)
<1> USE DEF Frame, Goto, Done, boot, base, command, counts, Serving
<1> pc \in [Workers -> Starting \cup Serving] /\ req \in [Workers -> Request]
  BY DEF TypeOK
<1>1. ASSUME NEW s \in sessions, NEW where \in Serving, NEW form, Enter(w, s, where, form)
      PROVE  Frame(w)
  BY <1>1 DEF Enter
<1>2. CASE Ask(w)
  <2>1. ASSUME NEW n \in Names, Count(w, n) \/ Validate(w, n) PROVE Frame(w)
    BY <2>1 DEF Count, Validate
  <2>2. QED BY <1>1, <1>2, <2>1 DEF Ask, AskChange, AskWork, AskDelete, AskToggle
<1>3. CASE Check(w) \/ RecordFailure(w) \/ SignIn(w) \/ Insert(w)
  BY <1>3 DEF Check, RecordFailure, SignIn, Insert
<1>4. CASE Change(w) \/ Work(w) \/ Toggle(w) \/ Delete(w)
  BY <1>4 DEF Change, Work, Toggle, Delete
<1>5. QED BY <1>2, <1>3, <1>4 DEF Serve

LEMMA QuietStep ==
  ASSUME TypeOK, Quiet, [Next]_vars
  PROVE  Quiet'
<1> pc \in [Workers -> Starting \cup Serving]
  BY DEF TypeOK
<1>1. ASSUME NEW w \in Workers, Ask(w) \/ Serve(w) PROVE Quiet'
  BY <1>1, RequestFrame DEF Frame, Quiet, Serving
<1>2. ASSUME NEW w \in Workers, Boot(w) \/ StartDies(w) PROVE Quiet'
  BY <1>2 DEF Quiet, Boot, StartDies, CreateKey, WriteKey, ReadKey, Schema, ReadColumns,
              AddColumn, Epoch, Seed, InsertAdmin, Goto, Gone, command
<1>3. ASSUME NEW n \in Names, Expire(n) PROVE Quiet'
  BY <1>3 DEF Quiet, Expire, command
<1>4. CASE Reset
  BY <1>4 DEF Quiet, Reset, ResetBegins, ResetEnds, ResetOver, ResetRemoves, DropDatabase,
              ResetSchema, ResetColumns, ResetEpoch, ResetSeed
<1>5. CASE UNCHANGED vars
  BY <1>5 DEF Quiet, vars, command
<1>6. QED BY <1>1, <1>2, <1>3, <1>4, <1>5 DEF Next

LEMMA KeyStep ==
  ASSUME TypeOK, Quiet, KeyKept, [Next]_vars
  PROVE  KeyKept'
<1> /\ pc \in [Workers -> Starting \cup Serving]
    /\ key \in [Workers -> Workers \cup {NoKey}]
    /\ keyfile \in Workers \cup {NoKey, EmptyKey}
  BY DEF TypeOK
<1>1. ASSUME NEW w \in Workers, Ask(w) \/ Serve(w) PROVE KeyKept'
  BY <1>1, RequestFrame DEF Frame, KeyKept, Serving
<1>2. ASSUME NEW w \in Workers, Boot(w) \/ StartDies(w) PROVE KeyKept'
  <2> USE KeysDiffer DEF KeyKept, Goto, Gone
  <2>1. CASE CreateKey(w)
    BY <2>1 DEF CreateKey
  <2>2. CASE WriteKey(w)
    BY <2>2 DEF WriteKey
  <2>3. CASE ReadKey(w)
    BY <2>3 DEF ReadKey
  <2>4. CASE Schema(w) \/ ReadColumns(w) \/ Epoch(w) \/ Seed(w)
    BY <2>4 DEF Schema, ReadColumns, Epoch, Seed, boot
  <2>5. CASE AddColumn(w) \/ StartDies(w)
    BY <2>5 DEF AddColumn, StartDies
  <2>6. CASE InsertAdmin(w)
    BY <2>6 DEF InsertAdmin
  <2>7. QED BY <1>2, <2>1, <2>2, <2>3, <2>4, <2>5, <2>6 DEF Boot
<1>3. ASSUME NEW n \in Names, Expire(n) PROVE KeyKept'
  BY <1>3 DEF KeyKept, Expire, boot
<1>4. CASE Reset
  BY <1>4 DEF KeyKept, Reset, ResetBegins, ResetEnds, ResetRemoves, DropDatabase,
              ResetSchema, ResetColumns, ResetEpoch, ResetSeed, boot
<1>5. CASE UNCHANGED vars
  BY <1>5 DEF KeyKept, vars, boot
<1>6. QED BY <1>1, <1>2, <1>3, <1>4, <1>5 DEF Next

LEMMA TablesStep ==
  ASSUME TypeOK, Quiet, TablesKept, [Next]_vars
  PROVE  TablesKept'
<1> /\ pc \in [Workers -> Starting \cup Serving] /\ have \in [Workers -> 0 .. Columns + 1]
    /\ schema \in 0 .. Columns + 1 /\ epoch \in Nat /\ epochs \in Nat /\ Columns \in Nat
  BY BoundsNatural DEF TypeOK
<1>1. ASSUME NEW w \in Workers, Ask(w) \/ Serve(w) PROVE TablesKept'
  BY <1>1, RequestFrame DEF Frame, TablesKept, Serving
<1>2. ASSUME NEW w \in Workers, Boot(w) \/ StartDies(w) PROVE TablesKept'
  <2> USE DEF TablesKept, Goto, Gone, Serving
  <2>1. CASE CreateKey(w) \/ WriteKey(w) \/ ReadKey(w)
    BY <2>1 DEF CreateKey, WriteKey, ReadKey, base
  <2>2. CASE Schema(w)
    BY <2>2 DEF Schema, Created, boot
  <2>3. CASE ReadColumns(w)
    BY <2>3 DEF ReadColumns, base
  <2>4. CASE AddColumn(w)
    BY <2>4 DEF AddColumn
  <2>5. CASE Epoch(w)
    BY <2>5 DEF Epoch, NewEpoch, boot
  <2>6. CASE Seed(w) \/ StartDies(w)
    BY <2>6 DEF Seed, StartDies, boot, base
  <2>7. CASE InsertAdmin(w)
    BY <2>7 DEF InsertAdmin
  <2>8. QED BY <1>2, <2>1, <2>2, <2>3, <2>4, <2>5, <2>6, <2>7 DEF Boot
<1>3. ASSUME NEW n \in Names, Expire(n) PROVE TablesKept'
  BY <1>3 DEF TablesKept, Expire, boot
<1>4. CASE Reset
  <2>1. \A w \in Workers : pc'[w] = "down"
    BY <1>4 DEF Quiet, Reset, ResetBegins, ResetEnds, ResetRemoves, DropDatabase,
                ResetSchema, ResetColumns, ResetEpoch, ResetSeed
  <2>2. QED BY <2>1 DEF TablesKept, Serving
<1>5. CASE UNCHANGED vars
  BY <1>5 DEF TablesKept, vars, boot, base
<1>6. QED BY <1>1, <1>2, <1>3, <1>4, <1>5 DEF Next

(***************************************************************************)
(* Rows, and who the administrator is                                      *)
(***************************************************************************)
LEMMA RowFacts ==
  ASSUME TypeOK, NEW i \in Ids
  PROVE  /\ users[i] \in Row \cup {NoRow}
         /\ users[i].id # 0 <=> users[i] # NoRow
         /\ users[i] # NoRow => users[i] \in Row
<1>1. users[i] \in Row \cup {NoRow}
  BY DEF TypeOK
<1>2. \A r \in Row : r.id # 0
  BY BoundsNatural DEF Row, Ids
<1>3. NoRow.id = 0
  BY DEF NoRow
<1>4. QED BY <1>1, <1>2, <1>3

\* The steps that write the table of users.
Rewrites == \/ \E w \in Workers : InsertAdmin(w) \/ Insert(w) \/ Change(w) \/ Toggle(w) \/ Delete(w)
            \/ DropDatabase \/ ResetSeed

LEMMA OtherSteps ==
  ASSUME [Next]_vars, ~Rewrites
  PROVE  UNCHANGED <<users, lastId, made>>
<1> USE DEF base, counts
<1>1. ASSUME NEW w \in Workers, Boot(w) \/ StartDies(w) PROVE UNCHANGED <<users, lastId, made>>
  BY <1>1 DEF Rewrites, Boot, StartDies, CreateKey, WriteKey, ReadKey, Schema, ReadColumns,
              AddColumn, Epoch, Seed
<1>2. ASSUME NEW w \in Workers, Serve(w) PROVE UNCHANGED <<users, lastId, made>>
  BY SMTT(40), <1>2 DEF Rewrites, Serve, Check, RecordFailure, SignIn, Work
<1>3. ASSUME NEW w \in Workers, Ask(w) PROVE UNCHANGED <<users, lastId, made>>
  BY Zenon, <1>3 DEF Ask, Count, Validate, AskChange, AskWork, AskToggle, AskDelete, Enter
<1>4. CASE Reset
  BY <1>4 DEF Rewrites, Reset, ResetBegins, ResetEnds, ResetRemoves, ResetSchema,
              ResetColumns, ResetEpoch
<1>5. CASE UNCHANGED vars
  BY <1>5 DEF vars
<1>6. ASSUME NEW n \in Names, Expire(n) PROVE UNCHANGED <<users, lastId, made>>
  BY <1>6 DEF Expire
<1>7. QED BY <1>1, <1>2, <1>3, <1>4, <1>5, <1>6 DEF Next

\* A row that is added is told from all others by its name and identifier.
LEMMA InsertUserSound ==
  ASSUME TypeOK, RowsSound, NEW n \in Names, NEW r \in Roles, NEW m \in BOOLEAN,
         InsertUser(n, r, m), r = "admin" <=> n = AdminName
  PROVE  RowsSound'
<1> DEFINE new == [id |-> lastId + 1, name |-> n, role |-> r, active |-> TRUE,
                   must |-> m, fresh |-> ~m, born |-> made + 1]
<1>1. /\ lastId + 1 \in Ids /\ lastId' = lastId + 1 /\ made' = made + 1
      /\ users' = [users EXCEPT ![lastId + 1] = new]
      /\ users \in [Ids -> Row \cup {NoRow}] /\ made \in Nat /\ lastId \in Nat
  <2>1. lastId + 1 \in Ids
    BY InsertUserType
  <2>2. lastId \in Nat
    BY BoundsNatural DEF TypeOK
  <2>3. QED BY <2>1, <2>2 DEF InsertUser, TypeOK
<1>2. \A i \in Ids : users[i] # NoRow => users[i].name # n
  BY RowFacts DEF InsertUser, Named, Accounts
<1>3. \A i \in Ids : i # lastId + 1 => users'[i] = users[i]
  BY <1>1
<1>4. users'[lastId + 1] = new
  BY <1>1
<1>5. ASSUME NEW i \in Ids, users'[i] # NoRow
      PROVE  /\ users'[i].id = i /\ i <= lastId'
             /\ 0 < users'[i].born /\ users'[i].born <= made'
             /\ users'[i].must \/ users'[i].fresh
             /\ users'[i].role = "admin" <=> users'[i].name = AdminName
             /\ users'[i].role = "admin" => users'[i].active
  <2>1. CASE i = lastId + 1
    <3>1. users'[i] = new
      BY <1>4, <2>1
    <3>2. new.must \/ new.fresh
      OBVIOUS
    <3>3. new.id = i /\ i <= lastId' /\ 0 < new.born /\ new.born <= made'
      BY <1>1, <2>1
    <3>4. new.role = "admin" <=> new.name = AdminName
      OBVIOUS
    <3>5. new.active
      OBVIOUS
    <3> HIDE DEF new
    <3>6. QED BY <3>1, <3>2, <3>3, <3>4, <3>5
  <2>2. CASE i # lastId + 1
    <3>1. users'[i] = users[i] /\ users[i] # NoRow /\ users[i].born \in Nat /\ i \in Nat
      BY <1>3, <1>5, <2>2, RowFacts, BoundsNatural DEF Row, Ids
    <3>2. QED BY <1>1, <3>1 DEF RowsSound
  <2>3. QED BY <2>1, <2>2
<1>6. ASSUME NEW i \in Ids, NEW j \in Ids, users'[i] # NoRow, users'[j] # NoRow,
             users'[i].name = users'[j].name
      PROVE  i = j
  <2>1. new.name = n
    OBVIOUS
  <2>2. QED BY <1>2, <1>3, <1>4, <1>6, <2>1 DEF RowsSound
<1>7. QED BY <1>5, <1>6 DEF RowsSound

\* Whoever serves knows an administrator, so nobody registers that name.
LEMMA NobodyTakesTheName ==
  ASSUME TypeOK, RowsSound, AdminKept, NEW w \in Workers, pc[w] \in Serving
  PROVE  Named(AdminName) # {}
<1>1. PICK i \in Ids : users[i] # NoRow /\ users[i].role = "admin"
  BY DEF AdminKept
<1>2. QED BY <1>1, RowFacts DEF RowsSound, Named, Accounts

LEMMA InsertSound ==
  ASSUME TypeOK, RowsSound, AdminKept, NEW w \in Workers, Insert(w) \/ InsertAdmin(w)
  PROVE  RowsSound'
<1>1. CASE Insert(w)
  <2>1. CASE InsertUser(req[w].name, "user", FALSE)
    <3>1. req[w].name \in Names
      BY DEF TypeOK, Request
    <3>2. req[w].name # AdminName
      BY <1>1, <2>1, NobodyTakesTheName DEF Insert, InsertUser, Serving
    <3>3. QED BY <2>1, <3>1, <3>2, InsertUserSound DEF Roles
  <2>2. CASE UNCHANGED <<users, lastId, made>>
    BY <2>2 DEF RowsSound
  <2>3. QED BY <1>1, <2>1, <2>2 DEF Insert
<1>2. CASE InsertAdmin(w)
  <2>1. CASE InsertUser(AdminName, "admin", TRUE)
    BY <2>1, AdminNamed, InsertUserSound DEF Roles
  <2>2. CASE UNCHANGED <<users, lastId, made>>
    BY <2>2 DEF RowsSound
  <2>3. QED BY <1>2, <2>1, <2>2 DEF InsertAdmin
<1>3. QED BY <1>1, <1>2

\* Passwords and the switch of an account touch nothing that tells rows apart;
\* an administrator is never the target.
LEMMA UpdateSound ==
  ASSUME TypeOK, RowsSound, AdminKept, NEW w \in Workers, Change(w) \/ Toggle(w) \/ Delete(w)
  PROVE  /\ RowsSound' /\ lastId' = lastId
         /\ \A i \in Ids : users[i].role = "admin" => users'[i].role = "admin"
         /\ \A i \in Ids : users'[i] # NoRow =>
              /\ users[i] # NoRow
              /\ users'[i].born = users[i].born /\ users'[i].role = users[i].role
<1> users \in [Ids -> Row \cup {NoRow}] /\ req[w].target \in Ids /\ req[w].on \in BOOLEAN
  BY DEF TypeOK, Request
<1> lastId' = lastId /\ made' = made
  BY DEF Change, Toggle, Delete, counts
<1> DEFINE Same(i) == \/ users'[i] = users[i]
                      \/ users'[i] = [users[i] EXCEPT !.must = FALSE, !.fresh = TRUE]
                      \/ \E b \in BOOLEAN : users[i].role # "admin"
                                            /\ users'[i] = [users[i] EXCEPT !.active = b]
<1>1. ASSUME NEW i \in Ids
      PROVE  \/ Same(i) /\ (users[i] = NoRow => users'[i] = NoRow)
             \/ users[i].role # "admin" /\ users'[i] = NoRow
  <2>1. CASE Change(w)
    <3>1. \/ users' = users
          \/ /\ users[req[w].user.id].id # 0
             /\ users' = [users EXCEPT ![req[w].user.id] =
                             [users[req[w].user.id] EXCEPT !.must = FALSE, !.fresh = TRUE]]
      BY <2>1 DEF Change
    <3>2. users[i] = NoRow => users[i].id = 0
      BY DEF NoRow
    <3>3. QED BY <3>1, <3>2
  <2>2. CASE Toggle(w)
    <3>1. \/ users' = users
          \/ /\ users[req[w].target].id # 0
             /\ users' = [users EXCEPT ![req[w].target] =
                             [users[req[w].target] EXCEPT !.active = req[w].on]]
      BY <2>2 DEF Toggle
    <3>2. users[i] = NoRow => users[i].id = 0
      BY DEF NoRow
    <3>3. users[req[w].target].role # "admin"
      BY <2>2 DEF Toggle, AdminKept
    <3>4. QED BY <3>1, <3>2, <3>3
  <2>3. CASE Delete(w)
    <3>1. users' = users \/ users' = [users EXCEPT ![req[w].target] = NoRow]
      BY <2>3 DEF Delete
    <3>2. users[req[w].target].role # "admin"
      BY <2>3 DEF Delete, AdminKept
    <3>3. QED BY <3>1, <3>2
  <2>4. QED BY <2>1, <2>2, <2>3
<1>2. ASSUME NEW i \in Ids, users'[i] # NoRow
      PROVE  /\ users[i] # NoRow /\ users'[i].name = users[i].name
             /\ users'[i].id = users[i].id
             /\ users'[i].born = users[i].born /\ users'[i].role = users[i].role
             /\ users'[i].must \/ users'[i].fresh
             /\ users'[i].role = "admin" => users'[i].active
  <2>1. users[i] \in Row /\ users[i] # NoRow
    BY <1>1, <1>2, RowFacts
  <2>2. Same(i)
    BY <1>1, <1>2
  <2>3. (users[i].must \/ users[i].fresh) /\ (users[i].role = "admin" => users[i].active)
    BY <2>1 DEF RowsSound
  <2>4. QED BY <2>1, <2>2, <2>3 DEF Row
<1>3. RowsSound'
  BY <1>2 DEF RowsSound
<1>4. ASSUME NEW i \in Ids, users[i].role = "admin" PROVE users'[i].role = "admin"
  <2>1. users[i] \in Row
    BY <1>4, RowFacts DEF NoRow
  <2>2. Same(i)
    BY <1>1, <1>4
  <2>3. QED BY <1>4, <2>1, <2>2 DEF Row
<1>5. QED BY <1>2, <1>3, <1>4

LEMMA RowsStep ==
  ASSUME TypeOK, Quiet, RowsSound, AdminKept, [Next]_vars
  PROVE  RowsSound'
<1>1. CASE UNCHANGED <<users, lastId, made>>
  BY <1>1 DEF RowsSound
<1>2. ASSUME NEW w \in Workers, InsertAdmin(w) \/ Insert(w) PROVE RowsSound'
  BY <1>2, InsertSound DEF Insert, InsertAdmin
<1>3. ASSUME NEW w \in Workers, Change(w) \/ Toggle(w) \/ Delete(w) PROVE RowsSound'
  BY <1>3, UpdateSound
<1>4. CASE DropDatabase
  BY <1>4 DEF DropDatabase, RowsSound
<1>5. CASE ResetSeed
  BY <1>5, AdminNamed, InsertUserSound DEF ResetSeed, Roles
<1>6. QED BY <1>1, <1>2, <1>3, <1>4, <1>5, OtherSteps DEF Rewrites

\* Unless the database is dropped, identifiers are not used again, an account
\* keeps its role and its number, and the administrator remains.
RowsKept ==
  /\ lastId <= lastId'
  /\ \A i \in Ids : users[i].role = "admin" => users'[i].role = "admin"
  /\ \A i \in Ids : i <= lastId /\ users'[i] # NoRow =>
       users[i] # NoRow /\ users'[i].born = users[i].born /\ users'[i].role = users[i].role

LEMMA InsertKeeps ==
  ASSUME TypeOK, RowsSound, NEW n \in Names, NEW r \in Roles, NEW m \in BOOLEAN,
         InsertUser(n, r, m)
  PROVE  RowsKept
<1>1. lastId \in Nat /\ lastId' = lastId + 1 /\ lastId + 1 \in Ids
  <2>1. lastId + 1 \in Ids
    BY InsertUserType
  <2>2. lastId \in Nat
    BY BoundsNatural DEF TypeOK
  <2>3. QED BY <2>1, <2>2 DEF InsertUser
<1>2. \A i \in Ids : i # lastId + 1 => users'[i] = users[i]
  BY DEF InsertUser, TypeOK
<1>3. users[lastId + 1] = NoRow
  BY <1>1 DEF RowsSound
<1>4. NoRow.role # "admin"
  BY DEF NoRow
<1>5. \A i \in Ids : i <= lastId => i # lastId + 1
  BY <1>1, BoundsNatural DEF Ids
<1>6. QED BY <1>1, <1>2, <1>3, <1>4, <1>5 DEF RowsKept

LEMMA RowsKeptStep ==
  ASSUME TypeOK, RowsSound, AdminKept, [Next]_vars, ~DropDatabase
  PROVE  RowsKept
<1> lastId \in Nat
  BY BoundsNatural DEF TypeOK
<1>1. CASE UNCHANGED <<users, lastId>>
  BY <1>1 DEF RowsKept
<1>2. ASSUME NEW w \in Workers, InsertAdmin(w) \/ Insert(w) PROVE RowsKept
  <2>1. req[w].name \in Names
    BY DEF TypeOK, Request
  <2>2. QED BY <1>1, <1>2, <2>1, AdminNamed, InsertKeeps DEF InsertAdmin, Insert, Roles
<1>3. ASSUME NEW w \in Workers, Change(w) \/ Toggle(w) \/ Delete(w) PROVE RowsKept
  BY <1>3, UpdateSound DEF RowsKept
<1>4. CASE ResetSeed
  BY <1>4, AdminNamed, InsertKeeps DEF ResetSeed, Roles
<1>5. QED BY <1>1, <1>2, <1>3, <1>4, OtherSteps DEF Rewrites

\* What a step does to a worker other than the one that takes it.
LEMMA Others ==
  ASSUME TypeOK, [Next]_vars, NEW v \in Workers,
         ~(Boot(v) \/ StartDies(v) \/ Ask(v) \/ Serve(v)), pc'[v] # "down"
  PROVE  pc'[v] = pc[v] /\ req'[v] = req[v]
<1> pc \in [Workers -> Starting \cup Serving]
  BY DEF TypeOK
<1>1. ASSUME NEW w \in Workers, w # v, Ask(w) \/ Serve(w)
      PROVE  pc'[v] = pc[v] /\ req'[v] = req[v]
  BY <1>1, RequestFrame DEF Frame
<1>2. ASSUME NEW w \in Workers, w # v, Boot(w) \/ StartDies(w)
      PROVE  pc'[v] = pc[v] /\ req'[v] = req[v]
  BY <1>2 DEF Boot, StartDies, CreateKey, WriteKey, ReadKey, Schema, ReadColumns,
              AddColumn, Epoch, Seed, InsertAdmin, Goto, Gone
<1>3. ASSUME NEW n \in Names, Expire(n) PROVE pc' = pc /\ req' = req
  BY <1>3 DEF Expire
<1>4. CASE Reset
  BY <1>4 DEF Reset, ResetBegins, ResetEnds, ResetRemoves, DropDatabase,
              ResetSchema, ResetColumns, ResetEpoch, ResetSeed
<1>5. CASE UNCHANGED vars
  BY <1>5 DEF vars
<1>6. QED BY <1>1, <1>2, <1>3, <1>4, <1>5 DEF Next

\* A start ends with an administrator: the one it finds or the one it makes.
LEMMA StartFinds ==
  ASSUME TypeOK, RowsSound, NEW w \in Workers, Boot(w) \/ StartDies(w), pc'[w] \in Serving
  PROVE  \E i \in Ids : users'[i] # NoRow /\ users'[i].role = "admin"
<1> pc \in [Workers -> Starting \cup Serving]
  BY DEF TypeOK
<1>1. Seed(w) \/ InsertAdmin(w)
  BY DEF Boot, StartDies, CreateKey, WriteKey, ReadKey, Schema, ReadColumns, AddColumn,
         Epoch, Goto, Gone, Serving
<1>2. CASE Seed(w)
  <2>1. PICK i \in Named(AdminName) : TRUE
    BY <1>2 DEF Seed, Goto, Serving
  <2>2. i \in Ids /\ users[i] # NoRow /\ users[i].role = "admin"
    BY <2>1, RowFacts DEF Named, Accounts, RowsSound
  <2>3. QED BY <1>2, <2>2 DEF Seed, base
<1>3. CASE InsertAdmin(w)
  <2>1. InsertUser(AdminName, "admin", TRUE)
    BY <1>3 DEF InsertAdmin, Gone, Goto, Serving
  <2>2. lastId + 1 \in Ids
    BY <2>1, AdminNamed, InsertUserType DEF Roles
  <2>3. users'[lastId + 1].role = "admin"
    BY <2>1, <2>2 DEF InsertUser, TypeOK
  <2>4. NoRow.role # "admin"
    BY SMTT(40) DEF NoRow
  <2>5. QED BY <2>2, <2>3, <2>4
<1>4. QED BY <1>1, <1>2, <1>3

\* What an administrator's request is aimed at is another account, and there
\* is no other administrator.
LEMMA AskAims ==
  ASSUME TypeOK, RowsSound, NEW w \in Workers, Ask(w), pc'[w] \in {"toggle", "delete"}
  PROVE  req'[w].target <= lastId /\ users[req'[w].target].role # "admin"
<1> pc \in [Workers -> Starting \cup Serving] /\ req \in [Workers -> Request]
  BY DEF TypeOK
<1>1. ASSUME NEW s \in sessions, NEW i \in Accounts, NEW on \in BOOLEAN,
             NEW where \in {"toggle", "delete"}, NEW form \in Request, form.target = i,
             Enter(w, s, where, form), i # s.uid
      PROVE  req'[w].target <= lastId /\ users[req'[w].target].role # "admin"
  <2>1. req'[w].target = i
    BY <1>1 DEF Enter, Request
  <2>2. s.uid \in Ids /\ users[s.uid] # NoRow /\ users[s.uid].role = "admin"
    BY <1>1, RowFacts DEF Enter, Admitted, Valid, Accounts
  <2>3. i \in Ids /\ users[i] # NoRow
    BY RowFacts DEF Accounts
  <2>4. QED BY <1>1, <2>1, <2>2, <2>3 DEF RowsSound
<1>2. ASSUME NEW s \in sessions, NEW i \in Accounts, AskDelete(w, s, i)
      PROVE  req'[w].target <= lastId /\ users[req'[w].target].role # "admin"
  <2>1. [Idle EXCEPT !.target = i] \in Request /\ [Idle EXCEPT !.target = i].target = i
    BY IdleType DEF Request, Accounts
  <2>2. QED BY <1>1, <1>2, <2>1 DEF AskDelete
<1>3. ASSUME NEW s \in sessions, NEW i \in Accounts, NEW on \in BOOLEAN, AskToggle(w, s, i, on)
      PROVE  req'[w].target <= lastId /\ users[req'[w].target].role # "admin"
  <2>1. /\ [Idle EXCEPT !.target = i, !.on = on] \in Request
        /\ [Idle EXCEPT !.target = i, !.on = on].target = i
    BY IdleType DEF Request, Accounts
  <2>2. QED BY <1>1, <1>3, <2>1 DEF AskToggle
<1>4. QED BY <1>2, <1>3 DEF Ask, Count, Validate, AskChange, AskWork, Enter, Goto

LEMMA AdminStep ==
  ASSUME TypeOK, Quiet, RowsSound, AdminKept, [Next]_vars
  PROVE  AdminKept'
<1> pc \in [Workers -> Starting \cup Serving] /\ lastId \in Nat
  BY BoundsNatural DEF TypeOK
<1>1. CASE DropDatabase
  BY <1>1 DEF DropDatabase, Quiet, AdminKept, Serving
<1>2. ASSUME ~DropDatabase, NEW v \in Workers, pc'[v] \in Serving
      PROVE  \E i \in Ids : users'[i] # NoRow /\ users'[i].role = "admin"
  <2>1. CASE pc[v] \in Serving
    <3>1. PICK i \in Ids : users[i] # NoRow /\ users[i].role = "admin"
      BY <2>1 DEF AdminKept
    <3>2. NoRow.role # "admin"
      BY DEF NoRow
    <3>3. QED BY <1>2, <3>1, <3>2, RowsKeptStep DEF RowsKept
  <2>2. CASE pc[v] \notin Serving
    <3>1. Boot(v) \/ StartDies(v)
      BY <1>2, <2>2, Others, RequestFrame DEF Frame, Serving
    <3>2. QED BY <1>2, <3>1, StartFinds
  <2>3. QED BY <2>1, <2>2
<1>3. ASSUME ~DropDatabase, NEW v \in Workers, pc'[v] \in {"toggle", "delete"}
      PROVE  req'[v].target <= lastId' /\ users'[req'[v].target].role # "admin"
  <2>1. req'[v].target \in Ids
    BY <1>3, StepTypeOK DEF TypeOK, Request
  <2>2. req'[v].target <= lastId /\ users[req'[v].target].role # "admin"
    <3>1. CASE Ask(v)
      BY <1>3, <3>1, AskAims
    <3>2. CASE Boot(v) \/ StartDies(v)
      BY <1>3, <3>2 DEF Boot, StartDies, CreateKey, WriteKey, ReadKey, Schema, ReadColumns,
                        AddColumn, Epoch, Seed, InsertAdmin, Goto, Gone
    <3>3. CASE Serve(v)
      BY <1>3, <3>3 DEF Serve, Check, RecordFailure, SignIn, Insert, Change, Work, Toggle,
                        Delete, Goto, Done
    <3>4. QED BY <1>3, <3>1, <3>2, <3>3, Others DEF AdminKept
  <2>3. RowsKept
    BY <1>3, RowsKeptStep
  <2>4. lastId' \in Nat /\ lastId <= lastId' /\ req'[v].target \in Nat
    BY SMTT(40), <2>1, <2>3, StepTypeOK, BoundsNatural DEF RowsKept, TypeOK, Ids
  <2>5. users'[req'[v].target].role # "admin"
    BY <2>1, <2>2, <2>3 DEF RowsKept, NoRow
  <2>6. QED BY <2>2, <2>4, <2>5
<1>4. QED BY <1>1, <1>2, <1>3 DEF AdminKept

(***************************************************************************)
(* Sessions, requests and files                                            *)
(***************************************************************************)
LEMMA DenotesKept ==
  ASSUME TypeOK, TypeOK', RowsKept, NEW id \in Nat, NEW born, Denotes(id, born)
  PROVE  id <= lastId' /\ \A i \in Ids : i = id /\ users'[i] # NoRow => users'[i].born = born
<1>1. lastId \in Nat /\ lastId' \in Nat /\ lastId <= lastId' /\ id <= lastId
  BY BoundsNatural DEF TypeOK, RowsKept, Denotes
<1>2. QED BY <1>1 DEF RowsKept, Denotes

\* A session is only added with the account it was made for.
LEMMA NewSessions ==
  ASSUME TypeOK, TablesKept, RowsSound, SessionsSound, [Next]_vars, NEW s \in sessions',
         s \notin sessions
  PROVE  /\ s.epoch = epoch /\ epoch # 0 /\ UNCHANGED <<epoch, epochs>>
         /\ s.uid # 0 /\ s.uid <= lastId'
         /\ \A i \in Ids : i = s.uid /\ users'[i] # NoRow => users'[i].born = s.born
<1>1. PICK w \in Workers : SignIn(w) \/ Insert(w)
  <2> USE DEF base, counts
  <2>1. ASSUME NEW w \in Workers, Boot(w) \/ StartDies(w) PROVE UNCHANGED sessions
    BY <2>1 DEF Boot, StartDies, CreateKey, WriteKey, ReadKey, Schema, ReadColumns,
                AddColumn, Epoch, Seed, InsertAdmin
  <2>2. ASSUME NEW w \in Workers, Serve(w), ~SignIn(w), ~Insert(w) PROVE UNCHANGED sessions
    BY <2>2 DEF Serve, Check, RecordFailure, Change, Work, Toggle, Delete
  <2>3. ASSUME NEW w \in Workers, Ask(w) PROVE UNCHANGED sessions
    BY Zenon, <2>3 DEF Ask, Count, Validate, AskChange, AskWork, AskToggle, AskDelete, Enter
  <2>4. CASE Reset
    BY <2>4 DEF Reset, ResetBegins, ResetEnds, ResetRemoves, DropDatabase, ResetSchema,
                ResetColumns, ResetEpoch, ResetSeed
  <2>5. CASE UNCHANGED vars
    BY <2>5 DEF vars
  <2>6. ASSUME NEW n \in Names, Expire(n) PROVE UNCHANGED sessions
    BY <2>6 DEF Expire
  <2>7. QED BY <2>1, <2>2, <2>3, <2>4, <2>5, <2>6 DEF Next
<1>2. epoch # 0
  BY <1>1 DEF TablesKept, SignIn, Insert, Serving
<1>3. CASE SignIn(w)
  BY <1>2, <1>3 DEF SignIn, SessionsSound, Denotes, counts
<1>4. CASE Insert(w)
  <2>1. /\ InsertUser(req[w].name, "user", FALSE)
        /\ s = [uid |-> lastId + 1, epoch |-> epoch, born |-> made + 1]
    BY <1>4 DEF Insert
  <2>2. lastId \in Nat /\ lastId + 1 \in Ids
    <3>1. lastId \in Nat
      BY BoundsNatural DEF TypeOK
    <3>2. req[w].name \in Names
      BY DEF TypeOK, Request
    <3>3. QED BY <2>1, <3>1, <3>2, InsertUserType DEF Roles
  <2>3. users'[lastId + 1].born = made + 1 /\ lastId' = lastId + 1
    BY <2>1, <2>2 DEF InsertUser, TypeOK
  <2>4. s.uid = lastId + 1 /\ s.epoch = epoch /\ s.born = made + 1
    BY <2>1
  <2>5. s.uid # 0 /\ s.uid <= lastId'
    BY <2>2, <2>3, <2>4
  <2>6. QED BY <1>2, <1>4, <2>3, <2>4, <2>5 DEF Insert
<1>5. QED BY <1>1, <1>3, <1>4

\* The epoch changes only where there is none, to one that no session has.
LEMMA EpochMoves ==
  ASSUME [Next]_vars, ~DropDatabase
  PROVE  \/ UNCHANGED <<epoch, epochs>>
         \/ epoch' = epochs + 1 /\ epochs' = epochs + 1 /\ UNCHANGED <<users, lastId>>
<1> USE DEF base, counts
<1>1. ASSUME NEW w \in Workers, Boot(w) \/ StartDies(w), ~Epoch(w)
      PROVE  UNCHANGED <<epoch, epochs>>
  BY <1>1 DEF Boot, StartDies, CreateKey, WriteKey, ReadKey, Schema, ReadColumns,
              AddColumn, Seed, InsertAdmin
<1>2. ASSUME NEW w \in Workers, Serve(w) PROVE UNCHANGED <<epoch, epochs>>
  BY Zenon, <1>2 DEF Serve, Check, RecordFailure, SignIn, Insert, Change, Work, Toggle, Delete
<1>3. ASSUME NEW w \in Workers, Ask(w) PROVE UNCHANGED <<epoch, epochs>>
  BY Zenon, <1>3 DEF Ask, Count, Validate, AskChange, AskWork, AskToggle, AskDelete, Enter
<1>4. CASE Reset /\ ~ResetEpoch
  BY <1>4 DEF Reset, ResetBegins, ResetEnds, ResetRemoves, ResetSchema, ResetColumns, ResetSeed
<1>5. CASE UNCHANGED vars
  BY <1>5 DEF vars
<1>6. ASSUME NEW n \in Names, Expire(n) PROVE UNCHANGED <<epoch, epochs>>
  BY <1>6 DEF Expire
<1>7. ASSUME NEW w \in Workers, Epoch(w) \/ ResetEpoch
      PROVE  \/ UNCHANGED <<epoch, epochs>>
             \/ epoch' = epochs + 1 /\ epochs' = epochs + 1 /\ UNCHANGED <<users, lastId>>
  BY <1>7 DEF Epoch, ResetEpoch, NewEpoch
<1>8. QED BY <1>1, <1>2, <1>3, <1>4, <1>5, <1>6, <1>7, WorkersFinite DEF Next, Reset

\* The row that signs in was read from the table.
LEMMA CheckDenotes ==
  ASSUME TypeOK, RowsSound, SessionsSound, [Next]_vars, ~DropDatabase, NEW v \in Workers,
         pc'[v] = "clear"
  PROVE  req'[v].user.id # 0 /\ Denotes(req'[v].user.id, req'[v].user.born)
<1> pc \in [Workers -> Starting \cup Serving] /\ req \in [Workers -> Request]
  BY DEF TypeOK
<1>1. CASE Check(v)
  <2>1. PICK i \in Named(req[v].name) : req'[v].user = users[i]
    BY <1>1 DEF Check, Goto, Done, Request
  <2>2. i \in Ids /\ users[i] # NoRow /\ i # 0
    BY RowFacts, BoundsNatural DEF Named, Accounts, Ids
  <2>3. users[i].id = i /\ i <= lastId
    BY <2>2 DEF RowsSound
  <2>4. QED BY <2>1, <2>2, <2>3 DEF Denotes
<1>2. CASE pc[v] = "clear" /\ req'[v] = req[v]
  BY <1>2 DEF SessionsSound
<1>3. CASE Boot(v) \/ StartDies(v)
  BY Zenon, <1>3 DEF Boot, StartDies, CreateKey, WriteKey, ReadKey, Schema, ReadColumns,
              AddColumn, Epoch, Seed, InsertAdmin, Goto, Gone
<1>4. CASE Ask(v)
  BY Zenon, <1>4 DEF Ask, Count, Validate, AskChange, AskWork, AskToggle, AskDelete, Enter, Goto
<1>5. CASE Serve(v) /\ ~Check(v)
  BY <1>5 DEF Serve, RecordFailure, SignIn, Insert, Change, Work, Toggle, Delete, Goto, Done
<1>6. QED BY <1>1, <1>2, <1>3, <1>4, <1>5, Others

LEMMA SessionsStep ==
  ASSUME TypeOK, Quiet, TablesKept, RowsSound, AdminKept, SessionsSound, [Next]_vars
  PROVE  SessionsSound'
<1> TypeOK' /\ epochs \in Nat /\ epoch \in Nat
  BY StepTypeOK DEF TypeOK
<1>1. CASE DropDatabase
  BY <1>1 DEF DropDatabase, Quiet, SessionsSound, counts
<1>2. CASE ~DropDatabase
  <2>1. RowsKept
    BY <1>2, RowsKeptStep
  <2>2. epoch' <= epochs'
    BY <1>2, EpochMoves DEF SessionsSound
  <2>3. ASSUME NEW s \in sessions'
        PROVE  /\ s.epoch <= epochs' /\ (s.epoch = 0 => s.uid = 0)
               /\ s.epoch = epoch' /\ epoch' # 0 => Denotes(s.uid, s.born)'
    <3>1. CASE s \notin sessions
      BY <3>1, NewSessions DEF SessionsSound, Denotes
    <3>2. CASE s \in sessions
      <4>1. s.uid \in Nat /\ s.epoch \in Nat /\ s.epoch <= epochs /\ (s.epoch = 0 => s.uid = 0)
        BY <3>2 DEF TypeOK, Session, SessionsSound
      <4>2. CASE UNCHANGED <<epoch, epochs>>
        BY <2>1, <3>2, <4>1, <4>2, DenotesKept DEF SessionsSound, Denotes
      <4>3. CASE epoch' = epochs + 1 /\ epochs' = epochs + 1
        BY <4>1, <4>3
      <4>4. QED BY <1>2, <4>2, <4>3, EpochMoves
    <3>3. QED BY <3>1, <3>2
  <2>4. ASSUME NEW v \in Workers, pc'[v] = "clear"
        PROVE  req'[v].user.id # 0 /\ Denotes(req[v].user.id, req[v].user.born)'
    <3>1. req'[v].user.id # 0 /\ Denotes(req'[v].user.id, req'[v].user.born)
      BY <1>2, <2>4, CheckDenotes
    <3>2. req'[v].user.id \in Nat
      <4>1. req'[v] \in Request
        BY DEF TypeOK
      <4>2. QED BY <4>1, RequestNumbers
    <3>3. QED BY <2>1, <3>1, <3>2, DenotesKept DEF Denotes
  <2>5. QED BY <2>2, <2>3, <2>4 DEF SessionsSound
<1>3. QED BY <1>1, <1>2

\* A request is let in for the account of its session, and to work only when
\* its password has been changed.
LEMMA AskSound ==
  ASSUME TypeOK, TablesKept, RowsSound, SessionsSound, NEW w \in Workers, Ask(w)
  PROVE  /\ pc'[w] \in {"check", "insert", "change", "work", "toggle", "delete"}
         /\ pc'[w] \in {"work", "toggle", "delete"} => req'[w].user.fresh
         /\ pc'[w] \in {"change", "work", "toggle", "delete"} =>
              req'[w].user.born = req'[w].as /\ req'[w].user.born # 0
<1> pc \in [Workers -> Starting \cup Serving] /\ req \in [Workers -> Request]
  BY DEF TypeOK
<1>1. ASSUME NEW s \in sessions, NEW where \in {"change", "work", "toggle", "delete"},
             NEW form \in Request, Enter(w, s, where, form)
      PROVE  /\ pc'[w] = where
             /\ where # "change" => req'[w].user.fresh
             /\ req'[w].user.born = req'[w].as /\ req'[w].user.born # 0
  <2>1. /\ s.uid \in Ids /\ users[s.uid] # NoRow /\ users[s.uid].id # 0 /\ s.epoch = epoch
        /\ users[s.uid].must => where = "change"
    BY <1>1, RowFacts DEF Enter, Valid, Accounts, Admitted
  <2>2. epoch # 0
    BY <1>1 DEF Enter, TablesKept, Serving
  <2>3. users[s.uid].born = s.born
    BY <2>1, <2>2 DEF SessionsSound, Denotes
  <2>4. users[s.uid].must \/ users[s.uid].fresh
    BY <2>1 DEF RowsSound
  <2>5. 0 < users[s.uid].born /\ users[s.uid].born \in Nat
    BY <2>1, RowFacts DEF RowsSound, Row
  <2>6. req'[w].user = users[s.uid] /\ req'[w].as = s.born /\ pc'[w] = where
    BY <1>1 DEF Enter, Goto, Request
  <2>7. QED BY <2>1, <2>3, <2>4, <2>5, <2>6
<1>2. ASSUME NEW s \in sessions, NEW i \in Accounts, NEW on \in BOOLEAN
      PROVE  /\ [Idle EXCEPT !.target = i] \in Request
             /\ [Idle EXCEPT !.target = i, !.on = on] \in Request
  BY IdleType DEF Request, Accounts
<1>3. CASE \E n \in Names : Count(w, n) \/ Validate(w, n)
  BY <1>3 DEF Count, Validate, Goto
<1>4. ASSUME NEW s \in sessions, NEW i \in Accounts, AskDelete(w, s, i)
      PROVE  /\ pc'[w] = "delete" /\ req'[w].user.fresh
             /\ req'[w].user.born = req'[w].as /\ req'[w].user.born # 0
  BY <1>1, <1>2, <1>4 DEF AskDelete
<1>5. ASSUME NEW s \in sessions, NEW i \in Accounts, NEW on \in BOOLEAN, AskToggle(w, s, i, on)
      PROVE  /\ pc'[w] = "toggle" /\ req'[w].user.fresh
             /\ req'[w].user.born = req'[w].as /\ req'[w].user.born # 0
  BY <1>1, <1>2, <1>5 DEF AskToggle
<1>6. ASSUME NEW s \in sessions, AskChange(w, s)
      PROVE  pc'[w] = "change" /\ req'[w].user.born = req'[w].as /\ req'[w].user.born # 0
  BY <1>1, <1>6, IdleType DEF AskChange
<1>7. ASSUME NEW s \in sessions, AskWork(w, s)
      PROVE  /\ pc'[w] = "work" /\ req'[w].user.fresh
             /\ req'[w].user.born = req'[w].as /\ req'[w].user.born # 0
  BY <1>1, <1>7, IdleType DEF AskWork
<1>8. QED BY <1>3, <1>4, <1>5, <1>6, <1>7 DEF Ask

LEMMA RequestsStep ==
  ASSUME TypeOK, TablesKept, RowsSound, SessionsSound, RequestsSound, [Next]_vars
  PROVE  RequestsSound'
<1> pc \in [Workers -> Starting \cup Serving] /\ req \in [Workers -> Request]
  BY DEF TypeOK
<1>1. ASSUME NEW v \in Workers, pc'[v] \in {"change", "work", "toggle", "delete"}
      PROVE  /\ Working(v)' => req'[v].user.fresh
             /\ req'[v].user.born = req'[v].as
             /\ pc'[v] = "work" => req'[v].user.born # 0
  <2>1. CASE Ask(v)
    BY <1>1, <2>1, AskSound DEF Working
  <2>2. ~(Boot(v) \/ StartDies(v))
    BY <1>1 DEF Boot, StartDies, CreateKey, WriteKey, ReadKey, Schema, ReadColumns,
                AddColumn, Epoch, Seed, InsertAdmin, Goto, Gone
  <2>3. ~Serve(v)
    BY <1>1 DEF Serve, Check, RecordFailure, SignIn, Insert, Change, Work, Toggle, Delete,
                Goto, Done
  <2>4. CASE pc'[v] = pc[v] /\ req'[v] = req[v]
    BY <1>1, <2>4 DEF RequestsSound, Working
  <2>5. QED BY <1>1, <2>1, <2>2, <2>3, <2>4, Others
<1>2. QED BY <1>1 DEF RequestsSound, Working

LEMMA FilesStep ==
  ASSUME TypeOK, Quiet, RequestsSound, FilesListed, [Next]_vars
  PROVE  FilesListed'
<1> USE DEF FilesListed, command
<1> pc \in [Workers -> Starting \cup Serving]
  BY DEF TypeOK
<1>1. ASSUME NEW w \in Workers, Work(w) \/ Delete(w) PROVE FilesListed'
  <2>1. reset = "no"
    BY <1>1 DEF Work, Delete, Quiet
  <2>2. 0 \notin files'
    BY <1>1 DEF Work, Delete, RequestsSound, Working
  <2>3. QED BY <1>1, <2>1, <2>2 DEF Work, Delete
<1>2. ASSUME NEW w \in Workers, Boot(w) \/ StartDies(w) PROVE FilesListed'
  BY <1>2 DEF Boot, StartDies, CreateKey, WriteKey, ReadKey, Schema, ReadColumns,
              AddColumn, Epoch, Seed, InsertAdmin
<1>3. ASSUME NEW w \in Workers, Serve(w), ~Work(w), ~Delete(w) PROVE FilesListed'
  <2>1. CASE Check(w) \/ RecordFailure(w) \/ Change(w) \/ Toggle(w)
    BY <2>1 DEF Check, RecordFailure, Change, Toggle
  <2>2. CASE SignIn(w) \/ Insert(w)
    BY Zenon, <2>2 DEF SignIn, Insert
  <2>3. QED BY <1>3, <2>1, <2>2 DEF Serve
<1>4. ASSUME NEW w \in Workers, Ask(w) PROVE FilesListed'
  BY Zenon, <1>4 DEF Ask, Count, Validate, AskChange, AskWork, AskToggle, AskDelete, Enter
<1>5. ASSUME NEW n \in Names, Expire(n) PROVE FilesListed'
  BY <1>5 DEF Expire
<1>6. CASE ResetBegins
  BY <1>6 DEF ResetBegins
<1>7. ASSUME NEW f \in listed, ResetRemoves(f) PROVE FilesListed'
  BY <1>7 DEF ResetRemoves
<1>8. CASE Reset /\ ~ResetBegins /\ ~\E f \in listed : ResetRemoves(f)
  BY <1>8 DEF Reset, ResetEnds, ResetOver, DropDatabase, ResetSchema, ResetColumns,
              ResetEpoch, ResetSeed
<1>9. CASE UNCHANGED vars
  BY <1>9 DEF vars
<1>10. QED BY <1>1, <1>2, <1>3, <1>4, <1>5, <1>6, <1>7, <1>8, <1>9 DEF Next

(***************************************************************************)
(* The rate limit                                                          *)
(***************************************************************************)
LEMMA AttemptsFinite ==
  ASSUME NEW n \in Names
  PROVE  /\ IsFiniteSet(Attempting(n)) /\ Cardinality(Attempting(n)) \in Nat
         /\ Cardinality(Attempting(n)) <= Cardinality(Workers)
         /\ Cardinality(Workers) \in Nat /\ Cardinality(Workers) > 0
<1>1. Attempting(n) \subseteq Workers
  BY DEF Attempting
<1>2. QED BY <1>1, WorkersFinite, FS_Subset, FS_CardinalityType, FS_EmptySet

\* A step that neither counts nor records adds no attempt and no failure.
Calm(n) == failures'[n] <= failures[n] /\ Attempting(n)' \subseteq Attempting(n)

LEMMA CalmSteps ==
  ASSUME TypeOK, [Next]_vars, NEW n \in Names,
         \A w \in Workers : ~Count(w, n) /\ ~(RecordFailure(w) /\ req[w].name = n)
  PROVE  Calm(n)
<1> USE DEF Calm
<1> /\ pc \in [Workers -> Starting \cup Serving] /\ req \in [Workers -> Request]
    /\ failures \in [Names -> Nat]
  BY DEF TypeOK
<1>1. ASSUME NEW v \in Workers, v \in Attempting(n)' PROVE v \in Attempting(n)
  <2>1. CASE pc'[v] = pc[v] /\ req'[v] = req[v]
    BY <1>1, <2>1 DEF Attempting
  <2>2. CASE Check(v)
    BY <1>1, <2>2 DEF Attempting, Check, Goto, Done
  <2>3. ~(Boot(v) \/ StartDies(v))
    BY <1>1 DEF Boot, StartDies, CreateKey, WriteKey, ReadKey, Schema, ReadColumns,
                AddColumn, Epoch, Seed, InsertAdmin, Goto, Gone, Attempting
  <2>4. ~(Serve(v) /\ ~Check(v))
    BY Zenon, <1>1 DEF Serve, RecordFailure, SignIn, Insert, Change, Work, Toggle, Delete,
                Goto, Done, Attempting
  <2>5. ~Ask(v)
    <3>1. ASSUME NEW m \in Names, Count(v, m) PROVE FALSE
      BY <1>1, <3>1 DEF Count, Goto, Attempting, Request
    <3>2. QED BY <1>1, <3>1 DEF Ask, Validate, AskChange, AskWork, AskToggle, AskDelete,
                                Enter, Goto, Attempting
  <2>6. pc'[v] # "down"
    BY <1>1 DEF Attempting
  <2>7. QED BY <2>1, <2>2, <2>3, <2>4, <2>5, <2>6, Others
<1>2. failures'[n] <= failures[n]
  <2> USE DEF base
  <2>1. ASSUME NEW w \in Workers, Boot(w) \/ StartDies(w) PROVE UNCHANGED failures
    BY Zenon, <2>1 DEF Boot, StartDies, CreateKey, WriteKey, ReadKey, Schema, ReadColumns,
                AddColumn, Epoch, Seed, InsertAdmin
  <2>2. ASSUME NEW w \in Workers, Ask(w) PROVE UNCHANGED failures
    BY Zenon, <2>2 DEF Ask, Count, Validate, AskChange, AskWork, AskToggle, AskDelete, Enter
  <2>3. ASSUME NEW w \in Workers, SignIn(w) \/ Delete(w) PROVE failures'[n] <= failures[n]
    BY <2>3 DEF SignIn, Delete
  <2>4. ASSUME NEW w \in Workers, RecordFailure(w) PROVE failures'[n] = failures[n]
    BY <2>4 DEF RecordFailure
  <2>5. ASSUME NEW w \in Workers, Serve(w), ~SignIn(w), ~Delete(w), ~RecordFailure(w)
        PROVE  UNCHANGED failures
    BY <2>5 DEF Serve, Check, Insert, Change, Work, Toggle
  <2>6. CASE DropDatabase
    BY <2>6 DEF DropDatabase
  <2>7. CASE Reset /\ ~DropDatabase
    <3>1. UNCHANGED failures
      BY <2>7 DEF Reset, ResetBegins, ResetRemoves, ResetEnds, ResetSchema, ResetColumns,
                  ResetEpoch, ResetSeed
    <3>2. QED BY <3>1
  <2>8. ASSUME NEW m \in Names, Expire(m) PROVE failures'[n] <= failures[n]
    BY <2>8 DEF Expire
  <2>9. CASE UNCHANGED vars
    BY <2>9 DEF vars
  <2>10. failures[n] \in Nat
    OBVIOUS
  <2>11. QED BY <2>1, <2>2, <2>3, <2>4, <2>5, <2>6, <2>7, <2>8, <2>9, <2>10 DEF Next
<1>3. Attempting(n)' \subseteq Attempting(n)
  BY <1>1 DEF Attempting
<1>4. QED BY <1>2, <1>3

LEMMA AttemptsStep ==
  ASSUME TypeOK, AttemptsBounded, [Next]_vars
  PROVE  AttemptsBounded'
<1> SUFFICES ASSUME NEW n \in Names
             PROVE  failures'[n] + Cardinality(Attempting(n)')
                      <= MaxAttempts + Cardinality(Workers) - 1
  BY DEF AttemptsBounded
<1> DEFINE W == Cardinality(Workers)
           A == Cardinality(Attempting(n))
           B == Cardinality(Attempting(n)')
<1>1. /\ A \in Nat /\ B \in Nat /\ W \in Nat /\ A <= W /\ B <= W
      /\ failures[n] \in Nat /\ failures'[n] \in Nat /\ MaxAttempts \in Nat
  <2>1. Attempting(n)' \subseteq Workers
    BY DEF Attempting
  <2>2. B \in Nat /\ B <= W
    BY <2>1, WorkersFinite, FS_Subset, FS_CardinalityType
  <2>3. QED BY <2>2, AttemptsFinite, BoundsNatural, StepTypeOK DEF TypeOK
<1>2. failures[n] + A <= MaxAttempts + W - 1
  BY DEF AttemptsBounded
<1>3. ASSUME Calm(n)
      PROVE  failures'[n] + B <= MaxAttempts + W - 1
  <2>1. B <= A
    BY <1>3, AttemptsFinite, FS_Subset DEF Calm
  <2>2. failures'[n] <= failures[n]
    BY <1>3 DEF Calm
  <2> HIDE DEF A, B, W
  <2>3. QED BY <1>1, <1>2, <2>1, <2>2
<1>4. ASSUME NEW w \in Workers, Count(w, n)
      PROVE  failures'[n] + B <= MaxAttempts + W - 1
  <2>1. failures[n] < MaxAttempts /\ failures'[n] = failures[n]
    BY <1>4 DEF Count, base
  <2> HIDE DEF A, B, W
  <2>2. QED BY <1>1, <2>1
<1>5. ASSUME NEW w \in Workers, RecordFailure(w), req[w].name = n
      PROVE  failures'[n] + B <= MaxAttempts + W - 1
  <2>1. failures'[n] = failures[n] + 1
    BY <1>5 DEF RecordFailure, TypeOK
  <2>2. w \in Attempting(n)
    BY <1>5 DEF RecordFailure, Attempting
  <2>3. Attempting(n)' = Attempting(n) \ {w}
    BY <1>5 DEF RecordFailure, Done, Goto, Attempting, TypeOK
  <2>4. B = A - 1
    BY <2>2, <2>3, AttemptsFinite, FS_RemoveElement
  <2> HIDE DEF A, B, W
  <2>5. QED BY <1>1, <1>2, <2>1, <2>4
<1>6. QED BY <1>3, <1>4, <1>5, CalmSteps

(***************************************************************************)
(* The theorems                                                            *)
(***************************************************************************)
LEMMA InitIInv == Init => IInv
<1> SUFFICES ASSUME Init PROVE IInv
  OBVIOUS
<1>1. TypeOK
  BY InitTypeOK
<1>2. Quiet /\ KeyKept /\ TablesKept
  BY DEF Init, Quiet, KeyKept, TablesKept, Serving
<1>3. RowsSound /\ AdminKept /\ RequestsSound
  BY DEF Init, RowsSound, AdminKept, RequestsSound, Working, Serving
<1>4. SessionsSound /\ FilesListed
  BY DEF Init, SessionsSound, FilesListed, NoSession
<1>5. AttemptsBounded
  <2>1. ASSUME NEW n \in Names PROVE Attempting(n) = {}
    BY DEF Init, Attempting
  <2>2. \A n \in Names : failures[n] = 0
    BY DEF Init
  <2>3. Cardinality({}) = 0
    BY FS_EmptySet
  <2>4. QED BY <2>1, <2>2, <2>3, AttemptsFinite, BoundsNatural DEF AttemptsBounded
<1>6. QED BY <1>1, <1>2, <1>3, <1>4, <1>5 DEF IInv

LEMMA StepIInv == IInv /\ [Next]_vars => IInv'
  BY StepTypeOK, QuietStep, KeyStep, TablesStep, RowsStep, AdminStep, SessionsStep,
     RequestsStep, FilesStep, AttemptsStep DEF IInv

LEMMA Invariance == Spec => []IInv
  BY InitIInv, StepIInv, PTL DEF Spec

\* Every reachable state is well typed: a request has the form, the account and
\* the owner its handler needs, and no identifier leaves the table.
THEOREM TypeCorrect == Spec => []TypeOK
<1>1. IInv => TypeOK
  BY DEF IInv
<1>2. QED BY <1>1, Invariance, PTL

\* For any number of workers and any limit, the three statements of a login
\* let through at most one attempt less than there are workers too many.
THEOREM RateLimit == Spec => []AttemptsBounded
<1>1. IInv => AttemptsBounded
  BY DEF IInv
<1>2. QED BY <1>1, Invariance, PTL

\* A session, and the request it starts, never acts for another account than
\* the one that signed in, through deletions, registrations and resets.
THEOREM SessionSafety == Spec => []SessionsOwn
<1>1. ASSUME IInv PROVE SessionsOwn
  <2>1. ASSUME NEW s \in sessions, Valid(s) PROVE users[s.uid].born = s.born
    <3>1. s.uid \in Ids /\ users[s.uid].id # 0 /\ s.epoch = epoch
      BY <2>1 DEF Valid, Accounts
    <3>2. TypeOK /\ users[s.uid] # NoRow /\ s.uid # 0
      BY <1>1, <3>1, RowFacts, BoundsNatural DEF IInv, Ids
    <3>3. epoch # 0
      BY <1>1, <3>1, <3>2 DEF IInv, SessionsSound
    <3>4. QED BY <1>1, <3>1, <3>2, <3>3 DEF IInv, SessionsSound, Denotes
  <2>2. QED BY <1>1, <2>1 DEF SessionsOwn, IInv, RequestsSound
<1>2. QED BY <1>1, Invariance, PTL

\* The password an account was seeded with is good for changing it only.
THEOREM SeedPassword == Spec => []SeedPasswordUnused
<1>1. IInv => SeedPasswordUnused
  BY DEF IInv, RequestsSound, SeedPasswordUnused
<1>2. QED BY <1>1, Invariance, PTL

\* Nobody serves without an administrator who may sign in.
THEOREM AdminStays == Spec => []AdminRemains
<1>1. ASSUME IInv PROVE AdminRemains
  <2>1. ASSUME NEW w \in Workers, pc[w] \notin Starting
        PROVE  \E i \in Accounts : users[i].role = "admin" /\ users[i].active
    <3>1. PICK i \in Ids : users[i] # NoRow /\ users[i].role = "admin"
      BY <1>1, <2>1 DEF IInv, AdminKept, TypeOK
    <3>2. i \in Accounts /\ users[i].active
      BY <1>1, <3>1, RowFacts DEF IInv, RowsSound, Accounts
    <3>3. QED BY <3>1, <3>2
  <2>2. QED BY <2>1 DEF AdminRemains
<1>2. QED BY <1>1, Invariance, PTL

\* However many workers start at once, and whatever dies on the way, those that
\* serve share one signing key and a complete schema.
THEOREM StartSafety == Spec => []StartedWhole
<1>1. IInv => StartedWhole
  BY DEF IInv, KeyKept, TablesKept, StartedWhole, Serving
<1>2. QED BY <1>1, Invariance, PTL

\* An account's rows go after its files: deleting an account removes the file
\* in the same request, and a reset drops the database with an empty store,
\* unless the store hid a file from it.
Outlived == \A i \in Accounts : users'[i].born # users[i].born =>
              users[i].born \notin files' \/ blind

LEMMA OutlivedStep ==
  ASSUME IInv, [Next]_vars
  PROVE  Outlived
<1> TypeOK /\ RowsSound /\ AdminKept /\ Quiet /\ FilesListed
  BY DEF IInv
<1> SUFFICES ASSUME NEW i \in Accounts, users'[i].born # users[i].born
             PROVE  users[i].born \notin files' \/ blind
  BY DEF Outlived
<1>1. i \in Ids /\ users[i] # NoRow
  BY RowFacts DEF Accounts
<1>2. CASE DropDatabase
  BY <1>2 DEF DropDatabase, FilesListed
<1>3. CASE \E w \in Workers : Delete(w)
  BY <1>1, <1>3 DEF Delete, TypeOK
<1>4. CASE ~DropDatabase /\ ~\E w \in Workers : Delete(w)
  <2>1. CASE UNCHANGED users
    BY <2>1
  <2>2. ASSUME NEW w \in Workers, Change(w) \/ Toggle(w) PROVE users'[i] # NoRow
    <3>1. users[i].id # 0
      BY <1>1, RowFacts
    <3>2. users[i] \in Row /\ users \in [Ids -> Row \cup {NoRow}]
      BY <1>1, RowFacts DEF TypeOK
    <3>3. \/ users'[i] = users[i]
          \/ users'[i] = [users[i] EXCEPT !.must = FALSE, !.fresh = TRUE]
          \/ \E b : users'[i] = [users[i] EXCEPT !.active = b]
      <4>1. CASE Change(w)
        BY Zenon, <1>1, <3>2, <4>1 DEF Change
      <4>2. CASE Toggle(w)
        BY <1>1, <3>2, <4>2 DEF Toggle
      <4>3. QED BY Zenon, <2>2, <4>1, <4>2
    <3>4. users'[i].id = users[i].id
      BY <3>2, <3>3 DEF Row
    <3>5. QED BY <3>1, <3>4 DEF NoRow
  <2>3. ASSUME NEW n, NEW r, NEW m, InsertUser(n, r, m) PROVE users'[i] = users[i]
    <3> lastId \in Nat /\ i \in Nat
      BY <1>1, BoundsNatural DEF TypeOK, Ids
    <3>1. i <= lastId
      BY <1>1 DEF RowsSound
    <3>2. i # lastId + 1
      BY <3>1
    <3>3. QED BY <1>1, <2>3, <3>2 DEF InsertUser, TypeOK
  <2>4. RowsKept
    BY <1>4, RowsKeptStep
  <2>5. i <= lastId
    BY <1>1 DEF RowsSound
  <2>6. QED BY <1>1, <1>4, <2>1, <2>2, <2>3, <2>4, <2>5, OtherSteps
            DEF Rewrites, RowsKept, InsertAdmin, Insert, ResetSeed
<1>5. QED BY <1>2, <1>3, <1>4

\* "Never destroy ownership metadata while a user blob remains".
THEOREM FilesFirst == Spec => OwnersOutliveFiles
<1>1. IInv /\ [Next]_vars => [Outlived]_vars
  BY OutlivedStep
<1>2. Spec => [][Outlived]_vars
  BY <1>1, Invariance, PTL DEF Spec
<1>3. QED BY <1>2 DEF OwnersOutliveFiles, Outlived

=============================================================================
