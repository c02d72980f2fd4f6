------------------------------ MODULE Accounts ------------------------------
(***************************************************************************)
(* Accounts, sessions and the login rate limit (auth.py, admin.py, the     *)
(* users, app_meta and login_attempts tables of db.py, the request hooks   *)
(* and the start-up of app.py), from an empty disk on.                     *)
(*                                                                         *)
(* A worker starts (signing key, schema, seed) and then serves requests,   *)
(* one at a time; between any two database statements of a request other   *)
(* workers may run.  A session is a cookie: once sent, a browser may send  *)
(* it back at any time, as late answers and browsers that were closed and  *)
(* restored do.  reset_db is run by the operator with the server stopped,  *)
(* and may be interrupted or fail anywhere.                                *)
(*                                                                         *)
(* Abstractions.  An account's e-mail address is as unique as its name and *)
(* left out.  Of a password the model keeps whether it has ever been       *)
(* another than the one the README prints; a login may bring the right one *)
(* or a wrong one, decided when they are compared.  All attempts come from *)
(* one address.  The security token of forms, the audit trail and          *)
(* redirects are left out: a request without a valid token is one that was *)
(* not sent.  Logging out takes the cookie from one browser and changes    *)
(* nothing else.  A work request stands for every protected page and may   *)
(* store the account's one file, in one step (ArtifactLifecycle has them   *)
(* all).                                                                   *)
(***************************************************************************)
EXTENDS Integers, FiniteSets

CONSTANTS
  Workers,      \* request handlers: threads, or processes that overlap
  Names,        \* user names
  AdminName,    \* DEFAULT_ADMIN_USERNAME
  MaxAttempts,  \* LOGIN_MAX_ATTEMPTS
  Columns,      \* how many columns _MIGRATIONS lists
  MaxAccounts,  \* most accounts ever made (bound)
  MaxResets,    \* most resets (bound)
  NoKey, EmptyKey \* states of the key file besides a worker's key

ASSUME WorkersFinite == IsFiniteSet(Workers) /\ Workers # {}
ASSUME AdminNamed    == AdminName \in Names
ASSUME BoundsNatural == /\ MaxAttempts \in Nat \ {0} /\ Columns \in Nat
                        /\ MaxAccounts \in Nat \ {0} /\ MaxResets \in Nat
ASSUME KeysDiffer    == {NoKey, EmptyKey} \cap Workers = {} /\ NoKey # EmptyKey

VARIABLES
  keyfile,  \* SECRET_KEY_PATH: NoKey, EmptyKey, or who wrote its key
  key,      \* [worker -> app.secret_key]
  schema,   \* 0: no tables, 1: those of schema.sql, 1 + n: and n columns more
  epoch,    \* app_meta's session_epoch, 0 when there is no row
  users,    \* [id -> row]
  lastId,   \* of AUTOINCREMENT, which never uses an id again
  failures, \* [name -> rows of login_attempts inside the window]
  files,    \* stored results, by the account they belong to
  sessions, \* every session sent so far
  pc,       \* [worker -> where it is]
  req,      \* [worker -> its request]
  reset,    \* where reset_db is
  listed,   \* the files it has listed and not removed
  blind,    \* the store hid a file from it: list_keys answers [] when the
            \* directory cannot be read, and a remote delete answers False
  have,     \* [worker -> the schema as _migrate read it]
  made,     \* accounts made so far: each gets a number of its own
  epochs    \* epochs made so far

boot    == <<keyfile, key, have>>
base    == <<schema, epoch, users, lastId, failures>>
command == <<reset, listed, blind>>
counts  == <<made, epochs>>
vars    == <<boot, base, files, sessions, pc, req, command, counts>>

Ids == 1 .. MaxAccounts
Roles == {"admin", "user"}

\* A row of users; `born` tells accounts apart that share an id after a reset,
\* `fresh` that the password has not always been DEFAULT_ADMIN_PASSWORD.
Row == [id: Ids, name: Names, role: Roles, active: BOOLEAN, must: BOOLEAN,
        fresh: BOOLEAN, born: Nat]
NoRow == [id |-> 0, name |-> AdminName, role |-> "user", active |-> FALSE,
          must |-> FALSE, fresh |-> FALSE, born |-> 0]

\* session["user_id"], session["auth_epoch"], and whose account it was.
Session == [uid: Nat, epoch: Nat, born: Nat]
NoSession == [uid |-> 0, epoch |-> 0, born |-> 0]

\* What a worker keeps of its request: fields of the form, the row it read
\* (g.user, or the one that signs in), and in `as` whose session it was.
Request == [name: Names, target: Ids, on: BOOLEAN, user: Row \cup {NoRow}, as: Nat]
Idle == [name |-> AdminName, target |-> 1, on |-> FALSE, user |-> NoRow, as |-> 0]

Starting == {"down", "write_key", "read_key", "schema", "columns", "add", "epoch", "seed",
             "insert_admin"}
Serving == {"idle", "check", "record", "clear", "insert", "change", "work", "toggle", "delete"}

TypeOK ==
  /\ keyfile \in Workers \cup {NoKey, EmptyKey}
  /\ key \in [Workers -> Workers \cup {NoKey}]
  /\ schema \in 0 .. Columns + 1 /\ have \in [Workers -> 0 .. Columns + 1]
  /\ epoch \in Nat
  /\ users \in [Ids -> Row \cup {NoRow}] /\ lastId \in 0 .. MaxAccounts
  /\ failures \in [Names -> Nat]
  /\ files \in SUBSET Nat /\ listed \in SUBSET Nat /\ blind \in BOOLEAN
  /\ sessions \subseteq Session
  /\ pc \in [Workers -> Starting \cup Serving]
  /\ req \in [Workers -> Request]
  /\ reset \in {"no", "files", "schema", "columns", "epoch", "seed"}
  /\ made \in Nat /\ epochs \in Nat

Init ==
  /\ keyfile = NoKey /\ key = [w \in Workers |-> NoKey]
  /\ schema = 0 /\ have = [w \in Workers |-> 0] /\ epoch = 0
  /\ users = [i \in Ids |-> NoRow] /\ lastId = 0
  /\ failures = [n \in Names |-> 0]
  /\ files = {} /\ listed = {} /\ blind = FALSE
  /\ sessions = {NoSession}
  /\ pc = [w \in Workers |-> "down"]
  /\ req = [w \in Workers |-> Idle]
  /\ reset = "no" /\ made = 0 /\ epochs = 0

Goto(w, where) == pc' = [pc EXCEPT ![w] = where]

\* The process is gone, and what it had in memory.
Gone(w) ==
  /\ Goto(w, "down")
  /\ key' = [key EXCEPT ![w] = NoKey] /\ have' = [have EXCEPT ![w] = 0]

\* The answer is sent, and with it the session it sets.
Done(w) == Goto(w, "idle") /\ req' = [req EXCEPT ![w] = Idle]

(***************************************************************************)
(* Rows                                                                    *)
(***************************************************************************)
Accounts == {i \in Ids : users[i].id # 0}
Named(n) == {i \in Accounts : users[i].name = n}

\* INSERT INTO users, where the name is free.
InsertUser(name, role, must) ==
  /\ Named(name) = {} /\ lastId < MaxAccounts
  /\ lastId' = lastId + 1
  /\ made' = made + 1
  /\ users' = [users EXCEPT ![lastId + 1] =
       [id |-> lastId + 1, name |-> name, role |-> role, active |-> TRUE,
        must |-> must, fresh |-> ~must, born |-> made + 1]]

(***************************************************************************)
(* Start-up                                                                *)
(***************************************************************************)

\* _installation_secret: whoever creates the file writes the key.
CreateKey(w) ==
  /\ reset = "no" /\ pc[w] = "down"
  /\ IF keyfile = NoKey
       THEN keyfile' = EmptyKey /\ Goto(w, "write_key")
       ELSE UNCHANGED keyfile /\ Goto(w, "read_key")
  /\ UNCHANGED <<key, have, base, files, sessions, req, command, counts>>

WriteKey(w) ==
  /\ pc[w] = "write_key"
  /\ keyfile' = w
  /\ Goto(w, "read_key")
  /\ UNCHANGED <<key, have, base, files, sessions, req, command, counts>>

\* Mutation: a worker that finds no key in the file makes up its own.
ReadKey_Own(w) ==
  /\ pc[w] = "read_key"
  /\ key' = [key EXCEPT ![w] = IF keyfile = EmptyKey THEN w ELSE keyfile]
  /\ Goto(w, "schema")
  /\ UNCHANGED <<keyfile, have, base, files, sessions, req, command, counts>>

\* Everybody reads it back; a file without a key ends the start.
ReadKey(w) ==
  /\ pc[w] = "read_key"
  /\ IF keyfile = EmptyKey
       THEN Goto(w, "down") /\ UNCHANGED key
       ELSE key' = [key EXCEPT ![w] = keyfile] /\ Goto(w, "schema")
  /\ UNCHANGED <<keyfile, have, base, files, sessions, req, command, counts>>

\* The process dies while it starts.
StartDies(w) ==
  /\ pc[w] \in Starting \ {"down"}
  /\ Gone(w)
  /\ UNCHANGED <<keyfile, base, files, sessions, req, command, counts>>

\* init_db: CREATE TABLE IF NOT EXISTS.
Created == schema' = IF schema = 0 THEN 1 ELSE schema

Schema(w) ==
  /\ pc[w] = "schema"
  /\ Created
  /\ Goto(w, "columns")
  /\ UNCHANGED <<boot, epoch, users, lastId, failures, files, sessions, req, command, counts>>

\* _migrate reads which columns there are...
ReadColumns(w) ==
  /\ pc[w] = "columns"
  /\ have' = [have EXCEPT ![w] = schema]
  /\ Goto(w, "add")
  /\ UNCHANGED <<keyfile, key, base, files, sessions, req, command, counts>>

\* Mutation: a column that another worker has added ends the migration.
AddColumn_Stops(w) ==
  /\ pc[w] = "add"
  /\ IF have[w] > Columns \/ schema > have[w]
       THEN /\ Goto(w, "epoch") /\ have' = [have EXCEPT ![w] = 0]
            /\ UNCHANGED schema
       ELSE /\ schema' = schema + 1 /\ have' = [have EXCEPT ![w] = @ + 1]
            /\ UNCHANGED pc
  /\ UNCHANGED <<keyfile, key, epoch, users, lastId, failures, files, sessions, req, command, counts>>

\* ... and adds the others, one statement each; one that another worker has
\* added since ends the start with an exception.
AddColumn(w) ==
  /\ pc[w] = "add"
  /\ \/ /\ have[w] > Columns
        /\ Goto(w, "epoch") /\ have' = [have EXCEPT ![w] = 0]
        /\ UNCHANGED <<schema, key>>
     \/ /\ have[w] <= Columns /\ schema = have[w]
        /\ schema' = schema + 1 /\ have' = [have EXCEPT ![w] = @ + 1]
        /\ UNCHANGED <<pc, key>>
     \/ /\ have[w] <= Columns /\ schema > have[w]
        /\ Gone(w)
        /\ UNCHANGED schema
  /\ UNCHANGED <<keyfile, epoch, users, lastId, failures, files, sessions, req, command, counts>>

\* _migrate: INSERT ... ON CONFLICT DO NOTHING.
NewEpoch ==
  IF epoch = 0 THEN epoch' = epochs + 1 /\ epochs' = epochs + 1
               ELSE UNCHANGED <<epoch, epochs>>

Epoch(w) ==
  /\ pc[w] = "epoch"
  /\ NewEpoch
  /\ Goto(w, "seed")
  /\ UNCHANGED <<boot, schema, users, lastId, failures, files, sessions, req, command, made>>

\* _seed_admin: the look-up.
Seed(w) ==
  /\ pc[w] = "seed"
  /\ Goto(w, IF Named(AdminName) = {} THEN "insert_admin" ELSE "idle")
  /\ UNCHANGED <<boot, base, files, sessions, req, command, counts>>

\* The INSERT; another worker's was first: the start ends with an exception.
InsertAdmin(w) ==
  /\ pc[w] = "insert_admin"
  /\ \/ /\ InsertUser(AdminName, "admin", TRUE)
        /\ Goto(w, "idle")
        /\ UNCHANGED <<key, have>>
     \/ /\ Named(AdminName) # {}
        /\ Gone(w)
        /\ UNCHANGED <<users, lastId, made>>
  /\ UNCHANGED <<keyfile, schema, epoch, failures, files, sessions, req, command, epochs>>

(***************************************************************************)
(* The request hooks                                                       *)
(***************************************************************************)

\* Mutation: the epoch of the session is not compared.
Valid_AnyEpoch(s) == s.uid \in Accounts /\ users[s.uid].active

\* current_user: this session still names an account.
Valid(s) == s.uid \in Accounts /\ s.epoch = epoch /\ users[s.uid].active

\* Mutation: only administration waits for the new password.
Admitted_AdminOnly(where, user) ==
  /\ user # NoRow
  /\ where \in {"toggle", "delete"} => user.role = "admin" /\ ~user.must

\* _load_user, login_required and role_required let the request through.
Admitted(where, user) ==
  /\ user # NoRow
  /\ where \in {"toggle", "delete"} => user.role = "admin"
  /\ user.must => where = "change"

\* A request with session s, which is resolved and found good; from here on
\* its handler goes by the row that was read, g.user.
Enter(w, s, where, form) ==
  /\ pc[w] = "idle"
  /\ Valid(s) /\ Admitted(where, users[s.uid])
  /\ req' = [req EXCEPT ![w] = [form EXCEPT !.user = users[s.uid], !.as = s.born]]
  /\ Goto(w, where)
  /\ UNCHANGED <<boot, base, files, sessions, command, counts>>

(***************************************************************************)
(* Login                                                                   *)
(***************************************************************************)

\* Mutation: one attempt too many.
Count_Late(w, n) ==
  /\ pc[w] = "idle"
  /\ failures[n] <= MaxAttempts
  /\ Goto(w, "check")
  /\ req' = [req EXCEPT ![w].name = n]
  /\ UNCHANGED <<boot, base, files, sessions, command, counts>>

\* is_rate_limited: a login that is not blocked.
Count(w, n) ==
  /\ pc[w] = "idle"
  /\ failures[n] < MaxAttempts
  /\ Goto(w, "check")
  /\ req' = [req EXCEPT ![w].name = n]
  /\ UNCHANGED <<boot, base, files, sessions, command, counts>>

\* The password is compared; a disabled account is refused after that.
Check(w) ==
  /\ pc[w] = "check"
  /\ \/ Goto(w, "record") /\ UNCHANGED req
     \/ \E i \in Named(req[w].name) :
          IF users[i].active
            THEN Goto(w, "clear") /\ req' = [req EXCEPT ![w].user = users[i]]
            ELSE Done(w)
  /\ UNCHANGED <<boot, base, files, sessions, command, counts>>

RecordFailure(w) ==
  /\ pc[w] = "record"
  /\ failures' = [failures EXCEPT ![req[w].name] = @ + 1]
  /\ Done(w)
  /\ UNCHANGED <<boot, schema, epoch, users, lastId, files, sessions, command, counts>>

\* clear_login_failures, and a session of its own: both or, where the
\* connection fails, an exception, which is left out.
SignIn(w) ==
  LET u == req[w].user IN
  /\ pc[w] = "clear"
  /\ failures' = [failures EXCEPT ![req[w].name] = 0]
  /\ sessions' = sessions \cup {[uid |-> u.id, epoch |-> epoch, born |-> u.born]}
  /\ Done(w)
  /\ UNCHANGED <<boot, schema, epoch, users, lastId, files, command, counts>>

\* Time passes: the oldest failure leaves the window.
Expire(n) ==
  /\ failures[n] > 0
  /\ failures' = [failures EXCEPT ![n] = @ - 1]
  /\ UNCHANGED <<boot, schema, epoch, users, lastId, files, sessions, pc, req, command, counts>>

(***************************************************************************)
(* Registration and passwords                                              *)
(***************************************************************************)

\* validate_registration, of a name that is free.
Validate(w, n) ==
  /\ pc[w] = "idle"
  /\ Named(n) = {}
  /\ Goto(w, "insert")
  /\ req' = [req EXCEPT ![w].name = n]
  /\ UNCHANGED <<boot, base, files, sessions, command, counts>>

\* create_user, and a session; UNIQUE refuses a name taken in between, with an
\* exception that leaves the session as it was.
Insert(w) ==
  /\ pc[w] = "insert"
  /\ \/ /\ InsertUser(req[w].name, "user", FALSE)
        /\ sessions' = sessions \cup
             {[uid |-> lastId + 1, epoch |-> epoch, born |-> made + 1]}
     \/ /\ Named(req[w].name) # {} \/ lastId = MaxAccounts
        /\ UNCHANGED <<users, lastId, made, sessions>>
  /\ Done(w)
  /\ UNCHANGED <<boot, schema, epoch, failures, files, command, epochs>>

AskChange(w, s) == Enter(w, s, "change", Idle)

\* Mutation: the new password may be the old one.
Change_Same(w) ==
  LET i == req[w].user.id IN
  /\ pc[w] = "change"
  /\ \E other \in BOOLEAN :
       users' = IF users[i].id = 0 THEN users
                ELSE [users EXCEPT ![i].must = FALSE, ![i].fresh = @ \/ other]
  /\ Done(w)
  /\ UNCHANGED <<boot, schema, epoch, lastId, failures, files, sessions, command, counts>>

\* set_password, of one that differs from the password that was read.
Change(w) ==
  LET i == req[w].user.id IN
  /\ pc[w] = "change"
  /\ users' = IF users[i].id = 0 THEN users
               ELSE [users EXCEPT ![i].must = FALSE, ![i].fresh = TRUE]
  /\ Done(w)
  /\ UNCHANGED <<boot, schema, epoch, lastId, failures, files, sessions, command, counts>>

(***************************************************************************)
(* Work and administration                                                 *)
(***************************************************************************)

AskWork(w, s) == Enter(w, s, "work", Idle)

\* Any protected page; a result is stored only for an account that is there.
Work(w) ==
  LET u == req[w].user IN
  /\ pc[w] = "work"
  /\ files' \in {files, IF users[u.id].id # 0 THEN files \cup {u.born} ELSE files}
  /\ Done(w)
  /\ UNCHANGED <<boot, base, sessions, command, counts>>

\* Mutation: administrators may disable themselves.
AskToggle_Self(w, s, i, on) ==
  Enter(w, s, "toggle", [Idle EXCEPT !.target = i, !.on = on])

\* toggle_active finds its target.
AskToggle(w, s, i, on) ==
  /\ Enter(w, s, "toggle", [Idle EXCEPT !.target = i, !.on = on])
  /\ i # s.uid

\* set_user_active.
Toggle(w) ==
  LET r == req[w] IN
  /\ pc[w] = "toggle"
  /\ users' = IF users[r.target].id # 0
                THEN [users EXCEPT ![r.target].active = r.on] ELSE users
  /\ Done(w)
  /\ UNCHANGED <<boot, schema, epoch, lastId, failures, files, sessions, command, counts>>

\* delete_user finds its target.
AskDelete(w, s, i) ==
  /\ Enter(w, s, "delete", [Idle EXCEPT !.target = i])
  /\ i # s.uid /\ users[i].role # "admin"

\* Under the deletion lock: the file goes first, and one that does not go keeps
\* the account (on a disk; RemoteStore has the remote removal that answers
\* False); its failed logins go with it.
Delete(w) ==
  LET i == req[w].target
      t == users[i]
  IN
  /\ pc[w] = "delete"
  /\ \/ /\ t.id # 0
        /\ files' = files \ {t.born}
        /\ users' = [users EXCEPT ![i] = NoRow]
        /\ failures' = [failures EXCEPT ![t.name] = 0]
     \/ /\ t.id = 0 \/ t.born \in files
        /\ UNCHANGED <<files, users, failures>>
  /\ Done(w)
  /\ UNCHANGED <<boot, schema, epoch, lastId, sessions, command, counts>>

(***************************************************************************)
(* reset_db                                                                *)
(***************************************************************************)

\* The server is stopped and the command lists the stored results.
ResetBegins ==
  /\ reset = "no" /\ epochs <= MaxResets
  /\ \A w \in Workers : pc[w] \in {"down", "idle"}
  /\ pc' = [w \in Workers |-> "down"]
  /\ key' = [w \in Workers |-> NoKey] /\ have' = [w \in Workers |-> 0]
  /\ reset' = "files"
  /\ blind' \in BOOLEAN
  /\ listed' = IF blind' THEN {} ELSE files
  /\ UNCHANGED <<keyfile, base, files, sessions, req, counts>>

\* Mutation: a file that cannot be removed is passed over.
ResetRemoves_Anyway(f) ==
  /\ reset = "files" /\ f \in listed
  /\ listed' = listed \ {f}
  /\ files' \in {files, files \ {f}}
  /\ UNCHANGED <<boot, base, sessions, pc, req, reset, blind, counts>>

\* The answer of a removal is not looked at: on a disk it raises or the file is
\* gone, and the remote store answers False for any error.
ResetRemoves(f) ==
  /\ reset = "files" /\ f \in listed
  /\ listed' = listed \ {f}
  /\ \/ files' = files \ {f} /\ UNCHANGED blind
     \/ blind' = TRUE /\ UNCHANGED files
  /\ UNCHANGED <<boot, base, sessions, pc, req, reset, counts>>

ResetOver == reset' = "no" /\ listed' = {} /\ blind' = FALSE

\* A file or the database cannot be removed, or the command is killed.
ResetEnds ==
  /\ reset # "no"
  /\ ResetOver
  /\ UNCHANGED <<boot, base, files, sessions, pc, req, counts>>

DropDatabase ==
  /\ reset = "files" /\ listed = {}
  /\ schema' = 0 /\ epoch' = 0
  /\ users' = [i \in Ids |-> NoRow] /\ lastId' = 0
  /\ failures' = [n \in Names |-> 0]
  /\ reset' = "schema"
  /\ UNCHANGED <<boot, files, sessions, pc, req, listed, blind, counts>>

ResetSchema ==
  /\ reset = "schema" /\ reset' = "columns"
  /\ Created
  /\ UNCHANGED <<boot, epoch, users, lastId, failures, files, sessions, pc, req, listed,
                 blind, counts>>

ResetColumns ==
  /\ reset = "columns"
  /\ IF schema > Columns THEN reset' = "epoch" /\ UNCHANGED schema
                         ELSE schema' = schema + 1 /\ UNCHANGED reset
  /\ UNCHANGED <<boot, epoch, users, lastId, failures, files, sessions, pc, req, listed,
                 blind, counts>>

ResetEpoch ==
  /\ reset = "epoch" /\ reset' = "seed"
  /\ NewEpoch
  /\ UNCHANGED <<boot, schema, users, lastId, failures, files, sessions, pc, req, listed,
                 blind, made>>

ResetSeed ==
  /\ reset = "seed"
  /\ InsertUser(AdminName, "admin", TRUE)
  /\ ResetOver
  /\ UNCHANGED <<boot, schema, epoch, failures, files, sessions, pc, req, epochs>>

Boot(w) == CreateKey(w) \/ WriteKey(w) \/ ReadKey(w) \/ Schema(w)
           \/ ReadColumns(w) \/ AddColumn(w) \/ Epoch(w) \/ Seed(w) \/ InsertAdmin(w)

Serve(w) == Check(w) \/ RecordFailure(w) \/ SignIn(w) \/ Insert(w) \/ Change(w)
            \/ Work(w) \/ Toggle(w) \/ Delete(w)

Ask(w) ==
  \/ \E n \in Names : Count(w, n) \/ Validate(w, n)
  \/ \E s \in sessions :
       \/ AskChange(w, s) \/ AskWork(w, s)
       \/ \E i \in Accounts : AskDelete(w, s, i) \/ \E on \in BOOLEAN : AskToggle(w, s, i, on)

Reset == ResetBegins \/ (\E f \in listed : ResetRemoves(f)) \/ ResetEnds
         \/ DropDatabase \/ ResetSchema \/ ResetColumns \/ ResetEpoch \/ ResetSeed

Next ==
  \/ \E w \in Workers : Boot(w) \/ StartDies(w) \/ Ask(w) \/ Serve(w)
  \/ \E n \in Names : Expire(n)
  \/ Reset

Spec == Init /\ [][Next]_vars

(***************************************************************************)
(* Properties                                                              *)
(***************************************************************************)
Attempting(n) == {w \in Workers : pc[w] \in {"check", "record"} /\ req[w].name = n}
Working(w) == pc[w] \in {"work", "toggle", "delete"}

\* The limit is read, the password compared and the failure recorded in three
\* statements, so attempts at once slip through together, but no more of them
\* than there are workers: within a window at most LOGIN_MAX_ATTEMPTS and
\* one less than the workers are compared and not found right.
AttemptsBounded ==
  \A n \in Names : failures[n] + Cardinality(Attempting(n))
                     <= MaxAttempts + Cardinality(Workers) - 1

\* Whatever was deleted, registered again or reset in between, and whenever a
\* cookie comes back: a session that is accepted, and a request that
\* works, act for the account that signed in (schema.sql: an old id "can never
\* authenticate as a new post-reset account that happens to receive the same
\* id").
SessionsOwn ==
  /\ \A s \in sessions : Valid(s) => users[s.uid].born = s.born
  /\ \A w \in Workers : Working(w) \/ pc[w] = "change" => req[w].user.born = req[w].as

\* Nothing is done with an account whose password was never anything but the
\* one it was seeded with: "the documented default credential cannot survive
\* real use" (_seed_admin).
SeedPasswordUnused == \A w \in Workers : Working(w) => req[w].user.fresh

\* While the application serves there is an administrator who may sign in,
\* after any start, reset, interrupted reset and use of the admin pages.
AdminRemains ==
  (\E w \in Workers : pc[w] \notin Starting) =>
    \E i \in Accounts : users[i].role = "admin" /\ users[i].active

\* However starts, resets and their interruptions overlap, a worker that
\* serves signs and accepts the cookies of all others and finds every table and
\* column ("it is idempotent", _MIGRATIONS).
StartedWhole ==
  \A w \in Workers : pc[w] \in Serving =>
    key[w] = keyfile /\ schema = Columns + 1 /\ epoch # 0

\* A step that takes an account away leaves none of its files behind ("Never
\* destroy ownership metadata while a user blob remains"), except for a reset
\* from which the store hid a file.
OwnersOutliveFiles ==
  [][\A i \in Accounts : users'[i].born # users[i].born =>
       users[i].born \notin files' \/ blind]_vars

=============================================================================
