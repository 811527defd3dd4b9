---------------------------- MODULE SaasServer -----------------------------
(***************************************************************************)
(* The hosted server (saas/server.rs) over its durable store, with the     *)
(* client programs that drive it: `sfs-sync init` and push (sfs-sync.rs),  *)
(* `sfs-recovery setup` and `recover` (sfs-recovery.rs), through the       *)
(* client of saas/net.rs.  Requests run concurrently; each locks a table   *)
(* (tokens, pending, store) only for the step that uses it.  The server    *)
(* may crash between any two publishes and restart, a client may give up,  *)
(* a token may expire.  SRP is modelled by its guarantee: step 2 succeeds  *)
(* when the session it finds is the one this client's step 1 opened, and   *)
(* the client's secret is the one behind the session's verifier.           *)
(***************************************************************************)
EXTENDS EngineStore

CONSTANTS
  Devices,       \* the computers of one account's owner
  MaxPrograms,   \* bound: programs run in all
  MaxFaults      \* bound: crashes, clients giving up, tokens expiring

ASSUME SaasAssumption == MaxPrograms \in Nat /\ MaxFaults \in Nat

VARIABLES
  kv,        \* durable: the container's keys
  log,       \* durable: the block log
  tokens,    \* memory: the bearer tokens, [id, scope]
  expired,   \* the tokens whose time is over
  pending,   \* memory: the SRP session of each kind under way, or Absent
  dev,       \* the program each device runs
  known,     \* what the owner knows: passwords, printed codes
  ready,     \* registration was acknowledged
  spent,     \* history: recovery tokens whose reset was acknowledged
  seen,      \* history: what makes a property's premise fail
  next,      \* the next fresh secret or token
  programs,  \* programs started
  faults     \* faults so far

durable == <<kv, log>>
memory == <<tokens, pending>>
ghosts == <<ready, spent>>
vars == <<kv, log, tokens, expired, pending, dev, known, ready, spent, seen,
          next, programs, faults>>

Idle == [todo |-> <<>>, at |-> "go", secret |-> 0, new |-> 0, token |-> 0,
         vv |-> Zero, ver |-> 0, right |-> FALSE, clash |-> FALSE,
         snap |-> {}, after |-> {}, old |-> FALSE]

Init ==
  /\ kv = NoKeys /\ log = <<>>
  /\ tokens = {} /\ expired = {}
  /\ pending = [srp |-> Absent, recsrp |-> Absent]
  /\ dev = [d \in Devices |-> Idle]
  /\ known = [pws |-> {}, codes |-> {}, last |-> 0]
  /\ ready = FALSE /\ spent = {} /\ seen = {}
  /\ next = 1 /\ programs = 0 /\ faults = 0

-----------------------------------------------------------------------------
(* The client programs, as the requests they make. *)

run_init == <<"register", "login", "recblob", "reccred", "code">>
run_setup == <<"login", "wrapped", "login", "recblob", "reccred", "code">>
run_recover == <<"reclogin", "getblob", "update">>
run_push == <<"login", "units", "block", "record", "vv">>

Doing(d, step, at) == /\ dev[d].todo # <<>> /\ Head(dev[d].todo) = step
                      /\ dev[d].at = at
Setting(d) == \E i \in DOMAIN dev[d].todo : dev[d].todo[i] \in {"reccred", "update"}

Run(d, todo, secret, new) ==
  /\ dev[d].todo = <<>> /\ programs < MaxPrograms
  /\ programs' = programs + 1
  /\ dev' = [dev EXCEPT ![d] = [Idle EXCEPT !.todo = todo, !.secret = secret, !.new = new]]
  /\ UNCHANGED <<kv, log, tokens, expired, pending, ready, spent, seen, faults>>

StartInit(d) ==
  /\ ~ready
  /\ Run(d, run_init, next, next + 1)
  /\ next' = next + 2
  /\ UNCHANGED known

StartSetup(d) == \E pw \in known.pws :
  /\ Run(d, run_setup, pw, next)
  /\ next' = next + 1
  /\ UNCHANGED known

StartRecover(d) == \E code \in known.codes :
  /\ Run(d, run_recover, code, next)
  /\ next' = next + 1
  /\ known' = [known EXCEPT !.pws = @ \cup {next}]

StartPush(d) == \E pw \in known.pws :
  /\ Run(d, run_push, pw, 0)
  /\ UNCHANGED <<next, known>>

\* The owner forgets the passwords, relying on the code of the last set-up.
Lose ==
  /\ known.last \in known.codes /\ known.pws # {}
  /\ \A d \in Devices : ~Setting(d)
  /\ known' = [known EXCEPT !.pws = {}]
  /\ UNCHANGED <<kv, log, tokens, expired, pending, dev, ready, spent, seen, next, programs, faults>>

\* The client goes on with its next request, or reports the error and ends.
Answered(d) == [dev EXCEPT ![d] = IF Len(@.todo) = 1 THEN Idle
                                  ELSE [@ EXCEPT !.todo = Tail(@), !.at = "go"]]
Refused(d) == [dev EXCEPT ![d] = Idle]
Stays(d, at) == [dev EXCEPT ![d].at = at]

-----------------------------------------------------------------------------
(* Bearer tokens. *)

\* authed_token: expired tokens are evicted when they are presented.
Live == {t \in tokens : t.id \notin expired}
Holds(d, scopes) == \E t \in Live : t.id = dev[d].token /\ t.scope \in scopes
Evict(d) == tokens' = {t \in tokens : ~(t.id = dev[d].token /\ t.id \in expired)}

-----------------------------------------------------------------------------
(* Authentication: /v1/auth and /v1/recovery-auth differ in the credential *)
(* they read, the table of pending sessions and the scope of the token.    *)

Logins == {"login", "reclogin"}
Table(step) == IF step = "login" THEN "srp" ELSE "recsrp"
Scope(step) == IF step = "login" THEN "password" ELSE "recovery"
Rivals(d, step) == {e \in Devices \ {d} : Doing(e, step, "step2")}

\* Step 1 reads the verifier under the store lock.
Step1(d) == \E step \in Logins :
  /\ Doing(d, step, "go")
  /\ dev' = IF Stored(kv, Table(step))
              THEN [Stays(d, "insert") EXCEPT ![d].ver = kv[Table(step)],
                                              ![d].right = kv[Table(step)] = dev[d].secret,
                                              ![d].clash = FALSE]
              ELSE Refused(d)
  /\ UNCHANGED <<kv, log, tokens, expired, pending, known, ready, spent, seen, next, programs, faults>>

\* Mutant of Step1Insert: a session that is already pending is kept.
Step1Keep(d) == \E step \in Logins :
  /\ Doing(d, step, "insert")
  /\ pending' = [pending EXCEPT ![Table(step)] =
                   IF @ = Absent THEN [dev |-> d, secret |-> dev[d].ver] ELSE @]
  /\ dev' = [e \in Devices |->
               LET r == Stays(d, "step2")[e] IN
               IF Rivals(d, step) # {} /\ e \in Rivals(d, step) \cup {d}
                 THEN [r EXCEPT !.clash = TRUE] ELSE r]
  /\ UNCHANGED <<kv, log, tokens, expired, known, ready, spent, seen, next, programs, faults>>

\* ... and inserts the session under the account, over the one it finds.
Step1Insert(d) == \E step \in Logins :
  /\ Doing(d, step, "insert")
  /\ pending' = [pending EXCEPT ![Table(step)] = [dev |-> d, secret |-> dev[d].ver]]
  /\ dev' = [e \in Devices |->
               LET r == Stays(d, "step2")[e] IN
               IF Rivals(d, step) # {} /\ e \in Rivals(d, step) \cup {d}
                 THEN [r EXCEPT !.clash = TRUE] ELSE r]
  /\ UNCHANGED <<kv, log, tokens, expired, known, ready, spent, seen, next, programs, faults>>

\* SrpServerSession::step2: the proof matches.
Proves(d, sess) == sess # Absent /\ sess.dev = d /\ sess.secret = dev[d].secret

\* Step 2 removes the session, whoever opened it, and on a proof puts a new
\* token into the table.
Step2(d) == \E step \in Logins :
  LET sess == pending[Table(step)] IN
  /\ Doing(d, step, "step2")
  /\ pending' = [pending EXCEPT ![Table(step)] = Absent]
  /\ IF Proves(d, sess)
       THEN /\ tokens' = tokens \cup {[id |-> next, scope |-> Scope(step)]}
            /\ next' = next + 1
            /\ dev' = [Stays(d, "snap") EXCEPT ![d].token = next, ![d].ver = 0,
                                               ![d].right = FALSE, ![d].clash = FALSE]
            /\ UNCHANGED seen
       ELSE /\ dev' = Refused(d)
            /\ seen' = IF dev[d].right /\ ~dev[d].clash THEN seen \cup {"denied"} ELSE seen
            /\ UNCHANGED <<tokens, next>>
  /\ UNCHANGED <<kv, log, expired, known, ready, spent, programs, faults>>

serialize_tokens == Live

\* persist_tokens takes a snapshot under the tokens lock ...
Snapshot(d) ==
  /\ dev[d].at = "snap"
  /\ dev' = [Stays(d, "write") EXCEPT
               ![d].snap = serialize_tokens,
               ![d].after = {e \in Devices \ {d} : dev[e].at = "write"}]
  /\ UNCHANGED <<kv, log, tokens, expired, pending, known, ready, spent, seen, next, programs, faults>>

\* ... and writes it under the store lock: perhaps over a newer one.
PersistTokens(d) ==
  /\ dev[d].at = "write"
  /\ LET ps == persist_tokens(kv, dev[d].snap) IN kv' = Published(kv, ps, Len(ps))
  /\ dev' = [e \in Devices |->
               IF e = d THEN [Answered(d)[d] EXCEPT !.snap = {}, !.after = {}, !.old = FALSE]
               ELSE [dev[e] EXCEPT !.old = @ \/ (e \in dev[d].after /\ dev[e].at = "write"),
                                   !.after = @ \ {d}]]
  /\ spent' = IF Doing(d, "update", "write") THEN spent \cup {dev[d].token} ELSE spent
  /\ seen' = IF dev[d].old THEN seen \cup {"stale"} ELSE seen
  /\ UNCHANGED <<log, tokens, expired, pending, known, ready, next, programs, faults>>

-----------------------------------------------------------------------------
(* The requests that write keys, as the publishes they issue. *)

PostRegister(d) ==
  LET ps == register(kv, dev[d].secret)
  IN  IF ps = <<>> THEN <<>> ELSE ps \o put_wrapped_key(kv, dev[d].secret)

PostCredentialUpdate(d) ==
  IF ~account_exists(kv) THEN <<>>
  ELSE update_credentials(kv, dev[d].new) \o put_wrapped_key(kv, dev[d].new)

PutRecovery(d) == put_recovery_blob(kv, dev[d].new)
PutRecoveryCredential(d) == put_recovery_credentials(kv, dev[d].new)
PutRecord(d) == put_record(kv, dev[d].vv)
PutVv(d) == set_vv(kv, dev[d].vv)

\* The publishes of the request device d has under way.
Publishes(d) ==
  CASE Doing(d, "register", "go") -> PostRegister(d)
    [] Doing(d, "update", "go") -> PostCredentialUpdate(d)
    [] Doing(d, "recblob", "go") -> PutRecovery(d)
    [] Doing(d, "reccred", "go") -> PutRecoveryCredential(d)
    [] Doing(d, "record", "go") -> PutRecord(d)
    [] Doing(d, "vv", "go") -> PutVv(d)
    [] dev[d].at = "write" -> persist_tokens(kv, dev[d].snap)
    [] OTHER -> <<>>

HandleRegister(d) ==
  LET ps == Publishes(d) IN
  /\ Doing(d, "register", "go")
  /\ kv' = Published(kv, ps, Len(ps))
  /\ dev' = IF ps = <<>> THEN Refused(d) ELSE Answered(d)
  /\ ready' = (ready \/ ps # <<>>)
  /\ known' = IF ps = <<>> THEN known ELSE [known EXCEPT !.pws = @ \cup {dev[d].secret}]
  /\ UNCHANGED <<log, tokens, expired, pending, spent, seen, next, programs, faults>>

\* credential-update: verifier, wrapped key, then the token is spent.
HandleUpdate(d) ==
  LET ps == Publishes(d) IN
  /\ Doing(d, "update", "go")
  /\ IF Holds(d, {"password", "recovery"}) /\ ps # <<>>
       THEN /\ kv' = Published(kv, ps, Len(ps))
            /\ dev' = Stays(d, "revoke")
            /\ UNCHANGED tokens
       ELSE /\ dev' = Refused(d)
            /\ Evict(d)
            /\ UNCHANGED kv
  /\ UNCHANGED <<log, expired, pending, known, ready, spent, seen, next, programs, faults>>

\* Mutant of revoke_token: the shorter table is not persisted.
revoke_in_memory(d) ==
  /\ dev[d].at = "revoke"
  /\ tokens' = {t \in tokens : t.id # dev[d].token}
  /\ dev' = Answered(d)
  /\ spent' = spent \cup {dev[d].token}
  /\ UNCHANGED <<kv, log, expired, pending, known, ready, seen, next, programs, faults>>

revoke_token(d) ==
  /\ dev[d].at = "revoke"
  /\ tokens' = {t \in tokens : t.id # dev[d].token}
  /\ dev' = Stays(d, "snap")
  /\ UNCHANGED <<kv, log, expired, pending, known, ready, spent, seen, next, programs, faults>>

\* The requests that need a password token and write one key.
Puts == {"recblob", "reccred", "record", "vv"}
HandlePut(d) == \E step \in Puts :
  LET ps == Publishes(d)
      failed == \/ step = "record" /\ Unreadable(kv, "rec")
                \/ step = "vv" /\ Unreadable(kv, "vv")
      rival == \E e \in Devices \ {d} : Doing(e, "reccred", "go")
  IN
  /\ Doing(d, step, "go")
  /\ Evict(d)
  /\ IF Holds(d, {"password"}) /\ ~failed
       THEN /\ kv' = Published(kv, ps, Len(ps))
            /\ dev' = Answered(d)
            /\ known' = IF step = "recblob" THEN [known EXCEPT !.last = dev[d].new] ELSE known
            /\ seen' = IF step = "recblob" /\ rival THEN seen \cup {"setups"} ELSE seen
       ELSE dev' = Refused(d) /\ UNCHANGED <<kv, known, seen>>
  /\ UNCHANGED <<log, expired, pending, ready, spent, next, programs, faults>>

\* The block of a push: insert if absent, or the overwrite of a re-cipher.
HandleBlock(d) ==
  /\ Doing(d, "block", "go")
  /\ Evict(d)
  /\ \/ Holds(d, {"password"}) /\ log' = put_block(log, "suite1") /\ dev' = Answered(d)
     \/ Holds(d, {"password"}) /\ log' = overwrite_block(log, "suite2") /\ dev' = Answered(d)
     \/ ~Holds(d, {"password"}) /\ dev' = Refused(d) /\ UNCHANGED log
  /\ UNCHANGED <<kv, expired, pending, known, ready, spent, seen, next, programs, faults>>

\* Fetching and unwrapping the root key: setup checks the password with it,
\* recover needs it before it resets the credentials.
GetWrapped(d) == Holds(d, {"password"}) /\ kv["wrapped"] = dev[d].secret
GetRecovery(d) == Holds(d, {"password", "recovery"}) /\ kv["recblob"] = dev[d].secret

\* The listing a pull starts with.  What is pushed afterwards has the vector
\* of the device's own writes and of what it pulled, now or before.
GetUnits(d) == Holds(d, {"password"}) /\ ~list_units_fails(kv)

HandleGet(d) ==
  /\ \E step \in {"wrapped", "getblob", "units"} : Doing(d, step, "go")
  /\ Evict(d)
  /\ LET served == \/ Doing(d, "wrapped", "go") /\ GetWrapped(d)
                   \/ Doing(d, "getblob", "go") /\ GetRecovery(d)
                   \/ Doing(d, "units", "go") /\ GetUnits(d)
     IN  IF ~served THEN dev' = Refused(d)
         ELSE \E v \in [Hosts -> 0 .. 1] :
                /\ Doing(d, "units", "go") <=> v # Zero
                /\ dev' = [Answered(d) EXCEPT ![d].vv = v]
  /\ UNCHANGED <<kv, log, expired, pending, known, ready, spent, seen, next, programs, faults>>

\* The set-up reports success and prints the code.
Report(d) ==
  /\ Doing(d, "code", "go")
  /\ dev' = Refused(d)
  /\ known' = [known EXCEPT !.codes = @ \cup {dev[d].new}]
  /\ UNCHANGED <<kv, log, tokens, expired, pending, ready, spent, seen, next, programs, faults>>

-----------------------------------------------------------------------------
(* Faults. *)

\* The client dies or gives up between two requests.
GiveUp(d) ==
  /\ faults < MaxFaults /\ dev[d].todo # <<>> /\ dev[d].at \in {"go", "step2"}
  /\ faults' = faults + 1
  /\ dev' = Refused(d)
  /\ UNCHANGED <<kv, log, tokens, expired, pending, known, ready, spent, seen, next, programs>>

Expire == \E t \in Live :
  /\ faults < MaxFaults
  /\ faults' = faults + 1
  /\ expired' = expired \cup {t.id}
  /\ UNCHANGED <<kv, log, tokens, pending, dev, known, ready, spent, seen, next, programs>>

\* restore_tokens: a table that cannot be read leaves the map empty.
deserialize_tokens(table) == {t \in table : t.id \notin expired}
restore_tokens(keys) ==
  IF Stored(keys, "tokens") THEN deserialize_tokens(keys["tokens"]) ELSE {}

\* The server stops after n publishes of the request it is working on and
\* starts again.  Clients with a request under way see it fail.
Crash(d) == \E n \in 0 .. Len(Publishes(d)) :
  LET ps == IF Holds(d, {"password", "recovery"}) \/ Doing(d, "register", "go") \/ dev[d].at = "write"
              THEN Publishes(d) ELSE <<>>
      torn == Doing(d, "block", "go") /\ Holds(d, {"password"})
  IN
  /\ faults < MaxFaults /\ n <= Len(ps)
  /\ faults' = faults + 1
  /\ kv' = Published(kv, ps, n)
  /\ log' = BlobOpen(IF torn THEN BlobTorn(log, "suite2") ELSE log)
  /\ tokens' = restore_tokens(kv')
  /\ pending' = [srp |-> Absent, recsrp |-> Absent]
  /\ dev' = [e \in Devices |-> IF e = d \/ dev[e].at \notin {"go", "step2"} THEN Idle
                                ELSE [dev[e] EXCEPT !.clash = dev[e].at = "step2"]]
  /\ known' = IF dev[d].todo # <<>> /\ Head(dev[d].todo) = "recblob" /\ n > 0
                THEN [known EXCEPT !.last = dev[d].new] ELSE known
  /\ seen' = IF dev[d].old /\ n > 0 THEN seen \cup {"stale"} ELSE seen
  /\ UNCHANGED <<expired, ready, spent, next, programs>>

-----------------------------------------------------------------------------
Request(d) ==
  \/ Step1(d) \/ Step1Insert(d) \/ Step2(d) \/ Snapshot(d) \/ PersistTokens(d)
  \/ HandleRegister(d) \/ HandleUpdate(d) \/ revoke_token(d)
  \/ HandlePut(d) \/ HandleBlock(d) \/ HandleGet(d) \/ Report(d)

Next ==
  \/ \E d \in Devices :
       \/ StartInit(d) \/ StartSetup(d) \/ StartRecover(d) \/ StartPush(d)
       \/ Request(d) \/ GiveUp(d) \/ Crash(d)
  \/ Lose \/ Expire

Spec == Init /\ [][Next]_vars

-----------------------------------------------------------------------------
(* Correctness. *)

PasswordOpens == \E p \in known.pws : kv["srp"] = p /\ kv["wrapped"] = p
CodeOpens == /\ account_exists(kv)
             /\ \E c \in known.codes : kv["recsrp"] = c /\ kv["recblob"] = c

\* Once an account is registered its owner can always get the root key back:
\* a password they know logs in and unwraps it, or a code they were given
\* does.  Credential updates, recovery set-ups and recoveries interleave and
\* one of them may be cut short at any publish.  Not while a set-up has
\* replaced the blob and not yet printed the code, and not once two set-ups
\* overlapped (they may leave the blob of one beside the credential of the
\* other) or a token table was persisted over a newer one (a restart then
\* forgets the login of a running set-up).
KeyReachable ==
  ready /\ {"setups", "stale"} \cap seen = {} /\ (\A d \in Devices : ~Doing(d, "reccred", "go") /\ ~Doing(d, "code", "go"))
    => PasswordOpens \/ CodeOpens

\* A recovery token whose credential update was acknowledged never
\* authenticates again, restarts included (credential-update revokes it and
\* persists the table).  Unless two handlers persisted their snapshots of
\* the token table in the wrong order.
SpentStaysSpent ==
  "stale" \notin seen => \A t \in Live : t.id \notin spent

\* A login with the secret behind the stored verifier is refused only when
\* another login of the account was between its two steps at the same time
\* (sessions are pending per account) or the server restarted.
DeniedForCause == "denied" \notin seen

\* The durable store behaves as the in-memory reference store: a request
\* takes effect at once or not at all, a crash loses nothing acknowledged,
\* blocks are written once, the frontier holds no dominated record.
Value(k) == IF Stored(kv, k) THEN kv[k] ELSE Absent
Reference == INSTANCE ServerStore WITH
  Secrets <- 1 .. 4 * MaxPrograms,
  Suites <- {"suite1", "suite2"},
  blocks <- get_block(log),
  vvs <- Value("vv"),
  records <- IF Stored(kv, "rec") THEN kv["rec"] ELSE {},
  srp_credentials <- Value("srp"),
  recovery_credentials <- Value("recsrp"),
  wrapped_keys <- Value("wrapped"),
  recovery_blobs <- Value("recblob")
RefinesServerStore == Reference!Spec
=============================================================================
