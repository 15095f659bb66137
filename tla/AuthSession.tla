------------------------------ MODULE AuthSession ------------------------------
(***************************************************************************)
(* Who is signed in, and what of it survives a restart: the SessionManager *)
(* behind the auth requests of the IPC thread, the vault with the durable  *)
(* token, the account row and the authsave preference, the refresh tick,   *)
(* the mount that borrows the token, and the boot that restores a session. *)
(*                                                                         *)
(* One thread does all of it, so only a crash or a failing write comes     *)
(* between two steps of a handler; a handler is cut at its durable writes. *)
(* A token is named after its owner: a refreshed token is the same one.    *)
(* userinfo always names the user and the email.                           *)
(***************************************************************************)
EXTENDS Integers, FiniteSets

CONSTANTS
    Users,
    Backend,            \* "file" or "service": the vault that select_vault gives the boot
    DefaultDurable,     \* durable_auth_tokens_enabled of the configuration file
    BootLogins,         \* credentials in the environment of a boot: "token", "password"
    MaxCalls, MaxFaults, MaxCrashes    \* bounds

ASSUME AuthAssumption ==
    /\ Backend \in {"file", "service"} /\ DefaultDurable \in BOOLEAN
    /\ BootLogins \subseteq {"token", "password"}
    /\ {"none", "null"} \cap Users = {}
    /\ {MaxCalls, MaxFaults, MaxCrashes} \subseteq Nat

VARIABLES
    auth,               \* the snapshot of the SessionManager; life: a lifecycle is attached
    pending,            \* pending_password_auth: its user
    durable,            \* config.features.durable_auth_tokens_enabled
    pref, account,      \* preferences and primary account of the store, in memory
    db,                 \* the same two, in SQLite
    file, service,      \* the token in the vault file, and in the Secret Service
    mount, factory,     \* the adapter in use, and the one the next mount will use
    crypto,             \* crypto.is_started()
    job,                \* the handler or boot in progress
    calls, faults, crashes,
    signedOut, optedOut \* ghosts: a logout, an authsave off, was the last word

session == <<auth, pending>>
settings == <<durable, pref, account>>
vaults == <<file, service>>
mounts == <<mount, factory, crypto>>
ghosts == <<signedOut, optedOut>>
vars == <<session, settings, db, vaults, mounts, job, calls, faults, crashes, ghosts>>

None == "none"
Null == "null"      \* NullFuseAdapter
SignedOff == [state |-> "LoggedOut", user |-> None, token |-> None,
              challenge |-> "none", who |-> None, life |-> FALSE]
Rest == [pc |-> "idle", event |-> "-", vault |-> None, durable |-> FALSE, pref |-> "unset"]
At(pc) == [Rest EXCEPT !.pc = pc]

\* The flag a process starts with.
Flag(p) == IF p = "unset" THEN DefaultDurable ELSE p = "on"

Init ==
    /\ auth = SignedOff /\ pending = None
    /\ durable = DefaultDurable /\ pref = "unset" /\ account = None
    /\ db = [account |-> None, pref |-> "unset"]
    /\ file = None /\ service = None
    /\ mount = None /\ factory = Null /\ crypto = FALSE
    /\ job = At("boot")
    /\ calls = 0 /\ faults = 0 /\ crashes = 0
    /\ signedOut = FALSE /\ optedOut = FALSE

Fault == faults < MaxFaults /\ faults' = faults + 1
NoFault == UNCHANGED faults
-----------------------------------------------------------------------------
(* SessionManager::apply, on a snapshot.                                   *)

Mark(a, state) == [a EXCEPT !.state = state]

\* LoginWithPassword and LoginWithToken keep the token of the session before.
StartLogin(a, state) == [a EXCEPT !.state = state, !.challenge = "none", !.who = None]

\* Mutant: the user of the session before stays.
MutOldUser(a, u) ==
    [a EXCEPT !.state = "Authenticated", !.token = u, !.challenge = "none", !.who = None,
              !.user = IF a.user = None THEN u ELSE a.user]

MarkAuthenticated(a, u) ==
    [a EXCEPT !.state = "Authenticated", !.token = u, !.challenge = "none", !.who = None,
              !.user = u]

MarkAuthenticationFailed == Mark(SignedOff, "AuthFailed")

issue_two_factor_challenge(a, kind, u) ==
    [a EXCEPT !.state = "TwoFactorRequired", !.challenge = kind, !.who = u]
-----------------------------------------------------------------------------
(* Requests.                                                               *)

Request == job = Rest /\ calls < MaxCalls /\ calls' = calls + 1

\* The answer is an error that leaves the store and the vault alone.
Refuse(a, p) ==
    /\ auth' = a /\ pending' = p
    /\ UNCHANGED <<job, ghosts>>

\* auth_response, up to its call of persist_auth_state.
auth_response(a, event, p) ==
    /\ auth' = [a EXCEPT !.life = @ \/ event = "LoginSucceeded"]
    /\ pending' = IF event = "TwoFactorChallengeIssued" THEN p ELSE None
    /\ job' = [At("vault") EXCEPT !.event = event]
    /\ signedOut' = (signedOut /\ event # "LoginSucceeded")
    /\ UNCHANGED optedOut

BeginLogin ==
    /\ Request
    /\ Refuse(Mark(auth, "AwaitingCredentials"), pending)
    /\ UNCHANGED <<settings, db, vaults, mounts, faults, crashes>>

\* What the server makes of a login of user u: the second disjunct is a login
\* that is accepted, with a userinfo that then fails.
LoginOutcome(a, u, onError, p) ==
    \/ Refuse(MarkAuthenticationFailed, onError)
    \/ Refuse(a, onError)
    \/ auth_response(MarkAuthenticated(a, u), "LoginSucceeded", p)
    \/ \E kind \in {"token", "empty"} :
           auth_response(issue_two_factor_challenge(a, kind, u), "TwoFactorChallengeIssued", p)

PasswordSubmission(u) ==
    /\ Request
    /\ \/ LoginOutcome(StartLogin(auth, "AuthenticatingWithPassword"), u, None, u)
       \/ auth_response(MarkAuthenticationFailed, "LoginFailed", u)
    /\ UNCHANGED <<settings, db, vaults, mounts, faults, crashes>>

login_with_token(a, u) ==
    \/ Refuse(MarkAuthenticationFailed, pending)
    \/ auth_response(MarkAuthenticated(a, u), "LoginSucceeded", pending)

AuthTokenSubmission(u) ==
    /\ Request
    /\ login_with_token(StartLogin(auth, "AuthenticatingWithToken"), u)
    /\ UNCHANGED <<settings, db, vaults, mounts, faults, crashes>>

\* A wrong code keeps the challenge: MarkTwoFactorCodeInvalid.
submit_two_factor_code(a) ==
    \/ LoginOutcome(a, a.who, pending, pending)
    \/ auth_response(a, "LoginFailed", pending)

submit_two_factor_code_with_password(a) ==
    \/ LoginOutcome(a, pending, pending, pending)
    \/ auth_response(MarkAuthenticationFailed, "LoginFailed", pending)

\* A challenge without a token is answered with the password kept for it.
TwoFactorCodeSubmission ==
    LET a == Mark(auth, "AuthenticatingWithPassword") IN
    /\ Request
    /\ \/ auth.challenge = "token" /\ submit_two_factor_code(a)
       \/ /\ auth.challenge = "empty" /\ pending # None
          /\ submit_two_factor_code_with_password(a)
    /\ UNCHANGED <<settings, db, vaults, mounts, faults, crashes>>

logout ==
    /\ Request
    /\ mount' = None /\ crypto' = FALSE /\ UNCHANGED factory
    /\ auth_response(SignedOff, "LoggedOut", pending)
    /\ UNCHANGED <<settings, db, vaults, faults, crashes>>

fetch_userinfo ==
    /\ Request
    /\ auth.token # None /\ auth.state = "Authenticated"
    /\ auth' = [auth EXCEPT !.user = auth.token]
    /\ account' = auth.token
    /\ \/ NoFault /\ db' = [account |-> account', pref |-> pref]
       \/ Fault /\ UNCHANGED db
    /\ UNCHANGED <<pending, durable, pref, vaults, mounts, job, crashes, ghosts>>

\* Every other handler that persists the profile.
OtherSave ==
    /\ job = Rest
    /\ db' = [account |-> account, pref |-> pref]
    /\ UNCHANGED <<session, settings, vaults, mounts, job, calls, faults, crashes, ghosts>>

\* A refresh that succeeds changes nothing here.
RefreshTick ==
    /\ job = Rest /\ auth.life
    /\ auth' = SignedOff
    /\ UNCHANGED <<pending, settings, db, vaults, mounts, job, calls, faults, crashes, ghosts>>

\* The adapter of the session; without one the factory is left as it is.
try_install_pcloud_shim_factory == IF auth.token # None THEN auth.token ELSE factory

\* A mount may be refused after its factory is installed.
mount_filesystem ==
    /\ Request
    /\ mount = None
    /\ factory' = try_install_pcloud_shim_factory
    /\ mount' \in {factory', None}
    /\ UNCHANGED <<session, settings, db, vaults, crypto, job, faults, crashes, ghosts>>

unmount_filesystem ==
    /\ Request
    /\ mount # None /\ mount' = None
    /\ UNCHANGED <<session, settings, db, vaults, factory, crypto, job, faults, crashes, ghosts>>

\* unlock_crypto and lock_crypto.
SwitchCrypto ==
    /\ Request
    /\ crypto' = ~crypto
    /\ UNCHANGED <<session, settings, db, vaults, mount, factory, job, faults, crashes, ghosts>>
-----------------------------------------------------------------------------
(* persist_auth_state.                                                     *)

\* A write of the vault that fails may have replaced the file by then.
VaultWriteFails(token) == file' \in {file} \cup ({token} \ {None})

\* Mutants: without a token nothing is cleared; the preference is not asked.
MutKeepsToken == IF durable THEN (IF auth.token = None THEN file ELSE auth.token) ELSE None
MutStoresAlways == auth.token

sync_auth_vault == IF durable THEN auth.token ELSE None
restored_vault == IF durable THEN job.vault ELSE None

PersistVault ==
    /\ job.pc = "vault"
    /\ \/ /\ NoFault /\ file' = sync_auth_vault
          /\ job' = [job EXCEPT !.pc = "profile", !.vault = file]
       \/ Fault /\ VaultWriteFails(sync_auth_vault) /\ job' = Rest
    /\ UNCHANGED <<session, settings, db, service, mounts, calls, crashes, ghosts>>

PersistProfile ==
    /\ job.pc = "profile"
    /\ \/ /\ NoFault
          /\ account' = auth.user
          /\ db' = [account |-> account', pref |-> pref]
          /\ job' = Rest
          /\ signedOut' = (signedOut \/ job.event = "LoggedOut")
       \/ /\ Fault /\ job' = [job EXCEPT !.pc = "unvault", !.event = "-"]
          /\ UNCHANGED <<account, db, signedOut>>
    /\ UNCHANGED <<session, durable, pref, vaults, mounts, calls, crashes, optedOut>>

restore_vault_state ==
    /\ job.pc = "unvault"
    /\ \/ NoFault /\ file' = restored_vault
       \/ Fault /\ VaultWriteFails(restored_vault)
    /\ job' = Rest
    /\ UNCHANGED <<session, settings, db, service, mounts, calls, crashes, ghosts>>
-----------------------------------------------------------------------------
(* set_auth_persistence.                                                   *)

set_auth_persistence(enabled) ==
    /\ Request
    /\ durable' = enabled /\ pref' = IF enabled THEN "on" ELSE "off"
    /\ job' = [pc |-> "pref", event |-> "-", vault |-> file, durable |-> durable, pref |-> pref]
    /\ optedOut' = (optedOut /\ ~enabled)
    /\ UNCHANGED <<session, account, db, vaults, mounts, faults, crashes, signedOut>>

PutBack == durable' = job.durable /\ pref' = job.pref

SavePreference ==
    /\ job.pc = "pref"
    /\ \/ /\ NoFault /\ db' = [account |-> account, pref |-> pref]
          /\ job' = [job EXCEPT !.pc = "store"]
          /\ UNCHANGED <<durable, pref>>
       \/ Fault /\ PutBack /\ job' = Rest /\ UNCHANGED db
    /\ UNCHANGED <<session, account, vaults, mounts, calls, crashes, ghosts>>

\* Mutant: the preference is put back in memory and not on disk.
MutNoProfileRollback ==
    /\ job.pc = "store"
    /\ \/ /\ NoFault /\ file' = sync_auth_vault
          /\ job' = Rest
          /\ optedOut' = (optedOut \/ ~durable)
          /\ UNCHANGED <<durable, pref>>
       \/ /\ Fault /\ VaultWriteFails(sync_auth_vault)
          /\ PutBack /\ job' = [At("unvault") EXCEPT !.vault = job.vault]
          /\ UNCHANGED optedOut
    /\ UNCHANGED <<session, account, db, service, mounts, calls, crashes, signedOut>>

ApplyPreference ==
    /\ job.pc = "store"
    /\ \/ /\ NoFault /\ file' = sync_auth_vault
          /\ job' = Rest
          /\ optedOut' = (optedOut \/ ~durable)
          /\ UNCHANGED <<durable, pref>>
       \/ /\ Fault /\ VaultWriteFails(sync_auth_vault)
          /\ PutBack /\ job' = [At("unpref") EXCEPT !.vault = job.vault]
          /\ UNCHANGED optedOut
    /\ UNCHANGED <<session, account, db, service, mounts, calls, crashes, signedOut>>

RollBackPreference ==
    /\ job.pc = "unpref"
    /\ \/ NoFault /\ db' = [account |-> account, pref |-> pref]
       \/ Fault /\ UNCHANGED db
    /\ job' = [job EXCEPT !.pc = "unvault"]
    /\ UNCHANGED <<session, settings, vaults, mounts, calls, crashes, ghosts>>
-----------------------------------------------------------------------------
(* bootstrap_with_config.  A boot that fails is tried again.               *)

Reboot ==
    /\ auth' = SignedOff /\ pending' = None
    /\ durable' = Flag(db.pref) /\ pref' = db.pref /\ account' = db.account
    /\ mount' = None /\ factory' = Null /\ crypto' = FALSE
    /\ job' = At("boot")

Crash ==
    /\ crashes < MaxCrashes /\ crashes' = crashes + 1
    /\ Reboot
    /\ UNCHANGED <<db, vaults, calls, faults, ghosts>>

\* The vault selected for the boot; the handlers above know the file only.
BootToken == IF Backend = "file" THEN file ELSE service
SetBootToken(token) ==
    /\ file' = IF Backend = "file" THEN token ELSE file
    /\ service' = IF Backend = "service" THEN token ELSE service

\* A login at boot attaches no lifecycle.
BootWith(a) ==
    /\ auth' = a /\ job' = At("bootvault")
    /\ UNCHANGED <<pending, settings, db, vaults, mounts, calls, faults, crashes, optedOut>>

\* Credentials of the environment; a refused password or code is no error.
BootLogin(u) ==
    /\ job.pc = "boot"
    /\ \/ BootLogins # {} /\ BootWith(MarkAuthenticated(auth, u)) /\ signedOut' = FALSE
       \/ /\ "password" \in BootLogins
          /\ \/ BootWith(MarkAuthenticationFailed)
             \/ \E kind \in {"token", "empty"}, state \in {"AuthenticatingWithPassword", "TwoFactorRequired"} :
                    BootWith(Mark(issue_two_factor_challenge(auth, kind, u), state))
          /\ UNCHANGED signedOut

\* No credentials: the token of the vault, if there is one and it is wanted.
BootRestore ==
    /\ job.pc = "boot"
    /\ \/ /\ ~durable \/ BootToken = None
          /\ job' = Rest /\ UNCHANGED auth
       \/ /\ durable /\ BootToken # None
          /\ \/ auth' = MarkAuthenticated(auth, BootToken) /\ job' = At("bootvault")
             \/ auth' = MarkAuthenticationFailed /\ job' = At("bootclear")
    /\ UNCHANGED <<pending, settings, db, vaults, mounts, calls, faults, crashes, ghosts>>

\* The token was refused: both vaults are cleared, the file if it can be.
BootClear ==
    /\ job.pc = "bootclear"
    /\ file' \in {None} \cup (IF Backend = "file" THEN {} ELSE {file})
    /\ service' = IF Backend = "service" THEN None ELSE service
    /\ account' = None
    /\ job' = At("bootprofile")
    /\ UNCHANGED <<session, durable, pref, db, mounts, calls, faults, crashes, ghosts>>

\* sync_bootstrap_auth_state.
BootVault ==
    /\ job.pc = "bootvault"
    /\ account' = auth.user
    /\ IF durable THEN SetBootToken(auth.token) ELSE UNCHANGED vaults
    /\ job' = At("bootprofile")
    /\ UNCHANGED <<session, durable, pref, db, mounts, calls, faults, crashes, ghosts>>

BootProfile ==
    /\ job.pc = "bootprofile"
    /\ db' = [account |-> account, pref |-> pref]
    /\ job' = Rest
    /\ UNCHANGED <<session, settings, vaults, mounts, calls, faults, crashes, ghosts>>

\* A read or a write of the boot fails.
BootFails ==
    /\ job.pc \in {"boot", "bootclear", "bootvault", "bootprofile"}
    /\ Fault /\ Reboot
    /\ IF job.pc = "bootvault" /\ durable /\ Backend = "file"
       THEN VaultWriteFails(auth.token) ELSE UNCHANGED file
    /\ UNCHANGED <<db, service, calls, crashes, ghosts>>
-----------------------------------------------------------------------------
Next ==
    \/ BeginLogin \/ TwoFactorCodeSubmission \/ logout \/ fetch_userinfo \/ OtherSave
    \/ \E u \in Users : PasswordSubmission(u) \/ AuthTokenSubmission(u) \/ BootLogin(u)
    \/ RefreshTick \/ mount_filesystem \/ unmount_filesystem \/ SwitchCrypto
    \/ PersistVault \/ PersistProfile \/ restore_vault_state
    \/ \E enabled \in BOOLEAN : set_auth_persistence(enabled)
    \/ SavePreference \/ ApplyPreference \/ RollBackPreference
    \/ Crash \/ BootRestore \/ BootClear \/ BootVault \/ BootProfile \/ BootFails

Spec == Init /\ [][Next]_vars

Owners == Users \cup {None}
Prefs == {"unset", "on", "off"}

\* Type correctness.
TypeOK ==
    /\ auth \in [state : {"LoggedOut", "AwaitingCredentials", "AuthenticatingWithPassword",
                          "AuthenticatingWithToken", "TwoFactorRequired", "Authenticated",
                          "AuthFailed"},
                 user : Owners, token : Owners, challenge : {"none", "token", "empty"},
                 who : Owners, life : BOOLEAN]
    /\ pending \in Owners
    /\ durable \in BOOLEAN /\ pref \in Prefs /\ account \in Owners
    /\ db \in [account : Owners, pref : Prefs]
    /\ {file, service} \subseteq Owners
    /\ mount \in Owners \cup {Null} /\ factory \in Users \cup {Null} /\ crypto \in BOOLEAN
    /\ job \in [pc : {"idle", "vault", "profile", "unvault", "pref", "store", "unpref",
                      "boot", "bootclear", "bootvault", "bootprofile"},
                event : {"-", "LoginSucceeded", "LoginFailed", "LoggedOut",
                         "TwoFactorChallengeIssued"},
                vault : Owners, durable : BOOLEAN, pref : Prefs]
    /\ {calls, faults, crashes} \subseteq Nat
    /\ {signedOut, optedOut} \subseteq BOOLEAN

\* After a logout that was answered with Ok nobody is signed in before the next
\* login, whatever crashes, fails or is restored by a boot in between.
SignedOutStaysOut == signedOut => auth.token = None

\* After an authsave off that was answered with Ok there is no token in the vault
\* file and the next boot will not look for one, until authsave is on again.
OptedOutLeavesNoToken == optedOut => file = None /\ db.pref = "off"

\* set_auth_persistence rolls back: after a single failure the preference on disk
\* is the one in memory, and the flag in force is the one both stand for.
AuthsaveAllOrNothing ==
    job.pc = "idle" /\ faults < 2 => db.pref = pref /\ durable = Flag(pref)

\* The user of the session, whose name goes into the account row, is the owner of
\* the token, through logins that replace a session and logins that fail half-way.
TokenHasItsUser == auth.token # None => auth.user = auth.token
=============================================================================
