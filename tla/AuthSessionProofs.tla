--------------------------- MODULE AuthSessionProofs ---------------------------
(***************************************************************************)
(* The invariants of AuthSession for any users, boots, configuration and   *)
(* bounds; what a logout leaves behind, for the file vault.                *)
(***************************************************************************)
EXTENDS AuthSession, TLAPS

Snapshots ==
    [state : {"LoggedOut", "AwaitingCredentials", "AuthenticatingWithPassword",
              "AuthenticatingWithToken", "TwoFactorRequired", "Authenticated", "AuthFailed"},
     user : Owners, token : Owners, challenge : {"none", "token", "empty"},
     who : Owners, life : BOOLEAN]
Jobs ==
    [pc : {"idle", "vault", "profile", "unvault", "pref", "store", "unpref",
           "boot", "bootclear", "bootvault", "bootprofile"},
     event : {"-", "LoginSucceeded", "LoginFailed", "LoggedOut", "TwoFactorChallengeIssued"},
     vault : Owners, durable : BOOLEAN, pref : Prefs]

States == {"LoggedOut", "AwaitingCredentials", "AuthenticatingWithPassword",
           "AuthenticatingWithToken", "TwoFactorRequired", "Authenticated", "AuthFailed"}
Kinds == {"token", "empty"}

\* A snapshot in which the token and a pending challenge have their owners.
Sound(a) ==
    /\ a \in Snapshots
    /\ a.token # None => a.user = a.token
    /\ a.challenge # "none" => a.who \in Users

\* What SessionManager makes of a sound snapshot is sound, and whether it has a token.
LEMMA SnapshotSteps ==
    /\ Sound(SignedOff) /\ SignedOff.token = None
    /\ Sound(MarkAuthenticationFailed) /\ MarkAuthenticationFailed.token = None
    /\ \A a : Sound(a) =>
         /\ \A s \in States : /\ Sound(Mark(a, s)) /\ Mark(a, s).token = a.token
                              /\ Mark(a, s).who = a.who
                              /\ Sound(StartLogin(a, s)) /\ StartLogin(a, s).token = a.token
         /\ \A u \in Users : /\ Sound(MarkAuthenticated(a, u))
                             /\ MarkAuthenticated(a, u).token = u
         /\ \A k \in Kinds, u \in Users :
              /\ Sound(issue_two_factor_challenge(a, k, u))
              /\ issue_two_factor_challenge(a, k, u).token = a.token
         /\ \A b \in BOOLEAN : /\ Sound([a EXCEPT !.life = b])
                               /\ [a EXCEPT !.life = b].token = a.token
<1>1. /\ Sound(SignedOff) /\ SignedOff.token = None
      /\ Sound(MarkAuthenticationFailed) /\ MarkAuthenticationFailed.token = None
  BY DEF Sound, Snapshots, SignedOff, MarkAuthenticationFailed, Mark, Owners, None
<1>2. ASSUME NEW a, Sound(a), NEW s \in States
      PROVE  /\ Sound(Mark(a, s)) /\ Mark(a, s).token = a.token /\ Mark(a, s).who = a.who
             /\ Sound(StartLogin(a, s)) /\ StartLogin(a, s).token = a.token
  BY <1>2 DEF Sound, Snapshots, States, Mark, StartLogin, Owners, None
<1>3. ASSUME NEW a, Sound(a), NEW u \in Users
      PROVE  Sound(MarkAuthenticated(a, u)) /\ MarkAuthenticated(a, u).token = u
  BY <1>3 DEF Sound, Snapshots, MarkAuthenticated, Owners, None
<1>4. ASSUME NEW a, Sound(a), NEW k \in Kinds, NEW u \in Users
      PROVE  /\ Sound(issue_two_factor_challenge(a, k, u))
             /\ issue_two_factor_challenge(a, k, u).token = a.token
  BY <1>4 DEF Sound, Snapshots, Kinds, issue_two_factor_challenge, Owners, None
<1>5. ASSUME NEW a, Sound(a), NEW b \in BOOLEAN
      PROVE  /\ Sound([a EXCEPT !.life = b]) /\ [a EXCEPT !.life = b].token = a.token
  BY <1>5 DEF Sound, Snapshots, Owners, None
<1>. QED
  BY <1>1, <1>2, <1>3, <1>4, <1>5
-----------------------------------------------------------------------------
\* The outcomes of a request that answers a login, in terms of the token.
Answers ==
    /\ Sound(auth') /\ pending' \in Owners
    /\ \/ job' = job /\ signedOut' = signedOut
       \/ \E event \in {"LoginSucceeded", "LoginFailed", "TwoFactorChallengeIssued"} :
             /\ job' = [At("vault") EXCEPT !.event = event]
             /\ signedOut' = (signedOut /\ event # "LoginSucceeded")
    /\ optedOut' = optedOut
    /\ auth'.token \in {None, auth.token} \/ signedOut' = FALSE

\* A refused request answers nothing.
LEMMA RefuseAnswers ==
    ASSUME NEW a, Sound(a), NEW p \in Owners, a.token \in {None, auth.token}, Refuse(a, p)
    PROVE  Answers
BY DEF Refuse, Answers, ghosts

\* auth_response leaves the vault to be written, with a token only after a login.
LEMMA ResponseAnswers ==
    ASSUME NEW a, Sound(a), NEW p \in Owners,
           NEW event \in {"LoginSucceeded", "LoginFailed", "TwoFactorChallengeIssued"},
           a.token \in {None, auth.token} \/ event = "LoginSucceeded",
           auth_response(a, event, p)
    PROVE  Answers
<1>1. (a.life \/ event = "LoginSucceeded") \in BOOLEAN
  OBVIOUS
<1>2. Sound(auth') /\ auth'.token = a.token
  BY <1>1, SnapshotSteps DEF auth_response
<1>3. pending' \in Owners
  BY DEF auth_response, Owners
<1>. QED
  BY <1>2, <1>3 DEF auth_response, Answers

\* What a login of a user may come to.
LEMMA OutcomeAnswers ==
    ASSUME NEW a, Sound(a), NEW u \in Users, NEW onError \in Owners, NEW p \in Owners,
           a.token \in {None, auth.token}, LoginOutcome(a, u, onError, p)
    PROVE  Answers
<1>1. CASE Refuse(MarkAuthenticationFailed, onError)
  BY <1>1, SnapshotSteps, RefuseAnswers
<1>2. CASE Refuse(a, onError)
  BY <1>2, RefuseAnswers
<1>3. CASE auth_response(MarkAuthenticated(a, u), "LoginSucceeded", p)
  <2>. Sound(MarkAuthenticated(a, u))
    BY SnapshotSteps
  <2>. QED
    BY <1>3, ResponseAnswers
<1>4. ASSUME NEW k \in Kinds,
             auth_response(issue_two_factor_challenge(a, k, u), "TwoFactorChallengeIssued", p)
      PROVE  Answers
  <2>. /\ Sound(issue_two_factor_challenge(a, k, u))
       /\ issue_two_factor_challenge(a, k, u).token = a.token
    BY SnapshotSteps
  <2>. QED
    BY <1>4, ResponseAnswers
<1>. QED
  BY <1>1, <1>2, <1>3, <1>4 DEF LoginOutcome, Kinds

\* The type invariant, with a sound snapshot.
Typed ==
    /\ Sound(auth) /\ pending \in Owners
    /\ durable \in BOOLEAN /\ pref \in Prefs /\ account \in Owners
    /\ db \in [account : Owners, pref : Prefs]
    /\ file \in Owners /\ service \in Owners
    /\ mount \in Owners \cup {Null} /\ factory \in Users \cup {Null} /\ crypto \in BOOLEAN
    /\ job \in Jobs
    /\ calls \in Nat /\ faults \in Nat /\ crashes \in Nat
    /\ signedOut \in BOOLEAN /\ optedOut \in BOOLEAN

LoginRequest ==
    \/ BeginLogin \/ TwoFactorCodeSubmission
    \/ \E u \in Users : PasswordSubmission(u) \/ AuthTokenSubmission(u)

\* A login request changes the session, and nothing durable before its handler goes on.
LEMMA LoginRequestAnswers ==
    ASSUME Typed, LoginRequest
    PROVE  /\ Answers /\ job = Rest /\ calls' = calls + 1
           /\ UNCHANGED <<settings, db, vaults, mounts, faults, crashes>>
<1>1. /\ job = Rest /\ calls' = calls + 1
      /\ UNCHANGED <<settings, db, vaults, mounts, faults, crashes>>
  BY DEF LoginRequest, BeginLogin, TwoFactorCodeSubmission, PasswordSubmission,
         AuthTokenSubmission, Request
<1>. SUFFICES Answers
  BY <1>1
<1>2. Sound(auth) /\ pending \in Owners /\ None \in Owners
  BY DEF Typed, Owners
<1>3. CASE BeginLogin
  <2>1. Sound(Mark(auth, "AwaitingCredentials")) /\ Mark(auth, "AwaitingCredentials").token = auth.token
    BY <1>2, SnapshotSteps DEF States
  <2>. QED
    BY <1>2, <1>3, <2>1, RefuseAnswers DEF BeginLogin
<1>4. ASSUME NEW u \in Users, PasswordSubmission(u)
      PROVE  Answers
  <2>. DEFINE a == StartLogin(auth, "AuthenticatingWithPassword")
  <2>1. Sound(a) /\ a.token = auth.token
    BY <1>2, SnapshotSteps DEF States
  <2>2. u \in Owners
    BY DEF Owners
  <2>3. CASE LoginOutcome(a, u, None, u)
    <3>. HIDE DEF a
    <3>. QED  BY <1>2, <2>1, <2>2, <2>3, OutcomeAnswers
  <2>4. CASE auth_response(MarkAuthenticationFailed, "LoginFailed", u)
    BY <2>2, <2>4, SnapshotSteps, ResponseAnswers
  <2>. QED
    BY <1>4, <2>3, <2>4 DEF PasswordSubmission
<1>5. ASSUME NEW u \in Users, AuthTokenSubmission(u)
      PROVE  Answers
  <2>. DEFINE a == StartLogin(auth, "AuthenticatingWithToken")
  <2>1. Sound(a)
    BY <1>2, SnapshotSteps DEF States
  <2>2. Sound(MarkAuthenticated(a, u))
    <3>. HIDE DEF a
    <3>. QED  BY <2>1, SnapshotSteps
  <2>3. CASE Refuse(MarkAuthenticationFailed, pending)
    BY <1>2, <2>3, SnapshotSteps, RefuseAnswers
  <2>4. CASE auth_response(MarkAuthenticated(a, u), "LoginSucceeded", pending)
    <3>. HIDE DEF a
    <3>. QED  BY <1>2, <2>2, <2>4, ResponseAnswers
  <2>. QED
    BY <1>5, <2>3, <2>4 DEF AuthTokenSubmission, login_with_token
<1>6. CASE TwoFactorCodeSubmission
  <2>. DEFINE a == Mark(auth, "AuthenticatingWithPassword")
  <2>1. Sound(a) /\ a.token = auth.token /\ a.who = auth.who
    BY <1>2, SnapshotSteps DEF States
  <2>2. CASE auth.challenge = "token" /\ submit_two_factor_code(a)
    <3>1. a.who \in Users
      BY <1>2, <2>1, <2>2 DEF Sound
    <3>2. CASE LoginOutcome(a, a.who, pending, pending)
      <4>. HIDE DEF a
      <4>. QED  BY <1>2, <2>1, <3>1, <3>2, OutcomeAnswers
    <3>3. CASE auth_response(a, "LoginFailed", pending)
      <4>. HIDE DEF a
      <4>. QED  BY <1>2, <2>1, <3>3, ResponseAnswers
    <3>. QED
      BY <2>2, <3>2, <3>3 DEF submit_two_factor_code
  <2>3. CASE pending # None /\ submit_two_factor_code_with_password(a)
    <3>1. pending \in Users
      BY <1>2, <2>3 DEF Owners
    <3>2. CASE LoginOutcome(a, pending, pending, pending)
      <4>. HIDE DEF a
      <4>. QED  BY <1>2, <2>1, <3>1, <3>2, OutcomeAnswers
    <3>3. CASE auth_response(MarkAuthenticationFailed, "LoginFailed", pending)
      BY <1>2, <3>3, SnapshotSteps, ResponseAnswers
    <3>. QED
      BY <2>3, <3>2, <3>3 DEF submit_two_factor_code_with_password
  <2>. QED
    BY <1>6, <2>2, <2>3 DEF TwoFactorCodeSubmission
<1>. QED
  BY <1>3, <1>4, <1>5, <1>6 DEF LoginRequest

Pcs == {"idle", "vault", "profile", "unvault", "pref", "store", "unpref",
        "boot", "bootclear", "bootvault", "bootprofile"}

\* The fields of a job that begins.
LEMMA JobBegins ==
    /\ Rest \in Jobs /\ Rest.pc = "idle" /\ Rest.event = "-" /\ Rest.vault = None
    /\ \A pc \in Pcs : At(pc) \in Jobs /\ At(pc).pc = pc /\ At(pc).event = "-" /\ At(pc).vault = None
BY DEF Jobs, Rest, At, Pcs, Owners, Prefs, None

\* A login request leaves the thread at rest or about to write the vault.
LEMMA AnsweredJob ==
    ASSUME Answers, job = Rest, signedOut \in BOOLEAN
    PROVE  /\ job' \in Jobs /\ job'.pc \in {"idle", "vault"}
           /\ job'.event # "LoggedOut" /\ job'.vault = None
           /\ signedOut' \in BOOLEAN /\ (signedOut' => signedOut)
<1>1. CASE job' = job /\ signedOut' = signedOut
  BY <1>1, JobBegins
<1>2. ASSUME NEW event \in {"LoginSucceeded", "LoginFailed", "TwoFactorChallengeIssued"},
             job' = [At("vault") EXCEPT !.event = event],
             signedOut' = (signedOut /\ event # "LoginSucceeded")
      PROVE  /\ job' \in Jobs /\ job'.pc = "vault" /\ job'.event # "LoggedOut" /\ job'.vault = None
             /\ signedOut' \in BOOLEAN /\ (signedOut' => signedOut)
  BY <1>2 DEF At, Rest, Jobs, Owners, Prefs, None
<1>. QED
  BY <1>1, <1>2 DEF Answers

\* A login request in all: the session may change, and what is durable does not.
LEMMA LoginRequestEnds ==
    ASSUME Typed, LoginRequest
    PROVE  /\ Sound(auth') /\ pending' \in Owners
           /\ auth'.token \in {None, auth.token} \/ signedOut' = FALSE
           /\ job = Rest
           /\ job' \in Jobs /\ job'.pc \in {"idle", "vault"}
           /\ job'.event # "LoggedOut" /\ job'.vault = None
           /\ signedOut' \in BOOLEAN /\ (signedOut' => signedOut) /\ optedOut' = optedOut
           /\ calls' = calls + 1
           /\ UNCHANGED <<settings, db, vaults, mounts, faults, crashes>>
<1>1. /\ Answers /\ job = Rest /\ calls' = calls + 1
      /\ UNCHANGED <<settings, db, vaults, mounts, faults, crashes>>
  BY LoginRequestAnswers
<1>2. signedOut \in BOOLEAN
  BY DEF Typed
<1>3. /\ job' \in Jobs /\ job'.pc \in {"idle", "vault"}
      /\ job'.event # "LoggedOut" /\ job'.vault = None
      /\ signedOut' \in BOOLEAN /\ (signedOut' => signedOut)
  BY <1>1, <1>2, AnsweredJob
<1>4. /\ Sound(auth') /\ pending' \in Owners /\ optedOut' = optedOut
      /\ auth'.token \in {None, auth.token} \/ signedOut' = FALSE
  BY <1>1 DEF Answers
<1>. QED
  BY <1>1, <1>3, <1>4

\* The two ways a durable write of a handler may end: the vault is written, or the
\* handler gives up with the vault in either state.
LEMMA PersistVaultEnds ==
    ASSUME Typed, PersistVault
    PROVE  /\ job.pc = "vault"
           /\ \/ /\ faults' = faults /\ file' = sync_auth_vault
                 /\ job' \in Jobs /\ job'.pc = "profile" /\ job'.event = job.event /\ job'.vault = file
              \/ /\ faults' = faults + 1 /\ file' \in {file, sync_auth_vault}
                 /\ sync_auth_vault = None => file' = file
                 /\ job' = Rest
BY DEF Typed, PersistVault, NoFault, Fault, VaultWriteFails, Jobs

\* The account row is written, or the vault is put back.
LEMMA PersistProfileEnds ==
    ASSUME Typed, PersistProfile
    PROVE  /\ job.pc = "profile"
           /\ \/ /\ faults' = faults /\ account' = auth.user /\ job' = Rest
                 /\ db' = [account |-> auth.user, pref |-> pref]
                 /\ signedOut' = (signedOut \/ job.event = "LoggedOut")
              \/ /\ faults' = faults + 1 /\ UNCHANGED <<account, db, signedOut>>
                 /\ job' \in Jobs /\ job'.pc = "unvault" /\ job'.event = "-" /\ job'.vault = job.vault
BY DEF Typed, PersistProfile, NoFault, Fault, Jobs

\* The preference is written, or put back in memory.
LEMMA SavePreferenceEnds ==
    ASSUME Typed, SavePreference
    PROVE  /\ job.pc = "pref"
           /\ \/ /\ faults' = faults /\ db' = [account |-> account, pref |-> pref]
                 /\ UNCHANGED <<durable, pref>>
                 /\ job' \in Jobs /\ job'.pc = "store" /\ job'.event = job.event
                 /\ job'.vault = job.vault /\ job'.durable = job.durable /\ job'.pref = job.pref
              \/ /\ faults' = faults + 1 /\ UNCHANGED db /\ job' = Rest
                 /\ durable' = job.durable /\ pref' = job.pref
BY DEF Typed, SavePreference, NoFault, Fault, PutBack, Jobs

\* The vault follows the preference, or the rollback begins.
LEMMA ApplyPreferenceEnds ==
    ASSUME Typed, ApplyPreference
    PROVE  /\ job.pc = "store"
           /\ \/ /\ faults' = faults /\ file' = sync_auth_vault /\ job' = Rest
                 /\ optedOut' = (optedOut \/ ~durable) /\ UNCHANGED <<durable, pref>>
              \/ /\ faults' = faults + 1 /\ file' \in {file, sync_auth_vault}
                 /\ sync_auth_vault = None => file' = file
                 /\ durable' = job.durable /\ pref' = job.pref /\ UNCHANGED optedOut
                 /\ job' \in Jobs /\ job'.pc = "unpref" /\ job'.event = "-" /\ job'.vault = job.vault
<1>1. job.vault \in Owners
  BY DEF Typed, Jobs
<1>. QED
  BY <1>1 DEF Typed, ApplyPreference, NoFault, Fault, VaultWriteFails, PutBack,
              At, Rest, Jobs, Owners, Prefs, None

\* The rollback goes on whether or not its first write succeeds.
LEMMA RollBackPreferenceEnds ==
    ASSUME Typed, RollBackPreference
    PROVE  /\ job.pc = "unpref"
           /\ job' \in Jobs /\ job'.pc = "unvault" /\ job'.event = job.event /\ job'.vault = job.vault
           /\ \/ faults' = faults /\ db' = [account |-> account, pref |-> pref]
              \/ faults' = faults + 1 /\ UNCHANGED db
BY DEF Typed, RollBackPreference, NoFault, Fault, Jobs

-----------------------------------------------------------------------------
\* The invariant.  After a logout that succeeded no handler carries a token that a
\* rollback could put back; one that succeeds has emptied the vault file.
NothingToRestore ==
    Backend = "file" =>
      /\ signedOut => auth.token = None /\ file = None /\ job.vault = None
      /\ job.event = "LoggedOut" =>
           /\ auth.token = None
           /\ job.pc = "vault" \/ (job.pc = "profile" /\ file = None)

\* After an authsave off every preference there is, the one a rollback would put
\* back included, says off.
OffEverywhere ==
    /\ optedOut =>
         /\ file = None /\ db.pref = "off" /\ pref = "off" /\ durable = FALSE
         /\ job.pc \in {"pref", "store"} => job.pref = "off" /\ job.durable = FALSE
    /\ job.pc \in {"pref", "store"} =>
         \/ pref = "on" /\ durable = TRUE
         \/ pref = "off" /\ durable = FALSE
    /\ job.pc = "store" => db.pref = pref

\* Before the second failure the flag follows the preference, and so does the row
\* but for the two moments in which the handler is about to write it.
OneFaultAway ==
    faults < 2 =>
      /\ durable = Flag(pref)
      /\ job.pc \in {"pref", "store"} => job.durable = Flag(job.pref)
      /\ job.pc = "pref" => db.pref = job.pref
      /\ job.pc = "unpref" => faults = 1
      /\ job.pc \notin {"pref", "unpref"} => db.pref = pref

\* Next and a stuttering step, with the login requests together.
LEMMA NextCases ==
    ASSUME [Next]_vars
    PROVE LoginRequest \/ logout \/ fetch_userinfo \/ OtherSave \/ RefreshTick \/ mount_filesystem
           \/ unmount_filesystem \/ SwitchCrypto \/ PersistVault \/ PersistProfile \/ restore_vault_state
           \/ (\E enabled \in BOOLEAN : set_auth_persistence(enabled)) \/ SavePreference \/ ApplyPreference \/ RollBackPreference \/ Crash
           \/ (\E u \in Users : BootLogin(u)) \/ BootRestore \/ BootClear \/ BootVault \/ BootProfile
           \/ BootFails \/ UNCHANGED vars
BY DEF Next, LoginRequest

\* Every step keeps the types.
LEMMA TypedStep ==
    ASSUME Typed, [Next]_vars
    PROVE  Typed'
<1>a. auth.token \in Owners /\ auth.user \in Owners
  BY DEF Typed, Sound, Snapshots
<1>1. CASE LoginRequest
  <2>1. /\ Sound(auth') /\ pending' \in Owners /\ job' \in Jobs /\ calls' = calls + 1
        /\ signedOut' \in BOOLEAN /\ optedOut' = optedOut
        /\ UNCHANGED <<settings, db, vaults, mounts, faults, crashes>>
    BY <1>1, LoginRequestEnds
  <2>. QED
    BY <2>1 DEF settings, vaults, mounts, Typed
<1>2. CASE logout
  <2>1. Sound(auth') /\ pending' \in Owners
    <3>1. (SignedOff.life \/ "LoggedOut" = "LoginSucceeded") \in BOOLEAN
      OBVIOUS
    <3>. QED
      BY <1>2, <3>1, SnapshotSteps DEF logout, auth_response, Owners
  <2>2. job' \in Jobs
    BY <1>2 DEF logout, auth_response, At, Rest, Jobs, Owners, Prefs, None
  <2>3. signedOut' \in BOOLEAN /\ optedOut' \in BOOLEAN
    BY <1>2 DEF logout, auth_response, Typed
  <2>4. crypto' \in BOOLEAN /\ mount' \in Owners \cup {Null} /\ factory' = factory
    BY <1>2 DEF logout, Owners
  <2>5. calls' = calls + 1 /\ UNCHANGED <<settings, db, vaults, faults, crashes>>
    BY <1>2 DEF logout, Request
  <2>. QED
    BY <2>1, <2>2, <2>3, <2>4, <2>5 DEF settings, vaults, Typed
<1>3. CASE fetch_userinfo
  <2>1. Sound(auth')
    BY <1>3, <1>a DEF fetch_userinfo, Typed, Sound, Snapshots
  <2>2. account' \in Owners /\ db' \in [account : Owners, pref : Prefs] /\ faults' \in Nat
    BY <1>3, <1>a DEF fetch_userinfo, NoFault, Fault, Typed
  <2>. QED
    BY <1>3, <2>1, <2>2 DEF fetch_userinfo, Request, vaults, mounts, ghosts, Typed
<1>4. CASE OtherSave
  BY <1>4, JobBegins
  DEF OtherSave, session, settings, vaults, mounts, ghosts, Typed, Owners, Prefs, None,
      Null, Flag
<1>5. CASE RefreshTick
  BY <1>5, JobBegins, SnapshotSteps
  DEF RefreshTick, settings, vaults, mounts, ghosts, Typed, Owners, Prefs, None, Null,
      Flag
<1>6. CASE mount_filesystem
  BY <1>6, <1>a
  DEF mount_filesystem, Request, try_install_pcloud_shim_factory, session, settings,
      vaults, ghosts, Typed, Owners, Prefs, None, Null, Flag
<1>7. CASE unmount_filesystem
  BY <1>7
  DEF unmount_filesystem, Request, session, settings, vaults, ghosts, Typed, Owners,
      Prefs, None, Null, Flag
<1>8. CASE SwitchCrypto
  BY <1>8
  DEF SwitchCrypto, Request, session, settings, vaults, ghosts, Typed, Owners, Prefs,
      None, Null, Flag
<1>9. CASE PersistVault
  BY <1>9, <1>a, PersistVaultEnds, JobBegins
  DEF PersistVault, sync_auth_vault, session, settings, mounts, ghosts, Typed, Owners,
      Prefs, None, Null, Flag
<1>10. CASE PersistProfile
  <2>1. job' \in Jobs /\ account' \in Owners /\ db' \in [account : Owners, pref : Prefs] /\ faults' \in Nat
    BY <1>10, <1>a, PersistProfileEnds, JobBegins DEF Typed
  <2>2. signedOut' \in BOOLEAN
    BY <1>10, PersistProfileEnds DEF Typed
  <2>. QED
    BY <1>10, <2>1, <2>2 DEF PersistProfile, session, vaults, mounts, Typed
<1>11. CASE restore_vault_state
  BY <1>11, JobBegins
  DEF restore_vault_state, NoFault, Fault, VaultWriteFails, restored_vault, session,
      settings, mounts, ghosts, Jobs, Typed, Owners, Prefs, None, Null, Flag
<1>12. CASE \E enabled \in BOOLEAN : set_auth_persistence(enabled)
  BY <1>12, JobBegins
  DEF set_auth_persistence, Request, session, vaults, mounts, Jobs, Prefs, Typed, Owners,
      None, Null, Flag
<1>13. CASE SavePreference
  BY <1>13, SavePreferenceEnds, JobBegins
  DEF SavePreference, session, vaults, mounts, ghosts, Jobs, Typed, Owners, Prefs, None,
      Null, Flag
<1>14. CASE ApplyPreference
  <2>1. job' \in Jobs /\ file' \in Owners /\ faults' \in Nat /\ pref' \in Prefs
    BY <1>14, <1>a, ApplyPreferenceEnds, JobBegins DEF Typed, sync_auth_vault, Jobs, Owners
  <2>2. durable' \in BOOLEAN /\ optedOut' \in BOOLEAN
    BY <1>14, ApplyPreferenceEnds DEF Typed, Jobs
  <2>. QED
    BY <1>14, <2>1, <2>2 DEF ApplyPreference, session, mounts, Typed
<1>15. CASE RollBackPreference
  BY <1>15, RollBackPreferenceEnds
  DEF RollBackPreference, session, settings, vaults, mounts, ghosts, Typed, Owners,
      Prefs, None, Null, Flag
<1>16. CASE Crash
  <2>1. Sound(auth') /\ job' \in Jobs /\ pref' \in Prefs /\ account' \in Owners
    BY <1>16, SnapshotSteps, JobBegins DEF Crash, Reboot, Typed, Pcs
  <2>2. durable' \in BOOLEAN /\ crypto' \in BOOLEAN
    BY <1>16, AuthAssumption DEF Crash, Reboot, Flag
  <2>. QED
    BY <1>16, <2>1, <2>2 DEF Crash, Reboot, vaults, ghosts, Typed, Owners
<1>17. CASE \E u \in Users : BootLogin(u)
  <2>1. PICK u \in Users : BootLogin(u)
    BY <1>17
  <2>2. PICK a : Sound(a) /\ BootWith(a)
    BY <2>1, SnapshotSteps DEF BootLogin, Typed, Kinds, States
  <2>3. signedOut' \in BOOLEAN
    BY <2>1 DEF BootLogin, Typed
  <2>. QED
    BY <2>2, <2>3, JobBegins DEF BootWith, settings, vaults, mounts, Typed, Pcs
<1>18. CASE BootRestore
  BY <1>18, JobBegins, SnapshotSteps
  DEF BootRestore, BootToken, settings, vaults, mounts, ghosts, Pcs, Typed, Owners,
      Prefs, None, Null, Flag
<1>19. CASE BootClear
  BY <1>19, JobBegins
  DEF BootClear, session, mounts, ghosts, Pcs, Typed, Owners, Prefs, None, Null, Flag
<1>20. CASE BootVault
  BY <1>20, <1>a, JobBegins
  DEF BootVault, SetBootToken, session, vaults, mounts, ghosts, Pcs, Typed, Owners,
      Prefs, None, Null, Flag
<1>21. CASE BootProfile
  BY <1>21, JobBegins
  DEF BootProfile, session, settings, vaults, mounts, ghosts, Pcs, Typed, Owners, Prefs,
      None, Null, Flag
<1>22. CASE BootFails
  <2>1. Sound(auth') /\ job' \in Jobs /\ pref' \in Prefs /\ account' \in Owners
    BY <1>22, SnapshotSteps, JobBegins DEF BootFails, Reboot, Typed, Pcs
  <2>2. durable' \in BOOLEAN /\ crypto' \in BOOLEAN
    BY <1>22, AuthAssumption DEF BootFails, Reboot, Flag
  <2>3. file' \in Owners /\ faults' \in Nat
    BY <1>22, <1>a DEF BootFails, Fault, VaultWriteFails, Typed
  <2>. QED
    BY <1>22, <2>1, <2>2, <2>3 DEF BootFails, Reboot, ghosts, Typed, Owners
<1>23. CASE UNCHANGED vars
  BY <1>23
  DEF vars, session, settings, vaults, mounts, ghosts, Typed, Owners, Prefs, None, Null,
      Flag
<1>. QED
  BY NextCases, <1>1, <1>2, <1>3, <1>4, <1>5, <1>6, <1>7, <1>8, <1>9, <1>10, <1>11,
     <1>12, <1>13, <1>14, <1>15, <1>16, <1>17, <1>18, <1>19, <1>20, <1>21, <1>22, <1>23

\* Every step keeps what a logout has cleared.
LEMMA LogoutStep ==
    ASSUME Typed, NothingToRestore, [Next]_vars
    PROVE  NothingToRestore'
<1>1. CASE LoginRequest
  BY <1>1, LoginRequestEnds, JobBegins, SnapshotSteps
  DEF settings, vaults, mounts, Typed, None, NothingToRestore
<1>2. CASE logout
  BY <1>2, SnapshotSteps
  DEF logout, Request, auth_response, settings, vaults, At, Rest, Jobs, Typed, None,
      NothingToRestore
<1>3. CASE fetch_userinfo
  BY <1>3, JobBegins
  DEF fetch_userinfo, Request, NoFault, Fault, vaults, mounts, ghosts, Typed, None,
      NothingToRestore
<1>4. CASE OtherSave
  BY <1>4, JobBegins
  DEF OtherSave, session, settings, vaults, mounts, ghosts, Typed, None,
      NothingToRestore
<1>5. CASE RefreshTick
  BY <1>5, JobBegins, SnapshotSteps
  DEF RefreshTick, settings, vaults, mounts, ghosts, Typed, None, NothingToRestore
<1>6. CASE mount_filesystem
  BY <1>6
  DEF mount_filesystem, Request, try_install_pcloud_shim_factory, session, settings,
      vaults, ghosts, Typed, None, NothingToRestore
<1>7. CASE unmount_filesystem
  BY <1>7
  DEF unmount_filesystem, Request, session, settings, vaults, ghosts, Typed, None,
      NothingToRestore
<1>8. CASE SwitchCrypto
  BY <1>8
  DEF SwitchCrypto, Request, session, settings, vaults, ghosts, Typed, None,
      NothingToRestore
<1>9. CASE PersistVault
  BY <1>9, PersistVaultEnds, JobBegins
  DEF PersistVault, sync_auth_vault, session, settings, mounts, ghosts, Typed, None,
      NothingToRestore
<1>10. CASE PersistProfile
  BY <1>10, PersistProfileEnds, JobBegins
  DEF PersistProfile, session, vaults, mounts, Typed, None, NothingToRestore
<1>11. CASE restore_vault_state
  BY <1>11, JobBegins
  DEF restore_vault_state, NoFault, Fault, VaultWriteFails, restored_vault, session,
      settings, mounts, ghosts, Jobs, Typed, None, NothingToRestore
<1>12. CASE \E enabled \in BOOLEAN : set_auth_persistence(enabled)
  BY <1>12, JobBegins
  DEF set_auth_persistence, Request, session, vaults, mounts, Jobs, Prefs, Typed, None,
      NothingToRestore
<1>13. CASE SavePreference
  BY <1>13, SavePreferenceEnds, JobBegins
  DEF SavePreference, session, vaults, mounts, ghosts, Jobs, Typed, None,
      NothingToRestore
<1>14. CASE ApplyPreference
  BY <1>14, ApplyPreferenceEnds, JobBegins
  DEF ApplyPreference, sync_auth_vault, session, mounts, Jobs, Typed, None,
      NothingToRestore
<1>15. CASE RollBackPreference
  BY <1>15, RollBackPreferenceEnds
  DEF RollBackPreference, session, settings, vaults, mounts, ghosts, Typed, None,
      NothingToRestore
<1>16. CASE Crash
  BY <1>16, JobBegins, SnapshotSteps
  DEF Crash, Reboot, vaults, ghosts, Pcs, Typed, None, NothingToRestore
<1>17. CASE \E u \in Users : BootLogin(u)
  <2>1. PICK u \in Users : BootLogin(u)
    BY <1>17
  <2>2. PICK a : /\ Sound(a) /\ BootWith(a)
                 /\ signedOut' = FALSE \/ (signedOut' = signedOut /\ a.token \in {None, auth.token})
    <3>1. Sound(auth)
      BY DEF Typed
    <3>2. ASSUME NEW kind \in Kinds, NEW state \in States
          PROVE  /\ Sound(Mark(issue_two_factor_challenge(auth, kind, u), state))
                 /\ Mark(issue_two_factor_challenge(auth, kind, u), state).token = auth.token
      BY <3>1, SnapshotSteps
    <3>3. CASE BootWith(MarkAuthenticated(auth, u)) /\ signedOut' = FALSE
      BY <3>1, <3>3, SnapshotSteps
    <3>4. CASE BootWith(MarkAuthenticationFailed) /\ UNCHANGED signedOut
      BY <3>4, SnapshotSteps
    <3>5. ASSUME NEW kind \in Kinds, NEW state \in States, UNCHANGED signedOut,
                 BootWith(Mark(issue_two_factor_challenge(auth, kind, u), state))
          PROVE  \E a : /\ Sound(a) /\ BootWith(a)
                        /\ signedOut' = FALSE \/ (signedOut' = signedOut /\ a.token \in {None, auth.token})
      BY <3>2, <3>5
    <3>. QED
      BY <2>1, <3>3, <3>4, <3>5 DEF BootLogin, Kinds, States
  <2>. QED
    BY <2>2, JobBegins DEF BootWith, vaults, NothingToRestore, Pcs
<1>18. CASE BootRestore
  BY <1>18, JobBegins, SnapshotSteps
  DEF BootRestore, BootToken, settings, vaults, mounts, ghosts, Pcs, Typed, None,
      NothingToRestore
<1>19. CASE BootClear
  BY <1>19, JobBegins
  DEF BootClear, session, mounts, ghosts, Pcs, Typed, None, NothingToRestore
<1>20. CASE BootVault
  BY <1>20, JobBegins
  DEF BootVault, SetBootToken, session, vaults, mounts, ghosts, Pcs, Typed, None,
      NothingToRestore
<1>21. CASE BootProfile
  BY <1>21, JobBegins
  DEF BootProfile, session, settings, vaults, mounts, ghosts, Pcs, Typed, None,
      NothingToRestore
<1>22. CASE BootFails
  BY <1>22, JobBegins, SnapshotSteps
  DEF BootFails, Fault, Reboot, VaultWriteFails, ghosts, Pcs, Typed, None,
      NothingToRestore
<1>23. CASE UNCHANGED vars
  BY <1>23
  DEF vars, session, settings, vaults, mounts, ghosts, Typed, None, NothingToRestore
<1>. QED
  BY NextCases, <1>1, <1>2, <1>3, <1>4, <1>5, <1>6, <1>7, <1>8, <1>9, <1>10, <1>11,
     <1>12, <1>13, <1>14, <1>15, <1>16, <1>17, <1>18, <1>19, <1>20, <1>21, <1>22, <1>23

\* Every step keeps what an authsave off has cleared.
LEMMA OptOutStep ==
    ASSUME Typed, OffEverywhere, [Next]_vars
    PROVE  OffEverywhere'
<1>1. CASE LoginRequest
  <2>1. /\ UNCHANGED <<optedOut, file, db, pref, durable>>
        /\ job'.pc # "pref" /\ job'.pc # "store"
    BY <1>1, LoginRequestEnds DEF settings, vaults
  <2>. QED
    BY <2>1 DEF OffEverywhere
<1>2. CASE logout
  BY <1>2, SnapshotSteps
  DEF logout, Request, auth_response, settings, vaults, At, Rest, Jobs, Typed, None,
      Flag, OffEverywhere
<1>3. CASE fetch_userinfo
  BY <1>3, JobBegins
  DEF fetch_userinfo, Request, NoFault, Fault, vaults, mounts, ghosts, Typed, None, Flag,
      OffEverywhere
<1>4. CASE OtherSave
  BY <1>4, JobBegins
  DEF OtherSave, session, settings, vaults, mounts, ghosts, Typed, None, Flag,
      OffEverywhere
<1>5. CASE RefreshTick
  BY <1>5, JobBegins, SnapshotSteps
  DEF RefreshTick, settings, vaults, mounts, ghosts, Typed, None, Flag, OffEverywhere
<1>6. CASE mount_filesystem
  BY <1>6
  DEF mount_filesystem, Request, try_install_pcloud_shim_factory, session, settings,
      vaults, ghosts, Typed, None, Flag, OffEverywhere
<1>7. CASE unmount_filesystem
  BY <1>7
  DEF unmount_filesystem, Request, session, settings, vaults, ghosts, Typed, None, Flag,
      OffEverywhere
<1>8. CASE SwitchCrypto
  BY <1>8
  DEF SwitchCrypto, Request, session, settings, vaults, ghosts, Typed, None, Flag,
      OffEverywhere
<1>9. CASE PersistVault
  BY <1>9, PersistVaultEnds, JobBegins
  DEF PersistVault, sync_auth_vault, session, settings, mounts, ghosts, Typed, None,
      Flag, OffEverywhere
<1>10. CASE PersistProfile
  BY <1>10, PersistProfileEnds, JobBegins
  DEF PersistProfile, session, vaults, mounts, Typed, None, Flag, OffEverywhere
<1>11. CASE restore_vault_state
  BY <1>11, JobBegins
  DEF restore_vault_state, NoFault, Fault, VaultWriteFails, restored_vault, session,
      settings, mounts, ghosts, Jobs, Typed, None, Flag, OffEverywhere
<1>12. CASE \E enabled \in BOOLEAN : set_auth_persistence(enabled)
  BY <1>12, JobBegins
  DEF set_auth_persistence, Request, session, vaults, mounts, Jobs, Prefs, Typed, None,
      Flag, OffEverywhere
<1>13. CASE SavePreference
  BY <1>13, SavePreferenceEnds, JobBegins
  DEF SavePreference, session, vaults, mounts, ghosts, Jobs, Typed, None, Flag,
      OffEverywhere
<1>14. CASE ApplyPreference
  BY <1>14, ApplyPreferenceEnds, JobBegins
  DEF ApplyPreference, sync_auth_vault, session, mounts, Jobs, Typed, None, Flag,
      OffEverywhere
<1>15. CASE RollBackPreference
  BY <1>15, RollBackPreferenceEnds
  DEF RollBackPreference, session, settings, vaults, mounts, ghosts, Typed, None, Flag,
      OffEverywhere
<1>16. CASE Crash
  BY <1>16, JobBegins, SnapshotSteps
  DEF Crash, Reboot, vaults, ghosts, Pcs, Typed, None, Flag, OffEverywhere
<1>17. CASE \E u \in Users : BootLogin(u)
  BY <1>17, JobBegins, SnapshotSteps
  DEF BootLogin, BootWith, settings, vaults, mounts, Pcs, Typed, None, Flag,
      OffEverywhere
<1>18. CASE BootRestore
  BY <1>18, JobBegins, SnapshotSteps
  DEF BootRestore, BootToken, settings, vaults, mounts, ghosts, Pcs, Typed, None, Flag,
      OffEverywhere
<1>19. CASE BootClear
  BY <1>19, JobBegins
  DEF BootClear, session, mounts, ghosts, Pcs, Typed, None, Flag, OffEverywhere
<1>20. CASE BootVault
  BY <1>20, JobBegins
  DEF BootVault, SetBootToken, session, vaults, mounts, ghosts, Pcs, Typed, None, Flag,
      OffEverywhere
<1>21. CASE BootProfile
  BY <1>21, JobBegins
  DEF BootProfile, session, settings, vaults, mounts, ghosts, Pcs, Typed, None, Flag,
      OffEverywhere
<1>22. CASE BootFails
  BY <1>22, JobBegins, SnapshotSteps
  DEF BootFails, Fault, Reboot, VaultWriteFails, ghosts, Pcs, Typed, None, Flag,
      OffEverywhere
<1>23. CASE UNCHANGED vars
  BY <1>23
  DEF vars, session, settings, vaults, mounts, ghosts, Typed, None, Flag, OffEverywhere
<1>. QED
  BY NextCases, <1>1, <1>2, <1>3, <1>4, <1>5, <1>6, <1>7, <1>8, <1>9, <1>10, <1>11,
     <1>12, <1>13, <1>14, <1>15, <1>16, <1>17, <1>18, <1>19, <1>20, <1>21, <1>22, <1>23

\* Every step keeps the preference in step, up to the second failure.
LEMMA SaveStep ==
    ASSUME Typed, OneFaultAway, [Next]_vars
    PROVE  OneFaultAway'
<1>1. CASE LoginRequest
  BY <1>1, LoginRequestEnds, JobBegins, SnapshotSteps
  DEF settings, vaults, mounts, Typed, Prefs, Flag, OneFaultAway
<1>2. CASE logout
  BY <1>2, SnapshotSteps
  DEF logout, Request, auth_response, settings, vaults, At, Rest, Jobs, Typed, Prefs,
      Flag, OneFaultAway
<1>3. CASE fetch_userinfo
  BY <1>3, JobBegins
  DEF fetch_userinfo, Request, NoFault, Fault, vaults, mounts, ghosts, Typed, Prefs,
      Flag, OneFaultAway
<1>4. CASE OtherSave
  BY <1>4, JobBegins
  DEF OtherSave, session, settings, vaults, mounts, ghosts, Typed, Prefs, Flag,
      OneFaultAway
<1>5. CASE RefreshTick
  BY <1>5, JobBegins, SnapshotSteps
  DEF RefreshTick, settings, vaults, mounts, ghosts, Typed, Prefs, Flag, OneFaultAway
<1>6. CASE mount_filesystem
  BY <1>6
  DEF mount_filesystem, Request, try_install_pcloud_shim_factory, session, settings,
      vaults, ghosts, Typed, Prefs, Flag, OneFaultAway
<1>7. CASE unmount_filesystem
  BY <1>7
  DEF unmount_filesystem, Request, session, settings, vaults, ghosts, Typed, Prefs, Flag,
      OneFaultAway
<1>8. CASE SwitchCrypto
  BY <1>8
  DEF SwitchCrypto, Request, session, settings, vaults, ghosts, Typed, Prefs, Flag,
      OneFaultAway
<1>9. CASE PersistVault
  BY <1>9, PersistVaultEnds, JobBegins
  DEF PersistVault, sync_auth_vault, session, settings, mounts, ghosts, Typed, Prefs,
      Flag, OneFaultAway
<1>10. CASE PersistProfile
  BY <1>10, PersistProfileEnds, JobBegins
  DEF PersistProfile, session, vaults, mounts, Typed, Prefs, Flag, OneFaultAway
<1>11. CASE restore_vault_state
  BY <1>11, JobBegins
  DEF restore_vault_state, NoFault, Fault, VaultWriteFails, restored_vault, session,
      settings, mounts, ghosts, Jobs, Typed, Prefs, Flag, OneFaultAway
<1>12. CASE \E enabled \in BOOLEAN : set_auth_persistence(enabled)
  BY <1>12, JobBegins
  DEF set_auth_persistence, Request, session, vaults, mounts, Jobs, Prefs, Typed, Flag,
      OneFaultAway
<1>13. CASE SavePreference
  BY <1>13, SavePreferenceEnds, JobBegins
  DEF SavePreference, session, vaults, mounts, ghosts, Jobs, Typed, Prefs, Flag,
      OneFaultAway
<1>14. CASE ApplyPreference
  BY <1>14, ApplyPreferenceEnds, JobBegins
  DEF ApplyPreference, sync_auth_vault, session, mounts, Jobs, Typed, Prefs, Flag,
      OneFaultAway
<1>15. CASE RollBackPreference
  BY <1>15, RollBackPreferenceEnds
  DEF RollBackPreference, session, settings, vaults, mounts, ghosts, Typed, Prefs, Flag,
      OneFaultAway
<1>16. CASE Crash
  BY <1>16, JobBegins, SnapshotSteps
  DEF Crash, Reboot, vaults, ghosts, Pcs, Typed, Prefs, Flag, OneFaultAway
<1>17. CASE \E u \in Users : BootLogin(u)
  BY <1>17, JobBegins, SnapshotSteps
  DEF BootLogin, BootWith, settings, vaults, mounts, Pcs, Typed, Prefs, Flag,
      OneFaultAway
<1>18. CASE BootRestore
  BY <1>18, JobBegins, SnapshotSteps
  DEF BootRestore, BootToken, settings, vaults, mounts, ghosts, Pcs, Typed, Prefs, Flag,
      OneFaultAway
<1>19. CASE BootClear
  BY <1>19, JobBegins
  DEF BootClear, session, mounts, ghosts, Pcs, Typed, Prefs, Flag, OneFaultAway
<1>20. CASE BootVault
  BY <1>20, JobBegins
  DEF BootVault, SetBootToken, session, vaults, mounts, ghosts, Pcs, Typed, Prefs, Flag,
      OneFaultAway
<1>21. CASE BootProfile
  BY <1>21, JobBegins
  DEF BootProfile, session, settings, vaults, mounts, ghosts, Pcs, Typed, Prefs, Flag,
      OneFaultAway
<1>22. CASE BootFails
  BY <1>22, JobBegins, SnapshotSteps
  DEF BootFails, Fault, Reboot, VaultWriteFails, ghosts, Pcs, Typed, Prefs, Flag,
      OneFaultAway
<1>23. CASE UNCHANGED vars
  BY <1>23
  DEF vars, session, settings, vaults, mounts, ghosts, Typed, Prefs, Flag, OneFaultAway
<1>. QED
  BY NextCases, <1>1, <1>2, <1>3, <1>4, <1>5, <1>6, <1>7, <1>8, <1>9, <1>10, <1>11,
     <1>12, <1>13, <1>14, <1>15, <1>16, <1>17, <1>18, <1>19, <1>20, <1>21, <1>22, <1>23
-----------------------------------------------------------------------------
Inv == Typed /\ NothingToRestore /\ OffEverywhere /\ OneFaultAway

\* The three facts of the induction.
LEMMA InvHolds == Spec => []Inv
<1>1. Init => Inv
  <2>. SUFFICES ASSUME Init PROVE Inv
    OBVIOUS
  <2>1. job \in Jobs /\ job.pc = "boot" /\ job.event = "-" /\ job.vault = None
    BY JobBegins DEF Init, Pcs
  <2>2. Typed
    BY <2>1, AuthAssumption, SnapshotSteps DEF Init, Typed, Owners, Prefs, None, Null
  <2>3. NothingToRestore /\ OffEverywhere
    BY <2>1 DEF Init, NothingToRestore, OffEverywhere
  <2>4. OneFaultAway
    BY <2>1, AuthAssumption DEF Init, OneFaultAway, Flag
  <2>. QED
    BY <2>2, <2>3, <2>4 DEF Inv
<1>2. Inv /\ [Next]_vars => Inv'
  BY TypedStep, LogoutStep, OptOutStep, SaveStep DEF Inv
<1>. QED
  BY <1>1, <1>2, PTL DEF Spec

\* Type correctness, for any users and bounds.
THEOREM AuthTypeOK == Spec => []TypeOK
<1>1. Inv => TypeOK
  BY DEF Inv, Typed, Sound, Snapshots, Jobs, TypeOK
<1>. QED
  BY <1>1, InvHolds, PTL

\* Whatever login replaces which session, and wherever it stops, the user of the
\* session is the owner of its token.
THEOREM TokenOwner == Spec => []TokenHasItsUser
<1>1. Inv => TokenHasItsUser
  BY DEF Inv, Typed, Sound, TokenHasItsUser
<1>. QED
  BY <1>1, InvHolds, PTL

\* With the file vault a logout that was answered with Ok holds through any number
\* of crashes, failed writes and boots, until somebody signs in.
THEOREM LogoutHolds ==
    ASSUME Backend = "file"
    PROVE  Spec => []SignedOutStaysOut
<1>1. Inv => SignedOutStaysOut
  BY DEF Inv, NothingToRestore, SignedOutStaysOut
<1>. QED
  BY <1>1, InvHolds, PTL

\* With any vault an authsave off leaves no token in the file and no preference, in
\* memory, on disk or in a rollback, that would bring one back.
THEOREM OptOutHolds == Spec => []OptedOutLeavesNoToken
<1>1. Inv => OptedOutLeavesNoToken
  BY DEF Inv, OffEverywhere, OptedOutLeavesNoToken
<1>. QED
  BY <1>1, InvHolds, PTL

\* Up to the second failure set_auth_persistence changes memory and disk together.
THEOREM AuthsaveRollsBack == Spec => []AuthsaveAllOrNothing
<1>1. Inv => AuthsaveAllOrNothing
  BY DEF Inv, OneFaultAway, AuthsaveAllOrNothing
<1>. QED
  BY <1>1, InvHolds, PTL
=============================================================================
