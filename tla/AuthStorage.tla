----------------------------- MODULE AuthStorage -----------------------------
(***************************************************************************)
(* Credentials shared by processes                                         *)
(* (packages/coding-agent/src/core/auth-storage.ts).                       *)
(*                                                                         *)
(* Every process keeps the credentials in memory and changes auth.json     *)
(* under a lock.  set, remove and reload are synchronous and give up after *)
(* ten tries; refreshing an expired OAuth token holds the lock across a    *)
(* request to the provider, which exchanges the refresh token for a new    *)
(* one.  A lock that looks stale to another process is taken away from its *)
(* holder, who learns of it some time later.                               *)
(*                                                                         *)
(* Abstractions.  An OAuth credential is the number of its token, access   *)
(* and refresh token in one.  The keys of the command line, of the         *)
(* environment and of models.json are what a call falls back to.  The      *)
(* provider and the lock library are external.                             *)
(***************************************************************************)
EXTENDS Naturals

CONSTANTS
    Processes,   \* processes with an AuthStorage
    Calls,       \* calls of getApiKey, each made once
    ProcessOf,   \* call |-> the process that makes it
    Providers,   \* providers with credentials
    OAuth,       \* the provider whose tokens are refreshed; the others have API keys
    MaxToken,    \* bound: tokens the OAuth provider issues
    MaxChanges,  \* bound: set, login and remove together
    AuthFaults,  \* which faults happen: "break", "kill", "network", "write"
    MaxAuthFaults \* bound: faults together

Free == "free"
Gone == "gone"      \* a lock whose holder was killed

ASSUME AuthAssumption ==
    /\ ProcessOf \in [Calls -> Processes] /\ OAuth \in Providers
    /\ {Free, Gone} \cap Calls = {}
    /\ MaxToken \in Nat \ {0} /\ MaxChanges \in Nat /\ MaxAuthFaults \in Nat
    /\ AuthFaults \subseteq {"break", "kill", "network", "write"}

Tokens == 1 .. MaxToken
Cred   == [kind: {"none", "api_key"}, token: {0}] \cup [kind: {"oauth"}, token: Tokens]
None   == [kind |-> "none", token |-> 0]
ApiKey == [kind |-> "api_key", token |-> 0]
Token(t) == [kind |-> "oauth", token |-> t]
Creds  == [Providers -> Cred]

VARIABLES
    authFile,    \* the credentials in auth.json
    readable,    \* whether auth.json parses
    authLock,    \* the call that holds the lock of auth.json
    data,        \* process -> its credentials in memory
    failedLoad,  \* processes whose last load failed (loadError)
    running,     \* processes that run
    pc,          \* call -> where it is
    base,        \* call -> the credentials it read under the lock
    answer,      \* call -> the credential the provider answered with
    flagged,     \* calls that were told that their lock is compromised
    live,        \* external: the refresh tokens the provider accepts
    issued,      \* external: the last token the provider issued
    expired,     \* external: tokens up to this one have expired
    changes, authFaults,  \* bounds: changes and faults so far
    broken,      \* history: a lock was taken away from a running call
    rejected     \* history: a refresh token was used that the provider did not accept

authVars == <<authFile, readable, authLock, data, failedLoad, running, pc, base, answer, flagged,
              live, issued, expired, changes, authFaults, broken, rejected>>

Provider == <<live, issued, expired, rejected>>
Stages == {"idle", "waiting", "requesting", "answered", "failed", "returned", "killed"}

AuthTypeOK ==
    /\ authFile \in Creds /\ readable \in BOOLEAN /\ authLock \in Calls \cup {Free, Gone}
    /\ data \in [Processes -> Creds]
    /\ failedLoad \subseteq Processes /\ running \subseteq Processes
    /\ pc \in [Calls -> Stages] /\ base \in [Calls -> Creds] /\ answer \in [Calls -> Cred]
    /\ flagged \subseteq Calls /\ live \subseteq Tokens
    /\ issued \in Tokens /\ expired \in 0 .. MaxToken
    /\ changes \in Nat /\ authFaults \in Nat /\ broken \in BOOLEAN /\ rejected \in BOOLEAN

(* Every process has loaded the file, which may not have parsed.           *)
AuthInit ==
    /\ readable \in BOOLEAN
    /\ authFile = [p \in Providers |-> IF p = OAuth /\ readable THEN Token(1) ELSE None]
    /\ authLock = Free
    /\ data = [m \in Processes |-> authFile]
    /\ failedLoad = (IF readable THEN {} ELSE Processes) /\ running = Processes
    /\ pc = [c \in Calls |-> "idle"]
    /\ base = [c \in Calls |-> [p \in Providers |-> None]]
    /\ answer = [c \in Calls |-> None]
    /\ flagged = {}
    /\ live = {1} /\ issued = 1 /\ expired \in {0, 1}
    /\ changes = 0 /\ authFaults = 0
    /\ broken = FALSE /\ rejected = FALSE

Expired(cred) == cred.token <= expired
Fault(f) == f \in AuthFaults /\ authFaults < MaxAuthFaults /\ authFaults' = authFaults + 1

(* A write that throws or is cut short has not begun, or has truncated the *)
(* file, which then does not parse, or is empty and parses as nothing.     *)
WriteTorn ==
    \/ UNCHANGED <<authFile, readable>>
    \/ readable' = FALSE /\ UNCHANGED authFile
    \/ readable' = TRUE /\ authFile' = [p \in Providers |-> None]

-----------------------------------------------------------------------------
(* Synchronous operations: withLock succeeds when the lock is free within  *)
(* ten tries and the file parses, and fails otherwise.                     *)

(* Mutant of SyncLocked: the file is changed without waiting for the lock. *)
SyncUnlocked == readable

SyncLocked == authLock = Free /\ readable

(* persistProviderChange: not written when the last load failed or when    *)
(* withLock fails; only this provider's credential.                        *)
MayPersist(m) == m \notin failedLoad /\ SyncLocked

Persist(m, p, cred) ==
    \/ /\ authFile' = IF MayPersist(m) THEN [authFile EXCEPT ![p] = cred] ELSE authFile
       /\ UNCHANGED <<readable, authFaults>>
    \/ MayPersist(m) /\ Fault("write") /\ WriteTorn

(* set and remove: in memory always, in the file if they can. *)
Change(m, p, cred) ==
    /\ m \in running
    /\ changes < MaxChanges /\ changes' = changes + 1
    /\ data' = [data EXCEPT ![m][p] = cred]
    /\ Persist(m, p, cred)
    /\ UNCHANGED <<authLock, failedLoad, running, pc, base, answer, flagged,
                   expired, broken, rejected>>

SetKey(m, p) == p # OAuth /\ Change(m, p, ApiKey) /\ UNCHANGED <<live, issued>>
Remove(m, p) == Change(m, p, None) /\ UNCHANGED <<live, issued>>

(* login: the provider starts another session, with a token of its own. *)
Login(m) ==
    /\ issued < MaxToken
    /\ issued' = issued + 1
    /\ live' = live \cup {issued'}
    /\ Change(m, OAuth, Token(issued'))

(* reload: a load that fails keeps the credentials in memory. *)
ReloadCredentials(m) ==
    IF SyncLocked
      THEN data' = [data EXCEPT ![m] = authFile] /\ failedLoad' = failedLoad \ {m}
      ELSE failedLoad' = failedLoad \cup {m} /\ UNCHANGED data

Reloads(m) ==
    /\ m \in running
    /\ changes < MaxChanges /\ changes' = changes + 1
    /\ ReloadCredentials(m)
    /\ UNCHANGED <<authFile, readable, authLock, running, pc, base, answer, flagged,
                   authFaults, broken, Provider>>

-----------------------------------------------------------------------------
(* getApiKey, and the refresh it makes under the asynchronous lock. *)

To(c, stage) == pc' = [pc EXCEPT ![c] = stage]
At(c, stage) == pc[c] = stage /\ ProcessOf[c] \in running

(* Only a holder that still has the lock gives it back. *)
Released(c) == authLock' = IF authLock = c THEN Free ELSE authLock

(* A key, or a token that has not expired, is returned at once, and        *)
(* without a credential the call falls back on the environment.            *)
GetApiKey(c) ==
    LET cred == data[ProcessOf[c]][OAuth] IN
    /\ At(c, "idle")
    /\ To(c, IF cred.kind = "oauth" /\ Expired(cred) THEN "waiting" ELSE "returned")
    /\ UNCHANGED <<authFile, readable, authLock, data, failedLoad, running, base, answer,
                   flagged, changes, authFaults, broken, Provider>>

(* Mutant of ReadUnderLock: the credentials in memory are refreshed. *)
ReadInMemory(c) == data[ProcessOf[c]]

(* The credentials a refresh starts from: another process may have         *)
(* refreshed or removed them since this one loaded them.                   *)
ReadUnderLock(c) == authFile

(* The lock is free: the file is read again, and a token that has expired  *)
(* there too is sent to the provider while the lock is held.               *)
Locked(c) ==
    LET m    == ProcessOf[c]
        cred == ReadUnderLock(c)[OAuth]
        refresh == readable /\ cred.kind = "oauth" /\ Expired(cred)
    IN
    /\ At(c, "waiting")
    /\ authLock = Free
    /\ authLock' = IF refresh THEN c ELSE Free
    /\ base' = IF refresh THEN [base EXCEPT ![c] = ReadUnderLock(c)] ELSE base
    /\ To(c, IF ~readable THEN "failed" ELSE IF refresh THEN "requesting" ELSE "returned")
    /\ data' = IF readable THEN [data EXCEPT ![m] = ReadUnderLock(c)] ELSE data
    /\ failedLoad' = IF readable THEN failedLoad \ {m} ELSE failedLoad
    /\ UNCHANGED <<authFile, readable, running, answer, flagged, changes, authFaults,
                   broken, Provider>>

(* The lock was not free for any of the retries. *)
NotLocked(c) ==
    /\ At(c, "waiting")
    /\ authLock # Free
    /\ To(c, "failed")
    /\ UNCHANGED <<authFile, readable, authLock, data, failedLoad, running, base, answer,
                   flagged, changes, authFaults, broken, Provider>>

(* The provider exchanges a token it knows for a new one; the answer, or   *)
(* the request, may be lost.                                               *)
ProviderAnswers(c) ==
    LET t == base[c][OAuth].token IN
    /\ At(c, "requesting")
    /\ \/ /\ t \in live /\ issued < MaxToken
          /\ issued' = issued + 1
          /\ live' = (live \ {t}) \cup {issued'}
          /\ \/ /\ answer' = [answer EXCEPT ![c] = Token(issued')]
                /\ To(c, "answered")
                /\ UNCHANGED <<authLock, authFaults>>
             \/ Fault("network") /\ To(c, "failed") /\ Released(c) /\ UNCHANGED answer
          /\ UNCHANGED rejected
       \/ /\ t \notin live
          /\ rejected' = TRUE
          /\ To(c, "failed") /\ Released(c)
          /\ UNCHANGED <<issued, live, answer, authFaults>>
       \/ /\ Fault("network") /\ To(c, "failed") /\ Released(c)
          /\ UNCHANGED <<issued, live, answer, rejected>>
    /\ UNCHANGED <<authFile, readable, data, failedLoad, running, base, flagged, expired,
                   changes, broken>>

Refreshed(c) == [base[c] EXCEPT ![OAuth] = answer[c]]

(* Mutant of Save: the new token is kept in memory only. *)
SaveNothing(c) == To(c, "returned") /\ UNCHANGED <<authFile, readable, authFaults>>

(* The file is written unless the holder has learned that it lost the      *)
(* lock.                                                                   *)
Save(c) ==
    \/ c \in flagged /\ To(c, "failed") /\ UNCHANGED <<authFile, readable, authFaults>>
    \/ /\ c \notin flagged /\ To(c, "returned")
       /\ authFile' = Refreshed(c) /\ readable' = TRUE /\ UNCHANGED authFaults
    \/ c \notin flagged /\ Fault("write") /\ To(c, "failed") /\ WriteTorn

(* The answer has come: it is taken over in memory before anything else. *)
Finish(c) ==
    /\ At(c, "answered")
    /\ data' = [data EXCEPT ![ProcessOf[c]] = Refreshed(c)]
    /\ failedLoad' = failedLoad \ {ProcessOf[c]}
    /\ Save(c)
    /\ Released(c)
    /\ UNCHANGED <<running, base, answer, flagged, changes, broken, Provider>>

(* The catch of getApiKey: it reloads, and returns the token of a process  *)
(* that was faster, or nothing.                                            *)
Recover(c) ==
    /\ At(c, "failed")
    /\ ReloadCredentials(ProcessOf[c])
    /\ To(c, "returned")
    /\ UNCHANGED <<authFile, readable, authLock, running, base, answer, flagged, changes,
                   authFaults, broken, Provider>>

-----------------------------------------------------------------------------
(* Time and faults. *)

(* All tokens issued so far expire. *)
TokensExpire ==
    /\ expired < issued
    /\ expired' = issued
    /\ UNCHANGED <<authFile, readable, authLock, data, failedLoad, running, pc, base, answer,
                   flagged, live, issued, changes, authFaults, broken, rejected>>

(* Another process finds the lock stale and takes it away: a synchronous   *)
(* one after 10 seconds, while the holder renews it every 15, and any one  *)
(* after 30 seconds of a suspended holder.                                 *)
LockTakenAway(c) ==
    /\ authLock = c /\ ProcessOf[c] \in running
    /\ Fault("break")
    /\ authLock' = Free /\ broken' = TRUE
    /\ UNCHANGED <<authFile, readable, data, failedLoad, running, pc, base, answer, flagged,
                   changes, Provider>>

(* onCompromised: the holder learns of it when it renews the lock. *)
OnCompromised(c) ==
    /\ pc[c] \in {"requesting", "answered"} /\ authLock # c
    /\ ProcessOf[c] \in running /\ c \notin flagged
    /\ flagged' = flagged \cup {c}
    /\ UNCHANGED <<authFile, readable, authLock, data, failedLoad, running, pc, base, answer,
                   changes, authFaults, broken, Provider>>

(* A process is killed, maybe while a refresh, or set or remove, writes    *)
(* the file.                                                               *)
KillProcess(m) ==
    LET mine == {c \in Calls : ProcessOf[c] = m} IN
    /\ m \in running /\ Fault("kill")
    /\ running' = running \ {m}
    /\ pc' = [c \in Calls |-> IF c \in mine THEN "killed" ELSE pc[c]]
    /\ \/ /\ authLock' = IF authLock \in mine THEN Gone ELSE authLock
          /\ \/ UNCHANGED <<authFile, readable>>
             \/ (\E c \in mine : pc[c] = "answered" /\ c \notin flagged) /\ WriteTorn
       \/ MayPersist(m) /\ authLock' = Gone /\ WriteTorn
    /\ UNCHANGED <<data, failedLoad, base, answer, flagged, changes, broken, Provider>>

LockGoesStale ==
    /\ authLock = Gone
    /\ authLock' = Free
    /\ UNCHANGED <<authFile, readable, data, failedLoad, running, pc, base, answer, flagged,
                   changes, authFaults, broken, Provider>>

CallStep(c) ==
    \/ Locked(c) \/ NotLocked(c) \/ ProviderAnswers(c) \/ Finish(c) \/ Recover(c)

AuthNext ==
    \/ \E m \in Processes :
          \/ Login(m) \/ Reloads(m) \/ KillProcess(m)
          \/ \E p \in Providers : SetKey(m, p) \/ Remove(m, p)
    \/ \E c \in Calls : GetApiKey(c) \/ CallStep(c) \/ LockTakenAway(c) \/ OnCompromised(c)
    \/ TokensExpire \/ LockGoesStale

AuthSpec == AuthInit /\ [][AuthNext]_authVars

-----------------------------------------------------------------------------
(* However many processes and calls find the token expired, its refresh    *)
(* token is used once: the provider rejects none, unless a lock was taken  *)
(* away, a process killed, or an answer or a write lost.                   *)
NeverRejected == rejected => authFaults > 0

(* Without such a fault, the token in the file is one the provider still   *)
(* accepts whenever no refresh is between its request and its write.       *)
StoredTokenAccepted ==
    (authFaults = 0 /\ authLock = Free /\ authFile[OAuth].kind = "oauth")
        => authFile[OAuth].token \in live

(* A refresh that ends drops nothing that is in the file, although it      *)
(* writes back what it read before it waited for the provider: only its    *)
(* own provider's credential changes, and the process has in memory what   *)
(* is in the file.  (A set or remove of another provider's credential that *)
(* came meanwhile did not get the lock: it was in memory only, and is      *)
(* dropped there.)  Refreshes after a lock was taken away are left out.    *)
KeepsOthers(c) ==
    \A p \in Providers \ {OAuth} :
        authFile'[p] = authFile[p] /\ data'[ProcessOf[c]][p] = authFile[p]

OthersKept ==
    [][\A c \in Calls : pc[c] = "answered" /\ pc'[c] = "returned" =>
          broken \/ KeepsOthers(c)]_authVars
=============================================================================
