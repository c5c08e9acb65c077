---------------------------- MODULE Connections ----------------------------
(***************************************************************************)
(* The connectors of a workspace: consents given at Google or GitHub, the  *)
(* sealed grants they leave, and the workers that renew those grants while *)
(* people reconnect and disconnect.                                        *)
(*                                                                         *)
(* Source: api/app/services/connectors.py, connector_secrets.py,           *)
(* github_connector.py, tenant_credentials.py; worker/app/connectors/      *)
(* runtime.py and grant_check.py.                                          *)
(*                                                                         *)
(* A request is one step, except across a call to Google: the callback has *)
(* loaded its connector before that call, and writes at its commit only    *)
(* the columns whose value differs from what it loaded.  A worker loads a  *)
(* grant, calls Google, and stores what it got in a second transaction.    *)
(* connector_secret_active_idx keeps one unrevoked secret for a connector, *)
(* so vault[c] names the grant in it; a secret is known by the consent it  *)
(* came from, its own renewals included.                                   *)
(***************************************************************************)
EXTENDS Integers, FiniteSets

CONSTANTS
    Google,      \* Search Console and Analytics connectors of verified sites
    Token,       \* DNS provider connectors
    Repo,        \* GitHub connectors
    Property,    \* what a Google account may see, and a connector may read
    Consent,     \* rows of connector_oauth_state that may come to exist
    Admin,       \* owners and admins
    Renewer,     \* syncs and grant checks at work
    MaxClients,  \* bound: OAuth clients a workspace stores one after another
    MaxBounces,  \* MAX_SIGN_IN_BOUNCES
    None         \* SQL NULL

ASSUME ConnectionAssumption ==
    /\ MaxClients \in Nat \ {0} /\ MaxBounces \in Nat
    /\ None \notin Property \cup Consent \cup Google \cup Token \cup Repo \cup {"token"}
    /\ Google \cap Token = {} /\ Google \cap Repo = {} /\ Token \cap Repo = {}

VARIABLES
    connector,  \* [Connector -> row]
    vault,      \* [Connector -> the grant in its unrevoked secret, or None]
    client,     \* the workspace's OAuth client, counted as it is replaced
    consent,    \* [Consent -> row of connector_oauth_state]
    callback,   \* [Consent -> what the callback that locked it has loaded]
    renewer     \* [Renewer -> the grant it loaded]

vars == <<connector, vault, client, consent, callback, renewer>>

Connector == Google \cup Token \cup Repo
Status == {"none", "pending_authorization", "active", "reauthorization_required", "revoked"}
Grant == Consent \cup {"token"}
Row == [status : Status, ref : BOOLEAN, account : Property \cup {None},
        provider : {"none", "github_app", "github_pat"}]
State == [kind : {"none", "property", "workspace", "sign_in", "choice"},
          of : Connector \cup {None}, asks : Property \cup {None}, by : Admin \cup {None},
          sees : SUBSET Property, client : 1..MaxClients, bounces : 0..MaxBounces,
          consumed : BOOLEAN, expired : BOOLEAN]
Unused == [kind |-> "none", of |-> None, asks |-> None, by |-> None, sees |-> {}, client |-> 1,
           bounces |-> 0, consumed |-> FALSE, expired |-> FALSE]
Away == [pc |-> "away", status |-> "none", account |-> None]
Idle == [pc |-> "idle", of |-> None, grant |-> "token"]

Init ==
    /\ connector = [c \in Connector |-> [status |-> "none", ref |-> FALSE, account |-> None,
                                         provider |-> "none"]]
    /\ vault = [c \in Connector |-> None]
    /\ client = 1
    /\ consent = [s \in Consent |-> Unused]
    /\ callback = [s \in Consent |-> Away]
    /\ renewer = [r \in Renewer |-> Idle]

\* begin_*: the connector the state row hangs from exists.
Upserted(c) == IF connector[c].status = "none"
               THEN [connector EXCEPT ![c].status = "pending_authorization"] ELSE connector

\* A state is redeemed once, in time, and under the lock of its row.
Redeemable(s) == consent[s].kind # "none" /\ ~consent[s].consumed /\ ~consent[s].expired

-----------------------------------------------------------------------------
(* Consents at Google.                                                     *)

\* TenantCredentialStore.put: the old client is revoked, connectors are not told.
ReplaceClient ==
    /\ client < MaxClients /\ client' = client + 1
    /\ UNCHANGED <<connector, vault, consent, callback, renewer>>

\* begin_gsc_authorization, begin_analytics_authorization: an active connector
\* is taken out of use at once.
BeginProperty(s, c) ==
    /\ consent[s].kind = "none"
    /\ \E p \in Property :
          consent' = [consent EXCEPT ![s] = [Unused EXCEPT !.kind = "property", !.of = c,
                                                           !.asks = p, !.client = client]]
    /\ connector' = IF connector[c].status = "active"
                    THEN [connector EXCEPT ![c].status = "reauthorization_required"]
                    ELSE Upserted(c)
    /\ UNCHANGED <<vault, client, callback, renewer>>

\* begin_google_authorization: nothing that works changes.
BeginWorkspace(s, c) ==
    /\ consent[s].kind = "none"
    /\ consent' = [consent EXCEPT ![s] = [Unused EXCEPT !.kind = "workspace", !.of = c,
                                                        !.client = client]]
    /\ connector' = Upserted(c)
    /\ UNCHANGED <<vault, client, callback, renewer>>

\* Ten minutes pass; a callback that locked the row in time is not affected.
Expire(s) ==
    /\ Redeemable(s) /\ callback[s].pc = "away"
    /\ consent' = [consent EXCEPT ![s].expired = TRUE]
    /\ UNCHANGED <<connector, vault, client, callback, renewer>>

\* complete_authorization up to the call: a code is redeemed by the client that
\* asked for it, so a replaced client gets nothing.
Arrive(s) ==
    /\ Redeemable(s) /\ consent[s].kind \in {"property", "workspace"}
    /\ consent[s].client = client /\ callback[s].pc = "away"
    /\ callback' = [callback EXCEPT ![s] = [pc |-> "google",
                        status |-> connector[consent[s].of].status,
                        account |-> connector[consent[s].of].account]]
    /\ \E sees \in SUBSET Property : consent' = [consent EXCEPT ![s].sees = sees]
    /\ UNCHANGED <<connector, vault, client, renewer>>

\* Google is down, the scopes differ, nothing matches: the request rolls back.
Refuse(s) ==
    /\ callback[s].pc = "google"
    /\ callback' = [callback EXCEPT ![s] = Away]
    /\ UNCHANGED <<connector, vault, client, consent, renewer>>

\* The flush: a column that was loaded with the value assigned is not written.
Written(loaded, assigned, committed) == IF loaded = assigned THEN committed ELSE assigned

Consumed(s) == consent' = [consent EXCEPT ![s].consumed = TRUE]

\* complete_authorization of one connector, with the store of its secret.
BindProperty(s) ==
    LET c == consent[s].of
        asks == consent[s].asks IN
    /\ callback[s].pc = "google" /\ consent[s].kind = "property" /\ asks \in consent[s].sees
    /\ vault' = [vault EXCEPT ![c] = s]
    /\ connector' = [connector EXCEPT
                        ![c].status = Written(callback[s].status, "active", @),
                        ![c].account = Written(callback[s].account, asks, @),
                        ![c].ref = TRUE]
    /\ Consumed(s)
    /\ callback' = [callback EXCEPT ![s] = Away]
    /\ UNCHANGED <<client, renewer>>

\* Mutant of Takes: a working connector takes whatever the account sees.
TakesAny(c, sees) == IF connector[c].account \in sees THEN {connector[c].account} ELSE sees

\* _bind_google: the properties a connector may take from this grant; a working
\* one keeps its own or takes nothing.
Takes(c, sees) ==
    IF connector[c].account \in sees THEN {connector[c].account}
    ELSE IF connector[c].status = "active" THEN {} ELSE sees

\* _bind_google, what it writes beside the secret.
Taking(c, property) ==
    [connector[c] EXCEPT !.status = "active", !.ref = TRUE, !.account = property]

\* _complete_workspace: every connector of the granted scopes that fits.
BindWorkspace(s) ==
    LET sees == consent[s].sees IN
    /\ callback[s].pc = "google" /\ consent[s].kind = "workspace"
    /\ \E granted \in SUBSET Google :
          LET linked == {c \in granted : Takes(c, sees) # {}} IN
          /\ linked # {}
          /\ vault' = [c \in Connector |-> IF c \in linked THEN s ELSE vault[c]]
          /\ \E account \in [linked -> Property] :
                /\ \A c \in linked : account[c] \in Takes(c, sees)
                /\ connector' = [c \in Connector |->
                      IF c \in linked THEN Taking(c, account[c]) ELSE connector[c]]
    /\ Consumed(s)
    /\ callback' = [callback EXCEPT ![s] = Away]
    /\ UNCHANGED <<client, renewer>>

\* disconnect.
Disconnect(c) ==
    /\ connector[c].status \notin {"none", "revoked"}
    /\ vault' = [vault EXCEPT ![c] = None]
    /\ connector' = [connector EXCEPT ![c].status = "revoked", ![c].ref = FALSE]
    /\ UNCHANGED <<client, consent, callback, renewer>>

-----------------------------------------------------------------------------
(* Tokens and GitHub.                                                      *)

\* The token replaces the one in the vault, whatever the connector was.
ConnectDnsProvider(c) ==
    /\ vault' = [vault EXCEPT ![c] = "token"]
    /\ connector' = [connector EXCEPT ![c].status = "active", ![c].ref = TRUE]
    /\ UNCHANGED <<client, consent, callback, renewer>>

\* And an installation of the app is replaced by a person's token.
ConnectPersonalAccessToken(c) ==
    /\ vault' = [vault EXCEPT ![c] = "token"]
    /\ connector' = [connector EXCEPT ![c].status = "active", ![c].ref = TRUE,
                                      ![c].provider = "github_pat"]
    /\ UNCHANGED <<client, consent, callback, renewer>>

\* begin_sign_in.
BeginSignIn(s, c, a) ==
    /\ consent[s].kind = "none"
    /\ consent' = [consent EXCEPT ![s] = [Unused EXCEPT !.kind = "sign_in", !.of = c, !.by = a,
                                                        !.client = client]]
    /\ connector' = [Upserted(c) EXCEPT ![c].provider = IF connector[c].status = "none"
                                                        THEN "github_app" ELSE @]
    /\ UNCHANGED <<vault, client, callback, renewer>>

\* Mutant of Bounce: without an end.
BounceForever(s) ==
    /\ Redeemable(s) /\ consent[s].kind = "sign_in"
    /\ consent' = [consent EXCEPT ![s].bounces = @ + 1]
    /\ UNCHANGED <<connector, vault, client, callback, renewer>>

\* complete, without an installation yet: back to GitHub, a bounded number of times.
Bounce(s) ==
    /\ Redeemable(s) /\ consent[s].kind = "sign_in" /\ consent[s].bounces < MaxBounces
    /\ consent' = [consent EXCEPT ![s].bounces = @ + 1]
    /\ UNCHANGED <<connector, vault, client, callback, renewer>>

\* complete: the repositories GitHub offers, kept for the person who signed in.
SignIn(s, t) ==
    /\ Redeemable(s) /\ consent[s].kind = "sign_in" /\ consent[t].kind = "none"
    /\ consent' = [consent EXCEPT ![s].consumed = TRUE,
                                  ![t] = [Unused EXCEPT !.kind = "choice", !.of = consent[s].of,
                                                        !.by = consent[s].by, !.client = client]]
    /\ UNCHANGED <<connector, vault, client, callback, renewer>>

\* Mutant of ChooseRepository: the stored token is left where it was.
ChooseBeside(s, a) ==
    LET c == consent[s].of IN
    /\ Redeemable(s) /\ consent[s].kind = "choice" /\ consent[s].by = a
    /\ connector' = [connector EXCEPT ![c].status = "active", ![c].ref = FALSE,
                                      ![c].provider = "github_app"]
    /\ Consumed(s)
    /\ UNCHANGED <<vault, client, callback, renewer>>

\* choose_repository: an installation stores no token, and one stored before it
\* is revoked.
ChooseRepository(s, a) ==
    LET c == consent[s].of IN
    /\ Redeemable(s) /\ consent[s].kind = "choice" /\ consent[s].by = a
    /\ vault' = IF connector[c].ref THEN [vault EXCEPT ![c] = None] ELSE vault
    /\ connector' = [connector EXCEPT ![c].status = "active", ![c].ref = FALSE,
                                      ![c].provider = "github_app"]
    /\ Consumed(s)
    /\ UNCHANGED <<client, callback, renewer>>

-----------------------------------------------------------------------------
(* The workers.                                                            *)

\* claim_sync and DUE_SQL.
Claimable(c) == connector[c].status = "active" /\ connector[c].ref

\* load_credential: a secret that was revoked since is not found.
Load(r, c) ==
    /\ renewer[r].pc = "idle" /\ Claimable(c) /\ vault[c] # None
    /\ \E pc \in {"sync", "check"} :
          renewer' = [renewer EXCEPT ![r] = [pc |-> pc, of |-> c, grant |-> vault[c]]]
    /\ UNCHANGED <<connector, vault, client, consent, callback>>

\* renew and store_renewed_credential: the token is redeemed by the client that
\* got it; the connector is written whatever became of it.
Renew(r) ==
    LET c == renewer[r].of IN
    /\ renewer[r].pc # "idle" /\ consent[renewer[r].grant].client = client
    /\ vault' = [vault EXCEPT ![c] = renewer[r].grant]
    /\ connector' = [connector EXCEPT ![c].ref = TRUE]
    /\ renewer' = [renewer EXCEPT ![r] = IF @.pc = "check" THEN Idle ELSE @]
    /\ UNCHANGED <<client, consent, callback>>

\* Google says the grant is gone: fail_sync, and _record of the grant check.
Lose(r) ==
    LET c == renewer[r].of IN
    /\ renewer[r].pc # "idle"
    /\ connector' = IF renewer[r].pc = "sync" \/ connector[c].status = "active"
                    THEN [connector EXCEPT ![c].status = "reauthorization_required"]
                    ELSE connector
    /\ renewer' = [renewer EXCEPT ![r] = Idle]
    /\ UNCHANGED <<vault, client, consent, callback>>

\* The sync ends, or fails for another reason: only the error code is written.
Finish(r) ==
    /\ renewer[r].pc # "idle"
    /\ renewer' = [renewer EXCEPT ![r] = Idle]
    /\ UNCHANGED <<connector, vault, client, consent, callback>>

-----------------------------------------------------------------------------
Next ==
    \/ ReplaceClient
    \/ \E s \in Consent :
          \/ Expire(s) \/ Arrive(s) \/ Refuse(s) \/ BindProperty(s) \/ BindWorkspace(s)
          \/ Bounce(s)
          \/ \E c \in Google : BeginProperty(s, c) \/ BeginWorkspace(s, c)
          \/ \E c \in Repo, a \in Admin : BeginSignIn(s, c, a)
          \/ \E t \in Consent : SignIn(s, t)
          \/ \E a \in Admin : ChooseRepository(s, a)
    \/ \E c \in Connector : Disconnect(c)
    \/ \E c \in Token : ConnectDnsProvider(c)
    \/ \E c \in Repo : ConnectPersonalAccessToken(c)
    \/ \E r \in Renewer : Renew(r) \/ Lose(r) \/ Finish(r) \/ \E c \in Google : Load(r, c)

Spec == Init /\ [][Next]_vars

-----------------------------------------------------------------------------
(* Properties.                                                             *)

TypeOK ==
    /\ connector \in [Connector -> Row]
    /\ vault \in [Connector -> Grant \cup {None}]
    /\ client \in 1..MaxClients
    /\ consent \in [Consent -> State]
    /\ callback \in [Consent -> [pc : {"away", "google"}, status : Status,
                                 account : Property \cup {None}]]
    /\ renewer \in [Renewer -> [pc : {"idle", "sync", "check"}, of : Google \cup {None},
                                grant : Grant]]

\* An active connector can be used: through every order of consents, renewals,
\* refusals and disconnects its secret is there; and a GitHub installation keeps
\* no token "decryptable in a table nothing points at any more"
\* (github_connector.py, choose_repository).
ActiveIsUsable ==
    \A c \in Connector : connector[c].status = "active" =>
        IF connector[c].provider = "github_app" THEN vault[c] = None /\ ~connector[c].ref
        ELSE vault[c] # None /\ connector[c].ref

\* Who loaded this connector, or its grant, before it changed.
StaleWorker(c) == \E r \in Renewer : renewer[r].pc # "idle" /\ renewer[r].of = c
                                    /\ renewer[r].grant # vault[c]
StaleCallback(c) == \E s \in Consent :
    /\ callback[s].pc = "google" /\ consent[s].of = c
    /\ \/ callback[s].status # connector[c].status
       \/ callback[s].account # connector[c].account

\* What disconnect destroyed comes back without a person's consent only through
\* somebody who had loaded it before.
QuietDisconnectIsFinal ==
    [][\A c \in Connector :
          connector[c].status = "revoked" /\ vault[c] = None /\ vault'[c] # None =>
              connector'[c].status = "active" \/ StaleWorker(c) \/ StaleCallback(c)]_vars

\* "A connector already working is never moved to a different property"
\* (connectors.py, _complete_workspace) but by a consent that asked for it.
MovedOnlyOnRequest ==
    [][\A c \in Google :
          connector[c].status = "active" /\ connector'[c].account # connector[c].account =>
              \E s \in Consent : /\ consent[s].kind = "property" /\ consent[s].of = c
                                 /\ consent[s].asks = connector'[c].account
                                 /\ ~consent[s].consumed /\ consent'[s].consumed]_vars

\* The account a grant was given for can see what its connector reads, unless
\* a worker or a callback wrote over a consent given since.
Readable(c) == vault[c] \in Consent /\ connector[c].status = "active"
               => connector[c].account \in consent[vault[c]].sees
OnlyStaleWritesMisbind ==
    [][\A c \in Google : Readable(c) /\ ~Readable(c)' => StaleWorker(c) \/ StaleCallback(c)]_vars

\* "So the sealed grant is revoked here, where it can no longer be read by
\* anything" (connectors.py, disconnect).
RevokedHoldsNothing ==
    \A c \in Connector : connector[c].status = "revoked" => vault[c] = None

\* What a connector reads, and with whose grant, changes by a consent that asks for it,
\* or by somebody who writes over what they had loaded before.
OnlyConsentMoves == QuietDisconnectIsFinal /\ MovedOnlyOnRequest /\ OnlyStaleWritesMisbind
=============================================================================
