-------------------------- MODULE ConnectionsProofs --------------------------
(***************************************************************************)
(* Proofs about Connections, for every set of connectors, properties,      *)
(* consents and workers, and about the Routines a workspace runs, for      *)
(* every number of consumers, minutes, attempts and deaths.                *)
(*                                                                         *)
(* An active connector has what it needs to work, and what it reads, and   *)
(* with whose grant, changes by a consent or by somebody who writes over   *)
(* what they had loaded before.  ActiveIsUsable is not inductive alone:    *)
(* that a chosen installation left no token behind needs every row and its *)
(* secret to agree (LinkInv) and consents to stay with connectors of their *)
(* provider (KindInv).  That a stored grant is never that of a consent     *)
(* still open, which a callback could change under it, is GrantInv.        *)
(*                                                                         *)
(* A routine's consumers rely on a lease that does not exclude the others: *)
(* what holds of a run is RunInv.                                          *)
(***************************************************************************)
EXTENDS Connections, Routines, FiniteSetTheorems, TLAPS

\* A row says that it has a secret exactly when it has one.
LinkInv == \A c \in Connector : connector[c].ref <=> vault[c] # None

\* Consents are about connectors of the provider they were asked of.
KindInv ==
    /\ \A c \in Connector \ Repo : connector[c].provider = "none"
    /\ \A s \in Consent :
          /\ consent[s].kind \in {"property", "workspace"} => consent[s].of \in Google
          /\ consent[s].kind \in {"sign_in", "choice"} => consent[s].of \in Repo
          /\ consent[s].kind = "property" => consent[s].asks \in Property

\* A callback at Google holds the lock of a consent that is still open.
CallbackInv ==
    \A s \in Consent : callback[s].pc = "google" =>
        consent[s].kind \in {"property", "workspace"} /\ ~consent[s].consumed

Given(g) == g \in Consent /\ consent[g].consumed

\* A grant, stored or on its way to be renewed, comes from a consent that was
\* given and is closed.
GrantInv ==
    /\ \A c \in Google : vault[c] # None => Given(vault[c])
    /\ \A r \in Renewer : renewer[r].pc # "idle" =>
          renewer[r].of \in Google /\ Given(renewer[r].grant)
    /\ \A s \in Consent : consent[s].consumed => consent[s].kind # "none"

IInv ==
    /\ TypeOK
    /\ LinkInv
    /\ KindInv
    /\ CallbackInv
    /\ GrantInv
    /\ ActiveIsUsable

-----------------------------------------------------------------------------
(* What a step may do to a connector, a consent, a callback and a worker.  *)

SameRow(c) == connector'[c] = connector[c] /\ vault'[c] = vault[c]

\* A begun consent, or a refused grant, takes the connector out of use.
Suspended(c) ==
    /\ connector'[c].status = "reauthorization_required"
    /\ connector'[c].ref = connector[c].ref /\ connector'[c].account = connector[c].account
    /\ connector'[c].provider = connector[c].provider /\ vault'[c] = vault[c]

Created(c) ==
    /\ connector[c].status = "none" /\ connector'[c].status = "pending_authorization"
    /\ connector'[c].ref = connector[c].ref /\ connector'[c].account = connector[c].account
    /\ connector'[c].provider = connector[c].provider \/ c \in Repo
    /\ vault'[c] = vault[c]

\* The callback of consent s bound the connector it is about.
Bound(c, s) ==
    /\ c \in Google /\ callback[s].pc = "google"
    /\ consent[s].kind = "property" /\ consent[s].of = c /\ consent[s].asks \in consent[s].sees
    /\ vault'[c] = s
    /\ connector'[c].status = Written(callback[s].status, "active", connector[c].status)
    /\ connector'[c].account = Written(callback[s].account, consent[s].asks, connector[c].account)
    /\ connector'[c].ref /\ connector'[c].provider = connector[c].provider
    /\ consent'[s] = [consent[s] EXCEPT !.consumed = TRUE]

Linked(c, s) ==
    /\ c \in Google /\ callback[s].pc = "google" /\ consent[s].kind = "workspace"
    /\ vault'[c] = s
    /\ connector'[c].status = "active" /\ connector'[c].account \in Takes(c, consent[s].sees)
    /\ connector'[c].ref /\ connector'[c].provider = connector[c].provider
    /\ consent'[s] = [consent[s] EXCEPT !.consumed = TRUE]

Dropped(c) ==
    /\ connector'[c].status = "revoked" /\ ~connector'[c].ref
    /\ connector'[c].account = connector[c].account
    /\ connector'[c].provider = connector[c].provider /\ vault'[c] = None

\* A token was stored, or an installation chosen.
Replaced(c) ==
    /\ c \notin Google /\ connector'[c].status = "active"
    /\ \/ /\ vault'[c] = "token" /\ connector'[c].ref
          /\ connector'[c].provider = IF c \in Repo THEN "github_pat" ELSE connector[c].provider
       \/ /\ vault'[c] = (IF connector[c].ref THEN None ELSE vault[c]) /\ ~connector'[c].ref
          /\ c \in Repo /\ connector'[c].provider = "github_app"

Renewed(c, r) ==
    /\ renewer[r].pc # "idle" /\ renewer[r].of = c /\ vault'[c] = renewer[r].grant
    /\ connector'[c].ref
    /\ connector'[c].status = connector[c].status /\ connector'[c].account = connector[c].account
    /\ connector'[c].provider = connector[c].provider

RowMoves(c) ==
    \/ SameRow(c) \/ Suspended(c) \/ Created(c) \/ Dropped(c) \/ Replaced(c)
    \/ \E s \in Consent : Bound(c, s) \/ Linked(c, s)
    \/ \E r \in Renewer : Renewed(c, r)

\* A consent is opened once, goes on while it is open, and does not change after.
ConsentMoves(s) ==
    \/ consent'[s] = consent[s]
    \/ /\ consent[s].kind = "none" /\ consent'[s].kind # "none" /\ ~consent'[s].consumed
       /\ consent'[s].kind \in {"property", "workspace"} => consent'[s].of \in Google
       /\ consent'[s].kind \in {"sign_in", "choice"} => consent'[s].of \in Repo
       /\ consent'[s].kind = "property" => consent'[s].asks \in Property
    \/ /\ consent[s].kind # "none" /\ ~consent[s].consumed
       /\ consent'[s].kind = consent[s].kind /\ consent'[s].of = consent[s].of
       /\ consent'[s].asks = consent[s].asks
       /\ callback'[s].pc = "google" => ~consent'[s].consumed

CallbackMoves(s) ==
    callback'[s].pc = "google" =>
        \/ callback[s].pc = "google"
        \/ consent[s].kind \in {"property", "workspace"} /\ ~consent[s].consumed

RenewerMoves(r) ==
    renewer'[r].pc # "idle" =>
        \/ renewer'[r].of = renewer[r].of /\ renewer'[r].grant = renewer[r].grant
           /\ renewer[r].pc # "idle"
        \/ renewer'[r].of \in Google /\ renewer'[r].grant = vault[renewer'[r].of]
           /\ vault[renewer'[r].of] # None

Moves ==
    /\ TypeOK'
    /\ \A c \in Connector : RowMoves(c)
    /\ \A s \in Consent : ConsentMoves(s) /\ CallbackMoves(s)
    /\ \A r \in Renewer : RenewerMoves(r)

-----------------------------------------------------------------------------
(* The requests about consents at Google.                                  *)

\* The values that stand for nothing are typed.
LEMMA NothingIsTyped == Unused \in State /\ Idle \in [pc : {"idle"}, of : {None}, grant : Grant]
<1>1. 1 \in 1..MaxClients /\ 0 \in 0..MaxBounces
  BY ConnectionAssumption DEF ConnectionAssumption
<1> QED BY <1>1 DEF Unused, State, Idle, Grant

\* Another client changes no connector, consent or worker.
LEMMA ClientMoves == ASSUME IInv, ReplaceClient PROVE Moves
<1>1. client' \in 1..MaxClients
  BY ConnectionAssumption DEF IInv, TypeOK, ReplaceClient
<1> QED BY <1>1 DEF IInv, TypeOK, ReplaceClient, Moves, RowMoves, SameRow, ConsentMoves,
                    CallbackMoves, RenewerMoves, CallbackInv

\* Opening a consent at Google.
LEMMA BeginMoves ==
    ASSUME IInv, NEW s \in Consent, NEW c \in Google, BeginProperty(s, c) \/ BeginWorkspace(s, c)
    PROVE  Moves
<1>1. PICK q \in State :
         /\ consent' = [consent EXCEPT ![s] = q]
         /\ q.kind \in {"property", "workspace"} /\ q.of \in Google /\ ~q.consumed
         /\ q.kind = "property" => q.asks \in Property
  <2>1. CASE BeginProperty(s, c)
    <3>1. PICK p \in Property :
             consent' = [consent EXCEPT ![s] = [Unused EXCEPT !.kind = "property", !.of = c,
                                                              !.asks = p, !.client = client]]
      BY <2>1 DEF BeginProperty
    <3> DEFINE q == [Unused EXCEPT !.kind = "property", !.of = c, !.asks = p, !.client = client]
    <3>2. q \in State /\ q.kind = "property" /\ q.of = c /\ q.asks = p /\ ~q.consumed
      BY NothingIsTyped DEF IInv, TypeOK, Unused, State, Connector
    <3> HIDE DEF q
    <3> QED BY <3>1, <3>2 DEF q
  <2>2. CASE BeginWorkspace(s, c)
    <3> DEFINE q == [Unused EXCEPT !.kind = "workspace", !.of = c, !.client = client]
    <3>1. consent' = [consent EXCEPT ![s] = q]
      BY <2>2 DEF BeginWorkspace
    <3>2. q \in State /\ q.kind = "workspace" /\ q.of = c /\ ~q.consumed
      BY NothingIsTyped DEF IInv, TypeOK, Unused, State, Connector
    <3> HIDE DEF q
    <3> QED BY <3>1, <3>2
  <2> QED BY <2>1, <2>2
<1>2. UNCHANGED <<vault, client, callback, renewer>> /\ consent[s].kind = "none"
  BY DEF BeginProperty, BeginWorkspace
<1>3. \/ connector' = [connector EXCEPT ![c].status = "reauthorization_required"]
      \/ connector[c].status = "none"
         /\ connector' = [connector EXCEPT ![c].status = "pending_authorization"]
      \/ UNCHANGED connector
  BY DEF BeginProperty, BeginWorkspace, Upserted
<1>4. connector[c] \in Row /\ c \in Connector
  BY DEF IInv, TypeOK, Connector
<1>5. connector' \in [Connector -> Row]
  BY <1>3, <1>4 DEF IInv, TypeOK, Row, Status
<1>6. TypeOK'
  BY <1>1, <1>2, <1>5 DEF IInv, TypeOK
<1>7. \A d \in Connector : SameRow(d) \/ Suspended(d) \/ Created(d)
  BY <1>2, <1>3, <1>4 DEF IInv, TypeOK, SameRow, Suspended, Created, Row
<1>8. \A t \in Consent : ConsentMoves(t) /\ CallbackMoves(t)
  BY <1>1, <1>2 DEF IInv, TypeOK, CallbackInv, ConsentMoves, CallbackMoves
<1>9. \A r \in Renewer : RenewerMoves(r)
  BY <1>2 DEF RenewerMoves
<1> QED BY <1>6, <1>7, <1>8, <1>9 DEF Moves, RowMoves

\* A state grows old, is redeemed up to the call, or its callback gives up.
LEMMA StateMoves ==
    ASSUME IInv, NEW s \in Consent, Expire(s) \/ Arrive(s) \/ Refuse(s) \/ Bounce(s)
    PROVE  Moves
<1>1. consent[s] \in State
  BY DEF IInv, TypeOK
<1>2. UNCHANGED <<connector, vault, client, renewer>>
  BY DEF Expire, Arrive, Refuse, Bounce
<1>3. PICK q \in State :
         /\ consent' = [consent EXCEPT ![s] = q]
         /\ q = consent[s] \/ Redeemable(s)
         /\ q.kind = consent[s].kind /\ q.of = consent[s].of /\ q.asks = consent[s].asks
         /\ q.consumed = consent[s].consumed
  <2>1. CASE Expire(s)
    <3>1. [consent[s] EXCEPT !.expired = TRUE] \in State
      BY <1>1 DEF State
    <3> QED BY <1>1, <2>1, <3>1 DEF Expire, State
  <2>2. CASE Arrive(s)
    <3>1. PICK sees \in SUBSET Property : consent' = [consent EXCEPT ![s].sees = sees]
      BY <2>2 DEF Arrive
    <3>2. [consent[s] EXCEPT !.sees = sees] \in State
      BY <1>1 DEF State
    <3> QED BY <1>1, <2>2, <3>1, <3>2 DEF Arrive, State
  <2>3. CASE Refuse(s)
    <3>1. consent' = [consent EXCEPT ![s] = consent[s]]
      BY <1>1, <2>3 DEF Refuse, IInv, TypeOK
    <3> QED BY <1>1, <3>1
  <2>4. CASE Bounce(s)
    <3>1. consent[s].bounces + 1 \in 0..MaxBounces
      BY <1>1, <2>4, ConnectionAssumption DEF Bounce, State, ConnectionAssumption
    <3>2. [consent[s] EXCEPT !.bounces = @ + 1] \in State
      BY <1>1, <3>1 DEF State
    <3>3. consent' = [consent EXCEPT ![s] = [consent[s] EXCEPT !.bounces = @ + 1]]
      BY <2>4 DEF Bounce
    <3> QED BY <1>1, <2>4, <3>2, <3>3 DEF Bounce, State
  <2> QED BY <2>1, <2>2, <2>3, <2>4
<1>4. /\ callback' \in [Consent -> [pc : {"away", "google"}, status : Status,
                                    account : Property \cup {None}]]
      /\ \A t \in Consent : callback'[t].pc = "google" =>
             \/ callback[t].pc = "google"
             \/ t = s /\ Redeemable(s) /\ consent[s].kind \in {"property", "workspace"}
  <2>1. CASE UNCHANGED callback
    BY <2>1 DEF IInv, TypeOK
  <2>2. CASE Refuse(s)
    BY <2>2 DEF Refuse, Away, Status, IInv, TypeOK
  <2>3. CASE Arrive(s)
    <3>1. consent[s].of \in Connector
      BY <2>3 DEF Arrive, IInv, KindInv, Connector
    <3>2. connector[consent[s].of] \in Row
      BY <3>1 DEF IInv, TypeOK
    <3> QED BY <2>3, <3>2 DEF Arrive, IInv, TypeOK, Row
  <2> QED BY <2>1, <2>2, <2>3 DEF Expire, Bounce
<1>5. TypeOK'
  BY <1>2, <1>3, <1>4 DEF IInv, TypeOK
<1>6. \A t \in Consent : ConsentMoves(t) /\ CallbackMoves(t)
  BY <1>1, <1>3, <1>4 DEF IInv, TypeOK, CallbackInv, ConsentMoves, CallbackMoves, Redeemable
<1> QED BY <1>2, <1>5, <1>6 DEF Moves, RowMoves, SameRow, RenewerMoves

\* What the callback of s closes, and what it leaves alone.
LEMMA ConsumedMoves ==
    ASSUME IInv, NEW s \in Consent, Consumed(s), consent[s].kind # "none", ~consent[s].consumed,
           callback' = callback \/ callback' = [callback EXCEPT ![s] = Away],
           callback'[s].pc # "google"
    PROVE  /\ consent' \in [Consent -> State]
           /\ callback' \in [Consent -> [pc : {"away", "google"}, status : Status,
                                         account : Property \cup {None}]]
           /\ consent'[s] = [consent[s] EXCEPT !.consumed = TRUE]
           /\ \A t \in Consent : ConsentMoves(t) /\ CallbackMoves(t)
<1>1. consent[s] \in State
  BY DEF IInv, TypeOK
<1>2. [consent[s] EXCEPT !.consumed = TRUE] \in State
  BY <1>1 DEF State
<1>3. consent' = [consent EXCEPT ![s] = [consent[s] EXCEPT !.consumed = TRUE]]
  BY DEF Consumed
<1>4. consent' \in [Consent -> State]
  BY <1>2, <1>3 DEF IInv, TypeOK
<1>5. callback' \in [Consent -> [pc : {"away", "google"}, status : Status,
                                 account : Property \cup {None}]]
  BY DEF IInv, TypeOK, Away, Status
<1>6. \A t \in Consent : CallbackMoves(t)
  BY DEF CallbackMoves, IInv, TypeOK, Away
<1>7. consent'[s] = [consent[s] EXCEPT !.consumed = TRUE]
  BY <1>3 DEF IInv, TypeOK
<1>8. \A t \in Consent : ConsentMoves(t)
  BY <1>1, <1>3, <1>7 DEF ConsentMoves, IInv, TypeOK, State
<1> QED BY <1>4, <1>5, <1>6, <1>7, <1>8

\* One connector bound by the consent that asked for it.
LEMMA BindPropertyMoves == ASSUME IInv, NEW s \in Consent, BindProperty(s) PROVE Moves
<1> DEFINE c == consent[s].of
           status == Written(callback[s].status, "active", connector[c].status)
           account == Written(callback[s].account, consent[s].asks, connector[c].account)
           row == [connector[c] EXCEPT !.status = status, !.account = account, !.ref = TRUE]
<1>1. /\ c \in Google /\ c \in Connector /\ consent[s].asks \in Property
      /\ ~consent[s].consumed /\ consent[s].kind = "property" /\ callback[s].pc = "google"
  BY DEF IInv, KindInv, CallbackInv, BindProperty, Connector
<1>2. connector[c] \in Row /\ status \in Status /\ account \in Property \cup {None}
  BY <1>1 DEF IInv, TypeOK, Row, Written, Status
<1>3. /\ vault' = [vault EXCEPT ![c] = s] /\ connector' = [connector EXCEPT ![c] = row]
      /\ callback' = [callback EXCEPT ![s] = Away] /\ UNCHANGED <<client, renewer>>
  BY DEF BindProperty
<1> HIDE DEF status, account
<1>4. /\ row \in Row /\ row.status = status /\ row.account = account /\ row.ref
      /\ row.provider = connector[c].provider
  BY <1>2 DEF Row
<1> HIDE DEF row
<1>5. connector' \in [Connector -> Row] /\ vault' \in [Connector -> Grant \cup {None}]
  BY <1>3, <1>4 DEF IInv, TypeOK, Grant
<1>6. callback'[s].pc # "google"
  BY <1>3 DEF IInv, TypeOK, Away
<1>7. /\ consent' \in [Consent -> State]
      /\ callback' \in [Consent -> [pc : {"away", "google"}, status : Status,
                                    account : Property \cup {None}]]
      /\ consent'[s] = [consent[s] EXCEPT !.consumed = TRUE]
      /\ \A t \in Consent : ConsentMoves(t) /\ CallbackMoves(t)
  BY <1>1, <1>3, <1>6, ConsumedMoves DEF BindProperty
<1>8. TypeOK'
  BY <1>3, <1>5, <1>7 DEF IInv, TypeOK
<1>9. connector'[c] = row /\ vault'[c] = s
  BY <1>1, <1>3 DEF IInv, TypeOK
<1>10. consent[s].asks \in consent[s].sees
  BY DEF BindProperty
<1>11. Bound(c, s)
  BY <1>1, <1>4, <1>7, <1>9, <1>10 DEF Bound, status, account
<1>12. \A d \in Connector \ {c} : SameRow(d)
  BY <1>3 DEF IInv, TypeOK, SameRow
<1> QED BY <1>1, <1>3, <1>7, <1>8, <1>11, <1>12 DEF Moves, RowMoves, RenewerMoves

\* Every connector of the granted scopes that fits.
LEMMA BindWorkspaceMoves == ASSUME IInv, NEW s \in Consent, BindWorkspace(s) PROVE Moves
<1> DEFINE sees == consent[s].sees
<1>1. PICK granted \in SUBSET Google :
        LET linked == {c \in granted : Takes(c, sees) # {}} IN
          /\ vault' = [c \in Connector |-> IF c \in linked THEN s ELSE vault[c]]
          /\ \E account \in [linked -> Property] :
                /\ \A c \in linked : account[c] \in Takes(c, sees)
                /\ connector' = [c \in Connector |->
                      IF c \in linked THEN Taking(c, account[c]) ELSE connector[c]]
  BY DEF BindWorkspace
<1> DEFINE linked == {c \in granted : Takes(c, sees) # {}}
<1>2. PICK account \in [linked -> Property] :
         /\ \A c \in linked : account[c] \in Takes(c, sees)
         /\ connector' = [c \in Connector |->
               IF c \in linked THEN Taking(c, account[c]) ELSE connector[c]]
  BY <1>1
<1>3. vault' = [c \in Connector |-> IF c \in linked THEN s ELSE vault[c]]
  BY <1>1
<1>4. linked \subseteq Google /\ linked \subseteq Connector
  BY DEF Connector
<1>5. /\ callback[s].pc = "google" /\ consent[s].kind = "workspace" /\ ~consent[s].consumed
      /\ callback' = [callback EXCEPT ![s] = Away] /\ Consumed(s)
      /\ UNCHANGED <<client, renewer>>
  BY DEF BindWorkspace, IInv, CallbackInv
<1> HIDE DEF linked
<1>6. ASSUME NEW c \in linked
      PROVE  /\ connector'[c] \in Row /\ connector'[c].status = "active" /\ connector'[c].ref
             /\ connector'[c].account = account[c]
             /\ connector'[c].provider = connector[c].provider
             /\ vault'[c] = s
  <2>1. connector[c] \in Row /\ account[c] \in Property /\ c \in Connector
    BY <1>4 DEF IInv, TypeOK
  <2>2. connector'[c] = [connector[c] EXCEPT !.status = "active", !.ref = TRUE,
                                             !.account = account[c]]
    BY <1>2, <2>1 DEF Taking
  <2> QED BY <1>3, <2>1, <2>2 DEF Row, Status
<1>7. \A c \in Connector \ linked : SameRow(c)
  BY <1>2, <1>3 DEF SameRow
<1>8. connector' \in [Connector -> Row]
  <2>1. \A c \in Connector : connector'[c] \in Row
    BY <1>6, <1>7 DEF SameRow, IInv, TypeOK
  <2> QED BY <1>2, <2>1
<1>9. vault' \in [Connector -> Grant \cup {None}]
  BY <1>3 DEF IInv, TypeOK, Grant
<1>10. callback'[s].pc # "google"
  BY <1>5 DEF IInv, TypeOK, Away
<1>11. /\ consent' \in [Consent -> State]
       /\ callback' \in [Consent -> [pc : {"away", "google"}, status : Status,
                                     account : Property \cup {None}]]
       /\ consent'[s] = [consent[s] EXCEPT !.consumed = TRUE]
       /\ \A t \in Consent : ConsentMoves(t) /\ CallbackMoves(t)
  BY <1>5, <1>10, ConsumedMoves
<1>12. TypeOK'
  BY <1>5, <1>8, <1>9, <1>11 DEF IInv, TypeOK
<1>13. \A c \in linked : Linked(c, s)
  BY <1>2, <1>4, <1>5, <1>6, <1>11 DEF Linked
<1> QED BY <1>5, <1>7, <1>11, <1>12, <1>13 DEF Moves, RowMoves, RenewerMoves

-----------------------------------------------------------------------------
(* Disconnecting, tokens and GitHub.                                       *)

\* One connector is disconnected, or its token replaced.
LEMMA TokenMoves ==
    ASSUME IInv, NEW c \in Connector,
           \/ Disconnect(c)
           \/ c \in Token /\ ConnectDnsProvider(c)
           \/ c \in Repo /\ ConnectPersonalAccessToken(c)
    PROVE  Moves
<1>1. connector[c] \in Row
  BY DEF IInv, TypeOK
<1>2. UNCHANGED <<client, consent, callback, renewer>>
  BY DEF Disconnect, ConnectDnsProvider, ConnectPersonalAccessToken
<1>3. CASE Disconnect(c)
  <2> DEFINE row == [connector[c] EXCEPT !.status = "revoked", !.ref = FALSE]
  <2>1. connector' = [connector EXCEPT ![c] = row] /\ vault' = [vault EXCEPT ![c] = None]
    BY <1>3 DEF Disconnect
  <2>2. /\ row \in Row /\ row.status = "revoked" /\ ~row.ref
        /\ row.account = connector[c].account /\ row.provider = connector[c].provider
    BY <1>1 DEF Row, Status
  <2> HIDE DEF row
  <2>3. TypeOK'
    BY <1>2, <2>1, <2>2 DEF IInv, TypeOK
  <2>4. Dropped(c) /\ \A d \in Connector \ {c} : SameRow(d)
    BY <2>1, <2>2 DEF IInv, TypeOK, Dropped, SameRow
  <2> QED BY <1>2, <2>3, <2>4 DEF Moves, RowMoves, ConsentMoves, CallbackMoves, RenewerMoves
<1>4. CASE \/ c \in Token /\ ConnectDnsProvider(c)
           \/ c \in Repo /\ ConnectPersonalAccessToken(c)
  <2> DEFINE provider == IF c \in Repo THEN "github_pat" ELSE connector[c].provider
             row == [connector[c] EXCEPT !.status = "active", !.ref = TRUE, !.provider = provider]
  <2>1. connector' = [connector EXCEPT ![c] = row] /\ vault' = [vault EXCEPT ![c] = "token"]
    <3>1. CASE c \in Repo
      BY <1>4, <3>1, ConnectionAssumption DEF ConnectionAssumption, ConnectPersonalAccessToken
    <3>2. CASE c \notin Repo
      <4>1. row = [connector[c] EXCEPT !.status = "active", !.ref = TRUE]
        BY <1>1, <3>2 DEF Row
      <4> HIDE DEF row
      <4> QED BY <1>4, <3>2, <4>1 DEF ConnectDnsProvider
    <3> QED BY <3>1, <3>2
  <2>2. provider \in {"none", "github_app", "github_pat"}
    BY <1>1 DEF Row
  <2> HIDE DEF provider
  <2>3. row \in Row /\ row.status = "active" /\ row.ref /\ row.provider = provider
    BY <1>1, <2>2 DEF Row, Status
  <2> HIDE DEF row
  <2>4. TypeOK'
    BY <1>2, <2>1, <2>3 DEF IInv, TypeOK, Grant
  <2>5. c \notin Google
    BY <1>4, ConnectionAssumption DEF ConnectionAssumption
  <2>6. Replaced(c) /\ \A d \in Connector \ {c} : SameRow(d)
    BY <2>1, <2>3, <2>5 DEF IInv, TypeOK, Replaced, SameRow, provider
  <2> QED BY <1>2, <2>4, <2>6 DEF Moves, RowMoves, ConsentMoves, CallbackMoves, RenewerMoves
<1> QED BY <1>3, <1>4

\* Opening a sign-in at GitHub.
LEMMA BeginSignInMoves ==
    ASSUME IInv, NEW s \in Consent, NEW c \in Repo, NEW a \in Admin, BeginSignIn(s, c, a)
    PROVE  Moves
<1> DEFINE q == [Unused EXCEPT !.kind = "sign_in", !.of = c, !.by = a, !.client = client]
<1>1. c \in Connector /\ connector[c] \in Row
  BY DEF IInv, TypeOK, Connector
<1>2. /\ consent' = [consent EXCEPT ![s] = q] /\ consent[s].kind = "none"
      /\ UNCHANGED <<vault, client, callback, renewer>>
  BY DEF BeginSignIn
<1>3. q \in State /\ q.kind = "sign_in" /\ q.of = c /\ ~q.consumed
  BY <1>1, NothingIsTyped DEF IInv, TypeOK, Unused, State
<1> HIDE DEF q
<1>4. \/ UNCHANGED connector
      \/ /\ connector[c].status = "none"
         /\ connector' = [connector EXCEPT ![c] =
                [connector[c] EXCEPT !.status = "pending_authorization", !.provider = "github_app"]]
  <2>1. CASE connector[c].status = "none"
    BY <1>1, <2>1 DEF BeginSignIn, Upserted, IInv, TypeOK, Row
  <2>2. CASE connector[c].status # "none"
    BY <1>1, <2>2 DEF BeginSignIn, Upserted, IInv, TypeOK, Row
  <2> QED BY <2>1, <2>2
<1>5. [connector[c] EXCEPT !.status = "pending_authorization", !.provider = "github_app"] \in Row
  BY <1>1 DEF Row, Status
<1>6. TypeOK'
  BY <1>2, <1>3, <1>4, <1>5 DEF IInv, TypeOK
<1>7. \A d \in Connector : SameRow(d) \/ Created(d)
  <2> DEFINE row == [connector[c] EXCEPT !.status = "pending_authorization",
                                         !.provider = "github_app"]
  <2>1. /\ row.status = "pending_authorization"
        /\ row.ref = connector[c].ref /\ row.account = connector[c].account
    BY <1>1 DEF Row
  <2>2. \/ UNCHANGED connector
        \/ connector[c].status = "none" /\ connector' = [connector EXCEPT ![c] = row]
    BY <1>4
  <2> HIDE DEF row
  <2> QED BY <1>1, <1>2, <2>1, <2>2 DEF IInv, TypeOK, SameRow, Created
<1>8. \A t \in Consent : ConsentMoves(t) /\ CallbackMoves(t)
  BY <1>2, <1>3 DEF IInv, TypeOK, ConsentMoves, CallbackMoves
<1> QED BY <1>2, <1>6, <1>7, <1>8 DEF Moves, RowMoves, RenewerMoves

\* A sign-in is closed, and the choice it leads to is opened.
LEMMA SignInMoves ==
    ASSUME IInv, NEW s \in Consent, NEW t \in Consent, SignIn(s, t)
    PROVE  Moves
<1> DEFINE q == [Unused EXCEPT !.kind = "choice", !.of = consent[s].of, !.by = consent[s].by,
                               !.client = client]
           p == [consent[s] EXCEPT !.consumed = TRUE]
<1>1. /\ s # t /\ consent[s] \in State /\ consent[s].of \in Repo
      /\ consent[s].kind = "sign_in" /\ ~consent[s].consumed /\ consent[t].kind = "none"
  BY DEF IInv, TypeOK, KindInv, SignIn, Redeemable
<1>2. UNCHANGED <<connector, vault, client, callback, renewer>>
  BY DEF SignIn
<1>3. consent' = [[consent EXCEPT ![s] = p] EXCEPT ![t] = q]
  BY <1>1 DEF SignIn, IInv, TypeOK
<1>4. p \in State /\ p.kind = "sign_in" /\ p.of = consent[s].of /\ p.asks = consent[s].asks
  BY <1>1 DEF State
<1>5. q \in State /\ q.kind = "choice" /\ q.of = consent[s].of /\ ~q.consumed
  BY <1>1, NothingIsTyped DEF IInv, TypeOK, Unused, State, Connector
<1> HIDE DEF q, p
<1>6. TypeOK'
  BY <1>2, <1>3, <1>4, <1>5 DEF IInv, TypeOK
<1>7. callback[s].pc # "google"
  BY <1>1 DEF IInv, CallbackInv
<1>8. \A u \in Consent : ConsentMoves(u) /\ CallbackMoves(u)
  BY <1>1, <1>2, <1>3, <1>4, <1>5, <1>7 DEF IInv, TypeOK, ConsentMoves, CallbackMoves
<1> QED BY <1>2, <1>6, <1>8 DEF Moves, RowMoves, SameRow, RenewerMoves

\* The chosen installation replaces a token.
LEMMA ChooseMoves ==
    ASSUME IInv, NEW s \in Consent, NEW a \in Admin, ChooseRepository(s, a)
    PROVE  Moves
<1> DEFINE c == consent[s].of
           row == [connector[c] EXCEPT !.status = "active", !.ref = FALSE, !.provider = "github_app"]
<1>1. /\ c \in Repo /\ c \in Connector /\ consent[s].kind = "choice" /\ ~consent[s].consumed
      /\ c \notin Google /\ callback[s].pc # "google"
  BY ConnectionAssumption DEF ConnectionAssumption, IInv, KindInv, CallbackInv,
     ChooseRepository, Redeemable, Connector
<1>2. /\ connector' = [connector EXCEPT ![c] = row]
      /\ vault' = IF connector[c].ref THEN [vault EXCEPT ![c] = None] ELSE vault
      /\ Consumed(s) /\ UNCHANGED <<client, callback, renewer>>
  BY DEF ChooseRepository
<1>3. row \in Row /\ row.status = "active" /\ ~row.ref /\ row.provider = "github_app"
  <2>1. connector[c] \in Row
    BY <1>1 DEF IInv, TypeOK
  <2> QED BY <2>1 DEF Row, Status
<1> HIDE DEF row
<1>4. /\ consent' \in [Consent -> State]
      /\ \A t \in Consent : ConsentMoves(t) /\ CallbackMoves(t)
  BY <1>1, <1>2, ConsumedMoves
<1>5. TypeOK'
  BY <1>2, <1>3, <1>4 DEF IInv, TypeOK
<1>6. Replaced(c) /\ \A d \in Connector \ {c} : SameRow(d)
  BY <1>1, <1>2, <1>3 DEF IInv, TypeOK, Replaced, SameRow
<1> QED BY <1>2, <1>4, <1>5, <1>6 DEF Moves, RowMoves, RenewerMoves

-----------------------------------------------------------------------------
(* The workers.                                                            *)

\* A worker loads a stored grant, renews it, loses it or is done with it.
LEMMA WorkerMoves ==
    ASSUME IInv, NEW r \in Renewer,
           Renew(r) \/ Lose(r) \/ Finish(r) \/ \E c \in Google : Load(r, c)
    PROVE  Moves
<1> DEFINE c == renewer[r].of
<1>1. renewer[r].pc # "idle" => c \in Google /\ c \in Connector /\ Given(renewer[r].grant)
  BY DEF IInv, GrantInv, Connector
<1>2. UNCHANGED <<client, consent, callback>>
  BY DEF Renew, Lose, Finish, Load
<1>3. \A s \in Consent : ConsentMoves(s) /\ CallbackMoves(s)
  BY <1>2 DEF ConsentMoves, CallbackMoves
<1> DEFINE Workers == [Renewer -> [pc : {"idle", "sync", "check"}, of : Google \cup {None},
                                   grant : Grant]]
<1>4. ASSUME renewer' = [renewer EXCEPT ![r] = Idle] \/ UNCHANGED renewer
      PROVE  renewer' \in Workers /\ \A w \in Renewer : RenewerMoves(w)
  BY <1>4, NothingIsTyped DEF IInv, TypeOK, RenewerMoves, Idle
<1>5. CASE Finish(r)
  BY <1>2, <1>3, <1>4, <1>5 DEF Finish, IInv, TypeOK, Moves, RowMoves, SameRow
<1>6. CASE Lose(r)
  <2>1. connector[c] \in Row /\ renewer[r].pc # "idle"
    BY <1>1, <1>6 DEF Lose, IInv, TypeOK
  <2>2. [connector[c] EXCEPT !.status = "reauthorization_required"] \in Row
    BY <2>1 DEF Row, Status
  <2>3. /\ connector' = connector
           \/ connector' = [connector EXCEPT
                 ![c] = [connector[c] EXCEPT !.status = "reauthorization_required"]]
        /\ UNCHANGED vault
    BY <1>6 DEF Lose
  <2>4. renewer' \in Workers /\ \A w \in Renewer : RenewerMoves(w)
    BY <1>4, <1>6 DEF Lose
  <2>5. TypeOK'
    BY <1>2, <2>2, <2>3, <2>4 DEF IInv, TypeOK
  <2>6. \A d \in Connector : SameRow(d) \/ Suspended(d)
    BY <1>1, <2>1, <2>3 DEF IInv, TypeOK, SameRow, Suspended, Row
  <2> QED BY <1>3, <2>4, <2>5, <2>6 DEF Moves, RowMoves
<1>7. CASE Renew(r)
  <2>1. renewer[r].pc # "idle" /\ connector[c] \in Row
    BY <1>1, <1>7 DEF Renew, IInv, TypeOK
  <2>2. /\ vault' = [vault EXCEPT ![c] = renewer[r].grant]
        /\ connector' = [connector EXCEPT ![c] = [connector[c] EXCEPT !.ref = TRUE]]
    BY <1>7 DEF Renew
  <2>3. [connector[c] EXCEPT !.ref = TRUE] \in Row
    BY <2>1 DEF Row
  <2>4. renewer' \in Workers /\ \A w \in Renewer : RenewerMoves(w)
    <3>1. CASE renewer[r].pc = "check"
      BY <1>4, <1>7, <3>1 DEF Renew
    <3>2. CASE renewer[r].pc # "check"
      BY <1>4, <1>7, <3>2 DEF Renew, IInv, TypeOK
    <3> QED BY <3>1, <3>2
  <2>5. TypeOK'
    BY <1>1, <1>2, <2>1, <2>2, <2>3, <2>4 DEF IInv, TypeOK, Given, Grant
  <2>6. Renewed(c, r) /\ \A d \in Connector \ {c} : SameRow(d)
    BY <1>1, <2>1, <2>2 DEF IInv, TypeOK, Renewed, SameRow, Row
  <2> QED BY <1>3, <2>4, <2>5, <2>6 DEF Moves, RowMoves
<1>8. ASSUME NEW d \in Google, Load(r, d) PROVE Moves
  <2>1. PICK pc \in {"sync", "check"} :
           renewer' = [renewer EXCEPT ![r] = [pc |-> pc, of |-> d, grant |-> vault[d]]]
    BY <1>8 DEF Load
  <2>2. vault[d] # None /\ vault[d] \in Grant /\ UNCHANGED <<connector, vault>>
    BY <1>8 DEF Load, IInv, GrantInv, Given, Grant
  <2>3. renewer' \in Workers
    BY <2>1, <2>2 DEF IInv, TypeOK
  <2>4. \A w \in Renewer : RenewerMoves(w)
    BY <2>1, <2>2 DEF IInv, TypeOK, RenewerMoves
  <2>5. TypeOK'
    BY <1>2, <2>2, <2>3 DEF IInv, TypeOK
  <2> QED BY <1>3, <2>2, <2>4, <2>5 DEF Moves, RowMoves, SameRow
<1> QED BY <1>5, <1>6, <1>7, <1>8

\* Every step moves rows, consents, callbacks and workers in these ways.
LEMMA NextMoves == IInv /\ [Next]_vars => Moves
<1>1. ASSUME IInv, UNCHANGED vars PROVE Moves
  BY <1>1 DEF vars, IInv, TypeOK, Moves, RowMoves, SameRow, ConsentMoves, CallbackMoves,
              RenewerMoves
<1>2. Token \subseteq Connector /\ Repo \subseteq Connector
  BY DEF Connector
<1> QED BY <1>1, <1>2, ClientMoves, BeginMoves, StateMoves, BindPropertyMoves, BindWorkspaceMoves,
           TokenMoves, BeginSignInMoves, SignInMoves, ChooseMoves, WorkerMoves DEF Next

-----------------------------------------------------------------------------
(* The invariant.                                                          *)

\* Nothing is connected yet.
LEMMA InitEstablishes == Init => IInv
<1> SUFFICES ASSUME Init PROVE IInv
  OBVIOUS
<1>1. TypeOK
  <2>1. 1 \in 1..MaxClients
    BY ConnectionAssumption DEF ConnectionAssumption
  <2> QED BY <2>1, NothingIsTyped DEF Init, TypeOK, Row, Status, Away, Idle, Grant
<1>2. LinkInv /\ KindInv /\ CallbackInv /\ GrantInv /\ ActiveIsUsable
  BY DEF Init, LinkInv, KindInv, CallbackInv, GrantInv, ActiveIsUsable, Unused, Away, Idle, Connector
<1> QED BY <1>1, <1>2 DEF IInv

\* A consent once given stays given, by whatever is done to others.
LEMMA GivenStays ==
    ASSUME IInv, Moves, NEW g, Given(g) PROVE g \in Consent /\ consent'[g].consumed
<1>1. ConsentMoves(g)
  BY DEF Given, Moves
<1> QED BY <1>1 DEF Given, ConsentMoves, IInv, GrantInv

\* No step of a consent, a worker or a person breaks the invariant.
LEMMA StepPreserves == IInv /\ [Next]_vars => IInv'
<1> SUFFICES ASSUME IInv, Moves PROVE IInv'
  BY NextMoves
<1> USE DEF IInv, Moves
<1>1. None # "token" /\ None \notin Consent /\ \A c \in Google : c \notin Repo
  BY ConnectionAssumption DEF ConnectionAssumption
<1>2. ASSUME NEW s \in Consent, callback[s].pc = "google", consent'[s] = [consent[s] EXCEPT !.consumed = TRUE]
      PROVE  s \in Consent /\ consent'[s].consumed
  <2>1. consent[s] \in State
    BY DEF TypeOK
  <2> QED BY <1>2, <2>1 DEF State
<1>3. ASSUME NEW c \in Connector
      PROVE  connector'[c].ref <=> vault'[c] # None
  <2>1. RowMoves(c) /\ (connector[c].ref <=> vault[c] # None)
    BY DEF LinkInv
  <2>2. ASSUME NEW r \in Renewer, Renewed(c, r) PROVE vault'[c] # None
    BY <1>1, <2>2 DEF Renewed, GrantInv, Given
  <2> QED BY <1>1, <2>1, <2>2 DEF RowMoves, SameRow, Suspended, Created, Dropped, Replaced,
                                  Bound, Linked, Renewed
<1>4. LinkInv'
  BY <1>3 DEF LinkInv
<1>5. KindInv'
  <2>1. ASSUME NEW c \in Connector \ Repo PROVE connector'[c].provider = "none"
    <3>1. RowMoves(c) /\ connector[c].provider = "none"
      BY <2>1 DEF KindInv
    <3> QED BY <2>1, <3>1 DEF RowMoves, SameRow, Suspended, Created, Dropped, Replaced, Bound,
                              Linked, Renewed
  <2>2. ASSUME NEW s \in Consent
        PROVE  /\ consent'[s].kind \in {"property", "workspace"} => consent'[s].of \in Google
               /\ consent'[s].kind \in {"sign_in", "choice"} => consent'[s].of \in Repo
               /\ consent'[s].kind = "property" => consent'[s].asks \in Property
    <3>1. ConsentMoves(s)
      OBVIOUS
    <3> QED BY <3>1 DEF ConsentMoves, KindInv
  <2> QED BY <2>1, <2>2 DEF KindInv
<1>6. CallbackInv'
  <2> SUFFICES ASSUME NEW s \in Consent, callback'[s].pc = "google"
      PROVE  consent'[s].kind \in {"property", "workspace"} /\ ~consent'[s].consumed
    BY DEF CallbackInv
  <2>1. ConsentMoves(s) /\ CallbackMoves(s)
    OBVIOUS
  <2> QED BY <2>1 DEF ConsentMoves, CallbackMoves, CallbackInv
<1>7. GrantInv'
  <2> DEFINE Closed(g) == g \in Consent /\ consent'[g].consumed
  <2>1. ASSUME NEW c \in Google, vault'[c] # None PROVE Closed(vault'[c])
    <3>1. RowMoves(c) /\ c \in Connector
      BY DEF Connector
    <3>2. CASE vault'[c] = vault[c]
      BY <2>1, <3>2, GivenStays DEF GrantInv
    <3>3. ASSUME NEW r \in Renewer, Renewed(c, r) PROVE Closed(vault'[c])
      BY <3>3, GivenStays DEF Renewed, GrantInv
    <3>4. ASSUME NEW s \in Consent, Bound(c, s) \/ Linked(c, s) PROVE Closed(vault'[c])
      BY <1>2, <3>4 DEF Bound, Linked
    <3> QED BY <2>1, <3>1, <3>2, <3>3, <3>4 DEF RowMoves, SameRow, Suspended, Created, Dropped,
                                                Replaced
  <2>2. ASSUME NEW r \in Renewer, renewer'[r].pc # "idle"
        PROVE  renewer'[r].of \in Google /\ Closed(renewer'[r].grant)
    <3>1. RenewerMoves(r)
      OBVIOUS
    <3>2. renewer'[r].of \in Google /\ Given(renewer'[r].grant)
      BY <2>2, <3>1 DEF RenewerMoves, GrantInv
    <3> QED BY <3>2, GivenStays
  <2>3. ASSUME NEW s \in Consent, consent'[s].consumed PROVE consent'[s].kind # "none"
    <3>1. ConsentMoves(s)
      OBVIOUS
    <3> QED BY <2>3, <3>1 DEF ConsentMoves, GrantInv
  <2> QED BY <2>1, <2>2, <2>3 DEF GrantInv, Given
<1>8. ActiveIsUsable'
  <2> SUFFICES ASSUME NEW c \in Connector, connector'[c].status = "active"
      PROVE  IF connector'[c].provider = "github_app" THEN ~connector'[c].ref
             ELSE connector'[c].ref
    BY <1>3 DEF ActiveIsUsable
  <2>1. RowMoves(c)
    OBVIOUS
  <2>2. connector[c].status = "active" =>
           IF connector[c].provider = "github_app" THEN ~connector[c].ref ELSE connector[c].ref
    BY DEF ActiveIsUsable
  <2>3. c \in Google => connector[c].provider = "none"
    BY <1>1 DEF KindInv
  <2>4. c \notin Repo => connector[c].provider = "none"
    BY DEF KindInv
  <2>5. CASE Replaced(c)
    BY <2>4, <2>5 DEF Replaced
  <2>6. ASSUME NEW s \in Consent, Bound(c, s) \/ Linked(c, s)
        PROVE  connector'[c].provider = "none" /\ connector'[c].ref
    BY <2>3, <2>6 DEF Bound, Linked
  <2>7. ASSUME NEW r \in Renewer, Renewed(c, r)
        PROVE  connector'[c].provider = "none" /\ connector'[c].ref
    BY <2>3, <2>7 DEF Renewed, GrantInv
  <2> QED BY <2>1, <2>2, <2>5, <2>6, <2>7 DEF RowMoves, SameRow, Suspended, Created, Dropped
<1>9. TypeOK'
  OBVIOUS
<1> QED BY <1>4, <1>5, <1>6, <1>7, <1>8, <1>9

\* The inductive invariant of the connectors holds in every state.
THEOREM ConnectionsInvariance == Spec => []IInv
<1>1. Init => IInv
  BY InitEstablishes
<1>2. IInv /\ [Next]_vars => IInv'
  BY StepPreserves
<1> QED BY <1>1, <1>2, PTL DEF Spec

\* Rows, secrets, consents, callbacks and workers stay in their shapes.
THEOREM TypeCorrect == Spec => []TypeOK
BY ConnectionsInvariance, PTL DEF IInv

\* Through every order of consents, renewals, refusals and disconnects an active
\* connector's secret is there, and a GitHub installation keeps no token.
THEOREM UsableTheorem == Spec => []ActiveIsUsable
BY ConnectionsInvariance, PTL DEF IInv

-----------------------------------------------------------------------------
(* What a step may do to what a connector reads.                           *)

\* A grant comes back to a revoked connector by a consent, or by a worker or a
\* callback that had loaded it before.
LEMMA QuietStep ==
    ASSUME IInv, Moves, NEW c \in Connector,
           connector[c].status = "revoked", vault[c] = None, vault'[c] # None
    PROVE  connector'[c].status = "active" \/ StaleWorker(c) \/ StaleCallback(c)
<1>1. RowMoves(c)
  BY DEF Moves
<1>2. ASSUME NEW s \in Consent, Bound(c, s)
      PROVE  connector'[c].status = "active" \/ StaleCallback(c)
  BY <1>2 DEF Bound, Written, StaleCallback
<1>3. ASSUME NEW r \in Renewer, Renewed(c, r) PROVE StaleWorker(c)
  BY <1>3 DEF Renewed, StaleWorker
<1> QED BY <1>1, <1>2, <1>3 DEF RowMoves, SameRow, Suspended, Created, Dropped, Replaced, Linked

\* A working connector is moved to another property only by the consent for it.
LEMMA MovedStep ==
    ASSUME IInv, Moves, NEW c \in Google,
           connector[c].status = "active", connector'[c].account # connector[c].account
    PROVE  \E s \in Consent : /\ consent[s].kind = "property" /\ consent[s].of = c
                              /\ consent[s].asks = connector'[c].account
                              /\ ~consent[s].consumed /\ consent'[s].consumed
<1>1. RowMoves(c)
  BY DEF Moves, Connector
<1>2. ASSUME NEW s \in Consent, Bound(c, s)
      PROVE  /\ consent[s].kind = "property" /\ consent[s].of = c
             /\ consent[s].asks = connector'[c].account
             /\ ~consent[s].consumed /\ consent'[s].consumed
  <2>1. consent[s] \in State /\ ~consent[s].consumed
    BY <1>2 DEF IInv, TypeOK, CallbackInv, Bound
  <2>2. consent'[s].consumed
    BY <1>2, <2>1 DEF Bound, State
  <2> QED BY <1>2, <2>1, <2>2 DEF Bound, Written
<1>3. \A s \in Consent : ~Linked(c, s)
  BY DEF Linked, Takes
<1> QED BY <1>1, <1>2, <1>3 DEF RowMoves, SameRow, Suspended, Created, Dropped, Replaced, Renewed

\* The grant and the property fit after every write that knew what it replaced.
LEMMA MisbindStep ==
    ASSUME IInv, Moves, NEW c \in Google, Readable(c), ~Readable(c)'
    PROVE  StaleWorker(c) \/ StaleCallback(c)
<1>1. RowMoves(c)
  BY DEF Moves, Connector
<1>2. ASSUME NEW s \in Consent, Bound(c, s) PROVE StaleCallback(c)
  <2>1. consent[s] \in State
    BY DEF IInv, TypeOK
  <2>2. consent'[s].sees = consent[s].sees
    BY <1>2, <2>1 DEF Bound, State
  <2> QED BY <1>2, <2>2 DEF Bound, Readable, Written, StaleCallback
<1>3. ASSUME NEW s \in Consent, Linked(c, s) PROVE FALSE
  <2>1. consent[s] \in State
    BY DEF IInv, TypeOK
  <2>2. consent'[s].sees = consent[s].sees
    BY <1>3, <2>1 DEF Linked, State
  <2> QED BY <1>3, <2>2 DEF Linked, Readable, Takes
<1>4. \A g \in Consent : Given(g) => consent'[g] = consent[g]
  BY DEF Moves, ConsentMoves, Given, IInv, GrantInv
<1>5. vault[c] # None => Given(vault[c])
  BY DEF IInv, GrantInv
<1>6. ASSUME NEW r \in Renewer, Renewed(c, r) PROVE StaleWorker(c)
  BY <1>4, <1>5, <1>6, ConnectionAssumption DEF Renewed, StaleWorker, Readable, Given, ConnectionAssumption
<1>7. CASE SameRow(c)
  BY <1>4, <1>5, <1>7, ConnectionAssumption DEF SameRow, Readable, Given, ConnectionAssumption
<1> QED BY <1>1, <1>2, <1>3, <1>6, <1>7 DEF RowMoves, Suspended, Created, Dropped, Replaced, Readable

\* What a connector reads, and with whose grant, changes by a consent that asks
\* for it, or by somebody who writes over what they had loaded before.
THEOREM ConsentTheorem == Spec => OnlyConsentMoves
<1>1. IInv /\ [Next]_vars => [\A c \in Connector :
          connector[c].status = "revoked" /\ vault[c] = None /\ vault'[c] # None =>
              connector'[c].status = "active" \/ StaleWorker(c) \/ StaleCallback(c)]_vars
  BY NextMoves, QuietStep
<1>2. IInv /\ [Next]_vars => [\A c \in Google :
          connector[c].status = "active" /\ connector'[c].account # connector[c].account =>
              \E s \in Consent : /\ consent[s].kind = "property" /\ consent[s].of = c
                                 /\ consent[s].asks = connector'[c].account
                                 /\ ~consent[s].consumed /\ consent'[s].consumed]_vars
  BY NextMoves, MovedStep
<1>3. IInv /\ [Next]_vars =>
        [\A c \in Google : Readable(c) /\ ~Readable(c)' => StaleWorker(c) \/ StaleCallback(c)]_vars
  BY NextMoves, MisbindStep
<1> QED BY <1>1, <1>2, <1>3, ConnectionsInvariance, PTL
        DEF Spec, OnlyConsentMoves, QuietDisconnectIsFinal, MovedOnlyOnRequest, OnlyStaleWritesMisbind

-----------------------------------------------------------------------------
(* Routines.  Consumers do not exclude one another by the lease: it may    *)
(* lapse under one of them, and a claim asks only for the row.  A run that *)
(* was never overrun has one consumer at work, which has left nothing yet; *)
(* of any run, what the models were asked and will yet be asked is within  *)
(* the attempts of its row.                                                *)

Working(w, s) == runner[w].slot = s /\ runner[w].pc \in {"collect", "work"}
Skipping(w, s) == runner[w].slot = s /\ runner[w].pc = "skip"
Collecting(s) == {w \in Runner : runner[w].slot = s /\ runner[w].pc = "collect"}

\* Every consumer that has yet to ask the models has an attempt of its own.
BillOK(s) ==
    /\ IsFiniteSet(Collecting(s))
    /\ billed[s] + Cardinality(Collecting(s)) <= run[s].attempts

\* While no lease of it has lapsed under somebody at work, one consumer at most is
\* at work on a run, and has left nothing yet; what was left is of a run that ended.
WorkOK(s) ==
    /\ made[s] \in {0, 1}
    /\ made[s] = 1 => run[s].status \in Done
    /\ \A w \in Runner : Working(w, s) =>
          /\ made[s] = 0
          /\ run[s].status \in {"skipped", "failed"} \/ (run[s].status = "running" /\ run[s].lease)
    /\ \A v, w \in Runner : Working(v, s) /\ Working(w, s) => v = w

\* Until the gate opens again, nobody can take a run that is about to be skipped.
SkipOK(s) ==
    \A w \in Runner : Skipping(w, s) =>
       /\ run[s].status # "completed"
       /\ ~GateOpen \/ run[s].attempts >= MaxRunAttempts
       /\ \A v \in Runner : ~Working(v, s)

\* What is so of one slot; where its run was overrun, only that bills are counted.
SlotInv(s) ==
    /\ BillOK(s)
    /\ s \notin overrun => WorkOK(s)
    /\ s \notin overrun => switches >= 2 \/ SkipOK(s)

\* The inductive invariant.
RunInv == RoutineTypeOK /\ \A s \in Slot : SlotInv(s)

-----------------------------------------------------------------------------
\* No consumer comes to a run, to work on it or to skip it.
NoneComes(s) ==
    /\ \A w \in Runner : Working(w, s)' => Working(w, s)
    /\ \A w \in Runner : Skipping(w, s)' => Skipping(w, s)
    /\ Collecting(s)' \subseteq Collecting(s)

\* What becomes of a row that nobody claims or completes.
RunMoves(s) ==
    /\ run'[s].attempts = run[s].attempts
    /\ \/ run'[s] = run[s]
       \/ run'[s].status \in {"skipped", "failed"}
       \/ /\ run[s].status \notin Done /\ run'[s].status \notin Done
          /\ s \notin overrun' => \A w \in Runner : ~Working(w, s)

\* The gate is switched once at most.
GateMoves == switches' = switches \/ switches' = switches + 1

\* Fewer callers ask no more than the attempts there are.
LEMMA BillKept ==
    ASSUME RoutineTypeOK, NEW s \in Slot, BillOK(s), Collecting(s)' \subseteq Collecting(s),
           billed'[s] = billed[s], run'[s].attempts >= run[s].attempts, run'[s].attempts \in Nat
    PROVE  BillOK(s)'
<1> DEFINE old == Collecting(s)
           new == Collecting(s)'
<1>1. IsFiniteSet(new) /\ Cardinality(new) <= Cardinality(old)
  BY FS_Subset DEF BillOK
<1>2. Cardinality(new) \in Nat /\ Cardinality(old) \in Nat
  BY <1>1, FS_CardinalityType DEF BillOK
<1>3. run[s].attempts \in Nat /\ billed[s] \in Nat
  BY RoutineAssumption DEF RoutineTypeOK, RunRow, RoutineAssumption
<1>4. billed[s] + Cardinality(old) <= run[s].attempts
  BY DEF BillOK
<1> HIDE DEF old, new
<1>5. billed[s] + Cardinality(new) <= run'[s].attempts
  BY <1>1, <1>2, <1>3, <1>4
<1> QED BY <1>1, <1>5 DEF BillOK, new

\* What a slot knows of the work its run left stays so where no consumer comes to the
\* work.
LEMMA WorkKept ==
    ASSUME RoutineTypeOK, NEW s \in Slot, WorkOK(s), RunMoves(s), s \notin overrun',
           \A w \in Runner : Working(w, s)' => Working(w, s), made'[s] = made[s]
    PROVE  WorkOK(s)'
<1>1. /\ made'[s] \in {0, 1}
      /\ \A v, w \in Runner : Working(v, s)' /\ Working(w, s)' => v = w
  BY DEF WorkOK
<1>2. made'[s] = 1 => run'[s].status \in Done
  BY DEF WorkOK, RunMoves, Done
<1>3. ASSUME NEW w \in Runner, Working(w, s)'
      PROVE  /\ made'[s] = 0
             /\ \/ run'[s].status \in {"skipped", "failed"}
                \/ run'[s].status = "running" /\ run'[s].lease
  BY <1>3 DEF WorkOK, RunMoves
<1> QED BY <1>1, <1>2, <1>3 DEF WorkOK

\* A skip that was allowed when its consumer set out is so until the gate has been
\* switched twice.
LEMMA SkipKept ==
    ASSUME RoutineTypeOK, NEW s \in Slot, switches >= 2 \/ SkipOK(s), RunMoves(s), NoneComes(s), GateMoves
    PROVE  switches' >= 2 \/ SkipOK(s)'
<1>1. switches \in Nat
  BY RoutineAssumption DEF RoutineTypeOK, RoutineAssumption
<1>2. CASE switches >= 2
  BY <1>1, <1>2 DEF GateMoves
<1>3. CASE switches < 2 /\ switches' < 2
  <2>1. ~GateOpen => ~GateOpen'
    <3>1. 0 % 2 = 0 /\ 1 % 2 = 1
      OBVIOUS
    <3>2. switches = 0 \/ switches = 1
      BY <1>1, <1>3
    <3>3. switches' = switches \/ (switches = 0 /\ switches' = 1)
      BY <1>3, <3>2 DEF GateMoves
    <3> QED BY <3>1, <3>3 DEF GateOpen
  <2>2. SkipOK(s)
    BY <1>1, <1>3
  <2>3. ASSUME NEW w \in Runner, Skipping(w, s)'
        PROVE  /\ run'[s].status # "completed"
               /\ ~GateOpen' \/ run'[s].attempts >= MaxRunAttempts
               /\ \A v \in Runner : ~Working(v, s)'
    BY <2>1, <2>2, <2>3 DEF SkipOK, RunMoves, NoneComes, Done
  <2> QED BY <2>3 DEF SkipOK
<1> QED BY <1>1, <1>2, <1>3 DEF GateMoves

\* The invariant of a slot survives every step by which no consumer comes to it.
LEMMA SlotKept ==
    ASSUME RunInv, NEW s \in Slot, RunMoves(s), NoneComes(s), GateMoves,
           made'[s] = made[s], billed'[s] = billed[s], s \in overrun => s \in overrun'
    PROVE  SlotInv(s)'
<1>1. RoutineTypeOK /\ SlotInv(s)
  BY DEF RunInv
<1>2. run[s].attempts \in Nat
  BY <1>1, RoutineAssumption DEF RoutineTypeOK, RunRow, RoutineAssumption
<1>3. BillOK(s)'
  BY <1>1, <1>2, BillKept DEF SlotInv, RunMoves, NoneComes
<1>4. s \notin overrun' => WorkOK(s)'
  BY <1>1, WorkKept DEF SlotInv, NoneComes
<1>5. s \notin overrun' => switches' >= 2 \/ SkipOK(s)'
  BY <1>1, SkipKept DEF SlotInv
<1> QED BY <1>3, <1>4, <1>5 DEF SlotInv

\* A consumer turns from a run, or goes on with what is no work.
LEMMA TurnsAway ==
    ASSUME RoutineTypeOK, NEW w \in Runner, NEW p \in Position, p.pc \notin {"collect", "work", "skip"},
           runner' = [runner EXCEPT ![w] = p]
    PROVE  runner' \in [Runner -> Position] /\ \A s \in Slot : NoneComes(s)
<1>1. runner' \in [Runner -> Position] /\ \A v \in Runner : runner'[v] = IF v = w THEN p ELSE runner[v]
  BY DEF RoutineTypeOK
<1> QED BY <1>1 DEF NoneComes, Working, Skipping, Collecting

\* At, as a position of its own.
LEMMA MovesTo ==
    ASSUME RoutineTypeOK, NEW w \in Runner, NEW pc, At(w, pc),
           pc \in {"work", "skip", "count", "reset", "ack"}
    PROVE  \E p \in Position : /\ p.pc = pc /\ p.slot = runner[w].slot
                               /\ runner' = [runner EXCEPT ![w] = p]
<1> DEFINE p == [runner[w] EXCEPT !.pc = pc]
<1>1. p \in Position /\ p.pc = pc /\ p.slot = runner[w].slot
  BY DEF RoutineTypeOK, Position
<1>2. runner' = [runner EXCEPT ![w] = p]
  BY DEF At, RoutineTypeOK
<1> HIDE DEF p
<1> QED BY <1>1, <1>2

\* Where consumers stand still none comes to a slot.
LEMMA NobodyComes ==
    ASSUME UNCHANGED runner
    PROVE  \A s \in Slot : NoneComes(s)
BY DEF NoneComes, Working, Skipping, Collecting

-----------------------------------------------------------------------------
\* Another trouble is within the bound of each.
LEMMA TroubleFits ==
    ASSUME RoutineTypeOK, Troubled
    PROVE  /\ switches + 1 \in 0..MaxTroubles /\ routine.edits + 1 \in 0..MaxTroubles
           /\ downs + 1 \in 0..MaxTroubles
<1>1. switches \in Nat /\ routine.edits \in Nat /\ downs \in Nat
  BY RoutineAssumption DEF RoutineTypeOK, RoutineAssumption
<1>2. switches + routine.edits + downs < MaxTroubles
  BY DEF Troubled
<1> DEFINE edits == routine.edits
<1> HIDE DEF edits
<1>3. /\ switches + 1 \in 0..MaxTroubles /\ edits + 1 \in 0..MaxTroubles
      /\ downs + 1 \in 0..MaxTroubles
  BY <1>1, <1>2, RoutineAssumption DEF RoutineAssumption, edits
<1> QED BY <1>3 DEF edits

\* At first no run exists and every consumer is free.
LEMMA RoutineInitEstablishes == RoutineInit => RunInv
<1> SUFFICES ASSUME RoutineInit PROVE RunInv
  OBVIOUS
<1> USE RoutineAssumption DEF RoutineAssumption
<1>1. Free \in Position
  BY DEF Free, Position, Slot
<1>2. RoutineTypeOK
  <2>1. 0 \in Slot /\ 1 \in 1..(Horizon + 1) /\ 0 \in 0..MaxTroubles
    BY DEF Slot
  <2>2. routine \in [enabled : BOOLEAN, next : 1..(Horizon + 1), failures : 0..MaxFailures,
                     edits : 0..MaxTroubles]
    BY <2>1 DEF RoutineInit, NextOccurrence
  <2>3. run \in [Slot -> RunRow]
    BY DEF RoutineInit, NoRun, RunRow
  <2> QED BY <1>1, <2>1, <2>2, <2>3 DEF RoutineInit, RoutineTypeOK
<1>3. ASSUME NEW s \in Slot PROVE SlotInv(s)
  <2>1. Collecting(s) = {}
    BY DEF RoutineInit, Collecting, Free
  <2>2. BillOK(s)
    BY <2>1, FS_EmptySet DEF BillOK, RoutineInit, NoRun
  <2>3. WorkOK(s) /\ SkipOK(s)
    BY DEF RoutineInit, WorkOK, SkipOK, Working, Skipping, Free
  <2> QED BY <2>2, <2>3 DEF SlotInv
<1> QED BY <1>2, <1>3 DEF RunInv

\* Time, people and the end of a crawl touch no run that anybody works on.
LEMMA OutsideStep ==
    ASSUME RunInv, Tick \/ SwitchGate \/ Upsert \/ Trigger \/ Schedule \/ CrawlEnds
    PROVE  RunInv'
<1> USE RoutineAssumption DEF RoutineAssumption
<1>1. RoutineTypeOK
  BY DEF RunInv
<1>2. UNCHANGED <<kind, runner, made, billed, overrun, downs>>
  BY DEF Tick, SwitchGate, Upsert, Trigger, Schedule, CrawlEnds
<1>3. clock' \in Slot /\ switches' \in 0..MaxTroubles /\ GateMoves
  <2>1. CASE Tick
    BY <1>1, <2>1 DEF Tick, RoutineTypeOK, Slot, GateMoves
  <2>2. CASE SwitchGate
    BY <1>1, <2>2, TroubleFits DEF SwitchGate, RoutineTypeOK, GateMoves
  <2>3. CASE Upsert \/ Trigger \/ Schedule \/ CrawlEnds
    BY <1>1, <2>3 DEF Upsert, Trigger, Schedule, CrawlEnds, RoutineTypeOK, GateMoves
  <2> QED BY <2>1, <2>2, <2>3
<1>4. routine' \in [enabled : BOOLEAN, next : 1..(Horizon + 1), failures : 0..MaxFailures,
                    edits : 0..MaxTroubles]
  <2>1. NextOccurrence(clock) \in 1..(Horizon + 1)
    BY <1>1 DEF RoutineTypeOK, Slot, NextOccurrence
  <2>2. CASE Upsert
    <3>1. routine.edits + 1 \in 0..MaxTroubles
      BY <1>1, <2>2, TroubleFits DEF Upsert
    <3> QED BY <1>1, <2>1, <2>2, <3>1 DEF Upsert, RoutineTypeOK
  <2>3. CASE Schedule
    BY <1>1, <2>1, <2>3 DEF Schedule, RoutineTypeOK
  <2>4. CASE Tick \/ SwitchGate \/ Trigger \/ CrawlEnds
    BY <1>1, <2>4 DEF Tick, SwitchGate, Trigger, CrawlEnds, RoutineTypeOK
  <2> QED BY <2>2, <2>3, <2>4
<1>5. /\ run' \in [Slot -> RunRow]
      /\ message' \subseteq Slot \X (1..(MaxRunAttempts + 1))
      /\ \A s \in Slot : RunMoves(s)
  <2>1. CASE UNCHANGED <<run, message>>
    BY <1>1, <2>1 DEF RoutineTypeOK, RunMoves
  <2>2. ASSUME NEW s \in Slot, run[s].status = "none", NEW st \in {"queued", "skipped"},
               run' = [run EXCEPT ![s].status = st], message' \subseteq message \cup {<<s, 1>>}
        PROVE  /\ run' \in [Slot -> RunRow]
               /\ message' \subseteq Slot \X (1..(MaxRunAttempts + 1))
               /\ \A q \in Slot : RunMoves(q)
    <3>1. 1 \in 1..(MaxRunAttempts + 1)
      OBVIOUS
    <3>2. message' \subseteq Slot \X (1..(MaxRunAttempts + 1))
      BY <1>1, <2>2, <3>1 DEF RoutineTypeOK
    <3> DEFINE new == [run[s] EXCEPT !.status = st]
    <3>3. run[s] \in RunRow /\ run' = [run EXCEPT ![s] = new]
      BY <1>1, <2>2 DEF RoutineTypeOK
    <3>4. new \in RunRow /\ new.status = st /\ new.attempts = run[s].attempts
      BY <3>3 DEF RunRow, Done
    <3> HIDE DEF new
    <3>5. run' \in [Slot -> RunRow] /\ \A q \in Slot : run'[q] = IF q = s THEN new ELSE run[q]
      BY <1>1, <3>3, <3>4 DEF RoutineTypeOK
    <3>6. s \notin overrun => \A w \in Runner : ~Working(w, s)
      BY <2>2 DEF RunInv, SlotInv, WorkOK
    <3> QED BY <1>2, <2>2, <3>2, <3>4, <3>5, <3>6 DEF RunMoves, Done
  <2>3. CASE Trigger
    <3>1. clock \in Slot
      BY <1>1 DEF RoutineTypeOK
    <3> QED BY <2>2, <2>3, <3>1 DEF Trigger
  <2>4. CASE Schedule
    <3>1. routine.next \in Slot
      BY <1>1, <2>4 DEF Schedule, RoutineTypeOK, Slot
    <3>2. CASE run[routine.next].status # "none"
      BY <2>1, <2>4, <3>2 DEF Schedule
    <3>3. CASE run[routine.next].status = "none"
      BY <2>2, <2>4, <3>1, <3>3 DEF Schedule
    <3> QED BY <3>2, <3>3
  <2> QED BY <2>1, <2>3, <2>4 DEF Tick, SwitchGate, Upsert, CrawlEnds
<1>6. RoutineTypeOK'
  <2>1. crawling' \in BOOLEAN
    BY <1>1 DEF Tick, SwitchGate, Upsert, Trigger, Schedule, CrawlEnds, RoutineTypeOK
  <2> QED BY <1>1, <1>2, <1>3, <1>4, <1>5, <2>1 DEF RoutineTypeOK
<1>7. ASSUME NEW s \in Slot PROVE SlotInv(s)'
  BY <1>2, <1>3, <1>5, NobodyComes, SlotKept
<1> QED BY <1>6, <1>7 DEF RunInv

\* What _finish leaves of the rows.
LEMMA FinishedRow ==
    ASSUME RoutineTypeOK, NEW s \in Slot, NEW st \in Done, run' = Finished(s, st)
    PROVE  /\ run' \in [Slot -> RunRow]
           /\ run'[s].status = st /\ run'[s].attempts = run[s].attempts
           /\ \A q \in Slot \ {s} : run'[q] = run[q]
<1> DEFINE new == [run[s] EXCEPT !.status = st, !.lease = FALSE]
<1>1. run[s] \in RunRow /\ run' = [run EXCEPT ![s] = new]
  BY DEF Finished, RoutineTypeOK
<1>2. new \in RunRow /\ new.status = st /\ new.attempts = run[s].attempts
  BY <1>1 DEF RunRow
<1> HIDE DEF new
<1> QED BY <1>1, <1>2 DEF RoutineTypeOK

\* The failures of the routine stay within what tells them apart.
LEMMA FailuresTyped ==
    ASSUME RoutineTypeOK, NEW st,
           UNCHANGED routine \/ routine' = [routine EXCEPT !.failures = Failures(st)]
    PROVE  routine' \in [enabled : BOOLEAN, next : 1..(Horizon + 1), failures : 0..MaxFailures,
                         edits : 0..MaxTroubles]
<1>1. Failures(st) \in 0..MaxFailures
  BY RoutineAssumption DEF RoutineAssumption, RoutineTypeOK, Failures
<1> HIDE DEF Failures
<1> QED BY <1>1 DEF RoutineTypeOK

\* A claim starts an attempt, and has the run to itself.
LEMMA ClaimStep ==
    ASSUME RunInv, NEW w \in Runner, NEW m \in message, ClaimRun(w, m)
    PROVE  RunInv'
<1> USE RoutineAssumption DEF RoutineAssumption
<1> DEFINE s == m[1]
           p == [pc |-> IF kind = "ai_citation_scan" THEN "collect" ELSE "work",
                 slot |-> s, event |-> m[2]]
           new == [run[s] EXCEPT !.status = "running", !.attempts = @ + 1, !.lease = TRUE]
<1>1. /\ RoutineTypeOK /\ s \in Slot /\ m[2] \in 1..(MaxRunAttempts + 1) /\ SlotInv(s)
      /\ runner[w].pc = "idle" /\ AwaitingWork(s) /\ GateOpen
      /\ run[s].attempts \in Nat /\ run[s].attempts < MaxRunAttempts
      /\ UNCHANGED <<kind, clock, switches, routine, message, crawling, made, billed, overrun, downs>>
  BY DEF RunInv, RoutineTypeOK, ClaimRun, Takeable, RunRow
<1>2. p \in Position /\ p.slot = s /\ p.pc \in {"collect", "work"}
  BY <1>1 DEF Position
<1>3. run' = [run EXCEPT ![s] = new] /\ runner' = [runner EXCEPT ![w] = p]
  BY <1>1 DEF ClaimRun, RoutineTypeOK
<1>4. new \in RunRow /\ new.status = "running" /\ new.lease /\ new.attempts = run[s].attempts + 1
  <2>1. run[s] \in RunRow
    BY <1>1 DEF RoutineTypeOK
  <2>2. run[s].attempts + 1 \in 0..MaxRunAttempts
    BY <1>1
  <2> QED BY <2>1, <2>2 DEF RunRow
<1> HIDE DEF p, new
<1>5. /\ run' \in [Slot -> RunRow] /\ \A q \in Slot : run'[q] = IF q = s THEN new ELSE run[q]
      /\ runner' \in [Runner -> Position]
      /\ \A v \in Runner : runner'[v] = IF v = w THEN p ELSE runner[v]
  BY <1>1, <1>2, <1>3, <1>4 DEF RoutineTypeOK
<1>6. RoutineTypeOK'
  BY <1>1, <1>5 DEF RoutineTypeOK
<1>7. ASSUME NEW q \in Slot, q # s PROVE SlotInv(q)'
  <2>1. NoneComes(q)
    BY <1>1, <1>2, <1>5, <1>7 DEF NoneComes, Working, Skipping, Collecting
  <2>2. RunMoves(q) /\ GateMoves
    BY <1>1, <1>5, <1>7 DEF RunMoves, GateMoves
  <2> QED BY <1>1, <2>1, <2>2, SlotKept
<1>8. BillOK(s)'
  <2> DEFINE old == Collecting(s)
             all == Collecting(s) \cup {w}
  <2>1. IsFiniteSet(old) /\ billed[s] + Cardinality(old) <= run[s].attempts
    BY <1>1 DEF SlotInv, BillOK
  <2>2. w \notin old
    BY <1>1 DEF Collecting
  <2>3. IsFiniteSet(all) /\ Cardinality(all) = Cardinality(old) + 1
    BY <2>1, <2>2, FS_AddElement
  <2>4. Collecting(s)' \subseteq all
    BY <1>5 DEF Collecting
  <2>5. IsFiniteSet(Collecting(s)') /\ Cardinality(Collecting(s)') <= Cardinality(all)
    BY <2>3, <2>4, FS_Subset
  <2>6. /\ Cardinality(old) \in Nat /\ Cardinality(Collecting(s)') \in Nat /\ billed[s] \in Nat
    BY <1>1, <2>1, <2>5, FS_CardinalityType DEF RoutineTypeOK
  <2> HIDE DEF old, all
  <2>7. billed'[s] = billed[s] /\ run'[s].attempts = run[s].attempts + 1
    BY <1>1, <1>4, <1>5
  <2> QED BY <1>1, <2>1, <2>3, <2>5, <2>6, <2>7 DEF BillOK
<1>9. s \notin overrun' => WorkOK(s)'
  <2> SUFFICES ASSUME s \notin overrun' PROVE WorkOK(s)'
    OBVIOUS
  <2>1. WorkOK(s)
    BY <1>1 DEF SlotInv
  <2>2. \A v \in Runner : ~Working(v, s)
    BY <1>1, <2>1 DEF WorkOK, AwaitingWork
  <2>3. made[s] = 0
    BY <1>1, <2>1 DEF WorkOK, AwaitingWork, Done
  <2>4. ASSUME NEW v \in Runner, Working(v, s)' PROVE v = w
    BY <1>5, <2>2, <2>4 DEF Working
  <2> QED BY <1>1, <1>4, <1>5, <2>3, <2>4 DEF WorkOK
<1>10. s \notin overrun' => switches' >= 2 \/ SkipOK(s)'
  <2> SUFFICES ASSUME s \notin overrun', ~(switches' >= 2) PROVE SkipOK(s)'
    OBVIOUS
  <2>1. SkipOK(s)
    BY <1>1 DEF SlotInv
  <2>2. \A v \in Runner : ~Skipping(v, s)
    BY <1>1, <2>1 DEF SkipOK
  <2>3. \A v \in Runner : ~Skipping(v, s)'
    BY <1>2, <1>5, <2>2 DEF Skipping
  <2> QED BY <2>3 DEF SkipOK
<1> QED BY <1>6, <1>7, <1>8, <1>9, <1>10 DEF RunInv, SlotInv

\* What a refused message and the ends of a run change: no run is worked on anew.
LEMMA AwayStep ==
    ASSUME RunInv, NEW w \in Runner,
           \/ \E m \in message : RefuseRun(w, m)
           \/ SkipRun(w) \/ FailRun(w) \/ Count(w) \/ AckRun(w) \/ GoDown(w)
    PROVE  RunInv'
<1> USE RoutineAssumption DEF RoutineAssumption
<1>1. RoutineTypeOK /\ runner[w] \in Position
  BY DEF RunInv, RoutineTypeOK
<1>2. /\ UNCHANGED <<kind, clock, switches, crawling, made, billed, overrun>> /\ message' \subseteq message
      /\ downs' \in 0..MaxTroubles
  BY <1>1, TroubleFits DEF RefuseRun, SkipRun, FailRun, Count, AckRun, GoDown, RoutineTypeOK
<1>3. \E p \in Position : /\ p.pc \notin {"collect", "work", "skip"}
                          /\ runner' = [runner EXCEPT ![w] = p]
  <2>1. CASE SkipRun(w) \/ FailRun(w) \/ Count(w)
    BY <1>1, <2>1, MovesTo DEF SkipRun, FailRun, Count
  <2>2. CASE AckRun(w) \/ GoDown(w)
    <3>1. Free \in Position /\ Free.pc = "idle"
      BY DEF Free, Position, Slot
    <3> QED BY <2>2, <3>1 DEF AckRun, GoDown
  <2>3. ASSUME NEW m \in message, RefuseRun(w, m)
        PROVE  \E p \in Position : /\ p.pc \notin {"collect", "work", "skip"}
                                   /\ runner' = [runner EXCEPT ![w] = p]
    <3> DEFINE p == [pc |-> "refused", slot |-> m[1], event |-> m[2]]
    <3>1. p \in Position /\ p.pc = "refused"
      BY <1>1 DEF RoutineTypeOK, Position
    <3>2. runner' = [runner EXCEPT ![w] = p]
      BY <2>3 DEF RefuseRun
    <3> HIDE DEF p
    <3> QED BY <3>1, <3>2
  <2> QED BY <2>1, <2>2, <2>3
<1>4. runner' \in [Runner -> Position] /\ \A s \in Slot : NoneComes(s)
  BY <1>1, <1>3, TurnsAway
<1>5. run' \in [Slot -> RunRow] /\ \A s \in Slot : RunMoves(s)
  <2>1. CASE UNCHANGED run
    BY <1>1, <2>1 DEF RoutineTypeOK, RunMoves
  <2>2. ASSUME NEW st \in {"skipped", "failed"}, run' = Finished(runner[w].slot, st)
        PROVE  run' \in [Slot -> RunRow] /\ \A s \in Slot : RunMoves(s)
    <3>1. runner[w].slot \in Slot /\ st \in Done
      BY <1>1 DEF Position, Done
    <3> QED BY <1>1, <2>2, <3>1, FinishedRow DEF RunMoves
  <2> QED BY <2>1, <2>2 DEF RefuseRun, SkipRun, FailRun, Count, AckRun, GoDown
<1>6. routine' \in [enabled : BOOLEAN, next : 1..(Horizon + 1), failures : 0..MaxFailures,
                    edits : 0..MaxTroubles]
  BY <1>1, FailuresTyped DEF RefuseRun, SkipRun, FailRun, Count, AckRun, GoDown
<1>7. RoutineTypeOK'
  BY <1>1, <1>2, <1>4, <1>5, <1>6 DEF RoutineTypeOK
<1>8. ASSUME NEW s \in Slot PROVE SlotInv(s)'
  BY <1>2, <1>4, <1>5, SlotKept DEF GateMoves
<1> QED BY <1>7, <1>8 DEF RunInv

\* Only a run that nobody can take, and nobody works on, is said to be skipped.
LEMMA ExplainStep ==
    ASSUME RunInv, NEW w \in Runner, Explain(w)
    PROVE  RunInv'
<1>1. /\ RoutineTypeOK /\ runner[w].pc = "refused"
      /\ UNCHANGED <<kind, clock, switches, routine, run, message, crawling, made, billed, overrun,
                     downs>>
  BY DEF RunInv, Explain
<1>0. PICK s \in Slot : s = runner[w].slot
  BY <1>1 DEF RoutineTypeOK, Position
<1> DEFINE pc == IF AwaitingWork(s) /\ (~GateOpen \/ run[s].attempts >= MaxRunAttempts)
                 THEN "skip" ELSE "ack"
<1>2. PICK p \in Position : p.pc = pc /\ p.slot = s /\ runner' = [runner EXCEPT ![w] = p]
  BY <1>0, <1>1, MovesTo DEF Explain
<1>3. /\ s \in Slot /\ runner' \in [Runner -> Position]
      /\ \A v \in Runner : runner'[v] = IF v = w THEN p ELSE runner[v]
  BY <1>1, <1>2 DEF RoutineTypeOK, Position
<1>4. RoutineTypeOK'
  BY <1>1, <1>3 DEF RoutineTypeOK
<1>5. ASSUME NEW q \in Slot
      PROVE  /\ RunMoves(q) /\ GateMoves /\ Collecting(q)' \subseteq Collecting(q)
             /\ \A v \in Runner : Working(v, q)' => Working(v, q)
             /\ \A v \in Runner : Skipping(v, q)' => Skipping(v, q) \/ (v = w /\ q = s /\ pc = "skip")
  BY <1>0, <1>1, <1>2, <1>3 DEF RunMoves, GateMoves, Collecting, Working, Skipping
<1>6. ASSUME NEW q \in Slot PROVE SlotInv(q)'
  <2>1. CASE q # s \/ pc = "ack"
    BY <1>1, <1>5, <2>1, SlotKept DEF NoneComes
  <2>2. CASE q = s /\ pc = "skip"
    <3>1. SlotInv(s) /\ AwaitingWork(s) /\ (~GateOpen \/ run[s].attempts >= MaxRunAttempts)
      BY <1>3, <2>2 DEF RunInv
    <3>2. run[s].attempts \in Nat
      BY <1>1, <1>3, RoutineAssumption DEF RoutineTypeOK, RunRow, RoutineAssumption
    <3>3. BillOK(s)'
      BY <1>1, <1>3, <1>5, <3>1, <3>2, BillKept DEF SlotInv
    <3>4. s \notin overrun' => WorkOK(s)'
      BY <1>1, <1>3, <1>5, <3>1, WorkKept DEF SlotInv
    <3>5. s \notin overrun' => SkipOK(s)'
      <4> SUFFICES ASSUME s \notin overrun' PROVE SkipOK(s)'
        OBVIOUS
      <4>1. \A v \in Runner : ~Working(v, s)
        BY <1>1, <3>1 DEF SlotInv, WorkOK, AwaitingWork
      <4>2. \A v \in Runner : ~Working(v, s)'
        BY <1>3, <1>5, <4>1
      <4>3. run'[s].status # "completed" /\ (~GateOpen' \/ run'[s].attempts >= MaxRunAttempts)
        BY <1>1, <3>1 DEF AwaitingWork, GateOpen
      <4> QED BY <4>2, <4>3 DEF SkipOK
    <3> QED BY <2>2, <3>3, <3>4, <3>5 DEF SlotInv
  <2> QED BY <2>1, <2>2
<1> QED BY <1>4, <1>6 DEF RunInv

\* Asking the models turns a call to come into one that is billed.
LEMMA CollectStep ==
    ASSUME RunInv, NEW w \in Runner, Collect(w)
    PROVE  RunInv'
<1>1. /\ RoutineTypeOK /\ runner[w].pc = "collect"
      /\ UNCHANGED <<kind, clock, switches, routine, run, message, crawling, made, overrun, downs>>
  BY DEF RunInv, Collect
<1>0. PICK s \in Slot : s = runner[w].slot
  BY <1>1 DEF RoutineTypeOK, Position
<1>2. PICK p \in Position : p.pc = "work" /\ p.slot = s /\ runner' = [runner EXCEPT ![w] = p]
  BY <1>0, <1>1, MovesTo DEF Collect
<1>3. /\ runner' \in [Runner -> Position]
      /\ \A v \in Runner : runner'[v] = IF v = w THEN p ELSE runner[v]
  BY <1>1, <1>2 DEF RoutineTypeOK
<1>4. billed[s] \in Nat /\ billed' = [billed EXCEPT ![s] = billed[s] + 1]
  BY <1>0, <1>1 DEF RoutineTypeOK, Collect
<1>5. billed' \in [Slot -> Nat] /\ \A q \in Slot : billed'[q] = IF q = s THEN billed[s] + 1 ELSE billed[q]
  BY <1>1, <1>4 DEF RoutineTypeOK
<1>6. RoutineTypeOK'
  BY <1>1, <1>3, <1>5 DEF RoutineTypeOK
<1>7. ASSUME NEW q \in Slot PROVE RunMoves(q) /\ GateMoves /\ NoneComes(q)
  BY <1>0, <1>1, <1>2, <1>3 DEF RunMoves, GateMoves, NoneComes, Working, Skipping, Collecting
<1>8. BillOK(s)'
  <2> DEFINE old == Collecting(s)
             new == Collecting(s)'
  <2>1. IsFiniteSet(old) /\ billed[s] + Cardinality(old) <= run[s].attempts
    BY <1>1 DEF RunInv, SlotInv, BillOK
  <2>2. w \in old /\ new = old \ {w}
    BY <1>0, <1>1, <1>2, <1>3 DEF Collecting
  <2>3. IsFiniteSet(new) /\ Cardinality(new) = Cardinality(old) - 1
    BY <2>1, <2>2, FS_RemoveElement
  <2>4. Cardinality(old) \in Nat /\ run[s].attempts \in Nat
    BY <1>1, <2>1, FS_CardinalityType, RoutineAssumption DEF RoutineTypeOK, RunRow, RoutineAssumption
  <2> HIDE DEF old, new
  <2>5. billed'[s] + Cardinality(new) <= run'[s].attempts
    BY <1>1, <1>4, <1>5, <2>1, <2>3, <2>4
  <2> QED BY <2>3, <2>5 DEF BillOK, new
<1>9. ASSUME NEW q \in Slot PROVE SlotInv(q)'
  <2>1. BillOK(q)'
    <3>1. CASE q = s
      BY <1>8, <3>1
    <3>2. CASE q # s
      <4>1. run[q].attempts \in Nat
        BY <1>1, RoutineAssumption DEF RoutineTypeOK, RunRow, RoutineAssumption
      <4> QED BY <1>1, <1>5, <1>7, <3>2, <4>1, BillKept DEF RunInv, SlotInv, NoneComes
    <3> QED BY <3>1, <3>2
  <2>2. q \notin overrun' => WorkOK(q)'
    BY <1>1, <1>7, WorkKept DEF RunInv, SlotInv, NoneComes
  <2>3. q \notin overrun' => switches' >= 2 \/ SkipOK(q)'
    BY <1>1, <1>7, SkipKept DEF RunInv, SlotInv
  <2> QED BY <2>1, <2>2, <2>3 DEF SlotInv
<1> QED BY <1>6, <1>9 DEF RunInv

\* What a transaction leaves is a number, and one piece of work at most where
\* there was none.
LEMMA LeavesOne ==
    ASSUME RoutineTypeOK, NEW s \in Slot
    PROVE  Leaves(s) \in Nat /\ (made[s] = 0 => Leaves(s) \in {0, 1})
<1>1. made[s] \in Nat /\ kind \in Kind
  BY DEF RoutineTypeOK
<1>2. Leaves(s) \in {made[s], made[s] + 1, 1}
  BY <1>1 DEF Kind, Leaves, AuditLeaves, SyncLeaves, RefreshLeaves, BriefsLeave, CompetitorsLeave,
              VisibilityLeaves, ScanLeaves, CoverageLeaves, ReportLeaves
<1> QED BY <1>1, <1>2

\* The consumer at work is the only one, and leaves the run with its work.
LEMMA PerformStep ==
    ASSUME RunInv, NEW w \in Runner, Perform(w)
    PROVE  RunInv'
<1>1. /\ RoutineTypeOK /\ runner[w].pc = "work" /\ At(w, "ack")
      /\ UNCHANGED <<kind, clock, switches, message, billed, overrun, downs>>
      /\ routine' = [routine EXCEPT !.failures = Failures("completed")]
  BY DEF RunInv, Perform
<1>0. PICK s \in Slot : s = runner[w].slot
  BY <1>1 DEF RoutineTypeOK, Position
<1>2. PICK p \in Position : p.pc = "ack" /\ p.slot = s /\ runner' = [runner EXCEPT ![w] = p]
  BY <1>0, <1>1, MovesTo
<1>3. /\ runner' \in [Runner -> Position] /\ \A q \in Slot : NoneComes(q)
      /\ \A v \in Runner : runner'[v] = IF v = w THEN p ELSE runner[v]
  BY <1>1, <1>2, TurnsAway DEF RoutineTypeOK
<1>4. PICK st \in {"skipped", "completed"} : run' = Finished(s, st)
  BY <1>0 DEF Perform
<1>5. /\ run' \in [Slot -> RunRow] /\ run'[s].status = st /\ run'[s].attempts = run[s].attempts
      /\ \A q \in Slot \ {s} : run'[q] = run[q]
  BY <1>1, <1>4, FinishedRow DEF Done
<1>6. PICK n \in Nat : /\ made' = [made EXCEPT ![s] = n]
                       /\ made[s] = 0 => n \in {0, 1}
  <2>1. CASE made' = [made EXCEPT ![s] = Leaves(s)]
    BY <1>1, <2>1, LeavesOne
  <2>2. CASE made' = made
    BY <1>1, <2>2 DEF RoutineTypeOK
  <2> QED BY <1>0, <2>1, <2>2 DEF Perform
<1>7. made' \in [Slot -> Nat] /\ \A q \in Slot : made'[q] = IF q = s THEN n ELSE made[q]
  BY <1>1, <1>6 DEF RoutineTypeOK
<1>8. RoutineTypeOK'
  <2>1. crawling' \in BOOLEAN
    BY <1>1 DEF Perform, RoutineTypeOK
  <2> QED BY <1>1, <1>3, <1>5, <1>7, <2>1, FailuresTyped DEF RoutineTypeOK
<1>9. ASSUME NEW q \in Slot, q # s PROVE SlotInv(q)'
  BY <1>1, <1>3, <1>5, <1>7, <1>9, SlotKept DEF RunMoves, GateMoves
<1>10. SlotInv(s)'
  <2>1. SlotInv(s) /\ Working(w, s)
    BY <1>0, <1>1 DEF RunInv, Working
  <2>2. run[s].attempts \in Nat
    BY <1>1, RoutineAssumption DEF RoutineTypeOK, RunRow, RoutineAssumption
  <2>3. BillOK(s)'
    BY <1>1, <1>3, <1>5, <2>1, <2>2, BillKept DEF SlotInv, NoneComes
  <2>4. ASSUME s \notin overrun' PROVE WorkOK(s)'
    <3>1. WorkOK(s) /\ made[s] = 0
      BY <1>1, <2>1, <2>4 DEF SlotInv, WorkOK
    <3>2. \A v \in Runner : ~Working(v, s)'
      <4>1. \A v \in Runner : Working(v, s) => v = w
        BY <2>1, <3>1 DEF WorkOK
      <4>2. ~Working(w, s)'
        BY <1>2, <1>3 DEF Working
      <4> QED BY <1>3, <4>1, <4>2 DEF NoneComes
    <3>3. made'[s] \in {0, 1} /\ run'[s].status \in Done
      BY <1>5, <1>6, <1>7, <3>1 DEF Done
    <3> QED BY <3>2, <3>3 DEF WorkOK
  <2>5. ASSUME s \notin overrun', switches' < 2 PROVE SkipOK(s)'
    <3>1. SkipOK(s)
      BY <1>1, <2>1, <2>5 DEF SlotInv, RoutineTypeOK
    <3>2. \A v \in Runner : ~Skipping(v, s)'
      BY <1>3, <2>1, <3>1 DEF SkipOK, NoneComes
    <3> QED BY <3>2 DEF SkipOK
  <2>6. switches' >= 2 \/ switches' < 2
    BY <1>8 DEF RoutineTypeOK
  <2> QED BY <2>3, <2>4, <2>5, <2>6 DEF SlotInv
<1> QED BY <1>8, <1>9, <1>10 DEF RunInv

\* A lapse under a consumer at work is remembered, and the reaper takes up only
\* runs whose lease has lapsed.
LEMMA LeaseStep ==
    ASSUME RunInv, NEW s \in Slot, LapseRun(s) \/ ReapRun(s)
    PROVE  RunInv'
<1>1. /\ RoutineTypeOK /\ SlotInv(s) /\ run[s].status = "running"
      /\ UNCHANGED <<kind, clock, switches, routine, runner, crawling, made, billed, downs>>
  BY DEF RunInv, LapseRun, ReapRun
<1>2. /\ overrun \subseteq overrun' /\ overrun' \subseteq Slot
      /\ message' \subseteq Slot \X (1..(MaxRunAttempts + 1))
  <2>1. CASE LapseRun(s)
    BY <1>1, <2>1 DEF LapseRun, RoutineTypeOK
  <2>2. CASE ReapRun(s) /\ run[s].attempts < MaxRunAttempts
    <3>1. run[s].attempts + 1 \in 1..(MaxRunAttempts + 1)
      BY <1>1, RoutineAssumption DEF RoutineTypeOK, RunRow, RoutineAssumption
    <3> QED BY <1>1, <2>2, <3>1 DEF ReapRun, Requeued, RoutineTypeOK
  <2>3. CASE ReapRun(s) /\ ~(run[s].attempts < MaxRunAttempts)
    BY <1>1, <2>3 DEF ReapRun, RoutineTypeOK
  <2> QED BY <2>1, <2>2, <2>3
<1>3. run' \in [Slot -> RunRow] /\ \A q \in Slot : RunMoves(q)
  <2>1. run[s] \in RunRow
    BY <1>1 DEF RoutineTypeOK
  <2>2. ASSUME NEW new \in RunRow, run' = [run EXCEPT ![s] = new],
               new.attempts = run[s].attempts, new.status \in {"queued", "running"},
               s \notin overrun' => \A w \in Runner : ~Working(w, s)
        PROVE  run' \in [Slot -> RunRow] /\ \A q \in Slot : RunMoves(q)
    <3>1. run' \in [Slot -> RunRow] /\ \A q \in Slot : run'[q] = IF q = s THEN new ELSE run[q]
      BY <1>1, <2>2 DEF RoutineTypeOK
    <3> QED BY <1>1, <2>2, <3>1 DEF RunMoves, Done
  <2>3. CASE LapseRun(s)
    <3> DEFINE new == [run[s] EXCEPT !.lease = FALSE]
    <3>1. run' = [run EXCEPT ![s] = new]
      BY <2>3 DEF LapseRun
    <3>2. new \in RunRow /\ new.attempts = run[s].attempts /\ new.status \in {"queued", "running"}
      BY <1>1, <2>1 DEF RunRow
    <3>3. s \notin overrun' => \A w \in Runner : ~Working(w, s)
      BY <2>3 DEF LapseRun, AtWork, Working
    <3> HIDE DEF new
    <3> QED BY <2>2, <3>1, <3>2, <3>3
  <2>4. CASE ReapRun(s) /\ run[s].attempts < MaxRunAttempts
    <3> DEFINE new == [run[s] EXCEPT !.status = "queued"]
    <3>1. run' = [run EXCEPT ![s] = new]
      BY <2>4 DEF ReapRun
    <3>2. new \in RunRow /\ new.attempts = run[s].attempts /\ new.status \in {"queued", "running"}
      BY <1>1, <2>1 DEF RunRow
    <3>3. s \notin overrun' => \A w \in Runner : ~Working(w, s)
      BY <1>1, <1>2, <2>4 DEF ReapRun, SlotInv, WorkOK
    <3> HIDE DEF new
    <3> QED BY <2>2, <3>1, <3>2, <3>3
  <2>5. CASE ReapRun(s) /\ ~(run[s].attempts < MaxRunAttempts)
    BY <1>1, <2>5, FinishedRow DEF ReapRun, RunMoves, Done
  <2> QED BY <2>3, <2>4, <2>5
<1>4. RoutineTypeOK'
  BY <1>1, <1>2, <1>3 DEF RoutineTypeOK
<1>5. ASSUME NEW q \in Slot PROVE SlotInv(q)'
  BY <1>1, <1>2, <1>3, NobodyComes, SlotKept DEF GateMoves
<1> QED BY <1>4, <1>5 DEF RunInv

\* A step that changes nothing.
LEMMA RunStutter == RunInv /\ UNCHANGED routineVars => RunInv'
BY DEF RunInv, RoutineTypeOK, SlotInv, BillOK, WorkOK, SkipOK, Working, Skipping, Collecting, AwaitingWork,
       GateOpen, routineVars

-----------------------------------------------------------------------------
\* RunInv is inductive, and holds in every state of the specification.
THEOREM RoutineInvariance == RoutineSpec => []RunInv
<1>1. RunInv /\ [RoutineNext]_routineVars => RunInv'
  BY OutsideStep, ClaimStep, AwayStep, ExplainStep, CollectStep, PerformStep, LeaseStep, RunStutter
     DEF RoutineNext
<1> QED BY <1>1, RoutineInitEstablishes, PTL DEF RoutineSpec

\* Every variable of a routine keeps its type, whatever the number of consumers,
\* minutes, attempts and troubles.
THEOREM RoutineTypeCorrect == RoutineSpec => []RoutineTypeOK
<1>1. RunInv => RoutineTypeOK
  BY DEF RunInv
<1> QED BY <1>1, RoutineInvariance, PTL

\* A run bills the models no more often than it may be attempted and leaves one
\* piece of work behind, unless its lease lapsed under a consumer at work.
THEOREM RepeatTheorem == RoutineSpec => []WorkIsNotRepeated
<1>1. RunInv => WorkIsNotRepeated
  <2> SUFFICES ASSUME RunInv, NEW s \in Slot
               PROVE  /\ billed[s] <= run[s].attempts /\ run[s].attempts <= MaxRunAttempts
                      /\ s \notin overrun => made[s] <= 1
    BY DEF WorkIsNotRepeated
  <2>1. /\ BillOK(s) /\ billed[s] \in Nat /\ run[s].attempts \in 0..MaxRunAttempts
        /\ s \notin overrun => made[s] \in {0, 1}
    BY DEF RunInv, SlotInv, WorkOK, RoutineTypeOK, RunRow
  <2>2. Cardinality(Collecting(s)) \in Nat
    BY <2>1, FS_CardinalityType DEF BillOK
  <2>3. billed[s] <= run[s].attempts
    BY <2>1, <2>2, RoutineAssumption DEF BillOK, RoutineAssumption
  <2> QED BY <2>1, <2>3, RoutineAssumption DEF RoutineAssumption
<1> QED BY <1>1, RoutineInvariance, PTL

\* A completed run is never overwritten, by a second consumer, a skip, a lapse or
\* the reaper, unless its lease lapsed under a consumer at work or the gate has
\* been switched twice.
THEOREM CompletedTheorem == RoutineSpec => CompletedStays
<1>1. ASSUME RunInv, [RoutineNext]_routineVars, NEW s \in Slot,
             run[s].status = "completed", s \notin overrun, switches < 2
      PROVE  run'[s] = run[s]
  <2>1. RoutineTypeOK /\ SlotInv(s) /\ ~(switches >= 2)
    BY <1>1 DEF RunInv, RoutineTypeOK
  <2>2. \A w \in Runner : ~Working(w, s) /\ ~Skipping(w, s)
    BY <1>1, <2>1 DEF SlotInv, WorkOK, SkipOK
  <2>3. ASSUME NEW q \in Slot, q # s, NEW st, run' = Finished(q, st) PROVE run'[s] = run[s]
    BY <2>1, <2>3 DEF Finished, RoutineTypeOK
  <2>4. ASSUME NEW w \in Runner, SkipRun(w) \/ Perform(w) \/ FailRun(w) PROVE run'[s] = run[s]
    <3>1. runner[w].slot \in Slot /\ runner[w].slot # s
      BY <2>1, <2>2, <2>4 DEF RoutineTypeOK, Position, SkipRun, Perform, FailRun, Working, Skipping
    <3> QED BY <2>3, <2>4, <3>1 DEF SkipRun, Perform, FailRun
  <2>5. CASE Trigger \/ Schedule
    BY <1>1, <2>1, <2>5 DEF Trigger, Schedule, RoutineTypeOK
  <2>6. ASSUME NEW w \in Runner, NEW m \in message, ClaimRun(w, m) PROVE run'[s] = run[s]
    BY <1>1, <2>1, <2>6 DEF ClaimRun, Takeable, AwaitingWork, RoutineTypeOK
  <2>7. ASSUME NEW q \in Slot, LapseRun(q) \/ ReapRun(q) PROVE run'[s] = run[s]
    BY <1>1, <2>1, <2>7 DEF LapseRun, ReapRun, Finished, RoutineTypeOK
  <2> QED BY <1>1, <2>4, <2>5, <2>6, <2>7
             DEF RoutineNext, routineVars, Tick, SwitchGate, Upsert, CrawlEnds, RefuseRun, Explain,
                 Collect, Count, AckRun, GoDown
<1>2. RunInv /\ [RoutineNext]_routineVars =>
        [\A s \in Slot : run[s].status = "completed" /\ s \notin overrun /\ switches < 2
            => run'[s] = run[s]]_routineVars
  BY <1>1
<1> QED BY <1>2, RoutineInvariance, PTL DEF RoutineSpec, CompletedStays
=============================================================================
