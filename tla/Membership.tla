----------------------------- MODULE Membership -----------------------------
(***************************************************************************)
(* Who is in a workspace: invitations, their acceptance at sign-in, and    *)
(* the requests that change or remove a member under row locks.            *)
(*                                                                         *)
(* Source: api/app/services/membership.py, identity.py.                    *)
(*                                                                         *)
(* A request carries the role its actor had when it began.  _membership    *)
(* locks the row it changes until the request commits; the count of the    *)
(* owners that would remain locks each row it meets, one after another,    *)
(* and looks at a row again once it has waited for it.                     *)
(***************************************************************************)
EXTENDS Integers, FiniteSets

CONSTANTS
    Person,    \* people, each with at most one membership of the workspace
    Founder,   \* the person who created the workspace
    Requester,   \* requests in flight
    Nobody     \* no person, no request

ASSUME MembershipAssumption ==
    Founder \in Person /\ Nobody \notin Person /\ Nobody \notin Requester

VARIABLES
    member,      \* [Person -> row of tenant_membership]
    invitation,  \* [Person -> the role in the open invitation to their address, or none]
    request,     \* [Requester -> what it does and where it stands]
    holder       \* [Person -> the request that has the row of the membership locked]

memberVars == <<member, invitation, request, holder>>

Role == {"owner", "admin", "other"}
Granting == {"owner", "admin"}
Member == [status : {"none", "active", "suspended"}, role : Role]
\* to is the role to give, or "out" to remove the member.
Ticket == [pc : {"idle", "lock", "count", "commit"}, as : Role, by : Person, target : Person,
           to : Role \cup {"out"}, rest : SUBSET Person, next : Person \cup {Nobody},
           remaining : SUBSET Person]
NoTicket == [pc |-> "idle", as |-> "other", by |-> Founder, target |-> Founder, to |-> "out",
             rest |-> {}, next |-> Nobody, remaining |-> {}]

MemberInit ==
    /\ member = [p \in Person |-> IF p = Founder THEN [status |-> "active", role |-> "owner"]
                                  ELSE [status |-> "none", role |-> "other"]]
    /\ invitation = [p \in Person |-> "none"]
    /\ request = [r \in Requester |-> NoTicket]
    /\ holder = [p \in Person |-> Nobody]

IsOwner(p) == member[p].status = "active" /\ member[p].role = "owner"
Owners == {p \in Person : IsOwner(p)}

-----------------------------------------------------------------------------
(* Invitations.                                                            *)

\* _may_grant: only an owner makes an owner.
MayGrant(as, role) == as \in Granting /\ (role = "owner" => as = "owner")

\* invite: refused to anyone with a membership, a suspended one included, and to
\* an address with an open invitation.
Invite(by, p) ==
    /\ member[by].status = "active" /\ member[p].status = "none" /\ invitation[p] = "none"
    /\ \E role \in Role :
          /\ MayGrant(member[by].role, role)
          /\ invitation' = [invitation EXCEPT ![p] = role]
    /\ UNCHANGED <<member, request, holder>>

\* revoke_invitation, or seven days.
Withdraw(p) ==
    /\ invitation[p] # "none"
    /\ invitation' = [invitation EXCEPT ![p] = "none"]
    /\ UNCHANGED <<member, request, holder>>

\* _accept_open_invitations: the next request of the person invited.
Accept(p) ==
    /\ invitation[p] # "none" /\ member[p].status = "none"
    /\ member' = [member EXCEPT ![p] = [status |-> "active", role |-> invitation[p]]]
    /\ invitation' = [invitation EXCEPT ![p] = "none"]
    /\ UNCHANGED <<request, holder>>

-----------------------------------------------------------------------------
(* Changing and removing members.                                          *)

\* change_role and remove: the actor is resolved, and nobody is locked yet.
Begin(r, by, target) ==
    /\ request[r].pc = "idle" /\ member[by].status = "active" /\ by # target
    /\ \E to \in Role \cup {"out"} :
          /\ IF to = "out" THEN member[by].role \in Granting ELSE MayGrant(member[by].role, to)
          /\ request' = [request EXCEPT ![r] = [NoTicket EXCEPT !.pc = "lock", !.to = to,
                             !.as = member[by].role, !.by = by, !.target = target]]
    /\ UNCHANGED <<member, invitation, holder>>

\* The end of a request, whatever came of it, releases its locks.
Release(r) ==
    /\ request' = [request EXCEPT ![r] = NoTicket]
    /\ holder' = [p \in Person |-> IF holder[p] = r THEN Nobody ELSE holder[p]]

\* The lock _membership waits for, once it is free: the row may have changed.
\* _may_act_on: only an owner changes an owner.
Refused(r) ==
    LET t == request[r].target IN
    member[t].status # "active" \/ (IsOwner(t) /\ request[r].as # "owner")

LosesOwner(r) == IsOwner(request[r].target) /\ request[r].to # "owner"

LockTarget(r) ==
    LET t == request[r].target
        others == Owners \ {t} IN
    /\ request[r].pc = "lock" /\ holder[t] = Nobody
    /\ IF Refused(r) THEN Release(r)
       ELSE /\ holder' = [holder EXCEPT ![t] = r]
            /\ IF ~LosesOwner(r) THEN request' = [request EXCEPT ![r].pc = "commit"]
               ELSE \E first \in IF others = {} THEN {Nobody} ELSE others :
                       request' = [request EXCEPT ![r].pc = "count", ![r].next = first,
                                                  ![r].rest = others \ {first}]
    /\ UNCHANGED <<member, invitation>>

\* Mutant of Takes: a bare count, which waits for nobody.
TakesUnlocked(r) == holder' = holder /\ holder[request[r].target] = r

\* SELECT ... FOR UPDATE: a row another request has locked is waited for.
Takes(r) ==
    LET p == request[r].next IN
    /\ holder[p] = Nobody
    /\ holder' = [holder EXCEPT ![p] = r]

\* _refuse_last_owner: one of the owners that would remain, if it still is one.
CountOwner(r) ==
    LET p == request[r].next
        rest == request[r].rest IN
    /\ request[r].pc = "count" /\ p # Nobody
    /\ Takes(r)
    /\ \E next \in IF rest = {} THEN {Nobody} ELSE rest :
          request' = [request EXCEPT ![r].next = next, ![r].rest = rest \ {next},
                         ![r].remaining = IF IsOwner(p) THEN @ \cup {p} ELSE @]
    /\ UNCHANGED <<member, invitation>>

\* tenant_would_have_no_owner, or on to the change.
Counted(r) ==
    /\ request[r].pc = "count" /\ request[r].next = Nobody
    /\ IF request[r].remaining = {} THEN Release(r)
       ELSE request' = [request EXCEPT ![r].pc = "commit"] /\ holder' = holder
    /\ UNCHANGED <<member, invitation>>

\* Mutant of Changed: a removal is written as a role.
ChangedRole(t, to) == [member EXCEPT ![t].role = to]

\* The row stays: the audit trail and old proposals name its person.
Changed(t, to) ==
    IF to = "out" THEN [member EXCEPT ![t].status = "suspended"] ELSE [member EXCEPT ![t].role = to]

Commit(r) ==
    /\ request[r].pc = "commit"
    /\ member' = Changed(request[r].target, request[r].to)
    /\ Release(r)
    /\ UNCHANGED invitation

\* The row a request waits for.
Wanted(r) == CASE request[r].pc = "lock" -> request[r].target
               [] request[r].pc = "count" -> request[r].next
               [] OTHER -> Nobody
WaitsFor(r, q) == Wanted(r) # Nobody /\ holder[Wanted(r)] = q
InCycle(r) == \E S \in SUBSET Requester :
                 r \in S /\ \A q \in S : \E p, o \in S : WaitsFor(q, p) /\ WaitsFor(o, q)

\* PostgreSQL finds a circle of requests that wait for each other and ends one.
BreakDeadlock(r) ==
    /\ InCycle(r)
    /\ Release(r)
    /\ UNCHANGED <<member, invitation>>

MemberNext ==
    \/ \E p \in Person : Withdraw(p) \/ Accept(p)
    \/ \E by, p \in Person : Invite(by, p)
    \/ \E r \in Requester, by, target \in Person : Begin(r, by, target)
    \/ \E r \in Requester : LockTarget(r) \/ CountOwner(r) \/ Counted(r) \/ Commit(r) \/ BreakDeadlock(r)

MemberSpec == MemberInit /\ [][MemberNext]_memberVars

-----------------------------------------------------------------------------
(* Properties.                                                             *)

MemberTypeOK ==
    /\ member \in [Person -> Member]
    /\ invitation \in [Person -> Role \cup {"none"}]
    /\ request \in [Requester -> Ticket]
    /\ holder \in [Person -> Requester \cup {Nobody}]

\* A workspace never loses its last owner, two owners who demote each other at
\* the same moment included, and actors whose role is no longer what it was.
OwnerRemains == Owners # {}
=============================================================================
