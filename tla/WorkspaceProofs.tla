--------------------------- MODULE WorkspaceProofs ---------------------------
(***************************************************************************)
(* Proofs about what people do in a workspace at the same moment, for      *)
(* every set of people and of requests.                                    *)
(*                                                                         *)
(* Membership: OwnerRemains is not inductive.  What keeps it is that a     *)
(* request that takes an owner away holds the row locks of that owner and  *)
(* of the ones it counted, so that none of them can change before it       *)
(* commits.                                                                *)
(*                                                                         *)
(* Conversation: that questions and answers alternate rests on the unique  *)
(* number a transaction holds (SlotInv): only one that read the last       *)
(* number can go on.  What the agent may do rests on what each post has    *)
(* done so far (PostInv).                                                  *)
(*                                                                         *)
(* Calibration: the unique indexes see the rows of open transactions too   *)
(* (IndexInv).                                                             *)
(*                                                                         *)
(* Citations: a limit that is read and then acted on is exceeded by what   *)
(* overlaps and no more.  The requests that found room count beside the    *)
(* questions there are (QuestionsInv), and the calls that scans at work    *)
(* may still make beside what was billed (ScanInv).                        *)
(*                                                                         *)
(* The parts together: in MCWorkspace one part moves at a time, and each   *)
(* moves as it does alone (PartsAlone).  The drafts are the instance Money *)
(* there; what is proved of ContentDrafts is taken over as MoneyFacts.     *)
(***************************************************************************)
EXTENDS MCWorkspace, FiniteSetTheorems, TLAPS

-----------------------------------------------------------------------------
(* Membership.                                                             *)

\* Between its first lock and its commit a request has the row of its target,
\* who stays an active member.
TargetIsHeld ==
    \A r \in Requester : request[r].pc \in {"count", "commit"} =>
       /\ holder[request[r].target] = r
       /\ member[request[r].target].status = "active"

\* Whoever was counted as remaining is still an owner, and their row is held.
CountedAreHeld ==
    \A r \in Requester : \A p \in request[r].remaining :
       holder[p] = r /\ IsOwner(p) /\ p # request[r].target

\* A request about to take an owner away has counted another one.
SomeoneRemains ==
    \A r \in Requester : request[r].pc = "commit" /\ LosesOwner(r) => request[r].remaining # {}

\* The inductive invariant.
MemberInv == MemberTypeOK /\ TargetIsHeld /\ CountedAreHeld /\ SomeoneRemains /\ OwnerRemains

-----------------------------------------------------------------------------
\* The founder owns the new workspace, and nobody asks for anything yet.
LEMMA MemberInitEstablishes == MemberInit => MemberInv
BY MembershipAssumption DEF MembershipAssumption, MemberInit, MemberInv, MemberTypeOK, Member,
   Role, Ticket, NoTicket, TargetIsHeld, CountedAreHeld, SomeoneRemains, LosesOwner, OwnerRemains,
   Owners, IsOwner

\* The end of a request frees its own locks and no other's.
LEMMA ReleaseFrees ==
    ASSUME MemberTypeOK, NEW r \in Requester, Release(r)
    PROVE  /\ request' \in [Requester -> Ticket] /\ holder' \in [Person -> Requester \cup {Nobody}]
           /\ request'[r].pc = "idle" /\ request'[r].remaining = {}
           /\ \A q \in Requester \ {r} :
                 request'[q] = request[q] /\ \A p \in Person : holder[p] = q => holder'[p] = q
<1> USE MembershipAssumption DEF MembershipAssumption
<1>1. NoTicket \in Ticket /\ NoTicket.pc = "idle" /\ NoTicket.remaining = {}
  BY DEF NoTicket, Ticket, Role
<1> QED BY <1>1 DEF MemberTypeOK, Release

\* A request that is as before, whose locks are still its own and whose locked rows
\* are as before keeps what the invariant says of it.
RequestKeeps(r) ==
    /\ request'[r] = request[r]
    /\ \A p \in Person : holder[p] = r => holder'[p] = r /\ member'[p] = member[p]

\* What the invariant says of one request.
RequestOK(r) ==
    /\ request[r].pc \in {"count", "commit"} =>
          /\ holder[request[r].target] = r
          /\ member[request[r].target].status = "active"
    /\ \A p \in request[r].remaining : holder[p] = r /\ IsOwner(p) /\ p # request[r].target
    /\ request[r].pc = "commit" /\ LosesOwner(r) => request[r].remaining # {}

\* What the invariant says of requests it says of each alone.
LEMMA RequestsOK ==
    (TargetIsHeld /\ CountedAreHeld /\ SomeoneRemains) <=> \A r \in Requester : RequestOK(r)
BY DEF TargetIsHeld, CountedAreHeld, SomeoneRemains, RequestOK

\* A request keeps its part of the invariant through a step that keeps what it holds.
LEMMA RequestKept ==
    ASSUME MemberTypeOK, NEW r \in Requester, RequestOK(r), RequestKeeps(r)
    PROVE  RequestOK(r)'
BY DEF MemberTypeOK, Ticket, RequestOK, RequestKeeps, IsOwner, LosesOwner

\* No step breaks the invariant.
LEMMA MemberStep == MemberInv /\ [MemberNext]_memberVars => MemberInv'
<1> SUFFICES ASSUME MemberInv, [MemberNext]_memberVars PROVE MemberInv'
  OBVIOUS
<1> USE MembershipAssumption DEF MembershipAssumption
<1>1. MemberTypeOK /\ OwnerRemains /\ \A r \in Requester : RequestOK(r)
  BY RequestsOK DEF MemberInv
<1>2. SUFFICES MemberTypeOK' /\ OwnerRemains' /\ \A r \in Requester : RequestOK(r)'
  <2>1. (TargetIsHeld /\ CountedAreHeld /\ SomeoneRemains)' <=> \A r \in Requester : RequestOK(r)'
    BY DEF TargetIsHeld, CountedAreHeld, SomeoneRemains, RequestOK
  <2> QED BY <2>1 DEF MemberInv
<1>3. PICK o \in Person : IsOwner(o)
  BY <1>1 DEF OwnerRemains, Owners
<1>4. CASE UNCHANGED memberVars
  BY <1>1, <1>4 DEF memberVars, MemberTypeOK, OwnerRemains, Owners, IsOwner, RequestOK, LosesOwner
<1>5. ASSUME NEW by \in Person, NEW p \in Person, Invite(by, p)
      PROVE  MemberTypeOK' /\ OwnerRemains' /\ \A r \in Requester : RequestOK(r)'
  BY <1>1, <1>5 DEF Invite, MemberTypeOK, OwnerRemains, Owners, IsOwner, RequestOK, LosesOwner
<1>6. ASSUME NEW p \in Person, Withdraw(p)
      PROVE  MemberTypeOK' /\ OwnerRemains' /\ \A r \in Requester : RequestOK(r)'
  BY <1>1, <1>6 DEF Withdraw, MemberTypeOK, OwnerRemains, Owners, IsOwner, RequestOK, LosesOwner
<1>7. ASSUME NEW p \in Person, Accept(p)
      PROVE  MemberTypeOK' /\ OwnerRemains' /\ \A r \in Requester : RequestOK(r)'
  <2>1. MemberTypeOK'
    BY <1>1, <1>7 DEF Accept, MemberTypeOK, Member
  <2>2. OwnerRemains'
    <3>1. IsOwner(o)'
      BY <1>1, <1>3, <1>7 DEF Accept, MemberTypeOK, IsOwner
    <3> QED BY <3>1 DEF OwnerRemains, Owners
  <2>3. \A r \in Requester : RequestOK(r)'
    BY <1>1, <1>7 DEF Accept, MemberTypeOK, Ticket, RequestOK, IsOwner, LosesOwner
  <2> QED BY <2>1, <2>2, <2>3
<1>8. ASSUME NEW r \in Requester, NEW by \in Person, NEW target \in Person, Begin(r, by, target)
      PROVE  MemberTypeOK' /\ OwnerRemains' /\ \A q \in Requester : RequestOK(q)'
  <2>1. PICK to \in Role \cup {"out"} :
           request' = [request EXCEPT ![r] = [NoTicket EXCEPT !.pc = "lock", !.to = to,
                             !.as = member[by].role, !.by = by, !.target = target]]
    BY <1>8 DEF Begin
  <2>2. /\ request' \in [Requester -> Ticket]
        /\ request'[r].pc = "lock" /\ request'[r].remaining = {}
    BY <1>1, <2>1 DEF MemberTypeOK, Member, Ticket, NoTicket
  <2>3. MemberTypeOK' /\ OwnerRemains'
    BY <1>1, <1>8, <2>2 DEF Begin, MemberTypeOK, OwnerRemains, Owners, IsOwner
  <2>4. RequestOK(r)'
    BY <2>2 DEF RequestOK
  <2>5. ASSUME NEW q \in Requester \ {r} PROVE RequestOK(q)'
    BY <1>1, <1>8, <2>1, RequestKept DEF Begin, RequestKeeps, MemberTypeOK
  <2> QED BY <2>3, <2>4, <2>5
<1>9. ASSUME NEW r \in Requester, Release(r), UNCHANGED member, UNCHANGED invitation
      PROVE  MemberTypeOK' /\ OwnerRemains' /\ \A q \in Requester : RequestOK(q)'
  <2>1. MemberTypeOK' /\ OwnerRemains'
    BY <1>1, <1>9, ReleaseFrees DEF MemberTypeOK, OwnerRemains, Owners, IsOwner
  <2>2. RequestOK(r)'
    BY <1>1, <1>9, ReleaseFrees DEF RequestOK
  <2>3. ASSUME NEW q \in Requester \ {r} PROVE RequestOK(q)'
    BY <1>1, <1>9, ReleaseFrees, RequestKept DEF RequestKeeps
  <2> QED BY <2>1, <2>2, <2>3
<1>10. ASSUME NEW r \in Requester, LockTarget(r)
       PROVE  MemberTypeOK' /\ OwnerRemains' /\ \A q \in Requester : RequestOK(q)'
  <2>1. CASE Refused(r)
    BY <1>9, <1>10, <2>1 DEF LockTarget
  <2>2. CASE ~Refused(r)
    <3> DEFINE t == request[r].target
    <3>0. t \in Person /\ request[r].pc = "lock" /\ holder[t] = Nobody /\ member[t].status = "active"
      BY <1>1, <1>10, <2>2 DEF LockTarget, Refused, MemberTypeOK, Ticket
    <3>1. /\ UNCHANGED <<member, invitation>>
          /\ holder' = [holder EXCEPT ![t] = r]
          /\ \/ ~LosesOwner(r) /\ request' = [request EXCEPT ![r].pc = "commit"]
             \/ LosesOwner(r) /\ \E first \in Person \cup {Nobody}, rest \in SUBSET Person :
                   request' = [request EXCEPT ![r].pc = "count", ![r].next = first, ![r].rest = rest]
      BY <1>10, <2>2 DEF LockTarget, Owners
    <3>2. /\ request' \in [Requester -> Ticket] /\ \A q \in Requester \ {r} : request'[q] = request[q]
          /\ request'[r].target = t /\ request'[r].to = request[r].to
          /\ request'[r].remaining = request[r].remaining
          /\ request'[r].pc = "commit" => ~LosesOwner(r)
      <4>1. CASE ~LosesOwner(r) /\ request' = [request EXCEPT ![r].pc = "commit"]
        BY <1>1, <4>1 DEF MemberTypeOK, Ticket
      <4>2. CASE \E first \in Person \cup {Nobody}, rest \in SUBSET Person :
                    request' = [request EXCEPT ![r].pc = "count", ![r].next = first, ![r].rest = rest]
        <5>1. PICK first \in Person \cup {Nobody}, rest \in SUBSET Person :
                 request' = [request EXCEPT ![r].pc = "count", ![r].next = first, ![r].rest = rest]
          BY <4>2
        <5>2. request[r] \in Ticket
          BY <1>1 DEF MemberTypeOK
        <5>3. [request[r] EXCEPT !.pc = "count", !.next = first, !.rest = rest] \in Ticket
          BY <5>2 DEF Ticket
        <5>4. request' = [request EXCEPT ![r] =
                             [request[r] EXCEPT !.pc = "count", !.next = first, !.rest = rest]]
          BY <1>1, <5>1 DEF MemberTypeOK
        <5> QED BY <1>1, <5>2, <5>3, <5>4 DEF MemberTypeOK, Ticket
      <4> QED BY <3>1, <4>1, <4>2
    <3>3. MemberTypeOK' /\ OwnerRemains'
      BY <1>1, <3>1, <3>2 DEF MemberTypeOK, OwnerRemains, Owners, IsOwner
    <3>4. RequestOK(r)'
      <4>1. RequestOK(r) /\ request[r].remaining \subseteq Person
        BY <1>1 DEF MemberTypeOK, Ticket
      <4>2. holder'[t] = r /\ \A x \in Person : holder[x] = r => holder'[x] = r
        BY <1>1, <3>0, <3>1 DEF MemberTypeOK
      <4>3. \A x \in request[r].remaining : holder'[x] = r /\ IsOwner(x)' /\ x # t
        BY <3>1, <4>1, <4>2 DEF RequestOK, IsOwner
      <4>4. LosesOwner(r)' <=> LosesOwner(r)
        BY <3>1, <3>2 DEF LosesOwner, IsOwner
      <4> QED BY <3>0, <3>1, <3>2, <4>2, <4>3, <4>4 DEF RequestOK
    <3>5. ASSUME NEW q \in Requester \ {r} PROVE RequestOK(q)'
      BY <1>1, <3>0, <3>1, <3>2, RequestKept DEF RequestKeeps, MemberTypeOK
    <3> QED BY <3>3, <3>4, <3>5
  <2> QED BY <2>1, <2>2
<1>11. ASSUME NEW r \in Requester, CountOwner(r)
       PROVE  MemberTypeOK' /\ OwnerRemains' /\ \A q \in Requester : RequestOK(q)'
  <2> DEFINE p == request[r].next
  <2>1. /\ p \in Person /\ request[r].pc = "count" /\ holder[p] = Nobody
        /\ holder' = [holder EXCEPT ![p] = r] /\ UNCHANGED <<member, invitation>>
    BY <1>1, <1>11 DEF CountOwner, Takes, MemberTypeOK, Ticket
  <2>2. /\ request' \in [Requester -> Ticket] /\ \A q \in Requester \ {r} : request'[q] = request[q]
        /\ request'[r].target = request[r].target /\ request'[r].pc = "count"
        /\ request'[r].remaining = IF IsOwner(p) THEN request[r].remaining \cup {p}
                                                 ELSE request[r].remaining
    <3> DEFINE seen == IF IsOwner(p) THEN request[r].remaining \cup {p} ELSE request[r].remaining
    <3>1. PICK next \in Person \cup {Nobody} :
             request' = [request EXCEPT ![r] =
                            [@ EXCEPT !.next = next, !.rest = request[r].rest \ {next},
                                      !.remaining = seen]]
      BY <1>1, <1>11 DEF CountOwner, MemberTypeOK, Ticket
    <3>2. [request[r] EXCEPT !.next = next, !.rest = request[r].rest \ {next},
                             !.remaining = seen] \in Ticket
      <4>1. request[r] \in Ticket /\ seen \in SUBSET Person /\ request[r].rest \ {next} \in SUBSET Person
        BY <1>1, <2>1 DEF MemberTypeOK, Ticket
      <4> HIDE DEF seen
      <4> QED BY <4>1 DEF Ticket
    <3> HIDE DEF seen
    <3>3. /\ request' \in [Requester -> Ticket] /\ \A q \in Requester \ {r} : request'[q] = request[q]
          /\ request'[r].target = request[r].target /\ request'[r].pc = "count"
          /\ request'[r].remaining = seen
      BY <1>1, <2>1, <3>1, <3>2 DEF MemberTypeOK, Ticket
    <3> QED BY <3>3 DEF seen
  <2>3. MemberTypeOK' /\ OwnerRemains'
    BY <1>1, <2>1, <2>2 DEF MemberTypeOK, OwnerRemains, Owners, IsOwner
  <2>4. p # request[r].target
    BY <1>1, <2>1 DEF RequestOK
  <2>5. RequestOK(r)'
    <3>1. RequestOK(r) /\ request[r].target \in Person /\ request[r].remaining \subseteq Person
      BY <1>1 DEF MemberTypeOK, Ticket
    <3>2. holder'[p] = r /\ \A x \in Person : holder[x] = r => holder'[x] = r
      BY <1>1, <2>1 DEF MemberTypeOK
    <3>3. \A x \in request'[r].remaining : holder'[x] = r /\ IsOwner(x)' /\ x # request'[r].target
      BY <2>1, <2>2, <2>4, <3>1, <3>2 DEF RequestOK, IsOwner
    <3> QED BY <2>1, <2>2, <3>1, <3>2, <3>3 DEF RequestOK
  <2>6. ASSUME NEW q \in Requester \ {r} PROVE RequestOK(q)'
    BY <1>1, <2>1, <2>2, RequestKept DEF RequestKeeps, MemberTypeOK
  <2> QED BY <2>3, <2>5, <2>6
<1>12. ASSUME NEW r \in Requester, Counted(r)
       PROVE  MemberTypeOK' /\ OwnerRemains' /\ \A q \in Requester : RequestOK(q)'
  <2>1. CASE request[r].remaining = {}
    BY <1>9, <1>12, <2>1 DEF Counted
  <2>2. CASE request[r].remaining # {}
    <3>1. /\ request[r].pc = "count" /\ UNCHANGED <<member, invitation, holder>>
          /\ request' = [request EXCEPT ![r].pc = "commit"]
      BY <1>12, <2>2 DEF Counted
    <3>2. MemberTypeOK' /\ OwnerRemains'
      BY <1>1, <3>1 DEF MemberTypeOK, Ticket, OwnerRemains, Owners, IsOwner
    <3>3. RequestOK(r)'
      BY <1>1, <2>2, <3>1 DEF RequestOK, LosesOwner, IsOwner, MemberTypeOK, Ticket
    <3>4. ASSUME NEW q \in Requester \ {r} PROVE RequestOK(q)'
      BY <1>1, <3>1, RequestKept DEF RequestKeeps, MemberTypeOK
    <3> QED BY <3>2, <3>3, <3>4
  <2> QED BY <2>1, <2>2
<1>13. ASSUME NEW r \in Requester, Commit(r)
       PROVE  MemberTypeOK' /\ OwnerRemains' /\ \A q \in Requester : RequestOK(q)'
  <2> DEFINE t == request[r].target
  <2>1. /\ t \in Person /\ request[r].to \in Role \cup {"out"} /\ request[r].pc = "commit"
        /\ request[r].remaining \in SUBSET Person
    BY <1>1, <1>13 DEF Commit, MemberTypeOK, Ticket
  <2>2. Release(r) /\ UNCHANGED invitation /\ member' = Changed(t, request[r].to)
    BY <1>13 DEF Commit
  <2>3. /\ member' \in [Person -> Member]
        /\ \A p \in Person \ {t} : member'[p] = member[p]
        /\ request[r].to = "owner" => member'[t].status = member[t].status /\ member'[t].role = "owner"
    BY <1>1, <2>1, <2>2 DEF Changed, MemberTypeOK, Member, Role
  <2>4. MemberTypeOK'
    BY <1>1, <2>2, <2>3, ReleaseFrees DEF MemberTypeOK
  <2>5. \E p \in Person : IsOwner(p)'
    <3>1. CASE LosesOwner(r)
      BY <1>1, <2>1, <2>3, <3>1 DEF RequestOK, IsOwner
    <3>2. CASE ~IsOwner(t)
      BY <1>3, <2>3, <3>2 DEF IsOwner
    <3>3. CASE IsOwner(t) /\ request[r].to = "owner"
      BY <2>1, <2>3, <3>3 DEF IsOwner
    <3> QED BY <3>1, <3>2, <3>3 DEF LosesOwner
  <2>6. RequestOK(r)'
    BY <1>1, <2>2, ReleaseFrees DEF RequestOK
  <2>7. ASSUME NEW q \in Requester \ {r} PROVE RequestOK(q)'
    <3>1. holder[t] = r
      BY <1>1, <2>1 DEF RequestOK
    <3>2. RequestKeeps(q)
      BY <1>1, <2>2, <2>3, <3>1, ReleaseFrees DEF RequestKeeps
    <3> QED BY <1>1, <3>2, RequestKept
  <2> QED BY <2>4, <2>5, <2>6, <2>7 DEF OwnerRemains, Owners
<1>14. ASSUME NEW r \in Requester, BreakDeadlock(r)
       PROVE  MemberTypeOK' /\ OwnerRemains' /\ \A q \in Requester : RequestOK(q)'
  BY <1>9, <1>14 DEF BreakDeadlock
<1> QED BY <1>4, <1>5, <1>6, <1>7, <1>8, <1>10, <1>11, <1>12, <1>13, <1>14 DEF MemberNext

\* The invariant holds in every state of every behaviour.
THEOREM MemberInvariance == MemberSpec => []MemberInv
<1>1. MemberInit => MemberInv
  BY MemberInitEstablishes
<1>2. MemberInv /\ [MemberNext]_memberVars => MemberInv'
  BY MemberStep
<1> QED BY <1>1, <1>2, PTL DEF MemberSpec

\* Every variable keeps its type, for any number of people and of requests.
THEOREM MemberTypeCorrect == MemberSpec => []MemberTypeOK
<1>1. MemberInv => MemberTypeOK
  BY DEF MemberInv
<1> QED BY <1>1, MemberInvariance, PTL

\* A workspace never loses its last owner, however many requests change and remove
\* its members at once (_refuse_last_owner).
THEOREM LastOwnerTheorem == MemberSpec => []OwnerRemains
<1>1. MemberInv => OwnerRemains
  BY DEF MemberInv
<1> QED BY <1>1, MemberInvariance, PTL

-----------------------------------------------------------------------------
(* Conversation.                                                           *)

\* The transaction holds the number of a question.
Holds(p) == post[p] # NotPosting /\ post[p].phase # "numbered"

\* A number that was read is never beyond what is committed, and whoever could add a
\* message under it is alone and next.
SlotInv ==
    /\ counted % 2 = 0
    /\ \A p \in Poster : post[p] # NotPosting =>
          post[p].at <= counted /\ post[p].at % 2 = 0 /\ post[p].at + 2 <= MaxMessages
    /\ \A p \in Poster : Holds(p) => post[p].at = counted
    /\ \A p, q \in Poster : Holds(p) /\ Holds(q) => p = q

\* Odd numbers are questions and even ones answers.
ParityInv ==
    \A m \in message : IF m.sequence % 2 = 1 THEN m.role = "user" ELSE m.role = "agent"

\* What may be said of a set of tasks, with the text they answer.
Told(tasks, text) ==
    /\ \A t, u \in tasks : Acting(t.skill) /\ Acting(u.skill) => t = u
    /\ \A t \in tasks : Acting(t.skill) =>
          \/ t.by = "person"
          \/ t.by = "router" /\ ~text.asks /\ text.hit[t.skill].action

\* Until the router or the button has chosen, a post has only read; after that it
\* did one thing, if it was told to, and turned a routine on only if told how often.
PostOK(x) ==
    /\ x.phase # "answered" => x.writes = {} /\ \A t \in x.tasks : ~Acting(t.skill)
    /\ Told(x.tasks, x.text)
    /\ \A s \in Skill : <<s, "on">> \in x.writes =>
          x.text.cadence /\ \E t \in x.tasks : t.skill = s /\ t.status = "completed"

PostInv ==
    /\ \A p \in Poster : post[p] # NotPosting => PostOK(post[p])
    /\ \A m \in message : Told(m.tasks, m.text)
    /\ \A s \in Skill : schedule[s] = "on" =>
          \E n \in message : /\ n.text.cadence
                             /\ \E t \in n.tasks : t.skill = s /\ t.status = "completed"

\* The inductive invariant.
TalkInv == TalkTypeOK /\ SlotInv /\ ParityInv /\ TurnsAlternate /\ PostInv

-----------------------------------------------------------------------------
\* Whoever posts is not idle.
LEMMA PostingIsNotIdle ==
    ASSUME TalkTypeOK, NEW p \in Poster
    PROVE  /\ post[p] = NotPosting <=> post[p].phase = "idle"
           /\ post[p] # NotPosting => post[p] \in Posting
BY DEF TalkTypeOK, NotPosting, Posting, Phase

\* A finite set of at most one element.
LEMMA AtMostOne ==
    ASSUME NEW S, IsFiniteSet(S), Cardinality(S) <= 1
    PROVE  \A x, y \in S : x = y
<1>1. Cardinality(S) = 0 \/ Cardinality(S) = 1
  BY FS_CardinalityType
<1>2. CASE Cardinality(S) = 0
  BY <1>2, FS_EmptySet
<1>3. CASE Cardinality(S) = 1
  BY <1>3, FS_Singleton
<1> QED BY <1>1, <1>2, <1>3

\* A set whose elements are all equal has one at most.
LEMMA OneAtMost ==
    ASSUME NEW S, \A x, y \in S : x = y
    PROVE  Cardinality(S) <= 1
<1>1. CASE S = {}
  BY <1>1, FS_EmptySet
<1>2. CASE S # {}
  <2>1. PICK x \in S : TRUE
    BY <1>2
  <2>2. S = {x}
    BY <2>1
  <2> QED BY <2>2, FS_Singleton
<1> QED BY <1>1, <1>2

\* route: at most one skill, and one of those the text asks for.
LEMMA RoutedIsAsked ==
    ASSUME ConversationAssumption, NEW p \in Poster, NEW text \in Text,
           NEW chosen \in Routed(p, text)
    PROVE  /\ chosen \subseteq Matches(p, text)
           /\ \A s, o \in chosen : s = o
<1>1. Best(p, text) \subseteq Matches(p, text)
  BY DEF Best
<1>2. CASE Cardinality(Best(p, text)) <= 1
  <2>1. chosen = Best(p, text)
    BY <1>2 DEF Routed
  <2>2. Matches(p, text) \subseteq Skill
    BY DEF Matches, ConversationAssumption
  <2>3. IsFiniteSet(Best(p, text))
    BY <1>1, <2>2, FS_Subset DEF ConversationAssumption
  <2> QED BY <1>1, <1>2, <2>1, <2>3, AtMostOne
<1>3. CASE ~(Cardinality(Best(p, text)) <= 1)
  <2>1. PICK pair \in FirstTwo(p, text) : chosen = TieBreak(pair[1], pair[2])
    BY <1>3 DEF Routed
  <2>2. pair[1] \in Best(p, text)
    BY <2>1 DEF FirstTwo
  <2> QED BY <1>1, <2>1, <2>2 DEF TieBreak
<1> QED BY <1>2, <1>3

\* What is chosen, and what is written for it.
LEMMA ChosenIsTold ==
    ASSUME ConversationAssumption, TalkTypeOK, NEW p \in Poster, post[p] # NotPosting,
           NEW chosen \in Chosen(p)
    PROVE  /\ chosen \subseteq Skill
           /\ \A s, o \in chosen : s = o
           /\ post[p].forced = Unrouted => \A s \in chosen : Acting(s) =>
                 ~post[p].text.asks /\ post[p].text.hit[s].action
<1>1. post[p] \in Posting
  BY PostingIsNotIdle
<1>2. post[p].text \in Text /\ post[p].forced \in Skill \cup {Unrouted}
  BY <1>1 DEF Posting
<1>3. CASE post[p].forced = Unrouted
  <2>1. chosen \in Routed(p, post[p].text)
    BY <1>3 DEF Chosen
  <2>2. chosen \subseteq Matches(p, post[p].text) /\ \A s, o \in chosen : s = o
    BY <1>2, <2>1, RoutedIsAsked
  <2> QED BY <2>2 DEF Matches, ConversationAssumption
<1>4. CASE post[p].forced # Unrouted
  BY <1>2, <1>4 DEF Chosen, ConversationAssumption
<1> QED BY <1>3, <1>4

\* The last number that is committed is the count of the session.
LEMMA LastIsCounted ==
    ASSUME TalkTypeOK, TurnsAlternate
    PROVE  LastSequence = counted
<1>1. counted \in Nat /\ {m.sequence : m \in message} = 1..counted
  BY ConversationAssumption DEF TalkTypeOK, TurnsAlternate, ConversationAssumption
<1>2. {0} \cup {m.sequence : m \in message} = 0..counted
  BY <1>1
<1>3. counted \in 0..counted /\ \A y \in 0..counted : counted >= y
  BY <1>1
<1>4. \A x \in 0..counted : (\A y \in 0..counted : x >= y) => x = counted
  BY <1>1
<1> QED BY <1>2, <1>3, <1>4 DEF LastSequence, Max

\* A step that adds no message changes one post.
PostMoves(p, x) ==
    /\ post' = [post EXCEPT ![p] = x]
    /\ UNCHANGED <<message, counted, schedule>>
    /\ x = NotPosting
       \/ /\ x \in Posting /\ PostOK(x)
          /\ \/ /\ post[p] # NotPosting /\ x.at = post[p].at
                /\ post[p].phase # "numbered" \/ (Holding(x.at) = {} /\ Unique(x.at))
             \/ x.phase = "numbered" /\ x.at = LastSequence /\ x.at + 2 <= MaxMessages

\* A step that changes one post in this way keeps the invariant.
LEMMA MovesKeep ==
    ASSUME TalkInv, NEW p \in Poster, NEW x, PostMoves(p, x)
    PROVE  TalkInv'
<1>1. TalkTypeOK /\ LastSequence = counted
  BY LastIsCounted DEF TalkInv
<1>2. /\ post' \in [Poster -> {NotPosting} \cup Posting] /\ post'[p] = x
      /\ \A q \in Poster \ {p} : post'[q] = post[q]
      /\ UNCHANGED <<message, counted, schedule>>
  BY <1>1 DEF PostMoves, TalkTypeOK
<1>3. TalkTypeOK' /\ ParityInv' /\ TurnsAlternate'
  BY <1>2 DEF TalkInv, TalkTypeOK, ParityInv, TurnsAlternate
<1>4. PostInv'
  <2>1. \A q \in Poster : post'[q] # NotPosting => PostOK(post'[q])
    BY <1>2 DEF PostMoves, TalkInv, PostInv
  <2> QED BY <1>2, <2>1 DEF TalkInv, PostInv
<1>5. CASE x = NotPosting
  BY <1>2, <1>3, <1>4, <1>5 DEF TalkInv, SlotInv, Holds
<1>6. CASE x # NotPosting /\ x.phase = "numbered" /\ x.at = LastSequence /\ x.at + 2 <= MaxMessages
  <2>1. counted \in Nat /\ x.at = counted /\ counted % 2 = 0
    BY <1>1, <1>6, ConversationAssumption DEF ConversationAssumption, TalkInv, SlotInv, TalkTypeOK
  <2>2. x.at <= counted /\ x.at % 2 = 0
    BY <2>1
  <2> QED BY <1>2, <1>3, <1>4, <1>6, <2>2 DEF TalkInv, SlotInv, Holds
<1>7. CASE /\ x # NotPosting /\ post[p] # NotPosting /\ x.at = post[p].at
           /\ post[p].phase # "numbered" \/ (Holding(x.at) = {} /\ Unique(x.at))
  <2>1. CASE post[p].phase # "numbered"
    BY <1>2, <1>3, <1>4, <1>7, <2>1 DEF TalkInv, SlotInv, Holds
  <2>2. CASE Holding(x.at) = {} /\ Unique(x.at)
    <3>1. x.at \in Nat /\ x.at <= counted /\ counted \in Nat
      BY <1>1, <1>7, PostingIsNotIdle, ConversationAssumption
         DEF ConversationAssumption, Posting, TalkInv, SlotInv, TalkTypeOK
    <3>2. x.at + 1 \notin 1..counted
      BY <2>2 DEF Unique, TalkInv, TurnsAlternate
    <3>3. x.at = counted
      BY <3>1, <3>2
    <3>4. \A q \in Poster : ~Holds(q)
      BY <2>2, <3>3 DEF TalkInv, SlotInv, Holds, Holding
    <3> QED BY <1>2, <1>3, <1>4, <1>7, <3>3, <3>4 DEF TalkInv, SlotInv, Holds
  <2> QED BY <1>7, <2>1, <2>2
<1> QED BY <1>5, <1>6, <1>7 DEF PostMoves

\* A conversation begins empty.
LEMMA TalkInitEstablishes == TalkInit => TalkInv
<1> SUFFICES ASSUME TalkInit PROVE TalkInv
  OBVIOUS
<1>1. TalkTypeOK
  BY ConversationAssumption DEF ConversationAssumption, TalkInit, TalkTypeOK
<1>2. SlotInv
  BY DEF TalkInit, SlotInv, Holds
<1>3. ParityInv /\ TurnsAlternate /\ PostInv
  BY DEF TalkInit, ParityInv, TurnsAlternate, PostInv
<1> QED BY <1>1, <1>2, <1>3 DEF TalkInv

\* What the router or the button has done is what it was told.
LEMMA RunSkillMoves ==
    ASSUME TalkInv, NEW p \in Poster, RunSkill(p)
    PROVE  \E x : PostMoves(p, x)
<1>1. TalkTypeOK /\ post[p] \in Posting /\ post[p].phase = "routing" /\ post[p] # NotPosting
  <2>1. post[p].phase = "routing" /\ TalkTypeOK
    BY DEF RunSkill, TalkInv
  <2> QED BY <2>1, PostingIsNotIdle
<1>2. PICK chosen \in Chosen(p), status \in {"completed", "blocked"} :
         post' = [post EXCEPT ![p].phase = "answered",
             ![p].writes = UNION {Schedules(post[p].text, s, status) : s \in chosen},
             ![p].tasks = @ \cup {[skill |-> s, status |-> status,
                by |-> IF post[p].forced = Unrouted THEN "router" ELSE "person"] : s \in chosen}]
  BY DEF RunSkill
<1> DEFINE old == post[p]
           by == IF old.forced = Unrouted THEN "router" ELSE "person"
           new == {[skill |-> s, status |-> status, by |-> by] : s \in chosen}
           tasks == old.tasks \cup new
           writes == UNION {Schedules(old.text, s, status) : s \in chosen}
           x == [old EXCEPT !.phase = "answered", !.writes = writes, !.tasks = tasks]
<1>3. post' = [post EXCEPT ![p] = x] /\ UNCHANGED <<message, counted, schedule>>
  BY <1>1, <1>2 DEF RunSkill, TalkTypeOK
<1>4. /\ chosen \subseteq Skill
      /\ \A s, o \in chosen : s = o
      /\ old.forced = Unrouted => \A s \in chosen : Acting(s) =>
            ~old.text.asks /\ old.text.hit[s].action
  BY <1>1, ChosenIsTold, ConversationAssumption
<1>5. new \in SUBSET Task /\ tasks \in SUBSET Task
  <2>1. new \in SUBSET Task
    BY <1>4 DEF Task
  <2>2. old.tasks \in SUBSET Task
    BY <1>1 DEF Posting
  <2> QED BY <2>1, <2>2
<1>6. writes \in SUBSET (Skill \X {"parked", "on"})
  BY <1>4 DEF Schedules
<1>7. \A t \in old.tasks : ~Acting(t.skill)
  BY <1>1 DEF TalkInv, PostInv, PostOK
<1>8. Told(tasks, old.text)
  <2>1. \A t \in new : t.skill \in chosen /\ t.by = by /\ t.status = status
    OBVIOUS
  <2>2. \A t, u \in new : t = u
    BY <1>4
  <2>3. \A t \in tasks : Acting(t.skill) => t \in new
    BY <1>7
  <2>4. \A t, u \in tasks : Acting(t.skill) /\ Acting(u.skill) => t = u
    BY <2>2, <2>3
  <2>5. ASSUME NEW t \in tasks, Acting(t.skill)
        PROVE  t.by = "person" \/ (t.by = "router" /\ ~old.text.asks /\ old.text.hit[t.skill].action)
    <3>1. t.skill \in chosen /\ t.by = by
      BY <2>1, <2>3, <2>5
    <3> QED BY <1>4, <2>5, <3>1
  <2> HIDE DEF tasks
  <2> QED BY <2>4, <2>5 DEF Told
<1>9. ASSUME NEW s \in Skill, <<s, "on">> \in writes
      PROVE  old.text.cadence /\ \E t \in tasks : t.skill = s /\ t.status = "completed"
  <2>1. PICK o \in chosen : <<s, "on">> \in Schedules(old.text, o, status)
    BY <1>9
  <2>2. o = s /\ old.text.cadence /\ status = "completed"
    BY <2>1 DEF Schedules
  <2>3. [skill |-> s, status |-> status, by |-> by] \in tasks
    BY <2>1, <2>2
  <2> HIDE DEF tasks
  <2> QED BY <2>2, <2>3
<1> HIDE DEF tasks, writes, by, new
<1>10. x \in Posting /\ x.phase = "answered" /\ x.tasks = tasks /\ x.writes = writes /\ x.text = old.text
       /\ x.at = old.at
  BY <1>1, <1>5, <1>6 DEF Posting, Phase
<1> HIDE DEF x
<1>11. PostOK(x)
  BY <1>8, <1>9, <1>10 DEF PostOK
<1>12. PostMoves(p, x)
  BY <1>1, <1>3, <1>10, <1>11 DEF PostMoves
<1> QED BY <1>12

\* The other steps of a post that adds nothing.
LEMMA QuietStepsMove ==
    ASSUME TalkInv, NEW p \in Poster,
           \/ \E text \in Text, forced \in Skill \cup {Unrouted} : StartPost(p, text, forced)
           \/ AddQuestion(p) \/ Abort(p) \/ Plan(p) \/ Clarify(p) \/ Reply(p) \/ NoModel(p)
           \/ ModelFails(p)
    PROVE  \E x : PostMoves(p, x)
<1>1. TalkTypeOK /\ \A q \in Poster : post[q] # NotPosting => PostOK(post[q])
  BY DEF TalkInv, PostInv
<1> DEFINE old == post[p]
<1>2. CASE \E text \in Text, forced \in Skill \cup {Unrouted} : StartPost(p, text, forced)
  <2>1. PICK text \in Text, forced \in Skill \cup {Unrouted} : StartPost(p, text, forced)
    BY <1>2
  <2> DEFINE x == [phase |-> "numbered", at |-> LastSequence, text |-> text, forced |-> forced,
                   tasks |-> {}, cost |-> 0, writes |-> {}]
  <2>2. LastSequence \in 0..MaxMessages
    BY LastIsCounted DEF TalkInv, TalkTypeOK
  <2>3. x \in Posting /\ PostOK(x)
    BY <2>2 DEF Posting, Phase, PostOK, Told
  <2>4. PostMoves(p, x)
    BY <2>1, <2>3 DEF StartPost, PostMoves
  <2> QED BY <2>4
<1>3. CASE Abort(p)
  BY <1>3 DEF Abort, PostMoves
<1>4. ASSUME old.phase \in {"numbered", "asking", "replying"}
      PROVE  old \in Posting /\ old # NotPosting /\ old.writes = {} /\ \A t \in old.tasks : ~Acting(t.skill)
  BY <1>1, <1>4, PostingIsNotIdle DEF PostOK
<1>5. CASE AddQuestion(p)
  <2> DEFINE x == [old EXCEPT !.phase = IF old.forced \in Skill THEN "routing" ELSE "asking"]
  <2>1. PostOK(old) /\ old \in Posting /\ old # NotPosting /\ old.writes = {}
        /\ \A t \in old.tasks : ~Acting(t.skill)
    BY <1>1, <1>4, <1>5 DEF AddQuestion
  <2>2. post' = [post EXCEPT ![p] = x]
    BY <1>1, <1>5 DEF AddQuestion, TalkTypeOK
  <2>3. x \in Posting /\ x.at = old.at /\ x.tasks = old.tasks /\ x.writes = {} /\ x.text = old.text
    BY <2>1 DEF Posting, Phase
  <2> HIDE DEF x
  <2>4. PostOK(x)
    BY <2>1, <2>3 DEF PostOK
  <2>5. PostMoves(p, x)
    BY <1>5, <2>1, <2>2, <2>3, <2>4 DEF AddQuestion, NumberIsFree, PostMoves
  <2> QED BY <2>5
<1> DEFINE Turned(phase, cost, tasks) ==
             [old EXCEPT !.phase = phase, !.cost = cost, !.tasks = tasks]
           Turns(phase, cost, tasks) ==
             /\ phase \in Phase \ {"idle", "numbered"} /\ cost \in 0..2 /\ tasks \in SUBSET Task
             /\ \A t \in tasks : ~Acting(t.skill)
             /\ old.phase \in {"asking", "replying"}
             /\ post' = [post EXCEPT ![p] = Turned(phase, cost, tasks)]
             /\ UNCHANGED <<message, counted, schedule>>
<1>6. ASSUME NEW phase, NEW cost, NEW tasks, Turns(phase, cost, tasks)
      PROVE  \E x : PostMoves(p, x)
  <2> DEFINE x == Turned(phase, cost, tasks)
  <2>1. old \in Posting /\ old # NotPosting /\ old.writes = {}
    BY <1>4, <1>6
  <2>2. x \in Posting /\ x.at = old.at /\ x.tasks = tasks /\ x.writes = {} /\ x.text = old.text
    BY <1>6, <2>1 DEF Posting
  <2>3. post' = [post EXCEPT ![p] = x]
    BY <1>6
  <2> HIDE DEF x
  <2>4. PostOK(x)
    BY <1>6, <2>2 DEF PostOK, Told
  <2>5. PostMoves(p, x)
    BY <1>6, <2>1, <2>2, <2>3, <2>4 DEF PostMoves
  <2> QED BY <2>5
<1>7. {"replying", "routing", "answered"} \subseteq Phase \ {"idle", "numbered"} /\ {0, 1, 2} \subseteq 0..2
  BY DEF Phase
<1>8. CASE Plan(p)
  <2>1. PICK chosen \in Pick(p) : \E blocked \in SUBSET chosen :
          post' = [post EXCEPT ![p].phase = "replying", ![p].cost = 1,
                      ![p].tasks = {[skill |-> s, by |-> "model",
                                     status |-> IF s \in blocked THEN "blocked" ELSE "completed"]
                                       : s \in chosen}]
    BY <1>8 DEF Plan
  <2>2. PICK blocked \in SUBSET chosen :
          post' = [post EXCEPT ![p].phase = "replying", ![p].cost = 1,
                      ![p].tasks = {[skill |-> s, by |-> "model",
                                     status |-> IF s \in blocked THEN "blocked" ELSE "completed"]
                                       : s \in chosen}]
    BY <2>1
  <2> DEFINE tasks == {[skill |-> s, by |-> "model",
                        status |-> IF s \in blocked THEN "blocked" ELSE "completed"] : s \in chosen}
  <2>3. post' = [post EXCEPT ![p] = [old EXCEPT !.phase = "replying", !.cost = 1, !.tasks = tasks]]
    BY <1>1, <2>2 DEF TalkTypeOK
  <2>4. chosen \subseteq Skill /\ \A s \in chosen : ~Acting(s)
    BY <2>1, ConversationAssumption DEF Pick, ReadSkills, ConversationAssumption
  <2>5. tasks \in SUBSET Task /\ \A t \in tasks : ~Acting(t.skill)
    BY <2>4 DEF Task
  <2> HIDE DEF tasks
  <2>6. post' = [post EXCEPT ![p] = Turned("replying", 1, tasks)]
    BY <2>3
  <2> HIDE DEF Turned
  <2>7. old.phase \in {"asking", "replying"} /\ UNCHANGED <<message, counted, schedule>>
    BY <1>8 DEF Plan
  <2>8. Turns("replying", 1, tasks)
    BY <1>7, <2>5, <2>6, <2>7
  <2> HIDE DEF Turns
  <2> QED BY <1>6, <2>8
<1>9. ASSUME old.phase \in {"asking", "replying"}
      PROVE  /\ old.tasks \in SUBSET Task /\ \A t \in old.tasks : ~Acting(t.skill)
             /\ \A phase, cost : [post EXCEPT ![p].phase = phase, ![p].cost = cost]
                                  = [post EXCEPT ![p] = Turned(phase, cost, old.tasks)]
  <2>1. old \in Posting /\ \A t \in old.tasks : ~Acting(t.skill)
    BY <1>4, <1>9
  <2>2. \A phase, cost : [old EXCEPT !.phase = phase, !.cost = cost] = Turned(phase, cost, old.tasks)
    BY <2>1 DEF Posting
  <2>3. \A phase, cost : [post EXCEPT ![p].phase = phase, ![p].cost = cost]
                         = [post EXCEPT ![p] = [old EXCEPT !.phase = phase, !.cost = cost]]
    BY <1>1 DEF TalkTypeOK
  <2>4. old.tasks \in SUBSET Task
    BY <2>1 DEF Posting
  <2> HIDE DEF Turned
  <2>5. \A phase, cost : [post EXCEPT ![p].phase = phase, ![p].cost = cost]
                         = [post EXCEPT ![p] = Turned(phase, cost, old.tasks)]
    BY <2>2, <2>3
  <2> QED BY <2>1, <2>4, <2>5
<1> HIDE DEF Turned
<1>10. CASE Clarify(p)
  <2>1. old.phase \in {"asking", "replying"} /\ UNCHANGED <<message, counted, schedule>>
        /\ post' = [post EXCEPT ![p].phase = "answered", ![p].cost = 1]
    BY <1>10 DEF Clarify
  <2>2. Turns("answered", 1, old.tasks)
    BY <1>9, <1>7, <2>1
  <2> HIDE DEF Turns
  <2> QED BY <1>6, <2>2
<1>11. CASE Reply(p)
  <2>1. old.phase \in {"asking", "replying"} /\ UNCHANGED <<message, counted, schedule>>
        /\ post' = [post EXCEPT ![p].phase = "answered", ![p].cost = 2]
    BY <1>11 DEF Reply
  <2>2. Turns("answered", 2, old.tasks)
    BY <1>9, <1>7, <2>1
  <2> HIDE DEF Turns
  <2> QED BY <1>6, <2>2
<1>12. CASE NoModel(p) \/ ModelFails(p)
  <2>1. old.phase \in {"asking", "replying"} /\ UNCHANGED <<message, counted, schedule>>
        /\ post' = [post EXCEPT ![p].phase = "routing", ![p].cost = 0]
    BY <1>12 DEF NoModel, ModelFails, Routing
  <2>2. Turns("routing", 0, old.tasks)
    BY <1>9, <1>7, <2>1
  <2> HIDE DEF Turns
  <2> QED BY <1>6, <2>2
<1> QED BY <1>2, <1>3, <1>5, <1>8, <1>10, <1>11, <1>12

\* The answer: a question and its answer are added under the next two numbers.
LEMMA AnswerKeeps ==
    ASSUME TalkInv, NEW p \in Poster, Answer(p)
    PROVE  TalkInv'
<1> DEFINE old == post[p]
           asked == [sequence |-> old.at + 1, role |-> "user", of |-> p, text |-> old.text,
                     tasks |-> {}, cost |-> 0]
           answer == [sequence |-> old.at + 2, role |-> "agent", of |-> p, text |-> old.text,
                      tasks |-> old.tasks, cost |-> old.cost]
<1>1. TalkTypeOK /\ old \in Posting /\ old.phase = "answered" /\ old # NotPosting /\ PostOK(old)
  <2>1. TalkTypeOK /\ old.phase = "answered"
    BY DEF TalkInv, Answer
  <2> QED BY <2>1, PostingIsNotIdle DEF TalkInv, PostInv
<1>2. /\ old.at = counted /\ counted \in Nat /\ counted % 2 = 0 /\ counted + 2 <= MaxMessages
      /\ MaxMessages \in Nat
  BY <1>1, ConversationAssumption DEF ConversationAssumption, TalkInv, SlotInv, Holds, TalkTypeOK
<1>3. /\ old.text \in Text /\ old.tasks \in SUBSET Task /\ old.cost \in 0..2
      /\ old.writes \in SUBSET (Skill \X {"parked", "on"})
  BY <1>1 DEF Posting
<1>4. /\ asked \in Message /\ answer \in Message
      /\ asked.sequence = counted + 1 /\ answer.sequence = counted + 2
      /\ asked.role = "user" /\ answer.role = "agent" /\ asked.of = p /\ answer.of = p
      /\ asked.text = old.text /\ answer.text = old.text
      /\ asked.tasks = {} /\ answer.tasks = old.tasks
  BY <1>2, <1>3 DEF Message
<1>5. message' = message \cup {asked, answer} /\ counted' = counted + 2
  BY <1>2 DEF Answer
<1>6. /\ post' = [post EXCEPT ![p] = NotPosting]
      /\ schedule' = [s \in Skill |-> IF <<s, "on">> \in old.writes THEN "on"
                                       ELSE IF <<s, "parked">> \in old.writes THEN "parked"
                                       ELSE schedule[s]]
  BY DEF Answer
<1> HIDE DEF asked, answer
<1>7. TalkTypeOK'
  <2>1. message' \subseteq Message
    BY <1>1, <1>4, <1>5 DEF TalkTypeOK
  <2>2. counted' \in 0..MaxMessages
    BY <1>2, <1>5
  <2>3. schedule' \in [Skill -> {"none", "parked", "on"}] /\ post' \in [Poster -> {NotPosting} \cup Posting]
    BY <1>1, <1>6 DEF TalkTypeOK
  <2> QED BY <2>1, <2>2, <2>3 DEF TalkTypeOK
<1>8. \A q \in Poster : post'[q] # NotPosting => q # p /\ post'[q] = post[q]
  BY <1>1, <1>6 DEF TalkTypeOK
<1>9. SlotInv'
  <2>1. (counted + 2) % 2 = 0
    BY <1>2
  <2>2. \A q \in Poster : post'[q] # NotPosting =>
          post'[q].at \in Nat /\ post'[q].at <= counted' /\ post'[q].at % 2 = 0
           /\ post'[q].at + 2 <= MaxMessages
    <3> SUFFICES ASSUME NEW q \in Poster, post'[q] # NotPosting
                 PROVE  /\ post'[q].at \in Nat /\ post'[q].at <= counted' /\ post'[q].at % 2 = 0
                        /\ post'[q].at + 2 <= MaxMessages
      OBVIOUS
    <3>1. post'[q] = post[q] /\ post[q] # NotPosting
      BY <1>8
    <3>2. post[q].at \in Nat
      BY <1>1, <1>2, <3>1, PostingIsNotIdle DEF Posting
    <3> QED BY <1>2, <1>5, <3>1, <3>2 DEF TalkInv, SlotInv
  <2>3. \A q \in Poster : post'[q] # NotPosting => post'[q].phase = "numbered"
    BY <1>1, <1>8 DEF TalkInv, SlotInv, Holds
  <2> QED BY <1>5, <2>1, <2>2, <2>3 DEF SlotInv, Holds
<1>10. ParityInv'
  BY <1>2, <1>4, <1>5 DEF TalkInv, ParityInv
<1>11. TurnsAlternate'
  <2>1. /\ {m.sequence : m \in message} = 1..counted
        /\ \A m, n \in message : m.sequence = n.sequence => m = n
        /\ \A m, n \in message :
              n.sequence = m.sequence + 1 /\ m.sequence % 2 = 1
                 => m.role = "user" /\ n.role = "agent" /\ m.of = n.of
    BY DEF TalkInv, TurnsAlternate
  <2>2. \A m \in message : m.sequence \in 1..counted
    BY <2>1
  <2>3. {m.sequence : m \in message'} = 1..counted'
    <3>1. {m.sequence : m \in message'} = (1..counted) \cup {counted + 1, counted + 2}
      BY <1>4, <1>5, <2>1
    <3>2. (1..counted) \cup {counted + 1, counted + 2} = 1..(counted + 2)
      BY <1>2
    <3> QED BY <1>5, <3>1, <3>2
  <2>4. \A m, n \in message' : m.sequence = n.sequence => m = n
    <3> SUFFICES ASSUME NEW m \in message', NEW n \in message', m.sequence = n.sequence PROVE m = n
      OBVIOUS
    <3>1. m \in message \cup {asked, answer} /\ n \in message \cup {asked, answer}
      BY <1>5
    <3> QED BY <1>2, <1>4, <2>1, <2>2, <3>1
  <2>5. \A m, n \in message' :
              n.sequence = m.sequence + 1 /\ m.sequence % 2 = 1
                 => m.role = "user" /\ n.role = "agent" /\ m.of = n.of
    <3> SUFFICES ASSUME NEW m \in message', NEW n \in message',
                        n.sequence = m.sequence + 1, m.sequence % 2 = 1
                 PROVE  m.role = "user" /\ n.role = "agent" /\ m.of = n.of
      OBVIOUS
    <3>1. m \in message \cup {asked, answer} /\ n \in message \cup {asked, answer}
      BY <1>5
    <3>2. CASE n \in message
      BY <1>2, <1>4, <2>1, <2>2, <3>1, <3>2
    <3>3. CASE n = asked
      <4>1. m.sequence = counted
        BY <1>2, <1>4, <2>2, <3>1, <3>3
      <4> QED BY <1>2, <4>1
    <3>4. CASE n = answer
      <4>1. m = asked
        BY <1>2, <1>4, <2>2, <3>1, <3>4
      <4> QED BY <1>4, <3>4, <4>1
    <3> QED BY <3>1, <3>2, <3>3, <3>4
  <2> QED BY <2>3, <2>4, <2>5 DEF TurnsAlternate
<1>12. PostInv'
  <2>1. \A q \in Poster : post'[q] # NotPosting => PostOK(post'[q])
    BY <1>8 DEF TalkInv, PostInv
  <2>2. \A m \in message' : Told(m.tasks, m.text)
    <3>1. Told(asked.tasks, asked.text) /\ Told(answer.tasks, answer.text)
      BY <1>1, <1>4 DEF PostOK, Told
    <3> QED BY <1>5, <3>1 DEF TalkInv, PostInv
  <2>3. ASSUME NEW s \in Skill, schedule'[s] = "on"
        PROVE  \E n \in message' : /\ n.text.cadence
                                   /\ \E t \in n.tasks : t.skill = s /\ t.status = "completed"
    <3>1. CASE <<s, "on">> \in old.writes
      <4>1. old.text.cadence /\ \E t \in old.tasks : t.skill = s /\ t.status = "completed"
        BY <1>1, <3>1 DEF PostOK
      <4> QED BY <1>4, <1>5, <4>1
    <3>2. CASE <<s, "on">> \notin old.writes
      <4>1. schedule[s] = "on"
        BY <1>6, <2>3, <3>2
      <4>2. PICK n \in message : n.text.cadence /\ \E t \in n.tasks : t.skill = s /\ t.status = "completed"
        BY <4>1 DEF TalkInv, PostInv
      <4> QED BY <1>5, <4>2
    <3> QED BY <3>1, <3>2
  <2> QED BY <2>1, <2>2, <2>3 DEF PostInv
<1> QED BY <1>7, <1>9, <1>10, <1>11, <1>12 DEF TalkInv

\* No step breaks the invariant.
LEMMA TalkStep == TalkInv /\ [TalkNext]_talkVars => TalkInv'
<1> SUFFICES ASSUME TalkInv, [TalkNext]_talkVars PROVE TalkInv'
  OBVIOUS
<1>1. CASE UNCHANGED talkVars
  BY <1>1 DEF talkVars, TalkInv, TalkTypeOK, SlotInv, Holds, ParityInv, TurnsAlternate, PostInv
<1>2. ASSUME NEW p \in Poster, NEW x, PostMoves(p, x) PROVE TalkInv'
  BY <1>2, MovesKeep
<1>3. CASE TalkNext
  <2>1. PICK p \in Poster :
          \/ \E text \in Text, forced \in Skill \cup {Unrouted} : StartPost(p, text, forced)
          \/ AddQuestion(p) \/ Abort(p) \/ Plan(p) \/ Clarify(p) \/ Reply(p) \/ NoModel(p)
          \/ ModelFails(p) \/ RunSkill(p) \/ Answer(p)
    BY <1>3 DEF TalkNext
  <2>2. CASE RunSkill(p)
    BY <1>2, <2>2, RunSkillMoves
  <2>3. CASE Answer(p)
    BY <2>3, AnswerKeeps
  <2>4. CASE ~RunSkill(p) /\ ~Answer(p)
    BY <1>2, <2>1, <2>4, QuietStepsMove
  <2> QED BY <2>2, <2>3, <2>4
<1> QED BY <1>1, <1>3

\* The invariant holds in every state of every behaviour.
THEOREM TalkInvariance == TalkSpec => []TalkInv
<1>1. TalkInit => TalkInv
  BY TalkInitEstablishes
<1>2. TalkInv /\ [TalkNext]_talkVars => TalkInv'
  BY TalkStep
<1> QED BY <1>1, <1>2, PTL DEF TalkSpec

\* A conversation of any length and any number of people reads as one: questions and
\* answers by turns, without a gap, and the session counts them (the unique number
\* of a message).
THEOREM TurnsTheorem == TalkSpec => []TurnsAlternate
<1>1. TalkInv => TurnsAlternate
  BY DEF TalkInv
<1> QED BY <1>1, TalkInvariance, PTL

\* The agent acts once for a post at most, and only for a button or a text that asks
\* for it, and turns no routine on unless told how often (route, _schedule), for any
\* skills, texts and roles.
THEOREM ToldTheorem == TalkSpec => []ActsOnlyWhenTold
<1>1. TalkInv => ActsOnlyWhenTold
  <2> SUFFICES ASSUME TalkInv PROVE ActsOnlyWhenTold
    OBVIOUS
  <2>1. ASSUME NEW m \in message
        PROVE  Cardinality({t \in m.tasks : Acting(t.skill)}) <= 1
    <3>1. \A t, u \in {t \in m.tasks : Acting(t.skill)} : t = u
      BY DEF TalkInv, PostInv, Told
    <3> QED BY <3>1, OneAtMost
  <2> QED BY <2>1 DEF TalkInv, PostInv, Told, ActsOnlyWhenTold
<1> QED BY <1>1, TalkInvariance, PTL

-----------------------------------------------------------------------------
(* Calibration.                                                            *)

CallRow == [kind : CallKind, key : CallKey, asked : Asked, at : CallStatus,
            told : SUBSET KeyedRow, late : BOOLEAN]

CallShape ==
    /\ calibration \subseteq KeyedRow /\ unwritten \subseteq KeyedRow
    /\ call \in [Call -> CallRow]

\* An open transaction has its own row, and every row that is not committed is one's.
OpenInv ==
    /\ \A c \in Call : call[c].at = "inserted" => RowOf(c) \in unwritten
    /\ \A r \in unwritten : call[r.by].at = "inserted" /\ r = RowOf(r.by)

\* The unique indexes, over the rows of open transactions too.
Excludes(r, s) == SameKey(r, s) \/ (r.kind = "run" /\ s.kind = "run")
IndexInv == \A r, s \in calibration \cup unwritten : Excludes(r, s) => r = s

\* What a call is told is committed, of its key, and what it asked for unless late.
ToldOK(c) ==
    /\ call[c].at = "answered" <=> call[c].told # {}
    /\ \A r \in call[c].told :
          /\ r \in calibration /\ SameKey(r, RowOf(c))
          /\ call[c].late \/ r.asked = call[c].asked

\* The inductive invariant.
CalibrationInv == CallShape /\ OpenInv /\ IndexInv /\ \A c \in Call : ToldOK(c)

-----------------------------------------------------------------------------
\* Before its end a call is told of nothing.
LEMMA UntoldYet ==
    ASSUME CalibrationInv, NEW c \in Call, call[c].at # "answered"
    PROVE  call[c].told = {}
BY DEF CalibrationInv, ToldOK

\* A call that ends, or goes on, without a row of its own.
CallMoves(c, x) ==
    /\ x \in CallRow /\ x.kind = call[c].kind /\ x.key = call[c].key /\ x.asked = call[c].asked
    /\ call' = [call EXCEPT ![c] = x]

\* A call that moves keeps every row, and the other calls.
LEMMA MoveKeeps ==
    ASSUME CalibrationInv, NEW c \in Call, NEW x, CallMoves(c, x)
    PROVE  /\ call' \in [Call -> CallRow] /\ call'[c] = x
           /\ \A d \in Call : RowOf(d)' = RowOf(d)
           /\ \A d \in Call \ {c} : call'[d] = call[d]
BY DEF CalibrationInv, CallShape, CallMoves, RowOf

\* A call that is refused, or goes on to its insert, keeps what it asked for.
LEMMA ProceedMoves ==
    ASSUME CalibrationInv, NEW c \in Call, NEW why \in CallStatus, call[c].at # "answered",
           call' = [call EXCEPT ![c].at = why]
    PROVE  CallMoves(c, [call[c] EXCEPT !.at = why])
<1>1. call[c] \in CallRow
  BY DEF CalibrationInv, CallShape
<1>2. [call[c] EXCEPT !.at = why] \in CallRow
  BY <1>1 DEF CallRow
<1> QED BY <1>1, <1>2 DEF CallMoves, CalibrationInv, CallShape, CallRow

\* A call that is answered keeps what it asked for, and is told of one row.
LEMMA AnswerMoves ==
    ASSUME CalibrationInv, NEW c \in Call, NEW r \in KeyedRow, NEW late \in BOOLEAN, Answered(c, r, late)
    PROVE  CallMoves(c, [call[c] EXCEPT !.at = "answered", !.told = {r}, !.late = late])
<1>1. call[c] \in CallRow
  BY DEF CalibrationInv, CallShape
<1>2. "answered" \in CallStatus /\ {r} \in SUBSET KeyedRow
  BY DEF CallStatus
<1>3. [call[c] EXCEPT !.at = "answered", !.told = {r}, !.late = late] \in CallRow
  BY <1>1, <1>2 DEF CallRow
<1>4. call' = [call EXCEPT ![c] = [call[c] EXCEPT !.at = "answered", !.told = {r}, !.late = late]]
  BY DEF Answered, CalibrationInv, CallShape
<1> QED BY <1>1, <1>3, <1>4 DEF CallMoves, CallRow

\* A call that only moves on keeps the invariant.
LEMMA QuietCallKeeps ==
    ASSUME CalibrationInv, NEW c \in Call, NEW x, CallMoves(c, x),
           UNCHANGED <<calibration, unwritten>>,
           call[c].at # "inserted", x.at # "inserted",
           \/ x.at # "answered" /\ x.told = {}
           \/ /\ x.at = "answered"
              /\ \E r \in calibration : /\ x.told = {r}
                                        /\ SameKey(r, RowOf(c))
                                        /\ x.late \/ r.asked = call[c].asked
    PROVE  CalibrationInv'
<1>1. /\ call' \in [Call -> CallRow] /\ call'[c] = x
      /\ \A d \in Call : RowOf(d)' = RowOf(d)
      /\ \A d \in Call \ {c} : call'[d] = call[d]
  BY MoveKeeps
<1>2. CallShape' /\ IndexInv'
  BY <1>1 DEF CalibrationInv, CallShape, IndexInv
<1>3. OpenInv'
  <2>1. \A r \in unwritten : r.by \in Call /\ r.by # c
    BY DEF CalibrationInv, CallShape, OpenInv, KeyedRow
  <2> QED BY <1>1, <2>1 DEF CalibrationInv, OpenInv
<1>4. ToldOK(c)'
  <2>1. CASE x.at # "answered" /\ x.told = {}
    BY <1>1, <2>1 DEF ToldOK
  <2>2. CASE x.at = "answered"
    <3>1. PICK r \in calibration : /\ x.told = {r}
                                   /\ SameKey(r, RowOf(c))
                                   /\ x.late \/ r.asked = call[c].asked
      BY <2>2
    <3>2. /\ r \in calibration' /\ r.kind = RowOf(c)'.kind /\ r.key = RowOf(c)'.key
          /\ call'[c].late \/ r.asked = call'[c].asked
      BY <1>1, <3>1 DEF SameKey, CallMoves
    <3>3. call'[c].told = {r} /\ call'[c].at = "answered"
      BY <1>1, <2>2, <3>1
    <3>4. \A o \in call'[c].told : /\ o \in calibration' /\ o.kind = RowOf(c)'.kind /\ o.key = RowOf(c)'.key
                                   /\ call'[c].late \/ o.asked = call'[c].asked
      BY <3>2, <3>3
    <3> QED BY <3>3, <3>4 DEF ToldOK, SameKey
  <2> QED BY <2>1, <2>2
<1>5. ASSUME NEW d \in Call \ {c} PROVE ToldOK(d)'
  BY <1>1 DEF CalibrationInv, ToldOK
<1> QED BY <1>2, <1>3, <1>4, <1>5 DEF CalibrationInv

\* Nothing is kept yet, and nobody was told of anything.
LEMMA CalibrationInitEstablishes == CalibrationInit => CalibrationInv
BY DEF CalibrationInit, CalibrationInv, CallShape, CallRow, CallStatus, OpenInv, IndexInv, ToldOK

\* No step breaks the invariant.
LEMMA CalibrationStep == CalibrationInv /\ [CalibrationNext]_calibrationVars => CalibrationInv'
<1> SUFFICES ASSUME CalibrationInv, [CalibrationNext]_calibrationVars PROVE CalibrationInv'
  OBVIOUS
<1>1. CASE UNCHANGED calibrationVars
  BY <1>1 DEF calibrationVars, CalibrationInv, CallShape, OpenInv, IndexInv, ToldOK, RowOf
<1>2. ASSUME NEW c \in Call, NEW why \in CallStatus \ {"answered", "inserted"},
             call[c].at \notin {"answered", "inserted"},
             Proceeds(c, why), UNCHANGED <<calibration, unwritten>>
      PROVE  CalibrationInv'
  <2> DEFINE x == [call[c] EXCEPT !.at = why]
  <2>1. CallMoves(c, x)
    BY <1>2, ProceedMoves DEF Proceeds
  <2>2. x.at = why /\ x.told = {}
    BY <1>2, UntoldYet DEF CalibrationInv, CallShape, CallRow
  <2> HIDE DEF x
  <2> QED BY <1>2, <2>1, <2>2, QuietCallKeeps
<1>3. ASSUME NEW c \in Call, NEW r \in calibration, NEW late \in BOOLEAN, call[c].at # "inserted",
             SameKey(r, RowOf(c)), late \/ r.asked = call[c].asked,
             Answered(c, r, late), UNCHANGED <<calibration, unwritten>>
      PROVE  CalibrationInv'
  <2> DEFINE x == [call[c] EXCEPT !.at = "answered", !.told = {r}, !.late = late]
  <2>1. r \in KeyedRow
    BY DEF CalibrationInv, CallShape
  <2>2. CallMoves(c, x)
    BY <1>3, <2>1, AnswerMoves
  <2>3. x.at = "answered" /\ x.told = {r} /\ x.late = late
    BY DEF CalibrationInv, CallShape, CallRow
  <2> HIDE DEF x
  <2> QED BY <1>3, <2>2, <2>3, QuietCallKeeps
<1>4. ASSUME NEW c \in Call, Check(c) PROVE CalibrationInv'
  <2> DEFINE mine == {r \in calibration : SameKey(r, RowOf(c))}
  <2>1. call[c].at = "idle" /\ UNCHANGED <<calibration, unwritten>>
    BY <1>4 DEF Check
  <2>2. {"evidence_not_ready", "key_reused", "unkeyed", "checked"}
           \subseteq CallStatus \ {"answered", "inserted"}
    BY DEF CallStatus
  <2>3. \/ \E why \in {"evidence_not_ready", "key_reused", "unkeyed", "checked"} : Proceeds(c, why)
        \/ \E r \in mine : SameRequest(r, c) /\ Answered(c, r, FALSE)
    <3>1. \/ Proceeds(c, "evidence_not_ready")
          \/ \E r \in mine :
                IF SameRequest(r, c) THEN Answered(c, r, FALSE) ELSE Proceeds(c, "key_reused")
          \/ Proceeds(c, "unkeyed") \/ Proceeds(c, "checked")
      BY <1>4 DEF Check
    <3> QED BY <3>1
  <2>4. CASE \E why \in {"evidence_not_ready", "key_reused", "unkeyed", "checked"} : Proceeds(c, why)
    BY <1>2, <2>1, <2>2, <2>4
  <2>5. CASE \E r \in mine : SameRequest(r, c) /\ Answered(c, r, FALSE)
    <3>1. PICK r \in mine : SameRequest(r, c) /\ Answered(c, r, FALSE)
      BY <2>5
    <3> QED BY <1>3, <2>1, <3>1 DEF SameRequest
  <2> QED BY <2>3, <2>4, <2>5
<1>5. ASSUME NEW c \in Call, LoseInsert(c) PROVE CalibrationInv'
  <2> DEFINE mine == {r \in calibration : SameKey(r, RowOf(c))}
  <2>1. call[c].at = "checked" /\ UNCHANGED <<calibration, unwritten>>
    BY <1>5 DEF LoseInsert
  <2>2. "error" \in CallStatus \ {"answered", "inserted"}
    BY DEF CallStatus
  <2>3. Proceeds(c, "error") \/ \E r \in mine : Answered(c, r, TRUE)
    BY <1>5 DEF LoseInsert
  <2>4. CASE Proceeds(c, "error")
    BY <1>2, <2>1, <2>2, <2>4
  <2>5. CASE \E r \in mine : Answered(c, r, TRUE)
    <3>1. PICK r \in mine : Answered(c, r, TRUE)
      BY <2>5
    <3> QED BY <1>3, <2>1, <3>1
  <2> QED BY <2>3, <2>4, <2>5
<1>6. ASSUME NEW c \in Call, Insert(c) PROVE CalibrationInv'
  <2> DEFINE x == [call[c] EXCEPT !.at = "inserted"]
  <2>1. CallMoves(c, x) /\ x.at = "inserted" /\ x.told = {} /\ call[c].at = "checked"
    <3>1. call[c].at = "checked" /\ call' = [call EXCEPT ![c].at = "inserted"] /\ "inserted" \in CallStatus
      BY <1>6 DEF Insert, CallStatus
    <3>2. CallMoves(c, x)
      BY <3>1, ProceedMoves
    <3> QED BY <3>1, <3>2, UntoldYet DEF CalibrationInv, CallShape, CallRow
  <2> HIDE DEF x
  <2>2. /\ call' \in [Call -> CallRow] /\ call'[c] = x
        /\ \A d \in Call : RowOf(d)' = RowOf(d)
        /\ \A d \in Call \ {c} : call'[d] = call[d]
    BY <2>1, MoveKeeps
  <2>3. /\ calibration' = calibration /\ unwritten' = unwritten \cup {RowOf(c)}
        /\ \A r \in calibration \cup unwritten : ~Clashes(r, c)
    BY <1>6 DEF Insert
  <2>4. RowOf(c) \in KeyedRow /\ RowOf(c).by = c /\ RowOf(c).kind = call[c].kind
    BY DEF CalibrationInv, CallShape, CallRow, KeyedRow, RowOf
  <2>5. CallShape'
    BY <2>2, <2>3, <2>4 DEF CalibrationInv, CallShape
  <2>6. OpenInv'
    <3>1. \A r \in unwritten : r.by \in Call /\ r.by # c
      BY <2>1 DEF CalibrationInv, CallShape, OpenInv, KeyedRow
    <3> QED BY <2>1, <2>2, <2>3, <2>4, <3>1 DEF CalibrationInv, OpenInv
  <2>7. IndexInv'
    <3>1. \A r \in calibration \cup unwritten : ~Excludes(r, RowOf(c)) /\ ~Excludes(RowOf(c), r)
      BY <2>3, <2>4 DEF Clashes, Excludes, SameKey
    <3> HIDE DEF Excludes
    <3> QED BY <2>3, <3>1 DEF CalibrationInv, IndexInv
  <2>8. \A d \in Call : ToldOK(d)'
    <3>1. ToldOK(c)'
      BY <2>1, <2>2 DEF ToldOK
    <3>2. ASSUME NEW d \in Call \ {c} PROVE ToldOK(d)'
      BY <2>2, <2>3 DEF CalibrationInv, ToldOK
    <3> QED BY <3>1, <3>2
  <2> QED BY <2>5, <2>6, <2>7, <2>8 DEF CalibrationInv
<1>7. ASSUME NEW c \in Call, CommitCall(c) \/ Undone(c) PROVE CalibrationInv'
  <2> DEFINE mine == RowOf(c)
  <2>1. /\ call[c].at = "inserted" /\ unwritten' = unwritten \ {mine}
        /\ calibration' = calibration \/ calibration' = calibration \cup {mine}
    BY <1>7 DEF CommitCall, Undone
  <2>2. mine \in KeyedRow /\ mine.by = c /\ mine \in unwritten /\ mine.asked = call[c].asked
    BY <2>1 DEF CalibrationInv, CallShape, CallRow, KeyedRow, RowOf, OpenInv
  <2>3. \E x : /\ CallMoves(c, x) /\ x.at # "inserted"
               /\ \/ x.at = "error" /\ x.told = {}
                  \/ x.at = "answered" /\ x.told = {mine} /\ calibration' = calibration \cup {mine}
    <3>1. CASE CommitCall(c)
      <4> DEFINE x == [call[c] EXCEPT !.at = "answered", !.told = {mine}, !.late = FALSE]
      <4>1. CallMoves(c, x)
        BY <2>2, <3>1, AnswerMoves DEF CommitCall
      <4>2. x.at = "answered" /\ x.told = {mine}
        BY DEF CalibrationInv, CallShape, CallRow
      <4> HIDE DEF x
      <4> QED BY <3>1, <4>1, <4>2 DEF CommitCall
    <3>2. CASE Undone(c)
      <4> DEFINE x == [call[c] EXCEPT !.at = "error"]
      <4>1. "error" \in CallStatus
        BY DEF CallStatus
      <4>2. CallMoves(c, x)
        BY <2>1, <3>2, <4>1, ProceedMoves DEF Undone, Proceeds
      <4>3. x.at = "error" /\ x.told = {}
        BY <2>1, UntoldYet DEF CalibrationInv, CallShape, CallRow
      <4> HIDE DEF x
      <4> QED BY <4>2, <4>3
    <3> QED BY <1>7, <3>1, <3>2
  <2>4. PICK x : /\ CallMoves(c, x) /\ x.at # "inserted"
                 /\ \/ x.at = "error" /\ x.told = {}
                    \/ x.at = "answered" /\ x.told = {mine} /\ calibration' = calibration \cup {mine}
    BY <2>3
  <2>5. /\ call' \in [Call -> CallRow] /\ call'[c] = x
        /\ \A d \in Call : RowOf(d)' = RowOf(d)
        /\ \A d \in Call \ {c} : call'[d] = call[d]
    BY <2>4, MoveKeeps
  <2>6. CallShape'
    BY <2>1, <2>2, <2>5 DEF CalibrationInv, CallShape
  <2>7. OpenInv'
    <3>1. \A r \in unwritten' : r.by \in Call /\ r = RowOf(r.by) /\ r.by # c
      BY <2>1 DEF CalibrationInv, CallShape, OpenInv, KeyedRow
    <3>2. \A d \in Call \ {c} : RowOf(d) # mine
      BY <2>2 DEF RowOf
    <3> QED BY <2>1, <2>4, <2>5, <3>1, <3>2 DEF CalibrationInv, OpenInv
  <2>8. IndexInv'
    BY <2>1, <2>2 DEF CalibrationInv, IndexInv
  <2>9. \A d \in Call : ToldOK(d)'
    <3>1. ToldOK(c)'
      BY <2>2, <2>4, <2>5 DEF ToldOK, SameKey, CallMoves
    <3>2. ASSUME NEW d \in Call \ {c} PROVE ToldOK(d)'
      BY <2>1, <2>5 DEF CalibrationInv, ToldOK
    <3> QED BY <3>1, <3>2
  <2> QED BY <2>6, <2>7, <2>8, <2>9 DEF CalibrationInv
<1>8. ASSUME NEW c \in Call, SeekOpen(c) PROVE CalibrationInv'
  <2>1. /\ call[c].at = "unkeyed" /\ UNCHANGED <<calibration, unwritten>>
        /\ \E why \in {"already_open", "checked", "evidence_not_ready"} : Proceeds(c, why)
    BY <1>8 DEF SeekOpen
  <2>2. {"already_open", "checked", "evidence_not_ready"} \subseteq CallStatus \ {"answered", "inserted"}
    BY DEF CallStatus
  <2> QED BY <1>2, <2>1, <2>2
<1> QED BY <1>1, <1>4, <1>5, <1>6, <1>7, <1>8 DEF CalibrationNext

\* The invariant holds in every state of every behaviour.
THEOREM CalibrationInvariance == CalibrationSpec => []CalibrationInv
<1>1. CalibrationInit => CalibrationInv
  BY CalibrationInitEstablishes
<1>2. CalibrationInv /\ [CalibrationNext]_calibrationVars => CalibrationInv'
  BY CalibrationStep
<1> QED BY <1>1, <1>2, PTL DEF CalibrationSpec

\* A site has one open set and a key one row, and a call is told of a row of its own
\* key and request unless it lost its insert, for any number of calls and keys
\* (create_run, review_item and their unique indexes).
THEOREM RetriesTheorem == CalibrationSpec => []RetriesAgree
<1>1. CalibrationInv => RetriesAgree
  <2> SUFFICES ASSUME CalibrationInv PROVE RetriesAgree
    OBVIOUS
  <2>1. Cardinality(Runs) <= 1
    <3>1. \A r, s \in Runs : r = s
      BY DEF CalibrationInv, IndexInv, Excludes, Runs
    <3> QED BY <3>1, OneAtMost
  <2> QED BY <2>1 DEF CalibrationInv, IndexInv, Excludes, ToldOK, RetriesAgree
<1> QED BY <1>1, CalibrationInvariance, PTL

-----------------------------------------------------------------------------
(* Tracked questions.                                                      *)

\* The requests that have found room and not used it yet.
Promised == {t \in Tracker : tracker[t] # NoText}

\* A text has one row.  Questions and promises together exceed the limit only by the
\* requests that were counting at once.
QuestionsInv ==
    /\ question \in Seq(QuestionRow)
    /\ \A i, j \in DOMAIN question : question[i].text = question[j].text => i = j
    /\ tracker \in [Tracker -> Question \cup {NoText}]
    /\ Cardinality(Active) + Cardinality(Promised) < MaxTracked + Cardinality(Tracker)

\* Active questions and promises can be counted.
LEMMA QuestionsCount ==
    ASSUME question \in Seq(QuestionRow)
    PROVE  /\ IsFiniteSet(Active) /\ Cardinality(Active) \in Nat
           /\ IsFiniteSet(Promised) /\ Cardinality(Promised) \in Nat
           /\ Cardinality(Promised) <= Cardinality(Tracker) /\ Cardinality(Tracker) \in Nat
<1>1. IsFiniteSet(1..Len(question)) /\ Active \subseteq 1..Len(question)
  BY FS_Interval DEF Active
<1>2. IsFiniteSet(Tracker) /\ Promised \subseteq Tracker
  BY CitationAssumption DEF CitationAssumption, Promised
<1>3. /\ IsFiniteSet(Active) /\ IsFiniteSet(Promised)
      /\ Cardinality(Promised) <= Cardinality(Tracker)
  BY <1>1, <1>2, FS_Subset
<1> QED BY <1>2, <1>3, FS_CardinalityType

\* An element adds one to a set at most.
LEMMA OneMore ==
    ASSUME NEW S, IsFiniteSet(S), NEW k
    PROVE  IsFiniteSet(S \cup {k}) /\ Cardinality(S \cup {k}) <= Cardinality(S) + 1
<1> DEFINE old == Cardinality(S)
           new == Cardinality(S \cup {k})
<1>1. IsFiniteSet(S \cup {k}) /\ new = IF k \in S THEN old ELSE old + 1
  BY FS_AddElement, Zenon
<1>2. old \in Nat
  BY FS_CardinalityType
<1>3. new <= old + 1
  <2> HIDE DEF old, new
  <2> QED BY <1>1, <1>2
<1> QED BY <1>1, <1>3

\* A request that finds room promises one question more, below the limit.
LEMMA FindRoomStep ==
    ASSUME QuestionsInv, NEW t \in Tracker, NEW q \in Question, FindRoom(t, q)
    PROVE  QuestionsInv'
<1>1. /\ question \in Seq(QuestionRow) /\ question' = question /\ Active' = Active
      /\ Cardinality(Active) < MaxTracked
  BY DEF QuestionsInv, FindRoom, Active
<1>2. tracker' \in [Tracker -> Question \cup {NoText}]
  BY DEF QuestionsInv, FindRoom
<1>3. Cardinality(Promised') <= Cardinality(Tracker) /\ Cardinality(Promised') \in Nat
  <2>1. IsFiniteSet(Tracker) /\ Promised' \subseteq Tracker
    BY CitationAssumption DEF CitationAssumption, Promised
  <2> QED BY <2>1, FS_Subset, FS_CardinalityType
<1>4. Cardinality(Active) + Cardinality(Promised') < MaxTracked + Cardinality(Tracker)
  BY <1>1, <1>3, QuestionsCount, CitationAssumption DEF CitationAssumption
<1> QED BY <1>1, <1>2, <1>4 DEF QuestionsInv

\* A promise that is kept, or refused by the index, adds one question at most.
LEMMA TrackStep ==
    ASSUME QuestionsInv, NEW t \in Tracker, Track(t)
    PROVE  QuestionsInv'
<1> DEFINE q == tracker[t]
<1>1. /\ question \in Seq(QuestionRow) /\ q \in Question /\ q # NoText
      /\ tracker' = [tracker EXCEPT ![t] = NoText]
      /\ tracker \in [Tracker -> Question \cup {NoText}]
      /\ \A i, j \in DOMAIN question : question[i].text = question[j].text => i = j
  BY DEF QuestionsInv, Track
<1>2. tracker' \in [Tracker -> Question \cup {NoText}]
  BY <1>1
<1>3. Cardinality(Promised') = Cardinality(Promised) - 1
  <2>1. Promised' = Promised \ {t} /\ t \in Promised
    BY <1>1 DEF Promised
  <2> QED BY <1>1, <2>1, QuestionsCount, FS_RemoveElement
<1>4. /\ question' \in Seq(QuestionRow)
      /\ \A i, j \in DOMAIN question' : question'[i].text = question'[j].text => i = j
      /\ \E k : Active' \subseteq Active \cup {k}
  <2>1. CASE RowsOf(q) = {}
    <3> DEFINE new == [text |-> q, active |-> TRUE]
    <3>1. question' = Append(question, new) /\ new.text = q
      BY <2>1 DEF Track
    <3>2. new \in QuestionRow
      BY <1>1 DEF QuestionRow
    <3> HIDE DEF new
    <3>3. /\ question' \in Seq(QuestionRow) /\ DOMAIN question' = 1..(Len(question) + 1)
          /\ DOMAIN question = 1..Len(question) /\ Len(question) \in Nat
          /\ \A i \in DOMAIN question : question'[i] = question[i]
          /\ question'[Len(question) + 1] = new
      BY <1>1, <3>1, <3>2
    <3>4. \A i \in DOMAIN question : question[i].text # q
      BY <2>1 DEF RowsOf
    <3>5. Active' \subseteq Active \cup {Len(question) + 1}
      BY <3>3 DEF Active
    <3>6. \A i \in DOMAIN question' : i \in DOMAIN question \/ i = Len(question) + 1
      BY <3>3
    <3>7. \A i, j \in DOMAIN question' : question'[i].text = question'[j].text => i = j
      BY <1>1, <3>1, <3>3, <3>4, <3>6
    <3> QED BY <3>3, <3>5, <3>7
  <2>2. CASE RowsOf(q) # {}
    <3>1. PICK k \in RowsOf(q) : TRUE
      BY <2>2
    <3>2. k \in DOMAIN question /\ \A i \in RowsOf(q) : i = k
      BY <1>1, <3>1 DEF RowsOf
    <3>3. \A i \in DOMAIN question : question[i] \in QuestionRow
      BY <1>1
    <3>4. /\ DOMAIN question' = DOMAIN question
          /\ \A i \in DOMAIN question :
                question'[i] = IF i \in RowsOf(q) THEN [question[i] EXCEPT !.active = TRUE] ELSE question[i]
          /\ question' = [i \in DOMAIN question |-> question'[i]]
      BY <2>2 DEF Track
    <3>5. \A i \in DOMAIN question :
             /\ question'[i] \in QuestionRow /\ question'[i].text = question[i].text
             /\ i # k => question'[i] = question[i]
      BY <3>2, <3>3, <3>4 DEF QuestionRow
    <3>6. DOMAIN question = 1..Len(question) /\ Len(question) \in Nat
      BY <1>1
    <3>7. question' \in Seq(QuestionRow)
      BY <3>4, <3>5, <3>6
    <3>8. Active' \subseteq Active \cup {k}
      BY <3>4, <3>5 DEF Active
    <3>9. \A i, j \in DOMAIN question' : question'[i].text = question'[j].text => i = j
      BY <1>1, <3>4, <3>5
    <3> QED BY <3>7, <3>8, <3>9
  <2> QED BY <2>1, <2>2
<1>5. Cardinality(Active') <= Cardinality(Active) + 1 /\ Cardinality(Active') \in Nat
  <2>1. PICK k : Active' \subseteq Active \cup {k}
    BY <1>4
  <2>2. IsFiniteSet(Active) /\ Cardinality(Active) \in Nat
    BY <1>1, QuestionsCount
  <2>3. IsFiniteSet(Active \cup {k}) /\ Cardinality(Active \cup {k}) <= Cardinality(Active) + 1
    BY <2>2, OneMore
  <2>4. IsFiniteSet(Active') /\ Cardinality(Active') <= Cardinality(Active \cup {k})
    BY <2>1, <2>3, FS_Subset
  <2> QED BY <2>2, <2>3, <2>4, FS_CardinalityType
<1>6. Cardinality(Active') + Cardinality(Promised') < MaxTracked + Cardinality(Tracker)
  BY <1>1, <1>3, <1>5, QuestionsCount, CitationAssumption DEF QuestionsInv, CitationAssumption
<1> QED BY <1>2, <1>4, <1>6 DEF QuestionsInv

\* A question that is retired is one fewer.
LEMMA UntrackStep ==
    ASSUME QuestionsInv, NEW i, Untrack(i)
    PROVE  QuestionsInv'
<1>1. /\ question \in Seq(QuestionRow) /\ i \in DOMAIN question
      /\ tracker' = tracker /\ Promised' = Promised
      /\ question' = [question EXCEPT ![i].active = FALSE]
  BY DEF QuestionsInv, Untrack, Active, Promised
<1>2. DOMAIN question = 1..Len(question) /\ Len(question) \in Nat
  BY <1>1
<1>3. \A j \in DOMAIN question : question[j] \in QuestionRow
  BY <1>1
<1>4. /\ DOMAIN question' = DOMAIN question
      /\ question' = [j \in DOMAIN question |-> question'[j]]
      /\ \A j \in DOMAIN question :
            question'[j] = IF j = i THEN [question[j] EXCEPT !.active = FALSE] ELSE question[j]
  BY <1>1
<1>5. \A j \in DOMAIN question :
         /\ question'[j] \in QuestionRow /\ question'[j].text = question[j].text
         /\ question'[j].active => question[j].active
  BY <1>3, <1>4 DEF QuestionRow
<1>6. question' \in Seq(QuestionRow)
  BY <1>2, <1>4, <1>5
<1>7. Active' \subseteq Active
  BY <1>4, <1>5 DEF Active
<1>8. Cardinality(Active') <= Cardinality(Active) /\ Cardinality(Active') \in Nat
  BY <1>1, <1>7, QuestionsCount, FS_Subset, FS_CardinalityType
<1>9. Cardinality(Active') + Cardinality(Promised') < MaxTracked + Cardinality(Tracker)
  BY <1>1, <1>8, QuestionsCount, CitationAssumption DEF QuestionsInv, CitationAssumption
<1> QED BY <1>1, <1>4, <1>5, <1>6, <1>9 DEF QuestionsInv

\* QuestionsInv is inductive, and holds in every state of the specification.
THEOREM QuestionsInvariance == CitationSpec => []QuestionsInv
<1>1. CitationInit => QuestionsInv
  <2> SUFFICES ASSUME CitationInit PROVE QuestionsInv
    OBVIOUS
  <2>1. /\ question = <<>> /\ question \in Seq(QuestionRow) /\ DOMAIN question = {}
        /\ \A t \in Tracker : tracker[t] = NoText
        /\ tracker \in [Tracker -> Question \cup {NoText}]
    BY DEF CitationInit
  <2>2. Active = {} /\ Promised = {}
    BY <2>1 DEF Active, Promised
  <2>3. Cardinality(Active) = 0 /\ Cardinality(Promised) = 0
    BY <2>2, FS_EmptySet
  <2> QED BY <2>1, <2>3, QuestionsCount, CitationAssumption DEF QuestionsInv, CitationAssumption
<1>2. QuestionsInv /\ [CitationNext]_citationVars => QuestionsInv'
  <2> SUFFICES ASSUME QuestionsInv, [CitationNext]_citationVars PROVE QuestionsInv'
    OBVIOUS
  <2>1. CASE \E t \in Tracker : Track(t) \/ \E q \in Question : FindRoom(t, q)
    BY <2>1, TrackStep, FindRoomStep
  <2>2. CASE \E i \in 1..Cardinality(Question) : Untrack(i)
    BY <2>2, UntrackStep
  <2>3. CASE UNCHANGED <<question, tracker>>
    BY <2>3 DEF QuestionsInv, Active, Promised
  <2>4. ASSUME NEW s \in Scanner, StartScan(s) \/ Ask(s) \/ Persist(s) \/ ScanFalls(s)
        PROVE  UNCHANGED <<question, tracker>>
    BY <2>4 DEF StartScan, Ask, Persist, ScanFalls
  <2> QED BY <2>1, <2>2, <2>3, <2>4 DEF CitationNext, citationVars
<1> QED BY <1>1, <1>2, PTL DEF CitationSpec

\* A site tracks more questions than the limit only by requests that counted them
\* together, one for each, whoever retires and tracks again (track, untrack).
THEOREM RoomTheorem == CitationSpec => []OnlyOverlapExceedsLimit
<1>1. QuestionsInv => OnlyOverlapExceedsLimit
  <2> SUFFICES ASSUME QuestionsInv PROVE OnlyOverlapExceedsLimit
    OBVIOUS
  <2> QED BY QuestionsCount, CitationAssumption DEF QuestionsInv, OnlyOverlapExceedsLimit, CitationAssumption
<1> QED BY <1>1, QuestionsInvariance, PTL

-----------------------------------------------------------------------------
(* Scans.  Sums over the scans at work are counted as sets of pairs: a     *)
(* scan and one of the estimates it may still spend or has spent.          *)

Slice(s, n) == {s} \X (1..n)
Estimate == Scanner \X (1..MonthBudget)

\* What the scans at work may cost in all, by the estimates, and what they have cost.
Owed == {e \in Estimate : e[2] <= scan[e[1]].reckoned + scan[e[1]].calls}
Charged == {e \in Estimate : e[2] <= scan[e[1]].reckoned}

ScanRow == [at : {"idle", "asking"}, calls : Nat, cost : Nat, reckoned : Nat]

\* A scan reckons with no more than the budget; what is paid so is recorded or at work,
\* and together with the calls that scans still owe no more than the budget for each.
ScanInv ==
    /\ scan \in [Scanner -> ScanRow]
    /\ \A s \in Scanner :
          /\ scan[s].reckoned + scan[s].calls <= MonthBudget
          /\ scan[s].reckoned <= scan[s].cost
          /\ scan[s].at = "idle" => scan[s].reckoned = 0 /\ scan[s].calls = 0
    /\ recorded \in Nat /\ billed \in Nat /\ unreckoned \in Nat
    /\ billed <= unreckoned + recorded + Cardinality(Charged)
    /\ billed + Cardinality(Owed)
          <= unreckoned + Cardinality(Charged) + MonthBudget * Cardinality(Scanner)

\* The estimates of one scan.
LEMMA SliceCount ==
    ASSUME NEW s, NEW n \in Nat
    PROVE  IsFiniteSet(Slice(s, n)) /\ Cardinality(Slice(s, n)) = n
<1>1. IsFiniteSet({s}) /\ Cardinality({s}) = 1
  BY FS_Singleton
<1>2. IsFiniteSet(1..n) /\ Cardinality(1..n) = n
  <2>1. IsFiniteSet(1..n) /\ Cardinality(1..n) = IF 1 > n THEN 0 ELSE n - 1 + 1
    BY FS_Interval
  <2> QED BY <2>1
<1>3. /\ IsFiniteSet({s} \X (1..n))
      /\ Cardinality({s} \X (1..n)) = Cardinality({s}) * Cardinality(1..n)
  BY <1>1, <1>2, FS_Product
<1>4. Cardinality({s} \X (1..n)) = n
  BY <1>1, <1>2, <1>3
<1> QED BY <1>3, <1>4 DEF Slice

\* Estimates can be counted, before and after a step.
LEMMA EstimatesCount ==
    /\ IsFiniteSet(Owed) /\ Cardinality(Owed) \in Nat
    /\ IsFiniteSet(Charged) /\ Cardinality(Charged) \in Nat
    /\ IsFiniteSet(Owed') /\ Cardinality(Owed') \in Nat
    /\ IsFiniteSet(Charged') /\ Cardinality(Charged') \in Nat
    /\ Cardinality(Scanner) \in Nat
<1>1. IsFiniteSet(Scanner) /\ MonthBudget \in Nat
  BY CitationAssumption DEF CitationAssumption
<1>2. IsFiniteSet(1..MonthBudget)
  BY <1>1, FS_Interval
<1>3. IsFiniteSet(Estimate)
  BY <1>1, <1>2, FS_Product DEF Estimate
<1>4. /\ Owed \subseteq Estimate /\ Charged \subseteq Estimate
      /\ Owed' \subseteq Estimate /\ Charged' \subseteq Estimate
  BY DEF Owed, Charged
<1>5. IsFiniteSet(Owed) /\ IsFiniteSet(Charged) /\ IsFiniteSet(Owed') /\ IsFiniteSet(Charged')
  BY <1>3, <1>4, FS_Subset
<1> QED BY <1>1, <1>5, FS_CardinalityType

\* The estimates below a count for each scan: when one count falls to nothing, the set
\* loses as many as it was.
Below(f) == {e \in Estimate : e[2] <= f[e[1]]}

LEMMA SliceLeaves ==
    ASSUME NEW f, NEW g, NEW s \in Scanner, IsFiniteSet(Below(f)),
           f[s] \in 0..MonthBudget, g[s] = 0, \A r \in Scanner \ {s} : g[r] = f[r]
    PROVE  Cardinality(Below(g)) = Cardinality(Below(f)) - f[s]
<1>1. f[s] \in Nat /\ f[s] <= MonthBudget /\ MonthBudget \in Nat
  BY CitationAssumption DEF CitationAssumption
<1>2. Slice(s, f[s]) \subseteq Below(f)
  <2>1. ASSUME NEW k \in 1..f[s] PROVE <<s, k>> \in Below(f)
    <3>1. k \in 1..MonthBudget /\ k <= f[s]
      BY <1>1
    <3> QED BY <3>1 DEF Below, Estimate
  <2> QED BY <2>1 DEF Slice
<1>3. \A r \in Scanner, k \in 1..MonthBudget :
         <<r, k>> \in Below(g) <=> <<r, k>> \in Below(f) /\ <<r, k>> \notin Slice(s, f[s])
  <2> SUFFICES ASSUME NEW r \in Scanner, NEW k \in 1..MonthBudget
               PROVE  k <= g[r] <=> k <= f[r] /\ ~(r = s /\ k \in 1..f[s])
    BY DEF Below, Estimate, Slice
  <2>1. CASE r = s
    BY <1>1, <2>1
  <2>2. CASE r # s
    BY <2>2
  <2> QED BY <2>1, <2>2
<1>4. Below(g) = Below(f) \ Slice(s, f[s])
  BY <1>3 DEF Below, Estimate
<1>5. Below(f) \cap Slice(s, f[s]) = Slice(s, f[s])
  BY <1>2
<1>6. Cardinality(Below(g)) = Cardinality(Below(f)) - Cardinality(Below(f) \cap Slice(s, f[s]))
  BY <1>4, FS_Difference
<1> QED BY <1>1, <1>5, <1>6, SliceCount

\* The other scans promise the budget each at most.
LEMMA OthersCount ==
    ASSUME ScanInv, NEW s \in Scanner, scan[s].at = "idle"
    PROVE  Cardinality(Owed) <= (Cardinality(Scanner) - 1) * MonthBudget
<1> DEFINE others == Scanner \ {s}
<1>1. IsFiniteSet(Scanner) /\ MonthBudget \in Nat
  BY CitationAssumption DEF CitationAssumption
<1>2. IsFiniteSet(others) /\ Cardinality(others) = Cardinality(Scanner) - 1
  BY <1>1, FS_RemoveElement
<1>3. IsFiniteSet(1..MonthBudget) /\ Cardinality(1..MonthBudget) = MonthBudget
  <2>1. /\ IsFiniteSet(1..MonthBudget)
        /\ Cardinality(1..MonthBudget) = IF 1 > MonthBudget THEN 0 ELSE MonthBudget - 1 + 1
    BY <1>1, FS_Interval
  <2> QED BY <1>1, <2>1
<1>4. /\ IsFiniteSet(others \X (1..MonthBudget))
      /\ Cardinality(others \X (1..MonthBudget)) = Cardinality(others) * Cardinality(1..MonthBudget)
  BY <1>2, <1>3, FS_Product
<1>5. Owed \subseteq others \X (1..MonthBudget)
  BY DEF ScanInv, Owed, Estimate
<1>6. Cardinality(Owed) <= Cardinality(others \X (1..MonthBudget))
  BY <1>4, <1>5, FS_Subset
<1> QED BY <1>2, <1>3, <1>4, <1>6

\* A scan plans no more calls than what is recorded leaves room for.
LEMMA StartScanStep ==
    ASSUME QuestionsInv, ScanInv, NEW s \in Scanner, StartScan(s)
    PROVE  ScanInv'
<1> DEFINE calls == CallsWithinBudget(Least(Cardinality(Active), MaxTracked) * Providers)
           row == [Asleep EXCEPT !.at = "asking", !.calls = calls]
<1>1. /\ MonthBudget \in Nat /\ MaxTracked \in Nat /\ Providers \in Nat
      /\ Cardinality(Active) \in Nat
  BY QuestionsCount, CitationAssumption DEF CitationAssumption, QuestionsInv
<1>2. Least(Cardinality(Active), MaxTracked) * Providers \in Nat
  BY <1>1 DEF Least
<1>3. /\ scan[s].at = "idle" /\ calls > 0 /\ UNCHANGED <<recorded, billed, unreckoned>>
      /\ scan' = [scan EXCEPT ![s] = row]
  BY DEF StartScan
<1>4. calls \in Nat /\ calls + recorded <= MonthBudget
  BY <1>1, <1>2, <1>3 DEF CallsWithinBudget, Least, ScanInv
<1> HIDE DEF calls
<1>5. row \in ScanRow /\ row.reckoned = 0 /\ row.cost = 0 /\ row.calls = calls /\ row.at = "asking"
  BY <1>4 DEF Asleep, ScanRow
<1> HIDE DEF row
<1>6. scan' \in [Scanner -> ScanRow]
  BY <1>3, <1>5 DEF ScanInv
<1>7. \A r \in Scanner :
         /\ scan'[r].reckoned + scan'[r].calls <= MonthBudget
         /\ scan'[r].reckoned <= scan'[r].cost
         /\ scan'[r].at = "idle" => scan'[r].reckoned = 0 /\ scan'[r].calls = 0
  <2> SUFFICES ASSUME NEW r \in Scanner
               PROVE  /\ scan'[r].reckoned + scan'[r].calls <= MonthBudget
                      /\ scan'[r].reckoned <= scan'[r].cost
                      /\ scan'[r].at = "idle" => scan'[r].reckoned = 0 /\ scan'[r].calls = 0
    OBVIOUS
  <2>1. scan'[r] = IF r = s THEN row ELSE scan[r]
    BY <1>3 DEF ScanInv
  <2> QED BY <1>1, <1>4, <1>5, <2>1 DEF ScanInv, ScanRow
<1>8. Cardinality(Owed') = Cardinality(Owed) + calls
  <2>1. Owed' = Owed \cup Slice(s, calls) /\ Owed \cap Slice(s, calls) = {}
    BY <1>1, <1>3, <1>4, <1>5 DEF Owed, Estimate, Slice, ScanInv
  <2>2. /\ Cardinality(Owed') = Cardinality(Owed) + calls - Cardinality(Owed \cap Slice(s, calls))
    BY <1>4, <2>1, SliceCount, EstimatesCount, FS_Union
  <2>3. Cardinality(Owed \cap Slice(s, calls)) = 0
    BY <2>1, FS_EmptySet
  <2> QED BY <1>4, <2>2, <2>3, EstimatesCount
<1>9. Charged' = Charged
  BY <1>3, <1>5 DEF Charged, Estimate, ScanInv
<1>10. billed + Cardinality(Owed')
         <= unreckoned + Cardinality(Charged) + MonthBudget * Cardinality(Scanner)
  <2>1. billed + Cardinality(Owed') <= unreckoned + Cardinality(Charged) + recorded
                                         + (Cardinality(Scanner) - 1) * MonthBudget + calls
    <3>1. (Cardinality(Scanner) - 1) * MonthBudget \in Int
      BY <1>1, EstimatesCount
    <3> QED BY <1>3, <1>4, <1>8, <3>1, OthersCount, EstimatesCount DEF ScanInv
  <2>2. (Cardinality(Scanner) - 1) * MonthBudget = MonthBudget * Cardinality(Scanner) - MonthBudget
    BY <1>1, EstimatesCount
  <2>3. MonthBudget * Cardinality(Scanner) \in Nat
    BY <1>1, EstimatesCount
  <2> QED BY <1>1, <1>4, <2>1, <2>2, <2>3, EstimatesCount DEF ScanInv
<1> QED BY <1>3, <1>6, <1>7, <1>9, <1>10 DEF ScanInv

\* One more estimate is charged, or none.
LEMMA ChargedGrows ==
    ASSUME ScanInv, NEW s \in Scanner, NEW row \in ScanRow, scan' = [scan EXCEPT ![s] = row],
           NEW cost \in {0, 1}, row.reckoned = scan[s].reckoned + cost,
           scan[s].reckoned + cost <= MonthBudget
    PROVE  Cardinality(Charged') = Cardinality(Charged) + cost
<1>1. scan[s] \in ScanRow /\ MonthBudget \in Nat
  BY CitationAssumption DEF ScanInv, CitationAssumption
<1>2. CASE cost = 0
  <2>1. \A r \in Scanner : scan'[r].reckoned = scan[r].reckoned
    BY <1>1, <1>2 DEF ScanInv, ScanRow
  <2>2. Charged' = Charged
    BY <2>1 DEF Charged, Estimate
  <2> QED BY <1>2, <2>2, EstimatesCount
<1>3. CASE cost = 1
  <2> DEFINE e == <<s, scan[s].reckoned + 1>>
  <2>1. e \in Estimate /\ e \notin Charged
    BY <1>1, <1>3 DEF ScanInv, ScanRow, Estimate, Charged
  <2>2. \A f \in Estimate : f \in Charged' <=> f \in Charged \/ f = e
    <3> SUFFICES ASSUME NEW r \in Scanner, NEW n \in 1..MonthBudget
                 PROVE  n <= scan'[r].reckoned
                           <=> n <= scan[r].reckoned \/ (r = s /\ n = scan[s].reckoned + 1)
      BY DEF Estimate, Charged
    <3>1. scan'[r].reckoned = IF r = s THEN scan[s].reckoned + 1 ELSE scan[r].reckoned
      BY <1>3 DEF ScanInv
    <3>2. scan[r].reckoned \in Nat /\ n \in Int
      BY DEF ScanInv, ScanRow
    <3> QED BY <3>1, <3>2
  <2>3. Charged' = Charged \cup {e}
    BY <2>1, <2>2 DEF Charged
  <2> HIDE DEF e
  <2> QED BY <1>3, <2>1, <2>3, EstimatesCount, FS_AddElement
<1> QED BY <1>2, <1>3

\* A call is made and its scan owes one less, whatever it costs.
LEMMA AskStep ==
    ASSUME ScanInv, NEW s \in Scanner, Ask(s)
    PROVE  ScanInv'
<1>1. PICK cost \in 0..MaxCost : (Answers(s, cost) \/ Errs(s, cost)) /\ billed' = billed + cost
  BY DEF Ask
<1>2. cost \in Nat /\ Least(cost, 1) \in {0, 1} /\ Least(cost, 1) <= cost
  BY CitationAssumption DEF CitationAssumption, Least
<1>3. /\ scan[s] \in ScanRow /\ DOMAIN scan = Scanner /\ scan[s].at = "asking"
      /\ scan[s].calls > 0 /\ scan[s].calls - 1 \in Nat /\ UNCHANGED recorded /\ MonthBudget \in Nat
  BY CitationAssumption DEF Ask, ScanInv, ScanRow, CitationAssumption
<1>4. PICK covered \in {0, 1}, kept \in {0, cost}, row \in ScanRow :
         /\ scan' = [scan EXCEPT ![s] = row]
         /\ row.at = "asking" /\ row.calls = scan[s].calls - 1
         /\ row.cost = scan[s].cost + kept /\ row.reckoned = scan[s].reckoned + covered
         /\ unreckoned' = unreckoned + (cost - covered)
         /\ covered <= kept
  <2>1. CASE Answers(s, cost)
    <3>1. PICK covered \in {0, 1} : covered = Least(cost, 1)
      BY <1>2
    <3> DEFINE row == [scan[s] EXCEPT !.calls = scan[s].calls - 1, !.cost = scan[s].cost + cost,
                                      !.reckoned = scan[s].reckoned + covered]
    <3>2. scan' = [scan EXCEPT ![s] = row]
      BY <1>3, <2>1, <3>1 DEF Answers, ScanRow
    <3>3. scan[s].cost + cost \in Nat /\ scan[s].reckoned + covered \in Nat
      BY <1>2, <1>3 DEF ScanRow
    <3>4. /\ row \in ScanRow /\ row.at = "asking" /\ row.calls = scan[s].calls - 1
          /\ row.cost = scan[s].cost + cost /\ row.reckoned = scan[s].reckoned + covered
      BY <1>3, <3>3 DEF ScanRow
    <3>5. unreckoned' = unreckoned + (cost - covered) /\ covered <= cost
      BY <1>2, <2>1, <3>1 DEF Answers, PaidBeside
    <3> HIDE DEF row
    <3> QED BY <3>2, <3>4, <3>5
  <2>2. CASE Errs(s, cost)
    <3> DEFINE row == [scan[s] EXCEPT !.calls = scan[s].calls - 1]
    <3>1. scan' = [scan EXCEPT ![s] = row]
      BY <2>2 DEF Errs
    <3>2. /\ row \in ScanRow /\ row.at = "asking" /\ row.calls = scan[s].calls - 1
          /\ row.cost = scan[s].cost + 0 /\ row.reckoned = scan[s].reckoned + 0
      BY <1>3 DEF ScanRow
    <3>3. unreckoned' = unreckoned + (cost - 0) /\ 0 <= 0
      BY <1>2, <2>2 DEF Errs, PaidBeside
    <3>4. 0 \in {0, 1} /\ 0 \in {0, cost}
      OBVIOUS
    <3> HIDE DEF row
    <3> QED BY <3>1, <3>2, <3>3, <3>4, Zenon
  <2> QED BY <1>1, <2>1, <2>2
<1>5. kept \in Nat /\ covered <= kept /\ covered \in {0, 1}
  BY <1>2, <1>4
<1>7. scan' \in [Scanner -> ScanRow]
  BY <1>4 DEF ScanInv
<1>8. ASSUME NEW r \in Scanner
      PROVE  /\ scan'[r].reckoned + scan'[r].calls <= scan[r].reckoned + scan[r].calls
             /\ scan'[r].reckoned + scan'[r].calls <= MonthBudget
             /\ scan'[r].reckoned <= scan'[r].cost
             /\ scan'[r].at = "idle" => scan'[r].reckoned = 0 /\ scan'[r].calls = 0
  <2>1. scan'[r] = IF r = s THEN row ELSE scan[r]
    BY <1>4 DEF ScanInv
  <2>2. CASE r = s
    <3>1. /\ scan[s].calls \in Nat /\ scan[s].cost \in Nat /\ scan[s].reckoned \in Nat
          /\ scan[s].reckoned + scan[s].calls <= MonthBudget /\ scan[s].reckoned <= scan[s].cost
      BY <1>3 DEF ScanInv, ScanRow
    <3> QED BY <1>3, <1>4, <1>5, <2>1, <2>2, <3>1
  <2>3. CASE r # s
    <3>1. scan[r].reckoned + scan[r].calls \in Int
      BY DEF ScanInv, ScanRow
    <3> QED BY <2>1, <2>3, <3>1 DEF ScanInv
  <2> QED BY <2>2, <2>3
<1>9. Cardinality(Owed') <= Cardinality(Owed)
  <2>1. Owed' \subseteq Owed
    <3>1. \A r \in Scanner : /\ scan'[r].reckoned + scan'[r].calls \in Int
                             /\ scan[r].reckoned + scan[r].calls \in Int
      BY <1>7 DEF ScanInv, ScanRow
    <3> QED BY <1>8, <3>1 DEF Owed, Estimate
  <2> QED BY <2>1, EstimatesCount, FS_Subset
<1>10. Cardinality(Charged') = Cardinality(Charged) + covered
  <2>1. scan[s].reckoned + covered <= MonthBudget
    <3>1. scan[s].reckoned + scan[s].calls <= MonthBudget /\ scan[s].reckoned \in Nat /\ scan[s].calls \in Nat
      BY DEF ScanInv, ScanRow
    <3> QED BY <1>3, <1>5, <3>1
  <2> QED BY <1>4, <1>5, <2>1, ChargedGrows
<1>11. MonthBudget * Cardinality(Scanner) \in Nat
  BY <1>3, EstimatesCount
<1>12. /\ billed' \in Nat /\ unreckoned' \in Nat
       /\ billed' <= unreckoned' + recorded' + Cardinality(Charged')
       /\ billed' + Cardinality(Owed')
             <= unreckoned' + Cardinality(Charged') + MonthBudget * Cardinality(Scanner)
  <2>1. cost - covered \in Nat /\ unreckoned' = unreckoned + (cost - covered) /\ covered <= cost
    BY <1>2, <1>4
  <2> QED BY <1>1, <1>2, <1>3, <1>5, <1>9, <1>10, <1>11, <2>1, EstimatesCount DEF ScanInv
<1> QED BY <1>3, <1>7, <1>8, <1>12 DEF ScanInv

\* A scan that leaves takes its estimates with it.
LEMMA LeaveStep ==
    ASSUME ScanInv, NEW s \in Scanner, scan' = [scan EXCEPT ![s] = Asleep]
    PROVE  /\ scan' \in [Scanner -> ScanRow]
           /\ \A r \in Scanner :
                 /\ scan'[r].reckoned + scan'[r].calls <= MonthBudget
                 /\ scan'[r].reckoned <= scan'[r].cost
                 /\ scan'[r].at = "idle" => scan'[r].reckoned = 0 /\ scan'[r].calls = 0
           /\ Cardinality(Owed') = Cardinality(Owed) - (scan[s].reckoned + scan[s].calls)
           /\ Cardinality(Charged') = Cardinality(Charged) - scan[s].reckoned
<1>1. /\ scan[s] \in ScanRow /\ scan[s].reckoned + scan[s].calls <= MonthBudget
      /\ MonthBudget \in Nat
  BY CitationAssumption DEF ScanInv, CitationAssumption
<1>2. scan' \in [Scanner -> ScanRow]
  BY DEF ScanInv, Asleep, ScanRow
<1>3. \A r \in Scanner :
         /\ scan'[r].reckoned + scan'[r].calls <= MonthBudget
         /\ scan'[r].reckoned <= scan'[r].cost
         /\ scan'[r].at = "idle" => scan'[r].reckoned = 0 /\ scan'[r].calls = 0
  BY <1>1 DEF ScanInv, Asleep
<1>4. Cardinality(Owed') = Cardinality(Owed) - (scan[s].reckoned + scan[s].calls)
  <2> DEFINE f == [r \in Scanner |-> scan[r].reckoned + scan[r].calls]
             g == [r \in Scanner |-> scan'[r].reckoned + scan'[r].calls]
  <2>1. Owed = Below(f) /\ Owed' = Below(g)
    BY DEF Owed, Below, Estimate
  <2>2. f[s] \in 0..MonthBudget /\ g[s] = 0 /\ \A r \in Scanner \ {s} : g[r] = f[r]
    BY <1>1 DEF ScanInv, ScanRow, Asleep
  <2>3. f[s] = scan[s].reckoned + scan[s].calls
    OBVIOUS
  <2> HIDE DEF f, g
  <2> QED BY <2>1, <2>2, <2>3, EstimatesCount, SliceLeaves
<1>5. Cardinality(Charged') = Cardinality(Charged) - scan[s].reckoned
  <2> DEFINE f == [r \in Scanner |-> scan[r].reckoned]
             g == [r \in Scanner |-> scan'[r].reckoned]
  <2>1. Charged = Below(f) /\ Charged' = Below(g)
    BY DEF Charged, Below, Estimate
  <2>2. f[s] \in 0..MonthBudget /\ g[s] = 0 /\ \A r \in Scanner \ {s} : g[r] = f[r]
    BY <1>1 DEF ScanInv, ScanRow, Asleep
  <2>3. f[s] = scan[s].reckoned
    OBVIOUS
  <2> HIDE DEF f, g
  <2> QED BY <2>1, <2>2, <2>3, EstimatesCount, SliceLeaves
<1> QED BY <1>2, <1>3, <1>4, <1>5

\* What a scan has cost is recorded, or lost when it falls.
LEMMA EndScanStep ==
    ASSUME ScanInv, NEW s \in Scanner, Persist(s) \/ ScanFalls(s)
    PROVE  ScanInv'
<1>1. scan[s] \in ScanRow /\ MonthBudget \in Nat /\ MonthBudget * Cardinality(Scanner) \in Nat
  BY CitationAssumption, EstimatesCount DEF ScanInv, CitationAssumption
<1>2. /\ scan[s].cost \in Nat /\ scan[s].calls \in Nat /\ scan[s].reckoned \in Nat
      /\ scan[s].reckoned <= scan[s].cost
  BY <1>1 DEF ScanInv, ScanRow
<1>3. /\ scan' \in [Scanner -> ScanRow]
      /\ \A r \in Scanner :
            /\ scan'[r].reckoned + scan'[r].calls <= MonthBudget
            /\ scan'[r].reckoned <= scan'[r].cost
            /\ scan'[r].at = "idle" => scan'[r].reckoned = 0 /\ scan'[r].calls = 0
      /\ Cardinality(Owed') = Cardinality(Owed) - (scan[s].reckoned + scan[s].calls)
      /\ Cardinality(Charged') = Cardinality(Charged) - scan[s].reckoned
  BY LeaveStep DEF Persist, ScanFalls
<1>4. \/ recorded' = recorded + scan[s].cost /\ UNCHANGED <<billed, unreckoned>>
      \/ unreckoned' = unreckoned + scan[s].reckoned /\ UNCHANGED <<billed, recorded>>
  BY DEF Persist, ScanFalls, PaidBeside
<1>5. /\ recorded' \in Nat /\ billed' \in Nat /\ unreckoned' \in Nat
      /\ billed' <= unreckoned' + recorded' + Cardinality(Charged')
      /\ billed' + Cardinality(Owed')
            <= unreckoned' + Cardinality(Charged') + MonthBudget * Cardinality(Scanner)
  BY <1>1, <1>2, <1>3, <1>4, EstimatesCount DEF ScanInv
<1> QED BY <1>3, <1>5 DEF ScanInv

\* ScanInv is inductive beside QuestionsInv.
LEMMA ScanStep == QuestionsInv /\ ScanInv /\ [CitationNext]_citationVars => ScanInv'
<1> SUFFICES ASSUME QuestionsInv, ScanInv, [CitationNext]_citationVars PROVE ScanInv'
  OBVIOUS
<1>1. CASE UNCHANGED <<scan, recorded, billed, unreckoned>>
  BY <1>1 DEF ScanInv, Owed, Charged
<1>2. CASE \/ \E t \in Tracker : Track(t) \/ \E q \in Question : FindRoom(t, q)
           \/ \E i \in 1..Cardinality(Question) : Untrack(i)
           \/ UNCHANGED citationVars
  BY <1>1, <1>2 DEF Track, FindRoom, Untrack, citationVars
<1> QED BY <1>2, StartScanStep, AskStep, EndScanStep DEF CitationNext

\* It holds at first.
LEMMA ScanInit == CitationInit => ScanInv
<1> SUFFICES ASSUME CitationInit PROVE ScanInv
  OBVIOUS
<1>1. MonthBudget \in Nat /\ scan \in [Scanner -> ScanRow]
  BY CitationAssumption DEF CitationAssumption, CitationInit, Asleep, ScanRow
<1>2. Owed = {} /\ Charged = {}
  BY DEF CitationInit, Asleep, Owed, Charged, Estimate
<1>3. Cardinality(Owed) = 0 /\ Cardinality(Charged) = 0
  BY <1>2, FS_EmptySet
<1>4. MonthBudget * Cardinality(Scanner) \in Nat
  BY <1>1, EstimatesCount
<1> QED BY <1>1, <1>3, <1>4 DEF CitationInit, Asleep, ScanInv

\* The bound follows from it.
LEMMA ScanFollows == ScanInv => SpendIsBounded
<1> SUFFICES ASSUME ScanInv PROVE SpendIsBounded
  OBVIOUS
<1>1. Cardinality(Charged) <= Cardinality(Owed)
  <2>1. Charged \subseteq Owed
    BY DEF Charged, Owed, Estimate, ScanInv, ScanRow
  <2> QED BY <2>1, EstimatesCount, FS_Subset
<1>2. MonthBudget * Cardinality(Scanner) \in Nat
  BY CitationAssumption, EstimatesCount DEF CitationAssumption
<1> QED BY <1>1, <1>2, EstimatesCount DEF ScanInv, SpendIsBounded

\* What estimates cover of a month's bill, and rows record or scans at work will, is no
\* more than the budget for each scan at work at once, for any number of scans, engines
\* and questions and whatever a call costs (calls_within_budget, ask, persist).
THEOREM SpendTheorem == CitationSpec => []SpendIsBounded
BY ScanInit, ScanStep, ScanFollows, QuestionsInvariance, PTL DEF CitationSpec

-----------------------------------------------------------------------------
(* The parts together, as MCWorkspace has them.                            *)

\* What is proved of ContentDrafts is proved of the instance MCWorkspace has of it.
MoneyFacts == INSTANCE ContentDraftsProofs
                  WITH Draft <- Drafts, Target <- Drafts, TargetOf <- [d \in Drafts |-> d],
                       Person <- {}, Writer <- TwoWorkers, Chatter <- {p4}, MaxAttempts <- 1,
                       Budget <- 1, MaxChats <- 2, MaxFaults <- 0,
                       message <- reviewNote, billed <- charged

\* DraftAssumption holds of that instance.
LEMMA MoneyAssumed ==
    /\ Drafts # {} /\ MoneyFacts!IsFiniteSet(Drafts)
    /\ MoneyFacts!IsFiniteSet(TwoWorkers) /\ MoneyFacts!IsFiniteSet({p4})
    /\ [d \in Drafts |-> d] \in [Drafts -> Drafts]
    /\ 1 \in Nat \ {0} /\ 1 \in Nat \ {0}
    /\ 2 \in Nat /\ 0 \in Nat
<1>1. IsFiniteSet({p1}) /\ IsFiniteSet({p4}) /\ IsFiniteSet({r1})
  BY FS_Singleton
<1>2. IsFiniteSet({p1} \cup {p2}) /\ IsFiniteSet({r1} \cup {r2})
  BY <1>1, FS_AddElement
<1>3. IsFiniteSet(({p1} \cup {p2}) \cup {p3})
  BY <1>2, FS_AddElement
<1>4. Drafts = ({p1} \cup {p2}) \cup {p3} /\ TwoWorkers = {r1} \cup {r2}
  BY DEF Drafts, TwoWorkers
<1>5. \A S : IsFiniteSet(S) = MoneyFacts!IsFiniteSet(S)
  BY DEF IsFiniteSet, MoneyFacts!IsFiniteSet
<1> QED BY <1>1, <1>2, <1>3, <1>4, <1>5

\* Both instances spend alike.
LEMMA SameSpent == MoneyFacts!Spent = Money!Spent
<1>1. MoneyFacts!Paid = Money!Paid
  BY DEF Money!Paid, MoneyFacts!Paid
<1>2. \A S : MoneyFacts!Cardinality(S) = Money!Cardinality(S)
  BY DEF Money!Cardinality, MoneyFacts!Cardinality
<1> QED BY <1>1, <1>2 DEF Money!Spent, MoneyFacts!Spent

\* The steps of the one are steps of the other.
LEMMA SameStep == [Money!Next]_moneyVars => [MoneyFacts!Next]_(MoneyFacts!vars)
<1> SUFFICES ASSUME [Money!Next]_moneyVars PROVE [MoneyFacts!Next]_(MoneyFacts!vars)
  OBVIOUS
<1>1. MoneyFacts!Event = Money!Event
  BY DEF Money!Event, MoneyFacts!Event
<1>2. ASSUME NEW w, Money!Defer(w) \/ Money!Crash(w) PROVE MoneyFacts!Defer(w) \/ MoneyFacts!Crash(w)
  BY <1>2 DEF Money!Defer, Money!Crash, Money!Fails, Money!Resting,
              MoneyFacts!Defer, MoneyFacts!Crash, MoneyFacts!Fails, MoneyFacts!Resting
<1>3. ASSUME NEW w, Money!Answer(w) PROVE MoneyFacts!Answer(w)
  BY <1>3 DEF Money!Answer, Money!Written, Money!Unusable, Money!Failed, Money!Acked, Money!Fails,
              Money!Resting, MoneyFacts!Answer, MoneyFacts!Written, MoneyFacts!Unusable,
              MoneyFacts!Failed, MoneyFacts!Acked, MoneyFacts!Fails, MoneyFacts!Resting
<1>4. ASSUME NEW w, NEW d, NEW k, Money!Receive(w, d, k) PROVE MoneyFacts!Receive(w, d, k)
  BY <1>4, SameSpent DEF Money!Receive, Money!Claimable, Money!Claimed, Money!Unwritable, Money!Unopened, MoneyFacts!Unopened, Money!Acked,
              MoneyFacts!Receive, MoneyFacts!Claimable, MoneyFacts!Claimed, MoneyFacts!Unwritable,
              MoneyFacts!Acked
<1>5. ASSUME NEW d, Money!Request(d) PROVE MoneyFacts!Request(d)
  BY <1>5, SameSpent DEF Money!Request, Money!OnlyLive, Money!Live, Money!Announce, Money!Event,
              MoneyFacts!Request, MoneyFacts!OnlyLive, MoneyFacts!Live, MoneyFacts!Announce,
              MoneyFacts!Event
<1>6. ASSUME NEW d, Money!Advance(d) \/ Money!LeaseRuns(d)
      PROVE  MoneyFacts!Advance(d) \/ MoneyFacts!LeaseRuns(d)
  BY <1>6 DEF Money!Advance, Money!LeaseRuns, MoneyFacts!Advance, MoneyFacts!LeaseRuns
<1>7. ASSUME NEW d, Money!RollBack(d) PROVE MoneyFacts!RollBack(d)
  BY <1>7 DEF Money!RollBack, Money!CanReopen, Money!Reopened, Money!OnlyLive, Money!Live,
              MoneyFacts!RollBack, MoneyFacts!CanReopen, MoneyFacts!Reopened, MoneyFacts!OnlyLive,
              MoneyFacts!Live
<1>8. ASSUME NEW d, Money!Reap(d) PROVE MoneyFacts!Reap(d)
  BY <1>8 DEF Money!Reap, Money!Announce, Money!Failed, Money!Event,
              MoneyFacts!Reap, MoneyFacts!Announce, MoneyFacts!Failed, MoneyFacts!Event
<1>9. ASSUME NEW d, NEW k, Money!Redeliver(d, k) PROVE MoneyFacts!Redeliver(d, k)
  BY <1>9 DEF Money!Redeliver, MoneyFacts!Redeliver
<1>10. ASSUME NEW c, Money!StartChat(c) \/ Money!EndChat(c)
       PROVE  MoneyFacts!StartChat(c) \/ MoneyFacts!EndChat(c)
  BY <1>10, SameSpent DEF Money!StartChat, Money!EndChat, MoneyFacts!StartChat, MoneyFacts!EndChat
<1>11. ASSUME Money!AdvanceSitemap PROVE MoneyFacts!AdvanceSitemap
  BY <1>11 DEF Money!AdvanceSitemap, MoneyFacts!AdvanceSitemap
<1>12. CASE Money!Next
  <2>1. CASE \E w \in TwoWorkers : Money!Work(w) \/ Money!Defer(w) \/ Money!Crash(w)
    BY <1>1, <1>2, <1>3, <1>4, <2>1 DEF Money!Work, MoneyFacts!Work, MoneyFacts!Next
  <2>2. CASE \E d \in Drafts : \/ Money!Request(d) \/ Money!Advance(d) \/ Money!RollBack(d)
                               \/ Money!LeaseRuns(d) \/ Money!Reap(d)
    BY <1>5, <1>6, <1>7, <1>8, <2>2 DEF MoneyFacts!Next
  <2>3. CASE \E d \in Drafts, k \in Money!Event : Money!Redeliver(d, k)
    BY <1>1, <1>9, <2>3 DEF MoneyFacts!Next
  <2>4. CASE \E c \in {p4} : Money!StartChat(c) \/ Money!EndChat(c)
    BY <1>10, <2>4 DEF MoneyFacts!Next
  <2>5. CASE Money!AdvanceSitemap
    BY <1>11, <2>5 DEF MoneyFacts!Next
  <2> QED BY <1>12, <2>1, <2>2, <2>3, <2>4, <2>5 DEF Money!Next
<1>13. CASE UNCHANGED moneyVars
  BY <1>13 DEF moneyVars, MoneyFacts!vars
<1> QED BY <1>12, <1>13

\* The inductive invariant of the budget's part.
MoneyInv == MoneyFacts!IInv /\ MoneyFacts!RestInv /\ MoneyFacts!SpendInv

\* It holds at first.
LEMMA MoneyInit == Money!Init => MoneyInv
<1>1. Money!Init => MoneyFacts!Init
  BY DEF Money!Init, Money!Idle, Money!Resting, Money!Event,
         MoneyFacts!Init, MoneyFacts!Idle, MoneyFacts!Resting, MoneyFacts!Event
<1>2. MoneyFacts!Init => MoneyFacts!IInv
  BY MoneyAssumed, MoneyFacts!InitEstablishes
<1>3. MoneyFacts!Init => MoneyFacts!RestInv
  BY MoneyAssumed, MoneyFacts!InitTypes
<1>4. MoneyFacts!Init => MoneyFacts!SpendInv
  BY MoneyAssumed, MoneyFacts!SpendInit
<1> QED BY <1>1, <1>2, <1>3, <1>4 DEF MoneyInv

\* Every step keeps it.
LEMMA MoneyStep == MoneyInv /\ [Money!Next]_moneyVars => MoneyInv'
<1> SUFFICES ASSUME MoneyInv, [MoneyFacts!Next]_(MoneyFacts!vars) PROVE MoneyInv'
  BY SameStep
<1>1. MoneyFacts!IInv'
  BY MoneyAssumed, MoneyFacts!StepPreserves DEF MoneyInv
<1>2. MoneyFacts!RestInv'
  BY MoneyAssumed, MoneyFacts!TypesStep DEF MoneyInv
<1>3. MoneyFacts!SpendInv'
  BY MoneyAssumed, MoneyFacts!SpendStep DEF MoneyInv
<1> QED BY <1>1, <1>2, <1>3 DEF MoneyInv

\* The types and the bound follow from it.
LEMMA MoneyFollows == MoneyInv => Money!TypeOK /\ Money!OverspendIsBounded
<1> SUFFICES ASSUME MoneyInv PROVE Money!TypeOK /\ Money!OverspendIsBounded
  OBVIOUS
<1>1. Money!TypeOK
  <2>1. MoneyFacts!TypeOK
    BY MoneyAssumed, MoneyFacts!TypesFollow DEF MoneyInv
  <2> QED BY <2>1 DEF Money!TypeOK, Money!DraftRow, Money!Live, Money!Event,
                      MoneyFacts!TypeOK, MoneyFacts!DraftRow, MoneyFacts!Live, MoneyFacts!Event
<1>2. Money!OverspendIsBounded
  <2>1. MoneyFacts!OverspendIsBounded
    BY MoneyAssumed, MoneyFacts!SpendFollows DEF MoneyInv
  <2>2. \A S : MoneyFacts!Cardinality(S) = Money!Cardinality(S)
    BY DEF Money!Cardinality, MoneyFacts!Cardinality
  <2> QED BY <2>1, <2>2, SameSpent DEF Money!OverspendIsBounded, MoneyFacts!OverspendIsBounded
<1> QED BY <1>1, <1>2

\* Scans, and what is paid beside them, are counted up to their bounds.
LEMMA CountsStep ==
    scans \in 0..MaxScans /\ unreckoned <= MaxUnreckoned /\ [CitationNext]_citationVars
        => scans' \in 0..MaxScans /\ unreckoned' <= MaxUnreckoned
<1> SUFFICES ASSUME scans \in 0..MaxScans, unreckoned <= MaxUnreckoned, [CitationNext]_citationVars
             PROVE  scans' \in 0..MaxScans /\ unreckoned' <= MaxUnreckoned
  OBVIOUS
<1> USE CitationAssumption DEF CitationAssumption
<1>1. CASE UNCHANGED <<scans, unreckoned>>
  BY <1>1
<1>2. ASSUME NEW s \in Scanner, StartScan(s) \/ Ask(s) \/ Persist(s) \/ ScanFalls(s)
      PROVE  scans' \in 0..MaxScans /\ unreckoned' <= MaxUnreckoned
  <2>1. CASE StartScan(s)
    BY <2>1 DEF StartScan
  <2>2. CASE Ask(s) \/ ScanFalls(s)
    BY <2>2 DEF Ask, Answers, Errs, PaidBeside, ScanFalls
  <2>3. CASE Persist(s)
    BY <2>3 DEF Persist
  <2> QED BY <1>2, <2>1, <2>2, <2>3
<1> QED BY <1>1, <1>2 DEF CitationNext, Track, FindRoom, Untrack, citationVars

\* A text has one row, so there are no more rows than texts.
LEMMA RowsAreBounded ==
    ASSUME QuestionsInv
    PROVE  question \in BoundedSeq(QuestionRow, Cardinality(Question))
<1> DEFINE TextOf == [i \in 1..Len(question) |-> question[i].text]
<1>1. question \in [1..Len(question) -> QuestionRow] /\ Len(question) \in Nat
  BY DEF QuestionsInv
<1>2. IsFiniteSet(Question) /\ Cardinality(Question) \in Nat
  BY CitationAssumption, FS_CardinalityType DEF CitationAssumption
<1>3. IsFiniteSet(1..Len(question)) /\ Cardinality(1..Len(question)) = Len(question)
  <2>1. ASSUME NEW n \in Nat PROVE IsFiniteSet(1..n) /\ Cardinality(1..n) = n
    BY FS_Interval
  <2> QED BY <1>1, <2>1
<1>4. TextOf \in Injection(1..Len(question), Question)
  BY <1>1 DEF QuestionsInv, QuestionRow, Injection, IsInjective
<1>5. Len(question) <= Cardinality(Question)
  BY <1>2, <1>3, <1>4, FS_Injection
<1>6. Len(question) \in 0..Cardinality(Question)
  BY <1>1, <1>2, <1>5
<1> QED BY <1>1, <1>6 DEF BoundedSeq, SeqOf

\* What is known of questions and scans makes their types.
LEMMA CitationTypesFollow ==
    QuestionsInv /\ ScanInv /\ scans \in 0..MaxScans /\ unreckoned <= MaxUnreckoned => CitationTypeOK
<1> SUFFICES ASSUME QuestionsInv, ScanInv, scans \in 0..MaxScans, unreckoned <= MaxUnreckoned
             PROVE  CitationTypeOK
  OBVIOUS
<1>1. \A s \in Scanner : scan[s].at \in {"idle", "asking"} /\ scan[s].calls + scan[s].cost \in Nat
  BY DEF ScanInv, ScanRow
<1>2. billed \in Nat /\ unreckoned \in 0..MaxUnreckoned
  BY CitationAssumption DEF ScanInv, CitationAssumption
<1> QED BY <1>1, <1>2, RowsAreBounded DEF CitationTypeOK, QuestionsInv

\* So it is for calls.
LEMMA CalibrationTypesFollow == CalibrationInv => CalibrationTypeOK
BY DEF CalibrationInv, CallShape, CallRow, ToldOK, CalibrationTypeOK

\* Whichever part moves, each of them moves as it does alone.
LEMMA PartsAlone ==
    Spec => /\ MemberSpec /\ TalkSpec /\ CitationSpec /\ CalibrationSpec
            /\ Money!Init /\ [][Money!Next]_moneyVars
<1>1. Init => MemberInit /\ Money!Init /\ TalkInit /\ CitationInit /\ CalibrationInit
  BY DEF Init
<1>2. ASSUME [Next]_<<part, memberVars, moneyVars, talkVars, citationVars, calibrationVars>>
      PROVE  /\ [MemberNext]_memberVars /\ [Money!Next]_moneyVars /\ [TalkNext]_talkVars
             /\ [CitationNext]_citationVars /\ [CalibrationNext]_calibrationVars
  BY <1>2 DEF Next, Talk, TrackInOrder
<1> QED BY <1>1, <1>2, PTL DEF Spec, MemberSpec, TalkSpec, CitationSpec,
                            CalibrationSpec

\* The types of all that a workspace keeps, whichever part moves.
THEOREM PartsTypeCorrect == Spec => []TypeOK
<1>1. MemberSpec => []MemberTypeOK
  BY MemberTypeCorrect
<1>2. Money!Init /\ [][Money!Next]_moneyVars => []Money!TypeOK
  BY MoneyInit, MoneyStep, MoneyFollows, PTL
<1>3. TalkSpec => []TalkTypeOK
  <2>1. TalkInv => TalkTypeOK
    BY DEF TalkInv
  <2> QED BY <2>1, TalkInvariance, PTL
<1>4. CitationSpec => []CitationTypeOK
  <2>1. CitationInit => scans \in 0..MaxScans /\ unreckoned <= MaxUnreckoned
    BY CitationAssumption DEF CitationAssumption, CitationInit
  <2> DEFINE Counts == scans \in 0..MaxScans /\ unreckoned <= MaxUnreckoned
  <2>2. CitationInit => Counts
    BY <2>1
  <2>3. Counts /\ [CitationNext]_citationVars => Counts'
    BY CountsStep
  <2>4. QuestionsInv /\ ScanInv /\ Counts => CitationTypeOK
    BY CitationTypesFollow
  <2> HIDE DEF Counts
  <2> QED BY <2>2, <2>3, <2>4, ScanInit, ScanStep, QuestionsInvariance, PTL DEF CitationSpec
<1>5. CalibrationSpec => []CalibrationTypeOK
  BY CalibrationInvariance, CalibrationTypesFollow, PTL
<1>6. /\ MemberTypeOK /\ Money!TypeOK /\ TalkTypeOK /\ CitationTypeOK /\ CalibrationTypeOK
      => TypeOK
  BY DEF TypeOK
<1> QED BY <1>1, <1>2, <1>3, <1>4, <1>5, <1>6, PartsAlone, PTL

\* A limit gives way to what overlaps: the month's recorded spend by the calls at work
\* when the budget was reached (spend), the part of the scans' bill that is reckoned with
\* by the scans at work together (calls_within_budget), the questions of a site by the
\* requests that counted together (track).
THEOREM LimitsTheorem == Spec => []LimitsYieldToOverlap
<1>1. Money!Init /\ [][Money!Next]_moneyVars => []Money!OverspendIsBounded
  BY MoneyInit, MoneyStep, MoneyFollows, PTL
<1>2. Money!OverspendIsBounded /\ SpendIsBounded /\ OnlyOverlapExceedsLimit
      => LimitsYieldToOverlap
  BY DEF LimitsYieldToOverlap
<1> QED BY <1>1, <1>2, SpendTheorem, RoomTheorem, PartsAlone, PTL

=============================================================================
