------------------------- MODULE ContentDraftsProofs -------------------------
(***************************************************************************)
(* Proofs about ContentDrafts for every set of drafts, people and workers: *)
(* text a person edited is never written over by a late answer, only a     *)
(* request that read a draft before another's write leaves a flag open on  *)
(* what was sent, and the budget is overspent only by calls that overlap.  *)
(*                                                                         *)
(* A request writes at its commit without asking again, and so does a      *)
(* writer whose lease ran out long ago; neither promise is inductive.      *)
(* What carries them is that a draft once past the writing never returns   *)
(* to it (Past), that a person is only ever at work on such a draft        *)
(* (PastInv), and that a request which is not stale read the flags as they *)
(* are: whoever writes them makes the others' forms stale (FreshInv).      *)
(*                                                                         *)
(* The month's budget is read and then spent.  What bounds the overspend   *)
(* is that the calls at work count beside what is recorded (SpendInv).     *)
(* The types of what is counted rest on a call being recorded with the     *)
(* attempt it was made in (RestInv).                                       *)
(*                                                                         *)
(* That a queued draft has an event to be read is kept by counting too:    *)
(* no draft has more events than tries, so that one is left for the        *)
(* requeue, and a writer that answers late acks an older one (EventsInv).  *)
(***************************************************************************)
EXTENDS ContentDrafts, FiniteSetTheorems, WellFoundedInduction, TLAPS

ProposalState == {"none", "review", "approved", "deployed", "ended"}
Op == {"none", "edit", "submit", "withdraw", "reject"}
Session == [op : Op, draft : Draft \cup {Idle.draft}, stale : BOOLEAN, flagged : BOOLEAN]

\* What the proofs need of the types; a request that is not open is about any draft.
Shape ==
    /\ draft \in [Draft -> DraftRow]
    /\ proposal \in [Draft -> ProposalState]
    /\ session \in [Person -> Session]
    /\ \A p \in Person : session[p].op # "none" => session[p].draft \in Draft

\* Nobody writes this draft any more.
Past(d) == draft[d].status \notin {"none", "queued", "running"}

Reviews(p, d) == \E op \in {"edit", "submit", "reject"} : InFlight(p, op, d)

\* People edit, send and decide about drafts that were written.
PastInv ==
    \A d \in Draft :
        draft[d].text = "person" \/ proposal[d] # "none" \/ (\E p \in Person : Reviews(p, d))
            => Past(d)

\* A form that is not stale read the flags as they are: a send found none open, and
\* an edit puts back none that somebody resolved since.
Fresh(p) ==
    LET d == session[p].draft IN
    ~session[p].stale =>
       /\ session[p].op = "submit" => ~draft[d].flagged
       /\ session[p].op = "edit" /\ session[p].flagged => draft[d].flagged

FreshInv == \A p \in Person : Fresh(p)

\* A model is called for a draft that exists.
WriterInv ==
    /\ DOMAIN writer = Writer
    /\ \A w \in Writer : writer[w].pc = "call" => writer[w].draft \in Draft

IInv ==
    /\ Shape
    /\ WriterInv
    /\ PastInv
    /\ FreshInv

-----------------------------------------------------------------------------
(* What a step may do to a draft, its proposal and a request.              *)

Kept(d) ==
    /\ draft'[d].text = draft[d].text /\ draft'[d].flagged = draft[d].flagged
    /\ Past(d) => Past(d)'

Edited(d) ==
    /\ \E p \in Person : /\ InFlight(p, "edit", d) /\ session'[p] = Idle
                         /\ draft'[d].flagged => draft[d].flagged \/ session[p].flagged
    /\ \A q \in Person : session'[q].op # "none" /\ session'[q].draft = d => session'[q].stale
    /\ draft'[d].text = "person"
    /\ draft'[d].status = draft[d].status

Answered(d) == draft[d].status = "running" /\ draft'[d].text = "model"

ProposalMoves(d) ==
    \/ proposal'[d] = proposal[d]
    \/ proposal'[d] = "ended" /\ \E p \in Person : InFlight(p, "reject", d)
    \/ proposal'[d] # "none" /\ HasLiveProposal(d)
    \/ /\ proposal'[d] # "none" /\ draft'[d].flagged = draft[d].flagged
       /\ \E p \in Person : InFlight(p, "submit", d) /\ session'[p] = Idle

SessionMoves(p) ==
    LET d == session'[p].draft IN
    session'[p].op # "none" =>
        \/ /\ session'[p].op = session[p].op /\ session'[p].draft = session[p].draft
           /\ session'[p].flagged = session[p].flagged
           /\ session[p].stale => session'[p].stale
        \/ /\ d \in Draft /\ UNCHANGED <<draft, proposal>>
           /\ \/ session'[p].op = "withdraw"
              \/ /\ session'[p].op = "edit" /\ draft[d].status = "ready"
                 /\ session'[p].flagged => draft[d].flagged
              \/ session'[p].op = "submit" /\ draft[d].status = "ready" /\ ~draft[d].flagged
              \/ session'[p].op = "reject" /\ proposal[d] # "none"

Moves ==
    /\ draft' \in [Draft -> DraftRow]
    /\ proposal' \in [Draft -> ProposalState]
    /\ session' \in [Person -> Session]
    /\ \A d \in Draft : (Kept(d) \/ Edited(d) \/ Answered(d)) /\ ProposalMoves(d)
    /\ \A p \in Person : SessionMoves(p)

-----------------------------------------------------------------------------
\* A person with no request in flight.
LEMMA IdleIsTyped == Idle \in Session /\ Idle.op = "none"
BY DEF Idle, Session, Op

\* A row is replaced by one with the same text and flag.
LEMMA RowKept ==
    ASSUME Shape, NEW d \in Draft, NEW row \in DraftRow,
           draft' = [draft EXCEPT ![d] = row],
           row.text = draft[d].text, row.flagged = draft[d].flagged,
           Past(d) => row.status \notin {"none", "queued", "running"}
    PROVE  draft' \in [Draft -> DraftRow] /\ \A o \in Draft : Kept(o)
BY DEF Shape, Kept, Past

\* Requests that were open stay what they were, but for the one that ends; those about
\* the draft that was written are stale.
LEMMA BumpedMoves ==
    ASSUME Shape, NEW p \in Person, NEW d \in Draft, session' = Bumped(d, p)
    PROVE  /\ session' \in [Person -> Session] /\ \A q \in Person : SessionMoves(q)
           /\ session'[p] = Idle
           /\ \A q \in Person : session'[q].op # "none" /\ session'[q].draft = d => session'[q].stale
<1>1. session' \in [Person -> Session]
  <2>1. ASSUME NEW q \in Person PROVE {Idle, session[q], [session[q] EXCEPT !.stale = TRUE]} \subseteq Session
    <3>1. session[q] \in Session
      BY DEF Shape
    <3>2. [session[q] EXCEPT !.stale = TRUE] \in Session
      BY <3>1 DEF Session
    <3> QED BY <3>1, <3>2, IdleIsTyped
  <2> QED BY <2>1 DEF Bumped
<1>2. ASSUME NEW q \in Person PROVE SessionMoves(q)
  <2>1. session[q] \in Session /\ session'[q] \in {Idle, session[q], [session[q] EXCEPT !.stale = TRUE]}
    BY DEF Shape, Bumped
  <2> QED BY <2>1 DEF SessionMoves, Session, Idle
<1>3. session'[p] = Idle
  BY DEF Bumped
<1>4. ASSUME NEW q \in Person, session'[q].op # "none", session'[q].draft = d PROVE session'[q].stale
  <2>1. session[q] \in Session /\ Idle.op = "none"
    BY IdleIsTyped DEF Shape
  <2>2. q # p
    BY <1>3, <1>4, <2>1
  <2>3. session'[q] = IF session[q].op # "none" /\ session[q].draft = d
                     THEN [session[q] EXCEPT !.stale = TRUE] ELSE session[q]
    BY <2>2 DEF Bumped
  <2> QED BY <1>4, <2>1, <2>3 DEF Session
<1> QED BY <1>1, <1>2, <1>3, <1>4

\* Reads and writes of the chat, the messages and the sitemap are not about this.
LEMMA RestMoves ==
    ASSUME Shape, UNCHANGED <<draft, proposal, session>>
    PROVE  Moves
BY DEF Shape, Moves, Kept, Past, ProposalMoves, SessionMoves

\* A person's request is opened.
LEMMA OpenMoves ==
    ASSUME Shape, NEW p \in Person, Open(p) \/ \E d \in Draft : OpenRejection(p, d)
    PROVE  Moves
<1>1. UNCHANGED <<draft, proposal>>
  BY DEF Open, OpenRejection
<1>2. PICK d \in Draft, op \in Op :
         /\ session' = [session EXCEPT ![p] = [op |-> op, draft |-> d, stale |-> FALSE,
                                                flagged |-> op = "edit" /\ draft[d].flagged]]
         /\ \/ op = "withdraw"
            \/ op = "edit" /\ draft[d].status = "ready"
            \/ op = "submit" /\ draft[d].status = "ready" /\ ~draft[d].flagged
            \/ op = "reject" /\ proposal[d] # "none"
  BY DEF Open, OpenRejection, Begin, Op
<1> DEFINE flagged == op = "edit" /\ draft[d].flagged
           form == [op |-> op, draft |-> d, stale |-> FALSE, flagged |-> flagged]
<1>3. flagged \in BOOLEAN
  BY Zenon
<1>4. session' = [session EXCEPT ![p] = form] /\ (flagged => draft[d].flagged)
  BY <1>2
<1> HIDE DEF flagged
<1>5. /\ form \in Session /\ form.op = op /\ form.draft = d /\ form.flagged = flagged
  BY <1>3 DEF Session
<1> HIDE DEF form
<1>6. session' \in [Person -> Session] /\ \A q \in Person : SessionMoves(q)
  <2>1. session' \in [Person -> Session] /\ session'[p] = form
    BY <1>4, <1>5 DEF Shape
  <2>2. SessionMoves(p)
    BY <1>1, <1>2, <1>4, <1>5, <2>1 DEF SessionMoves
  <2>3. \A q \in Person \ {p} : session'[q] = session[q]
    BY <1>4 DEF Shape
  <2>4. \A q \in Person \ {p} : SessionMoves(q)
    BY <2>3 DEF SessionMoves
  <2> QED BY <2>1, <2>2, <2>4
<1> QED BY <1>1, <1>6 DEF Shape, Moves, Kept, Past, ProposalMoves

\* An edit is saved.
LEMMA EditMoves == ASSUME Shape, NEW p \in Person, NEW d \in Draft, Edit(p, d) PROVE Moves
<1>1. PICK flagged \in {draft[d].flagged, session[p].flagged, FALSE} :
         draft' = [draft EXCEPT ![d] = [draft[d] EXCEPT !.text = "person", !.flagged = flagged]]
  BY DEF Edit
<1> DEFINE row == [draft[d] EXCEPT !.text = "person", !.flagged = flagged]
<1>2. draft[d] \in DraftRow /\ session[p] \in Session
  BY DEF Shape
<1>3. /\ row \in DraftRow /\ row.text = "person" /\ row.flagged = flagged
      /\ row.status = draft[d].status
  <2>1. flagged \in BOOLEAN
    BY <1>1, <1>2 DEF DraftRow, Session
  <2> QED BY <1>2, <2>1 DEF DraftRow
<1>4. draft' = [draft EXCEPT ![d] = row]
  BY <1>1
<1> HIDE DEF row
<1>5. draft' \in [Draft -> DraftRow] /\ \A o \in Draft \ {d} : Kept(o)
  BY <1>3, <1>4 DEF Shape, Kept, Past
<1>6. /\ session' \in [Person -> Session] /\ \A q \in Person : SessionMoves(q)
      /\ session'[p] = Idle
      /\ \A q \in Person : session'[q].op # "none" /\ session'[q].draft = d => session'[q].stale
  BY BumpedMoves DEF Edit
<1>7. Edited(d)
  <2>1. draft'[d] = row
    BY <1>4 DEF Shape
  <2>2. flagged => draft[d].flagged \/ session[p].flagged
    BY <1>1
  <2> QED BY <1>3, <1>6, <2>1, <2>2 DEF Edited, Edit
<1>8. UNCHANGED proposal
  BY DEF Edit
<1> QED BY <1>5, <1>6, <1>7, <1>8 DEF Shape, Moves, ProposalMoves

\* A draft is sent, or the send is refused.
LEMMA SubmitMoves ==
    ASSUME Shape, NEW p \in Person, NEW d \in Draft,
           SubmitPost(p, d) \/ SubmitAnswers(p, d) \/ Withdraw(p, d)
    PROVE  Moves
<1>1. draft[d] \in DraftRow
  BY DEF Shape
<1>2. PICK status \in {"submitted", "withdrawn"} :
         draft' = [draft EXCEPT ![d] = [draft[d] EXCEPT !.status = status]]
  BY DEF SubmitPost, SubmitAnswers, Submitted, Withdraw
<1>3. draft' \in [Draft -> DraftRow] /\ \A o \in Draft : Kept(o)
  <2> DEFINE row == [draft[d] EXCEPT !.status = status]
  <2>1. row \in DraftRow /\ row.text = draft[d].text /\ row.flagged = draft[d].flagged
        /\ row.status \notin {"none", "queued", "running"}
    BY <1>1 DEF DraftRow
  <2> QED BY <1>2, <2>1, RowKept
<1>4. session' \in [Person -> Session] /\ \A q \in Person : SessionMoves(q)
  BY BumpedMoves DEF SubmitPost, SubmitAnswers, Submitted, Withdraw
<1>5. /\ proposal' \in [Draft -> ProposalState]
      /\ \A o \in Draft : ProposalMoves(o)
  <2>1. CASE UNCHANGED proposal
    BY <2>1 DEF Shape, ProposalMoves
  <2>2. CASE Proposed(d) /\ InFlight(p, "submit", d)
    <3>1. session'[p] = Idle /\ draft'[d].flagged = draft[d].flagged
      BY <1>3, BumpedMoves DEF Kept, SubmitPost, SubmitAnswers, Submitted, Withdraw
    <3> QED BY <2>2, <3>1 DEF Proposed, Shape, ProposalMoves, ProposalState
  <2> QED BY <2>1, <2>2 DEF SubmitPost, SubmitAnswers, Submitted, Withdraw
<1> QED BY <1>3, <1>4, <1>5 DEF Moves

\* A rejection or a roll-back gives the draft back.
LEMMA ReopenMoves ==
    ASSUME IInv, NEW d \in Draft, RollBack(d) \/ \E p \in Person : Reject(p, d)
    PROVE  Moves
<1>1. Shape /\ draft[d] \in DraftRow
  BY DEF IInv, Shape
<1>2. draft' = draft \/ draft' = Reopened(d)
  BY DEF RollBack, Reject
<1>3. draft' \in [Draft -> DraftRow] /\ \A o \in Draft : Kept(o)
  <2>1. CASE draft' = draft
    BY <1>1, <2>1 DEF Shape, Kept, Past
  <2>2. CASE draft' = [draft EXCEPT ![d].status = "ready"]
    <3> DEFINE row == [draft[d] EXCEPT !.status = "ready"]
    <3>1. row \in DraftRow /\ row.text = draft[d].text /\ row.flagged = draft[d].flagged
          /\ row.status = "ready"
      BY <1>1 DEF DraftRow, Live
    <3>2. draft' = [draft EXCEPT ![d] = row]
      BY <2>2
    <3> HIDE DEF row
    <3> QED BY <1>1, <3>1, <3>2, RowKept
  <2> QED BY <1>2, <2>1, <2>2 DEF Reopened
<1>4. session' \in [Person -> Session] /\ \A q \in Person : SessionMoves(q)
  <2>1. CASE RollBack(d)
    <3>1. \A q \in Person : session[q] \in Session /\ [session[q] EXCEPT !.stale = TRUE] \in Session
      BY <1>1 DEF Shape, Session
    <3>2. session' \in [Person -> Session]
      BY <2>1, <3>1 DEF RollBack
    <3>3. \A q \in Person : session'[q] = session[q] \/ session'[q] = [session[q] EXCEPT !.stale = TRUE]
      BY <2>1 DEF RollBack
    <3> QED BY <3>1, <3>2, <3>3 DEF SessionMoves, Session
  <2>2. ASSUME NEW p \in Person, session' = [session EXCEPT ![p] = Idle]
        PROVE  session' \in [Person -> Session] /\ \A q \in Person : SessionMoves(q)
    BY <1>1, <2>2, IdleIsTyped DEF Shape, SessionMoves
  <2> QED BY <1>1, <2>1, <2>2, BumpedMoves DEF Reject
<1>5. /\ proposal' \in [Draft -> ProposalState]
      /\ \A o \in Draft : ProposalMoves(o)
  <2>1. CASE RollBack(d)
    BY <1>1, <2>1 DEF RollBack, Shape, ProposalMoves, ProposalState, HasLiveProposal
  <2>2. ASSUME NEW p \in Person, Reject(p, d)
        PROVE  /\ proposal' \in [Draft -> ProposalState]
               /\ \A o \in Draft : ProposalMoves(o)
    BY <1>1, <2>2 DEF Reject, Shape, ProposalMoves, ProposalState
  <2> QED BY <2>1, <2>2
<1> QED BY <1>3, <1>4, <1>5 DEF Moves

\* A refused send closes the request; a decision moves a live proposal on.
LEMMA DecideMoves ==
    ASSUME Shape, NEW d \in Draft, Advance(d) \/ \E p \in Person : Refused(p, d)
    PROVE  Moves
<1>1. UNCHANGED draft
  BY DEF Advance, Refused
<1>2. CASE Advance(d)
  BY <1>1, <1>2 DEF Advance, Shape, Moves, Kept, Past, ProposalMoves, HasLiveProposal,
                    ProposalState, SessionMoves
<1>3. ASSUME NEW p \in Person, Refused(p, d) PROVE Moves
  BY <1>1, <1>3, IdleIsTyped DEF Refused, Shape, Moves, Kept, Past, ProposalMoves, SessionMoves
<1> QED BY <1>2, <1>3

\* A draft is requested, its lease runs, or the reaper takes it back.
LEMMA QueueMoves ==
    ASSUME Shape, NEW d \in Draft, Request(d) \/ LeaseRuns(d) \/ Reap(d)
    PROVE  Moves
<1>1. draft[d] \in DraftRow /\ UNCHANGED <<proposal, session>>
  BY DEF Shape, Request, LeaseRuns, Reap
<1>2. PICK status \in {"none", "failed", "submitted", "withdrawn"} \cup Live,
           lease \in {"none", "live", "lapsed", "stale"} :
         /\ draft' = [draft EXCEPT ![d] = [draft[d] EXCEPT !.status = status, !.lease = lease]]
         /\ Past(d) => status = draft[d].status
  <2>1. CASE Request(d)
    <3>1. draft' = [draft EXCEPT ![d] = [draft[d] EXCEPT !.status = "queued", !.lease = draft[d].lease]]
      BY <1>1, <2>1 DEF Request, DraftRow, Shape
    <3> QED BY <1>1, <2>1, <3>1 DEF Request, Past, DraftRow, Live
  <2>2. CASE LeaseRuns(d)
    <3>1. PICK now \in {<<"live", "lapsed">>, <<"lapsed", "stale">>} :
             draft' = [draft EXCEPT ![d].lease = now[2]]
      BY <2>2 DEF LeaseRuns
    <3> DEFINE lease == now[2]
    <3>2. draft' = [draft EXCEPT ![d] = [draft[d] EXCEPT !.status = draft[d].status, !.lease = lease]]
      BY <1>1, <3>1 DEF DraftRow, Shape
    <3>3. lease \in {"lapsed", "stale"}
      OBVIOUS
    <3> QED BY <1>1, <3>2, <3>3 DEF DraftRow
  <2>3. CASE Reap(d)
    <3>1. \E status \in {"queued", "failed"} :
            draft' = [draft EXCEPT ![d] = [draft[d] EXCEPT !.status = status, !.lease = "none"]]
      BY <2>3 DEF Reap, Failed
    <3> QED BY <2>3, <3>1 DEF Reap, Past, Live
  <2> QED BY <2>1, <2>2, <2>3
<1> DEFINE row == [draft[d] EXCEPT !.status = status, !.lease = lease]
<1>3. /\ row \in DraftRow /\ row.status = status
      /\ row.text = draft[d].text /\ row.flagged = draft[d].flagged
  BY <1>1 DEF DraftRow
<1>4. draft' = [draft EXCEPT ![d] = row]
  BY <1>2
<1> HIDE DEF row
<1>5. draft' \in [Draft -> DraftRow] /\ \A o \in Draft : Kept(o)
  BY <1>2, <1>3, <1>4, RowKept DEF Past
<1> QED BY <1>1, <1>5 DEF Shape, Moves, ProposalMoves, SessionMoves

\* A claim counts an attempt, and may fail at once for want of a key or budget.
LEMMA ReceiveMoves ==
    ASSUME Shape, NEW w \in Writer, NEW d \in Draft, NEW k \in Event, Receive(w, d, k)
    PROVE  Moves
<1>1. draft[d] \in DraftRow /\ UNCHANGED <<proposal, session>>
  BY DEF Shape, Receive
<1>2. CASE UNCHANGED draft
  BY <1>1, <1>2, RestMoves
<1>3. CASE Claimable(d) /\ (draft' = Claimed(d) \/ draft' = Unwritable(d))
  <2>1. draft[d].attempts + 1 \in 0..MaxAttempts /\ ~Past(d)
    BY <1>1, <1>3, DraftAssumption DEF Claimable, DraftRow, DraftAssumption, Past
  <2>2. PICK status \in {"running", "failed"}, lease \in {"live", "none"} :
           draft' = [draft EXCEPT ![d] = [draft[d] EXCEPT !.status = status, !.lease = lease,
                                                          !.attempts = @ + 1]]
    BY <1>1, <1>3 DEF Claimed, Unwritable, Shape, DraftRow
  <2> DEFINE row == [draft[d] EXCEPT !.status = status, !.lease = lease, !.attempts = @ + 1]
  <2>3. row \in DraftRow /\ row.text = draft[d].text /\ row.flagged = draft[d].flagged
    BY <1>1, <2>1 DEF DraftRow, Live
  <2>4. draft' = [draft EXCEPT ![d] = row]
    BY <2>2
  <2> HIDE DEF row
  <2>5. draft' \in [Draft -> DraftRow] /\ \A o \in Draft : Kept(o)
    BY <2>1, <2>3, <2>4, RowKept
  <2> QED BY <1>1, <2>5 DEF Shape, Moves, ProposalMoves, SessionMoves
<1> QED BY <1>2, <1>3 DEF Receive, Unopened

\* However late, an answer is written only on a row that is running.
LEMMA AnswerMoves ==
    ASSUME Shape, NEW w \in Writer, writer[w].draft \in Draft, Answer(w)
    PROVE  Moves
<1> DEFINE d == writer[w].draft
<1>1. draft[d] \in DraftRow /\ UNCHANGED <<proposal, session>>
  BY DEF Shape, Answer
<1>2. CASE draft' = draft
  BY <1>1, <1>2, RestMoves
<1>3. ASSUME NEW f \in BOOLEAN, draft[d].status = "running",
             draft' = [draft EXCEPT ![d] = [@ EXCEPT !.status = "ready", !.lease = "none",
                                               !.cost = 1, !.text = "model", !.flagged = f]]
      PROVE  Moves
  <2> DEFINE row == [draft[d] EXCEPT !.status = "ready", !.lease = "none", !.cost = 1,
                                     !.text = "model", !.flagged = f]
  <2>1. row \in DraftRow /\ row.text = "model"
    <3>1. 1 \in 0..1 /\ f \in BOOLEAN
      BY <1>3
    <3> QED BY <1>1, <3>1, ZenonT(30) DEF DraftRow, Live
  <2>2. draft' = [draft EXCEPT ![d] = row]
    BY <1>3
  <2> HIDE DEF row
  <2>3. draft' \in [Draft -> DraftRow] /\ Answered(d) /\ \A o \in Draft \ {d} : Kept(o)
    BY <1>3, <2>1, <2>2 DEF Shape, Answered, Kept, Past
  <2> QED BY <1>1, <2>3 DEF Shape, Moves, ProposalMoves, SessionMoves
<1>4. CASE draft' \in {Unusable(d), Failed(d)}
  <2>1. PICK status \in {draft[d].status, "failed"}, lease \in {draft[d].lease, "none"},
             cost \in 0..1 :
           /\ draft' = [draft EXCEPT ![d] = [draft[d] EXCEPT !.status = status, !.lease = lease,
                                                             !.cost = cost]]
           /\ Past(d) => status = draft[d].status
    <3>1. CASE draft[d].status = "running"
      <4>1. Failed(d) = [draft EXCEPT ![d] = [draft[d] EXCEPT !.status = "failed", !.lease = "none",
                                                              !.cost = draft[d].cost]]
        BY <1>1, <3>1 DEF Failed, Shape, DraftRow
      <4>2. Unusable(d) = [draft EXCEPT ![d] = [draft[d] EXCEPT !.status = "failed", !.lease = "none",
                                                                !.cost = 1]]
        BY <1>1, <3>1 DEF Unusable, Failed, Shape, DraftRow
      <4>3. ~Past(d)
        BY <3>1 DEF Past
      <4>4. CASE draft' = Failed(d)
        BY <1>1, <4>1, <4>3, <4>4 DEF DraftRow
      <4>5. CASE draft' = Unusable(d)
        BY <4>2, <4>3, <4>5
      <4> QED BY <1>4, <4>4, <4>5
    <3>2. CASE draft[d].status # "running"
      <4>1. Failed(d) = [draft EXCEPT ![d] = [draft[d] EXCEPT !.status = draft[d].status,
                                                !.lease = draft[d].lease, !.cost = draft[d].cost]]
        BY <1>1, <3>2 DEF Failed, Shape, DraftRow
      <4>2. Unusable(d) = [draft EXCEPT ![d] = [draft[d] EXCEPT !.status = draft[d].status,
                                                  !.lease = draft[d].lease, !.cost = 1]]
        BY <1>1, <3>2 DEF Unusable, Failed, Shape, DraftRow
      <4>3. CASE draft' = Failed(d)
        BY <1>1, <4>1, <4>3 DEF DraftRow
      <4>4. CASE draft' = Unusable(d)
        BY <4>2, <4>4
      <4> QED BY <1>4, <4>3, <4>4
    <3> QED BY <3>1, <3>2
  <2> DEFINE row == [draft[d] EXCEPT !.status = status, !.lease = lease, !.cost = cost]
  <2>2. /\ row \in DraftRow /\ row.status = status
        /\ row.text = draft[d].text /\ row.flagged = draft[d].flagged
    BY <1>1 DEF DraftRow
  <2>3. draft' = [draft EXCEPT ![d] = row]
    BY <2>1
  <2> HIDE DEF row
  <2>4. draft' \in [Draft -> DraftRow] /\ \A o \in Draft : Kept(o)
    BY <2>1, <2>2, <2>3, RowKept DEF Past
  <2> QED BY <1>1, <2>4 DEF Shape, Moves, ProposalMoves, SessionMoves
<1> QED BY <1>2, <1>3, <1>4 DEF Answer, Written

\* Every step moves drafts, proposals and requests in these ways.
LEMMA NextMoves == IInv /\ [Next]_vars => Moves
<1> SUFFICES ASSUME IInv, [Next]_vars PROVE Moves
  OBVIOUS
<1>1. Shape
  BY DEF IInv
<1>2. ASSUME NEW p \in Person, PersonStep(p) PROVE Moves
  <2>1. CASE Open(p) \/ \E d \in Draft : OpenRejection(p, d)
    BY <1>1, <2>1, OpenMoves
  <2>2. ASSUME NEW d \in Draft, Edit(p, d) \/ SubmitPost(p, d) \/ SubmitAnswers(p, d)
                                \/ Refused(p, d) \/ Withdraw(p, d) \/ Reject(p, d)
        PROVE  Moves
    BY <1>1, <2>2, EditMoves, SubmitMoves, DecideMoves, ReopenMoves
  <2> QED BY <1>2, <2>1, <2>2 DEF PersonStep
<1>3. ASSUME NEW w \in Writer, Work(w) \/ Defer(w) \/ Crash(w) PROVE Moves
  <2>1. CASE Answer(w)
    <3>1. writer[w].draft \in Draft
      BY <2>1 DEF Answer, IInv, WriterInv
    <3> QED BY <1>1, <2>1, <3>1, AnswerMoves
  <2>2. CASE Defer(w) \/ Crash(w)
    BY <1>1, <2>2, RestMoves DEF Defer, Crash
  <2>3. ASSUME NEW d \in Draft, NEW k \in Event, Receive(w, d, k) PROVE Moves
    BY <1>1, <2>3, ReceiveMoves
  <2> QED BY <1>3, <2>1, <2>2, <2>3 DEF Work
<1>4. ASSUME NEW d \in Draft,
             Request(d) \/ Advance(d) \/ RollBack(d) \/ LeaseRuns(d) \/ Reap(d)
      PROVE  Moves
  BY <1>1, <1>4, QueueMoves, DecideMoves, ReopenMoves
<1>5. ASSUME \/ \E d \in Draft, k \in Event : Redeliver(d, k)
             \/ \E c \in Chatter : StartChat(c) \/ EndChat(c)
             \/ AdvanceSitemap
             \/ UNCHANGED vars
      PROVE  Moves
  BY <1>1, <1>5, RestMoves DEF Redeliver, StartChat, EndChat, AdvanceSitemap, vars
<1> QED BY <1>2, <1>3, <1>4, <1>5 DEF Next

\* A writer takes a draft up with its message, and lays it down after one call.
LEMMA WriterStep == WriterInv /\ [Next]_vars => WriterInv'
<1> SUFFICES ASSUME WriterInv, [Next]_vars PROVE WriterInv'
  OBVIOUS
<1>1. CASE UNCHANGED writer
  BY <1>1 DEF WriterInv
<1>2. ASSUME NEW w \in Writer, writer' = [writer EXCEPT ![w] = Resting] PROVE WriterInv'
  BY <1>2 DEF WriterInv, Resting
<1>3. ASSUME NEW w \in Writer, NEW d \in Draft, NEW k \in Event,
             writer' = [writer EXCEPT ![w] = [pc |-> "call", draft |-> d, event |-> k]]
      PROVE  WriterInv'
  BY <1>3 DEF WriterInv
<1>4. ASSUME NEW p \in Person, PersonStep(p) PROVE UNCHANGED writer
  BY <1>4 DEF PersonStep, Open, OpenRejection, Edit, SubmitPost, SubmitAnswers, Submitted,
              Refused, Withdraw, Reject
<1>5. ASSUME NEW w \in Writer, Work(w) \/ Defer(w) \/ Crash(w) PROVE WriterInv'
  BY <1>1, <1>2, <1>3, <1>5 DEF Work, Answer, Receive, Defer, Crash
<1>6. ASSUME NEW d \in Draft,
             \/ Request(d) \/ Advance(d) \/ RollBack(d) \/ LeaseRuns(d) \/ Reap(d)
             \/ \E k \in Event : Redeliver(d, k)
      PROVE  UNCHANGED writer
  BY <1>6 DEF Request, Advance, RollBack, LeaseRuns, Reap, Redeliver
<1>7. ASSUME (\E c \in Chatter : StartChat(c) \/ EndChat(c)) \/ AdvanceSitemap \/ UNCHANGED vars
      PROVE  UNCHANGED writer
  BY <1>7 DEF StartChat, EndChat, AdvanceSitemap, vars
<1> QED BY <1>1, <1>4, <1>5, <1>6, <1>7 DEF Next

-----------------------------------------------------------------------------
(* The invariant.                                                          *)

\* A draft that is past the writing stays so.
LEMMA PastStays == ASSUME IInv, Moves, NEW d \in Draft, Past(d) PROVE Past(d)'
<1>1. Kept(d) \/ Edited(d) \/ Answered(d)
  BY DEF Moves
<1> QED BY <1>1 DEF Kept, Edited, Answered, Past

\* No step of a person, a writer, a chat or the reaper breaks the invariant.
LEMMA StepPreserves == IInv /\ [Next]_vars => IInv'
<1> SUFFICES ASSUME IInv, [Next]_vars, Moves PROVE IInv'
  BY NextMoves
<1>1. Shape'
  BY DEF IInv, Shape, Moves, SessionMoves
<1>2. WriterInv'
  BY WriterStep DEF IInv
<1>3. ASSUME NEW d \in Draft, NEW p \in Person, NEW op \in Op \ {"none", "withdraw"},
             InFlight(p, op, d)'
      PROVE  \/ InFlight(p, op, d)
             \/ Past(d) /\ UNCHANGED <<draft, proposal>>
  <2>1. SessionMoves(p)
    BY DEF Moves
  <2> QED BY <1>3, <2>1 DEF SessionMoves, InFlight, Op, Past, IInv, PastInv
<1>4. PastInv'
  <2> SUFFICES ASSUME NEW d \in Draft,
                      draft'[d].text = "person" \/ proposal'[d] # "none"
                         \/ \E p \in Person : Reviews(p, d)'
               PROVE  Past(d)'
    BY DEF PastInv
  <2>1. CASE draft'[d].text = "person"
    <3>1. Kept(d) \/ Edited(d) \/ Answered(d)
      BY DEF Moves
    <3> QED BY <2>1, <3>1, PastStays DEF Kept, Edited, Answered, Reviews, IInv, PastInv
  <2>2. CASE proposal'[d] # "none"
    <3>1. ProposalMoves(d)
      BY DEF Moves
    <3> QED BY <2>2, <3>1, PastStays DEF ProposalMoves, HasLiveProposal, Reviews, IInv, PastInv
  <2>3. ASSUME NEW p \in Person, Reviews(p, d)' PROVE Past(d)'
    BY <1>3, <2>3, PastStays DEF Reviews, Op, IInv, PastInv
  <2> QED BY <2>1, <2>2, <2>3
<1>5. FreshInv'
  <2> SUFFICES ASSUME NEW p \in Person, session'[p].op \in {"edit", "submit"}, ~session'[p].stale
               PROVE  Fresh(p)'
    BY DEF FreshInv, Fresh
  <2> DEFINE d == session'[p].draft
  <2>1. SessionMoves(p) /\ d \in Draft /\ Fresh(p)
    BY <1>1 DEF Moves, IInv, FreshInv, Shape
  <2>2. CASE UNCHANGED draft
    BY <2>1, <2>2 DEF SessionMoves, Fresh
  <2>3. CASE /\ session'[p].op = session[p].op /\ session'[p].draft = session[p].draft
             /\ session'[p].flagged = session[p].flagged /\ ~session[p].stale
    <3>1. Past(d)
      BY <2>1, <2>3 DEF InFlight, Reviews, IInv, PastInv
    <3>2. draft'[d].flagged = draft[d].flagged
      BY <2>1, <3>1 DEF Moves, Kept, Edited, Answered, Past
    <3> QED BY <2>1, <2>3, <3>2 DEF Fresh
  <2> QED BY <2>1, <2>2, <2>3 DEF SessionMoves
<1> QED BY <1>1, <1>2, <1>4, <1>5 DEF IInv

\* At first nothing is written, sent or asked for.
LEMMA InitEstablishes == Init => IInv
<1> SUFFICES ASSUME Init PROVE IInv
  OBVIOUS
<1>1. Shape
  <2>1. \A d \in Draft : draft[d] \in DraftRow
    BY DraftAssumption DEF Init, DraftRow, DraftAssumption
  <2> QED BY <2>1, IdleIsTyped DEF Init, Shape, ProposalState
<1>2. WriterInv /\ PastInv /\ FreshInv
  BY DEF Init, WriterInv, Resting, PastInv, FreshInv, Fresh, Reviews, InFlight, Idle
<1> QED BY <1>1, <1>2 DEF IInv

\* The inductive invariant of the drafts holds in every state.
THEOREM DraftsInvariance == Spec => []IInv
<1>1. Init => IInv
  BY InitEstablishes
<1>2. IInv /\ [Next]_vars => IInv'
  BY StepPreserves
<1> QED BY <1>1, <1>2, PTL DEF Spec

\* Only a request that read the draft before another's write leaves a live proposal with
\* an open flag.
THEOREM ReviewedTheorem == Spec => SentIsReviewed
<1> DEFINE ByStale(d) == ~Unreviewed(d) /\ Unreviewed(d)' =>
              \E p \in Person : session[p].draft = d /\ session[p].stale /\ session'[p] = Idle
<1>1. IInv /\ [Next]_vars => [\A d \in Draft : ByStale(d)]_vars
  <2> SUFFICES ASSUME IInv, Moves, NEW d \in Draft, ~Unreviewed(d), Unreviewed(d)'
               PROVE  \E p \in Person : session[p].draft = d /\ session[p].stale /\ session'[p] = Idle
    BY NextMoves
  <2>1. ProposalMoves(d) /\ (Kept(d) \/ Edited(d) \/ Answered(d))
    BY DEF Moves
  <2>2. CASE draft[d].flagged
    <3>1. PICK p \in Person : InFlight(p, "submit", d) /\ session'[p] = Idle
      BY <2>1, <2>2 DEF ProposalMoves, Unreviewed, HasLiveProposal
    <3>2. Fresh(p)
      BY DEF IInv, FreshInv
    <3> QED BY <2>2, <3>1, <3>2 DEF Fresh, InFlight
  <2>3. CASE ~draft[d].flagged
    <3>1. proposal[d] # "none" \/ (\E p \in Person : Reviews(p, d))
      BY <2>1 DEF ProposalMoves, Unreviewed, HasLiveProposal, Reviews
    <3>2. ~Answered(d)
      BY <3>1 DEF IInv, PastInv, Past, Answered
    <3>3. Edited(d)
      BY <2>1, <2>3, <3>2 DEF Kept, Unreviewed
    <3>4. PICK p \in Person : InFlight(p, "edit", d) /\ session'[p] = Idle /\ session[p].flagged
      BY <2>3, <3>3 DEF Edited, Unreviewed
    <3>5. Fresh(p)
      BY DEF IInv, FreshInv
    <3> QED BY <2>3, <3>4, <3>5 DEF Fresh, InFlight
  <2> QED BY <2>2, <2>3
<1> QED BY <1>1, DraftsInvariance, PTL DEF Spec, SentIsReviewed

\* Text a person edited is never replaced by a model's answer, however late.
THEOREM TextTheorem == Spec => ReviewedTextSurvives
<1>1. IInv /\ [Next]_vars => [\A d \in Draft : draft[d].text = "person" => draft'[d].text = "person"]_vars
  <2> SUFFICES ASSUME IInv, Moves, NEW d \in Draft, draft[d].text = "person"
               PROVE  draft'[d].text = "person"
    BY NextMoves
  <2>1. Kept(d) \/ Edited(d) \/ Answered(d)
    BY DEF Moves
  <2> QED BY <2>1 DEF Kept, Edited, Answered, Past, IInv, PastInv
<1> QED BY <1>1, DraftsInvariance, PTL DEF Spec, ReviewedTextSurvives

-----------------------------------------------------------------------------
(* Types, and the calls made for a draft: each was made for an attempt of   *)
(* its own, so three at most.                                               *)

MessageState == {"none", "due", "held", "acked"}
WriterRow == [pc : {"idle", "call"}, draft : Draft, event : Event]

\* The rows Shape says nothing of, and that a call is counted with its attempt.
RestInv ==
    /\ sitemap \in {"none", "review", "approved"}
    /\ message \in [Draft -> [Event -> MessageState]]
    /\ writer \in [Writer -> WriterRow]
    /\ chat \in [Chatter -> BOOLEAN] /\ chatSpend \in Nat
    /\ billed \in [Draft -> Nat] /\ \A d \in Draft : billed[d] <= draft[d].attempts
    /\ faults \in 0..MaxFaults

\* At first nothing was asked for.
LEMMA InitTypes == Init => RestInv
<1> SUFFICES ASSUME Init PROVE RestInv
  OBVIOUS
<1>1. 1 \in Event /\ 0 \in 0..MaxFaults /\ Resting.draft \in Draft
  BY DraftAssumption DEF Event, DraftAssumption, Resting
<1>2. Resting \in WriterRow
  BY <1>1 DEF Resting, WriterRow
<1> QED BY <1>1, <1>2 DEF Init, RestInv, MessageState

\* One event of one draft.
LEMMA MessageWritten ==
    ASSUME RestInv, NEW d \in Draft, NEW k \in Event, NEW state \in MessageState,
           message' = [message EXCEPT ![d][k] = state]
    PROVE  message' \in [Draft -> [Event -> MessageState]]
<1>1. message[d] \in [Event -> MessageState]
  BY DEF RestInv
<1> QED BY <1>1 DEF RestInv

\* The event that goes with a queued row.
LEMMA Announced ==
    ASSUME RestInv, NEW d \in Draft, Announce(d)
    PROVE  message' \in [Draft -> [Event -> MessageState]]
<1> DEFINE fresh == {k \in Event : message[d][k] = "none"}
           Due(k) == k \in fresh /\ \A j \in fresh : k <= j
           events == [k \in Event |-> IF Due(k) THEN "due" ELSE message[d][k]]
<1>1. message' = [message EXCEPT ![d] = events]
  BY DEF Announce, RestInv
<1>2. message[d] \in [Event -> MessageState] /\ "due" \in MessageState
  BY DEF RestInv, MessageState
<1> HIDE DEF Due
<1>3. events \in [Event -> MessageState]
  BY <1>2
<1> HIDE DEF events
<1> QED BY <1>1, <1>3 DEF RestInv

\* Whatever else is written about a draft, its attempts stay.
LEMMA AttemptsStay ==
    ASSUME Shape, NEW d \in Draft,
           \/ Request(d) \/ LeaseRuns(d) \/ Reap(d) \/ RollBack(d)
           \/ \E p \in Person : \/ Edit(p, d) \/ SubmitPost(p, d) \/ SubmitAnswers(p, d)
                                \/ Withdraw(p, d) \/ Reject(p, d)
    PROVE  \A o \in Draft : draft'[o].attempts = draft[o].attempts
<1>1. draft[d] \in DraftRow /\ DOMAIN draft = Draft
  BY DEF Shape
<1>2. CASE Request(d) \/ LeaseRuns(d) \/ Reap(d)
  BY <1>1, <1>2 DEF Request, LeaseRuns, Reap, Failed, DraftRow
<1>3. CASE RollBack(d)
  BY <1>1, <1>3 DEF RollBack, Reopened, DraftRow
<1>4. ASSUME NEW p \in Person, Edit(p, d)
      PROVE  \A o \in Draft : draft'[o].attempts = draft[o].attempts
  <2>1. \E flagged : draft' = [draft EXCEPT ![d] = [draft[d] EXCEPT !.text = "person", !.flagged = flagged]]
    BY <1>4 DEF Edit
  <2> QED BY <1>1, <2>1 DEF DraftRow
<1>5. ASSUME NEW p \in Person, SubmitPost(p, d) \/ SubmitAnswers(p, d) \/ Withdraw(p, d)
      PROVE  \A o \in Draft : draft'[o].attempts = draft[o].attempts
  BY <1>1, <1>5 DEF SubmitPost, SubmitAnswers, Submitted, Withdraw, DraftRow
<1>6. ASSUME NEW p \in Person, Reject(p, d)
      PROVE  \A o \in Draft : draft'[o].attempts = draft[o].attempts
  BY <1>1, <1>6 DEF Reject, Reopened, DraftRow
<1> QED BY <1>2, <1>3, <1>4, <1>5, <1>6

\* Nor does an answer touch them.
LEMMA AnswerKeepsAttempts ==
    ASSUME Shape, NEW w \in Writer, writer[w].draft \in Draft, Answer(w)
    PROVE  \A o \in Draft : draft'[o].attempts = draft[o].attempts
<1> DEFINE d == writer[w].draft
<1>1. draft[d] \in DraftRow /\ DOMAIN draft = Draft
  BY DEF Shape
<1>2. draft' \in Written(d) \cup {Unusable(d), Failed(d)}
  BY DEF Answer
<1> HIDE DEF d
<1>3. d \in Draft
  BY DEF d
<1>4. CASE draft' \in Written(d)
  <2>1. CASE draft' = draft
    BY <2>1
  <2>2. ASSUME NEW f \in BOOLEAN,
               draft' = [draft EXCEPT ![d] = [@ EXCEPT !.status = "ready", !.lease = "none", !.cost = 1,
                                                       !.text = "model", !.flagged = f]]
        PROVE  \A o \in Draft : draft'[o].attempts = draft[o].attempts
    BY <1>1, <1>3, <2>2 DEF DraftRow
  <2> QED BY <1>4, <2>1, <2>2 DEF Written
<1>5. CASE draft' \in {Unusable(d), Failed(d)}
  BY <1>1, <1>3, <1>5 DEF Unusable, Failed, DraftRow
<1> QED BY <1>2, <1>4, <1>5

\* A call is made for the attempt it was claimed with.
LEMMA ReceiveTypes ==
    ASSUME Shape, RestInv, NEW w \in Writer, NEW d \in Draft, NEW k \in Event, Receive(w, d, k)
    PROVE  RestInv'
<1>1. /\ draft[d] \in DraftRow /\ DOMAIN draft = Draft
      /\ billed[d] \in Nat /\ billed[d] <= draft[d].attempts
      /\ "acked" \in MessageState /\ "held" \in MessageState
  BY DEF Shape, RestInv, MessageState
<1>2. UNCHANGED <<sitemap, chat, chatSpend, faults>>
  BY DEF Receive
<1>3. CASE /\ Acked(d, k) \/ message' = [message EXCEPT ![d][k] = "held"]
           /\ UNCHANGED <<writer, billed>>
           /\ draft' = draft \/ draft' = Unwritable(d) \/ draft' = Claimed(d)
  <2>1. message' \in [Draft -> [Event -> MessageState]]
    BY <1>1, <1>3, MessageWritten DEF Acked
  <2>2. ASSUME draft' = Unwritable(d) \/ draft' = Claimed(d), NEW o \in Draft
        PROVE  \/ draft'[o].attempts = draft[o].attempts
               \/ o = d /\ draft'[o].attempts = draft[d].attempts + 1
    BY <1>1, <2>2 DEF Unwritable, Claimed, DraftRow
  <2>3. ASSUME NEW o \in Draft PROVE billed'[o] <= draft'[o].attempts
    <3>1. billed[o] \in Nat /\ draft[o].attempts \in 0..MaxAttempts /\ billed[o] <= draft[o].attempts
      BY DEF RestInv, Shape, DraftRow
    <3>2. billed'[o] = billed[o]
      BY <1>3
    <3> QED BY <1>1, <1>3, <2>2, <3>1, <3>2, DraftAssumption DEF DraftAssumption
  <2> QED BY <1>2, <1>3, <2>1, <2>3 DEF RestInv
<1>4. CASE /\ draft' = Claimed(d) /\ message' = [message EXCEPT ![d][k] = "held"]
           /\ writer' = [writer EXCEPT ![w] = [pc |-> "call", draft |-> d, event |-> k]]
           /\ billed' = [billed EXCEPT ![d] = @ + 1]
  <2>1. message' \in [Draft -> [Event -> MessageState]]
    BY <1>1, <1>4, MessageWritten
  <2>2. writer' \in [Writer -> WriterRow]
    BY <1>4 DEF RestInv, WriterRow
  <2>3. billed' \in [Draft -> Nat] /\ billed'[d] = billed[d] + 1
        /\ \A o \in Draft \ {d} : billed'[o] = billed[o]
    BY <1>1, <1>4 DEF RestInv
  <2>4. draft'[d].attempts = draft[d].attempts + 1
        /\ \A o \in Draft \ {d} : draft'[o] = draft[o]
    BY <1>1, <1>4 DEF Claimed, DraftRow
  <2>5. ASSUME NEW o \in Draft PROVE billed'[o] <= draft'[o].attempts
    <3>1. billed[o] \in Nat /\ draft[o].attempts \in 0..MaxAttempts /\ billed[o] <= draft[o].attempts
      BY DEF RestInv, Shape, DraftRow
    <3> QED BY <2>3, <2>4, <3>1, DraftAssumption DEF DraftAssumption
  <2> QED BY <1>2, <2>1, <2>2, <2>3, <2>5 DEF RestInv
<1> QED BY <1>3, <1>4 DEF Receive, Unopened

\* Every step keeps the types and counts a call with its attempt.
LEMMA TypesStep == IInv /\ RestInv /\ [Next]_vars => RestInv'
<1> SUFFICES ASSUME IInv, RestInv, [Next]_vars PROVE RestInv'
  OBVIOUS
<1>1. Shape /\ RestInv /\ Resting \in WriterRow
  <2>1. 1 \in Event
    BY DraftAssumption DEF Event, DraftAssumption
  <2> QED BY <2>1, DraftAssumption DEF IInv, WriterRow, Resting, DraftAssumption
<1>2. ASSUME \A o \in Draft : draft'[o].attempts = draft[o].attempts, UNCHANGED billed
      PROVE  billed' \in [Draft -> Nat] /\ \A d \in Draft : billed'[d] <= draft'[d].attempts
  BY <1>2 DEF RestInv
<1>3. ASSUME NEW p \in Person, PersonStep(p) PROVE RestInv'
  <2>1. UNCHANGED <<message, writer, chat, chatSpend, billed, faults>>
    BY <1>3 DEF PersonStep, Open, OpenRejection, Edit, SubmitPost, SubmitAnswers, Submitted,
                Refused, Withdraw, Reject
  <2>2. sitemap' \in {"none", "review", "approved"}
    BY <1>3 DEF PersonStep, Open, OpenRejection, Edit, SubmitPost, SubmitAnswers, Submitted,
                Refused, Withdraw, Reject, Listed, RestInv
  <2>3. CASE Open(p) \/ \E d \in Draft : OpenRejection(p, d) \/ Refused(p, d)
    BY <2>1, <2>2, <2>3 DEF Open, OpenRejection, Refused, RestInv
  <2>4. ASSUME NEW d \in Draft, \/ Edit(p, d) \/ SubmitPost(p, d) \/ SubmitAnswers(p, d)
                                \/ Withdraw(p, d) \/ Reject(p, d)
        PROVE  RestInv'
    <3>1. \A o \in Draft : draft'[o].attempts = draft[o].attempts
      BY <1>1, <2>4, AttemptsStay
    <3> QED BY <1>2, <2>1, <2>2, <3>1 DEF RestInv
  <2> QED BY <1>3, <2>3, <2>4 DEF PersonStep
<1>4. ASSUME NEW w \in Writer, Answer(w) PROVE RestInv'
  <2> DEFINE d == writer[w].draft
             k == writer[w].event
  <2>1. d \in Draft /\ k \in Event /\ "acked" \in MessageState
    BY DEF RestInv, WriterRow, MessageState
  <2>2. \A o \in Draft : draft'[o].attempts = draft[o].attempts
    BY <1>1, <1>4, <2>1, AnswerKeepsAttempts
  <2>3. /\ UNCHANGED <<sitemap, chat, chatSpend, billed>>
        /\ writer' = [writer EXCEPT ![w] = Resting]
        /\ \/ Acked(d, k) /\ UNCHANGED faults
           \/ Fails /\ UNCHANGED message
    BY <1>4 DEF Answer
  <2> HIDE DEF d, k
  <2>4. message' \in [Draft -> [Event -> MessageState]]
    <3>1. CASE Acked(d, k)
      BY <2>1, <3>1, MessageWritten DEF Acked
    <3> QED BY <2>3, <3>1 DEF RestInv
  <2>5. faults' \in 0..MaxFaults
    BY <2>3, DraftAssumption DEF RestInv, Fails, DraftAssumption
  <2>6. writer' \in [Writer -> WriterRow]
    BY <1>1, <2>3 DEF RestInv
  <2> QED BY <1>2, <2>2, <2>3, <2>4, <2>5, <2>6 DEF RestInv
<1>5. ASSUME NEW w \in Writer, Defer(w) \/ Crash(w) PROVE RestInv'
  <2>1. writer' \in [Writer -> WriterRow]
    BY <1>1, <1>5 DEF Defer, Crash, RestInv
  <2>2. faults' \in 0..MaxFaults
    BY <1>5, DraftAssumption DEF Defer, Crash, RestInv, Fails, DraftAssumption
  <2> QED BY <1>5, <2>1, <2>2 DEF Defer, Crash, RestInv
<1>6. ASSUME NEW d \in Draft, Request(d) \/ LeaseRuns(d) \/ Reap(d) \/ RollBack(d)
      PROVE  RestInv'
  <2>1. \A o \in Draft : draft'[o].attempts = draft[o].attempts
    BY <1>1, <1>6, AttemptsStay
  <2>2. /\ UNCHANGED <<sitemap, writer, chat, chatSpend, billed, faults>>
        /\ Announce(d) \/ UNCHANGED message
    BY <1>6 DEF Request, LeaseRuns, Reap, RollBack
  <2>3. message' \in [Draft -> [Event -> MessageState]]
    BY <2>2, Announced DEF RestInv
  <2> QED BY <1>2, <2>1, <2>2, <2>3 DEF RestInv
<1>7. ASSUME NEW d \in Draft, NEW k \in Event, Redeliver(d, k) PROVE RestInv'
  <2>1. message' \in [Draft -> [Event -> MessageState]]
    <3>1. "due" \in MessageState
      BY DEF MessageState
    <3> QED BY <1>7, <3>1, MessageWritten DEF Redeliver
  <2> QED BY <1>7, <2>1 DEF Redeliver, RestInv
<1>8. ASSUME NEW c \in Chatter, StartChat(c) \/ EndChat(c) PROVE RestInv'
  <2>1. chat' \in [Chatter -> BOOLEAN] /\ chatSpend' \in Nat
    <3>1. chat \in [Chatter -> BOOLEAN] /\ chatSpend \in Nat
      BY DEF RestInv
    <3>2. CASE StartChat(c)
      BY <3>1, <3>2 DEF StartChat
    <3>3. CASE EndChat(c)
      <4>1. chat' \in [Chatter -> BOOLEAN]
        BY <3>1, <3>3, Zenon DEF EndChat
      <4>2. chatSpend' \in Nat
        BY <3>1, <3>3 DEF EndChat
      <4> QED BY <4>1, <4>2
    <3> QED BY <1>8, <3>2, <3>3
  <2>2. UNCHANGED <<draft, sitemap, message, writer, billed, faults>>
    BY <1>8 DEF StartChat, EndChat
  <2> QED BY <2>1, <2>2 DEF RestInv
<1>9. CASE AdvanceSitemap \/ UNCHANGED vars \/ \E d \in Draft : Advance(d)
  BY <1>9 DEF AdvanceSitemap, vars, Advance, RestInv
<1> QED BY <1>1, <1>3, <1>4, <1>5, <1>6, <1>7, <1>8, <1>9, ReceiveTypes DEF Next, Work

\* Together these are the types.
LEMMA TypesFollow == IInv /\ RestInv => TypeOK
<1> SUFFICES ASSUME IInv, RestInv PROVE TypeOK
  OBVIOUS
<1>1. session \in [Person -> [op : {"none", "edit", "submit", "withdraw", "reject"},
                              draft : Draft, stale : BOOLEAN, flagged : BOOLEAN]]
  <2>1. Idle.draft \in Draft
    BY DraftAssumption DEF Idle, DraftAssumption
  <2>2. Draft \cup {Idle.draft} = Draft
    BY <2>1
  <2> QED BY <2>2 DEF IInv, Shape, Session, Op
<1>2. billed \in [Draft -> 0..MaxAttempts]
  <2>1. ASSUME NEW d \in Draft PROVE billed[d] \in 0..MaxAttempts
    <3>1. billed[d] \in Nat /\ billed[d] <= draft[d].attempts /\ draft[d].attempts \in 0..MaxAttempts
      BY DEF IInv, Shape, DraftRow, RestInv
    <3> QED BY <3>1, DraftAssumption DEF DraftAssumption
  <2> QED BY <2>1 DEF RestInv
<1>3. /\ draft \in [Draft -> DraftRow]
      /\ proposal \in [Draft -> {"none", "review", "approved", "deployed", "ended"}]
  BY DEF IInv, Shape, ProposalState
<1>4. /\ writer \in [Writer -> [pc : {"idle", "call"}, draft : Draft, event : Event]]
      /\ message \in [Draft -> [Event -> {"none", "due", "held", "acked"}]]
  BY DEF RestInv, MessageState, WriterRow
<1> QED BY <1>1, <1>2, <1>3, <1>4 DEF TypeOK, RestInv

\* Drafts, proposals, requests and events keep their types, and a model is called for a
\* draft no more often than it may be tried.
THEOREM DraftsTypeCorrect == Spec => []TypeOK
BY InitTypes, TypesStep, TypesFollow, DraftsInvariance, PTL DEF Spec

-----------------------------------------------------------------------------
(* Events.  A draft that says queued has an event to be read that no       *)
(* writer holds: a late answer acks the event its call came with, and that *)
(* is an older one.                                                        *)

\* A queued draft has a try left, and an event for it (requeue_sql: never queued without
\* the event that would pick it up).
QueuedIsOnStream ==
    \A d \in Draft :
       draft[d].status = "queued" =>
          draft[d].attempts < MaxAttempts /\ \E k \in Event : message[d][k] = "due"

Calls(w, d, k) == writer[w].pc = "call" /\ writer[w].draft = d /\ writer[w].event = k
Used(d) == {k \in Event : message[d][k] # "none"}

\* A call came with an event of its draft.
CameWith(w) ==
    writer[w].pc = "call" =>
       /\ writer[w].draft \in Draft /\ writer[w].event \in Event
       /\ message[writer[w].draft][writer[w].event] # "none"

\* No more events than tries, so that there is one left to requeue a running draft with.
EventsOK(d) ==
    /\ draft[d].status = "none" => draft[d].attempts = 0 /\ Used(d) = {}
    /\ draft[d].status = "running" => \A k \in Used(d) : k <= draft[d].attempts
    /\ draft[d].status = "queued" =>
          /\ draft[d].attempts < MaxAttempts
          /\ \A k \in Used(d) : k <= draft[d].attempts + 1
          /\ \E k \in Event : message[d][k] = "due" /\ \A w \in Writer : ~Calls(w, d, k)

\* What is said of each draft and of each call.
EventsInv ==
    /\ \A d \in Draft : EventsOK(d)
    /\ \A w \in Writer : CameWith(w)

\* No draft is requested at first.
LEMMA EventsInit == Init => EventsInv
BY DEF Init, EventsInv, EventsOK, Used, CameWith, Resting

\* Among events there is a first.
LEMMA FirstEvent ==
    ASSUME NEW S \in SUBSET Nat, S # {}
    PROVE  \E m \in S : \A k \in S : m <= k
<1> DEFINE R == OpToRel(<, Nat)
<1>1. IsWellFoundedOn(R, Nat)
  BY NatLessThanWellFounded
<1>2. PICK m \in S : \A k \in S : <<k, m>> \notin R
  BY <1>1, WFMin
<1>3. \A k \in S : ~(k < m)
  BY <1>2 DEF OpToRel
<1> QED BY <1>3

\* What is announced is the first event not used, and nobody has called with it.
LEMMA AnnounceAdds ==
    ASSUME RestInv, EventsInv, NEW d \in Draft, NEW n \in Event, n \notin Used(d), Announce(d),
           UNCHANGED writer, (\A k \in Used(d) : k <= n)
    PROVE  /\ \E k \in Event : /\ message'[d][k] = "due"
                               /\ \A w \in Writer : ~Calls(w, d, k)'
           /\ \A k \in Used(d)' : k <= n
           /\ \A o \in Draft \ {d} : message'[o] = message[o]
           /\ \A o \in Draft : Used(o) \subseteq Used(o)'
<1> DEFINE fresh == {k \in Event : message[d][k] = "none"}
<1>1. fresh \in SUBSET Nat /\ n \in fresh
  BY DEF Used, Event
<1>2. PICK m \in fresh : \A k \in fresh : m <= k
  BY <1>1, FirstEvent
<1>3. \A k \in fresh : k # m => \E j \in fresh : ~(k <= j)
  BY <1>1, <1>2
<1>4. /\ \A o \in Draft \ {d} : message'[o] = message[o]
      /\ message'[d] = [k \in Event |-> IF k \in fresh /\ \A j \in fresh : k <= j
                                        THEN "due" ELSE message[d][k]]
  BY DEF Announce, RestInv
<1> HIDE DEF fresh
<1>5. message'[d][m] = "due" /\ \A k \in Event \ {m} : message'[d][k] = message[d][k]
  BY <1>2, <1>3, <1>4 DEF fresh
<1>6. m \notin Used(d) /\ m <= n /\ m \in Event
  BY <1>1, <1>2 DEF fresh, Used
<1>7. \A w \in Writer : ~Calls(w, d, m)'
  BY <1>6 DEF EventsInv, CameWith, Calls, Used
<1>8. Used(d)' = Used(d) \cup {m}
  BY <1>5, <1>6 DEF Used
<1>9. \A o \in Draft \ {d} : Used(o)' = Used(o)
  BY <1>4 DEF Used
<1> QED BY <1>4, <1>5, <1>6, <1>7, <1>8, <1>9

\* A draft that nothing happens to, or whose writing is over, keeps what is said of it.
LEMMA EventsStay ==
    ASSUME NEW d \in Draft, EventsOK(d),
           \/ /\ draft'[d].status = draft[d].status /\ draft'[d].attempts = draft[d].attempts
              /\ message'[d] = message[d]
              /\ \A w \in Writer, k \in Event : Calls(w, d, k)' => Calls(w, d, k)
           \/ draft'[d].status \notin {"none", "queued", "running"}
    PROVE  EventsOK(d)'
BY DEF EventsOK, Used

\* People end a draft or leave its status, and so does a rollback.
LEMMA PeopleKeepEvents ==
    ASSUME Shape, EventsInv,
           \/ \E p \in Person : PersonStep(p)
           \/ \E d \in Draft : RollBack(d) \/ LeaseRuns(d)
    PROVE  EventsInv'
<1>1. UNCHANGED <<message, writer>>
  BY DEF PersonStep, Open, OpenRejection, Edit, SubmitPost, SubmitAnswers, Submitted, Refused,
         Withdraw, Reject, RollBack, LeaseRuns
<1>2. ASSUME NEW o \in Draft
      PROVE  \/ draft'[o].status = draft[o].status /\ draft'[o].attempts = draft[o].attempts
             \/ draft'[o].status \notin {"none", "queued", "running"}
  <2>1. \A d \in Draft : draft[d] \in DraftRow /\ DOMAIN draft = Draft
    BY DEF Shape
  <2>2. ASSUME NEW d \in Draft, RollBack(d) \/ LeaseRuns(d)
        PROVE  \/ draft'[o].status = draft[o].status /\ draft'[o].attempts = draft[o].attempts
               \/ draft'[o].status \notin {"none", "queued", "running"}
    BY <2>1, <2>2 DEF RollBack, Reopened, LeaseRuns, DraftRow
  <2>3. ASSUME NEW p \in Person, NEW d \in Draft,
               \/ Edit(p, d) \/ SubmitPost(p, d) \/ SubmitAnswers(p, d) \/ Withdraw(p, d) \/ Reject(p, d)
        PROVE  \/ draft'[o].status = draft[o].status /\ draft'[o].attempts = draft[o].attempts
               \/ draft'[o].status \notin {"none", "queued", "running"}
    <3>1. CASE Edit(p, d)
      BY <2>1, <3>1 DEF Edit, DraftRow
    <3>2. CASE SubmitPost(p, d) \/ SubmitAnswers(p, d) \/ Withdraw(p, d)
      BY <2>1, <3>2 DEF SubmitPost, SubmitAnswers, Submitted, Withdraw, DraftRow
    <3>3. CASE Reject(p, d)
      BY <2>1, <3>3 DEF Reject, Reopened, DraftRow
    <3> QED BY <2>3, <3>1, <3>2, <3>3
  <2>4. ASSUME NEW p \in Person, \/ Open(p)
                                 \/ \E d \in Draft : OpenRejection(p, d) \/ Refused(p, d)
        PROVE  draft' = draft
    BY <2>4 DEF Open, OpenRejection, Refused
  <2> QED BY <2>2, <2>3, <2>4 DEF PersonStep
<1>3. \A o \in Draft : EventsOK(o)'
  BY <1>1, <1>2, EventsStay DEF EventsInv, Calls
<1> QED BY <1>1, <1>3 DEF EventsInv, CameWith

\* A draft that is queued gets the event of its next try.
LEMMA QueueingAnnounces ==
    ASSUME Shape, RestInv, EventsInv, NEW d \in Draft, Request(d) \/ Reap(d)
    PROVE  EventsInv'
<1>1. draft[d] \in DraftRow /\ DOMAIN draft = Draft /\ MaxAttempts \in Nat \ {0} /\ writer' = writer
      /\ EventsOK(d)
  BY DraftAssumption DEF Shape, Request, Reap, EventsInv, DraftAssumption
<1>2. CASE Reap(d) /\ ~(draft[d].attempts < MaxAttempts)
  <2>1. /\ UNCHANGED message /\ draft'[d].status = "failed"
        /\ \A o \in Draft \ {d} : draft'[o] = draft[o]
    BY <1>1, <1>2 DEF Reap, Failed, DraftRow
  <2>2. \A o \in Draft : EventsOK(o)'
    BY <1>1, <2>1, EventsStay DEF EventsInv, Calls
  <2> QED BY <1>1, <2>1, <2>2 DEF EventsInv, CameWith
<1>3. CASE Request(d) \/ (Reap(d) /\ draft[d].attempts < MaxAttempts)
  <2> DEFINE next == draft[d].attempts + 1
  <2>1. /\ Announce(d) /\ draft[d].attempts \in Nat /\ draft[d].attempts < MaxAttempts
        /\ draft'[d].status = "queued" /\ draft'[d].attempts = draft[d].attempts
        /\ \A o \in Draft \ {d} : draft'[o] = draft[o]
    BY <1>1, <1>3 DEF Request, Reap, EventsOK, DraftRow
  <2>2. \A k \in Used(d) : k <= draft[d].attempts
    BY <1>1, <1>3 DEF Request, Reap, EventsOK
  <2>3. next \in Event /\ next \notin Used(d) /\ \A k \in Used(d) : k <= next
    BY <1>1, <2>1, <2>2 DEF Event, Used
  <2> HIDE DEF next
  <2>4. /\ \E k \in Event : message'[d][k] = "due" /\ \A w \in Writer : ~Calls(w, d, k)'
        /\ \A k \in Used(d)' : k <= next
        /\ \A o \in Draft \ {d} : message'[o] = message[o]
        /\ \A o \in Draft : Used(o) \subseteq Used(o)'
    BY <1>1, <2>1, <2>3, AnnounceAdds
  <2>5. EventsOK(d)'
    BY <2>1, <2>4 DEF EventsOK, next
  <2>6. \A o \in Draft \ {d} : EventsOK(o)'
    BY <1>1, <2>1, <2>4, EventsStay DEF EventsInv, Calls
  <2>7. \A w \in Writer : CameWith(w)'
    BY <1>1, <2>4 DEF EventsInv, CameWith, Used
  <2> QED BY <2>5, <2>6, <2>7 DEF EventsInv
<1> QED BY <1>2, <1>3

\* A delivery: what is queued is claimed, so its event is not acked unless it fails.
LEMMA ReceiveKeepsEvents ==
    ASSUME Shape, RestInv, EventsInv, NEW w \in Writer, NEW d \in Draft, NEW k \in Event,
           Receive(w, d, k)
    PROVE  EventsInv'
<1>1. /\ draft[d] \in DraftRow /\ DOMAIN draft = Draft /\ EventsOK(d)
      /\ k \in Used(d) /\ MaxAttempts \in Nat
  BY DraftAssumption DEF Shape, EventsInv, Receive, Used, DraftAssumption
<1>2. PICK state \in {"acked", "held"} : message' = [message EXCEPT ![d][k] = state]
  BY DEF Receive, Acked, Unopened
<1>3. \A o \in Draft : Used(o)' = Used(o)
  <2>1. message[d] \in [Event -> MessageState] /\ DOMAIN message = Draft
    BY DEF RestInv
  <2> QED BY <1>1, <1>2, <2>1 DEF Used
<1>4. \A o \in Draft \ {d} : message'[o] = message[o] /\ draft'[o] = draft[o]
  BY <1>1, <1>2 DEF Receive, Unwritable, Unopened, Claimed, RestInv
<1>5. \A o \in Draft \ {d}, v \in Writer, j \in Event : Calls(v, o, j)' => Calls(v, o, j)
  <2>1. writer' = writer \/ writer' = [writer EXCEPT ![w] = [pc |-> "call", draft |-> d, event |-> k]]
    BY DEF Receive
  <2>2. CASE writer' = writer
    BY <2>2 DEF Calls
  <2>3. ASSUME writer' = [writer EXCEPT ![w] = [pc |-> "call", draft |-> d, event |-> k]], NEW v \in Writer
        PROVE  writer'[v] = writer[v] \/ writer'[v].draft = d
    BY <2>3 DEF RestInv
  <2> QED BY <2>1, <2>2, <2>3 DEF Calls
<1>6. \A o \in Draft \ {d} : EventsOK(o)'
  BY <1>4, <1>5, EventsStay DEF EventsInv
<1>7. EventsOK(d)'
  <2>1. CASE ~Claimable(d)
    <3>1. draft' = draft /\ draft[d].status # "queued"
      BY <1>1, <2>1 DEF Receive, Claimable, EventsOK
    <3> QED BY <1>1, <1>3, <3>1 DEF EventsOK
  <2>2. CASE draft' = Unwritable(d)
    <3>1. draft'[d].status = "failed"
      BY <1>1, <2>2 DEF Unwritable, Claimed, DraftRow
    <3> QED BY <3>1 DEF EventsOK
  <2>3. CASE Claimable(d) /\ draft' = Claimed(d)
    <3>1. /\ draft'[d].status = "running" /\ draft'[d].attempts = draft[d].attempts + 1
          /\ draft[d].attempts \in Nat /\ draft[d].status \in {"queued", "running"}
      BY <1>1, <2>3 DEF Claimable, Claimed, DraftRow
    <3>2. \A j \in Used(d) : j \in Nat /\ j <= draft[d].attempts + 1
      BY <1>1, <3>1 DEF EventsOK, Used, Event
    <3> QED BY <1>3, <3>1, <3>2 DEF EventsOK
  <2> QED BY <2>1, <2>2, <2>3 DEF Receive, Unopened
<1>8. ASSUME NEW v \in Writer PROVE CameWith(v)'
  <2>1. writer'[v] = writer[v] \/ writer'[v] = [pc |-> "call", draft |-> d, event |-> k]
    BY DEF Receive, RestInv
  <2>2. \A o \in Draft, j \in Event : message[o][j] # "none" => message'[o][j] # "none"
    BY <1>3 DEF Used
  <2>3. CameWith(v) /\ message[d][k] # "none"
    BY <1>1 DEF EventsInv, Used
  <2> QED BY <2>1, <2>2, <2>3 DEF CameWith
<1> QED BY <1>6, <1>7, <1>8 DEF EventsInv

\* An answer acks the event of its call, which a queued draft does not wait for.
LEMMA AnswerKeepsEvents ==
    ASSUME Shape, RestInv, EventsInv, NEW w \in Writer, Answer(w)
    PROVE  EventsInv'
<1>1. PICK d \in Draft, k \in Event : d = writer[w].draft /\ k = writer[w].event
  BY DEF Answer, EventsInv, CameWith
<1>2. /\ Calls(w, d, k) /\ EventsOK(d) /\ message[d][k] # "none"
      /\ draft[d] \in DraftRow /\ DOMAIN draft = Draft
      /\ message[d] \in [Event -> MessageState] /\ DOMAIN message = Draft
  BY <1>1 DEF Answer, RestInv, EventsInv, CameWith, Calls, Shape
<1>3. /\ \/ message' = message
         \/ message' = [message EXCEPT ![d][k] = "acked"]
      /\ writer' = [writer EXCEPT ![w] = Resting]
      /\ draft' \in Written(d) \cup {Unusable(d), Failed(d)}
  BY <1>1 DEF Answer, Acked
<1>4. \A o \in Draft : Used(o)' = Used(o)
  BY <1>2, <1>3 DEF Used
<1>5. /\ \A v \in Writer, o \in Draft, j \in Event : Calls(v, o, j)' => Calls(v, o, j)
      /\ \A v \in Writer : writer'[v].pc = "call" => writer'[v] = writer[v]
  BY <1>3 DEF Calls, RestInv, Resting
<1>6. /\ \A o \in Draft \ {d} : draft'[o] = draft[o]
      /\ \/ draft'[d].status = draft[d].status /\ draft'[d].attempts = draft[d].attempts
            /\ draft[d].status # "running"
         \/ draft'[d].status \in {"ready", "failed"}
  <2>1. CASE draft' \in Written(d)
    <3>1. CASE draft[d].status # "running"
      BY <2>1, <3>1 DEF Written
    <3>2. ASSUME NEW f \in BOOLEAN,
                 draft' = [draft EXCEPT ![d] = [@ EXCEPT !.status = "ready", !.lease = "none", !.cost = 1,
                                                         !.text = "model", !.flagged = f]]
          PROVE  draft'[d].status = "ready" /\ \A o \in Draft \ {d} : draft'[o] = draft[o]
      BY <1>2, <3>2 DEF DraftRow
    <3> QED BY <2>1, <3>1, <3>2 DEF Written
  <2>2. CASE draft' = Unusable(d)
    <3>1. CASE draft[d].status # "running"
      <4>1. draft' = [draft EXCEPT ![d].cost = 1]
        BY <2>2, <3>1 DEF Unusable, Failed
      <4> QED BY <1>2, <3>1, <4>1 DEF DraftRow
    <3>2. CASE draft[d].status = "running"
      <4> DEFINE ended == [draft EXCEPT ![d].status = "failed", ![d].lease = "none"]
      <4>1. ended[d].status = "failed" /\ ended[d] \in DraftRow /\ DOMAIN ended = Draft
            /\ \A o \in Draft \ {d} : ended[o] = draft[o]
        BY <1>2 DEF DraftRow
      <4>2. draft' = [ended EXCEPT ![d].cost = 1]
        BY <2>2, <3>2 DEF Unusable, Failed
      <4> HIDE DEF ended
      <4> QED BY <4>1, <4>2 DEF DraftRow
    <3> QED BY <3>1, <3>2
  <2>3. CASE draft' = Failed(d)
    BY <1>2, <2>3 DEF Failed, DraftRow
  <2> QED BY <1>3, <2>1, <2>2, <2>3
<1>7. \A o \in Draft \ {d} : message'[o] = message[o]
  BY <1>2, <1>3
<1>8. \A o \in Draft \ {d} : EventsOK(o)'
  BY <1>5, <1>6, <1>7, EventsStay DEF EventsInv
<1>9. EventsOK(d)'
  <2>1. CASE draft'[d].status \in {"ready", "failed"}
    BY <2>1 DEF EventsOK
  <2>2. CASE /\ draft'[d].status = draft[d].status /\ draft'[d].attempts = draft[d].attempts
             /\ draft[d].status \notin {"queued", "running"}
    BY <1>2, <1>4, <2>2 DEF EventsOK
  <2>3. CASE /\ draft'[d].status = draft[d].status /\ draft'[d].attempts = draft[d].attempts
             /\ draft[d].status = "queued"
    <3>1. PICK j \in Event : message[d][j] = "due" /\ \A v \in Writer : ~Calls(v, d, j)
      BY <1>2, <2>3 DEF EventsOK
    <3>2. j # k
      BY <1>2, <3>1
    <3>3. message'[d][j] = "due"
      BY <1>2, <1>3, <3>1, <3>2
    <3>4. \A v \in Writer : ~Calls(v, d, j)'
      BY <1>5, <3>1
    <3> QED BY <1>2, <1>4, <2>3, <3>3, <3>4 DEF EventsOK
  <2> QED BY <1>6, <2>1, <2>2, <2>3
<1>10. ASSUME NEW v \in Writer PROVE CameWith(v)'
  <2>1. \A o \in Draft, j \in Event : message[o][j] # "none" => message'[o][j] # "none"
    BY <1>4 DEF Used
  <2> QED BY <1>5, <2>1 DEF EventsInv, CameWith
<1> QED BY <1>8, <1>9, <1>10 DEF EventsInv

\* A message that is claimed again was held.
LEMMA RedeliverKeepsEvents ==
    ASSUME RestInv, EventsInv, NEW d \in Draft, NEW k \in Event, Redeliver(d, k)
    PROVE  EventsInv'
<1>1. /\ UNCHANGED <<draft, writer>> /\ message[d][k] = "held"
      /\ message[d] \in [Event -> MessageState] /\ DOMAIN message = Draft
      /\ message' = [message EXCEPT ![d][k] = "due"]
  BY DEF Redeliver, RestInv
<1>2. /\ \A o \in Draft : Used(o)' = Used(o)
      /\ \A o \in Draft, j \in Event : message[o][j] = "due" => message'[o][j] = "due"
  BY <1>1 DEF Used
<1>3. \A o \in Draft : EventsOK(o)'
  BY <1>1, <1>2 DEF EventsInv, EventsOK, Calls
<1>4. \A v \in Writer : CameWith(v)'
  BY <1>1, <1>2 DEF EventsInv, CameWith, Used
<1> QED BY <1>3, <1>4 DEF EventsInv

\* Every step keeps it.
LEMMA EventsStep == IInv /\ RestInv /\ EventsInv /\ [Next]_vars => EventsInv'
<1> SUFFICES ASSUME IInv, RestInv, EventsInv, [Next]_vars PROVE EventsInv'
  OBVIOUS
<1>1. Shape
  BY DEF IInv
<1>2. CASE \/ UNCHANGED vars \/ AdvanceSitemap \/ \E d \in Draft : Advance(d)
           \/ \E c \in Chatter : StartChat(c) \/ EndChat(c)
  <2>1. UNCHANGED <<draft, message, writer>>
    BY <1>2 DEF vars, AdvanceSitemap, Advance, StartChat, EndChat
  <2> QED BY <2>1 DEF EventsInv, EventsOK, Used, Calls, CameWith
<1>3. ASSUME NEW w \in Writer, Defer(w) \/ Crash(w) PROVE EventsInv'
  <2>1. /\ UNCHANGED <<draft, message>>
        /\ \A v \in Writer : writer'[v].pc = "call" => writer'[v] = writer[v]
    BY <1>3 DEF Defer, Crash, Resting, RestInv
  <2>2. \A o \in Draft : EventsOK(o)'
    BY <2>1, EventsStay DEF EventsInv, Calls
  <2> QED BY <2>1, <2>2 DEF EventsInv, CameWith
<1> QED BY <1>1, <1>2, <1>3, PeopleKeepEvents, QueueingAnnounces, ReceiveKeepsEvents,
           AnswerKeepsEvents, RedeliverKeepsEvents DEF Next, Work

\* However late writers answer and whatever the reaper requeues, a queued draft has an
\* event that will bring it to a writer (requeue_sql, _consume).
THEOREM QueuedTheorem == Spec => []QueuedIsOnStream
<1>1. EventsInv => QueuedIsOnStream
  BY DEF EventsInv, EventsOK, QueuedIsOnStream
<1> QED BY <1>1, EventsInit, EventsStep, InitTypes, TypesStep, DraftsInvariance, PTL DEF Spec

-----------------------------------------------------------------------------
(* The budget.                                                             *)

\* The calls that found the budget open and are not recorded yet.
Calling == {w \in Writer : writer[w].pc = "call"}
Chatting == {c \in Chatter : chat[c]}

\* What is recorded and the calls at work exceed the budget only by the callers that
\* read it together.
SpendInv ==
    /\ chatSpend \in Nat
    /\ chat \in [Chatter -> BOOLEAN]
    /\ Spent + Cardinality(Calling) + Cardinality(Chatting)
          < Budget + Cardinality(Writer) + Cardinality(Chatter)

\* Paid drafts and calls can be counted.
LEMMA SpendCounts ==
    /\ IsFiniteSet(Paid) /\ Cardinality(Paid) \in Nat
    /\ IsFiniteSet(Calling) /\ Cardinality(Calling) \in Nat
    /\ IsFiniteSet(Chatting) /\ Cardinality(Chatting) \in Nat
    /\ Cardinality(Calling) <= Cardinality(Writer) /\ Cardinality(Writer) \in Nat
    /\ Cardinality(Chatting) <= Cardinality(Chatter) /\ Cardinality(Chatter) \in Nat
<1>1. IsFiniteSet(Draft) /\ IsFiniteSet(Writer) /\ IsFiniteSet(Chatter)
  BY DraftAssumption DEF DraftAssumption
<1>2. Paid \subseteq Draft /\ Calling \subseteq Writer /\ Chatting \subseteq Chatter
  BY DEF Paid, Calling, Chatting
<1>3. IsFiniteSet(Paid) /\ IsFiniteSet(Calling) /\ IsFiniteSet(Chatting)
  BY <1>1, <1>2, FS_Subset
<1>4. Cardinality(Calling) <= Cardinality(Writer) /\ Cardinality(Chatting) <= Cardinality(Chatter)
  BY <1>1, <1>2, FS_Subset
<1> QED BY <1>1, <1>3, <1>4, FS_CardinalityType

\* The same after a step: the sets are finite whatever the variables hold.
LEMMA SpendCountsNext ==
    /\ Cardinality(Paid') \in Nat
    /\ Cardinality(Calling') \in Nat /\ Cardinality(Calling') <= Cardinality(Writer)
    /\ Cardinality(Chatting') \in Nat /\ Cardinality(Chatting') <= Cardinality(Chatter)
<1>1. IsFiniteSet(Draft) /\ IsFiniteSet(Writer) /\ IsFiniteSet(Chatter)
  BY DraftAssumption DEF DraftAssumption
<1>2. Paid' \subseteq Draft /\ Calling' \subseteq Writer /\ Chatting' \subseteq Chatter
  BY DEF Paid, Calling, Chatting
<1> QED BY <1>1, <1>2, FS_Subset, FS_CardinalityType

\* A call that starts found the budget open.
LEMMA CallStarts ==
    ASSUME SpendInv, Spent < Budget, Paid' = Paid, chatSpend' = chatSpend,
           chat' \in [Chatter -> BOOLEAN]
    PROVE  SpendInv'
<1>1. Spent' = Spent /\ Spent \in Nat
  BY SpendCounts DEF Spent, SpendInv
<1>2. Spent' + Cardinality(Calling') + Cardinality(Chatting')
         < Budget + Cardinality(Writer) + Cardinality(Chatter)
  BY <1>1, SpendCounts, SpendCountsNext, DraftAssumption DEF DraftAssumption
<1> QED BY <1>2 DEF SpendInv

\* A step that starts no call records nothing.
LEMMA NoneStarts ==
    ASSUME SpendInv, Paid' = Paid, UNCHANGED <<chat, chatSpend>>, Calling' \subseteq Calling
    PROVE  SpendInv'
<1>1. Chatting' = Chatting /\ Spent' = Spent
  BY DEF Chatting, Spent
<1>2. Cardinality(Calling') <= Cardinality(Calling)
  BY SpendCounts, FS_Subset
<1>3. Spent' + Cardinality(Calling') + Cardinality(Chatting')
         < Budget + Cardinality(Writer) + Cardinality(Chatter)
  BY <1>1, <1>2, SpendCounts, SpendCountsNext, DraftAssumption
     DEF DraftAssumption, SpendInv, Spent
<1> QED BY <1>3 DEF SpendInv

\* A writer whose call returns records one cost at most, and its call is over.
LEMMA CallEnds ==
    ASSUME SpendInv, WriterInv, NEW w \in Writer, NEW d,
           writer[w].pc = "call", writer' = [writer EXCEPT ![w] = Resting],
           Paid' \subseteq Paid \cup {d}, UNCHANGED <<chat, chatSpend>>
    PROVE  SpendInv'
<1>1. Chatting' = Chatting
  BY DEF Chatting
<1>2. Cardinality(Calling') = Cardinality(Calling) - 1
  <2>1. Calling' = Calling \ {w} /\ w \in Calling
    BY DEF WriterInv, Calling, Resting
  <2> QED BY <2>1, SpendCounts, FS_RemoveElement
<1>3. Cardinality(Paid') <= Cardinality(Paid) + 1
  <2>1. /\ IsFiniteSet(Paid \cup {d})
        /\ Cardinality(Paid \cup {d}) = IF d \in Paid THEN Cardinality(Paid) ELSE Cardinality(Paid) + 1
    BY SpendCounts, FS_AddElement
  <2>2. Cardinality(Paid') <= Cardinality(Paid \cup {d})
    BY <2>1, FS_Subset
  <2> QED BY <2>1, <2>2, SpendCounts, SpendCountsNext
<1>4. Spent' + Cardinality(Calling') + Cardinality(Chatting')
         < Budget + Cardinality(Writer) + Cardinality(Chatter)
  BY <1>1, <1>2, <1>3, SpendCounts, SpendCountsNext, DraftAssumption
     DEF DraftAssumption, SpendInv, Spent
<1> QED BY <1>4 DEF SpendInv

\* The same of a chat.
LEMMA ChatEnds ==
    ASSUME SpendInv, NEW c \in Chatter, EndChat(c)
    PROVE  SpendInv'
<1>1. Paid' = Paid /\ Calling' = Calling
  BY DEF EndChat, Paid, Calling
<1>2. Cardinality(Chatting') = Cardinality(Chatting) - 1
  <2>1. Chatting' = Chatting \ {c} /\ c \in Chatting
    BY DEF SpendInv, EndChat, Chatting
  <2> QED BY <2>1, SpendCounts, FS_RemoveElement
<1>3. chatSpend' \in Nat /\ chatSpend' <= chatSpend + 1 /\ chat' \in [Chatter -> BOOLEAN]
  BY DEF SpendInv, EndChat
<1>4. Spent' + Cardinality(Calling') + Cardinality(Chatting')
         < Budget + Cardinality(Writer) + Cardinality(Chatter)
  BY <1>1, <1>2, <1>3, SpendCounts, SpendCountsNext, DraftAssumption
     DEF DraftAssumption, SpendInv, Spent
<1> QED BY <1>3, <1>4 DEF SpendInv

\* Only an answer writes a cost.
LEMMA CostsStay ==
    ASSUME Shape, NEW d \in Draft,
           \/ Request(d) \/ Advance(d) \/ RollBack(d) \/ LeaseRuns(d) \/ Reap(d)
           \/ \E k \in Event : Redeliver(d, k)
           \/ \E p \in Person : \/ OpenRejection(p, d) \/ Edit(p, d) \/ SubmitPost(p, d)
                                \/ SubmitAnswers(p, d) \/ Refused(p, d) \/ Withdraw(p, d)
                                \/ Reject(p, d)
    PROVE  Paid' = Paid /\ UNCHANGED <<writer, chat, chatSpend>>
<1>1. draft \in [Draft -> DraftRow] /\ \A o \in Draft : draft[o] \in DraftRow
  BY DEF Shape
<1>2. UNCHANGED <<writer, chat, chatSpend>>
  BY DEF Request, Advance, RollBack, LeaseRuns, Reap, Redeliver, OpenRejection, Edit, SubmitPost,
         SubmitAnswers, Submitted, Refused, Withdraw, Reject
<1>3. ASSUME NEW o \in Draft PROVE draft'[o].cost = draft[o].cost
  <2>1. CASE Request(d) \/ LeaseRuns(d) \/ Reap(d)
    BY <1>1, <2>1 DEF DraftRow, Request, LeaseRuns, Reap, Failed
  <2>2. CASE RollBack(d) \/ \E p \in Person : Reject(p, d)
    BY <1>1, <2>2 DEF DraftRow, RollBack, Reject, Reopened
  <2>3. CASE \E p \in Person : Edit(p, d) \/ Withdraw(p, d)
    BY <1>1, <2>3 DEF DraftRow, Edit, Withdraw
  <2>4. CASE \E p \in Person : SubmitPost(p, d) \/ SubmitAnswers(p, d)
    BY <1>1, <2>4 DEF DraftRow, SubmitPost, SubmitAnswers, Submitted
  <2>5. CASE \/ Advance(d) \/ \E k \in Event : Redeliver(d, k)
             \/ \E p \in Person : OpenRejection(p, d) \/ Refused(p, d)
    BY <2>5 DEF Advance, Redeliver, OpenRejection, Refused
  <2> QED BY <2>1, <2>2, <2>3, <2>4, <2>5
<1> QED BY <1>2, <1>3 DEF Paid

\* A delivery is acked, fails its draft, or starts a call within the budget.
LEMMA ReceiveSpends ==
    ASSUME Shape, WriterInv, SpendInv, NEW w \in Writer, NEW d \in Draft, NEW k \in Event,
           Receive(w, d, k)
    PROVE  SpendInv'
<1>1. draft \in [Draft -> DraftRow] /\ \A o \in Draft : draft[o] \in DraftRow
  BY DEF Shape
<1>2. Paid' = Paid
  <2>1. draft' = draft \/ draft' = Claimed(d) \/ draft' = Unwritable(d)
    BY DEF Receive, Unopened
  <2>2. \A o \in Draft : Claimed(d)[o].cost = draft[o].cost /\ Unwritable(d)[o].cost = draft[o].cost
    BY <1>1 DEF Claimed, Unwritable, DraftRow
  <2> QED BY <2>1, <2>2 DEF Paid
<1>3. UNCHANGED <<chat, chatSpend>> /\ (writer' = writer \/ Spent < Budget)
  BY DEF Receive
<1>4. CASE writer' = writer
  BY <1>2, <1>3, <1>4, NoneStarts DEF Calling
<1> QED BY <1>2, <1>3, <1>4, CallStarts DEF SpendInv

\* An answer, usable or not, records the cost of its own draft.
LEMMA AnswerSpends ==
    ASSUME Shape, WriterInv, SpendInv, NEW w \in Writer, Answer(w)
    PROVE  SpendInv'
<1> DEFINE d == writer[w].draft
<1>1. d \in Draft /\ draft \in [Draft -> DraftRow]
  BY DEF Shape, WriterInv, Answer
<1>2. \A o \in Draft \ {d} : draft'[o] = draft[o]
  BY <1>1 DEF Answer, Written, Unusable, Failed
<1>3. Paid' \subseteq Paid \cup {d}
  BY <1>2 DEF Paid
<1>4. /\ writer[w].pc = "call" /\ writer' = [writer EXCEPT ![w] = Resting]
      /\ UNCHANGED <<chat, chatSpend>>
  BY DEF Answer
<1> QED BY <1>3, <1>4, CallEnds

\* No step takes more from the budget than the callers that had read it.
LEMMA SpendStep == IInv /\ SpendInv /\ [Next]_vars => SpendInv'
<1> SUFFICES ASSUME IInv, SpendInv, [Next]_vars PROVE SpendInv'
  OBVIOUS
<1>1. Shape /\ WriterInv
  BY DEF IInv
<1>2. CASE UNCHANGED <<draft, writer, chat, chatSpend>>
  BY <1>2, NoneStarts DEF Paid, Calling
<1>3. ASSUME NEW d \in Draft,
             \/ Request(d) \/ Advance(d) \/ RollBack(d) \/ LeaseRuns(d) \/ Reap(d)
             \/ \E k \in Event : Redeliver(d, k)
             \/ \E p \in Person : \/ OpenRejection(p, d) \/ Edit(p, d) \/ SubmitPost(p, d)
                                  \/ SubmitAnswers(p, d) \/ Refused(p, d) \/ Withdraw(p, d)
                                  \/ Reject(p, d)
      PROVE  SpendInv'
  <2>1. Paid' = Paid /\ UNCHANGED <<writer, chat, chatSpend>>
    BY <1>1, <1>3, CostsStay
  <2> QED BY <2>1, NoneStarts DEF Calling
<1>4. ASSUME NEW p \in Person, PersonStep(p) PROVE SpendInv'
  <2>1. CASE Open(p)
    BY <1>2, <2>1 DEF Open
  <2> QED BY <1>3, <1>4, <2>1 DEF PersonStep
<1>5. ASSUME NEW w \in Writer, Work(w) PROVE SpendInv'
  BY <1>1, <1>5, AnswerSpends, ReceiveSpends DEF Work
<1>6. ASSUME NEW w \in Writer, Defer(w) \/ Crash(w) PROVE SpendInv'
  <2>1. /\ Paid' = Paid /\ UNCHANGED <<chat, chatSpend>>
        /\ writer' = [writer EXCEPT ![w] = Resting]
    BY <1>6 DEF Defer, Crash, Paid
  <2>2. Calling' \subseteq Calling
    BY <1>1, <2>1 DEF WriterInv, Calling, Resting
  <2> QED BY <2>1, <2>2, NoneStarts
<1>7. ASSUME NEW c \in Chatter, StartChat(c) PROVE SpendInv'
  <2>1. /\ Paid' = Paid /\ chatSpend' = chatSpend /\ Spent < Budget
        /\ chat' \in [Chatter -> BOOLEAN]
    BY <1>7 DEF StartChat, Paid, SpendInv
  <2> QED BY <2>1, CallStarts
<1>8. CASE AdvanceSitemap \/ UNCHANGED vars
  BY <1>2, <1>8 DEF AdvanceSitemap, vars
<1> QED BY <1>3, <1>4, <1>5, <1>6, <1>7, <1>8, ChatEnds DEF Next

\* At first nothing is spent.
LEMMA SpendInit == Init => SpendInv
<1> SUFFICES ASSUME Init PROVE SpendInv
  OBVIOUS
<1>1. Paid = {} /\ Calling = {} /\ Chatting = {} /\ chatSpend = 0
  BY DEF Init, Paid, Calling, Chatting, Resting
<1>2. chat \in [Chatter -> BOOLEAN]
  BY DEF Init
<1>3. Cardinality(Paid) = 0 /\ Cardinality(Calling) = 0 /\ Cardinality(Chatting) = 0
  BY <1>1, FS_EmptySet
<1> QED BY <1>1, <1>2, <1>3, SpendCounts, DraftAssumption DEF SpendInv, Spent, DraftAssumption

\* What is spent is less than what the calls at work would make of it.
LEMMA SpendFollows == SpendInv => OverspendIsBounded
BY SpendCounts, DraftAssumption DEF SpendInv, OverspendIsBounded, Spent, DraftAssumption

\* The month's budget is exceeded by one call for each caller at work and no more, for
\* any number of drafts, writers and chats (workspace_model_spend, _load_input, _converse).
THEOREM OverspendTheorem == Spec => []OverspendIsBounded
BY SpendInit, SpendFollows, SpendStep, DraftsInvariance, PTL DEF Spec
=============================================================================
