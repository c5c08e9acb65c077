----------------------------- MODULE Conversation -----------------------------
(***************************************************************************)
(* A conversation with the agent: people post to it, each post is one      *)
(* transaction that adds the person's message and the agent's answer, and  *)
(* what the agent did in between.                                          *)
(*                                                                         *)
(* Source: api/app/services/agent.py, agent_model.py, domain/skills.py.    *)
(*                                                                         *)
(* A model with the workspace's own key may answer: it chooses which skills *)
(* that read are run, and suggests others.  Without one, without budget or  *)
(* when it fails, a router that knows words chooses one skill, or none.    *)
(* What the words of a text are worth for each skill is part of the text.  *)
(***************************************************************************)
EXTENDS Integers, FiniteSets, FiniteSetsExt

CONSTANTS
    Poster,        \* requests that post a message
    Text,          \* [asks |-> it opens as a question, cadence |-> it says how often,
                   \*  hit |-> [Skill -> Hit]]
    Skill,
    EffectOf,      \* [Skill -> "read", "schedule" or "propose"]
    Permitted,     \* [Poster -> the skills its role allows]
    MaxReads,      \* CHAT_MAX_READS, 3 in the code
    Budget,        \* the month's budget, in calls
    MaxMessages    \* bound: messages of the conversation

Hit == [score : Nat, action : BOOLEAN, strong : BOOLEAN]

ASSUME ConversationAssumption ==
    /\ Permitted \in [Poster -> SUBSET Skill] /\ "unrouted" \notin Skill /\ IsFiniteSet(Skill)
    /\ \A t \in Text : t.asks \in BOOLEAN /\ t.cadence \in BOOLEAN /\ t.hit \in [Skill -> Hit]
    /\ MaxReads \in Nat /\ Budget \in Nat /\ MaxMessages \in Nat

VARIABLES
    message,   \* rows of agent_message that are committed
    counted,   \* message_count of the session
    schedule,  \* [Skill -> the routine it stands for: "none", "parked" or "on"]
    post       \* [Poster -> the transaction it is in]

talkVars == <<message, counted, schedule, post>>

Acting(s) == EffectOf[s] # "read"
Unrouted == "unrouted"
ReadSkills(p) == {s \in Permitted[p] : ~Acting(s)}

Task == [skill : Skill, by : {"model", "router", "person"}, status : {"completed", "blocked"}]
Phase == {"idle", "numbered", "asking", "replying", "routing", "answered"}
NotPosting == [phase |-> "idle"]
Posting == [phase : Phase \ {"idle"}, at : 0..MaxMessages, text : Text, forced : Skill \cup {Unrouted},
            tasks : SUBSET Task, cost : 0..2, writes : SUBSET (Skill \X {"parked", "on"})]

Message == [sequence : 1..MaxMessages, role : {"user", "agent"}, of : Poster, text : Text,
            tasks : SUBSET Task, cost : 0..2]

TalkInit ==
    /\ message = {}
    /\ counted = 0
    /\ schedule = [s \in Skill |-> "none"]
    /\ post = [p \in Poster |-> NotPosting]

LastSequence == Max({0} \cup {m.sequence : m \in message})

\* The session is there; the highest sequence is read; with a button the person
\* names the skill.
StartPost(p, text, forced) ==
    /\ post[p] = NotPosting /\ LastSequence + 2 <= MaxMessages
    /\ post' = [post EXCEPT ![p] = [phase |-> "numbered", at |-> LastSequence, text |-> text,
                                    forced |-> forced, tasks |-> {}, cost |-> 0, writes |-> {}]]
    /\ UNCHANGED <<message, counted, schedule>>

\* Transactions that have added a message after `at` and not ended.
Holding(at) == {p \in Poster : post[p] # NotPosting /\ post[p].phase # "numbered" /\ post[p].at = at}

\* Mutant of Unique: nothing keeps two messages from having one number.
NumberedAnyhow(at) == TRUE

\* UNIQUE(session_id, sequence): the insert waits for the transaction that has
\* the number, and fails if that one has committed.
Unique(at) == \A m \in message : m.sequence # at + 1
NumberIsFree(at) == Unique(at) /\ Holding(at) = {}

AddQuestion(p) ==
    /\ post[p].phase = "numbered"
    /\ NumberIsFree(post[p].at)
    /\ post' = [post EXCEPT ![p].phase = IF post[p].forced \in Skill THEN "routing" ELSE "asking"]
    /\ UNCHANGED <<message, counted, schedule>>

\* Anything fails: the number is taken, the skill is not permitted, the process
\* dies.  Nothing of the post is left, not even what the provider charged for it.
Abort(p) ==
    /\ post[p] # NotPosting
    /\ post' = [post EXCEPT ![p] = NotPosting]
    /\ UNCHANGED <<message, counted, schedule>>

-----------------------------------------------------------------------------
(* The model.                                                              *)

\* What the ledger of the month says of chats.
Spent == MapThenSumSet(LAMBDA m : m.cost, message)

\* _pick: what the model names is kept if it is a skill that reads.
Pick(p) == {chosen \in SUBSET ReadSkills(p) : Cardinality(chosen) <= MaxReads}

\* The plan comes back and its skills are run, each with a task of its own.
Plan(p) ==
    /\ post[p].phase = "asking" /\ Spent < Budget
    /\ \E chosen \in Pick(p) : \E blocked \in SUBSET chosen :
          post' = [post EXCEPT ![p].phase = "replying", ![p].cost = 1,
                      ![p].tasks = {[skill |-> s, by |-> "model",
                                     status |-> IF s \in blocked THEN "blocked" ELSE "completed"]
                                       : s \in chosen}]
    /\ UNCHANGED <<message, counted, schedule>>

\* No skill, and a question back: the plan is the answer.
Clarify(p) ==
    /\ post[p].phase = "asking" /\ Spent < Budget
    /\ post' = [post EXCEPT ![p].phase = "answered", ![p].cost = 1]
    /\ UNCHANGED <<message, counted, schedule>>

Reply(p) ==
    /\ post[p].phase = "replying"
    /\ post' = [post EXCEPT ![p].phase = "answered", ![p].cost = 2]
    /\ UNCHANGED <<message, counted, schedule>>

Routing(p) ==
    /\ post' = [post EXCEPT ![p].phase = "routing", ![p].cost = 0]
    /\ UNCHANGED <<message, counted, schedule>>

\* _chat_key: the workspace has no key of its own, or its budget is spent.
NoModel(p) == post[p].phase = "asking" /\ Routing(p)

\* The provider refuses the key or the request, is late, or its answer cannot be
\* used: the router answers.  What was charged is forgotten, the tasks are not.
ModelFails(p) == post[p].phase \in {"asking", "replying"} /\ Routing(p)

-----------------------------------------------------------------------------
(* The router.                                                             *)

ScheduleMinScore == 3
ReadMinScore == 2

\* Mutant of Matches: a question about work asks for it.
MatchesAnyhow(p, text) ==
    {s \in Permitted[p] :
        IF Acting(s) THEN text.hit[s].action /\ text.hit[s].strong /\ text.hit[s].score >= ScheduleMinScore
        ELSE text.hit[s].score >= ReadMinScore}

\* A skill that acts needs a word that asks for work, a strong one for the skill,
\* and a text that is not a question.
Matches(p, text) ==
    {s \in Permitted[p] :
        IF Acting(s)
        THEN /\ ~text.asks /\ text.hit[s].action /\ text.hit[s].strong
             /\ text.hit[s].score >= ScheduleMinScore
        ELSE text.hit[s].score >= ReadMinScore}

Best(p, text) ==
    {s \in Matches(p, text) : \A o \in Matches(p, text) : text.hit[o].score <= text.hit[s].score}

\* The first two of the best as they are sorted: what acts goes first, and then
\* the order of the skills' keys, which may be any.
StrongAction(text, s) == Acting(s) /\ text.hit[s].strong
FirstTwo(p, text) ==
    {pair \in Best(p, text) \X Best(p, text) :
        /\ pair[1] # pair[2]
        /\ StrongAction(text, pair[2]) => StrongAction(text, pair[1])
        /\ \A x \in Best(p, text) \ {pair[1], pair[2]} :
              StrongAction(text, x) => StrongAction(text, pair[2])}

\* Of a tie only a schedule wins, over what is not a schedule.
TieBreak(first, second) ==
    IF EffectOf[first] = "schedule" /\ EffectOf[second] # "schedule" THEN {first} ELSE {}

\* route: at most one skill.
Routed(p, text) ==
    IF Cardinality(Best(p, text)) <= 1 THEN {Best(p, text)}
    ELSE {TieBreak(pair[1], pair[2]) : pair \in FirstTwo(p, text)}

\* The skill of a button, or the router's; a button the role does not permit is
\* an error (Abort).
Chosen(p) ==
    IF post[p].forced = Unrouted THEN Routed(p, post[p].text)
    ELSE {{s} : s \in {post[p].forced} \cap Permitted[p]}

\* _schedule: a text that says how often puts the routine on; any other has one run
\* queued, of a routine that is made parked if there is none, even if the run is
\* refused after that.
Schedules(text, s, status) ==
    {w \in {s} \X {"parked", "on"} :
        /\ EffectOf[s] = "schedule"
        /\ IF text.cadence THEN w[2] = "on" /\ status = "completed"
           ELSE w[2] = "parked" /\ schedule[s] = "none"}

\* A row that another transaction made or changed is waited for.
RowIsFree(p, s) ==
    \A q \in Poster \ {p} : post[q] # NotPosting => \A w \in post[q].writes : w[1] # s

\* It is run and may be refused, which is the answer then; with no skill the
\* answer lists some to choose from.
RunSkill(p) ==
    /\ post[p].phase = "routing"
    /\ \E chosen \in Chosen(p), status \in {"completed", "blocked"} :
       /\ \A s \in chosen : RowIsFree(p, s)
       /\ post' = [post EXCEPT ![p].phase = "answered",
             ![p].writes = UNION {Schedules(post[p].text, s, status) : s \in chosen},
             ![p].tasks = @ \cup {[skill |-> s, status |-> status,
                by |-> IF post[p].forced = Unrouted THEN "router" ELSE "person"] : s \in chosen}]
    /\ UNCHANGED <<message, counted, schedule>>

\* The answer is added under the next number, and the request commits.
Answer(p) ==
    /\ post[p].phase = "answered"
    /\ message' = message \cup
          {[sequence |-> post[p].at + 1, role |-> "user", of |-> p, text |-> post[p].text,
            tasks |-> {}, cost |-> 0],
           [sequence |-> post[p].at + 2, role |-> "agent", of |-> p, text |-> post[p].text,
            tasks |-> post[p].tasks, cost |-> post[p].cost]}
    /\ counted' = post[p].at + 2
    /\ schedule' = [s \in Skill |-> IF <<s, "on">> \in post[p].writes THEN "on"
                                   ELSE IF <<s, "parked">> \in post[p].writes THEN "parked"
                                   ELSE schedule[s]]
    /\ post' = [post EXCEPT ![p] = NotPosting]

TalkNext ==
    \E p \in Poster :
       \/ \E text \in Text, forced \in Skill \cup {Unrouted} : StartPost(p, text, forced)
       \/ AddQuestion(p) \/ Abort(p) \/ Plan(p) \/ Clarify(p) \/ Reply(p) \/ NoModel(p) \/ ModelFails(p)
       \/ RunSkill(p) \/ Answer(p)

TalkSpec == TalkInit /\ [][TalkNext]_talkVars
-----------------------------------------------------------------------------
(* Properties.                                                             *)

TalkTypeOK ==
    /\ message \subseteq Message
    /\ counted \in 0..MaxMessages
    /\ schedule \in [Skill -> {"none", "parked", "on"}]
    /\ post \in [Poster -> {NotPosting} \cup Posting]

\* However many people post at once, fail or give up, the conversation reads as
\* one: a question and its answer by turns, without a gap, and the session
\* counts them.
TurnsAlternate ==
    /\ {m.sequence : m \in message} = 1..counted
    /\ \A m, n \in message : m.sequence = n.sequence => m = n
    /\ \A m, n \in message :
          n.sequence = m.sequence + 1 /\ m.sequence % 2 = 1
             => m.role = "user" /\ n.role = "agent" /\ m.of = n.of

\* The agent does something for a person at most once for a post, and only if a
\* button was pressed or the text asks for it and is no question: a model that
\* answers, or answered in part and then failed, has done nothing but read.  What it
\* was asked to do once it does not go on doing: a routine is on only if a text that
\* says how often had it scheduled.
ActsOnlyWhenTold ==
    \A m \in message :
       /\ Cardinality({t \in m.tasks : Acting(t.skill)}) <= 1
       /\ \A t \in m.tasks : Acting(t.skill) =>
             \/ t.by = "person"
             \/ t.by = "router" /\ ~m.text.asks /\ m.text.hit[t.skill].action
    /\ \A s \in Skill : schedule[s] = "on" =>
          \E n \in message : /\ n.text.cadence
                             /\ \E t \in n.tasks : t.skill = s /\ t.status = "completed"
=============================================================================
