--------------------------- MODULE AgentRecording --------------------------
(* ai/: Agent.record().  A session under test prompts or streams an agent;   *)
(* the cassette answers what it has recorded for the same conversation and   *)
(* the live agent the rest.  Two sessions may share a cassette and run at    *)
(* the same time; the cassette is read before the agent is asked and written *)
(* whole after it.  The model and the tools are outside src/: each live call *)
(* of the model answers something new.                                       *)
EXTENDS Naturals, Sequences, SequencesExt, FiniteSets

CONSTANTS Sessions,     \* the recorders, in the order they were made
          Prompts,      \* what they ask
          Tools,        \* the tools of the agent
          Seeds,        \* the history a session is made with
          MaxTurns,     \* bound: turns of a session
          MaxLive       \* bound: calls of the model

VARIABLES cassette,     \* the file: what was recorded under each key
          sessions,     \* what each session remembers
          asked,        \* its call under way
          live          \* what the agent answered, to which conversation

\* A history is a sequence of messages, in which the agent says nothing that it
\* is about to answer.
ASSUME SeedsAreHistories ==
    /\ MaxLive \in Nat
    /\ \A h \in Seeds :
          /\ h \in Seq({h[i] : i \in DOMAIN h})
          /\ \A i \in 1 .. Len(h) : h[i].role = "user" \/ h[i].text \notin 1 .. MaxLive

recording == <<cassette, sessions, asked, live>>

NoCall == [key |-> <<>>, store |-> {}, turn |-> <<>>]
Human(m)    == [type |-> "human", text |-> m, tools |-> <<>>]
AI(n, ts)   == [type |-> "ai", text |-> IF ts = <<>> THEN n ELSE 0, tools |-> ts]
ToolSaid(n) == [type |-> "tool", text |-> n, tools |-> <<>>]

----------------------------------------------------------------------------
(* state.py: what a turn, the sequence of its messages, says.                *)

TextOf(turn)    == IF turn = <<>> THEN 0 ELSE Last(turn).text
ToolCalls(turn) == FlattenSeq([i \in 1 .. Len(turn) |-> turn[i].tools])
Uses(turn)      == Cardinality({i \in 1 .. Len(turn) : turn[i].type = "ai"})

(* runner.py: the live turn.  The model answers a text or asks for tools,    *)
(* each of which runs once; it is not called again with what they said.      *)
TurnMessages(m, n, ts) ==
    <<Human(m), AI(n, ts)>> \o [i \in 1 .. Len(ts) |-> ToolSaid(n)]

(* recording.py: a turn on its way into the cassette and back.               *)
EntriesFromMessages(turn) ==
    FlattenSeq([i \in 1 .. Len(turn) |-> IF turn[i].type = "human" THEN <<>> ELSE <<turn[i]>>])
EntriesOf(m, turn) == <<Human(m)>> \o EntriesFromMessages(turn)
MessagesFromTranscript(entries) == entries

History(s) == sessions[s].seed \o sessions[s].records
\* A careless form of the next definition: the message alone is the key.
KeyOfMessage(s, m) == <<<<>>, m>>
Key(s, m) == <<History(s), m>>
Recorded(store, key) == \E r \in store : r.key = key
Found(store, key)    == (CHOOSE r \in store : r.key = key).turn

----------------------------------------------------------------------------
RecordingInit ==
    /\ cassette = {}
    /\ sessions \in [Sessions -> {[seed |-> s, records |-> <<>>, tokens |-> 0,
                                   trajectory |-> <<>>, turns |-> <<>>] : s \in Seeds}]
    /\ asked = [s \in Sessions |-> NoCall]
    /\ live = {}

RememberTurn(s, m, turn) ==
    <<[role |-> "user", text |-> m, tools |-> <<>>],
      [role |-> "assistant", text |-> TextOf(turn), tools |-> ToolCalls(turn)]>>
Remembered(s, m, turn) ==
    [sessions EXCEPT ![s].tokens = @ + Uses(turn),
                     ![s].trajectory = @ \o ToolCalls(turn),
                     ![s].records = @ \o RememberTurn(s, m, turn),
                     ![s].turns = Append(@, <<m, turn>>)]

\* prompt() and stream(), answered from the cassette.
Replay(s, m) ==
    /\ asked[s] = NoCall /\ Len(sessions[s].turns) < MaxTurns
    /\ Recorded(cassette, Key(s, m))
    /\ sessions' = Remembered(s, m, MessagesFromTranscript(Found(cassette, Key(s, m))))
    /\ UNCHANGED <<cassette, asked, live>>

\* Not recorded: the agent is asked, and the session awaits it.
Ask(s, m) ==
    /\ asked[s] = NoCall /\ Len(sessions[s].turns) < MaxTurns
    /\ ~Recorded(cassette, Key(s, m)) /\ Cardinality(live) < MaxLive
    /\ \E ts \in {<<>>} \cup {<<t>> : t \in Tools} :
          LET turn == TurnMessages(m, Cardinality(live) + 1, ts) IN
          /\ asked' = [asked EXCEPT ![s] = [key |-> Key(s, m), store |-> cassette,
                                            turn |-> turn]]
          /\ live' = live \cup {[seed |-> sessions[s].seed, before |-> sessions[s].turns,
                                 message |-> m, turn |-> turn]}
    /\ UNCHANGED <<cassette, sessions>>

\* The answer arrives: the cassette as it was read, with this turn, is written
\* over what is there, and the session remembers the turn.
Answered(s) ==
    LET c == asked[s]
        m == c.turn[1].text
        saved == [key |-> c.key, turn |-> EntriesOf(m, c.turn)]
    IN  /\ c # NoCall
        /\ cassette' = {r \in c.store : r.key # c.key} \cup {saved}
        /\ sessions' = Remembered(s, m, c.turn)
        /\ asked' = [asked EXCEPT ![s] = NoCall]
        /\ UNCHANGED live

\* The model or a tool raises: nothing is written or remembered.
Raises(s) == /\ asked[s] # NoCall
             /\ asked' = [asked EXCEPT ![s] = NoCall]
             /\ UNCHANGED <<cassette, sessions, live>>

RecordingNext == \E s \in Sessions :
           \/ \E m \in Prompts : Replay(s, m) \/ Ask(s, m)
           \/ Answered(s) \/ Raises(s)
RecordingSpec == RecordingInit /\ [][RecordingNext]_recording

----------------------------------------------------------------------------
\* Every turn a session was given, live or replayed, is one the agent gave to
\* exactly that conversation: the same seed and the same earlier turns, tools
\* and answers included (testing.py AgentRecordFake).
AnswersItsConversation ==
    \A s \in Sessions : \A i \in 1 .. Len(sessions[s].turns) :
        \E l \in live : /\ l.message = sessions[s].turns[i][1]
                        /\ l.turn = sessions[s].turns[i][2]
                        /\ l.seed = sessions[s].seed
                        /\ l.before = SubSeq(sessions[s].turns, 1, i - 1)
=============================================================================
