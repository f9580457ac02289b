---------------------------- MODULE AgentMemory -----------------------------
(***************************************************************************)
(* The memory of one agent (youmi/memory): the three strategies that       *)
(* decide what is remembered (strategies/full.py, summary.py, lstm.py),    *)
(* the sessions MemoryManager keeps (memory.py) in a SQLite database or a  *)
(* JSON file (backends/), and the ContextCompactor that cuts a prompt down *)
(* to the token budget (compaction.py).                                    *)
(* A message is the number it arrived under, a summary is the set of       *)
(* messages it speaks of.  on_message may be called by two coroutines, the *)
(* agent's own run and a note from the background; each suspends while the *)
(* model classifies a message or writes a summary.                         *)
(***************************************************************************)
EXTENDS Naturals, Sequences, FiniteSets, SequencesExt

CONSTANTS Buffer,      \* buffer_size of the summary strategy
          Interval,    \* summary_interval
          MaxTotal,    \* max_messages, also the caps of the lstm strategy
          KeepRecent,  \* keep_recent of the compactor
          Threshold    \* messages that reach max_context_tokens * reserve_ratio

ASSUME MemoryAssumption ==
    /\ Buffer \in Nat \ {0} /\ Interval \in Nat \ {0} /\ MaxTotal \in Nat \ {0}
    /\ KeepRecent \in Nat \ {0} /\ Threshold \in Nat \ {0}

Callers == {"run", "note"}

VARIABLES
    strategy,   \* "full", "summary" or "lstm"
    hasModel,   \* an llm_call was injected
    backend,    \* "none", "sqlite" or "file"
    arrived,    \* messages given to on_message so far
    messages,   \* _messages, or _short_term
    long,       \* _long_term
    summary,    \* the messages _summary speaks of
    asking,     \* what each caller waits for the model for
    wiped,      \* history: messages that had arrived when the list was last emptied
    session,    \* _current_session_id, 0 for none
    lastId,     \* session ids given out
    disk,       \* the stored sessions, the one updated last at the end
    torn,       \* the session file was opened for writing and not yet written
    before,     \* conversation messages of earlier runs
    said,       \* conversation messages so far, the system prompt not counted
    digest      \* the messages the compactor's _compaction_summary speaks of

configVars   == <<strategy, hasModel, backend>>
strategyVars == <<arrived, messages, long, summary, asking, wiped>>
sessionVars  == <<session, lastId, disk, torn>>
talkVars     == <<before, said, digest>>
memoryVars   == <<configVars, strategyVars, sessionVars, talkVars>>

Elems(s) == {s[i] : i \in 1..Len(s)}
Newest(s, n) == SubSeq(s, IF Len(s) > n THEN Len(s) - n + 1 ELSE 1, Len(s))
AllBut(s, n) == SubSeq(s, 1, IF Len(s) > n THEN Len(s) - n ELSE 0)

NotAsking == [for |-> "nothing", cover |-> {}, upto |-> 0]
Idle(c) == asking[c] = NotAsking

MemoryInit ==
    /\ arrived = 0 /\ messages = <<>> /\ long = <<>> /\ summary = {} /\ wiped = 0
    /\ asking = [c \in Callers |-> NotAsking]
    /\ session = 0 /\ lastId = 0 /\ disk = <<>> /\ torn = FALSE
    /\ before = 0 /\ said = 0 /\ digest = {}
-----------------------------------------------------------------------------
(* Strategies *)

Ask(c, for, cover) == asking' = [asking EXCEPT ![c] = [for |-> for, cover |-> cover,
                                                       upto |-> arrived']]

\* FullMemoryStrategy.on_message: the last max_messages messages.
RememberAll(c) ==
    /\ messages' = Newest(Append(messages, arrived'), MaxTotal)
    /\ UNCHANGED <<long, summary, asking>>

\* SummaryMemoryStrategy.on_message: from summary_interval messages on, all but
\* the buffer is given to the model together with the summary so far.
RememberSummarised(c) ==
    LET kept == Newest(Append(messages, arrived'), MaxTotal) IN
    /\ messages' = kept
    /\ IF hasModel /\ Len(kept) >= Interval /\ Len(kept) > Buffer
       THEN Ask(c, "summary", Elems(AllBut(kept, Buffer)) \cup summary)
       ELSE UNCHANGED asking
    /\ UNCHANGED <<long, summary>>

File(m, isLong) ==
    /\ long' = IF isLong THEN Newest(Append(long, m), MaxTotal) ELSE long
    /\ messages' = IF isLong THEN messages ELSE Newest(Append(messages, m), MaxTotal)

\* LSTMMemoryStrategy.on_message: the message is stored once it is classified,
\* by the model or, without one, by its keywords.
RememberClassified(c) ==
    /\ IF hasModel
       THEN Ask(c, "class", {arrived'}) /\ UNCHANGED <<messages, long>>
       ELSE (\E isLong \in BOOLEAN : File(arrived', isLong)) /\ UNCHANGED asking
    /\ UNCHANGED summary

\* MemoryManager.on_message.
OnMessage(c) ==
    /\ Idle(c)
    /\ arrived' = arrived + 1
    /\ CASE strategy = "full"    -> RememberAll(c)
         [] strategy = "summary" -> RememberSummarised(c)
         [] strategy = "lstm"    -> RememberClassified(c)
    /\ UNCHANGED <<configVars, wiped, sessionVars, talkVars>>

\* _classify returns; when the model failed the keywords decide.
Classified(c) ==
    /\ asking[c].for = "class"
    /\ \E m \in asking[c].cover, isLong \in BOOLEAN : File(m, isLong)
    /\ UNCHANGED <<summary, wiped>>

\* Mutant: the list is cut back to the buffer that was taken before the model was asked.
Summarised_Stale(c) ==
    /\ asking[c].for = "summary"
    /\ summary' \in {asking[c].cover, summary}
    /\ messages' = SelectSeq(Newest(messages, Buffer), LAMBDA m : m <= asking[c].upto)
    /\ UNCHANGED <<long, wiped>>

\* _generate_summary returns, with the summary or an exception; either way the
\* list is cut back to the newest messages, some of which came meanwhile.
Summarised(c) ==
    /\ asking[c].for = "summary"
    /\ summary' \in {asking[c].cover, summary}
    /\ messages' = Newest(messages, Buffer)
    /\ UNCHANGED <<long, wiped>>

\* ... and with force, at the end of a session, it is emptied.
SummarisedAll(c) ==
    /\ asking[c].for = "all"
    /\ summary' \in {asking[c].cover, summary}
    /\ messages' = <<>> /\ wiped' = arrived
    /\ UNCHANGED long

ModelReturns(c) ==
    /\ Classified(c) \/ Summarised(c) \/ SummarisedAll(c)
    /\ asking' = [asking EXCEPT ![c] = NotAsking]
    /\ UNCHANGED <<configVars, arrived, sessionVars, talkVars>>

\* on_session_end of the strategy: a last summary, or the short term is cleared.
EndStrategy ==
    /\ Idle("run")
    /\ CASE strategy = "full" -> UNCHANGED <<messages, asking, wiped>>
         [] strategy = "lstm" -> messages' = <<>> /\ wiped' = arrived /\ UNCHANGED asking
         [] strategy = "summary" ->
              /\ IF hasModel /\ messages # <<>>
                 THEN asking' = [asking EXCEPT !["run"] =
                                  [for |-> "all", cover |-> Elems(messages) \cup summary,
                                   upto |-> arrived]]
                 ELSE UNCHANGED asking
              /\ UNCHANGED <<messages, wiped>>
    /\ UNCHANGED <<configVars, arrived, long, summary, sessionVars, talkVars>>

\* get_context: what is remembered from before, then the newest messages.
Context ==
    [old |-> summary \cup Elems(long),
     recent |-> IF strategy = "summary" THEN Newest(messages, Buffer) ELSE messages]

\* The memory of a new process: the strategy keeps nothing on disk.
Forget ==
    /\ messages' = <<>> /\ long' = <<>> /\ summary' = {} /\ wiped' = arrived
    /\ asking' = [c \in Callers |-> NotAsking]
    /\ session' = 0 /\ digest' = {} /\ before' = said
-----------------------------------------------------------------------------
(* Sessions *)

\* start_session: a fresh id, only when the agent persists its sessions.
StartSession ==
    IF backend = "none" THEN UNCHANGED <<session, lastId>>
    ELSE session' = lastId + 1 /\ lastId' = lastId + 1

\* What save_session stores: the session's messages are replaced as a whole and
\* it becomes the one updated last.
Stored(context) ==
    LET row    == {i \in 1..Len(disk) : disk[i].id = session}
        others == IF row = {} THEN disk ELSE RemoveAt(disk, CHOOSE i \in row : TRUE)
    IN  Append(others, [id |-> session, context |-> context])

\* _save_current_session with SQLiteBackend: one transaction.
SaveRow ==
    /\ backend = "sqlite" /\ session # 0
    /\ disk' = Stored(Context)
    /\ UNCHANGED <<configVars, strategyVars, session, lastId, torn, talkVars>>

\* ... with FileBackend: the agent's file is read and then opened for writing,
\* which empties it,
OpenFile ==
    /\ backend = "file" /\ session # 0 /\ ~torn
    /\ torn' = TRUE
    /\ UNCHANGED <<configVars, strategyVars, session, lastId, disk, talkVars>>

\* ... and written as a whole.
WriteFile ==
    /\ backend = "file" /\ torn
    /\ disk' = Stored(Context) /\ torn' = FALSE
    /\ UNCHANGED <<configVars, strategyVars, session, lastId, talkVars>>

\* get_latest_session; with FileBackend, the session updated last in the agent's file.
Latest == disk[Len(disk)]

\* load_messages finds nothing in the session.
Empty(s) == s.context.old = {} /\ s.context.recent = <<>>

\* restore_session without an id: the latest session, if it has messages.  They
\* are returned to initialize(), which only logs how many there are.
RestoreSession ==
    session' = IF backend = "none" \/ disk = <<>> THEN session
               ELSE IF Empty(Latest) THEN session ELSE Latest.id
-----------------------------------------------------------------------------
(* The compactor *)

\* estimate_messages_tokens, with the system message; every message weighs the same.
Tokens == said - before + 1

\* needs_compaction, once the threshold is reached.
NeedsCompaction == Tokens >= Threshold

\* Mutant: one message too many is cut off.
ToCompact_OffByOne ==
    {m \in before + 1 .. said : said - m >= KeepRecent + 1}

\* The messages maybe_compact takes out of the prompt: all but the newest
\* keep_recent ones.
ToCompact == {m \in before + 1 .. said : said - m >= KeepRecent}

\* maybe_compact, for the prompt of one iteration; the conversation itself stays
\* as it is.  The new summary builds on the one before, which outlives the run;
\* without a model, or when it fails, the old messages are just left out.
Compact ==
    /\ \/ NeedsCompaction /\ ToCompact # {} /\ hasModel /\ digest' = digest \cup ToCompact
       \/ UNCHANGED digest
    /\ UNCHANGED <<configVars, strategyVars, sessionVars, before, said>>
=============================================================================
