-------------------------------- MODULE Chats --------------------------------
(***************************************************************************)
(* Chats and what is kept of them: the tables chats, chat_sources,         *)
(* messages and usage_events (core/store/pgvector_store.py, migrations     *)
(* 0001 and 0007), the edits of a chat's scope (core/chat/scope.py), the   *)
(* deletion of a channel with its sweep of orphaned chats, and the turns   *)
(* of core/chat/answer.py, which stream a billed answer between the        *)
(* question's row and the rows of the reply and of its cost.               *)
(*                                                                         *)
(* Every store call is one Postgres transaction and one action, except     *)
(* delete_channel: its statements read and write at different moments of a *)
(* READ COMMITTED transaction, so it is three.  A writer that would wait   *)
(* for a row lock is not enabled while the lock is held.                   *)
(***************************************************************************)
CONSTANTS
    Channels,    \* rows of table channels, all there at the start
    NoChannel,   \* SQL NULL, the Neutral voice
    Chats,       \* identifiers of chats
    NoChat,      \* SQL NULL, a one-shot question of ask()
    Turns,       \* questions asked, each once
    Deleters     \* UI sessions that delete a channel

ASSUME NoChannelAssumption == NoChannel \notin Channels
ASSUME NoChatAssumption == NoChat \notin Chats

VARIABLES
    channels,    \* the channels that still have a row
    chats,       \* [Chats -> Chat]
    messages,    \* [Chats -> set of <<role, turn>>]
    usage,       \* the rows of usage_events
    deleter,     \* [Deleters -> the progress of their delete_channel]
    turn         \* [Turns -> the progress of their answer() or ask()]

vars == <<channels, chats, messages, usage, deleter, turn>>

\* sources are the chat's chat_sources rows.
Chat == [status : {"none", "live", "gone"}, sources : SUBSET Channels,
         voice : Channels \cup {NoChannel}]
UsageEvent == [turn : Turns, channel : Channels \cup {NoChannel}, chat : Chats \cup {NoChat},
               sources : SUBSET Channels]
DeletePcs == {"idle", "collected", "uncommitted"}
TurnPcs == {"idle", "resolve", "ask", "ready", "streaming", "reply", "meter",
            "done", "lost", "failed", "refused", "abandoned"}

TypeOK ==
    /\ channels \subseteq Channels
    /\ chats \in [Chats -> Chat]
    /\ messages \in [Chats -> SUBSET ({"user", "assistant"} \X Turns)]
    /\ usage \subseteq UsageEvent
    /\ deleter \in [Deleters -> [pc : DeletePcs, channel : Channels \cup {NoChannel},
                                 affected : SUBSET Chats, doomed : SUBSET Chats]]
    /\ \A d \in Deleters : deleter[d].pc # "idle" => deleter[d].channel \in Channels
    /\ turn \in [Turns -> [pc : TurnPcs, chat : Chats \cup {NoChat}, sources : SUBSET Channels,
                           voice : Channels \cup {NoChannel}, payer : Channels \cup {NoChannel}]]

Live(k) == k \in Chats /\ chats[k].status = "live"

\* Rows an uncommitted delete_channel has deleted: whoever references or
\* writes them waits for its commit.
Uncommitted == {d \in Deleters : deleter[d].pc = "uncommitted"}
DeletedChannels == {deleter[d].channel : d \in Uncommitted}
DeletedChats == UNION {deleter[d].doomed : d \in Uncommitted}

Scopes == {s \in [sources : (SUBSET Channels) \ {{}}, voice : Channels \cup {NoChannel}] :
              s.voice \in s.sources \cup {NoChannel}}

Init ==
    /\ channels = Channels
    /\ chats = [k \in Chats |-> [status |-> "none", sources |-> {}, voice |-> NoChannel]]
    /\ messages = [k \in Chats |-> {}]
    /\ usage = {}
    /\ deleter = [d \in Deleters |->
            [pc |-> "idle", channel |-> NoChannel, affected |-> {}, doomed |-> {}]]
    /\ turn = [t \in Turns |-> [pc |-> "idle", chat |-> NoChat, sources |-> {},
                                voice |-> NoChannel, payer |-> NoChannel]]

-----------------------------------------------------------------------------
(* The scope of a chat.  build_scope and the sidebar let no empty scope and *)
(* no voice outside it through; a source deleted since the page was drawn   *)
(* violates a foreign key, which leaves everything as it was.               *)

ScopeHolds(s) == s.sources \subseteq channels \ DeletedChannels

Scoped(s) == [status |-> "live", sources |-> s.sources, voice |-> s.voice]

CreateChat(k, s) ==
    /\ chats[k].status = "none"
    /\ ScopeHolds(s)
    /\ chats' = [chats EXCEPT ![k] = Scoped(s)]
    /\ UNCHANGED <<channels, messages, usage, deleter, turn>>

\* An open session may hold any scope; UPDATE, DELETE and INSERTs are one
\* transaction, which waits for the locks on the chat and its old sources.
SetChatScope(k, s) ==
    /\ Live(k)
    /\ k \notin DeletedChats
    /\ chats[k].sources \cap DeletedChannels = {}
    /\ ScopeHolds(s)
    /\ chats' = [chats EXCEPT ![k] = Scoped(s)]
    /\ UNCHANGED <<channels, messages, usage, deleter, turn>>

-----------------------------------------------------------------------------
(* delete_channel                                                           *)

\* SELECT chat_id FROM chat_sources WHERE channel_id = c
CollectChats(d, c) ==
    /\ deleter[d].pc = "idle"
    /\ c \in channels
    /\ deleter' = [deleter EXCEPT ![d] = [pc |-> "collected", channel |-> c,
                       affected |-> {k \in Chats : c \in chats[k].sources}, doomed |-> {}]]
    /\ UNCHANGED <<channels, chats, messages, usage, turn>>

\* Wrong variant of Orphans: the sweep without NOT EXISTS.
OrphansUnchecked(d) == {k \in deleter[d].affected : Live(k)}

\* The chats DELETE FROM chats ... NOT EXISTS removes: it sees this
\* transaction's own cascade and what others have committed.
Orphans(d) ==
    {k \in deleter[d].affected : Live(k) /\ chats[k].sources \subseteq {deleter[d].channel}}

\* DELETE FROM channels with its cascade, then the sweep.
DeleteAndSweep(d) ==
    /\ deleter[d].pc = "collected"
    /\ deleter[d].channel \notin DeletedChannels
    /\ Orphans(d) \cap DeletedChats = {}
    /\ deleter' = [deleter EXCEPT ![d].pc = "uncommitted", ![d].doomed = Orphans(d)]
    /\ UNCHANGED <<channels, chats, messages, usage, turn>>

\* Wrong variant of Unvoiced: chats.voice_channel_id without ON DELETE SET NULL.
VoiceKept(chat, c) == chat.voice

\* chats.voice_channel_id REFERENCES channels ON DELETE SET NULL
Unvoiced(chat, c) == IF chat.voice = c THEN NoChannel ELSE chat.voice

Nulled(id, ids, null) == IF id \in ids THEN null ELSE id

\* Wrong variant of Detached: usage_events cascades with its chat.
CascadedUsage(c, K) ==
    {[turn |-> u.turn, channel |-> Nulled(u.channel, {c}, NoChannel), chat |-> u.chat,
      sources |-> u.sources] : u \in {w \in usage : w.chat \notin K}}

\* Wrong variant of Detached: the two nulls swapped.
SwappedNulls(c, K) ==
    {[turn |-> u.turn, channel |-> Nulled(u.channel, {c}, NoChat),
      chat |-> Nulled(u.chat, K, NoChannel), sources |-> u.sources] : u \in usage}

\* usage_events.channel_id and chat_id, ON DELETE SET NULL; source_channel_ids is plain JSON.
Detached(c, K) ==
    {[turn |-> u.turn, channel |-> Nulled(u.channel, {c}, NoChannel),
      chat |-> Nulled(u.chat, K, NoChat), sources |-> u.sources] : u \in usage}

CommitDelete(d) ==
    LET c == deleter[d].channel
        K == deleter[d].doomed
    IN  /\ deleter[d].pc = "uncommitted"
        /\ channels' = channels \ {c}
        /\ chats' = [k \in Chats |->
                IF k \in K THEN [status |-> "gone", sources |-> {}, voice |-> NoChannel]
                ELSE [status |-> chats[k].status, sources |-> chats[k].sources \ {c},
                      voice |-> Unvoiced(chats[k], c)]]
        /\ messages' = [k \in Chats |-> IF k \in K THEN {} ELSE messages[k]]
        /\ usage' = Detached(c, K)
        /\ deleter' = [deleter EXCEPT ![d] =
                [pc |-> "idle", channel |-> NoChannel, affected |-> {}, doomed |-> {}]]
        /\ UNCHANGED turn

\* The connection is lost, or a deadlock with set_chat_scope is broken here.
RollBack(d) ==
    /\ deleter[d].pc # "idle"
    /\ deleter' = [deleter EXCEPT ![d] =
            [pc |-> "idle", channel |-> NoChannel, affected |-> {}, doomed |-> {}]]
    /\ UNCHANGED <<channels, chats, messages, usage, turn>>

-----------------------------------------------------------------------------
(* A turn                                                                   *)

Goes(t, pc) == turn' = [turn EXCEPT ![t].pc = pc]

\* answer(): get_chat
OpenTurn(t, k) ==
    /\ turn[t].pc = "idle"
    /\ Live(k)
    /\ turn' = [turn EXCEPT ![t] = [pc |-> "resolve", chat |-> k, sources |-> chats[k].sources,
                                    voice |-> chats[k].voice, payer |-> NoChannel]]
    /\ UNCHANGED <<channels, chats, messages, usage, deleter>>

\* ask(): the scope comes with the question.
OpenOneShot(t, s) ==
    /\ turn[t].pc = "idle"
    /\ s.sources \subseteq channels
    /\ turn' = [turn EXCEPT ![t] = [pc |-> "resolve", chat |-> NoChat, sources |-> s.sources,
                                    voice |-> s.voice, payer |-> NoChannel]]
    /\ UNCHANGED <<channels, chats, messages, usage, deleter>>

\* _prepare_turn.  coerce_voice drops the voice when its persona is disabled,
\* which is not modelled; payer is the usage_channel_id of _persist, computed
\* from the same values: the voice, else the first source.
Prepare(t) ==
    /\ turn[t].pc = "resolve"
    /\ turn[t].sources \subseteq channels
    /\ \E v \in {NoChannel} \cup ({turn[t].voice} \cap turn[t].sources) :
       \E p \in IF v # NoChannel THEN {v}
                ELSE IF turn[t].sources = {} THEN {NoChannel} ELSE turn[t].sources :
            turn' = [turn EXCEPT ![t] = [pc |-> IF turn[t].chat = NoChat THEN "ready" ELSE "ask",
                                         chat |-> turn[t].chat, sources |-> turn[t].sources,
                                         voice |-> v, payer |-> p]]
    /\ UNCHANGED <<channels, chats, messages, usage, deleter>>

\* A source is gone (ChannelNotFoundError), or the question cannot be embedded.
Refuse(t) ==
    /\ turn[t].pc = "resolve"
    /\ Goes(t, "refused")
    /\ UNCHANGED <<channels, chats, messages, usage, deleter>>

\* add_message, whose chat_id must reference a chat.
AddMessage(t, role, then, otherwise) ==
    LET k == turn[t].chat
    IN  /\ k \notin DeletedChats
        /\ IF Live(k)
           THEN messages' = [messages EXCEPT ![k] = @ \cup {<<role, t>>}] /\ Goes(t, then)
           ELSE UNCHANGED messages /\ Goes(t, otherwise)
        /\ UNCHANGED <<channels, chats, usage, deleter>>

AddQuestion(t) == turn[t].pc = "ask" /\ AddMessage(t, "user", "ready", "refused")

\* The first next() of the stream calls the provider, which bills from here on.
StartStream(t) ==
    /\ turn[t].pc = "ready"
    /\ Goes(t, "streaming")
    /\ UNCHANGED <<channels, chats, messages, usage, deleter>>

\* The stream is dropped before its first next().
Abandon(t) ==
    /\ turn[t].pc = "ready"
    /\ Goes(t, "abandoned")
    /\ UNCHANGED <<channels, chats, messages, usage, deleter>>

\* Wrong variant of ProviderFails: _persist in a finally clause.
PersistAnyway(t) ==
    /\ turn[t].pc = "streaming"
    /\ turn[t].chat # NoChat
    /\ AddMessage(t, "assistant", "failed", "failed")

\* An exception of the provider ends the stream; nothing is persisted.
ProviderFails(t) ==
    /\ turn[t].pc = "streaming"
    /\ Goes(t, "failed")
    /\ UNCHANGED <<channels, chats, messages, usage, deleter>>

\* _persist is entered; answer() stores the reply first, ask() has none.
Persist(t) ==
    /\ turn[t].pc = "streaming"
    /\ Goes(t, IF turn[t].chat = NoChat THEN "meter" ELSE "reply")
    /\ UNCHANGED <<channels, chats, messages, usage, deleter>>

\* The provider's stream ends.
FinishStream(t) == Persist(t)

\* Wrong variant of HangUp: GeneratorExit is not caught.
HangUpUnnoticed(t) ==
    /\ turn[t].pc = "streaming"
    /\ Goes(t, "done")
    /\ UNCHANGED <<channels, chats, messages, usage, deleter>>

\* The consumer closes the stream at a yield: GeneratorExit.
HangUp(t) == Persist(t)

AddReply(t) == turn[t].pc = "reply" /\ AddMessage(t, "assistant", "meter", "lost")

\* record_usage_event, whose channel_id and chat_id must reference rows.
RecordUsage(t) ==
    LET u == [turn |-> t, channel |-> turn[t].payer, chat |-> turn[t].chat,
              sources |-> turn[t].sources]
    IN  /\ turn[t].pc = "meter"
        /\ u.channel \notin DeletedChannels
        /\ u.chat \notin DeletedChats
        /\ IF u.channel \in channels \cup {NoChannel} /\ (u.chat = NoChat \/ Live(u.chat))
           THEN usage' = usage \cup {u} /\ Goes(t, "done")
           ELSE UNCHANGED usage /\ Goes(t, "lost")
        /\ UNCHANGED <<channels, chats, messages, deleter>>

-----------------------------------------------------------------------------

DeleteStep(d) ==
    \/ \E c \in Channels : CollectChats(d, c)
    \/ DeleteAndSweep(d)
    \/ CommitDelete(d)
    \/ RollBack(d)

TurnStep(t) ==
    \/ \E k \in Chats : OpenTurn(t, k)
    \/ \E s \in Scopes : OpenOneShot(t, s)
    \/ Prepare(t)
    \/ Refuse(t)
    \/ AddQuestion(t)
    \/ StartStream(t)
    \/ Abandon(t)
    \/ ProviderFails(t)
    \/ FinishStream(t)
    \/ HangUp(t)
    \/ AddReply(t)
    \/ RecordUsage(t)

Next ==
    \/ \E k \in Chats, s \in Scopes : CreateChat(k, s) \/ SetChatScope(k, s)
    \/ \E d \in Deleters : DeleteStep(d)
    \/ \E t \in Turns : TurnStep(t)

Spec == Init /\ [][Next]_vars

-----------------------------------------------------------------------------

\* A chat never speaks as a channel outside its own sources, although voice
\* and sources are two tables that edits and deletions write (README.md, "Voice").
VoiceIsASource ==
    \A k \in Chats : Live(k) /\ chats[k].voice # NoChannel => chats[k].voice \in chats[k].sources

\* A chat, and what was said in it, goes only with the last of its sources: a
\* chat widened while the deletion was under way is spared.
SweepSparesOthers ==
    [][\A k \in Chats :
            \/ messages[k] \subseteq messages'[k] /\ (Live(k) => Live(k)')
            \/ \E c \in Channels \ channels' : chats[k].sources \subseteq {c}]_vars

\* usage_events rows outlive the chats and channels they are about, with the
\* scope they were charged for (migration 0007's comment).
UsageOutlivesDeletion ==
    [][\A u \in usage : \E w \in usage' : w.turn = u.turn /\ w.sources = u.sources]_vars

\* A turn the provider broke leaves no reply that passes for a real one.
FailedTurnLeavesNoReply ==
    \A t \in Turns, k \in Chats : turn[t].pc = "failed" => <<"assistant", t>> \notin messages[k]

Metered(t) == \E u \in usage : u.turn = t

\* A turn that was streamed to its end or to a hang-up has a usage row, unless
\* the channel to charge or the chat was deleted under it.
UnmeteredOnlyByDeletion ==
    \A t \in Turns : turn[t].pc \in {"done", "lost"} =>
        \/ Metered(t)
        \/ turn[t].payer # NoChannel /\ turn[t].payer \notin channels
        \/ turn[t].chat # NoChat /\ ~Live(turn[t].chat)

\* A chat left with zero sources is removed with its last source
\* (pgvector_store.py:651-653).
NoSourcelessChat == \A k \in Chats : Live(k) => chats[k].sources # {}
=============================================================================
