-------------------------------- MODULE Grounding --------------------------------
(***************************************************************************)
(* What a chat turn does with the chunks: the search of each source        *)
(* (PgVectorStore.search, its two queries and their fusion in              *)
(* core/search/hybrid.py), the prompt with its numbered blocks             *)
(* (core/chat/prompt.py), the answer of the model, and the receipts that   *)
(* core/chat/citations.py makes of the [n] it wrote.  One channel gets its *)
(* chunks from the talk of Transcript, the others have theirs.             *)
(***************************************************************************)
EXTENDS Transcript

CONSTANTS
    Channels,
    Fresh,           \* the channel whose video Transcript ingests
    Loaded,          \* [Channels -> Nat]: the chunks there are at first
    TopK, MinBlocksPerSource, RetrievalCandidates, RrfK,
    HistoryWindow,
    MaxTurns, MaxSources, MaxChunks,   \* bounds: turns of the chat, sources of one
                                       \* scope, chunks of a talk that is asked about
    Nothing          \* model value: no voice, no chunk, no range

ASSUME ChannelAssumption ==
    /\ Fresh \in Channels /\ Loaded \in [Channels -> Nat] /\ Loaded[Fresh] = 0
    /\ IsFiniteSet(Channels)
    /\ Nothing \notin Channels /\ Nothing \notin Channels \X Nat
ASSUME NumberAssumption ==
    /\ {TopK, MinBlocksPerSource, RetrievalCandidates} \subseteq Nat \ {0}
    /\ {RrfK, HistoryWindow, MaxTurns, MaxSources, MaxChunks} \subseteq Nat
\* The damping constant is 60, and a query returns no more than 50 candidates.
ASSUME DampingAssumption == RetrievalCandidates <= RrfK

VARIABLES
    library,    \* [Channels -> how many chunks it has]
    turn,       \* the local variables of _prepare_turn and answer
    messages,   \* of the chat: who wrote it, and the [n] in it with what the writer meant
    receipts    \* the citations parsed out of the last answer

vars == <<transcriptVars, library, turn, messages, receipts>>
turnVars == <<turn, messages, receipts>>

ChunksOf(c) == {<<c, i>> : i \in 1..library[c]}
Rankings(S) == {r \in BoundedSeq(S, Cardinality(S)) : IsInjective(r)}
Take(s, k) == SubSeq(s, 1, IF k < Len(s) THEN k ELSE Len(s))

NoTurn == [pc |-> "idle", sources |-> <<>>, voice |-> Nothing, groups |-> <<>>,
           dense |-> <<>>, lexical |-> <<>>, candidates |-> {}]

Init ==
    /\ TranscriptInit
    /\ library = Loaded
    /\ turn = NoTurn
    /\ messages = <<>>
    /\ receipts = {}

\* The bundle is loaded; the words were the builder's and are gone with it.
LoadVideo ==
    /\ stage = "ready" /\ Len(chunks) <= MaxChunks
    /\ library' = [library EXCEPT ![Fresh] = Len(chunks)]
    /\ stage' = "stored"
    /\ said' = <<>> /\ timed' = <<>> /\ start' = 1 /\ chunks' = <<>>
    /\ UNCHANGED turnVars

-----------------------------------------------------------------------------
\* _prepare_turn: the scope, and the search of each source.

\* A voice whose persona is off, or that is no source any more, is none; the
\* voice comes first among the sources.
OpenTurn ==
    /\ stage = "stored"
    /\ turn.pc \in {"idle", "answered"}
    /\ Len(SelectSeq(messages, LAMBDA m : m.role = "user")) < MaxTurns
    /\ \E k \in 1..MaxSources : \E S \in kSubset(k, Channels) : \E voice \in S \cup {Nothing} :
       \E others \in SetToSeqs(S \ {voice}) :
        turn' = [NoTurn EXCEPT
            !.pc = "search", !.voice = voice,
            !.sources = IF voice = Nothing THEN others ELSE <<voice>> \o others]
    /\ receipts' = {}
    /\ UNCHANGED <<transcriptVars, library, messages>>

PerSource == LET share == TopK \div Len(turn.sources)
             IN IF share < MinBlocksPerSource THEN MinBlocksPerSource ELSE share
Searched == turn.sources[Len(turn.groups) + 1]

\* groups.append: the last source searched, the probe is next.
Grouped(results) ==
    [turn EXCEPT !.groups = Append(@, [channel |-> Searched, results |-> Take(results, PerSource)]),
                 !.dense = <<>>, !.lexical = <<>>,
                 !.pc = IF Len(turn.groups) + 1 = Len(turn.sources) THEN "probe" ELSE "search"]

\* The question may have no word to search for, or the mode be dense: then this
\* query, with the limit of the caller, is all.
DenseQuery ==
    /\ turn.pc = "search"
    /\ \E dense \in SetToSeqs(ChunksOf(Searched)) :
        \/ turn' = Grouped(dense)
        \/ turn' = [turn EXCEPT !.dense = Take(dense, RetrievalCandidates), !.pc = "lexical"]
    /\ UNCHANGED <<transcriptVars, library, messages, receipts>>

LexicalQuery ==
    /\ turn.pc = "lexical"
    /\ \E lexical \in Rankings(ChunksOf(Searched)) :
        turn' = [turn EXCEPT !.lexical = Take(lexical, RetrievalCandidates), !.pc = "fuse"]
    /\ UNCHANGED <<transcriptVars, library, messages, receipts>>

Product == FoldLeft(LAMBDA a, b : a * b, 1, [r \in 1..RetrievalCandidates |-> RrfK + r])

\* Wrong variant of Score: the rank in the last list replaces the score so far.
ScoreReplaced(lists, x) ==
    FoldLeft(LAMBDA n, l : IF Contains(l, x) THEN Product \div (RrfK + SelectInSeq(l, LAMBDA y : y = x))
                           ELSE n, 0, lists)

\* 1 / (k + rank) summed over the lists, as a multiple of 1 / Product.
Score(lists, x) ==
    FoldLeft(LAMBDA n, l : n + IF Contains(l, x)
                               THEN Product \div (RrfK + SelectInSeq(l, LAMBDA y : y = x))
                               ELSE 0, 0, lists)

\* By score, then by first appearance.
Fused(lists) ==
    LET seen == FlattenSeq(lists)
        At(x) == SelectInSeq(seen, LAMBDA y : y = x)
        Above(x, y) == \/ Score(lists, x) > Score(lists, y)
                       \/ Score(lists, x) = Score(lists, y) /\ At(x) < At(y)
    IN CHOOSE r \in SetToSeqs(ToSet(seen)) : \A i, j \in DOMAIN r : i < j => Above(r[i], r[j])

Fuse ==
    /\ turn.pc = "fuse"
    /\ turn' = Grouped(Fused(<<turn.dense, turn.lexical>>))
    /\ UNCHANGED <<transcriptVars, library, messages, receipts>>

\* _probe_unselected_channels: which of the others score well enough.
Probe ==
    /\ turn.pc = "probe"
    /\ \E found \in SUBSET {c \in Channels \ ToSet(turn.sources) : library[c] > 0} :
        turn' = [turn EXCEPT !.candidates = found, !.pc = "answer"]
    /\ UNCHANGED <<transcriptVars, library, messages, receipts>>

-----------------------------------------------------------------------------
\* The prompt.

\* _group_ranges: the first number of every group that is not empty.
GroupRanges(groups) ==
    FoldLeft(LAMBDA acc, g :
                IF g.results = <<>> THEN acc
                ELSE [next |-> acc.next + Len(g.results),
                      ranges |-> Append(acc.ranges, [group |-> g, first |-> acc.next])],
             [next |-> 1, ranges |-> <<>>], groups).ranges

\* build_context_blocks: the blocks, each with its number and under its creator.
Blocks(groups) ==
    UNION {{[n |-> r.first + i - 1, channel |-> r.group.channel, chunk |-> r.group.results[i]] :
                i \in DOMAIN r.group.results} : r \in ToSet(GroupRanges(groups))}

\* build_system_prompt: the numbers the model may speak of in the first person.
VoiceNumbers(groups, voice) ==
    UNION {r.first..r.first + Len(r.group.results) - 1 :
                r \in {q \in ToSet(GroupRanges(groups)) : q.group.channel = voice}}

\* Wrong variant of FlattenContext: the order of the scope as it was selected.
FlattenReversed(groups) == FlattenSeq(Reverse([i \in DOMAIN groups |-> groups[i].results]))

FlattenContext(groups) == FlattenSeq([i \in DOMAIN groups |-> groups[i].results])

\* Wrong variant of SentHistory: the markers stay in.
SentVerbatim(history) ==
    LET window == SubSeq(history, Len(history) - HistoryWindow + 1, Len(history))
    IN IF Len(history) <= HistoryWindow THEN history ELSE window

\* answer and build_messages: the last messages, from the first the user wrote,
\* without the markers of the answers.
SentHistory(history) ==
    LET window == IF Len(history) <= HistoryWindow THEN history
                  ELSE SubSeq(history, Len(history) - HistoryWindow + 1, Len(history))
        sent == SubSeq(window, SelectInSeq(window, LAMBDA m : m.role = "user"), Len(window))
    IN IF \E i \in DOMAIN window : window[i].role = "user"
       THEN [i \in DOMAIN sent |-> [role |-> sent[i].role, marks |-> {}]]
       ELSE <<>>

-----------------------------------------------------------------------------
\* The answer.  The model copies markers from what it was sent, with what they
\* stand for there, or makes one up; a user writes none.

Visible ==
    {[n |-> b.n, meant |-> b.chunk] : b \in Blocks(turn.groups)}
        \cup (UNION {m.marks : m \in ToSet(SentHistory(messages))})
        \cup {[n |-> Cardinality(Blocks(turn.groups)) + 1, meant |-> Nothing]}

\* Numbers that are no block are dropped.
ParseCitations(marks, context) ==
    {[n |-> m.n, chunk |-> context[m.n]] : m \in {k \in marks : k.n \in DOMAIN context}}

Question == [role |-> "user", marks |-> {}]

Answer ==
    /\ turn.pc = "answer"
    /\ \E mark \in Visible : \E marks \in {{}, {mark}} :
        /\ messages' = messages \o <<Question, [role |-> "assistant", marks |-> marks]>>
        /\ receipts' = ParseCitations(marks, FlattenContext(turn.groups))
    /\ turn' = [turn EXCEPT !.pc = "answered"]
    /\ UNCHANGED <<transcriptVars, library>>

\* A provider error leaves the question without an answer.
AnswerFails ==
    /\ turn.pc = "answer"
    /\ messages' = Append(messages, Question)
    /\ turn' = [NoTurn EXCEPT !.pc = "answered"]
    /\ UNCHANGED <<transcriptVars, library, receipts>>

Next ==
    \/ TranscriptNext /\ UNCHANGED <<library, turnVars>>
    \/ LoadVideo
    \/ OpenTurn \/ DenseQuery \/ LexicalQuery \/ Fuse \/ Probe
    \/ Answer \/ AnswerFails

Spec == Init /\ [][Next]_vars

-----------------------------------------------------------------------------
\* Properties.

Before(l, x, y) ==
    Contains(l, x) /\ (Contains(l, y) => SelectInSeq(l, LAMBDA z : z = x) < SelectInSeq(l, LAMBDA z : z = y))

\* The fused ranking loses and invents no chunk; it never puts one behind another
\* that no list has before it; and since the damping constant is no smaller than
\* the candidates, what both queries found comes before what only one did.
FusionRewardsAgreement ==
    turn.pc = "fuse" =>
        LET lists == <<turn.dense, turn.lexical>> fused == Fused(lists) IN
        /\ ToSet(fused) = ToSet(turn.dense) \cup ToSet(turn.lexical) /\ IsInjective(fused)
        /\ \A x, y \in ToSet(fused) :
            \/ x # y /\ \A i \in 1..2 : Before(lists[i], x, y) \/ ~Contains(lists[i], y)
            \/ (\A i \in 1..2 : Contains(lists[i], x)) /\ \E i \in 1..2 : ~Contains(lists[i], y)
            => Before(fused, x, y)

\* Every receipt shows the chunk the model had before it when it wrote the
\* number, in this turn's prompt, and no marker of a block is lost; a block
\* stands under its own creator, and the voice speaks for its own blocks only.
CitationHitsItsBlock ==
    turn.pc = "answered" /\ turn.groups # <<>> =>
        LET marks == Last(messages).marks IN
        /\ {[n |-> m.n, chunk |-> m.meant] : m \in {k \in marks : k.meant # Nothing}} = receipts
        /\ \A b \in Blocks(turn.groups) :
            /\ b.chunk[1] = b.channel
            /\ b.n \in VoiceNumbers(turn.groups, turn.voice) <=> b.channel = turn.voice
=============================================================================
