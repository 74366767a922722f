------------------------------- MODULE Transcript -------------------------------
(***************************************************************************)
(* From a caption track to the chunks of a video: dedupe_rolling_cues of   *)
(* core/ingest/vtt_parser.py, one cue a step, then the window loop of      *)
(* core/ingest/chunker.py, one window a step.  A word is the moment it is  *)
(* said at in the talk; how many tokens a text has is a constant.          *)
(***************************************************************************)
EXTENDS Integers, Sequences, SequencesExt

CONSTANTS
    Words,
    TokenCount,      \* [Words -> Nat]: the length of encoding.encode
    TargetTokens,
    OverlapTokens,   \* int(target_tokens * overlap_ratio)
    MaxTalk          \* bound: how many words are said

ASSUME TokenAssumption ==
    /\ TokenCount \in [Words -> Nat \ {0}]
    /\ TargetTokens \in Nat \ {0} /\ OverlapTokens \in 0..TargetTokens - 1
ASSUME TalkAssumption == MaxTalk \in Nat

VARIABLES
    said,     \* the words of the talk the track has shown
    timed,    \* the TimedWords the parser has kept: the word and its time
    stage,    \* "captions", "chunking" or "ready"
    start,    \* where the next window begins
    chunks    \* the ChunkDrafts: first word, last word, tokens

transcriptVars == <<said, timed, stage, start, chunks>>

TranscriptInit ==
    /\ said = <<>> /\ timed = <<>>
    /\ stage = "captions"
    /\ start = 1 /\ chunks = <<>>

-----------------------------------------------------------------------------
\* The track: a cue shows the last words of the line before, and new ones.

\* Untagged words, and the repeated ones, have the time the cue starts; a new
\* word with an inline tag has its own.
CueWords(back, new, tagged) ==
    [i \in 1..back + Len(new) |->
        IF i <= back THEN [text |-> said[Len(said) - back + i], at |-> Len(said) + 1]
        ELSE [text |-> new[i - back],
              at |-> Len(said) + (IF tagged THEN i - back ELSE 1)]]

Texts(ws) == [i \in DOMAIN ws |-> ws[i].text]
LastWords(ws, k) == SubSeq(ws, Len(ws) - k + 1, Len(ws))

\* Wrong variant of Overlap: only a cue shown again in full is recognised.
OverlapOfWholeCue(shown, cue) ==
    IF Len(cue) <= Len(shown) /\ LastWords(shown, Len(cue)) = cue THEN Len(cue) ELSE 0

\* The longest suffix of what was kept that is a prefix of the cue.
Overlap(shown, cue) ==
    CHOOSE k \in 0..Len(cue) :
        /\ k <= Len(shown) /\ LastWords(shown, k) = SubSeq(cue, 1, k)
        /\ \A j \in k + 1..Len(cue) : j <= Len(shown) => LastWords(shown, j) # SubSeq(cue, 1, j)

ShowCue ==
    /\ stage = "captions"
    /\ \E back \in 0..Len(said), new \in BoundedSeq(Words, MaxTalk - Len(said)), tagged \in BOOLEAN :
        LET cue == CueWords(back, new, tagged) IN
        /\ cue # <<>>
        /\ said' = said \o new
        /\ timed' = timed \o SubSeq(cue, Overlap(Texts(timed), Texts(cue)) + 1, Len(cue))
    /\ UNCHANGED <<stage, start, chunks>>

\* A track without a word makes no chunk.
EndOfTrack ==
    /\ stage = "captions"
    /\ stage' = IF timed = <<>> THEN "ready" ELSE "chunking"
    /\ UNCHANGED <<said, timed, start, chunks>>

-----------------------------------------------------------------------------
\* The chunks.

Tokens(i, j) == FoldLeft(LAMBDA n, w : n + TokenCount[w.text], 0, SubSeq(timed, i, j))

\* A window takes words while they fit, and at least one.
WindowEnd(i) ==
    CHOOSE j \in i..Len(timed) :
        /\ j = i \/ Tokens(i, j) <= TargetTokens
        /\ j < Len(timed) => Tokens(i, j + 1) > TargetTokens

\* Wrong variant of NextStart: the step back is taken even to the start itself.
NextStartAt(i, j) == CHOOSE b \in i..j + 1 :
    /\ Tokens(b, j) <= OverlapTokens
    /\ b > i => Tokens(b - 1, j) > OverlapTokens

\* The next window begins as many words back as the overlap has room for, unless
\* this is the whole window.
NextStart(i, j) ==
    LET back == CHOOSE b \in i..j + 1 :
                    /\ Tokens(b, j) <= OverlapTokens
                    /\ b > i => Tokens(b - 1, j) > OverlapTokens
    IN IF back > i THEN back ELSE j + 1

NextWindow ==
    /\ stage = "chunking"
    /\ LET last == WindowEnd(start) IN
        /\ chunks' = Append(chunks, [first |-> start, last |-> last, tokens |-> Tokens(start, last)])
        /\ IF last = Len(timed) THEN stage' = "ready" /\ UNCHANGED start
           ELSE start' = NextStart(start, last) /\ UNCHANGED stage
    /\ UNCHANGED <<said, timed>>

TranscriptNext == ShowCue \/ EndOfTrack \/ NextWindow

-----------------------------------------------------------------------------
\* Properties.

\* Of a talk that repeats no word, every word is kept once, in its place and
\* timed no later than it is said, however the captions roll.
RollingCaptionsCollapse ==
    IsInjective(said) =>
        /\ Texts(timed) = said
        /\ \A i \in DOMAIN timed :
            /\ timed[i].at <= i
            /\ i > 1 => timed[i - 1].at <= timed[i].at

\* The windows leave no word out, go forward, share no more than the overlap,
\* and hold no more than the target unless they are one long word.  A window
\* brings a new word unless that word does not fit beside the overlap.
ChunksCoverTalk ==
    /\ \A i \in DOMAIN chunks : LET c == chunks[i] IN
        /\ c.tokens <= TargetTokens \/ c.first = c.last
        /\ i = 1 => c.first = 1
        /\ i > 1 => LET b == chunks[i - 1] IN
            /\ b.first < c.first /\ c.first <= b.last + 1
            /\ Tokens(c.first, b.last) <= OverlapTokens
            /\ c.last > b.last \/ TokenCount[timed[b.last + 1].text] > TargetTokens - OverlapTokens
    /\ stage = "ready" /\ timed # <<>> => chunks # <<>> /\ Last(chunks).last = Len(timed)
=============================================================================
