------------------------------ MODULE ChatsProofs ------------------------------
(***************************************************************************)
(* What the tables of chats guarantee for any number of channels, chats,   *)
(* questions and concurrent deletions.                                     *)
(***************************************************************************)
EXTENDS Chats, TLAPS

\* The row locks of an uncommitted delete_channel keep what its sweep saw true
\* until it commits.
SweepStillHolds ==
    \A d \in Uncommitted : \A k \in deleter[d].doomed :
        /\ Live(k)
        /\ chats[k].sources \subseteq {deleter[d].channel}

\* No chat is removed by two deletions at once.
OneSweeper ==
    \A d, e \in Uncommitted : d # e => deleter[d].doomed \cap deleter[e].doomed = {}

\* A turn's chat was there when the turn began, so it is there or gone; only
\* a turn with a chat stores messages.
ChatWasThere ==
    \A t \in Turns :
        /\ turn[t].chat # NoChat => chats[turn[t].chat].status \in {"live", "gone"}
        /\ turn[t].pc \in {"ask", "reply"} => turn[t].chat # NoChat

\* No reply is stored before the stream has ended.
NoEarlyReply ==
    \A t \in Turns, k \in Chats :
        turn[t].pc \notin {"reply", "meter", "done", "lost"} => <<"assistant", t>> \notin messages[k]

IInv ==
    /\ TypeOK
    /\ VoiceIsASource
    /\ SweepStillHolds
    /\ OneSweeper
    /\ ChatWasThere
    /\ NoEarlyReply
    /\ UnmeteredOnlyByDeletion

-----------------------------------------------------------------------------

LEMMA InitIInv == Init => IInv
BY NoChannelAssumption DEF Init, IInv, TypeOK, Chat, DeletePcs, TurnPcs, VoiceIsASource,
   SweepStillHolds, OneSweeper, Uncommitted, ChatWasThere, NoEarlyReply,
   UnmeteredOnlyByDeletion, Live

\* Creating a chat or editing its scope: the row written is not one a sweep
\* holds, its voice is in its sources, and no turn can tell.
LEMMA ScopeKeepsIInv ==
    ASSUME IInv, NEW k \in Chats, NEW s \in Scopes, CreateChat(k, s) \/ SetChatScope(k, s)
    PROVE  IInv'
<1>1. /\ chats' = [chats EXCEPT ![k] = Scoped(s)]
      /\ UNCHANGED <<channels, messages, usage, deleter, turn>>
    BY DEF CreateChat, SetChatScope
<1>2. /\ s.sources \subseteq Channels
      /\ s.voice \in Channels \cup {NoChannel}
      /\ s.voice \in s.sources \cup {NoChannel}
    BY DEF Scopes
<1>3. \A d \in Uncommitted : k \notin deleter[d].doomed
    <2>1. CASE CreateChat(k, s)
        BY <2>1 DEF CreateChat, IInv, SweepStillHolds, Live
    <2>2. CASE SetChatScope(k, s)
        BY <2>2 DEF SetChatScope, DeletedChats
    <2> QED BY <2>1, <2>2
<1>4. Uncommitted' = Uncommitted
    BY <1>1 DEF Uncommitted
<1>5. \A x \in Chats : x # k => chats'[x] = chats[x]
    BY <1>1 DEF IInv, TypeOK
<1>6. chats'[k] = [status |-> "live", sources |-> s.sources, voice |-> s.voice]
    BY <1>1 DEF IInv, TypeOK, Scoped
<1>7. TypeOK'
    BY <1>1, <1>2 DEF IInv, TypeOK, Chat, Scoped
<1>8. VoiceIsASource'
    BY <1>2, <1>5, <1>6 DEF IInv, VoiceIsASource, Live
<1>9. SweepStillHolds'
    BY <1>1, <1>3, <1>4, <1>5 DEF IInv, SweepStillHolds, Live
<1>10. OneSweeper'
    BY <1>1, <1>4 DEF IInv, OneSweeper
<1>11. ChatWasThere'
    BY <1>1, <1>5, <1>6 DEF IInv, TypeOK, ChatWasThere
<1>12. NoEarlyReply'
    BY <1>1 DEF IInv, NoEarlyReply
<1>13. UnmeteredOnlyByDeletion'
    <2> SUFFICES ASSUME NEW t \in Turns, turn[t].pc \in {"done", "lost"}, ~Metered(t),
                        turn[t].payer # NoChannel => turn[t].payer \in channels
                 PROVE  turn[t].chat # NoChat /\ ~Live(turn[t].chat)'
        BY <1>1 DEF UnmeteredOnlyByDeletion, Metered
    <2>1. turn[t].chat # NoChat /\ ~Live(turn[t].chat)
        BY DEF IInv, UnmeteredOnlyByDeletion
    <2>2. turn[t].chat \in Chats /\ chats[turn[t].chat].status = "gone"
        BY <2>1 DEF IInv, TypeOK, ChatWasThere, Live
    <2>3. turn[t].chat # k
        BY <2>2 DEF CreateChat, SetChatScope, Live
    <2>4. chats'[turn[t].chat] = chats[turn[t].chat]
        BY <2>2, <2>3, <1>5
    <2> QED BY <1>1, <2>1, <2>2, <2>4 DEF Live
<1> QED BY <1>7, <1>8, <1>9, <1>10, <1>11, <1>12, <1>13 DEF IInv

\* A deletion that has not committed changes no row others can see.
LEMMA DeleterFrame ==
    ASSUME IInv, TypeOK', SweepStillHolds', OneSweeper',
           UNCHANGED <<channels, chats, messages, usage, turn>>
    PROVE  IInv'
BY DEF IInv, VoiceIsASource, ChatWasThere, NoEarlyReply, UnmeteredOnlyByDeletion, Metered, Live

LEMMA CollectKeepsIInv ==
    ASSUME IInv, NEW d \in Deleters, NEW c \in Channels, CollectChats(d, c)
    PROVE  IInv'
<1>1. TypeOK'
    BY DEF CollectChats, IInv, TypeOK, DeletePcs
<1>2. \A e \in Uncommitted' : e \in Uncommitted /\ deleter'[e] = deleter[e]
    BY DEF CollectChats, IInv, TypeOK, Uncommitted
<1>3. SweepStillHolds' /\ OneSweeper'
    BY <1>2 DEF CollectChats, IInv, SweepStillHolds, OneSweeper, Live
<1> QED BY <1>1, <1>3, DeleterFrame DEF CollectChats

LEMMA RollBackKeepsIInv ==
    ASSUME IInv, NEW d \in Deleters, RollBack(d)
    PROVE  IInv'
<1>1. TypeOK'
    BY DEF RollBack, IInv, TypeOK, DeletePcs
<1>2. \A e \in Uncommitted' : e \in Uncommitted /\ deleter'[e] = deleter[e]
    BY DEF RollBack, IInv, TypeOK, Uncommitted
<1>3. SweepStillHolds' /\ OneSweeper'
    BY <1>2 DEF RollBack, IInv, SweepStillHolds, OneSweeper, Live
<1> QED BY <1>1, <1>3, DeleterFrame DEF RollBack

LEMMA SweepKeepsIInv ==
    ASSUME IInv, NEW d \in Deleters, DeleteAndSweep(d)
    PROVE  IInv'
<1>1. /\ deleter' = [deleter EXCEPT ![d] = [@ EXCEPT !.pc = "uncommitted", !.doomed = Orphans(d)]]
      /\ UNCHANGED <<channels, chats, messages, usage, turn>>
      /\ d \notin Uncommitted
      /\ Orphans(d) \subseteq Chats
      /\ Orphans(d) \cap DeletedChats = {}
    BY DEF DeleteAndSweep, IInv, TypeOK, Uncommitted, Orphans, Live
<1>2. deleter[d].pc = "collected" /\ deleter[d].channel \in Channels
    BY DEF DeleteAndSweep, IInv, TypeOK
<1>3. /\ Uncommitted' = Uncommitted \cup {d}
      /\ \A e \in Uncommitted : deleter'[e] = deleter[e]
      /\ \A e \in Deleters \ {d} : deleter'[e] = deleter[e]
      /\ deleter'[d].doomed = Orphans(d)
      /\ deleter'[d].channel = deleter[d].channel
    BY <1>1 DEF IInv, TypeOK, Uncommitted
<1>typed. TypeOK'
    <2>1. \A e \in Deleters : deleter'[e].pc # "idle" => deleter'[e].channel \in Channels
        BY <1>2, <1>3 DEF IInv, TypeOK
    <2>2. deleter' \in [Deleters -> [pc : DeletePcs, channel : Channels \cup {NoChannel},
                                     affected : SUBSET Chats, doomed : SUBSET Chats]]
        <3>1. deleter \in [Deleters -> [pc : DeletePcs, channel : Channels \cup {NoChannel},
                                        affected : SUBSET Chats, doomed : SUBSET Chats]]
            BY DEF IInv, TypeOK
        <3> QED BY <1>1, <3>1 DEF DeletePcs
    <2> QED BY <1>1, <2>1, <2>2 DEF IInv, TypeOK
<1>4. SweepStillHolds'
    BY <1>1, <1>3 DEF IInv, SweepStillHolds, Orphans, Live
<1>5. \A e \in Uncommitted : deleter[e].doomed \cap Orphans(d) = {}
    BY <1>1 DEF DeletedChats
<1>6. OneSweeper'
    BY <1>3, <1>5 DEF IInv, OneSweeper
<1> QED BY <1>1, <1>typed, <1>4, <1>6, DeleterFrame

\* ON DELETE SET NULL removes no usage row and touches no scope it records.
LEMMA CommitKeepsUsage ==
    ASSUME NEW c, NEW K, NEW u \in usage
    PROVE  \E w \in Detached(c, K) : w.turn = u.turn /\ w.sources = u.sources
<1> DEFINE w == [turn |-> u.turn, channel |-> Nulled(u.channel, {c}, NoChannel),
                 chat |-> Nulled(u.chat, K, NoChat), sources |-> u.sources]
<1>1. w \in Detached(c, K)
    BY DEF Detached
<1>2. w.turn = u.turn /\ w.sources = u.sources
    OBVIOUS
<1> QED BY <1>1, <1>2

\* The commit: rows disappear and references to them are nulled together, so
\* a chat left keeps its voice among its sources and a usage row keeps its turn.
LEMMA CommitKeepsIInv ==
    ASSUME IInv, NEW d \in Deleters, CommitDelete(d)
    PROVE  IInv'
<1> DEFINE c == deleter[d].channel
           K == deleter[d].doomed
<1>1. /\ d \in Uncommitted
      /\ channels' = channels \ {c}
      /\ messages' = [k \in Chats |-> IF k \in K THEN {} ELSE messages[k]]
      /\ usage' = Detached(c, K)
      /\ turn' = turn
    BY DEF CommitDelete, Uncommitted
<1>2. /\ \A k \in K : chats'[k] = [status |-> "gone", sources |-> {}, voice |-> NoChannel]
      /\ \A k \in Chats \ K : chats'[k] = [status |-> chats[k].status,
                                            sources |-> chats[k].sources \ {c},
                                            voice |-> Unvoiced(chats[k], c)]
    BY DEF CommitDelete, IInv, TypeOK
<1>3. /\ Uncommitted' = Uncommitted \ {d}
      /\ \A e \in Uncommitted' : deleter'[e] = deleter[e]
    BY DEF CommitDelete, Uncommitted, IInv, TypeOK
<1>4. \A k \in K : k \in Chats /\ chats[k].status = "live"
    BY <1>1 DEF IInv, SweepStillHolds, Live
<1>gone. \A k \in K : /\ chats'[k].status = "gone"
                      /\ chats'[k].sources = {}
                      /\ chats'[k].voice = NoChannel
    BY <1>2
<1>left. \A k \in Chats \ K : /\ chats'[k].status = chats[k].status
                              /\ chats'[k].sources = chats[k].sources \ {c}
                              /\ chats'[k].voice = Unvoiced(chats[k], c)
    <2> SUFFICES ASSUME NEW k \in Chats \ K
                 PROVE  /\ chats'[k].status = chats[k].status
                        /\ chats'[k].sources = chats[k].sources \ {c}
                        /\ chats'[k].voice = Unvoiced(chats[k], c)
        OBVIOUS
    <2> DEFINE st == chats[k].status
               so == chats[k].sources \ {c}
               vo == Unvoiced(chats[k], c)
    <2>1. chats'[k] = [status |-> st, sources |-> so, voice |-> vo]
        BY <1>2
    <2> HIDE DEF st, so, vo
    <2>2. chats'[k].status = st /\ chats'[k].sources = so /\ chats'[k].voice = vo
        BY <2>1
    <2> QED BY <2>2 DEF st, so, vo
<1> HIDE DEF K, c
<1>5. TypeOK'
    <2>1. \A k \in K : chats'[k] \in Chat
        BY <1>2 DEF Chat
    <2>2. \A k \in Chats \ K : chats'[k] \in Chat
        <3> SUFFICES ASSUME NEW k \in Chats \ K PROVE chats'[k] \in Chat
            OBVIOUS
        <3> DEFINE st == chats[k].status
                   so == chats[k].sources \ {c}
                   vo == Unvoiced(chats[k], c)
        <3>1. /\ st \in {"none", "live", "gone"}
              /\ so \in SUBSET Channels
              /\ vo \in Channels \cup {NoChannel}
            BY DEF IInv, TypeOK, Chat, Unvoiced
        <3>2. chats'[k] = [status |-> st, sources |-> so, voice |-> vo]
            BY <1>2
        <3> HIDE DEF st, so, vo
        <3> QED BY <3>1, <3>2 DEF Chat
    <2>3. chats' \in [Chats -> Chat]
        BY <2>1, <2>2 DEF CommitDelete
    <2>4. usage' \subseteq UsageEvent
        BY <1>1 DEF IInv, TypeOK, UsageEvent, Detached, Nulled
    <2>5. messages' \in [Chats -> SUBSET ({"user", "assistant"} \X Turns)]
        BY <1>1 DEF IInv, TypeOK
    <2> QED BY <1>1, <2>3, <2>4, <2>5 DEF CommitDelete, IInv, TypeOK, DeletePcs
<1>6. VoiceIsASource'
    BY <1>gone, <1>left DEF IInv, VoiceIsASource, Live, Unvoiced
<1>7. SweepStillHolds'
    <2> SUFFICES ASSUME NEW e \in Uncommitted', NEW k \in deleter'[e].doomed
                 PROVE  k \in Chats /\ chats'[k].status = "live"
                        /\ chats'[k].sources \subseteq {deleter'[e].channel}
        BY DEF SweepStillHolds, Live
    <2>1. e \in Uncommitted /\ e # d /\ deleter'[e] = deleter[e]
        BY <1>3
    <2>2. k \in Chats /\ chats[k].status = "live"
          /\ chats[k].sources \subseteq {deleter[e].channel}
        BY <2>1 DEF IInv, SweepStillHolds, Live
    <2>3. k \notin K
        BY <1>1, <2>1 DEF IInv, OneSweeper, K
    <2> QED BY <1>left, <2>1, <2>2, <2>3
<1>8. OneSweeper'
    BY <1>3 DEF IInv, OneSweeper
<1>9. ChatWasThere'
    BY <1>1, <1>gone, <1>left DEF IInv, TypeOK, ChatWasThere
<1>10. NoEarlyReply'
    BY <1>1 DEF IInv, NoEarlyReply
<1>11. \A t \in Turns : Metered(t) => Metered(t)'
    BY <1>1, CommitKeepsUsage DEF Metered
<1>12. \A k \in Chats : chats'[k].status = "live" => chats[k].status = "live"
    BY <1>gone, <1>left
<1>13. UnmeteredOnlyByDeletion'
    BY <1>1, <1>11, <1>12 DEF IInv, UnmeteredOnlyByDeletion, Live
<1> QED BY <1>5, <1>6, <1>7, <1>8, <1>9, <1>10, <1>13 DEF IInv

-----------------------------------------------------------------------------
\* The steps of a turn write no chat and no channel.

LEMMA TurnFrame ==
    ASSUME IInv, TypeOK', UNCHANGED <<channels, chats, deleter>>,
           ChatWasThere', NoEarlyReply', UnmeteredOnlyByDeletion'
    PROVE  IInv'
BY DEF IInv, VoiceIsASource, SweepStillHolds, OneSweeper, Uncommitted, Live

Ended == {"reply", "meter", "done", "lost"}

\* A step that only moves a turn, not back from behind its stream and not to
\* its end.
LEMMA MoveKeepsIInv ==
    ASSUME IInv, NEW t \in Turns, NEW pc \in TurnPcs \ {"done", "lost"}, Goes(t, pc),
           UNCHANGED <<channels, chats, messages, usage, deleter>>,
           turn[t].pc \notin Ended, pc \in {"ask", "reply"} => turn[t].chat # NoChat
    PROVE  IInv'
<1>1. TypeOK'
    BY DEF Goes, IInv, TypeOK
<1>2. /\ \A s \in Turns : turn'[s].chat = turn[s].chat /\ turn'[s].payer = turn[s].payer
      /\ \A s \in Turns \ {t} : turn'[s] = turn[s]
      /\ turn'[t].pc = pc
    BY DEF Goes, IInv, TypeOK
<1>3. ChatWasThere'
    BY <1>2 DEF IInv, ChatWasThere
<1>4. NoEarlyReply'
    BY <1>2 DEF IInv, NoEarlyReply, Ended
<1>5. UnmeteredOnlyByDeletion'
    BY <1>2 DEF IInv, UnmeteredOnlyByDeletion, Metered, Live
<1> QED BY <1>1, <1>3, <1>4, <1>5, TurnFrame

LEMMA OpenKeepsIInv ==
    ASSUME IInv, NEW t \in Turns,
           (\E k \in Chats : OpenTurn(t, k)) \/ (\E s \in Scopes : OpenOneShot(t, s))
    PROVE  IInv'
<1>1. PICK k \in Chats \cup {NoChat}, S \in SUBSET Channels, v \in Channels \cup {NoChannel} :
        /\ turn[t].pc = "idle"
        /\ k # NoChat => Live(k)
        /\ turn' = [turn EXCEPT ![t] = [pc |-> "resolve", chat |-> k, sources |-> S,
                                        voice |-> v, payer |-> NoChannel]]
        /\ UNCHANGED <<channels, chats, messages, usage, deleter>>
    BY DEF OpenTurn, OpenOneShot, Scopes, IInv, TypeOK, Chat
<1>2. TypeOK'
    BY <1>1 DEF IInv, TypeOK, TurnPcs
<1>3. /\ \A s \in Turns \ {t} : turn'[s] = turn[s]
      /\ turn'[t].pc = "resolve" /\ turn'[t].chat = k
    BY <1>1 DEF IInv, TypeOK
<1>4. ChatWasThere'
    BY <1>1, <1>3 DEF IInv, ChatWasThere, Live
<1>5. NoEarlyReply'
    BY <1>1, <1>3 DEF IInv, NoEarlyReply
<1>6. UnmeteredOnlyByDeletion'
    BY <1>1, <1>3 DEF IInv, UnmeteredOnlyByDeletion, Metered, Live
<1> QED BY <1>1, <1>2, <1>4, <1>5, <1>6, TurnFrame

LEMMA PrepareKeepsIInv ==
    ASSUME IInv, NEW t \in Turns, Prepare(t)
    PROVE  IInv'
<1>1. PICK pc \in {"ready", "ask"}, v \in Channels \cup {NoChannel},
           p \in Channels \cup {NoChannel} :
        /\ turn' = [turn EXCEPT ![t] = [pc |-> pc, chat |-> turn[t].chat,
                                        sources |-> turn[t].sources, voice |-> v, payer |-> p]]
        /\ pc = "ask" => turn[t].chat # NoChat
    <2>1. PICK v \in {NoChannel} \cup ({turn[t].voice} \cap turn[t].sources) :
            \E p \in IF v # NoChannel THEN {v}
                     ELSE IF turn[t].sources = {} THEN {NoChannel} ELSE turn[t].sources :
                turn' = [turn EXCEPT ![t] =
                            [pc |-> IF turn[t].chat = NoChat THEN "ready" ELSE "ask",
                             chat |-> turn[t].chat, sources |-> turn[t].sources,
                             voice |-> v, payer |-> p]]
        BY DEF Prepare
    <2>2. turn[t].sources \subseteq Channels
        BY DEF IInv, TypeOK
    <2> QED BY <2>1, <2>2
<1>2. turn[t].pc = "resolve" /\ UNCHANGED <<channels, chats, messages, usage, deleter>>
    BY DEF Prepare
<1>3. TypeOK'
    BY <1>1, <1>2 DEF IInv, TypeOK, TurnPcs
<1>4. /\ \A s \in Turns \ {t} : turn'[s] = turn[s]
      /\ turn'[t].pc \in {"ready", "ask"} /\ turn'[t].chat = turn[t].chat
      /\ turn'[t].pc = "ask" => turn[t].chat # NoChat
    BY <1>1 DEF IInv, TypeOK
<1>5. ChatWasThere'
    BY <1>2, <1>4 DEF IInv, ChatWasThere
<1>6. NoEarlyReply'
    BY <1>2, <1>4 DEF IInv, NoEarlyReply
<1>7. UnmeteredOnlyByDeletion'
    BY <1>2, <1>4 DEF IInv, UnmeteredOnlyByDeletion, Metered, Live
<1> QED BY <1>2, <1>3, <1>5, <1>6, <1>7, TurnFrame

\* A question is stored before the stream, a reply after it; a reply whose
\* chat is gone is the one way a turn ends here.
LEMMA MessageKeepsIInv ==
    ASSUME IInv, NEW t \in Turns, AddQuestion(t) \/ AddReply(t)
    PROVE  IInv'
<1> DEFINE k == turn[t].chat
<1>1. PICK role \in {"user", "assistant"}, then \in {"ready", "meter"},
           otherwise \in {"refused", "lost"} :
        /\ AddMessage(t, role, then, otherwise)
        /\ \/ turn[t].pc = "ask" /\ role = "user" /\ then = "ready" /\ otherwise = "refused"
           \/ turn[t].pc = "reply" /\ role = "assistant" /\ then = "meter" /\ otherwise = "lost"
    BY DEF AddQuestion, AddReply
<1>2. UNCHANGED <<channels, chats, usage, deleter>>
    BY <1>1 DEF AddMessage
<1>3. CASE Live(k)
    <2>1. /\ messages' = [messages EXCEPT ![k] = @ \cup {<<role, t>>}]
          /\ turn' = [turn EXCEPT ![t].pc = then]
          /\ k \in Chats
        BY <1>1, <1>3 DEF AddMessage, Goes, Live
    <2>2. TypeOK'
        BY <1>2, <2>1 DEF IInv, TypeOK, TurnPcs
    <2>3. /\ \A s \in Turns \ {t} : turn'[s] = turn[s]
          /\ turn'[t].pc = then /\ turn'[t].chat = turn[t].chat
        BY <2>1 DEF IInv, TypeOK
    <2>4. ChatWasThere'
        BY <1>2, <2>3 DEF IInv, ChatWasThere
    <2>5. \A x \in Chats, s \in Turns :
            <<"assistant", s>> \in messages'[x] =>
                <<"assistant", s>> \in messages[x] \/ (s = t /\ role = "assistant")
        BY <2>1 DEF IInv, TypeOK
    <2>6. NoEarlyReply'
        BY <1>1, <2>3, <2>5 DEF IInv, NoEarlyReply
    <2>7. UnmeteredOnlyByDeletion'
        BY <1>2, <2>3 DEF IInv, UnmeteredOnlyByDeletion, Metered, Live
    <2> QED BY <1>2, <2>2, <2>4, <2>6, <2>7, TurnFrame
<1>4. CASE ~Live(k)
    <2>1. messages' = messages /\ turn' = [turn EXCEPT ![t].pc = otherwise]
        BY <1>1, <1>4 DEF AddMessage, Goes
    <2>2. TypeOK'
        BY <1>2, <2>1 DEF IInv, TypeOK, TurnPcs
    <2>3. /\ \A s \in Turns \ {t} : turn'[s] = turn[s]
          /\ turn'[t].pc = otherwise /\ turn'[t].chat = turn[t].chat
        BY <2>1 DEF IInv, TypeOK
    <2>4. ChatWasThere'
        BY <1>2, <2>3 DEF IInv, ChatWasThere
    <2>5. NoEarlyReply'
        BY <1>1, <2>1, <2>3 DEF IInv, NoEarlyReply
    <2>6. otherwise = "lost" => k # NoChat
        BY <1>1 DEF IInv, ChatWasThere
    <2>7. UnmeteredOnlyByDeletion'
        BY <1>2, <1>4, <2>3, <2>6 DEF IInv, UnmeteredOnlyByDeletion, Metered, Live
    <2> QED BY <1>2, <2>2, <2>4, <2>5, <2>7, TurnFrame
<1> QED BY <1>3, <1>4

\* record_usage_event either stores the row or finds a reference gone.
LEMMA UsageKeepsIInv ==
    ASSUME IInv, NEW t \in Turns, RecordUsage(t)
    PROVE  IInv'
<1> DEFINE u == [turn |-> t, channel |-> turn[t].payer, chat |-> turn[t].chat,
                 sources |-> turn[t].sources]
<1>1. /\ turn[t].pc = "meter"
      /\ UNCHANGED <<channels, chats, messages, deleter>>
      /\ \/ usage' = usage \cup {u} /\ Goes(t, "done")
         \/ /\ usage' = usage /\ Goes(t, "lost")
            /\ ~(/\ turn[t].payer \in channels \cup {NoChannel}
                 /\ turn[t].chat = NoChat \/ Live(turn[t].chat))
    BY DEF RecordUsage
<1>2. u \in UsageEvent /\ u.turn = t
    BY DEF IInv, TypeOK, UsageEvent
<1>3. TypeOK'
    BY <1>1, <1>2 DEF IInv, TypeOK, Goes, TurnPcs
<1>4. /\ \A s \in Turns \ {t} : turn'[s] = turn[s]
      /\ turn'[t].pc \in {"done", "lost"}
      /\ turn'[t].chat = turn[t].chat /\ turn'[t].payer = turn[t].payer
    BY <1>1 DEF IInv, TypeOK, Goes
<1>5. ChatWasThere'
    BY <1>1, <1>4 DEF IInv, ChatWasThere
<1>6. NoEarlyReply'
    BY <1>1, <1>4 DEF IInv, NoEarlyReply
<1>7. UnmeteredOnlyByDeletion'
    BY <1>1, <1>2, <1>4 DEF IInv, UnmeteredOnlyByDeletion, Metered, Live
<1> QED BY <1>1, <1>3, <1>5, <1>6, <1>7, TurnFrame

-----------------------------------------------------------------------------

LEMMA NextKeepsIInv == IInv /\ [Next]_vars => IInv'
<1> SUFFICES ASSUME IInv, [Next]_vars PROVE IInv'
    OBVIOUS
<1>1. ASSUME NEW k \in Chats, NEW s \in Scopes, CreateChat(k, s) \/ SetChatScope(k, s)
      PROVE  IInv'
    BY <1>1, ScopeKeepsIInv
<1>2. ASSUME NEW d \in Deleters, DeleteStep(d)
      PROVE  IInv'
    BY <1>2, CollectKeepsIInv, SweepKeepsIInv, CommitKeepsIInv, RollBackKeepsIInv DEF DeleteStep
<1>3. ASSUME NEW t \in Turns, TurnStep(t)
      PROVE  IInv'
    <2>1. CASE (\E k \in Chats : OpenTurn(t, k)) \/ (\E s \in Scopes : OpenOneShot(t, s))
        BY <2>1, OpenKeepsIInv
    <2>2. CASE Prepare(t)
        BY <2>2, PrepareKeepsIInv
    <2>3. CASE Refuse(t) \/ StartStream(t) \/ Abandon(t) \/ ProviderFails(t)
        BY <2>3, MoveKeepsIInv DEF Refuse, StartStream, Abandon, ProviderFails, TurnPcs, Ended
    <2>4. CASE FinishStream(t) \/ HangUp(t)
        <3>1. CASE turn[t].chat = NoChat
            BY <2>4, <3>1, MoveKeepsIInv DEF FinishStream, HangUp, Persist, TurnPcs, Ended
        <3>2. CASE turn[t].chat # NoChat
            BY <2>4, <3>2, MoveKeepsIInv DEF FinishStream, HangUp, Persist, TurnPcs, Ended
        <3> QED BY <3>1, <3>2
    <2>5. CASE AddQuestion(t) \/ AddReply(t)
        BY <2>5, MessageKeepsIInv
    <2>6. CASE RecordUsage(t)
        BY <2>6, UsageKeepsIInv
    <2> QED BY <1>3, <2>1, <2>2, <2>3, <2>4, <2>5, <2>6 DEF TurnStep
<1>4. CASE UNCHANGED vars
    BY <1>4 DEF vars, IInv, TypeOK, VoiceIsASource, SweepStillHolds, OneSweeper, Uncommitted,
                ChatWasThere, NoEarlyReply, UnmeteredOnlyByDeletion, Metered, Live
<1> QED BY <1>1, <1>2, <1>3, <1>4 DEF Next

THEOREM Invariant == Spec => []IInv
BY InitIInv, NextKeepsIInv, PTL DEF Spec

\* Every reachable state is well typed.
THEOREM TypeCorrectness == Spec => []TypeOK
<1>1. IInv => TypeOK
    BY DEF IInv
<1> QED BY <1>1, Invariant, PTL

\* Whatever edits and deletions run together, a chat's voice is one of its
\* sources (set_chat_scope, ON DELETE SET NULL of migration 0007).
THEOREM VoiceInScope == Spec => []VoiceIsASource
<1>1. IInv => VoiceIsASource
    BY DEF IInv
<1> QED BY <1>1, Invariant, PTL

\* Nothing but a deletion under the stream loses a usage row, hang-ups
\* included (answer.py:340-351).
THEOREM OnlyDeletionLosesUsage == Spec => []UnmeteredOnlyByDeletion
<1>1. IInv => UnmeteredOnlyByDeletion
    BY DEF IInv
<1> QED BY <1>1, Invariant, PTL

\* A turn the provider failed left no reply (answer.py:348-349).
THEOREM FailedTurnIsSilent == Spec => []FailedTurnLeavesNoReply
<1>1. IInv => FailedTurnLeavesNoReply
    BY DEF IInv, NoEarlyReply, FailedTurnLeavesNoReply
<1> QED BY <1>1, Invariant, PTL

\* The sweep removes a chat only with the last of its sources, although it
\* looked the chat up before it deleted and commits later still.
LEMMA StepSpares ==
    ASSUME IInv, [Next]_vars, NEW k \in Chats
    PROVE  \/ messages[k] \subseteq messages'[k] /\ (Live(k) => Live(k)')
           \/ \E c \in Channels \ channels' : chats[k].sources \subseteq {c}
<1>1. ASSUME NEW d \in Deleters, CommitDelete(d), k \in deleter[d].doomed
      PROVE  \E c \in Channels \ channels' : chats[k].sources \subseteq {c}
    <2>1. /\ d \in Uncommitted
          /\ channels' = channels \ {deleter[d].channel}
        BY <1>1 DEF CommitDelete, Uncommitted
    <2>2. chats[k].sources \subseteq {deleter[d].channel}
        BY <1>1, <2>1 DEF IInv, SweepStillHolds
    <2>3. deleter[d].channel \in Channels
        BY <2>1 DEF IInv, TypeOK, Uncommitted
    <2> QED BY <2>1, <2>2, <2>3
<1>2. ASSUME NEW d \in Deleters, CommitDelete(d), k \notin deleter[d].doomed
      PROVE  messages[k] \subseteq messages'[k] /\ (Live(k) => Live(k)')
    <2>1. /\ messages'[k] = messages[k]
          /\ chats'[k] = [status |-> chats[k].status,
                          sources |-> chats[k].sources \ {deleter[d].channel},
                          voice |-> Unvoiced(chats[k], deleter[d].channel)]
        BY <1>2 DEF CommitDelete
    <2>2. \A st, so, vo : [status |-> st, sources |-> so, voice |-> vo].status = st
        OBVIOUS
    <2> QED BY <2>1, <2>2 DEF Live
<1>3. ASSUME NEW x \in Chats, NEW s \in Scopes, CreateChat(x, s) \/ SetChatScope(x, s)
      PROVE  messages[k] \subseteq messages'[k] /\ (Live(k) => Live(k)')
    <2>1. /\ messages' = messages
          /\ chats'[k] = chats[k] \/ chats'[k] = Scoped(s)
        BY <1>3 DEF CreateChat, SetChatScope, IInv, TypeOK
    <2> QED BY <2>1 DEF Live, Scoped
<1>4. ASSUME NEW t \in Turns, TurnStep(t)
      PROVE  messages[k] \subseteq messages'[k] /\ (Live(k) => Live(k)')
    <2>1. CASE AddQuestion(t) \/ AddReply(t)
        BY <2>1 DEF AddQuestion, AddReply, AddMessage, IInv, TypeOK, Live
    <2>2. CASE messages' = messages /\ chats' = chats
        BY <2>2 DEF Live
    <2> QED BY <1>4, <2>1, <2>2 DEF TurnStep, OpenTurn, OpenOneShot, Prepare, Refuse,
                StartStream, Abandon, ProviderFails, FinishStream, HangUp, Persist, RecordUsage
<1>5. ASSUME NEW d \in Deleters, DeleteStep(d), ~CommitDelete(d)
      PROVE  messages[k] \subseteq messages'[k] /\ (Live(k) => Live(k)')
    BY <1>5 DEF DeleteStep, CollectChats, DeleteAndSweep, RollBack, Live
<1>6. CASE UNCHANGED vars
    BY <1>6 DEF vars, Live
<1> QED BY <1>1, <1>2, <1>3, <1>4, <1>5, <1>6 DEF Next, DeleteStep

THEOREM DeletionSpares == Spec => SweepSparesOthers
<1>1. IInv /\ [Next]_vars =>
        [\A k \in Chats :
            \/ messages[k] \subseteq messages'[k] /\ (Live(k) => Live(k)')
            \/ \E c \in Channels \ channels' : chats[k].sources \subseteq {c}]_vars
    BY StepSpares
<1> QED BY <1>1, Invariant, PTL DEF Spec, SweepSparesOthers

\* No step takes a usage row or the scope it recorded away.
LEMMA StepKeepsUsage ==
    ASSUME [Next]_vars, NEW u \in usage
    PROVE  \E w \in usage' : w.turn = u.turn /\ w.sources = u.sources
<1>1. CASE \E d \in Deleters : CommitDelete(d)
    BY <1>1, CommitKeepsUsage DEF CommitDelete
<1>2. CASE usage \subseteq usage'
    BY <1>2
<1> QED BY <1>1, <1>2 DEF Next, vars, CreateChat, SetChatScope, DeleteStep, CollectChats,
            DeleteAndSweep, RollBack, TurnStep, OpenTurn, OpenOneShot, Prepare, Refuse,
            AddQuestion, AddReply, AddMessage, StartStream, Abandon, ProviderFails,
            FinishStream, HangUp, Persist, RecordUsage

THEOREM UsageSurvives == Spec => UsageOutlivesDeletion
<1>1. [Next]_vars =>
        [\A u \in usage : \E w \in usage' : w.turn = u.turn /\ w.sources = u.sources]_vars
    BY StepKeepsUsage
<1> QED BY <1>1, PTL DEF Spec, UsageOutlivesDeletion
=============================================================================
