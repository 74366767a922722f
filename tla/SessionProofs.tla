---------------------------- MODULE SessionProofs ----------------------------
(***************************************************************************)
(* What a browser session guarantees for every set of channels and chats.  *)
(***************************************************************************)
EXTENDS Session, TLAPS

\* The voice of s is Neutral or one of its sources.
VoiceAmong(s) == s.sources # Absent => s.voice \in s.sources \cup {NoChannel}

\* A chat speaks as one of its sources.
VoicesAreSources == \A k \in Chats : chats[k].voice \in chats[k].sources \cup {NoChannel}

\* Only the Home page has the sidebar's widgets.
WidgetsAtHome == page = "channels" => ss.sources = Absent

\* What session s shows of its chat is the scope of the chat's row.
Agrees(s) ==
    Live(s.chat) /\ SourcesOf(s) \cap rows # {} =>
        /\ chats[s.chat].sources = s.sources \cap rows
        /\ chats[s.chat].voice = IF s.voice \in rows THEN s.voice ELSE NoChannel

IInv == TypeOK /\ ChatsKeepASource /\ VoicesAreSources /\ WidgetsAtHome /\ ShownScopeIsUsed

-----------------------------------------------------------------------------
\* Lemmas about core/chat/scope.py and the drawing of the page.

LEMMA VoiceOfScope ==
    ASSUME NEW S \in SUBSET Channels, NEW v
    PROVE  /\ DefaultVoice(S) \in S \cup {NoChannel}
           /\ CoerceVoice(S, v) \in S \cup {NoChannel}
    BY DEF DefaultVoice, CoerceVoice

LEMMA ScopeStarted ==
    ASSUME NEW S \in SUBSET Channels, NEW v \in S \cup {NoChannel}, NEW u \in Params
    PROVE  LET r == StartScope(S, v, u) IN
           /\ r.ss \in Widgets /\ r.url \in Params /\ VoiceAmong(r.ss) /\ Agrees(r.ss)
<1> DEFINE r == StartScope(S, v, u)
<1>1. /\ r.ss = [sources |-> S, voice |-> v, chat |-> NoChat]
      /\ r.url = [u EXCEPT !.chat = NoChat, !.sources = S, !.voice = v]
    BY DEF StartScope
<1>2. r.ss \in Widgets
    BY <1>1 DEF Widgets, Voice
<1>3. [u EXCEPT !.chat = NoChat, !.sources = S, !.voice = v] \in Params
    BY DEF Params, Voice
<1>4. VoiceAmong(r.ss)
    BY <1>1 DEF VoiceAmong
<1>5. Agrees(r.ss)
    BY <1>1, SessionAssumption DEF Agrees, Live
<1> QED BY <1>1, <1>2, <1>3, <1>4, <1>5

LEMMA ChatLoaded ==
    ASSUME TypeOK, VoicesAreSources, NEW k, Live(k), NEW u \in Params
    PROVE  LET r == LoadChat(k, u) IN
           /\ r.ss \in Widgets /\ r.url \in Params /\ VoiceAmong(r.ss) /\ Agrees(r.ss)
<1> DEFINE r == LoadChat(k, u)
<1>1. /\ r.ss = [sources |-> chats[k].sources, voice |-> chats[k].voice, chat |-> k]
      /\ r.url = [u EXCEPT !.chat = k, !.sources = {}, !.voice = NoChannel]
    BY DEF LoadChat
<1>2. /\ k \in Chats /\ chats[k].sources \subseteq rows /\ rows \subseteq Channels
      /\ chats[k].voice \in chats[k].sources \cup {NoChannel}
    BY DEF TypeOK, VoicesAreSources, Live
<1>3. r.ss \in Widgets
    BY <1>1, <1>2 DEF Widgets, Voice
<1>4. [u EXCEPT !.chat = k, !.sources = {}, !.voice = NoChannel] \in Params
    BY <1>2 DEF Params, Voice
<1>5. VoiceAmong(r.ss)
    BY <1>1, <1>2 DEF VoiceAmong
<1>6. Agrees(r.ss)
    BY <1>1, <1>2, SessionAssumption DEF Agrees, SourcesOf
<1> QED BY <1>1, <1>3, <1>4, <1>5, <1>6

\* restore_from_url leaves a sound session, whatever the URL holds.
LEMMA Restored ==
    ASSUME TypeOK, VoicesAreSources, NEW s \in Widgets, NEW u \in Params, VoiceAmong(s)
    PROVE  LET r == Restore(s, u, rows) IN
           /\ r.ss \in Widgets /\ r.url \in Params /\ VoiceAmong(r.ss)
           /\ Agrees(s) => Agrees(r.ss)
           /\ s.chat # NoChat \/ s.sources # Absent => r.ss = s /\ r.url = u
<1> DEFINE r == Restore(s, u, rows)
           draft == u.sources \cap rows
<1>1. rows \subseteq Channels /\ draft \subseteq Channels
    BY DEF TypeOK
<1>2. CASE s.sources # Absent \/ s.chat # NoChat
    <2>1. r = [ss |-> s, url |-> u]
        <3>1. s # EmptySession
            BY <1>2 DEF EmptySession
        <3> QED BY <3>1, <1>2 DEF Restore
    <2> QED BY <2>1
<1>3. ASSUME ~(s.sources # Absent \/ s.chat # NoChat)
      PROVE  \/ Live(u.chat) /\ r = LoadChat(u.chat, u)
             \/ r = StartScope(draft, CoerceVoice(draft, u.voice), u)
             \/ u.channel \in rows /\ r = StartScope({u.channel}, DefaultVoice({u.channel}), u)
             \/ r = StartScope(rows, DefaultVoice(rows), u)
    BY <1>3 DEF Restore
<1>4. CASE Live(u.chat) /\ r = LoadChat(u.chat, u)
    <2> HIDE DEF r
    <2>1. r.ss \in Widgets /\ r.url \in Params /\ VoiceAmong(r.ss) /\ Agrees(r.ss)
        BY <1>4, ChatLoaded
    <2> QED BY <2>1, <1>2, <1>3 DEF r
<1>5. ASSUME NEW S \in SUBSET Channels, NEW v \in S \cup {NoChannel}, r = StartScope(S, v, u)
      PROVE  r.ss \in Widgets /\ r.url \in Params /\ VoiceAmong(r.ss) /\ Agrees(r.ss)
    <2> HIDE DEF r
    <2> QED BY <1>5, ScopeStarted
<1> HIDE DEF r
<1>6. CASE r = StartScope(draft, CoerceVoice(draft, u.voice), u)
    BY <1>1, <1>2, <1>5, <1>6, VoiceOfScope DEF r
<1>7. CASE u.channel \in rows /\ r = StartScope({u.channel}, DefaultVoice({u.channel}), u)
    <2>1. {u.channel} \in SUBSET Channels
        BY <1>1, <1>7
    <2>2. DefaultVoice({u.channel}) \in {u.channel} \cup {NoChannel}
        BY <2>1, VoiceOfScope
    <2> QED BY <2>1, <2>2, <1>2, <1>5, <1>7 DEF r
<1>8. CASE r = StartScope(rows, DefaultVoice(rows), u)
    BY <1>1, <1>2, <1>5, <1>8, VoiceOfScope DEF r
<1> QED BY <1>2, <1>3, <1>4, <1>6, <1>7, <1>8 DEF r

\* The sidebar's clamp keeps a sound session sound, and shows what it showed.
LEMMA Clamped ==
    ASSUME TypeOK, NEW s \in Widgets, VoiceAmong(s)
    PROVE  LET t == Clamp(s, rows) IN
           /\ t \in Widgets /\ VoiceAmong(t) /\ t.chat = s.chat
           /\ Agrees(s) => Agrees(t)
           /\ rows # {} => t.sources \subseteq rows /\ t.sources # Absent
<1> DEFINE t == Clamp(s, rows)
           kept == SourcesOf(s) \cap rows
<1>1. CASE rows = {}
    BY <1>1 DEF Clamp
<1>2. CASE rows # {}
    <2>1. /\ t.sources = kept /\ t.chat = s.chat
          /\ t.voice = IF s.voice \in kept THEN s.voice ELSE NoChannel
          /\ t = [sources |-> t.sources, voice |-> t.voice, chat |-> t.chat]
        BY <1>2 DEF Clamp, Widgets
    <2> HIDE DEF t
    <2>2. kept \subseteq rows /\ rows \subseteq Channels
        BY DEF TypeOK
    <2>3. t \in Widgets
        BY <2>1, <2>2 DEF Widgets, Voice
    <2>4. VoiceAmong(t)
        BY <2>1 DEF VoiceAmong
    <2>5. kept \subseteq Channels /\ kept # Absent
        BY <2>2, SessionAssumption DEF Absent
    <2>6. SourcesOf(t) = kept
        BY <2>1, <2>5 DEF SourcesOf
    <2>7. ASSUME Agrees(s) PROVE Agrees(t)
        <3> SUFFICES ASSUME Live(t.chat), kept # {}
                     PROVE  /\ chats[t.chat].sources = t.sources \cap rows
                            /\ chats[t.chat].voice =
                                IF t.voice \in rows THEN t.voice ELSE NoChannel
            BY <2>6, <2>2 DEF Agrees
        <3>1. s.sources # Absent /\ SourcesOf(s) = s.sources
            BY DEF SourcesOf
        <3>2. /\ chats[t.chat].sources = s.sources \cap rows
              /\ chats[t.chat].voice = IF s.voice \in rows THEN s.voice ELSE NoChannel
            BY <2>1, <2>7, <3>1 DEF Agrees
        <3>3. s.voice \in rows => s.voice \in kept
            BY <3>1, <2>2, SessionAssumption DEF VoiceAmong
        <3> QED BY <2>1, <2>2, <3>1, <3>2, <3>3, SessionAssumption
    <2> QED BY <2>1, <2>2, <2>3, <2>4, <2>5, <2>7 DEF t
<1> QED BY <1>1, <1>2

\* A run that draws the page does too.
LEMMA Drawn ==
    ASSUME TypeOK, VoicesAreSources, NEW s \in Widgets, NEW u \in Params, VoiceAmong(s),
           DrawHome(s, u)
    PROVE  /\ page' = "home" /\ shown' = rows
           /\ ss' \in Widgets /\ url' \in Params /\ VoiceAmong(ss')
           /\ Agrees(s) => Agrees(ss')
<1> DEFINE r == Restore(s, u, rows)
<1>1. /\ page' = "home" /\ shown' = rows /\ url' = r.url /\ ss' = Clamp(r.ss, rows)
    BY DEF DrawHome
<1>2. /\ r.ss \in Widgets /\ r.url \in Params /\ VoiceAmong(r.ss)
      /\ Agrees(s) => Agrees(r.ss)
    BY Restored
<1> HIDE DEF r
<1> QED BY <1>1, <1>2, Clamped

-----------------------------------------------------------------------------
\* The inductive invariant.

\* A run of the page that changes no row.
LEMMA RowsKept ==
    ASSUME IInv, UNCHANGED <<rows, chats>>, NEW s \in Widgets, NEW u \in Params, VoiceAmong(s),
           DrawHome(s, u), ~refused' => Agrees(s), refused' \in BOOLEAN, navigated' \in BOOLEAN
    PROVE  IInv'
<1>1. /\ page' = "home" /\ shown' = rows
      /\ ss' \in Widgets /\ url' \in Params /\ VoiceAmong(ss')
      /\ Agrees(s) => Agrees(ss')
    BY Drawn DEF IInv
<1>2. TypeOK'
    BY <1>1 DEF IInv, TypeOK, VoiceAmong
<1>3. ChatsKeepASource' /\ VoicesAreSources' /\ WidgetsAtHome'
    BY <1>1 DEF IInv, ChatsKeepASource, VoicesAreSources, WidgetsAtHome, Live
<1>4. ShownScopeIsUsed'
    BY <1>1 DEF ShownScopeIsUsed, Agrees, Live, SourcesOf
<1> QED BY <1>2, <1>3, <1>4 DEF IInv

LEMMA InitInv ==
    ASSUME Init
    PROVE  IInv
<1> USE SessionAssumption
<1>1. EmptySession \in Widgets /\ EmptyUrl \in Params
    BY DEF EmptySession, EmptyUrl, Widgets, Params, Voice
<1>2. TypeOK
    BY <1>1 DEF Init, TypeOK, NoRow, Voice
<1> QED BY <1>2 DEF Init, IInv, ChatsKeepASource, VoicesAreSources, WidgetsAtHome,
                    ShownScopeIsUsed, Live, NoRow, EmptySession

\* The session of a page, and what it shows.
LEMMA SessionOfPage ==
    ASSUME IInv
    PROVE  /\ ss \in Widgets /\ url \in Params /\ VoiceAmong(ss)
           /\ ~refused => Agrees(ss)
           /\ EmptySession \in Widgets /\ EmptyUrl \in Params
           /\ VoiceAmong(EmptySession) /\ Agrees(EmptySession)
           /\ refused \in BOOLEAN /\ navigated \in BOOLEAN /\ rows \subseteq Channels
<1> USE SessionAssumption
<1>1. ss \in Widgets /\ url \in Params /\ VoiceAmong(ss)
    BY DEF IInv, TypeOK, WidgetsAtHome, VoiceAmong
<1>2. ~refused => Agrees(ss)
    BY DEF IInv, TypeOK, ShownScopeIsUsed, WidgetsAtHome, Agrees, SourcesOf
<1>3. EmptySession \in Widgets /\ EmptyUrl \in Params
    BY DEF EmptySession, EmptyUrl, Widgets, Params, Voice
<1>4. VoiceAmong(EmptySession) /\ Agrees(EmptySession)
    BY DEF EmptySession, VoiceAmong, Agrees, Live
<1> QED BY <1>1, <1>2, <1>3, <1>4 DEF IInv, TypeOK

\* What an edit of the scope leaves, in the sidebar and in the row (apply_scope_edit).
LEMMA ScopeEdited ==
    ASSUME IInv, page = "home", NEW s \in Widgets, s.sources \in SUBSET Channels, VoiceAmong(s),
           ApplyScopeEdit(s), UNCHANGED rows
    PROVE  IInv'
<1> USE SessionAssumption
<1>1. /\ s.sources # Absent /\ SourcesOf(s) = s.sources
      /\ s.voice \in s.sources \cup {NoChannel} /\ rows \subseteq Channels
    BY DEF Absent, SourcesOf, VoiceAmong, IInv, TypeOK
<1>2. CASE ~Persists(s)
    <2> DEFINE u == [url EXCEPT !.sources = SourcesOf(s), !.voice = s.voice]
    <2>1. /\ DrawHome(s, u) /\ UNCHANGED <<chats, refused>>
          /\ navigated' \in BOOLEAN
        BY <1>2, SessionOfPage DEF ApplyScopeEdit
    <2>2. u \in Params
        BY <1>1, SessionOfPage DEF Params, Voice
    <2>3. Agrees(s)
        BY <1>1, <1>2 DEF Persists, Agrees, Live
    <2> HIDE DEF u
    <2> QED BY <2>1, <2>2, <2>3, SessionOfPage, RowsKept
<1>3. CASE Persists(s) /\ Live(s.chat) /\ SourcesOf(s) \cup {s.voice} \subseteq rows \cup {NoChannel}
    <2> DEFINE new == [chats EXCEPT ![s.chat].sources = SourcesOf(s), ![s.chat].voice = s.voice]
    <2>1. chats' = new /\ refused' = FALSE /\ DrawHome(s, url) /\ navigated' = navigated
        BY <1>3 DEF ApplyScopeEdit
    <2>2. /\ s.chat \in Chats /\ s.sources \subseteq rows /\ s.sources # {}
          /\ s.voice \in rows \cup {NoChannel} /\ chats[s.chat].status = "live"
        BY <1>1, <1>3 DEF Persists, Live
    <2>3. Restore(s, url, rows).ss = s /\ Restore(s, url, rows).url = url
        BY <1>1, SessionOfPage, Restored DEF IInv
    <2>4. Clamp(s, rows) = s
        <3>1. s.sources \cap rows = s.sources
            BY <2>2
        <3>2. [s EXCEPT !.sources = s.sources, !.voice = s.voice] = s
            BY DEF Widgets
        <3>3. IF s.voice \in s.sources THEN s.voice = s.voice ELSE s.voice = NoChannel
            BY <1>1
        <3>4. rows # {}
            BY <2>2
        <3> QED BY <1>1, <3>1, <3>2, <3>3, <3>4 DEF Clamp, Widgets
    <2>5. page' = "home" /\ shown' = rows /\ ss' = s /\ url' = url
        BY <2>1, <2>3, <2>4 DEF DrawHome
    <2>6. /\ chats' \in [Chats -> [status : {"none", "live", "gone"}, sources : SUBSET Channels,
                                    voice : Voice]]
          /\ \A k \in Chats \ {s.chat} : chats'[k] = chats[k]
          /\ chats'[s.chat].status = "live" /\ chats'[s.chat].sources = s.sources
          /\ chats'[s.chat].voice = s.voice
        BY <2>1, <2>2, <1>1 DEF IInv, TypeOK, Voice
    <2> HIDE DEF new
    <2>7. TypeOK'
        BY <2>1, <2>2, <2>5, <2>6, SessionOfPage DEF IInv, TypeOK, VoiceAmong
    <2>8. ChatsKeepASource' /\ VoicesAreSources' /\ WidgetsAtHome'
        BY <1>1, <2>2, <2>5, <2>6
           DEF IInv, ChatsKeepASource, VoicesAreSources, WidgetsAtHome, Live
    <2>9. ShownScopeIsUsed'
        BY <1>1, <2>2, <2>5, <2>6 DEF ShownScopeIsUsed
    <2> QED BY <2>7, <2>8, <2>9 DEF IInv
<1>4. CASE /\ Persists(s)
           /\ ~(Live(s.chat) /\ SourcesOf(s) \cup {s.voice} \subseteq rows \cup {NoChannel})
    <2>1. ss' = s /\ refused' = TRUE /\ UNCHANGED <<chats, page, shown, url, navigated>>
        BY <1>4 DEF ApplyScopeEdit
    <2>2. TypeOK'
        BY <2>1 DEF IInv, TypeOK, VoiceAmong
    <2> QED BY <2>1, <2>2 DEF IInv, ChatsKeepASource, VoicesAreSources, WidgetsAtHome,
                              ShownScopeIsUsed, Live
<1> QED BY <1>2, <1>3, <1>4

\* A first question creates the chat with the scope shown (chat.py).
LEMMA Asked ==
    ASSUME IInv, Ask
    PROVE  IInv'
<1> USE SessionAssumption
<1> DEFINE r == Restore(ss, url, rows)
           s == Clamp(r.ss, rows)
<1>1. /\ r.ss \in Widgets /\ r.url \in Params /\ VoiceAmong(r.ss)
      /\ ~refused => Agrees(r.ss)
    BY SessionOfPage, Restored DEF IInv
<1> DEFINE u == r.url
<1>2. /\ rows # {} /\ SourcesOf(s) # {} /\ UNCHANGED <<rows, refused>>
      /\ \/ DrawHome(s, u) /\ UNCHANGED <<chats, navigated>>
         \/ \E k \in Chats :
                /\ chats[k].status = "none"
                /\ chats' = [chats EXCEPT ![k] =
                        [status |-> "live", sources |-> s.sources, voice |-> s.voice]]
                /\ page' = "home" /\ shown' = rows
                /\ ss' = [s EXCEPT !.chat = k]
                /\ url' = [u EXCEPT !.chat = k, !.sources = {}, !.voice = NoChannel]
                /\ navigated' = FALSE
    BY DEF Ask
<1>3. /\ s \in Widgets /\ VoiceAmong(s)
      /\ ~refused => Agrees(s)
      /\ s.sources \subseteq rows /\ s.sources # Absent
    <2> HIDE DEF r
    <2> QED BY <1>1, <1>2, Clamped DEF IInv
<1>4. u \in Params
    BY <1>1
<1> HIDE DEF r, s, u
<1>5. CASE DrawHome(s, u) /\ UNCHANGED <<chats, navigated>>
    BY <1>2, <1>3, <1>4, <1>5, SessionOfPage, RowsKept
<1>6. ASSUME NEW k \in Chats, chats[k].status = "none",
             chats' = [chats EXCEPT ![k] =
                        [status |-> "live", sources |-> s.sources, voice |-> s.voice]],
             page' = "home", shown' = rows, ss' = [s EXCEPT !.chat = k],
             url' = [u EXCEPT !.chat = k, !.sources = {}, !.voice = NoChannel],
             navigated' = FALSE
      PROVE  IInv'
    <2>1. /\ s.sources # {} /\ s.voice \in s.sources \cup {NoChannel} /\ rows \subseteq Channels
        BY <1>2, <1>3, SessionOfPage DEF SourcesOf, VoiceAmong
    <2>2. /\ chats' \in [Chats -> [status : {"none", "live", "gone"}, sources : SUBSET Channels,
                                    voice : Voice]]
          /\ \A l \in Chats \ {k} : chats'[l] = chats[l]
          /\ chats'[k] = [status |-> "live", sources |-> s.sources, voice |-> s.voice]
        BY <1>3, <1>6, <2>1 DEF IInv, TypeOK, Voice
    <2>3. /\ ss' \in Widgets /\ ss'.sources = s.sources /\ ss'.voice = s.voice /\ ss'.chat = k
        BY <1>3, <1>6 DEF Widgets
    <2>4. url' \in Params
        BY <1>4, <1>6 DEF Params, Voice
    <2>5. TypeOK'
        BY <1>2, <1>3, <1>6, <2>1, <2>2, <2>3, <2>4 DEF IInv, TypeOK
    <2>6. ChatsKeepASource' /\ VoicesAreSources' /\ WidgetsAtHome'
        BY <1>6, <2>1, <2>2
           DEF IInv, ChatsKeepASource, VoicesAreSources, WidgetsAtHome, Live
    <2>7. ShownScopeIsUsed'
        <3>1. rows' = rows /\ s.sources \cap rows = s.sources
            BY <1>2, <1>3
        <3>2. chats'[ss'.chat].sources = s.sources /\ chats'[ss'.chat].voice = s.voice
            BY <2>2, <2>3
        <3>3. s.voice = IF s.voice \in rows THEN s.voice ELSE NoChannel
            BY <1>3, <2>1
        <3> QED BY <2>3, <3>1, <3>2, <3>3 DEF ShownScopeIsUsed
    <2> QED BY <2>5, <2>6, <2>7 DEF IInv
<1> QED BY <1>2, <1>5, <1>6

\* A deleted channel leaves every scope it was in, and a chat that had no other goes
\* with it (delete_channel).
LEMMA ChannelGone ==
    ASSUME IInv, NEW c \in rows, rows' = rows \ {c}, chats' = Gone(c),
           UNCHANGED <<page, shown, refused, navigated>>,
           \/ UNCHANGED <<ss, url>>
           \/ page = "channels" /\ ss' = EmptySession /\ url' = EmptyUrl
    PROVE  IInv'
<1> USE SessionAssumption
<1>1. c \in Channels /\ c # NoChannel
    BY DEF IInv, TypeOK
<1>2. ASSUME NEW k \in Chats
      PROVE  /\ \/ /\ chats[k].status = "live" /\ chats[k].sources \ {c} = {}
                   /\ chats'[k] = [status |-> "gone", sources |-> {}, voice |-> NoChannel]
                \/ /\ chats[k].status = "live" => chats[k].sources \ {c} # {}
                   /\ chats'[k].status = chats[k].status
                   /\ chats'[k].sources = chats[k].sources \ {c}
                   /\ chats'[k].voice = IF chats[k].voice = c THEN NoChannel ELSE chats[k].voice
             /\ chats'[k] \in [status : {"none", "live", "gone"}, sources : SUBSET Channels,
                                voice : Voice]
    <2>1. chats[k] \in [status : {"none", "live", "gone"}, sources : SUBSET Channels,
                        voice : Voice]
        BY DEF IInv, TypeOK
    <2>2. CASE chats[k].status = "live" /\ c \in chats[k].sources /\ chats[k].sources \ {c} = {}
        <3>1. chats'[k] = [status |-> "gone", sources |-> {}, voice |-> NoChannel]
            BY <2>2 DEF Gone
        <3> QED BY <2>2, <3>1 DEF Voice
    <2>3. CASE ~(chats[k].status = "live" /\ c \in chats[k].sources /\ chats[k].sources \ {c} = {})
        <3> DEFINE v == IF chats[k].voice = c THEN NoChannel ELSE chats[k].voice
        <3>1. chats'[k] = [chats[k] EXCEPT !.sources = chats[k].sources \ {c}, !.voice = v]
            BY <2>3 DEF Gone
        <3>2. v \in Voice
            BY <2>1 DEF Voice
        <3>3. chats[k].status = "live" => chats[k].sources # {}
            BY DEF IInv, ChatsKeepASource, Live
        <3>4. chats[k].status = "live" => chats[k].sources \ {c} # {}
            BY <2>3, <3>3
        <3> HIDE DEF v
        <3>5. /\ chats'[k].status = chats[k].status
              /\ chats'[k].sources = chats[k].sources \ {c}
              /\ chats'[k].voice = v
              /\ chats'[k] \in [status : {"none", "live", "gone"}, sources : SUBSET Channels,
                                 voice : Voice]
            BY <2>1, <3>1, <3>2
        <3> QED BY <3>4, <3>5 DEF v
    <2> QED BY <2>2, <2>3
<1>3. TypeOK'
    <2>1. chats' \in [Chats -> [status : {"none", "live", "gone"}, sources : SUBSET Channels,
                                voice : Voice]]
        BY <1>2 DEF Gone
    <2>2. \A k \in Chats : chats'[k].sources \subseteq rows'
        BY <1>2 DEF IInv, TypeOK
    <2> QED BY <2>1, <2>2, SessionOfPage DEF IInv, TypeOK
<1>4. ChatsKeepASource' /\ VoicesAreSources'
    BY <1>1, <1>2 DEF IInv, ChatsKeepASource, VoicesAreSources, Live
<1>5. WidgetsAtHome'
    BY DEF IInv, WidgetsAtHome, EmptySession
<1>6. ShownScopeIsUsed'
    <2> SUFFICES ASSUME page = "home", Live(ss.chat)', SourcesOf(ss) \cap rows' # {}, ~refused,
                        ss' = ss
                 PROVE  /\ chats'[ss.chat].sources = ss.sources \cap rows'
                        /\ chats'[ss.chat].voice = IF ss.voice \in rows' THEN ss.voice ELSE NoChannel
        BY DEF ShownScopeIsUsed, SourcesOf
    <2>1. /\ chats[ss.chat].status = "live" /\ ss.chat \in Chats
          /\ chats'[ss.chat].sources = chats[ss.chat].sources \ {c}
          /\ chats'[ss.chat].voice =
                IF chats[ss.chat].voice = c THEN NoChannel ELSE chats[ss.chat].voice
        BY <1>2 DEF Live
    <2>2. /\ chats[ss.chat].sources = ss.sources \cap rows
          /\ chats[ss.chat].voice = IF ss.voice \in rows THEN ss.voice ELSE NoChannel
        BY <2>1 DEF IInv, ShownScopeIsUsed, Live
    <2> QED BY <2>1, <2>2, <1>1
<1> QED BY <1>3, <1>4, <1>5, <1>6 DEF IInv

\* Every link is a query string the page can be asked for.
LEMMA LinkAsked ==
    ASSUME IInv, OpenLink
    PROVE  \E u \in Params : DrawHome(EmptySession, u)
<1> USE SessionAssumption
<1>1. EmptyUrl \in Params
    BY SessionOfPage
<1>2. CASE DrawHome(EmptySession, url)
    BY <1>2, SessionOfPage
<1>3. ASSUME NEW k \in Chats, DrawHome(EmptySession, [EmptyUrl EXCEPT !.chat = k])
      PROVE  \E u \in Params : DrawHome(EmptySession, u)
    <2>1. [EmptyUrl EXCEPT !.chat = k] \in Params
        BY <1>1 DEF Params
    <2> QED BY <1>3, <2>1
<1>4. ASSUME NEW S \in SUBSET Channels, NEW v \in Voice,
             DrawHome(EmptySession, [EmptyUrl EXCEPT !.sources = S, !.voice = v])
      PROVE  \E u \in Params : DrawHome(EmptySession, u)
    <2>1. [EmptyUrl EXCEPT !.sources = S, !.voice = v] \in Params
        BY <1>1 DEF Params
    <2> QED BY <1>4, <2>1
<1>5. ASSUME NEW c \in Channels, DrawHome(EmptySession, [EmptyUrl EXCEPT !.channel = c])
      PROVE  \E u \in Params : DrawHome(EmptySession, u)
    <2>1. [EmptyUrl EXCEPT !.channel = c] \in Params
        BY <1>1 DEF Params, Voice
    <2> QED BY <1>5, <2>1
<1> QED BY <1>2, <1>3, <1>4, <1>5 DEF OpenLink

\* The new session it starts is sound.
LEMMA LinkOpened ==
    ASSUME IInv, OpenLink
    PROVE  IInv'
<1>1. PICK u \in Params : DrawHome(EmptySession, u)
    BY LinkAsked
<1> QED BY <1>1, SessionOfPage, RowsKept DEF OpenLink

\* No interaction breaks it.
LEMMA StepInv ==
    ASSUME IInv, [Next]_vars
    PROVE  IInv'
<1> USE SessionAssumption
<1>1. CASE ChangeSources
    <2>1. PICK S \in SUBSET shown : ApplyScopeEdit([ss EXCEPT !.sources = S, !.voice = CoerceVoice(S, @)])
        BY <1>1 DEF ChangeSources
    <2> DEFINE s == [ss EXCEPT !.sources = S, !.voice = CoerceVoice(S, ss.voice)]
    <2>2. S \in SUBSET Channels
        BY DEF IInv, TypeOK
    <2>3. CoerceVoice(S, ss.voice) \in S \cup {NoChannel}
        BY <2>2, VoiceOfScope
    <2>4. s.sources = S /\ s.voice = CoerceVoice(S, ss.voice) /\ s \in Widgets
        BY <2>2, <2>3, SessionOfPage DEF Widgets, Voice
    <2>5. VoiceAmong(s)
        BY <2>3, <2>4 DEF VoiceAmong
    <2>6. ApplyScopeEdit(s)
        BY <2>1
    <2> HIDE DEF s
    <2> QED BY <1>1, <2>2, <2>4, <2>5, <2>6, ScopeEdited DEF ChangeSources
<1>2. CASE ChangeVoice
    <2>1. PICK v \in {NoChannel} \cup (ss.sources \cap shown \cap Voiced) :
            ApplyScopeEdit([ss EXCEPT !.voice = v])
        BY <1>2 DEF ChangeVoice
    <2> DEFINE s == [ss EXCEPT !.voice = v]
    <2>2. ss \in Widgets /\ ss.sources # Absent /\ Voiced \subseteq Channels
        BY <1>2, SessionOfPage DEF ChangeVoice
    <2>3. s.sources = ss.sources /\ s.voice = v /\ s \in Widgets /\ s.sources \in SUBSET Channels
        BY <2>2 DEF Widgets, Voice, Absent
    <2>4. VoiceAmong(s)
        BY <2>3 DEF VoiceAmong
    <2>5. ApplyScopeEdit(s)
        BY <2>1
    <2> HIDE DEF s
    <2> QED BY <1>2, <2>3, <2>4, <2>5, ScopeEdited DEF ChangeVoice
<1>3. CASE NewChat
    <2> DEFINE r == Restore(ss, url, rows)
               s == Clamp(r.ss, rows)
               u == [r.url EXCEPT !.chat = NoChat, !.sources = SourcesOf(s), !.voice = s.voice]
               t == [s EXCEPT !.chat = NoChat]
    <2>1. /\ DrawHome(t, u) /\ refused' = FALSE /\ navigated' = FALSE
          /\ UNCHANGED <<rows, chats>>
        BY <1>3 DEF NewChat
    <2>2. r.ss \in Widgets /\ r.url \in Params /\ VoiceAmong(r.ss)
        BY SessionOfPage, Restored DEF IInv
    <2>3. s \in Widgets /\ VoiceAmong(s)
        <3> HIDE DEF r
        <3> QED BY <2>2, Clamped DEF IInv
    <2> HIDE DEF r, s
    <2>4. t \in Widgets /\ t.chat = NoChat /\ t.sources = s.sources /\ t.voice = s.voice
        BY <2>3 DEF Widgets
    <2>5. VoiceAmong(t) /\ Agrees(t)
        BY <2>3, <2>4 DEF VoiceAmong, Agrees, Live
    <2>6. SourcesOf(s) \in SUBSET Channels /\ s.voice \in Voice
        BY <2>3 DEF SourcesOf, Widgets
    <2>7. u \in Params
        BY <2>2, <2>6 DEF Params
    <2> HIDE DEF u, t
    <2> QED BY <2>1, <2>4, <2>5, <2>7, RowsKept
<1>4. CASE OpenChat
    <2>1. PICK k \in Chats :
            IF Live(k)
            THEN /\ DrawHome(LoadChat(k, url).ss, LoadChat(k, url).url)
                 /\ refused' = FALSE /\ navigated' = FALSE
            ELSE DrawHome(ss, url) /\ UNCHANGED <<refused, navigated>>
        BY <1>4 DEF OpenChat
    <2>2. UNCHANGED <<rows, chats>>
        BY <1>4 DEF OpenChat
    <2>3. CASE Live(k)
        <3> DEFINE r == LoadChat(k, url)
        <3>1. /\ r.ss \in Widgets /\ r.url \in Params /\ VoiceAmong(r.ss) /\ Agrees(r.ss)
            BY <2>3, ChatLoaded, SessionOfPage DEF IInv
        <3>2. DrawHome(r.ss, r.url) /\ refused' = FALSE /\ navigated' = FALSE
            BY <2>1, <2>3
        <3> HIDE DEF r
        <3> QED BY <2>2, <3>1, <3>2, RowsKept
    <2>4. CASE ~Live(k)
        BY <2>1, <2>2, <2>4, SessionOfPage, RowsKept
    <2> QED BY <2>3, <2>4
<1>5. CASE Ask
    BY <1>5, Asked
<1>6. CASE GoToChannels
    <2>1. ss' \in Widgets /\ ss'.sources = Absent
        BY <1>6, SessionOfPage DEF GoToChannels, Widgets, Voice
    <2>2. TypeOK'
        BY <1>6, <2>1, SessionOfPage DEF GoToChannels, IInv, TypeOK
    <2> QED BY <1>6, <2>1, <2>2 DEF GoToChannels, IInv, ChatsKeepASource, VoicesAreSources,
                                    WidgetsAtHome, ShownScopeIsUsed, Live
<1>7. CASE GoHome
    BY <1>7, SessionOfPage, RowsKept DEF GoHome
<1>8. CASE ChatButton
    <2>1. PICK c \in rows : DrawHome(StartScope({c}, DefaultVoice({c}), url).ss, EmptyUrl)
        BY <1>8 DEF ChatButton
    <2> DEFINE r == StartScope({c}, DefaultVoice({c}), url)
    <2>2. {c} \in SUBSET Channels
        BY SessionOfPage
    <2>3. DefaultVoice({c}) \in {c} \cup {NoChannel}
        BY <2>2, VoiceOfScope
    <2>4. r.ss \in Widgets /\ VoiceAmong(r.ss) /\ Agrees(r.ss)
        BY <2>2, <2>3, ScopeStarted, SessionOfPage
    <2>5. DrawHome(r.ss, EmptyUrl)
        BY <2>1
    <2> HIDE DEF r
    <2> QED BY <1>8, <2>4, <2>5, SessionOfPage, RowsKept DEF ChatButton
<1>9. CASE OpenLink
    BY <1>9, LinkOpened
<1>10. CASE OtherDeletes
    BY <1>10, ChannelGone DEF OtherDeletes
<1>11. CASE DeleteHere
    BY <1>11, ChannelGone DEF DeleteHere
<1>12. CASE UNCHANGED vars
    BY <1>12 DEF vars, IInv, TypeOK, ChatsKeepASource, VoicesAreSources, WidgetsAtHome,
                 ShownScopeIsUsed, Live, SourcesOf
<1> QED BY <1>1, <1>2, <1>3, <1>4, <1>5, <1>6, <1>7, <1>8, <1>9, <1>10, <1>11, <1>12 DEF Next

LEMMA Invariance == Spec => []IInv
<1>1. Init => IInv
    BY InitInv
<1>2. IInv /\ [Next]_vars => IInv'
    BY StepInv
<1> QED BY <1>1, <1>2, PTL DEF Spec

-----------------------------------------------------------------------------
\* The sidebar, the URL and the rows stay well formed: a voice that is drawn is one
\* of the sources drawn, and no chat names a channel without a row.
THEOREM TypeCorrectness == Spec => []TypeOK
<1>1. IInv => TypeOK
    BY DEF IInv
<1> QED BY <1>1, Invariance, PTL

\* No interaction, and no deletion, leaves a live chat without a source.
THEOREM SourceKept == Spec => []ChatsKeepASource
<1>1. IInv => ChatsKeepASource
    BY DEF IInv
<1> QED BY <1>1, Invariance, PTL

\* What the sidebar shows is what the open chat's row holds.
THEOREM ShownIsUsed == Spec => []ShownScopeIsUsed
<1>1. IInv => ShownScopeIsUsed
    BY DEF IInv
<1> QED BY <1>1, Invariance, PTL

-----------------------------------------------------------------------------
\* What the URL stands for, and the refresh that opens it.

\* A voice that can be chosen.
Voicing(v) == v \in Voiced \cup {NoChannel}

\* The URL u gives a new session what s shows: the open chat, or the draft.
Mirrors(s, u) ==
    /\ s.chat # NoChat => u.chat = s.chat
    /\ s.chat = NoChat /\ SourcesOf(s) \cap rows # {} =>
        /\ u.sources \cap rows = SourcesOf(s) \cap rows
        /\ CoerceVoice(u.sources \cap rows, u.voice) = IF s.voice \in rows THEN s.voice ELSE NoChannel

\* A draft's URL names no chat.
DraftUrl(s, u) == s.chat = NoChat => u.chat = NoChat

\* What a run leaves in the URL, and the voices it can be given.
UrlInv ==
    /\ page = "home" /\ ~navigated => Mirrors(ss, url)
    /\ page = "channels" => url.chat = NoChat
    /\ DraftUrl(ss, url)
    /\ Voicing(ss.voice)
    /\ \A k \in Chats : Voicing(chats[k].voice)

\* Every scope the page starts has a voice that can be chosen.
LEMMA VoicingOfScope ==
    ASSUME NEW S, NEW v
    PROVE  Voicing(DefaultVoice(S)) /\ Voicing(CoerceVoice(S, v))
<1>1. CASE \E c \in Voiced : S = {c}
    BY <1>1 DEF DefaultVoice, CoerceVoice, Voicing
<1>2. CASE ~\E c \in Voiced : S = {c}
    BY <1>2 DEF DefaultVoice, CoerceVoice, Voicing
<1> QED BY <1>1, <1>2

\* start_scope writes the URL with the draft.
LEMMA ScopeMirrored ==
    ASSUME IInv, NEW S \in SUBSET Channels, NEW v \in S \cup {NoChannel}, Voicing(v), NEW u \in Params
    PROVE  LET r == StartScope(S, v, u) IN
           Mirrors(r.ss, r.url) /\ DraftUrl(r.ss, r.url) /\ Voicing(r.ss.voice)
<1> USE SessionAssumption
<1> DEFINE r == StartScope(S, v, u)
<1>1. /\ r.ss = [sources |-> S, voice |-> v, chat |-> NoChat]
      /\ r.url = [u EXCEPT !.chat = NoChat, !.sources = S, !.voice = v]
    BY DEF StartScope
<1>2. /\ r.url.chat = NoChat /\ r.url.sources = S /\ r.url.voice = v
      /\ r.ss.sources = S /\ r.ss.voice = v /\ r.ss.chat = NoChat
    BY <1>1 DEF Params
<1> HIDE DEF r
<1>3. SourcesOf(r.ss) = S
    BY <1>2 DEF SourcesOf, Absent
<1>4. rows \subseteq Channels
    BY DEF IInv, TypeOK
<1>5. CoerceVoice(S \cap rows, v) = IF v \in rows THEN v ELSE NoChannel
    BY <1>4 DEF CoerceVoice, Voicing
<1> QED BY <1>2, <1>3, <1>5 DEF Mirrors, DraftUrl, r

\* Restoring and clamping keep the URL a mirror, and make it one for a new session.
LEMMA UrlRestored ==
    ASSUME IInv, \A k \in Chats : Voicing(chats[k].voice),
           NEW s \in Widgets, NEW u \in Params, VoiceAmong(s), Voicing(s.voice),
           s.sources # Absent => DraftUrl(s, u)
    PROVE  LET r == Restore(s, u, rows)
               t == Clamp(r.ss, rows)
           IN /\ DraftUrl(t, r.url) /\ Voicing(t.voice)
              /\ Mirrors(s, u) \/ (s.chat = NoChat /\ s.sources = Absent) => Mirrors(t, r.url)
<1> USE SessionAssumption
<1> DEFINE r == Restore(s, u, rows)
           draft == u.sources \cap rows
           fresh == s.chat = NoChat /\ s.sources = Absent
<1>2. r.ss \in Widgets /\ r.url \in Params /\ VoiceAmong(r.ss)
    BY Restored DEF IInv
<1>3. /\ DraftUrl(r.ss, r.url) /\ Voicing(r.ss.voice)
      /\ Mirrors(s, u) \/ fresh => Mirrors(r.ss, r.url)
    <2>1. CASE ~fresh
        <3>1. r.ss = s /\ r.url = u
            BY <2>1, Restored DEF IInv
        <3>2. DraftUrl(s, u)
            BY <2>1 DEF DraftUrl
        <3> HIDE DEF r
        <3> QED BY <2>1, <3>1, <3>2
    <2>2. CASE fresh
        <3>1. \/ Live(u.chat) /\ r = LoadChat(u.chat, u)
              \/ r = StartScope(draft, CoerceVoice(draft, u.voice), u)
              \/ u.channel \in rows /\ r = StartScope({u.channel}, DefaultVoice({u.channel}), u)
              \/ r = StartScope(rows, DefaultVoice(rows), u)
            BY <2>2 DEF Restore
        <3>2. rows \in SUBSET Channels /\ draft \in SUBSET Channels
            BY DEF IInv, TypeOK
        <3>3. ASSUME NEW S \in SUBSET Channels, NEW v \in S \cup {NoChannel}, Voicing(v), r = StartScope(S, v, u)
              PROVE  Mirrors(r.ss, r.url) /\ DraftUrl(r.ss, r.url) /\ Voicing(r.ss.voice)
            <4> HIDE DEF r
            <4> QED BY <3>3, ScopeMirrored
        <3>4. ASSUME Live(u.chat), r = LoadChat(u.chat, u)
              PROVE  Mirrors(r.ss, r.url) /\ DraftUrl(r.ss, r.url) /\ Voicing(r.ss.voice)
            <4>1. u.chat # NoChat /\ u.chat \in Chats
                BY <3>4 DEF Live
            <4>2. r.ss.chat = u.chat /\ r.url.chat = u.chat /\ r.ss.voice = chats[u.chat].voice
                <5> HIDE DEF r
                <5> QED BY <3>4 DEF LoadChat, Params
            <4> HIDE DEF r
            <4> QED BY <4>1, <4>2 DEF Mirrors, DraftUrl
        <3> HIDE DEF r
        <3>5. CASE r = StartScope(draft, CoerceVoice(draft, u.voice), u)
            BY <3>2, <3>3, <3>5, VoiceOfScope, VoicingOfScope
        <3>6. CASE u.channel \in rows /\ r = StartScope({u.channel}, DefaultVoice({u.channel}), u)
            <4>1. {u.channel} \in SUBSET Channels
                BY <3>2, <3>6
            <4>2. DefaultVoice({u.channel}) \in {u.channel} \cup {NoChannel}
                BY <4>1, VoiceOfScope
            <4> QED BY <3>3, <3>6, <4>1, <4>2, VoicingOfScope
        <3>7. CASE r = StartScope(rows, DefaultVoice(rows), u)
            BY <3>2, <3>3, <3>7, VoiceOfScope, VoicingOfScope
        <3> QED BY <3>1, <3>4, <3>5, <3>6, <3>7
    <2> QED BY <2>1, <2>2
<1> HIDE DEF r
<1>4. ASSUME NEW t \in Widgets, VoiceAmong(t), Voicing(t.voice), NEW w \in Params
      PROVE  LET c == Clamp(t, rows) IN
             c.chat = t.chat /\ Voicing(c.voice) /\ (Mirrors(t, w) => Mirrors(c, w))
    <2> DEFINE c == Clamp(t, rows)
               kept == SourcesOf(t) \cap rows
    <2>1. CASE rows = {}
        BY <1>4, <2>1 DEF Clamp
    <2>2. CASE rows # {}
        <3>1. /\ c.sources = kept /\ c.chat = t.chat
              /\ c.voice = IF t.voice \in kept THEN t.voice ELSE NoChannel
            BY <2>2 DEF Clamp, Widgets
        <3> HIDE DEF c
        <3>2. SourcesOf(c) = kept /\ rows \subseteq Channels
            BY <3>1 DEF SourcesOf, Absent, IInv, TypeOK
        <3>3. kept # {} => (t.voice \in rows <=> t.voice \in kept)
            BY <1>4, <3>2 DEF VoiceAmong, SourcesOf
        <3>4. Mirrors(t, w) => Mirrors(c, w)
            BY <3>1, <3>2, <3>3 DEF Mirrors
        <3> QED BY <1>4, <3>1, <3>4 DEF Voicing, c
    <2> QED BY <2>1, <2>2
<1>5. LET t == Clamp(r.ss, rows) IN
      /\ DraftUrl(t, r.url) /\ Voicing(t.voice)
      /\ Mirrors(s, u) \/ fresh => Mirrors(t, r.url)
    BY <1>2, <1>3, <1>4 DEF DraftUrl
<1> QED BY <1>5 DEF r

\* A run of the page that changes no row, and draws from s and u.
LEMMA UrlKept ==
    ASSUME IInv, UrlInv, UNCHANGED <<rows, chats>>,
           NEW s \in Widgets, NEW u \in Params, VoiceAmong(s), Voicing(s.voice), DrawHome(s, u),
           s.sources # Absent => DraftUrl(s, u),
           ~navigated' => Mirrors(s, u) \/ (s.chat = NoChat /\ s.sources = Absent)
    PROVE  UrlInv'
<1>1. /\ DraftUrl(ss', url') /\ Voicing(ss'.voice)
      /\ Mirrors(s, u) \/ (s.chat = NoChat /\ s.sources = Absent) => Mirrors(ss', url')
    BY UrlRestored DEF UrlInv, DrawHome
<1>2. page' = "home"
    BY DEF DrawHome
<1>3. ~navigated' => Mirrors(ss, url)'
    BY <1>1 DEF Mirrors, SourcesOf
<1> QED BY <1>1, <1>2, <1>3 DEF UrlInv, DraftUrl

\* A new session has asked for nothing.
LEMMA UrlInit ==
    ASSUME Init
    PROVE  UrlInv
BY SessionAssumption
   DEF Init, UrlInv, EmptySession, EmptyUrl, NoRow, DraftUrl, Voicing

\* An edit of the scope is written to the URL of a draft, and to the row of a chat.
LEMMA UrlEdited ==
    ASSUME IInv, UrlInv, page = "home", NEW s \in Widgets, s.sources \in SUBSET Channels,
           VoiceAmong(s), Voicing(s.voice), s.chat = ss.chat, ApplyScopeEdit(s), UNCHANGED rows
    PROVE  UrlInv'
<1> USE SessionAssumption
<1>1. /\ s.sources # Absent /\ SourcesOf(s) = s.sources
      /\ s.voice \in s.sources \cup {NoChannel} /\ rows \subseteq Channels
    BY DEF Absent, SourcesOf, VoiceAmong, IInv, TypeOK
<1>2. s.chat # NoChat /\ ~navigated => url.chat = s.chat
    BY DEF UrlInv, Mirrors
<1>3. DraftUrl(s, url)
    BY DEF UrlInv, DraftUrl
<1>4. CASE ~Persists(s)
    <2> DEFINE u == [url EXCEPT !.sources = SourcesOf(s), !.voice = s.voice]
    <2>1. /\ DrawHome(s, u) /\ UNCHANGED chats
          /\ navigated' = (navigated /\ s.chat # NoChat)
        BY <1>4 DEF ApplyScopeEdit
    <2>2. /\ u \in Params
          /\ u.chat = url.chat /\ u.sources = s.sources /\ u.voice = s.voice
        BY <1>1, SessionOfPage DEF Params, Voice
    <2> HIDE DEF u
    <2>3. DraftUrl(s, u)
        BY <1>3, <2>2 DEF DraftUrl
    <2>4. CoerceVoice(s.sources \cap rows, s.voice) = IF s.voice \in rows THEN s.voice ELSE NoChannel
        BY <1>1 DEF CoerceVoice, Voicing
    <2>5. ~navigated' => Mirrors(s, u)
        BY <1>1, <1>2, <2>1, <2>2, <2>4 DEF Mirrors
    <2>6. \A k \in Chats : Voicing(chats'[k].voice)
        BY <2>1 DEF UrlInv
    <2> QED BY <2>1, <2>2, <2>3, <2>5, <2>6, UrlKept
<1>5. CASE Persists(s) /\ Live(s.chat) /\ SourcesOf(s) \cup {s.voice} \subseteq rows \cup {NoChannel}
    <2> DEFINE new == [chats EXCEPT ![s.chat].sources = SourcesOf(s), ![s.chat].voice = s.voice]
    <2>1. chats' = new /\ DrawHome(s, url) /\ navigated' = navigated
        BY <1>5 DEF ApplyScopeEdit
    <2>2. s.chat # NoChat /\ s.chat \in Chats /\ rows # {}
        BY <1>1, <1>5 DEF Persists, Live
    <2>3. \A k \in Chats : Voicing(chats'[k].voice)
        <3>1. ASSUME NEW k \in Chats
              PROVE  Voicing(new[k].voice)
            <4>1. CASE k = s.chat
                <5>1. new[k].voice = s.voice
                    BY <4>1 DEF IInv, TypeOK
                <5> QED BY <5>1
            <4>2. CASE k # s.chat
                <5>1. new[k] = chats[k]
                    BY <4>2 DEF IInv, TypeOK
                <5> QED BY <5>1 DEF UrlInv
            <4> QED BY <4>1, <4>2
        <3> HIDE DEF new
        <3> QED BY <2>1, <3>1
    <2> HIDE DEF new
    <2>4. /\ url' = url /\ page' = "home"
          /\ ss' = Clamp(s, rows)
        BY <1>1, <2>1, SessionOfPage, Restored DEF IInv, DrawHome
    <2>5. ss'.chat = s.chat /\ Voicing(ss'.voice)
        BY <2>2, <2>4 DEF Clamp, Widgets, Voicing
    <2>6. ~navigated' => Mirrors(ss, url)'
        BY <1>2, <2>1, <2>2, <2>4, <2>5 DEF Mirrors
    <2> QED BY <2>2, <2>3, <2>4, <2>5, <2>6 DEF UrlInv, DraftUrl
<1>6. CASE /\ Persists(s)
           /\ ~(Live(s.chat) /\ SourcesOf(s) \cup {s.voice} \subseteq rows \cup {NoChannel})
    <2>1. ss' = s /\ UNCHANGED <<chats, page, url, navigated>> /\ s.chat # NoChat
        BY <1>6 DEF ApplyScopeEdit, Persists
    <2> QED BY <1>2, <1>3, <2>1 DEF UrlInv, Mirrors, DraftUrl
<1> QED BY <1>4, <1>5, <1>6

\* The page as NewChat and a question see it: drawn, and not yet drawn again.
LEMMA UrlSeen ==
    ASSUME IInv, UrlInv, page = "home", rows # {}
    PROVE  LET r == Restore(ss, url, rows)
               s == Clamp(r.ss, rows)
           IN /\ s \in Widgets /\ VoiceAmong(s) /\ r.url \in Params
              /\ s.sources # Absent /\ s.sources \subseteq rows
              /\ DraftUrl(s, r.url) /\ Voicing(s.voice)
              /\ ~navigated => Mirrors(s, r.url)
<1> DEFINE r == Restore(ss, url, rows)
           s == Clamp(r.ss, rows)
<1>1. r.ss \in Widgets /\ r.url \in Params /\ VoiceAmong(r.ss)
    BY SessionOfPage, Restored DEF IInv
<1>2. s \in Widgets /\ VoiceAmong(s) /\ s.sources # Absent /\ s.sources \subseteq rows
    <2> HIDE DEF r
    <2> QED BY <1>1, Clamped DEF IInv
<1>3. /\ DraftUrl(s, r.url) /\ Voicing(s.voice)
      /\ Mirrors(ss, url) => Mirrors(s, r.url)
    BY SessionOfPage, UrlRestored DEF UrlInv
<1>4. ~navigated => Mirrors(ss, url)
    BY DEF UrlInv
<1> HIDE DEF r, s
<1>5. /\ s \in Widgets /\ VoiceAmong(s) /\ r.url \in Params
      /\ s.sources # Absent /\ s.sources \subseteq rows
      /\ DraftUrl(s, r.url) /\ Voicing(s.voice)
      /\ ~navigated => Mirrors(s, r.url)
    BY <1>1, <1>2, <1>3, <1>4
<1> QED BY <1>5 DEF r, s

\* A rerun that draws page and URL as they are.
LEMMA UrlRedrawn ==
    ASSUME IInv, UrlInv, UNCHANGED <<rows, chats>>, DrawHome(ss, url),
           ~navigated' => Mirrors(ss, url) \/ (ss.chat = NoChat /\ ss.sources = Absent)
    PROVE  UrlInv'
BY SessionOfPage, UrlKept DEF UrlInv

\* A channel that goes leaves every scope.
LEMMA UrlOfGone ==
    ASSUME IInv, UrlInv, NEW c \in rows, rows' = rows \ {c}, chats' = Gone(c),
           UNCHANGED <<page, navigated>>,
           \/ UNCHANGED <<ss, url>>
           \/ page = "channels" /\ ss' = EmptySession /\ url' = EmptyUrl
    PROVE  UrlInv'
<1> USE SessionAssumption
<1>1. \A k \in Chats : Voicing(chats'[k].voice)
    <2> SUFFICES ASSUME NEW k \in Chats PROVE Voicing(chats'[k].voice)
        OBVIOUS
    <2> DEFINE v == IF chats[k].voice = c THEN NoChannel ELSE chats[k].voice
               left == chats[k].sources \ {c}
    <2>1. \/ chats'[k] = [status |-> "gone", sources |-> {}, voice |-> NoChannel]
          \/ chats'[k] = [chats[k] EXCEPT !.sources = left, !.voice = v]
        BY DEF Gone
    <2>2. Voicing(v)
        BY DEF UrlInv, Voicing
    <2>3. chats[k] \in [status : {"none", "live", "gone"}, sources : SUBSET Channels, voice : Voice]
        BY DEF IInv, TypeOK
    <2> HIDE DEF v, left
    <2>4. [chats[k] EXCEPT !.sources = left, !.voice = v].voice = v
        BY <2>3
    <2>5. [status |-> "gone", sources |-> {}, voice |-> NoChannel].voice = NoChannel
        OBVIOUS
    <2>6. chats'[k].voice \in {NoChannel, v}
        BY <2>1, <2>4, <2>5
    <2> QED BY <2>2, <2>6 DEF Voicing
<1>2. CASE UNCHANGED <<ss, url>>
    <2>1. ASSUME Mirrors(ss, url) PROVE Mirrors(ss, url)'
        <3> DEFINE S == SourcesOf(ss)
                   U == url.sources
        <3>1. /\ ss' = ss /\ url' = url
              /\ SourcesOf(ss)' = S
            BY <1>2 DEF SourcesOf
        <3>2. S \subseteq Channels /\ c # NoChannel
            BY SessionOfPage DEF SourcesOf, Widgets
        <3> HIDE DEF S, U
        <3>3. ASSUME ss.chat = NoChat, S \cap rows' # {}
              PROVE  /\ U \cap rows' = S \cap rows'
                     /\ CoerceVoice(U \cap rows', url.voice) =
                            IF ss.voice \in rows' THEN ss.voice ELSE NoChannel
            <4>1. /\ U \cap rows = S \cap rows
                  /\ CoerceVoice(U \cap rows, url.voice) =
                        IF ss.voice \in rows THEN ss.voice ELSE NoChannel
                BY <2>1, <3>3 DEF Mirrors, S, U
            <4>2. U \cap rows' = (U \cap rows) \ {c} /\ S \cap rows' = (S \cap rows) \ {c}
                OBVIOUS
            <4>3. NoChannel \notin rows
                BY SessionOfPage
            <4> QED BY <3>2, <4>1, <4>2, <4>3 DEF CoerceVoice
        <3> QED BY <2>1, <3>1, <3>3 DEF Mirrors, S, U
    <2> QED BY <1>1, <1>2, <2>1 DEF UrlInv, DraftUrl
<1>3. CASE page = "channels" /\ ss' = EmptySession /\ url' = EmptyUrl
    BY <1>1, <1>3 DEF UrlInv, EmptySession, EmptyUrl, DraftUrl, Voicing
<1> QED BY <1>2, <1>3

\* No interaction parts the URL from what it stands for.
LEMMA UrlStep ==
    ASSUME IInv, UrlInv, [Next]_vars
    PROVE  UrlInv'
<1> USE SessionAssumption
<1>1. CASE ChangeSources
    <2>1. PICK S \in SUBSET shown : ApplyScopeEdit([ss EXCEPT !.sources = S, !.voice = CoerceVoice(S, @)])
        BY <1>1 DEF ChangeSources
    <2> DEFINE s == [ss EXCEPT !.sources = S, !.voice = CoerceVoice(S, ss.voice)]
    <2>2. S \in SUBSET Channels
        BY DEF IInv, TypeOK
    <2>3. CoerceVoice(S, ss.voice) \in S \cup {NoChannel} /\ Voicing(CoerceVoice(S, ss.voice))
        BY <2>2, VoiceOfScope, VoicingOfScope
    <2>4. /\ s.sources = S /\ s.voice = CoerceVoice(S, ss.voice) /\ s.chat = ss.chat
          /\ s \in Widgets
        BY <2>2, <2>3, SessionOfPage DEF Widgets, Voice
    <2>5. VoiceAmong(s) /\ Voicing(s.voice)
        BY <2>3, <2>4 DEF VoiceAmong
    <2>6. ApplyScopeEdit(s)
        BY <2>1
    <2> HIDE DEF s
    <2> QED BY <1>1, <2>2, <2>4, <2>5, <2>6, UrlEdited DEF ChangeSources
<1>2. CASE ChangeVoice
    <2>1. PICK v \in {NoChannel} \cup (ss.sources \cap shown \cap Voiced) :
            ApplyScopeEdit([ss EXCEPT !.voice = v])
        BY <1>2 DEF ChangeVoice
    <2> DEFINE s == [ss EXCEPT !.voice = v]
    <2>2. ss \in Widgets /\ ss.sources # Absent /\ Voiced \subseteq Channels
        BY <1>2, SessionOfPage DEF ChangeVoice
    <2>3. /\ s.sources = ss.sources /\ s.voice = v /\ s.chat = ss.chat
          /\ s \in Widgets /\ s.sources \in SUBSET Channels
        BY <2>2 DEF Widgets, Voice, Absent
    <2>4. VoiceAmong(s) /\ Voicing(s.voice)
        BY <2>3 DEF VoiceAmong, Voicing
    <2>5. ApplyScopeEdit(s)
        BY <2>1
    <2> HIDE DEF s
    <2> QED BY <1>2, <2>3, <2>4, <2>5, UrlEdited DEF ChangeVoice
<1>3. CASE NewChat
    <2> DEFINE r == Restore(ss, url, rows)
               s == Clamp(r.ss, rows)
               u == [r.url EXCEPT !.chat = NoChat, !.sources = SourcesOf(s), !.voice = s.voice]
               t == [s EXCEPT !.chat = NoChat]
    <2>1. DrawHome(t, u) /\ UNCHANGED <<rows, chats>> /\ page = "home" /\ rows # {}
        BY <1>3 DEF NewChat
    <2>2. /\ s \in Widgets /\ VoiceAmong(s) /\ r.url \in Params
          /\ s.sources # Absent /\ s.sources \subseteq rows /\ Voicing(s.voice)
        BY <2>1, UrlSeen
    <2> HIDE DEF r, s
    <2>3. t \in Widgets /\ t.chat = NoChat /\ t.sources = s.sources /\ t.voice = s.voice
        BY <2>2 DEF Widgets
    <2>4. SourcesOf(s) = s.sources /\ s.sources \in SUBSET Channels /\ s.voice \in Voice
        BY <2>2, SessionOfPage DEF SourcesOf, Widgets
    <2>5. u \in Params /\ u.chat = NoChat /\ u.sources = s.sources /\ u.voice = s.voice
        BY <2>2, <2>4 DEF Params
    <2> HIDE DEF u, t
    <2>6. CoerceVoice(s.sources, s.voice) = IF s.voice \in rows THEN s.voice ELSE NoChannel
        BY <2>2, SessionOfPage DEF CoerceVoice, Voicing, VoiceAmong
    <2>7. s.sources \cap rows = s.sources /\ SourcesOf(t) = s.sources
        BY <2>2, <2>3 DEF SourcesOf
    <2>8. Mirrors(t, u) /\ DraftUrl(t, u) /\ VoiceAmong(t) /\ Voicing(t.voice)
        BY <2>2, <2>3, <2>5, <2>6, <2>7 DEF Mirrors, DraftUrl, VoiceAmong
    <2> QED BY <2>1, <2>3, <2>5, <2>8, UrlKept
<1>4. CASE OpenChat
    <2>1. PICK k \in Chats :
            IF Live(k)
            THEN /\ DrawHome(LoadChat(k, url).ss, LoadChat(k, url).url)
                 /\ navigated' = FALSE
            ELSE DrawHome(ss, url) /\ UNCHANGED navigated
        BY <1>4 DEF OpenChat
    <2>2. UNCHANGED <<rows, chats>> /\ page = "home"
        BY <1>4 DEF OpenChat
    <2>3. CASE Live(k)
        <3> DEFINE r == LoadChat(k, url)
        <3>1. r.ss \in Widgets /\ r.url \in Params /\ VoiceAmong(r.ss)
            BY <2>3, ChatLoaded, SessionOfPage DEF IInv
        <3>2. DrawHome(r.ss, r.url)
            BY <2>1, <2>3
        <3>3. r.ss.chat = k /\ r.ss.voice = chats[k].voice /\ r.url.chat = k /\ k # NoChat
            BY SessionOfPage DEF LoadChat, Params
        <3>4. Mirrors(r.ss, r.url) /\ DraftUrl(r.ss, r.url) /\ Voicing(r.ss.voice)
            <4> HIDE DEF r
            <4> QED BY <3>3 DEF Mirrors, DraftUrl, UrlInv
        <3> HIDE DEF r
        <3> QED BY <2>2, <3>1, <3>2, <3>4, UrlKept
    <2>4. CASE ~Live(k)
        BY <2>1, <2>2, <2>4, UrlRedrawn DEF UrlInv
    <2> QED BY <2>3, <2>4
<1>5. CASE Ask
    <2> DEFINE r == Restore(ss, url, rows)
               s == Clamp(r.ss, rows)
               u == r.url
    <2>1. /\ page = "home" /\ rows # {} /\ rows' = rows
          /\ \/ DrawHome(s, u) /\ UNCHANGED <<chats, navigated>>
             \/ \E k \in Chats :
                    /\ chats' = [chats EXCEPT ![k] =
                            [status |-> "live", sources |-> s.sources, voice |-> s.voice]]
                    /\ page' = "home"
                    /\ ss' = [s EXCEPT !.chat = k]
                    /\ url' = [u EXCEPT !.chat = k, !.sources = {}, !.voice = NoChannel]
        BY <1>5 DEF Ask
    <2>2. /\ s \in Widgets /\ VoiceAmong(s) /\ u \in Params
          /\ DraftUrl(s, u) /\ Voicing(s.voice)
          /\ ~navigated => Mirrors(s, u)
        BY <2>1, UrlSeen
    <2> HIDE DEF r, s, u
    <2>3. CASE DrawHome(s, u) /\ UNCHANGED <<chats, navigated>>
        BY <2>1, <2>2, <2>3, UrlKept
    <2>4. ASSUME NEW k \in Chats,
                 chats' = [chats EXCEPT ![k] =
                            [status |-> "live", sources |-> s.sources, voice |-> s.voice]],
                 page' = "home", ss' = [s EXCEPT !.chat = k],
                 url' = [u EXCEPT !.chat = k, !.sources = {}, !.voice = NoChannel]
          PROVE  UrlInv'
        <3>1. ss'.chat = k /\ ss'.voice = s.voice /\ k # NoChat
            BY <2>2, <2>4 DEF Widgets
        <3>2. url'.chat = k
            BY <2>2, <2>4 DEF Params
        <3>3. ASSUME NEW j \in Chats PROVE Voicing(chats'[j].voice)
            <4>1. CASE j = k
                <5>1. chats'[j] = [status |-> "live", sources |-> s.sources, voice |-> s.voice]
                    BY <2>4, <4>1 DEF IInv, TypeOK
                <5> QED BY <2>2, <5>1
            <4>2. CASE j # k
                <5>1. chats'[j] = chats[j]
                    BY <2>4, <4>2 DEF IInv, TypeOK
                <5> QED BY <5>1 DEF UrlInv
            <4> QED BY <4>1, <4>2
        <3> QED BY <2>2, <2>4, <3>1, <3>2, <3>3 DEF UrlInv, Mirrors, DraftUrl
    <2> QED BY <2>1, <2>3, <2>4
<1>6. CASE GoToChannels
    <2>1. /\ page' = "channels" /\ url' = EmptyUrl /\ chats' = chats
          /\ ss'.voice = NoChannel
        BY <1>6, SessionOfPage DEF GoToChannels, Widgets
    <2> QED BY <2>1 DEF UrlInv, DraftUrl, EmptyUrl, Voicing
<1>7. CASE GoHome
    <2>1. /\ DrawHome(ss, url) /\ navigated' = (ss.chat # NoChat)
          /\ UNCHANGED <<rows, chats>> /\ ss.sources = Absent
        BY <1>7 DEF GoHome, IInv, WidgetsAtHome
    <2> QED BY <2>1, UrlRedrawn
<1>8. CASE ChatButton
    <2>1. PICK c \in rows : DrawHome(StartScope({c}, DefaultVoice({c}), url).ss, EmptyUrl)
        BY <1>8 DEF ChatButton
    <2>2. navigated' = TRUE /\ UNCHANGED <<rows, chats>>
        BY <1>8 DEF ChatButton
    <2> DEFINE r == StartScope({c}, DefaultVoice({c}), url)
    <2>3. {c} \in SUBSET Channels
        BY SessionOfPage
    <2>4. DefaultVoice({c}) \in {c} \cup {NoChannel} /\ Voicing(DefaultVoice({c}))
        BY <2>3, VoiceOfScope, VoicingOfScope
    <2>5. r.ss \in Widgets /\ VoiceAmong(r.ss)
        BY <2>3, <2>4, ScopeStarted, SessionOfPage
    <2>6. Voicing(r.ss.voice)
        BY <2>4 DEF StartScope
    <2>7. DrawHome(r.ss, EmptyUrl)
        BY <2>1
    <2>8. DraftUrl(r.ss, EmptyUrl)
        BY DEF DraftUrl, EmptyUrl
    <2> HIDE DEF r
    <2> QED BY <2>2, <2>5, <2>6, <2>7, <2>8, SessionOfPage, UrlKept
<1>9. CASE OpenLink
    <2>1. PICK u \in Params : DrawHome(EmptySession, u)
        BY <1>9, LinkAsked
    <2>2. UNCHANGED <<rows, chats>>
        BY <1>9 DEF OpenLink
    <2>3. /\ EmptySession.chat = NoChat /\ EmptySession.sources = Absent
          /\ Voicing(EmptySession.voice)
        BY DEF EmptySession, Voicing
    <2> QED BY <2>1, <2>2, <2>3, SessionOfPage, UrlKept
<1>10. CASE OtherDeletes
    BY <1>10, UrlOfGone DEF OtherDeletes
<1>11. CASE DeleteHere
    BY <1>11, UrlOfGone DEF DeleteHere
<1>12. CASE UNCHANGED vars
    BY <1>12 DEF vars, UrlInv, Mirrors, DraftUrl, SourcesOf
<1> QED BY <1>1, <1>2, <1>3, <1>4, <1>5, <1>6, <1>7, <1>8, <1>9, <1>10, <1>11, <1>12 DEF Next

\* A new session that opens the URL shows what the old one showed.
LEMMA RefreshInv ==
    ASSUME IInv, UrlInv
    PROVE  RefreshRestores
<1> USE SessionAssumption
<1> SUFFICES ASSUME page = "home", rows # {}, ~navigated, ~refused, SourcesOf(ss) \cap rows # {},
                    ss.chat = NoChat \/ Live(ss.chat)
             PROVE  Clamp(Restore(EmptySession, url, rows).ss, rows) = Clamp(ss, rows)
    BY DEF RefreshRestores
<1> DEFINE kept == SourcesOf(ss) \cap rows
           voice == IF ss.voice \in kept THEN ss.voice ELSE NoChannel
           n == Restore(EmptySession, url, rows).ss
<1>1. ss \in Widgets /\ rows \subseteq Channels /\ Mirrors(ss, url) /\ NoChannel \notin rows
    BY SessionOfPage DEF UrlInv
<1>2. ss.sources # Absent /\ SourcesOf(ss) = ss.sources
    BY DEF SourcesOf
<1>3. Clamp(ss, rows) = [sources |-> kept, voice |-> voice, chat |-> ss.chat]
    BY <1>1 DEF Clamp, Widgets
<1>4. ss.voice \in rows => ss.voice \in kept
    BY <1>1, <1>2, SessionOfPage DEF VoiceAmong
<1>5. voice = IF ss.voice \in rows THEN ss.voice ELSE NoChannel
    BY <1>4
<1>6. EmptySession.sources = Absent /\ EmptySession.chat = NoChat
    BY DEF EmptySession
<1>7. ASSUME n.sources = kept, n.voice = voice, n.chat = ss.chat, n \in Widgets
      PROVE  Clamp(n, rows) = [sources |-> kept, voice |-> voice, chat |-> ss.chat]
    <2> HIDE DEF n
    <2>1. kept \subseteq rows /\ voice \in kept \cup {NoChannel} /\ n.sources = kept
        BY <1>7
    <2> HIDE DEF kept, voice
    <2>2. SourcesOf(n) \cap rows = kept
        <3>1. NoChannel \notin kept
            BY <1>1, <2>1
        <3>2. kept # Absent
            BY <3>1 DEF Absent
        <3> QED BY <2>1, <3>2 DEF SourcesOf
    <2>3. [n EXCEPT !.sources = kept, !.voice = voice]
            = [sources |-> kept, voice |-> voice, chat |-> ss.chat]
        BY <1>7 DEF Widgets
    <2> QED BY <1>7, <2>1, <2>2, <2>3 DEF Clamp
<1>8. n \in Widgets
    BY SessionOfPage, Restored DEF IInv
<1>9. CASE ss.chat # NoChat
    <2>1. Live(ss.chat) /\ url.chat = ss.chat
        BY <1>1, <1>9 DEF Mirrors
    <2>2. n = LoadChat(ss.chat, url).ss
        BY <1>6, <2>1 DEF Restore
    <2>3. n = [sources |-> chats[ss.chat].sources, voice |-> chats[ss.chat].voice, chat |-> ss.chat]
        BY <2>2 DEF LoadChat
    <2>4. /\ chats[ss.chat].sources = ss.sources \cap rows
          /\ chats[ss.chat].voice = IF ss.voice \in rows THEN ss.voice ELSE NoChannel
        BY <2>1 DEF IInv, ShownScopeIsUsed
    <2>5. n.sources = kept /\ n.voice = voice /\ n.chat = ss.chat
        BY <1>2, <1>5, <2>3, <2>4
    <2> QED BY <1>3, <1>7, <1>8, <2>5
<1>10. CASE ss.chat = NoChat
    <2> DEFINE draft == url.sources \cap rows
    <2>1. /\ draft = kept /\ kept # {}
          /\ CoerceVoice(draft, url.voice) = voice
        BY <1>1, <1>5, <1>10 DEF Mirrors
    <2>2. ~Live(url.chat)
        BY <1>10 DEF UrlInv, DraftUrl, Live
    <2>3. n = StartScope(draft, CoerceVoice(draft, url.voice), url).ss
        BY <1>6, <2>1, <2>2 DEF Restore
    <2>4. n = [sources |-> draft, voice |-> CoerceVoice(draft, url.voice), chat |-> NoChat]
        BY <2>3 DEF StartScope
    <2>5. n.sources = kept /\ n.voice = voice /\ n.chat = ss.chat
        <3> HIDE DEF n, kept, voice, draft
        <3> QED BY <1>10, <2>1, <2>4
    <2> QED BY <1>3, <1>7, <1>8, <2>5
<1> QED BY <1>9, <1>10

\* A refresh gives back the open chat or the draft, until a change of page or a
\* refused edit parts the URL from it.
THEOREM RefreshGivesBack == Spec => []RefreshRestores
<1>1. Init => UrlInv
    BY UrlInit
<1>2. IInv /\ UrlInv /\ [Next]_vars => UrlInv'
    BY UrlStep
<1>3. IInv /\ UrlInv => RefreshRestores
    BY RefreshInv
<1> QED BY <1>1, <1>2, <1>3, Invariance, PTL DEF Spec
=============================================================================
