-------------------------------- MODULE Session --------------------------------
(***************************************************************************)
(* One browser session of the Streamlit UI: the scope its sidebar shows    *)
(* (apps/ui/state.py, components/sidebar.py, chat.py, channels.py), the    *)
(* URL that carries it over a refresh, and the chats it edits, while       *)
(* another session deletes channels.                                       *)
(*                                                                         *)
(* One action is one interaction: its callback, with the channels of the   *)
(* page last drawn, and then the run of the whole page script, which reads *)
(* the database anew.  Streamlit itself drops a widget's state in a run of *)
(* a page that does not draw the widget, and the query string when the     *)
(* page is changed; an exception in a callback ends the run.               *)
(***************************************************************************)
EXTENDS Integers

CONSTANTS
    Channels,
    Voiced,     \* channels whose persona is enabled
    Chats,
    NoChannel,  \* Neutral; no channel
    NoChat

ASSUME SessionAssumption ==
    /\ Voiced \subseteq Channels /\ NoChannel \notin Channels /\ NoChat \notin Chats

VARIABLES
    rows,     \* channels that have a row
    chats,    \* [Chats -> row of chats with its chat_sources]
    page,     \* page last drawn
    shown,    \* channels_by_id of the Home page last drawn
    ss,       \* st.session_state
    url,      \* st.query_params
    \* history
    refused,  \* an edit of the open chat's scope raised, after the widgets had changed
    navigated \* the page was changed and the query string not written since

vars == <<rows, chats, page, shown, ss, url, refused, navigated>>

\* The key "sources" is not in st.session_state.
Absent == {NoChannel}

Voice == Channels \cup {NoChannel}
Widgets == [sources : (SUBSET Channels) \cup {Absent}, voice : Voice, chat : Chats \cup {NoChat}]
Params == [chat : Chats \cup {NoChat}, sources : SUBSET Channels, voice : Voice, channel : Voice]
EmptySession == [sources |-> Absent, voice |-> NoChannel, chat |-> NoChat]
EmptyUrl == [chat |-> NoChat, sources |-> {}, voice |-> NoChannel, channel |-> NoChannel]
NoRow == [status |-> "none", sources |-> {}, voice |-> NoChannel]

TypeOK ==
    /\ rows \subseteq Channels /\ shown \subseteq Channels
    /\ chats \in [Chats -> [status : {"none", "live", "gone"}, sources : SUBSET Channels,
                            voice : Voice]]
    /\ \A k \in Chats : chats[k].sources \subseteq rows
    /\ page \in {"home", "channels"}
    /\ ss \in Widgets /\ url \in Params
    /\ refused \in BOOLEAN /\ navigated \in BOOLEAN
    \* what the sidebar last drew is a voice among the sources
    /\ page = "home" /\ ss.sources # Absent => ss.voice \in ss.sources \cup {NoChannel}

Init ==
    /\ rows \in (SUBSET Channels) \ {{}}
    /\ chats = [k \in Chats |-> NoRow]
    /\ page = "channels" /\ shown = {}
    /\ ss = EmptySession /\ url = EmptyUrl
    /\ refused = FALSE /\ navigated = FALSE

Live(k) == k \in Chats /\ chats[k].status = "live"
\* get_sources.
SourcesOf(s) == IF s.sources = Absent THEN {} ELSE s.sources

-----------------------------------------------------------------------------
\* core/chat/scope.py and apps/ui/state.py.

DefaultVoice(S) == IF \E c \in Voiced : S = {c} THEN CHOOSE c \in S : TRUE ELSE NoChannel
CoerceVoice(S, v) == IF v \in S \cap Voiced THEN v ELSE NoChannel

\* A session and its URL after start_scope, load_chat, set_chat_id(None).
StartScope(S, v, u) ==
    [ss |-> [sources |-> S, voice |-> v, chat |-> NoChat],
     url |-> [u EXCEPT !.chat = NoChat, !.sources = S, !.voice = v]]

\* Wrong variant of LoadChat: the voice of the chat before stays in the widget.
LoadChatKeepingVoice(k, u) ==
    [ss |-> [sources |-> chats[k].sources, voice |-> ss.voice, chat |-> k],
     url |-> [u EXCEPT !.chat = k, !.sources = {}, !.voice = NoChannel]]

LoadChat(k, u) ==
    [ss |-> [sources |-> chats[k].sources, voice |-> chats[k].voice, chat |-> k],
     url |-> [u EXCEPT !.chat = k, !.sources = {}, !.voice = NoChannel]]

\* Wrong variant of Restore: a chat in the URL is taken for a draft.
RestoreDraftOnly(s, u, R) ==
    IF s.sources # Absent \/ s.chat # NoChat THEN [ss |-> s, url |-> u]
    ELSE IF u.sources \cap R # {}
    THEN StartScope(u.sources \cap R, CoerceVoice(u.sources \cap R, u.voice), u)
    ELSE StartScope(R, DefaultVoice(R), u)

\* restore_from_url: only a session in which nothing was seeded takes anything
\* from the URL; an unknown chat is dropped from it.
Restore(s, u, R) ==
    LET draft == u.sources \cap R IN
    CASE s.sources # Absent \/ s.chat # NoChat -> [ss |-> s, url |-> u]
      [] s = EmptySession /\ Live(u.chat) -> LoadChat(u.chat, u)
      [] s = EmptySession /\ ~Live(u.chat) /\ draft # {} ->
            StartScope(draft, CoerceVoice(draft, u.voice), u)
      [] s = EmptySession /\ ~Live(u.chat) /\ draft = {} /\ u.channel \in R ->
            StartScope({u.channel}, DefaultVoice({u.channel}), u)
      [] OTHER -> StartScope(R, DefaultVoice(R), u)

\* Wrong variant of Clamp: a voice that is no source any more stays.
ClampSources(s, R) == IF R = {} THEN s ELSE [s EXCEPT !.sources = SourcesOf(s) \cap R]

\* The sidebar's clamp, and the widget that makes the key; with no channel at
\* all the script stops before it.
Clamp(s, R) ==
    IF R = {} THEN s
    ELSE LET kept == SourcesOf(s) \cap R IN
         [s EXCEPT !.sources = kept, !.voice = IF @ \in kept THEN @ ELSE NoChannel]

\* The run of Home.py that draws the page, from session s and URL u.
DrawHome(s, u) ==
    LET r == Restore(s, u, rows) IN
    /\ page' = "home"
    /\ shown' = rows
    /\ ss' = Clamp(r.ss, rows)
    /\ url' = r.url

-----------------------------------------------------------------------------
\* The sidebar.

\* Wrong variant of Persists: an empty selection is written like any other.
PersistsAnything(s) == s.chat # NoChat

Persists(s) == s.chat # NoChat /\ SourcesOf(s) # {}

\* apply_scope_edit in a callback that left the widgets as s.  set_chat_scope
\* raises, and changes nothing, when a channel it names or the chat is gone.
ApplyScopeEdit(s) ==
    CASE ~Persists(s) ->
            /\ DrawHome(s, [url EXCEPT !.sources = SourcesOf(s), !.voice = s.voice])
            /\ UNCHANGED <<chats, refused>>
            /\ navigated' = (navigated /\ s.chat # NoChat)
      [] Persists(s) /\ Live(s.chat) /\ SourcesOf(s) \cup {s.voice} \subseteq rows \cup {NoChannel} ->
            /\ chats' = [chats EXCEPT ![s.chat].sources = SourcesOf(s), ![s.chat].voice = s.voice]
            /\ refused' = FALSE
            /\ DrawHome(s, url)
            /\ UNCHANGED navigated
      [] OTHER ->
            /\ ss' = s /\ refused' = TRUE
            /\ UNCHANGED <<chats, page, shown, url, navigated>>

\* _on_sources_changed.
ChangeSources ==
    /\ page = "home" /\ ss.sources # Absent
    /\ \E S \in SUBSET shown :
        /\ S # ss.sources
        /\ ApplyScopeEdit([ss EXCEPT !.sources = S, !.voice = CoerceVoice(S, @)])
    /\ UNCHANGED rows

\* _on_voice_changed.
ChangeVoice ==
    /\ page = "home" /\ ss.sources # Absent
    /\ \E v \in {NoChannel} \cup (ss.sources \cap shown \cap Voiced) :
        v # ss.voice /\ ApplyScopeEdit([ss EXCEPT !.voice = v])
    /\ UNCHANGED rows

\* The button is seen by a run that has drawn the page; then it is drawn again.
NewChat ==
    /\ page = "home" /\ rows # {}
    /\ LET r == Restore(ss, url, rows)
           s == Clamp(r.ss, rows)
           u == [r.url EXCEPT !.chat = NoChat, !.sources = SourcesOf(s), !.voice = s.voice]
       IN DrawHome([s EXCEPT !.chat = NoChat], u)
    /\ refused' = FALSE /\ navigated' = FALSE
    /\ UNCHANGED <<rows, chats>>

\* A click in the list of chats; a chat that has gone meanwhile is not loaded.
OpenChat ==
    /\ page = "home" /\ rows # {}
    /\ \E k \in Chats :
        IF Live(k)
        THEN LET r == LoadChat(k, url) IN
             /\ DrawHome(r.ss, r.url)
             /\ refused' = FALSE /\ navigated' = FALSE
        ELSE /\ chats[k].status = "gone"
             /\ DrawHome(ss, url)
             /\ UNCHANGED <<refused, navigated>>
    /\ UNCHANGED <<rows, chats>>

\* A question (chat.py): the first one creates the chat with the scope shown.
\* A question of a chat that is gone is refused; the page stays as it is.
Ask ==
    /\ page = "home" /\ rows # {}
    /\ LET r == Restore(ss, url, rows)
           s == Clamp(r.ss, rows)
       IN /\ SourcesOf(s) # {}
          /\ IF s.chat # NoChat
             THEN DrawHome(s, r.url) /\ UNCHANGED <<chats, navigated>>
             ELSE \E k \in Chats :
                /\ chats[k].status = "none"
                /\ chats' = [chats EXCEPT ![k] =
                        [status |-> "live", sources |-> s.sources, voice |-> s.voice]]
                /\ page' = "home" /\ shown' = rows
                /\ ss' = [s EXCEPT !.chat = k]
                /\ url' = [r.url EXCEPT !.chat = k, !.sources = {}, !.voice = NoChannel]
                /\ navigated' = FALSE
    /\ UNCHANGED <<rows, refused>>

-----------------------------------------------------------------------------
\* Pages, links and channels.

\* Streamlit at a change of page: the widgets' keys go, and the query string.
GoToChannels ==
    /\ page = "home"
    /\ page' = "channels"
    /\ ss' = [ss EXCEPT !.sources = Absent, !.voice = NoChannel]
    /\ url' = EmptyUrl /\ navigated' = TRUE
    /\ UNCHANGED <<rows, chats, shown, refused>>

GoHome ==
    /\ page = "channels"
    /\ DrawHome(ss, url)
    /\ navigated' = (ss.chat # NoChat)
    /\ UNCHANGED <<rows, chats, refused>>

\* A card's "Chat" button: the draft is mirrored, and st.switch_page drops the mirror.
ChatButton ==
    /\ page = "channels"
    /\ \E c \in rows : DrawHome(StartScope({c}, DefaultVoice({c}), url).ss, EmptyUrl)
    /\ refused' = FALSE /\ navigated' = TRUE
    /\ UNCHANGED <<rows, chats>>

\* A refresh of either page, or a link: a new session.
OpenLink ==
    /\ \/ DrawHome(EmptySession, url)
       \/ \E k \in Chats : DrawHome(EmptySession, [EmptyUrl EXCEPT !.chat = k])
       \/ \E S \in SUBSET Channels, v \in Voice :
            DrawHome(EmptySession, [EmptyUrl EXCEPT !.sources = S, !.voice = v])
       \/ \E c \in Channels : DrawHome(EmptySession, [EmptyUrl EXCEPT !.channel = c])
    /\ refused' = FALSE /\ navigated' = FALSE
    /\ UNCHANGED <<rows, chats>>

\* delete_channel, with its sweep of chats left without a source.
Gone(c) ==
    [k \in Chats |->
        LET left == chats[k].sources \ {c} IN
        IF chats[k].status = "live" /\ c \in chats[k].sources /\ left = {}
        THEN [status |-> "gone", sources |-> {}, voice |-> NoChannel]
        ELSE [chats[k] EXCEPT !.sources = left,
                              !.voice = IF @ = c THEN NoChannel ELSE @]]

OtherDeletes ==
    \E c \in rows :
        /\ rows' = rows \ {c} /\ chats' = Gone(c)
        /\ UNCHANGED <<page, shown, ss, url, refused, navigated>>

\* "Delete permanently": state.clear when the session's scope names the channel.
DeleteHere ==
    /\ page = "channels"
    /\ \E c \in rows :
        /\ rows' = rows \ {c} /\ chats' = Gone(c)
        /\ IF c \in SourcesOf(ss) \/ c = ss.voice
           THEN ss' = EmptySession /\ url' = EmptyUrl
           ELSE UNCHANGED <<ss, url>>
    /\ UNCHANGED <<page, shown, refused, navigated>>

Next ==
    \/ ChangeSources \/ ChangeVoice \/ NewChat \/ OpenChat \/ Ask
    \/ GoToChannels \/ GoHome \/ ChatButton \/ OpenLink \/ OtherDeletes \/ DeleteHere

Spec == Init /\ [][Next]_vars

-----------------------------------------------------------------------------
\* No interaction leaves a chat without a source, which the next deletion of a
\* channel would sweep away with all its messages (state.py:88 apply_scope_edit).
ChatsKeepASource == \A k \in Chats : Live(k) => chats[k].sources # {}

\* What the sidebar shows is what the open chat's next answer draws on and speaks
\* as, whatever page was visited and whoever deleted channels, unless an edit was
\* refused in between (state.py apply_scope_edit, sidebar.py's clamp).
ShownScopeIsUsed ==
    (page = "home" /\ Live(ss.chat) /\ SourcesOf(ss) \cap rows # {} /\ ~refused) =>
        /\ chats[ss.chat].sources = ss.sources \cap rows
        /\ chats[ss.chat].voice = IF ss.voice \in rows THEN ss.voice ELSE NoChannel

\* "a reload is a brand-new session" (state.py:8), which the URL gives the scope
\* the old one had: the open chat, or the draft; only a change of page loses it.
RefreshRestores ==
    (page = "home" /\ rows # {} /\ ~navigated /\ ~refused /\ SourcesOf(ss) \cap rows # {}
        /\ (ss.chat = NoChat \/ Live(ss.chat))) =>
      Clamp(Restore(EmptySession, url, rows).ss, rows) = Clamp(ss, rows)
=============================================================================
