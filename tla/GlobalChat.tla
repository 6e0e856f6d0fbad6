----------------------------- MODULE GlobalChat -----------------------------
(***************************************************************************)
(* The chat of the lobby, src/frontend/src/components/GlobalChat.tsx: a    *)
(* page polls the messages after a cursor, merges its own messages into    *)
(* the list when the server has taken them, and keeps the newest ones.     *)
(* The server (src/backend/room/global_chat.go) hands out ids when a row   *)
(* is inserted; the row can be read once its statement has committed.      *)
(* A message is its id.                                                    *)
(***************************************************************************)
EXTENDS Integers, FiniteSets

CONSTANTS
    MaxId,          \* bound: messages ever written
    FirstPage,      \* limit of a request without a cursor (50)
    NextPage,       \* limit of a request after a cursor (100)
    VisibleLimit,   \* visibleMessageLimit (200)
    MaxFailures     \* bound: failed requests

ASSUME ChatAssumption ==
    /\ MaxId \in Nat /\ MaxFailures \in Nat
    /\ FirstPage \in Nat \ {0} /\ NextPage \in Nat \ {0}
    /\ VisibleLimit \in Nat \ {0}

VARIABLES
    lastId, visible,            \* the table: ids handed out, rows to be read
    mounted,                    \* the lobby, and the component in it, is on screen
    hidden,                     \* document.hidden
    messages, latestMessageId,  \* of the mounted component
    fetch,                      \* the request of the current effect, if any
    send,                       \* the POST of handleSubmit, if any
    failures,                   \* bound's counter
    own,                        \* history: ids handleSubmit has merged
    late                        \* history: rows that followed a larger id

server == <<lastId, visible, late>>
shown == <<messages, latestMessageId, own>>
chatVars == <<server, mounted, hidden, shown, fetch, send, failures>>

Ids == 1 .. MaxId
Idle == [at |-> "idle"]
Asked(c) == [at |-> "asked", cursor |-> c]
Answered(S) == [at |-> "answered", incoming |-> S]
Posting == [at |-> "posting"]
Taken(i) == [at |-> "taken", id |-> i]
Posted(i) == [at |-> "posted", id |-> i]

Newest(n, S) == {m \in S : Cardinality({k \in S : k > m}) < n}
Oldest(n, S) == {m \in S : Cardinality({k \in S : k < m}) < n}
Highest(S) == CHOOSE m \in S : \A k \in S : k <= m

ChatInit ==
    /\ lastId = 0 /\ visible = {} /\ late = {}
    /\ mounted = FALSE /\ hidden = FALSE
    /\ messages = {} /\ latestMessageId = 0 /\ own = {}
    /\ fetch = Idle /\ send = Idle
    /\ failures = 0

-----------------------------------------------------------------------------
(* The server *)

\* Somebody else's INSERT takes an id.
Insert ==
    /\ lastId < MaxId
    /\ lastId' = lastId + 1
    /\ UNCHANGED <<visible, late, mounted, hidden, shown, fetch, send, failures>>

\* A statement commits; statements of different connections do so in any order.
Commit(i) ==
    /\ i <= lastId /\ i \notin visible
    /\ visible' = visible \cup {i}
    /\ late' = IF \E k \in visible : k > i THEN late \cup {i} ELSE late
    /\ send' = IF send = Taken(i) THEN Posted(i) ELSE send
    /\ UNCHANGED <<lastId, mounted, hidden, shown, fetch, failures>>

GetMessagesNewest(cursor) ==                             \* mutant of GetMessages
    Newest(IF cursor > 0 THEN NextPage ELSE FirstPage, {m \in visible : m > cursor})

\* GetGlobalChatMessages: the page after a cursor, or the latest messages.
GetMessages(cursor) ==
    IF cursor > 0 THEN Oldest(NextPage, {m \in visible : m > cursor})
                  ELSE Newest(FirstPage, visible)

Answer ==
    /\ fetch.at = "asked"
    /\ fetch' = Answered(GetMessages(fetch.cursor))
    /\ UNCHANGED <<server, mounted, hidden, shown, send, failures>>

\* AppendGlobalChatMessage for the POST of this page.
AppendMessage ==
    /\ send = Posting
    /\ lastId < MaxId
    /\ lastId' = lastId + 1
    /\ send' = Taken(lastId + 1)
    /\ UNCHANGED <<visible, late, mounted, hidden, shown, fetch, failures>>

-----------------------------------------------------------------------------
(* The component *)

\* Mutant of mergeMessages: the cursor follows the answer, back too.
mergeMessagesAnyOrder(incoming) ==
    /\ latestMessageId' = IF incoming = {} THEN latestMessageId ELSE Highest(incoming)
    /\ messages' = Newest(VisibleLimit, messages \cup incoming)

mergeMessages(incoming) ==
    /\ latestMessageId' = IF incoming = {} THEN latestMessageId
                          ELSE Highest(incoming \cup {latestMessageId})
    /\ messages' = Newest(VisibleLimit, messages \cup incoming)

\* Mutant of fetchMessages: an empty feed is not polled.
fetchMessagesShown ==
    /\ mounted /\ ~hidden /\ messages # {}
    /\ fetch = Idle
    /\ fetch' = Asked(latestMessageId)
    /\ UNCHANGED <<server, mounted, hidden, shown, send, failures>>

\* fetchMessages: nothing while a request is under way or the tab is hidden.
fetchMessages ==
    /\ mounted /\ ~hidden
    /\ fetch = Idle
    /\ fetch' = Asked(latestMessageId)
    /\ UNCHANGED <<server, mounted, hidden, shown, send, failures>>

\* The response, merged by the effect that asked for it.
Received ==
    /\ fetch.at = "answered"
    /\ mergeMessages(fetch.incoming)
    /\ fetch' = Idle
    /\ UNCHANGED <<server, mounted, hidden, send, failures, own>>

\* A response that is not ok, or no response; finally frees the slot again.
FetchFailed ==
    /\ fetch # Idle
    /\ failures < MaxFailures
    /\ failures' = failures + 1
    /\ fetch' = Idle
    /\ UNCHANGED <<server, mounted, hidden, shown, send>>

\* The tab is hidden, or comes back and asks at once.
handleVisibility ==
    /\ mounted
    /\ hidden' = ~hidden
    /\ fetch' = IF hidden /\ fetch = Idle THEN Asked(latestMessageId) ELSE fetch
    /\ UNCHANGED <<server, mounted, shown, send, failures>>

\* A new token or language runs the effect again: the request is aborted and,
\* unless the tab is hidden, replaced.  List and cursor stay.
EffectRestarts ==
    /\ mounted
    /\ fetch' = IF hidden THEN Idle ELSE Asked(latestMessageId)
    /\ UNCHANGED <<server, mounted, hidden, shown, send, failures>>

Mount ==
    /\ ~mounted
    /\ mounted' = TRUE
    /\ fetch' = IF hidden THEN Idle ELSE Asked(0)
    /\ UNCHANGED <<server, hidden, shown, send, failures>>

\* The request is aborted; a POST is not, and what it becomes shows nowhere.
Unmount ==
    /\ mounted
    /\ mounted' = FALSE
    /\ fetch' = Idle /\ send' = Idle
    /\ messages' = {} /\ latestMessageId' = 0 /\ own' = {}
    /\ UNCHANGED <<server, hidden, failures>>

\* The form takes one message at a time.
CanSend == mounted /\ send = Idle

\* handleSubmit up to its await.
handleSubmit ==
    /\ CanSend
    /\ send' = Posting
    /\ UNCHANGED <<server, mounted, hidden, shown, fetch, failures>>

\* The page's own message comes back and moves the cursor.
Sent ==
    /\ send.at = "posted"
    /\ mergeMessages({send.id})
    /\ own' = own \cup {send.id}
    /\ send' = Idle
    /\ UNCHANGED <<server, mounted, hidden, fetch, failures>>

\* The POST was refused, or its answer lost.
SendFailed ==
    /\ send # Idle
    /\ failures < MaxFailures
    /\ failures' = failures + 1
    /\ send' = Idle
    /\ UNCHANGED <<server, mounted, hidden, shown, fetch>>

Screen == Mount \/ Unmount
Component ==
    \/ fetchMessages \/ Received \/ FetchFailed \/ handleVisibility
    \/ EffectRestarts \/ handleSubmit \/ Sent \/ SendFailed
Server == Insert \/ Answer \/ AppendMessage \/ \E i \in Ids : Commit(i)

ChatNext == Screen \/ Component \/ Server
\* The interval keeps firing, the server answers and commits what it began, and
\* the effect is not restarted before every answer.
ChatFairness ==
    /\ WF_chatVars(fetchMessages)
    /\ WF_chatVars(Answer)
    /\ SF_chatVars(Received)
    /\ \A i \in Ids : WF_chatVars(Commit(i))

ChatSpec == ChatInit /\ [][ChatNext]_chatVars
FairChatSpec == ChatSpec /\ ChatFairness

-----------------------------------------------------------------------------
ChatTypeOK ==
    /\ lastId \in 0 .. MaxId /\ visible \subseteq 1 .. lastId /\ late \subseteq visible
    /\ mounted \in BOOLEAN /\ hidden \in BOOLEAN
    /\ messages \subseteq visible /\ own \subseteq visible
    /\ latestMessageId \in 0 .. MaxId
    /\ \/ fetch = Idle
       \/ \E c \in 0 .. MaxId : fetch = Asked(c)
       \/ \E S \in SUBSET visible : fetch = Answered(S)
    /\ \/ send \in {Idle, Posting}
       \/ \E i \in Ids : send \in {Taken(i), Posted(i)}
    /\ failures \in 0 .. MaxFailures

\* The cursor is the newest message on screen: merging, sorting and cutting
\* the list never leave it behind or ahead (mergeMessages).
CursorIsNewest ==
    IF messages = {} THEN latestMessageId = 0
    ELSE /\ latestMessageId \in messages
         /\ \A m \in messages : m <= latestMessageId

\* Polling alone loses nothing: where a message that can be read is missing
\* between two that are on screen, the gap borders a message of this page's
\* own, which handleSubmit merged (and moved the cursor to) before the poll had
\* fetched its neighbours; or its row appeared after a larger id.
GapsBorderOwn ==
    \A m \in visible \ (messages \cup late) :
        (m < latestMessageId /\ \E k \in messages : k < m)
            => \E o \in own : \A k \in messages : ~(m < k /\ k < o) /\ ~(o < k /\ k < m)

\* While the lobby stays open in a visible tab, every message that can be read
\* reaches the screen, or the screen has moved past it: no failed, aborted or
\* restarted request stops the polling.
FeedCatchesUp ==
    \A m \in Ids :
        [](m \in visible => <>(m <= latestMessageId \/ ~mounted \/ hidden))

=============================================================================
