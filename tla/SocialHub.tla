----------------------------- MODULE SocialHub ------------------------------
(***************************************************************************)
(* Direct messages, src/frontend/src/components/SocialHub.tsx: the open    *)
(* dialog is polled, answers of overlapping calls arrive in any order, and *)
(* messages sent or deleted are shown before the next poll.  The header's  *)
(* counter of unread messages (src/frontend/src/App.tsx) is set by the     *)
(* same calls and by a poll of its own.  The server is                     *)
(* src/backend/room/social.go.  A message is its id.                       *)
(***************************************************************************)
EXTENDS Integers, FiniteSets, Sequences, SequencesExt

CONSTANTS
    Members, NoMember,
    MaxCalls,             \* bound: async calls under way at one time
    MaxId,                \* bound: messages ever written
    PageSize              \* the LIMIT of a dialog's list

ASSUME MemberAssumption ==
    NoMember \notin Members /\ MaxCalls \in Nat /\ MaxId \in Nat /\ PageSize \in Nat

VARIABLES
    lastMessage, thread,  \* the server: ids, and the messages with a member
    ownIds, unread,       \* those this user wrote; incoming ones not yet read
    hub,                  \* the screen is mounted
    activeDialog, messages,
    conversations,        \* the members listed, with their unread counts
    unreadMessages,       \* the counter in the header
    calls                 \* the async calls under way, oldest first

mail == <<lastMessage, thread, ownIds, unread>>
lists == <<messages, conversations, unreadMessages>>
socialVars == <<mail, hub, activeDialog, lists, calls>>

Ids == 1 .. MaxId
Kinds == {"load", "conversations", "notifications", "send", "delete"}
Ask(kind, m, arg) ==
    [kind |-> kind, with |-> m, arg |-> arg, at |-> "asked", stale |-> FALSE, answer |-> 0]
Starts(new) == Len(calls \o new) <= MaxCalls /\ calls' = calls \o new
Ends(i) == calls' = RemoveAt(calls, i)
Becomes(i, r) == calls' = [calls EXCEPT ![i] = r]

\* Lists in the order of ids, none of them recursive.
Ranked(S, k) == CHOOSE n \in S : Cardinality({o \in S : o < n}) = k - 1
Ascending(S) == [k \in 1 .. Cardinality(S) |-> Ranked(S, k)]
Without(s, id) ==
    LET kept == Ascending({k \in DOMAIN s : s[k] # id})
    IN  [k \in DOMAIN kept |-> s[kept[k]]]
Unread(m) == thread[m] \cap unread
\* The latest messages with a member, in their order: what a dialog is answered.
Latest(S) == {n \in S : Cardinality({o \in S : o > n}) < PageSize}
Page(m) == Ascending(Latest(thread[m]))
\* ListConversations
Listed == [m \in {o \in Members : thread[o] # {}} |-> Cardinality(Unread(m))]
\* The sum of the counts: so many pairs of a member and a number up to its count.
Total(list) == Cardinality({p \in (DOMAIN list) \X Ids : p[2] <= list[p[1]]})

SocialInit ==
    /\ lastMessage = 0 /\ thread = [m \in Members |-> {}] /\ ownIds = {} /\ unread = {}
    /\ hub = FALSE /\ activeDialog = NoMember
    /\ messages = <<>> /\ conversations = <<>> /\ unreadMessages = 0
    /\ calls = <<>>

-----------------------------------------------------------------------------
(* The screen *)

\* SocialHub is mounted by a button of the header, or with a dialog to open.
Mount(m) ==
    /\ ~hub /\ hub' = TRUE
    /\ activeDialog' = m
    /\ Starts(<<Ask("conversations", NoMember, 0)>>)
    /\ UNCHANGED <<mail, lists>>

\* ... and unmounted by Back or by entering a room.  Its calls go on without it;
\* the poll of the header is App's.
Unmount ==
    /\ hub /\ hub' = FALSE
    /\ activeDialog' = NoMember /\ messages' = <<>> /\ conversations' = <<>>
    /\ calls' = [i \in DOMAIN calls |-> [calls[i] EXCEPT !.stale = @ \/ calls[i].kind # "notifications"]]
    /\ UNCHANGED <<mail, unreadMessages>>

\* The list of conversations offers its members.
CanOpen(m) == hub /\ m \in DOMAIN conversations

\* openDialog empties the list at once; the effect of a new dialog loads it.
openDialog(m) ==
    /\ CanOpen(m)
    /\ activeDialog' = m
    /\ messages' = <<>>
    /\ UNCHANGED <<mail, hub, conversations, unreadMessages, calls>>

\* A dialog is on screen, with its header.
DialogOpen == activeDialog # NoMember

\* The arrow of the narrow layout, changeTab to the profiles, openProfile, or a
\* new initialTab.
closeDialog ==
    /\ DialogOpen
    /\ activeDialog' = NoMember
    /\ UNCHANGED <<mail, hub, lists, calls>>

-----------------------------------------------------------------------------
(* Calls: what starts them *)

hubState == <<mail, hub, activeDialog, lists>>

\* loadMessages, when a dialog opens and every five seconds after.
loadMessages ==
    /\ DialogOpen
    /\ Starts(<<Ask("load", activeDialog, 0)>>)
    /\ UNCHANGED hubState

\* loadNotifications of App.tsx, every ten seconds.
loadNotifications ==
    /\ Starts(<<Ask("notifications", NoMember, 0)>>)
    /\ UNCHANGED hubState

\* The form is there unless the member is shown as ignored (ProfileCard).
CanWrite == DialogOpen

sendMessage ==
    /\ CanWrite
    /\ Starts(<<Ask("send", activeDialog, 0)>>)
    /\ UNCHANGED hubState

\* The menu of a message is shown while the message is in the list, and offers
\* to delete it if it is the user's own.
CanDelete(id) == DialogOpen /\ id \in ToSet(messages) \cap ownIds

deleteMessage(id) ==
    /\ CanDelete(id)
    /\ Starts(<<Ask("delete", activeDialog, id)>>)
    /\ UNCHANGED hubState

-----------------------------------------------------------------------------
(* The server *)

Reply(i, value) ==
    Becomes(i, [Ask(calls[i].kind, NoMember, 0) EXCEPT
                    !.at = "answered", !.answer = value, !.stale = calls[i].stale])

\* ListDirectMessages first marks every message of the member as read ...
MarkRead(i) ==
    /\ calls[i].kind = "load" /\ calls[i].at = "asked"
    /\ unread' = unread \ thread[calls[i].with]
    /\ Becomes(i, [calls[i] EXCEPT !.at = "marked"])
    /\ UNCHANGED <<lastMessage, thread, ownIds>>

\* ... and lists the latest ones in a second statement, without a transaction.
ListMessages(i) ==
    /\ calls[i].kind = "load" /\ calls[i].at = "marked"
    /\ Reply(i, Page(calls[i].with))
    /\ UNCHANGED mail

ListConversations(i) ==
    /\ calls[i].kind = "conversations" /\ calls[i].at = "asked"
    /\ Reply(i, Listed)
    /\ UNCHANGED mail

CountUnread(i) ==
    /\ calls[i].kind = "notifications" /\ calls[i].at = "asked"
    /\ Reply(i, Cardinality(unread))
    /\ UNCHANGED mail

\* Mutant of AddMessage: the message counts as unread for its author.
AddMessageUnread(i) ==
    /\ calls[i].kind = "send" /\ calls[i].at = "asked"
    /\ lastMessage < MaxId
    /\ lastMessage' = lastMessage + 1
    /\ thread' = [thread EXCEPT ![calls[i].with] = @ \cup {lastMessage + 1}]
    /\ ownIds' = ownIds \cup {lastMessage + 1} /\ unread' = unread \cup {lastMessage + 1}
    /\ Reply(i, lastMessage + 1)

\* AddDirectMessage
AddMessage(i) ==
    /\ calls[i].kind = "send" /\ calls[i].at = "asked"
    /\ lastMessage < MaxId
    /\ lastMessage' = lastMessage + 1
    /\ thread' = [thread EXCEPT ![calls[i].with] = @ \cup {lastMessage + 1}]
    /\ ownIds' = ownIds \cup {lastMessage + 1}
    /\ Reply(i, lastMessage + 1)
    /\ UNCHANGED unread

\* DeleteDirectMessage goes by the id and the author, whatever dialog is open.
Deletable(id) == id \in ownIds /\ \E m \in Members : id \in thread[m]
DeleteMessage(i) ==
    /\ calls[i].kind = "delete" /\ calls[i].at = "asked"
    /\ Deletable(calls[i].arg)
    /\ thread' = [m \in Members |-> thread[m] \ {calls[i].arg}]
    /\ Reply(i, calls[i].arg)
    /\ UNCHANGED <<lastMessage, ownIds, unread>>

\* A message between members one of whom ignores the other is blocked, and one
\* that is gone cannot be deleted.
Refuse(i) ==
    /\ calls[i].at = "asked"
    /\ \/ calls[i].kind = "send"
       \/ calls[i].kind = "delete" /\ ~Deletable(calls[i].arg)
    /\ Ends(i)
    /\ UNCHANGED mail

Serves(i) ==
    /\ \/ MarkRead(i) \/ ListMessages(i) \/ ListConversations(i)
       \/ CountUnread(i) \/ AddMessage(i) \/ DeleteMessage(i) \/ Refuse(i)
    /\ UNCHANGED <<hub, activeDialog, lists>>

\* The other member writes.
Incoming(m) ==
    /\ lastMessage < MaxId
    /\ lastMessage' = lastMessage + 1
    /\ thread' = [thread EXCEPT ![m] = @ \cup {lastMessage + 1}]
    /\ unread' = unread \cup {lastMessage + 1}
    /\ UNCHANGED <<ownIds, hub, activeDialog, lists, calls>>

-----------------------------------------------------------------------------
(* Calls: what their answers do.  Setters of an unmounted screen do nothing, *)
(* onUnreadChange is App's and works on.                                     *)

\* await loadConversations() goes on in the same call.
Continues(i) == Becomes(i, [Ask("conversations", NoMember, 0) EXCEPT !.stale = calls[i].stale])

\* Mutant of Loaded: the conversations are not loaded again.
LoadedAlone(i) ==
    /\ calls[i].kind = "load"
    /\ messages' = IF calls[i].stale THEN messages ELSE calls[i].answer
    /\ Ends(i)
    /\ UNCHANGED <<conversations, unreadMessages>>

Loaded(i) ==
    /\ calls[i].kind = "load"
    /\ messages' = IF calls[i].stale THEN messages ELSE calls[i].answer
    /\ Continues(i)
    /\ UNCHANGED <<conversations, unreadMessages>>

ConversationsLoaded(i) ==
    /\ calls[i].kind = "conversations"
    /\ conversations' = IF calls[i].stale THEN conversations ELSE calls[i].answer
    /\ unreadMessages' = Total(calls[i].answer)
    /\ Ends(i)
    /\ UNCHANGED <<messages>>

Notified(i) ==
    /\ calls[i].kind = "notifications"
    /\ unreadMessages' = calls[i].answer
    /\ Ends(i)
    /\ UNCHANGED <<messages, conversations>>

Sent(i) ==
    /\ calls[i].kind = "send"
    /\ messages' = IF calls[i].stale THEN messages ELSE Append(messages, calls[i].answer)
    /\ Continues(i)
    /\ UNCHANGED <<conversations, unreadMessages>>

Deleted(i) ==
    /\ calls[i].kind = "delete"
    /\ messages' = IF calls[i].stale THEN messages ELSE Without(messages, calls[i].answer)
    /\ Continues(i)
    /\ UNCHANGED <<conversations, unreadMessages>>

Answered(i) ==
    /\ calls[i].at = "answered"
    /\ \/ Loaded(i) \/ ConversationsLoaded(i) \/ Notified(i)
       \/ Sent(i) \/ Deleted(i)
    /\ UNCHANGED <<mail, hub, activeDialog>>

\* A call gets no answer, whatever the server did; the next poll comes all the same.
Fails(i) ==
    /\ Ends(i)
    /\ UNCHANGED hubState

-----------------------------------------------------------------------------
Screen ==
    \/ Unmount \/ closeDialog
    \/ \E m \in Members \cup {NoMember} : Mount(m)
    \/ \E m \in Members : openDialog(m)
Acts ==
    \/ sendMessage
    \/ \E id \in Ids : deleteMessage(id)
    \/ \E i \in DOMAIN calls : Fails(i)
    \/ \E m \in Members : Incoming(m)
Polls ==
    \/ loadMessages \/ loadNotifications
    \/ \E i \in DOMAIN calls : Serves(i) \/ Answered(i)

SocialNext == Screen \/ Acts \/ Polls
SocialSpec == SocialInit /\ [][SocialNext]_socialVars

\* The interval of the open dialog keeps firing, and calls are answered.
SocialFairness ==
    /\ WF_socialVars(calls # <<>> /\ (Serves(1) \/ Answered(1)))
    /\ SF_socialVars(loadMessages)
FairSocialSpec == SocialSpec /\ SocialFairness

-----------------------------------------------------------------------------
IsCount(n) == n \in 0 .. MaxId
IsMessages(list) == list \in Seq(Ids)
IsConversations(list) ==
    DOMAIN list \subseteq Members /\ \A m \in DOMAIN list : IsCount(list[m])

\* What a call asks for, and what its answer will show.
CallTyped(c) ==
    /\ c.kind \in Kinds /\ c.at \in {"asked", "marked", "answered"} /\ c.stale \in BOOLEAN
    /\ c.at \in {"asked", "marked"} =>
        /\ c.kind \in {"load", "send", "delete"} => c.with \in Members
        /\ c.kind = "delete" => c.arg \in Ids
    /\ c.at = "answered" =>
        /\ c.kind = "load" => IsMessages(c.answer)
        /\ c.kind = "conversations" => IsConversations(c.answer) /\ IsCount(Total(c.answer))
        /\ c.kind = "notifications" => IsCount(c.answer)
        /\ c.kind \in {"send", "delete"} => c.answer \in Ids

\* Types of the tables, the lists on screen and the calls under way: a message is
\* in one thread, and a message of this user never counts as unread.
SocialTypeOK ==
    /\ IsCount(lastMessage) /\ thread \in [Members -> SUBSET (1 .. lastMessage)]
    /\ \A m, n \in Members : m # n => thread[m] \cap thread[n] = {}
    /\ ownIds \subseteq 1 .. lastMessage /\ unread \subseteq (1 .. lastMessage) \ ownIds
    /\ hub \in BOOLEAN /\ activeDialog \in Members \cup {NoMember}
    /\ IsMessages(messages) /\ IsConversations(conversations) /\ IsCount(unreadMessages)
    /\ Len(calls) <= MaxCalls /\ \A i \in DOMAIN calls : CallTyped(calls[i])

\* The screen and the server agree.
UpToDate ==
    /\ messages = Page(activeDialog)
    /\ conversations = Listed
    /\ unread \cap thread[activeDialog] = {} /\ unreadMessages = Cardinality(unread)

\* Late answers of another dialog, messages shown twice, deleted ones that come
\* back, a counter set by an old answer: all of it heals.  If from some time on
\* nobody acts and no call fails while a dialog is open, its list, the
\* conversations and the header's counter come to agree with the server, and
\* stay so.
DialogSettles ==
    <>[][Polls]_socialVars => <>[](activeDialog # NoMember => UpToDate)

=============================================================================
