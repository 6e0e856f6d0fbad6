---------------------------- MODULE ProfileCard -----------------------------
(***************************************************************************)
(* Likes and ignores of members as the screens show them: a member's card, *)
(* src/frontend/src/components/ProfileCard.tsx, beside the directory of    *)
(* SocialHub.tsx, where selecting another member changes the card's        *)
(* username without a new card; and the dialog of SocialHub.tsx, whose     *)
(* header takes the flag from the list of conversations or else from the   *)
(* directory.  Of a profile only the member and ignoredByMe matter here.   *)
(***************************************************************************)
EXTENDS Integers, FiniteSets, Bags

CONSTANTS
    Members, NoMember,
    Conversed,            \* the members with a conversation on the server
    Searches,             \* the sets of members that a search of the directory finds
    MaxCalls              \* bound: fewer async calls are under way when one starts

ASSUME MemberAssumption ==
    NoMember \notin Members /\ Conversed \subseteq Members /\ Searches \subseteq SUBSET Members

VARIABLES
    username,             \* the card's prop; NoMember while no card is mounted
    card,                 \* profile: whose data is shown, and the flag
    cardLoad,             \* loadProfile of the current effect
    activeDialog,
    profiles,             \* the directory: the flag of every member listed
    conversations,        \* the flag of every conversation listed
    calls,                \* the calls under way besides loadProfile, a bag
    ignored,              \* the server's rows of this viewer
    overtaken             \* history: a toggle's answer came to another's card

cardVars == <<username, card, cardLoad, overtaken>>
hubVars == <<activeDialog, profiles, conversations>>
profileVars == <<cardVars, hubVars, calls, ignored>>

NoCard == [of |-> NoMember, ignored |-> FALSE]
Row(m) == [of |-> m, ignored |-> m \in ignored]
With(S, m, on) == IF on THEN S \cup {m} ELSE S \ {m}

Kinds == {"like", "ignore", "setIgnored", "profiles", "conversations", "orphan"}
\* Calls may be alike: a poll or a click does not wait for the last one.
Ask(kind, m, on) == SetToBag({[kind |-> kind, of |-> m, on |-> on, at |-> "asked"]})
Starts(pending, new) ==
    /\ BagCardinality(pending) < MaxCalls
    /\ calls' = pending (+) new
\* The screen that made these calls is gone: of those still with the server, it
\* carries out the ones that set a flag, and their answers find nothing.
Without(kinds) == [q \in {r \in DOMAIN calls : r.kind \notin kinds} |-> calls[q]]
Orphans(kind) ==
    [q \in {[r EXCEPT !.kind = "orphan"] :
                r \in {c \in DOMAIN calls : c.kind = kind /\ c.at = "asked"}} |->
        calls[[q EXCEPT !.kind = kind]]]
\* loadProfiles and loadConversations of a screen that is mounted.
Loads == Ask("profiles", NoMember, TRUE) (+) Ask("conversations", NoMember, TRUE)

\* What the dialog's header shows: activeIgnored.
ShownIgnored(m) ==
    IF m \in DOMAIN conversations THEN conversations[m]
    ELSE m \in DOMAIN profiles /\ profiles[m]

Init ==
    /\ username = NoMember /\ card = NoCard /\ cardLoad = "none" /\ overtaken = FALSE
    /\ activeDialog = NoMember /\ profiles = <<>> /\ conversations = <<>>
    /\ calls = Loads
    /\ ignored = {}

-----------------------------------------------------------------------------
(* The card *)

\* The directory and the card beside it are on screen while no dialog is.
Directory == activeDialog = NoMember

\* Mutant of openProfile: the effect runs for the first member only.
openProfileOnce(m) ==
    /\ Directory /\ m \in DOMAIN profiles /\ m # username
    /\ username' = m
    /\ cardLoad' = IF username = NoMember THEN "asked" ELSE cardLoad
    /\ UNCHANGED <<card, overtaken, hubVars, calls, ignored>>

\* openProfile: a member of the directory is selected.  The effect aborts the
\* load of the last one and starts another; the data of the last one stays,
\* and is shown again when the aborted load clears `loading`.
openProfile(m) ==
    /\ Directory /\ m \in DOMAIN profiles /\ m # username
    /\ username' = m
    /\ cardLoad' = "asked"
    /\ UNCHANGED <<card, overtaken, hubVars, calls, ignored>>

\* loadProfile's answer: the profile, or 404.
ProfileLoaded ==
    /\ cardLoad = "asked"
    /\ cardLoad' = "done"
    /\ card' \in {Row(username), NoCard}
    /\ overtaken' = FALSE
    /\ UNCHANGED <<username, hubVars, calls, ignored>>

\* The load fails: a message covers what was shown before.
ProfileFailed ==
    /\ cardLoad = "asked"
    /\ cardLoad' = "failed"
    /\ UNCHANGED <<username, card, overtaken, hubVars, calls, ignored>>

\* A profile is shown, with its actions.
Shown == card # NoCard /\ cardLoad \in {"asked", "done"}
\* renderActions: a message can be written to a member who is not ignored.
WriteOffered == Shown /\ ~card.ignored

\* toggleLike and toggleIgnore up to their await: both name the profile shown
\* and the opposite of its flag, and keep it for when the answer is there.
toggleLike ==
    /\ Shown
    /\ Starts(calls, Ask("like", card.of, TRUE))
    /\ UNCHANGED <<cardVars, hubVars, ignored>>

toggleIgnore ==
    /\ Shown
    /\ Starts(calls, Ask("ignore", card.of, ~card.ignored))
    /\ UNCHANGED <<cardVars, hubVars, ignored>>

-----------------------------------------------------------------------------
(* The directory and the dialogs *)

\* openDialog, or the arrow back: the card goes, and answers to its calls find
\* nothing.
openDialog(m) ==
    /\ m # activeDialog /\ (m = NoMember \/ m \in DOMAIN conversations)
    /\ activeDialog' = m
    /\ username' = NoMember /\ card' = NoCard /\ cardLoad' = "none" /\ overtaken' = FALSE
    /\ calls' = Without({"like", "ignore"}) (+) Orphans("ignore")
    /\ UNCHANGED <<profiles, conversations, ignored>>

\* SocialHub is left and mounted again, with or without a dialog to open: its
\* lists are empty until the calls that its first effect makes are answered.
Mount(m) ==
    /\ activeDialog' = m
    /\ username' = NoMember /\ card' = NoCard /\ cardLoad' = "none" /\ overtaken' = FALSE
    /\ profiles' = <<>> /\ conversations' = <<>>
    /\ Starts(Without(Kinds \ {"orphan"}) (+) Orphans("ignore") (+) Orphans("setIgnored"), Loads)
    /\ UNCHANGED ignored

\* handleWrite of the card: the page is loaded anew, with that dialog to open.
handleWrite ==
    /\ WriteOffered
    /\ Mount(card.of)

\* The form of the directory searches.
loadProfiles ==
    /\ Directory
    /\ Starts(calls, Ask("profiles", NoMember, TRUE))
    /\ UNCHANGED <<cardVars, hubVars, ignored>>

\* A dialog is on screen, its header with it.
DialogOpen == activeDialog # NoMember

\* loadConversations, at the end of every loadMessages of the open dialog.
loadConversations ==
    /\ DialogOpen
    /\ Starts(calls, Ask("conversations", NoMember, TRUE))
    /\ UNCHANGED <<cardVars, hubVars, ignored>>

\* setIgnored, from the header of the dialog.
setIgnored ==
    /\ DialogOpen
    /\ Starts(calls, Ask("setIgnored", activeDialog, ~ShownIgnored(activeDialog)))
    /\ UNCHANGED <<cardVars, hubVars, ignored>>

-----------------------------------------------------------------------------
(* Calls *)

\* An answer is the flags it carries, each with its member.
Flags(S) == [m \in S |-> m \in ignored]
Ends(q) == calls' = calls (-) SetToBag({q})
Answer(q, flags) ==
    calls' = (calls (-) SetToBag({q}))
                 (+) SetToBag({[kind |-> q.kind, of |-> q.of, at |-> "answered", answer |-> flags]})

\* The server carries a call out: SetProfileLike and the row after it,
\* SetUserIgnored, ListUserProfiles for what was searched, ListConversations.
Served(q) ==
    /\ q.at = "asked"
    /\ \/ q.kind = "like" /\ Answer(q, Flags({q.of})) /\ UNCHANGED ignored
       \/ q.kind \in {"ignore", "setIgnored"} /\ Answer(q, [m \in {q.of} |-> q.on])
          /\ ignored' = With(ignored, q.of, q.on)
       \/ q.kind = "orphan" /\ Ends(q) /\ ignored' = With(ignored, q.of, q.on)
       \/ q.kind = "conversations" /\ Answer(q, Flags(Conversed)) /\ UNCHANGED ignored
       \/ /\ q.kind = "profiles" /\ UNCHANGED ignored
          /\ \E found \in Searches : Answer(q, Flags(found))
    /\ UNCHANGED <<cardVars, hubVars>>

\* The answer of a toggle replaces the card: the server's row after a like, the
\* profile the click saw with the flag turned after an ignore.
ToggleAnswered(q) ==
    /\ q.kind \in {"like", "ignore"}
    /\ card' = [of |-> q.of, ignored |-> q.answer[q.of]]
    /\ overtaken' = (overtaken \/ q.of # username)
    /\ UNCHANGED <<username, cardLoad, hubVars>>

\* setIgnored turns the flag in the entries of both lists, where they have one.
Turned(list, q) == [m \in DOMAIN list |-> IF m = q.of THEN q.answer[m] ELSE list[m]]
IgnoreSet(q) ==
    /\ q.kind = "setIgnored"
    /\ profiles' = Turned(profiles, q)
    /\ conversations' = Turned(conversations, q)
    /\ UNCHANGED <<cardVars, activeDialog>>

ProfilesLoaded(q) ==
    /\ q.kind = "profiles"
    /\ profiles' = q.answer
    /\ UNCHANGED <<cardVars, activeDialog, conversations>>

\* Mutant of ConversationsLoaded: only new conversations are taken.
ConversationsAdded(q) ==
    /\ q.kind = "conversations"
    /\ conversations' = [m \in DOMAIN q.answer |->
           IF m \in DOMAIN conversations THEN conversations[m] ELSE q.answer[m]]
    /\ UNCHANGED <<cardVars, activeDialog, profiles>>

ConversationsLoaded(q) ==
    /\ q.kind = "conversations"
    /\ conversations' = q.answer
    /\ UNCHANGED <<cardVars, activeDialog, profiles>>

Answered(q) ==
    /\ q.at = "answered"
    /\ ToggleAnswered(q) \/ IgnoreSet(q) \/ ProfilesLoaded(q) \/ ConversationsLoaded(q)
    /\ Ends(q)
    /\ UNCHANGED ignored

\* A call gets no answer, whatever the server did.
Failed(q) ==
    /\ Ends(q)
    /\ UNCHANGED <<cardVars, hubVars, ignored>>

-----------------------------------------------------------------------------
Acts ==
    \/ \E m \in Members : openProfile(m)
    \/ \E m \in Members \cup {NoMember} : openDialog(m) \/ Mount(m)
    \/ toggleLike \/ toggleIgnore \/ handleWrite \/ setIgnored \/ loadProfiles
    \/ ProfileFailed
    \/ \E q \in DOMAIN calls : Failed(q)
Polls == loadConversations \/ ProfileLoaded \/ \E q \in DOMAIN calls : Served(q) \/ Answered(q)
Next == Acts \/ Polls
Spec == Init /\ [][Next]_profileVars

\* Calls are answered, and the open dialog goes on loading the conversations.
Fairness ==
    /\ WF_profileVars(\E q \in DOMAIN calls : Served(q) \/ Answered(q))
    /\ SF_profileVars(loadConversations)
FairSpec == Spec /\ Fairness

-----------------------------------------------------------------------------
Lists == UNION {[D -> BOOLEAN] : D \in SUBSET Members}
Asked == [kind : Kinds, of : Members \cup {NoMember}, on : BOOLEAN, at : {"asked"}]
WithAnswer == [kind : Kinds, of : Members \cup {NoMember}, at : {"answered"}, answer : Lists]
TypeOK ==
    /\ username \in Members \cup {NoMember} /\ activeDialog \in Members \cup {NoMember}
    /\ card \in [of : Members \cup {NoMember}, ignored : BOOLEAN]
    /\ cardLoad \in {"none", "asked", "done", "failed"} /\ overtaken \in BOOLEAN
    /\ ignored \subseteq Members /\ profiles \in Lists /\ conversations \in Lists
    /\ DOMAIN calls \subseteq Asked \cup WithAnswer

\* A loaded card is the selected member's, whatever loads were aborted on the
\* way, unless a like or an ignore of another member was answered after the
\* selection had moved on (toggleLike, toggleIgnore of ProfileCard.tsx).
CardShowsSelected ==
    cardLoad = "done" /\ ~overtaken => card.of \in {NoMember, username}

\* A flag set from the card does not reach the lists, and a list asked for
\* before a change undoes it on the screen; where there is a conversation this
\* heals: left alone, the open dialog comes to show the server's flag.
IgnoreSettles ==
    <>[][Polls]_profileVars =>
        <>[](activeDialog \in Conversed =>
                ShownIgnored(activeDialog) = (activeDialog \in ignored))

=============================================================================
