------------------------- MODULE ProfileCard_proofs -------------------------
(* TLAPS proofs about ProfileCard, for every set of members and any number *)
(* of calls under way.                                                     *)
EXTENDS ProfileCard, TLAPS

(***************************************************************************)
(* The invariant.  What names a member in a call that changes a flag is a  *)
(* member, whose flag its answer has; and a card is loaded for one.        *)
(***************************************************************************)
Flagging == {"like", "ignore", "setIgnored", "orphan"}

CardTyped ==
    /\ username \in Members \cup {NoMember}
    /\ card \in [of : Members \cup {NoMember}, ignored : BOOLEAN]
    /\ cardLoad \in {"none", "asked", "done", "failed"} /\ overtaken \in BOOLEAN
    /\ cardLoad = "asked" => username \in Members
    /\ card = NoCard \/ card.of \in Members
HubTyped ==
    /\ activeDialog \in Members \cup {NoMember}
    /\ profiles \in Lists /\ conversations \in Lists
SoundCall(q) ==
    /\ q \in Asked \cup WithAnswer
    /\ q.kind \in Flagging => q.of \in Members
    /\ q.kind \in Flagging /\ q.at = "answered" => q.of \in DOMAIN q.answer
SoundBag(B) == \A q \in DOMAIN B : SoundCall(q)
CallsTyped == SoundBag(calls)
ServerTyped == ignored \subseteq Members

CardInv == CardTyped /\ HubTyped /\ CallsTyped /\ ServerTyped /\ CardShowsSelected

LEMMA TypeFollows == CardInv => TypeOK
<1>1. CallsTyped => DOMAIN calls \subseteq Asked \cup WithAnswer
  BY DEF CallsTyped, SoundBag, SoundCall
<1>2. QED
  BY <1>1 DEF CardInv, CardTyped, HubTyped, ServerTyped, TypeOK

LEMMA WithType ==
    ASSUME NEW S \in SUBSET Members, NEW m \in Members, NEW on
    PROVE  With(S, m, on) \in SUBSET Members
BY DEF With

LEMMA ListType ==
    ASSUME NEW D \in SUBSET Members, NEW list \in [D -> BOOLEAN]
    PROVE  list \in Lists /\ DOMAIN list = D
BY DEF Lists

LEMMA NoList == <<>> \in Lists
<1>1. <<>> \in [{} -> BOOLEAN] /\ {} \in SUBSET Members
  OBVIOUS
<1>2. QED
  BY <1>1 DEF Lists

LEMMA FlagsType ==
    ASSUME NEW D \in SUBSET Members
    PROVE  Flags(D) \in Lists /\ DOMAIN Flags(D) = D
<1>1. Flags(D) \in [D -> BOOLEAN]
  BY DEF Flags
<1>2. QED
  BY <1>1, ListType

LEMMA NoCardType == NoCard \in [of : Members \cup {NoMember}, ignored : BOOLEAN]
                    /\ NoCard.of = NoMember
BY DEF NoCard

(***************************************************************************)
(* Calls.                                                                  *)
(***************************************************************************)
LEMMA BagDomains ==
    ASSUME NEW B, NEW C, NEW S
    PROVE  /\ DOMAIN SetToBag(S) = S
           /\ DOMAIN (B (+) C) = DOMAIN B \cup DOMAIN C
           /\ DOMAIN (B (-) C) \subseteq DOMAIN B
BY DEF SetToBag, (+), (-)

LEMMA BagsAdded ==
    ASSUME NEW B, NEW C, SoundBag(B), SoundBag(C)
    PROVE  SoundBag(B (+) C)
<1>1. PICK D : D = B (+) C
  OBVIOUS
<1>2. DOMAIN D = DOMAIN B \cup DOMAIN C
  BY <1>1, BagDomains
<1>3. SoundBag(D)
  BY <1>2 DEF SoundBag
<1>4. QED
  BY <1>1, <1>3

LEMMA AskType ==
    ASSUME NEW kind \in Kinds, NEW m \in Members \cup {NoMember}, NEW on \in BOOLEAN,
           kind \in Flagging => m \in Members
    PROVE  SoundBag(Ask(kind, m, on))
<1> DEFINE q == [kind |-> kind, of |-> m, on |-> on, at |-> "asked"]
<1>1. q \in Asked /\ q.kind = kind /\ q.of = m /\ q.at = "asked"
  BY DEF Asked
<1>2. SoundCall(q)
  BY <1>1 DEF SoundCall
<1>3. DOMAIN Ask(kind, m, on) = {q}
  BY BagDomains DEF Ask
<1>4. QED
  BY <1>2, <1>3 DEF SoundBag

LEMMA LoadsType == SoundBag(Loads)
<1>1. SoundBag(Ask("profiles", NoMember, TRUE)) /\ SoundBag(Ask("conversations", NoMember, TRUE))
  BY AskType DEF Kinds, Flagging
<1>2. QED
  BY <1>1, BagsAdded DEF Loads

LEMMA StartsType ==
    ASSUME NEW B, NEW C, SoundBag(B), SoundBag(C), Starts(B, C)
    PROVE  CallsTyped'
<1>1. calls' = B (+) C
  BY DEF Starts
<1>2. PICK D : D = B (+) C
  OBVIOUS
<1>3. SoundBag(D)
  BY <1>2, BagsAdded
<1>4. QED
  BY <1>1, <1>2, <1>3 DEF CallsTyped, SoundBag

(* A call whose screen is gone keeps its member.                           *)
LEMMA OrphansType ==
    ASSUME CallsTyped, NEW kinds
    PROVE  SoundBag(Without(kinds)) /\ \A kind \in Flagging : SoundBag(Orphans(kind))
<1>1. SoundBag(Without(kinds))
  BY DEF CallsTyped, SoundBag, Without
<1>2. ASSUME NEW kind \in Flagging, NEW r \in DOMAIN calls, r.kind = kind, r.at = "asked"
      PROVE  SoundCall([r EXCEPT !.kind = "orphan"])
  <2>1. SoundCall(r)
    BY DEF CallsTyped, SoundBag
  <2>2. r \in Asked /\ r.of \in Members
    BY <1>2, <2>1 DEF SoundCall, WithAnswer
  <2>3. PICK q : q = [r EXCEPT !.kind = "orphan"]
    OBVIOUS
  <2>4. q \in Asked /\ q.of = r.of /\ q.at = "asked"
    BY <2>2, <2>3 DEF Asked, Kinds
  <2>5. QED
    BY <2>2, <2>3, <2>4 DEF SoundCall
<1>3. ASSUME NEW kind \in Flagging PROVE SoundBag(Orphans(kind))
  <2>1. DOMAIN Orphans(kind) =
            {[r EXCEPT !.kind = "orphan"] :
                r \in {c \in DOMAIN calls : c.kind = kind /\ c.at = "asked"}}
    BY DEF Orphans
  <2>2. QED
    BY <1>2, <2>1 DEF SoundBag
<1>4. QED
  BY <1>1, <1>3

LEMMA EndsType ==
    ASSUME CallsTyped, NEW q, Ends(q)
    PROVE  CallsTyped'
<1>1. DOMAIN calls' \subseteq DOMAIN calls
  BY BagDomains DEF Ends
<1>2. QED
  BY <1>1 DEF CallsTyped, SoundBag

LEMMA AnswerType ==
    ASSUME CallsTyped, NEW q \in DOMAIN calls, NEW flags \in Lists,
           q.kind \in Flagging => q.of \in DOMAIN flags, Answer(q, flags)
    PROVE  CallsTyped'
<1> DEFINE a == [kind |-> q.kind, of |-> q.of, at |-> "answered", answer |-> flags]
           left == calls (-) SetToBag({q})
<1>1. q \in Asked \cup WithAnswer /\ (q.kind \in Flagging => q.of \in Members)
  BY DEF CallsTyped, SoundBag, SoundCall
<1>2. a \in WithAnswer /\ a.kind = q.kind /\ a.of = q.of /\ a.answer = flags
  BY <1>1 DEF Asked, WithAnswer
<1>3. SoundCall(a)
  BY <1>1, <1>2 DEF SoundCall
<1>4. calls' = left (+) SetToBag({a})
  BY DEF Answer
<1> HIDE DEF a
<1>5. DOMAIN left \subseteq DOMAIN calls
  BY BagDomains
<1> HIDE DEF left
<1>6. DOMAIN calls' = DOMAIN left \cup {a}
  BY <1>4, BagDomains
<1>7. QED
  BY <1>3, <1>5, <1>6 DEF CallsTyped, SoundBag

LEMMA ServedStep ==
    ASSUME CardInv, NEW q \in DOMAIN calls, Served(q)
    PROVE  CardInv'
<1>1. UNCHANGED <<cardVars, hubVars>> /\ CallsTyped /\ ServerTyped /\ q.at = "asked"
  BY DEF Served, CardInv
<1>2. q \in Asked \cup WithAnswer /\ (q.kind \in Flagging => q.of \in Members)
  BY <1>1 DEF CallsTyped, SoundBag, SoundCall
<1>3. q \in Asked /\ q.on \in BOOLEAN
  BY <1>1, <1>2 DEF Asked, WithAnswer
<1>4. CallsTyped' /\ ServerTyped'
  <2>1. CASE q.kind = "like" /\ Answer(q, Flags({q.of})) /\ UNCHANGED ignored
    <3>1. {q.of} \in SUBSET Members
      BY <1>2, <2>1 DEF Flagging
    <3>2. PICK flags : flags = Flags({q.of})
      OBVIOUS
    <3>3. flags \in Lists /\ q.of \in DOMAIN flags
      BY <3>1, <3>2, FlagsType
    <3>4. QED
      BY <1>1, <2>1, <3>2, <3>3, AnswerType DEF ServerTyped
  <2>2. CASE /\ q.kind \in {"ignore", "setIgnored"} /\ Answer(q, [m \in {q.of} |-> q.on])
             /\ ignored' = With(ignored, q.of, q.on)
    <3>1. q.of \in Members
      BY <1>2, <2>2 DEF Flagging
    <3>2. PICK flags : flags = [m \in {q.of} |-> q.on]
      OBVIOUS
    <3>3. flags \in [{q.of} -> BOOLEAN] /\ {q.of} \in SUBSET Members
      BY <1>3, <3>1, <3>2
    <3>4. flags \in Lists /\ q.of \in DOMAIN flags
      BY <3>3, ListType
    <3>5. With(ignored, q.of, q.on) \in SUBSET Members
      BY <1>1, <3>1, WithType DEF ServerTyped
    <3>6. QED
      BY <1>1, <2>2, <3>2, <3>4, <3>5, AnswerType DEF ServerTyped
  <2>3. CASE q.kind = "orphan" /\ Ends(q) /\ ignored' = With(ignored, q.of, q.on)
    <3>1. q.of \in Members
      BY <1>2, <2>3 DEF Flagging
    <3>2. With(ignored, q.of, q.on) \in SUBSET Members
      BY <1>1, <3>1, WithType DEF ServerTyped
    <3>3. QED
      BY <1>1, <2>3, <3>2, EndsType DEF ServerTyped
  <2>4. CASE q.kind = "conversations" /\ Answer(q, Flags(Conversed)) /\ UNCHANGED ignored
    <3>1. PICK flags : flags = Flags(Conversed)
      OBVIOUS
    <3>2. flags \in Lists
      BY <3>1, FlagsType, MemberAssumption
    <3>3. QED
      BY <1>1, <2>4, <3>1, <3>2, AnswerType DEF ServerTyped, Flagging
  <2>5. CASE /\ q.kind = "profiles" /\ UNCHANGED ignored
             /\ \E found \in Searches : Answer(q, Flags(found))
    <3>1. PICK found \in Searches : Answer(q, Flags(found))
      BY <2>5
    <3>2. PICK flags : flags = Flags(found)
      OBVIOUS
    <3>3. flags \in Lists
      BY <3>2, FlagsType, MemberAssumption
    <3>4. QED
      BY <1>1, <2>5, <3>1, <3>2, <3>3, AnswerType DEF ServerTyped, Flagging
  <2>6. QED
    BY <2>1, <2>2, <2>3, <2>4, <2>5 DEF Served
<1>5. QED
  BY <1>1, <1>4 DEF CardInv, CardTyped, HubTyped, CardShowsSelected, cardVars, hubVars

\* A list in which one flag is turned is a list.
LEMMA TurnedType ==
    ASSUME NEW list \in Lists, NEW q, q.answer \in Lists, q.of \in DOMAIN q.answer
    PROVE  Turned(list, q) \in Lists
<1>1. PICK D \in SUBSET Members : list \in [D -> BOOLEAN]
  BY DEF Lists
<1>2. q.answer[q.of] \in BOOLEAN
  BY DEF Lists
<1>3. Turned(list, q) \in [D -> BOOLEAN]
  <2>1. Turned(list, q) = [m \in D |-> IF m = q.of THEN q.answer[m] ELSE list[m]]
    BY <1>1 DEF Turned
  <2>2. \A m \in D : (IF m = q.of THEN q.answer[m] ELSE list[m]) \in BOOLEAN
    BY <1>1, <1>2, Zenon
  <2>3. QED
    BY <2>1, <2>2
<1>4. QED
  BY <1>3, ListType

LEMMA AnsweredStep ==
    ASSUME CardInv, NEW q \in DOMAIN calls, Answered(q)
    PROVE  CardInv'
<1>1. /\ CardTyped /\ HubTyped /\ CallsTyped /\ ServerTyped /\ CardShowsSelected
      /\ q.at = "answered" /\ Ends(q) /\ UNCHANGED ignored
  BY DEF Answered, CardInv
<1>2. /\ q \in WithAnswer /\ q.answer \in Lists
      /\ q.kind \in Flagging => q.of \in Members /\ q.of \in DOMAIN q.answer
  BY <1>1 DEF CallsTyped, SoundBag, SoundCall, Asked, WithAnswer
<1>3. CallsTyped' /\ ServerTyped'
  BY <1>1, EndsType DEF ServerTyped
<1>4. CardTyped' /\ HubTyped' /\ CardShowsSelected'
  <2>1. CASE ToggleAnswered(q)
    <3>1. /\ card' = [of |-> q.of, ignored |-> q.answer[q.of]]
          /\ overtaken' = (overtaken \/ q.of # username)
          /\ UNCHANGED <<username, cardLoad, hubVars>>
          /\ q.of \in Members /\ q.of \in DOMAIN q.answer
      BY <1>2, <2>1 DEF ToggleAnswered, Flagging
    <3>2. card' \in [of : Members \cup {NoMember}, ignored : BOOLEAN] /\ card'.of = q.of
      <4>1. q.answer[q.of] \in BOOLEAN
        BY <1>2, <3>1 DEF Lists
      <4>2. QED
        BY <3>1, <4>1
    <3>3. overtaken' \in BOOLEAN
      BY <3>1
    <3>4. CardTyped' /\ HubTyped'
      BY <1>1, <3>1, <3>2, <3>3 DEF CardTyped, HubTyped, hubVars
    <3>5. ~overtaken' => q.of = username
      BY <3>1
    <3>6. CardShowsSelected'
      BY <3>1, <3>2, <3>5 DEF CardShowsSelected
    <3>7. QED
      BY <3>4, <3>6
  <2>2. CASE IgnoreSet(q)
    <3>1. /\ profiles' = Turned(profiles, q) /\ conversations' = Turned(conversations, q)
          /\ UNCHANGED <<cardVars, activeDialog>>
          /\ q.of \in DOMAIN q.answer
      BY <1>2, <2>2 DEF IgnoreSet, Flagging
    <3>2. profiles' \in Lists
      BY <1>1, <1>2, <3>1, TurnedType DEF HubTyped
    <3>3. conversations' \in Lists
      BY <1>1, <1>2, <3>1, TurnedType DEF HubTyped
    <3>4. HubTyped'
      BY <1>1, <3>1, <3>2, <3>3 DEF HubTyped
    <3>5. CardTyped' /\ CardShowsSelected'
      BY <1>1, <3>1 DEF CardTyped, CardShowsSelected, cardVars
    <3>6. QED
      BY <3>4, <3>5
  <2>3. CASE ProfilesLoaded(q) \/ ConversationsLoaded(q)
    <3>1. /\ UNCHANGED <<cardVars, activeDialog>>
          /\ profiles' \in {profiles, q.answer}
          /\ conversations' \in {conversations, q.answer}
      BY <2>3 DEF ProfilesLoaded, ConversationsLoaded
    <3>4. HubTyped'
      BY <1>1, <1>2, <3>1 DEF HubTyped
    <3>5. CardTyped' /\ CardShowsSelected'
      BY <1>1, <3>1 DEF CardTyped, CardShowsSelected, cardVars
    <3>6. QED
      BY <3>4, <3>5
  <2>4. QED
    BY <2>1, <2>2, <2>3 DEF Answered
<1>5. QED
  BY <1>3, <1>4 DEF CardInv

(***************************************************************************)
(* The card and the screens around it.                                     *)
(***************************************************************************)
LEMMA CardSteps ==
    ASSUME CardInv,
           (\E m \in Members : openProfile(m)) \/ ProfileLoaded \/ ProfileFailed
    PROVE  CardInv'
<1>1. CardTyped /\ HubTyped /\ CallsTyped /\ ServerTyped /\ CardShowsSelected
  BY DEF CardInv
<1>2. UNCHANGED <<hubVars, calls, ignored>>
  BY DEF openProfile, ProfileLoaded, ProfileFailed
<1>3. HubTyped' /\ CallsTyped' /\ ServerTyped'
  BY <1>1, <1>2 DEF HubTyped, CallsTyped, ServerTyped, hubVars
<1>4. CASE \E m \in Members : openProfile(m)
  <2>1. CardTyped' /\ CardShowsSelected'
    BY <1>1, <1>4 DEF openProfile, CardTyped, CardShowsSelected
  <2>2. QED
    BY <1>3, <2>1 DEF CardInv
<1>5. CASE ProfileLoaded
  <2>1. /\ username \in Members /\ UNCHANGED username
        /\ cardLoad' = "done" /\ overtaken' = FALSE /\ card' \in {Row(username), NoCard}
    BY <1>1, <1>5 DEF ProfileLoaded, CardTyped
  <2>2. Row(username) \in [of : Members \cup {NoMember}, ignored : BOOLEAN]
        /\ Row(username).of = username
    BY <2>1 DEF Row
  <2>3. CardTyped' /\ CardShowsSelected'
    BY <2>1, <2>2, NoCardType DEF CardTyped, CardShowsSelected
  <2>4. QED
    BY <1>3, <2>3 DEF CardInv
<1>6. CASE ProfileFailed
  <2>1. CardTyped' /\ CardShowsSelected'
    BY <1>1, <1>6 DEF ProfileFailed, CardTyped, CardShowsSelected
  <2>2. QED
    BY <1>3, <2>1 DEF CardInv
<1>7. QED
  BY <1>4, <1>5, <1>6

LEMMA ScreenSteps ==
    ASSUME CardInv,
           (\E m \in Members \cup {NoMember} : openDialog(m) \/ Mount(m)) \/ handleWrite
    PROVE  CardInv'
<1>1. CardTyped /\ HubTyped /\ CallsTyped /\ ServerTyped
  BY DEF CardInv
<1>2. handleWrite => \E m \in Members \cup {NoMember} : Mount(m)
  BY <1>1 DEF handleWrite, CardTyped
<1>3. PICK m \in Members \cup {NoMember} : openDialog(m) \/ Mount(m)
  BY <1>2
<1>4. /\ activeDialog' = m /\ ignored' = ignored
      /\ username' = NoMember /\ card' = NoCard /\ cardLoad' = "none" /\ overtaken' = FALSE
  BY <1>3 DEF openDialog, Mount
<1>5. profiles' \in {profiles, <<>>} /\ conversations' \in {conversations, <<>>}
  BY <1>3 DEF openDialog, Mount
<1>6. HubTyped'
  BY <1>1, <1>4, <1>5, NoList DEF HubTyped
<1>7. CallsTyped'
  <2>1. SoundBag(Orphans("ignore")) /\ SoundBag(Orphans("setIgnored"))
    BY <1>1, OrphansType DEF Flagging
  <2>2. CASE openDialog(m)
    <3>1. PICK B : B = Without({"like", "ignore"}) (+) Orphans("ignore")
      OBVIOUS
    <3>2. SoundBag(B)
      BY <1>1, <2>1, <3>1, OrphansType, BagsAdded
    <3>3. calls' = B
      BY <2>2, <3>1 DEF openDialog
    <3>4. QED
      BY <3>2, <3>3 DEF CallsTyped, SoundBag
  <2>3. CASE Mount(m)
    <3>1. PICK B : B = Without(Kinds \ {"orphan"}) (+) Orphans("ignore")
      OBVIOUS
    <3>2. SoundBag(B)
      BY <1>1, <2>1, <3>1, OrphansType, BagsAdded
    <3>3. PICK C : C = B (+) Orphans("setIgnored")
      OBVIOUS
    <3>4. SoundBag(C)
      BY <2>1, <3>2, <3>3, BagsAdded
    <3>5. Starts(C, Loads)
      BY <2>3, <3>1, <3>3 DEF Mount
    <3>6. QED
      BY <3>4, <3>5, LoadsType, StartsType
  <2>4. QED
    BY <1>3, <2>2, <2>3
<1>8. CardTyped' /\ CardShowsSelected' /\ ServerTyped'
  BY <1>1, <1>4, NoCardType DEF CardTyped, CardShowsSelected, ServerTyped
<1>9. QED
  BY <1>6, <1>7, <1>8 DEF CardInv

LEMMA AskedStep ==
    ASSUME CallsTyped, NEW kind \in Kinds, NEW m \in Members \cup {NoMember}, NEW on \in BOOLEAN,
           kind \in Flagging => m \in Members, Starts(calls, Ask(kind, m, on))
    PROVE  CallsTyped'
<1>1. SoundBag(Ask(kind, m, on)) /\ SoundBag(calls)
  BY AskType DEF CallsTyped
<1>2. QED
  BY <1>1, StartsType

(* What starts a call changes nothing else yet.                            *)
LEMMA CallSteps ==
    ASSUME CardInv,
           \/ toggleLike \/ toggleIgnore \/ setIgnored \/ loadProfiles \/ loadConversations
           \/ \E q \in DOMAIN calls : Failed(q)
    PROVE  CardInv'
<1>1. /\ CardTyped /\ HubTyped /\ CallsTyped /\ ServerTyped /\ CardShowsSelected
      /\ UNCHANGED <<cardVars, hubVars, ignored>>
  BY DEF CardInv, toggleLike, toggleIgnore, setIgnored, loadProfiles, loadConversations, Failed
<1>2. CallsTyped'
  <2>1. CASE toggleLike
    <3>1. Starts(calls, Ask("like", card.of, TRUE)) /\ card.of \in Members
      BY <1>1, <2>1 DEF toggleLike, Shown, CardTyped
    <3>2. QED
      BY <1>1, <3>1, AskedStep DEF Kinds
  <2>2. CASE toggleIgnore
    <3>1. Starts(calls, Ask("ignore", card.of, ~card.ignored)) /\ card.of \in Members
      BY <1>1, <2>2 DEF toggleIgnore, Shown, CardTyped
    <3>2. (~card.ignored) \in BOOLEAN /\ "ignore" \in Kinds
      BY DEF Kinds
    <3>3. QED
      BY <1>1, <3>1, <3>2, AskedStep
  <2>3. CASE setIgnored
    <3>1. Starts(calls, Ask("setIgnored", activeDialog, ~ShownIgnored(activeDialog))) /\ activeDialog \in Members
      BY <1>1, <2>3 DEF setIgnored, DialogOpen, HubTyped
    <3>2. (~ShownIgnored(activeDialog)) \in BOOLEAN /\ "setIgnored" \in Kinds
      BY DEF Kinds
    <3>3. QED
      BY <1>1, <3>1, <3>2, AskedStep
  <2>4. CASE loadProfiles \/ loadConversations
    <3>1. PICK kind \in {"profiles", "conversations"} : Starts(calls, Ask(kind, NoMember, TRUE))
      BY <2>4 DEF loadProfiles, loadConversations
    <3>2. kind \in Kinds /\ kind \notin Flagging
      BY DEF Kinds, Flagging
    <3>3. QED
      BY <1>1, <3>1, <3>2, AskedStep
  <2>5. CASE \E q \in DOMAIN calls : Failed(q)
    BY <1>1, <2>5, EndsType DEF Failed
  <2>6. QED
    BY <2>1, <2>2, <2>3, <2>4, <2>5
<1>3. CardTyped' /\ HubTyped' /\ ServerTyped' /\ CardShowsSelected'
  BY <1>1 DEF CardTyped, HubTyped, ServerTyped, CardShowsSelected, cardVars, hubVars
<1>4. QED
  BY <1>2, <1>3 DEF CardInv

-----------------------------------------------------------------------------
LEMMA CardStart == Init => CardInv
<1> SUFFICES ASSUME Init PROVE CardInv
  OBVIOUS
<1>2. CardTyped /\ HubTyped
  BY NoList, NoCardType DEF Init, CardTyped, HubTyped
<1>3. CallsTyped /\ ServerTyped /\ CardShowsSelected
  BY LoadsType DEF Init, CallsTyped, ServerTyped, CardShowsSelected
<1>4. QED
  BY <1>2, <1>3 DEF CardInv

LEMMA CardStep == CardInv /\ [Next]_profileVars => CardInv'
<1> SUFFICES ASSUME CardInv, [Next]_profileVars PROVE CardInv'
  OBVIOUS
<1>1. CASE Acts
  BY <1>1, CardSteps, ScreenSteps, CallSteps DEF Acts
<1>2. CASE Polls
  BY <1>2, CallSteps, CardSteps, ServedStep, AnsweredStep DEF Polls
<1>3. CASE UNCHANGED profileVars
  BY <1>3 DEF CardInv, CardTyped, HubTyped, CallsTyped, ServerTyped, CardShowsSelected,
              profileVars, cardVars, hubVars
<1>4. QED
  BY <1>1, <1>2, <1>3 DEF Next

LEMMA CardInvariant == Spec => []CardInv
<1>1. QED
  BY CardStart, CardStep, PTL DEF Spec

(* The card, the lists and the calls under way keep their types            *)
(* (ProfileCard.tsx, SocialHub.tsx).                                       *)
THEOREM CardTypes == Spec => []TypeOK
<1>1. QED
  BY CardInvariant, TypeFollows, PTL

(* Whatever loads are aborted or fail: a card that has loaded is the       *)
(* selected member's, but for an answer to a toggle of another member      *)
(* (loadProfile, toggleLike and toggleIgnore of ProfileCard.tsx).          *)
THEOREM CardOfSelected == Spec => []CardShowsSelected
<1>1. CardInv => CardShowsSelected
  BY DEF CardInv
<1>2. QED
  BY <1>1, CardInvariant, PTL

=============================================================================
