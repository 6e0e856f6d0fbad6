---------------------------- MODULE Lobby_proofs ----------------------------
(* TLAPS proofs about the lobby: GlobalChat, for every number of messages  *)
(* and every size of its pages, then Lobby, for every set of events and    *)
(* rooms and every number of calls.                                        *)
EXTENDS GlobalChat, Lobby, FiniteSetTheorems, SequenceTheorems,
        WellFoundedInduction, TLAPS

(***************************************************************************)
(* Sets of ids.                                                            *)
(***************************************************************************)

(* A finite set of ids has a newest one: of the sets of what is not older  *)
(* than one of them, take one that contains no other.                      *)
LEMMA NewestExists ==
    ASSUME NEW S \in SUBSET Nat, S # {}, IsFiniteSet(S)
    PROVE  \E m \in S : \A k \in S : k <= m
<1> DEFINE From(m) == {k \in S : k >= m}
           U == {From(m) : m \in S}
           R == StrictSubsetOrdering(S)
<1>1. IsWellFoundedOn(R, FiniteSubsetsOf(S))
  BY FS_StrictSubsetOrderingWellFounded
<1>2. U \subseteq FiniteSubsetsOf(S) /\ U # {}
  <2>1. \A m \in S : From(m) \in SUBSET S
    OBVIOUS
  <2>2. \A m \in S : IsFiniteSet(From(m))
    BY <2>1, FS_Subset
  <2>3. QED
    BY <2>1, <2>2 DEF FiniteSubsetsOf
<1>3. PICK X \in U : \A Y \in U : ~(<<Y, X>> \in R)
  <2> HIDE DEF U, R
  <2>1. QED
    BY <1>1, <1>2, WFMin
<1>4. PICK m \in S : X = From(m)
  OBVIOUS
<1>5. ASSUME NEW k \in S, k > m PROVE FALSE
  <2>1. k \in Nat /\ m \in Nat /\ \A i \in S : i \in Nat
    OBVIOUS
  <2>2. From(k) \in U
    OBVIOUS
  <2>3. \A i \in S : i >= k => i >= m
    BY <1>5, <2>1
  <2>4. m >= m /\ ~(m >= k)
    BY <1>5, <2>1
  <2>5. From(k) \in U /\ From(k) \subseteq From(m) /\ m \in From(m) /\ m \notin From(k)
    BY <2>2, <2>3, <2>4
  <2>6. <<From(k), From(m)>> \in R
    BY <2>5 DEF StrictSubsetOrdering
  <2>7. QED
    BY <1>3, <1>4, <2>5, <2>6
<1>6. QED
  BY <1>4, <1>5

LEMMA HighestIsNewest ==
    ASSUME NEW S \in SUBSET Nat, S # {}, IsFiniteSet(S)
    PROVE  Highest(S) \in S /\ \A k \in S : k <= Highest(S)
BY NewestExists DEF Highest

LEMMA NewestStays ==
    ASSUME NEW n \in Nat \ {0}, NEW S \in SUBSET Nat, NEW m \in S, \A k \in S : k <= m
    PROVE  m \in Newest(n, S)
<1>0. \A k \in S : k \in Nat /\ m \in Nat /\ ~(k > m)
  OBVIOUS
<1>1. {k \in S : k > m} = {}
  BY <1>0
<1>2. Cardinality({k \in S : k > m}) = 0
  BY <1>1, FS_EmptySet
<1>3. QED
  BY <1>2 DEF Newest

LEMMA PagesAreSubsets ==
    ASSUME NEW n, NEW S
    PROVE  Newest(n, S) \subseteq S /\ Oldest(n, S) \subseteq S
BY DEF Newest, Oldest

(***************************************************************************)
(* The invariant: besides its type, a message this page has sent has a row *)
(* once the server says so.                                                *)
(***************************************************************************)
Fetching == \/ fetch = Idle
            \/ \E c \in 0 .. MaxId : fetch = Asked(c)
            \/ \E S \in SUBSET visible : fetch = Answered(S)
Sending == \/ send \in {Idle, Posting}
           \/ \E i \in 1 .. lastId : send = Taken(i)
           \/ \E i \in visible : send = Posted(i)
ServerTyped == lastId \in 0 .. MaxId /\ visible \subseteq 1 .. lastId /\ late \subseteq visible
ShownTyped == messages \subseteq visible /\ own \subseteq visible /\ latestMessageId \in 0 .. MaxId
RestTyped == mounted \in BOOLEAN /\ hidden \in BOOLEAN /\ failures \in 0 .. MaxFailures

ChatInv ==
    /\ ServerTyped /\ ShownTyped /\ RestTyped
    /\ Fetching /\ Sending /\ CursorIsNewest

LEMMA TypeFollows == ChatInv => ChatTypeOK
<1> SUFFICES ASSUME ChatInv PROVE ChatTypeOK
  OBVIOUS
<1>1. 1 .. lastId \subseteq Ids
  BY ChatAssumption DEF ChatInv, ServerTyped, Ids
<1>2. \/ send \in {Idle, Posting}
      \/ \E i \in Ids : send \in {Taken(i), Posted(i)}
  BY <1>1 DEF ChatInv, ServerTyped, Sending
<1>3. QED
  BY <1>2 DEF ChatInv, ServerTyped, ShownTyped, RestTyped, Fetching, ChatTypeOK

LEMMA RowsAreFinite ==
    ASSUME ChatInv
    PROVE  visible \in SUBSET Nat /\ IsFiniteSet(visible) /\ \A m \in visible : m \in 1 .. MaxId
<1>1. lastId \in Int /\ lastId <= MaxId /\ MaxId \in Nat /\ visible \subseteq 1 .. lastId
  BY ChatAssumption DEF ChatInv, ServerTyped
<1>2. IsFiniteSet(1 .. lastId)
  BY <1>1, FS_Interval
<1>3. IsFiniteSet(visible)
  BY <1>1, <1>2, FS_Subset
<1>4. QED
  BY <1>1, <1>3

(***************************************************************************)
(* mergeMessages.                                                          *)
(***************************************************************************)
LEMMA MergeKeeps ==
    ASSUME ChatInv, NEW incoming \in SUBSET visible, mergeMessages(incoming)
    PROVE  /\ messages' \subseteq visible /\ latestMessageId' \in 0 .. MaxId
           /\ CursorIsNewest'
<1> DEFINE all == messages \cup incoming
<1>1. /\ visible \in SUBSET Nat /\ IsFiniteSet(visible)
      /\ \A m \in visible : m \in 1 .. MaxId
      /\ messages \subseteq visible /\ latestMessageId \in 0 .. MaxId
  BY RowsAreFinite DEF ChatInv, ShownTyped
<1>2. messages' = Newest(VisibleLimit, all) /\ messages' \subseteq all
  BY PagesAreSubsets DEF mergeMessages
<1>3. all \in SUBSET Nat /\ all \subseteq visible
  BY <1>1
<1>4. ASSUME latestMessageId' \in all, \A k \in all : k <= latestMessageId'
      PROVE  CursorIsNewest'
  <2>1. latestMessageId' \in messages'
    <3>1. VisibleLimit \in Nat \ {0}
      BY ChatAssumption
    <3>2. QED
      BY <1>2, <1>3, <1>4, <3>1, NewestStays
  <2>2. QED
    BY <1>2, <1>4, <2>1 DEF CursorIsNewest
<1>5. CASE incoming = {}
  <2>1. latestMessageId' = latestMessageId /\ all = messages
    BY <1>5 DEF mergeMessages
  <2>2. CASE messages = {}
    BY <1>1, <1>2, <2>1, <2>2 DEF ChatInv, CursorIsNewest
  <2>3. CASE messages # {}
    <3>1. latestMessageId \in messages /\ \A m \in messages : m <= latestMessageId
      BY <2>3 DEF ChatInv, CursorIsNewest
    <3>2. QED
      BY <1>1, <1>2, <1>3, <1>4, <2>1, <3>1
  <2>4. QED
    BY <2>2, <2>3
<1>6. CASE incoming # {}
  <2> DEFINE both == incoming \cup {latestMessageId}
  <2>1. latestMessageId' = Highest(both)
    BY <1>6 DEF mergeMessages
  <2>2. both \in SUBSET Nat /\ both # {} /\ IsFiniteSet(both)
    <3>1. IsFiniteSet(incoming)
      BY <1>1, FS_Subset
    <3>2. QED
      BY <1>1, <3>1, FS_AddElement
  <2>3. Highest(both) \in both /\ \A k \in both : k <= Highest(both)
    <3> HIDE DEF both
    <3>1. QED
      BY <2>2, HighestIsNewest
  <2>4. \A k \in messages : k <= latestMessageId
    BY DEF ChatInv, CursorIsNewest
  <2>5. latestMessageId \in messages \/ latestMessageId = 0
    BY DEF ChatInv, CursorIsNewest
  <2>6. Highest(both) # 0
    <3>1. PICK k \in incoming : k \in 1 .. MaxId
      BY <1>1, <1>6
    <3>2. k <= Highest(both) /\ Highest(both) \in Nat
      BY <2>2, <2>3, <3>1
    <3>3. QED
      BY <3>1, <3>2
  <2>7. Highest(both) \in all
    BY <2>3, <2>5, <2>6
  <2>8. \A k \in all : k <= Highest(both)
    <3>1. latestMessageId <= Highest(both) /\ Highest(both) \in Nat /\ latestMessageId \in Nat
      BY <1>1, <2>2, <2>3
    <3>2. \A k \in messages : k \in Nat /\ k <= latestMessageId
      BY <1>1, <2>4
    <3>3. \A k \in messages : k <= Highest(both)
      BY <3>1, <3>2
    <3>4. \A k \in incoming : k <= Highest(both)
      BY <2>3
    <3>5. QED
      BY <3>3, <3>4
  <2>9. latestMessageId' \in 0 .. MaxId
    <3>1. Highest(both) \in visible
      BY <1>3, <2>7
    <3>2. Highest(both) \in 1 .. MaxId /\ MaxId \in Nat
      BY <1>1, <3>1, ChatAssumption
    <3>3. QED
      BY <2>1, <3>2
  <2>10. QED
    BY <1>2, <1>3, <1>4, <2>1, <2>7, <2>8, <2>9
<1>7. QED
  BY <1>5, <1>6

(***************************************************************************)
(* Steps.                                                                  *)
(***************************************************************************)
LEMMA AskedType ==
    ASSUME ChatInv PROVE \E c \in 0 .. MaxId : Asked(latestMessageId) = Asked(c)
BY DEF ChatInv, ShownTyped

(* Rows are only added, so what was read from them stays readable.         *)
LEMMA RowsAdded ==
    ASSUME ChatInv, UNCHANGED <<shown, fetch, send>>, visible \subseteq visible',
           lastId \in Int, lastId' \in Int, lastId <= lastId'
    PROVE  ShownTyped' /\ Fetching' /\ Sending' /\ CursorIsNewest'
<1>1. ShownTyped' /\ CursorIsNewest'
  BY DEF ChatInv, ShownTyped, CursorIsNewest, shown
<1>2. Fetching'
  BY DEF ChatInv, Fetching
<1>3. 1 .. lastId \subseteq 1 .. lastId'
  OBVIOUS
<1>4. Sending'
  <2>1. CASE send \in {Idle, Posting}
    BY <2>1 DEF Sending
  <2>2. CASE \E i \in 1 .. lastId : send = Taken(i)
    BY <1>3, <2>2 DEF Sending
  <2>3. CASE \E i \in visible : send = Posted(i)
    BY <2>3 DEF Sending
  <2>4. QED
    BY <2>1, <2>2, <2>3 DEF ChatInv, Sending
<1>5. QED
  BY <1>1, <1>2, <1>4

LEMMA ServerSteps ==
    ASSUME ChatInv, Insert \/ AppendMessage \/ \E i \in Ids : Commit(i)
    PROVE  ChatInv'
<1>1. lastId \in 0 .. MaxId /\ MaxId \in Nat /\ visible \subseteq 1 .. lastId /\ late \subseteq visible
  BY ChatAssumption DEF ChatInv, ServerTyped
<1>2. CASE Insert
  <2>1. /\ lastId < MaxId /\ lastId' = lastId + 1
        /\ UNCHANGED <<visible, late, mounted, hidden, shown, fetch, send, failures>>
    BY <1>2 DEF Insert
  <2>2. lastId' \in 0 .. MaxId /\ 1 .. lastId \subseteq 1 .. lastId' /\ lastId <= lastId'
    BY <1>1, <2>1
  <2>3. ServerTyped' /\ RestTyped'
    BY <1>1, <2>1, <2>2 DEF ChatInv, ServerTyped, RestTyped
  <2>4. QED
    BY <1>1, <2>1, <2>2, <2>3, RowsAdded DEF ChatInv
<1>3. CASE AppendMessage
  <2>1. /\ lastId < MaxId /\ lastId' = lastId + 1 /\ send' = Taken(lastId + 1)
        /\ UNCHANGED <<visible, late, mounted, hidden, shown, fetch, failures>>
    BY <1>3 DEF AppendMessage
  <2>2. lastId' \in 0 .. MaxId /\ 1 .. lastId \subseteq 1 .. lastId' /\ lastId + 1 \in 1 .. lastId'
    BY <1>1, <2>1
  <2>3. ServerTyped' /\ RestTyped'
    BY <1>1, <2>1, <2>2 DEF ChatInv, ServerTyped, RestTyped
  <2>4. ShownTyped' /\ Fetching' /\ CursorIsNewest'
    BY <2>1 DEF ChatInv, ShownTyped, Fetching, CursorIsNewest, shown
  <2>5. Sending'
    BY <2>1, <2>2 DEF Sending
  <2>6. QED
    BY <2>3, <2>4, <2>5 DEF ChatInv
<1>4. CASE \E i \in Ids : Commit(i)
  <2>1. PICK i \in Ids : Commit(i)
    BY <1>4
  <2>2. /\ i <= lastId /\ visible' = visible \cup {i} /\ late' \in {late, late \cup {i}}
        /\ send' = IF send = Taken(i) THEN Posted(i) ELSE send
        /\ UNCHANGED <<lastId, mounted, hidden, shown, fetch, failures>>
    BY <2>1 DEF Commit
  <2>3. i \in 1 .. lastId
    BY <1>1, <2>2 DEF Ids
  <2>4. ServerTyped' /\ RestTyped'
    BY <1>1, <2>2, <2>3 DEF ChatInv, ServerTyped, RestTyped
  <2>5. ShownTyped' /\ CursorIsNewest'
    BY <2>2 DEF ChatInv, ShownTyped, CursorIsNewest, shown
  <2>6. Fetching'
    BY <2>2 DEF ChatInv, Fetching
  <2>7. Sending'
    <3>1. CASE send = Taken(i)
      BY <2>2, <3>1 DEF Sending
    <3>2. CASE send # Taken(i)
      BY <2>2, <3>2 DEF ChatInv, Sending
    <3>3. QED
      BY <3>1, <3>2
  <2>8. QED
    BY <2>4, <2>5, <2>6, <2>7 DEF ChatInv
<1>5. QED
  BY <1>2, <1>3, <1>4

(* Requests, and what ends them without an answer.                         *)
LEMMA RequestSteps ==
    ASSUME ChatInv,
           \/ Answer \/ fetchMessages \/ FetchFailed \/ handleVisibility \/ EffectRestarts
           \/ Mount \/ handleSubmit \/ SendFailed
    PROVE  ChatInv'
<1>1. /\ UNCHANGED <<server, shown>>
      /\ \/ fetch' \in {fetch, Idle, Asked(latestMessageId), Asked(0)}
         \/ \E S \in SUBSET visible : fetch' = Answered(S)
      /\ send' \in {send, Idle, Posting}
  <2>1. CASE Answer
    <3>1. GetMessages(fetch.cursor) \in SUBSET visible
      BY PagesAreSubsets DEF GetMessages
    <3>2. QED
      BY <2>1, <3>1 DEF Answer
  <2>2. CASE \/ fetchMessages \/ FetchFailed \/ handleVisibility \/ EffectRestarts
             \/ Mount \/ handleSubmit \/ SendFailed
    BY <2>2 DEF fetchMessages, FetchFailed, handleVisibility, EffectRestarts, Mount,
                handleSubmit, SendFailed, CanSend
  <2>3. QED
    BY <2>1, <2>2
<1>2. mounted' \in BOOLEAN /\ hidden' \in BOOLEAN
  BY DEF Answer, fetchMessages, FetchFailed, handleVisibility, EffectRestarts, Mount,
         handleSubmit, SendFailed, ChatInv, RestTyped
<1>3. failures' \in 0 .. MaxFailures
  <2>1. failures \in 0 .. MaxFailures /\ MaxFailures \in Nat
    BY ChatAssumption DEF ChatInv, RestTyped
  <2>2. failures' = failures \/ (failures < MaxFailures /\ failures' = failures + 1)
    BY DEF Answer, fetchMessages, FetchFailed, handleVisibility, EffectRestarts, Mount,
           handleSubmit, SendFailed
  <2>3. QED
    BY <2>1, <2>2
<1>4. Asked(0) \in {Asked(c) : c \in 0 .. MaxId}
  BY ChatAssumption
<1>5. Fetching'
  BY <1>1, <1>4, AskedType DEF ChatInv, Fetching, server
<1>6. Sending'
  BY <1>1 DEF ChatInv, Sending, server
<1>7. ServerTyped' /\ ShownTyped' /\ RestTyped' /\ CursorIsNewest'
  BY <1>1, <1>2, <1>3 DEF ChatInv, ServerTyped, ShownTyped, RestTyped, CursorIsNewest, server, shown
<1>8. QED
  BY <1>5, <1>6, <1>7 DEF ChatInv

LEMMA UnmountStep ==
    ASSUME ChatInv, Unmount
    PROVE  ChatInv'
<1>1. /\ mounted' = FALSE /\ fetch' = Idle /\ send' = Idle
      /\ messages' = {} /\ latestMessageId' = 0 /\ own' = {}
      /\ UNCHANGED <<server, hidden, failures>>
  BY DEF Unmount
<1>2. ServerTyped' /\ RestTyped' /\ Fetching' /\ Sending'
  BY <1>1 DEF ChatInv, ServerTyped, RestTyped, Fetching, Sending, server
<1>3. ShownTyped' /\ CursorIsNewest'
  BY <1>1, ChatAssumption DEF ShownTyped, CursorIsNewest
<1>4. QED
  BY <1>2, <1>3 DEF ChatInv

(* Answers are merged.                                                     *)
LEMMA MergeSteps ==
    ASSUME ChatInv, Received \/ Sent
    PROVE  ChatInv'
<1>1. PICK incoming \in SUBSET visible :
         /\ mergeMessages(incoming)
         /\ own' \in {own, own \cup incoming}
         /\ fetch' \in {fetch, Idle} /\ send' \in {send, Idle}
         /\ UNCHANGED <<server, mounted, hidden, failures>>
  <2>1. CASE Received
    <3>1. PICK S \in SUBSET visible : fetch = Answered(S)
      BY <2>1 DEF Received, ChatInv, Fetching, Idle, Asked
    <3>2. fetch.incoming = S
      BY <3>1 DEF Answered
    <3>3. QED
      BY <2>1, <3>1, <3>2 DEF Received
  <2>2. CASE Sent
    <3>1. PICK i \in visible : send = Posted(i)
      BY <2>2 DEF Sent, ChatInv, Sending, Idle, Posting, Taken
    <3>2. send.id = i
      BY <3>1 DEF Posted
    <3>3. {i} \in SUBSET visible /\ mergeMessages({i}) /\ own' = own \cup {i}
      BY <2>2, <3>1, <3>2 DEF Sent
    <3>4. QED
      BY <2>2, <3>3 DEF Sent
  <2>3. QED
    BY <2>1, <2>2
<1>2. messages' \subseteq visible /\ latestMessageId' \in 0 .. MaxId /\ CursorIsNewest'
  BY <1>1, MergeKeeps
<1>3. ServerTyped' /\ RestTyped' /\ ShownTyped'
  BY <1>1, <1>2 DEF ChatInv, ServerTyped, RestTyped, ShownTyped, server
<1>4. Fetching' /\ Sending'
  BY <1>1 DEF ChatInv, Fetching, Sending, server
<1>5. QED
  BY <1>2, <1>3, <1>4 DEF ChatInv

-----------------------------------------------------------------------------
LEMMA ChatStart == ChatInit => ChatInv
<1> SUFFICES ASSUME ChatInit PROVE ChatInv
  OBVIOUS
<1>1. 0 \in 0 .. MaxId /\ 0 \in 0 .. MaxFailures
  BY ChatAssumption
<1>2. ServerTyped /\ ShownTyped
  BY <1>1 DEF ChatInit, ServerTyped, ShownTyped
<1>3. RestTyped /\ Fetching /\ Sending /\ CursorIsNewest
  BY <1>1 DEF ChatInit, RestTyped, Fetching, Sending, CursorIsNewest
<1>4. QED
  BY <1>2, <1>3 DEF ChatInv

LEMMA ChatStep == ChatInv /\ [ChatNext]_chatVars => ChatInv'
<1> SUFFICES ASSUME ChatInv, [ChatNext]_chatVars PROVE ChatInv'
  OBVIOUS
<1>1. CASE Screen
  BY <1>1, RequestSteps, UnmountStep DEF Screen
<1>2. CASE Component
  BY <1>2, RequestSteps, MergeSteps DEF Component
<1>3. CASE Server
  BY <1>3, RequestSteps, ServerSteps DEF Server
<1>4. CASE UNCHANGED chatVars
  BY <1>4 DEF ChatInv, ServerTyped, ShownTyped, RestTyped, Fetching, Sending, CursorIsNewest,
              chatVars, server, shown
<1>5. QED
  BY <1>1, <1>2, <1>3, <1>4 DEF ChatNext

LEMMA ChatInvariant == ChatSpec => []ChatInv
<1>1. QED
  BY ChatStart, ChatStep, PTL DEF ChatSpec

(* The feed, its cursor and its requests keep their types: what is shown   *)
(* or awaited are rows that can be read (GlobalChat.tsx, global_chat.go).  *)
THEOREM ChatTypes == ChatSpec => []ChatTypeOK
<1>1. QED
  BY ChatInvariant, TypeFollows, PTL

(* For every page size and every order of answers, commits, aborted        *)
(* requests and own messages: the cursor of the next request is the newest *)
(* message on screen (mergeMessages and its slice).                        *)
THEOREM CursorFollowsFeed == ChatSpec => []CursorIsNewest
<1>1. ChatInv => CursorIsNewest
  BY DEF ChatInv
<1>2. QED
  BY <1>1, ChatInvariant, PTL


-----------------------------------------------------------------------------
(***************************************************************************)
(* Gaps.  Pages and the list on screen have no holes of their own making:  *)
(* a page of the newest goes on to the end of its set, a page of the       *)
(* oldest starts where its set does.                                       *)
(***************************************************************************)
LEMMA NewestIsUpper ==
    ASSUME NEW n \in Nat, NEW S \in SUBSET Nat, IsFiniteSet(S),
           NEW s \in Newest(n, S), NEW m \in S, s < m
    PROVE  m \in Newest(n, S)
<1> DEFINE Above(x) == {k \in S : k > x}
<1>1. s \in Nat /\ m \in Nat /\ \A k \in S : k \in Nat
  BY DEF Newest
<1>2. Above(m) \subseteq Above(s) /\ Above(s) \subseteq S
  <2>1. \A k \in S : k > m => k > s
    BY <1>1
  <2>2. QED
    BY <2>1
<1>3. IsFiniteSet(Above(s))
  BY <1>2, FS_Subset
<1>4. IsFiniteSet(Above(m)) /\ Cardinality(Above(m)) <= Cardinality(Above(s))
  BY <1>2, <1>3, FS_Subset
<1>5. Cardinality(Above(m)) \in Nat /\ Cardinality(Above(s)) \in Nat
  BY <1>3, <1>4, FS_CardinalityType
<1>6. Cardinality(Above(s)) < n
  BY DEF Newest
<1>7. Cardinality(Above(m)) < n
  BY <1>4, <1>5, <1>6
<1>8. QED
  BY <1>7 DEF Newest

LEMMA OldestIsLower ==
    ASSUME NEW n \in Nat, NEW S \in SUBSET Nat, IsFiniteSet(S),
           NEW s \in Oldest(n, S), NEW m \in S, m < s
    PROVE  m \in Oldest(n, S)
<1> DEFINE Below(x) == {k \in S : k < x}
<1>1. s \in Nat /\ m \in Nat /\ \A k \in S : k \in Nat
  BY DEF Oldest
<1>2. Below(m) \subseteq Below(s) /\ Below(s) \subseteq S
  <2>1. \A k \in S : k < m => k < s
    BY <1>1
  <2>2. QED
    BY <2>1
<1>3. IsFiniteSet(Below(s))
  BY <1>2, FS_Subset
<1>4. IsFiniteSet(Below(m)) /\ Cardinality(Below(m)) <= Cardinality(Below(s))
  BY <1>2, <1>3, FS_Subset
<1>5. Cardinality(Below(m)) \in Nat /\ Cardinality(Below(s)) \in Nat
  BY <1>3, <1>4, FS_CardinalityType
<1>6. Cardinality(Below(s)) < n
  BY DEF Oldest
<1>7. Cardinality(Below(m)) < n
  BY <1>4, <1>5, <1>6
<1>8. QED
  BY <1>7 DEF Oldest

(* The neighbours of an id in a set of ids.                                *)
LEMMA NextBelow ==
    ASSUME NEW S \in SUBSET Nat, IsFiniteSet(S), NEW m \in Nat, \E k \in S : k < m
    PROVE  \E p \in S : p < m /\ \A k \in S : k < m => k <= p
<1> DEFINE T == {k \in S : k < m}
<1>1. T \subseteq S /\ T \in SUBSET Nat /\ T # {}
  OBVIOUS
<1>2. IsFiniteSet(T)
  BY <1>1, FS_Subset
<1>3. \E p \in T : \A k \in T : k <= p
  <2> HIDE DEF T
  <2>1. QED
    BY <1>1, <1>2, NewestExists
<1>4. QED
  BY <1>3

LEMMA NextAbove ==
    ASSUME NEW N \in Nat, NEW S \in SUBSET (0 .. N), NEW m \in Nat, \E k \in S : k > m
    PROVE  \E q \in S : q > m /\ \A k \in S : k > m => q <= k
<1> DEFINE T == {N - k : k \in {x \in S : x > m}}
<1>1. T \in SUBSET (0 .. N) /\ T # {}
  OBVIOUS
<1>2. IsFiniteSet(0 .. N) /\ T \in SUBSET Nat
  BY <1>1, FS_Interval
<1>3. IsFiniteSet(T)
  BY <1>1, <1>2, FS_Subset
<1>4. PICK t \in T : \A k \in T : k <= t
  <2> HIDE DEF T
  <2>1. QED
    BY <1>1, <1>2, <1>3, NewestExists
<1>5. PICK q \in S : q > m /\ t = N - q
  OBVIOUS
<1>6. ASSUME NEW k \in S, k > m PROVE q <= k
  <2>1. N - k \in T
    BY <1>6
  <2>2. N - k <= N - q
    BY <1>4, <1>5, <2>1
  <2>3. k \in Nat /\ q \in Nat
    OBVIOUS
  <2>4. QED
    BY <2>2, <2>3
<1>7. QED
  BY <1>5, <1>6

(***************************************************************************)
(* The invariant behind GapsBorderOwn.  A request under way asks for what  *)
(* follows cursor c.  On screen nothing but own messages have gone beyond  *)
(* c since; what its answer leaves out is newer than the answer, or,       *)
(* without a cursor, older, or its row came late.                          *)
(***************************************************************************)
Borders(S, m, o) == \A k \in S : ~(m < k /\ k < o) /\ ~(o < k /\ k < m)

Followed(c) ==
    /\ \A k \in messages : k > c => k \in own
    /\ c \in messages \/ messages \subseteq own
Seamless(c, S) ==
    \A m \in visible \ (S \cup late) :
        m > c => (\A s \in S : s < m) \/ (c = 0 /\ \A s \in S : m < s)
Fetched(c, S) == Followed(c) /\ (\A s \in S : s > c) /\ Seamless(c, S)

InFlight ==
    /\ \A c \in 0 .. MaxId : fetch = Asked(c) => Followed(c)
    /\ \A S \in SUBSET visible : fetch = Answered(S) => \E c \in 0 .. MaxId : Fetched(c, S)
Unmounted == ~mounted => /\ messages = {} /\ latestMessageId = 0 /\ own = {}
                         /\ fetch = Idle /\ send = Idle

GapInv == GapsBorderOwn /\ InFlight /\ Unmounted

LEMMA FetchesDiffer ==
    /\ \A c : Idle # Asked(c)
    /\ \A S : Idle # Answered(S)
    /\ \A c, S : Asked(c) # Answered(S)
    /\ \A c, d : Asked(c) = Asked(d) => c = d
    /\ \A S, T : Answered(S) = Answered(T) => S = T
<1>1. /\ Idle.at = "idle"
      /\ \A c : Asked(c).at = "asked" /\ Asked(c).cursor = c
      /\ \A S : Answered(S).at = "answered" /\ Answered(S).incoming = S
  BY DEF Idle, Asked, Answered
<1>2. QED
  BY <1>1

(* A request asks for what follows the newest message on screen.           *)
LEMMA CursorFollowed ==
    ASSUME ChatInv PROVE Followed(latestMessageId)
<1>1. \A k \in messages : k \in Nat /\ latestMessageId \in Nat /\ k <= latestMessageId
  BY RowsAreFinite DEF ChatInv, ShownTyped, CursorIsNewest
<1>2. latestMessageId \in messages \/ messages = {}
  BY DEF ChatInv, CursorIsNewest
<1>3. QED
  BY <1>1, <1>2 DEF Followed

(* GetGlobalChatMessages leaves no holes.                                  *)
LEMMA PageIsSeamless ==
    ASSUME ChatInv, NEW c \in 0 .. MaxId
    PROVE  /\ GetMessages(c) \in SUBSET visible
           /\ \A s \in GetMessages(c) : s > c
           /\ Seamless(c, GetMessages(c))
<1> DEFINE later == {m \in visible : m > c}
<1>1. /\ visible \in SUBSET Nat /\ IsFiniteSet(visible) /\ c \in Nat
      /\ \A m \in visible : m \in Nat /\ m > 0
  BY RowsAreFinite
<1>2. later \in SUBSET Nat /\ IsFiniteSet(later) /\ later \subseteq visible
  BY <1>1, FS_Subset
<1>3. NextPage \in Nat /\ FirstPage \in Nat
  BY ChatAssumption
<1>4. CASE c > 0
  <2>1. GetMessages(c) = Oldest(NextPage, later) /\ GetMessages(c) \subseteq later
    BY <1>4, PagesAreSubsets DEF GetMessages
  <2>2. ASSUME NEW m \in visible \ (GetMessages(c) \cup late), m > c,
               NEW s \in GetMessages(c)
        PROVE  s < m
    <3>1. m \in later /\ m # s /\ m \in Nat /\ s \in Nat
      BY <1>2, <2>1, <2>2
    <3>2. CASE m < s
      <4> HIDE DEF later
      <4>1. m \in Oldest(NextPage, later)
        BY <1>2, <1>3, <2>1, <3>1, <3>2, OldestIsLower
      <4>2. QED
        BY <2>1, <2>2, <4>1
    <3>3. QED
      BY <3>1, <3>2
  <2>3. QED
    BY <1>2, <2>1, <2>2 DEF Seamless
<1>5. CASE c = 0
  <2>1. GetMessages(c) = Newest(FirstPage, visible) /\ GetMessages(c) \subseteq visible
    BY <1>5, PagesAreSubsets DEF GetMessages
  <2>2. ASSUME NEW m \in visible \ (GetMessages(c) \cup late), NEW s \in GetMessages(c)
        PROVE  m < s
    <3>1. m # s /\ m \in Nat /\ s \in Nat
      BY <1>1, <2>1, <2>2
    <3>2. CASE s < m
      <4>1. m \in Newest(FirstPage, visible)
        BY <1>1, <1>3, <2>1, <2>2, <3>2, NewestIsUpper
      <4>2. QED
        BY <2>1, <2>2, <4>1
    <3>3. QED
      BY <3>1, <3>2
  <2>3. \A s \in GetMessages(c) : s > c
    BY <1>1, <1>5, <2>1
  <2>4. QED
    BY <1>5, <2>1, <2>2, <2>3 DEF Seamless
<1>6. QED
  BY <1>1, <1>4, <1>5


(***************************************************************************)
(* Merging.                                                                *)
(***************************************************************************)
LEMMA MergedList ==
    ASSUME ChatInv, NEW incoming \in SUBSET visible, mergeMessages(incoming)
    PROVE  /\ messages' \subseteq messages \cup incoming
           /\ \A k \in messages', m \in messages \cup incoming : k < m => m \in messages'
<1> DEFINE all == messages \cup incoming
<1>1. all \in SUBSET Nat /\ IsFiniteSet(all)
  <2>1. all \in SUBSET visible /\ visible \in SUBSET Nat /\ IsFiniteSet(visible)
    BY RowsAreFinite DEF ChatInv, ShownTyped
  <2>2. QED
    BY <2>1, FS_Subset
<1>2. messages' = Newest(VisibleLimit, all) /\ VisibleLimit \in Nat
  BY ChatAssumption DEF mergeMessages
<1>3. messages' \subseteq all
  BY <1>2, PagesAreSubsets
<1>4. ASSUME NEW k \in messages', NEW m \in all, k < m PROVE m \in messages'
  <2> HIDE DEF all
  <2>1. QED
    BY <1>1, <1>2, <1>4, NewestIsUpper
<1>5. QED
  BY <1>3, <1>4

(* A message that the merged list lacks between two others was lacking     *)
(* before it was cut.                                                      *)
LEMMA MergedGaps ==
    ASSUME ChatInv, NEW incoming \in SUBSET visible, mergeMessages(incoming),
           UNCHANGED server,
           ASSUME NEW m \in visible \ (messages \cup incoming \cup late),
                  \E k \in messages \cup incoming : k < m,
                  \E j \in messages \cup incoming : j > m
           PROVE  \E o \in own' : Borders(messages \cup incoming, m, o)
    PROVE  GapsBorderOwn'
<1> SUFFICES ASSUME NEW m \in visible' \ (messages' \cup late'), m < latestMessageId',
                    NEW k \in messages', k < m
             PROVE  \E o \in own' : Borders(messages', m, o)
  BY DEF GapsBorderOwn, Borders
<1>1. /\ messages' \subseteq messages \cup incoming
      /\ \A i \in messages', j \in messages \cup incoming : i < j => j \in messages'
  BY MergedList
<1>2. visible' = visible /\ late' = late
  BY DEF server
<1>3. m \in visible \ (messages \cup incoming \cup late)
  BY <1>1, <1>2
<1>4. latestMessageId' \in messages'
  BY MergeKeeps DEF CursorIsNewest
<1>5. latestMessageId' > m
  <2>1. m \in Nat /\ latestMessageId' \in 0 .. MaxId /\ MaxId \in Nat
    BY <1>2, RowsAreFinite, MergeKeeps, ChatAssumption
  <2>2. QED
    BY <2>1
<1>6. /\ \E i \in messages \cup incoming : i < m
      /\ \E j \in messages \cup incoming : j > m
  BY <1>1, <1>4, <1>5
<1>7. PICK o \in own' : Borders(messages \cup incoming, m, o)
  BY <1>3, <1>6
<1>8. QED
  BY <1>1, <1>7 DEF Borders

LEMMA ReceivedGaps ==
    ASSUME ChatInv, GapInv, Received
    PROVE  GapsBorderOwn'
<1>1. PICK S \in SUBSET visible : fetch = Answered(S)
  BY DEF Received, ChatInv, Fetching, Idle, Asked
<1>2. mergeMessages(S) /\ own' = own /\ UNCHANGED server
  BY <1>1 DEF Received, Answered
<1>3. PICK c \in 0 .. MaxId : Fetched(c, S)
  BY <1>1 DEF GapInv, InFlight
<1> DEFINE all == messages \cup S
<1>4. /\ visible \in SUBSET Nat /\ \A x \in visible : x \in 1 .. MaxId
      /\ messages \in SUBSET visible /\ c \in Nat /\ MaxId \in Nat
      /\ latestMessageId \in Nat
      /\ \A x \in messages : x <= latestMessageId
  BY RowsAreFinite, ChatAssumption DEF ChatInv, ShownTyped, CursorIsNewest
<1>5. all \in SUBSET (0 .. MaxId) /\ all \in SUBSET Nat /\ IsFiniteSet(all)
  <2>1. all \in SUBSET visible /\ IsFiniteSet(visible)
    BY <1>4, RowsAreFinite
  <2>2. all \in SUBSET Nat /\ IsFiniteSet(all)
    BY <1>4, <2>1, FS_Subset
  <2>3. \A x \in visible : x \in 0 .. MaxId
    BY <1>4
  <2>4. QED
    BY <2>1, <2>2, <2>3
<1>6. ASSUME NEW m \in visible \ (all \cup late),
             \E k \in all : k < m, \E j \in all : j > m
      PROVE  \E o \in own : Borders(all, m, o)
  <2>0. m \in Nat /\ m \in visible \ (S \cup late) /\ m \notin messages
    BY <1>4
  <2>1. PICK p \in all : p < m /\ \A k \in all : k < m => k <= p
    <3> HIDE DEF all
    <3>1. QED
      BY <1>5, <1>6, <2>0, NextBelow
  <2>2. PICK q \in all : q > m /\ \A k \in all : k > m => q <= k
    <3> HIDE DEF all
    <3>1. QED
      BY <1>4, <1>5, <1>6, <2>0, NextAbove
  <2>3. /\ p \in Nat /\ q \in Nat
        /\ \A x \in all : x \in Nat
    BY <1>5
  <2>4. Borders(all, m, p) /\ Borders(all, m, q)
    <3>1. \A k \in all : ~(p < k /\ k < m) /\ ~(m < k /\ k < p)
      BY <2>0, <2>1, <2>3
    <3>2. \A k \in all : ~(q < k /\ k < m) /\ ~(m < k /\ k < q)
      BY <2>0, <2>2, <2>3
    <3>3. QED
      BY <3>1, <3>2 DEF Borders
  <2>5. ~(p \in S /\ q \in S)
    <3> SUFFICES ASSUME p \in S, q \in S PROVE FALSE
      OBVIOUS
    <3>1. p > c
      BY <1>3 DEF Fetched
    <3>2. m > c
      BY <1>4, <2>0, <2>1, <2>3, <3>1
    <3>3. (\A s \in S : s < m) \/ (\A s \in S : m < s)
      BY <1>3, <2>0, <3>2 DEF Fetched, Seamless
    <3>4. QED
      BY <2>0, <2>1, <2>2, <2>3, <3>3
  <2>6. CASE messages \subseteq own
    BY <2>4, <2>5, <2>6
  <2>7. CASE c \in messages /\ c < m
    <3>1. c > 0
      BY <1>4, <2>7
    <3>2. m > c
      BY <1>4, <2>0, <2>7
    <3>3. \A s \in S : s < m
      BY <1>3, <1>4, <2>0, <3>1, <3>2 DEF Fetched, Seamless
    <3>4. q \in messages
      BY <2>0, <2>2, <2>3, <3>3
    <3>5. q > c
      BY <1>4, <2>0, <2>2, <2>3, <3>2
    <3>6. q \in own
      BY <1>3, <3>4, <3>5 DEF Fetched, Followed
    <3>7. QED
      BY <2>4, <3>6
  <2>8. CASE c \in messages /\ m < c
    <3>1. \A s \in S : s > c /\ s \in Nat
      BY <1>3, <1>4 DEF Fetched
    <3>2. p \in messages
      BY <1>4, <2>0, <2>1, <2>3, <2>8, <3>1
    <3>3. m < latestMessageId
      BY <1>4, <2>0, <2>8
    <3>4. PICK o \in own : Borders(messages, m, o)
      BY <2>0, <2>1, <3>2, <3>3 DEF GapInv, GapsBorderOwn, Borders
    <3>5. o \in Nat
      BY <1>4 DEF ChatInv, ShownTyped
    <3>6. o <= c
      BY <1>4, <2>0, <2>8, <3>4, <3>5 DEF Borders
    <3>7. \A s \in S : ~(m < s /\ s < o) /\ ~(o < s /\ s < m)
      BY <1>4, <2>0, <2>8, <3>1, <3>5, <3>6
    <3>8. Borders(all, m, o)
      BY <3>4, <3>7 DEF Borders
    <3>9. QED
      BY <3>8
  <2>9. QED
    BY <1>3, <1>4, <2>0, <2>6, <2>7, <2>8 DEF Fetched, Followed
<1>7. QED
  <2>1. ASSUME NEW m \in visible \ (messages \cup S \cup late),
               \E k \in messages \cup S : k < m,
               \E j \in messages \cup S : j > m
        PROVE  \E o \in own' : Borders(messages \cup S, m, o)
    BY <1>2, <1>6, <2>1
  <2>2. QED
    BY <1>2, <2>1, MergedGaps

LEMMA SentGaps ==
    ASSUME ChatInv, GapsBorderOwn, NEW i \in visible, mergeMessages({i}),
           own' = own \cup {i}, UNCHANGED server
    PROVE  GapsBorderOwn'
<1> DEFINE all == messages \cup {i}
<1>1. /\ visible \in SUBSET Nat
      /\ messages \in SUBSET visible /\ latestMessageId \in Nat /\ own \in SUBSET visible
      /\ \A x \in messages : x <= latestMessageId
  BY RowsAreFinite DEF ChatInv, ShownTyped, CursorIsNewest
<1>2. ASSUME NEW m \in visible \ (messages \cup {i} \cup late),
             \E k \in messages \cup {i} : k < m,
             \E j \in messages \cup {i} : j > m
      PROVE  \E o \in own' : Borders(messages \cup {i}, m, o)
  <2>1. m \in Nat /\ i \in Nat /\ m # i /\ m \in visible \ (messages \cup late)
        /\ \A x \in messages : x \in Nat
    BY <1>1
  <2>2. CASE Borders(messages, m, i)
    <3>1. Borders(messages \cup {i}, m, i)
      BY <2>1, <2>2 DEF Borders
    <3>2. QED
      BY <3>1
  <2>3. CASE ~Borders(messages, m, i)
    <3>1. PICK x \in messages : (m < x /\ x < i) \/ (i < x /\ x < m)
      BY <2>3 DEF Borders
    <3>2. (\E k \in messages : k < m) /\ m < latestMessageId
      <4>1. CASE m < x /\ x < i
        <5>1. \A k \in messages \cup {i} : k < m => k \in messages
          BY <2>1, <4>1
        <5>2. QED
          BY <1>1, <1>2, <2>1, <4>1, <5>1
      <4>2. CASE i < x /\ x < m
        <5>1. \A k \in messages \cup {i} : k > m => k \in messages
          BY <2>1, <4>2
        <5>2. PICK j \in messages : j > m
          BY <1>2, <5>1
        <5>3. m < latestMessageId
          BY <1>1, <2>1, <5>2
        <5>4. QED
          BY <4>2, <5>3
      <4>3. QED
        BY <3>1, <4>1, <4>2
    <3>3. PICK o \in own : Borders(messages, m, o)
      BY <2>1, <3>2 DEF GapsBorderOwn, Borders
    <3>4. o \in Nat /\ x \in Nat
      BY <1>1
    <3>5. ~(m < i /\ i < o) /\ ~(o < i /\ i < m)
      <4>1. ~(m < x /\ x < o) /\ ~(o < x /\ x < m)
        BY <3>3 DEF Borders
      <4>2. QED
        BY <2>1, <3>1, <3>4, <4>1
    <3>6. Borders(messages \cup {i}, m, o)
      BY <3>3, <3>5 DEF Borders
    <3>7. QED
      BY <3>6
  <2>4. QED
    BY <2>2, <2>3
<1>3. {i} \in SUBSET visible
  OBVIOUS
<1>4. QED
  BY <1>2, <1>3, MergedGaps


(***************************************************************************)
(* Steps.                                                                  *)
(***************************************************************************)
(* A row that appears after a larger id is late; any other is newer than   *)
(* whatever has been read.                                                 *)
LEMMA GapRows ==
    ASSUME ChatInv, GapsBorderOwn, InFlight, UNCHANGED <<shown, fetch>>,
           visible \subseteq visible', late \subseteq late',
           \A m \in visible' \ (visible \cup late') : \A k \in visible : k < m
    PROVE  GapsBorderOwn' /\ InFlight'
<1>1. UNCHANGED <<messages, latestMessageId, own, fetch>>
  BY DEF shown
<1>2. GapsBorderOwn'
  <2> SUFFICES ASSUME NEW m \in visible' \ (messages' \cup late'), m < latestMessageId',
                      NEW k \in messages', k < m
               PROVE  \E o \in own' : Borders(messages', m, o)
    BY DEF GapsBorderOwn, Borders
  <2>1. latestMessageId \in visible /\ visible \in SUBSET Nat
    BY <1>1, RowsAreFinite DEF ChatInv, ShownTyped, CursorIsNewest
  <2>2. m \in visible \ (messages \cup late)
    <3>1. CASE m \in visible
      BY <1>1, <3>1
    <3>2. CASE m \notin visible
      <4>1. latestMessageId < m
        BY <2>1, <3>2
      <4>2. m \notin Nat
        BY <1>1, <2>1, <4>1
      <4>3. \A x \in visible : x < m
        BY <3>2
      <4>4. QED
        BY <1>1, <2>1, <4>1, <4>2
    <3>3. QED
      BY <3>1, <3>2
  <2>3. QED
    BY <1>1, <2>2 DEF GapsBorderOwn, Borders
<1>3. \A c : Followed(c) => Followed(c)'
  BY <1>1 DEF Followed
<1>4. ASSUME NEW c \in 0 .. MaxId, NEW S \in SUBSET visible, Fetched(c, S)
      PROVE  Fetched(c, S)'
  <2>1. \A m \in visible' \ (S \cup late') :
           m > c => (\A s \in S : s < m) \/ (c = 0 /\ \A s \in S : m < s)
    BY <1>4 DEF Fetched, Seamless
  <2>2. QED
    BY <1>3, <1>4, <2>1 DEF Fetched, Seamless
<1>5. \A c \in 0 .. MaxId : fetch' = Asked(c) => Followed(c)'
  BY <1>1, <1>3 DEF InFlight
<1>6. ASSUME NEW S \in SUBSET visible', fetch' = Answered(S)
      PROVE  \E c \in 0 .. MaxId : Fetched(c, S)'
  <2>1. PICK T \in SUBSET visible : fetch = Answered(T)
    BY <1>1, <1>6, FetchesDiffer, Zenon DEF ChatInv, Fetching
  <2>2. S = T
    BY <1>1, <1>6, <2>1, FetchesDiffer
  <2>3. QED
    BY <1>1, <1>4, <1>6, <2>1, <2>2 DEF InFlight
<1>7. QED
  BY <1>2, <1>5, <1>6 DEF InFlight

LEMMA GapServer ==
    ASSUME ChatInv, GapInv, Insert \/ AppendMessage \/ \E i \in Ids : Commit(i)
    PROVE  GapInv'
<1>1. UNCHANGED <<shown, fetch, mounted>>
  BY DEF Insert, AppendMessage, Commit
<1>2. /\ visible \subseteq visible' /\ late \subseteq late'
      /\ \A m \in visible' \ (visible \cup late') : \A k \in visible : k < m
  <2>1. CASE Insert \/ AppendMessage
    BY <2>1 DEF Insert, AppendMessage
  <2>2. CASE \E i \in Ids : Commit(i)
    <3>1. PICK i \in Ids : Commit(i)
      BY <2>2
    <3>2. /\ i \notin visible /\ visible' = visible \cup {i}
          /\ late' = IF \E k \in visible : k > i THEN late \cup {i} ELSE late
      BY <3>1 DEF Commit
    <3>3. i \in Nat /\ visible \in SUBSET Nat
      BY RowsAreFinite DEF Ids
    <3>4. QED
      BY <3>2, <3>3
  <2>3. QED
    BY <2>1, <2>2
<1>3. GapsBorderOwn' /\ InFlight'
  BY <1>1, <1>2, GapRows DEF GapInv
<1>4. Unmounted'
  <2>1. send' = send \/ send \in {Posting} \/ \E i \in Ids : send = Taken(i)
    BY DEF Insert, AppendMessage, Commit
  <2>2. ~mounted => send = Idle
    BY DEF GapInv, Unmounted
  <2>3. Idle # Posting /\ \A i : Idle # Taken(i)
    BY DEF Idle, Posting, Taken
  <2>4. ~mounted => send' = Idle
    BY <2>1, <2>2, <2>3
  <2>5. QED
    BY <1>1, <2>4 DEF GapInv, Unmounted, shown
<1>5. QED
  BY <1>3, <1>4 DEF GapInv

LEMMA GapRequests ==
    ASSUME ChatInv, GapInv,
           \/ Answer \/ fetchMessages \/ FetchFailed \/ handleVisibility \/ EffectRestarts
           \/ Mount \/ handleSubmit \/ SendFailed
    PROVE  GapInv'
<1>1. UNCHANGED <<lastId, visible, late, messages, latestMessageId, own>>
  BY DEF Answer, fetchMessages, FetchFailed, handleVisibility, EffectRestarts, Mount,
         handleSubmit, SendFailed, server, shown
<1>2. GapsBorderOwn'
  BY <1>1 DEF GapInv, GapsBorderOwn
<1>3. /\ \A c : Followed(c) => Followed(c)'
      /\ \A c, S : Fetched(c, S) => Fetched(c, S)'
  BY <1>1 DEF Followed, Fetched, Seamless
<1>4. \/ fetch' = fetch
      \/ fetch' = Idle
      \/ fetch' = Asked(latestMessageId)
      \/ Mount /\ fetch' = Asked(0)
      \/ \E c \in 0 .. MaxId, S \in SUBSET visible :
            fetch = Asked(c) /\ S = GetMessages(c) /\ fetch' = Answered(S)
  <2>1. CASE Answer
    <3>1. PICK c \in 0 .. MaxId : fetch = Asked(c)
      BY <2>1 DEF Answer, ChatInv, Fetching, Idle, Answered
    <3>2. fetch' = Answered(GetMessages(c))
      BY <2>1, <3>1 DEF Answer, Asked
    <3>3. QED
      BY <3>1, <3>2, PageIsSeamless
  <2>2. CASE \/ fetchMessages \/ FetchFailed \/ handleVisibility \/ EffectRestarts
             \/ Mount \/ handleSubmit \/ SendFailed
    BY <2>2 DEF fetchMessages, FetchFailed, handleVisibility, EffectRestarts, Mount,
                handleSubmit, SendFailed, CanSend
  <2>3. QED
    BY <2>1, <2>2
<1>5. InFlight'
  <2>1. CASE fetch' = fetch
    BY <1>1, <1>3, <2>1 DEF GapInv, InFlight
  <2>2. CASE fetch' = Idle
    BY <2>2, FetchesDiffer, Zenon DEF InFlight
  <2>3. ASSUME NEW d, fetch' = Asked(d), Followed(d)
        PROVE  InFlight'
    <3>1. \A c : fetch' = Asked(c) => c = d
      BY <2>3, FetchesDiffer
    <3>2. \A S : fetch' # Answered(S)
      BY <2>3, FetchesDiffer
    <3>3. Followed(d)'
      BY <1>3, <2>3
    <3>4. QED
      BY <3>1, <3>2, <3>3 DEF InFlight
  <2>4. CASE Mount /\ fetch' = Asked(0)
    <3>1. Followed(0)
      BY <2>4 DEF GapInv, Unmounted, Mount, Followed
    <3>2. QED
      BY <2>3, <2>4, <3>1
  <2>5. CASE \E c \in 0 .. MaxId, S \in SUBSET visible :
                 fetch = Asked(c) /\ S = GetMessages(c) /\ fetch' = Answered(S)
    <3>1. PICK c \in 0 .. MaxId, S \in SUBSET visible :
                 fetch = Asked(c) /\ S = GetMessages(c) /\ fetch' = Answered(S)
      BY <2>5
    <3>2. Followed(c)
      BY <3>1 DEF GapInv, InFlight
    <3>3. Fetched(c, S)
      BY <3>1, <3>2, PageIsSeamless DEF Fetched
    <3>4. Fetched(c, S)'
      BY <1>3, <3>3
    <3>5. \A T : fetch' = Answered(T) => T = S
      BY <3>1, FetchesDiffer
    <3>6. \A d : fetch' # Asked(d)
      BY <3>1, FetchesDiffer
    <3>7. QED
      BY <3>4, <3>5, <3>6 DEF InFlight
  <2>6. QED
    BY <1>4, <2>1, <2>2, <2>3, <2>4, <2>5, CursorFollowed
<1>6. Unmounted'
  <2>1. CASE Mount
    BY <2>1 DEF Mount, Unmounted
  <2>2. CASE fetchMessages \/ handleVisibility \/ EffectRestarts \/ handleSubmit
    BY <2>2 DEF fetchMessages, handleVisibility, EffectRestarts, handleSubmit, CanSend,
                GapInv, Unmounted, server, shown
  <2>3. CASE Answer
    <3>1. fetch # Idle
      BY <2>3 DEF Answer, Idle
    <3>2. QED
      BY <2>3, <3>1 DEF Answer, GapInv, Unmounted
  <2>4. CASE FetchFailed \/ SendFailed
    BY <1>1, <2>4 DEF FetchFailed, SendFailed, GapInv, Unmounted
  <2>5. QED
    BY <2>1, <2>2, <2>3, <2>4
<1>7. QED
  BY <1>2, <1>5, <1>6 DEF GapInv

LEMMA GapUnmount ==
    ASSUME ChatInv, GapInv, Unmount
    PROVE  GapInv'
<1>1. /\ mounted' = FALSE /\ fetch' = Idle /\ send' = Idle
      /\ messages' = {} /\ latestMessageId' = 0 /\ own' = {}
  BY DEF Unmount
<1>2. InFlight'
  BY <1>1, FetchesDiffer, Zenon DEF InFlight
<1>3. QED
  BY <1>1, <1>2 DEF GapInv, GapsBorderOwn, Unmounted

LEMMA GapMerges ==
    ASSUME ChatInv, GapInv, Received \/ Sent
    PROVE  GapInv'
<1>1. CASE Received
  <2>1. fetch' = Idle /\ mounted' = mounted /\ fetch # Idle
    BY <1>1 DEF Received, Idle
  <2>2. InFlight'
    BY <2>1, FetchesDiffer, Zenon DEF InFlight
  <2>3. Unmounted'
    BY <2>1 DEF GapInv, Unmounted
  <2>4. QED
    BY <1>1, <2>2, <2>3, ReceivedGaps DEF GapInv
<1>2. CASE Sent
  <2>1. PICK i \in visible : send = Posted(i)
    BY <1>2 DEF Sent, ChatInv, Sending, Idle, Posting, Taken
  <2>2. /\ mergeMessages({i}) /\ own' = own \cup {i}
        /\ UNCHANGED <<server, mounted, fetch>> /\ send # Idle
    BY <1>2, <2>1 DEF Sent, Posted, Idle
  <2>3. visible' = visible /\ late' = late
    BY <2>2 DEF server
  <2>4. {i} \in SUBSET visible
    OBVIOUS
  <2>5. /\ messages' \subseteq messages \cup {i}
        /\ \A k \in messages', m \in messages \cup {i} : k < m => m \in messages'
    BY <2>2, <2>4, MergedList
  <2>6. ASSUME NEW c \in 0 .. MaxId, Followed(c) PROVE Followed(c)'
    <3>1. \A k \in messages' : k > c => k \in own'
      BY <2>2, <2>5, <2>6 DEF Followed
    <3>2. CASE messages \subseteq own
      BY <2>2, <2>5, <3>1, <3>2 DEF Followed
    <3>3. CASE c \in messages
      <4>1. CASE c \in messages'
        BY <3>1, <4>1 DEF Followed
      <4>2. CASE c \notin messages'
        <5>1. \A k \in messages' : k \in Nat /\ c \in Nat
          BY <2>3, <2>5, RowsAreFinite DEF ChatInv, ShownTyped
        <5>2. \A k \in messages' : k > c
          BY <2>5, <3>3, <4>2, <5>1
        <5>3. QED
          BY <3>1, <5>2 DEF Followed
      <4>3. QED
        BY <4>1, <4>2
    <3>4. QED
      BY <2>6, <3>2, <3>3 DEF Followed
  <2>7. ASSUME NEW c \in 0 .. MaxId, NEW S, Fetched(c, S) PROVE Fetched(c, S)'
    BY <2>3, <2>6, <2>7 DEF Fetched, Seamless
  <2>8. InFlight'
    BY <2>2, <2>3, <2>6, <2>7 DEF GapInv, InFlight
  <2>9. Unmounted'
    BY <2>2 DEF GapInv, Unmounted
  <2>10. GapsBorderOwn'
    BY <2>2, SentGaps DEF GapInv
  <2>11. QED
    BY <2>8, <2>9, <2>10 DEF GapInv
<1>3. QED
  BY <1>1, <1>2

LEMMA GapStart == ChatInit => GapInv
<1> SUFFICES ASSUME ChatInit PROVE GapInv
  OBVIOUS
<1>1. InFlight
  BY FetchesDiffer, Zenon DEF ChatInit, InFlight
<1>2. QED
  BY <1>1 DEF ChatInit, GapInv, GapsBorderOwn, Unmounted

LEMMA GapStep == ChatInv /\ GapInv /\ [ChatNext]_chatVars => GapInv'
<1> SUFFICES ASSUME ChatInv, GapInv, [ChatNext]_chatVars PROVE GapInv'
  OBVIOUS
<1>1. CASE Screen
  BY <1>1, GapRequests, GapUnmount DEF Screen
<1>2. CASE Component
  BY <1>2, GapRequests, GapMerges DEF Component
<1>3. CASE Server
  BY <1>3, GapRequests, GapServer DEF Server
<1>4. CASE UNCHANGED chatVars
  BY <1>4 DEF GapInv, GapsBorderOwn, InFlight, Fetched, Followed, Seamless, Unmounted,
              chatVars, server, shown
<1>5. QED
  BY <1>1, <1>2, <1>3, <1>4 DEF ChatNext

(* Polling alone loses nothing, whatever the sizes of the pages, the order *)
(* of commits and answers, and the requests that fail, are aborted or      *)
(* restarted: a message missing between two on screen borders one that     *)
(* handleSubmit merged ahead of the poll, or its row came late.            *)
THEOREM NoGapsOfItsOwn == ChatSpec => []GapsBorderOwn
<1>1. GapInv => GapsBorderOwn
  BY DEF GapInv
<1>2. QED
  BY <1>1, ChatInvariant, GapStart, GapStep, PTL DEF ChatSpec


(***************************************************************************)
(* The calls of the lobby, a sequence that grows at its end and shrinks    *)
(* anywhere.                                                               *)
(***************************************************************************)

LEMMA CallRemoved ==
    ASSUME NEW S, NEW s \in Seq(S), NEW i \in DOMAIN s
    PROVE  /\ RemoveAt(s, i) \in Seq(S)
           /\ Len(RemoveAt(s, i)) = Len(s) - 1
<1> DEFINE before == SubSeq(s, 1, i - 1)
           after == SubSeq(s, i + 1, Len(s))
<1>1. Len(s) \in Nat /\ DOMAIN s = 1 .. Len(s)
  BY LenProperties
<1>2. before \in Seq(S) /\ Len(before) = i - 1
  BY <1>1, SubSeqProperties
<1>3. after \in Seq(S) /\ Len(after) = Len(s) - i
  BY <1>1, SubSeqProperties
<1>4. before \o after \in Seq(S) /\ Len(before \o after) = Len(before) + Len(after)
  <2> HIDE DEF before, after
  <2>1. QED
    BY <1>2, <1>3, ConcatProperties
<1>5. RemoveAt(s, i) = before \o after
  BY DEF RemoveAt
<1>6. QED
  <2> HIDE DEF before, after
  <2>1. Len(before \o after) = Len(s) - 1
    BY <1>1, <1>2, <1>3, <1>4
  <2>2. QED
    BY <1>4, <1>5, <2>1

LEMMA CallsReplaced ==
    ASSUME NEW S, NEW s \in Seq(S), NEW f \in [DOMAIN s -> S]
    PROVE  f \in Seq(S) /\ Len(f) = Len(s)
<1>1. Len(s) \in Nat /\ DOMAIN s = 1 .. Len(s)
  BY LenProperties
<1>2. f \in Seq(S)
  BY <1>1, SeqDef
<1>3. Len(f) \in Nat /\ DOMAIN f = 1 .. Len(f)
  BY <1>2, LenProperties
<1>4. 1 .. Len(f) = 1 .. Len(s)
  BY <1>1, <1>3
<1>5. \A n, k \in Nat : 1 .. n = 1 .. k => ~(n < k)
  <2>1. \A n, k \in Nat : n < k => k \in 1 .. k /\ k \notin 1 .. n
    OBVIOUS
  <2>2. QED
    BY <2>1
<1>6. QED
  BY <1>1, <1>2, <1>3, <1>4, <1>5

\* The shown list, and every list on its way, counts this user where this user
\* attends; so a decrement has something to take from.
Tallied(list) ==
    \A e \in DOMAIN list : list[e].count >= (IF list[e].isAttending THEN 1 ELSE 0)

Listings == UNION {[D -> [isAttending : BOOLEAN, count : Nat]] : D \in SUBSET Events}
Requests ==
    [kind : {"events", "rooms", "create", "created", "attend", "delete", "access"},
     of : Events \cup Rooms \cup {None}, on : BOOLEAN,
     at : {"asked", "inserted", "answered"},
     value : Listings \cup SUBSET Rooms, fresh : BOOLEAN]
Sound(c) ==
    /\ CallTyped(c)
    /\ c.at = "answered" /\ c.kind \in {"events", "created"} => Tallied(c.value)
SoundCalls == {c \in Requests : Sound(c)}

Tables ==
    /\ event \in [Events -> {"new", "listed", "gone"}]
    /\ attending \subseteq Events /\ open \subseteq Rooms
Lists == IsListing(events) /\ Tallied(events) /\ rooms \subseteq Rooms
Screens ==
    /\ pendingId \in Events \cup {None, "create"}
    /\ selectedEvent \in Events \cup {None} /\ joinTarget \in Protected \cup {None}
    /\ requestedEvent \in Events \cup {None} /\ requestedRoom \in Rooms \cup {None}
    /\ activeRoom \in Rooms \cup {None}
UnderWay == calls \in Seq(SoundCalls) /\ Len(calls) <= MaxCalls
LobbyInv == Tables /\ Lists /\ Screens /\ UnderWay

LEMMA CallsAreSound ==
    ASSUME UnderWay, NEW i \in DOMAIN calls
    PROVE  calls[i] \in Requests /\ Sound(calls[i])
<1>1. calls[i] \in SoundCalls
  BY LenProperties, ElementOfSeq DEF UnderWay
<1>2. QED
  BY <1>1 DEF SoundCalls

LEMMA LobbyTypesFollow == LobbyInv => LobbyTypeOK /\ AttendeesCounted
<1> SUFFICES ASSUME LobbyInv PROVE LobbyTypeOK /\ AttendeesCounted
  OBVIOUS
<1>1. \A i \in DOMAIN calls : CallTyped(calls[i])
  BY CallsAreSound DEF LobbyInv, Sound
<1>2. LobbyTypeOK
  BY <1>1 DEF LobbyInv, Tables, Lists, Screens, UnderWay, LobbyTypeOK
<1>3. AttendeesCounted
  BY DEF LobbyInv, Lists, Tallied, AttendeesCounted
<1>4. QED
  BY <1>2, <1>3

(* What ListMeditationEvents returns counts whoever attends.               *)
LEMMA ListingIsTallied ==
    ASSUME Tables
    PROVE  Listing \in Listings /\ IsListing(Listing) /\ Tallied(Listing)
<1>1. Listed \in SUBSET Events
  BY DEF Listed
<1>2. Listing \in [Listed -> [isAttending : BOOLEAN, count : Nat]]
  BY DEF Listing
<1>3. Listing \in Listings
  BY <1>1, <1>2 DEF Listings
<1>4. IsListing(Listing)
  BY <1>1, <1>2 DEF IsListing
<1>5. Tallied(Listing)
  <2>1. DOMAIN Listing = Listed
    BY DEF Listing
  <2>2. ASSUME NEW e \in Listed
        PROVE  /\ Listing[e].isAttending = (e \in attending)
               /\ Listing[e].count = IF e \in attending THEN 1 ELSE 0
    BY DEF Listing
  <2>3. ASSUME NEW e \in Listed
        PROVE  Listing[e].count >= (IF Listing[e].isAttending THEN 1 ELSE 0)
    <3>1. CASE e \in attending
      <4>1. Listing[e].count = 1
        BY <2>2, <3>1
      <4>2. QED
        BY <4>1
    <3>2. CASE e \notin attending
      <4>1. Listing[e].count = 0
        BY <2>2, <3>2
      <4>2. ~Listing[e].isAttending
        BY <2>2, <3>2, Zenon
      <4>3. QED
        BY <4>1, <4>2
    <3>3. QED
      BY <3>1, <3>2
  <2>4. QED
    BY <2>1, <2>3 DEF Tallied
<1>6. QED
  BY <1>3, <1>4, <1>5


\* A call as it starts.
Request(kind, of, on) ==
    [kind |-> kind, of |-> of, on |-> on, at |-> "asked", value |-> {},
     fresh |-> kind \in {"attend", "create", "access"}]

LEMMA CallStarts ==
    ASSUME UnderWay, NEW kind, NEW of, NEW on \in BOOLEAN, Starts(kind, of, on),
           \/ kind \in {"attend", "delete"} /\ of \in Events
           \/ kind = "access" /\ of \in Protected
           \/ kind \in {"events", "rooms", "create"} /\ of = None
    PROVE  UnderWay'
<1> DEFINE c == Request(kind, of, on)
<1>1. Len(calls) < MaxCalls /\ calls' = Append(calls, c)
  BY DEF Starts, Request
<1>2. Protected \subseteq Rooms /\ MaxCalls \in Nat
  BY LobbyAssumption
<1>3. c \in Requests
  BY <1>2 DEF Request, Requests
<1>4. Sound(c)
  BY DEF Request, Sound, CallTyped
<1>5. c \in SoundCalls
  BY <1>3, <1>4 DEF SoundCalls
<1>6. calls \in Seq(SoundCalls) /\ Len(calls) \in Nat
  BY LenProperties DEF UnderWay
<1>7. calls' \in Seq(SoundCalls) /\ Len(calls') = Len(calls) + 1
  <2> HIDE DEF c
  <2>1. QED
    BY <1>1, <1>5, <1>6, AppendProperties
<1>8. QED
  BY <1>1, <1>2, <1>6, <1>7 DEF UnderWay

LEMMA CallEnds ==
    ASSUME UnderWay, NEW i \in DOMAIN calls, Ends(i)
    PROVE  UnderWay'
<1>1. calls' \in Seq(SoundCalls) /\ Len(calls') = Len(calls) - 1
  BY CallRemoved DEF UnderWay, Ends
<1>2. Len(calls) \in Nat /\ Len(calls) <= MaxCalls /\ MaxCalls \in Nat
  BY LenProperties, LobbyAssumption DEF UnderWay
<1>3. QED
  BY <1>1, <1>2 DEF UnderWay

LEMMA CallTurns ==
    ASSUME UnderWay, calls' \in [DOMAIN calls -> SoundCalls]
    PROVE  UnderWay'
<1>1. calls' \in Seq(SoundCalls) /\ Len(calls') = Len(calls)
  BY CallsReplaced DEF UnderWay
<1>2. QED
  BY <1>1 DEF UnderWay

LEMMA CallReplied ==
    ASSUME UnderWay, NEW i \in DOMAIN calls, NEW value \in Listings \cup SUBSET Rooms,
           calls[i].at # "answered", Reply(i, value),
           calls[i].kind \in {"events", "created"} => IsListing(value) /\ Tallied(value),
           calls[i].kind = "rooms" => value \subseteq Rooms
    PROVE  UnderWay'
<1>1. PICK c : c = calls[i]
  OBVIOUS
<1>2. PICK d : d = [c EXCEPT !.at = "answered", !.value = value]
  OBVIOUS
<1>3. c \in Requests /\ Sound(c)
  BY <1>1, CallsAreSound
<1>4. d \in Requests
  BY <1>2, <1>3 DEF Requests
<1>5. /\ d.kind = c.kind /\ d.of = c.of /\ d.on = c.on /\ d.fresh = c.fresh
      /\ d.at = "answered" /\ d.value = value
  BY <1>2, <1>3 DEF Requests
<1>7. Sound(d)
  BY <1>1, <1>3, <1>5 DEF Sound, CallTyped
<1>8. d \in SoundCalls
  BY <1>4, <1>7 DEF SoundCalls
<1>9. \A j \in DOMAIN calls : calls'[j] = IF j = i THEN d ELSE calls[j]
  BY <1>1, <1>2 DEF Reply
<1>10. calls' = [j \in DOMAIN calls |-> calls'[j]]
  BY DEF Reply
<1>11. \A j \in DOMAIN calls : calls[j] \in SoundCalls
  BY CallsAreSound DEF SoundCalls
<1>12. calls' \in [DOMAIN calls -> SoundCalls]
  BY <1>8, <1>9, <1>10, <1>11
<1>13. QED
  BY <1>12, CallTurns

\* A call turns into another one.
LEMMA CallBecomes ==
    ASSUME UnderWay, NEW i \in DOMAIN calls, NEW d \in SoundCalls,
           calls' = [calls EXCEPT ![i] = d]
    PROVE  UnderWay'
<1>1. \A j \in DOMAIN calls : calls[j] \in SoundCalls
  BY CallsAreSound DEF SoundCalls
<1>2. calls' \in [DOMAIN calls -> SoundCalls]
  BY <1>1
<1>3. QED
  BY <1>2, CallTurns

\* The screens of the lobby are left: their calls go on, no longer fresh.
LEMMA CallsOutlive ==
    ASSUME UnderWay, NEW pending \in Seq(SoundCalls), Len(pending) <= Len(calls),
           calls' = [i \in DOMAIN pending |-> [pending[i] EXCEPT !.fresh = FALSE]]
    PROVE  UnderWay'
<1>1. ASSUME NEW c \in SoundCalls, NEW d, d = [c EXCEPT !.fresh = FALSE]
      PROVE  d \in SoundCalls
  <2>1. c \in Requests /\ Sound(c)
    BY DEF SoundCalls
  <2>2. d \in Requests /\ d.kind = c.kind /\ d.of = c.of /\ d.on = c.on
        /\ d.at = c.at /\ d.value = c.value /\ d.fresh = FALSE
    BY <1>1, <2>1 DEF Requests
  <2>3. Sound(d)
    BY <2>1, <2>2 DEF Sound, CallTyped
  <2>4. QED
    BY <2>2, <2>3 DEF SoundCalls
<1>2. \A i \in DOMAIN pending : pending[i] \in SoundCalls
  BY LenProperties, ElementOfSeq
<1>3. calls' \in [DOMAIN pending -> SoundCalls]
  BY <1>1, <1>2
<1>4. calls' \in Seq(SoundCalls) /\ Len(calls') = Len(pending)
  BY <1>3, CallsReplaced
<1>5. Len(pending) \in Nat /\ Len(calls) \in Nat /\ Len(calls) <= MaxCalls /\ MaxCalls \in Nat
  BY LenProperties, LobbyAssumption DEF UnderWay
<1>6. QED
  BY <1>4, <1>5 DEF UnderWay


(***************************************************************************)
(* The steps of the lobby.                                                 *)
(***************************************************************************)

\* Polls and actions that start a call.
LEMMA AskSteps ==
    ASSUME LobbyInv,
           \/ fetchEvents \/ fetchRooms \/ submit \/ unlock
           \/ \E e \in Events : toggleAttendance(e) \/ deleteEvent(e)
    PROVE  LobbyInv'
<1>1. Tables' /\ Lists'
  BY DEF LobbyInv, Tables, Lists, IsListing, Tallied, fetchEvents, fetchRooms, submit, unlock,
         toggleAttendance, deleteEvent, tables, lists
<1>2. Screens'
  BY DEF LobbyInv, Screens, fetchEvents, fetchRooms, submit, unlock, toggleAttendance,
         deleteEvent, planner, links
<1>3. UnderWay'
  <2>1. UnderWay
    BY DEF LobbyInv
  <2>2. CASE fetchEvents
    BY <2>1, <2>2, CallStarts DEF fetchEvents
  <2>3. CASE fetchRooms
    BY <2>1, <2>3, CallStarts DEF fetchRooms
  <2>4. CASE submit
    BY <2>1, <2>4, CallStarts DEF submit
  <2>5. CASE unlock
    <3>1. joinTarget \in Protected
      BY <2>5 DEF LobbyInv, Screens, unlock
    <3>2. QED
      BY <2>1, <2>5, <3>1, CallStarts DEF unlock
  <2>6. ASSUME NEW e \in Events, toggleAttendance(e) PROVE UnderWay'
    <3>1. e \in DOMAIN events
      BY <2>6 DEF toggleAttendance, Carded
    <3>2. events[e].isAttending \in BOOLEAN
      BY <3>1 DEF LobbyInv, Lists, IsListing
    <3>3. (~events[e].isAttending) \in BOOLEAN
      BY <3>2
    <3>4. QED
      BY <2>1, <2>6, <3>3, CallStarts DEF toggleAttendance
  <2>7. ASSUME NEW e \in Events, deleteEvent(e) PROVE UnderWay'
    BY <2>1, <2>7, CallStarts DEF deleteEvent
  <2>8. QED
    BY <2>2, <2>3, <2>4, <2>5, <2>6, <2>7
<1>4. QED
  BY <1>1, <1>2, <1>3 DEF LobbyInv

\* What the screens do without a call.
LEMMA ScreenSteps ==
    ASSUME LobbyInv,
           \/ closeJoin \/ handleLeaveRoom \/ eventLink
           \/ \E e \in Events \cup {None} : selectEvent(e)
    PROVE  LobbyInv'
<1>1. Tables' /\ Lists' /\ UnderWay'
  BY DEF LobbyInv, Tables, Lists, IsListing, Tallied, UnderWay, closeJoin, handleLeaveRoom,
         eventLink, selectEvent, tables, lists
<1>2. Screens'
  <2>1. CASE closeJoin
    BY <2>1 DEF LobbyInv, Screens, closeJoin, planner, links
  <2>2. CASE handleLeaveRoom
    BY <2>2 DEF LobbyInv, Screens, handleLeaveRoom, planner, links
  <2>3. CASE eventLink
    BY <2>3 DEF LobbyInv, Screens, eventLink
  <2>4. CASE \E e \in Events \cup {None} : selectEvent(e)
    BY <2>4 DEF LobbyInv, Screens, selectEvent, links
  <2>5. QED
    BY <2>1, <2>2, <2>3, <2>4
<1>3. QED
  BY <1>1, <1>2 DEF LobbyInv

\* A room is entered, and the lobby left.
LEMMA EnterStep ==
    ASSUME Screens, UnderWay, NEW r \in Rooms,
           NEW pending \in Seq(SoundCalls), Len(pending) <= Len(calls),
           Enters(r, pending), UNCHANGED requestedEvent,
           requestedRoom' \in {requestedRoom, None}
    PROVE  Screens' /\ UnderWay'
<1>1. Screens'
  BY DEF Screens, Enters
<1>2. UnderWay'
  BY CallsOutlive DEF Enters
<1>3. QED
  BY <1>1, <1>2

LEMMA JoinSteps ==
    ASSUME LobbyInv, roomLink \/ \E r \in Rooms : handleJoin(r) \/ enterEvent(r)
    PROVE  LobbyInv'
<1>1. Tables' /\ Lists'
  BY DEF LobbyInv, Tables, Lists, IsListing, Tallied, roomLink, handleJoin, enterEvent,
         tables, lists
<1>2. Screens /\ UnderWay /\ calls \in Seq(SoundCalls) /\ Len(calls) <= Len(calls)
  BY LenProperties DEF LobbyInv, UnderWay
<1>3. ASSUME NEW r \in Rooms, Joins(r), UNCHANGED requestedEvent,
             requestedRoom' \in {requestedRoom, None}
      PROVE  Screens' /\ UnderWay'
  <2>1. CASE r \in Protected
    <3>1. joinTarget' = r /\ UNCHANGED <<activeRoom, planner, calls>>
      BY <1>3, <2>1 DEF Joins
    <3>2. QED
      BY <1>2, <1>3, <2>1, <3>1 DEF Screens, UnderWay, planner
  <2>2. CASE r \notin Protected
    <3>1. Enters(r, calls)
      BY <1>3, <2>2 DEF Joins
    <3>2. QED
      BY <1>2, <1>3, <3>1, EnterStep
  <2>3. QED
    BY <2>1, <2>2
<1>4. CASE roomLink
  <2>1. requestedRoom \in Rooms
    BY <1>4 DEF LobbyInv, Lists, roomLink
  <2>2. Joins(requestedRoom) /\ UNCHANGED requestedEvent /\ requestedRoom' = None
    BY <1>4 DEF roomLink
  <2>3. QED
    BY <1>1, <1>3, <2>1, <2>2 DEF LobbyInv
<1>5. ASSUME NEW r \in Rooms, handleJoin(r) PROVE LobbyInv'
  BY <1>1, <1>3, <1>5 DEF LobbyInv, handleJoin, links
<1>6. ASSUME NEW r \in Rooms, enterEvent(r) PROVE LobbyInv'
  <2>1. Enters(r, calls) /\ UNCHANGED <<requestedEvent, requestedRoom>>
    BY <1>6 DEF enterEvent, links
  <2>2. QED
    BY <1>1, <1>2, <2>1, EnterStep DEF LobbyInv
<1>7. QED
  BY <1>4, <1>5, <1>6


LEMMA TableSteps ==
    ASSUME LobbyInv, Elsewhere \/ \E i \in DOMAIN calls : Serves(i)
    PROVE  LobbyInv'
<1>1. Lists' /\ Screens'
  BY DEF LobbyInv, Lists, IsListing, Tallied, Screens, Elsewhere, Serves, lists, planner, links
<1>2. UnderWay /\ Tables
  BY DEF LobbyInv
<1>3. CASE Elsewhere
  <2>1. UnderWay'
    BY <1>2, <1>3 DEF UnderWay, Elsewhere
  <2>2. Tables'
    <3>1. CASE \/ \E e \in Events : event[e] = "new" /\ UNCHANGED <<attending, open>>
                      /\ event' = [event EXCEPT ![e] = "listed"]
               \/ \E e \in Listed : UNCHANGED open
                      /\ event' = [event EXCEPT ![e] = "gone"] /\ attending' = attending \ {e}
               \/ \E e \in Listed : attending' = With(attending, e, e \notin attending)
                      /\ UNCHANGED <<event, open>>
      BY <1>2, <3>1 DEF Tables, Listed, With
    <3>2. CASE \E r \in Rooms : open' = With(open, r, r \notin open)
                 /\ UNCHANGED <<event, attending>>
      BY <1>2, <3>2 DEF Tables, With
    <3>3. QED
      BY <1>3, <3>1, <3>2 DEF Elsewhere
  <2>3. QED
    BY <1>1, <2>1, <2>2 DEF LobbyInv
<1>4. ASSUME NEW i \in DOMAIN calls, Serves(i) PROVE LobbyInv'
  <2>1. /\ calls[i].at # "answered" /\ CallTyped(calls[i])
        /\ calls[i] \in Requests /\ Sound(calls[i])
    BY <1>2, <1>4, CallsAreSound DEF Serves, AttendCreated, Sound
  <2>2. {} \in Listings \cup SUBSET Rooms
    OBVIOUS
  <2>3. CASE ListEvents(i)
    <3>1. Tables'
      BY <1>2, <2>3 DEF Tables, ListEvents, tables
    <3>2. Listing \in Listings \cup SUBSET Rooms /\ IsListing(Listing) /\ Tallied(Listing)
      BY <1>2, ListingIsTallied
    <3>3. calls[i].kind \in {"events", "created"} /\ Reply(i, Listing)
      BY <2>3 DEF ListEvents
    <3>4. UnderWay'
      BY <1>2, <2>1, <3>2, <3>3, CallReplied
    <3>5. QED
      BY <1>1, <3>1, <3>4 DEF LobbyInv
  <2>4. CASE ListRooms(i)
    <3>1. Tables'
      BY <1>2, <2>4 DEF Tables, ListRooms, tables
    <3>2. open \in Listings \cup SUBSET Rooms /\ open \subseteq Rooms
      BY <1>2 DEF Tables
    <3>3. calls[i].kind = "rooms" /\ Reply(i, open)
      BY <2>4 DEF ListRooms
    <3>4. UnderWay'
      BY <1>2, <2>1, <3>2, <3>3, CallReplied
    <3>5. QED
      BY <1>1, <3>1, <3>4 DEF LobbyInv
  <2>5. CASE SetAttendance(i) \/ DeleteEvent(i) \/ AttendCreated(i) \/ CheckPassword(i)
    <3>1. calls[i].kind \notin {"events", "created", "rooms"} /\ Reply(i, {})
      BY <2>1, <2>5 DEF SetAttendance, DeleteEvent, AttendCreated, CheckPassword, CallTyped
    <3>2. UnderWay'
      BY <1>2, <2>1, <2>2, <3>1, CallReplied
    <3>3. Tables'
      <4>1. CASE SetAttendance(i)
        <5>1. calls[i].of \in Events
          BY <2>1, <4>1 DEF SetAttendance, CallTyped
        <5>2. QED
          BY <1>2, <4>1, <5>1 DEF Tables, SetAttendance, With
      <4>2. CASE DeleteEvent(i)
        BY <1>2, <4>2 DEF Tables, DeleteEvent
      <4>3. CASE AttendCreated(i)
        BY <1>2, <4>3 DEF Tables, AttendCreated, Listed
      <4>4. CASE CheckPassword(i)
        BY <1>2, <4>4 DEF Tables, CheckPassword, tables
      <4>5. QED
        BY <2>5, <4>1, <4>2, <4>3, <4>4
    <3>4. QED
      BY <1>1, <3>2, <3>3 DEF LobbyInv
  <2>6. CASE CreateEvent(i) /\ calls[i].at = "asked"
    <3>1. PICK e \in Events :
             /\ event' = [event EXCEPT ![e] = "listed"] /\ UNCHANGED <<attending, open>>
             /\ calls' = [calls EXCEPT ![i].at = "inserted", ![i].of = e]
      BY <2>6 DEF CreateEvent
    <3>2. Tables'
      BY <1>2, <3>1 DEF Tables
    <3>3. PICK c, d : c = calls[i] /\ d = [c EXCEPT !.at = "inserted", !.of = e]
      OBVIOUS
    <3>4. c \in Requests /\ CallTyped(c) /\ c.kind = "create"
      BY <2>1, <2>6, <3>3 DEF CreateEvent
    <3>5. /\ d \in Requests /\ d.kind = "create" /\ d.of = e /\ d.at = "inserted"
          /\ d.on = c.on /\ d.fresh = c.fresh
      BY <3>3, <3>4 DEF Requests
    <3>6. d \in SoundCalls
      BY <3>4, <3>5 DEF SoundCalls, Sound, CallTyped
    <3>7. calls' = [calls EXCEPT ![i] = d]
      BY <3>1, <3>3
    <3>8. QED
      BY <1>1, <1>2, <3>2, <3>6, <3>7, CallBecomes DEF LobbyInv
  <2>7. QED
    BY <1>4, <2>3, <2>4, <2>5, <2>6 DEF Serves
<1>5. QED
  BY <1>3, <1>4

\* An attendance that is counted on a list which counts already.
LEMMA AttendanceIsTallied ==
    ASSUME Lists, NEW i \in DOMAIN calls, calls[i].on \in BOOLEAN, AttendanceSet(i)
    PROVE  Lists'
<1>1. /\ \A e \in DOMAIN events : events[e].isAttending \in BOOLEAN /\ events[e].count \in Nat
      /\ DOMAIN events \subseteq Events
  BY DEF Lists, IsListing
<1>2. DOMAIN events' = DOMAIN events /\ UNCHANGED rooms
  BY DEF AttendanceSet
<1>3. ASSUME NEW e \in DOMAIN events
      PROVE  \/ events'[e] = events[e]
             \/ events'[e].isAttending = calls[i].on
                /\ events'[e].count = max0(events[e].count + (IF calls[i].on THEN 1 ELSE -1))
  BY DEF AttendanceSet, Counted
<1>4. \A n \in Nat : max0(n + 1) \in Nat /\ max0(n + 1) >= 1
                     /\ max0(n + (-1)) \in Nat /\ max0(n + (-1)) >= 0
  BY DEF max0
<1>5. ASSUME NEW e \in DOMAIN events
      PROVE  /\ events'[e].isAttending \in BOOLEAN /\ events'[e].count \in Nat
             /\ events'[e].count >= (IF events'[e].isAttending THEN 1 ELSE 0)
  <2>1. CASE events'[e] = events[e]
    BY <1>1, <2>1 DEF Lists, Tallied
  <2>2. CASE events'[e] # events[e]
    <3>1. events'[e].isAttending = calls[i].on
          /\ events'[e].count = max0(events[e].count + (IF calls[i].on THEN 1 ELSE -1))
      BY <1>3, <2>2
    <3>2. CASE calls[i].on
      <4>1. events'[e].count = max0(events[e].count + 1)
        BY <3>1, <3>2
      <4>2. events'[e].count \in Nat /\ events'[e].count >= 1
        BY <1>1, <1>4, <4>1
      <4>3. QED
        BY <3>1, <3>2, <4>2
    <3>3. CASE ~calls[i].on
      <4>1. events'[e].count = max0(events[e].count + (-1))
        BY <3>1, <3>3
      <4>2. events'[e].count \in Nat /\ events'[e].count >= 0
        BY <1>1, <1>4, <4>1
      <4>3. QED
        BY <3>1, <3>3, <4>2
    <3>4. QED
      BY <3>2, <3>3
  <2>3. QED
    BY <2>1, <2>2
<1>6. QED
  BY <1>1, <1>2, <1>5 DEF Lists, IsListing, Tallied


LEMMA AnswerSteps ==
    ASSUME LobbyInv, NEW i \in DOMAIN calls, Answers(i)
    PROVE  LobbyInv'
<1>1. Lists /\ UnderWay /\ Screens
  BY DEF LobbyInv
<1>2. /\ calls[i].at = "answered" /\ UNCHANGED <<tables, links>>
      /\ calls[i] \in Requests /\ Sound(calls[i]) /\ CallTyped(calls[i])
  BY <1>1, CallsAreSound DEF Answers, Sound
<1>3. Tables'
  BY <1>2 DEF LobbyInv, Tables, tables
<1>4. CASE AccessGranted(i)
  <2>1. calls[i].of \in Rooms
    BY <1>2, <1>4, LobbyAssumption DEF AccessGranted, CallTyped
  <2>2. /\ RemoveAt(calls, i) \in Seq(SoundCalls)
        /\ Len(RemoveAt(calls, i)) <= Len(calls)
    BY <1>1, CallRemoved, LenProperties DEF UnderWay
  <2>3. Enters(calls[i].of, RemoveAt(calls, i))
    BY <1>4 DEF AccessGranted
  <2>4. Screens' /\ UnderWay'
    BY <1>1, <1>2, <2>1, <2>2, <2>3, EnterStep DEF links
  <2>5. Lists'
    BY <1>1, <1>4 DEF Lists, IsListing, Tallied, AccessGranted, lists
  <2>6. QED
    BY <1>3, <2>4, <2>5 DEF LobbyInv
<1>5. CASE \/ EventsListed(i) \/ CreatedListed(i) \/ RoomsListed(i) \/ AttendanceSet(i)
           \/ Deleted(i) \/ Created(i)
  <2>1. CASE /\ UNCHANGED <<selectedEvent, joinTarget, activeRoom>>
    <3>1. pendingId' \in {pendingId, None}
      BY <1>5 DEF EventsListed, CreatedListed, RoomsListed, AttendanceSet, Deleted, Created,
                  PendingEnds
    <3>2. Screens'
      BY <1>1, <1>2, <2>1, <3>1 DEF Screens, links
    <3>3. UnderWay'
      <4>1. CASE Ends(i)
        BY <1>1, <4>1, CallEnds
      <4>2. CASE Created(i)
        <5>1. PICK c, d :
                 c = calls[i] /\ d = [c EXCEPT !.kind = "created", !.of = None, !.at = "asked"]
          OBVIOUS
        <5>2. c \in Requests /\ CallTyped(c)
          BY <1>2, <5>1
        <5>3. /\ d \in Requests /\ d.kind = "created" /\ d.of = None /\ d.at = "asked"
              /\ d.on = c.on /\ d.fresh = c.fresh
          BY <5>1, <5>2 DEF Requests
        <5>4. d \in SoundCalls
          BY <5>2, <5>3 DEF SoundCalls, Sound, CallTyped
        <5>5. calls' = [calls EXCEPT ![i] = d]
          BY <4>2, <5>1 DEF Created
        <5>6. QED
          BY <1>1, <5>4, <5>5, CallBecomes
      <4>3. QED
        BY <1>5, <4>1, <4>2 DEF EventsListed, CreatedListed, RoomsListed, AttendanceSet, Deleted
    <3>4. Lists'
      <4>1. CASE EventsListed(i) \/ CreatedListed(i)
        <5>1. IsListing(calls[i].value) /\ Tallied(calls[i].value)
          BY <1>2, <4>1 DEF EventsListed, CreatedListed, Sound, CallTyped
        <5>2. events' = calls[i].value /\ UNCHANGED rooms
          BY <4>1 DEF EventsListed, CreatedListed
        <5>3. QED
          BY <1>1, <5>1, <5>2 DEF Lists, IsListing, Tallied
      <4>2. CASE RoomsListed(i)
        <5>1. calls[i].value \subseteq Rooms
          BY <1>2, <4>2 DEF RoomsListed, CallTyped
        <5>2. QED
          BY <1>1, <4>2, <5>1 DEF Lists, IsListing, Tallied, RoomsListed
      <4>3. CASE AttendanceSet(i)
        BY <1>1, <1>2, <4>3, AttendanceIsTallied DEF CallTyped
      <4>4. CASE Deleted(i)
        <5>1. /\ DOMAIN events' \subseteq DOMAIN events
              /\ \A e \in DOMAIN events' : events'[e] = events[e]
              /\ UNCHANGED rooms
          BY <4>4 DEF Deleted
        <5>2. QED
          BY <1>1, <5>1 DEF Lists, IsListing, Tallied
      <4>5. CASE Created(i)
        BY <1>1, <4>5 DEF Lists, IsListing, Tallied, Created, lists
      <4>6. QED
        BY <1>5, <4>1, <4>2, <4>3, <4>4, <4>5
    <3>5. QED
      BY <1>3, <3>2, <3>3, <3>4 DEF LobbyInv
  <2>2. CASE AccessGranted(i)
    BY <1>4, <2>2
  <2>3. QED
    BY <2>1, <2>2 DEF Answers
<1>6. QED
  BY <1>4, <1>5 DEF Answers

LEMMA FailSteps ==
    ASSUME LobbyInv, NEW i \in DOMAIN calls, Fails(i) \/ Refused(i)
    PROVE  LobbyInv'
<1>1. Fails(i)
  BY DEF Refused
<1>2. UnderWay'
  BY <1>1, CallEnds DEF LobbyInv, Fails
<1>3. Tables' /\ Lists'
  BY <1>1 DEF LobbyInv, Tables, Lists, IsListing, Tallied, Fails, tables, lists
<1>4. pendingId' \in {pendingId, None}
  BY <1>1 DEF Fails, PendingEnds
<1>5. Screens'
  BY <1>1, <1>4 DEF LobbyInv, Screens, Fails, links
<1>6. QED
  BY <1>2, <1>3, <1>5 DEF LobbyInv

LEMMA LobbyStart == LobbyInit => LobbyInv
<1> SUFFICES ASSUME LobbyInit PROVE LobbyInv
  OBVIOUS
<1>1. DOMAIN events = {}
  BY EmptySeq, LenProperties DEF LobbyInit
<1>2. Lists
  BY <1>1 DEF LobbyInit, Lists, IsListing, Tallied
<1>3. UnderWay
  BY EmptySeq, LobbyAssumption DEF LobbyInit, UnderWay
<1>4. Tables
  BY DEF LobbyInit, Tables
<1>5. Screens
  BY DEF LobbyInit, Screens
<1>6. QED
  BY <1>2, <1>3, <1>4, <1>5 DEF LobbyInv

LEMMA LobbyStep == LobbyInv /\ [LobbyNext]_lobbyVars => LobbyInv'
<1> SUFFICES ASSUME LobbyInv, [LobbyNext]_lobbyVars PROVE LobbyInv'
  OBVIOUS
<1>1. CASE UNCHANGED lobbyVars
  BY <1>1 DEF LobbyInv, Tables, Lists, IsListing, Tallied, Screens, UnderWay, lobbyVars, tables,
              lists, planner, links
<1>2. CASE Acts
  <2>1. CASE \E i \in DOMAIN calls : Fails(i)
    BY <2>1, FailSteps
  <2>2. CASE ~\E i \in DOMAIN calls : Fails(i)
    BY <1>2, <2>2, AskSteps, ScreenSteps, JoinSteps, TableSteps, Zenon DEF Acts
  <2>3. QED
    BY <2>1, <2>2
<1>3. CASE Polls
  BY <1>3, AskSteps, TableSteps, AnswerSteps, FailSteps, Zenon DEF Polls
<1>4. CASE Links
  BY <1>4, ScreenSteps, JoinSteps, Zenon DEF Links
<1>5. QED
  BY <1>1, <1>2, <1>3, <1>4 DEF LobbyNext

LEMMA LobbyInvariant == LobbySpec => []LobbyInv
<1>1. QED
  BY LobbyStart, LobbyStep, PTL DEF LobbySpec

(* The tables, the lists, the screens and the calls under way keep their   *)
(* types, for any number of events, rooms and calls (App, EventPlanner,    *)
(* RoomList).                                                              *)
THEOREM LobbyTypes == LobbySpec => []LobbyTypeOK
<1>1. QED
  BY LobbyInvariant, LobbyTypesFollow, PTL

(* However polls, deletions, attendances counted on what is shown by then  *)
(* and those the server gives the host of a new event overlap: an event    *)
(* this user attends never shows fewer than one attendee, nor any other    *)
(* fewer than none (handleEventAttendance).                                *)
THEOREM AttendeesAreCounted == LobbySpec => []AttendeesCounted
<1>1. QED
  BY LobbyInvariant, LobbyTypesFollow, PTL

=============================================================================
