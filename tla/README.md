# AntigravityZen in TLA+

Models, model checks and machine-checked proofs for the meditation-room server
in `src/backend` (Go) and the web client in `src/frontend` (React). Every
module names the source it translates; `PROJECT.json` maps each definition to
its lines, and lists every hazard with its line and the properties about it, or
why none is.

## 1. The system

A Go process keeps meditation rooms in memory, serves them over websockets and
a JSON API, and saves what must survive in PostgreSQL. Browsers join a room,
chat, and meditate together; the host starts and stops the session and may
record a live voice. Bots open rooms when no human does. Docker restarts the
process when it dies (`restart: unless-stopped`).

| Component | State | Operations | Talks to |
|---|---|---|---|
| Room hub (`room/hub.go`, `room/client.go`) | `Hub.Rooms`; per room the clients, host, `EmptySince`; per client the `Send` channel (256) | loop `Hub.Run` over the channels Register, Unregister, Leave; per connection `readPump`, `writePump`; handlers for chat, start, stop, voice; broadcasts from any goroutine; `scheduleEmptyRoomCleanup` | database (rooms, members, chats), events |
| Sessions and persistence (`client.go`, `persistence.go`) | `Room.Status`, `StartedAt`, `Duration`, recording; table `rooms` | start, stop, `scheduleRoomCompletion`, `PersistRoom`, `LoadPersistentRooms`, recordings | events, tracks |
| Room access (`access.go`, `handlers/ws.go`, `handlers/room_access.go`) | `AccessTickets`, `PendingPasswords`, `Room.PasswordHash`, table `room_members` | `PrepareRoomAccess`, `ValidateRoomAccess`, the hub's Register, Leave, cleanup | hub, client |
| Rate limiting (`ratelimit.go`) | a bucket per key | `Allow`, `cleanupLoop` | every handler |
| Scheduled events (`events.go`) | tables `meditation_events`, `meditation_event_attendees` | create, attend, delete, complete, prune, prepare the room | hub, lobby |
| Global chat (`global_chat.go`), room chat (`chat.go`) | message tables | append with retention, read after a cursor | lobby, hub |
| Profiles and direct messages (`social.go`) | likes, ignores, messages, read marks | send, list and mark read, delete, like, ignore | accounts |
| Bot scheduler (`bot_manager.go`, `settings.go`) | `activeSessions`, 24-hour marks | a tick every 30 s, host and spectator bots over real websockets | hub, accounts |
| Accounts (`auth.go`) | users, sessions | register, login, guest, logout, admin | all |
| Tracks, backgrounds | tables and uploaded files | add, list, delete | sessions |
| Database, imports (`db.go`, `sqlite_migration.go`) | schema, the legacy file | connect, migrate, import once | - |
| Page: connection (`App.tsx`) | token, active room, `wsRef`, redialing timer, tickets under way, the room and chat on screen | sign in and out, guest session, enter, leave, reload, the connection effect, socket events | access, websocket |
| Page: lobby (`App.tsx`, `EventPlanner.tsx`, `RoomList.tsx`, `GlobalChat.tsx`) | polled lists, invitation links, password dialog, the feed and its cursor | polls, attendance, event creation and deletion, posting | events, rooms, chat API |
| Page: people (`SocialHub.tsx`, `ProfileCard.tsx`) | dialog, conversations, directory, card, unread counter | polls, send, delete, like, ignore | social API |
| Page: room (`MeditationRoom.tsx`) | audio element, its listeners and promises; microphone, recorder, MediaSource queue | session states, mute, forced play; test, record, play back voice | websocket, browser |

What makes it hard:

* Goroutines. The hub loop, two pumps per connection, handlers, timers and
  broadcasts share rooms under two locks, `h.Mutex` and `room.Mutex`. Almost
  every operation looks a room up under the first, releases it and uses the
  pointer under the second; some sends use neither.
* A room id outlives a room. Rooms are deleted and created again under one id
  while goroutines, tickets, memberships and timers of the earlier one are
  still about.
* Memory first, database afterwards, outside the locks: a crash, or another
  goroutine, may come in between.
* Delayed work: a cleanup two minutes after a room became empty, a completion
  at the end of every session, tickets that expire after 45 s, buckets swept
  after ten idle minutes.
* The page awaits. A handler that awaits the server, the browser or the user
  goes on in a page that has moved on: another room, dialog, member, session or
  token. Effects are torn down and run again, and what they started (sockets,
  timers, requests, listeners, promises, captures) still reports.
* The page shows its own changes at once and polls the rest, so an answer may
  be older than what it replaces.

Correctness, per component: no goroutine uses a channel another has closed and
a member always has an open one; a room survives a disconnect for the grace
period and is reclaimed after it; a session ends on time, once, also across a
restart, and its row and event follow; a protected room holds only people who
have shown its password; a limiter grants a burst and a rate and nothing more.
A page in a room has exactly one live connection, or is about to; what it shows
is of the room, member or session it is about; its lists heal, whatever the
order of answers; music and voice are those of the session, in order, heard or
explained; a microphone that captures is held by a ref of the page, as long as
no capture overtakes another, and none captures after the room was left.

## 2. Modules

| Module | Models | State and actions |
|---|---|---|
| `RoomHub` | one room id of the hub, its connections and their goroutines | `hubRoom` is `h.Rooms[id]`, a pointer to one of `Objs`; `work[t]` is what a goroutine still has to do, one entry per critical section or unlocked send. Register, Unregister and Leave are the three receives of `Hub.Run`; `Lookup` and the use of the pointer are two steps; `SendChatHistory`, `SendVoiceEvent`, `RateLimitReply` are the unlocked sends |
| `MeditationSession` | the session of one room, its row, event, recording and timers | `room`, `row`, `timers`, `pc`: a handler changes the room, then saves, then launches or completes, each a step; `Crash`, `Restart` (`LoadPersistentRooms`) |
| `RoomAccess` | tickets, reserved passwords, memberships | a *page* asks for a ticket (`PrepareRoomAccess`), dials (`ValidateRoomAccess`, `UpgradeFails`), is registered; `hub` is the database call the hub goroutine makes after it released the locks; `erasing` counts cleanups that have still to delete rows |
| `RateLimiter` | one limiter with all its keys | `FirstCall`, `LaterCall`, `Sweep`; one token is `Rate` units, so the fractions of the float64 are exact |
| `TokenBucket` | the abstract promise of a limiter | buckets that always exist and fill continuously |
| `RoomConnection` | a page's session, room and sockets | `socket[s]` is every socket that has not reported its close, `wsRef` the one the page refers to; a handler, its render and the effects of that render are one step, what comes after an await is another (`guestStarting`, `loggingOut`, `tickets`) |
| `GlobalChat` | the feed of the lobby and the table behind it | ids at INSERT, rows visible at commit; the request of the current effect, the page's own POST, `mergeMessages`; mounting, hidden tabs, aborts |
| `SocialHub` | the open dialog, the list of conversations and the header's counter | `calls`: async calls under way, each asked, then served by `social.go`, then answered in any order. `MarkRead` and `ListMessages` are the two statements of a load, `PageSize` its `LIMIT 200`; a deletion goes by id and author; `stale` marks the calls of a screen that was unmounted |
| `ProfileCard` | likes and ignores on the card, in the directory and in the conversations | as above, in a bag: alike calls overlap and are answered in any order; `cardLoad` is the effect's own request, which it aborts; `Searches` are the results a search may have |
| `Lobby` | lists of rooms and events, attendance, event creation and deletion, the password dialog, invitation links | as above; the handler of a new event is two steps, `CreateEvent` and `AttendCreated`; another tab of the user may attend or withdraw; the effects that follow a link are `Links` |
| `RoomVoice` | microphone, recorder, relay, playback of a recording | `calls`: captures and resumes that await the browser; `reading`: chunks whose bytes are awaited, so that several may be sent after `voice_stop`; `wire`: messages to the listener, whose buffer may be full; `source`: MediaSource, its stage and its queue |
| `RoomPlayer` | the music of a session on one page | `audio`: the element; `ready`, `pending`: listeners and promises of this and earlier sessions |
| `MCRoomHub`, `MCMeditationSession`, `MCRoomAccess`, `MCRoomConnection`, `MCGlobalChat` | instances for TLC; the other modules are checked as they are | |
| `RoomHub_proofs`, `MeditationSession_proofs`, `RoomAccess_proofs`, `RateLimiter_proofs` | theorems about these modules | |
| `Page_proofs`, `RoomMedia_proofs`, `Lobby_proofs`, `ProfileCard_proofs` | theorems about `RoomConnection` and `SocialHub`; `RoomPlayer` and `RoomVoice`; `GlobalChat` and `Lobby`; `ProfileCard` | |

`RoomHub`, `MeditationSession` and `RoomAccess` are three views of the same
`Room`. They are cut where the code does not couple them: channels and
membership never read the session, the session reads neither, and access reads
of the hub only that a room exists, who is in it and when it became empty.
What a view leaves out is a free choice in it (in `RoomAccess` an eviction may
happen at any time, in `MeditationSession` the hub may save the room at any
time). `RateLimiter` implements `TokenBucket` under the refinement mapping
`level` = what a key could draw now.

The modules of the page each take the server they need with them: the feed and
the table, the dialogs and the messages, the lists and the events, the
recording and the relay, are one module, so that a property relates the screen
to the server. Between them the page's modules share only which room is active
and whether the lobby is on screen; each may change these at any time.

Some definitions have a variant that differs as a plausible slip in the code
would, marked "mutant of" in its comment. No behaviour uses them: put in the
place of the original, each makes TLC refute the property it is listed with,
which shows the property bites.

## 3. Runs

All twelve runs pass.

| Run | Checks | Bounds |
|---|---|---|
| `hub_room` | `MarkedIsScheduled`, `OrphansEmpty`, `LockedUseIsSafe`, `RoomOutlivesDisconnects` | host and guest, two room objects, channels of one message, a message of any kind (`voice_stop` is the handler of stop without the status), clients that act at two clock values, so that an older mark can be met by a newer one, and the grace period after them |
| `hub_liveness` | `HubServes`, `ClosedConnectionsEnd`, `MarkedRoomReclaimed` | a host with two connections, a room an event may have prepared, one leave, fairness |
| `session` | `RowMatches`, `PlayingHasTimer`, `EndedOnTime`, `EventGoneUncrashed`, `PlayingEnds` | a host connection, the hub and the timers; two starts, the second at any time of the first, durations 1 and 5 with a word in which 5 wraps to a negative one, three clock values, one recording, one crash, fairness |
| `access_lobby` | `KeyHolders`, `TicketsFitTheirRoom`, `ReservationHolds`, `StaleRowsAwaitDeletion` | two rooms of one user, a visitor, two passwords, a limit of one room, three clock values: tickets of one instant are over in the next, cleanups one later |
| `limiter_buckets` | `WindowBound`, `ImplementsTokenBucket` | two keys, bucket of two tokens at two ticks each, sweep age of exactly one refill |
| `connection` | `LiveSocketIsCurrent`, `ShownRoomIsActive`, `RoomIsBeingDialed`, `RoomAppears` | two rooms, a guest's token and an account's, two sockets at a time (the dialed one and the one whose close event is late), two calls of each kind under way, fairness |
| `chat` | `CursorIsNewest`, `GapsBorderOwn`, `FeedCatchesUp` | four messages, pages of two, three shown: a page is full, a list is cut, ids are committed out of order; one failed request, fairness |
| `social` | `SocialTypeOK`, `DialogSettles` | two members, two messages, a list of one (so that a thread outgrows it), two calls under way, fairness |
| `card` | `CardShowsSelected`, `IgnoreSettles` | two members, one with a conversation, searches that find both or none; a call starts while fewer than two are under way, with the card's own besides, fairness |
| `lobby` | `LobbyTypeOK`, `AttendeesCounted`, `LobbySettles` | an event, a protected room, two calls under way, a count of two, fairness |
| `voice` | `VoiceTypeOK`, `MicIsReleased`, `RecordingIsShown`, `PlayedInOrder`, `QueueDrains` | two captures, two chunks, a buffer of one message, fairness |
| `player` | `MusicIsInStep`, `MuteIsHeld`, `SilenceIsExplained` | two tracks, four sessions, fairness |

Why the bounds are enough. The hazards need two parties on one resource: two
connections on a room or a channel, two starts on a session, an old and a new
room object under one id, a ticket of one instant met in the next, an old and a
new socket, request, capture or listener. A channel of one message is full
after one, which is what matters of 256; likewise a list of one message for
`LIMIT 200`. Two chunks are one that plays, is queued or failed, and one that
comes while it does (with three, `voice` passes too, on 3.8 million states); the
order of what is played is also a theorem for any number. Every action fires in the passing
runs. Deadlock is checked where the model can always go on (`player`);
elsewhere users may stop acting and clocks, ids and counts are bounded, so
`CHECK_DEADLOCK FALSE` is set. Room objects and passwords are interchangeable,
and the runs without liveness use that symmetry.

## 4. Fairness

* `RoomHub!FairSpec`: weak fairness of the hub goroutine, of handlers, spawned
  goroutines, timers and of the writer, whose blocked write ends at the 10 s
  deadline of `writePump`; strong fairness, per connection, of the three
  receives of `Hub.Run`: `select` picks among ready channels at random and Go
  serves the senders of a channel in order. Nobody is obliged to connect, send
  or leave.
* `MeditationSession!FairSpec`: weak fairness of the goroutines that are
  running code, of the clock and of the restart by docker; `Crash` and the
  clients get none.
* `RoomConnection!FairSpec`: timers fire, a socket that ended reports it, the
  check of a stored token and the request of a guest session end. Strong
  fairness of a dial that succeeds and of the first room state: a server that
  is dialed again and again is reached at last. Users owe nothing.
* `GlobalChat!FairChatSpec`: the interval keeps firing, the server answers and
  commits what it began; strong fairness of the receipt of an answer, which a
  restart of the effect aborts: the effect is not restarted before every
  answer.
* `SocialHub`, `ProfileCard` and `Lobby`: calls are answered, or refused (the
  oldest one, or in `ProfileCard` some one of them), and the interval of what is
  open keeps firing (strongly, since a bound on calls under way may hold it
  back). Their properties speak of a page where, from
  some time on, only polls run: "left alone, it heals".
* `RoomVoice!FairVoiceSpec`: a MediaSource that was attached opens, or fails to
  get its buffer, and an update ends.
* `RoomPlayer!FairSpec`: loading ends one way or the other, a promise of
  `play()` settles.

## 5. Proofs

Every theorem holds for all values of the constants that satisfy the named
assumptions of the module, so for any number of connections, rooms, pages,
sockets, messages, members, events, sessions and calls, and any sizes and
durations. Every safety invariant the runs check, and the refinement, is a
theorem.

* `RoomHub_proofs`. `TypeCorrect`. `ChannelSafety`: `ChannelInv` is inductive,
  that is `OrphansEmpty`, `MembersAreOpen`, `LockedUseIsSafe` and, needed as
  the strengthening, `ClosedByTheEnd`: a connection that is over has its
  channel closed and one that is not registered yet has it open, so Register
  puts an open channel into the map and nothing closes it twice.
  `GraceRespected`: `GraceInv` says a mark is at least as late as the last time
  the room had a client and a timer is due a grace period after its mark; so a
  cleanup whose mark matches comes late enough. `CleanupScheduled`:
  `MarkedIsScheduled` is inductive relative to the types and channel facts.
  `OrphansStayEmpty` is the part of `ChannelInv` about rooms that left the map.
* `MeditationSession_proofs`. `TypeCorrect`; `RowIsCurrent`, `SessionWillEnd`
  and `SessionsLastTheirTime`, the last with the strengthening that every start
  a timer, a handler, the room or the row remembers is one that took place.
  `FinishedEventsGo`: `EventGoneUncrashed` speaks of a moment when nothing is
  left to do, so by itself no step keeps it. `EventOwed` says who will delete
  the event of a finished room: a goroutine that has still to call
  `completeRoomEvent`, one that will after its save, or a timer that has fired.
* `RoomAccess_proofs`. `TypeCorrect`. `AccessInv` is inductive; its idea is
  that a room id can only ever have one password, `Key(r)`, because its creator
  chooses it before anybody else knows the id. `KeysFit`: hashes, reserved
  passwords and tickets are the key or nothing. `AllAdmitted`: whoever is past
  the check, or has a membership, either met an open room or has shown the key,
  and no later step can make that false. `CreatorFirst`, `CreatorsTicket` and
  `SavedRoomExists` carry it through the sweep of tickets, Register and the
  writes after the locks. From it follow `InsideHold`, `TicketsFit`,
  `ReservationKept` and `StaleRowsGo`, the four safety properties of the run
  `access_lobby`. Room ids are assumed to be unguessable: each has one page
  that generated it (`RoomsAssumption`).
* `RateLimiter_proofs`. With the condition that the sweep age is at least the
  time of a full refill (all limiters of `ratelimit.go` but the one for
  uploads): `TypeCorrect`; `WindowsAreBounded`, from the stronger fact that
  what was granted in a window and what the key could draw now are together
  within the bound; `LimiterIsTokenBucket`, the refinement of `TokenBucket`,
  step by step.
* `Page_proofs`. `ConnectionInv` adds `TimerIsOwed` to the three
  invariants: a redialing timer is armed only in a room and while `wsRef` holds
  no socket, so the dial it leads to adds no second live one. Lemmas say what
  `Closed` and `connect` do to the sockets for any number of them. From it
  `ConnectionTypes`, `OneCurrentSocket`, `NeverLeftUndialed`,
  `ScreenFollowsRoom`. Then `SocialHub`: `DialogTypes`, with calls typed by
  what they ask for or carry. Its lists are defined by ranks, not by recursion:
  `RanksExist` (a least set without an element of some rank would lack it
  without its least element, too) types them, and gives each pair that `Total`
  counts another unread message, so that the counter cannot exceed the table.
* `RoomMedia_proofs`. `PlayerInv`: `Quiet` (no element outside a session),
  `Seeks` (a listener still armed on the element seeks to the session on
  screen, or runs before one that does) and `InStep` make `MusicIsInStep`
  inductive: `MusicInStep`, `MuteHeld`, `PlayerTypes`. `HearInv` follows a
  recording from the wire to the loudspeaker: what was played, is queued and is
  on the wire is one strictly ascending line (`InLine`, `Orderly`), so a chunk
  that is dropped leaves a gap and never a swap: `VoiceInOrder`, `VoiceTypes`.
  Chunks are numbered as they leave the host, so this is about the relay and the
  listener.
  `InTurn` says what a capture that has not been overtaken knows when the
  browser answers it (that no other is under way, and what the refs hold), from
  which `MicrophoneIsReleased` and `RecordingsAreShown`.
* `Lobby_proofs`. `ChatInv`: what is shown or awaited are rows that can be
  read. That the newest messages that fit the list include the newest of all
  (`mergeMessages` and its slice) is a lemma about finite sets, found by
  well-founded induction on strict inclusion. `CursorFollowsFeed`, `ChatTypes`.
  `NoGapsOfItsOwn`: `GapsBorderOwn` needs to know what a request will do to the
  feed when it is answered. `GapInv` adds that its cursor is one the feed has
  had, with only own messages above it since (`Followed`), and that the page
  the server read is seamless: between two rows of it, or between the cursor
  and its first, no row is missing that could be read then (`Seamless`). For
  the lobby, `LobbyInv` types each call by its kind and adds that every list on
  its way, like the one shown, counts this user where this user attends, also
  between the two statements of a new event: `LobbyTypes`,
  `AttendeesAreCounted`. That an attendance is counted twice is not excluded,
  for it happens; `LobbySettles` has it heal.
* `ProfileCard_proofs`. `CardInv` types the calls under way by their kind, so
  that an answer can only carry what its call asked for: `CardOfSelected`,
  `CardTypes`.

Only model-checked: liveness, since the prover has no rules for fairness and
`ENABLED` here. These are `HubServes`, `ClosedConnectionsEnd`,
`MarkedRoomReclaimed`, `PlayingEnds`, `RoomAppears`, `FeedCatchesUp`,
`DialogSettles`, `IgnoreSettles`, `LobbySettles`, `QueueDrains` and
`SilenceIsExplained`.

## 6. Known deviations

What the models show the code to do, and the properties therefore leave out by
name. Each can be seen by dropping the exception from the property.

* hub.go:396-399: `SendChatHistory` sends without a lock after the database
  calls of Register. If a broadcast meanwhile found the new client's channel
  full, the channel is closed and the send panics; the `default` branch does
  not cover that. It takes 256 undelivered messages. The same holds for the
  snapshot of voice events (hub.go:476) and the rate-limit reply
  (client.go:206). `LockedUseIsSafe` is about the uses under the lock;
  `panic` records the others.
* persistence.go:212: a session that ends while the server is down is finished
  by `LoadPersistentRooms`, which does not complete its event, although
  events.go:247 says the event goes "as soon as its actual room finishes".
  `EventGoneUncrashed` is about lives without a crash.
* client.go:262: start and end of a session zero `VoiceStartedAt` with the
  recording still open (hub.go:491 says it is "always set"); the recording is
  then discarded, or, with a chosen voice track, the library's file takes its
  place.
* access.go:125: a creator who dials after its ticket expired creates its room
  without the password ("Only people with the password can enter",
  translations.ts:30). `ReservationHolds` protects live tickets.
* ratelimit.go:67: the sweep after ten idle minutes refills the upload limiter,
  which needs an hour. The run and the theorems have a sweep age of a full
  refill or more.
* App.tsx:678: a ticket that arrives late moves the page from the room entered
  meanwhile to the room of the ticket, without a leave; `moved` excludes it
  from `ShownRoomIsActive`.
* GlobalChat.tsx:33: the page's own message moves the cursor past messages the
  poll has not fetched; they stay missing until the feed is opened again.
  `GapsBorderOwn` says that only there, or where rows were committed out of
  order, a message is missing.
* ProfileCard.tsx:153: the answer of a like or an ignore is shown on the card
  of the member selected meanwhile (`overtaken`).
* MeditationRoom.tsx:425: a capture that ends after the next one was asked for
  is held by no ref (`overtaken` of `RoomVoice`).
* MeditationRoom.tsx:293: a test whose capture is answered after its dialog was
  closed puts the stream into its ref and captures, with nothing on screen,
  until the next test or start, stop or unmount. `MicIsReleased` counts it as
  held.
* MeditationRoom.tsx:524: when `recorder.start` throws, `voice_start` has gone
  out and no `voice_stop` follows: the server's recording stays open until the
  session or the host's connection ends (`RecorderFails`).
* MeditationRoom.tsx:618, 652: after an `addSourceBuffer` that threw, every
  chunk is queued for good, and after an `appendBuffer` that threw, the queue
  waits for an `updateend` that does not come, until the effect runs again.
  `QueueDrains` excludes both by name (the stage "failed", `broken`).
* MeditationRoom.tsx:912-915, 931: the cleanup of a playing effect only removes
  listeners and pauses nothing, so the looping element of a room that is left
  during a session plays on, in the lobby and in the next room. `RoomPlayer`
  follows the element of the mounted room only, and `MusicIsInStep` and
  `MuteIsHeld` speak of that one.
* MeditationRoom.tsx:897: an element whose stream broke is not reloaded for a
  next session with the same track (`Broken`).
* App.tsx:724: a change of attendance is counted on a list that may count it
  already, and so shown twice until the next poll.

## 7. Not modelled, and next

Left out for good: formats, wording, logging, HTTP plumbing, audio processing,
rendering, translations, deployment scripts, and the failure of single
database writes, which the code logs and ignores. Contents of messages are data
no property depends on. The admin panels and the About page are forms and text.

Left for later, most important first:

1. `RoomDurability`: rows of rooms and memberships over several incarnations
   of an id, with the deletion after the locks, a late `PersistRoom`, crash and
   restore. Property: who is in a room gets back in after a restart
   (persistence.go:26-27); no room comes back that everybody has left.
   Composes `RoomAccess` with the rows.
2. `Events`: prune and prepare on the server, with the hub and its clock; an
   event is pruned only if its host was not there, no room is prepared for a
   deleted event. Attendance, creation and deletion are in `Lobby`.
3. `BotScheduler`: ticks, jitter, `activeSessions`, 24-hour marks; the number
   of bot rooms, a bot hosts once a day and is in one place.
4. `Accounts` with names that differ in case, guests and sessions; `Recordings`
   (files and tracks); `LegacyImport` (commit, then rename).
5. The composition of `RoomConnection` with `RoomHub`, and an abstract lobby
   that `GlobalChat` implements.
