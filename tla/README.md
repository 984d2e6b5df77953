# TLA+ model of terminal-social

`tsocial` is a chat server that people use over SSH: one process, one SQLite
database, one Bubble Tea program per connection, and an in-memory hub that
carries events between the programs. This directory holds a model of it in
TLA+, the TLC runs that check the model on small instances, and theorems about
it that TLAPS checks for every value of the constants.

    tlc -config Hub_safety.cfg MCHub        # any run: see "Runs"
    tlapm RoomsProofs.tla                   # any module named *Proofs

Line references are to the sources the model was made from, `hub.go` for
`src/internal/hub/hub.go` and so on.

## 1. Inventory

### Components

| Component (source) | State | Operations | Model |
|---|---|---|---|
| Event hub (`internal/hub/hub.go`) | room subscriptions, sessions per user, session count per user, one channel per session, all under one mutex | Subscribe, Unsubscribe, JoinRoom, LeaveRoom, RemoveUserFromRoom, PublishRoom, PublishUser, IsOnline, OnlineUserIDs | `Hub`, complete |
| Client presence map (`internal/tui/app.go`) | `AppModel.online` | load in Init, presence events, replaced on every tick | `Presence`, complete |
| Room commands (`internal/tui/commands.go`) | none of their own | /join /leave /invite /kick /ban, sending | `Rooms` |
| Room directory (`commands.go`, `register.go`, `store.go`) | table `rooms`, the sessions' lists with their topics | /create and its daily limit, /topic, the default room, delete-room, make-admin | `Directory` |
| Store: rooms, members, bans (`internal/store/store.go`) | tables `rooms`, `room_members`, `room_bans` | JoinRoom, LeaveRoom, KickFromRoom, BanFromRoom, IsMember, ListUserRooms, CreateRoom, SetTopic, DeleteRoom, CountRoomCreates | `Rooms`, `Directory` |
| TUI session (`internal/tui/app.go`) | room and peer lists, open view, message lists, unread counts, presence | Init, one handler per key, tick or event | `Rooms`, `Directory`, `Presence`, `Feed`, `Messages`, `Lifecycle`, each its share |
| Room messages (`app.go`, `commands.go`, `store.go`) | `messages`, `notifications`, the lists and counts on the screens | sendCurrent, InsertRoomMessage, RoomHistory, SearchRoom, MarkRoomRead, /delete | `Feed` |
| Direct messages and blocks (the same files) | `messages` with a DM key, `notifications`, `blocks`, peer lists, threads and counts on the screens | InsertDM, DMHistory, DMPeers, UnreadCounts, MarkDMRead, /msg, /block, /unblock, /delete | `Messages` |
| Retention, reports | soft-deleted rows, row ids; `reports` | PurgeDeletedOlderThan; /report | `Messages`; reports are not modelled |
| Session lifecycle (`internal/ssh/server.go`, `tui/register.go`) | `Server.sessions`, the program's screen, cleanup flags, disconnect watchers | teaHandler, cleanup, quit, disconnectMsg | `Lifecycle` |
| Accounts and keys (`register.go`, `store.go`) | `users`, `user_keys`, `is_suspended`, `is_admin` | CreateUser, /addkey, suspend, unsuspend, make-admin; /profile | `Lifecycle`, `Directory`; not /profile |
| Rate limiters (`internal/rate/rate.go`) | token bucket per key | Limiter.Allow with its sweep, Bucket.Allow | `RateLimit`, complete; `Budget` abstractly |
| Text sanitizer (`internal/domain/types.go`) | none (pure) | SanitizeUserText and its three skip functions; cuts in bytes | `Sanitizer`, `Terminal` abstractly; `Text` for its callers |
| Mentions (`store.go`, `app.go`) | none (pure) | ParseMentions, highlightMentions | `Mentions`, `Text` |
| Rendering (`app.go` views, `styles.go`) | none | View | not modelled: it changes nothing |
| SQLite schema (`migrations/*.sql`) | constraints | - | external; constraints appear where a component leans on them |
| Entry points (`cmd/tsocial`, `cmd/tsocial-admin`) | - | serve, stop and start; suspend, unsuspend, make-admin, delete-room, prune-deleted | as actions of `Lifecycle`, `Directory`, `Messages` |
| Configuration and key parsing | none | pure conversions | not modelled |

### How they interact

- **Session to store.** A handler runs SQL statements one after another. Some
  store methods are one transaction (CreateUser, CreateRoom, BanFromRoom, the
  insert of a message), others are several independent statements (JoinRoom,
  the checks of InsertRoomMessage and InsertDM). Handlers of other sessions, and
  the admin tool in a process of its own, run in between.
- **Session to hub.** Direct calls. Each takes the mutex once, copies the
  subscriptions it has to notify, releases the mutex, then sends one by one
  without blocking.
- **Hub to session.** Each session has a channel of 64 events. `listenHub`
  receives one event, returns it as a Bubble Tea message, and is started again
  when that has been handled. A full channel drops the event.
- **Within a session.** Bubble Tea handles one message at a time, so a session's
  own state is never touched by two handlers. Everything else is shared.
- **SSH to session.** A lost connection closes the session's Done channel. A
  goroutine started by each screen's Init turns that into `disconnectMsg`.

### What is hard here

A handler reads and writes the store several times and the hub several times,
and nothing locks across two of these. So:

1. the three places that keep room membership (tables, hub, each client's
   list) can come apart, for a while or for good;
2. events carry copies, arrive late, are dropped when a channel is full, and
   overlap with what a client reads from the store;
3. a subscription's channel is closed while others hold a snapshot with it;
4. sessions end in several ways at once (key, command, lost connection seen by
   up to two watchers, the SSH library), and each must give back one place in
   the session count and one subscription;
5. accounts, keys and rooms are created, limits enforced and blocks respected by
   check-then-insert;
6. the process may stop between an insert and the event that tells of it;
7. row ids, bucket pointers and byte positions are remembered and used later,
   when what they stood for may have changed.

What makes each component correct, and the hazard list behind it, is in
`PROJECT.json` under "hazards", each at its line, with the properties that
cover it or the reason none does yet.

## 2. Modules

| Module | Models | Atomic step |
|---|---|---|
| `Registry` | abstract presence: who is online, given who is connected | connect, disconnect |
| `Hub` | every method of the hub | one lock section, the close of a channel, one send, one receive |
| `Presence` (extends `Hub`) | the clients' online maps on top of the hub | a hub step, or one handler |
| `Rooms` | membership in tables, hub and clients; the membership commands | one SQL statement or transaction, one lock section, one send, with the session's own updates |
| `Directory` | rooms as such: creation, names, topics, deletion, and the lists of the sessions | the same |
| `Feed` | messages of one room: store, events, lists, unread counts, notifications | the same |
| `Messages` | direct messages: store, blocks, events, threads, counts, deletion and retention | the same |
| `Lifecycle` | admission, registration, keys, the end of a session, the admin tool | one counter operation, SQL statement or handled message |
| `Budget` | abstract rate limit: one credit per key | ask, answer, a tick of the clock |
| `RateLimit` | the limiter and its buckets | one lock section, a tick |
| `Runes` | the classes of runes that the text functions tell apart | - |
| `Terminal` | abstract reader of control sequences, rune by rune | a rune read |
| `Sanitizer` | `SanitizeUserText` and the functions it skips sequences with | one turn of a loop |
| `Mentions` | `ParseMentions` | one match |
| `Text` (extends `Sanitizer`, `Mentions`) | a message from the composer to the screen, a topic to the table; cuts, highlighting | one call, or a step of a loop it runs |
| `MCHub`, `MCPresence`, `MCRooms`, `MCDirectory`, `MCFeed`, `MCMessages`, `MCLifecycle`, `MCRateLimit`, `MCText` | instances for TLC | |
| `HubProofs` (with `Presence`), `RoomsProofs`, `DirectoryProofs`, `FeedProofs`, `MessagesProofs`, `LifecycleProofs`, `RateLimitProofs`, `TextProofs` (`Sanitizer`, `Mentions`) | theorems | |

`Hub` implements `Registry`, `RateLimit` implements `Budget` and `Sanitizer`
implements `Terminal`, by refinement; `Presence` composes with `Hub` by extension. `Rooms`, `Directory`, `Feed` and
`Messages` keep the part of the hub they need (subscriptions and channels) instead
of extending `Hub`: the rest of it, the session counts and the presence events,
changes nothing there, and would multiply the states. The shared part is written
the same way in all of them: a snapshot under the lock, then one send at a time,
dropped when full. That a send to a session that has just ended panics is shown
in `Hub` and `Rooms`; elsewhere such a send does nothing, so that what follows is
about the code's behaviour when it goes on.

Definitions named `X_Variant`, such as `OverLimit_OffByOne`, stand before `X`
and are used by nothing. Each is a plausible mistake, and the property listed
with it under "mutants" in `PROJECT.json` fails when it takes the place of `X`.

### Hub

State: `rooms`, `users`, `presenceCnt` are the three maps of `Hub`; an absent
key is `{}` or 0. `ch`, `chan` are the contents and the state of `Sub.Ch`. A session
and its `Sub` are one element, as `Subscribe` allocates the one for the other.
`phase`, `ev`, `to` are where a call is, what it sends and whom it has yet to
send to. An event's payload is who made it and its number among those that
session made, which is what order and repetition can be stated with.

`Subscribe`, `Unsubscribe` end their lock section before the presence broadcast
takes the lock again (`SnapshotPresence`); `CloseChannel` comes in between.
`SendPanics` is a send on a closed channel, which panics in Go even in a
`select` with a default. What the SSH and TUI libraries make of the panic is
outside this repository, so a session that panics takes no further step.

### Presence

`LoadOnline` is the end of Init (it adds to the map), `HandleEvent` a presence
event, `Tick` the replacement every two seconds. In between `Subscribe` and
`LoadOnline` a session can only join rooms, as in Init.

### Rooms

`pc` is where a session's handler is, `arg` what it works on. /join is
`Join` (the private-room check) → `JoinBanCheck` → `JoinInsert` → `JoinRefresh`
→ `JoinSubscribe` → `JoinPublish` → sends → `JoinOpen`; the others likewise.
`HandleRemoved` and `RemovedRefresh` are the `room_removed` case. Sorting by
name is abstracted: "the first room" is any listed room. History variables
(`kicked`, `late`, `invited`, `joined`, `fit`, `posted`) are read by properties
only, never by a guard. /leave, /kick and /ban ignore the store's error
(commands.go:64, 158-162): `Leave` and `KickStore` may leave the tables as they
are, and the handler goes on to the hub all the same. `joined` are the sessions
that subscribed by /join while no word of a removal was under way, and have
neither left nor been removed since.

### Directory

A room is its name: the column is unique over deleted rooms too, so a name is
never given out twice. `row` is the table `rooms` (creator, time, topic, deleted or
not), `since` the time a handler read before its insert, `list` what a session's
last ListUserRooms returned. /create is `Create` (the count) → `LookForName` →
`InsertRoom` → `RefreshRooms` → `Subscribe` → `OpenRoom`, and /join shares the
end. Events without effect on the lists are counted in `others`, because they fill
the channel. `Restart` takes away every session and keeps the tables. History
variables: `dead` are the rooms deleted before a session connected, `missed` the
rooms of which an event passed it by.

### Messages

`rows` is the table of direct messages by row id; `nr` numbers the messages, so that
two that had the same id in turn can be told apart (`IsNext` is SQLite's choice of
id). Sending is `Send` (sendCurrent's check) → `CheckAgain` (InsertDM's) →
`InsertDM` → `Publish` to the peer → `Echo` to the author's own sessions. `Purge`
deletes any set of soft-deleted rows, as the age is the administrator's to choose.
`Block` notes in `raced` who had passed both checks; `gap` and `dropped` are the
events a session missed between Init's reads and its subscription, and for a full
channel.

### RateLimit

Time is in ticks and a token is `Per` units, so that a tick refills `Cap` of them and
fractions stay exact; floating point is not modelled. `Look` is what Limiter.Allow
does under its lock, with a clock read up to `MaxLag` ticks before; `Take` is
Bucket.Allow. `table` maps keys to buckets, and a bucket no caller and no key refers
to may be allocated again. The window in `elapsed`, `count`, `strays` starts
anywhere and watches one key; `strays` are calls answered by a bucket that a sweep
had taken out of the table after they found it.

### Text

A rune is one of the classes in `Runes`: the runes the loops compare with, letters and
handles in both cases, letters of one to three bytes, some whose lower case has another
length. `Sanitizer` is the code's loops: `pc` is the loop that looks at the rune at
`i` next, and `GoTo` the return of a place and the `i++` that follows it. `Terminal`
knows of no loops and no jumps; it reads one rune after another in a `mode`, and the
mapping `Mode` says which one a loop is in. `Mentions` goes on from `at` to the next
match of the regular expression.

In `Text`, `stage` is how far a message has come: `Compose` (the composer's
`SanitizeUserText`), `sendCurrent` (the cut, then `ParseMentions`), `InsertRoomMessage`
(cleaned again), `Store` (cut again), `View`; `Load` is a body stored before, `SetTopic`
is /topic, which cuts first. Each call starts a loop whose steps (`Clean`, `Match`) come
in between. Bytes are pairs of a rune and a position, so `Decode` finds the
runes a cut has split. A text that starts a command, and InsertDM, which cleans and cuts
alike and parses no mentions, are left out. `clean` is a history variable.

### Lifecycle

`Admit`, `TurnAway`, `Welcome` are `teaHandler`; `ChooseHandle` … `InitApp` is
the one long handler that registers a user and starts the app;
`Close`/`Quit`/`Disconnected`/`End` are the end of a session. `tea.Quit` is a
command whose message arrives later, so `quitting` programs still handle keys.
`MiddlewareQuits` says whether the SSH middleware ends the program of a lost
connection without waiting for `disconnectMsg`. That library is not part of the
repository: the run takes the more permissive value, and the theorems hold for both.

### Feed

One room whose members stay members. `author`, `deleted`, `notes` are the
store (a message is its row id; `notes` are unread notifications), `users`,
`inRoom`, `inbox` the hub. `at`, `event`, `to`, `notified` are a send or
deletion on its way: `Publish` takes the snapshot and reads the message,
`Deliver` is one send, `NotifyUser` the `PublishUser` per mentioned member.
`list`, `searching`, `unread`, `view` are the screen. `OpenRoom` reads the
history and `MarkRead`, later, marks the room as read. History variables:
`missed` and `unmarked` are the messages whose event a full channel dropped
since the last reload and since the last mark, `raised` is what has raised a
session's unread count, by which message and whether Init or an event did it, and
`settled` the part of it that has been marked as read since.

## 3. Runs

Ten runs pass and two show a disagreement. State counts are distinct states.

| Run | Instance | States | Shows |
|---|---|---|---|
| `hub_safety` | 3 sessions, 2 of one user; 1 room; channels of 2; 1 publication besides presence | 1.0 M | the three maps agree (`HubIndexConsistent`); events meant for one user reach only that user (`AddressedToUser`); one publisher's events arrive in order and once (`FifoPerPublisher`); the hub implements `Registry` (`RegistrySpec`) |
| `presence` | the same sessions; channels of 1 that nobody has to read; liveness | 190 k | every hub call ends (`CallsReturn`); once people stop coming and going every client shows exactly the users online (`PresenceConverges`) |
| `rooms_safety` | owner with 1 session, another user with 2; 1 private room; 2 commands | 2.0 M | who may post (`SendByUnbannedMember`), who may be in a private room (`PrivateByInvitation`), whom a kick reaches (`KickReachesSubscribed`), who keeps a subscription (`JoinedStaysSubscribed`), ownership (`OwnershipNeverPassed`) |
| `rooms_removal` | 2 sessions, the second user an admin; 2 commands; liveness | 92 k | a session told of its removal leaves the view of the room, unless its user is a member again (`RemovalReachesView`) |
| `directory` | 3 sessions of 2 users, 2 at a time; 3 names; limit 1 a day, 2 days; channels of 1; 3 commands | 2.0 M | how far the daily limit may be passed (`CreationBound`), one creator per name (`CreatorOpens`), what a deletion is for later sessions (`DeletedRoomsFade`), that topics get through (`TopicKnown`) |
| `feed` | 2 sessions; 1 old message; history of 2, channels of 2; 2 commands | 690 k | no message falls between history and events (`NothingVanishes`), order (`FirstShownInOrder`), read marks (`ReadWhenShown`), unread counts (`BumpedOnce`), tombstones (`TombstoneShown`) |
| `messages` | 1 and 2 sessions of two users; 2 messages between two sessions, or 1 among three; channels of 1; 3 commands | 1.5 M | blocks (`BlockRespected`), notifications over id reuse (`NotificationsFit`), threads (`ThreadComplete`), counts (`UnreadCounted`), what makes a message read (`ReadByOpening`) |
| `lifecycle` | 3 connections, 2 of one key; limit 2; every table of 2 keys and 2 accounts | 3.7 M | the counter is exact (`CounterExact`), the limit is kept (`WithinCapacity`), a session acts for its key's account (`SessionOwnsKey`), place and subscription go together (`GivenBackTogether`), a loss is noticed (`LossIsNoticed`) |
| `rate_limit` | 3 callers, 2 of one key; burst 1, refill in 2 ticks; clock lag up to 1; liveness | 800 k | windows (`WindowBound`), the abstract limiter (`BudgetSpec`), nobody who keeps asking is refused for ever (`KeepsAdmitting`) |
| `text` | all messages of up to 5 or 6 runes over two alphabets, topics of 5, stored bodies of 6 | 2.9 M | the sanitizer's loops implement the terminal (`SanitizedAsRead`), cuts (`CutsFit`), mentions (`MentionsFound`), who is notified is who is highlighted (`NotifiedAreShown`), what highlighting does (`HighlightKeepsText`, `OwnMentionStandsOut`) |
| `hub_panic` | as `hub_safety`, channels of 1 | violation | finding 1 |
| `banned_member` | 2 sessions, 1 public room, 3 commands | violation | finding 2 |

All of them set `CHECK_DEADLOCK FALSE`: with every session gone and the bounds
used up the system really stops. The type invariants are proved and not run: a theorem says it for
every instance. (`Text` adds a few variables to those of `Sanitizer` and `Mentions`,
and none of its properties is about their types.)

### Properties worth a second look

- `PresenceConverges` does not assume that channels are read. Presence events of
  one user overtake each other, reach only sessions that are in a room, and are
  dropped; the property holds because the tick replaces the map, and fails when
  it merges instead.
- `SendByUnbannedMember`: the two checks of `InsertRoomMessage` are separate
  reads. That they still amount to one instant at which the author was a member
  and not banned rests on bans never being lifted, by any command or query.
- `KickReachesSubscribed` says precisely what a kick misses: sessions whose own
  handler was between the membership and `Hub.JoinRoom` when the kick's lock
  section ran, and no others.
- `JoinedStaysSubscribed` is the other side: no kick, leave or event of somebody
  else, and no stale `room_removed`, takes a subscription away, as long as no word
  of an earlier removal was under way when /join subscribed.
- `CreationBound`: the limit counts before it inserts. The property gives the exact
  excess, one room for each further session of the user, whatever restarts,
  reconnections and deletions do in between, and for every window of a day.
- `WindowBound` is stated for windows that start anywhere, and `BudgetSpec` says
  more: caller by caller, the answers are those of one credit per key. The
  sweep may only ever take a bucket that is full again, which is what its idle time of
  twice the period is for, and the proof's main point.
- `ThreadComplete` is about both parties' sessions: an author's other sessions
  learn of a message by the second publication, while the first is still being sent.
- `SanitizedAsRead` compares loops that jump with a machine that reads: unfinished
  sequences, an escape inside a sequence, and one that ends a string in two runes.
- `NotifiedAreShown` relates two parses of two texts. The handles to notify are taken
  from the cut body; the table keeps it cleaned and cut a second time, and the screen
  parses that. Parsing before the first cut would notify of a mention nobody can see.
- `GhostsWereMissed`, which is a theorem and not in a run, says what presence events do
  between two ticks. A client comes to show someone who has left only by missing the
  announcement. There is no such property for someone who is there and not
  shown: the late "offline" of an earlier session takes them off the map until the tick.
- `FirstShownInOrder` is about the last `HistoryLimit` messages. An older one
  may come up late: its event was queued before a reload that left it out.
- `NothingVanishes` holds because `JoinRoom` precedes the first `openRoom`, and
  a dropped event is the only exception (`missed`), made up for by the next
  reload, as the comment at hub.go:193 has it.
- `BumpedOnce` is stated message by message, over the whole life of a session: three
  places raise the count, from the store or from two events that come separately.
- `RemovalReachesView` does not let a stale room list count: from a kick until the
  event is handled the list may still have the room.
- `CounterExact`, with `released` guarding the decrement, also says that the
  register and app screens share one cleanup and not two.

### Findings

1. **Send on a closed channel** (`hub_panic`, hub.go:191). Publications hold
   their snapshot after the lock is released; `Unsubscribe` closes the channel.
   hub.go:193 promises that a send is at worst dropped.
2. **Banned and a member** (`banned_member`, store.go:290). `Store.JoinRoom`
   counts bans and inserts in two statements. A ban that commits in between
   removes no row, and the insert then adds one, against store.go:292.

### Exceptions the properties name

A property that holds with an exception names it, and each of these is a behaviour of
the code that the model reaches:

- A session whose Init or /join has the membership in hand subscribes after a kick
  and stays subscribed (`KickReachesSubscribed`, commands.go:163), while
  README.md:131 of the repository says "immediately".
- A `room_removed` event handled after its user is back in the room takes the new
  subscription away (`JoinedStaysSubscribed`, app.go:688).
- Quit on the register screen and the enter key after it, before the program ends,
  register the user and subscribe the app after its cleanup (`GivenBackTogether`,
  `late` in `Lifecycle`, register.go:69); the account stays online until a restart.
- A `room_msg` event overtaken by the deletion of its message appends the
  undeleted copy (`TombstoneShown`, `stale` in `Feed`, app.go:628).
- A session that passed both checks stores its message after the block
  (`BlockRespected`, store.go:457).
- Init counts a notification whose `notify` event its author has still to publish; the
  session subscribes in time for the event and counts the message again (`BumpedOnce`,
  `early` in `Feed`, app.go:159, 604-606, 677-681).
- A direct message published between Init's reads and its subscription is neither
  counted nor delivered (`UnreadCounted`, `gap` in `Messages`, app.go:156-162).
- "5/day" (SPEC.md:84) may be passed by one room for each further session of the
  user (`CreationBound`). An error of the counting query counts as zero
  (commands.go:88), which the model leaves out. A deleted room keeps its name for good.
- A call overtaken by a sweep is answered by a bucket of its own (`WindowBound`,
  `Pardon` in `Budget`). "N messages per 10 s" (SPEC.md:94) is burst plus refill in
  any window, and a user who has just registered is limited by a key of its own,
  the fingerprint, besides that of the user id (server.go:138-141).
- Letters whose lower case has another length in UTF-8 make highlighting misplace
  its marks, or index past the end (`HighlightKeepsText`, app.go:356-364). A handle
  that begins another breaks up its highlighting (`OwnMentionStandsOut`).
- Bodies and topics are cut in bytes, so the last rune may be split, and a topic,
  cut before it is cleaned, may come out longer than its limit by the replacement
  characters (`CutsFit`; SPEC.md:87 and 92 speak of characters and bytes).

### Bounds, and why they are enough

- **Sessions and users.** Two sessions of one user and one of another tell a
  user's first and last session from the rest, own sessions from others in a
  room, and a publisher from two kinds of receivers. The hub handles the rooms
  independently, so one suffices; what depends on having none or another one
  (the view after a removal) is covered by the room list becoming empty and,
  in `Feed`, by the view being elsewhere. The theorems hold for any numbers.
- **One life per session or connection.** A user who reconnects is another
  session of the same user, as in the code, where every connection has a `Sub`
  and a program of its own.
- **ChCap, InboxCap** (64 in the code) are 1 or 2: full channels and drops are
  reached with few events. **HistoryLimit** (200) is 2, and `OldMessages` puts
  one message in the room, so that a history leaves messages out.
- **MaxPublished**, **MaxCommands**, **MaxSends** bound the calls in a behaviour.
  Every race in the findings and exceptions takes two or three commands, and the hub's own broadcasts come
  on top of `MaxPublished`. A third command in
  `feed` leaves TLC growing past 19 M states after five minutes, against 690 k
  states with two. `rooms_removal` has one room; with two it has 1.3 M states and
  passes as well, in four minutes.
- **MaxSessions** is 2 for 3 connections: the limit is met and passed.
- **Limit** (5) and **Day** are 1, with **MaxNow** 1: two sessions of one user pass
  the limit together, and a second day begins. Besides the default room there are
  two names: the two sessions can create one each, which is the excess
  `CreationBound` allows and the most it allows, and one can be deleted and taken
  while the other is created.
- **Cap**, **Per**, **MaxLag**, **MaxWindow**: a burst of 1 that refills in 2 ticks has
  a half token; a bucket is swept after more than 4; windows of up to 1 tick start
  in every state. `IdleCap` is past the longest time that makes a difference.
- **Inputs** in `MCText` gives each call its alphabets and lengths: control runes (an
  unfinished sequence of every form fits in 5), runes to cut, and mention runes.
  **MinHandle** to **MaxHandle** are 1 to 2 letters instead of 3 to 20, **MaxBody** and
  **MaxTopic** 5 bytes: a rune of three bytes
  is cut in every place.
- **Symmetry** is used in the safety-only runs where sessions of one user
  (`hub_safety`) or connections of one key and handles (`lifecycle`) are
  interchangeable, and likewise in `directory`, where the two free names are too. No run with liveness uses it.

### Fairness, and why the code justifies it

- `Rooms!FairSpec`: weak fairness of `Step(s)` and `Handle(s)` for each session.
  A handler that has begun is a running goroutine that waits for nobody, and
  `listenHub` hands an idle program its next event. No command, connection or
  disconnection is ever forced.
- `Presence!PFairSpec`: weak fairness of a running call, of the end of Init and
  of the tick, whose timer `tickCmd` sets again each time. Nothing is said of
  reading the channel.
- `RateLimit!Spec`: weak fairness of the clock, and of `Take` for a caller that holds
  a bucket, a goroutine that waits for a mutex nobody keeps. Nobody has to ask.
- `Lifecycle` claims no liveness: that a lost connection is eventually cleaned
  up depends on the SSH and TUI libraries, which are not in the repository.

## 4. Proofs

Each theorem is for every value of the constants that the module's assumption
allows (`HubAssumption`, `RoomsAssumption` and so on), which type the constants,
make channels hold at least one event, and, for counting, make the sets of sessions
and connections finite. Each module that has theorems proves its type invariant first.

**HubProofs.** `TypeInv` is `TypeOK` and `EventInHand`: a session that
announces or sends has made an event, without which a send could append a
non-event. `IndexInv` adds `HubIndexConsistent` and what each phase says of its
session: registered while idle, not any more while closing, and while
announcing or sending registered exactly if its channel is open (`SessionPhases`).
`HubIndexConsistent` alone is not inductive: `Subscribe` adds one
to the count, and that is right only if the session was not registered before.
From `IndexInv`: `IndexConsistent`, and, step by step, `HubImplementsRegistry`,
where the point is that a user's count reaches zero exactly when their last
session leaves. `AddressedOnly` follows queued events from their snapshot.
`FifoDelivery` needs `OrderInv`: everything queued was made before its maker's
next event, and is older than the event still being sent to that channel.
Two theorems bound finding 1. `SnapshotsAreOpen`: a publication collects open
channels only, so a panic takes a whole `Unsubscribe` between the snapshot and the send.
`OwnSendsReturn`: the closed channel is never the publisher's own.
Then the clients. `PresenceImplementsHub`: each step of the composition is a step
of the hub or leaves it alone, so every theorem about the hub carries over;
`PresenceIndexConsistent` is one taken over. `PresenceTypeCorrect` needs that the
hub's online users are users. `ArrivalsAnnounced`: who is announced as online is online
until the announcement is made, because its session is still registered
(`ArrivalInv`: its channel is open). So an event that is old news is always a
departure, and `GhostsMissed` follows: a `Ghost` is a user who is not online, whom a
client will show when it has handled its queue, and of whose departure nobody is about to
tell it. A departure is in the hands of a call from the lock section on that brings the
count to zero (`GhostRegister`), stays so until it is queued (`GhostCallStep`,
`GhostSend`), and is then the last word on the user (`ShownAfterSend`) until it is
handled (`ShownAfterHandling`). TLC confirms both properties on the instance of
`presence`.

**RoomsProofs.** The type invariant is split into control (`pc`, `arg`, `to`:
a handler that indexes by a room holds one) and data. Then `QuietOrLoud`: each
step either leaves the tables, subscriptions and history alone, or is one of a few
that change them, so that each later proof looks at those only.
`OwnershipKept` from the insert's effect on a row; `MessagesFromWelcomeMembers`
from what `fit` says at each label of a send; `PrivateRoomsByInvitation` from the
membership being checked against `invited` at every label of /join;
`KickReachesEverySubscription` from three parts: a removed user is not a member,
/join works for the user who runs it, and a subscription of a removed user has a
kick pending or is `late`.
`JoinedKeepSubscription` from `JoinedInv`: a joined session is subscribed and no
removal of it is coming, neither as an event in its channel nor in the hands of a kick.
`BansHold` says what is left of the promise that finding 2 refutes: who is banned and
out, with no insert half-way in, stays out for good. It follows from three facts of
every step (`BanStep`): bans stay, a handler comes to an insert only past the ban check,
and only inserts make rows.

**DirectoryProofs.** `CreatorsOpen` from rows being written once. `DeletedFade` from
lists, subscriptions and the room a handler works on all being clear of `dead`:
the three feed each other, so none is inductive alone. `TopicsKnown` follows an event
from the update through the snapshot and the sends. `CreationsBounded` counts, for
each moment, the rooms of a day and the sessions that have passed the check and not
inserted yet; each session may bring at most one
room past the limit, and its insert moves it from the second count to the first.

**FeedProofs.** `FInv` is `TypeOK` and five parts: the ids suffice for the commands
still to come, a session past subscribing and joining is in `users` and `inRoom`,
nothing is shown before the first room opens, only a sender has sessions left to
reach, and the kind of an event fits its id. `PendingKept` says of each step that an event on
its way stays so, is dropped and remembered, or is handled; `NoneVanishes`,
`ReadOnceShown` and `TombstonesShown` each follow from it and their own case.
`FirstShownOrdered` and `BumpedOnceOnly` need to know what the events say (`Telling`,
`Written`): a session publishes messages of its own, and notifies those its message
mentions, each once. `FirstShownOrdered` then rests on two more invariants. `Queued`: a
channel holds the messages of one session in order, and the one still to come is newer.
`ComesShown`: if one of the last messages is still to come and a later one of its author
is on the screen, it is on the screen before that one already, from a history; this
stops a late event from being a first showing. `BumpedOnceOnly` is about a
history, so it needs to say what is still to come: by `RaisedOnce` a message can
raise a session's count by one event that is on its way, not by two, and by `Recorded` a
message that has raised it is not awaited any more, unless Init counted it early, and
then only its `notify` event is left. At Init this needs `Noted` (a notification
belongs to a message that mentions its user, so the `room_msg` event will not count it
too) and `Outside` (nothing is queued for a session the hub does not know). `OnceEach`
and `Tallied`, the two halves of the property, follow: each event that raises the
count adds a record that was not there.
`SettledScreensCurrent` draws the properties together: a screen with nothing
on its way, dropped or crossed shows the last messages, exactly the deleted ones as
deleted (`TrulyGone`), and leaves none unread.

**MessagesProofs.** `BlocksHold` from what each stage of a send knows of the block
list; `NotificationsStayFit` from ids being given out only beyond the stored ones and
from the cascade, without which a reused id would inherit a notification.
The next three rest on `MInv`: `Placed` (the hub knows exactly the connected sessions, and
a publication goes to sessions it knew) and `OneOfANumber` (a number belongs to
one message, so an event is never taken for one of another message that got its row id).
`ThreadsComplete` follows a message from its row through both publications, step by
step. `UnreadStaysCounted` needs `AllCounted`, which says the same of
sessions that have read the counts and not subscribed yet, and of the thread on the
screen unless it is just being marked: otherwise a message could lose its place when the
session looks away. `ReadOnlyByOpening` follows from `ThreadsComplete` at the one step that
marks, and `NotificationsStayFit` says whose thread it is.

**RateLimitProofs.** `Links`: no two keys share a bucket, and a bucket a caller holds
is, while in the table, its key's. `WindowBounded` from `Paid`: what the window has
admitted and what the watched key could be granted now never exceed, together, the
burst and the refill of the elapsed time; a sweep keeps it because a bucket idle for
two periods is full. `ImplementsBudget` maps a key to what
its bucket would hold if asked now, or a full credit when it has none.

**LifecycleProofs.** `TableInv`: data types, at most one watcher while on a first
screen, a session past registration or lookup has an account, and it is its key's.
It gives `AccountOfKey` and `KeysNeverPass`. `CounterInv` then adds that nobody
has released a place they do not hold, that the counter is the cardinality of
those who hold one, and the limit. It gives `CountedOnce`, `LimitKept` and, with
the counter being a cardinality, `TypeCorrect`: the counter is never negative.
`PlaceAndSubscription` and `LossesNoticed` follow the watchers and the cleanup over
the change of screen.

**TextProofs.** These theorems are about texts of any length. `TextIsReadAlike` is the
refinement of `Terminal`: `SanitizerInv` says which rune stands before `i` in each loop
that skips, which is what `Mode` is read from, and each loop's step then is a rune
read (`GoToReads`, `SkipEscapeReads`, `SkipStringReads`). `CleanedOnceForAll`: what is
returned is clean, and a clean text is returned as it is; its invariant `CopiedSoFar` says
that such a text never leaves the main loop, which has copied it up to `i`.
`AllMentionsFound`: up to `at`, found are exactly the handles mentioned (`FoundSoFar`);
the point is that no mention begins inside a match, since a handle has no @
(`NoneInside`). The theorems are about `SanitizerSpec` and `MentionsSpec`, which start
with any text any number of times; `Text` makes their calls and steps and no others, but
cannot be named in a theorem itself, because `Decode` is recursive.

**Only model-checked:** the liveness properties (`CallsReturn`,
`PresenceConverges`, `RemovalReachesView`, `KeepsAdmitting`), which the prover cannot
reach, and of `Text` the properties about bytes (`CutsFit`, `NotifiedAreShown`,
`HighlightKeepsText`, `OwnMentionStandsOut`), whose conversions are recursive and which
would need induction over the text. Every other property of the passing runs is a theorem.
`KeysStay`, `BansKeepOut`, `SnapshotsOpen`, `OwnChannelOpen`, `SettledIsCurrent`,
`CleanedOnce`, `ArrivalsAreTrue`, `GhostsWereMissed` and the type invariants are only
proved. The two disagreements are counterexamples and need no
proof; `BansHold` and `SnapshotsAreOpen` say how far they go.

## 5. Not modelled

- Reports: rows that nothing in the program reads. A report keeps the id of its
  message, which may be given out again after a purge. /delete checks and updates by
  id in several statements, one step here.
- Errors of SQLite (busy, I/O), except where the code ignores them and goes on
  (/leave, /kick, /ban; /topic, whose update may set the topic there was).
- What a nil `hubSub` does to handlers that run after a cleanup, and what the
  libraries do with a panic: outside the repository, or depending on it.
- A restart in `Feed` and `Rooms`: it ends every session at once, as in `Messages`
  and `Directory`, and the tables there are what a later session starts from.
- Promote and ListPublicRooms (called by tests only), so no room has a moderator but
  by a row put there otherwise; /whois, /profile, /keys, /notifications, stats: they read,
  or write what only rendering reads.
- Mention marks next to a room, the rendering of blocked users, pane focus, scrolling,
  the composer's history, the help screen, argument parsing, configuration, SQL text.
- Floating-point rounding in the token bucket.

## 6. What could come next

1. How long a client of `Presence` may leave out someone who is there, given who connects
   and disconnects between two ticks.
2. Restarts in `Feed`, with what the next history makes up for.
3. /delete in its several statements against a purge and the reuse of the id, and
   reports with it.
