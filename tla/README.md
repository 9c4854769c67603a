# Super Mario Odyssey server: TLA+ specification

This directory specifies the Balloon World server in `src/`: the table of posted
objects, its file, the blob store next to it and the queries over it, and the
parts around them that talk to the account server: login, presence, statistics
and caches. Players hide a balloon (a DataStore object), others search for it,
download it and rate it. The modules are checked with TLC on small instances; the
safety properties that hold are proved with TLAPS for every instance.

## The system

One process runs three servers: Auth (login), Secure (the DataStore protocol)
and an HTTPS object store. Every connection's calls and every HTTP request run
in goroutines of their own; two more flush the table to a file and report who is
online; a fourth server shows the dashboard.

| Component | State | Operations | Talks to |
| --- | --- | --- | --- |
| Object table (`datastore.go`) | `dsRecords` under `dsMu`; `dsNextID` and `dsDirty`, atomics | PreparePostObject, PostMetaBinary with dsDeletePreviousBalloon, CompletePostObject, DeleteObject, RateObject(s), PrepareGetObject | object store (tokens, unlink), flusher (`dsDirty`) |
| Flusher, loader (`datastore.go`) | the file; the flusher's copy | dsFlusher every 5s, dsLoad at start | table |
| Object store (`objectstore.go`) | `tokens` under `tokMu`, one file per dataId | PUT, GET, objectDelete, newObjectToken | table (owner of a download), finds |
| Finds (`datastore.go`) | `balloonFound` under `balloonFoundMu` | markBalloonFound | SearchBalloon, FetchMyInfos |
| Queries (`datastore.go`) | none | SearchBalloon, splitIntoSets, FetchMyInfos, GetPersistenceInfo, SearchObject, GetMeta(s), GetRating | table, finds, name cache |
| Buffer queues (`datastore.go`) | `Buffers` of a record | Add, Get, Clear | table |
| Login (`main.go`, `gates.go`) | `nsaCache` | resolveUser, online check | account server |
| Presence (`presence.go`) | `presSeen`, 60s TTL | report every 30s | account server |
| Dashboard (`dashboard.go`) | counters, 100 events, name cache | statistics, kick | table, connections |
| Profile pictures (`avatar.go`) | 5 minute cache | fetch, scale | account server |
| Settings (`utility.go`) | a constant table | GetIntegerSettings | none |

What is hard in it:

* A handler is several critical sections. PostMetaBinary allocates an id,
  inserts the record, marks the table dirty, deletes the previous balloon, marks
  again and unlinks the old blob; other players' handlers, the flusher and
  downloads run between these steps.
* `dsDirty` is set after the change it announces and cleared before the copy
  that covers it; the write may fail; the file is truncated before it is written.
* Uploads, completions, deletions and downloads of one object come over two
  servers and may be late, repeated or broken off.
* Map iteration is random and `CreatedAt` counts seconds, so that what the
  queries choose among ties differs from scan to scan.
* A restart keeps the file and the blobs, which only the dataId links, and loses
  tokens and finds; ids that did not reach the file are handed out again.
* Every question to the account server is asked without a lock and may be
  answered late or not at all; what comes back is cached, sometimes for good.
* The dashboard's numbers live under three locks and are read one after the other.

`PROJECT.json` lists each hazard at its line with the properties that cover it.

## Modules

| Module | What it models |
| --- | --- |
| `DataStore` | the object table and all handlers that write it |
| `BalloonBoard` | what the hide-it mode promises: one balloon per player and kingdom |
| `DataStoreRefinement` | the table as a `BalloonBoard` (refinement mapping) |
| `Persistence` | `DataStore` with flusher, file, failing writes, restarts |
| `ObjectStore` | `DataStore` with tokens, blobs, HTTP requests and finds |
| `BufferQueues` | `DataStore` with the buffer queues of each object |
| `Server` | `ObjectStore` and `Persistence` over one table, with restarts |
| `BalloonSearch` | the queries over any table |
| `Login` | resolveUser and the gates, with an account server that changes and fails |
| `Presence` | presSeen and the reporting goroutine |
| `Dashboard` | noteRMC and buildStats |
| `LookupCache` | a lookup behind a cache: the name cache and the picture cache |
| `MC*` | instances for TLC; `MCFrontDoor` puts the last four together |
| `*_proofs` | theorems and proofs: one module each for `DataStore` (with its refinement), `Persistence`, `ObjectStore`, `Server`, `BufferQueues` and `BalloonSearch`, and `FrontDoor_proofs` for the last four |
| `FoldTheorems` | lemmas about folds and sums |

Operators whose name starts with `Mut` are deliberate errors: each stands before
the definition it would replace and shows that some property notices it.

### DataStore

`call[c]` is the program counter of connection `c`'s handler. One action is one
critical section of `dsMu`, one atomic operation or one call into the object
store:

| Code | Actions |
| --- | --- |
| `dsPreparePostObject` | `PreparePostObject` (the id), `Insert`, `MarkDirty`, `IssueToken` |
| `dsPostMetaBinary` | `PostMetaBinary`, `Insert`, `MarkDirty`, then `ReplaceOne` or `ReplaceNone` |
| `dsDeletePreviousBalloon` | `ReplaceOne`: any one of `Previous(c)` goes; then `MarkDirty`, `Unlink` |
| `dsCompletePostObject` | `CompletePostObject`, `MarkDirty` |
| `dsDeleteObject` | `DeleteObject`, `MarkDirty`, `Unlink` |
| `dsRateObject(s)` | `RateObject`, `RateObjects`, `MarkDirty` |

Abstracted: names, sizes, tags, metadata, times and persistence slots of a record
(`BalloonSearch` has the last two); a rating slot that a post does not list
counts as zero, as reading a Go map does. `int64` and `uint32` widths of the
tallies are left out; the instances stay far below them. RateObjects is modelled
with the two targets the game sends. A request that cannot be decoded changes
nothing and is left out. Requests of one connection are handled one at a time,
which is how the NEX library (not part of the repository) calls the handlers.

Two assumptions about the clients appear as constants or as explicit hypotheses:

* `OwnIdsOnly`: clients complete and delete their own objects only. The server
  checks neither; the run `any_clients` does without it, and of the theorems only
  `TableIsBoard` assumes it.
* `OneConnPerPid`: a player has one connection. The account server's "elsewhere"
  gate (`gates.go`) is there for it, though it fails open. Without it two handlers
  of one player delete each other's new balloon (see below).

### Persistence

`flusher` is the goroutine: `FlushTake` (CompareAndSwap), `FlushCopy` (under
`dsMu`), `FlushEncode` (json.Marshal, one record a step, without `dsMu`: ratings
still reach the copy through the shared map, `SharedRatings`), `FlushTruncate`
and `FlushWrite` (os.WriteFile), `FlushFails`. `file` is the table that `dsLoad`
would make of the file; a missing, empty or cut file loads as no records.
`Restart` may come at any moment. `writeLost` only observes. The 5s are left out:
the flusher may wake at any moment.

### ObjectStore

Adds to the handlers what they ask of the store (`Handle` joins each `DataStore`
step with its effect on tokens and files), the download token (`PrepareGetObject`)
and HTTP requests as processes: `CheckToken`, then `PutCreate` and `PutFinish` or
`PutAbort`, or `GetOpen`, `GetSend`, `GetOwner`, `GetMark`. A file is absent,
whole, cut, or being written by a request. Tokens of one kind for one id are the
same token here, and a token may expire at any moment. Two requests that write
one object at a time are taken to send the same bytes. `Careful` restricts
clients to what the game does (upload, then complete); without it they do
anything. The server does not depend on `uploaded`: it is what careful clients
know of their uploads.

### BalloonSearch

`Init` takes any table; the queries answer from it and what players found grows.
A scan is a permutation of the records, and the loops of the code are folds over
it; sort.Slice is any order with newest first. The answer stays in `reply` until
the client takes it, and is forgotten before the next query. `posted` is what the
post of a record named as its slot; the code keeps only `SlotOf` of it, which is nil
both for 0xFFFF and for a record that dsLoad found without a slot. `Records` bounds
the tables of a run; the theorems hold for any set of records. Left out of the
answers: names, sizes and ratings.

### BufferQueues

Adds `buffers` to the records: `Handle` is a step of a `DataStore` handler,
which gives a new record no buffers and drops those of a deleted one. The other
actions are the handlers of the queues, one critical section each:
`AddToBufferQueue`, `AddToBufferQueues` (two params and up to two buffers,
paired by index, one turn of the loop after the other), and `ClearBufferQueues`.
`Int8` is the conversion of the 32-bit slot; slots 1 and 129 of the run give a
positive and a negative key. A sum of queue lengths bounds the model
(`MaxBuffers`). `answered` is what clients were told was added while the object was
there: AddToBufferQueue answers success for an object that is gone as well
(`datastore.go:878-885`), keeps nothing, and `answered` records nothing.

### Server

`SHandle`, `SHttp` and `SFlush` are the steps of `ObjectStore` and `Persistence`,
joined: a handler's step reaches the copy that is being encoded and the blobs
alike. `SRestart` is `Persistence`'s `Restart` with what happens to the rest:
blobs stay, cut if they were being written; tokens, requests and finds go.
`made`, `written` and `unlinked` only observe.

### Login

`login[l]` is a LoginEx in progress. `ByToken`, `ByPid`, `ByName` and `ByNsa` are
the branches of resolveUser, `AskNsa`, `AskNsaFails` and `StoreNsa` the rest of
resolveNSAtoPID, `Check` and `CheckFails` nextendoOnlineCheck. `Relink` and
`Permit` are the account server's and may come between any two of them. A token
proves its PID or nothing: signature and expiry are left out. A bare PID that no
token proves may be an account's or not.

### Presence, LookupCache

Times are ages which a tick advances together, up to a horizon after which
nothing depends on them, so that the instances are finite and run forever
without a bound on time. The goroutine wakes exactly when its sleep is over, a
request takes no longer than its timeout (`time.Sleep` and the Go scheduler add
milliseconds, which a unit of time swallows). `LookupCache` follows one key: its
`dispName` and `avatarJPEG` differ in lifetime, timeout and placeholder, which are
constants. `quiet`, `active`, `told`, `fine` and `held` only observe.

### Dashboard

`NoteTotal`, `NoteMeta` and `NoteEvent` are noteRMC, `StatsConns`, `StatsMeta`,
`StatsEvents` and `StatsTotal` buildStats, each a critical section of the lock
that it takes. The endpoint's list of connections is external. Left out: times,
addresses, names, the list of balloons, and the kick commands, which end
connections as clients do (`Disconnect`).

## Runs

| Run | Shows | Bounds |
| --- | --- | --- |
| `balloons` | `FreshIds`, `OneActive`, `NoResurrection`, `ReplacesOlder` and `ImplementsBoard` with interleaved handlers | 2 players, 4 ids, two types posted with PostMetaBinary and one prepared |
| `any_clients` | `RatingsAgree`, `BuffersReadBack`, `NoResurrection` with clients that name any object | 2 players, 2 ids, 2 rating slots, 2 ratings a record, 2 buffer slots, 2 buffers |
| `persistence` | `CleanIsSaved`, `IdsAboveTable`; under fairness `ObjectsReachFile`, `DeletionsReachFile` | 2 ids, 1 restart, 1 failing write |
| `objects` | `CompleteIsWhole`, `NobodyFindsOwn` | 2 ids, a prepared and a PostMetaBinary type, 1 HTTP request at a time, 2 live tokens |
| `server` | `BlobIsOwn`, `NobodyFindsOwn` across restarts | 1 id, 2 restarts, 1 HTTP request at a time, 2 live tokens |
| `queries` | `EveryMatchOnce`, `NoGhosts`, `PagesLevel`, `StatsAreNewest`, `PersistenceIsNewest`, `NewestKept` | 3 records of one player, posted to slot 0, as not persistent or before slots were; slots 0, 1 and 0xFFFF asked for; 2 clock values, up to 4 sets, SearchObject cut at 2 |
| `front_door` | `OnlyAccounts`; `KeptOnline`, `ReportsAreRecent`, under fairness `EntriesExpire`; `StatsAddUp`, `CountsAgree`; `BoundedStale` | 2 logins, 2 accounts, 1 console; 2 players, interval 2, lifetime 4, timeout 1; 2 connections, 3 calls, 2 events kept; 2 callers, 2 values, lifetime 3, timeout 2 |

Why these are enough to be interesting. The conflicts inside the table are
between two handlers, over at most two records of one player and type: the one
being placed and the one being replaced; four ids let a player place three times
while the other acts. The flusher conflicts with one change at a time; a restart
lets an id be lost and handed out again. A careful client's uploads of an object
come one after another and its blob is completed after that, so one request at a
time, racing with every handler and with the deletion of the object, is enough
there; the run `cleared` has two. In `server` one id is used by up to three
objects one after the other, of either player and type, which is what a reused id
is about. Three balloons into 1, 2 and 4 sets cover an even split, a remainder
and more sets than balloons; two stats records and a balloon fit into the three
as well. Two buffer slots and two params are the least for which pairing by
index can go wrong.

`front_door` takes `Login`, `Presence`, `Dashboard` and `LookupCache` in turn: they
share no state, and a behaviour of `MCFrontDoor` runs one of them and leaves the
others as they start, so that their states add up. Two logins are enough for one
to cache a link while the other asks and the link changes; the interval, lifetime
and timeout keep the order they have in the code (timeout < interval < lifetime),
and all values of the ages are reached; three calls overflow an event list of two.

Runs that end in a counterexample state what a comment or the repository's README
says and the code does not do:

| Run | Property | The code |
| --- | --- | --- |
| `restored` | `OnePrevious` | a restart between the halves of a replacement brings both balloons back, and the next placement stops at the first (`datastore.go:612`) |
| `stats_replaced` | `AchievementKept` | a new stats record deletes the old one (`datastore.go:590`) |
| `write_fails` | `FlushedEvery5s` | a failed write is forgotten (`datastore.go:175`) |
| `ratings_torn` | `FileRatingsAgree` | the copy shares the rating maps (`datastore.go:169`) |
| `cleared` | `ClearedWhenFound` | isCleared asks the wrong player's finds (`datastore.go:1221`) |

Further facts that no run states:

* Two PostMetaBinary handlers of one player that both inserted before either
  replaces delete each other's new balloon: dsDeletePreviousBalloon deletes any
  other complete record of the type, newer ones too (`datastore.go:609`). That is
  why `OneActive`, `ReplacesOlder` and `ImplementsBoard` are for `OneConnPerPid`.
* A download that breaks off is credited as a find: the error of io.Copy is
  dropped (`objectstore.go:135`), though `objectstore.go:71-73` says "once the console
  actually fetches it".
* A post whose slot is 0xFFFF is stored without a slot (`datastore.go:276`), and
  GetPersistenceInfo takes a record without one to be in every slot (line 298).
  The comments say "0xFFFF means not persistent" (line 271) and that "records posted
  before slots were stored match any slot" (line 283), which a new post is not. So
  an owner's newest non-persistent balloon is named for any slot, ahead of an older
  one that was posted to it. `PersistenceIsNewest` is about what the code does.
* An empty pool is answered with as many empty sets as were asked for
  (`datastore.go:1117`), though `datastore.go:1115-1116` says one.
* A stop inside os.WriteFile loses every object, since the only copy is truncated
  first (`Persistence` has that step).
* Objects posted with PreparePostObject are never replaced, and several of one
  type may be active (`OneActive` is about the other types).
* An object deleted shortly before a restart comes back without its blob
  (`BlobIsOwn` excepts it), and every object comes back without its buffers.
* NEXTENDO_REQUIRE_ACCOUNT alone does not keep a PID without an account out while
  the online check fails; with NEXTENDO_REQUIRE_SIGNED_TOKEN it does, which is the
  hypothesis of `OnlyAccounts`.

Fairness. `persistence` assumes that a goroutine which can run does: weak fairness
of each handler's own steps and of the flusher's loop (`FairPSpec`). Nothing is
assumed of clients, of restarts, or of requests still to come. A write that fails
releases both liveness properties (`writeLost`); what happens then is the run
`write_fails`. `front_door` assumes that time passes and the presence goroutine
runs (`Reporting`, weakly fair); nothing of players, logins or the account
server. The counterexamples are of safety properties and need no fairness.

## Proofs

Every safety property that a passing run checks is also a theorem, for every value
of the constants that the `ASSUME`s of the modules allow: any number of
connections, requests, restarts, failing writes and records. Those assumptions
only say what the constants are (bounds are naturals, rating slots and the
dashboard's connections and methods are finite sets, the placeholders are no
real values). What a theorem needs beyond them it names as a hypothesis:

| Theorem | Of | Property | Hypotheses |
| --- | --- | --- | --- |
| `TypeCorrect`, `IdsAreFresh`, `DeletedStaysDeleted`, `TalliesStayEqual` | `DataStore` | `TypeOK`, `FreshIds`, `NoResurrection`, `RatingsAgree` | none |
| `OneActiveBalloon`, `ReplacementIsOlder` | `DataStore` | `OneActive`, `ReplacesOlder` | `OneConnPerPid` |
| `TableIsBoard` | `DataStore` | `ImplementsBoard` | `OneConnPerPid`, `OwnIdsOnly` |
| `PersistenceTypes`, `CleanTableIsSaved`, `IdsFreshAcrossRestarts` | `Persistence` | `PTypeOK`, `CleanIsSaved`, `IdsAboveTable` | none |
| `ObjectStoreTypes`, `FindsAreOthers` | `ObjectStore` | `OTypeOK`, `NobodyFindsOwn` | none |
| `CompleteBlobs` | `ObjectStore` | `CompleteIsWhole` | `Careful` |
| `FindsAreOthersAcrossRestarts` | `Server` | `NobodyFindsOwn` | none |
| `BlobsAreOwn` | `Server` | `BlobIsOwn` | `Careful` |
| `BuffersAreReadBack` | `BufferQueues` | `BuffersReadBack` | `SlotsApart` |
| `EveryMatchSurfaces`, `NoSetIsEmpty`, `PagesStayLevel` | `BalloonSearch` | `EveryMatchOnce`, `NoGhosts`, `PagesLevel` | none |
| `StatsNamedAreNewest`, `PersistenceNamesNewest`, `CutsOffOldest` | `BalloonSearch` | `StatsAreNewest`, `PersistenceIsNewest`, `NewestKept` | none |
| `AccountsOnly`, `KeepsOnline`, `NoOldReports`, `CacheIsRecent` | `Login`, `Presence`, `LookupCache` | `OnlyAccounts`, `KeptOnline`, `ReportsAreRecent`, `BoundedStale` | none |
| `CountsStayEqual`, `AnswersAddUp` | `Dashboard` | `CountsAgree`, `StatsAddUp` | none |
| `FrontDoorTypes` | `MCFrontDoor` | `TypesOK` | none |

Where one specification runs another's handlers, that is a theorem too, so that
the other's theorems carry over: `ServerPersists` (`Server` is a `Persistence`),
`TableRuns` (`BufferQueues` is a `DataStore`, whose `RatingsAgree` and
`NoResurrection` the run `any_clients` checks there), `PartsRun` (the behaviours
of the run `front_door` are behaviours of its four parts, fairness aside: what
`FDSpec` assumes is fairness of the presence part, and is not carried over).

`FoldTheorems`. The library's induction takes the property as an operator, which
no installed prover can instantiate. Here it is a set: what holds of the empty set
and of a set with one more member holds of every finite set. From that follow what
the models' loops and sums need: a fold over a finite set in a given order
exists and is unique, a sum does not depend on the order and changes by what one
member changes by, the largest member exists, and folds over a sequence are taken
one member at a time. What is folded is a function of two arguments, one after the
other.

`DataStore_proofs`. `TypeInv` is the type invariant with what a handler's program
counter says of its other fields. `IdInv` adds `FreshIds` and `RecordsBelow` (ids
in the table are below the counter): `FreshIds` alone is not inductive, since an
allocation must not meet an id already in the table. `NoResurrection` follows
from `IdInv` step by step. `RatingsAgree` is inductive with the types: a rating adds
the same value to one slot and to the sum. For `OneActive`, `BalloonInv` adds that
records of the types that only PostMetaBinary posts are complete, that two active
balloons of a player and type exist only while a PostMetaBinary is replacing one
of them, and that the balloon it places is the newest.

The refinement. `BoardInv` adds that the balloon being placed stays
in the table while its handler replaces the old one (here `OwnIdsOnly` is used).
Then each step maps to a step of `BalloonBoard` or to a stutter: Insert to
`Hide` or `Spend`, a deletion of what is up to `TakeDown`, everything else to a
stutter, the removal of the old record included, since the newer balloon is
already up.

`Persistence_proofs`. `PInv` adds to `IdInv` the shape of the file and of the
flusher's copy, and `SaveInv`: when the flag is clear and no handler is about to
set it, the copy on its way, or else the file, equals the table, unless the last
write failed. That the seeded counter exists is shown with the least-element
theorem for natural numbers.

`ObjectStore_proofs`. For `NobodyFindsOwn`, `OInv` says of every id that a download
token, a request past its token or a find names that it is settled: allotted and
not waiting to be inserted. A settled id is never given to another player (the
counter only grows), so that what a request compared with the record's owner
stays true when the record is gone by the time the find is noted. Nothing is
assumed of clients. For `CompleteIsWhole`, `CarefulInv` adds four parts. `PostInv`: a
prepared object is in the table before its upload token is issued. `DeleteInv`: what
a handler is about to unlink is settled and gone from the table for good.
`UploadInv`: an upload token or request is for a settled id, one request at a time
writes an object, and none does once its PUT was answered. `BlobInv`: a PUT that is
copying has the blob to itself, an existing object whose PUT was answered has a
whole blob, and an object that others can find was uploaded.

`Server_proofs`. `ServerInv` is `OInv` with the shape of the file. Tokens, requests
and finds go at a restart, so that an id need stay settled only as long as the
process lives, although ids are handed out again after it. For `BlobIsOwn`, `OwnInv`
says when an object's blob is its own for good: the id is settled, the blob is
whole and was written since the object was made, or was unlinked with it, and
nobody can write it again unless by an upload that is not answered yet. Every
complete object of a type with a blob must be so in each of the three tables that
players search or may search after a restart: `dsRecords`, the flusher's copy and
the file. An invariant about `dsRecords` alone is not inductive, since `SRestart`
makes the file the table.

`BufferQueues_proofs`. The queues hold, at the key of each slot, what was added to
the slot. `SlotsApart` says that no two slots in use are equal modulo 256: the code
keeps the low byte of the 32-bit slot as the key, so that slots 1 and 257 share a
queue and nothing better can be said of them.

`BalloonSearch_proofs`. Each loop of the code is unfolded once in a lemma
(`NewestUnfolds`, `StatsUnfolds`, `DealUnfolds`), and what it finds follows by
induction over the prefixes of the scan: `NewestFound` and `StatsFound` for the two
newest-of loops with ties, `Dealt` and `DealLevel` for splitIntoSets. An answer
stays right until the client takes it, because finds change only between answers.

`FrontDoor_proofs`. Login: `LInv` says that every link, cached link and login on its
way in comes from a link the account server once had; only consoles are asked for;
and where account and proof are required whoever is on the way in has an account.

LookupCache: `CInv` says that an answer on its way was the account's value no longer
ago than the request has been under way, an entry no longer ago than its age and a
timeout.

Presence: `RInv` has three parts. Entries are no older than the player's last
call. While the goroutine sleeps, a player whose entry has been fresh for longer
than the sleep and a timeout was reported when the sleep began, unless a report
failed since. While it reports, a player missing from the batch has been fresh for
no longer than the report has run, and one fresh for an interval more was reported
within the interval before, unless a report failed. `KeptOnline` holds for all
intervals, lifetimes and timeouts.

Dashboard: `DInv` says by how much the counters under the three locks differ: by the
calls that noteRMC has half noted, per total (`TotalsInv`), per player (`PlayerInv`)
and per method (`MethodInv`), with an event list cut at its length (`LengthInv`).
`AnswerInv` says that what buildStats has read so far bounds from below what there
is now, since the counters only grow.

Only model-checked: liveness under fairness (`ObjectsReachFile`, `DeletionsReachFile`,
`EntriesExpire`), which is out of the prover's reach, and the counterexamples of the
runs that end in one. No module uses a recursive operator.


## Not modelled

* GetMeta, GetMetas and GetRating echo records and change nothing. That they
  encode a live record after `dsMu` was released is listed among the hazards.
* The wire format (struct headers, permissions, lists) and the settings table:
  encodings and constants without state. Requests that cannot be decoded change
  nothing.
* The dashboard's list of balloons and its HTTP API; the scaling of pictures:
  formatting and arithmetic.
* Data races themselves. Their effects are modelled where they last (the torn
  copy); a race on a map that ends the process is a `Restart`.
* The signature and expiry of tokens.
* The NEX library and the account server are not part of the repository: they
  appear as the callers and the external actions above.

## What is left

`TableIsBoard` is about a process that does not restart; across a restart it fails,
which the run `restored` shows, and a board that promises what remains true then is
not stated. That `Server` runs `ObjectStore`'s handlers between two restarts is used
in its proofs and not stated as a refinement of its own. `BufferQueues` is not
composed with `Server`: a restart loses the buffers, which the hazards list.
