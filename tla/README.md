# AcornDrive in TLA+

AcornDrive (`src/`) is a file server in Go with a Vue frontend, a fork of File Browser Quantum.
The fork adds ChainFS protection of files, SAFEMode, and single sign-on from acorn.tools.
This directory holds a TLA+ model of what the server keeps and how requests, goroutines, scans,
starts and crashes change it; the TLC configurations that check the model on small instances; and
proofs by TLAPS that do not depend on the size of the instance.

The server is one process. Requests are goroutines; they share a BoltDB file, maps in memory
guarded by mutexes, the files of the configured sources with an index of them in memory, and one
state file that survives redeployments. On Azure Container Apps BoltDB does not: a redeploy wipes
it.

## Inventory

Every component is listed in `PROJECT.json`. The ones that keep state:

| Component | State | Operations | Interacts with | Hard behaviour | Module |
|---|---|---|---|---|---|
| File protection (`protect.go`, `resource.go`, `database/protection`) | BoltDB records path → guid, expiry; the files | protect, delete, move, copy, overwrite | ChainFS, state file, file system | two requests on one path; check and act apart; directories; a move across devices finishes after the answer | `Protection` |
| Central state file (`acornstate.go`) | map in memory, mutex, `.acornstate.json` | save, remove, start-up with purge and restore | protection, SAFEMode, logins | crash in the middle of a write; failed writes; redeploy | `AcornState` |
| SAFEMode (`safemode.go`, `users.go`) | items with PINs in the user record | add, remove, profile save, restore at login | state file, users, logins | list read long before it is written back; restored in one place only | `SafeMode` |
| SSO login (`chainfs.go`) | store of redeemed tokens, users | verify, mark, check access, create or update, session | acorn.tools, users | replay against the sweep; stall; restart | `SsoLogin` |
| Azure, OIDC and proxy logins (`chainfs.go`, `oidc.go`, `auth.go`) | cookies of the browser, users | start, answer, callback, login, log-out, renew | the provider, users | tabs share cookies; a silent attempt and its repetition; two forms of one cookie | `Identity` |
| Sessions, API keys, TOTP (`auth.go`, `middleware.go`, `api.go`, `auth/`) | revoked tokens and caches in memory, user records | let in, renew, log out, make and delete keys, set up and confirm codes, profile save | every handler | read-modify-write of whole maps; one transaction per field; restart forgets | `Accounts` |
| Users at start-up (`cmd/`, `config.go`, `storage.go`) | users, `.bak` file | first start, conversion, set-user, profile save, sign-in | configuration, BoltDB | a start that dies half-way; changed sources and defaults | `Startup` |
| Rate limiter (`ratelimit.go`) | a limiter per address | fetch, ask, clean-up | log-in, public links | dropped while in use | `RateLimit`, `TokenBuckets` |
| Shares (`database/share`, `share.go`, `public.go`, `middleware.go`) | links, cache of shared pointers, counters | open, download, create, edit, delete, list, move, flush | resources, users | limit compared outside the lock; cache and BoltDB in two steps; links follow moves later | `Shares` |
| Access rules (`database/access`) | rules and groups, caches, one BoltDB value | allow, deny, groups, cascades, move, `Permitted`, flush | resources, shares | answers cached after the caches were cleared; rules read without the lock; moves followed later; saved at shutdown without the lock | `Access` |
| Index (`indexing/`) | directories with sizes, scanners | scan, quick scan, refresh, remove, start-up | every file operation | nothing locks the disk; refreshes in any order; entries put back that were read earlier; scanners come and go | `Indexing` |
| Search (`search.go`) | cache of directories, sessions | search | index, rules | overtaken by another search, by scans and by rules; keys of the cache that run together | `Search` |
| Uploads (`resource.go`, `upload.js`) | temporary files, quota, the queue of the browser | chunk, pause, resume, retry, plain upload, folder, save | file system, index | one temporary file per path; quota on the first chunk | `Uploads` |
| OnlyOffice (`onlyOffice.go`) | keys of documents | configure, callback, move, delete | document server | callbacks late, failing, repeated; a key forgotten before the text is written | `Office` |
| Events (`events/`, `httpEvents.go`) | channels of clients | register, send, deliver, close | index, frontend | full channels; shutdown while sending; slices edited in place | `Events` |
| Previews (`preview/`, `ffmpeg/`, `diskcache/`) | cache on disk, semaphores | look up, make, store, remove | files | files replaced meanwhile; slots on failing paths | `Previews` |
| Duplicate finder (`duplicates.go`, `database/sql`) | two caches, a mutex, a temporary database | search | index, rules | caches that leave something out of their keys; positions that go stale | `Duplicates` |
| Downloads (`raw.go`) | archives in the cache directory | stream, archive | files, index, rules | estimate from the index, walk of the disk | `Downloads` |

What makes each correct: a promised protection holds until its end through crashes and redeploys,
and what is hidden in SAFEMode stays hidden behind its PIN; the state file is what memory holds; a
token makes one session, in time, and none after it was ended; keys and codes are what their user
was told; a change of a rule decides from then on; a limit is a limit; an upload is complete or
absent; the index comes to agree with the files; a picture, an archive, an answer to a search and a
group of duplicates tell of what was there.

## Modules

A handler is a sequence of actions of a request slot, one per step that another goroutine can see:
a place says how far it is, and what it read earlier is in per-request variables. A step under a
mutex is one action. A BoltDB save is one action, as it is one transaction; its failure is an
action or a choice of its own. A network call is the step that takes effect at its other end, and a
step that fails. Variables under "history" hold what no variable of the program remembers: what a
user was told, or what has happened that may cost a guarantee, so that a property can say "unless".
Each module states in comments which of its operators are mutants; they are used by no
specification.

| Module | Models |
|---|---|
| `AcornState` | the map, mutex and file of `acornstate.go`; what the map holds is a parameter |
| `Protection` | EXTENDS `AcornState` (keys are paths): protect, delete, move, copy, overwrite, crash, redeploy, start-up |
| `SafeMode` | EXTENDS `AcornState` (keys are users): add, remove, profile save, logins that create and restore |
| `SsoLogin`, `Identity`, `Accounts`, `Startup` | logging in, sessions, keys, codes, users |
| `RateLimit`, `TokenBuckets` | the limiters, and what they promise |
| `Shares`, `Access`, `Search` | links, rules, searches |
| `Indexing`, `Events` | scanners and refreshes; events to tabs |
| `Uploads`, `Office`, `Previews`, `Duplicates`, `Downloads` | what users do with files |
| `Settles` (`Protection`, `Indexing`), `SignIn` (`Accounts`, `Startup`), `Links` (`Shares`, `RateLimit`), `Views` (`SafeMode`, `Office`, `Downloads`, `Previews`), `Lookups` (`Access`, `Search`), `Browser` (`Events`, `Identity`), `Files` (`SsoLogin`, `Uploads`, `Duplicates`) | components side by side |
| `MCProtection`, `MCSettles`, `MCSignIn`, `MCLinks`, `MCViews`, `MCAccess`, `MCTabs`, `MCFiles` | small instances: the values of the constants, narrower starts, constraints |
| `ProtectionProofs`, `FilesProofs`, `AccountsProofs`, `SafeModeProofs`, `AccessProofs`, `EventsProofs`, `SharesProofs` | theorems; each EXTENDS the composition whose components it is about |
| `Sums` | lemmas on sums over finite sets, for the proofs about sizes and quotas |

A module that puts components side by side EXTENDS one and takes the others by INSTANCE, with their
variables as its own. It states the properties of those others, once: the run checks the very
definition that the theorem is about.

**AcornState.** `mem` is `acornState`, `holder` who holds `acornStateMu`, `disk[s]` the file in
source `s` (`Torn` between truncation and fill), `path` the source chosen at start-up.

**Protection.** `bolt` is the BoltDB bucket, `fs` the files, `chain` what ChainFS stores, `trash`
the goroutines of `MoveFile` that still have to remove a source. Paths are pairs of a directory
and a name, so that a request can name a directory and take its files along. `held` is history:
the record the user was last told of; `fault` records what may legitimately cost a record, so
that a property can say "unless". `ProtectCheck`..`Answer` are `protectHandler`;
`DeleteCheck`, `DeleteFiles`, `RemoveState` are `resourceDeleteHandler`; `PatchCheck`,
`MoveRename`, `MoveCopy`, `RemoveMoved` are a move or copy; `WriteFile` is any overwrite;
`StartClean`, `StartPurging`, `StartUnreadable`, `WritePurged`, `RestoreRecord`, `Serve` are
`InitAcornState` up to `StartHttp`. Left out: an override that removes the old target of an
upload (`WriteFile` overwrites in place, which loses as much), and BoltDB reads that fail, which
`getProtectionRecord` takes for "no record".

**SafeMode.** `db` is the user records as far as SAFEMode goes, `copy[r]` the record a handler
works on, `hidden` the history of what each user was told. `Enter` is `withUserHelper`;
`Request` then waits for the body. `Add`, `Remove` and the start of `saveSafeMode` are one step
(the update of the record), `RecordState` and `WriteState` the state file. `ProfileItems`,
`ProfilePin` are `PUT /api/users` with `which=all`; `CreateUser`, `Lookup`, `RestoreItems`,
`RestorePin` the branch of both ChainFS logins that makes a user. `SaveProtection` is the other
writer of the file, start-up purge included.

**SsoLogin.** `used` is `ssoJtiStore`. `Verify` and `Mark` are apart: between them the clock
moves up to `Stall`, other logins run and sweep. `Swept` keeps entries until `Grace` past their
expiry.

**Access.** `rules` maps a path to the identity of its rule object and `heap` an identity to what the
rule says: a set of marks, each a list and the user or group on it, and `DenyAll`. The indirection is in
the code (a map of pointers) and matters twice: a move takes the object along, and a call of `Permitted`
may read one that the map no longer has. `saved` is the BoltDB value, `cache` is `permissionCache`,
`moves` the goroutines of `MoveResource` that still have to run `UpdateRules`. A change runs under the
write lock from its first look to its save and is one action; `ok` is whether the save succeeds. The
flush at shutdown takes no lock, and handlers still run (`StartHttp` flushes before it stops the server):
`Flush` marshals, `ReadLate` lets it read a path that changes while it marshals, and `Write` stores the
copy; changes come between. `Permitted` is a call slot that walks: `Ask` (the cache has no answer), one
`Look` per directory, `JudgeDeny` and `JudgeAllow` per rule found, `LastResort`, `Store`. Inside a half
of a rule's evaluation there is no step: the user's list and the groups' lists of that half are read at
once. `told`, `dirty`, `late`, `suspect`, `seen` and `churn` are history: what administrators were told
of each mark, whether memory and BoltDB may differ, which paths changed while the flush had its copy,
which cached answers something has overtaken, and what the right answers were during a call and how much
changed. `Restart` is any end of the process and the start after it. Users exist throughout; sources are
independent of each other and there is one.

**Identity.** `jar` are the cookies of attempts, shared by all tabs; `sess` the session cookie in
its two forms and `first` the one the browser sends first, which is the one the server reads.
`flow[t]` is a tab: at Drive, at the provider, back with an answer, in the access check, before the
account is written. A nonce is the tab that set it. `Start` .. `Leaves` are the login handlers,
`AnswersSilently` and `Answers` the provider, `CallbackError`, `Callback`, `OidcCallback` the
callbacks, `Check` and the three logins what follows.

**Accounts.** `acc` is BoltDB, `revoked`, `ownerOf` and `pending` are what memory knows, `call` the
requests with the copy of the user they read when let in. `Enter` is `withUserHelper`, `Fallback`
the reading endpoints' other way in. Keys are read and written back as a whole (`ReadKeys`,
`WriteKeys`); `Save` .. `Updated` are a profile save field by field. `cast` bounds which operations
meet in one behaviour, in all combinations that share state.

**Startup.** `conf` is configuration and environment, which the operator changes while the server
is down. `Start`, `QuickSetup`, `Validate` per user and `Serve` are a start, which may end after any
of them. A scope is a directory given by hand or the user's own directory in it. A
user logs in with a password or by another way (OIDC, proxy): `Create` makes either, `SetProfile`, a profile save
with `which=all`, turns one into the other, and `Save` hashes a password for those who log in with one and
stores it as it is for the others (`Hashed`). Passwords that are too short (`Short`) are refused.

**RateLimit.** `limiters` is the map, `mem` the limiters it and the requests point to. `Fetch` is
`getWithRate`, `Allow` what the handler asks after the mutex was released, `Cleanup` the goroutine.
`TokenBuckets` is the promise: a bucket per address, never forgotten. The refinement maps an
address without a limiter to a full bucket (`Level`); `Allow` that lets through maps to `Take`,
`Tick` to `Gain`, everything else to a stutter.

**Shares.** `bolt` are the records, `cache` the pointers by hash, `heap` the objects, which requests
share and which keep the counters. Two requests may hold two objects of one link. `Check` compares
the limit, `Count` raises it, each under its own lock or none. `mover` is the goroutine of a move,
which goes link by link; `flush` the shutdown.

**Indexing.** `fs` is the disk, `idx` the index. `frames` holds the recursion of `indexDirectory` of
each goroutine: a directory is looked at (`Stat`), read (`ReadDir`), descended into and updated in
steps. Modification times are modelled by their comparison (`cur`). When a size has changed,
`RecursiveUpdateDirSizes` reads the entry of the parent under one lock and writes it back under another:
`Grow` and `PutBack`, with `old` what was read. The entry is a pointer into the index, so `old` follows it while
it is the one the index has (`Kept`), and is an entry of its own when a refresh or a removal has
replaced it (`Detach`). `lost` is history: of which entry a removal came when the one it looked at had been read already
(`late`), and which such entry was put back (`back`). `job` is what a handler leaves
to its goroutine: what to unlist, what to refresh, with or without recursion. `Settled` is what the
index should come to: entries and sizes of the root and of every directory a scanner looks after.

**Search.** `cached` is the list of directories of a scope, `session` the search that registered last. A
pass per term; every pass may find itself overtaken. `CacheKey` is what the code has, the path of the
source and the scope run together, and `Place` says where sources lie, so that one may lie in another and
share keys with it (`Closed` are those whose access is denied where no rule speaks). `Question` is the path
the handler puts to the rules, the scope joined with a path that has it already; `Permitted` goes up from
there. Under a scope other than the root that is another path than the entry's, and a rule of the scope
or below it may decide differently for the two: `Plain` are the searches for which it does not.

**Uploads.** `up` is the manager of a browser tab (pending, sending, between chunks, paused, error,
conflict, done), `req` the handler, which may still run when the browser has given up. `temp` is the
file named by the path, `dest` the copy of `MoveFile` across volumes, `removing` its goroutine.
Contents are chunks by whose they are, and holes.

**Office.** `key` is `utils.OnlyOfficeCache`, `editor` the tabs, `copy` the document server's copies
by key, `call` its callback. The document server is external: it keeps a copy per key, reports a
closed one until it gets a success, and lets go of it.

**Events.** A client's connection is a cell of an array that is edited in place while the router
walks a slice of it; `fate` is the process, which ends on a send to a closed channel.

**Previews.** `cache` is the disk cache under `CacheKey`, `locked` the locks of keys, `slots` the
semaphores by kind of generator, `req` the requests with the file they saw first, `change` a handler
that removes thumbnails and then changes the file. `Write` keeps the lock of its key from the opening to the end,
a full disk included; `returned` is history, the contents that were replaced while their picture was made
and came back to the path by a move.

**Duplicates.** `search` holds what one search has gathered: places in the index, groups by size and
name, sums; `results` and `sums` are the caches. A name is its stem, which `normalizeFilename` leaves of
it, the extension, which it takes off and `Join` compares apart, and what else tells it from others.
Files change, and directories are scanned, between its steps.

**Downloads.** `req` is the handler with what it still has to walk, `archive` the file in the cache
directory. Nodes are numbered in the order of the walk.

## Runs

Eight runs pass. Components that share no state are checked side by side in one run: `part` says
which of them a behaviour belongs to, that one's actions fire, and the variables of the others are
`Nil`, or as they were at first, throughout (`NoUploads`, `NoOffice`, ...). A property of a part is written
`part = "..." => ...`; it speaks of that part's states and of no others.

| Run | Instance | Shows |
|---|---|---|
| `directories` | 2 directories of a file each, 2 requests, 1 guid, clock to 2 | interleavings of two requests on files and directories with crashes, redeploys, failed writes: `PromiseKept`, `GenuineRecords`, `BoltCoversState`, `FileIsCurrent`, `RefusesRemoval` |
| `settles` | 5 directories, 2 scanners of a directory, 1 worker, 2 changes; 2 requests on one file | liveness: `IndexSettles`, `RequestsEnd`; and `IndexTells`, what a quick scan relies on |
| `sign_in` | accounts: 1 user, 2 requests, 3 tokens, 2 names and secrets; start-up: the administrator and a user, of either way to log in, 2 sources, 4 configurations, 3 passwords, one too short, 3 events | `NotReadmitted`, `KeysCount`, `CodesCount`; `StartsAreKind` |
| `links` | 1 address, 2 attempts, burst 2; 1 link, 2 requests, a move, 2 downloads | `LikeBuckets` (refinement); `LimitHeld`, `LinksLast` |
| `views` | 1 user with a folder and a file in it, 2 requests; 2 tabs of a document, 3 keys, 2 faults; 7 nodes, 2 changes; 2 files of different kinds, 2 requests, 1 slot | `HiddenStays`, `CoveredShares`; `EditorsAgree`; `ArchivesAreRight`; `PicturesMatch` |
| `access_rules` | a user, a group, the root and 2 directories, 1 question at a time, 3 changes of what matters to it (`MCEdited`); 2 searches, 2 sources, one in the other, a directory and a file in each, 3 rules, 2 changes | `EntriesKept`, `BoltIsCurrent`, `CacheIsCurrent`, `AnswerOfAMoment`; `FoundIfThere` |
| `tabs` | 3 tabs, 3 events, 1 update, channels of 1; 2 tabs, 1 person, 3 deployments | `EachOnce`, `PanicsOnlyAtTheEnd`, `SendersFinish`; `CookiesTell`, `SilentSettles` |
| `files` | SSO: 2 logins, 2 tokens, clock to 6; 2 uploads of up to 2 chunks, quota 3; 2 searches of 2 users, 4 files, 2 changes | `OneSessionPerToken`, `NotAfterExpiry`, `StoreIsSwept`; `UploadsAreWhole`; `DuplicatesAreEqual` |

The type invariants are `TypeOK` (of `Protection`, `SafeMode` and `Access`, each in the run whose
root it is), `AccountsTyped` and `TabsTyped`; the last also says that a client that left is in no map,
so that events do not pile up for closed tabs. Those of the other parts are conjuncts of their
properties; that of `SsoLogin` is only proved.

**Bounds.** Two requests are the smallest number that race, and every race found here is one of two;
the third party, where there is one, is the crash, the clock, a goroutine of a move, or another
writer of the file. One record per map cannot show a lost neighbour, so `directories` has two. Two
tokens of a login are one that is redeemed and one whose redemption sweeps the store meanwhile; three of a user are the
session, a key and the one that replaces it. Two
chunks are a first one, at which quota and conflicts are looked at, and a last one, at which the file
is moved; two uploads share a path or a quota. Capacity one for channels and slots is where full
and empty are one step apart. Three changes of rules are one to make a rule, one to make the rule
that competes with it, and one during the question; renames count as changes, while `UpdateRules`,
flushes, evictions and restarts do not. Five directories are the root, two top-level ones with their
scanners (one excluded by a rule) and two below, so that a directory can be moved within one
scanner's reach and out of it. `Casts`, `Plans`, `Mixes` name which operations may meet in one
behaviour where all at once are too many; each set puts together those that touch the same state.
`MaxTime`, `Changes`, `Faults`, `Mishaps`, `Events` and the like bound clocks and counters; each is a
conjunct of a guard.

**Constraints.** They stop where there is nothing left to look for, or where all at once is too much. In
`directories`, `Lone` lets two requests meet until the clock moves and one after it: what expiry adds to
a race is in its end, which one request shows. In `links`, `Undisturbed` stops behind the first overlap
that excuses a link for good (a record that is dropped with its object left excuses only the path), and
moves the directory or the clock, not both. In `views` it stops behind the first overlap or fault that
excuses a SAFEMode user for good, and gives a pair of kinds of pictures one fault or change, pictures and
documents two. Initial states are narrowed in three runs: in `views` the first of the two files with
thumbnails is there; in `files` uploads are gathered on another volume only where two of them meet at one
path, and a user who may not see all is tried where names are the same; in `access_rules` the group has
its member. There also the flush comes after one change at the most and finds no questions, which it has
nothing to do with, and in the inner of the two sources there is one kind of search, no rule, and only
its file comes and goes. No theorem has any of these bounds.

**Where guarantees end.** Many properties carry an "unless", and would be false without it; the history
variable says exactly when. `PromiseKept`: unless a fault kept the state file from what memory held.
`HiddenStays`: unless two requests of the user overlapped or a fault intervened. `LinksLast`: unless a
request that may write the link back had read it before, or (for the path) its record was dropped from
under the object. `CacheIsCurrent`: for answers nothing has overtaken; `AnswerOfAMoment`: for calls
during which at most one mark of one path changed. `KeysCount` and `CodesCount`: unless two requests
change one record at once (`clash`). `UploadsAreWhole`: unless others worked on the path (`mixed`) or a
last chunk was sent twice (`again`); the quota, unless an upload is admitted while another is not yet
counted, or a late chunk lengthens a file that is already in its place (`raced`). `EditorsAgree`: unless
a second copy was made (`apart`). `PicturesMatch` says of slots and locks that they are given back, of
everything without exception; a picture may be without bytes, after a full disk or a crash, and a content
that was replaced while its picture was made, and is moved back to the path, finds the picture of the
other (`returned`; two moves more than the run has, so that only the proof is about it).
`DuplicatesAreEqual`: of directories that did not change during the search. `ArchivesAreRight`: what came
or went meanwhile may be in or not; the limit, while the index knew the sizes. `EntriesKept` and
`BoltIsCurrent`: unless the save failed, and except for the paths that changed between the two halves of
a flush that was written (`late`). `FoundIfThere`: for searches whose directories are on the list they go
by and whose question to the rules is that of the entry (`Plain`). `IndexTells`: unless a request is yet
to read the directory again after a removal that came late, or that was done and the entry was put back
(`lost`). `StartsAreKind`: the administrator's account comes back if its user logs in with a password.

**Fairness.** `settles` and `tabs` assume some; the others none. Weak fairness of the steps of goroutines
that can go on (requests, scanners, the router, handlers, redirects of a browser, the provider's answer
to `prompt=none`), since Go schedules them and calls have timeouts; strong fairness of taking a mutex
(`sync.Mutex` hands itself to a waiter of more than a millisecond) and of a waiting send on a channel
(waiting senders are served in order). Nothing is assumed of crashes, failures, people, changes to files
or the clock. In `settles` a goroutine has one condition, that it goes on, whatever its next step is; and the one
of taking a mutex speaks of either component's, since a behaviour belongs to one. `RequestsEnd` says
that a request is idle again and again, which for a request that is started only from idle is that each
one ends. `IndexSettles` holds because changes are finitely many; `SendersFinish` as long as the process
is up.

Four runs end in a violation: they state what the repository says and the code does not do.

| Run | Statement | Counterexample |
|---|---|---|
| `v_directory` | "Protected files cannot be deleted or moved until expiry" (Fork.md) | the directory of the file is deleted |
| `v_redeploy` | records "survive redeployments" (acornstate.go) | crash in the middle of the write, then redeploy |
| `v_denyall` | "DenyAll sets a rule to deny all access" (access.go) | removing an entry, even one that is not there, drops the rule with its DenyAll |
| `v_moved` | "Handles both exact matches and subdirectories" (share/storage.go) | a link to something inside a moved directory leads to all of it |

## Other disagreements met while modelling

The model has the behaviour in each case; no run is spent on it.

*Protection and state file.* The state file is that of the "first configured source"
(acornstate.go:9), but the code takes the first key of a range over a Go map (:53), so that with two
sources a restart may read another file. The purge of bypass records at start-up (:88-100) deletes
them from the state file and not from BoltDB. `protectHandler` "makes it read-only on disk"
(protect.go:25) although nothing sets a mode and `WriteFile` (files.go:645) overwrites a protected
file like any other; protecting again may shorten a protection (protect.go:172).

*SAFEMode.* Items are restored only by the login that creates the user; if that update fails or the
process dies first, they are lost (chainfs.go:1167). Of two adds at a time the later list wins, and an item
leaves without the PIN that "removing needs" (Fork.md:75); `PUT /api/users` with `which=all` does the
same (users.go:237).

*Logins and accounts.* A token is spent before the subscription is checked, so a retry after a failed
check is a replay (chainfs.go:1081). The OIDC cookie has an expiry, though a session "ends with the
browser" (auth.go:176). Revoked tokens are in memory only (auth/auth.go:33): a restart honours them
again. API keys are read, changed and written as a whole (users/storage.go:117): of two at a time one
is lost. A second `generate` replaces the secret that waits to be confirmed, so a code that was shown
may not count (totp.go). `cmd/user.go:118` keeps permissions of version 0 only at the next start.

*Start-up.* An administrator who logs in by OIDC or a proxy gets the configured password unhashed
(cmd/user.go:43, bolt/users.go:178), and once the way is changed back cannot log in until the next start
hashes it. The administrator of a database whose first start died between creation and save is never
made, and a deleted administrator never comes back. `ConvertToBackendScopes` drops sources that are not
configured, though cmd/user.go:100 says they are preserved; no scopes at all mean the default ones;
default sources are given to existing users at "/". `createBackup` stays set for all users after the
first. Without a configured signing key "a random key will be generated and persisted on first init"
(config.go:704): quickSetup saves one with the settings (storage.go:77), but nothing reads it back, so
the next start signs with another and all sessions end.

*Rules and search.* `Permitted` can answer what no state of the rules ever said, if a rule moves during
the walk, and the answer is cached for a minute. A change of a group clears no cache. Two moves are
followed by goroutines in any order; a crash before leaves the rules at the old path. The flush at
shutdown can write rules to BoltDB that are older than what was saved and told meanwhile, since it
marshals without the lock and the server still serves (access.go:99, httpRouter.go:303); the restart then
has the older ones. A removal whose save failed is answered with success (http/access.go:222). Search
asks the rules for the scope joined with a path that has the scope already (search.go:85), so that a
permitted entry can be missing, or a denied one told, where rules lie below the scope; its cache has one
key for `/srv` with `/a/` and `/srv/a` with `/` (search.go:45), so that a search of the one may go by the
list of the other; the search for the largest leaves its scope out (search.go:31); `case:exact` compares
an unlowered term with a lowered name (mediaMeta.go:325); searches without a session id share one; a path
that matches two terms counts twice towards the limit; passes without files do not look at the session.

*Shares.* BoltDB's own `Gets` drops an expired record and leaves its object (bolt/share.go:89): the link
lives on in memory until somebody looks at it, and a move, which reads BoltDB, does not take it along
(`left`). A flush that stops at one link leaves all after it unsaved; counts made after the flush saved
their link are lost (`late`).

*Index.* An update of sizes puts back a parent's entry it had read before a refresh or a removal
(indexingFiles.go:454). The older entry has its own older modification time, so that the next quick scan
finds out; where a removal from it had come too late, it stays wrong until a full scan. Garbage
collection and `PostScan` are never called; the root scanner's size accumulates; a quick scan never takes
up a new subdirectory, and one made between the check and the start of scanners waits for the next full
scan (indexingScanner.go:241); two scanners may be made of one directory at a start.

*Uploads and OnlyOffice.* A last chunk that is sent again replaces the finished file by one with a hole
(resource.go:405); a handler the browser gave up on truncates later; the goroutine of `MoveFile` may
remove the temporary file of the next upload. A request that has opened the temporary file still writes
to it when another has moved it to its place: the file grows there, and the index is not refreshed
(:424-437). The key of a document is forgotten before its text is written (onlyOffice.go:407), so that a
second copy is opened of the old text (:545); keys expire after 48 hours and with the process; a callback
that failed and is sent again forgets the path's key once more, which may be that of a newer copy (:407);
a download that breaks off leaves an empty file.

*Previews, duplicates, downloads.* Large thumbnails are never removed with their file; album art is
keyed by its own bytes; a failed store leaves an empty file that is served (file_cache.go:47); a
resize goes on after its request is cancelled. Results of duplicates are cached by scope for all
users (duplicates.go:98), so they may hold what another user may see. A throttled download ends early
when a read is larger than the limiter's burst (raw.go:45); a failed `createZip` leaves its file
behind.

## Proofs

A theorem about a module that is checked by itself, or that others EXTEND, is of its `Spec`; a theorem about a
component taken by INSTANCE is of the composition's (`FilesSpec => []UploadsAreWhole`), whose every step is
one of that component's own or leaves it alone. What proofs need of the constants are named
assumptions, of the modules or, for instances, of the compositions (`FilesAssumption == U!UploadsAssumption`);
TLC evaluates them in the runs.

`ProtectionProofs` proves for every number of requests, paths, sources and guids:
`TypeCorrect`, `PromiseKeptAlways`, `BoltCoversStateAlways`, `FileIsCurrentAlways`,
`RefusesRemovalAlways`, `GenuineRecordsAlways`. `PromiseKept` is not inductive: after a redeploy
BoltDB is empty and the promise lives in the file. The invariant therefore follows a promised
record from place to place: in BoltDB while the server is up, in memory or in the hands of the
request that will put it there, in the file whenever the mutex is free and no failed write is
outstanding, and on the list of records still to be restored during start-up. Each fault
(`torn`, `write`, `read`, `restore`, `source`) is the step at which one of these links breaks.

Its second half is about `Indexing`: `IndexTellsAlways`, for any tree, rules, casts, number of requests
and of scanners, and any number of changes. What a quick scan skips on the strength of a modification
time must be right. A directory is looked at, read, descended into and stored in steps, while requests
take entries out and refresh others, so `XInv` follows what has been read: a frame whose directory has
not changed since lists what is there (`FrameOK`); an entry that counts as current is right unless a
request is unsettled at it (`EntryOK`, `Unsettled`), that is, has still to read the directory or to store
what it read, and a removal came late, or it was put back; a request that has yet to take something out
has a refresh of that directory to do afterwards (`JobOK`), which is why an entry may be wrong then and
only then; and one scanner is at work at a time (`ScanOK`). `HeldOK` follows what an update of sizes has
read and will put back: the entry of the index itself, or one the index had, right for the modification
time it carries unless a removal from it came late (`Right`). That is why an older listing does no harm
by itself: its modification time is as old. Sizes are sums over folders, of which this proof needs only
that they are integers (`Sums`).

`SafeModeProofs` proves `TypeCorrect`, `HiddenStaysAlways` and `CoveredSharesAlways`, for any users,
items and folders that cover items. `HiddenStays` is about what opens an item (its PIN, or that of
the profile when it has none), so the proof carries `Agrees(record, hidden[u])` from copy to copy
(`HInv`): in BoltDB while the user exists, in memory, in the state file whenever no write is under
way or outstanding, in the record a request works on, and in the hands of the login that restores
it. It rests on `CInv`: a request that met no other of its user has, at each of its places, the
copy BoltDB has (`Current`), and is the only one of its user (`Unshared`). `CoveredShares` follows
from `CInv` too: at the step that would give a covered item a PIN of its own, the record looked at is
the record saved.

Its second half is about `Office`: `EditorsAgreeAlways`, for any number of tabs, documents, keys and faults.
`OfficeInv` says that a key is of one path (`OneHome`); that where nothing has set copies apart, the one open copy of
a path, and the tabs on their way to it, have the key the path has (`OneCopy`); and that what the document server was
told is saved is in the file, in the copy and in what its callback is going to save, where a handler that still has a
file open elsewhere writes only where `apart` says so (`TextKept`, with `Holds`). The attempt found two histories
that the run's bounds did not reach: with three tabs, a callback that is sent again forgets the key of those who
opened the document since; with three faults, a handler whose file was moved twice writes over a later document.
Both are in `apart` now. `OfficeAssumption`, which the run evaluates, says that `Unset` is no path, letter or tab.

Then comes `Previews`: `PicturesMatchAlways`, for any number of requests, files, contents, slots,
cancellations, changes and restarts. `SlotInv` is inductive with the types: who holds a slot is told by
where a request is and what kind its file is of, neither of which a cancellation or a change of the file
touches, and each way out of a generator gives back exactly that slot; who holds a lock is told by who
writes, and that two do not write under one key is what taking it looks at. What pictures show needs more
(`ViewInv`): a request that has looked at a file has seen the content it looked at (`Looked`); a picture
under way, answered (`Shown`) or in the cache under a key (`CacheRight`) is of the content in the key, or
it is on record that another content was read for this key (`poisoned`); and album art, which goes by its
own bytes, is never of another. `TraceInv` then says why such a picture is harmless as a rule: the
content in the key was replaced and is gone from the path, and whoever looked at it while it was there
has seen what replaced it (`Traced`). Only a move brings a content back, and then it is `returned`.

It ends with `Downloads`: `ArchivesAreRightAlways`, for folders at any depth. What is below a node is
what every set of nodes that is closed towards it contains (`Up`), so that no induction over the tree is
needed. `OnWay` says that what was there all the time is in the archive, or below what the walk has yet
to come to; `Counted` that while the index knows the sizes, what has been packed is within the sum for
which it was let in (`Sums`).

`FilesProofs` proves `TypeCorrect`, `OneSessionAlways`, `NotAfterExpiryAlways`, `StoreIsSweptAlways`. The
invariant says that a token redeemed by this process is in the store or so long expired that no
login can still be waiting with it, which needs `Stall <= Grace`: a login is not suspended for
five minutes between the two calls. That is an assumption on the scheduler.

Its second half is about `Uploads`: `UploadsWholeAlways`, for any number of clients, requests, paths,
chunks and mishaps, and any quota. `UInv` says who is at work on what: the request a client waits for is
its own and of the chunk it is at (`SentOK`, `WorkOK`), and an inode is of one path, be it there, on the
way or only open (`OneHome`). `WholeInv` says of a client whom nobody has met at its path what is where:
the chunks that were answered are the first of the temporary file (`Holds`), which is no longer than what
is sent (`Within`); there is one request that can move it, and none while the browser waits for another
(`Chunked`); a file in one piece is written by the request that is waited for (`Single`). `QuotaInv` is
about a sum over all paths: what has been accepted still fits and is alone on its way (`Fits`), and the
index lags behind what is stored by one file at most, unless a refresh is to come (`Lags`). That a sum
changes by what one of its terms does is an induction on the size of the set, for which the library's
well-founded induction serves, with a set in the place of the predicate; it is in `Sums`. The attempt
found that the quota could be passed without two uploads meeting in the index: a request that is late
writes to a file that was moved already, and nothing refreshes the index. `Grows` is that step now, and
it counts as `raced`.

`AccountsProofs` proves `AccountsTypeCorrect`, `NotReadmittedAlways`, `KeysBarredAlways`,
`KeysCountAlways` and `CodesCountAlways`, for any number of users, tokens, names, secrets and
requests. None of the last three is inductive, for a request works on copies: the user it was let in
as, the record it read again, the one `Update` read before it wrote. `KeysInv` follows the keys: none is in
two records or copies of two users (`KeysApart`), a new one is in no record, no copy and no other
request until it is written (`FreshOK`), and while `clash` does not hold for a user, the record a request
is about to write back is the one in BoltDB, and what a request has deleted is gone from it (`ListOK`).
`BarredInv` says that a save that has written the permission, and is not answered yet, is the only one
to have written it since, so that the keys it revokes are those of the record; `CodesInv` the same of the
secret, and that a save which got past the check for enforced one-time passwords sends the flag.
`KeysCountAlways` has the hypothesis `~SameSecond`: two minimal keys made in one second with one
duration are one and the same token (`makeSignedTokenAPI`, auth.go:528), and deleting the one then
revokes the other, so that nothing could be said of them.

Its second half is about `Startup`: `StartsAreKindAlways`, for any users, sources, directories and
configurations and any number of events. `ScopesKept` compares users with what they had before the start,
so `StartOK` says it of the middle of one: who is yet to be looked at has what he had (`Same`), and who
was looked at has kept it (`Kept`). That starts from `GivenOK`: down and serving, users have what is on
record for them, after a start that was cut short too. `AdminOK` says of a start under way what
`AdminComesBack` says of a complete one: once the administrator's record was looked at, it is restored
(`Restored`), which for one who logs in by another way says nothing of the password; `HomesOK` is
`HomesApart` with the users it needs. `NewOK` says that the first administrator is put into an empty
database. What is saved goes through `Convert` and `MakeUserDirs`, of which `ConvertIs` and `DirsIs` say
what they change: lists of no scopes become the defaults, and only what has a scope gets a home. The
assumption, which the run evaluates, is that the administrator is a user, that there is a password that
is not too short, and that `Nil` is none.

`AccessProofs` proves `AccessTypeCorrect`, `EntriesKeptAlways` and `BoltIsCurrentAlways`. `EntriesKept`
is not inductive, since a restart replaces memory by BoltDB; `SavedKept` adds that what was told is true
in BoltDB too, but for what the write of a shutdown set back (`SetBack`), and `CopyKept` that the copy a
shutdown is about to write is what memory holds of all that did not change since. The former holds
because a change whose save failed counts as telling nothing (for a removal that is kinder than the code, which answers that it succeeded). That rules do not share objects and none is empty (part of `TypeOK`) is what makes a
change of one path leave the others alone.

The second half of `AccessProofs` goes on from there: `CacheIsCurrentAlways` and `AnswerOfAMomentAlways`,
for paths of any depth and any number of calls and groups. `Permitted` takes the lock anew for each
directory and judges the rules it has found without it, so at no one moment need the rules have been all
it read. The invariant gives each call a state of the rules as its witness (`Follows`): the answer of
that state is one the rules had during the call (`seen`), it agrees with everything the call has read
(`Progress`), and what the call has still to read will not disagree with it. While nothing has changed
since the call began, the witness is the present. When the first mark changes, it is the rules of before
or of after, by whether the call still has that mark to read (`Unread`). A second change leaves no
witness, and there the guarantee ends. That the cache is current needs the answers: an entry is written
from a call that nothing overtook, and every change either clears the entries it bears upon or marks
them.

The last part is about `Search`: `FoundIfThereAlways`, for any number of searches, sessions, sources and
changes. `Promise` follows what a search must not miss (`wanted`) from the index to the answer. As long
as the search is the one its session knows (`OwnSession`), that is in the index and permitted
(`WantedThere`); no list that is kept or about to be, and later no list of its own, lacks the directories
it lies in (`WantedListed`); it was found, or a term that is yet to be passed finds it (`WantedFound`);
and the answer has it (`WantedGiven`). It goes by the list of another source only where one of the two
lies in the other (`AstrayNested`): two keys that are the same begin with the paths of both. A step that
lost a directory from a list under way or in the cache would break `WantedListed` of another search: that
is what the key of the cache is for.

`EventsProofs` proves `EachOnceAlways`, `PanicsOnlyAtTheEndAlways` and `TabsTypedAlways`, for any
number of tabs, users, events and any room in queues and channels. The router walks over a slice
whose array `Register` appends to and `unregister` edits in place. `RoundOK` says that as long as no tab
of the user closes during the round, the cells up to the length the router has are what they were,
each a different tab, with the served ones before its position and the ones that are due after it; appending
writes behind that length or into a new array. `UserEventsOK` and `UpdatesOK` say that an event is in one
place: not sent, in the queue, in the router's hands, or delivered. `UpOK` says that before the shutdown no
channel is closed that anybody could send on; only `EachOnce` needs "unless a tab of the user
closes", which is `shaken`.

Its second half is about `Identity`: `CookiesTellAlways`, for any number of tabs, people and
nonces. `CookiesTell` speaks of the cookie that is read, and the steps of cookies that there are: `CookieInv` says
that the browser sends one first exactly when it has one (`SessOK`), that a tab which is to be signed in holds the
identity the provider gave it (`FlowsOK`), and that what `setSessionCookie` has set is alone or was not stale
(`Newest`), which is why an older form that was left beside it would break the property.

The last part of `SharesProofs` proves the refinement `LikeBucketsAlways`: `LinksSpec => LikeBuckets`,
the specification of `TokenBuckets` with `Level` for the buckets. A limiter may be dropped only when it
is full again and nobody is about to ask it. That needs `Known` (a limiter was last used at most `Slack`
after it was last seen), `Asks` (who asks a limiter asks the one in the map, and fetched it at most
`Slack` ago) and `Apart` (addresses do not share limiters); with `Burst + Slack <= Idle` an idle limiter
has then refilled. One lemma per action says which step of the buckets it is. The assumption is the
code's ten minutes, and a request that does not stall that long between two adjacent statements.

`SharesProofs` proves before that `SharesTyped`, `DeletedForGood`, `CacheIsStored`, `LinksFollow`
(together `LinksLast`) and `LimitsHold`, for any number of links, requests, users, paths and moves, and
without the constraint of the run. The objects are pointers that requests, the cache, the move and the
flush share, so the proof begins with memory: `TInv` says what is referred to and that nothing else is
kept, `Owned` that no object belongs to two links. `Known` says that what may cost a link its guarantee
is on record as soon as two requests overlap (`excuse`); `Gone` that a deleted link has no record, no
object and nobody who could write either. `Going` is what two requests for one link leave true while none
of that has happened: `Sound` says for each place of the program what its request holds compared with the
record and the object (an editor the object of the link, a reader what is stored, the move what it has
read, the flush the objects it found), `Held` that a visit works on the link's object, `PathAlike` that
object and record have one path. `Leading` adds where a link leads in the middle of a move (`Leads`: what
the move has yet to write), and `Limited` how many downloads it lets through (`Counts`): what the link
has counted, and what the requests that passed the check have still to count, is within the limit and the
number of the other requests (`Fits`), and what was let through is what was counted but for those who
have counted for the link and not yet for the user (`Backed`); once the flush has saved a link, its
record is so too. Proving `LinksFollow` showed that it was false for a link whose record BoltDB had
dropped: the run's constraint keeps the clock from moving with a directory. `left` now says so.
`SharesAssumption`, which the run evaluates, says that there is memory for all that is referred to, that
a move stays within the paths, and that `Nil` is no data; and a move is never of the source as a whole.

The constants carry the named assumptions of the modules (`Nil` and `Torn` are not data, bounds are
naturals, there are rule objects enough for all paths, updates are of sources and differ from events for
users, every tab has an owner, `Nil` is no token, user, secret, record or request). Those of instances
are `FilesAssumption` (what is not sent in chunks is one unit long, paths and requests are finite),
`LimitsAssumption` (the ten minutes) and `SettlesAssumption` (every directory but the root has a parent,
scanners are not requests, and casts change what there is); those of `SearchAssumption`,
`PreviewsAssumption` and `DownloadsAssumption` say that data is finite and sources have paths, contents
are numbered, and folders come before what is in them.

Only checked by TLC: `DuplicatesAreEqual`, which rests on the order
of a sorted sequence and on folds over it, that is on induction over data; liveness
(`IndexSettles`, `RequestsEnd`, `SendersFinish`, `SilentSettles`), which is out of the prover's reach;
and of course every counterexample.

## Not modelled

Rendering and pure I/O (static files, locales, jobs, media metadata and subtitles, image
arithmetic), generated code (the documentation of the API, which is a quarter of the backend's lines, and the
generator of the configuration's), logging, the parsing of configuration and conditions of a search,
passwords and encryption, migrations of the database file, the segments of a ChainFS upload. In the
frontend, the sign-out of idle tabs and the unlock windows of SAFEMode are timers of one page.
Components that share state in the program and are modelled apart (rules and shares that follow a
move, the index that uploads and duplicates read) meet only through what the other may do to them:
each has the other's steps as actions of its environment (`Rule`, `Scan`, `Change`, `Rename`).

What would come next: one model of a move with all
four that follow it (index, shares, rules, thumbnails); the caches of the frontend's lists.
