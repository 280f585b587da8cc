# Formal models of the P2P file transfer program

These modules model the program's own core logic: the meeting point that lets
two people find each other by a code, the session in which a sender hosts that
code, the transfer of the files, attempt after attempt, and the program people
run, with its interface, its transfers without one, and its update. TLC checks
them on small instances, and TLAPS proves what holds for every value of the
constants.

Line numbers refer to the sources as they are in this repository;
`PROJECT.json` maps each definition to its lines.

Contents: [the system](#the-system) · [modules](#modules) · [what is checked](#what-is-checked) ·
[bounds](#bounds) · [fairness](#fairness) · [where code and comments disagree](#where-the-code-and-its-comments-disagree) ·
[what is proved](#what-is-proved) · [what is left out](#what-is-left-out) · [plan](#plan)

## The system

A sender selects files, gets a *code* (a nameplate number and some words) and
hosts a *room* under the nameplate at a meeting point. A receiver types the code,
looks the nameplate up, opens a stream to the sender, directly or through the
meeting point's relay, proves that it knows the words (PAKE), and receives the
files into a folder. Nothing is kept on the meeting point but its table of rooms.

| Component | Source | State | Operations | What makes it correct |
|---|---|---|---|---|
| Registry (meeting point) | `rendezvous/rendezvous.go` | rooms by nameplate (owner, opening time, since when the owner is gone), lookup windows per peer and server-wide, counters | register, unregister, lookup; owner gone and back; relay permission; sweep before each; restart | limits hold, no live room changes hands, an owner who is not marked as gone keeps its room, no answer is about a lapsed room, lookups are rationed without locking anybody out |
| Hosting session | `p2p/node.go` | room, `claimed`, wrong-code count, handshake slots, the `lost` signal | `Host`, `serve` (Judge, Claim), `watchOffer`, `keepRoom`/`restore`, `closeRoom`, `abandonRoom` | a code works once, wrong codes are counted once each, one goroutine closes the room, the room survives a lost connection, what dooms the room closes it |
| Offer | `transfer/offer.go` | sizes, times and digests of the selected files | background read, re-check per receiver, `SourceError` | the digest handed out is that of the file, or a mismatch is found |
| Transfer | `transfer/transfer.go`, `names.go` | the stream; leftovers, done marks and final names in the receiver's folder | `Send`, `Receive`, `resumeFrom`, `receiveFile`, `place`, sweep | saved files are whole, nothing is replaced, delivered means saved, retries make progress |
| Handshake | `transfer/auth.go` | one PAKE exchange | `authenticate` | see Hosting session: when an outcome is judged and what it decides |
| Receiving session | `p2p/node.go` (`Fetch`) | per-call; the punch watcher's waits | lookup, dial, wait for a direct route, stream, question, end | it ends, says how, and does not wait for a hole puncher that gave up |
| Node events | `p2p/node.go` (`emit`, `Events`) | a 64-slot channel, `done` | emit, drop progress, close | nobody is blocked for ever, and nothing but progress is lost while the node lives |
| Without an interface | `headless` | one node, the interrupt | `Send`, `Receive`, `pump`, the question | success and failure are told truly; an interrupt, an end or a lost room ends it |
| Interface | `tui` | screen, mode, node, room, question, code; `waitEvent`s in flight | a message or key at a time | one reader per node, a question stays until answered, the end and a running transfer get to the screen, nothing runs behind the user's back |
| Codes | `rendezvous/code.go` | none | normalise, check, join | every way to type a code means that code, and nothing else passes |
| Updater | `update/update.go` | the executable, `.old`, a temporary file | check, fetch, replace | a program is always left, the right one, verified, and never an older one |
| Client command | `cmd/client/main.go` | which command runs | main | the parts above, composed |
| Server, lists, STUN, texts | `cmd/server`, `serverlist.go`, `stun.go`, `i18n`, `safetext` | none or one-shot | I/O | — |

How they interact: the hosting session calls the registry by request streams and
learns of lost connections by a libp2p notification; the registry learns of peers
coming and going the same way; `serve` calls `Send`, which pulls manifests from the
Offer; `Fetch` calls `Receive`. Sessions report to their consumers over one
buffered channel of events, which `pump` reads in a loop and the interface with
one `waitEvent` command at a time, each of which asks for the next.

What is hard to get right, and what the properties aim at:

* **Concurrency in the session.** A goroutine per handshake, plus `watchOffer`,
  `keepRoom` and `Host`, share `claimed`, the room and the wrong-code count, under
  two locks and an atomic, with requests to the network between the accesses.
* **Notifications against requests in the registry.** A request is read before
  and handled after its connection closes; whether the peer is still connected is
  asked before the lock is taken.
* **Lazily swept state.** Rooms and windows outlive their time until something
  next sweeps them.
* **Crashes between two file-system steps.** Writing a leftover, linking it,
  unlinking it and marking it are four steps; the next attempt starts from whatever
  is there.
* **Files that change under the sender.** Sizes, digests and bytes are read at
  different times, and the stream itself marks no files.
* **Networks that fail for as long as they like** while a room must be kept or
  given up within its hour.
* **Events that wait.** A dozen goroutines wait for a place in one channel; what
  they tell was true when they began to wait. The consumer may be gone, or on
  another screen, or in another session when it is read.
* **An update that stops anywhere**, and is tried again on what it left.

`PROJECT.json` lists 40 such hazards at their lines, each with the properties
that watch it or the reason none does.

## Modules

| Module | Models | Composed of / extends |
|---|---|---|
| `Rendezvous` | the registry with its peers' connections and in-flight requests | |
| `RendezvousHistory` | the same, with what was answered | `Rendezvous` |
| `RendezvousProofs` | the theorems of both | `RendezvousHistory` |
| `Host` | one sender's hosting session | instances `SingleUse` |
| `SingleUse` | the abstract promise of a room: taken by one at a time, given back on failure, used up by a delivery | |
| `HostProofs` | its theorems, the refinement among them | `Host` |
| `Offer` | the sender's files and what is known of them | |
| `Transfer` | senders with their offers, receivers, the streams and the receivers' folder | `Offer` |
| `TransferProofs` | its theorems for any senders: types, offsets, where bytes land | `Transfer` |
| `TransferFolderProofs` | its theorems about the folder of one receiver | `TransferProofs` |
| `Codes` | normalising and checking what a person types | |
| `CodesProofs` | its theorems | `Codes` |
| `Node` | a node's channel of events, its goroutines' places, its route | |
| `Hosting` | what a hosting session tells its consumer, and when | `Node` |
| `Receiving` | `Fetch`, the wait for a direct route, the punch watcher | `Node`, `Codes` |
| `Interface` | the terminal interface | `Hosting`, `Receiving` |
| `Headless` | `Send`, `Receive` and `pump` | `Hosting`, `Receiving` |
| `Updater` | the update of the program | |
| `UpdaterProofs` | its theorems | `Updater` |
| `Client` | the program: a command and the nodes, sessions, consumers and updates it starts | `Interface`, `Headless`, `Updater` |
| `ClientProofs` | its theorems, that it implements `Updater` among them | `Client`, `UpdaterProofs` |
| `InterfaceProofs` | the theorems about the interface, the nodes it leaves behind and the code that is typed | `ClientProofs`, `CodesProofs` |
| `MCRendezvous`, `MCRendezvousHistory`, `MCHost`, `MCTransfer`, `MCClient` | small instances: symmetry, views, selections of files, codes, plans, releases | |

### Rendezvous

`Registry` takes one lock in each entry point, so each entry point is one action:
`Handle` (a request, with the sweep that precedes it), `HasPeer` (`AllowReserve`,
`AllowConnect`), `Snapshot` (the health endpoint's counts), `OwnerGone`,
`OwnerBack`. Each contains its whole handler: `dropExpired`, then the decision,
then the writes. What interleaves:

* a request is *received* into `inbox` and *handled* later;
* a connection goes `down → opening → up → closing → marking → down`; the
  Connected notification (`OwnerBack`) comes after the connection is there, the
  Disconnected one asks `Connectedness` (`Disconnected`) and only then takes the
  lock (`OwnerGone`).

`Refresh`, `OpenRoom`, `EvictAndOpen` and `RejectRegister` are the outcomes of
`register`; `FreeNameplates` is the set `freeNameplate` chooses from. Zero is Go's
zero time, so an `ownerGone` of zero is a connected owner. Addresses, which the
server only stores and gives back, are left out; a malformed request stands for all
that fail the first checks. `Restart` empties the registry and closes connections.

### Host

`pc` says where each goroutine is, and a step is what it does between two
points where another can get in: one access to shared state, one request to the
meeting point, one event. `serve` is split where the code is: the proof is made
(`proved`), judged under the lock (`JudgeRight`, `JudgeWrong`, `JudgeClosing`),
the room claimed by compare-and-swap (`Claim`, `ClaimBusy`), the transfer run
(`SendSucceeds`, `SendFails`, `SourceFails`), `claimed` cleared (`Release`).
`closeRoom` is `TakeRoom`, `RemoveHandler`, `UnregisterRoom`; `abandonRoom` is
`Abandon`, `Seal` and the same. `announce` is `Register`, `Reserve` and the
undoing `UndoRegister`, used by `Host` and `restore` alike. A request may be
carried out and its answer lost. The meeting point is seen from this sender:
`link`, `server` (who holds the nameplate), `slot`. It drops a room whose owner is away
(`ServerForgets`), and by mistake one whose owner is there (`ServerMistakes`): a
connection that closes while the next one opens can leave a connected owner marked as
gone (`rendezvous.go:365`; in `Rendezvous`: `Disconnected`, `Dial`, `OwnerBack`,
`OwnerGone`). A connection can also come up that the session did not make (`LinkReturns`,
the case of `node.go:742-744`), over which nothing is announced. Both are recorded in
`unseen`, a history variable that no guard reads and an announcement clears.

### Offer and Transfer

A content is a sequence of chunks and is its own digest. `Offer` has the
background read (`ReadNext`, `ReadSource`, `EndSource`, `ReadEnds`, `ReadFails`)
and the check before each manifest (`KeepDigest`, `DigestAgain`, `SourceIsGone`),
chunk by chunk, so that `Edit` and `Delete` get in between. `Transfer` has
`Send` (`WaitEnds` … `Acknowledged`), `Receive` (`TakeOffer` … `LingerEnds`) and
between them a wire that carries bare chunks. What file and place a chunk was read
from is recorded on the wire for the property `BytesLandWhereRead` only; the
receiver does not look at it.

The receivers' folder maps names to inodes, and inodes to contents, since
`place` makes two names of one file and a process keeps writing to a file it has
open. `Link`, `Unlink`, `Mark` are steps of their own with a crash possible between any two;
without hard links, `LookFirst` and `Rename`. An attempt ends in `failed` and
`Attempt` runs both programs again, as a user does who is still in the same room.

### Node, Hosting and Receiving

`Host` has the session step by step and its events as labels; `Hosting` has the
same goroutines as far as their consumer can tell, so that what is between two events
is one step, and the events are real: `Emit` waits for a place in the channel or
for the node to close (`done`), `EmitProgress` drops. A goroutine that waits to
emit is at a place of its own (`abandoned`, `saved`, `failed`, …) with its
effect on the room already made, which is how an event can be read after what it
tells of is past. Nine kinds of events suffice: those that only leave a note are
`notice`. `Receiving` has `Fetch` in the same way, `watchDirectUpgrade`, and the
hole puncher, which reports whenever it likes (`Trace`) to a watcher that counts
only while `waitForDirect` has an entry.

### Interface, Headless and Client

`Interface` has one action per message and per key of `Update`, on a record `ui` of the
`Model`'s fields that decide anything. `readers` counts the `waitEvent` commands in
flight, `taken` the events they took that `Update` has not seen: a key gets in
between. A command of one node can end when the interface has gone on to another;
`waitEvent` on no node at all takes the program down, so `Arm` has the outcome
`crashed`. `Headless` has a step of `pump` for each event; the question on the
terminal is a place of its own (`asking`), in which nothing else is looked at.
`Client` composes them: one command per run of the program, whose nodes take their
background steps while it runs. `Plans` says what the user sets out to do, session
after session; the keys in between are free.

### Codes and Updater

`Codes` works on sequences of runes. `Plain` says which letter or digit a rune folds
to, so that capitals, Turkish letters and separators are few and real; what is typed
is normalised rune by rune. `Updater` has each step of `Apply` with its failure, on
three files; `Die` stops it anywhere and `RunAgain` starts what is then installed.
A release is a sequence of archives, each with the word its name has for a system, the
program in it, the digest listed for it, and the release's signature.

## What is checked

Passing runs:

| Run | Instance | Properties and what they say |
|---|---|---|
| `registry_table` | 2 peers with up to 2 rooms each, 3 nameplates, a table of 2 | `RoomLimits`: two checks in `register` suffice for both limits. `LedgerBalances`: every room that was opened is still open or was counted out once, also when it lapses in two ways at once. `OnlyLapsedRoomsChangeHands`: nobody takes over a live code, no refresh extends one. `PresentOwnerKeepsRoom`: of an owner who is not marked as gone; the mark can be wrong, see [below](#seen-while-modelling) |
| `registry_lookups` | 2 peers, registers and lookups, with history | `PositiveAnswersAreFresh`: a found lookup or a relay permission is about a room that has not lapsed. `LookupRate`: windows are fixed and swept, so a peer can get more than the limit in a window's length, but twice the limit of answers span more than a window (TLC finds that one answer fewer may not). `FirstLookupAnswered`: nobody is throttled because of the others. `TypeOK` |
| `host_handshakes` | 5 handshakes, 3 slots, 3 wrong codes | `OneTransfer`, `WrongCodesCountOnce`, `UsedOnce` (the session implements `SingleUse`), `TypeOK` |
| `host_keeper` | 1 handshake, drops and returns of the connection, the meeting point's mistakes, the hour, the nameplate taken by another | `ClosedByOne`; `RoomIsKept`: when the keeper rests with no loss to hear of, a sender with a room is connected, and registered with its relay slot, but for the two losses the code cannot hear of; `RestoreEnds`: restoring ends even if the network never recovers; `DoomedRoomCloses`: used-up tries, unreadable files and a delivery each end the room |
| `transfer_safe` | 2 files, any 4 troubles, a link created or not as it comes | `SavedFilesAreKept`: what has a final name keeps it, and begins with what its digest promised, ever after. `NothingIsReplaced`: step by step, no name's file changes, but in the two ways it names. `DeliveredIsSaved`: a sender that returns nil has a receiver with every file in place. `BytesLandWhereRead`: the two sides never disagree about which byte of which file is on the wire. `OffsetsFit`: no honest receiver's offset is refused. `TypeOK` |
| `transfer_ends` | 2 files, any 2 troubles, a link created or not | `KeepTryingEnds`: a receiver that keeps trying ends up with its files or with a sender whose files are gone |
| `client_sessions` | the whole program; a sending session, or two receiving ones; one stream; every trouble; a channel of one place | `OneReader`: events never overtake each other. `QuestionStays`. `StrayNodesIdle`: a node left behind by esc runs nothing. `CodeIsUnderstood`: interface, `-receive` and `Fetch` agree on what a code is. `WatchedIsOpen`: no channel is closed twice. `ResultIsTrue`: what `-send` and `-receive` return. `AProgramIsLeft`, `InstalledIsRight`, `NeverOlder`: of updates, one after the other. `TypeOK` |
| `client_liveness` | one session or command, two streams, direct at first and never in trouble but through interrupts, failures and `Trace` | `FinishedIsShown`, `RunningIsShown`, `UpgradeIsShown`: what the user sees in the end, whatever still had to be said before. `EmittersReleased`: a closed node winds down though nobody reads. `GiveUpEndsWait`: without the deadline. `CommandReturns` |

Runs that TLC must find violated, one disagreement each: `host_reopened`,
`transfer_shared`, `transfer_resumed`, `client_waiting`; see
[below](#where-the-code-and-its-comments-disagree).

`MCClient` also has TLC evaluate that every code the program makes up
passes its own check and normalises to itself (`MCCodesAssumption`), which
`CodesProofs` proves for any words.

Every property of a passing run has a mutant in `PROJECT.json`, a plausible bug
in one mapped definition under which TLC finds the property violated. The
mutated forms stand before the definition they change, marked "Mutation".

## Bounds

| Bound | Value | Why it is enough |
|---|---|---|
| `MaxTime` | 3–5 ticks | `RoomTTL`, `OwnerGrace` and `LookupWindow` are 0–2 ticks; every order of the three deadlines, and the tick after the last, occurs |
| `MaxOpened` | 1–3 | one more room than the table holds, so eviction and refusal both happen |
| `MaxInFlight` | 1 | a request overtaken by its peer's departure needs one; handlers take one lock, so their order is that of the requests anyway |
| `LinksPerPeer` | 1 | the code asks whether *any* connection is left; the proofs cover any number |
| `Handshakes`, `HandshakeSlots`, `MaxWrongCodes` | 5, 3, 3 (source: unbounded, 4, 3) | more handshakes than slots and than tries; the proofs cover any number |
| `Handshakes` in `host_keeper` | 1 | its properties are about the keeper, the watcher and the closing; one handshake delivers, fails or uses up the one try |
| `NumFiles`, contents | 2 files of up to 2 chunks | equal files, files that are prefixes of one another, empty files; leftovers shorter than, as long as and longer than a file |
| `Buffered` | 1 chunk | the stream carries no file boundaries, so what matters is order; with one chunk the two sides are still a whole manifest or file apart |
| `HardLinks` | both outcomes, anew at each try | whether `os.Link` works is the file system's; a folder of one kind is among the behaviours. The runs for the two disagreements need a link and have only that outcome |
| `MaxTroubles` | 4 (safety), 2 (liveness) | four troubles are what the worst case found takes: three edits of one file and a crash between link and unlink, after which a saved file is written on. `transfer_safe` has them with two files, so that its properties hold with that case inside, and `transfer_resumed` shows it. The proofs cover any number |
| `MaxNameTries` | 4 (liveness), 5, and 2 in the two violations (source: 10 000) | one more than the copies the troubles and two files can make, as 10 000 exceeds what users make |
| `Capacity` | 1 (source: 64) | a full channel is what blocks emitters; with one place it is full after one event. The proofs cover any |
| `Nodes`, `Plans` | two receiving sessions or one sending | a second session is needed for what a first leaves behind; a sender's room outlives its attempts in one |
| `Serves` | 1, or 2 for liveness and `client_waiting` | a second receiver while the first one's attempt still has something to say. The proofs cover any |
| `Troubles`, `Routes` | all; none and direct in `client_liveness` | liveness is about the order of events, and a relayed route is still had by `Fetch` |
| `HolePunchAttempts` | 3 (source) | `Trace` reports one failure or a definitive one |
| `Inputs`, `WordList` | 8 and 2 | the spoken code in three spellings, and each way to fail the check |
| `Releases`, `Installed` | 9 and 2 | newer by each number, older, empty, damaged, unsigned, wrongly signed, without digests; a version and `dev` |

One assumption about time is made in the interface: `Settled`. A new session starts
only when what the closed node still had for `Update` has been handled, which takes
the program microseconds and its user a key. What can happen within
that moment is described [below](#seen-while-modelling).

`MCRendezvous` and `MCHost` use symmetry on peers or handshakes in safety runs
only. Their views leave out `reply` and `event`, which are outputs of the last step
that no action reads; action properties evaluate them on each transition, before
a state is identified with another.

## Fairness

`host_keeper` assumes weak fairness of each goroutine's steps, of the background
read, and of the hour's passing. That is what the Go scheduler and the code's
own deadlines give: handshakes, requests, dials and stalled streams all time out.
Nothing is assumed of the network: a request, a dial or a reservation may fail each
time. `Open` and the disturbances are not fair.

`transfer_ends` assumes that both programs run (`OfferStep`, `SendStep`,
`ReceiveStep`) and that the receiver's user tries again as long as the room is there (`Attempt`). A
bound on troubles means that, eventually, connections hold and files are left
alone; without it no transfer need ever end.

`client_liveness` assumes that goroutines and commands run. It assumes nothing of
the user, of the other side or of the network: a transfer may go on for as long as
its node is open, and the deadline of `waitForDirect` is not fair. Emitters that share
the channel with progress, which is made again and again, are treated strongly (`SF`):
Go queues the senders that wait on a channel in order, so a place that comes free is
theirs before any later progress. For the same reason progress itself is: a
transfer that goes on makes it again and again. An interrupt is strong too, since `pump`'s
`select` picks at random among what is ready and does not pass over one for ever.

All other runs are safety runs and assume no fairness.

## Where the code and its comments disagree

1. **Somebody new gets in** (`host_reopened`, `node.go:705`). `abandonRoom` sets
   `claimed` so that nobody new gets in, and a failing transfer clears it again.
2. **A finished file can be cut short** (`transfer_shared`, `transfer.go:804`). Two
   receivers that save the same file into one folder share its leftover; one of
   them truncates the file the other has just given its final name.
3. **A finished file can be added to** (`transfer_resumed`, `transfer.go:702`). A receiver
   that dies between the two steps of `place` (`names.go:271-273`) leaves the leftover and
   the final name on one file. `digest` takes a file's size before it reads it
   (`offer.go:227`), so a file that changes meanwhile can be offered with that file's
   digest and a larger size; the next attempt then goes on with the leftover, which is the
   finished file, and what it adds stays there although the digest does not match.
4. **A sender waits with a dead code** (`client_waiting`, `tui/update.go:172`). The room
   is abandoned while a transfer runs; the error screen for it is covered by the
   transfer's next event, and when the transfer fails the interface goes back to
   waiting, as if the code still worked.

### Seen while modelling

These are behaviours of the models that have no run of their own:

* A register handled after its peer's last connection has closed stores a room with a
  zero `ownerGone` (`rendezvous.go:460`); no notification follows, and the room stays for
  its hour. Registering a nameplate again after its room lapsed opens a room with a
  new clock.
* `restore` reads the room under the lock and registers it later (`node.go:780`); a
  `closeRoom` in between is overtaken, and the meeting point keeps the room for its hour.
* A read of the files that fails at once lets `watchOffer` close the room between two adjacent
  statements of `Host` (`node.go:526-527`), which then installs the handler of a
  closed room.
* While `-receive` waits for an answer on the terminal, `pump` looks at nothing else
  (`headless.go:188`): an interrupt or the sender's going away ends it only after the
  line. `CommandReturns` says so in its conclusion.
* An event that was taken just before the key that ends its session is handled after
  it (`tui/update.go:416`): an error appears over the menu, or `waitEvent` is
  called on no node. `Settled` keeps this out of the next session only.
* A retry fetches a finished file again if it was saved under a numbered name: `resumeFrom`
  looks for it at its target only (`transfer.go:693`), though `place` may have put it
  elsewhere, and saves it once more. `transfer.go:920-922` means it not to ("so that if a
  later file fails, the retry does not fetch this one again").
* The keeper can rest with a connection and without a room or a relay slot, so that the
  sender does "sit on waiting" (`node.go:725-729`) until the connection drops again or the
  hour is over. It goes on without announcing when the connection is back "by some other
  path" (`node.go:742-744`), although the slot went with the old connection. And it hears
  nothing when the meeting point drops the room over a connection that is up
  (`rendezvous.go:365`). `RoomIsKept` names both (`unseen`).
* The watch for a hole puncher begins when the connection is there (`node.go:966`); a
  definitive failure reported before is not counted, and the wait lasts its whole
  deadline.

## What is proved

`RendezvousProofs`, for any peers, nameplates, ranges, limits and bounds that meet
the assumptions of `Rendezvous`:

* `RegistryIsSound`: `RegistryInv` is an invariant, where `RegistryInv` is `TypeOK`,
  `RoomLimits` and `LedgerBalances`. It is inductive as it stands. The limits need
  the types, to speak of numbers of rooms; the ledger needs lemmas on how sweeping,
  opening, evicting and closing change the cardinality of the table.
* `RoomsKeepOwners`, `PresentOwnersKeepRooms`, `YesIsFresh`: the action properties
  `OnlyLapsedRoomsChangeHands`, `PresentOwnerKeepsRoom`, `PositiveAnswersAreFresh`,
  each by a lemma per action under the types.

and of `RendezvousHistory`, for the same:

* `FirstLookupsAreAnswered`: `FirstLookupAnswered`; `LookupsAreRationed`: `LookupRate`.
  Both compare an answer with earlier ones, so `HistoryInv` ties the server's windows
  to the log of what was answered (`LogFits`). A window that has started counts the last
  `count` answers of the log: those are not older than its start, and whatever came a
  limit or more before them is older by more than a window. Of an empty window,
  which a sweep leaves or the server starts with, it says that whatever came a limit
  before the next answer is older than a window (`OneLimitBefore`). So an answer that
  starts a window has at most one limit of answers within a window before it, and at
  most a limit of them can follow in the same window. Sweeps only empty stale windows,
  only `AnswerLookup` starts or counts in one, and a window that counts nothing never
  throttles, under pressure or not. An empty window counts as stale because it starts
  at zero, Go's zero time, which is why the clock starts after one window
  (`StartTime`).

`HostProofs`, for any handshakes, slots, wrong codes and disturbances:

* `SessionIsSound`: `HostInv` is an invariant. `OneTransfer` alone is not inductive:
  that a second handshake cannot claim the room needs `HolderHasClaimed` (who has
  the room has set `claimed`, and only its holder clears it), which after a delivery
  needs `DeliveredLeaves` (a handshake that delivered never gets to `Release`).
  `WrongCodesCountOnce` needs `JudgedOnce`. `ClosedByOne` needs `HostIsFirst`:
  `Host` sets the room when nothing else is running yet.
* `CodeWorksOnce`: `Host` implements `SingleUse` under the mapping `holder` = who has the
  room, `used` = something was delivered. Under `HostInv`, `Claim` maps to
  `Take`, `Release` to `GiveBack`, `SendSucceeds` to `Deliver`, and every other step
  to a stutter.
* `RoomStaysKept`: `RoomIsKept`, by `KeptInv` on top of `HostInv`. `RoomIsKept` speaks of a
  keeper at rest; to come to rest again it must have kept more: from the announcement on,
  by `Host` or by `restore`, the meeting point has what belongs to the room if the link is
  up and is the one it was announced over (`HeldThere`, with `unseen` for the other links),
  and if it is not, a notice or the signal says so (`LossIsSignalled`).
  A keeper that has just taken the signal knows only the first, since the signal
  may be of a loss that is already mended. Who unregisters a room has taken it first, which
  is `ClosedByOne`.

`TransferProofs`, for any number of senders, files, chunks, buffers and troubles:

* `TypesHold`, `OffersFit`, `BytesLand`: `TransferInv` is an invariant. The stream marks
  neither files nor places, so that `BytesLandWhereRead` needs to know where the next
  chunk is *expected*: `InOrder` says that the chunks on the wire follow one another from
  where the receiver is to where the sender is, and `Meets` what may lie between two
  places that follow (the end of one file, files the receiver has all of, the offset
  another is resumed at). That needs both sides to go by the same offsets (`Agrees`),
  which they exchange in an answer that may still be under way, hence `TakesTurns` (who
  speaks when), `HasManifest`, and `SenderFits` and `ReceiverFits` (offsets fit the
  manifest of this attempt, of which `OffsetsFit` is a part). What is said of a stream is
  said of its five values, and each step of either end is a lemma about these.

`TransferFolderProofs`, for one receiver in the folder (`OneReceiver`) and any number of
attempts, files, contents, names to try, troubles of every kind, and link outcomes:

* `SavedAreKept`, `NoneIsReplaced`, `DeliveredMeansSaved`: `FolderInv` is an invariant,
  `TransferInv` and `SavingInv`. Only a leftover is written to, so a name is safe unless a
  leftover is the same file. `Apart` says that no two leftovers are one file, and
  `SharedIsPlaced` that a leftover which has a file's name too (between `link` and
  `unlink`, or after a crash there) is the leftover of that very digest: what a receiver hashes of it is then what is on the disk (`LeftoversAreKnown`),
  it resumes at its end, and writing on it only adds (`KeepsFiles`). `DoneIsSaved` carries
  each finished file to the answer at the end, and `EndIsTrue` that answer to the sender.
* `SavedAreWhole`: `SavedFilesAreWhole` in every behaviour without `SavedIsResumed`. It is
  not a property of the code, since `transfer_resumed` reaches `SavedIsResumed`; it says that
  this is the one way to break it: no crash, edit, missing link or number of attempts
  does unless a receiver resumes a leftover that is still linked to a saved file, under a
  manifest that has that file's digest and a larger size.
* `NoneIsReplaced` names the two moments at which a name's file does change: that one, where
  the file gets longer, and `Rename`, which on a file system without links replaces what
  came up since `LookFirst`. That this is never a file the program saved is part of the theorem.
* One receiver is needed: two of them in one folder share a leftover, which
  `transfer_shared` shows.

`UpdaterProofs`, for any systems, releases and versions that meet the assumption of
`Updater` (archives are named for what they hold; a right signature is over the
digests of what was built):

* `UpdateLeavesAProgram`, `UpdateInstallsTheRightProgram`: `UpdaterInv` is an invariant.
  `AProgramIsLeft` is not inductive: `MovedAside` says where the old program is at
  each step, and `Prepared` that what is about to be moved in is a program.
  `AllRight` carries "the publisher's, if there is a key, and for this system" through the
  archive and the three files; its base is the lemma `FindAssetFits`, on names and
  aliases.
* `NewerIsAnOrder`: `IsNewer` is irreflexive and transitive on versions of any lengths.
* `UpdateNeverGoesBack`: assuming that an archive holds the version its release is of
  and that versions have up to three numbers below a hundred (`HoldsItsVersion`),
  `NeverOlder`. `ForwardInv` carries "newer than the program that runs" along the same way.

`ClientProofs`, for any nodes, streams, capacity, troubles, plans and inputs:

* `ClientUpdates`: `Client` implements `Updater`, so that the above holds of the whole
  program (`ClientKeepsAProgram`).
* `ResultsAreTrue`: `HeadlessInv` is an invariant. `ResultIsTrue` speaks of what
  `pump` returns, and `pump` knows only events; so the invariant says that what is in
  the channel is true (`NewsIsTrue`), that what a goroutine is about to put there is
  (`TidingsAreTrue`), that there is no room, and nobody who could tell of one, before
  `Host` has announced it (`HostComesFirst`), and that a sender is never asked anything,
  so that no "no" ends it (`SenderOnlySends`). Lemmas on the channel say what an emitter
  adds and what a reader leaves, for a channel of any length.
* `WatchedStaysOpen`: `WatchedIsOpen`, with the types of the two functions.

`InterfaceProofs`, for any nodes, streams, capacity, troubles, plans and keys:

* `ProgramTypes`: the types of `Client`, with the channel's places. An emitter adds at most
  one event and only where there is a place; a reader leaves the channel shorter.
* `OneReaderIsEnough`, `QuestionIsNotCovered`, `StrayNodesRest`: `InterfaceInv` is an
  invariant; none of the three is inductive. A node's first `waitEvent` is started when
  it has connected, each later one by `Update` on the event of the one before, but
  for the node that is then the session's. So `OneReader` needs that only one node is to
  come (`OneConnects`), and that nodes which are not the session's have no event
  with `Update` (`StrangersIdle`, `ClosedAreSettled`). `StrayNodesIdle` needs
  `ChoosingIsIdle`: a session can be left without closing its node only on a screen where
  nothing has been asked of the node yet. That no late answer of `Host` brings such a
  screen back is `HostIsAwaited`. `QuestionStays`: a question is covered by most of what may
  come after it, so `QuestionIsLast` says that only a connection that became direct
  does, wherever the question is: in the channel, with `waitEvent` or on the screen.
  For that, whoever asked must still be waiting (`Asked`, `AnswerIsLater`), and nobody
  else may have anything to say of that node (`FetchIsAlone`).
* `ClosedAreSettled` rests on the guard `Settled` of `Interface`, the assumption about time
  made [above](#bounds). TLC finds `OneReader` and `QuestionStays` violated without it;
  `StrayNodesIdle` it does not, though its proof here goes by the same invariant.
* When the program has ended its goroutines still take steps; then only the three
  properties are claimed (`Promise`), which the invariant carries on unchanged.
* `HostingAssumption` says that a route is direct or not.
* `CodesAreUnderstood`: `CodeIsUnderstood`, if what users type is as `UserHasOneCode`
  says: one code of two listed words and a server's nameplate was told to them, and
  what they type either normalises to it (a way to spell it) or is no code at all. That
  is a statement about the constants, which holds in the instance TLC checks. `CodeInv`
  follows the code from where it is entered: a node that is called by `Fetch` has the
  code that was spoken (`FetchHasTheCode`), and an error stands next to the code field
  only for what is no spelling of it. It rests on `CodesProofs`, since the code
  is normalised and checked by the interface or the command, and by `Fetch` again.

`CodesProofs`, for any letters, digits and words that meet `CodesAssumption` (a letter or
digit folds to itself, a hyphen to nothing; words are of letters and not empty):

* `MadeCodesAreUnderstood`: a made code passes `CheckCode`, is its own normal form, and
  gives its nameplate back. `CheckedTwiceIsTheSame`: the normal form of anything `CheckCode`
  accepts is accepted again and is its own normal form.
* `NormalizeCode` flattens what it writes rune by rune with a recursive function, so this
  is induction over data. The library's induction theorems take an operator and cannot be used; its
  `WFMin`, the existence of a least element, can: `AllNumbers` derives
  induction over an interval from it, for a set instead of a predicate, and
  `FlattenJoins` with it what `FlattenSeq` computes. `Tidy` describes what is written so far
  (only letters, digits and single hyphens, none before the first of the others and one
  between a letter and a digit that follows it); `Normal` is a tidy code without a last hyphen. What
  `NormalizeCode` returns is normal (`NormalizedIsNormal`) and what is normal it leaves
  as it is (`NormalIsKept`).

Only model-checked:

* `RestoreEnds`, `DoomedRoomCloses`, `KeepTryingEnds` and all of `client_liveness`:
  liveness under fairness, which the prover does not do.
* The folder with two receivers, as far as `transfer_shared` goes.

## What is left out

In the modelled parts:

* *Registry:* addresses and signed records, the relay's byte limits, the lookup and
  rejection counters of `Stats`.
* *Session:* one meeting point stands for the list that `reconnectOrder` goes
  through. `Close` of the whole node and the event channel are in `Hosting`, not
  in `Host`.
* *Handshake:* the cryptography. Its outcomes are right, wrong and none.
* *Offer:* the walk of the folders (`Collect`), cancelling the read.
* *Transfer:* compression and framing (a chunk is one value, compressed or not),
  heartbeats while files are read, deadlines (their effect is a lost connection), path
  and symbolic-link checks, failures of the disk, and whatever a dishonest peer might
  send. A file's look-up in `resumeFrom` is one step. Every edit changes a file's
  modification time; an edit that restores both size and time is not seen by the code
  either, and ends in a checksum mismatch. SHA-256 is taken to be injective.
  After a mismatch the receiver closes the stream behind its answer.

* *Node and consumers:* one peer per node; `Receive` inside `Fetch` is reading,
  progress and an end, since `Transfer` has it in detail; drawing, the pickers, which
  files are picked, language, paste, and the figures that are only shown. What is on
  the code field is what was last entered.
* *Codes:* the choice of the words, which is random; the sample of letters stands for
  an alphabet.
* *Updater:* a download or an archive succeeds or fails as a whole; the bytes of
  signatures and archives; names of machines.

Not modelled: the server process (flags, its key file, the health endpoint's transport),
the server list and STUN, translations and text cleaning. They keep no state of
interest once the process is up, or are pure I/O.

## Plan

Done, in this order, the most important behaviour first:

1. `Rendezvous`, its runs and proofs; `RendezvousHistory`.
2. `Host`, `SingleUse`, their runs and proofs.
3. `Offer`, `Transfer` and their runs; `TransferProofs`, `TransferFolderProofs`.
4. `Node`, `Hosting`, `Receiving`, `Codes`, `Interface`, `Headless`, `Updater`, and
   `Client`, which composes them; `UpdaterProofs`, `ClientProofs`, `CodesProofs`,
   `InterfaceProofs`.

Next:

5. `Meeting`: `Rendezvous` with several `Host` keepers, restarts of the server
   included; the abstract meeting point a session assumes, shown to be implemented; and
   `Hosting` shown to be what `Host` tells.
