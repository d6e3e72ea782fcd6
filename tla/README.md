# A TLA+ model of oh-my-forge

oh-my-forge is three things in one repository: a catalogue of prose for language
models (agents, skills, commands, templates), the shell scripts that install it,
and two programs. **erc-llmd** (Rust, `erc-llmd/`) is a chat daemon on a
Unix-domain socket, with a codec for the TOON format and an Emacs client. **omf**
(Go, `omf/dispatch/`) launches backends, each in its own account, and loads
local models, with the help of **omf-core** (Rust, `omf/core/`), a memory guard
and a reader of secrets.

This directory models the parts of these programs that have a state and an
environment that can surprise them. `PROJECT.json` maps every definition to the
lines it stands for. Paths below are relative to the repository's root.

Contents: [Inventory](#inventory) · [Modules](#modules) · [Runs](#runs) ·
[Divergences](#divergences-found) · [Fairness](#fairness) · [Proofs](#proofs) ·
[Not modelled](#what-is-not-modelled) · [Open](#open) · [Use](#use)

## Inventory

### The chat daemon

| Component | State | Operations | Interacts with |
|---|---|---|---|
| Server state (`server.rs`) | clients by id (nick, user, registered, capneg, socket), channels by folded name (members, topic) | NICK, USER, CAP, JOIN, PART, PRIVMSG, NOTICE, TOPIC, NAMES, QUIT and the read-only commands; add and drop a client | called by every read loop under one mutex; writes to all sockets |
| Read loop (`client.rs`) | an accumulation buffer per connection | read a chunk, take a line, clear an oversized rest, end | the socket; hands lines to the server state |
| Accept loop and threads (`lib.rs`) | the listener, the next id | bind, accept, spawn a thread per connection | the file system; the mutex |
| Wire parser (`parser.rs`) | none | parse a line | server state |
| TOON codec (`toon.rs`, `toon.el`) | none | encode, decode, fold keys, expand paths | command line, Emacs |
| Emacs client (`elisp/`) | the choice of a server | probe, dial, fall back to an embedded server | the socket |

*Hard:* threads run the handlers of different clients in any order; a handler
writes to other clients' sockets while it holds the mutex, and may block; QUIT
drops the client and leaves its thread reading; EOF may come at any point; the
clients learn about each other only from the lines they read.
*Correct when:* member lists hold live clients, names are unique under case
folding, registration completes in any order of its parts, what a client was
told is what is the case, lines are whole and in one order, memory is bounded,
and a stalled client stalls the others at most until it goes.

### The launcher and its helpers

| Component | State | Operations | Interacts with |
|---|---|---|---|
| Dispatcher (`app.go`) | none of its own | `omf <profile>`, `llm`, `doctor`, `resume`, `hist` | all of the below |
| Manifest (`manifest.go`, `manifest.rs`) | backends with kind, route, argv, allowlist, limits | parse, validate, clamp | dispatcher; omf-core's guard |
| Account routing (`router/`) | a compiled table of two accounts | resolve a profile, build the child's environment, execute | the caller's environment; secrets |
| Secrets (`secrets.rs`, `omfcore.go`) | a keychain cache written by the shell | `secrets env`, `read`, `status` | router, as a subprocess |
| Model service (`llm/service.go`) | none | list, load, unload | two HTTP model servers; the guard |
| Memory guard (`guard.rs`) | a lock file | `admit`, `lock`, `caps` | model service, as a subprocess |
| Doctor, history, resume, registrar | none, or a cursor in a picker | reports and pickers | |

*Hard:* omf-core is looked for, and then run later, and may come and go between;
its lock ends with its process; the cache is rewritten by shells; processes are
killed; sizes come from outside and are rounded in fixed-width arithmetic.
*Correct when:* a child has the environment of its own account and nothing of
the other; a launch is refused before it has asked for anything; secrets only add, all or none;
the budget is exact; every load ends and leaves no lock.

### The scripts

`install.sh`, `omf-update.sh`, `uninstall.sh` and `migrate-from-v1.sh` copy,
back up and remove files, line by line, and can be interrupted at each. The state is the
target directory and the backup directories in it.
*Correct when* nothing of the user's is lost and the uninstaller removes what the
installer installed. `omf-orchestra.sh` types into tmux panes. The rest (agents,
skills, commands, templates, design system, `.just`) has no state.

## Modules

| Module | Models |
|---|---|
| `Ircd` | every handler of `server.rs`, with the connection's life cycle |
| `Partyline` | what the chat room promises (abstract) |
| `IrcdRefinement` | `Ircd` as an implementation of `Partyline` |
| `ReaderLoop` | the read loop of one connection |
| `Threads` | accept loop, serve threads, the mutex, blocking writes |
| `LineLog` | what the daemon promises about the lines it writes (abstract) |
| `ModelLoad` | concurrent `omf llm load`, with the guard |
| `Launch` | `omf <profile>`: manifest, routing, environment, secrets |
| `Manifest` | the two readers of `omf.toml`, `manifest.go` and `manifest.rs` |
| `Installer` | `install.sh`, `uninstall.sh` and `omf-update.sh` on one target |
| `ToonText` | `toon.rs`: keys, strings, numbers and headers, written and read |
| `Toon` | `toon.rs`: lines, arrays and objects, folding and expansion, and the filters `toon dec` and `toon enc` |
| `MC*` | the instances that are checked |
| `*_proofs` | the theorems |

### Ircd

One handler is one step, because it runs under the mutex from beginning to end;
lines of different connections interleave freely. The fields of `Client` are
functions of the id, `channels` the channel map's keys, `members` a bag per channel,
since the code keeps a `Vec`. `live` is the client map, `reading` the serve
loops: QUIT takes an id out of the first and not of the second, so a client that
has quit goes on issuing commands (each handler's early returns decide what comes
of it), and its EOF drops it again. Names and channels are tokens with a
case-folding function `Lower`, as the code keys channels by `to_ascii_lowercase`
and compares nicks so.

The lines written to a socket are folded into `seen` and `seenTopic`, what a
client that reads in order believes after the last of them (JOIN, PART, NICK,
QUIT, 353, 332 and TOPIC lines); `heard` is the latest delivery. They are
history variables: no guard reads them. A client recognises its own JOIN and PART by
connection. JOIN and PART take a set of targets (the comma list); the order within
the list makes no difference to the state at the end of the handler.

Consequences of the code kept as they are: TOPIC needs neither registration nor
membership, even an id that has quit may set one; anybody registered may speak into a
channel without being in it; a nick change of a client in no channel is echoed to nobody.

### Partyline and the refinement

`Partyline` has people, rooms and topics, and every roster follows in the same
step (`InStep'` is a conjunct of its next-state relation). `IrcdRefinement`
maps people to *registered* clients and rosters to `seen`. What this adds to the
invariants is atomicity and identity: a person leaves all rooms at once, a
rename keeps a person where it is, and no sequence of protocol lines does
anything that is not one such act.

### ReaderLoop

The peer's bytes are fixed at the start (`stream`, of four kinds of byte) and
arrive in chunks of any size. The buffer always holds a contiguous piece of the
stream, so it is two indices, `from` and `read`. `LineEnd` strips the CR,
`TextLength` is the length after lossy decoding (a stray byte becomes three),
`Accepted` is the test of `handle_line`.

### Threads and LineLog

`Threads` opens up what is one step in `Ircd`: a handler takes the mutex (`Lock`), makes
its writes one at a time, a line being two of them (`Write`, which waits while the socket is full
and drops the piece when the peer has closed), and releases it (`Unlock`). The
handlers are reduced to their audience: JOIN, PRIVMSG, PING and QUIT, and the drop
at EOF, on one channel. `LineLog` says what the peers may observe: one order of
commands, of which each peer reads the lines meant for it (`For`), complete and in
order. The mapping counts the complete lines each peer has read; the last of them is `LastRead`.

### ModelLoad

Each process asks for the size (`SizeFound`, `ListFails`), screens it against
the budget, has a helper try the lock (`Probe`, `ProbeExits`), has it admit the size
again (`Admit`, or `GuardFails` when omf-core has gone), and posts the warm-up.
Processes may be killed at any point, and omf-core be installed or removed
(`Reinstalled`). The helper of a process that is killed may die with it, or keep the lock until it
exits by itself (`OrphanExits`). `Ceil` computes in integers modulo `Modulus`.

### Launch

The caller's environment, login and manifest are arbitrary; a value is the set of the
places its paths lie in, a row what the parser makes of a `[[backend]]` table.
`Load` validates and wires the secrets provider, `Resolve` and `ResolveFails`
are `ResolveProfile` with its refusals in order, `BuildEnv` filters and sets
names, `AskVault` runs omf-core and `Collect` takes what it has answered. omf-core is a
process of its own: it reads the cache (`CoreReads`), writes the listed pairs to a pipe
(`CoreWrites`), and ends well (`CoreDone`) or not (`CoreFails`), after any of them, or never.
The values of the vault go into the environment as they are, whatever paths they mention: the code
looks at none of them. `CacheRewritten` and `Reinstalled` are the rest of the
host. `asked` remembers what the vault was asked for, `seen` what the cache has been since.

The names go to omf-core joined by commas and are split again. The model sends the set: no name
of a cache or of a shell's environment has a comma. A manifest that lists such a name, which would ask for its
parts, is outside the model.

### Installer

An item is what the scripts handle by name: the file of an agent, command or
template, the directory of a skill. A content is a set of pieces, of which a file has
one. One command of a script is one step: choosing the next item (`Take`),
`backup_if_exists` (`BackUp`), `rm -rf` (`Remove`), `install` or `rsync` (`Copy`), `mv`
into the backup (`MoveAway`); `Interrupted` ends the script at any of them and leaves
what the command may leave: a torn file, or any part of a directory. Before and between the runs the
user writes and the checkout moves to another release. `wanted` remembers what
the user has written and not replaced, nor given up by running with `--force` (so does
the updater); no guard reads it. Each run has its own backup
directory: the names come from the clock, in seconds, and a name that is used twice is outside the model.

### Manifest

The dispatcher's `Parse` is a loop over lines that carries three things along: the
backends so far, the one being read, and whether it is in its limits. It is the state
machine here, one action per kind of line (`Backend`, `Limits`, `TopLevel`,
`LimitEntry`, `BackendEntry`, `LineRefused`), then the checks at the end (`Parsed`) and the
rest of `LoadFile` (`ClampAll`). The floor's reader in Rust is declared and not
written: serde derives it from the structs. It is modelled as what a file means: which
lines belong to which table (`Within`, `KeyLines`, `Entries`), what TOML and the structs ask for
(`IsToml`, `CoreReads`), and the values (`CoreBackends`, `CoreLimits`). A file is a sequence of
table headers and of keys with typed values; a backend is named by the line its table begins at.
A header may also be of a table the structs do not have, at the top (`[other]`) or in a backend (`[backend.other]`): serde
ignores it with all it holds (`Ignored`), and the dispatcher refuses it. A header that is no TOML is a third kind.
Tables of kinds, routings, managed names and limits are written twice, as in the code.

### ToonText and Toon

The codec is pure, so it is operators, in the structure of the code: one per
function of `toon.rs`, the parsers taking a place among the lines and giving back a
value and the next place. Text is kept character by character where the properties
are about it, which is in `ToonText`: quoting, escapes, what looks like a number, where a
delimiter counts. Byte scans that the code repeats (`scan_braces`, `split_delimited`,
`is_row_terminator`) rest on one quote-aware scan, `Scan`. A line is its depth and its text. A
number is the decimal text that Rust's `Display` gives the parsed double, exact for the
short decimals of the instance; `canonical_number` therefore starts from the token.

The behaviours are those of the two filters: a value is written, what was written is
read, and it is written once more; or a document that nobody need have written is read first.

## Runs

| Run | Instance | Question |
|---|---|---|
| `ircd_members` | 3 connections, 5 name tokens (one name in two spellings, one invalid), a channel in two spellings, 2 topics | Is the server's state consistent, and does every client know it? |
| `ircd_rooms` | 3 connections, 3 names, 2 channels, single and multi-target lines | Does the server implement `Partyline`? |
| `reader_loop` | all streams of 6 bytes, chunks ≤ 3, buffer 3, line cap 2 | Is framing right for every chunking, and the buffer bounded? |
| `reader_cap` | the same | Are long lines dropped? (No: see below.) |
| `threads` | 3 peers, sockets that hold half a line, a JOIN, a PRIVMSG, a QUIT and an EOF under way, one peer that may stop reading | Do peers read whole lines in one common order; does a stall end when its cause goes? |
| `model_load` | 2 processes, GiB = 4, budget 2 GiB, 32 values, sizes around both edges | Is the budget exact; does everything end? |
| `launch` | 6 manifests, 3 environments, 2 caches and none, every login; an omf-core that fails or hangs anywhere | Whose environment does the child get, and which secrets? |
| `manifest` | every file two edits make of a 4-line manifest, or one edit of two of 11 and 16 lines; 29 lines to insert; words of 16 values | Do the two readers see the same manifest, and what comes of what they see? |
| `toon` | texts of ≤ 2 characters out of 17 in 13 places and under 3 delimiters; values of ≤ 3 levels, plain and folded, arrays of up to 100 items; documents of ≤ 3 lines; numbers of ≤ 4 characters | Is what was written read back? |
| `toon_list_items` | the values, strict and plain | The same without exception? (No: see below.) |
| `installer` | an agent of the second release, a skill that grows, a template; 2 runs, 2 texts | Is anything of the user's lost? |
| `installer_templates` | the same | Are existing templates respected? (No: see below.) |

What the properties say, and the code they are about, is in the comment above
each of them. The ones that carry most:

- `ViewsAgree` (`Ircd`): what a client was told, line by line, is the true roster and
  topic of each channel it is in. Every handler has a part in it: it fails when one
  writes to the wrong audience, or computes the audience before or after the
  change on the wrong side.
- `MembersAreLive`, `NicksDistinct`, `RegistrationComplete`, `IdentityIsKept`:
  over lines of clients that have quit, case variants, and registration in any order.
- `ImplementsPartyline`, `ImplementsLineLog`: the two refinements.
- `HandledAreLines`, `ShortLinesAreHandled`: what is handled is a line, from its first byte to its
  last, or the tail of one that has outgrown the buffer; everything within the cap is handled.
- `NothingIsLost` (`Threads`): read, in the socket and still to be written are
  together exactly the lines meant for a peer. `StallsEnd`, `ClosedPeersLeave`.
  They hold once the peers that may stop reading (`Mute`) have closed: a stall has no end of its own.
- `BudgetIsExact`, `LoadsEnd`.
- `ReadersAgree` (`Manifest`): where both readers take a file they have read the same manifest.
  `SameFilesAreTaken`: they take the same files, but for the differences that `Usual` lists.
  `RoutedIsWithinFloor`, `ClampsAreLogged`.
- `RoundTrip` (`Toon`): every string, key and structure comes back, in every place and under every
  delimiter. `WrittenIsAccepted` and `NormalFormIsStable` ask for less where the value may
  not come back: the reader takes what the writer wrote, and a second pass
  changes nothing. `FoldingKeepsKeysApart`, `NumbersKeepTheirValue`.
- `ChildEnvIsItsAccounts`, `AsksOnlyForCredentials`, `InjectionOverridesNothing` (`Launch`).
  `SecretsAreWhole`: the secrets of a child are all those of one cache, or none, though omf-core writes them one
  by one and the cache is rewritten. `SecretsAreNotFatal`: without them the launch goes on, unless omf-core never ends.
- `NothingIsLost` (`Installer`): over install, uninstall, interruption and retry, a text
  of the user's is in place or in a backup.

**Bounds.** Three connections are needed, and enough, for an actor, a peer that sees it
and a bystander; five name tokens give a collision by case, a change of spelling of one's own
name, and a free name; two channels the multi-target lines. Six bytes with a buffer of three
and a cap of two give a buffer that overflows in the middle of a line, a line that is whole after it,
CR and stray bytes at every place. Half a line of socket makes every line block between
its two writes. Two processes give every overlap of two helpers; the sizes are
on, below and above the budget, and on both sides of the overflow. The manifests have
one backend of every route and one defect of each kind. Two runs of the scripts give an
interrupted one and the one that repairs it, on either side of a change of release; a third,
which only takes longer, shows nothing else. Two edits of a manifest give every pair of a missing, doubled, misplaced or wrong line, and one
edit of the longer ones a limit or a backend that is cut in two. Two characters are enough for a text that begins or ends
with, or consists of, each character some rule is about; three, four and five only matter for numbers and the
reserved words. Three levels put an object in a list in a list, where the depths of writer and reader
must match; two members give a first field and one that follows it. None of the modules has a bounded counter in a guard; ids
are the set `Conn`, each handed out once, as `next_id` does; backup directories the set `Dir`. `CHECK_DEADLOCK FALSE` is set
where the system may come to its end: all connections used up, all scripts
finished, all loads over. Connections are symmetric in `Ircd` (ids are never
ordered), so symmetry is used there, in runs without liveness.

Each property has a mutant in `PROJECT.json`: a definition changed the way a
plausible bug would change it (the seeded faults in the modules), under which TLC finds
the property violated.

## Divergences found

- **Long lines** (`reader_cap`, `LongLinesAreDropped`). `erc-llmd/README.md:21` says
  that lines over 8192 bytes are dropped. Up to `MAX_BUFFER` they are; when
  the buffer is cleared in the middle of a longer line, the tail of that line is taken
  for a line of its own.
- **List items** (`toon_list_items`, `StrictRoundTrip`). `main.rs:22-23` calls `toon dec` "a strict
  round-trip / normalizer". An item of a list whose first field is an object with fields of its own, or an
  empty one followed by other fields, is written with all of them at one depth, and is read back as
  one object: `[{a:{b:1},c:2}]` becomes `[{a:{b:1,c:2}}]`, without an error. `toon.rs:592-595` and
  `1448-1450` both say that the inner fields are two levels down, and the elisp encoder puts them there.
  `RoundTrip` and its companions exclude such values by name (`NoLeadingObject`).
- **Templates** (`installer_templates`, `ExistingFilesRespected`). `README.md:66` says that the
  installer respects existing files. Agents, commands and skills are backed up before they are
  replaced; `install_templates` writes over what is there. (`--overwrite`, of the
  same line, does not exist.)

Known and without a run of their own, because the code or its documents say as much, or
nothing says otherwise:

- *Single flight.* `guard.rs:10` says that two heavy runs cannot overlap. The lock is held by a
  helper that has ended before the load begins; `omfcore.go:244-246` calls it a best-effort probe. In
  `ModelLoad` two processes reach the warm-up at the same time.
- *The manifest's readers.* `manifest.rs:3-5` wants the dispatcher to mirror its structs
  exactly. Limits need all three values in Rust, and default to zero in Go; a repeated key is an
  error in TOML, and the last one counts in Go; `danger_allowed` may be `0` or `1` in Go; a
  version over 32 bits is an error in Rust, and is cut in Go; a missing routing is `none` in Rust,
  and an error in Go, as are repeated names, unknown keys and unknown tables (`[other]`, `[backend.other]`),
  which Rust ignores. `Usual` is this list. `manifest.rs:194` says that
  `omf doctor` calls the Rust `validate`; only tests do.
- *TOON.* The objects of a table lose the order of their keys, against `toon.rs:29`; a header with both columns
  and values in line is a table in a field, and a list in a list item; path expansion takes every dotted
  key for a folded one (quoted ones apart).

## Fairness

`Ircd`, `Partyline`, `Installer`, `Manifest` and `Toon` have none; everything said of them is safety.

`ReaderLoop`: weak fairness of reading and of the scan. The thread blocks only in
`read`, and bytes that were sent arrive. Closing is not fair.

`Threads`: weak fairness of each thread's steps, of accepting and of a peer's
reading, unless it is one that may stop (`Mute`). Sending and closing are not fair.
The mutex of the code is not fair either, and weak fairness of `Lock` assumes only that a
thread gets it if it stays free: a thread can be overtaken by another, but only a finite
number of times, because the scripts are finite. With an endless supply of commands the
liveness properties could not be claimed.

`ModelLoad`: weak fairness of each process: `app.go` runs a load under a time-out, and
`flock` is tried without waiting. So is the end of a helper whose process was killed, since
it waits for nothing. Killing and reinstalling are not fair.

`Launch`: weak fairness of the dispatcher's own steps. omf-core, which is run without a
deadline and may wait for a keychain that waits for its user, has none: it may never end, and
`SecretsAreNotFatal` names that case. The rest of the host is not fair.

## Proofs

TLAPS checks all of the following for every value of the constants that satisfies the
modules' `ASSUME`s (names are in the folding function's domain, channel and
nick tokens do not fold together, sizes are natural numbers, safe names are not managed ones,
a release ships a file at most once and nothing of the user's).

**`Ircd_proofs`** — types, then one layer on another, each inductive relative to
those before it: `RegistrationComplete` with `AbsentIsBlank` (an id out of the map has lost
its identity; without it a reused field could register a ghost), then `NicksDistinct`, then
`MembersAreLive`, which needs registration (JOIN enrols only registered
clients, and a drop clears both), then `ViewsAgree`, the long one. Names are not
ids, so a roster of names can follow a change of members only if no two members share a
name: the step lemmas rest on `NicksDistinct` in *both* states
(`NamesWithout` and its companions). `DeliveryMatchesRoster` and `IdentityIsKept`
follow from the same conjunction, `Ground`.

At its end, `ServerImplementsPartyline`: initial states map to initial states; each action to an
act of `Partyline` or a stutter, with `InStep'` from `ViewsAgree'`.

**`ReaderLoop_proofs`** — the ends of the buffer stay ordered; the buffer's bound;
`HandledAreLines`. The strengthening says where the buffer may begin: at the start of a line,
or more than `MaxBuffer` bytes into the line that is under way there.

**`ModelLoad_proofs`** — `TypeOK`, which ties the lock to the running probes and those of killed processes; and
`BudgetIsExact`, from an arithmetic lemma about the rounding (`CeilIsExact`) and an
invariant that carries the result of the two screens to the warm-up.

**`Launch_proofs`** — the inductive invariant `IInv` records what each test has
established when the next one is reached: the manifest is valid, the row is one
of its rows and its route is the login, the environment is of that account
(`EnvIsOf`), and, while omf-core runs (`Answering`), holds only safe and managed names, so that
what comes from the vault, which is neither, cannot replace anything; and that omf-core has to write what
one cache in `seen` holds of the names it was asked for. It yields
`ChildEnvIsItsAccounts`, `AsksOnlyForCredentials`, `SecretsAreWhole` and `InjectionOverridesNothing`.

**`Installer_proofs`** — `TypeOK`, and `NothingIsLost`, strengthened by two facts. `Fresh`: the current run has put nothing yet
under a name it has still to handle, so that no backup is written over another. `Saved`: what
is about to be removed or written over is in a backup or has been given up. An interruption
breaks neither, since it can only spoil a backup whose original is still in place, or an original
whose backup is complete.

**`Threads_proofs`** — `TypeOK`, `NothingIsLost` and `ImplementsLineLog`, from one inductive invariant in
two layers. `Discipline` is about who does what: types, `OneAtATime` (the handlers exclude each other, with
all their writes), `ClientsAreServed` (a thread that ends has dropped its client), and `AtOwnCommand`, which
is what makes the second inductive: a thread that has the mutex is at a command of its own connection, or at
its end, which it handles as a QUIT. `Lines` is about what is written: `NothingIsLost`, and `HandlerShape`,
that the writes left to the handler that runs are the rest of the pieces of its own line, for peers that
differ. Without it a step that writes to one peer could owe that peer a second copy. The step that
matters is `Lock`: it appends to the log and, by the same stroke, owes each peer in the audience two pieces,
so the sequence "lines meant for p" grows on both sides of the equation by the same line. `Write` moves a piece
from what is owed to the socket, `PeerReads` from the socket to what has been read. The refinement maps every second
`PeerReads` to `Receive`, `Lock` to `Handle`, `PeerCloses` to `Close`, and everything else to a stutter.
The lines meant for a peer are a recursive function of the log; what it computes is proved
(`FilteredAppend`) from an induction principle for *sets* of naturals (`Induct`), which
comes from the library's theorem on minimal elements.

**`Manifest_proofs`** — `TypeOK`; then `RoutedIsWithinFloor` and `ClampsAreLogged` from `LoadInv`, which
records what `Validate` has established (names differ, no managed name is allowed) and, once loaded, that
each limit is the clamped one of what was asked. That names differ is needed for the log: it names a
backend, and would otherwise tell two requests apart no more. `ReadersAgree` (theorem `TheReadersAgree`)
relates a reader that fills its structs line by line, and overwrites, to one whose result is a function
of the whole file. It needs `ReadInv`: where the reader is (`AtLine`: which tables it has opened, that it has passed none the structs do not have, and
that it is in the limits of the current backend exactly when the last header says so), and that all it
holds is either what some line it has passed says or the zero value, with no such line passed
(`RowsRead`, `LimitsRead`, `SchemaRead`). At the end no line is left, and the file the Rust reader takes
has each key at most once, so that "some line" is the line the other one reads. `SameFilesAreTaken` (theorem
`SameFiles`) needs two more conjuncts, about refusals: `LinesTaken`, that every line passed is one that its
place in the *whole* file allows (`ReadableIsTaken` goes from the reader's three variables to that place),
and `Verdict`, which says why a file is where it is: taken at its end with complete backends, refused at a line that
cannot be read, or refused at its end. One direction reads the floor's conditions off `LinesTaken`; the
other shows that neither kind of refusal can befall a file the floor takes, the second from `rows = CoreBackends(doc)`.

**`ToonText_proofs`** — the lines of TOON, for texts of any length over any characters. The theorems say that what is
written is read back as it was: `QuotedIsRead` for a text in quotes, `PrimitiveIsRead` for a value without structure
(`StringIsRead` when it is a string, the rest numbers and literals), `RowIsRead` for a row of such values, `KeyIsRead` for
a key, `FieldIsRead` for a key with its value, `HeaderIsRead` for an array's header. They also say that a line is not
taken for one of another kind: `RowIsNoField` and `FieldIsNoRow` (where a table ends), `PrimitiveIsNoField` (a root or
an item of a list), and in `FieldIsRead` that a field is no header. `TokenIsStable` goes the other way, from what a
document may hold: whatever a token is read as is read so again after it is written (a number in the range below); and `NumberKeepsItsDigits` says that
the form a number is given on the way is the same number. All are stated of single lines; `RoundTrip` has them inside
whole documents, checked for short ones.

- *Quotes.* The argument is about one pass over a line, whose mode (`Scan`: bare, quoted, after a
  backslash) is a recursive function; `ModeFacts` gives its recursive equation, and inductions over *sets* of naturals do
  the rest. `Quoted` says where each character of a text ends in what is written for it; `QuotedInside` that
  between the quotes the pass is never bare and every place is read as what it was written for; `QuotedCloses` that the
  first closing quote is the last one written. Without quotes, `BareToken` takes every way `parse_primitive_token` could
  read a text as something else and finds it among the reasons of `needs_quoting`.
- *Rows.* A cell is `Closed` when a pass leaves it bare and meets no delimiter bare in it; `CellStep` is the loop
  invariant of `split_delimited` within a cell, `SplitJoined` from cell to cell. The same with a colon for the
  delimiter tells rows from fields.
- *Headers.* The brackets are found by searches that may not stop inside a quoted key or column; the length is read
  back because its digits are those of `Decimal`.
- *Numbers.* `Canonical` is the form `canonical_number` gives: digits with no needless zero before or after the
  point, and a sign only if some digit counts. `NumberIsCanonical` shows it of whatever looks like a number, with a
  point anywhere and any exponent: `ShownAs` says which digits `expand_exponent` shows and where it puts the point,
  `Stripped` what `strip_trailing_zeros` leaves of them. `CanonicalStays` shows that such a number is not changed by
  a second pass. Theorem `NumberIsStable` puts the two together.
- *Their value.* `NumberKeepsItsDigits` says that a number is still the same number: `DigitAt(s, k)` is the digit of
  weight 10^k in `s`, whatever its point and exponent, and it is the same at every `k` before and after, as the sign is
  when a digit counts. The three steps of the code only add or drop zeros around the digits (`Among`, `AmongKeeps`): the
  padding (`PaddedFacts`), the zeros before the first digit shown (`ShownDigits`) and those stripped after the
  last (`StrippedDigits`). The model's numbers are exact where the code has doubles: what is proved of
  numbers holds of the code for those whose digits a double gives back (up to 15 that count, in its range), and says
  nothing of one that it rounds, or of one beyond its range, which the code reads as a number and writes as `null`.

A letter here is any character without a rule of its own. In the code a key without quotes is of ASCII
letters and digits only, and trimming knows more blanks than four, but the same ones when it writes as when it reads.

**Only model-checked:** all liveness (`ShortLinesAreHandled`, `StallsEnd`,
`ClosedPeersLeave`, `LoadsEnd`, `SecretsAreNotFatal`), because TLAPS has no proof rules here for
fairness and `ENABLED`. The properties of `Toon`, whose encoder and parser are mutually recursive operators, which
the provers do not expand: of its documents the single lines are proved. `NumbersKeepTheirValue` compares integers,
sums over the digits, and what such a sum is for every number of digits needs an induction over data;
`NumberKeepsItsDigits` says the same digit by digit.

## What is not modelled

- `bind_listener`, which removes whatever is at the path, and the Emacs probe: who owns a path is decided
  by which daemon started last, and no document promises anything else.
- The block of a client that stops reading because its own write waits: in `Threads` a peer of `Mute` may stop for
  any reason, and what it does to the others is the same.
- The order of replies within one handler, numerics that only inform the sender,
  MOTD, WHO, MODE, and everything about wording.
- The wire parser: a pure function with no counterpart.
- TOON: indentation that is not in whole levels or not of two spaces, a length
  in brackets beyond 64 bits, doubles that round or overflow (`1e400` is read as a number and written as `null`), `\r` at the end of a line; the elisp codec.
- The manifest's comments and blank lines, escapes, literal and multi-line strings, inline tables, tables
  and array elements of other shapes, negative numbers; where the file is looked for.
- The lexical comparison of paths, argv, exit codes; the secrets payload's syntax
  and its freshness, on which nothing depends here.
- `migrate-from-v1.sh`, which runs once; the installer's `--dry-run`, its two example
  files, and a backup directory that is used twice; doctor, pickers, tmux, registrar: reports, vendored shell
  code, other programs' state, a sum.
- Prose for language models.

## Open

What would add most next:

1. **Migration.** `migrate-from-v1.sh`, with the order in which `find` yields files as a choice; a backup
   directory that is used twice; an abstract store with backups for `Installer` to implement.
2. **Daemon.** `ReaderLoop` composed with `Ircd`: commands are what framing lets through.
3. **Socket.** Two daemons, `bind_listener`, the Emacs probe and the fallback.

## Use

    tlc -config MCIrcd.cfg MCIrcd          # each MC module has its .cfg of the same name
    tlc -config MCToonListItems.cfg MCToon
    tlapm Ircd_proofs.tla

The largest runs take one to three minutes on two workers.
