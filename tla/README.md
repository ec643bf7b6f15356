# razer: models, model checking and proofs

TLA+ specifications of the razer mouse configuration tool: the library
`librazer` that talks to the mice, the daemon `razerd` on top of it, and the
client libraries `librazerd` (C) and `pyrazer` (Python) that talk to the
daemon. TLC checks small instances of them (`*.cfg`), TLAPS proves some of the
results for every value of the constants (`*_proofs.tla`). `PROJECT.json` lists
components, runs, the code lines each definition stands for, hazards, findings
and theorems.

    tlc -config MouseLife.cfg MCMouseLife     # one run: <run>.cfg and its module
    tlapm MouseLife_proofs.tla                # one proof module

## 1. The system

    razercfg, GTK, Qt, Python user interfaces
        |  librazerd.c (C)          |  pyrazer/main.py (Python)
        |                           |
    ----+------- /run/razerd/socket, /run/razerd/socket.privileged -------
        |
    razerd.c          one thread, one command at a time
        |  function calls, event callback
    librazer.c        list of mice, claims, USB context, reconnect guard
        |  struct razer_mouse, base_ops
    hw_*.c            drivers: cached settings, commit;
                      profile_emulation.c and synapse.c below some of them
        |  libusb
    the mouse

| Part | State it keeps | Operations | Talks to |
|---|---|---|---|
| USB context, claims (`librazer.c` 1122-1297) | handle, detached kernel drivers, `claim_count` | claim, release, both with a reference count | libusb; called by everything that touches a device |
| Reconnect guard (`librazer.c` 1455-1607) | old address, context | init before, wait after a command that reboots the device | drivers |
| Device list (`librazer.c` 364-408, 903-1072) | `mice_list` | rescan, reconfigure, new, free | event callback into razerd |
| DeathAdder (`hw_deathadder.c`) | cached settings, `commit_pending`, last committed frequency | setters, two forms of a commit that may reboot the mouse (firmware before and after 1.25), init | USB context |
| Drivers that write at once (13 files, nine over `hw_chroma_extended.c`) | cached settings | init, setters that send their commands | USB context |
| Drivers that defer (`hw_krait.c`, `hw_deathadder2013.c`, `hw_taipan.c`, `hw_naga.c`) | cached settings, `commit_pending` | init, setters, commit | USB context |
| Drivers of mice with a memory (`hw_boomslangce.c`, `hw_copperhead.c`, `hw_lachesis.c`, `synapse.c` for two more) | copy of the mouse's profiles, `commit_pending` | read at init, setters per profile, commit of everything | USB context |
| Profile emulation (`profile_emulation.c`) | profiles, active profile | a first commit when the mouse is found, setters per profile, commit | every driver whose mouse has one profile, unless razerd was started with `-p` |
| razerd (`razerd.c`) | list of clients, list of privileged clients, pointer to the list of mice | some 25 commands, broadcast of NEWMOUSE/DELMOUSE, firmware transfer | sockets, librazer |
| librazerd (`librazerd.c`) | up to three connections, lock, event ring, eventfd, thread | one call per command, open, close, read_event | razerd, the application's event loop |
| pyrazer (`main.py`) | two connections, lock, notifications set aside | one call per command, poll for notifications, firmware upload | razerd |
| Configuration (`config.c`, `librazer.c` 410-870) | parsed sections | initial settings of a new mouse | device list |
| User interfaces (`ui/`) | widgets | - | client libraries |

What is hard here, and which part's correctness depends on it:

* **Concurrency.** razerd is one thread and runs each command to its end, so its
  handlers do not interleave with each other; they interleave with the devices
  (unplugged, rebooted, suspended between any two calls), with clients that
  close, do not read, or send half of a firmware image, and a client's requests
  interleave with broadcasts to it. In librazerd, threads share one connection,
  and the notification thread shares a ring and an eventfd with the application.
* **Failure.** Every libusb call may fail, and each failure path must leave
  count, handle, kernel drivers, cached setting and flags in agreement.
  razerd may exit, and a client may disconnect, anywhere.
* **Ordering.** Settings are cached and written by a later commit, at the last
  release of a claim, or forced on resume. Replies carry no request number: who
  gets which answer is decided by order alone, in three separate programs.
* **Timeouts.** The guard gives a rebooting device three seconds.
* **Copies.** Most mice cannot be read: what the daemon reports is the driver's copy. The
  others are read once, when they are found, and written whole by each commit. Both kinds lose
  or change settings behind the driver's back (power, the profile button).

What makes each part correct:

* claims: count, handle and kernel drivers agree; each claim is given back on every path;
* drivers: a setting accepted from the user is owed to the device until a commit
  succeeded, and a commit does no more than it must; the device does what the copy says unless
  somebody was told otherwise; a memory keeps what nobody changed;
* razerd: what it grants is what is counted, nothing that was set is left
  uncommitted without an error, a client knows when its list is out of date, and
  the daemon always gets back to its clients;
* librazerd and pyrazer: each call gets its own answer, all of it, and returns;
  open cleans up; events are delivered in order, and the application is woken.

## 2. The modules

| Module | Models | Its state and actions |
|---|---|---|
| `MouseOps` | USB claim/release, reference count, reconnect guard, setter and commit of the DeathAdder in its four `Kinds`, reconfigure, free, the first commits of a new mouse | pure: each operator maps a mouse to the set of `[err, m]` a call may return; a libusb failure is a member of the set |
| `SettingCache` | what a driver promises about a cached setting (abstract) | `want`, `has`, `owed`, `astray`, `sent`, `sends`; choose, deliver, settle, try, forget, replace |
| `MouseLife` | one mouse and its callers | `exists`, `mouse`; claim, release, set, reconfigure, free, new, unplug, plug, suspend |
| `Razerd` | the daemon: sockets, both command sets, broadcasts, bulk transfer, with librazer's list below it | `mice` (the daemon's pointer) apart from `miceList` (librazer's), `dev`, connections, their queues, `bulk`; one action per main-loop step, one operator per handler |
| `Session` | a client's calls and the form of every reply, in C and in Python; pyrazer's firmware upload | `lock`, `call`, the two directions of the connection (`up`, `down`); one table per program and group of commands; `bulk` for the upload razerd reads |
| `ClientOpen` | `razerd_open` | `pc` over its thirteen steps, what is `held`; the daemon's answers, broadcasts and exit |
| `EventQueue` | bounded FIFO of events that drops only when full (abstract) | `arriving`, `waiting`, `taken`; arrive, put, drop, get, miss |
| `NotifyQueue` | notification thread, ring, eventfd, `razerd_read_event`, `razerd_close`, razerd's exit | one action per step between locks and system calls |
| `ProfileEmu` | emulated profiles over a driver that writes at once (the Viper's) | `data`, `active`, `res`, `hw` (driver and device); one action per setter, power loss |
| `DriverTypes` | what a driver keeps, what its commands write, what a callback returns | pure |
| `AtOnceDrivers`, `DeferringDrivers` | the thirteen and the four drivers | pure: one operator per driver and callback, giving the changed copy and the commands it sends, and per driver what may become of a command |
| `Drivers` | one mouse, any of the seventeen drivers, with the profile emulation above it or without, razerd's calls | `emulated`, `cache` (the driver's copy), `dev` (the device), `pending`, `call` (the commands and callbacks left), `held`; one action per transfer, callback, command, probe, release; `ProfileCommit` is what the emulation has the driver do |
| `ProfileDrivers` | the five drivers of mice with a memory | pure: the wire form of each item, what reading it does to the copy, the order of reads and writes, the setters |
| `InitialConfig` | `mouse_apply_initial_config` for these mice | pure: the items of the section that fits, what each does to the copy, and what is an error |
| `Profiles` | one such mouse and razerd's calls, across daemons | `cache`, `mem` (the mouse's memory), `pending`, `call` (the exchanges left), `held`; one action per exchange, command, failure, the mouse's button, the end of the daemon; `ConfigureItem` applies the next item of the configuration file to a mouse that was found, `Configured` ends that |
| `MouseOps_proofs` | - | lemmas, one for each call of the library, that two modules of theorems rest on |
| `MouseLife_proofs`, `Razerd_proofs`, `Session_proofs`, `Librazerd_proofs` (of `ClientOpen` and `NotifyQueue`), `ProfileEmu_proofs`, `Drivers_proofs`, `Profiles_proofs` | - | theorems |
| `MC*` | - | constants of the runs |

`Razerd` composes with `MouseOps`: each of its handlers applies the same
claim, set, commit and release operators that `MouseLife` checks, to the mouse it names; `MouseOps_proofs`
proves about them once for both. `Drivers` and `Profiles` each compose a
module of drivers with the claims and releases of razerd's handlers; they take the USB claim as
given (`MouseOps` has its failures) and take each call apart into its transfers instead, which
`MouseOps` has as one outcome. `MouseLife` implements
`SettingCache` and `NotifyQueue` implements `EventQueue`, both by refinement
(`DeliversLastChoice`, `Fifo`).

### How code and model correspond

* **Settings.** A driver caches several settings and writes all of them with one
  commit; the model has one, the scan frequency, which is the one with extra
  behaviour: its change reboots a DeathAdder. `BadValue` stands for a value the
  setter stores and the commit cannot encode (`-EINVAL` in `deathadder_do_commit`).
  `PowerOn` is what the device holds after it lost power.
* **`Kinds`** of a DeathAdder: `black` is sent everything with each commit; `classic` (firmware 1.25 and
  later; also the 3500) reboots in addition if the frequency changed, and is then sent everything
  again; `legacy` (a Classic with older firmware) is sent its frequency only if it changed, and reboots to take it up;
  `bootloader` is sent nothing, and its commits succeed. A legacy device is assumed to come back from that reboot with the frequency it
  was sent, or else the code would never set one. `astray` says that the device was reset, or a commit failed
  after the device took the setting, since the setting was last sent with success. The kind is the device's for good:
  a device that leaves its bootloader is another one, with another product number (and one that is in it is not found
  now, its entry in the table of devices being commented out, `librazer.c:272`; the driver's code for it is modelled all the same). A new mouse is `Initialised` by the driver's first
  commit and then, unless razerd was started with `-p`, `EmulationStarted` makes a second one.
  **`ConfigFlaps`** lets `razer_generic_usb_claim` give up after ten rounds, where it
  reports success with a closed handle. **`ShortWrites`** lets libusb report a
  transfer of no bytes, which `deathadder_usb_write` passes on as success.
* **A razerd handler is one step**, since nothing else of the daemon runs during
  it. Its replies are only queued by the step (`todo`), and written one by one
  (`Send`), because a client that does not read makes the daemon wait there; no
  other command is taken meanwhile (`Busy`).
* **Setters.** SETFREQ, SETLED, SETDPIMAPPING, SETACTIVEPROF, SETBUTFUNC and
  CHANGEDPIMAPPING have the same bracket of claim, set, release and are one
  operation `set`, whose setter may store, refuse, or store and fail.
  SETPROFNAME has no claim and is one of its own. Commands that only read are
  `query`.
* **Profile emulation** is modelled over the Viper's driver, which has no commit callback and
  writes in each setter. Its axes other than the first take no mapping, so a mapping stored for
  one makes every commit stop there. X and Y resolution are one. Profile names and button
  functions (which this driver has not) are left out. What the emulation does to the other drivers is in `Drivers`: with `emulated`, a probe ends
  with a first commit of what the driver reports (`ProfileCommit`), and SETFREQ, SETDPIMAPPING and SETACTIVEPROF commit all
  that the active profile has, whichever profile that is, or reach no callback. Drivers that defer have it written by the
  release, whose error the emulation ignores as razerd does.
* **Drivers.** A driver is its operators: `ViperPointer`, `ViperLeds`, `ViperInit` and so on give
  what a callback of it stores and sends. Nine drivers send through `hw_chroma_extended.c` and
  are the same program with other limits, stages and LEDs (`Ext...`); each has its own three
  definitions all the same. A command is a function from the items it writes to their values, and
  it ends as lost, spoilt (taken, with an error), done, or ignored (not taken, without an error:
  own packets whose status the driver only logs, or a transfer of no bytes). SETLED
  is its up to three callbacks, decided when the command comes. Two of a driver's stages are kept.
* **Memories.** An item is what one exchange reads or writes, its read-back included: the
  active profile, the LEDs, the mappings, a profile, its name, Synapse's global item. `...Wire` is
  the copy as the mouse keeps it, with the codes for frequencies and resolutions and their widths;
  `...Took` is the copy after a read. A mapping has one dimension, a mouse one LED, and a button map is
  a value (its encoding is not modelled). Allocation is left out.
* **Configuration.** A file is a sequence of sections; the pattern that is a section's name is
  represented by the mice that it fits, and the items' text by what it says. Patterns and text are not
  modelled; that the first section that fits is taken, that `disabled` is read from it alone, and that
  all sections of its name are applied up to the first error, is. A claim that fails before the
  items are applied (`librazer.c:856-860`, then none is) is not modelled either. `ConfigTakesHold` looks only at items that name their profile.
* **Uploads.** A behaviour of `Session` looks at one connection (`wire`), the control one or the
  privileged one, since the lock and the daemon are the same for both and an upload uses only the latter. On it
  the unit is a chunk, and a command is as long as four (`BULK_CHUNK_SIZE`, `COMMAND_MAX_SIZE`): what razerd
  takes for a command depends on how much there is.
* **Topics.** In `Drivers` and `Profiles` the clients of one behaviour change one kind of
  setting (`topic`): the pointer or one LED; one of active profile, frequency,
  mapping, resolution, LED, colour, buttons, name. The setters of different kinds touch different
  fields of the copy, and a commit writes all of them whatever was changed.
* **Ghosts** record what the properties need and the code does not keep:
  `granted`, `told` (Razerd), `took`, `of`, `big` (Session), `heard` (ClientOpen), `failed`, `lost` (ProfileEmu), `doubt`, `topic` (Drivers, Profiles), `first`, `touched`, `misread`, `fresh` (Profiles),
  `lost`, `failed`, `bad` (a mouse).
* Definitions named "Faulty variant" are not part of any specification: each is the
  form of the definition below it that a plausible mistake would give it, and
  the property it is paired with in `PROJECT.json` fails with it.

## 3. The runs

| Run | Question | Bounds |
|---|---|---|
| `MouseLife` | Does any order of calls and failures lose a setting, leak a handle, reboot a settled mouse, leave a setting uncommitted? Does it implement `SettingCache`? | all four kinds, 2 interfaces, 3 values, 3 nested claims, reboots and a configuration that does not settle |
| `Razerd_claims` | Do claims, settings, handles and clients' lists survive every order of commands, disconnects, rescans and unplugging? | one client of each kind, one mouse (`black`), a good and a bad value, 2 claims, one command and one reply per socket |
| `Razerd_live` | Does the daemon get back to its clients from a firmware transfer and from clients that read late? | image of up to 2 chunks, scans that fail |
| `Session` | Do the three programs agree on every reply, for all commands but GETREV, with events in between and a daemon that exits? Do pyrazer and razerd count the chunks of an upload alike? | 2 threads, 3 calls, lists of up to 2 entries, 1 event, images of 0 to 2 chunks and one that is too large |
| `ClientOpen` | Does `razerd_open` clean up from each of its steps and return? | 2 broadcasts |
| `ProfileEmu` | Does the device have the active profile's settings after any order of edits, switches and failures? | 2 profiles, 2 axes, 2 shared mappings, 2 good frequencies, a default and a bad one |
| `NotifyQueue` | Is the ring a FIFO that drops only when full, is any wakeup lost, does close return? | ring of 3, 2 bytes under way, 2 kinds of events and other bytes |
| `Drivers` | Does the device do what the driver's copy says? Is an accepted setting sent, or pending, or its failure told? Does a new mouse get the settings its driver reports, and a reconfiguration restore them? | all 17 drivers, with and without the emulation, 2 stages, 1 failed transfer or loss of power, frequencies 0 (unknown), 250 (not supported), 1000, resolutions 5000 and 30000 (over every maximum), 3 modes, 2 colours |
| `Profiles` | Does the memory follow the copy? Does it keep what nobody changed? Would the next daemon find what this one reports? Does a mouse that was found have what the configuration file says? | all 5 drivers, 2 profiles, no file or one of six sections with 25 items (disabled, in two parts, repeated, wrong, without a profile, for other mice), 1 failed exchange or daemon that ends in the middle, frequencies 125 and 250 (not supported), resolution 6500 (more than a byte) |
| `MouseLife_released`, `Session_hotplug`, `ClientOpen_root` | each one statement of a comment or header that the code does not keep (section 5) | the smallest that shows it |

Why the bounds are enough: nested claims matter as 0, 1 and more; two
interfaces give a claim that fails between them; three values give a device
that holds neither the last nor the last committed choice; the daemon's handlers touch one mouse
each, so a second mouse adds no interplay except in the order of a
reconfiguration, which is left open; a socket with room for one reply is the one on which the
daemon blocks soonest; two profiles and
two mappings are the least that can share one; two entries distinguish a list's entries from its count, and three
calls a late answer from a lost one; a ring of 3 is full with 2 events
and wraps, and the theorems about it hold for every size. In `Drivers` and `Profiles` one failure
is enough for each property about what a failure leaves: the state after it is one that any
later call starts from, and every order of later calls follows; the theorems about `Drivers`
hold for any number. Two profiles are the
least of which one is not in use, and the order of the profiles' reads and writes is the code's. Where a run is
infinite without it, a bound stands in a guard: `MaxClaims`, `SocketRoom`, `MaxChunks`,
`MaxCalls`, `MaxEvents`, `MaxEntries`, `MaxFaults`, `NrProfiles`.

Deadlock is checked for `MouseLife`, `Razerd`, `ProfileEmu`, `Drivers` and `Profiles`, which never stop. The other
models end by themselves (calls are bounded, `razerd_open` returns, the queue is closed).

### Fairness

* `Razerd`: the daemon takes the steps it can take (it is one runnable
  thread), and `mainloop` visits every connection in each round, hence strong
  fairness of `Serve` for each: it can be disabled again and again by other
  clients' commands, never for ever. Clients read what they are sent, and
  a client that flashes sends its next chunk or closes. The last two are
  assumptions about clients: razerd has no timeout, and without them a client
  can stop it (a hazard of the list, true of the code).
* `Session`: razerd serves and goes on reading an upload, a thread in a call goes on receiving. No client is
  assumed to make a call.
* `ClientOpen`: the library goes on, razerd accepts and serves.
* `MouseLife`, `ProfileEmu`, `Drivers` and `Profiles` assume no fairness: nobody
  has to claim, change or unplug a mouse, and nothing is promised to happen by itself.
* `NotifyQueue`: the thread and the application's loop are scheduled. Neither
  razerd nor a close is assumed to happen.

## 4. What is proved

`MouseLife_proofs`, for every number of interfaces, set of values and bound on claims:

* `Invariance`: `IInv` is an invariant. The checked invariants are not inductive: that a
  setting is not lost needs to know that what was committed (`old`) is what is cached unless a commit
  is pending, that a commit pending without a claim has failed, that an open handle implies a
  claim, and the types of all fields. `IInv` is their conjunction, and the proof goes action by
  action through `MouseOps_proofs`: one lemma per library function (and one for each form of the commit), each says
  what every result of the function satisfies, and the functions that call it cite
  it. Every call, failing or not, either tries (what is owed stays owed) or delivers
  (the device holds the cached setting), and these two relations compose.
* `TypeCorrect`, `NoHandleLeaks`, `SettledNotRebooted`, `LastReleaseCommits`
  follow from it without further assumptions. `NoSettingLost` and `Refinement` (that every
  step is a step of `SettingCache` or a stutter) assume `~ShortWrites`; with short
  writes neither holds (section 5). Both speak of all kinds: a `legacy` commit of an unchanged frequency delivers nothing (`Settle`), so that
  for it the two results say what is left, that a device which is not astray has the frequency its driver reports.
* `HandlesOwned`: for kinds that do not reboot and with a configuration that settles, claimed and open
  are the same and no closed handle is used. `MouseLife_released` shows that the first assumption is needed.

`Razerd_proofs`, for any number of clients, privileged clients and mice (finitely many: `MiceAssumption`; the list of
mice is scanned one by one), any set of commands and any bounds:

* `Invariance`: `IInv` is an invariant: types, and `Books`: the claims of each mouse are the claims `granted`, a mouse that is not listed has
  none, the daemon's list is a part of librazer's, and each mouse is `Sound`, as the lemmas of `MouseOps_proofs` need and
  give it. `ClaimsConserved` says the first of these, and is not inductive without the rest: a handler's release is only known to take
  back one claim if the count is what was granted. The proof goes by what a step does to the mice (`DaemonSteps`): nothing, a
  handler's sequence of calls on one mouse, a rescan, a reconfiguration, or a device that comes or goes.
* `TypeCorrect`, `ClaimsBalanced` and `DebtsExplained` follow from it without further assumptions.
* `NoSettingLost` assumes `~ShortWrites`: no mouse differs from what the daemon believes unless a commit is owed or the device was reset; a `legacy` one or one in its bootloader that is astray may.
* `HandlesOwned` assumes `~ConfigFlaps` and that no kind reboots, as `MouseLife_proofs` does and for the same reason.
* `ClientsInformed` assumes `~ScanMayFail`: a failed scan empties the daemon's list and tells nobody (section 5). It rests on an invariant of its own, `View`.

`Session_proofs`, for any number of threads, calls and notifications, lists of any length, images of any number of
chunks, and every subset of the commands that both libraries have (`CommandsAssumption`; a thread is not called
`Nobody`, `ThreadsAssumption`):

* `SameForm`: the three programs' tables of replies agree on every command. This is the fact about the code that the rest needs, and it is
  proved from the tables by evaluating them (`RazerdRepliesSays`, `LibReadsSays`, `PyReadsSays`).
* `Invariance`: `IInv` is an invariant. `InStep` speaks of the time between two calls only. `Whereabouts` says where the answer of a call in progress is: its command
  is the last one on its way up (`Sent`); or razerd has written the answer, and what the call has not received of it lies in one piece in `down`, with
  notifications before and after (`Answered`); or razerd has gone and it never comes (`Cut`). A count in the answer is the
  number of entries that follow it, which is what `Taken` goes on to expect. `Place` does the same for an upload, in six places.
* `TypeCorrect`, `StaysInStep`, `UploadsStayInStep` follow from it. `FailuresExplained` is a part of it: in step no token is
  refused (`NothingRefused`) and no chunk is answered with an error (`NoErrorAck`).

`Librazerd_proofs`, of `ClientOpen`, for any number of notifications and a daemon that may exit or not: `OpenTypeCorrect`,
`NothingLeaks`, `HandleComplete`. The inductive invariant (`Holding`, `Heard`) says that at each of its steps `razerd_open` holds exactly
what the steps before it took, but for the privileged connection, which it may go without; so the label that a failing
step jumps to gives back all there is.

The same module, of `NotifyQueue`, for every ring size and set of events: `TypeCorrect`, `WakeupsKept`,
`FifoImplemented` (which includes that an event is dropped by a full ring and by no other: an event is `arriving` until it is put in or dropped). The ring's contents are a sequence read off the
slots from `head` on; lemmas about the wrapped index (`ModLow`, `ModHigh`, `SlotAfter`, `CountIs`, `SlotIs`)
show that putting in appends to it and taking out removes its head.

`ProfileEmu_proofs`, for any number of profiles, axes, mappings, frequencies and resolutions:
`ActiveIsApplied`, `RefusalsReported`, `TypeCorrect`. The checked invariants are not inductive: that a
changed mapping is sent when it should be rests on the driver's current mapping being the
active profile's, which holds only after a commit without error. `Settled` says so, and `Committing`
is the lemma about one commit: without an error, nothing of it was left out.

`Drivers_proofs`, for any subset of the seventeen drivers, any number of faults and any values that clients
ask for (`DriversAssumption`):

* `Invariance`: `IInv` is an invariant. `DeviceAgrees` is not inductive, for a transfer writes a command that an
  earlier step put together. `IInv` adds that every command still to be sent writes what the
  copy says *now* (`CommandsFor(cache)`), so that it may arrive late, or twice, or not at all. No callback changes the copy
  while commands are left. It also adds that drivers that write at once keep one mapping for both axes
  (`Sane`): were it not so, a changed stage would not be sent. One lemma per callback (`...Sound`) shows
  what a driver must do for that: what its result changes in the copy it either sends or owes. The nine
  extended drivers share theirs.
* `TypeCorrect` and `DeviceFollows` follow from it.
* `NothingOwed` and `Restored` need in addition where the owed settings are (`Owing`): among the
  commands of the call, or, for a deferring driver, in what the next commit writes, and then it is pending.
* `FreqStuck` rests on the order of each commit: the frequency is its last command (`FreqLast`), so that one
  that cannot be encoded holds back nothing else.
* `ProbeSends`: what a probe has not sent yet is among what it has left to send, or will be owed by the callbacks it has left, or is
  among what the commit of its release has left, or stays pending when that commit failed (`Configured`); its lemmas
  (`...InitWrites`) collect the items each driver's init writes, and those that only the emulation's commit does (`Silent`).

`Profiles_proofs`, for any subset of the five drivers, any two or more profiles, any number of faults, any files in
which the parser found numbers where it reads numbers (`FilesAssumption`), and any values that clients ask for:

* `Invariance`: `IInv` is an invariant. What the run checks is not inductive, since a probe or a commit takes one
  exchange at a time and anything may fail in between. `IInv` adds where razerd is (`Whereabouts`); that what is owed is among
  the writes left, or pending (`Owing`); that nothing was written until the reads are over, except that the Lachesis was
  turned to another profile and back (`Untold`); which fields of the copy a driver keeps alike for all profiles (`Shape`,
  `FreqsRead`); and, for each item that nobody changed, that the memory still means what it meant at the beginning, and the copy says
  so too as soon as the item was read (`Keeping`).
* `TypeCorrect`, `MemoryFollows` and `UntouchedStays` follow from it. `NextDaemonAgrees` also needs that each setting of a copy
  comes back when its item is written and read (`WireIsWord`, `OlderFound`, `SynapseFound`), for all copies whose frequencies and
  resolutions the wire has codes for.
* It rests on lemmas about the operators. What a setter changes in the memory's form of the copy is in what it owes, and
  the copy that it leaves is one again (`Sound`, one lemma for each setter of each driver, `SetterSound`); a commit writes every
  item, and a probe reads every one that can be read (`WriteOps`, `ReadOps`); a reading changes its own item's part of the copy and no other
  (`Takes`); an item of the configuration is one call of a setter or an error (`ItemSound`). There is one lemma per action.
* `ConfigHolds` has an invariant of its own beside `IInv`, `Told`: while the configuration is applied, the copy obeys those
  items applied so far that no later one replaced, and says nothing that the wire has no code for (`Says`); what is left is
  the rest of the section, or nothing after an error (`Applied`, `Remains`, `Stops`). As long as nobody changes anything it stays so. The step is `ItemHeeded`: after an item
  without an error the copy obeys it, and every earlier one on another subject is obeyed as before. That what the
  copy obeys is in force in the memory is `NextDaemonAgrees`. The theorem assumes that there are at most ten profiles, since a
  Synapse mapping's number is `10 * profile + own`, and is compared with resolutions (the code has five profiles); and that the items `res` for a Synapse
  mouse name their profile (`ResolutionsNamed`, as those of the run do): without one, what the item asks for depends on
  the profile in use at that point of the section.

The assumptions on constants are those stated in the modules. Only model-checked:

* all liveness (`Responsive`, `CallsReturn`, `OpenReturnsToUsers`, `OldestTaken`, `CloseReturns`), which is out of
  the prover's reach;
* `ConfigTakesHold` for files with a `res` that names no profile for a Synapse mouse, which is not in the run either.

## 5. Where the code and its comments disagree

Each has a run whose counterexample shows it; `PROJECT.json` quotes the lines.

* `MouseLife_released`: a device that does not come back from its reboot leaves a claimed
  mouse with a closed handle; the next release closes it again.
* `Session_hotplug`: librazerd's command connection receives notifications, which shift its answers.
* `ClientOpen_root`: `razerd_open` waits for ever for a privileged revision.

Seen in the code while modelling, modelled as it is, and without a run of its own:

* **Zero bytes.** A transfer of no bytes counts as a successful commit (`hw_deathadder.c:101`;
  `ShortWrites` in `MouseOps` makes `NoLostSetting` fail, and the proofs exclude it). The other drivers
  that build their own packets do the same, and report success for a command
  whose status says refused, which they only log (`ignored` in `Drivers`).
* **Claims of the dead.** A privileged client that disconnects leaves its claims (`granted` in `Razerd`).
* **Failed scan.** `razerd.c:1243` replaces the list of mice by NULL when a scan fails, and tells nobody.
* **Resume.** `razer_reconfig_mice` (`librazer.c:1064`) does nothing for the thirteen drivers
  without a commit callback, and reports success, where the user interface says "Re-apply all hardware
  settings". `ReconfigRestores` speaks of what a commit writes, for them nothing.
* **Colour and mode.** SETLED with a new colour and a mode other than static leaves a LED of the extended
  drivers static while the driver reports the mode (`Follows` admits it); a mode such a device has
  not is stored, reported and shown as static, where `librazer.h:79-82` has a mask of supported modes.
  Mamba and DeathAdder Chroma refuse a new colour for the spectrum after they have sent the mode.
* **Stored before sent.** A setter of an at-once driver that failed leaves its value in the copy, so that
  SETLED with the same values finds nothing to change and succeeds without sending (`told` in `Drivers`).
* **Defaults never sent.** The inits of Krait and DeathAdder 2013 send nothing. In a razerd with the profile emulation (the default) the
  emulation's first commit does, in a release whose error is dropped; in one started with `-p` they report defaults they never
  sent. The Essential reports effects it never sent in either (`Unprobed`).
* **DeathAdder Classic with firmware older than 1.25.** Its frequency is sent only if it differs from
  `old_frequency` (`hw_deathadder.c:207`), a field whose comment (67) says "For predicting reconnect events only". The driver's first commit
  (712-713, 778) therefore does not send the default; the forced commit after a resume does not restore
  the frequency, where the user interface says "Re-apply all hardware settings" (`ui.py:1011`); and if a commit fails
  after the frequency went out, and the user then chooses the former value again, the next commit succeeds and leaves the
  device with the other one. In all three the daemon reports a frequency that the device need not have, with nothing pending
  (`astray`; `NoLostSetting` admits exactly this). A device in its bootloader, when it is found, accepts every setting (160).
* **Unencodable frequency.** The deferring drivers accept any frequency and their commits then fail
  for good, in the release, whose error nobody hears. Drivers of mice with a memory accept any
  too, and write 125 Hz (Boomslang, Copperhead) or 1000 Hz (Lachesis, Synapse) for it while reporting what was
  asked for; resolutions are not checked and cut to a byte (Synapse: 6500 becomes 100). `Sayable` excludes them.
* **Stages.** Some stages of `hw_orochi.c`, `hw_mamba_wireless.c` (450) and
  `hw_mamba_tournament_edition.c` (16000, over its own maximum) are no supported resolutions.
* **Wrong answers.** Copperhead, Lachesis and Synapse take the reply for another profile, or defaults for one that cannot be read, and
  write it back at once (`misread`); Boomslang refuses it, but turns the LEDs on at every probe, and it and the
  Copperhead ignore the error of the command that stores an uploaded profile. A Lachesis profile that is refused ends the
  commit as a success (`hw_lachesis.c:280`). A Synapse write does not look at the flag that says
  the mouse took it. Missing Synapse mappings become 5600 DPI stages of the mouse.
* **Resolutions by value.** For `res=2:1800` `mouse_apply_one_config` (`librazer.c:583-598`) takes the first mapping
  of 1800 DPI, and for Synapse they are the mappings of all profiles: if the first profile has one, the
  second refuses it as not its own, which is an error, and the rest of the section is dropped. (`IsError`;
  these mice come with profiles that are alike.) `freq` is read for them, and ignored.
* **Names.** SETPROFNAME (`razerd.c:1567-1605`) does not claim the mouse and `synapse_profile_set_name`
  wants it claimed: it always fails unless a privileged client holds the mouse. A name that is
  too long is cut, stored, and answered with an error.
* **Too large an image.** `command_flashfw` (`razerd.c:1836`) refuses it before it reads a chunk, while
  `flashFirmware` of pyrazer (`main.py:667`) has sent the first one with the command. What is not received together with the command is
  taken for a command, and if its first byte is one's number it is answered, so that a later upload
  gets a code that is not its own; or it is received with a part of the next upload's command, and razerd and pyrazer then wait
  for each other, pyrazer with its lock held (`big` in `Session`).
* **Result not received.** `razerd_flash_firmware` (`librazerd.c:1104-1131`) receives the codes of the chunks and
  not the result, so it would report success for a mouse that was not flashed; since `razerd_open` never returns with a
  privileged connection, it cannot be reached. With `UploadReadsAcks`, which is its count, `UploadInStep` fails.
* **Unknown LED states.** `librazer.h:117-118` calls a new state of UNKNOWN an error; the drivers with own packets take it for ON.

## 6. What is left out

* `libusb` is external: attaching kernel drivers to an open handle is assumed to work, its
  reference counts and memory allocation failures are not modelled.
* A signal: librazerd's `send` raises SIGPIPE when razerd has exited; the process is assumed to ignore it.
* pyrazer reads each message with one `recv` of the wanted length and takes what
  comes; a message is assumed to arrive whole.
* The encoding of button maps (`buttonmapping.c`), the text of the configuration file and the idstr
  patterns, the configuration of mice other than those of `ProfileDrivers`, and the boot loader, whose
  `cypress_open` always fails (`cypress_bootloader.c:253`).
* Serial numbers and firmware versions, except where a failure to read them ends a probe.
* The content of queries, wording of log messages, formatting of strings.
* User interfaces (input and output over the client libraries) and the tools under `firmware/`.

## 7. Plan

Done: `MouseOps`, `MouseLife`, `Razerd`, `Session`, `ClientOpen`, `NotifyQueue`, `ProfileEmu`, `Drivers` and `Profiles` (with
`InitialConfig`), all with their proofs. Next, in this order:

1. `Lifecycle`: pid file, `/run/razerd`, sockets, signal handler of two daemons started together.
2. Algorithms over bounded inputs: configuration parser, idstr globs, button maps, revision and UTF-16 conversions.
3. LEDs and resolutions of the DeathAdder, and its firmware update.

Proofs: every invariant and action property that a passing run checks is a theorem, under the assumptions of section 4;
what is left is liveness.
